------------------------------ MODULE Tracing -------------------------------
(***************************************************************************)
(* base::Tracer and AutoTracer (log/tracer.h, tracer.cc) with TraceMarker  *)
(* (trace-marker.cc), built for ftrace, on top of Logging.  All threads    *)
(* format their messages into one static buffer, without a lock: the       *)
(* vsnprintf of one may be cut in two by that of another.                  *)
(*                                                                         *)
(* What a thread still has to do for the tracing calls it is in is a list  *)
(* of steps.  ftrace records are kept as a reader of the trace sees them:  *)
(* of each thread the begin records not ended yet.                         *)
(***************************************************************************)
EXTENDS Logging, Functions

CONSTANTS Names,        \* what scopes are called: a name is told by its length
                        \* (without conversions, which AutoTracer would have
                        \* expanded a second time)
          Printf,       \* the name of intrinsic my_printf, which traces itself
          Header,       \* the length of "B|pid|"
          LOGGER_BUFFER_SIZE,
          Scoping,      \* the threads that open scopes
          MaxDepth,     \* bound: scopes open in one thread
          MaxFailed     \* bound: calls of my_printf that fail

ASSUME LengthsAssumption ==
    Names \subseteq Nat /\ Printf \in Nat /\ Header \in Nat /\ LOGGER_BUFFER_SIZE \in Nat

VARIABLES s_logger_buffer_,     \* its first and second half
          fd_,                  \* of trace_marker_: -1 if it could not be opened
          scopes,               \* of each thread: the AutoTracers alive
          todo,                 \* of each thread: the steps to come, with the name traced
          marks,                \* of each thread: its begin records not ended
          failed,               \* history: how many my_printf returned early
          raced                 \* history: another thread formatted before its name was used

tracing == <<s_logger_buffer_, fd_, scopes, todo, marks, failed, raced>>
vars == <<logging, tracing>>

NoName == 0
Spilt == -1             \* what lies behind the buffer that WriteBegin formats into

Init == /\ LoggingInit
        /\ s_logger_buffer_ = <<NoName, NoName>>
        /\ fd_ \in {-1, 3}
        /\ scopes = [t \in Threads |-> <<>>]
        /\ todo = [t \in Threads |-> <<>>]
        /\ marks = [t \in Threads |-> <<>>]
        /\ failed = [t \in Threads |-> 0]
        /\ raced = [t \in Threads |-> FALSE]

Steps(name, ops) == [i \in 1..Len(ops) |-> <<ops[i], name>>]
TraceBegin_MarksFirst(name) == Steps(name, <<"mark", "head", "tail", "debug">>)   \* (mutant)
TraceBegin(name) == Steps(name, <<"head", "tail", "debug", "mark">>)
TraceEnd(name) == Steps(name, <<"head", "tail", "end", "debug">>)

AtRest(t) == todo[t] = <<>> /\ Idle(t)
Begin(t, steps) == todo' = [todo EXCEPT ![t] = steps]

\* AutoTracer's constructor and destructor.
Enter(t, name) ==
    /\ AtRest(t) /\ Len(scopes[t]) < MaxDepth
    /\ scopes' = [scopes EXCEPT ![t] = Append(@, name)]
    /\ Begin(t, TraceBegin(name))
    /\ UNCHANGED <<logging, s_logger_buffer_, fd_, marks, failed, raced>>

Leave(t) ==
    /\ AtRest(t) /\ scopes[t] # <<>>
    /\ scopes' = [scopes EXCEPT ![t] = SubSeq(@, 1, Len(@) - 1)]
    /\ Begin(t, TraceEnd(scopes[t][Len(scopes[t])]))
    /\ UNCHANGED <<logging, s_logger_buffer_, fd_, marks, failed, raced>>

\* my_printf: given an address outside the memory it returns without X_TRACE_END.
my_printf(t) ==
    /\ AtRest(t)
    /\ \/ /\ Begin(t, TraceBegin(Printf) \o Steps(Printf, <<"info">>) \o TraceEnd(Printf))
          /\ UNCHANGED failed
       \/ /\ SumFunction(failed) < MaxFailed
          /\ Begin(t, TraceBegin(Printf) \o Steps(Printf, <<"error">>))
          /\ failed' = [failed EXCEPT ![t] = @ + 1]
    /\ UNCHANGED <<logging, s_logger_buffer_, fd_, scopes, marks, raced>>

-----------------------------------------------------------------------------
Now(t) == IF todo[t] = <<>> \/ ~Idle(t) THEN <<"none", NoName>> ELSE todo[t][1]
Done(t) == todo' = [todo EXCEPT ![t] = SubSeq(@, 2, Len(@))]

\* t has begun to format a name that it has not marked yet.
Formatted(t) == /\ todo[t] # <<>> /\ todo[t][1][1] \in {"tail", "debug", "mark"}
                /\ \E i \in DOMAIN todo[t] : todo[t][i][1] = "mark"

\* One half of vsnprintf(s_logger_buffer_), which cuts a name that is too long.
Cut(name) == IF name < LOGGER_BUFFER_SIZE THEN name ELSE LOGGER_BUFFER_SIZE - 1
Format(t) ==
    /\ Now(t)[1] \in {"head", "tail"}
    /\ s_logger_buffer_' = IF Now(t)[1] = "head" THEN [s_logger_buffer_ EXCEPT ![1] = Now(t)[2]]
                           ELSE [s_logger_buffer_ EXCEPT ![2] = Cut(Now(t)[2])]
    /\ raced' = [u \in Threads |-> raced[u] \/ (u # t /\ Formatted(u))]
    /\ Done(t)
    /\ UNCHANGED <<logging, fd_, scopes, marks, failed>>

LogStep(t) ==
    /\ \/ Now(t)[1] = "debug" /\ logWrite(t, DEBUG)
       \/ Now(t)[1] = "info" /\ logWrite(t, INFO)
       \/ Now(t)[1] = "error" /\ logWrite(t, ERROR)
    /\ Done(t)
    /\ UNCHANGED <<s_logger_buffer_, fd_, scopes, marks, failed, raced>>

\* Without the marker file WriteBegin and WriteEnd only log an error.
NoMarker(t) ==
    /\ Now(t)[1] \in {"mark", "end"} /\ fd_ = -1
    /\ logWrite(t, ERROR)
    /\ Done(t)
    /\ UNCHANGED <<s_logger_buffer_, fd_, scopes, marks, failed, raced>>

\* "B|pid|" and the buffer, in one write.  snprintf's result is the length the record
\* would have had, so a record that was cut is sent with what follows it in memory.
Record(text) == IF Header + text[2] < LOGGER_BUFFER_SIZE THEN text ELSE <<text[1], Spilt>>
WriteBegin(t) ==
    /\ Now(t)[1] = "mark" /\ fd_ # -1
    /\ marks' = [marks EXCEPT ![t] = Append(@, Record(s_logger_buffer_))]
    /\ Done(t)
    /\ UNCHANGED <<logging, s_logger_buffer_, fd_, scopes, failed, raced>>

\* "E" ends the latest begin record of the thread.
WriteEnd(t) ==
    /\ Now(t)[1] = "end" /\ fd_ # -1
    /\ marks' = [marks EXCEPT ![t] = SubSeq(@, 1, Len(@) - 1)]
    /\ Done(t)
    /\ UNCHANGED <<logging, s_logger_buffer_, fd_, scopes, failed, raced>>

Trace(t) == Format(t) \/ LogStep(t) \/ NoMarker(t) \/ WriteBegin(t) \/ WriteEnd(t)

Client(t) == \/ t \in Scoping /\ \E name \in Names : Enter(t, name)
             \/ Leave(t) \/ my_printf(t)
             \/ /\ todo[t] = <<>>
                /\ Use(t)
                /\ UNCHANGED tracing

Advance(t) == Trace(t) \/ (Proceed(t) /\ UNCHANGED tracing)

Next == \E t \in Threads : Client(t) \/ Advance(t)

\* A call that has begun is scheduled until it returns; nobody need begin one.
Spec == Init /\ [][Next]_vars /\ \A t \in Threads : WF_vars(Advance(t))

-----------------------------------------------------------------------------
\* Of a thread that is in no tracing call, the trace shows exactly the scopes it is
\* in, by their names: what came between formatting a name and marking it (the
\* debug message, other threads) does no harm, unless another thread formatted
\* then, and nothing is left open but by my_printf's early return.  A name is told
\* as long as it and the header before it fit the buffer.
MarksTellScopes ==
    \A t \in Threads :
        (fd_ # -1 /\ AtRest(t)) =>
            /\ Len(marks[t]) = Len(scopes[t]) + failed[t]
            /\ (failed[t] = 0 /\ ~raced[t]) =>
                  \A i \in DOMAIN scopes[t] :
                      Header + scopes[t][i] < LOGGER_BUFFER_SIZE =>
                          marks[t][i] = <<scopes[t][i], scopes[t][i]>>

\* Every call of the tracer and the log returns: constructing the logger logs nothing
\* itself, so neither it nor those who wait for it wait for ever, whatever others trace.
EveryCallReturns == \A t \in Threads : ~AtRest(t) ~> AtRest(t)
=============================================================================
