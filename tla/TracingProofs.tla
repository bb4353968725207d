---------------------------- MODULE TracingProofs ----------------------------
(***************************************************************************)
(* Tracing, with the Logging below it, for any threads, names, levels and  *)
(* sizes: the two filters of the log agree, and the trace of each thread   *)
(* tells the scopes it is in.  The steps a thread has still to do are      *)
(* described by what is pending in them, which taking the first step away  *)
(* changes only if it was a "mark" or an "end".                            *)
(***************************************************************************)
EXTENDS Tracing, TLAPS

(* The log. *)

Constructs(t) == call[t] \in {"configure", "adopt"}

\* The static is a lock: whoever constructs it is alone, and nobody uses it before.
LogPart ==
    /\ call \in [Threads -> {"idle", "get", "configure", "adopt", "append"}]
    /\ vm_level \in 1..Off
    /\ \A t \in Threads : Constructs(t) => log_instance = "busy"
    /\ \A t, u \in Threads : Constructs(t) /\ Constructs(u) => t = u
    /\ \A t \in Threads : call[t] = "append" => log_instance = "ready"
    /\ tuned => log_instance = "ready"

LogInv == LogPart /\ FiltersAgree

(* The steps of a thread. *)

Ops == {"head", "tail", "debug", "info", "error", "mark", "end"}
Step == Ops \X Nat
Pending(steps, op) == \E i \in DOMAIN steps : steps[i][1] = op

\* Steps are of one name, mark it at most once, right after formatting it and the
\* debug message, and end it at most once, after that.
Ordered(steps) ==
    /\ steps \in Seq(Step)
    /\ \A i, j \in DOMAIN steps : steps[i][2] = steps[j][2]
    /\ \A i, j \in DOMAIN steps :
          steps[i][1] = "mark" /\ steps[j][1] \in {"mark", "end"} => i <= j
    /\ \A i, j \in DOMAIN steps : steps[i][1] = "end" /\ steps[j][1] \in {"mark", "end"} => j <= i
    /\ \A i \in DOMAIN steps : steps[i][1] = "mark" =>
          /\ i <= 4
          /\ i >= 2 => steps[i - 1][1] = "debug"
          /\ i >= 3 => steps[i - 2][1] = "tail"
          /\ i = 4 => steps[1][1] = "head"

\* When t has done all it has to do, its open records are its scopes and the failed calls.
Due(steps, op) == IF Pending(steps, op) THEN 1 ELSE 0
Balanced(t) == Len(marks[t]) + Due(todo[t], "mark")
                 = Len(scopes[t]) + failed[t] + Due(todo[t], "end")

\* A name to be marked that nobody has overwritten is in the buffer as far as t has
\* formatted it.
Prepared(t) ==
    (Pending(todo[t], "mark") /\ ~raced[t]) =>
        /\ todo[t][1][1] = "tail" => s_logger_buffer_[1] = todo[t][1][2]
        /\ todo[t][1][1] \in {"debug", "mark"} =>
              s_logger_buffer_ = <<todo[t][1][2], Cut(todo[t][1][2])>>

\* What Enter marks is the scope just opened.
Opening(t) ==
    (Pending(todo[t], "mark") /\ ~Pending(todo[t], "end") /\ failed[t] = 0) =>
        scopes[t] # <<>> /\ todo[t][1][2] = scopes[t][Len(scopes[t])]

Told(t) ==
    (failed[t] = 0 /\ ~raced[t]) =>
        \A i \in DOMAIN scopes[t] :
            i <= Len(marks[t]) /\ Header + scopes[t][i] < LOGGER_BUFFER_SIZE =>
                marks[t][i] = <<scopes[t][i], scopes[t][i]>>

Pair == (Nat \cup {Spilt}) \X (Nat \cup {Spilt})
TraceTypes ==
    /\ s_logger_buffer_ \in Pair
    /\ scopes \in [Threads -> Seq(Nat)]
    /\ marks \in [Threads -> Seq(Pair)]
    /\ failed \in [Threads -> Nat]
    /\ DOMAIN todo = Threads

TraceInv ==
    /\ TraceTypes
    /\ \A t \in Threads : Ordered(todo[t]) /\ Prepared(t)
    /\ fd_ # -1 => \A t \in Threads : Balanced(t) /\ Opening(t) /\ Told(t)

-----------------------------------------------------------------------------
(* The log.                                                                 *)

\* Nothing is constructed at first.
LEMMA LogStarts == LoggingInit => LogInv
  BY LevelsAssumption DEF LoggingInit, LogInv, LogPart, FiltersAgree, Constructs, Off

\* A step of a call in progress: only the thread that found no logger constructs it,
\* and it sets both levels before others can see either.
LEMMA ProceedKeepsLog ==
  ASSUME LogInv, NEW t \in Threads, Proceed(t)
  PROVE  LogInv'
  <1> USE DEF LogInv, LogPart, FiltersAgree, Constructs, Goto
  <1>1. CASE GetInstance(t)
    BY <1>1 DEF GetInstance
  <1>2. CASE Configure(t)
    BY <1>2, LevelsAssumption DEF Configure
  <1>3. CASE Adopt(t)
    BY <1>3 DEF Adopt, LevelOf, Off
  <1>4. CASE Logging(t)
    BY <1>4 DEF Logging
  <1>5. QED
    BY <1>1, <1>2, <1>3, <1>4 DEF Proceed

\* A message that is let through goes to the logger, the others nowhere.
LEMMA LogWriteKeepsLog ==
  ASSUME LogInv, NEW t \in Threads, NEW level, logWrite(t, level)
  PROVE  LogInv'
  BY DEF LogInv, LogPart, FiltersAgree, Constructs, Goto, logWrite

\* Setting a level of a logger that is ready is remembered.
LEMMA UseKeepsLog ==
  ASSUME LogInv, NEW t \in Threads, Use(t)
  PROVE  LogInv'
  <1> USE DEF LogInv, LogPart, FiltersAgree, Constructs
  <1>1. ASSUME NEW level \in Levels, setLogLevel(t, level) PROVE LogInv'
    BY <1>1 DEF setLogLevel
  <1>2. ASSUME NEW level \in Levels, Setloglevel(t, level) PROVE LogInv'
    BY <1>2, LevelsAssumption DEF Setloglevel, Off
  <1>3. QED
    BY <1>1, <1>2, LogWriteKeepsLog DEF Use

\* What tracing does to the log it does by logWrite.
LEMMA NextKeepsLog == LogInv /\ [Next]_vars => LogInv'
  <1> SUFFICES ASSUME LogInv, [Next]_vars PROVE LogInv'
    OBVIOUS
  <1>1. ASSUME UNCHANGED logging PROVE LogInv'
    BY <1>1 DEF logging, LogInv, LogPart, FiltersAgree, Constructs
  <1>2. CASE UNCHANGED vars
    BY <1>1, <1>2 DEF vars
  <1>3. ASSUME NEW t \in Threads, Client(t) PROVE LogInv'
    BY <1>1, <1>3, UseKeepsLog DEF Client, Enter, Leave, my_printf
  <1>4. ASSUME NEW t \in Threads, Trace(t) PROVE LogInv'
    BY <1>1, <1>4, LogWriteKeepsLog DEF Trace, Format, LogStep, NoMarker, WriteBegin, WriteEnd
  <1>5. QED
    BY <1>2, <1>3, <1>4, ProceedKeepsLog DEF Next, Advance

\* Of any threads, whoever constructs the logger does so alone.
THEOREM LogInvariant == Spec => []LogInv
  <1>1. Init => LogInv
    BY LogStarts DEF Init
  <1>2. QED
    BY <1>1, NextKeepsLog, PTL DEF Spec

\* The filter of logWrite and the level of the logger agree until somebody sets one.
THEOREM FiltersAlwaysAgree == Spec => []FiltersAgree
  <1>1. LogInv => FiltersAgree
    BY DEF LogInv
  <1>2. QED
    BY <1>1, LogInvariant, PTL

-----------------------------------------------------------------------------
(* The steps of a call.                                                     *)

\* What two sequences one after the other hold.
LEMMA Concatenated ==
  ASSUME NEW S, NEW s \in Seq(S), NEW r \in Seq(S)
  PROVE  /\ s \o r \in Seq(S) /\ Len(s \o r) = Len(s) + Len(r)
         /\ \A i \in 1..Len(s) : (s \o r)[i] = s[i]
         /\ \A i \in 1..Len(r) : (s \o r)[Len(s) + i] = r[i]
  OBVIOUS

\* The list of a begin record: formatting, the debug message, the record.
LEMMA BeginSteps ==
  ASSUME NEW name \in Nat
  PROVE  /\ TraceBegin(name) \in Seq(Step) /\ Len(TraceBegin(name)) = 4
         /\ TraceBegin(name)[1] = <<"head", name>> /\ TraceBegin(name)[2] = <<"tail", name>>
         /\ TraceBegin(name)[3] = <<"debug", name>> /\ TraceBegin(name)[4] = <<"mark", name>>
  BY DEF TraceBegin, Steps, Step, Ops

\* The list of an end record.
LEMMA EndSteps ==
  ASSUME NEW name \in Nat
  PROVE  /\ TraceEnd(name) \in Seq(Step) /\ Len(TraceEnd(name)) = 4
         /\ TraceEnd(name)[1] = <<"head", name>> /\ TraceEnd(name)[2] = <<"tail", name>>
         /\ TraceEnd(name)[3] = <<"end", name>> /\ TraceEnd(name)[4] = <<"debug", name>>
  BY DEF TraceEnd, Steps, Step, Ops

\* A message between them.
LEMMA MessageStep ==
  ASSUME NEW name \in Nat, NEW op \in Ops
  PROVE  /\ Steps(name, <<op>>) \in Seq(Step) /\ Len(Steps(name, <<op>>)) = 1
         /\ Steps(name, <<op>>)[1] = <<op, name>>
  BY DEF Steps, Step

\* Entering a scope has a record to begin, of the scope's name, and none to end.
LEMMA BeginOrdered ==
  ASSUME NEW name \in Nat
  PROVE  LET steps == TraceBegin(name)
         IN  Ordered(steps) /\ Pending(steps, "mark") /\ ~Pending(steps, "end") /\ steps[1] = <<"head", name>>
  <1> DEFINE steps == TraceBegin(name)
  <1>1. /\ steps \in Seq(Step) /\ DOMAIN steps = 1..4
        /\ steps[1] = <<"head", name>> /\ steps[2] = <<"tail", name>>
        /\ steps[3] = <<"debug", name>> /\ steps[4] = <<"mark", name>>
    BY BeginSteps
  <1> HIDE DEF steps
  <1>2. Ordered(steps)
    BY <1>1 DEF Ordered
  <1>3. Pending(steps, "mark") /\ ~Pending(steps, "end")
    BY <1>1 DEF Pending
  <1>4. QED
    BY <1>1, <1>2, <1>3 DEF steps

\* Leaving one has a record to end and none to begin.
LEMMA EndOrdered ==
  ASSUME NEW name \in Nat
  PROVE  LET steps == TraceEnd(name)
         IN  Ordered(steps) /\ ~Pending(steps, "mark") /\ Pending(steps, "end")
  <1> DEFINE steps == TraceEnd(name)
  <1>1. /\ steps \in Seq(Step) /\ DOMAIN steps = 1..4
        /\ steps[1] = <<"head", name>> /\ steps[2] = <<"tail", name>>
        /\ steps[3] = <<"end", name>> /\ steps[4] = <<"debug", name>>
    BY EndSteps
  <1> HIDE DEF steps
  <1>2. Ordered(steps)
    BY <1>1 DEF Ordered
  <1>3. ~Pending(steps, "mark") /\ Pending(steps, "end")
    BY <1>1 DEF Pending
  <1>4. QED
    BY <1>2, <1>3 DEF steps

\* my_printf that succeeds has one of each.
LEMMA PrintfOrdered ==
  LET steps == TraceBegin(Printf) \o Steps(Printf, <<"info">>) \o TraceEnd(Printf)
  IN  Ordered(steps) /\ Pending(steps, "mark") /\ Pending(steps, "end") /\ steps[1] = <<"head", Printf>>
  <1> DEFINE begin == TraceBegin(Printf)
             message == Steps(Printf, <<"info">>)
             end == TraceEnd(Printf)
  <1>1. /\ begin \in Seq(Step) /\ Len(begin) = 4
        /\ begin[1] = <<"head", Printf>> /\ begin[2] = <<"tail", Printf>>
        /\ begin[3] = <<"debug", Printf>> /\ begin[4] = <<"mark", Printf>>
    BY BeginSteps, LengthsAssumption
  <1>2. message \in Seq(Step) /\ Len(message) = 1 /\ message[1] = <<"info", Printf>>
    BY MessageStep, LengthsAssumption DEF Ops
  <1>3. /\ end \in Seq(Step) /\ Len(end) = 4
        /\ end[1] = <<"head", Printf>> /\ end[2] = <<"tail", Printf>>
        /\ end[3] = <<"end", Printf>> /\ end[4] = <<"debug", Printf>>
    BY EndSteps, LengthsAssumption
  <1> HIDE DEF begin, message, end
  <1>4. PICK first, steps : first = begin \o message /\ steps = first \o end
    OBVIOUS
  <1>5. /\ first \in Seq(Step) /\ Len(first) = 5
        /\ first[1] = <<"head", Printf>> /\ first[2] = <<"tail", Printf>>
        /\ first[3] = <<"debug", Printf>> /\ first[4] = <<"mark", Printf>>
        /\ first[5] = <<"info", Printf>>
    <2>1. /\ first \in Seq(Step) /\ Len(first) = 4 + 1
          /\ \A i \in 1..4 : first[i] = begin[i]
          /\ \A i \in 1..1 : first[4 + i] = message[i]
      <3>1. begin \in Seq(Step) /\ message \in Seq(Step)
        BY <1>1, <1>2
      <3>2. /\ first \in Seq(Step) /\ Len(first) = Len(begin) + Len(message)
            /\ \A i \in 1..Len(begin) : first[i] = begin[i]
            /\ \A i \in 1..Len(message) : first[Len(begin) + i] = message[i]
        BY <1>4, <3>1, Concatenated
      <3>3. QED
        BY <1>1, <1>2, <3>2
    <2>2. first[4 + 1] = message[1]
      BY <2>1
    <2>3. QED
      BY <1>1, <1>2, <2>1, <2>2
  <1>6. /\ steps \in Seq(Step) /\ DOMAIN steps = 1..9
        /\ steps[1] = <<"head", Printf>> /\ steps[2] = <<"tail", Printf>>
        /\ steps[3] = <<"debug", Printf>> /\ steps[4] = <<"mark", Printf>>
        /\ steps[5] = <<"info", Printf>>
        /\ steps[6] = <<"head", Printf>> /\ steps[7] = <<"tail", Printf>>
        /\ steps[8] = <<"end", Printf>> /\ steps[9] = <<"debug", Printf>>
    <2>1. /\ steps \in Seq(Step) /\ Len(steps) = 5 + 4
          /\ \A i \in 1..5 : steps[i] = first[i]
          /\ \A i \in 1..4 : steps[5 + i] = end[i]
      <3>1. first \in Seq(Step) /\ end \in Seq(Step)
        BY <1>3, <1>5
      <3>2. /\ steps \in Seq(Step) /\ Len(steps) = Len(first) + Len(end)
            /\ \A i \in 1..Len(first) : steps[i] = first[i]
            /\ \A i \in 1..Len(end) : steps[Len(first) + i] = end[i]
        BY <1>4, <3>1, Concatenated
      <3>3. QED
        BY <1>3, <1>5, <3>2
    <2>2. steps[5 + 1] = end[1] /\ steps[5 + 2] = end[2] /\ steps[5 + 3] = end[3] /\ steps[5 + 4] = end[4]
      BY <2>1
    <2>3. QED
      BY <1>3, <1>5, <2>1, <2>2
  <1>7. Ordered(steps)
    BY <1>6, LengthsAssumption DEF Ordered
  <1>8. Pending(steps, "mark") /\ Pending(steps, "end")
    BY <1>6 DEF Pending
  <1>9. QED
    BY <1>4, <1>6, <1>7, <1>8 DEF begin, message, end

\* my_printf that returns early has a record to begin only.
LEMMA FailingOrdered ==
  LET steps == TraceBegin(Printf) \o Steps(Printf, <<"error">>)
  IN  Ordered(steps) /\ Pending(steps, "mark") /\ ~Pending(steps, "end") /\ steps[1] = <<"head", Printf>>
  <1> DEFINE begin == TraceBegin(Printf)
             message == Steps(Printf, <<"error">>)
  <1>1. /\ begin \in Seq(Step) /\ Len(begin) = 4
        /\ begin[1] = <<"head", Printf>> /\ begin[2] = <<"tail", Printf>>
        /\ begin[3] = <<"debug", Printf>> /\ begin[4] = <<"mark", Printf>>
    BY BeginSteps, LengthsAssumption
  <1>2. message \in Seq(Step) /\ Len(message) = 1 /\ message[1] = <<"error", Printf>>
    BY MessageStep, LengthsAssumption DEF Ops
  <1> HIDE DEF begin, message
  <1>0. PICK steps : steps = begin \o message
    OBVIOUS
  <1>3. /\ steps \in Seq(Step) /\ DOMAIN steps = 1..5
        /\ steps[1] = <<"head", Printf>> /\ steps[2] = <<"tail", Printf>>
        /\ steps[3] = <<"debug", Printf>> /\ steps[4] = <<"mark", Printf>>
        /\ steps[5] = <<"error", Printf>>
    <2>1. /\ steps \in Seq(Step) /\ Len(steps) = 4 + 1
          /\ \A i \in 1..4 : steps[i] = begin[i]
          /\ \A i \in 1..1 : steps[4 + i] = message[i]
      <3>1. begin \in Seq(Step) /\ message \in Seq(Step)
        BY <1>1, <1>2
      <3>2. /\ steps \in Seq(Step) /\ Len(steps) = Len(begin) + Len(message)
            /\ \A i \in 1..Len(begin) : steps[i] = begin[i]
            /\ \A i \in 1..Len(message) : steps[Len(begin) + i] = message[i]
        BY <1>0, <3>1, Concatenated
      <3>3. QED
        BY <1>1, <1>2, <3>2
    <2>2. steps[4 + 1] = message[1]
      BY <2>1
    <2>3. QED
      BY <1>1, <1>2, <2>1, <2>2
  <1>4. Ordered(steps)
    BY <1>3, LengthsAssumption DEF Ordered
  <1>5. Pending(steps, "mark") /\ ~Pending(steps, "end")
    BY <1>3 DEF Pending
  <1>6. QED
    BY <1>0, <1>3, <1>4, <1>5 DEF begin, message

\* Taking the first step away: what is pending stays pending unless it was the first,
\* and a record to be marked comes through its stages in order.
LEMMA RestOrdered ==
  ASSUME NEW steps, Ordered(steps), steps # <<>>
  PROVE  LET rest == SubSeq(steps, 2, Len(steps))
         IN  /\ Ordered(rest) /\ steps[1] \in Step
             /\ Pending(rest, "mark") <=> Pending(steps, "mark") /\ steps[1][1] # "mark"
             /\ Pending(rest, "end") <=> Pending(steps, "end") /\ steps[1][1] # "end"
             /\ steps[1][1] = "mark" => Pending(steps, "mark")
             /\ steps[1][1] = "end" => Pending(steps, "end") /\ ~Pending(steps, "mark")
             /\ Pending(rest, "mark") =>
                   /\ rest # <<>> /\ rest[1][2] = steps[1][2]
                   /\ <<steps[1][1], rest[1][1]>> \in {<<"head", "tail">>, <<"tail", "debug">>, <<"debug", "mark">>}
  <1> DEFINE rest == SubSeq(steps, 2, Len(steps))
  <1>1. /\ steps \in Seq(Step) /\ Len(steps) \in Nat \ {0} /\ DOMAIN steps = 1..Len(steps)
        /\ steps[1] \in Step
    BY DEF Ordered
  <1>2. /\ rest \in Seq(Step) /\ DOMAIN rest = 1..Len(steps) - 1
        /\ \A i \in DOMAIN rest : rest[i] = steps[i + 1] /\ i + 1 \in DOMAIN steps
    BY <1>1
  <1>3. \A i \in DOMAIN steps : i = 1 \/ (i - 1 \in DOMAIN rest /\ rest[i - 1] = steps[i])
    BY <1>1, <1>2
  <1> HIDE DEF rest
  <1>4. /\ \A i, j \in DOMAIN rest : rest[i][2] = rest[j][2]
        /\ \A i, j \in DOMAIN rest :
              rest[i][1] = "mark" /\ rest[j][1] \in {"mark", "end"} => i <= j
        /\ \A i, j \in DOMAIN rest : rest[i][1] = "end" /\ rest[j][1] \in {"mark", "end"} => j <= i
    <2>1. ASSUME NEW i \in DOMAIN rest, NEW j \in DOMAIN rest
          PROVE  /\ rest[i][2] = rest[j][2]
                 /\ rest[i][1] = "mark" /\ rest[j][1] \in {"mark", "end"} => i <= j
                 /\ rest[i][1] = "end" /\ rest[j][1] \in {"mark", "end"} => j <= i
      <3>1. /\ i \in Nat /\ j \in Nat /\ i + 1 \in DOMAIN steps /\ j + 1 \in DOMAIN steps
            /\ rest[i] = steps[i + 1] /\ rest[j] = steps[j + 1]
        BY <1>1, <1>2
      <3>2. i + 1 <= j + 1 => i <= j
        BY <3>1
      <3>3. j + 1 <= i + 1 => j <= i
        BY <3>1
      <3>4. QED
        BY <3>1, <3>2, <3>3 DEF Ordered
    <2>2. QED
      BY <2>1
  <1>5. ASSUME NEW i \in DOMAIN rest, rest[i][1] = "mark"
        PROVE  /\ i <= 3
               /\ i >= 2 => rest[i - 1][1] = "debug"
               /\ i >= 3 => rest[i - 2][1] = "tail"
    <2>1. i + 1 \in DOMAIN steps /\ steps[i + 1][1] = "mark" /\ i \in Nat
      BY <1>1, <1>2, <1>5
    <2>2. i + 1 <= 4 /\ (i + 1 >= 2 => steps[(i + 1) - 1][1] = "debug")
          /\ (i + 1 >= 3 => steps[(i + 1) - 2][1] = "tail") /\ (i + 1 = 4 => steps[1][1] = "head")
      BY <2>1 DEF Ordered
    <2>3. i \in 1..3
      <3>1. i \in Nat /\ i >= 1 /\ i + 1 <= 4
        BY <1>1, <1>2, <2>2
      <3>2. QED
        BY <3>1
    <2>4. CASE i = 1
      BY <2>4
    <2>5. CASE i = 2
      <3>1. 1 \in DOMAIN rest
        BY <1>1, <1>2, <2>5
      <3>2. rest[1] = steps[1 + 1]
        BY <1>2, <3>1
      <3>3. steps[(2 + 1) - 1][1] = "debug"
        BY <2>2, <2>5
      <3>4. rest[2 - 1][1] = "debug" /\ ~(i >= 3)
        BY <2>5, <3>2, <3>3
      <3>5. QED
        BY <2>5, <3>4
    <2>6. CASE i = 3
      <3>1. 1 \in DOMAIN rest /\ 2 \in DOMAIN rest
        BY <1>1, <1>2, <2>6
      <3>2. rest[1] = steps[1 + 1] /\ rest[2] = steps[2 + 1]
        BY <1>2, <3>1
      <3>3. steps[(3 + 1) - 1][1] = "debug" /\ steps[(3 + 1) - 2][1] = "tail"
        BY <2>2, <2>6
      <3>4. rest[3 - 1][1] = "debug" /\ rest[3 - 2][1] = "tail"
        BY <3>2, <3>3
      <3>5. QED
        BY <2>6, <3>4
    <2>7. QED
      BY <2>3, <2>4, <2>5, <2>6
  <1>6. Ordered(rest)
    <2>1. \A i \in DOMAIN rest : rest[i][1] = "mark" =>
             /\ i <= 4
             /\ i >= 2 => rest[i - 1][1] = "debug"
             /\ i >= 3 => rest[i - 2][1] = "tail"
             /\ i = 4 => rest[1][1] = "head"
      <3>1. \A i \in DOMAIN rest : i \in Int
        BY <1>2
      <3>2. QED
        BY <1>5, <3>1
    <2>2. QED
      BY <1>2, <1>4, <2>1 DEF Ordered
  <1>7. ASSUME NEW op
        PROVE  Pending(rest, op) => Pending(steps, op)
    BY <1>2 DEF Pending
  <1>8. ASSUME NEW op, steps[1][1] # op
        PROVE  Pending(steps, op) => Pending(rest, op)
    BY <1>3, <1>8 DEF Pending
  <1>9. /\ steps[1][1] = "mark" => Pending(steps, "mark") /\ ~Pending(rest, "mark")
        /\ steps[1][1] = "end" => Pending(steps, "end") /\ ~Pending(rest, "end") /\ ~Pending(steps, "mark")
    <2>1. 1 \in DOMAIN steps
      BY <1>1
    <2>2. ASSUME NEW op \in {"mark", "end"}, steps[1][1] = op
          PROVE  Pending(steps, op) /\ ~Pending(rest, op)
      <3>1. Pending(steps, op)
        BY <2>1, <2>2 DEF Pending
      <3>2. ASSUME NEW i \in DOMAIN rest, rest[i][1] = op PROVE FALSE
        <4>1. i + 1 \in DOMAIN steps /\ steps[i + 1][1] = op /\ i \in Nat /\ i >= 1
          BY <1>1, <1>2, <3>2
        <4>2. i + 1 <= 1
          BY <2>1, <2>2, <4>1 DEF Ordered
        <4>3. QED
          BY <4>1, <4>2
      <3>3. QED
        BY <3>1, <3>2 DEF Pending
    <2>3. steps[1][1] = "end" => ~Pending(steps, "mark")
      <3>1. SUFFICES ASSUME steps[1][1] = "end", NEW i \in DOMAIN steps, steps[i][1] = "mark" PROVE FALSE
        BY DEF Pending
      <3>2. i <= 1 /\ i \in 1..Len(steps)
        BY <1>1, <2>1, <3>1 DEF Ordered
      <3>3. i = 1
        BY <1>1, <3>2
      <3>4. QED
        BY <3>1, <3>3
    <2>4. QED
      BY <2>2, <2>3
  <1>10. ASSUME Pending(rest, "mark")
         PROVE  /\ rest # <<>> /\ rest[1][2] = steps[1][2]
                /\ <<steps[1][1], rest[1][1]>> \in {<<"head", "tail">>, <<"tail", "debug">>, <<"debug", "mark">>}
    <2>1. PICK i \in DOMAIN rest : rest[i][1] = "mark"
      BY <1>10 DEF Pending
    <2>2. 1 \in DOMAIN rest /\ rest[1] = steps[2] /\ 2 \in DOMAIN steps /\ 1 \in DOMAIN steps
      <3>1. 1 \in DOMAIN rest /\ 2 \in DOMAIN steps /\ 1 \in DOMAIN steps
        BY <1>1, <1>2, <2>1
      <3>2. rest[1] = steps[1 + 1]
        BY <1>2, <3>1
      <3>3. QED
        BY <3>1, <3>2
    <2>3. rest # <<>> /\ rest[1][2] = steps[1][2]
      BY <2>2 DEF Ordered
    <2>4. i + 1 \in DOMAIN steps /\ steps[i + 1][1] = "mark" /\ i \in Nat /\ i >= 1
      BY <1>1, <1>2, <2>1
    <2>5. i + 1 <= 4 /\ (i + 1 >= 2 => steps[(i + 1) - 1][1] = "debug")
          /\ (i + 1 >= 3 => steps[(i + 1) - 2][1] = "tail") /\ (i + 1 = 4 => steps[1][1] = "head")
      BY <2>4 DEF Ordered
    <2>6. i = 1 \/ i = 2 \/ i = 3
      BY <2>4, <2>5
    <2>7. CASE i = 1
      BY <2>1, <2>3, <2>5, <2>7
    <2>8. CASE i = 2
      BY <2>2, <2>3, <2>5, <2>8
    <2>9. CASE i = 3
      BY <2>2, <2>3, <2>5, <2>9
    <2>10. QED
      BY <2>6, <2>7, <2>8, <2>9
  <1>11. QED
    <2>1. Pending(rest, "mark") <=> Pending(steps, "mark") /\ steps[1][1] # "mark"
      BY <1>7, <1>8, <1>9
    <2>2. Pending(rest, "end") <=> Pending(steps, "end") /\ steps[1][1] # "end"
      BY <1>7, <1>8, <1>9
    <2>3. QED
      BY <1>1, <1>6, <1>9, <1>10, <2>1, <2>2 DEF rest

-----------------------------------------------------------------------------
(* The calls.                                                               *)

\* No thread has begun anything at first.
LEMMA TraceStarts == Init => TraceInv
  <1> SUFFICES ASSUME Init PROVE TraceInv
    OBVIOUS
  <1>1. TraceTypes
    BY DEF Init, TraceTypes, Pair, NoName
  <1>2. ASSUME NEW t \in Threads
        PROVE  Ordered(todo[t]) /\ Prepared(t) /\ Balanced(t) /\ Opening(t) /\ Told(t)
    <2>1. todo[t] = <<>> /\ marks[t] = <<>> /\ scopes[t] = <<>> /\ failed[t] = 0
      BY DEF Init
    <2>2. Ordered(<<>>) /\ ~Pending(<<>>, "mark") /\ ~Pending(<<>>, "end")
      BY DEF Ordered, Pending
    <2>3. QED
      BY <2>1, <2>2 DEF Prepared, Balanced, Due, Opening, Told
  <1>3. QED
    BY <1>1, <1>2 DEF TraceInv

\* A thread that is in no call has nothing pending.
LEMMA Rested ==
  ASSUME TraceInv, NEW t \in Threads, AtRest(t)
  PROVE  /\ ~Pending(todo[t], "mark") /\ ~Pending(todo[t], "end")
         /\ fd_ # -1 => Len(marks[t]) = Len(scopes[t]) + failed[t]
  <1>1. ~Pending(todo[t], "mark") /\ ~Pending(todo[t], "end")
    BY DEF AtRest, Pending
  <1>2. Len(marks[t]) \in Nat /\ Len(scopes[t]) \in Nat /\ failed[t] \in Nat
    BY DEF TraceInv, TraceTypes
  <1>3. Due(todo[t], "mark") = 0 /\ Due(todo[t], "end") = 0
    BY <1>1 DEF Due, Pending
  <1>4. fd_ # -1 => Balanced(t)
    BY DEF TraceInv
  <1>5. QED
    BY <1>1, <1>2, <1>3, <1>4 DEF Balanced

\* A call that begins concerns its own thread only.
LEMMA CallKeeps ==
  ASSUME TraceInv, NEW t \in Threads, NEW steps, Begin(t, steps), Ordered(steps),
         Pending(steps, "mark") => steps[1][1] = "head",
         NEW open \in Seq(Nat), scopes' = [scopes EXCEPT ![t] = open],
         NEW number \in Nat, failed' = [failed EXCEPT ![t] = number],
         UNCHANGED <<s_logger_buffer_, fd_, marks, raced>>,
         fd_ # -1 => Balanced(t)' /\ Opening(t)' /\ Told(t)'
  PROVE  TraceInv'
  <1>1. TraceTypes'
    BY DEF TraceInv, TraceTypes, Begin
  <1>2. todo'[t] = steps
    BY DEF TraceInv, TraceTypes, Begin
  <1>3. ASSUME NEW u \in Threads, u # t
        PROVE  /\ Ordered(todo[u])' /\ Prepared(u)'
               /\ fd_ # -1 => Balanced(u)' /\ Opening(u)' /\ Told(u)'
    <2>1. todo'[u] = todo[u] /\ scopes'[u] = scopes[u] /\ failed'[u] = failed[u]
      BY <1>3 DEF TraceInv, TraceTypes, Begin
    <2>2. Ordered(todo[u])' /\ Prepared(u)'
      BY <2>1 DEF TraceInv, Prepared
    <2>3. ASSUME fd_ # -1 PROVE Balanced(u)' /\ Opening(u)' /\ Told(u)'
      <3>1. Balanced(u) /\ Opening(u) /\ Told(u)
        BY <2>3 DEF TraceInv
      <3>2. Balanced(u)'
        BY <2>1, <3>1 DEF Balanced, Due, Pending
      <3>3. Opening(u)' /\ Told(u)'
        BY <2>1, <3>1 DEF Opening, Told, Pending
      <3>4. QED
        BY <3>2, <3>3
    <2>4. QED
      BY <2>2, <2>3
  <1>4. Ordered(todo[t])' /\ Prepared(t)'
    BY <1>2 DEF Prepared
  <1>5. QED
    BY <1>1, <1>3, <1>4 DEF TraceInv

\* A scope is opened with a record to begin.
LEMMA EnterKeeps ==
  ASSUME TraceInv, NEW t \in Threads, NEW name \in Names, Enter(t, name)
  PROVE  TraceInv'
  <1>1. /\ AtRest(t) /\ scopes' = [scopes EXCEPT ![t] = Append(scopes[t], name)]
        /\ Begin(t, TraceBegin(name)) /\ failed' = [failed EXCEPT ![t] = failed[t]]
        /\ UNCHANGED <<s_logger_buffer_, fd_, marks, raced, failed>>
    BY DEF Enter, TraceInv, TraceTypes
  <1>2. PICK steps : steps = TraceBegin(name)
    OBVIOUS
  <1>3. Ordered(steps) /\ Pending(steps, "mark") /\ ~Pending(steps, "end") /\ steps[1] = <<"head", name>>
    BY <1>2, BeginOrdered, LengthsAssumption
  <1>4. todo'[t] = steps /\ steps[1][1] = "head"
    BY <1>1, <1>2, <1>3 DEF Begin, TraceInv, TraceTypes
  <1>5. PICK open \in Seq(Nat) : open = Append(scopes[t], name)
    <2>1. scopes[t] \in Seq(Nat) /\ name \in Nat
      BY LengthsAssumption DEF TraceInv, TraceTypes
    <2>2. Append(scopes[t], name) \in Seq(Nat)
      BY <2>1
    <2>3. QED
      BY <2>2
  <1>6. /\ Len(open) = Len(scopes[t]) + 1 /\ open # <<>> /\ open[Len(open)] = name
        /\ DOMAIN open = 1..Len(scopes[t]) + 1 /\ DOMAIN scopes[t] = 1..Len(scopes[t])
        /\ \A i \in 1..Len(scopes[t]) : open[i] = scopes[t][i]
    <2>1. scopes[t] \in Seq(Nat) /\ name \in Nat
      BY LengthsAssumption DEF TraceInv, TraceTypes
    <2>2. QED
      BY <1>5, <2>1
  <1>7. scopes'[t] = open /\ failed[t] \in Nat /\ Len(marks[t]) \in Nat /\ Len(scopes[t]) \in Nat
    BY <1>1, <1>5 DEF TraceInv, TraceTypes
  <1>8. ASSUME fd_ # -1 PROVE Balanced(t)' /\ Opening(t)' /\ Told(t)'
    <2>1. Len(marks[t]) = Len(scopes[t]) + failed[t]
      BY <1>1, <1>8, Rested
    <2>2. Balanced(t)'
      BY <1>1, <1>3, <1>4, <1>6, <1>7, <2>1 DEF Balanced, Due, Pending
    <2>3. Opening(t)'
      BY <1>3, <1>4, <1>6, <1>7 DEF Opening
    <2>4. Told(t)'
      <3>1. Told(t)
        BY <1>8 DEF TraceInv
      <3>2. SUFFICES ASSUME failed[t] = 0, ~raced[t], NEW i \in DOMAIN open, i <= Len(marks[t]),
                            Header + open[i] < LOGGER_BUFFER_SIZE
                     PROVE  marks[t][i] = <<open[i], open[i]>>
        BY <1>1, <1>7 DEF Told
      <3>3. i \in 1..Len(scopes[t])
        BY <1>6, <1>7, <2>1, <3>2
      <3>4. QED
        BY <1>6, <3>1, <3>2, <3>3 DEF Told
    <2>5. QED
      BY <2>2, <2>3, <2>4
  <1>9. QED
    BY <1>1, <1>2, <1>3, <1>4, <1>5, <1>7, <1>8, CallKeeps

\* A scope is left with a record to end.
LEMMA LeaveKeeps ==
  ASSUME TraceInv, NEW t \in Threads, Leave(t)
  PROVE  TraceInv'
  <1>1. PICK name, open : name = scopes[t][Len(scopes[t])] /\ open = SubSeq(scopes[t], 1, Len(scopes[t]) - 1)
    OBVIOUS
  <1>2. /\ AtRest(t) /\ scopes[t] # <<>> /\ scopes' = [scopes EXCEPT ![t] = open]
        /\ Begin(t, TraceEnd(name)) /\ failed' = [failed EXCEPT ![t] = failed[t]]
        /\ UNCHANGED <<s_logger_buffer_, fd_, marks, raced, failed>>
    BY <1>1 DEF Leave, TraceInv, TraceTypes
  <1>3. /\ scopes[t] \in Seq(Nat) /\ Len(scopes[t]) \in Nat \ {0} /\ failed[t] \in Nat
        /\ Len(marks[t]) \in Nat
    BY <1>2 DEF TraceInv, TraceTypes
  <1>4. name \in Nat
    BY <1>1, <1>3
  <1>5. /\ open \in Seq(Nat) /\ Len(open) = Len(scopes[t]) - 1 /\ DOMAIN open = 1..Len(scopes[t]) - 1
        /\ \A i \in DOMAIN open : i \in DOMAIN scopes[t] /\ open[i] = scopes[t][i]
    BY <1>1, <1>3
  <1>6. PICK steps : steps = TraceEnd(name)
    OBVIOUS
  <1>7. Ordered(steps) /\ ~Pending(steps, "mark") /\ Pending(steps, "end")
    BY <1>4, <1>6, EndOrdered
  <1>8. todo'[t] = steps /\ scopes'[t] = open
    BY <1>2, <1>6 DEF Begin, TraceInv, TraceTypes
  <1>9. ASSUME fd_ # -1 PROVE Balanced(t)' /\ Opening(t)' /\ Told(t)'
    <2>1. Len(marks[t]) = Len(scopes[t]) + failed[t]
      BY <1>2, <1>9, Rested
    <2>2. Balanced(t)'
      BY <1>2, <1>3, <1>5, <1>7, <1>8, <2>1 DEF Balanced, Due, Pending
    <2>3. Opening(t)'
      BY <1>7, <1>8 DEF Opening
    <2>4. Told(t)'
      BY <1>2, <1>5, <1>8, <1>9 DEF Told, TraceInv
    <2>5. QED
      BY <2>2, <2>3, <2>4
  <1>10. QED
    BY <1>2, <1>3, <1>5, <1>6, <1>7, <1>9, CallKeeps

\* my_printf begins and ends a record, or, returning early, begins one and counts as failed.
LEMMA PrintfKeeps ==
  ASSUME TraceInv, NEW t \in Threads, my_printf(t)
  PROVE  TraceInv'
  <1>1. /\ AtRest(t) /\ UNCHANGED <<s_logger_buffer_, fd_, scopes, marks, raced>>
        /\ scopes' = [scopes EXCEPT ![t] = scopes[t]]
    BY DEF my_printf, TraceInv, TraceTypes
  <1>2. scopes[t] \in Seq(Nat) /\ Len(scopes[t]) \in Nat /\ failed[t] \in Nat /\ Len(marks[t]) \in Nat
    BY DEF TraceInv, TraceTypes
  <1>3. fd_ # -1 => Len(marks[t]) = Len(scopes[t]) + failed[t]
    BY <1>1, Rested
  <1>4. CASE /\ Begin(t, TraceBegin(Printf) \o Steps(Printf, <<"info">>) \o TraceEnd(Printf))
             /\ UNCHANGED failed
    <2>1. PICK steps : steps = TraceBegin(Printf) \o Steps(Printf, <<"info">>) \o TraceEnd(Printf)
      OBVIOUS
    <2>2. Ordered(steps) /\ Pending(steps, "mark") /\ Pending(steps, "end") /\ steps[1] = <<"head", Printf>>
      BY <2>1, PrintfOrdered
    <2>3. Begin(t, steps) /\ todo'[t] = steps /\ failed' = [failed EXCEPT ![t] = failed[t]]
      BY <1>4, <2>1 DEF Begin, TraceInv, TraceTypes
    <2>4. ASSUME fd_ # -1 PROVE Balanced(t)' /\ Opening(t)' /\ Told(t)'
      <3>1. Balanced(t)'
        BY <1>1, <1>2, <1>3, <1>4, <2>2, <2>3, <2>4 DEF Balanced, Due, Pending
      <3>2. Opening(t)'
        BY <2>2, <2>3 DEF Opening
      <3>3. Told(t)'
        BY <1>1, <1>4, <2>4 DEF Told, TraceInv
      <3>4. QED
        BY <3>1, <3>2, <3>3
    <2>5. steps[1][1] = "head"
      BY <2>2
    <2>6. QED
      BY <1>1, <1>2, <2>2, <2>3, <2>4, <2>5, CallKeeps
  <1>5. CASE /\ Begin(t, TraceBegin(Printf) \o Steps(Printf, <<"error">>))
             /\ failed' = [failed EXCEPT ![t] = @ + 1]
    <2>1. PICK steps : steps = TraceBegin(Printf) \o Steps(Printf, <<"error">>)
      OBVIOUS
    <2>2. Ordered(steps) /\ Pending(steps, "mark") /\ ~Pending(steps, "end") /\ steps[1] = <<"head", Printf>>
      BY <2>1, FailingOrdered
    <2>3. /\ Begin(t, steps) /\ todo'[t] = steps /\ failed' = [failed EXCEPT ![t] = failed[t] + 1]
          /\ failed'[t] = failed[t] + 1 /\ failed[t] + 1 \in Nat /\ failed[t] + 1 # 0
      BY <1>5, <2>1 DEF Begin, TraceInv, TraceTypes
    <2>4. ASSUME fd_ # -1 PROVE Balanced(t)' /\ Opening(t)' /\ Told(t)'
      <3>1. Balanced(t)'
        <4>1. Due(steps, "mark") = 1 /\ Due(steps, "end") = 0
          BY <2>2 DEF Due, Pending
        <4>2. marks'[t] = marks[t] /\ scopes'[t] = scopes[t] /\ failed'[t] = failed[t] + 1
          BY <1>1, <2>3
        <4>3. Len(marks[t]) + 1 = Len(scopes[t]) + (failed[t] + 1) + 0
          <5>1. Len(marks[t]) = Len(scopes[t]) + failed[t]
            BY <1>3, <2>4
          <5>2. QED
            BY <1>2, <5>1
        <4>4. QED
          BY <2>3, <4>1, <4>2, <4>3 DEF Balanced
      <3>2. Opening(t)' /\ Told(t)'
        BY <2>3 DEF Opening, Told
      <3>3. QED
        BY <3>1, <3>2
    <2>5. steps[1][1] = "head"
      BY <2>2
    <2>6. QED
      BY <1>1, <1>2, <2>2, <2>3, <2>4, <2>5, CallKeeps
  <1>6. QED
    BY <1>4, <1>5 DEF my_printf

-----------------------------------------------------------------------------
(* The steps.                                                               *)

\* The thread's next step is the first on its list.
LEMMA NextStep ==
  ASSUME NEW t \in Threads, Now(t)[1] # "none"
  PROVE  todo[t] # <<>> /\ Idle(t) /\ Now(t) = todo[t][1]
  BY DEF Now

\* What is due after a step.
LEMMA StepTaken ==
  ASSUME TraceInv, NEW t \in Threads, todo[t] # <<>>, Done(t)
  PROVE  /\ DOMAIN todo' = Threads /\ \A u \in Threads : u # t => todo'[u] = todo[u]
         /\ Ordered(todo'[t]) /\ todo[t][1] \in Step
         /\ Pending(todo'[t], "mark") =>
               /\ Pending(todo[t], "mark") /\ todo'[t][1][2] = todo[t][1][2]
               /\ <<todo[t][1][1], todo'[t][1][1]>>
                    \in {<<"head", "tail">>, <<"tail", "debug">>, <<"debug", "mark">>}
         /\ todo[t][1][1] # "end" => (Pending(todo'[t], "end") <=> Pending(todo[t], "end"))
         /\ todo[t][1][1] \notin {"mark", "end"} =>
               /\ Due(todo'[t], "mark") = Due(todo[t], "mark") /\ Due(todo'[t], "end") = Due(todo[t], "end")
         /\ todo[t][1][1] = "mark" =>
               /\ Due(todo[t], "mark") = 1 /\ Due(todo'[t], "mark") = 0
               /\ Due(todo'[t], "end") = Due(todo[t], "end") /\ Pending(todo[t], "mark")
         /\ todo[t][1][1] = "end" =>
               /\ Due(todo[t], "end") = 1 /\ Due(todo'[t], "end") = 0
               /\ Due(todo[t], "mark") = 0 /\ Due(todo'[t], "mark") = 0
  <1>1. PICK steps, rest : steps = todo[t] /\ rest = SubSeq(steps, 2, Len(steps))
    OBVIOUS
  <1>2. DOMAIN todo' = Threads /\ todo'[t] = rest /\ \A u \in Threads : u # t => todo'[u] = todo[u]
    BY <1>1 DEF Done, TraceInv, TraceTypes
  <1>3. Ordered(steps) /\ steps # <<>>
    BY <1>1 DEF TraceInv
  <1>4. /\ Ordered(rest) /\ steps[1] \in Step
        /\ Pending(rest, "mark") <=> Pending(steps, "mark") /\ steps[1][1] # "mark"
        /\ Pending(rest, "end") <=> Pending(steps, "end") /\ steps[1][1] # "end"
        /\ steps[1][1] = "mark" => Pending(steps, "mark")
        /\ steps[1][1] = "end" => Pending(steps, "end") /\ ~Pending(steps, "mark")
        /\ Pending(rest, "mark") =>
              /\ rest # <<>> /\ rest[1][2] = steps[1][2]
              /\ <<steps[1][1], rest[1][1]>> \in {<<"head", "tail">>, <<"tail", "debug">>, <<"debug", "mark">>}
    BY <1>1, <1>3, RestOrdered
  <1>5. steps[1][1] \notin {"mark", "end"} =>
           Due(rest, "mark") = Due(steps, "mark") /\ Due(rest, "end") = Due(steps, "end")
    BY <1>4 DEF Due
  <1>6. steps[1][1] = "mark" =>
           Due(steps, "mark") = 1 /\ Due(rest, "mark") = 0 /\ Due(rest, "end") = Due(steps, "end")
    BY <1>4 DEF Due
  <1>7. steps[1][1] = "end" =>
           /\ Due(steps, "end") = 1 /\ Due(rest, "end") = 0
           /\ Due(steps, "mark") = 0 /\ Due(rest, "mark") = 0
    BY <1>4 DEF Due
  <1>8. QED
    BY <1>1, <1>2, <1>4, <1>5, <1>6, <1>7

\* What remains to be shown of a step, once its buffer, records and races are typed:
\* that of its own thread, and that of the others about the buffer.
LEMMA StepKeeps ==
  ASSUME TraceInv, NEW t \in Threads, todo[t] # <<>>, Done(t), UNCHANGED <<fd_, scopes, failed>>,
         s_logger_buffer_' \in Pair,
         NEW records \in Seq(Pair), marks' = [marks EXCEPT ![t] = records],
         \A u \in Threads : u # t => (~raced'[u] => ~raced[u]) /\ Prepared(u)',
         Prepared(t)', fd_ # -1 => Balanced(t)' /\ Opening(t)' /\ Told(t)'
  PROVE  TraceInv'
  <1>1. /\ DOMAIN todo' = Threads /\ \A u \in Threads : u # t => todo'[u] = todo[u]
        /\ Ordered(todo'[t])
    BY StepTaken
  <1>2. TraceTypes'
    BY <1>1 DEF TraceInv, TraceTypes
  <1>3. ASSUME NEW u \in Threads, u # t
        PROVE  /\ Ordered(todo[u])'
               /\ fd_ # -1 => Balanced(u)' /\ Opening(u)' /\ Told(u)'
    <2>1. todo'[u] = todo[u] /\ marks'[u] = marks[u] /\ (~raced'[u] => ~raced[u])
      BY <1>1, <1>3 DEF TraceInv, TraceTypes
    <2>2. Ordered(todo[u])'
      BY <2>1 DEF TraceInv
    <2>3. ASSUME fd_ # -1 PROVE Balanced(u)' /\ Opening(u)' /\ Told(u)'
      <3>1. Balanced(u) /\ Opening(u) /\ Told(u)
        BY <2>3 DEF TraceInv
      <3>2. Balanced(u)'
        BY <2>1, <3>1 DEF Balanced
      <3>3. Opening(u)' /\ Told(u)'
        BY <2>1, <3>1 DEF Opening, Told
      <3>4. QED
        BY <3>2, <3>3
    <2>4. QED
      BY <2>2, <2>3
  <1>4. QED
    BY <1>1, <1>2, <1>3 DEF TraceInv

\* A step that writes no record leaves the balance and what is told.
LEMMA OwnStays ==
  ASSUME TraceInv, NEW t \in Threads, todo[t] # <<>>, Done(t), UNCHANGED <<fd_, scopes, failed, marks>>,
         ~raced'[t] => ~raced[t], todo[t][1][1] \notin {"mark", "end"}, fd_ # -1
  PROVE  Balanced(t)' /\ Opening(t)' /\ Told(t)'
  <1>1. /\ Due(todo'[t], "mark") = Due(todo[t], "mark") /\ Due(todo'[t], "end") = Due(todo[t], "end")
        /\ Pending(todo'[t], "mark") => Pending(todo[t], "mark") /\ todo'[t][1][2] = todo[t][1][2]
        /\ Pending(todo'[t], "end") <=> Pending(todo[t], "end")
    BY StepTaken
  <1>2. Balanced(t) /\ Opening(t) /\ Told(t)
    BY DEF TraceInv
  <1>3. Balanced(t)'
    BY <1>1, <1>2 DEF Balanced
  <1>4. Opening(t)'
    BY <1>1, <1>2 DEF Opening
  <1>5. Told(t)'
    BY <1>2 DEF Told
  <1>6. QED
    BY <1>3, <1>4, <1>5

\* Formatting prepares a name half by half, and spoils what others have prepared,
\* which are then marked as raced.
LEMMA FormatKeeps ==
  ASSUME TraceInv, NEW t \in Threads, Format(t)
  PROVE  TraceInv'
  <1>1. /\ todo[t] # <<>> /\ todo[t][1][1] \in {"head", "tail"} /\ Done(t)
        /\ UNCHANGED <<fd_, scopes, failed, marks>>
        /\ s_logger_buffer_' = IF todo[t][1][1] = "head"
                                 THEN [s_logger_buffer_ EXCEPT ![1] = todo[t][1][2]]
                                 ELSE [s_logger_buffer_ EXCEPT ![2] = Cut(todo[t][1][2])]
        /\ raced' = [u \in Threads |-> raced[u] \/ (u # t /\ Formatted(u))]
    <2>1. Now(t)[1] # "none"
      BY DEF Format
    <2>2. todo[t] # <<>> /\ Now(t) = todo[t][1]
      BY <2>1, NextStep
    <2>3. QED
      BY <2>2 DEF Format
  <1>2. /\ Ordered(todo'[t]) /\ todo[t][1] \in Step
        /\ \A u \in Threads : u # t => todo'[u] = todo[u]
        /\ Pending(todo'[t], "mark") =>
              /\ Pending(todo[t], "mark") /\ todo'[t][1][2] = todo[t][1][2]
              /\ <<todo[t][1][1], todo'[t][1][1]>>
                   \in {<<"head", "tail">>, <<"tail", "debug">>, <<"debug", "mark">>}
    BY <1>1, StepTaken
  <1>3. todo[t][1][2] \in Nat /\ Cut(todo[t][1][2]) \in Nat \cup {Spilt}
    <2>1. todo[t][1][2] \in Nat
      BY <1>2 DEF Step
    <2>2. PICK name \in Nat : name = todo[t][1][2]
      BY <2>1
    <2>3. Cut(name) \in Nat \cup {Spilt}
      BY LengthsAssumption DEF Cut, Spilt
    <2>4. QED
      BY <2>2, <2>3
  <1>4. s_logger_buffer_' \in Pair /\ s_logger_buffer_ \in Pair
    BY <1>1, <1>3 DEF TraceInv, TraceTypes, Pair
  <1>5. ASSUME NEW u \in Threads, u # t
        PROVE  (~raced'[u] => ~raced[u]) /\ Prepared(u)'
    <2>1. ~raced'[u] => ~raced[u] /\ ~Formatted(u)
      BY <1>1, <1>5
    <2>2. todo'[u] = todo[u]
      BY <1>2, <1>5
    <2>3. ~Formatted(u) /\ Pending(todo[u], "mark") => todo[u][1][1] \notin {"tail", "debug", "mark"}
      <3>1. Pending(todo[u], "mark") => todo[u] # <<>>
        BY DEF Pending
      <3>2. QED
        BY <3>1 DEF Formatted, Pending
    <2>4. QED
      BY <2>1, <2>2, <2>3 DEF Prepared
  <1>6. ~raced'[t] => ~raced[t]
    BY <1>1
  <1>7. Prepared(t)'
    <2>1. SUFFICES ASSUME Pending(todo'[t], "mark"), ~raced'[t]
                   PROVE  /\ todo'[t][1][1] = "tail" => s_logger_buffer_'[1] = todo'[t][1][2]
                          /\ todo'[t][1][1] \in {"debug", "mark"} =>
                                s_logger_buffer_' = <<todo'[t][1][2], Cut(todo'[t][1][2])>>
      BY DEF Prepared
    <2>2. /\ Pending(todo[t], "mark") /\ ~raced[t] /\ todo'[t][1][2] = todo[t][1][2]
          /\ \/ todo[t][1][1] = "head" /\ todo'[t][1][1] = "tail"
             \/ todo[t][1][1] = "tail" /\ todo'[t][1][1] = "debug"
      BY <1>1, <1>2, <1>6, <2>1
    <2>3. CASE todo[t][1][1] = "head"
      BY <1>1, <1>4, <2>2, <2>3 DEF Pair
    <2>4. CASE todo[t][1][1] = "tail"
      <3>1. s_logger_buffer_[1] = todo[t][1][2]
        BY <2>2, <2>4 DEF TraceInv, Prepared
      <3>2. s_logger_buffer_' = [s_logger_buffer_ EXCEPT ![2] = Cut(todo[t][1][2])]
        BY <1>1, <2>4
      <3>3. s_logger_buffer_' = <<todo[t][1][2], Cut(todo[t][1][2])>>
        BY <1>4, <3>1, <3>2 DEF Pair
      <3>4. QED
        BY <2>2, <2>4, <3>3
    <2>5. QED
      BY <2>2, <2>3, <2>4
  <1>8. fd_ # -1 => Balanced(t)' /\ Opening(t)' /\ Told(t)'
    BY <1>1, <1>6, OwnStays
  <1>9. marks' = [marks EXCEPT ![t] = marks[t]] /\ marks[t] \in Seq(Pair)
    BY <1>1 DEF TraceInv, TraceTypes
  <1>10. QED
    BY <1>1, <1>4, <1>5, <1>7, <1>8, <1>9, StepKeeps

\* Messages, and records without the marker file, leave the buffer as it was prepared.
LEMMA MessageKeeps ==
  ASSUME TraceInv, NEW t \in Threads, LogStep(t) \/ NoMarker(t)
  PROVE  TraceInv'
  <1>1. /\ todo[t] # <<>> /\ Done(t) /\ UNCHANGED <<s_logger_buffer_, fd_, scopes, marks, failed, raced>>
        /\ \/ todo[t][1][1] \in {"debug", "info", "error"}
           \/ todo[t][1][1] \in {"mark", "end"} /\ fd_ = -1
    <2>1. Now(t)[1] # "none"
      BY DEF LogStep, NoMarker
    <2>2. todo[t] # <<>> /\ Now(t) = todo[t][1]
      BY <2>1, NextStep
    <2>3. QED
      BY <2>2 DEF LogStep, NoMarker
  <1>2. /\ \A u \in Threads : u # t => todo'[u] = todo[u]
        /\ Pending(todo'[t], "mark") =>
              /\ Pending(todo[t], "mark") /\ todo'[t][1][2] = todo[t][1][2]
              /\ <<todo[t][1][1], todo'[t][1][1]>>
                   \in {<<"head", "tail">>, <<"tail", "debug">>, <<"debug", "mark">>}
    BY <1>1, StepTaken
  <1>3. ASSUME NEW u \in Threads, u # t
        PROVE  (~raced'[u] => ~raced[u]) /\ Prepared(u)'
    BY <1>1, <1>2, <1>3 DEF TraceInv, Prepared
  <1>4. Prepared(t)'
    <2>1. SUFFICES ASSUME Pending(todo'[t], "mark"), ~raced[t]
                   PROVE  /\ todo'[t][1][1] = "mark"
                          /\ s_logger_buffer_ = <<todo'[t][1][2], Cut(todo'[t][1][2])>>
      BY <1>1 DEF Prepared
    <2>2. /\ todo[t][1][1] = "debug" /\ todo'[t][1][1] = "mark" /\ Pending(todo[t], "mark")
          /\ todo'[t][1][2] = todo[t][1][2]
      BY <1>1, <1>2, <2>1
    <2>3. QED
      BY <2>1, <2>2 DEF TraceInv, Prepared
  <1>5. fd_ # -1 => Balanced(t)' /\ Opening(t)' /\ Told(t)'
    BY <1>1, OwnStays
  <1>6. marks' = [marks EXCEPT ![t] = marks[t]] /\ marks[t] \in Seq(Pair) /\ s_logger_buffer_' \in Pair
    BY <1>1 DEF TraceInv, TraceTypes
  <1>7. QED
    BY <1>1, <1>3, <1>4, <1>5, <1>6, StepKeeps

\* A name that fits is recorded as it was formatted.
LEMMA Recorded ==
  ASSUME NEW name \in Nat, Header + name < LOGGER_BUFFER_SIZE
  PROVE  Record(<<name, Cut(name)>>) = <<name, name>>
  BY LengthsAssumption DEF Record, Cut

\* A begin record of a scope tells its name, unless another thread formatted meanwhile.
LEMMA BeginKeeps ==
  ASSUME TraceInv, NEW t \in Threads, WriteBegin(t)
  PROVE  TraceInv'
  <1>1. PICK record, records : record = Record(s_logger_buffer_) /\ records = Append(marks[t], record)
    OBVIOUS
  <1>2. /\ todo[t] # <<>> /\ todo[t][1][1] = "mark" /\ Done(t) /\ fd_ # -1
        /\ UNCHANGED <<s_logger_buffer_, fd_, scopes, failed, raced>>
        /\ marks' = [marks EXCEPT ![t] = records]
    <2>1. Now(t)[1] # "none"
      BY DEF WriteBegin
    <2>2. todo[t] # <<>> /\ Now(t) = todo[t][1]
      BY <2>1, NextStep
    <2>3. QED
      BY <1>1, <2>2 DEF WriteBegin
  <1>3. /\ \A u \in Threads : u # t => todo'[u] = todo[u]
        /\ ~Pending(todo'[t], "mark") /\ Pending(todo[t], "mark")
        /\ Due(todo[t], "mark") = 1 /\ Due(todo'[t], "mark") = 0 /\ Due(todo'[t], "end") = Due(todo[t], "end")
    <2>1. Pending(todo'[t], "mark") =>
             <<todo[t][1][1], todo'[t][1][1]>> \in {<<"head", "tail">>, <<"tail", "debug">>, <<"debug", "mark">>}
      BY <1>2, StepTaken
    <2>2. ~Pending(todo'[t], "mark")
      BY <1>2, <2>1
    <2>3. QED
      BY <1>2, <2>2, StepTaken
  <1>4. s_logger_buffer_ \in Pair /\ record \in Pair
    BY <1>1 DEF TraceInv, TraceTypes, Pair, Record
  <1>5. /\ marks[t] \in Seq(Pair) /\ Len(marks[t]) \in Nat /\ scopes[t] \in Seq(Nat)
        /\ Len(scopes[t]) \in Nat /\ failed[t] \in Nat /\ Due(todo[t], "end") \in {0, 1}
    BY DEF TraceInv, TraceTypes, Due
  <1>6. /\ records \in Seq(Pair) /\ Len(records) = Len(marks[t]) + 1 /\ records[Len(marks[t]) + 1] = record
        /\ \A i \in 1..Len(marks[t]) : records[i] = marks[t][i]
    BY <1>1, <1>4, <1>5
  <1>7. marks'[t] = records
    BY <1>2 DEF TraceInv, TraceTypes
  <1>8. Balanced(t) /\ Opening(t) /\ Told(t) /\ Prepared(t)
    BY <1>2 DEF TraceInv
  <1>9. Len(marks[t]) + 1 = Len(scopes[t]) + failed[t] + Due(todo[t], "end")
    BY <1>3, <1>8 DEF Balanced
  <1>10. Balanced(t)'
    <2>1. Len(records) + 0 = Len(scopes[t]) + failed[t] + Due(todo[t], "end")
      BY <1>5, <1>6, <1>9
    <2>2. QED
      BY <1>2, <1>3, <1>7, <2>1 DEF Balanced
  <1>11. Opening(t)' /\ Prepared(t)'
    BY <1>3 DEF Opening, Prepared
  <1>12. Told(t)'
    <2>1. SUFFICES ASSUME failed[t] = 0, ~raced[t], NEW i \in DOMAIN scopes[t], i <= Len(records),
                          Header + scopes[t][i] < LOGGER_BUFFER_SIZE
                   PROVE  records[i] = <<scopes[t][i], scopes[t][i]>>
      BY <1>2, <1>7 DEF Told
    <2>2. i \in 1..Len(scopes[t]) /\ scopes[t][i] \in Nat
      BY <1>5
    <2>3. CASE i <= Len(marks[t])
      BY <1>5, <1>6, <1>8, <2>1, <2>2, <2>3 DEF Told
    <2>4. CASE i > Len(marks[t])
      <3>1. i = Len(marks[t]) + 1 /\ i = Len(scopes[t]) /\ Due(todo[t], "end") = 0
        BY <1>5, <1>6, <1>9, <2>1, <2>2, <2>4
      <3>2. ~Pending(todo[t], "end")
        BY <3>1 DEF Due
      <3>3. todo[t][1][2] = scopes[t][i]
        BY <1>3, <1>8, <2>1, <3>1, <3>2 DEF Opening
      <3>4. s_logger_buffer_ = <<todo[t][1][2], Cut(todo[t][1][2])>>
        BY <1>2, <1>3, <1>8, <2>1 DEF Prepared
      <3>5. record = <<scopes[t][i], scopes[t][i]>>
        BY <1>1, <2>1, <2>2, <3>3, <3>4, Recorded
      <3>6. QED
        BY <1>6, <3>1, <3>5
    <2>5. QED
      BY <1>5, <2>2, <2>3, <2>4
  <1>13. ASSUME NEW u \in Threads, u # t
         PROVE  (~raced'[u] => ~raced[u]) /\ Prepared(u)'
    BY <1>2, <1>3, <1>13 DEF TraceInv, Prepared
  <1>14. QED
    BY <1>2, <1>4, <1>6, <1>10, <1>11, <1>12, <1>13, StepKeeps

\* An end record ends the one that is due.
LEMMA EndKeeps ==
  ASSUME TraceInv, NEW t \in Threads, WriteEnd(t)
  PROVE  TraceInv'
  <1>1. PICK records : records = SubSeq(marks[t], 1, Len(marks[t]) - 1)
    OBVIOUS
  <1>2. /\ todo[t] # <<>> /\ todo[t][1][1] = "end" /\ Done(t) /\ fd_ # -1
        /\ UNCHANGED <<s_logger_buffer_, fd_, scopes, failed, raced>>
        /\ marks' = [marks EXCEPT ![t] = records]
    <2>1. Now(t)[1] # "none"
      BY DEF WriteEnd
    <2>2. todo[t] # <<>> /\ Now(t) = todo[t][1]
      BY <2>1, NextStep
    <2>3. QED
      BY <1>1, <2>2 DEF WriteEnd
  <1>3. /\ \A u \in Threads : u # t => todo'[u] = todo[u]
        /\ ~Pending(todo'[t], "mark")
        /\ Due(todo[t], "mark") = 0 /\ Due(todo'[t], "mark") = 0
        /\ Due(todo[t], "end") = 1 /\ Due(todo'[t], "end") = 0
    <2>1. Pending(todo'[t], "mark") =>
             <<todo[t][1][1], todo'[t][1][1]>> \in {<<"head", "tail">>, <<"tail", "debug">>, <<"debug", "mark">>}
      BY <1>2, StepTaken
    <2>2. ~Pending(todo'[t], "mark")
      BY <1>2, <2>1
    <2>3. QED
      BY <1>2, <2>2, StepTaken
  <1>4. /\ marks[t] \in Seq(Pair) /\ Len(marks[t]) \in Nat /\ Len(scopes[t]) \in Nat /\ failed[t] \in Nat
        /\ DOMAIN scopes[t] = 1..Len(scopes[t])
    BY DEF TraceInv, TraceTypes
  <1>5. Balanced(t) /\ Told(t)
    BY <1>2 DEF TraceInv
  <1>6. Len(marks[t]) = Len(scopes[t]) + failed[t] + 1
    BY <1>3, <1>4, <1>5 DEF Balanced
  <1>7. /\ records \in Seq(Pair) /\ Len(records) = Len(marks[t]) - 1
        /\ \A i \in 1..Len(marks[t]) - 1 : records[i] = marks[t][i]
    BY <1>1, <1>4, <1>6
  <1>8. marks'[t] = records
    BY <1>2 DEF TraceInv, TraceTypes
  <1>9. Balanced(t)'
    <2>1. Len(records) + 0 = Len(scopes[t]) + failed[t] + 0
      BY <1>4, <1>6, <1>7
    <2>2. QED
      BY <1>2, <1>3, <1>8, <2>1 DEF Balanced
  <1>10. Opening(t)' /\ Prepared(t)'
    BY <1>3 DEF Opening, Prepared
  <1>11. Told(t)'
    <2>1. SUFFICES ASSUME failed[t] = 0, ~raced[t], NEW i \in DOMAIN scopes[t], i <= Len(records),
                          Header + scopes[t][i] < LOGGER_BUFFER_SIZE
                   PROVE  records[i] = <<scopes[t][i], scopes[t][i]>>
      BY <1>2, <1>8 DEF Told
    <2>2. i \in 1..Len(marks[t]) - 1 /\ i <= Len(marks[t])
      BY <1>4, <1>7, <2>1
    <2>3. QED
      BY <1>5, <1>7, <2>1, <2>2 DEF Told
  <1>12. ASSUME NEW u \in Threads, u # t
         PROVE  (~raced'[u] => ~raced[u]) /\ Prepared(u)'
    BY <1>2, <1>3, <1>12 DEF TraceInv, Prepared
  <1>13. s_logger_buffer_' \in Pair
    BY <1>2 DEF TraceInv, TraceTypes
  <1>14. QED
    BY <1>2, <1>7, <1>9, <1>10, <1>11, <1>12, <1>13, StepKeeps

\* The log's own steps and the callers of the log leave the trace alone.
LEMMA NextKeepsTrace == TraceInv /\ [Next]_vars => TraceInv'
  <1> SUFFICES ASSUME TraceInv, [Next]_vars PROVE TraceInv'
    OBVIOUS
  <1>1. ASSUME UNCHANGED tracing PROVE TraceInv'
    BY <1>1 DEF tracing, TraceInv, TraceTypes, Prepared, Balanced, Opening, Told
  <1>2. CASE UNCHANGED vars
    BY <1>1, <1>2 DEF vars
  <1>3. ASSUME NEW t \in Threads, Client(t) PROVE TraceInv'
    BY <1>1, <1>3, EnterKeeps, LeaveKeeps, PrintfKeeps DEF Client
  <1>4. ASSUME NEW t \in Threads, Advance(t) PROVE TraceInv'
    BY <1>1, <1>4, FormatKeeps, MessageKeeps, BeginKeeps, EndKeeps DEF Advance, Trace
  <1>5. QED
    BY <1>2, <1>3, <1>4 DEF Next

\* Of every thread the records open are those of its scopes and failed calls, and the
\* buffer holds what a thread is about to mark unless it is known to have raced.
THEOREM TraceInvariant == Spec => []TraceInv
  BY TraceStarts, NextKeepsTrace, PTL DEF Spec

\* The trace of a thread in no tracing call tells the scopes it is in.
THEOREM MarksAlwaysTell == Spec => []MarksTellScopes
  <1>1. TraceInv => MarksTellScopes
    <2>1. SUFFICES ASSUME TraceInv, NEW t \in Threads, fd_ # -1, AtRest(t)
                   PROVE  /\ Len(marks[t]) = Len(scopes[t]) + failed[t]
                          /\ (failed[t] = 0 /\ ~raced[t]) =>
                                \A i \in DOMAIN scopes[t] :
                                    Header + scopes[t][i] < LOGGER_BUFFER_SIZE =>
                                        marks[t][i] = <<scopes[t][i], scopes[t][i]>>
      BY DEF MarksTellScopes
    <2>2. Len(marks[t]) = Len(scopes[t]) + failed[t]
      BY <2>1, Rested
    <2>3. Told(t) /\ DOMAIN scopes[t] = 1..Len(scopes[t]) /\ Len(scopes[t]) \in Nat /\ failed[t] \in Nat
      BY <2>1 DEF TraceInv, TraceTypes
    <2>4. QED
      BY <2>2, <2>3 DEF Told
  <1>2. QED
    BY <1>1, TraceInvariant, PTL
=============================================================================
