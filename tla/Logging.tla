------------------------------ MODULE Logging -------------------------------
(***************************************************************************)
(* Logging by several threads: logWrite (log/log.cc) with its own filter   *)
(* sLogLevel, in front of base::Logger (log/logger.cc, the FILE_LOGGER     *)
(* build), a function-local static that the first message let through      *)
(* constructs, and whose log4cplus logger has a level of its own.          *)
(*                                                                         *)
(* Levels are the numbers of LogLevelType; Off is log4cplus' OFF, the one  *)
(* level in a configuration that level_maps_ does not know.  What happens  *)
(* to a message once log4cplus accepts it is left out.  Tracing runs these *)
(* actions together with the callers of logWrite in the tracer.            *)
(***************************************************************************)
EXTENDS Integers, Sequences

CONSTANTS Threads,
          Levels,       \* the levels callers use, of 1..6
          Configured,   \* the levels log.conf may ask for, of 1..6 and Off
          Tuners        \* the threads that set levels

DEBUG == 2
INFO == 3
ERROR == 5
Off == 7

ASSUME LevelsAssumption == Levels \subseteq 1..6 /\ Configured \subseteq 1..Off

VARIABLES sLogLevel,
          log_instance, \* the static: "none", "busy" (being constructed) or "ready"
          vm_level,     \* the level of its vm_logger_
          call,         \* of each thread: where its logWrite stands
          tuned         \* history: a level was set after the logger was ready

logging == <<sLogLevel, log_instance, vm_level, call, tuned>>

Idle(t) == call[t] = "idle"
Goto(t, at) == call' = [call EXCEPT ![t] = at]

LoggingInit ==
    /\ sLogLevel = INFO
    /\ log_instance = "none"
    /\ vm_level = Off
    /\ call = [t \in Threads |-> "idle"]
    /\ tuned = FALSE

\* logWrite: a message below the level is skipped before anything else happens.
logWrite(t, level) ==
    /\ Idle(t)
    /\ IF level < sLogLevel THEN UNCHANGED call ELSE Goto(t, "get")
    /\ UNCHANGED <<sLogLevel, log_instance, vm_level, tuned>>

\* Logger::GetInstance: one thread constructs, the others wait for it to finish.
GetInstance(t) ==
    /\ call[t] = "get"
    /\ \/ log_instance = "none" /\ log_instance' = "busy" /\ Goto(t, "configure")
       \/ log_instance = "ready" /\ Goto(t, "append") /\ UNCHANGED log_instance
    /\ UNCHANGED <<sLogLevel, vm_level, tuned>>

\* InitLogging, first part: log4cplus takes its configuration.
Configure_Logs(t) ==   \* (mutant) the constructor reports through logWrite
    /\ call[t] = "configure"
    /\ vm_level' \in Configured
    /\ Goto(t, "get")
    /\ UNCHANGED <<sLogLevel, log_instance, tuned>>

Configure(t) ==
    /\ call[t] = "configure"
    /\ vm_level' \in Configured
    /\ Goto(t, "adopt")
    /\ UNCHANGED <<sLogLevel, log_instance, tuned>>

\* The LogLevelType that level_maps_ has for a log4cplus level, else the default argument.
LevelOf_Kept(level) == IF level = Off THEN INFO ELSE level   \* (mutant)
LevelOf(level) == IF level = Off THEN DEBUG ELSE level

\* Second part: logWrite's filter is set to the logger's level, and the static is ready.
Adopt(t) ==
    /\ call[t] = "adopt"
    /\ sLogLevel' = LevelOf(vm_level)
    /\ log_instance' = "ready"
    /\ Goto(t, "append")
    /\ UNCHANGED <<vm_level, tuned>>

\* Logger::Logging: log4cplus writes the message, or drops it for its own level.
Logging(t) == /\ call[t] = "append"
              /\ Goto(t, "idle")
              /\ UNCHANGED <<sLogLevel, log_instance, vm_level, tuned>>

setLogLevel(t, level) ==
    /\ t \in Tuners /\ Idle(t)
    /\ sLogLevel' = level
    /\ tuned' = (tuned \/ log_instance = "ready")
    /\ UNCHANGED <<log_instance, vm_level, call>>

Setloglevel(t, level) ==
    /\ t \in Tuners /\ Idle(t) /\ log_instance = "ready"
    /\ vm_level' = level
    /\ tuned' = TRUE
    /\ UNCHANGED <<sLogLevel, log_instance, call>>

Proceed(t) == GetInstance(t) \/ Configure(t) \/ Adopt(t) \/ Logging(t)

Use(t) == \E level \in Levels : logWrite(t, level) \/ setLogLevel(t, level) \/ Setloglevel(t, level)

-----------------------------------------------------------------------------
\* Once the logger is up, the two filters let the same messages through until
\* somebody sets one of them (a level set before that is overridden), except that a
\* logger configured OFF leaves logWrite at DEBUG (logger.cc:82-90).
FiltersAgree ==
    (log_instance = "ready" /\ ~tuned) =>
        sLogLevel = IF vm_level \in 1..6 THEN vm_level ELSE DEBUG
=============================================================================
