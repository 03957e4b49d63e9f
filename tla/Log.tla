-------------------------------- MODULE Log --------------------------------
(***************************************************************************)
(* The logger (src/src/util/log.c and its sinks): one record goes to every *)
(* sink under the lock of the logger, called by the main thread and by the *)
(* scan worker, each perhaps with ctx->mu held.  Whether a record is       *)
(* wanted is read without the lock.  main initialises the logger first and *)
(* shuts it down last; in between workers come and go one at a time, which *)
(* is what LibraryRuntime shows (OneBuilder, NoThreadOutlives).            *)
(*                                                                         *)
(* A line is the thread that logs it and its number among the calls of     *)
(* that thread.  What a line says is left out.                             *)
(*                                                                         *)
(* An operator whose name ends in an underscore and a word is a faulty     *)
(* variant of the operator that follows it, for mutation checks only.      *)
(***************************************************************************)
EXTENDS Naturals, Sequences, SequencesExt, Functions

CONSTANTS Main, Scan,     \* the threads: main and the scan worker
          Level,          \* log_level_t
          Unreliable,     \* sinks whose medium may refuse a line
          MaxLines,       \* bound: calls of the logger by one thread
          None

Kind == {"terminal", "file", "sqlite"}
Thread == {Main, Scan}

ASSUME ThreadAssumption == Main # Scan /\ None \notin {Main, Scan}
ASSUME LevelAssumption == Level \subseteq Nat /\ Level # {}
ASSUME MediumAssumption == Unreliable \subseteq Kind /\ MaxLines \in Nat

VARIABLES
  config,                        \* log_config_t: the level and the sinks asked for
  able,                          \* the sinks that can be created
  initialized, minLevel, sinks,  \* g_log
  lock,                          \* g_log.lock: who holds it
  mu,                            \* ctx->mu: who holds it
  pc,                            \* where each thread is
  at,                            \* the i of the loop over the sinks
  said,                          \* the levels of the calls of each thread
  written,                       \* what the medium of each sink holds
  lost                           \* lines a medium refused: <<sink, line>>

logger == <<initialized, minLevel, sinks>>
fixed == <<config, able>>
media == <<written, lost>>
vars == <<fixed, logger, lock, mu, pc, at, said, media>>

PC == {"none", "start", "run", "lock", "write", "ended", "closing", "exit"}

Line == Thread \X Nat

Init ==
  /\ config \in [level : Level, sinks : SUBSET Kind] /\ able \in SUBSET Kind
  /\ initialized = FALSE /\ minLevel \in Level /\ sinks = <<>>
  /\ lock = None /\ mu = None
  /\ pc = [t \in Thread |-> IF t = Main THEN "start" ELSE "none"]
  /\ at = [t \in Thread |-> 0]
  /\ said = [t \in Thread |-> <<>>]
  /\ written = [s \in Kind |-> <<>>] /\ lost = {}

Goto(t, from, to) == pc[t] = from /\ pc' = [pc EXCEPT ![t] = to]

-----------------------------------------------------------------------------
(***************************************************************************)
(* log_init.  A sink that cannot be created leaves a NULL in the list, and *)
(* the terminal stands in only when nothing was asked for.  Nobody else    *)
(* runs, so this is one step.                                              *)
(***************************************************************************)

Wanted(s) == IF s \in config.sinks THEN <<s>> ELSE <<>>

Asked ==
  LET chosen == Wanted("terminal") \o Wanted("file") \o Wanted("sqlite")
  IN IF chosen = <<>> THEN <<"terminal">> ELSE chosen

LogInit ==
  /\ Goto(Main, "start", "run")
  /\ initialized' = TRUE /\ minLevel' = config.level
  /\ sinks' = [i \in DOMAIN Asked |-> IF Asked[i] \in able THEN Asked[i] ELSE "null"]
  /\ UNCHANGED <<fixed, lock, mu, at, said, media>>

(* append_sink has no memory: the sinks are closed and main returns.       *)
LogInitFails ==
  /\ Goto(Main, "start", "exit")
  /\ minLevel' = config.level
  /\ UNCHANGED <<fixed, initialized, sinks, lock, mu, at, said, media>>

-----------------------------------------------------------------------------
(***************************************************************************)
(* log_vwrite.                                                             *)
(***************************************************************************)

(* log_is_enabled, without the lock.                                       *)
Enabled(level) == initialized /\ level >= minLevel

Call(t, level) ==
  /\ pc[t] = "run" /\ Len(said[t]) < MaxLines
  /\ said' = [said EXCEPT ![t] = Append(@, level)]
  /\ pc' = [pc EXCEPT ![t] = IF Enabled(level) THEN "lock" ELSE "run"]
  /\ UNCHANGED <<fixed, logger, lock, mu, at, media>>

Free_Always == TRUE
Free == lock = None

Acquire(t) ==
  /\ Goto(t, "lock", "write") /\ Free
  /\ lock' = t
  /\ at' = [at EXCEPT ![t] = 1]
  /\ UNCHANGED <<fixed, logger, mu, said, media>>

Record(t) == <<t, Len(said[t])>>

(* Where the loop goes from a NULL.                                        *)
AfterNull_End(i) == Len(sinks) + 1
AfterNull(i) == i + 1

SkipNull(t) ==
  /\ pc[t] = "write" /\ at[t] <= Len(sinks) /\ sinks[at[t]] = "null"
  /\ at' = [at EXCEPT ![t] = AfterNull(@)]
  /\ UNCHANGED <<fixed, logger, lock, mu, pc, said, media>>

(* A sink that fails says so on stderr and the loop goes on.               *)
WriteSink(t) ==
  /\ pc[t] = "write" /\ at[t] <= Len(sinks) /\ sinks[at[t]] # "null"
  /\ at' = [at EXCEPT ![t] = @ + 1]
  /\ \/ /\ written' = [written EXCEPT ![sinks[at[t]]] = Append(@, Record(t))]
        /\ lost' = lost
     \/ /\ sinks[at[t]] \in Unreliable
        /\ lost' = lost \cup {<<sinks[at[t]], Record(t)>>}
        /\ written' = written
  /\ UNCHANGED <<fixed, logger, lock, mu, pc, said>>

Release(t) ==
  /\ at[t] > Len(sinks) /\ Goto(t, "write", "run")
  /\ lock' = None
  /\ UNCHANGED <<fixed, logger, mu, at, said, media>>

Logs(t) ==
  \/ \E level \in Level : Call(t, level)
  \/ Acquire(t) \/ SkipNull(t) \/ WriteSink(t) \/ Release(t)

-----------------------------------------------------------------------------
(***************************************************************************)
(* The threads around it.  Both take ctx->mu and log inside, the worker    *)
(* when it reports, the main thread when it cancels a scan.                *)
(***************************************************************************)

LockContext(t) ==
  /\ pc[t] = "run" /\ mu = None
  /\ mu' = t
  /\ UNCHANGED <<fixed, logger, lock, pc, at, said, media>>

UnlockContext(t) ==
  /\ pc[t] = "run" /\ mu = t
  /\ mu' = None
  /\ UNCHANGED <<fixed, logger, lock, pc, at, said, media>>

(* library_scan_request starts a worker while it holds ctx->mu.            *)
Spawn ==
  /\ pc[Main] = "run" /\ mu = Main
  /\ Goto(Scan, "none", "run")
  /\ UNCHANGED <<fixed, logger, lock, mu, at, said, media>>

WorkerEnds ==
  /\ Goto(Scan, "run", "ended") /\ mu # Scan
  /\ UNCHANGED <<fixed, logger, lock, mu, at, said, media>>

(* pthread_join, before a new scan or by library_runtime_shutdown.         *)
Join ==
  /\ pc[Main] = "run" /\ mu # Main
  /\ Goto(Scan, "ended", "none")
  /\ UNCHANGED <<fixed, logger, lock, mu, at, said, media>>

(* main calls log_shutdown last.                                           *)
Joined_Never == TRUE
Joined == pc[Scan] = "none"

LogShutdown ==
  /\ Goto(Main, "run", "closing") /\ mu # Main /\ Joined
  /\ Free
  /\ lock' = Main /\ sinks' = <<>>
  /\ UNCHANGED <<fixed, initialized, minLevel, mu, at, said, media>>

LogClosed ==
  /\ Goto(Main, "closing", "exit")
  /\ initialized' = FALSE /\ lock' = None
  /\ UNCHANGED <<fixed, minLevel, sinks, mu, at, said, media>>

(* The process has ended.                                                  *)
Ended == pc[Main] = "exit" /\ pc[Scan] = "none" /\ UNCHANGED vars

Threads == Spawn \/ WorkerEnds \/ Join \/ \E t \in Thread : LockContext(t) \/ UnlockContext(t)

Next ==
  \/ LogInit \/ LogInitFails \/ LogShutdown \/ LogClosed \/ Threads \/ Ended
  \/ \E t \in Thread : Logs(t)

Spec == Init /\ [][Next]_vars

-----------------------------------------------------------------------------
(***************************************************************************)
(* Properties                                                              *)
(***************************************************************************)

(* The type of every variable.                                             *)
TypeOK ==
  /\ config \in [level : Level, sinks : SUBSET Kind] /\ able \in SUBSET Kind
  /\ initialized \in BOOLEAN /\ minLevel \in Level
  /\ sinks \in Seq(Kind \cup {"null"})
  /\ lock \in Thread \cup {None} /\ mu \in Thread \cup {None}
  /\ pc \in [Thread -> PC] /\ at \in [Thread -> Nat]
  /\ said \in [Thread -> Seq(Level)]
  /\ written \in [Kind -> Seq(Line)] /\ lost \subseteq Kind \X Line

(* Who is inside has the lock, and while a worker exists the logger is up  *)
(* and as it was configured.                                               *)
LockInv ==
  /\ \A t \in Thread : lock = t <=> pc[t] \in {"write", "closing"}
  /\ \A t \in Thread : pc[t] = "write" => at[t] >= 1
  /\ pc[Scan] \in {"none", "run", "lock", "write", "ended"}
  /\ pc[Main] \in {"start", "run", "lock", "write", "closing", "exit"}
  /\ pc[Main] \in {"start", "closing", "exit"} => pc[Scan] = "none"
  /\ pc[Main] \in {"run", "lock", "write"} =>
       initialized /\ minLevel = config.level
  /\ pc[Main] \in {"start", "closing", "exit"} => sinks = <<>>
  /\ pc[Main] = "start" => ~initialized

Working == Range(Asked) \cap able

(* Each sink that could be opened is in the list once.                     *)
SinksInv ==
  /\ \A i, j \in DOMAIN sinks : sinks[i] = sinks[j] /\ sinks[i] # "null" => i = j
  /\ pc[Main] \in {"run", "lock", "write"} => Range(sinks) \ {"null"} = Working

(* The lines a sink was asked to write.                                    *)
Handed(s) == Range(written[s]) \cup {entry[2] : entry \in {e \in lost : e[1] = s}}

(* They are lines of calls that were made, written or lost, and none of a  *)
(* call that has not got the lock.                                         *)
HandedInv ==
  /\ \A t \in Thread : pc[t] \in {"lock", "write"} =>
       said[t] # <<>> /\ said[t][Len(said[t])] >= config.level
  /\ \A s \in Kind : \A line \in Handed(s) :
       /\ line[2] \in 1..Len(said[line[1]])
       /\ pc[line[1]] = "lock" => line[2] < Len(said[line[1]])
  /\ \A s \in Kind : \A line \in Range(written[s]) : <<s, line>> \notin lost

(* The loop has handed the record to the sinks before its i, and where it  *)
(* was written it is the last line.                                        *)
LoopInv ==
  \A t \in Thread, s \in Kind : pc[t] = "write" =>
    /\ Record(t) \in Handed(s) <=> \E i \in DOMAIN sinks : i < at[t] /\ sinks[i] = s
    /\ \A i \in DOMAIN written[s] : written[s][i] = Record(t) => i = Len(written[s])

(* What earlier calls have left.                                           *)
KeptInv ==
  \A t \in Thread, s \in Working : \A k \in DOMAIN said[t] :
    pc[t] \notin {"lock", "write"} \/ k < Len(said[t]) =>
      (<<t, k>> \in Range(written[s]) <=>
         said[t][k] >= config.level /\ <<s, <<t, k>>>> \notin lost)

(* The lines of a thread are in its order, and those of both threads in    *)
(* the same order in every sink.                                           *)
InOrder(s) ==
  \A i, j \in DOMAIN written[s] :
    i < j /\ written[s][i][1] = written[s][j][1] => written[s][i][2] < written[s][j][2]

SameOrder(r, s) ==
  \A i, j \in DOMAIN written[r], k, l \in DOMAIN written[s] :
    i < j /\ written[r][i] = written[s][k] /\ written[r][j] = written[s][l] => k < l

OrderInv == \A r, s \in Kind : InOrder(s) /\ SameOrder(r, s)

(* The inductive invariant of the proofs.                                  *)
LogInv ==
  TypeOK /\ LockInv /\ SinksInv /\ HandedInv /\ LoopInv /\ KeptInv /\ OrderInv

(* log_is_enabled may read the logger without its lock, and log_init write *)
(* it without, because a step changes it only while no other thread exists. *)
LogRaceFree == [][logger' # logger => pc[Scan] = "none"]_vars

(* What a sink owes a thread: its calls that the level lets through, but   *)
(* those the medium refused.                                               *)
Due(s, t) ==
  {line \in {t} \X DOMAIN said[t] :
     said[t][line[2]] >= config.level /\ <<s, line>> \notin lost}

(* Between its calls a thread finds each of its lines once, and in their   *)
(* order, in every sink that could be opened, whatever other sinks failed  *)
(* to open or to write, and however the calls of the other thread came in  *)
(* between.                                                                *)
LinesKept ==
  \A t \in Thread, s \in Working :
    /\ InOrder(s)
    /\ pc[t] \notin {"lock", "write"} =>
         {line \in Range(written[s]) : line[1] = t} = Due(s, t)

(* All sinks tell the same story: the lines that two of them took are in   *)
(* the same order in both, and what one took and the other did not is the  *)
(* current line, at the end, or was refused.                               *)
SinksAgree ==
  \A r, s \in Working :
    /\ SameOrder(r, s)
    /\ \A k \in DOMAIN written[s] :
         \/ written[s][k] \in Range(written[r]) \/ <<r, written[s][k]>> \in lost
         \/ lock # None /\ k = Len(written[s])
=============================================================================
