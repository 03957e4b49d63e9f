----------------------------- MODULE LogProofs ------------------------------
(***************************************************************************)
(* Proofs about Log, for any levels, any unreliable sinks and any number   *)
(* of calls: the lock is held by who writes, the fields log_is_enabled     *)
(* reads without it never change under a reader, every line reaches every  *)
(* sink that was opened and does not lose it, once and in its order, and   *)
(* all sinks tell the same story.                                          *)
(***************************************************************************)
EXTENDS Log, TLAPS

USE DEF Thread

(* The part of the invariant about the threads.                            *)
BaseInv == TypeOK /\ LockInv

(* The list of sinks is one, whatever is asked for and can be created.     *)
LEMMA SinksTyped ==
  ASSUME config.sinks \in SUBSET Kind
  PROVE  [i \in DOMAIN Asked |-> IF Asked[i] \in able THEN Asked[i] ELSE "null"]
           \in Seq(Kind \cup {"null"})
<1>1. Asked \in Seq(Kind)
  <2>1. \A s \in Kind : Wanted(s) \in Seq(Kind)
    BY DEF Wanted
  <2>2. {"terminal", "file", "sqlite"} \subseteq Kind
    BY DEF Kind
  <2> QED BY <2>1, <2>2 DEF Asked
<1>2. PICK n \in Nat : DOMAIN Asked = 1..n /\ \A i \in 1..n : Asked[i] \in Kind
  BY <1>1
<1> QED BY <1>2

(* Initially nothing is written, and main is about to initialise.          *)
LEMMA BaseInit == Init => BaseInv
<1> SUFFICES ASSUME Init PROVE BaseInv
  OBVIOUS
<1>1. TypeOK
  <2>1. /\ said \in [Thread -> Seq(Level)] /\ written \in [Kind -> Seq(Line)]
        /\ sinks \in Seq(Kind \cup {"null"})
    BY DEF Init
  <2>2. pc \in [Thread -> PC] /\ at \in [Thread -> Nat]
    BY DEF Init, PC
  <2>3. lost \subseteq Kind \X Line
    BY DEF Init
  <2> QED BY <2>1, <2>2, <2>3 DEF Init, TypeOK
<1>2. LockInv
  BY ThreadAssumption DEF Init, LockInv
<1> QED BY <1>1, <1>2 DEF BaseInv

(* The steps of log_init and log_shutdown.                                 *)
LEMMA LifeBase ==
  ASSUME BaseInv, LogInit \/ LogInitFails \/ LogShutdown \/ LogClosed \/ Ended
  PROVE  BaseInv'
<1> USE DEF BaseInv
<1>1. TypeOK'
  <2>1. CASE LogInit
    <3>1. sinks' \in Seq(Kind \cup {"null"})
      <4>1. config.sinks \in SUBSET Kind
        BY DEF TypeOK
      <4> QED BY <4>1, <2>1, SinksTyped DEF LogInit
    <3>2. minLevel' \in Level /\ initialized' \in BOOLEAN
      BY <2>1 DEF LogInit, TypeOK
    <3> QED BY <2>1, <3>1, <3>2 DEF LogInit, Goto, fixed, media, TypeOK, PC
  <2>2. CASE LogInitFails
    BY <2>2 DEF LogInitFails, Goto, fixed, media, TypeOK, PC
  <2>3. CASE LogShutdown
    BY <2>3 DEF LogShutdown, Goto, fixed, media, TypeOK, PC
  <2>4. CASE LogClosed
    BY <2>4 DEF LogClosed, Goto, fixed, media, TypeOK, PC
  <2>5. CASE Ended
    BY <2>5 DEF Ended, vars, logger, fixed, media, TypeOK
  <2> QED BY <2>1, <2>2, <2>3, <2>4, <2>5
<1>2. LockInv'
  <2>1. CASE LogInit
    BY <2>1, ThreadAssumption DEF LogInit, Goto, fixed, TypeOK, LockInv
  <2>2. CASE LogInitFails
    BY <2>2, ThreadAssumption DEF LogInitFails, Goto, fixed, TypeOK, LockInv
  <2>3. CASE LogShutdown
    BY <2>3, ThreadAssumption DEF LogShutdown, Joined, Free, Goto, fixed, TypeOK, LockInv
  <2>4. CASE LogClosed
    BY <2>4, ThreadAssumption DEF LogClosed, Goto, fixed, TypeOK, LockInv
  <2>5. CASE Ended
    BY <2>5 DEF Ended, vars, logger, fixed, LockInv
  <2> QED BY <2>1, <2>2, <2>3, <2>4, <2>5
<1> QED BY <1>1, <1>2

(* The steps of log_vwrite, in either thread.                              *)
LEMMA CallBase ==
  ASSUME BaseInv, NEW t \in Thread, Logs(t)
  PROVE  BaseInv'
<1> USE DEF BaseInv
<1>1. ASSUME NEW level \in Level, Call(t, level) PROVE BaseInv'
  <2>1. TypeOK'
    BY <1>1 DEF Call, logger, fixed, media, TypeOK, PC
  <2>2. LockInv'
    BY <1>1, ThreadAssumption DEF Call, logger, fixed, TypeOK, LockInv
  <2> QED BY <2>1, <2>2
<1>2. CASE Acquire(t)
  <2>1. TypeOK'
    BY <1>2 DEF Acquire, Goto, logger, fixed, media, TypeOK, PC
  <2>2. LockInv'
    BY <1>2, ThreadAssumption DEF Acquire, Free, Goto, logger, fixed, TypeOK, LockInv
  <2> QED BY <2>1, <2>2
<1>3. CASE SkipNull(t)
  <2>1. TypeOK'
    BY <1>3 DEF SkipNull, AfterNull, logger, fixed, media, TypeOK
  <2>2. LockInv'
    BY <1>3 DEF SkipNull, AfterNull, logger, fixed, TypeOK, LockInv
  <2> QED BY <2>1, <2>2
<1>4. CASE WriteSink(t)
  <2>1. sinks[at[t]] \in Kind
    BY <1>4 DEF WriteSink, TypeOK, LockInv
  <2>2. Record(t) \in Line
    BY DEF TypeOK, Record, Line
  <2>3. TypeOK'
    <3>1. /\ at' \in [Thread -> Nat]
          /\ UNCHANGED <<fixed, logger, lock, mu, pc, said>>
      BY <1>4 DEF WriteSink, TypeOK
    <3>2. written' \in [Kind -> Seq(Line)]
      <4>1. \/ written' = written
            \/ written' = [written EXCEPT ![sinks[at[t]]] = Append(@, Record(t))]
        BY <1>4 DEF WriteSink
      <4>2. written \in [Kind -> Seq(Line)]
        BY DEF TypeOK
      <4>3. Append(written[sinks[at[t]]], Record(t)) \in Seq(Line)
        BY <4>2, <2>1, <2>2
      <4> QED BY <4>1, <4>2, <4>3, <2>1
    <3>3. lost' \subseteq Kind \X Line
      BY <1>4, <2>1, <2>2 DEF WriteSink, TypeOK
    <3> QED BY <3>1, <3>2, <3>3 DEF logger, fixed, TypeOK
  <2>4. LockInv'
    BY <1>4 DEF WriteSink, logger, fixed, TypeOK, LockInv
  <2> QED BY <2>3, <2>4
<1>5. CASE Release(t)
  <2>1. TypeOK'
    BY <1>5 DEF Release, Goto, logger, fixed, media, TypeOK, PC
  <2>2. LockInv'
    BY <1>5, ThreadAssumption DEF Release, Goto, logger, fixed, TypeOK, LockInv
  <2> QED BY <2>1, <2>2
<1> QED BY <1>1, <1>2, <1>3, <1>4, <1>5 DEF Logs

(* The steps around the logger.                                            *)
LEMMA ThreadsBase ==
  ASSUME BaseInv, Threads
  PROVE  BaseInv'
<1> USE DEF BaseInv
<1>1. ASSUME NEW t \in Thread, LockContext(t) \/ UnlockContext(t) PROVE BaseInv'
  BY <1>1 DEF LockContext, UnlockContext, logger, fixed, media, TypeOK, LockInv
<1>2. CASE Spawn
  <2>1. TypeOK'
    BY <1>2 DEF Spawn, Goto, logger, fixed, media, TypeOK, PC
  <2>2. LockInv'
    BY <1>2, ThreadAssumption DEF Spawn, Goto, logger, fixed, TypeOK, LockInv
  <2> QED BY <2>1, <2>2
<1>3. CASE WorkerEnds
  <2>1. TypeOK'
    BY <1>3 DEF WorkerEnds, Goto, logger, fixed, media, TypeOK, PC
  <2>2. LockInv'
    BY <1>3, ThreadAssumption DEF WorkerEnds, Goto, logger, fixed, TypeOK, LockInv
  <2> QED BY <2>1, <2>2
<1>4. CASE Join
  <2>1. TypeOK'
    BY <1>4 DEF Join, Goto, logger, fixed, media, TypeOK, PC
  <2>2. LockInv'
    BY <1>4, ThreadAssumption DEF Join, Goto, logger, fixed, TypeOK, LockInv
  <2> QED BY <2>1, <2>2
<1> QED BY <1>1, <1>2, <1>3, <1>4 DEF Threads

(* Every step.                                                             *)
LEMMA BaseStep ==
  ASSUME BaseInv, [Next]_vars
  PROVE  BaseInv'
<1>1. CASE Next
  BY <1>1, LifeBase, CallBase, ThreadsBase DEF Next
<1>2. CASE UNCHANGED vars
  BY <1>2 DEF vars, logger, fixed, media, BaseInv, TypeOK, LockInv
<1> QED BY <1>1, <1>2

-----------------------------------------------------------------------------
(***************************************************************************)
(* The list of sinks.                                                      *)
(***************************************************************************)

Distinct(list) == \A i, j \in DOMAIN list : list[i] = list[j] => i = j

(* Sinks asked for one after the other are there once each.                *)
LEMMA DistinctConcat ==
  ASSUME NEW S, NEW a \in Seq(S), NEW b \in Seq(S), Distinct(a), Distinct(b),
         \A i \in DOMAIN a, j \in DOMAIN b : a[i] # b[j]
  PROVE  Distinct(a \o b) /\ a \o b \in Seq(S)
<1>1. /\ a \o b \in Seq(S) /\ Len(a \o b) = Len(a) + Len(b)
      /\ \A i \in 1..Len(a) : (a \o b)[i] = a[i]
      /\ \A i \in (Len(a) + 1)..(Len(a) + Len(b)) : (a \o b)[i] = b[i - Len(a)]
  OBVIOUS
<1>2. /\ DOMAIN a = 1..Len(a) /\ DOMAIN b = 1..Len(b) /\ Len(a) \in Nat /\ Len(b) \in Nat
      /\ DOMAIN (a \o b) = 1..(Len(a) + Len(b))
  BY <1>1
<1> SUFFICES ASSUME NEW i \in DOMAIN (a \o b), NEW j \in DOMAIN (a \o b),
                    (a \o b)[i] = (a \o b)[j]
             PROVE  i = j
  BY <1>1 DEF Distinct
<1>3. \A k \in DOMAIN (a \o b) :
        k \in 1..Len(a) \/ (k \in (Len(a) + 1)..(Len(a) + Len(b)) /\ k - Len(a) \in 1..Len(b))
  BY <1>2
<1>4. CASE i \in 1..Len(a) /\ j \in 1..Len(a)
  BY <1>1, <1>2, <1>4 DEF Distinct
<1>5. CASE i \notin 1..Len(a) /\ j \notin 1..Len(a)
  <2>1. i - Len(a) = j - Len(a)
    BY <1>1, <1>2, <1>3, <1>5 DEF Distinct
  <2> QED
    BY <1>2, <2>1
<1>6. CASE i \in 1..Len(a) /\ j \notin 1..Len(a)
  BY <1>1, <1>2, <1>3, <1>6
<1>7. CASE i \notin 1..Len(a) /\ j \in 1..Len(a)
  BY <1>1, <1>2, <1>3, <1>7
<1> QED
  BY <1>4, <1>5, <1>6, <1>7

(* log_init asks for each sink once.                                       *)
LEMMA AskedOnce == Asked \in Seq(Kind) /\ Distinct(Asked)
<1> DEFINE a == Wanted("terminal")
           b == Wanted("file")
           c == Wanted("sqlite")
<1>1. /\ a \in Seq(Kind) /\ b \in Seq(Kind) /\ c \in Seq(Kind)
      /\ Distinct(a) /\ Distinct(b) /\ Distinct(c)
      /\ \A i \in DOMAIN a : a[i] = "terminal"
      /\ \A i \in DOMAIN b : b[i] = "file"
      /\ \A i \in DOMAIN c : c[i] = "sqlite"
  <2>1. \A s \in Kind : /\ Wanted(s) \in Seq(Kind) /\ Distinct(Wanted(s))
                       /\ \A i \in DOMAIN Wanted(s) : Wanted(s)[i] = s
    <3> SUFFICES ASSUME NEW s \in Kind
                 PROVE  /\ Wanted(s) \in Seq(Kind) /\ Distinct(Wanted(s))
                        /\ \A i \in DOMAIN Wanted(s) : Wanted(s)[i] = s
      OBVIOUS
    <3>1. CASE s \in config.sinks
      BY <3>1 DEF Wanted, Distinct
    <3>2. CASE s \notin config.sinks
      BY <3>2 DEF Wanted, Distinct
    <3> QED
      BY <3>1, <3>2
  <2>2. "terminal" \in Kind /\ "file" \in Kind /\ "sqlite" \in Kind
    BY DEF Kind
  <2> QED
    BY <2>1, <2>2
<1> HIDE DEF a, b, c
<1>2. Distinct(a \o b) /\ a \o b \in Seq(Kind)
  <2>1. \A i \in DOMAIN a, j \in DOMAIN b : a[i] # b[j]
    BY <1>1
  <2> QED
    BY <1>1, <2>1, DistinctConcat
<1>3. \A i \in DOMAIN (a \o b) : (a \o b)[i] \in {"terminal", "file"}
  BY <1>1
<1>4. Distinct((a \o b) \o c) /\ (a \o b) \o c \in Seq(Kind)
  <2>1. \A i \in DOMAIN (a \o b), j \in DOMAIN c : (a \o b)[i] # c[j]
    BY <1>1, <1>3
  <2> QED
    BY <1>1, <1>2, <2>1, DistinctConcat
<1>5. Distinct(<<"terminal">>) /\ <<"terminal">> \in Seq(Kind)
  BY DEF Distinct, Kind
<1> QED
  BY <1>4, <1>5 DEF Asked, a, b, c

(* Log_init makes the list of the sinks that could be opened.              *)
LEMMA SinksStep ==
  ASSUME LogInv, [Next]_vars
  PROVE  SinksInv'
<1>1. CASE LogInit
  <2>1. /\ sinks' = [i \in DOMAIN Asked |-> IF Asked[i] \in able THEN Asked[i] ELSE "null"]
        /\ UNCHANGED <<config, able>>
    BY <1>1 DEF LogInit, fixed
  <2>2. DOMAIN sinks' = DOMAIN Asked
    BY <2>1
  <2>3. \A i, j \in DOMAIN sinks' : sinks'[i] = sinks'[j] /\ sinks'[i] # "null" => i = j
    BY <2>1, <2>2, AskedOnce DEF Distinct
  <2>4. \A i \in DOMAIN Asked : Asked[i] \in Kind /\ Asked[i] # "null"
    BY AskedOnce DEF Kind
  <2>5. Range(sinks') \ {"null"} = Range(Asked) \cap able
    BY <2>1, <2>2, <2>4 DEF Range
  <2>6. Working' = Range(Asked) \cap able
    BY <2>1 DEF Working, Asked, Wanted
  <2> QED
    BY <2>3, <2>5, <2>6 DEF SinksInv
<1>2. CASE LogInitFails \/ LogClosed
  <2>1. sinks' = <<>> /\ pc'[Main] = "exit"
    BY <1>2 DEF LogInitFails, LogClosed, Goto, LogInv, LockInv, TypeOK
  <2> QED
    BY <2>1 DEF SinksInv
<1>3. CASE LogShutdown
  <2>1. sinks' = <<>> /\ pc'[Main] = "closing"
    BY <1>3 DEF LogShutdown, Goto, LogInv, TypeOK
  <2> QED
    BY <2>1 DEF SinksInv
<1>4. ASSUME UNCHANGED <<sinks, config, able>>,
             pc'[Main] \in {"run", "lock", "write"} => pc[Main] \in {"run", "lock", "write"}
      PROVE  SinksInv'
  <2>1. Working' = Working
    BY <1>4 DEF Working, Asked, Wanted
  <2> QED
    BY <1>4, <2>1 DEF LogInv, SinksInv
<1>5. ASSUME NEW t \in Thread, Logs(t)
      PROVE  SinksInv'
  <2>1. /\ UNCHANGED <<sinks, config, able>>
        /\ pc' = pc \/ /\ pc[t] \in {"run", "lock", "write"}
                       /\ \E to \in PC : pc' = [pc EXCEPT ![t] = to]
    BY <1>5 DEF Logs, Call, Acquire, SkipNull, WriteSink, Release, logger, fixed, Goto, PC
  <2>2. pc'[Main] \in {"run", "lock", "write"} => pc[Main] \in {"run", "lock", "write"}
    BY <2>1 DEF LogInv, TypeOK
  <2> QED
    BY <1>4, <2>1, <2>2
<1>6. CASE Threads \/ Ended \/ UNCHANGED vars
  <2>1. UNCHANGED <<sinks, config, able>> /\ pc'[Main] = pc[Main]
    BY <1>6, ThreadAssumption DEF Threads, Spawn, WorkerEnds, Join, LockContext,
       UnlockContext, Ended, vars, logger, fixed, Goto, LogInv, TypeOK
  <2> QED
    BY <1>4, <2>1
<1> QED
  BY <1>1, <1>2, <1>3, <1>5, <1>6 DEF Next

-----------------------------------------------------------------------------
(***************************************************************************)
(* What the sinks hold.                                                    *)
(***************************************************************************)

(* The sinks that work depend on the configuration only.                   *)
LEMMA WorkingKept ==
  ASSUME UNCHANGED <<config, able>>
  PROVE  Working' = Working
BY DEF Working, Asked, Wanted

(* They are sinks.                                                         *)
LEMMA WorkingType == Working \subseteq Kind
BY AskedOnce DEF Working, Range

(* Neither log_init, log_shutdown nor the life of the threads touches what *)
(* the sinks hold.                                                         *)
LEMMA QuietStep ==
  ASSUME LogInv,
         UNCHANGED <<config, able, said, written, lost>>,
         \A t \in Thread : pc'[t] = pc[t] \/ {pc[t], pc'[t]} \cap {"lock", "write"} = {},
         UNCHANGED <<sinks, at>> \/ \A t \in Thread : pc'[t] # "write"
  PROVE  HandedInv' /\ LoopInv' /\ KeptInv' /\ OrderInv'
<1>1. /\ \A s : Handed(s)' = Handed(s)
      /\ \A t : Record(t)' = Record(t)
      /\ \A t \in Thread : /\ pc'[t] = "lock" <=> pc[t] = "lock"
                           /\ pc'[t] = "write" <=> pc[t] = "write"
      /\ Working' = Working
  BY WorkingKept DEF Handed, Record
<1>2. \A s \in Kind : \A line \in Handed(s) : line[1] \in Thread
  BY DEF LogInv, TypeOK, Handed, Line, Range
<1>3. HandedInv'
  BY <1>1, <1>2 DEF LogInv, HandedInv
<1>4. LoopInv'
  BY <1>1 DEF LogInv, LoopInv
<1>5. KeptInv'
  BY <1>1 DEF LogInv, KeptInv
<1>6. OrderInv'
  BY DEF LogInv, OrderInv, InOrder, SameOrder
<1> QED
  BY <1>3, <1>4, <1>5, <1>6

(* Those steps.                                                            *)
LEMMA QuietSteps ==
  ASSUME LogInv, LogInit \/ LogInitFails \/ LogShutdown \/ LogClosed \/ Threads
                   \/ Ended \/ UNCHANGED vars
  PROVE  HandedInv' /\ LoopInv' /\ KeptInv' /\ OrderInv'
<1>1. UNCHANGED <<config, able, said, written, lost, at>>
  BY DEF LogInit, LogInitFails, LogShutdown, LogClosed, Threads, Spawn, WorkerEnds, Join,
     LockContext, UnlockContext, Ended, vars, fixed, media, logger
<1>2. pc \in [Thread -> PC]
  BY DEF LogInv, TypeOK
<1>3. CASE Threads \/ Ended \/ UNCHANGED vars
  <2>1. UNCHANGED sinks
    BY <1>3 DEF Threads, Spawn, WorkerEnds, Join, LockContext, UnlockContext, Ended, vars,
       logger
  <2>2. \A t \in Thread : pc'[t] = pc[t] \/ {pc[t], pc'[t]} \cap {"lock", "write"} = {}
    BY <1>2, <1>3, ThreadAssumption DEF Threads, Spawn, WorkerEnds, Join, LockContext,
       UnlockContext, Ended, vars, Goto
  <2> QED
    BY <1>1, <2>1, <2>2, QuietStep
<1>4. CASE LogInit \/ LogInitFails \/ LogShutdown \/ LogClosed
  <2>1. pc[Scan] = "none" /\ pc'[Scan] = "none"
    BY <1>2, <1>4, ThreadAssumption DEF LogInit, LogInitFails, LogShutdown, LogClosed, Goto,
       Joined, LogInv, LockInv
  <2>2. /\ pc[Main] \in {"start", "run", "closing"}
        /\ pc'[Main] \in {"run", "exit", "closing"}
    BY <1>2, <1>4 DEF LogInit, LogInitFails, LogShutdown, LogClosed, Goto
  <2>3. /\ \A t \in Thread : pc'[t] = pc[t] \/ {pc[t], pc'[t]} \cap {"lock", "write"} = {}
        /\ \A t \in Thread : pc'[t] # "write"
    BY <2>1, <2>2
  <2> QED
    BY <1>1, <2>3, QuietStep
<1> QED
  BY <1>3, <1>4

(* A thread that may call the logger finds it as it was configured.        *)
LEMMA CallerConfigured ==
  ASSUME LogInv, NEW t \in Thread, pc[t] = "run"
  PROVE  initialized /\ minLevel = config.level
BY DEF LogInv, LockInv, TypeOK, PC

(* A call of the logger, before it takes the lock.                         *)
LEMMA CallStep ==
  ASSUME LogInv, NEW t \in Thread, NEW level \in Level, Call(t, level)
  PROVE  HandedInv' /\ LoopInv' /\ KeptInv' /\ OrderInv'
<1> DEFINE n == Len(said[t])
<1>1. /\ said \in [Thread -> Seq(Level)] /\ pc \in [Thread -> PC]
      /\ written \in [Kind -> Seq(Line)] /\ lost \subseteq Kind \X Line /\ Level \subseteq Nat
      /\ at \in [Thread -> Nat]
  BY LevelAssumption DEF LogInv, TypeOK
<1>2. /\ pc[t] = "run" /\ UNCHANGED <<config, able, written, lost, sinks, at>>
      /\ said' = [said EXCEPT ![t] = Append(said[t], level)]
      /\ pc' = [pc EXCEPT ![t] = IF level >= config.level THEN "lock" ELSE "run"]
  BY CallerConfigured DEF Call, Enabled, fixed, logger, media
<1>3. /\ n \in Nat /\ said[t] \in Seq(Level) /\ said'[t] = Append(said[t], level)
      /\ Len(said'[t]) = n + 1 /\ said'[t][n + 1] = level
      /\ \A k \in 1..n : said'[t][k] = said[t][k]
      /\ DOMAIN said'[t] = 1..(n + 1) /\ DOMAIN said[t] = 1..n
  BY <1>1, <1>2
<1>4. \A u \in Thread \ {t} : said'[u] = said[u] /\ pc'[u] = pc[u]
  BY <1>1, <1>2
<1>5. pc'[t] = (IF level >= config.level THEN "lock" ELSE "run") /\ pc'[t] # "write"
  BY <1>1, <1>2
<1>6. /\ \A s : Handed(s)' = Handed(s)
      /\ \A u \in Thread \ {t} : Record(u)' = Record(u)
      /\ Working' = Working
  BY <1>2, <1>4, WorkingKept DEF Handed, Record
<1>7. \A s \in Kind : \A line \in Handed(s) : line[1] \in Thread /\ line[2] \in Nat
  BY <1>1 DEF Handed, Line, Range
<1>8. /\ \A u \in Thread : pc[u] \in {"lock", "write"} =>
           said[u] # <<>> /\ said[u][Len(said[u])] >= config.level
      /\ \A s \in Kind : \A line \in Handed(s) :
           /\ line[2] \in 1..Len(said[line[1]])
           /\ pc[line[1]] = "lock" => line[2] < Len(said[line[1]])
      /\ \A s \in Kind : \A line \in Range(written[s]) : <<s, line>> \notin lost
  BY DEF LogInv, HandedInv
<1> HIDE DEF n
<1>9. HandedInv'
  <2>1. \A u \in Thread : pc'[u] \in {"lock", "write"} =>
          said'[u] # <<>> /\ said'[u][Len(said'[u])] >= config.level
    <3> TAKE u \in Thread
    <3>1. CASE u = t
      BY <1>3, <1>5, <3>1
    <3>2. CASE u # t
      BY <1>4, <1>8, <3>2
    <3> QED
      BY <3>1, <3>2
  <2>2. ASSUME NEW s \in Kind, NEW line \in Handed(s)
        PROVE  /\ line[2] \in 1..Len(said'[line[1]])
               /\ pc'[line[1]] = "lock" => line[2] < Len(said'[line[1]])
    <3>1. CASE line[1] = t
      <4>1. line[2] \in 1..n
        BY <1>8, <3>1 DEF n
      <4> QED
        BY <1>3, <3>1, <4>1
    <3>2. CASE line[1] # t
      BY <1>4, <1>7, <1>8, <3>2
    <3> QED
      BY <3>1, <3>2
  <2> QED
    BY <1>2, <1>6, <1>8, <2>1, <2>2 DEF HandedInv
<1>10. LoopInv'
  BY <1>2, <1>4, <1>5, <1>6 DEF LogInv, LoopInv
<1>11. KeptInv'
  <2> SUFFICES ASSUME NEW u \in Thread, NEW s \in Working, NEW k \in DOMAIN said'[u],
                      pc'[u] \notin {"lock", "write"} \/ k < Len(said'[u])
               PROVE  <<u, k>> \in Range(written[s]) <=>
                        said'[u][k] >= config.level /\ <<s, <<u, k>>>> \notin lost
    BY <1>2, <1>6, SMTT(60) DEF KeptInv
  <2>1. CASE u # t
    BY <1>2, <1>4, <2>1 DEF LogInv, KeptInv
  <2>2. CASE u = t /\ k # n + 1
    <3>1. k \in DOMAIN said[t] /\ said'[t][k] = said[t][k] /\ pc[t] = "run"
      BY <1>2, <1>3, <2>2
    <3> QED
      BY <2>2, <3>1 DEF LogInv, KeptInv
  <2>3. CASE u = t /\ k = n + 1
    <3>1. ~(level >= config.level) /\ said'[u][k] = level
      BY <1>3, <1>5, <2>3
    <3>2. <<u, k>> \notin Range(written[s])
      <4>1. s \in Kind
        BY WorkingType
      <4>2. <<u, k>> \notin Handed(s)
        BY <1>3, <1>8, <2>3, <4>1 DEF n
      <4> QED
        BY <4>2 DEF Handed
    <3> QED
      BY <3>1, <3>2
  <2> QED
    BY <2>1, <2>2, <2>3
<1>12. OrderInv'
  BY <1>2 DEF LogInv, OrderInv, InOrder, SameOrder
<1> QED
  BY <1>9, <1>10, <1>11, <1>12

(* The types the steps of the loop need.                                   *)
LEMMA LoopTypes ==
  ASSUME LogInv
  PROVE  /\ said \in [Thread -> Seq(Level)] /\ pc \in [Thread -> PC] /\ at \in [Thread -> Nat]
         /\ written \in [Kind -> Seq(Line)] /\ lost \subseteq Kind \X Line
         /\ sinks \in Seq(Kind \cup {"null"}) /\ Len(sinks) \in Nat
         /\ DOMAIN sinks = 1..Len(sinks)
         /\ \A t \in Thread : Len(said[t]) \in Nat /\ DOMAIN said[t] = 1..Len(said[t])
         /\ \A t \in Thread : lock = t <=> pc[t] \in {"write", "closing"}
         /\ \A t \in Thread : pc[t] = "write" => at[t] >= 1
         /\ \A s \in Kind : \A line \in Handed(s) : line \in Line
BY DEF LogInv, TypeOK, LockInv, Handed, Line, Range

(* What a sink was handed was written or lost.                             *)
LEMMA HandedParts ==
  ASSUME lost \subseteq Kind \X Line, NEW s, NEW line
  PROVE  line \in Handed(s) <=> line \in Range(written[s]) \/ <<s, line>> \in lost
<1>1. \A e \in lost : e = <<e[1], e[2]>>
  OBVIOUS
<1>2. line \in {entry[2] : entry \in {e \in lost : e[1] = s}} <=> <<s, line>> \in lost
  BY <1>1
<1> QED
  BY <1>2 DEF Handed

(* The lock is taken: the record is in no sink yet.                        *)
LEMMA AcquireStep ==
  ASSUME LogInv, NEW t \in Thread, Acquire(t)
  PROVE  HandedInv' /\ LoopInv' /\ KeptInv' /\ OrderInv'
<1>1. /\ pc[t] = "lock" /\ pc' = [pc EXCEPT ![t] = "write"] /\ lock = None
      /\ at' = [at EXCEPT ![t] = 1]
      /\ UNCHANGED <<config, able, sinks, said, written, lost>>
  BY DEF Acquire, Free, Goto, fixed, logger, media
<1>2. pc'[t] = "write" /\ at'[t] = 1 /\ \A u \in Thread \ {t} : pc'[u] = pc[u]
  BY <1>1, LoopTypes
<1>3. \A u \in Thread : pc[u] # "write"
  BY <1>1, LoopTypes, ThreadAssumption
<1>4. /\ \A s : Handed(s)' = Handed(s)
      /\ \A u : Record(u)' = Record(u)
      /\ Working' = Working
  BY <1>1, WorkingKept DEF Handed, Record
<1>5. \A s \in Kind : Record(t) \notin Handed(s)
  BY <1>1, LoopTypes DEF LogInv, HandedInv, Record
<1>6. HandedInv'
  BY <1>1, <1>2, <1>4, LoopTypes DEF LogInv, HandedInv, Line
<1>7. LoopInv'
  <2> SUFFICES ASSUME NEW s \in Kind
               PROVE  /\ Record(t) \in Handed(s) <=>
                           \E i \in DOMAIN sinks : i < 1 /\ sinks[i] = s
                      /\ \A i \in DOMAIN written[s] :
                           written[s][i] = Record(t) => i = Len(written[s])
    BY <1>1, <1>2, <1>3, <1>4 DEF LoopInv
  <2>1. \A i \in DOMAIN sinks : ~(i < 1)
    BY LoopTypes
  <2>2. \A i \in DOMAIN written[s] : written[s][i] # Record(t)
    BY <1>5 DEF Handed, Range
  <2> QED
    BY <1>5, <2>1, <2>2
<1>8. KeptInv'
  <2>1. \A u \in Thread : pc'[u] \in {"lock", "write"} <=> pc[u] \in {"lock", "write"}
    BY <1>1, <1>2
  <2> QED
    BY <1>1, <1>4, <2>1 DEF LogInv, KeptInv
<1>9. OrderInv'
  BY <1>1 DEF LogInv, OrderInv, InOrder, SameOrder
<1> QED
  BY <1>6, <1>7, <1>8, <1>9

(* The loop skips a sink that could not be opened.                         *)
LEMMA SkipStep ==
  ASSUME LogInv, NEW t \in Thread, SkipNull(t)
  PROVE  HandedInv' /\ LoopInv' /\ KeptInv' /\ OrderInv'
<1>1. /\ pc[t] = "write" /\ at[t] \in DOMAIN sinks /\ sinks[at[t]] = "null"
      /\ at' = [at EXCEPT ![t] = at[t] + 1]
      /\ UNCHANGED <<config, able, sinks, pc, said, written, lost>>
  BY LoopTypes DEF SkipNull, AfterNull, fixed, logger, media
<1>2. at'[t] = at[t] + 1 /\ \A u \in Thread \ {t} : at'[u] = at[u]
  BY <1>1, LoopTypes
<1>3. /\ \A s : Handed(s)' = Handed(s)
      /\ \A u : Record(u)' = Record(u)
      /\ Working' = Working
  BY <1>1, WorkingKept DEF Handed, Record
<1>4. \A s \in Kind : s # "null"
  BY DEF Kind
<1>5. \A s \in Kind : (\E i \in DOMAIN sinks : i < at[t] /\ sinks[i] = s) <=>
                        (\E i \in DOMAIN sinks : i < at[t] + 1 /\ sinks[i] = s)
  <2>1. \A i \in DOMAIN sinks : i < at[t] + 1 <=> i < at[t] \/ i = at[t]
    BY LoopTypes
  <2> QED
    BY <1>1, <1>4, <2>1
<1>6. HandedInv'
  BY <1>1, <1>3 DEF LogInv, HandedInv
<1>7. LoopInv'
  BY <1>1, <1>2, <1>3, <1>5 DEF LogInv, LoopInv
<1>8. KeptInv'
  BY <1>1, <1>3 DEF LogInv, KeptInv
<1>9. OrderInv'
  BY <1>1 DEF LogInv, OrderInv, InOrder, SameOrder
<1> QED
  BY <1>6, <1>7, <1>8, <1>9

(* The lock is released: every working sink was handed the record.         *)
LEMMA ReleaseStep ==
  ASSUME LogInv, NEW t \in Thread, Release(t)
  PROVE  HandedInv' /\ LoopInv' /\ KeptInv' /\ OrderInv'
<1> DEFINE n == Len(said[t])
<1>1. /\ pc[t] = "write" /\ pc' = [pc EXCEPT ![t] = "run"] /\ at[t] > Len(sinks)
      /\ UNCHANGED <<config, able, sinks, at, said, written, lost>>
  BY DEF Release, Goto, fixed, logger, media
<1>2. pc'[t] = "run" /\ \A u \in Thread \ {t} : pc'[u] = pc[u]
  BY <1>1, LoopTypes
<1>3. /\ \A s : Handed(s)' = Handed(s)
      /\ \A u : Record(u)' = Record(u)
      /\ Working' = Working
  BY <1>1, WorkingKept DEF Handed, Record
<1>4. HandedInv'
  <2>1. \A u \in Thread : /\ pc'[u] \in {"lock", "write"} => pc[u] \in {"lock", "write"}
                          /\ pc'[u] = "lock" => pc[u] = "lock"
    BY <1>2
  <2>2. \A s \in Kind : \A line \in Handed(s) : line[1] \in Thread
    BY LoopTypes DEF Line
  <2> QED
    BY <1>1, <1>3, <2>1, <2>2 DEF LogInv, HandedInv
<1>5. LoopInv'
  BY <1>1, <1>2, <1>3 DEF LogInv, LoopInv
<1>6. \A s \in Working : Record(t) \in Handed(s)
  <2> TAKE s \in Working
  <2>1. pc[Main] \in {"run", "lock", "write"}
    BY <1>1 DEF LogInv, LockInv
  <2>2. s \in Kind /\ s \in Range(sinks)
    BY <2>1, WorkingType DEF LogInv, SinksInv
  <2>3. PICK i \in DOMAIN sinks : sinks[i] = s
    BY <2>2 DEF Range
  <2>4. i < at[t]
    BY <1>1, LoopTypes
  <2> QED
    BY <1>1, <2>2, <2>3, <2>4 DEF LogInv, LoopInv
<1>7. KeptInv'
  <2> SUFFICES ASSUME NEW u \in Thread, NEW s \in Working, NEW k \in DOMAIN said[u],
                      pc'[u] \notin {"lock", "write"} \/ k < Len(said[u])
               PROVE  <<u, k>> \in Range(written[s]) <=>
                        said[u][k] >= config.level /\ <<s, <<u, k>>>> \notin lost
    BY <1>1, <1>3, SMTT(60) DEF KeptInv
  <2>1. CASE u # t \/ k # n
    <3>1. pc[u] \notin {"lock", "write"} \/ k < Len(said[u])
      BY <1>2, <2>1, LoopTypes
    <3> QED
      BY <3>1 DEF LogInv, KeptInv
  <2>2. CASE u = t /\ k = n
    <3>1. <<u, k>> \in Handed(s) /\ s \in Kind
      BY <1>6, <2>2, WorkingType DEF Record
    <3>2. said[u][k] >= config.level
      BY <1>1, <2>2 DEF LogInv, HandedInv
    <3>3. <<u, k>> \in Range(written[s]) \/ <<s, <<u, k>>>> \in lost
      BY <3>1, LoopTypes, HandedParts
    <3>4. <<u, k>> \in Range(written[s]) => <<s, <<u, k>>>> \notin lost
      BY <3>1 DEF LogInv, HandedInv
    <3> QED
      BY <3>2, <3>3, <3>4
  <2> QED
    BY <2>1, <2>2
<1>8. OrderInv'
  BY <1>1 DEF LogInv, OrderInv, InOrder, SameOrder
<1> QED
  BY <1>4, <1>5, <1>7, <1>8

(* What a write does.                                                      *)
LEMMA WriteParts ==
  ASSUME LogInv, NEW t \in Thread, WriteSink(t)
  PROVE  LET k == sinks[at[t]] IN
         /\ k \in Kind /\ Record(t) \in Line /\ pc[t] = "write" /\ at[t] \in DOMAIN sinks
         /\ at' = [at EXCEPT ![t] = at[t] + 1]
         /\ UNCHANGED <<config, able, sinks, lock, pc, said>>
         /\ written' \in [Kind -> Seq(Line)] /\ lost' \subseteq Kind \X Line
         /\ \A s \in Kind \ {k} : written'[s] = written[s]
         /\ \A s \in Kind : \A line : <<s, line>> \in lost' <=>
              \/ <<s, line>> \in lost
              \/ s = k /\ line = Record(t) /\ written'[k] = written[k]
         /\ \/ written'[k] = written[k]
            \/ written'[k] = Append(written[k], Record(t))
         /\ written'[k] # written[k] => lost' = lost
         /\ Record(t) \notin Handed(k)
<1> DEFINE k == sinks[at[t]]
<1>1. /\ pc[t] = "write" /\ at[t] \in DOMAIN sinks /\ k # "null"
      /\ at' = [at EXCEPT ![t] = at[t] + 1]
      /\ UNCHANGED <<config, able, sinks, lock, pc, said>>
      /\ \/ /\ written' = [written EXCEPT ![k] = Append(@, Record(t))]
            /\ lost' = lost
         \/ /\ lost' = lost \cup {<<k, Record(t)>>}
            /\ written' = written
  BY LoopTypes DEF WriteSink, fixed, logger
<1>2. k \in Kind
  BY <1>1, LoopTypes
<1>3. Record(t) \in Line
  BY LoopTypes DEF Record, Line
<1>4. Record(t) \notin Handed(k)
  <2>1. \A i \in DOMAIN sinks : i < at[t] => sinks[i] # k
    BY <1>1, LoopTypes DEF LogInv, SinksInv
  <2> QED
    BY <1>1, <1>2, <2>1 DEF LogInv, LoopInv
<1> HIDE DEF k
<1>5. written \in [Kind -> Seq(Line)] /\ lost \subseteq Kind \X Line
  BY LoopTypes
<1>6. Append(written[k], Record(t)) \in Seq(Line)
  BY <1>2, <1>3, <1>5
<1>7. Append(written[k], Record(t)) # written[k]
  <2>1. /\ Len(Append(written[k], Record(t))) = Len(written[k]) + 1
        /\ Len(written[k]) \in Nat
    BY <1>2, <1>5
  <2> QED
    BY <2>1
<1>8. CASE written' = [written EXCEPT ![k] = Append(@, Record(t))] /\ lost' = lost
  <2>1. /\ written'[k] = Append(written[k], Record(t))
        /\ \A s \in Kind \ {k} : written'[s] = written[s]
        /\ written' \in [Kind -> Seq(Line)]
    BY <1>2, <1>5, <1>6, <1>8
  <2> QED
    BY <1>1, <1>2, <1>3, <1>4, <1>5, <1>7, <1>8, <2>1 DEF k
<1>9. CASE lost' = lost \cup {<<k, Record(t)>>} /\ written' = written
  <2>1. \A s \in Kind : \A line : <<s, line>> \in lost' <=>
          \/ <<s, line>> \in lost
          \/ s = k /\ line = Record(t)
    BY <1>9
  <2>2. lost' \subseteq Kind \X Line
    BY <1>2, <1>3, <1>5, <1>9
  <2> QED
    BY <1>1, <1>2, <1>3, <1>4, <1>5, <1>9, <2>1, <2>2 DEF k
<1> QED
  BY <1>1, <1>8, <1>9, SMTT(60) DEF k

(* The record comes after what is in the sink, whichever sinks have it.    *)
LEMMA WriteOrder ==
  ASSUME LogInv, NEW t \in Thread, WriteSink(t)
  PROVE  OrderInv'
<1>0. PICK k \in Kind : k = sinks[at[t]]
  BY WriteParts
<1>1. /\ Record(t) \in Line /\ pc[t] = "write"
      /\ written' \in [Kind -> Seq(Line)]
      /\ \A s \in Kind \ {k} : written'[s] = written[s]
      /\ \/ written'[k] = written[k]
         \/ written'[k] = Append(written[k], Record(t))
      /\ Record(t) \notin Handed(k)
  BY <1>0, WriteParts
<1>2. /\ written \in [Kind -> Seq(Line)]
      /\ \A s \in Kind : /\ DOMAIN written[s] = 1..Len(written[s]) /\ Len(written[s]) \in Nat
                         /\ DOMAIN written'[s] = 1..Len(written'[s])
                         /\ Len(written'[s]) \in Nat
  BY <1>1, LoopTypes
<1>3. CASE written'[k] = written[k]
  <2>1. \A s \in Kind : written'[s] = written[s]
    BY <1>1, <1>3
  <2> QED
    BY <2>1 DEF LogInv, OrderInv, InOrder, SameOrder
<1>4. CASE written'[k] # written[k]
  <2> DEFINE n == Len(written[k])
  <2>1. /\ DOMAIN written'[k] = 1..(n + 1) /\ DOMAIN written[k] = 1..n /\ n \in Nat
        /\ \A i \in 1..n : written'[k][i] = written[k][i]
        /\ written'[k][n + 1] = Record(t)
    BY <1>1, <1>2, <1>4
  <2>2. \A i \in 1..n : written[k][i] # Record(t)
    BY <1>1, <2>1 DEF Handed, Range
  <2>3. \A s \in Kind : \A i \in DOMAIN written[s] :
          written[s][i] = Record(t) => i = Len(written[s])
    BY <1>1 DEF LogInv, LoopInv
  <2>4. \A r, s \in Kind : InOrder(s) /\ SameOrder(r, s)
    BY DEF LogInv, OrderInv
  <2> HIDE DEF n
  <2>5. InOrder(k)'
    <3>1. ASSUME NEW i \in 1..n, written[k][i][1] = t
          PROVE  written[k][i][2] < Len(said[t])
      <4>1. written[k][i] \in Handed(k) /\ written[k][i] \in Line
        BY <1>2, <2>1 DEF Handed, Range
      <4>2. written[k][i][2] \in 1..Len(said[t])
        BY <3>1, <4>1 DEF LogInv, HandedInv
      <4>3. written[k][i][2] # Len(said[t])
        <5>1. written[k][i] = <<written[k][i][1], written[k][i][2]>>
          BY <4>1 DEF Line
        <5> QED
          BY <2>2, <3>1, <5>1 DEF Record
      <4> QED
        BY <4>2, <4>3, LoopTypes
    <3> SUFFICES ASSUME NEW i \in 1..(n + 1), NEW j \in 1..(n + 1), i < j,
                        written'[k][i][1] = written'[k][j][1]
                 PROVE  written'[k][i][2] < written'[k][j][2]
      BY <2>1 DEF InOrder
    <3>2. CASE j = n + 1
      <4>1. i \in 1..n /\ written'[k][i] = written[k][i]
        BY <2>1, <3>2
      <4>2. written'[k][j][1] = t /\ written'[k][j][2] = Len(said[t])
        BY <2>1, <3>2 DEF Record
      <4> QED
        BY <3>1, <4>1, <4>2
    <3>3. CASE j # n + 1
      <4>1. i \in 1..n /\ j \in 1..n
        BY <2>1, <3>3
      <4> QED
        BY <2>1, <2>4, <4>1 DEF InOrder
    <3> QED
      BY <3>2, <3>3
  <2>6. \A s \in Kind : InOrder(s)'
    <3>1. \A s \in Kind \ {k} : InOrder(s)'
      BY <1>1, <2>4 DEF InOrder
    <3> QED
      BY <2>5, <3>1
  <2>7. ASSUME NEW r \in Kind, NEW s \in Kind,
               NEW i \in DOMAIN written'[r], NEW j \in DOMAIN written'[r],
               NEW l \in DOMAIN written'[s], NEW m \in DOMAIN written'[s], i < j,
               written'[r][i] = written'[s][l], written'[r][j] = written'[s][m]
        PROVE  l < m
    <3>1. /\ i \in Nat /\ j \in Nat /\ l \in Nat /\ m \in Nat
          /\ \A q \in Kind : \A x \in DOMAIN written'[q] :
               \/ x \in DOMAIN written[q] /\ written'[q][x] = written[q][x]
               \/ q = k /\ x = n + 1 /\ written'[q][x] = Record(t)
      <4>1. i \in Nat /\ j \in Nat /\ l \in Nat /\ m \in Nat
        BY <1>2, SMTT(60)
      <4>2. \A x \in DOMAIN written'[k] :
              \/ x \in DOMAIN written[k] /\ written'[k][x] = written[k][x]
              \/ x = n + 1 /\ written'[k][x] = Record(t)
        BY <2>1
      <4> QED
        BY <1>1, <4>1, <4>2
    <3>2. i \in DOMAIN written[r] /\ written'[r][i] = written[r][i]
      BY <1>2, <2>1, <3>1, <2>7, SMTT(60)
    <3>3. written[r][i] # Record(t)
      <4>1. CASE r = k
        BY <2>1, <2>2, <3>2, <4>1
      <4>2. CASE r # k
        <5>1. written'[r] = written[r]
          BY <1>1, <4>2
        <5>2. i < Len(written[r])
          BY <1>2, <2>7, <5>1
        <5> QED
          BY <1>2, <2>3, <3>2, <5>2
      <4> QED
        BY <4>1, <4>2
    <3>4. l \in DOMAIN written[s] /\ written'[s][l] = written[s][l]
      BY <2>7, <3>1, <3>2, <3>3
    <3>5. CASE j \in DOMAIN written[r] /\ m \in DOMAIN written[s]
      <4>1. written'[r][j] = written[r][j] /\ written'[s][m] = written[s][m]
        BY <1>1, <2>1, <3>5
      <4>2. written[r][i] = written[s][l] /\ written[r][j] = written[s][m] /\ i < j
        BY <2>7, <3>2, <3>4, <4>1
      <4>3. SameOrder(r, s)
        BY <2>4
      <4> QED
        BY <3>2, <3>4, <3>5, <4>2, <4>3 DEF SameOrder
    <3>6. CASE m \notin DOMAIN written[s]
      <4>1. s = k /\ m = n + 1 /\ l \in 1..n
        BY <2>1, <3>1, <3>4, <3>6
      <4> QED
        BY <2>1, <4>1
    <3>7. CASE j \notin DOMAIN written[r] /\ m \in DOMAIN written[s]
      <4>1. written'[r][j] = Record(t)
        BY <3>1, <3>7
      <4>2. written'[s][m] = written[s][m]
        BY <1>1, <2>1, <3>7
      <4>3. m = Len(written[s])
        BY <2>3, <2>7, <3>7, <4>1, <4>2
      <4>4. l # m
        BY <2>7, <3>2, <3>3, <3>4, <4>1, <4>2
      <4> QED
        BY <1>2, <3>4, <4>3, <4>4
    <3> QED
      BY <3>5, <3>6, <3>7
  <2> QED
    BY <2>6, <2>7 DEF OrderInv, SameOrder
<1> QED
  BY <1>3, <1>4

(* The record is then written or lost.                             *)
LEMMA WriteStep ==
  ASSUME LogInv, NEW t \in Thread, WriteSink(t)
  PROVE  HandedInv' /\ LoopInv' /\ KeptInv' /\ OrderInv'
<1>0. PICK k \in Kind : k = sinks[at[t]]
  BY WriteParts
<1>1. /\ Record(t) \in Line /\ pc[t] = "write" /\ at[t] \in DOMAIN sinks
      /\ at' = [at EXCEPT ![t] = at[t] + 1]
      /\ UNCHANGED <<config, able, sinks, lock, pc, said>>
      /\ written' \in [Kind -> Seq(Line)] /\ lost' \subseteq Kind \X Line
      /\ \A s \in Kind \ {k} : written'[s] = written[s]
      /\ \A s \in Kind : \A line : <<s, line>> \in lost' <=>
           \/ <<s, line>> \in lost
           \/ s = k /\ line = Record(t) /\ written'[k] = written[k]
      /\ \/ written'[k] = written[k]
         \/ written'[k] = Append(written[k], Record(t))
      /\ written'[k] # written[k] => lost' = lost
      /\ Record(t) \notin Handed(k)
  BY <1>0, WriteParts
<1>2. /\ written \in [Kind -> Seq(Line)] /\ lost \subseteq Kind \X Line
      /\ \A s \in Kind : /\ DOMAIN written[s] = 1..Len(written[s]) /\ Len(written[s]) \in Nat
                         /\ DOMAIN written'[s] = 1..Len(written'[s])
                         /\ Len(written'[s]) \in Nat
  BY <1>1, LoopTypes, SMTT(60)
<1>3. written'[k] # written[k] =>
        /\ Len(written'[k]) = Len(written[k]) + 1
        /\ \A i \in 1..Len(written[k]) : written'[k][i] = written[k][i]
        /\ written'[k][Len(written'[k])] = Record(t)
  <2>1. written[k] \in Seq(Line) /\ Record(t) \in Line
    BY <1>1, <1>2
  <2>2. /\ Len(Append(written[k], Record(t))) = Len(written[k]) + 1
        /\ \A i \in 1..Len(written[k]) : Append(written[k], Record(t))[i] = written[k][i]
        /\ Append(written[k], Record(t))[Len(written[k]) + 1] = Record(t)
    BY <2>1
  <2> QED
    BY <1>1, <2>2
<1>4. /\ \A u : Record(u)' = Record(u)
      /\ Working' = Working
  BY <1>1, WorkingKept DEF Record
<1>5. \A u \in Thread \ {t} : pc[u] # "write" /\ at'[u] = at[u]
  BY <1>1, LoopTypes, ThreadAssumption
<1>6. at'[t] = at[t] + 1 /\ at[t] \in Nat
  BY <1>1, LoopTypes
<1>7. \A s \in Kind : \A line :
        line \in Range(written'[s]) <=>
          \/ line \in Range(written[s])
          \/ s = k /\ line = Record(t) /\ written'[k] # written[k]
  <2> SUFFICES ASSUME NEW line
               PROVE  written'[k] # written[k] =>
                        (line \in Range(written'[k]) <=>
                           line \in Range(written[k]) \/ line = Record(t))
    BY <1>1
  <2> SUFFICES ASSUME written'[k] # written[k]
               PROVE  line \in Range(written'[k]) <=>
                        line \in Range(written[k]) \/ line = Record(t)
    OBVIOUS
  <2>1. \A i \in DOMAIN written'[k] :
          \/ i \in DOMAIN written[k] /\ written'[k][i] = written[k][i]
          \/ i = Len(written'[k]) /\ written'[k][i] = Record(t)
    BY <1>2, <1>3
  <2>2. /\ \A i \in DOMAIN written[k] :
             i \in DOMAIN written'[k] /\ written'[k][i] = written[k][i]
        /\ Len(written'[k]) \in DOMAIN written'[k]
    BY <1>2, <1>3
  <2> QED
    BY <1>3, <2>1, <2>2 DEF Range
<1>8. \A s \in Kind : \A line : line \in Handed(s)' <=>
        line \in Handed(s) \/ (s = k /\ line = Record(t))
  <2> TAKE s \in Kind
  <2> TAKE line
  <2>1. /\ line \in Handed(s) <=> line \in Range(written[s]) \/ <<s, line>> \in lost
    BY <1>2, HandedParts
  <2>2. line \in Handed(s)' <=> line \in Range(written'[s]) \/ <<s, line>> \in lost'
    <3>1. \A e \in lost' : e = <<e[1], e[2]>>
      BY <1>1
    <3>2. line \in {entry[2] : entry \in {e \in lost' : e[1] = s}} <=> <<s, line>> \in lost'
      BY <3>1
    <3> QED
      BY <3>2 DEF Handed
  <2>3. /\ line \in Range(written'[s]) <=>
             \/ line \in Range(written[s])
             \/ s = k /\ line = Record(t) /\ written'[k] # written[k]
        /\ <<s, line>> \in lost' <=>
             \/ <<s, line>> \in lost
             \/ s = k /\ line = Record(t) /\ written'[k] = written[k]
    BY <1>1, <1>7
  <2> QED
    BY <2>1, <2>2, <2>3
<1>9. HandedInv'
  <2>1. /\ Record(t)[1] = t /\ Record(t)[2] \in 1..Len(said[t])
    <3>1. said[t] # <<>>
      BY <1>1 DEF LogInv, HandedInv
    <3> QED
      BY <3>1, LoopTypes DEF Record
  <2>2. \A s \in Kind : \A line \in Handed(s)' :
          /\ line[2] \in 1..Len(said[line[1]])
          /\ pc[line[1]] = "lock" => line[2] < Len(said[line[1]])
    BY <1>1, <1>8, <2>1 DEF LogInv, HandedInv
  <2>3. ASSUME NEW s \in Kind, NEW line \in Range(written'[s])
        PROVE  <<s, line>> \notin lost'
    <3>1. CASE line \in Range(written[s])
      <4>1. <<s, line>> \notin lost /\ line \in Handed(s)
        BY <3>1 DEF LogInv, HandedInv, Handed
      <4> QED
        BY <1>1, <4>1
    <3>2. CASE line \notin Range(written[s])
      <4>1. s = k /\ line = Record(t) /\ lost' = lost
        BY <1>1, <1>7, <3>2
      <4>2. <<k, Record(t)>> \notin lost
        BY <1>1, <1>2, HandedParts
      <4> QED
        BY <4>1, <4>2
    <3> QED
      BY <3>1, <3>2
  <2> QED
    BY <1>1, <2>2, <2>3 DEF LogInv, HandedInv
<1>10. LoopInv'
  <2> SUFFICES ASSUME NEW s \in Kind
               PROVE  /\ Record(t) \in Handed(s)' <=>
                           \E i \in DOMAIN sinks : i < at[t] + 1 /\ sinks[i] = s
                      /\ \A i \in DOMAIN written'[s] :
                           written'[s][i] = Record(t) => i = Len(written'[s])
    BY <1>1, <1>4, <1>5, <1>6 DEF LoopInv
  <2>1. /\ Record(t) \in Handed(s) <=> \E i \in DOMAIN sinks : i < at[t] /\ sinks[i] = s
        /\ \A i \in DOMAIN written[s] : written[s][i] = Record(t) => i = Len(written[s])
    BY <1>1 DEF LogInv, LoopInv
  <2>2. \A i \in DOMAIN sinks : i < at[t] + 1 <=> i < at[t] \/ i = at[t]
    BY <1>6, LoopTypes
  <2>3. Record(t) \in Handed(s)' <=> \E i \in DOMAIN sinks : i < at[t] + 1 /\ sinks[i] = s
    BY <1>0, <1>1, <1>8, <2>1, <2>2
  <2>4. \A i \in DOMAIN written'[s] : written'[s][i] = Record(t) => i = Len(written'[s])
    <3>1. CASE written'[s] = written[s]
      BY <2>1, <3>1
    <3>2. CASE written'[s] # written[s]
      <4>1. s = k
        BY <1>1, <3>2
      <4>2. \A i \in DOMAIN written[k] : written[k][i] # Record(t)
        BY <1>1 DEF Handed, Range
      <4> QED
        BY <1>2, <1>3, <3>2, <4>1, <4>2
    <3> QED
      BY <3>1, <3>2
  <2> QED
    BY <2>3, <2>4
<1>11. KeptInv'
  <2> SUFFICES ASSUME NEW u \in Thread, NEW s \in Working, NEW j \in DOMAIN said[u],
                      pc[u] \notin {"lock", "write"} \/ j < Len(said[u])
               PROVE  <<u, j>> \in Range(written'[s]) <=>
                        said[u][j] >= config.level /\ <<s, <<u, j>>>> \notin lost'
    BY <1>1, <1>4 DEF KeptInv
  <2>1. <<u, j>> # Record(t)
    BY <1>1, LoopTypes DEF Record
  <2>2. /\ <<u, j>> \in Range(written'[s]) <=> <<u, j>> \in Range(written[s])
        /\ <<s, <<u, j>>>> \in lost' <=> <<s, <<u, j>>>> \in lost
    BY <1>1, <1>7, <2>1, WorkingType
  <2> QED
    BY <2>2 DEF LogInv, KeptInv
<1> QED
  BY <1>9, <1>10, <1>11, WriteOrder

-----------------------------------------------------------------------------
(***************************************************************************)
(* The theorems.                                                           *)
(***************************************************************************)

(* Initially the list is empty and nothing was said.                       *)
LEMMA InitInv == Init => LogInv
<1> SUFFICES ASSUME Init
             PROVE  LogInv
  OBVIOUS
<1>1. TypeOK /\ LockInv
  BY BaseInit DEF BaseInv
<1>2. /\ sinks = <<>> /\ lost = {} /\ pc[Main] = "start"
      /\ \A t \in Thread : said[t] = <<>> /\ pc[t] \notin {"lock", "write"}
      /\ \A s \in Kind : written[s] = <<>>
  BY ThreadAssumption DEF Init
<1>3. \A s \in Kind : Handed(s) = {}
  BY <1>2 DEF Handed, Range
<1>4. SinksInv /\ HandedInv /\ LoopInv
  BY <1>2, <1>3 DEF SinksInv, HandedInv, LoopInv, Range
<1>5. KeptInv /\ OrderInv
  BY <1>2 DEF KeptInv, OrderInv, InOrder, SameOrder
<1> QED
  BY <1>1, <1>4, <1>5 DEF LogInv

(* Every step keeps the invariant.                                         *)
LEMMA StepInv ==
  ASSUME LogInv, [Next]_vars
  PROVE  LogInv'
<1>1. TypeOK' /\ LockInv'
  BY BaseStep DEF BaseInv, LogInv
<1>2. SinksInv'
  BY SinksStep
<1>3. HandedInv' /\ LoopInv' /\ KeptInv' /\ OrderInv'
  <2>1. ASSUME NEW t \in Thread, Logs(t)
        PROVE  HandedInv' /\ LoopInv' /\ KeptInv' /\ OrderInv'
    BY <2>1, CallStep, AcquireStep, SkipStep, WriteStep, ReleaseStep DEF Logs
  <2> QED
    BY <2>1, QuietSteps DEF Next
<1> QED
  BY <1>1, <1>2, <1>3 DEF LogInv

(* The thread inside log_vwrite or log_shutdown is the one that holds the  *)
(* lock of the logger, while a worker may log the logger is initialised as *)
(* it was configured, the loop has handed the record to the sinks before   *)
(* its i, and what earlier calls left is in every sink in the same order   *)
(* (log.c:204, log.c:255, log.c:272).                                      *)
THEOREM LoggerInvariance == Spec => []LogInv
BY InitInv, StepInv, PTL DEF Spec

(* Between its calls a thread finds each of its lines once, and in their   *)
(* order, in every sink that could be opened, whatever other sinks failed  *)
(* to open or to write, and however the calls of the other thread came in  *)
(* between (log.c:272, log_sink_sqlite.c:67).                              *)
THEOREM LinesReachSinks == Spec => []LinesKept
<1>1. LogInv => LinesKept
  <2> SUFFICES ASSUME LogInv, NEW t \in Thread, NEW s \in Working
               PROVE  /\ InOrder(s)
                      /\ pc[t] \notin {"lock", "write"} =>
                           {line \in Range(written[s]) : line[1] = t} = Due(s, t)
    BY DEF LinesKept
  <2>1. s \in Kind
    BY WorkingType
  <2>2. InOrder(s)
    BY <2>1 DEF LogInv, OrderInv
  <2>3. ASSUME pc[t] \notin {"lock", "write"}
        PROVE  {line \in Range(written[s]) : line[1] = t} = Due(s, t)
    <3>1. \A k \in DOMAIN said[t] :
            <<t, k>> \in Range(written[s]) <=>
              said[t][k] >= config.level /\ <<s, <<t, k>>>> \notin lost
      BY <2>3 DEF LogInv, KeptInv
    <3>2. \A line \in Range(written[s]) : line[1] = t =>
            line = <<t, line[2]>> /\ line[2] \in DOMAIN said[t]
      <4> TAKE line \in Range(written[s])
      <4>1. line \in Handed(s) /\ line \in Line
        BY <2>1, LoopTypes DEF Handed
      <4>2. line[2] \in 1..Len(said[line[1]])
        BY <2>1, <4>1 DEF LogInv, HandedInv
      <4> QED
        BY <4>1, <4>2, LoopTypes DEF Line
    <3>3. \A line \in {t} \X DOMAIN said[t] :
            line = <<t, line[2]>> /\ line[1] = t /\ line[2] \in DOMAIN said[t]
      OBVIOUS
    <3>4. \A line : line \in Due(s, t) <=>
            /\ line \in {t} \X DOMAIN said[t]
            /\ said[t][line[2]] >= config.level /\ <<s, line>> \notin lost
      BY DEF Due
    <3>5. \A line : line \in Due(s, t) <=> line \in Range(written[s]) /\ line[1] = t
      <4> TAKE line
      <4>1. ASSUME line \in Due(s, t)
            PROVE  line \in Range(written[s]) /\ line[1] = t
        <5>1. line \in {t} \X DOMAIN said[t]
          BY <3>4, <4>1
        <5>2. line = <<t, line[2]>> /\ line[1] = t /\ line[2] \in DOMAIN said[t]
          BY <3>3, <5>1
        <5>3. said[t][line[2]] >= config.level /\ <<s, <<t, line[2]>>>> \notin lost
          BY <3>4, <4>1, <5>2
        <5>4. <<t, line[2]>> \in Range(written[s])
          BY <3>1, <5>2, <5>3
        <5> QED
          BY <5>2, <5>4
      <4>2. ASSUME line \in Range(written[s]), line[1] = t
            PROVE  line \in Due(s, t)
        BY <3>1, <3>2, <3>4, <4>2, ZenonT(60)
      <4> QED
        BY <4>1, <4>2
    <3> QED
      BY <3>5
  <2> QED
    BY <2>2, <2>3
<1> QED
  BY <1>1, LoggerInvariance, PTL

(* All sinks tell the same story: the lines that two of them took are in   *)
(* the same order in both, and what one took and the other did not is the  *)
(* current line, at the end, or was refused (log.c:285).                   *)
THEOREM SinksTellTheSame == Spec => []SinksAgree
<1>1. LogInv => SinksAgree
  <2> SUFFICES ASSUME LogInv, NEW r \in Working, NEW s \in Working
               PROVE  /\ SameOrder(r, s)
                      /\ \A k \in DOMAIN written[s] :
                           \/ written[s][k] \in Range(written[r])
                           \/ <<r, written[s][k]>> \in lost
                           \/ lock # None /\ k = Len(written[s])
    BY DEF SinksAgree
  <2>1. r \in Kind /\ s \in Kind
    BY WorkingType
  <2>2. SameOrder(r, s)
    BY <2>1 DEF LogInv, OrderInv
  <2>3. ASSUME NEW k \in DOMAIN written[s]
        PROVE  \/ written[s][k] \in Range(written[r])
               \/ <<r, written[s][k]>> \in lost
               \/ lock # None /\ k = Len(written[s])
    <3>1. written[s][k] \in Range(written[s]) /\ written[s][k] \in Handed(s)
      BY DEF Handed, Range
    <3>2. PICK t \in Thread, n \in Nat : written[s][k] = <<t, n>>
      <4>1. written[s][k] \in Line
        BY <2>1, <3>1, LoopTypes
      <4> QED
        BY <4>1 DEF Line
    <3>3. n \in DOMAIN said[t] /\ n \in 1..Len(said[t]) /\ (pc[t] = "lock" => n < Len(said[t]))
      BY <2>1, <3>1, <3>2, LoopTypes DEF LogInv, HandedInv
    <3>4. CASE pc[t] \notin {"lock", "write"} \/ n < Len(said[t])
      <4>1. said[t][n] >= config.level
        BY <3>1, <3>2, <3>3, <3>4 DEF LogInv, KeptInv
      <4> QED
        BY <3>2, <3>3, <3>4, <4>1 DEF LogInv, KeptInv
    <3>5. CASE pc[t] = "write" /\ n = Len(said[t])
      <4>1. lock = t
        BY <3>5, LoopTypes
      <4>2. written[s][k] = Record(t)
        BY <3>2, <3>5 DEF Record
      <4> QED
        BY <2>1, <3>5, <4>1, <4>2, ThreadAssumption DEF LogInv, LoopInv
    <3> QED
      BY <3>3, <3>4, <3>5, LoopTypes
  <2> QED
    BY <2>2, <2>3
<1> QED
  BY <1>1, LoggerInvariance, PTL

(* The state that log_is_enabled reads without the lock changes only while *)
(* no scan worker exists (log.c:270, main.c:77, main.c:221).               *)
THEOREM UnlockedReadsSafe == Spec => LogRaceFree
<1>1. ASSUME LogInv, [Next]_vars
      PROVE  [logger' # logger => pc[Scan] = "none"]_vars
  <2>1. CASE LogInit \/ LogInitFails \/ LogClosed
    BY <2>1, <1>1 DEF LogInit, LogInitFails, LogClosed, Goto, LogInv, LockInv
  <2>2. CASE LogShutdown
    BY <2>2 DEF LogShutdown, Joined
  <2>3. CASE Ended \/ UNCHANGED vars
    BY <2>3 DEF Ended, vars
  <2>4. CASE Threads
    BY <2>4 DEF Threads, Spawn, WorkerEnds, Join, LockContext, UnlockContext
  <2>5. ASSUME NEW t \in Thread, Logs(t) PROVE logger' = logger
    BY <2>5 DEF Logs, Call, Acquire, SkipNull, WriteSink, Release
  <2> QED BY <1>1, <2>1, <2>2, <2>3, <2>4, <2>5 DEF Next
<1> QED BY <1>1, LoggerInvariance, PTL DEF Spec, LogRaceFree
=============================================================================
