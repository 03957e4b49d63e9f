--------------------------- MODULE LibraryRuntime ---------------------------
(***************************************************************************)
(* The threads of the media server and the state they share                *)
(* (src/src/library/runtime.c, src/src/main.c): the main thread, which     *)
(* polls HTTP and runs every handler to its end, and at most one scan      *)
(* worker.  Both build a new catalogue with its browse index, save it in   *)
(* the snapshot database, swap it in under ctx->mu and free the old one.   *)
(*                                                                         *)
(* A catalogue is a generation: a stamp from Gen that says which catalogue *)
(* it was built from and nothing of its items.  Gen bounds how many        *)
(* catalogues one process builds: when none is left, an allocation fails.  *)
(* What the items are is the business of the module LibraryStore.          *)
(*                                                                         *)
(* A critical section in which nothing else can happen is one action that  *)
(* finds the mutex free; the mutex is held across steps only where the     *)
(* section itself has several: the two pointers of a swap, the two reads   *)
(* of a handler, the start of a thread.  Refused requests (busy, nothing   *)
(* to patch, a clone that fails) change nothing and are stuttering steps.  *)
(*                                                                         *)
(* An operator whose name ends in an underscore and a word is a faulty     *)
(* variant of the operator that follows it, for mutation checks only.      *)
(***************************************************************************)
CONSTANTS Main,      \* the main thread
          Worker,    \* the thread ids pthread_create hands out
          Gen,       \* the catalogue generations of one process
          None,      \* NULL: no catalogue, no thread
          Unbuilt,   \* the parent of a generation not allocated yet
          HasLibrary, \* --library-dir is given
          HasDb      \* --catalog-db is given

ASSUME ThreadAssumption == Main \notin Worker /\ None \notin Worker \cup {Main}
ASSUME GenAssumption == None \notin Gen /\ Unbuilt \notin Gen /\ None # Unbuilt
ASSUME ConfigAssumption == HasLibrary \in BOOLEAN /\ HasDb \in BOOLEAN

(* Without a library nothing is loaded, scanned or saved.                  *)
HasSnapshot == HasLibrary /\ HasDb

Thread == Worker \cup {Main}

VARIABLES
  catalog, browse,   \* ctx->catalog and ctx->browse: what handlers read
  mu,                \* the owner of ctx->mu, or None
  scanning, mutating, joinable, worker,   \* the fields of app_context_t
  cancel,            \* ctx->cancel_scan, the atomic flag the scanner polls
  ok, err,           \* ctx->last_scan_ok and ctx->last_error
  stop,              \* g_stop, set by the signal handler
  disk,              \* the generation the snapshot database holds
  catalogs, indexes, \* the catalogues and browse indexes that are allocated
  parent,            \* the generation each generation took its ids from
  pc,                \* where each thread is
  new, old, oldIdx,  \* locals: the build under way, what it is to replace
  view               \* what the handler under way has read

memory == <<catalogs, indexes, parent, new>>
shared == <<catalog, browse, disk>>
flags == <<scanning, mutating, joinable, worker, cancel>>
outcome == <<ok, err>>
locals == <<old, oldIdx, view>>
vars == <<catalog, browse, mu, scanning, mutating, joinable, worker, cancel,
          ok, err, stop, disk, catalogs, indexes, parent, pc, new, old,
          oldIdx, view>>

-----------------------------------------------------------------------------
(* Where a thread can be: the main thread, a worker, or either in a swap.  *)
PC == {"boot", "setup", "refresh", "loop", "join", "joined", "spawn",
       "read", "edit", "built", "shut", "shutJoin", "shutClear", "free",
       "done"}
      \cup {"unborn", "start", "scan", "adopt", "save", "exited"}
      \cup {"swap", "index", "dispose"}

Error == {"none", "cancelled", "failed", "thread"}

Fresh(g) == parent[g] = Unbuilt

Running(w) == pc[w] \notin {"unborn", "dispose", "exited"}

Goto(t, from, to) == pc[t] = from /\ pc' = [pc EXCEPT ![t] = to]

Init ==
  /\ catalog = None /\ browse = None /\ disk = None
  /\ mu = None
  /\ scanning = FALSE /\ mutating = FALSE /\ joinable = FALSE
  /\ worker \in Worker        \* not read before a thread is created
  /\ cancel = FALSE /\ ok = FALSE /\ err = "none" /\ stop = FALSE
  /\ catalogs = {} /\ indexes = {}
  /\ parent = [g \in Gen |-> Unbuilt]
  /\ pc = [t \in Thread |-> IF t = Main THEN "boot" ELSE "unborn"]
  /\ new = [t \in Thread |-> None]
  /\ old = [t \in Thread |-> None]
  /\ oldIdx = [t \in Thread |-> None]
  /\ view = [catalog |-> None, browse |-> None]

-----------------------------------------------------------------------------
(***************************************************************************)
(* Start: the catalogue is loaded from the snapshot, or scanned and saved, *)
(* or left empty when there is no library.  A loaded one is refreshed by a *)
(* background scan once the server listens.                                *)
(***************************************************************************)

ScannedOk == HasLibrary

Boot(loaded) ==
  /\ loaded => HasSnapshot
  /\ Goto(Main, "boot", IF loaded THEN "refresh" ELSE "setup")
  /\ \E g \in Gen : /\ Fresh(g)
                    /\ catalog' = g /\ browse' = g
                    /\ disk' = IF HasSnapshot THEN g ELSE None
                    /\ catalogs' = {g} /\ indexes' = {g}
                    /\ parent' = [parent EXCEPT ![g] = None]
  /\ ok' = ScannedOk
  /\ UNCHANGED <<mu, flags, err, stop, new, locals>>

(* The user database, the routes or the listener fail: main cleans up.     *)
(* When the runtime is not initialised yet, ok is not set either and       *)
(* library_runtime_shutdown is skipped.                                    *)
BootFails(runtime_ready) ==
  /\ pc[Main] \in {"setup", "refresh"}
  /\ pc' = [pc EXCEPT ![Main] = IF runtime_ready THEN "shut" ELSE "free"]
  /\ ok' = (ok /\ runtime_ready)
  /\ UNCHANGED <<mu, shared, memory, flags, err, stop, locals>>

Ready ==
  /\ Goto(Main, "setup", "loop")
  /\ UNCHANGED <<mu, shared, memory, flags, outcome, stop, locals>>

Signal ==
  /\ ~stop /\ pc[Main] # "done"
  /\ stop' = TRUE
  /\ UNCHANGED <<mu, shared, memory, flags, outcome, pc, locals>>

(* The poll loop looks at g_stop between two handlers.                     *)
Polling == pc[Main] = "loop" /\ ~stop

-----------------------------------------------------------------------------
(***************************************************************************)
(* library_scan_request, refused without a library.  A running scan        *)
(* refuses the request unless it is forced, which cancels the scan; a      *)
(* thread that has to be joined is joined without the mutex, since it      *)
(* needs the mutex to end.                                                 *)
(***************************************************************************)

Requesting(force) ==
  HasLibrary /\ (Polling \/ (pc[Main] = "refresh" /\ ~force))

MayScan(force) == ~mutating /\ (scanning => force)

UnlockForJoin_Holding == mu' = Main
UnlockForJoin == mu' = None

(* No thread to join: the mutex is kept until the new one is started.      *)
RequestScan(force) ==
  /\ Requesting(force) /\ mu = None /\ MayScan(force)
  /\ ~scanning /\ ~joinable
  /\ mu' = Main
  /\ pc' = [pc EXCEPT ![Main] = "spawn"]
  /\ UNCHANGED <<shared, memory, flags, outcome, stop, locals>>

RequestReap(force) ==
  /\ Requesting(force) /\ mu = None /\ MayScan(force)
  /\ scanning \/ joinable
  /\ cancel' = (cancel \/ scanning)
  /\ UnlockForJoin
  /\ pc' = [pc EXCEPT ![Main] = "join"]
  /\ UNCHANGED <<shared, memory, scanning, mutating, joinable, worker,
                 outcome, stop, locals>>

Join_NotWaiting(from, to) ==
  /\ Goto(Main, from, to)
  /\ UNCHANGED <<mu, shared, memory, flags, outcome, stop, locals>>

(* pthread_join: returns once the worker has ended and frees its id.       *)
Join(from, to) ==
  /\ pc[Main] = from /\ pc[worker] = "exited"
  /\ pc' = [pc EXCEPT ![Main] = to, ![worker] = "unborn"]
  /\ UNCHANGED <<mu, shared, memory, flags, outcome, stop, locals>>

JoinWorker == Join("join", "joined")

ForgetWorker_Joinable == joinable' = joinable /\ scanning' = FALSE
ForgetWorker == joinable' = FALSE /\ scanning' = FALSE

Relock ==
  /\ Goto(Main, "joined", "spawn")
  /\ mu = None /\ mu' = Main
  /\ ForgetWorker
  /\ UNCHANGED <<shared, memory, mutating, worker, cancel, outcome, stop,
                 locals>>

ResetCancel_Never == cancel' = cancel
ResetCancel == cancel' = FALSE

(* pthread_create, with the mutex held: the worker's first step waits.     *)
Spawn ==
  /\ pc[Main] = "spawn"
  /\ \E w \in Worker : /\ pc[w] = "unborn"
                       /\ worker' = w
                       /\ pc' = [pc EXCEPT ![Main] = "loop", ![w] = "start"]
  /\ ResetCancel /\ scanning' = TRUE /\ joinable' = TRUE
  /\ err' = "none"
  /\ mu' = None
  /\ UNCHANGED <<shared, memory, mutating, ok, stop, locals>>

SpawnFails ==
  /\ Goto(Main, "spawn", "loop")
  /\ ResetCancel /\ scanning' = FALSE
  /\ ok' = FALSE /\ err' = "thread"
  /\ mu' = None
  /\ UNCHANGED <<shared, memory, mutating, joinable, worker, stop, locals>>

-----------------------------------------------------------------------------
(***************************************************************************)
(* The swap, the same in the worker and in a metadata mutation: under the  *)
(* mutex both pointers are replaced, then the old catalogue and index are  *)
(* freed without it.                                                       *)
(***************************************************************************)

SwapCatalog(t) ==
  /\ Goto(t, "swap", "index")
  /\ mu = None /\ mu' = t
  /\ old' = [old EXCEPT ![t] = catalog]
  /\ oldIdx' = [oldIdx EXCEPT ![t] = browse]
  /\ catalog' = new[t]
  /\ UNCHANGED <<browse, disk, memory, flags, outcome, stop, view>>

(* The last step under the mutex also clears the flag of the owner.        *)
SwapBrowse(t) ==
  /\ Goto(t, "index", "dispose")
  /\ browse' = new[t]
  /\ mu' = None
  /\ new' = [new EXCEPT ![t] = None]
  /\ UNCHANGED <<catalog, disk, catalogs, indexes, parent, joinable, worker,
                 cancel, stop, locals>>

Dispose(t, to) ==
  /\ Goto(t, "dispose", to)
  /\ catalogs' = catalogs \ {old[t]}
  /\ indexes' = indexes \ {oldIdx[t]}
  /\ old' = [old EXCEPT ![t] = None]
  /\ oldIdx' = [oldIdx EXCEPT ![t] = None]
  /\ UNCHANGED <<mu, shared, parent, new, flags, outcome, stop, view>>

Save_Skipped(t, from) ==
  /\ Goto(t, from, "swap")
  /\ UNCHANGED <<mu, shared, memory, flags, outcome, stop, locals>>

(* A save that fails leaves the database as it was: one transaction.       *)
Save(t, from) ==
  /\ Goto(t, from, "swap")
  /\ disk' = IF HasSnapshot THEN new[t] ELSE disk
  /\ UNCHANGED <<mu, catalog, browse, memory, flags, outcome, stop, locals>>

Discard_Index(t) ==
  /\ catalogs' = catalogs \ {new[t]}
  /\ new' = [new EXCEPT ![t] = None]
  /\ UNCHANGED <<indexes, parent>>

(* What a build that fails, or is cancelled, frees.                        *)
Discard(t) ==
  /\ catalogs' = catalogs \ {new[t]}
  /\ indexes' = indexes \ {new[t]}
  /\ new' = [new EXCEPT ![t] = None]
  /\ UNCHANGED parent

-----------------------------------------------------------------------------
(***************************************************************************)
(* scan_worker                                                             *)
(***************************************************************************)

(* The worker notes the current catalogue, to take the ids from later, and *)
(* allocates an empty one.                                                 *)
WStart(w) ==
  /\ Goto(w, "start", "scan")
  /\ mu = None
  /\ old' = [old EXCEPT ![w] = catalog]
  /\ \E g \in Gen : /\ Fresh(g)
                    /\ new' = [new EXCEPT ![w] = g]
                    /\ catalogs' = catalogs \cup {g}
                    /\ parent' = [parent EXCEPT ![g] = None]
  /\ UNCHANGED <<mu, shared, indexes, flags, outcome, stop, oldIdx, view>>

(* The scanner polls cancel at every entry; its last look may be too early *)
(* to see it, so that a cancelled scan may also succeed.                   *)
WScan(w) ==
  /\ Goto(w, "scan", "adopt")
  /\ UNCHANGED <<mu, shared, memory, flags, outcome, stop, locals>>

(* catalog_adopt_ids reads the catalogue noted at the start, not locked;   *)
(* then the overrides are applied and the index is built.                  *)
WAdopt(w) ==
  /\ Goto(w, "adopt", "save")
  /\ parent' = [parent EXCEPT ![new[w]] = old[w]]
  /\ indexes' = indexes \cup {new[w]}
  /\ UNCHANGED <<mu, shared, catalogs, new, flags, outcome, stop, locals>>

WSave(w) == Save(w, "save")

Report_Scanning(msg) == scanning' = scanning /\ ok' = FALSE /\ err' = msg
Report_StillOk(msg) == scanning' = FALSE /\ ok' = ok /\ err' = msg
Report(msg) == scanning' = FALSE /\ ok' = FALSE /\ err' = msg

(* Every way to fail frees what was built, then reports under the mutex.   *)
WEnds(w, from, msg) ==
  /\ pc[w] \in from /\ pc' = [pc EXCEPT ![w] = "exited"]
  /\ mu = None
  /\ Discard(w)
  /\ old' = [old EXCEPT ![w] = None]
  /\ Report(msg)
  /\ UNCHANGED <<mu, shared, mutating, joinable, worker, cancel, stop, oldIdx,
                 view>>

WFails(w) == WEnds(w, {"start", "scan", "adopt", "save"}, "failed")

WCancelled(w) == cancel /\ WEnds(w, {"scan"}, "cancelled")

WSwapBrowse(w) ==
  /\ SwapBrowse(w)
  /\ scanning' = FALSE /\ ok' = TRUE /\ err' = "none"
  /\ UNCHANGED mutating

WStep(w) ==
  \/ WStart(w) \/ WScan(w) \/ WAdopt(w) \/ WSave(w)
  \/ WFails(w) \/ WCancelled(w)
  \/ SwapCatalog(w) \/ WSwapBrowse(w) \/ Dispose(w, "exited")

-----------------------------------------------------------------------------
(***************************************************************************)
(* The metadata mutations: patch a track, patch an album, put a cover.     *)
(***************************************************************************)

MayMutate_DuringScan == ~mutating
MayMutate == ~scanning /\ ~mutating

(* metadata_mutation_begin: the effective catalogue is cloned.             *)
BeginMutation ==
  /\ Polling /\ mu = None /\ MayMutate
  /\ pc' = [pc EXCEPT ![Main] = "edit"]
  /\ mutating' = TRUE
  /\ \E g \in Gen : /\ Fresh(g)
                    /\ new' = [new EXCEPT ![Main] = g]
                    /\ catalogs' = catalogs \cup {g}
                    /\ parent' = [parent EXCEPT ![g] = catalog]
  /\ UNCHANGED <<mu, shared, indexes, scanning, joinable, worker, cancel,
                 outcome, stop, locals>>

(* The patch is applied to the clone and a new index is built.  Without a  *)
(* library the catalogue is empty: no track or album is found, and the     *)
(* mutation is aborted.                                                    *)
BuildMutation ==
  /\ HasLibrary
  /\ Goto(Main, "edit", "built")
  /\ indexes' = indexes \cup {new[Main]}
  /\ UNCHANGED <<mu, shared, catalogs, parent, new, flags, outcome, stop,
                 locals>>

SaveMutation == Save(Main, "built")

(* Any failure before the swap: what was built is freed, then              *)
(* metadata_mutation_abort.                                                *)
AbortMutation ==
  /\ pc[Main] \in {"edit", "built"} /\ mu = None
  /\ pc' = [pc EXCEPT ![Main] = "loop"]
  /\ Discard(Main)
  /\ mutating' = FALSE
  /\ UNCHANGED <<mu, shared, scanning, joinable, worker, cancel, outcome, stop,
                 locals>>

MSwapBrowse ==
  /\ SwapBrowse(Main)
  /\ mutating' = FALSE
  /\ UNCHANGED <<scanning, outcome>>

Mutate ==
  \/ BeginMutation \/ BuildMutation \/ SaveMutation \/ AbortMutation
  \/ SwapCatalog(Main) \/ MSwapBrowse \/ Dispose(Main, "loop")

-----------------------------------------------------------------------------
(***************************************************************************)
(* A handler that reads: both pointers under one hold of the mutex.        *)
(***************************************************************************)

ReadCatalog_Unlocking ==
  /\ Polling /\ mu = None
  /\ pc' = [pc EXCEPT ![Main] = "read"]
  /\ view' = [catalog |-> catalog, browse |-> None]
  /\ UNCHANGED <<mu, shared, memory, flags, outcome, stop, old, oldIdx>>

ReadCatalog ==
  /\ Polling /\ mu = None
  /\ pc' = [pc EXCEPT ![Main] = "read"]
  /\ mu' = Main
  /\ view' = [catalog |-> catalog, browse |-> None]
  /\ UNCHANGED <<shared, memory, flags, outcome, stop, old, oldIdx>>

ReadBrowse ==
  /\ pc[Main] = "read" /\ view.browse = None
  /\ view' = [view EXCEPT !.browse = browse]
  /\ UNCHANGED <<mu, shared, memory, flags, outcome, stop, pc, old, oldIdx>>

EndRead ==
  /\ Goto(Main, "read", "loop") /\ view.browse # None
  /\ mu' = None
  /\ view' = [catalog |-> None, browse |-> None]
  /\ UNCHANGED <<shared, memory, flags, outcome, stop, old, oldIdx>>

Read == ReadCatalog \/ ReadBrowse \/ EndRead

-----------------------------------------------------------------------------
(***************************************************************************)
(* Shutdown: the server and the router go first, then                      *)
(* library_runtime_shutdown, then the catalogue and its index are freed.   *)
(***************************************************************************)

BeginShutdown ==
  /\ stop /\ Goto(Main, "loop", "shut")
  /\ UNCHANGED <<mu, shared, memory, flags, outcome, stop, locals>>

MustJoin_IfScanning == scanning
MustJoin == joinable

ShutCancel ==
  /\ Goto(Main, "shut", IF MustJoin THEN "shutJoin" ELSE "shutClear")
  /\ mu = None
  /\ cancel' = (cancel \/ MustJoin)
  /\ UNCHANGED <<mu, shared, memory, scanning, mutating, joinable, worker,
                 outcome, stop, locals>>

ShutJoin == Join("shutJoin", "shutClear")

ShutClear ==
  /\ Goto(Main, "shutClear", "free")
  /\ mu = None
  /\ joinable' = FALSE /\ scanning' = FALSE /\ mutating' = FALSE
  /\ UNCHANGED <<mu, shared, memory, worker, cancel, outcome, stop, locals>>

Free ==
  /\ Goto(Main, "free", "done")
  /\ catalogs' = catalogs \ {catalog}
  /\ indexes' = indexes \ {browse}
  /\ UNCHANGED <<mu, shared, parent, new, flags, outcome, stop, locals>>

Shutdown == BeginShutdown \/ ShutCancel \/ ShutJoin \/ ShutClear \/ Free

-----------------------------------------------------------------------------
Start == (\E b \in BOOLEAN : Boot(b) \/ BootFails(b)) \/ Ready

ScanRequest ==
  \/ \E force \in BOOLEAN : RequestScan(force) \/ RequestReap(force)
  \/ JoinWorker \/ Relock \/ Spawn \/ SpawnFails

Next ==
  \/ Start \/ Signal \/ ScanRequest \/ Mutate \/ Read \/ Shutdown
  \/ \E w \in Worker : WStep(w)

(***************************************************************************)
(* Fairness.  A thread that can run does: the scanned tree is finite, and  *)
(* so is every handler.  A worker that waits for the mutex gets it in the  *)
(* end (strong fairness), since between handlers the main thread sleeps in *)
(* http_server_poll without it.  No client has to send a request and no    *)
(* signal has to come.                                                     *)
(***************************************************************************)
MainStep == Start \/ ScanRequest \/ Mutate \/ Read \/ Shutdown

Fairness ==
  /\ WF_vars(pc[Main] # "loop" /\ MainStep)
  /\ WF_vars(BeginShutdown)
  /\ \A w \in Worker : SF_vars(WStep(w))

Spec == Init /\ [][Next]_vars

FairSpec == Spec /\ Fairness

-----------------------------------------------------------------------------
(***************************************************************************)
(* Properties                                                              *)
(***************************************************************************)

(* The type of every variable; every pointer is NULL or a generation.      *)
Pointer == Gen \cup {None}

PointersOK ==
  /\ catalog \in Pointer /\ browse \in Pointer /\ disk \in Pointer
  /\ mu \in Thread \cup {None}
  /\ catalogs \subseteq Gen /\ indexes \subseteq Gen
  /\ parent \in [Gen -> Pointer \cup {Unbuilt}]
  /\ pc \in [Thread -> PC]
  /\ new \in [Thread -> Pointer]
  /\ old \in [Thread -> Pointer]
  /\ oldIdx \in [Thread -> Pointer]
  /\ view \in [catalog : Pointer, browse : Pointer]

FlagsOK ==
  /\ scanning \in BOOLEAN /\ mutating \in BOOLEAN /\ joinable \in BOOLEAN
  /\ cancel \in BOOLEAN /\ ok \in BOOLEAN /\ stop \in BOOLEAN
  /\ err \in Error
  /\ worker \in Worker

TypeOK == PointersOK /\ FlagsOK

Serving == pc[Main] \notin {"boot", "done"}

(* No thread follows a pointer to a catalogue or an index that was freed:  *)
(* not a handler, not the worker that reads the ids of the catalogue it    *)
(* noted before its scan and kept no lock on.                              *)
NoUseAfterFree ==
  /\ Serving => catalog \in catalogs /\ browse \in indexes
  /\ view.catalog # None => view.catalog \in catalogs
  /\ \A w \in Worker : pc[w] \in {"scan", "adopt"} =>
       {old[w], new[w]} \subseteq catalogs

(* Every catalogue and index allocated is either served, being built, or   *)
(* about to be freed; after the exit path none is left.                    *)
NoLeak ==
  LET owned(served, ptr) ==
        {served} \cup {new[t] : t \in Thread}
          \cup {ptr[t] : t \in {u \in Thread : pc[u] \in {"index", "dispose"}}}
  IN /\ catalogs \subseteq owned(IF Serving THEN catalog ELSE None, old)
     /\ indexes \subseteq owned(IF Serving THEN browse ELSE None, oldIdx)

(* ctx->scanning is true exactly while a worker has yet to report, a       *)
(* worker that exists is the one that will be joined, and none runs while  *)
(* a mutation does.                                                        *)
OneBuilder ==
  /\ scanning <=> \E w \in Worker : Running(w)
  /\ \A w \in Worker : pc[w] # "unborn" => w = worker /\ joinable
  /\ ~(scanning /\ mutating)

(* The published catalogue took its ids and its edits from the one it      *)
(* replaces: a rescan never undoes a patch that came in meanwhile.         *)
NoLostUpdate ==
  [][catalog' # catalog /\ catalog # None => parent[catalog'] = catalog]_vars

(* A restart finds the catalogue that is served or its direct successor,   *)
(* whose builder is about to publish it and can no longer fail.            *)
SnapshotFollows ==
  HasSnapshot /\ pc[Main] # "boot" =>
    \/ disk = catalog
    \/ /\ parent[disk] = catalog
       /\ \E t \in Thread : new[t] = disk /\ pc[t] = "swap"

(* A handler that has read both pointers has an index of its catalogue.    *)
ReadsOneGeneration == view.browse # None => view.browse = view.catalog

(* When no scan runs, GET /library/status says ok or gives an error, never *)
(* both and never neither; only without a library, where nothing was ever  *)
(* scanned and nothing can be, it says neither.                            *)
OutcomeTruthful ==
  pc[Main] \notin {"boot", "free", "done"} /\ ~scanning =>
    IF HasLibrary THEN ok <=> err = "none" ELSE ~ok /\ err = "none"

(* A scan reports "cancelled" only while someone waits for it to stop: a   *)
(* new scan never inherits the cancellation of the one before.             *)
CancelledOnRequest ==
  [][err' = "cancelled" /\ err # "cancelled" =>
       pc[Main] \in {"join", "shutJoin"}]_vars

(* Nothing the context owns is freed while a worker may still touch it,    *)
(* one that has already reported and is freeing its catalogue included.    *)
NoThreadOutlives ==
  pc[Main] \in {"free", "done"} => \A w \in Worker : pc[w] = "unborn"

(* A scan ends: the library never stays busy for good.                     *)
ScanEnds == scanning ~> ~scanning

(* A request that has to join a worker returns to the poll loop.           *)
RequestReturns == pc[Main] = "join" ~> pc[Main] = "loop"

(* A signal ends the process, whatever the threads are doing.              *)
ServerStops == stop ~> pc[Main] = "done"

-----------------------------------------------------------------------------
(***************************************************************************)
(* The inductive invariants: which thread is where, and what the pointers  *)
(* of each place are.  The properties above follow from them.              *)
(***************************************************************************)

Building == {"edit", "built", "swap", "index"}   \* of the main thread
Scanning == {"scan", "adopt", "save", "swap", "index"}   \* of a worker

(* The flags say where the threads are.                                    *)
ControlInv ==
  /\ \A t \in Thread : mu = t <=> pc[t] \in {"spawn", "read", "index"}
  /\ \A w \in Worker : pc[w] # "unborn" => w = worker /\ joinable
  /\ joinable => pc[worker] # "unborn" \/ pc[Main] \in {"joined", "shutClear"}
  /\ pc[Main] \in {"joined", "shutClear"} => pc[worker] = "unborn"
  /\ pc[Main] \in {"join", "shutJoin"} => joinable
  /\ pc[Main] \in {"boot", "setup", "refresh", "spawn", "free", "done"} =>
       ~joinable
  /\ scanning <=> Running(worker)
  /\ mutating <=> pc[Main] \in Building
  /\ ~(scanning /\ mutating)
  /\ cancel /\ scanning => pc[Main] \in {"join", "shutJoin"}
  /\ pc[Main] = "boot" => err = "none"
  /\ ~HasLibrary => ~joinable /\ pc[Main] \notin {"refresh", "joined", "spawn"}
  /\ OutcomeTruthful

(* A thread has a new catalogue exactly while it builds one.               *)
BuildInv ==
  \A t \in Thread :
    new[t] # None <=> pc[t] \in IF t = Main THEN Building ELSE Scanning

(* What is built comes after the served catalogue, and nothing that is     *)
(* about to be freed is served, being built or being read.                 *)
MemoryInv ==
  /\ pc[Main] = "boot" => /\ catalog = None /\ catalogs = {} /\ indexes = {}
                           /\ \A g \in Gen : Fresh(g)
  /\ pc[Main] # "boot" => catalog # None
  /\ Serving => catalog \in catalogs /\ browse \in indexes
  /\ \A g \in Gen : g \in catalogs \cup indexes \cup {catalog, disk} =>
                       ~Fresh(g)
  /\ mu = None \/ pc[mu] # "index" => browse = catalog
  /\ \A t \in Thread :
       /\ new[t] # None => new[t] \in catalogs
       /\ pc[t] = "index" => /\ catalog = new[t]
                             /\ browse = old[t] /\ browse = oldIdx[t]
                             /\ old[t] # new[t]
       /\ new[t] # None /\ pc[t] # "index" => new[t] # catalog
       /\ pc[t] \in {"built", "save", "swap", "index"} => new[t] \in indexes
       /\ pc[t] \in {"edit", "built", "save", "swap"} =>
            parent[new[t]] = catalog
       /\ pc[t] \in {"scan", "adopt", "save", "swap"} /\ t # Main =>
            old[t] = catalog
       /\ pc[t] = "dispose" =>
            /\ old[t] # catalog /\ oldIdx[t] \notin {catalog, browse}
            /\ \A u \in Thread : new[u] \notin {old[t], oldIdx[t]} \/ new[u] = None
            /\ {old[t], oldIdx[t]} \cap {g \in Gen : Fresh(g)} = {}
       /\ HasSnapshot /\ pc[t] = "swap" => disk = new[t]
  /\ HasSnapshot /\ pc[Main] # "boot" /\ (\A t \in Thread : pc[t] # "swap") =>
       disk = catalog
  /\ ~HasSnapshot => disk = None
  /\ view.catalog # None <=> pc[Main] = "read"
  /\ view.catalog # None => view.catalog = catalog
  /\ view.browse # None => view.catalog # None /\ view.browse = browse

IInv == TypeOK /\ BuildInv /\ ControlInv /\ MemoryInv

-----------------------------------------------------------------------------
(* The refinement: a draft is a build that is not published yet.           *)

Builders == {t \in Thread : new[t] # None /\ pc[t] # "index"}

Draft == IF Builders = {} THEN None ELSE new[CHOOSE t \in Builders : TRUE]

Commit == INSTANCE CatalogCommit
            WITH HasDb <- HasSnapshot,
                 served <- IF pc[Main] = "done" THEN None ELSE catalog,
                 durable <- disk,
                 draft <- Draft,
                 made <- {g \in Gen : ~Fresh(g)}

(* The two threads, their lock and their flags implement one writer that   *)
(* saves before it publishes.                                              *)
ImplementsCommit == Commit!Spec
=============================================================================
