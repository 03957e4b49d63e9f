---------------------------- MODULE LibraryStore ----------------------------
(***************************************************************************)
(* What the catalogue holds, over rescans, patches, crashes and restarts:  *)
(* the files of the library, the catalogue in memory, the snapshot         *)
(* database (src/src/library/catalog_store.c) and the work in progress on  *)
(* a new catalogue (src/src/library/runtime.c, src/src/library/scanner.c,  *)
(* src/src/main.c).  The server runs with --catalog-db.                    *)
(*                                                                         *)
(* LibraryRuntime shows that only one thread builds a catalogue at a time, *)
(* so there is one job here, and its steps are those between which a file  *)
(* may change or the process may die.                                      *)
(***************************************************************************)
EXTENDS Catalog

CONSTANTS Volatile,   \* files in subdirectories, which are removed at times or
                      \* not readable; the other tracks are always there
          Absent,     \* no file
          Here, Elsewhere,   \* library roots: this server's, another one's
          Tampering   \* the database file may be damaged while it is closed

ASSUME VolatileAssumption == Volatile \subseteq Path /\ Absent \notin Metadata
ASSUME RootAssumption == Here # Elsewhere

VARIABLES
  fs,      \* the tags of the file at each path, or Absent
  db,      \* the database
  phase,   \* of the process
  mem,     \* ctx->catalog
  job,     \* the stage of the job on a new catalogue
  draft,   \* the new catalogue
  seen,    \* the entries the scan has passed
  edit,    \* the patch being applied: its paths and its fields
  served   \* history: every pair of an id and the path it stood for

vars == <<fs, db, phase, mem, job, draft, seen, edit, served>>
process == <<phase, mem, job, draft, seen, edit, served>>

Phase == {"down", "refused", "bootScan", "bootSave", "up"}
Job == {"none", "scan", "adopt", "override", "save", "swap",
        "patch", "patched", "cover", "coverSave", "coverSwap"}

NoEdit == [paths |-> {}, set |-> NoRow, clear |-> {}]

(* The scanner reads tags from audio files only; what an image shows comes *)
(* from its path.                                                          *)
ImageTags == CHOOSE tags \in Metadata : TRUE
TagsAt(p) == IF IsAudio(p) THEN Metadata ELSE {ImageTags}

-----------------------------------------------------------------------------
(***************************************************************************)
(* The database: schema is "none" before the first save, "current", or     *)
(* "unusable" when open_store fails, for a file that is no database or has *)
(* an unknown version.  A row of items is an id and the scanned tags.      *)
(***************************************************************************)

Row == [id : 0..MaxId, scanned : Metadata]
Database ==
  [schema : {"none", "current", "unusable"}, root : {Here, Elsewhere},
   next : 0..MaxId,
   item : UNION {[P -> Row] : P \in SUBSET Path},
   over : UNION {[P -> Overrides \ {NoRow}] : P \in SUBSET (Path \ Image)}]

Openable == db.schema # "unusable"

(* catalog_store_load: the checks on the root, next_id and every row.      *)
Loadable_AnyId == db.schema = "current" /\ db.root = Here /\ db.next \in 1..MaxId
Loadable ==
  /\ db.schema = "current" /\ db.root = Here
  /\ db.next \in 1..MaxId
  /\ \A p \in DOMAIN db.item : db.item[p].id \in Id /\ db.item[p].id < db.next
  /\ \A p, q \in DOMAIN db.item : db.item[p].id = db.item[q].id => p = q

Loaded ==
  LET base == [item |-> [p \in DOMAIN db.item |->
                           NewItem(db.item[p].id, db.item[p].scanned)],
               next |-> db.next]
  IN ApplyOverrides(base, db.over)

(* catalog_store_save: items and meta are replaced; the overrides stay,    *)
(* unless they were made for another root.                                 *)
KeptOverrides_Never == NoRow
KeptOverrides ==
  IF db.schema = "current" /\ db.root # Here THEN NoRow ELSE db.over

Saved_KeepsNext(c) ==
  [schema |-> "current", root |-> Here, next |-> db.next,
   item |-> [p \in Paths(c) |-> [id |-> c.item[p].id,
                                 scanned |-> c.item[p].scanned]],
   over |-> KeptOverrides]

Saved(c) ==
  [schema |-> "current", root |-> Here, next |-> c.next,
   item |-> [p \in Paths(c) |-> [id |-> c.item[p].id,
                                 scanned |-> c.item[p].scanned]],
   over |-> KeptOverrides]

(* The ids are the primary key of the items.                               *)
CanSave(c) == Openable /\ UniqueIds(c)

(* catalog_store_patch_overrides: one transaction for all the paths; a row *)
(* with nothing left to override is deleted.                               *)
RowOf(p) == IF p \in DOMAIN db.over THEN db.over[p] ELSE NoRow

PatchedRows(P, patch) ==
  LET rows == [p \in DOMAIN db.over \cup P |->
                 IF p \in P THEN MergedRow(RowOf(p), patch) ELSE db.over[p]]
  IN Restrict(rows, {p \in DOMAIN rows : rows[p] # NoRow})

-----------------------------------------------------------------------------
Init ==
  /\ fs \in [Path -> Metadata \cup {Absent}]
  /\ \A p \in Path : fs[p] \in TagsAt(p) \cup {Absent}
  /\ \A p \in Path \ (Volatile \cup Image) : fs[p] # Absent
  /\ \/ db = [schema |-> "none", root |-> Here, next |-> 1, item |-> NoRow,
              over |-> NoRow]
     \/ \E rows \in {NoRow} \cup [Path \ Image -> Overrides \ {NoRow}] :
          db = [schema |-> "current", root |-> Elsewhere, next |-> 1,
                item |-> NoRow, over |-> rows]
  /\ phase = "down" /\ mem = EmptyCatalog
  /\ job = "none" /\ draft = EmptyCatalog /\ seen = {} /\ edit = NoEdit
  /\ served = {}

(* What handlers read from now on.                                         *)
Pairs(c) == {<<c.item[p].id, p>> : p \in Paths(c)}
Serve(c) == mem' = c /\ served' = served \cup Pairs(c)

EndJob == job' = "none" /\ draft' = EmptyCatalog /\ seen' = {} /\ edit' = NoEdit

-----------------------------------------------------------------------------
(***************************************************************************)
(* The files change at any time; the database only while it is closed.     *)
(***************************************************************************)

Write(p) ==
  /\ \E tags \in TagsAt(p) : fs' = [fs EXCEPT ![p] = tags]
  /\ fs' # fs
  /\ UNCHANGED <<db, process>>

Remove(p) ==
  /\ p \in Volatile /\ fs[p] # Absent
  /\ fs' = [fs EXCEPT ![p] = Absent]
  /\ UNCHANGED <<db, process>>

(* The file is overwritten, or next_id or the id of a row is out of range. *)
Tamper ==
  /\ Tampering /\ phase \in {"down", "refused"} /\ db.schema = "current"
  /\ \/ db' = [db EXCEPT !.schema = "unusable"]
     \/ db' = [db EXCEPT !.next = 0]
     \/ \E p \in DOMAIN db.item : db' = [db EXCEPT !.item[p].id = MaxId]
  /\ UNCHANGED <<fs, process>>

Environment == Tamper \/ \E p \in Path : Write(p) \/ Remove(p)

(* The process is killed, or shut down, which cancels what is under way.   *)
Die ==
  /\ phase \notin {"down", "refused"}
  /\ phase' = "down" /\ mem' = EmptyCatalog
  /\ EndJob
  /\ UNCHANGED <<fs, db, served>>

-----------------------------------------------------------------------------
(***************************************************************************)
(* main: load the snapshot, or scan and save without it.                   *)
(***************************************************************************)

(* A loaded snapshot is served at once and a rescan is requested, which    *)
(* may fail to start.                                                      *)
StartLoaded ==
  /\ phase \in {"down", "refused"} /\ Loadable
  /\ phase' = "up"
  /\ Serve(Loaded)
  /\ job' \in {"none", "scan"}
  /\ UNCHANGED <<fs, db, draft, seen, edit>>

StartScan ==
  /\ phase \in {"down", "refused"} /\ ~Loadable
  /\ phase' = "bootScan"
  /\ UNCHANGED <<fs, db, mem, job, draft, seen, edit, served>>

BootScanned ==
  /\ phase = "bootScan" /\ seen = Path
  /\ phase' = "bootSave"
  /\ UNCHANGED <<fs, db, mem, job, draft, seen, edit, served>>

BootSaved ==
  /\ phase = "bootSave" /\ CanSave(draft)
  /\ phase' = "up"
  /\ db' = Saved(draft)
  /\ Serve(draft) /\ EndJob
  /\ UNCHANGED fs

(* The save fails like the load did: main exits.                           *)
BootRefused ==
  /\ phase = "bootSave" /\ ~CanSave(draft)
  /\ phase' = "refused"
  /\ EndJob
  /\ UNCHANGED <<fs, db, mem, served>>

-----------------------------------------------------------------------------
(***************************************************************************)
(* The scanner passes every entry once, in any order: what a file holds is *)
(* what it held then.  A subdirectory that cannot be read is skipped, and  *)
(* so is the rest of one from an item that cannot be added; in the root    *)
(* either fails the scan.                                                  *)
(***************************************************************************)

Scanning == phase = "bootScan" \/ (phase = "up" /\ job = "scan")

Pass(p) ==
  /\ Scanning /\ p \notin seen
  /\ seen' = seen \cup {p}
  /\ \/ /\ fs[p] # Absent /\ CanAdd(draft)
        /\ draft' = Add(draft, p, fs[p])
     \/ /\ fs[p] = Absent \/ p \in Volatile
        /\ UNCHANGED draft
  /\ UNCHANGED <<fs, db, phase, mem, job, edit, served>>

-----------------------------------------------------------------------------
(***************************************************************************)
(* The rescan of a running server: scan_worker.                            *)
(***************************************************************************)

RequestScan ==
  /\ phase = "up" /\ job = "none"
  /\ job' = "scan"
  /\ UNCHANGED <<fs, db, phase, mem, draft, seen, edit, served>>

Scanned ==
  /\ phase = "up" /\ job = "scan" /\ seen = Path
  /\ job' = "adopt"
  /\ UNCHANGED <<fs, db, phase, mem, draft, seen, edit, served>>

AdoptsIds ==
  /\ job = "adopt" /\ CanAdopt(draft, mem)
  /\ job' = "override"
  /\ draft' = AdoptIds(draft, mem)
  /\ UNCHANGED <<fs, db, phase, mem, seen, edit, served>>

AppliesOverrides ==
  /\ job = "override" /\ Openable
  /\ job' = "save"
  /\ draft' = ApplyOverrides(draft, db.over)
  /\ UNCHANGED <<fs, db, phase, mem, seen, edit, served>>

SavesDraft(from, to) ==
  /\ job = from /\ CanSave(draft)
  /\ job' = to
  /\ db' = Saved(draft)
  /\ UNCHANGED <<fs, phase, mem, draft, seen, edit, served>>

SwapsDraft(from) ==
  /\ job = from
  /\ Serve(draft) /\ EndJob
  /\ UNCHANGED <<fs, db, phase>>

(* A job that fails or is cancelled before its save or its swap leaves the *)
(* catalogue as it was.                                                    *)
Fails ==
  /\ job \in {"scan", "adopt", "override", "save", "patch", "cover", "coverSave"}
  /\ EndJob
  /\ UNCHANGED <<fs, db, phase, mem, served>>

Rescan ==
  \/ RequestScan \/ Scanned \/ AdoptsIds \/ AppliesOverrides
  \/ SavesDraft("save", "swap") \/ SwapsDraft("swap")

-----------------------------------------------------------------------------
(***************************************************************************)
(* Patching a track, or every track of an album: only the overrides are    *)
(* saved.                                                                  *)
(***************************************************************************)

PatchTracks(P, patch) ==
  /\ phase = "up" /\ job = "none"
  /\ P # {} /\ P \subseteq {p \in Paths(mem) : IsAudio(p)}
  /\ ValidPatch(patch)
  /\ job' = "patch"
  /\ edit' = [paths |-> P, set |-> patch.set, clear |-> patch.clear]
  /\ draft' = ApplyPatch(mem, P, patch)
  /\ UNCHANGED <<fs, db, phase, mem, seen, served>>

SavesPatch ==
  /\ job = "patch" /\ Openable
  /\ job' = "patched"
  /\ db' = [db EXCEPT !.over = PatchedRows(edit.paths, edit)]
  /\ UNCHANGED <<fs, phase, mem, draft, seen, edit, served>>

PatchMetadata ==
  \/ \E P \in SUBSET Path, patch \in Patch : PatchTracks(P, patch)
  \/ SavesPatch \/ SwapsDraft("patched")

-----------------------------------------------------------------------------
(***************************************************************************)
(* Putting an album cover: the file, then the catalogue, then the swap.    *)
(***************************************************************************)

WritesCover(p) ==
  /\ phase = "up" /\ job = "none" /\ p \in Image
  /\ fs' = [fs EXCEPT ![p] = ImageTags]
  /\ job' = "cover"
  /\ edit' = [NoEdit EXCEPT !.paths = {p}]
  /\ draft' = mem
  /\ UNCHANGED <<db, phase, mem, seen, served>>

LinksCover ==
  /\ job = "cover"
  /\ job' = "coverSave"
  /\ \E p \in edit.paths :
       \/ p \in Paths(draft) /\ UNCHANGED draft
       \/ /\ p \notin Paths(draft) /\ CanAdd(draft)
          /\ draft' = Add(draft, p, ImageTags)
  /\ UNCHANGED <<fs, db, phase, mem, seen, edit, served>>

PutCover ==
  \/ \E p \in Path : WritesCover(p)
  \/ LinksCover
  \/ SavesDraft("coverSave", "coverSwap") \/ SwapsDraft("coverSwap")

-----------------------------------------------------------------------------
Start == StartLoaded \/ StartScan \/ BootScanned \/ BootSaved \/ BootRefused

Next ==
  \/ Environment \/ Die \/ Start
  \/ \E p \in Path : Pass(p)
  \/ Rescan \/ Fails \/ PatchMetadata \/ PutCover

Spec == Init /\ [][Next]_vars

-----------------------------------------------------------------------------
(***************************************************************************)
(* Properties                                                              *)
(***************************************************************************)

(* The type of every variable.                                             *)
TypeOK ==
  /\ fs \in [Path -> Metadata \cup {Absent}]
  /\ db \in Database
  /\ phase \in Phase /\ job \in Job
  /\ mem \in Catalogue /\ draft \in Catalogue
  /\ seen \subseteq Path
  /\ edit \in [paths : SUBSET Path, set : Overrides, clear : SUBSET Field]
  /\ served \subseteq Id \X Path

(* In the catalogue that is served and in the one being built no two files *)
(* have the same id, and an id that will be given next is free.            *)
SoundCatalogues == SoundIds(mem) /\ SoundIds(draft)

(* While the server runs, the database holds a snapshot that the next      *)
(* start accepts, whatever it held before and whenever the process dies:   *)
(* the ids the program gives out pass the checks it makes on loading them. *)
RestartLoads == phase = "up" => Loadable

(* The inductive invariant of the first proofs.  What is built has to be sound   *)
(* for what is saved to load again, and what loads is sound because the    *)
(* load checks it: of a database that may have been damaged nothing else   *)
(* is known.  Overrides are made for tracks only.                          *)
EditsTracks == job = "patch" => edit.paths \subseteq Path \ Image
StoreInv == TypeOK /\ SoundCatalogues /\ RestartLoads /\ EditsTracks

(* An id a client has seen, or the user database has recorded, never comes *)
(* to stand for another file: not after a rescan, a crash or a restart.    *)
IdsNeverReassigned ==
  \A i \in {pair[1] : pair \in served} :
    Cardinality({p \in Path : <<i, p>> \in served}) = 1

KeepsId(p) == Cardinality({i \in Id : <<i, p>> \in served}) <= 1

(* A file that stays where it is keeps its id for good.                    *)
ResidentsKeepIds == \A p \in Path \ Volatile : KeepsId(p)

(* Each track shows its row of overrides over its scanned metadata: what   *)
(* the patches left in memory is what the database would make of it.       *)
OverridesShown ==
  LET c == IF job = "patched" THEN draft ELSE mem IN
  phase = "up" =>
    \A p \in Paths(c) : Shows(c.item[p], IF IsAudio(p) THEN RowOf(p) ELSE NoRow)

(* The inductive invariant of the proofs about the history, while nothing  *)
(* damages the database: it was never used for this root, or it loads.     *)
Unused ==
  \/ db.schema = "none" /\ db.over = NoRow
  \/ db.schema = "current" /\ db.root # Here

ServedPaths == {pair[2] : pair \in served}
Booting == phase \in {"bootScan", "bootSave"}

(* No job without a server, and no scan starts from a used draft.          *)
StagesInv ==
  /\ Loadable \/ Unused
  /\ Unused => served = {} /\ phase # "up"
  /\ Booting => Unused
  /\ job # "none" => phase = "up"
  /\ job = "none" /\ ~Booting => seen = {}
  /\ job = "adopt" \/ phase = "bootSave" => seen = Path

(* The draft has no overrides until it is given all of them; a patch is    *)
(* made in the draft first and in the rows next.                           *)
ShowsRows(c) == \A p \in Paths(c) : Shows(c.item[p], RowOf(p))
RowToBe(p) == IF p \in edit.paths THEN MergedRow(RowOf(p), edit) ELSE RowOf(p)

ShownInv ==
  /\ job # "patched" => ShowsRows(mem)
  /\ job \in {"none", "scan", "adopt", "override"} =>
       \A p \in Paths(draft) : Shows(draft.item[p], NoRow)
  /\ job \in {"save", "swap", "patched", "cover", "coverSave", "coverSwap"} =>
       ShowsRows(draft)
  /\ job = "patch" =>
       ValidPatch(edit) /\ \A p \in Paths(draft) : Shows(draft.item[p], RowToBe(p))

(* What is not removed stays on disk, and a scan that passes it lists it.  *)
Stays(p) == p \notin Volatile /\ (IsAudio(p) \/ p \in ServedPaths)
Listed == Paths(mem) \cup Paths(draft) \cup DOMAIN db.item \cup ServedPaths

ResidentsInv ==
  /\ \A p \in Path \ Volatile : IsAudio(p) \/ p \in Listed => fs[p] # Absent
  /\ job = "cover" =>
       edit.paths \subseteq Image /\ \A p \in edit.paths \ Volatile : fs[p] # Absent
  /\ Booting \/ job \in {"scan", "adopt"} =>
       \A p \in seen : Stays(p) => p \in Paths(draft)

(* A history is consistent if what stays has one id and every id stands    *)
(* for one path, and a catalogue continues it if it says the same and its  *)
(* next id is above all of it.  A library where no track stays may be      *)
(* found empty once, and the ids start again.                              *)
ATrackStays == \E p \in Path \ Volatile : IsAudio(p)

Consistent(history) ==
  /\ \A x, y \in history : x[2] = y[2] /\ x[2] \notin Volatile => x = y
  /\ ATrackStays => \A x, y \in history : x[1] = y[1] => x = y

Continues(c, history) ==
  /\ \A pair \in history : pair[2] \notin Volatile => pair \in Pairs(c)
  /\ \A p \in Path \ Volatile : IsAudio(p) => p \in Paths(c)
  /\ ATrackStays => \A pair \in history :
       pair[1] < c.next /\ \A q \in Paths(c) : c.item[q].id = pair[1] => q = pair[2]

(* The snapshot is of what is served, or of what will be.                  *)
SameIds(c, d) ==
  /\ Paths(c) = Paths(d) /\ c.next = d.next
  /\ \A p \in Paths(c) : c.item[p].id = d.item[p].id

IdsInv ==
  /\ Loadable => Continues(db, served)
  /\ phase = "up" /\ job \notin {"swap", "coverSwap"} => SameIds(db, mem)
  /\ job \in {"patch", "patched", "swap", "coverSwap"} => SameIds(db, draft)
  /\ job \in {"override", "save", "cover", "coverSave"} => Continues(draft, served)
  /\ Consistent(served)

HistoryInv == StoreInv /\ StagesInv /\ ShownInv /\ ResidentsInv /\ IdsInv

(* Overrides are lost to nothing but a patch: no rescan, cover or start,   *)
(* and not to the file being away for a while.                             *)
OverridesKept ==
  [][db.root = Here /\ db.over # db'.over => job = "patch" /\ job' = "patched"]_vars

(* A file that was listed before comes back with the id it had.            *)
ReturnsWithItsId == \A p \in Path : KeepsId(p)
=============================================================================
