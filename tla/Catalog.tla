------------------------------- MODULE Catalog -------------------------------
(***************************************************************************)
(* The catalogue of the library (src/src/library/catalog.c) and what is    *)
(* done to its items: a function from the relative paths it lists to their *)
(* items, and the next id.  The array order is kept only where it matters: *)
(* a scan numbers the paths in the order it meets them.                    *)
(*                                                                         *)
(* An item has the metadata read from the file (scanned), the metadata it  *)
(* shows (value) and the set of overridden fields (mask).  A row of        *)
(* overrides is a function from the overridden fields to their values.     *)
(*                                                                         *)
(* An operator whose name ends in an underscore and a word is a faulty     *)
(* variant of the operator that follows it, for mutation checks only.      *)
(***************************************************************************)
EXTENDS Naturals, FiniteSets, FiniteSetsExt, Functions

CONSTANTS Path,    \* relative paths of media files
          Image,   \* those that media_kind_from_path takes for images
          Field,   \* the metadata fields that can be overridden
          Tag,     \* their values
          MaxId    \* UINT32_MAX: no item ever has it

ASSUME PathAssumption == IsFiniteSet(Path) /\ Image \subseteq Path
ASSUME TagAssumption == Tag # {}
ASSUME MaxIdAssumption == MaxId \in Nat \ {0}

Id == 1..(MaxId - 1)
Metadata == [Field -> Tag]
Overrides == UNION {[F -> Tag] : F \in SUBSET Field}
NoRow == [f \in {} |-> f]

Item == [id : Id, scanned : Metadata, value : Metadata, mask : SUBSET Field]
Catalogue == [item : UNION {[P -> Item] : P \in SUBSET Path}, next : 1..MaxId]

Paths(c) == DOMAIN c.item
IsAudio(p) == p \notin Image
Ids(c) == {c.item[p].id : p \in Paths(c)}

-----------------------------------------------------------------------------
(* catalog_create, catalog_add_metadata.                                   *)

EmptyCatalog == [item |-> [p \in {} |-> p], next |-> 1]

With(c, p, item) == [q \in Paths(c) \cup {p} |-> IF q = p THEN item ELSE c.item[q]]

NewItem(id, tags) == [id |-> id, scanned |-> tags, value |-> tags, mask |-> {}]

CanAdd_Unchecked(c) == TRUE
CanAdd(c) == c.next # MaxId

Add(c, p, tags) ==
  [item |-> With(c, p, NewItem(c.next, tags)), next |-> c.next + 1]

-----------------------------------------------------------------------------
(* catalog_adopt_ids: paths of the previous catalogue keep their ids, the  *)
(* others are numbered on from its next id, in the order of the new scan.  *)
(* A previous catalogue without items is ignored, its next id included.    *)

Renumber_KeepsNext(c, id, next) ==
  [c EXCEPT !.item = [p \in Paths(c) |-> [c.item[p] EXCEPT !.id = id[p]]]]

Renumber(c, id, next) ==
  [item |-> [p \in Paths(c) |-> [c.item[p] EXCEPT !.id = id[p]]], next |-> next]

NewPaths(fresh, previous) == Paths(fresh) \ Paths(previous)

FirstNewId_FromCount(previous) == Cardinality(Paths(previous)) + 1
FirstNewId(previous) == Max({previous.next} \cup {i + 1 : i \in Ids(previous)})

CanAdopt(fresh, previous) ==
  \/ Paths(previous) = {}
  \/ FirstNewId(previous) + Cardinality(NewPaths(fresh, previous)) <= MaxId

NewPathsBefore(fresh, previous, p) ==
  {q \in NewPaths(fresh, previous) : fresh.item[q].id < fresh.item[p].id}

AdoptedId(fresh, previous) ==
  [p \in Paths(fresh) |->
     IF p \in Paths(previous)
     THEN previous.item[p].id
     ELSE FirstNewId(previous) + Cardinality(NewPathsBefore(fresh, previous, p))]

AdoptIds_Never(fresh, previous) == fresh
AdoptIds(fresh, previous) ==
  IF Paths(previous) = {}
  THEN fresh
  ELSE LET id == AdoptedId(fresh, previous)
           after == FirstNewId(previous) + Cardinality(NewPaths(fresh, previous))
       IN Renumber(fresh, id, Max({after} \cup {id[p] + 1 : p \in Paths(fresh)}))

-----------------------------------------------------------------------------
(* Overrides.  A patch sets some fields and clears others: apply_patch_to_ *)
(* item on the item in memory, merge_patch on its row in the database.     *)

Patch == {[set |-> s, clear |-> c] : s \in Overrides, c \in SUBSET Field}
ValidPatch(patch) == DOMAIN patch.set \cap patch.clear = {}

Over(row, tags) == [f \in DOMAIN tags |-> IF f \in DOMAIN row THEN row[f] ELSE tags[f]]

PatchedItem_ClearKeeps(item, patch) ==
  [item EXCEPT
     !.value = [f \in Field |-> IF f \in DOMAIN patch.set THEN patch.set[f]
                                ELSE item.value[f]],
     !.mask = (item.mask \ patch.clear) \cup DOMAIN patch.set]

PatchedItem(item, patch) ==
  [item EXCEPT
     !.value = [f \in Field |-> IF f \in patch.clear THEN item.scanned[f]
                                ELSE IF f \in DOMAIN patch.set THEN patch.set[f]
                                ELSE item.value[f]],
     !.mask = (item.mask \ patch.clear) \cup DOMAIN patch.set]

MergedRow(row, patch) ==
  [f \in (DOMAIN row \ patch.clear) \cup DOMAIN patch.set |->
     IF f \in DOMAIN patch.set THEN patch.set[f] ELSE row[f]]

ApplyPatch(c, P, patch) ==
  [c EXCEPT !.item = [p \in Paths(c) |->
     IF p \in P THEN PatchedItem(c.item[p], patch) ELSE c.item[p]]]

(* catalog_store_apply_overrides: every row whose path is an audio item.   *)
ApplyOverrides(c, rows) ==
  [c EXCEPT !.item = [p \in Paths(c) |->
     IF p \in DOMAIN rows /\ IsAudio(p)
     THEN PatchedItem(c.item[p], [set |-> rows[p], clear |-> {}])
     ELSE c.item[p]]]

-----------------------------------------------------------------------------
UniqueIds(c) == \A p, q \in Paths(c) : c.item[p].id = c.item[q].id => p = q

(* No two items share an id, and the next id is above them all.            *)
SoundIds(c) ==
  /\ UniqueIds(c)
  /\ \A p \in Paths(c) : c.item[p].id \in 1..(c.next - 1)
  /\ c.next \in 1..MaxId

(* What an item shows is its row of overrides over what was scanned.       *)
Shows(item, row) ==
  /\ item.value = Over(row, item.scanned)
  /\ item.mask = DOMAIN row
=============================================================================
