-------------------------- MODULE LibraryStoreProofs --------------------------
(***************************************************************************)
(* Proofs about LibraryStore and the operators of Catalog, for any finite  *)
(* set of paths, any range of ids and any fields: what holds with a        *)
(* database that is tampered with or not (StoreInv), and what it promises  *)
(* over the whole history of a library, while nothing damages its          *)
(* database: ids that stay with their files and overrides that show        *)
(* (HistoryInv).                                                           *)
(***************************************************************************)
EXTENDS LibraryStore, FiniteSetTheorems, TLAPS

-----------------------------------------------------------------------------
(***************************************************************************)
(* What the operators of Catalog preserve.                                 *)
(***************************************************************************)

(* A catalogue is taken apart and put together again.                      *)
LEMMA CatalogueParts ==
  ASSUME NEW c \in Catalogue
  PROVE  /\ c = [item |-> c.item, next |-> c.next]
         /\ c.next \in 1..MaxId
         /\ Paths(c) \in SUBSET Path
         /\ c.item \in [Paths(c) -> Item]
BY DEF Catalogue, Paths

(* A next id and items over any set of paths make a catalogue.             *)
LEMMA CatalogueMade ==
  ASSUME NEW P \in SUBSET Path, NEW items \in [P -> Item], NEW n \in 1..MaxId
  PROVE  /\ [item |-> items, next |-> n] \in Catalogue
         /\ Paths([item |-> items, next |-> n]) = P
BY DEF Catalogue, Paths

(* A number of the set that none exceeds is its maximum.                   *)
LEMMA MaxIs ==
  ASSUME NEW S \in SUBSET Nat, NEW m \in S, \A n \in S : n <= m
  PROVE  Max(S) = m
<1>1. \A y \in S : m >= y
  OBVIOUS
<1>2. Max(S) \in S /\ \A y \in S : Max(S) >= y
  BY <1>1, Zenon DEF Max
<1>3. Max(S) \in Nat /\ m \in Nat
  BY <1>2
<1>4. Max(S) >= m /\ m >= Max(S)
  BY <1>1, <1>2
<1> QED
  BY <1>3, <1>4

(* The empty catalogue is sound.                                           *)
LEMMA EmptySound == EmptyCatalog \in Catalogue /\ SoundIds(EmptyCatalog)
<1>1. EmptyCatalog = [item |-> [p \in {} |-> p], next |-> 1]
  BY DEF EmptyCatalog
<1>2. [p \in {} |-> p] \in [{} -> Item] /\ 1 \in 1..MaxId
  BY MaxIdAssumption
<1>3. EmptyCatalog \in Catalogue /\ Paths(EmptyCatalog) = {}
  BY <1>1, <1>2, CatalogueMade
<1> QED
  BY <1>1, <1>2, <1>3 DEF SoundIds, UniqueIds

(* A new item is an item, if its id is in range.                           *)
LEMMA NewItemType ==
  ASSUME NEW id \in Id, NEW tags \in Metadata
  PROVE  NewItem(id, tags) \in Item /\ NewItem(id, tags).id = id
BY DEF NewItem, Item

(* catalog_add_metadata: adding keeps a catalogue sound up to the last id. *)
LEMMA AddSound ==
  ASSUME NEW c \in Catalogue, NEW p \in Path, NEW tags \in Metadata, CanAdd(c)
  PROVE  /\ Add(c, p, tags) \in Catalogue
         /\ SoundIds(c) => SoundIds(Add(c, p, tags))
<1> DEFINE items == With(c, p, NewItem(c.next, tags))
<1>1. c.next \in Id /\ c.next + 1 \in 1..MaxId
  BY CatalogueParts, MaxIdAssumption DEF CanAdd, Id
<1>2. NewItem(c.next, tags) \in Item /\ NewItem(c.next, tags).id = c.next
  BY <1>1, NewItemType
<1>3. Paths(c) \cup {p} \in SUBSET Path /\ items \in [Paths(c) \cup {p} -> Item]
  BY <1>2, CatalogueParts DEF With
<1>4. Add(c, p, tags) = [item |-> items, next |-> c.next + 1]
  BY DEF Add
<1>5. /\ Add(c, p, tags) \in Catalogue /\ Paths(Add(c, p, tags)) = Paths(c) \cup {p}
      /\ Add(c, p, tags).next = c.next + 1
  BY <1>1, <1>3, <1>4, CatalogueMade
<1>6. ASSUME SoundIds(c) PROVE SoundIds(Add(c, p, tags))
  <2>1. \A q \in Paths(c) \cup {p} :
          Add(c, p, tags).item[q].id = IF q = p THEN c.next ELSE c.item[q].id
    BY <1>2, <1>4 DEF With
  <2>2. \A q \in Paths(c) : c.item[q].id \in 1..(c.next - 1)
    BY <1>6 DEF SoundIds
  <2>3. UniqueIds(Add(c, p, tags))
    BY <1>1, <1>5, <1>6, <2>1, <2>2 DEF UniqueIds, SoundIds, Id
  <2>4. \A q \in Paths(c) \cup {p} :
          Add(c, p, tags).item[q].id \in 1..(Add(c, p, tags).next - 1)
    BY <1>1, <1>5, <2>1, <2>2 DEF Id
  <2> QED
    BY <1>1, <1>5, <2>3, <2>4 DEF SoundIds
<1> QED
  BY <1>5, <1>6

-----------------------------------------------------------------------------
(***************************************************************************)
(* catalog_adopt_ids.                                                      *)
(***************************************************************************)

(* New ids start at the next id of the previous catalogue.                 *)
LEMMA FirstNewIdIsNext ==
  ASSUME NEW c \in Catalogue, SoundIds(c)
  PROVE  FirstNewId(c) = c.next
<1> DEFINE S == {c.next} \cup {i + 1 : i \in Ids(c)}
<1>1. \A i \in Ids(c) : i \in 1..(c.next - 1)
  BY DEF SoundIds, Ids
<1>2. c.next \in Nat
  BY CatalogueParts, MaxIdAssumption
<1>3. S \in SUBSET Nat /\ c.next \in S /\ \A n \in S : n <= c.next
  BY <1>1, <1>2
<1>4. Max(S) = c.next
  BY <1>3, MaxIs
<1> QED
  BY <1>4 DEF FirstNewId

(* The ids of new paths follow one another in the order of the scan.       *)
LEMMA NewPathsOrdered ==
  ASSUME NEW fresh \in Catalogue, NEW previous \in Catalogue, SoundIds(fresh)
  PROVE  /\ Cardinality(NewPaths(fresh, previous)) \in Nat
         /\ \A p \in NewPaths(fresh, previous) :
              /\ Cardinality(NewPathsBefore(fresh, previous, p)) \in Nat
              /\ Cardinality(NewPathsBefore(fresh, previous, p))
                   < Cardinality(NewPaths(fresh, previous))
         /\ \A p, q \in NewPaths(fresh, previous) :
              Cardinality(NewPathsBefore(fresh, previous, p))
                = Cardinality(NewPathsBefore(fresh, previous, q)) => p = q
<1> DEFINE New == NewPaths(fresh, previous)
           Before(p) == NewPathsBefore(fresh, previous, p)
<1>1. New \in SUBSET Path /\ New \in SUBSET Paths(fresh)
  BY CatalogueParts DEF NewPaths
<1>2. IsFiniteSet(New)
  BY <1>1, PathAssumption, FS_Subset
<1>3. \A p \in New : Before(p) \in SUBSET (New \ {p}) /\ fresh.item[p].id \in Nat
  BY <1>1, CatalogueParts DEF NewPathsBefore, Item, Id, SoundIds
<1>4. ASSUME NEW S \in SUBSET New, NEW T \in SUBSET S, NEW x \in S \ T
      PROVE  /\ Cardinality(S) \in Nat /\ Cardinality(T) \in Nat
             /\ Cardinality(T) < Cardinality(S)
  <2>1. IsFiniteSet(S)
    BY <1>2, FS_Subset
  <2>2. IsFiniteSet(T) /\ Cardinality(T) <= Cardinality(S)
        /\ (Cardinality(S) = Cardinality(T) => S = T)
    BY <2>1, FS_Subset
  <2>3. Cardinality(S) \in Nat /\ Cardinality(T) \in Nat
    BY <2>1, <2>2, FS_CardinalityType
  <2> QED
    BY <2>2, <2>3
<1>5. \A p \in New : /\ Cardinality(Before(p)) \in Nat
                     /\ Cardinality(Before(p)) < Cardinality(New)
  BY <1>3, <1>4
<1>6. ASSUME NEW p \in New, NEW q \in New, fresh.item[p].id < fresh.item[q].id
      PROVE  Cardinality(Before(p)) < Cardinality(Before(q))
  <2>1. p \in Before(q) /\ p \notin Before(p)
    BY <1>3, <1>6 DEF NewPathsBefore
  <2>2. Before(p) \in SUBSET Before(q) /\ Before(q) \in SUBSET New
    BY <1>3, <1>6 DEF NewPathsBefore
  <2> QED
    BY <1>4, <2>1, <2>2
<1>7. ASSUME NEW p \in New, NEW q \in New, p # q
      PROVE  fresh.item[p].id < fresh.item[q].id \/ fresh.item[q].id < fresh.item[p].id
  BY <1>1, <1>3, <1>7 DEF SoundIds, UniqueIds
<1>8. Cardinality(New) \in Nat
  BY <1>2, FS_CardinalityType
<1>9. \A p, q \in New : Cardinality(Before(p)) = Cardinality(Before(q)) => p = q
  BY <1>5, <1>6, <1>7
<1> QED
  BY <1>5, <1>8, <1>9

(* Adopted ids: a path that stays keeps its id, a new one gets an id that  *)
(* no item of the previous catalogue had, and no two get the same.         *)
LEMMA AdoptedIds ==
  ASSUME NEW fresh \in Catalogue, NEW previous \in Catalogue,
         SoundIds(fresh), SoundIds(previous),
         NEW id, id = AdoptedId(fresh, previous),
         NEW after,
         after = FirstNewId(previous) + Cardinality(NewPaths(fresh, previous))
  PROVE  /\ after \in Nat /\ previous.next <= after
         /\ \A p \in Paths(fresh) :
              /\ id[p] \in Nat \ {0} /\ id[p] < after
              /\ id[p] < previous.next <=> p \in Paths(previous)
              /\ p \in Paths(previous) => id[p] = previous.item[p].id
         /\ \A p, q \in Paths(fresh) : id[p] = id[q] => p = q
<1> DEFINE New == NewPaths(fresh, previous)
           Before(p) == NewPathsBefore(fresh, previous, p)
           n == previous.next
<1>1. FirstNewId(previous) = n /\ n \in Nat \ {0}
  BY FirstNewIdIsNext, CatalogueParts, MaxIdAssumption
<1>2. /\ Cardinality(New) \in Nat
      /\ \A p \in New : Cardinality(Before(p)) \in Nat /\ Cardinality(Before(p)) < Cardinality(New)
      /\ \A p, q \in New : Cardinality(Before(p)) = Cardinality(Before(q)) => p = q
  BY NewPathsOrdered
<1>3. \A p \in Paths(fresh) \cap Paths(previous) :
        id[p] = previous.item[p].id /\ id[p] \in 1..(n - 1)
  BY DEF AdoptedId, SoundIds
<1>4. \A p \in New : id[p] = n + Cardinality(Before(p))
  BY <1>1 DEF AdoptedId, NewPaths
<1>5. \A p \in Paths(fresh) : p \in Paths(previous) \/ p \in New
  BY DEF NewPaths
<1>6. after = n + Cardinality(New) /\ after \in Nat /\ n <= after
  BY <1>1, <1>2
<1>7. ASSUME NEW p \in Paths(fresh)
      PROVE  /\ id[p] \in Nat \ {0} /\ id[p] < after
             /\ id[p] < n <=> p \in Paths(previous)
             /\ p \in Paths(previous) => id[p] = previous.item[p].id
  <2>1. CASE p \in Paths(previous)
    BY <1>1, <1>3, <1>6, <2>1
  <2>2. CASE p \in New
    BY <1>1, <1>2, <1>4, <1>6, <2>2 DEF NewPaths
  <2> QED
    BY <1>5, <2>1, <2>2
<1>8. ASSUME NEW p \in Paths(fresh), NEW q \in Paths(fresh), id[p] = id[q]
      PROVE  p = q
  <2>1. p \in Paths(previous) <=> q \in Paths(previous)
    BY <1>7, <1>8
  <2>2. CASE p \in Paths(previous)
    BY <1>7, <1>8, <2>1, <2>2 DEF SoundIds, UniqueIds
  <2>3. CASE p \in New /\ q \in New
    BY <1>1, <1>2, <1>4, <1>8, <2>3
  <2> QED
    BY <1>5, <2>1, <2>2, <2>3 DEF NewPaths
<1> QED
  BY <1>6, <1>7, <1>8

(* catalog_adopt_ids: it lists the paths of the new scan, it is sound, its *)
(* next id is never below that of the previous catalogue, and the paths    *)
(* of both keep their ids.                                                 *)
LEMMA AdoptSound ==
  ASSUME NEW fresh \in Catalogue, NEW previous \in Catalogue,
         SoundIds(fresh), SoundIds(previous), CanAdopt(fresh, previous)
  PROVE  /\ AdoptIds(fresh, previous) \in Catalogue
         /\ Paths(AdoptIds(fresh, previous)) = Paths(fresh)
         /\ SoundIds(AdoptIds(fresh, previous))
         /\ Paths(previous) # {} =>
              /\ previous.next <= AdoptIds(fresh, previous).next
              /\ \A p \in Paths(fresh) :
                   LET i == AdoptIds(fresh, previous).item[p].id IN
                   /\ p \in Paths(previous) => i = previous.item[p].id
                   /\ p \notin Paths(previous) => i >= previous.next
<1>1. CASE Paths(previous) = {}
  BY <1>1 DEF AdoptIds
<1>2. CASE Paths(previous) # {}
  <2> DEFINE id == AdoptedId(fresh, previous)
             after == FirstNewId(previous) + Cardinality(NewPaths(fresh, previous))
             S == {after} \cup {id[p] + 1 : p \in Paths(fresh)}
             items == [p \in Paths(fresh) |-> [fresh.item[p] EXCEPT !.id = id[p]]]
  <2>1. /\ after \in Nat /\ previous.next <= after
        /\ \A p \in Paths(fresh) :
              /\ id[p] \in Nat \ {0} /\ id[p] < after
              /\ id[p] < previous.next <=> p \in Paths(previous)
              /\ p \in Paths(previous) => id[p] = previous.item[p].id
        /\ \A p, q \in Paths(fresh) : id[p] = id[q] => p = q
    BY AdoptedIds
  <2>2. S \in SUBSET Nat /\ after \in S /\ \A n \in S : n <= after
    BY <2>1
  <2>3. Max(S) = after
    BY <2>2, MaxIs
  <2>4. AdoptIds(fresh, previous) = [item |-> items, next |-> after]
    BY <1>2, <2>3 DEF AdoptIds, Renumber
  <2>5. previous.next \in 1..MaxId /\ after \in 1..MaxId
    BY <1>2, <2>1, CatalogueParts, MaxIdAssumption DEF CanAdopt
  <2>6. \A p \in Paths(fresh) : id[p] \in Id
    BY <2>1, <2>5, MaxIdAssumption DEF Id
  <2>7. items \in [Paths(fresh) -> Item] /\ Paths(fresh) \in SUBSET Path
    BY <2>6, CatalogueParts DEF Item
  <2>8. \A p \in Paths(fresh) : items[p].id = id[p]
    BY CatalogueParts DEF Item
  <2> HIDE DEF id, after, items
  <2>9. /\ AdoptIds(fresh, previous) \in Catalogue
        /\ Paths(AdoptIds(fresh, previous)) = Paths(fresh)
    BY <2>4, <2>5, <2>7, CatalogueMade
  <2>10. /\ AdoptIds(fresh, previous).next = after
         /\ \A p \in Paths(fresh) : AdoptIds(fresh, previous).item[p].id = id[p]
    BY <2>4, <2>8
  <2>11. UniqueIds(AdoptIds(fresh, previous))
    BY <2>1, <2>9, <2>10 DEF UniqueIds
  <2>12. SoundIds(AdoptIds(fresh, previous))
    BY <2>1, <2>5, <2>9, <2>10, <2>11 DEF SoundIds
  <2>13. previous.next <= AdoptIds(fresh, previous).next
    BY <2>1, <2>10
  <2>14. ASSUME NEW p \in Paths(fresh)
         PROVE  LET i == AdoptIds(fresh, previous).item[p].id IN
                /\ p \in Paths(previous) => i = previous.item[p].id
                /\ p \notin Paths(previous) => i >= previous.next
    BY <2>1, <2>5, <2>10
  <2> QED
    BY <2>9, <2>12, <2>13, <2>14
<1> QED
  BY <1>1, <1>2

-----------------------------------------------------------------------------
(***************************************************************************)
(* Patches and overrides.                                                  *)
(***************************************************************************)

(* A catalogue with the same paths, ids and next id is as sound.           *)
LEMMA SameIdsSound ==
  ASSUME NEW c, NEW d, SoundIds(c),
         Paths(d) = Paths(c), d.next = c.next,
         \A p \in Paths(c) : d.item[p].id = c.item[p].id
  PROVE  SoundIds(d)
BY DEF SoundIds, UniqueIds

(* A row of overrides has tags for some of the fields.                     *)
LEMMA OverridesParts ==
  ASSUME NEW row \in Overrides
  PROVE  DOMAIN row \in SUBSET Field /\ row \in [DOMAIN row -> Tag]
BY DEF Overrides

(* A patched item is an item with the same id.                             *)
LEMMA PatchedItemType ==
  ASSUME NEW item \in Item, NEW row \in Overrides, NEW clear \in SUBSET Field,
         NEW patch, patch.set = row, patch.clear = clear
  PROVE  /\ PatchedItem(item, patch) \in Item
         /\ PatchedItem(item, patch).id = item.id
<1>1. item.value \in [Field -> Tag] /\ item.scanned \in [Field -> Tag]
  BY DEF Item, Metadata
<1> DEFINE value == [f \in Field |-> IF f \in clear THEN item.scanned[f]
                                    ELSE IF f \in DOMAIN row THEN row[f]
                                    ELSE item.value[f]]
           mask == (item.mask \ clear) \cup DOMAIN row
<1>2. value \in Metadata
  BY <1>1, OverridesParts DEF Metadata
<1>3. mask \in SUBSET Field
  BY OverridesParts DEF Item
<1>4. PatchedItem(item, patch) = [item EXCEPT !.value = value, !.mask = mask]
  BY DEF PatchedItem
<1> HIDE DEF value, mask
<1> QED
  BY <1>2, <1>3, <1>4 DEF Item

(* catalog_apply_metadata_patch changes no path and no id.                 *)
LEMMA PatchSound ==
  ASSUME NEW c \in Catalogue, NEW P, NEW row \in Overrides,
         NEW clear \in SUBSET Field,
         NEW patch, patch.set = row, patch.clear = clear
  PROVE  /\ ApplyPatch(c, P, patch) \in Catalogue
         /\ Paths(ApplyPatch(c, P, patch)) = Paths(c)
         /\ SoundIds(c) => SoundIds(ApplyPatch(c, P, patch))
<1> DEFINE items == [p \in Paths(c) |->
                       IF p \in P THEN PatchedItem(c.item[p], patch) ELSE c.item[p]]
<1>1. c.item \in [Paths(c) -> Item] /\ Paths(c) \in SUBSET Path /\ c.next \in 1..MaxId
  BY CatalogueParts
<1>2. \A p \in Paths(c) : items[p] \in Item /\ items[p].id = c.item[p].id
  BY <1>1, PatchedItemType
<1>3. ApplyPatch(c, P, patch) = [item |-> items, next |-> c.next]
  BY CatalogueParts DEF ApplyPatch
<1>4. items \in [Paths(c) -> Item]
  BY <1>2
<1> HIDE DEF items
<1>5. /\ ApplyPatch(c, P, patch) \in Catalogue
      /\ Paths(ApplyPatch(c, P, patch)) = Paths(c)
  BY <1>1, <1>3, <1>4, CatalogueMade
<1>6. SoundIds(c) => SoundIds(ApplyPatch(c, P, patch))
  BY <1>2, <1>3, <1>5, SameIdsSound
<1> QED
  BY <1>5, <1>6

(* catalog_store_apply_overrides changes no path and no id.                *)
LEMMA ApplyOverridesSound ==
  ASSUME NEW c \in Catalogue, NEW rows, \A p \in DOMAIN rows : rows[p] \in Overrides
  PROVE  /\ ApplyOverrides(c, rows) \in Catalogue
         /\ Paths(ApplyOverrides(c, rows)) = Paths(c)
         /\ SoundIds(c) => SoundIds(ApplyOverrides(c, rows))
<1> DEFINE items == [p \in Paths(c) |->
                       IF p \in DOMAIN rows /\ IsAudio(p)
                       THEN PatchedItem(c.item[p], [set |-> rows[p], clear |-> {}])
                       ELSE c.item[p]]
<1>1. c.item \in [Paths(c) -> Item] /\ Paths(c) \in SUBSET Path /\ c.next \in 1..MaxId
  BY CatalogueParts
<1>2. ASSUME NEW p \in Paths(c)
      PROVE  items[p] \in Item /\ items[p].id = c.item[p].id
  <2>1. CASE p \in DOMAIN rows /\ IsAudio(p)
    <3> DEFINE patch == [set |-> rows[p], clear |-> {}]
    <3>1. rows[p] \in Overrides /\ patch.set = rows[p] /\ patch.clear = {}
      BY <2>1
    <3>2. c.item[p] \in Item
      BY <1>1
    <3> HIDE DEF patch
    <3>3. PatchedItem(c.item[p], patch) \in Item /\ PatchedItem(c.item[p], patch).id = c.item[p].id
      BY <3>1, <3>2, PatchedItemType
    <3> QED
      BY <2>1, <3>3 DEF patch
  <2>2. CASE ~(p \in DOMAIN rows /\ IsAudio(p))
    BY <1>1, <2>2
  <2> QED
    BY <2>1, <2>2
<1>3. items \in [Paths(c) -> Item]
  BY <1>2
<1>4. ApplyOverrides(c, rows) = [c EXCEPT !.item = items]
  BY Zenon DEF ApplyOverrides
<1> HIDE DEF items
<1>5. ApplyOverrides(c, rows) = [item |-> items, next |-> c.next]
  BY <1>4, CatalogueParts
<1>6. /\ ApplyOverrides(c, rows) \in Catalogue
      /\ Paths(ApplyOverrides(c, rows)) = Paths(c)
  BY <1>1, <1>3, <1>5, CatalogueMade
<1>7. SoundIds(c) => SoundIds(ApplyOverrides(c, rows))
  BY <1>2, <1>5, <1>6, SameIdsSound
<1> QED
  BY <1>6, <1>7

(* A merged row is a row.                                                  *)
LEMMA MergedRowType ==
  ASSUME NEW row \in Overrides, NEW set \in Overrides, NEW patch, patch.set = set
  PROVE  MergedRow(row, patch) \in Overrides
<1> DEFINE F == (DOMAIN row \ patch.clear) \cup DOMAIN set
<1>1. F \in SUBSET Field /\ MergedRow(row, patch) \in [F -> Tag]
  BY OverridesParts DEF MergedRow
<1> HIDE DEF F
<1> QED
  BY <1>1 DEF Overrides

(* apply_patch_to_item and merge_patch do the same to the item in memory   *)
(* and to its row in the database: if the item showed its row before, it   *)
(* shows its new row after.                                                *)
LEMMA PatchShows ==
  ASSUME NEW item \in Item, NEW row \in Overrides, Shows(item, row),
         NEW patch \in Patch, ValidPatch(patch)
  PROVE  Shows(PatchedItem(item, patch), MergedRow(row, patch))
<1>1. /\ DOMAIN item.scanned = Field /\ DOMAIN row \subseteq Field
      /\ DOMAIN patch.set \subseteq Field /\ patch.clear \subseteq Field
      /\ DOMAIN patch.set \cap patch.clear = {}
  BY OverridesParts DEF Item, Metadata, Patch, ValidPatch
<1>2. item.value = [f \in Field |-> IF f \in DOMAIN row THEN row[f] ELSE item.scanned[f]]
      /\ item.mask = DOMAIN row
  BY <1>1 DEF Shows, Over
<1> DEFINE new == PatchedItem(item, patch)
           merged == MergedRow(row, patch)
<1>3. /\ new.scanned = item.scanned
      /\ new.mask = (item.mask \ patch.clear) \cup DOMAIN patch.set
      /\ new.value = [f \in Field |-> IF f \in patch.clear THEN item.scanned[f]
                                      ELSE IF f \in DOMAIN patch.set THEN patch.set[f]
                                      ELSE item.value[f]]
  BY DEF PatchedItem, Item
<1>4. /\ DOMAIN merged = (DOMAIN row \ patch.clear) \cup DOMAIN patch.set
      /\ \A f \in DOMAIN merged :
           merged[f] = IF f \in DOMAIN patch.set THEN patch.set[f] ELSE row[f]
  BY DEF MergedRow
<1> HIDE DEF new, merged
<1>5. \A f \in Field :
        (IF f \in patch.clear THEN item.scanned[f]
         ELSE IF f \in DOMAIN patch.set THEN patch.set[f] ELSE item.value[f])
        = (IF f \in DOMAIN merged THEN merged[f] ELSE item.scanned[f])
  BY <1>1, <1>2, <1>4
<1>6. new.value = Over(merged, new.scanned)
  BY <1>1, <1>3, <1>5 DEF Over
<1>7. new.mask = DOMAIN merged
  BY <1>2, <1>3, <1>4
<1> QED
  BY <1>6, <1>7 DEF Shows, new, merged
-----------------------------------------------------------------------------
(***************************************************************************)
(* What the operations make of each item.                                  *)
(***************************************************************************)

(* Adding leaves every other item as it was.                               *)
LEMMA AddParts ==
  ASSUME NEW c, NEW p, NEW tags
  PROVE  /\ Paths(Add(c, p, tags)) = Paths(c) \cup {p}
         /\ Add(c, p, tags).next = c.next + 1
         /\ Add(c, p, tags).item[p] = NewItem(c.next, tags)
         /\ \A q \in Paths(c) \ {p} : Add(c, p, tags).item[q] = c.item[q]
BY DEF Add, With, Paths

(* Adopting ids changes nothing of an item but its id.                     *)
LEMMA AdoptParts ==
  ASSUME NEW fresh \in Catalogue, NEW previous, NEW p \in Paths(fresh), NEW row
  PROVE  /\ p \in Paths(AdoptIds(fresh, previous))
         /\ Shows(fresh.item[p], row)
              => Shows(AdoptIds(fresh, previous).item[p], row)
<1>1. CASE Paths(previous) = {}
  BY <1>1 DEF AdoptIds
<1>2. CASE Paths(previous) # {}
  <2> DEFINE id == AdoptedId(fresh, previous)
             after == FirstNewId(previous) + Cardinality(NewPaths(fresh, previous))
             next == Max({after} \cup {id[q] + 1 : q \in Paths(fresh)})
             items == [q \in Paths(fresh) |-> [fresh.item[q] EXCEPT !.id = id[q]]]
  <2>1. AdoptIds(fresh, previous) = [item |-> items, next |-> next]
    BY <1>2 DEF AdoptIds, Renumber
  <2> HIDE DEF id, next
  <2>2. fresh.item[p] \in Item
    BY CatalogueParts
  <2>3. /\ items[p].value = fresh.item[p].value /\ items[p].mask = fresh.item[p].mask
        /\ items[p].scanned = fresh.item[p].scanned
    BY <2>2 DEF Item
  <2>4. DOMAIN items = Paths(fresh)
    OBVIOUS
  <2> HIDE DEF items
  <2> QED
    BY <2>1, <2>3, <2>4 DEF Shows, Paths
<1> QED
  BY <1>1, <1>2

(* A patch changes the items at its paths.                                 *)
LEMMA PatchParts ==
  ASSUME NEW c \in Catalogue, NEW P, NEW patch
  PROVE  /\ Paths(ApplyPatch(c, P, patch)) = Paths(c)
         /\ ApplyPatch(c, P, patch).next = c.next
         /\ \A p \in Paths(c) : ApplyPatch(c, P, patch).item[p] =
              IF p \in P THEN PatchedItem(c.item[p], patch) ELSE c.item[p]
<1> DEFINE items == [p \in Paths(c) |->
                       IF p \in P THEN PatchedItem(c.item[p], patch) ELSE c.item[p]]
<1>1. ApplyPatch(c, P, patch) = [c EXCEPT !.item = items]
  BY Zenon DEF ApplyPatch
<1>2. /\ DOMAIN items = Paths(c)
      /\ \A p \in Paths(c) : items[p] =
           IF p \in P THEN PatchedItem(c.item[p], patch) ELSE c.item[p]
  OBVIOUS
<1> HIDE DEF items
<1>3. ApplyPatch(c, P, patch) = [item |-> items, next |-> c.next]
  BY <1>1, CatalogueParts
<1> QED
  BY <1>2, <1>3 DEF Paths

(* The rows of overrides change the audio items they are for.              *)
LEMMA OverridesApplied ==
  ASSUME NEW c \in Catalogue, NEW rows
  PROVE  /\ Paths(ApplyOverrides(c, rows)) = Paths(c)
         /\ ApplyOverrides(c, rows).next = c.next
         /\ \A p \in Paths(c) : ApplyOverrides(c, rows).item[p] =
              IF p \in DOMAIN rows /\ IsAudio(p)
              THEN PatchedItem(c.item[p], [set |-> rows[p], clear |-> {}])
              ELSE c.item[p]
<1> DEFINE items == [p \in Paths(c) |->
                       IF p \in DOMAIN rows /\ IsAudio(p)
                       THEN PatchedItem(c.item[p], [set |-> rows[p], clear |-> {}])
                       ELSE c.item[p]]
<1>1. ApplyOverrides(c, rows) = [c EXCEPT !.item = items]
  BY Zenon DEF ApplyOverrides
<1>2. /\ DOMAIN items = Paths(c)
      /\ \A p \in Paths(c) : items[p] =
           IF p \in DOMAIN rows /\ IsAudio(p)
           THEN PatchedItem(c.item[p], [set |-> rows[p], clear |-> {}])
           ELSE c.item[p]
  OBVIOUS
<1> HIDE DEF items
<1>3. ApplyOverrides(c, rows) = [item |-> items, next |-> c.next]
  BY <1>1, CatalogueParts
<1> QED
  BY <1>2, <1>3 DEF Paths

(* An item without overrides that is given a row shows it: applying the    *)
(* rows when a catalogue is made comes to the same as patching it since.   *)
LEMMA OverrideShows ==
  ASSUME NEW item \in Item, NEW row \in Overrides, Shows(item, NoRow)
  PROVE  Shows(PatchedItem(item, [set |-> row, clear |-> {}]), row)
<1> DEFINE patch == [set |-> row, clear |-> {}]
<1>1. NoRow \in Overrides
  BY DEF NoRow, Overrides
<1>2. patch \in Patch /\ ValidPatch(patch)
  BY DEF Patch, ValidPatch
<1>3. MergedRow(NoRow, patch) = row
  BY OverridesParts DEF MergedRow, NoRow
<1> HIDE DEF patch
<1>4. Shows(PatchedItem(item, patch), MergedRow(NoRow, patch))
  BY <1>1, <1>2, PatchShows
<1> QED
  BY <1>3, <1>4 DEF patch

-----------------------------------------------------------------------------
(***************************************************************************)
(* The store, tampered with or not.                                        *)
(***************************************************************************)

(* The parts of the inductive invariant StoreInv.                          *)
CatalogsOK == mem \in Catalogue /\ draft \in Catalogue /\ SoundCatalogues
DatabaseOK == db \in Database /\ RestartLoads
OthersOK ==
  /\ fs \in [Path -> Metadata \cup {Absent}]
  /\ phase \in Phase /\ job \in Job /\ seen \subseteq Path
  /\ edit \in [paths : SUBSET Path, set : Overrides, clear : SUBSET Field]
  /\ EditsTracks
  /\ served \subseteq Id \X Path

(* StoreInv in three parts, each with a lemma for its steps below.         *)
LEMMA Parts == StoreInv <=> CatalogsOK /\ DatabaseOK /\ OthersOK
BY DEF StoreInv, TypeOK, CatalogsOK, DatabaseOK, OthersOK

(* A step of the specification is one of these.                            *)
Actions ==
  \/ \E p \in Path : Write(p) \/ Remove(p) \/ Pass(p) \/ WritesCover(p)
  \/ Tamper \/ Die
  \/ StartLoaded \/ StartScan \/ BootScanned \/ BootSaved \/ BootRefused
  \/ RequestScan \/ Scanned \/ AdoptsIds \/ AppliesOverrides \/ Fails
  \/ SavesDraft("save", "swap") \/ SavesDraft("coverSave", "coverSwap")
  \/ \E from \in {"swap", "patched", "coverSwap"} : SwapsDraft(from)
  \/ \E P \in SUBSET Path, patch \in Patch : PatchTracks(P, patch)
  \/ SavesPatch \/ LinksCover

(* Every step of the jobs is one of the steps above.                       *)
LEMMA NextActions == Next => Actions
BY DEF Next, Actions, Environment, Start, Rescan, PatchMetadata, PutCover

-----------------------------------------------------------------------------
(* There is metadata, for the images too.                                  *)
LEMMA TagsType == ImageTags \in Metadata /\ \A p : TagsAt(p) \subseteq Metadata
<1>1. [f \in Field |-> CHOOSE t \in Tag : TRUE] \in Metadata
  BY TagAssumption DEF Metadata
<1>2. ImageTags \in Metadata
  BY <1>1 DEF ImageTags
<1> QED
  BY <1>2 DEF TagsAt

(* An item that load_override finds no row for has an empty row.           *)
LEMMA NoRowType == NoRow \in Overrides
BY DEF NoRow, Overrides

(* What the checks of catalog_store_load accept is a sound catalogue,      *)
(* whatever was done to the file.                                          *)
LEMMA LoadedSound ==
  ASSUME db \in Database, Loadable
  PROVE  Loaded \in Catalogue /\ SoundIds(Loaded)
<1> DEFINE items == [p \in DOMAIN db.item |-> NewItem(db.item[p].id, db.item[p].scanned)]
           base == [item |-> items, next |-> db.next]
<1>1. /\ DOMAIN db.item \in SUBSET Path
      /\ \A p \in DOMAIN db.item : db.item[p] \in Row
      /\ \A p \in DOMAIN db.over : db.over[p] \in Overrides
  BY DEF Database
<1>2. db.next \in 1..MaxId /\ \A p \in DOMAIN db.item : db.item[p].id \in Id
  BY DEF Loadable
<1>3. \A p \in DOMAIN db.item : items[p] \in Item /\ items[p].id = db.item[p].id
  BY <1>1, <1>2, NewItemType DEF Row
<1>4. items \in [DOMAIN db.item -> Item]
  BY <1>3
<1>5. base \in Catalogue /\ Paths(base) = DOMAIN db.item
  BY <1>1, <1>2, <1>4, CatalogueMade
<1>6. base.next = db.next /\ \A p \in DOMAIN db.item : base.item[p].id = db.item[p].id
  BY <1>3
<1> HIDE DEF items, base
<1>7. SoundIds(base)
  <2>1. UniqueIds(base)
    BY <1>5, <1>6 DEF UniqueIds, Loadable
  <2>2. \A p \in Paths(base) : base.item[p].id \in 1..(base.next - 1)
    BY <1>2, <1>5, <1>6, MaxIdAssumption DEF Id, Loadable
  <2> QED
    BY <1>2, <1>6, <2>1, <2>2 DEF SoundIds
<1> QED
  BY <1>1, <1>5, <1>7, ApplyOverridesSound DEF Loaded, base, items

(* What catalog_store_save writes of a sound catalogue, load accepts.      *)
LEMMA SavedLoads ==
  ASSUME db \in Database, NEW c \in Catalogue, SoundIds(c), db' = Saved(c)
  PROVE  db' \in Database /\ Loadable'
<1> DEFINE rows == [p \in Paths(c) |-> [id |-> c.item[p].id, scanned |-> c.item[p].scanned]]
<1>1. /\ c.next \in 1..MaxId /\ Paths(c) \in SUBSET Path
      /\ c.item \in [Paths(c) -> Item]
  BY CatalogueParts
<1>2. KeptOverrides \in UNION {[P -> Overrides \ {NoRow}] : P \in SUBSET (Path \ Image)}
  <2>1. NoRow \in [{} -> Overrides \ {NoRow}]
    BY DEF NoRow
  <2> QED
    BY <2>1 DEF KeptOverrides, Database
<1>3. \A p \in Paths(c) : rows[p] \in Row
  BY <1>1, MaxIdAssumption DEF Row, Item, Id
<1>4. rows \in UNION {[P -> Row] : P \in SUBSET Path}
  BY <1>1, <1>3
<1>5. db' = [schema |-> "current", root |-> Here, next |-> c.next,
             item |-> rows, over |-> KeptOverrides]
  BY DEF Saved
<1>6. \A p \in Paths(c) : rows[p].id = c.item[p].id /\ rows[p].id \in Id
  BY <1>1 DEF Item
<1>7. DOMAIN rows = Paths(c)
  OBVIOUS
<1> HIDE DEF rows
<1>8. db' \in Database
  BY <1>1, <1>2, <1>4, <1>5, MaxIdAssumption DEF Database
<1>9. \A p \in Paths(c) : c.item[p].id < c.next
  BY <1>1, MaxIdAssumption DEF SoundIds
<1>10. Loadable'
  BY <1>1, <1>5, <1>6, <1>7, <1>9 DEF Loadable, SoundIds, UniqueIds
<1> QED
  BY <1>8, <1>10

(* What is served joins the history as pairs of an id and a path.          *)
LEMMA ServedType ==
  ASSUME NEW c \in Catalogue, served \subseteq Id \X Path, Serve(c)
  PROVE  served' \subseteq Id \X Path
BY CatalogueParts DEF Serve, Pairs, Item

-----------------------------------------------------------------------------
(* The invariant holds before the process is started.                      *)
LEMMA InitInv == Init => StoreInv
<1> SUFFICES ASSUME Init PROVE CatalogsOK /\ DatabaseOK /\ OthersOK
  BY Parts
<1>1. CatalogsOK
  BY EmptySound DEF Init, CatalogsOK, SoundCatalogues
<1>2. db \in Database
  <2> DEFINE none == [p \in {} |-> p]
  <2>1. /\ NoRow \in UNION {[P -> Row] : P \in SUBSET Path}
        /\ NoRow \in UNION {[P -> Overrides \ {NoRow}] : P \in SUBSET (Path \ Image)}
    <3>1. NoRow \in [{} -> Row] /\ NoRow \in [{} -> Overrides \ {NoRow}]
      BY DEF NoRow
    <3> QED
      BY <3>1
  <2>2. 1 \in 0..MaxId
    BY MaxIdAssumption
  <2> QED
    BY <2>1, <2>2 DEF Init, Database
<1>3. RestartLoads
  BY DEF Init, RestartLoads
<1>4. OthersOK
  BY NoRowType DEF Init, OthersOK, Phase, Job, NoEdit, EditsTracks
<1> QED
  BY <1>1, <1>2, <1>3, <1>4 DEF DatabaseOK

(* Every step leaves sound catalogues: they are loaded, scanned, adopted,  *)
(* patched or added to, each by a lemma of its own.                        *)
LEMMA CatalogsStep == StoreInv /\ [Next]_vars => CatalogsOK'
<1> SUFFICES ASSUME StoreInv, [Next]_vars PROVE CatalogsOK'
  OBVIOUS
<1>0. /\ mem \in Catalogue /\ draft \in Catalogue /\ SoundIds(mem) /\ SoundIds(draft)
      /\ db \in Database /\ fs \in [Path -> Metadata \cup {Absent}]
  BY Parts DEF CatalogsOK, DatabaseOK, OthersOK, SoundCatalogues
<1> USE <1>0 DEF CatalogsOK, SoundCatalogues
<1>1. ASSUME UNCHANGED <<mem, draft>> PROVE CatalogsOK'
  BY <1>1
<1>2. ASSUME EndJob, UNCHANGED mem PROVE CatalogsOK'
  BY <1>2, EmptySound DEF EndJob
<1>3. ASSUME NEW p \in Path, Pass(p) PROVE CatalogsOK'
  BY <1>3, AddSound DEF Pass
<1>4. ASSUME NEW p \in Path, WritesCover(p) PROVE CatalogsOK'
  BY <1>4 DEF WritesCover
<1>5. CASE Die
  BY <1>5, EmptySound DEF Die, EndJob
<1>6. CASE StartLoaded
  BY <1>6, LoadedSound DEF StartLoaded, Serve
<1>7. CASE BootSaved
  BY <1>7, EmptySound DEF BootSaved, Serve, EndJob
<1>8. CASE AdoptsIds
  BY <1>8, AdoptSound DEF AdoptsIds
<1>9. CASE AppliesOverrides
  <2>1. \A p \in DOMAIN db.over : db.over[p] \in Overrides
    BY DEF Database
  <2> QED
    BY <1>9, <2>1, ApplyOverridesSound DEF AppliesOverrides
<1>10. ASSUME NEW from \in {"swap", "patched", "coverSwap"}, SwapsDraft(from)
       PROVE  CatalogsOK'
  BY <1>10, EmptySound DEF SwapsDraft, Serve, EndJob
<1>11. ASSUME NEW P \in SUBSET Path, NEW patch \in Patch, PatchTracks(P, patch)
       PROVE  CatalogsOK'
  BY <1>11, PatchSound DEF PatchTracks, Patch
<1>12. CASE LinksCover
  BY <1>12, AddSound, TagsType, Parts DEF LinksCover, OthersOK
<1>13. CASE BootRefused
  BY <1>2, <1>13 DEF BootRefused
<1>14. CASE Fails
  BY <1>2, <1>14 DEF Fails
<1>15. CASE \/ \E p \in Path : Write(p) \/ Remove(p)
            \/ Tamper \/ StartScan \/ BootScanned \/ RequestScan \/ Scanned
            \/ SavesDraft("save", "swap") \/ SavesDraft("coverSave", "coverSwap")
            \/ SavesPatch \/ UNCHANGED vars
  BY <1>1, <1>15 DEF Write, Remove, Tamper, StartScan, BootScanned, RequestScan,
     Scanned, SavesDraft, SavesPatch, vars, process
<1> QED
  BY <1>3, <1>4, <1>5, <1>6, <1>7, <1>8, <1>9, <1>10, <1>11, <1>12, <1>13, <1>14,
     <1>15, NextActions DEF Actions

(* Only a save, a patch of overrides and damage change the database,       *)
(* and while the server runs it leaves one that load accepts.              *)
LEMMA DatabaseStep == StoreInv /\ [Next]_vars => DatabaseOK'
<1> SUFFICES ASSUME StoreInv, [Next]_vars PROVE DatabaseOK'
  OBVIOUS
<1>0. /\ db \in Database /\ (phase = "up" => Loadable)
      /\ draft \in Catalogue /\ SoundIds(draft)
      /\ edit.set \in Overrides /\ EditsTracks
  BY Parts DEF DatabaseOK, CatalogsOK, OthersOK, RestartLoads, SoundCatalogues
<1> USE <1>0 DEF DatabaseOK, RestartLoads
<1>1. ASSUME UNCHANGED db, phase' = "up" => Loadable PROVE DatabaseOK'
  BY <1>1 DEF Loadable
<1>2. ASSUME db' = Saved(draft) PROVE DatabaseOK'
  BY <1>2, SavedLoads
<1>3. CASE Tamper
  BY <1>3, MaxIdAssumption DEF Tamper, Database, Row, process
<1>4. CASE SavesPatch
  <2> DEFINE P == edit.paths
             rows == [p \in DOMAIN db.over \cup P |->
                        IF p \in P THEN MergedRow(RowOf(p), edit) ELSE db.over[p]]
             S == {p \in DOMAIN rows : rows[p] # NoRow}
  <2>1. /\ P \subseteq Path \ Image /\ DOMAIN db.over \subseteq Path \ Image
        /\ \A p \in DOMAIN db.over : db.over[p] \in Overrides
    BY <1>4 DEF SavesPatch, EditsTracks, Database
  <2>2. \A p \in P : RowOf(p) \in Overrides
    BY <2>1, NoRowType DEF RowOf
  <2>3. \A p \in DOMAIN rows : rows[p] \in Overrides
    BY <2>1, <2>2, MergedRowType
  <2>4. PatchedRows(P, edit) = [p \in S |-> rows[p]]
    BY DEF PatchedRows, Restrict
  <2>5. S \in SUBSET (Path \ Image)
    BY <2>1
  <2> HIDE DEF rows
  <2>6. PatchedRows(P, edit) \in [S -> Overrides \ {NoRow}]
    BY <2>3, <2>4
  <2> HIDE DEF S, P
  <2>7. PatchedRows(P, edit)
          \in UNION {[Q -> Overrides \ {NoRow}] : Q \in SUBSET (Path \ Image)}
    BY <2>5, <2>6
  <2>8. db' = [db EXCEPT !.over = PatchedRows(P, edit)] /\ UNCHANGED phase
    BY <1>4 DEF SavesPatch, P
  <2>9. db' \in Database
    BY <2>7, <2>8 DEF Database
  <2>10. phase' = "up" => Loadable'
    BY <2>8 DEF Loadable, Database
  <2> QED
    BY <2>9, <2>10
<1>5. CASE BootSaved \/ SavesDraft("save", "swap") \/ SavesDraft("coverSave", "coverSwap")
  BY <1>2, <1>5 DEF BootSaved, SavesDraft
<1>6. CASE StartLoaded
  BY <1>1, <1>6 DEF StartLoaded
<1>7. CASE \/ \E p \in Path : Write(p) \/ Remove(p) \/ Pass(p) \/ WritesCover(p)
           \/ RequestScan \/ Scanned \/ AdoptsIds \/ AppliesOverrides \/ Fails
           \/ \E from \in {"swap", "patched", "coverSwap"} : SwapsDraft(from)
           \/ \E P \in SUBSET Path, patch \in Patch : PatchTracks(P, patch)
           \/ LinksCover \/ UNCHANGED vars
  BY <1>1, <1>7 DEF Write, Remove, Pass, WritesCover, RequestScan, Scanned, AdoptsIds,
     AppliesOverrides, Fails, SwapsDraft, PatchTracks, LinksCover, vars, process
<1>8. CASE Die \/ StartScan \/ BootScanned \/ BootRefused
  BY <1>1, <1>8 DEF Die, StartScan, BootScanned, BootRefused
<1> QED
  BY <1>3, <1>4, <1>5, <1>6, <1>7, <1>8, NextActions DEF Actions

(* A patch under way is of tracks of the draft, and the history has the    *)
(* type of a history.                                                      *)
LEMMA OthersStep == StoreInv /\ [Next]_vars => OthersOK'
<1> SUFFICES ASSUME StoreInv, [Next]_vars PROVE OthersOK'
  OBVIOUS
<1>0. OthersOK /\ mem \in Catalogue /\ draft \in Catalogue /\ DatabaseOK
  BY Parts DEF CatalogsOK
<1> USE <1>0 DEF OthersOK, Phase, Job, EditsTracks, process
<1>1. ASSUME NEW p \in Path, Write(p) PROVE OthersOK'
  BY <1>1, TagsType DEF Write
<1>2. ASSUME NEW p \in Path, Remove(p) PROVE OthersOK'
  BY <1>2 DEF Remove
<1>3. ASSUME NEW p \in Path, Pass(p) PROVE OthersOK'
  BY <1>3 DEF Pass
<1>4. ASSUME NEW p \in Path, WritesCover(p) PROVE OthersOK'
  BY <1>4, TagsType, NoRowType DEF WritesCover, NoEdit
<1>5. ASSUME EndJob, UNCHANGED <<fs, phase, served>> PROVE OthersOK'
  BY <1>5, NoRowType DEF EndJob, NoEdit
<1>6. CASE Die
  BY <1>6, NoRowType DEF Die, EndJob, NoEdit
<1>7. CASE StartLoaded
  BY <1>7, LoadedSound, ServedType DEF StartLoaded, DatabaseOK
<1>8. CASE BootSaved
  BY <1>8, ServedType, NoRowType DEF BootSaved, EndJob, NoEdit
<1>9. CASE BootRefused
  BY <1>9, NoRowType DEF BootRefused, EndJob, NoEdit
<1>10. ASSUME NEW from \in {"swap", "patched", "coverSwap"}, SwapsDraft(from)
       PROVE  OthersOK'
  BY <1>10, ServedType, NoRowType DEF SwapsDraft, EndJob, NoEdit
<1>11. ASSUME NEW P \in SUBSET Path, NEW patch \in Patch, PatchTracks(P, patch)
       PROVE  OthersOK'
  BY <1>11 DEF PatchTracks, Patch, IsAudio
<1>12. CASE Fails
  BY <1>5, <1>12 DEF Fails
<1>13. CASE StartScan \/ BootScanned \/ RequestScan \/ Scanned
  BY <1>13 DEF StartScan, BootScanned, RequestScan, Scanned
<1>14. CASE AdoptsIds \/ AppliesOverrides \/ SavesPatch \/ LinksCover
  BY <1>14 DEF AdoptsIds, AppliesOverrides, SavesPatch, LinksCover
<1>15. CASE SavesDraft("save", "swap") \/ SavesDraft("coverSave", "coverSwap")
  BY <1>15 DEF SavesDraft
<1>16. CASE Tamper \/ UNCHANGED vars
  BY <1>16 DEF Tamper, vars
<1> QED
  BY <1>1, <1>2, <1>3, <1>4, <1>6, <1>7, <1>8, <1>9, <1>10, <1>11, <1>12, <1>13,
     <1>14, <1>15, <1>16, NextActions DEF Actions

(* The inductive invariant holds: types are kept, what is built and served *)
(* is sound, and the database can be loaded while the server runs.         *)
THEOREM StoreInvariance == Spec => []StoreInv
<1>1. StoreInv /\ [Next]_vars => StoreInv'
  <2>1. CatalogsOK' /\ DatabaseOK' /\ OthersOK' => StoreInv'
    BY DEF StoreInv, TypeOK, CatalogsOK, DatabaseOK, OthersOK
  <2> QED
    BY <2>1, CatalogsStep, DatabaseStep, OthersStep
<1> QED
  BY <1>1, InitInv, PTL DEF Spec

(* Every variable keeps its type.                                          *)
THEOREM StoreTypeCorrect == Spec => []TypeOK
BY StoreInvariance, PTL DEF StoreInv

(* Ids are unique and below the next id, in the catalogue that is served   *)
(* and in the one being built, over any history and whatever happens to    *)
(* the database file.                                                      *)
THEOREM CataloguesSound == Spec => []SoundCatalogues
BY StoreInvariance, PTL DEF StoreInv

(* While the server runs the next start would accept its database.         *)
THEOREM RestartsLoad == Spec => []RestartLoads
BY StoreInvariance, PTL DEF StoreInv

(* Nothing but a patch changes the overrides of this root.                 *)
THEOREM OverridesSafe == Spec => OverridesKept
<1> DEFINE A == db.root = Here /\ db.over # db'.over => job = "patch" /\ job' = "patched"
<1>1. StoreInv /\ [Next]_vars => [A]_vars
  <2> SUFFICES ASSUME StoreInv, Next, db.root = Here, db.over # db'.over
               PROVE  job = "patch" /\ job' = "patched"
    BY DEF vars
  <2>0. db \in Database
    BY Parts DEF DatabaseOK
  <2>1. Saved(draft).over = db.over
    BY DEF Saved, KeptOverrides
  <2>2. CASE Tamper
    BY <2>0, <2>2 DEF Tamper, Database
  <2>3. CASE SavesPatch
    BY <2>3 DEF SavesPatch
  <2>4. CASE BootSaved \/ SavesDraft("save", "swap") \/ SavesDraft("coverSave", "coverSwap")
    BY <2>1, <2>4 DEF BootSaved, SavesDraft
  <2>5. CASE \/ \E p \in Path : Write(p) \/ Remove(p) \/ Pass(p) \/ WritesCover(p)
             \/ Die \/ StartLoaded \/ StartScan \/ BootScanned \/ BootRefused
             \/ RequestScan \/ Scanned \/ AdoptsIds \/ AppliesOverrides \/ Fails
             \/ \E from \in {"swap", "patched", "coverSwap"} : SwapsDraft(from)
             \/ \E P \in SUBSET Path, patch \in Patch : PatchTracks(P, patch)
             \/ LinksCover
    BY <2>5 DEF Write, Remove, Pass, WritesCover, Die, StartLoaded, StartScan,
       BootScanned, BootRefused, RequestScan, Scanned, AdoptsIds, AppliesOverrides,
       Fails, SwapsDraft, PatchTracks, LinksCover
  <2> QED
    BY <2>2, <2>3, <2>4, <2>5, NextActions DEF Actions
<1> QED
  BY <1>1, StoreInvariance, PTL DEF Spec, OverridesKept

-----------------------------------------------------------------------------
(***************************************************************************)
(* The history.                                                            *)
(***************************************************************************)

(* A database that loads is not one that was never used for this root.     *)
LEMMA UsedOrNot == ~(Loadable /\ Unused)
BY DEF Loadable, Unused

(* A save keeps the overrides of this root and drops those of another.     *)
LEMMA OverridesOfRoot ==
  /\ Loadable => KeptOverrides = db.over
  /\ Unused => KeptOverrides = NoRow
BY DEF Loadable, Unused, KeptOverrides

(* StoreInv is kept, as part of HistoryInv.                                *)
LEMMA StoreStep == StoreInv /\ [Next]_vars => StoreInv'
<1>1. CatalogsOK' /\ DatabaseOK' /\ OthersOK' => StoreInv'
  BY DEF StoreInv, TypeOK, CatalogsOK, DatabaseOK, OthersOK
<1> QED
  BY <1>1, CatalogsStep, DatabaseStep, OthersStep

-----------------------------------------------------------------------------
(***************************************************************************)
(* Stages.                                                                 *)
(***************************************************************************)

(* A job runs while the server is up, a scan starts with nothing seen, and *)
(* the database is not left half way between unused and loadable.          *)
LEMMA StagesStep ==
  ASSUME ~Tampering, HistoryInv, [Next]_vars PROVE StagesInv'
<1>0. /\ StagesInv /\ RestartLoads /\ RestartLoads' /\ db \in Database
      /\ draft \in Catalogue /\ SoundIds(draft)
  BY StoreStep, Parts DEF HistoryInv, StoreInv, DatabaseOK, CatalogsOK, SoundCatalogues
<1> USE <1>0 DEF StagesInv, Booting
<1>1. ASSUME UNCHANGED <<db, phase, served>>,
             job' # "none" => phase = "up",
             job' = "none" /\ ~Booting => seen' = {},
             job' = "adopt" \/ phase = "bootSave" => seen' = Path
      PROVE  StagesInv'
  BY <1>1 DEF Loadable, Unused
<1>2. CASE \/ \E p \in Path : Write(p) \/ Remove(p) \/ WritesCover(p)
           \/ RequestScan \/ Scanned \/ AdoptsIds \/ AppliesOverrides \/ Fails
           \/ \E P \in SUBSET Path, patch \in Patch : PatchTracks(P, patch)
           \/ LinksCover \/ UNCHANGED vars
  BY <1>1, <1>2 DEF Write, Remove, WritesCover, RequestScan, Scanned, AdoptsIds,
     AppliesOverrides, Fails, PatchTracks, LinksCover, EndJob, vars, process
<1>3. ASSUME NEW p \in Path, Pass(p) PROVE StagesInv'
  BY <1>1, <1>3 DEF Pass, Scanning
<1>4. CASE Tamper
  BY <1>4 DEF Tamper
<1>5. CASE Die \/ BootRefused
  BY <1>5 DEF Die, BootRefused, EndJob, Loadable, Unused
<1>6. CASE StartLoaded
  BY <1>6, UsedOrNot DEF StartLoaded, Loadable, Unused
<1>7. CASE StartScan \/ BootScanned
  BY <1>7 DEF StartScan, BootScanned, Loadable, Unused
<1>8. CASE BootSaved
  BY <1>8, SavedLoads, UsedOrNot DEF BootSaved, EndJob, Loadable, Unused
<1>9. CASE SavesDraft("save", "swap") \/ SavesDraft("coverSave", "coverSwap")
  BY <1>9, SavedLoads, UsedOrNot DEF SavesDraft, Loadable, Unused
<1>10. ASSUME NEW from \in {"swap", "patched", "coverSwap"}, SwapsDraft(from)
       PROVE  StagesInv'
  BY <1>10, UsedOrNot DEF SwapsDraft, EndJob, Loadable, Unused, RestartLoads
<1>11. CASE SavesPatch
  BY <1>11, UsedOrNot DEF SavesPatch, RestartLoads, Loadable, Unused, Database
<1> QED
  BY <1>2, <1>3, <1>4, <1>5, <1>6, <1>7, <1>8, <1>9, <1>10, <1>11, NextActions
  DEF Actions
-----------------------------------------------------------------------------
(***************************************************************************)
(* What is shown.                                                          *)
(***************************************************************************)

(* A row of overrides is one, and no image has any.                        *)
LEMMA RowType ==
  ASSUME db \in Database, NEW p
  PROVE  RowOf(p) \in Overrides /\ (p \in Image => RowOf(p) = NoRow)
BY NoRowType DEF RowOf, Database

(* A new item shows what was scanned.                                      *)
LEMMA NewItemShows ==
  ASSUME NEW id, NEW tags \in Metadata
  PROVE  Shows(NewItem(id, tags), NoRow)
<1>1. tags = [f \in DOMAIN tags |-> tags[f]]
  BY DEF Metadata
<1> QED
  BY <1>1 DEF Shows, NewItem, Over, NoRow

(* The rows of the database, applied to a catalogue without overrides, are *)
(* what it shows.                                                          *)
LEMMA AppliedShows ==
  ASSUME db \in Database, NEW c \in Catalogue,
         \A p \in Paths(c) : Shows(c.item[p], NoRow)
  PROVE  ShowsRows(ApplyOverrides(c, db.over))
<1> DEFINE d == ApplyOverrides(c, db.over)
<1> SUFFICES ASSUME NEW p \in Paths(c) PROVE Shows(d.item[p], RowOf(p))
  BY OverridesApplied DEF ShowsRows
<1>1. c.item[p] \in Item /\ Shows(c.item[p], NoRow)
  BY CatalogueParts
<1>2. p \in DOMAIN db.over => IsAudio(p) /\ db.over[p] \in Overrides
  BY DEF Database, IsAudio
<1>3. d.item[p] = IF p \in DOMAIN db.over /\ IsAudio(p)
                  THEN PatchedItem(c.item[p], [set |-> db.over[p], clear |-> {}])
                  ELSE c.item[p]
  BY OverridesApplied
<1> HIDE DEF d
<1>4. CASE p \in DOMAIN db.over
  BY <1>1, <1>2, <1>3, <1>4, OverrideShows DEF RowOf
<1>5. CASE p \notin DOMAIN db.over
  BY <1>1, <1>3, <1>5 DEF RowOf
<1> QED
  BY <1>4, <1>5

(* What is loaded shows its rows.                                          *)
LEMMA LoadedShows ==
  ASSUME db \in Database, Loadable
  PROVE  ShowsRows(Loaded)
<1> DEFINE items == [p \in DOMAIN db.item |-> NewItem(db.item[p].id, db.item[p].scanned)]
           base == [item |-> items, next |-> db.next]
<1>1. /\ DOMAIN db.item \in SUBSET Path
      /\ \A p \in DOMAIN db.item : db.item[p] \in Row
  BY DEF Database
<1>2. db.next \in 1..MaxId /\ \A p \in DOMAIN db.item : db.item[p].id \in Id
  BY DEF Loadable
<1>3. \A p \in DOMAIN db.item :
        /\ items[p] = NewItem(db.item[p].id, db.item[p].scanned)
        /\ items[p] \in Item /\ db.item[p].scanned \in Metadata
  BY <1>1, <1>2, NewItemType DEF Row
<1>4. items \in [DOMAIN db.item -> Item]
  BY <1>3
<1> HIDE DEF items
<1>5. base \in Catalogue /\ Paths(base) = DOMAIN db.item
  BY <1>1, <1>2, <1>4, CatalogueMade
<1>6. \A p \in Paths(base) : Shows(base.item[p], NoRow)
  BY <1>3, <1>5, NewItemShows
<1>7. Loaded = ApplyOverrides(base, db.over)
  BY DEF Loaded, items
<1> HIDE DEF base
<1> QED
  BY <1>5, <1>6, <1>7, AppliedShows

(* After its transaction a patch is in the rows.                           *)
LEMMA RowsPatched ==
  ASSUME db \in Database, edit.set \in Overrides, NEW p,
         db' = [db EXCEPT !.over = PatchedRows(edit.paths, edit)]
  PROVE  RowOf(p)' = RowToBe(p)
<1> DEFINE P == edit.paths
           rows == [q \in DOMAIN db.over \cup P |->
                      IF q \in P THEN MergedRow(RowOf(q), edit) ELSE db.over[q]]
           S == {q \in DOMAIN rows : rows[q] # NoRow}
<1>1. db'.over = [q \in S |-> rows[q]]
  BY DEF PatchedRows, Restrict, Database
<1>2. \A q \in DOMAIN db.over : db.over[q] # NoRow
  BY DEF Database
<1>3. DOMAIN rows = DOMAIN db.over \cup P
  OBVIOUS
<1>4. CASE p \in P
  <2>1. rows[p] = RowToBe(p) /\ p \in DOMAIN rows
    BY <1>4 DEF RowToBe
  <2> HIDE DEF rows
  <2> QED
    BY <1>1, <2>1 DEF RowOf
<1>5. CASE p \notin P /\ p \in DOMAIN db.over
  <2>1. rows[p] = db.over[p] /\ p \in DOMAIN rows /\ rows[p] # NoRow
    BY <1>2, <1>5
  <2> HIDE DEF rows
  <2> QED
    BY <1>1, <1>5, <2>1 DEF RowOf, RowToBe
<1>6. CASE p \notin P /\ p \notin DOMAIN db.over
  <2>1. p \notin DOMAIN rows
    BY <1>3, <1>6
  <2> HIDE DEF rows
  <2> QED
    BY <1>1, <1>6, <2>1 DEF RowOf, RowToBe
<1> QED
  BY <1>4, <1>5, <1>6

(* Items show the rows of the database, or what they will be.              *)
LEMMA ShownStep ==
  ASSUME ~Tampering, HistoryInv, [Next]_vars PROVE ShownInv'
<1>0. /\ StagesInv /\ RestartLoads /\ db \in Database
      /\ draft \in Catalogue /\ SoundIds(draft) /\ mem \in Catalogue
      /\ fs \in [Path -> Metadata \cup {Absent}]
      /\ edit.set \in Overrides
      /\ job = "cover" => edit.paths \subseteq Image
  BY Parts DEF HistoryInv, StoreInv, DatabaseOK, CatalogsOK, SoundCatalogues, OthersOK,
     ResidentsInv
<1>00. ShownInv
  BY DEF HistoryInv
<1>a. ASSUME db'.over = db.over PROVE \A p : RowOf(p)' = RowOf(p)
  BY <1>a DEF RowOf
<1>b. \A p \in Paths(EmptyCatalog) : FALSE
  BY DEF EmptyCatalog, Paths
<1> USE <1>0 DEF ShowsRows
<1>1. ASSUME db'.over = db.over, UNCHANGED <<mem, draft, edit>>,
             \/ job' = job
             \/ job \in {"none", "scan"} /\ job' \in {"none", "scan", "adopt"}
             \/ job \in {"save", "coverSave"} /\ job' \in {"swap", "coverSwap"}
      PROVE  ShownInv'
  BY <1>00, <1>1, <1>a DEF ShownInv, RowToBe
<1>2. CASE \/ \E p \in Path : Write(p) \/ Remove(p)
           \/ StartScan \/ BootScanned \/ RequestScan \/ Scanned \/ UNCHANGED vars
  BY <1>1, <1>2 DEF Write, Remove, StartScan, BootScanned, RequestScan, Scanned,
     vars, process
<1>3. CASE Tamper
  BY <1>3 DEF Tamper
<1>4. CASE SavesDraft("save", "swap") \/ SavesDraft("coverSave", "coverSwap")
  <2>1. db' = Saved(draft) /\ phase = "up"
    BY <1>4 DEF SavesDraft, StagesInv
  <2>2. db'.over = db.over
    BY <2>1, OverridesOfRoot DEF RestartLoads, Saved
  <2> QED
    BY <1>1, <1>4, <2>2 DEF SavesDraft
<1>5. ASSUME NEW p \in Path, Pass(p) PROVE ShownInv'
  <2>1. job' = job /\ job \in {"none", "scan"} /\ UNCHANGED <<db, mem, edit>>
    BY <1>5 DEF Pass, Scanning, StagesInv
  <2>2. CASE UNCHANGED draft
    BY <1>1, <2>1, <2>2
  <2>3. CASE fs[p] # Absent /\ draft' = Add(draft, p, fs[p])
    <3>1. Shows(draft'.item[p], NoRow)
      BY <2>3, AddParts, NewItemShows
    <3>2. \A q \in Paths(draft') : q = p \/ (q \in Paths(draft) /\ draft'.item[q] = draft.item[q])
      BY <2>3, AddParts
    <3> QED
      BY <1>00, <1>a, <2>1, <3>1, <3>2 DEF ShownInv
  <2> QED
    BY <1>5, <2>2, <2>3 DEF Pass
<1>6. ASSUME NEW p \in Path, WritesCover(p) PROVE ShownInv'
  BY <1>00, <1>6, <1>a DEF WritesCover, ShownInv
<1>7. CASE LinksCover
  <2>1. job = "cover" /\ job' = "coverSave" /\ UNCHANGED <<db, mem, edit>>
    BY <1>7 DEF LinksCover
  <2>2. PICK p \in edit.paths :
          UNCHANGED draft \/ draft' = Add(draft, p, ImageTags)
    BY <1>7 DEF LinksCover
  <2>3. ASSUME draft' = Add(draft, p, ImageTags)
        PROVE  \A q \in Paths(draft') : Shows(draft'.item[q], RowOf(q))
    <3>1. Shows(draft'.item[p], RowOf(p))
      BY <2>1, <2>3, AddParts, NewItemShows, TagsType, RowType
    <3>2. \A q \in Paths(draft') : q = p \/ (q \in Paths(draft) /\ draft'.item[q] = draft.item[q])
      BY <2>3, AddParts
    <3> QED
      BY <1>00, <2>1, <3>1, <3>2 DEF ShownInv
  <2> QED
    BY <1>00, <1>a, <2>1, <2>2, <2>3 DEF ShownInv
<1>8. CASE Die
  BY <1>8, <1>b DEF Die, EndJob, ShownInv
<1>9. CASE BootRefused \/ Fails
  BY <1>00, <1>9, <1>a, <1>b DEF BootRefused, Fails, EndJob, ShownInv, StagesInv
<1>10. CASE StartLoaded
  <2>1. mem' = Loaded /\ UNCHANGED <<db, draft>> /\ job = "none" /\ job' \in {"none", "scan"}
    BY <1>10 DEF StartLoaded, Serve, StagesInv
  <2>2. ShowsRows(Loaded)
    BY <1>10, LoadedShows DEF StartLoaded
  <2> QED
    BY <1>00, <1>a, <2>1, <2>2 DEF ShownInv
<1>11. CASE BootSaved
  <2>1. mem' = draft /\ db' = Saved(draft) /\ draft' = EmptyCatalog /\ job' = "none"
        /\ job = "none" /\ Unused
    BY <1>11 DEF BootSaved, Serve, EndJob, StagesInv, Booting
  <2>2. db'.over = NoRow
    BY <2>1, OverridesOfRoot DEF Saved
  <2>3. \A p : RowOf(p)' = NoRow
    BY <2>2 DEF RowOf, NoRow
  <2> QED
    BY <1>00, <1>b, <2>1, <2>3 DEF ShownInv
<1>12. CASE AdoptsIds
  <2>1. draft' = AdoptIds(draft, mem) /\ CanAdopt(draft, mem)
        /\ job = "adopt" /\ job' = "override" /\ UNCHANGED <<db, mem>>
        /\ SoundIds(mem)
    BY <1>12, Parts DEF AdoptsIds, HistoryInv, StoreInv, CatalogsOK, SoundCatalogues
  <2>2. Paths(draft') = Paths(draft)
    BY <2>1, AdoptSound
  <2>3. \A p \in Paths(draft') : Shows(draft'.item[p], NoRow)
    BY <1>00, <2>1, <2>2, AdoptParts DEF ShownInv
  <2> QED
    BY <1>00, <1>a, <2>1, <2>3 DEF ShownInv
<1>13. CASE AppliesOverrides
  BY <1>00, <1>13, <1>a, AppliedShows DEF AppliesOverrides, ShownInv
<1>14. ASSUME NEW from \in {"swap", "patched", "coverSwap"}, SwapsDraft(from)
       PROVE  ShownInv'
  BY <1>00, <1>14, <1>a, <1>b DEF SwapsDraft, Serve, EndJob, ShownInv
<1>15. ASSUME NEW P \in SUBSET Path, NEW patch \in Patch, PatchTracks(P, patch)
       PROVE  ShownInv'
  <2>1. /\ job = "none" /\ job' = "patch" /\ UNCHANGED <<db, mem>> /\ ValidPatch(patch)
        /\ draft' = ApplyPatch(mem, P, patch)
        /\ edit' = [paths |-> P, set |-> patch.set, clear |-> patch.clear]
    BY <1>15 DEF PatchTracks
  <2>2. \A row : MergedRow(row, edit') = MergedRow(row, patch)
    BY <2>1 DEF MergedRow
  <2>3. ValidPatch(edit')
    BY <2>1 DEF ValidPatch
  <2>4. ASSUME NEW p \in Paths(draft') PROVE Shows(draft'.item[p], RowToBe(p)')
    <3>1. p \in Paths(mem) /\ mem.item[p] \in Item /\ Shows(mem.item[p], RowOf(p))
      BY <1>00, <2>1, PatchParts, CatalogueParts DEF ShownInv
    <3>2. draft'.item[p] = IF p \in P THEN PatchedItem(mem.item[p], patch) ELSE mem.item[p]
      BY <2>1, <3>1, PatchParts
    <3>3. RowToBe(p)' = IF p \in P THEN MergedRow(RowOf(p), patch) ELSE RowOf(p)
      BY <1>a, <2>1, <2>2 DEF RowToBe
    <3> QED
      BY <2>1, <3>1, <3>2, <3>3, RowType, PatchShows
  <2> QED
    BY <1>00, <1>a, <2>1, <2>3, <2>4 DEF ShownInv
<1>16. CASE SavesPatch
  <2>1. /\ job = "patch" /\ job' = "patched" /\ UNCHANGED <<mem, draft, edit>>
        /\ db' = [db EXCEPT !.over = PatchedRows(edit.paths, edit)]
    BY <1>16 DEF SavesPatch
  <2>2. \A p : RowOf(p)' = RowToBe(p)
    BY <2>1, RowsPatched
  <2> QED
    BY <1>00, <2>1, <2>2 DEF ShownInv
<1> QED
  BY <1>2, <1>3, <1>4, <1>5, <1>6, <1>7, <1>8, <1>9, <1>10, <1>11, <1>12, <1>13, <1>14,
     <1>15, <1>16, NextActions DEF Actions
-----------------------------------------------------------------------------
(***************************************************************************)
(* What stays.                                                             *)
(***************************************************************************)

(* A file that is not volatile stays once it is there.                     *)
LEMMA FilesStay ==
  ASSUME StoreInv, [Next]_vars, NEW p \in Path \ Volatile, fs[p] # Absent
  PROVE  fs'[p] # Absent
<1>0. fs \in [Path -> Metadata \cup {Absent}]
  BY Parts DEF OthersOK
<1>1. ASSUME NEW q \in Path, Write(q) \/ WritesCover(q) PROVE fs'[p] # Absent
  BY <1>0, <1>1, TagsType, VolatileAssumption DEF Write, WritesCover
<1>2. ASSUME NEW q \in Path, Remove(q) PROVE fs'[p] # Absent
  BY <1>0, <1>2 DEF Remove
<1>3. CASE \/ \E q \in Path : Pass(q)
           \/ Tamper \/ Die
           \/ StartLoaded \/ StartScan \/ BootScanned \/ BootSaved \/ BootRefused
           \/ RequestScan \/ Scanned \/ AdoptsIds \/ AppliesOverrides \/ Fails
           \/ SavesDraft("save", "swap") \/ SavesDraft("coverSave", "coverSwap")
           \/ \E from \in {"swap", "patched", "coverSwap"} : SwapsDraft(from)
           \/ \E P \in SUBSET Path, patch \in Patch : PatchTracks(P, patch)
           \/ SavesPatch \/ LinksCover \/ UNCHANGED vars
  BY <1>3 DEF Pass, Tamper, Die, StartLoaded, StartScan, BootScanned, BootSaved,
     BootRefused, RequestScan, Scanned, AdoptsIds, AppliesOverrides, Fails, SavesDraft,
     SwapsDraft, PatchTracks, SavesPatch, LinksCover, vars
<1> QED
  BY <1>1, <1>2, <1>3, NextActions DEF Actions

(* A patch changes no id.                                                  *)
LEMMA PatchKeepsIds ==
  ASSUME NEW c \in Catalogue, NEW P, NEW patch \in Patch
  PROVE  SameIds(c, ApplyPatch(c, P, patch))
<1> DEFINE d == ApplyPatch(c, P, patch)
<1>1. patch.set \in Overrides /\ patch.clear \in SUBSET Field
  BY DEF Patch
<1>2. ASSUME NEW p \in Paths(c) PROVE d.item[p].id = c.item[p].id
  <2>1. c.item[p] \in Item
    BY CatalogueParts
  <2>2. PatchedItem(c.item[p], patch).id = c.item[p].id
    BY <1>1, <2>1, PatchedItemType, ZenonT(60)
  <2> QED
    BY <2>2, PatchParts
<1> QED
  BY <1>2, PatchParts DEF SameIds

(* Neither do the rows of overrides.                                       *)
LEMMA OverridesKeepIds ==
  ASSUME NEW c \in Catalogue, NEW rows, \A p \in DOMAIN rows : rows[p] \in Overrides
  PROVE  SameIds(c, ApplyOverrides(c, rows))
<1> DEFINE d == ApplyOverrides(c, rows)
<1>1. ASSUME NEW p \in Paths(c) PROVE d.item[p].id = c.item[p].id
  <2>1. c.item[p] \in Item
    BY CatalogueParts
  <2>2. CASE p \in DOMAIN rows /\ IsAudio(p)
    <3> DEFINE patch == [set |-> rows[p], clear |-> {}]
    <3>1. patch.set = rows[p] /\ patch.clear = {} /\ rows[p] \in Overrides
      BY <2>2
    <3> HIDE DEF patch
    <3>2. PatchedItem(c.item[p], patch).id = c.item[p].id
      BY <2>1, <3>1, PatchedItemType
    <3> QED
      BY <2>2, <3>2, OverridesApplied DEF patch
  <2>3. CASE ~(p \in DOMAIN rows /\ IsAudio(p))
    BY <2>3, OverridesApplied
  <2> QED
    BY <2>2, <2>3
<1> QED
  BY <1>1, OverridesApplied DEF SameIds

(* A loaded catalogue has the ids of the snapshot.                         *)
LEMMA LoadedSameIds ==
  ASSUME db \in Database, Loadable
  PROVE  SameIds(db, Loaded)
<1> DEFINE items == [p \in DOMAIN db.item |-> NewItem(db.item[p].id, db.item[p].scanned)]
           base == [item |-> items, next |-> db.next]
<1>1. /\ DOMAIN db.item \in SUBSET Path
      /\ \A p \in DOMAIN db.item : db.item[p] \in Row
      /\ \A p \in DOMAIN db.over : db.over[p] \in Overrides
  BY DEF Database
<1>2. db.next \in 1..MaxId /\ \A p \in DOMAIN db.item : db.item[p].id \in Id
  BY DEF Loadable
<1>3. \A p \in DOMAIN db.item : items[p] \in Item /\ items[p].id = db.item[p].id
  BY <1>1, <1>2, NewItemType DEF Row
<1>4. items \in [DOMAIN db.item -> Item]
  BY <1>3
<1>5. base \in Catalogue /\ Paths(base) = DOMAIN db.item /\ base.next = db.next
  BY <1>1, <1>2, <1>4, CatalogueMade
<1>6. SameIds(db, base)
  BY <1>3, <1>5 DEF SameIds, Paths
<1>7. Loaded = ApplyOverrides(base, db.over)
  BY DEF Loaded
<1> HIDE DEF items, base
<1>8. SameIds(base, Loaded)
  BY <1>1, <1>5, <1>7, OverridesKeepIds
<1> QED
  BY <1>6, <1>8 DEF SameIds

(* A saved snapshot has the ids of the catalogue.                          *)
LEMMA SavedSameIds ==
  ASSUME NEW c
  PROVE  SameIds(Saved(c), c)
BY DEF Saved, SameIds, Paths

(* The pairs of ids and paths of a catalogue.                              *)
LEMMA PairsOf ==
  ASSUME NEW c
  PROVE  /\ \A p \in Paths(c) : <<c.item[p].id, p>> \in Pairs(c)
         /\ \A x \in Pairs(c) :
              /\ x[2] \in Paths(c) /\ x[1] = c.item[x[2]].id
              /\ x = <<x[1], x[2]>>
         /\ {x[2] : x \in Pairs(c)} = Paths(c)
<1>1. \A p \in Paths(c) : <<c.item[p].id, p>> \in Pairs(c)
  BY DEF Pairs
<1>2. ASSUME NEW x \in Pairs(c)
      PROVE  x[2] \in Paths(c) /\ x[1] = c.item[x[2]].id /\ x = <<x[1], x[2]>>
  <2>1. PICK p \in Paths(c) : x = <<c.item[p].id, p>>
    BY DEF Pairs
  <2> QED
    BY <2>1
<1>3. \A p \in Paths(c) : \E x \in Pairs(c) : x[2] = p
  <2> TAKE p \in Paths(c)
  <2> USE <1>1
  <2> WITNESS <<c.item[p].id, p>> \in Pairs(c)
  <2> QED
    OBVIOUS
<1> QED
  BY <1>1, <1>2, <1>3

(* What is listed and was not before is on disk.                           *)
LEMMA ListedStep ==
  ASSUME ~Tampering, HistoryInv, [Next]_vars, NEW p \in Path \ Volatile,
         p \in Listed', p \notin Listed
  PROVE  fs[p] # Absent
<1>0. db \in Database /\ mem \in Catalogue /\ draft \in Catalogue /\ ResidentsInv
  BY Parts DEF HistoryInv, StoreInv, DatabaseOK, CatalogsOK
<1>a. Paths(EmptyCatalog) = {}
  BY DEF EmptyCatalog, Paths
<1>b. ASSUME NEW c, Serve(c) PROVE ServedPaths' = ServedPaths \cup Paths(c)
  <2>1. \A q : q \in Paths(c) <=> \E x \in Pairs(c) : x[2] = q
    BY PairsOf
  <2> QED
    BY <1>b, <2>1 DEF Serve, ServedPaths
<1> USE <1>0 DEF Listed
<1>1. ASSUME NEW q \in Path, Pass(q) PROVE fs[p] # Absent
  BY <1>1, AddParts DEF Pass, ServedPaths
<1>2. CASE LinksCover
  BY <1>2, AddParts DEF LinksCover, ServedPaths, ResidentsInv
<1>3. CASE \/ \E q \in Path : Write(q) \/ Remove(q)
           \/ StartScan \/ BootScanned \/ RequestScan \/ Scanned \/ UNCHANGED vars
  BY <1>3 DEF Write, Remove, StartScan, BootScanned, RequestScan, Scanned,
     vars, process, ServedPaths
<1>4. CASE Tamper
  BY <1>4 DEF Tamper
<1>5. CASE Die \/ BootRefused \/ Fails
  BY <1>5, <1>a DEF Die, BootRefused, Fails, EndJob, ServedPaths
<1>6. CASE StartLoaded
  <2>1. Serve(Loaded) /\ SameIds(db, Loaded) /\ UNCHANGED <<db, draft>>
    BY <1>6, LoadedSameIds DEF StartLoaded
  <2> QED
    BY <1>b, <2>1 DEF Serve, SameIds, Paths
<1>7. CASE BootSaved
  <2>1. Serve(draft) /\ db' = Saved(draft) /\ draft' = EmptyCatalog
    BY <1>7 DEF BootSaved, EndJob
  <2> QED
    BY <1>a, <1>b, <2>1, SavedSameIds DEF Serve, SameIds, Paths
<1>8. CASE SavesDraft("save", "swap") \/ SavesDraft("coverSave", "coverSwap")
  <2>1. db' = Saved(draft) /\ UNCHANGED <<mem, draft, served>>
    BY <1>8 DEF SavesDraft
  <2> QED
    BY <2>1, SavedSameIds DEF SameIds, Paths, ServedPaths
<1>9. ASSUME NEW from \in {"swap", "patched", "coverSwap"}, SwapsDraft(from)
      PROVE  fs[p] # Absent
  BY <1>9, <1>a, <1>b DEF SwapsDraft, Serve, EndJob
<1>10. CASE AdoptsIds
  BY <1>10, AdoptSound, Parts DEF AdoptsIds, ServedPaths, HistoryInv, StoreInv,
     CatalogsOK, SoundCatalogues
<1>11. CASE AppliesOverrides
  BY <1>11, OverridesApplied DEF AppliesOverrides, ServedPaths
<1>12. ASSUME NEW P \in SUBSET Path, NEW patch \in Patch, PatchTracks(P, patch)
       PROVE  fs[p] # Absent
  BY <1>12, PatchParts DEF PatchTracks, ServedPaths
<1>13. CASE SavesPatch
  BY <1>13 DEF SavesPatch, ServedPaths, Database
<1>14. ASSUME NEW q \in Path, WritesCover(q) PROVE fs[p] # Absent
  BY <1>14 DEF WritesCover, ServedPaths
<1> QED
  BY <1>1, <1>2, <1>3, <1>4, <1>5, <1>6, <1>7, <1>8, <1>9, <1>10, <1>11, <1>12, <1>13,
     <1>14, NextActions DEF Actions
(* What stays is on disk, and a scan that has passed it lists it.          *)
LEMMA ResidentsStep ==
  ASSUME ~Tampering, HistoryInv, [Next]_vars PROVE ResidentsInv'
<1>0. /\ StoreInv /\ StagesInv /\ ResidentsInv
      /\ draft \in Catalogue /\ SoundIds(draft) /\ mem \in Catalogue /\ SoundIds(mem)
      /\ fs \in [Path -> Metadata \cup {Absent}]
  BY Parts DEF HistoryInv, StoreInv, CatalogsOK, SoundCatalogues, OthersOK
<1>1. ASSUME NEW p \in Path \ Volatile, IsAudio(p) \/ p \in Listed'
      PROVE  fs'[p] # Absent
  <2>1. fs[p] # Absent
    BY <1>0, <1>1, ListedStep DEF ResidentsInv
  <2> QED
    BY <1>0, <2>1, FilesStay
<1>2. ASSUME job' = "cover"
      PROVE  edit'.paths \subseteq Image /\ \A p \in edit'.paths \ Volatile : fs'[p] # Absent
  <2>1. ASSUME NEW q \in Path, WritesCover(q)
        PROVE  edit'.paths \subseteq Image /\ \A p \in edit'.paths : fs'[p] # Absent
    BY <1>0, <2>1, TagsType, VolatileAssumption DEF WritesCover, NoEdit
  <2>2. CASE job = "cover" /\ UNCHANGED edit
    <3>1. edit.paths \subseteq Image /\ edit.paths \subseteq Path
      BY <1>0, <2>2, Parts DEF ResidentsInv, OthersOK
    <3> QED
      BY <1>0, <2>2, <3>1, FilesStay DEF ResidentsInv
  <2>3. CASE Next /\ ~(\E q \in Path : WritesCover(q))
    <3>1. job = "cover" /\ UNCHANGED edit
      BY <1>0, <1>2, <2>3, NextActions DEF Actions, Write, Remove, Pass, Tamper, Die,
         StartLoaded, StartScan, BootScanned, BootSaved, BootRefused, RequestScan, Scanned,
         AdoptsIds, AppliesOverrides, Fails, SavesDraft, SwapsDraft, PatchTracks,
         SavesPatch, LinksCover, EndJob, process
    <3> QED
      BY <2>2, <3>1
  <2> QED
    BY <1>2, <2>1, <2>2, <2>3 DEF vars
<1>3. ASSUME Booting' \/ job' \in {"scan", "adopt"}, NEW p \in seen', Stays(p)'
      PROVE  p \in Paths(draft)'
  <2> USE <1>0 DEF Booting
  <2>1. ASSUME UNCHANGED <<draft, served, seen>>, Booting \/ job \in {"scan", "adopt"}
        PROVE  p \in Paths(draft)'
    <3>1. Stays(p) /\ p \in seen
      BY <1>3, <2>1 DEF Stays, ServedPaths
    <3> QED
      BY <2>1, <3>1 DEF ResidentsInv
  <2>2. ASSUME NEW q \in Path, Pass(q) PROVE p \in Paths(draft)'
    <3>1. UNCHANGED <<fs, served>> /\ (Booting \/ job \in {"scan", "adopt"})
          /\ seen' = seen \cup {q} /\ Paths(draft) \subseteq Paths(draft')
      BY <2>2, AddParts DEF Pass, Scanning
    <3>2. Stays(p)
      BY <1>3, <3>1 DEF Stays, ServedPaths
    <3>3. CASE p = q
      <4>1. fs[q] # Absent /\ q \notin Volatile
        BY <3>2, <3>3 DEF ResidentsInv, Stays, Listed
      <4> QED
        BY <2>2, <3>3, <4>1, AddParts DEF Pass
    <3>4. CASE p \in seen
      BY <3>1, <3>2, <3>4 DEF ResidentsInv
    <3> QED
      BY <1>3, <3>1, <3>3, <3>4
  <2>3. CASE \/ \E q \in Path : Write(q) \/ Remove(q)
             \/ BootScanned \/ Scanned \/ UNCHANGED vars
    BY <1>3, <2>1, <2>3 DEF Write, Remove, BootScanned, Scanned, vars, process
  <2>4. CASE StartScan \/ RequestScan \/ StartLoaded
    <3>1. seen = {} /\ UNCHANGED seen
      BY <2>4 DEF StagesInv, StartScan, RequestScan, StartLoaded
    <3> QED
      BY <1>3, <3>1
  <2>5. CASE Die \/ BootSaved \/ BootRefused
    BY <1>3, <2>5 DEF Die, BootSaved, BootRefused, EndJob
  <2>6. CASE Tamper
    BY <2>6 DEF Tamper
  <2>7. CASE Fails \/ \E from \in {"swap", "patched", "coverSwap"} : SwapsDraft(from)
    BY <1>3, <2>7 DEF Fails, SwapsDraft, EndJob, StagesInv
  <2>8. CASE \/ AdoptsIds \/ AppliesOverrides \/ SavesPatch \/ LinksCover
             \/ SavesDraft("save", "swap") \/ SavesDraft("coverSave", "coverSwap")
             \/ \E P \in SUBSET Path, patch \in Patch : PatchTracks(P, patch)
             \/ \E q \in Path : WritesCover(q)
    BY <1>3, <2>8 DEF AdoptsIds, AppliesOverrides, SavesPatch, LinksCover, SavesDraft,
       PatchTracks, WritesCover, StagesInv
  <2> QED
    BY <2>2, <2>3, <2>4, <2>5, <2>6, <2>7, <2>8, NextActions DEF Actions
<1> QED
  BY <1>1, <1>2, <1>3 DEF ResidentsInv
-----------------------------------------------------------------------------
(***************************************************************************)
(* Ids over the history.                                                   *)
(***************************************************************************)

(* Catalogues with the same ids are interchangeable.                       *)
LEMMA SameIdsFacts ==
  ASSUME NEW c, NEW d, SameIds(c, d)
  PROVE  /\ SameIds(d, c) /\ Pairs(c) = Pairs(d)
         /\ \A e : SameIds(d, e) => SameIds(c, e)
         /\ \A history : Continues(c, history) => Continues(d, history)
<1>1. Pairs(c) = Pairs(d)
  BY DEF SameIds, Pairs
<1>2. \A history : Continues(c, history) => Continues(d, history)
  BY <1>1 DEF SameIds, Continues
<1> QED
  BY <1>1, <1>2 DEF SameIds

(* Serving a catalogue that continues the history: it continues the        *)
(* history it is now part of.                                              *)
LEMMA ServingContinues ==
  ASSUME NEW c \in Catalogue, SoundIds(c), NEW history \in SUBSET (Id \X Path),
         Consistent(history), Continues(c, history)
  PROVE  /\ Consistent(history \cup Pairs(c))
         /\ Continues(c, history \cup Pairs(c))
<1>1. \A x \in Pairs(c) :
        /\ x[2] \in Paths(c) /\ x[1] = c.item[x[2]].id /\ x = <<x[1], x[2]>>
        /\ x[1] < c.next
  BY PairsOf, CatalogueParts, MaxIdAssumption DEF SoundIds
<1>2. \A x \in history : x = <<x[1], x[2]>>
  OBVIOUS
<1>3. \A x, y \in Pairs(c) : (x[1] = y[1] => x = y) /\ (x[2] = y[2] => x = y)
  BY <1>1 DEF SoundIds, UniqueIds
<1>4. \A x \in history, y \in Pairs(c) :
        /\ x[2] = y[2] /\ x[2] \notin Volatile => x = y
        /\ ATrackStays /\ x[1] = y[1] => x = y
  <2> TAKE x \in history, y \in Pairs(c)
  <2>1. ASSUME x[2] = y[2], x[2] \notin Volatile PROVE x = y
    BY <1>3, <2>1 DEF Continues
  <2>2. ASSUME ATrackStays, x[1] = y[1] PROVE x = y
    BY <1>1, <1>2, <2>2 DEF Continues
  <2> QED
    BY <2>1, <2>2
<1>5. Consistent(history \cup Pairs(c))
  BY <1>3, <1>4 DEF Consistent
<1>6. Continues(c, history \cup Pairs(c))
  BY <1>1 DEF Continues, SoundIds, UniqueIds
<1> QED
  BY <1>5, <1>6

(* A path that is added gets an id above the history.                      *)
LEMMA AddContinues ==
  ASSUME NEW c \in Catalogue, SoundIds(c), NEW p \in Path, p \notin Paths(c), NEW tags,
         NEW history \in SUBSET (Id \X Path), Continues(c, history)
  PROVE  Continues(Add(c, p, tags), history)
<1> DEFINE d == Add(c, p, tags)
<1>1. c.next \in Nat
  BY CatalogueParts, MaxIdAssumption
<1>2. /\ Paths(d) = Paths(c) \cup {p} /\ d.next = c.next + 1
      /\ d.item[p].id = c.next
      /\ \A q \in Paths(c) : d.item[q] = c.item[q]
  <2>1. NewItem(c.next, tags).id = c.next
    BY DEF NewItem
  <2>2. \A q \in Paths(c) : q \in Paths(c) \ {p}
    OBVIOUS
  <2> QED
    BY <2>1, <2>2, AddParts
<1> HIDE DEF d
<1>3. \A q \in Paths(c) : c.item[q].id \in Nat /\ c.item[q].id < c.next
  BY <1>1 DEF SoundIds
<1>4. Pairs(c) \subseteq Pairs(d)
  BY <1>2 DEF Pairs
<1>5. ASSUME ATrackStays, NEW x \in history
      PROVE  x[1] < d.next /\ \A q \in Paths(d) : d.item[q].id = x[1] => q = x[2]
  <2>1. x[1] < c.next /\ \A q \in Paths(c) : c.item[q].id = x[1] => q = x[2]
    BY <1>5 DEF Continues
  <2>2. x[1] \in Nat
    BY <1>5, MaxIdAssumption DEF Id
  <2> QED
    BY <1>1, <1>2, <2>1, <2>2
<1>6. Continues(d, history)
  BY <1>2, <1>4, <1>5 DEF Continues
<1> QED
  BY <1>6 DEF d
(* A scan that lists what stays, numbered after the catalogue that is      *)
(* served, continues the history it continues.                             *)
LEMMA AdoptContinues ==
  ASSUME NEW fresh \in Catalogue, NEW previous \in Catalogue,
         SoundIds(fresh), SoundIds(previous), CanAdopt(fresh, previous),
         NEW history \in SUBSET (Id \X Path), Continues(previous, history),
         \A p \in Path \ Volatile :
           IsAudio(p) \/ p \in {x[2] : x \in history} => p \in Paths(fresh)
  PROVE  Continues(AdoptIds(fresh, previous), history)
<1> DEFINE c == AdoptIds(fresh, previous)
<1>1. /\ Paths(c) = Paths(fresh)
      /\ Paths(previous) # {} =>
           /\ previous.next <= c.next
           /\ \A p \in Paths(fresh) :
                /\ p \in Paths(previous) => c.item[p].id = previous.item[p].id
                /\ p \notin Paths(previous) => c.item[p].id >= previous.next
  BY AdoptSound
<1>2. c \in Catalogue
  BY AdoptSound
<1>3. /\ previous.next \in Nat /\ c.next \in Nat
      /\ \A p \in Paths(fresh) : c.item[p].id \in Nat
      /\ \A x \in history : x[1] \in Nat /\ x[2] \in Path /\ x = <<x[1], x[2]>>
  <2>1. \A p \in Paths(fresh) : c.item[p] \in Item
    BY <1>1, <1>2, CatalogueParts
  <2>2. \A p \in Paths(fresh) : c.item[p].id \in Id
    BY <2>1 DEF Item
  <2> HIDE DEF c
  <2> QED
    BY <1>2, <2>2, CatalogueParts, MaxIdAssumption DEF Id
<1> HIDE DEF c
<1>4. ASSUME NEW x \in history, x[2] \notin Volatile PROVE x \in Pairs(c)
  <2>1. x \in Pairs(previous)
    BY <1>4 DEF Continues
  <2>2. x[2] \in Paths(previous) /\ x[1] = previous.item[x[2]].id
    BY <2>1, PairsOf
  <2>3. x[2] \in Paths(fresh)
    BY <1>3, <1>4
  <2>4. c.item[x[2]].id = x[1] /\ x[2] \in Paths(c) /\ x = <<x[1], x[2]>>
    BY <1>1, <1>3, <2>2, <2>3
  <2> QED
    BY <2>4, PairsOf
<1>5. \A p \in Path \ Volatile : IsAudio(p) => p \in Paths(c)
  BY <1>1
<1>6. ASSUME ATrackStays, NEW x \in history
      PROVE  x[1] < c.next /\ \A q \in Paths(c) : c.item[q].id = x[1] => q = x[2]
  <2>1. Paths(previous) # {}
    BY <1>6 DEF ATrackStays, Continues
  <2>2. x[1] < previous.next /\ \A q \in Paths(previous) : previous.item[q].id = x[1] => q = x[2]
    BY <1>6 DEF Continues
  <2> QED
    BY <1>1, <1>3, <2>1, <2>2
<1>7. Continues(c, history)
  BY <1>4, <1>5, <1>6 DEF Continues
<1> QED
  BY <1>7 DEF c

(* The ids in memory, in the snapshot and in the draft continue those that *)
(* were served, at each stage of a job.                                    *)
LEMMA IdsStep ==
  ASSUME ~Tampering, HistoryInv, [Next]_vars PROVE IdsInv'
<1>0. /\ StagesInv /\ ResidentsInv /\ RestartLoads /\ db \in Database
      /\ draft \in Catalogue /\ SoundIds(draft) /\ mem \in Catalogue /\ SoundIds(mem)
      /\ served \in SUBSET (Id \X Path) /\ edit.paths \subseteq Path
  BY Parts DEF HistoryInv, StoreInv, CatalogsOK, SoundCatalogues, DatabaseOK, OthersOK
<1>00. IdsInv
  BY DEF HistoryInv
<1> USE <1>0
<1>a. UNCHANGED db => Loadable' = Loadable
  BY DEF Loadable
<1>1. ASSUME UNCHANGED <<db, mem, served>>,
             \/ job' = job /\ phase' = phase /\ (draft' = draft \/ job \in {"none", "scan"})
             \/ job' \in {"none", "scan", "adopt"} /\ job \notin {"swap", "coverSwap"}
                  /\ (phase' = "up" => phase = "up")
      PROVE  IdsInv'
  BY <1>00, <1>1, <1>a DEF IdsInv
<1>2. CASE \/ \E p \in Path : Write(p) \/ Remove(p)
           \/ StartScan \/ BootScanned \/ BootRefused \/ RequestScan \/ Scanned
           \/ UNCHANGED vars
  BY <1>1, <1>2 DEF Write, Remove, StartScan, BootScanned, BootRefused, RequestScan,
     Scanned, vars, process, EndJob, StagesInv
<1>3. CASE Fails
  BY <1>1, <1>3 DEF Fails, EndJob, StagesInv
<1>4. ASSUME NEW p \in Path, Pass(p) PROVE IdsInv'
  BY <1>1, <1>4 DEF Pass, Scanning, StagesInv
<1>5. CASE Tamper
  BY <1>5 DEF Tamper
<1>6. CASE Die
  BY <1>00, <1>6, <1>a DEF Die, EndJob, IdsInv
<1>7. CASE StartLoaded
  <2>1. /\ Loadable /\ UNCHANGED db /\ mem' = Loaded /\ served' = served \cup Pairs(Loaded)
        /\ job' \in {"none", "scan"}
    BY <1>7 DEF StartLoaded, Serve
  <2>2. Loaded \in Catalogue /\ SoundIds(Loaded) /\ SameIds(db, Loaded)
    BY <2>1, LoadedSound, LoadedSameIds
  <2>3. Continues(Loaded, served) /\ Consistent(served)
    BY <1>00, <2>1, <2>2, SameIdsFacts DEF IdsInv
  <2>4. Continues(Loaded, served') /\ Consistent(served')
    BY <2>1, <2>2, <2>3, ServingContinues
  <2>5. Continues(db, served')
    BY <2>2, <2>4, SameIdsFacts
  <2> QED
    BY <1>a, <2>1, <2>2, <2>4, <2>5 DEF IdsInv
<1>8. CASE BootSaved
  <2>1. /\ mem' = draft /\ db' = Saved(draft) /\ served' = served \cup Pairs(draft)
        /\ job' = "none" /\ seen = Path /\ served = {}
    BY <1>8 DEF BootSaved, Serve, EndJob, StagesInv, Booting
  <2>2. \A p \in Path \ Volatile : IsAudio(p) => p \in Paths(draft)
    BY <1>8, <2>1 DEF BootSaved, ResidentsInv, Booting, Stays
  <2>3. Continues(draft, served) /\ Consistent(served)
    BY <2>1, <2>2 DEF Continues, Consistent
  <2>4. Continues(draft, served') /\ Consistent(served')
    BY <2>1, <2>3, ServingContinues
  <2>5. SameIds(db', draft)
    BY <2>1, SavedSameIds
  <2>6. Continues(db', served') /\ SameIds(db', mem')
    BY <2>1, <2>4, <2>5, SameIdsFacts
  <2> QED
    BY <2>1, <2>4, <2>6 DEF IdsInv
<1>9. CASE SavesDraft("save", "swap") \/ SavesDraft("coverSave", "coverSwap")
  <2>1. /\ job \in {"save", "coverSave"} /\ job' \in {"swap", "coverSwap"}
        /\ db' = Saved(draft) /\ UNCHANGED <<mem, draft, served>>
    BY <1>9 DEF SavesDraft
  <2>2. SameIds(db', draft')
    BY <2>1, SavedSameIds
  <2>3. Continues(draft, served)
    BY <1>00, <2>1 DEF IdsInv
  <2>4. Continues(db', served')
    BY <2>1, <2>2, <2>3, SameIdsFacts
  <2> QED
    BY <1>00, <2>1, <2>2, <2>4 DEF IdsInv
<1>10. ASSUME NEW from \in {"swap", "patched", "coverSwap"}, SwapsDraft(from)
       PROVE  IdsInv'
  <2>1. /\ job \in {"swap", "patched", "coverSwap"} /\ job' = "none" /\ UNCHANGED db
        /\ mem' = draft /\ served' = served \cup Pairs(draft)
    BY <1>10 DEF SwapsDraft, EndJob, Serve
  <2>2. Loadable /\ SameIds(db, draft)
    BY <1>00, <2>1 DEF IdsInv, StagesInv, RestartLoads
  <2>3. Continues(draft, served) /\ Consistent(served)
    BY <1>00, <2>2, SameIdsFacts DEF IdsInv
  <2>4. Continues(draft, served') /\ Consistent(served')
    BY <2>1, <2>3, ServingContinues
  <2>5. Continues(db, served')
    BY <2>2, <2>4, SameIdsFacts
  <2> QED
    BY <1>a, <2>1, <2>2, <2>4, <2>5 DEF IdsInv
<1>11. CASE AdoptsIds
  <2>1. /\ job = "adopt" /\ job' = "override" /\ CanAdopt(draft, mem)
        /\ draft' = AdoptIds(draft, mem) /\ UNCHANGED <<db, mem, served, phase>>
    BY <1>11 DEF AdoptsIds
  <2>2. Continues(mem, served)
    BY <1>00, <2>1, SameIdsFacts DEF IdsInv, StagesInv, RestartLoads
  <2>3. \A p \in Path \ Volatile :
          IsAudio(p) \/ p \in {x[2] : x \in served} => p \in Paths(draft)
    BY <2>1 DEF StagesInv, ResidentsInv, Stays, ServedPaths
  <2>4. Continues(draft', served')
    BY <2>1, <2>2, <2>3, AdoptContinues
  <2> QED
    BY <1>00, <1>a, <2>1, <2>4 DEF IdsInv
<1>12. CASE AppliesOverrides
  <2>1. /\ job = "override" /\ job' = "save"
        /\ draft' = ApplyOverrides(draft, db.over) /\ UNCHANGED <<db, mem, served, phase>>
    BY <1>12 DEF AppliesOverrides
  <2>2. \A p \in DOMAIN db.over : db.over[p] \in Overrides
    BY DEF Database
  <2>3. SameIds(draft, draft')
    BY <2>1, <2>2, OverridesKeepIds
  <2>4. Continues(draft', served')
    BY <1>00, <2>1, <2>3, SameIdsFacts DEF IdsInv
  <2> QED
    BY <1>00, <1>a, <2>1, <2>4 DEF IdsInv
<1>13. ASSUME NEW P \in SUBSET Path, NEW patch \in Patch, PatchTracks(P, patch)
       PROVE  IdsInv'
  <2>1. /\ job = "none" /\ job' = "patch" /\ phase = "up"
        /\ draft' = ApplyPatch(mem, P, patch) /\ UNCHANGED <<db, mem, served, phase>>
    BY <1>13 DEF PatchTracks
  <2>2. SameIds(mem, draft')
    BY <2>1, PatchKeepsIds
  <2>3. SameIds(db, draft')
    BY <1>00, <2>1, <2>2, SameIdsFacts DEF IdsInv
  <2> QED
    BY <1>00, <1>a, <2>1, <2>3 DEF IdsInv
<1>14. CASE SavesPatch
  <2>1. /\ job = "patch" /\ job' = "patched" /\ UNCHANGED <<mem, draft, served, phase>>
        /\ db'.item = db.item /\ db'.next = db.next /\ db'.schema = db.schema
        /\ db'.root = db.root
    BY <1>14 DEF SavesPatch, Database
  <2>2. SameIds(db, db') /\ Loadable' = Loadable
    BY <2>1 DEF SameIds, Paths, Loadable
  <2> QED
    BY <1>00, <2>1, <2>2, SameIdsFacts DEF IdsInv
<1>15. ASSUME NEW p \in Path, WritesCover(p) PROVE IdsInv'
  <2>1. /\ job = "none" /\ job' = "cover" /\ phase = "up" /\ draft' = mem
        /\ UNCHANGED <<db, mem, served, phase>>
    BY <1>15 DEF WritesCover
  <2>2. Continues(mem, served)
    BY <1>00, <2>1, SameIdsFacts DEF IdsInv, RestartLoads
  <2> QED
    BY <1>00, <1>a, <2>1, <2>2 DEF IdsInv
<1>16. CASE LinksCover
  <2>1. /\ job = "cover" /\ job' = "coverSave" /\ UNCHANGED <<db, mem, served, phase>>
        /\ Continues(draft, served)
    BY <1>00, <1>16 DEF LinksCover, IdsInv
  <2>2. PICK p \in edit.paths :
          UNCHANGED draft \/ (p \notin Paths(draft) /\ draft' = Add(draft, p, ImageTags))
    BY <1>16 DEF LinksCover
  <2>3. Continues(draft', served')
    BY <2>1, <2>2, AddContinues
  <2> QED
    BY <1>00, <1>a, <2>1, <2>3 DEF IdsInv
<1> QED
  BY <1>2, <1>3, <1>4, <1>5, <1>6, <1>7, <1>8, <1>9, <1>10, <1>11, <1>12, <1>13, <1>14,
     <1>15, <1>16, NextActions DEF Actions
-----------------------------------------------------------------------------
(* Before the process is started nothing was served and nothing is shown.  *)
LEMMA HistoryInit == Init => HistoryInv
<1> SUFFICES ASSUME Init PROVE HistoryInv
  OBVIOUS
<1>1. StoreInv
  BY InitInv
<1>2. Paths(EmptyCatalog) = {} /\ DOMAIN NoRow = {}
  BY DEF EmptyCatalog, Paths, NoRow
<1>3. StagesInv
  BY RootAssumption DEF Init, StagesInv, Unused, Loadable, Booting
<1>4. ShownInv
  BY <1>2 DEF Init, ShownInv, ShowsRows
<1>5. ResidentsInv
  BY <1>2, VolatileAssumption
  DEF Init, ResidentsInv, Listed, ServedPaths, IsAudio, Booting
<1>6. IdsInv
  BY RootAssumption DEF Init, IdsInv, Loadable, Consistent
<1> QED
  BY <1>1, <1>3, <1>4, <1>5, <1>6 DEF HistoryInv

(* The inductive invariant of the history: what is served, what is in the  *)
(* snapshot and what is being built agree on the ids of all that was ever  *)
(* served, and on the overrides, at each stage of a job and after a crash  *)
(* at any of them.                                                         *)
THEOREM HistoryInvariance == ~Tampering => (Spec => []HistoryInv)
<1> SUFFICES ASSUME ~Tampering PROVE Spec => []HistoryInv
  OBVIOUS
<1>1. HistoryInv /\ [Next]_vars => HistoryInv'
  <2> SUFFICES ASSUME HistoryInv, [Next]_vars PROVE HistoryInv'
    OBVIOUS
  <2>1. StoreInv'
    BY StoreStep DEF HistoryInv
  <2>2. StagesInv' /\ ShownInv' /\ ResidentsInv' /\ IdsInv'
    BY StagesStep, ShownStep, ResidentsStep, IdsStep
  <2> QED
    BY <2>1, <2>2 DEF HistoryInv
<1> QED
  BY <1>1, HistoryInit, PTL DEF Spec

(* Each track of the catalogue that is served shows its row of overrides   *)
(* over what was scanned, after any rescans, patches, crashes and starts.  *)
THEOREM OverridesAlwaysShown == ~Tampering => (Spec => []OverridesShown)
<1> SUFFICES ASSUME ~Tampering PROVE Spec => []OverridesShown
  OBVIOUS
<1>1. HistoryInv => OverridesShown
  <2> SUFFICES ASSUME HistoryInv PROVE OverridesShown
    OBVIOUS
  <2>1. db \in Database /\ ShownInv
    BY Parts DEF HistoryInv, DatabaseOK
  <2>2. \A p : ~IsAudio(p) => RowOf(p) = NoRow
    BY <2>1, RowType DEF IsAudio
  <2> QED
    BY <2>1, <2>2 DEF ShownInv, ShowsRows, OverridesShown
<1> QED
  BY <1>1, HistoryInvariance, PTL

(* A file that is never away keeps the id it was first served with.        *)
THEOREM ResidentIdsStable == ~Tampering => (Spec => []ResidentsKeepIds)
<1> SUFFICES ASSUME ~Tampering PROVE Spec => []ResidentsKeepIds
  OBVIOUS
<1>1. HistoryInv => ResidentsKeepIds
  <2> SUFFICES ASSUME HistoryInv, NEW p \in Path \ Volatile PROVE KeepsId(p)
    BY DEF ResidentsKeepIds
  <2> DEFINE S == {i \in Id : <<i, p>> \in served}
  <2>1. \A i, j \in S : i = j
    BY DEF HistoryInv, IdsInv, Consistent
  <2>2. CASE S = {}
    <3> HIDE DEF S
    <3>1. Cardinality(S) = 0
      BY <2>2, FS_EmptySet
    <3> QED
      BY <3>1 DEF KeepsId, S
  <2>3. CASE S # {}
    <3>1. PICK i \in S : S = {i}
      BY <2>1, <2>3
    <3> HIDE DEF S
    <3>2. Cardinality(S) = 1
      BY <3>1, FS_Singleton
    <3> QED
      BY <3>2 DEF KeepsId, S
  <2> QED
    BY <2>2, <2>3
<1> QED
  BY <1>1, HistoryInvariance, PTL

(* Where some track is never away, no id ever comes to stand for another   *)
(* file than the one it was first served for.                              *)
THEOREM IdsStayWithFiles ==
  ~Tampering /\ ATrackStays => (Spec => []IdsNeverReassigned)
<1> SUFFICES ASSUME ~Tampering, ATrackStays PROVE Spec => []IdsNeverReassigned
  OBVIOUS
<1>1. HistoryInv => IdsNeverReassigned
  <2> SUFFICES ASSUME HistoryInv, NEW x \in served
               PROVE  Cardinality({p \in Path : <<x[1], p>> \in served}) = 1
    BY DEF IdsNeverReassigned
  <2> DEFINE S == {p \in Path : <<x[1], p>> \in served}
  <2>1. served \in SUBSET (Id \X Path)
    BY Parts DEF HistoryInv, OthersOK
  <2>2. x = <<x[1], x[2]>> /\ x[2] \in Path
    BY <2>1
  <2>3. x[2] \in S
    BY <2>2
  <2>4. \A p \in S : p = x[2]
    BY <2>2 DEF HistoryInv, IdsInv, Consistent
  <2>5. S = {x[2]}
    BY <2>3, <2>4
  <2> HIDE DEF S
  <2>6. Cardinality(S) = 1
    BY <2>5, FS_Singleton
  <2> QED
    BY <2>6 DEF S
<1> QED
  BY <1>1, HistoryInvariance, PTL
=============================================================================
