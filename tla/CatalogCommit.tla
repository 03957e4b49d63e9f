---------------------------- MODULE CatalogCommit ----------------------------
(***************************************************************************)
(* What the library runtime promises, whoever does the work: one catalogue *)
(* is served at a time, at most one other is being prepared, and a         *)
(* catalogue is served only after it is saved, so that what a restart      *)
(* finds is what was served last or the one that was about to replace it.  *)
(* LibraryRuntime implements this with a lock, a flag and two threads.     *)
(***************************************************************************)
CONSTANTS Gen,    \* the catalogues that can be built
          None,   \* no catalogue
          HasDb   \* there is a database to save them in

VARIABLES served,   \* what a handler reads
          durable,  \* what a restart finds
          draft,    \* what is being prepared
          made      \* every catalogue ever built

vars == <<served, durable, draft, made>>

Init == served = None /\ durable = None /\ draft = None /\ made = {}

Open ==
  /\ served = None /\ made = {}
  /\ \E g \in Gen : /\ served' = g /\ made' = {g}
                    /\ durable' = IF HasDb THEN g ELSE None
  /\ UNCHANGED draft

Begin ==
  /\ served # None /\ draft = None
  /\ \E g \in Gen \ made : draft' = g /\ made' = made \cup {g}
  /\ UNCHANGED <<served, durable>>

(* Only what is not saved yet can be given up.                             *)
Abandon ==
  /\ draft # None /\ durable # draft
  /\ draft' = None
  /\ UNCHANGED <<served, durable, made>>

Persist ==
  /\ HasDb /\ draft # None
  /\ durable' = draft
  /\ UNCHANGED <<served, draft, made>>

Publish ==
  /\ draft # None
  /\ HasDb => durable = draft
  /\ served' = draft /\ draft' = None
  /\ UNCHANGED <<durable, made>>

Close ==
  /\ served # None /\ draft = None
  /\ served' = None
  /\ UNCHANGED <<durable, draft, made>>

Next == Open \/ Begin \/ Abandon \/ Persist \/ Publish \/ Close

Spec == Init /\ [][Next]_vars
=============================================================================
