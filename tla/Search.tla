------------------------------- MODULE Search -------------------------------
(***************************************************************************)
(* Search: the edit distance and the score of a text for a query           *)
(* (src/src/util/str.c), of tracks, artists and albums                     *)
(* (src/src/library/search.c), and the ranked hits                         *)
(* (src/src/api/search.c).                                                 *)
(*                                                                         *)
(* A text is a sequence of characters, h the haystack and n the needle;    *)
(* positions count from 0 as in the code.                                  *)
(*                                                                         *)
(* An operator whose name ends in an underscore and a word is a faulty     *)
(* variant of the operator that follows it, for mutation checks only.      *)
(***************************************************************************)
EXTENDS Integers, Sequences, SequencesExt, FiniteSetsExt

CONSTANTS Lower(_),    \* tolower
          Alnum,       \* the characters isalnum accepts
          WindowMax    \* the buffer a window is copied to

ASSUME WindowAssumption == WindowMax \in Nat

PathMax == 512   \* CATALOG_PATH_MAX: what an item has for a text is shorter

(* A set in the order a sort gives it, by how many come before each.       *)
Ordered(S, Precedes(_, _)) ==
  LET ranks == {<<Cardinality({y \in S : Precedes(y, x)}), x>> : x \in S}
  IN [n \in 1..Cardinality(S) |-> (CHOOSE rank \in ranks : rank[1] = n - 1)[2]]

Folded(text) == [i \in DOMAIN text |-> Lower(text[i])]

SameText(a, b) == Folded(a) = Folded(b)

-----------------------------------------------------------------------------
(* str_edit_distance_ci: the rows of the table one after the other.        *)

NextCell(prev, cur, j, same) ==
  Min({prev[j + 1] + 1, cur[j] + 1, prev[j] + (IF same THEN 0 ELSE 1)})

NextRow(prev, i, a, b) ==
  LET row[j \in 0..Len(b)] ==
        IF j = 0 THEN <<i>>
        ELSE LET cur == row[j - 1]
             IN Append(cur, NextCell(prev, cur, j, Lower(a[i]) = Lower(b[j])))
  IN row[Len(b)]

EditDistance(a, b) ==
  LET rows[i \in 0..Len(a)] ==
        IF i = 0 THEN [j \in 1..(Len(b) + 1) |-> j - 1] ELSE NextRow(rows[i - 1], i, a, b)
  IN rows[Len(a)][Len(b) + 1]

-----------------------------------------------------------------------------
(* The scores of str_match_score_ci.  Each loses by the length of the text,*)
(* most by the position, the fuzzy ones by the distance.                   *)

Penalty(h) == IF h < 999 THEN h ELSE 999

ExactScore == 1000000
PrefixScore(h) == 900000 - Penalty(h)
BoundaryScore(pos, h) == 800000 - pos * 100 - Penalty(h)
InsideScore(pos, h) == 700000 - pos * 100 - Penalty(h)
WholeScore(dist, h) == 300000 - dist * 10000 - Penalty(h)
WindowScore(dist, pos, h) == 200000 - dist * 10000 - pos * 10 - Penalty(h)

MaxDistance == 2

(* The text of width w at pos.                                             *)
TextAt(h, pos, w) == SubSeq(h, pos + 1, pos + w)

Occurrences(h, n) == {pos \in 0..(Len(h) - Len(n)) : SameText(TextAt(h, pos, Len(n)), n)}

Boundary(h, pos) == pos = 0 \/ h[pos] \notin Alnum

(* The widths of the windows, and the best of them: the closest, and the   *)
(* earliest of those.                                                      *)
LeastWidth_Exact(n) == Len(n)
LeastWidth(n) == IF Len(n) > 2 THEN Len(n) - 2 ELSE 1
Widths(h, n) == LeastWidth(n)..Min({Len(n) + 2, Len(h), WindowMax - 1})

Windows(h, n) ==
  UNION {{[dist |-> EditDistance(TextAt(h, pos, w), n), pos |-> pos] : pos \in 0..(Len(h) - w)} :
         w \in Widths(h, n)}

Closer(v, w) == v.dist < w.dist \/ (v.dist = w.dist /\ v.pos <= w.pos)

FuzzyScore(h, n) ==
  LET whole == EditDistance(h, n)
      near == {w \in Windows(h, n) : w.dist <= MaxDistance}
      best == CHOOSE v \in near : \A w \in near : Closer(v, w)
  IN IF whole <= MaxDistance THEN WholeScore(whole, Len(h))
     ELSE IF near = {} THEN 0
     ELSE WindowScore(best.dist, best.pos, Len(h))

FoundScore(h, pos) ==
  IF pos = 0 THEN PrefixScore(Len(h))
  ELSE IF Boundary(h, pos) THEN BoundaryScore(pos, Len(h))
  ELSE InsideScore(pos, Len(h))

(* str_match_score_ci.                                                     *)
MatchScore(h, n, fuzzy) ==
  LET found == Occurrences(h, n) IN
  IF n = <<>> THEN 1
  ELSE IF h = <<>> THEN 0
  ELSE IF SameText(h, n) THEN ExactScore
  ELSE IF found # {} THEN FoundScore(h, Min(found))
  ELSE IF fuzzy /\ Len(n) >= 2 THEN FuzzyScore(h, n) ELSE 0

-----------------------------------------------------------------------------
(* search_track_score, search_artist_score, search_album_score: the best   *)
(* of the fields.  The catalogue's images have none.                       *)

Score(fields, q, fuzzy) ==
  IF q = <<>> THEN 0 ELSE Max({0} \cup {MatchScore(f, q, fuzzy) : f \in fields})

Fields(kind, entry) ==
  CASE kind = "tracks" ->
         IF entry.kind # "audio" THEN {}
         ELSE {entry.title, entry.artist, entry.album, entry.filename, entry.path}
    [] kind = "artists" -> {entry.name}
    [] kind = "albums" -> {entry.name, entry.artist}

EntryScore(kind, entry, q, fuzzy) == Score(Fields(kind, entry), q, fuzzy)

(* scored_ptr_cmp: higher score first, then lower id.                      *)
Before_HighId(s, t) == s.score > t.score \/ (s.score = t.score /\ s.id > t.id)
Before(s, t) == s.score > t.score \/ (s.score = t.score /\ s.id < t.id)

(* append_paged_tracks, _artists, _albums: the ids of what scores, ranked. *)
(* No two entries of a list have the same id.                              *)
Hits(kind, list, q, fuzzy) ==
  LET scored == {[id |-> entry.id, score |-> EntryScore(kind, entry, q, fuzzy)] :
                   entry \in Range(list)}
      ranked == Ordered({s \in scored : s.score > 0}, Before)
  IN [i \in DOMAIN ranked |-> ranked[i].id]

(* append_scored_page: from offset, at most limit, and how many there are. *)
PageOfHits(hits, page) ==
  [total |-> Len(hits),
   shown |-> SubSeq(hits, page.offset + 1, Min({page.offset + page.limit, Len(hits)}))]
=============================================================================
