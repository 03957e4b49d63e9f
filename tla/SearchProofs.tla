---------------------------- MODULE SearchProofs ----------------------------
(***************************************************************************)
(* Proofs about Search, for texts of any alphabet and length.              *)
(*                                                                         *)
(* The argument: the table of str_edit_distance_ci holds, in each cell,    *)
(* the distance of two prefixes, and a distance of one or two is one or    *)
(* two edits (DistanceCounts); a window of the query's length, one or two  *)
(* more or fewer, is wide enough for whatever two edits make of the query  *)
(* (WindowFor), so that a class of match told from the texts alone has a   *)
(* band of the scale of scores to itself (MatchScored); the hits are what  *)
(* scores, put in order (HitsRanked).                                      *)
(***************************************************************************)
EXTENDS InputsProofs

-----------------------------------------------------------------------------
(***************************************************************************)
(* Edits and the edit distance.                                            *)
(***************************************************************************)

(* z is w without its character at i.                                      *)
Removed(z, w, i) ==
  /\ i \in 1..Len(w) /\ Len(z) = Len(w) - 1
  /\ \A k \in 1..Len(z) : z[k] = IF k < i THEN w[k] ELSE w[k + 1]

(* z is w with another character at i.                                     *)
Replaced(z, w, i) ==
  /\ i \in 1..Len(w) /\ Len(z) = Len(w)
  /\ \A k \in 1..Len(z) : k # i => z[k] = w[k]

(* The operators on sequences do that.                                     *)
LEMMA RemoveIs ==
  ASSUME NEW w \in Seq(Alphabet), NEW i \in 1..Len(w)
  PROVE  RemoveAt(w, i) \in Seq(Alphabet) /\ Removed(RemoveAt(w, i), w, i)
<1>1. PICK n \in Nat : n = Len(w)
  OBVIOUS
<1>2. PICK u, v : u = SubSeq(w, 1, i - 1) /\ v = SubSeq(w, i + 1, n)
  OBVIOUS
<1>3. /\ u \in Seq(Alphabet) /\ Len(u) = i - 1
      /\ \A k \in 1..(i - 1) : u[k] = w[k]
  <2>1. 1 \in Int /\ i - 1 \in Int /\ \A k \in 1..(i - 1) : w[k] \in Alphabet
    OBVIOUS
  <2> QED
    BY <1>2, <2>1, SubSeqProperties
<1>4. /\ v \in Seq(Alphabet) /\ Len(v) = n - i
      /\ \A k \in 1..(n - i) : v[k] = w[i + k]
  <2>1. i + 1 \in Int /\ n \in Int /\ \A k \in (i + 1)..n : w[k] \in Alphabet
    BY <1>1
  <2>2. /\ v \in Seq(Alphabet) /\ Len(v) = IF i + 1 <= n THEN n - (i + 1) + 1 ELSE 0
        /\ \A k \in 1..(n - (i + 1) + 1) : v[k] = w[(i + 1) + k - 1]
    BY <1>2, <2>1, SubSeqProperties, SMTT(60)
  <2> QED
    BY <1>1, <2>2
<1>5. /\ u \o v \in Seq(Alphabet) /\ Len(u \o v) = n - 1
      /\ \A k \in 1..(n - 1) : (u \o v)[k] = IF k < i THEN u[k] ELSE v[k - i + 1]
  <2>1. /\ u \o v \in Seq(Alphabet) /\ Len(u \o v) = Len(u) + Len(v)
        /\ \A k \in 1..(Len(u) + Len(v)) : (u \o v)[k] = IF k <= Len(u) THEN u[k] ELSE v[k - Len(u)]
    BY <1>3, <1>4, ConcatProperties
  <2>2. Len(u) + Len(v) = n - 1
    BY <1>1, <1>3, <1>4
  <2>3. \A k \in 1..(n - 1) : k - (i - 1) = k - i + 1 /\ (k <= i - 1 <=> k < i)
    BY <1>1
  <2> QED
    BY <1>3, <2>1, <2>2, <2>3, SMTT(60)
<1>6. \A k \in 1..(n - 1) : (u \o v)[k] = IF k < i THEN w[k] ELSE w[k + 1]
  <2> TAKE k \in 1..(n - 1)
  <2>1. CASE k < i
    <3>1. k \in 1..(i - 1)
      BY <2>1
    <3> QED
      BY <1>3, <1>5, <2>1, <3>1
  <2>2. CASE ~(k < i)
    <3>1. k - i + 1 \in 1..(n - i) /\ i + (k - i + 1) = k + 1
      BY <1>1, <2>2
    <3> QED
      BY <1>4, <1>5, <2>2, <3>1
  <2> QED
    BY <2>1, <2>2
<1>7. RemoveAt(w, i) = u \o v
  BY <1>1, <1>2 DEF RemoveAt
<1> QED
  BY <1>1, <1>5, <1>6, <1>7 DEF Removed

(* A character put in the place of another.                                *)
LEMMA ReplaceIs ==
  ASSUME NEW w \in Seq(Alphabet), NEW i \in 1..Len(w), NEW c \in Alphabet
  PROVE  /\ ReplaceAt(w, i, c) \in Seq(Alphabet) /\ Replaced(ReplaceAt(w, i, c), w, i)
         /\ ReplaceAt(w, i, c)[i] = c
BY DEF ReplaceAt, Replaced

(* A character put in: the text is what its removal leaves.                *)
LEMMA InsertIs ==
  ASSUME NEW w \in Seq(Alphabet), NEW i \in 1..(Len(w) + 1), NEW c \in Alphabet
  PROVE  /\ InsertAt(w, i, c) \in Seq(Alphabet) /\ Removed(w, InsertAt(w, i, c), i)
         /\ InsertAt(w, i, c)[i] = c
<1>1. PICK n \in Nat : n = Len(w)
  OBVIOUS
<1>2. PICK u, m, v, z : u = SubSeq(w, 1, i - 1) /\ m = <<c>> /\ v = SubSeq(w, i, n)
                        /\ z = (u \o m) \o v
  OBVIOUS
<1>3. /\ u \in Seq(Alphabet) /\ Len(u) = i - 1
      /\ \A k \in 1..(i - 1) : u[k] = w[k]
  <2>1. 1 \in Int /\ i - 1 \in Int /\ \A k \in 1..(i - 1) : w[k] \in Alphabet
    OBVIOUS
  <2> QED
    BY <1>2, <2>1, SubSeqProperties
<1>4. /\ v \in Seq(Alphabet) /\ Len(v) = n - i + 1
      /\ \A k \in 1..(n - i + 1) : v[k] = w[i + k - 1]
  <2>1. i \in Int /\ n \in Int /\ \A k \in i..n : w[k] \in Alphabet
    BY <1>1
  <2>2. /\ v \in Seq(Alphabet) /\ Len(v) = IF i <= n THEN n - i + 1 ELSE 0
        /\ \A k \in 1..(n - i + 1) : v[k] = w[i + k - 1]
    BY <1>2, <2>1, SubSeqProperties
  <2> QED
    BY <1>1, <2>2
<1>5. m \in Seq(Alphabet) /\ Len(m) = 1 /\ m[1] = c
  BY <1>2
<1>6. /\ u \o m \in Seq(Alphabet) /\ Len(u \o m) = i
      /\ \A k \in 1..i : (u \o m)[k] = IF k < i THEN w[k] ELSE c
  <2>1. /\ u \o m \in Seq(Alphabet) /\ Len(u \o m) = Len(u) + Len(m)
        /\ \A k \in 1..(Len(u) + Len(m)) : (u \o m)[k] = IF k <= Len(u) THEN u[k] ELSE m[k - Len(u)]
    BY <1>3, <1>5, ConcatProperties
  <2>2. Len(u) + Len(m) = i
    BY <1>3, <1>5
  <2> QED
    BY <1>3, <1>5, <2>1, <2>2
<1>7. /\ z \in Seq(Alphabet) /\ Len(z) = n + 1
      /\ \A k \in 1..(n + 1) : z[k] = IF k <= i THEN (u \o m)[k] ELSE v[k - i]
  <2>1. /\ z \in Seq(Alphabet) /\ Len(z) = Len(u \o m) + Len(v)
        /\ \A k \in 1..(Len(u \o m) + Len(v)) :
             z[k] = IF k <= Len(u \o m) THEN (u \o m)[k] ELSE v[k - Len(u \o m)]
    BY <1>2, <1>4, <1>6, ConcatProperties
  <2>2. Len(u \o m) + Len(v) = n + 1
    BY <1>1, <1>4, <1>6
  <2> QED
    BY <1>6, <2>1, <2>2
<1>8. \A k \in 1..n : w[k] = IF k < i THEN z[k] ELSE z[k + 1]
  <2> TAKE k \in 1..n
  <2>1. CASE k < i
    <3>1. k \in 1..i /\ k \in 1..(n + 1) /\ k <= i
      BY <2>1
    <3> QED
      BY <1>6, <1>7, <2>1, <3>1
  <2>2. CASE ~(k < i)
    <3>1. /\ k + 1 \in 1..(n + 1) /\ ~(k + 1 <= i) /\ (k + 1) - i \in 1..(n - i + 1)
          /\ i + ((k + 1) - i) - 1 = k
      BY <1>1, <2>2
    <3> QED
      BY <1>4, <1>7, <2>2, <3>1
  <2> QED
    BY <2>1, <2>2
<1>9. z[i] = c /\ i \in 1..(n + 1)
  <2>1. i \in 1..(n + 1) /\ i \in 1..i /\ i <= i /\ ~(i < i)
    BY <1>1
  <2> QED
    BY <1>6, <1>7, <2>1
<1>10. InsertAt(w, i, c) = z
  BY <1>1, <1>2 DEF InsertAt
<1> QED
  BY <1>1, <1>7, <1>8, <1>9, <1>10 DEF Removed

(* What is made by one edit, told by its characters.                       *)
LEMMA EditIs ==
  ASSUME NEW w \in Seq(Alphabet), NEW z
  PROVE  z \in Edits({w}) <=>
           /\ z \in Seq(Alphabet)
           /\ \E i \in Nat : Removed(z, w, i) \/ Replaced(z, w, i) \/ Removed(w, z, i)
<1>1. PICK n \in Nat : n = Len(w) /\ DOMAIN w = 1..n
  OBVIOUS
<1>2. z \in Edits({w}) <=>
        \/ \E i \in 1..n : z = RemoveAt(w, i)
        \/ \E i \in 1..n, c \in Alphabet : z = ReplaceAt(w, i, c)
        \/ \E i \in 1..(n + 1), c \in Alphabet : z = InsertAt(w, i, c)
  <2>1. Edits({w}) = {RemoveAt(w, i) : i \in 1..n}
                        \cup {ReplaceAt(w, ic[1], ic[2]) : ic \in (1..n) \X Alphabet}
                        \cup {InsertAt(w, ic[1], ic[2]) : ic \in (1..(n + 1)) \X Alphabet}
    BY <1>1 DEF Edits
  <2>2. z \in {ReplaceAt(w, ic[1], ic[2]) : ic \in (1..n) \X Alphabet} <=>
          \E i \in 1..n, c \in Alphabet : z = ReplaceAt(w, i, c)
    <3>1. ASSUME NEW ic \in (1..n) \X Alphabet, z = ReplaceAt(w, ic[1], ic[2])
          PROVE  \E i \in 1..n, c \in Alphabet : z = ReplaceAt(w, i, c)
      <4>1. ic[1] \in 1..n /\ ic[2] \in Alphabet
        OBVIOUS
      <4> QED
        BY <3>1, <4>1
    <3>2. ASSUME NEW i \in 1..n, NEW c \in Alphabet, z = ReplaceAt(w, i, c)
          PROVE  \E ic \in (1..n) \X Alphabet : z = ReplaceAt(w, ic[1], ic[2])
      <4>1. <<i, c>> \in (1..n) \X Alphabet /\ <<i, c>>[1] = i /\ <<i, c>>[2] = c
        OBVIOUS
      <4>2. z = ReplaceAt(w, <<i, c>>[1], <<i, c>>[2])
        BY <3>2, <4>1
      <4> QED
        BY <4>1, <4>2
    <3> QED
      BY <3>1, <3>2
  <2>3. z \in {InsertAt(w, ic[1], ic[2]) : ic \in (1..(n + 1)) \X Alphabet} <=>
          \E i \in 1..(n + 1), c \in Alphabet : z = InsertAt(w, i, c)
    <3>1. ASSUME NEW ic \in (1..(n + 1)) \X Alphabet, z = InsertAt(w, ic[1], ic[2])
          PROVE  \E i \in 1..(n + 1), c \in Alphabet : z = InsertAt(w, i, c)
      <4>1. ic[1] \in 1..(n + 1) /\ ic[2] \in Alphabet
        OBVIOUS
      <4> QED
        BY <3>1, <4>1
    <3>2. ASSUME NEW i \in 1..(n + 1), NEW c \in Alphabet, z = InsertAt(w, i, c)
          PROVE  \E ic \in (1..(n + 1)) \X Alphabet : z = InsertAt(w, ic[1], ic[2])
      <4>1. <<i, c>> \in (1..(n + 1)) \X Alphabet /\ <<i, c>>[1] = i /\ <<i, c>>[2] = c
        OBVIOUS
      <4>2. z = InsertAt(w, <<i, c>>[1], <<i, c>>[2])
        BY <3>2, <4>1
      <4> QED
        BY <4>1, <4>2
    <3> QED
      BY <3>1, <3>2
  <2> QED
    BY <2>1, <2>2, <2>3
<1>3. ASSUME NEW i \in 1..n, z = RemoveAt(w, i)
      PROVE  z \in Seq(Alphabet) /\ Removed(z, w, i)
  BY <1>1, <1>3, RemoveIs
<1>4. ASSUME NEW i \in 1..n, NEW c \in Alphabet, z = ReplaceAt(w, i, c)
      PROVE  z \in Seq(Alphabet) /\ Replaced(z, w, i)
  BY <1>1, <1>4, ReplaceIs
<1>5. ASSUME NEW i \in 1..(n + 1), NEW c \in Alphabet, z = InsertAt(w, i, c)
      PROVE  z \in Seq(Alphabet) /\ Removed(w, z, i)
  BY <1>1, <1>5, InsertIs
<1>6. ASSUME z \in Seq(Alphabet), NEW i \in Nat, Removed(z, w, i)
      PROVE  i \in 1..n /\ z = RemoveAt(w, i)
  <2>1. i \in 1..Len(w)
    BY <1>6 DEF Removed
  <2>2. PICK y : y = RemoveAt(w, i)
    OBVIOUS
  <2>3. y \in Seq(Alphabet) /\ Removed(y, w, i)
    BY <2>1, <2>2, RemoveIs
  <2>4. Len(y) = Len(z) /\ \A k \in 1..Len(y) : y[k] = z[k]
    BY <1>6, <2>3 DEF Removed
  <2>5. y = z
    BY <1>6, <2>3, <2>4, SeqEqual
  <2> QED
    BY <1>1, <2>1, <2>2, <2>5
<1>7. ASSUME z \in Seq(Alphabet), NEW i \in Nat, Replaced(z, w, i)
      PROVE  i \in 1..n /\ z[i] \in Alphabet /\ z = ReplaceAt(w, i, z[i])
  <2>1. i \in 1..Len(w) /\ i \in 1..Len(z) /\ z[i] \in Alphabet
    BY <1>7 DEF Replaced
  <2>2. PICK y : y = ReplaceAt(w, i, z[i])
    OBVIOUS
  <2>3. y \in Seq(Alphabet) /\ Replaced(y, w, i) /\ y[i] = z[i]
    BY <2>1, <2>2, ReplaceIs
  <2>4. Len(y) = Len(z) /\ \A k \in 1..Len(y) : y[k] = z[k]
    BY <1>7, <2>3 DEF Replaced
  <2>5. y = z
    BY <1>7, <2>3, <2>4, SeqEqual
  <2> QED
    BY <1>1, <2>1, <2>2, <2>5
<1>8. ASSUME z \in Seq(Alphabet), NEW i \in Nat, Removed(w, z, i)
      PROVE  i \in 1..(n + 1) /\ z[i] \in Alphabet /\ z = InsertAt(w, i, z[i])
  <2>1. i \in 1..Len(z) /\ Len(z) = n + 1 /\ z[i] \in Alphabet
    BY <1>1, <1>8 DEF Removed
  <2>2. PICK y : y = InsertAt(w, i, z[i])
    OBVIOUS
  <2>3. y \in Seq(Alphabet) /\ Removed(w, y, i) /\ y[i] = z[i]
    BY <1>1, <2>1, <2>2, InsertIs
  <2>4. Len(y) = n + 1
    BY <1>1, <2>3 DEF Removed
  <2>5. \A k \in 1..(n + 1) : y[k] = z[k]
    <3> TAKE k \in 1..(n + 1)
    <3>1. \A j \in 1..n : w[j] = (IF j < i THEN z[j] ELSE z[j + 1])
                          /\ w[j] = (IF j < i THEN y[j] ELSE y[j + 1])
      BY <1>1, <1>8, <2>3 DEF Removed
    <3>2. CASE k < i
      <4>1. k \in 1..n
        BY <2>1, <3>2
      <4> QED
        BY <3>1, <3>2, <4>1
    <3>3. CASE k > i
      <4>1. k - 1 \in 1..n /\ ~(k - 1 < i) /\ (k - 1) + 1 = k
        BY <2>1, <3>3
      <4> QED
        BY <3>1, <4>1
    <3>4. k < i \/ k > i \/ k = i
      BY <2>1
    <3> QED
      BY <2>3, <3>2, <3>3, <3>4
  <2>6. y = z
    BY <1>8, <2>1, <2>3, <2>4, <2>5, SeqEqual
  <2> QED
    BY <1>1, <2>1, <2>2, <2>6
<1>9. ASSUME z \in Edits({w})
      PROVE  /\ z \in Seq(Alphabet)
             /\ \E i \in Nat : Removed(z, w, i) \/ Replaced(z, w, i) \/ Removed(w, z, i)
  <2>1. 1..n \subseteq Nat /\ 1..(n + 1) \subseteq Nat
    OBVIOUS
  <2> QED
    BY <1>2, <1>3, <1>4, <1>5, <1>9, <2>1
<1>10. ASSUME z \in Seq(Alphabet), NEW i \in Nat,
              Removed(z, w, i) \/ Replaced(z, w, i) \/ Removed(w, z, i)
       PROVE  z \in Edits({w})
  BY <1>2, <1>6, <1>7, <1>8, <1>10
<1> QED
  BY <1>9, <1>10

(* What an edit makes of some texts is what it makes of one of them.       *)
LEMMA EditsOf ==
  ASSUME NEW texts, NEW z
  PROVE  z \in Edits(texts) <=> \E w \in texts : z \in Edits({w})
<1>1. \A T : z \in Edits(T) <=>
        \E w \in T : \/ \E i \in DOMAIN w : z = RemoveAt(w, i)
                     \/ z \in {ReplaceAt(w, ic[1], ic[2]) : ic \in (DOMAIN w) \X Alphabet}
                     \/ z \in {InsertAt(w, ic[1], ic[2]) : ic \in (1..(Len(w) + 1)) \X Alphabet}
  BY DEF Edits
<1>2. \A w : \A s \in {w} : s = w
  OBVIOUS
<1>3. \A w : z \in Edits({w}) <=>
        \/ \E i \in DOMAIN w : z = RemoveAt(w, i)
        \/ z \in {ReplaceAt(w, ic[1], ic[2]) : ic \in (DOMAIN w) \X Alphabet}
        \/ z \in {InsertAt(w, ic[1], ic[2]) : ic \in (1..(Len(w) + 1)) \X Alphabet}
  BY <1>1
<1> QED
  BY <1>1, <1>3

(* The last character, appended, dropped or changed.                       *)
LEMMA EditLast ==
  ASSUME NEW w \in Seq(Alphabet), NEW c \in Alphabet, NEW d \in Alphabet
  PROVE  /\ Append(w, c) \in Edits({w}) /\ w \in Edits({Append(w, c)})
         /\ Append(w, c) \in Edits({Append(w, d)})
<1>1. PICK n \in Nat : n = Len(w)
  OBVIOUS
<1>2. PICK x, y : x = Append(w, c) /\ y = Append(w, d)
  OBVIOUS
<1>3. /\ x \in Seq(Alphabet) /\ Len(x) = n + 1 /\ y \in Seq(Alphabet) /\ Len(y) = n + 1
      /\ \A k \in 1..n : x[k] = w[k] /\ y[k] = w[k]
  BY <1>1, <1>2
<1>4. /\ n + 1 \in Nat /\ n + 1 \in 1..(n + 1)
      /\ \A k \in 1..n : k < n + 1
      /\ \A k \in 1..(n + 1) : k # n + 1 => k \in 1..n
  OBVIOUS
<1>5. Removed(w, x, n + 1)
  BY <1>1, <1>3, <1>4 DEF Removed
<1>6. Replaced(x, y, n + 1)
  BY <1>1, <1>3, <1>4 DEF Replaced
<1>7. x \in Edits({w})
  BY <1>3, <1>4, <1>5, EditIs
<1>8. w \in Edits({x})
  BY <1>3, <1>4, <1>5, EditIs
<1>9. x \in Edits({y})
  BY <1>3, <1>4, <1>6, EditIs
<1> QED
  BY <1>2, <1>7, <1>8, <1>9

(* An edit does not mind another character at the end.                     *)
LEMMA RemovedAppend ==
  ASSUME NEW w \in Seq(Alphabet), NEW z \in Seq(Alphabet), NEW c \in Alphabet, NEW i,
         Removed(z, w, i)
  PROVE  Removed(Append(z, c), Append(w, c), i)
<1>1. PICK m \in Nat : m = Len(z) /\ Len(w) = m + 1
  BY DEF Removed
<1>2. PICK x, y : x = Append(z, c) /\ y = Append(w, c)
  OBVIOUS
<1>3. /\ Len(x) = m + 1 /\ Len(y) = m + 2
      /\ x[m + 1] = c /\ y[m + 2] = c
      /\ \A k \in 1..m : x[k] = z[k]
      /\ \A k \in 1..(m + 1) : y[k] = w[k]
  BY <1>1, <1>2
<1>4. i \in 1..(m + 1) /\ \A k \in 1..m : z[k] = IF k < i THEN w[k] ELSE w[k + 1]
  BY <1>1 DEF Removed
<1>5. \A k \in 1..(m + 1) : x[k] = IF k < i THEN y[k] ELSE y[k + 1]
  <2> TAKE k \in 1..(m + 1)
  <2>1. CASE k = m + 1
    <3>1. ~(k < i) /\ k + 1 = m + 2
      BY <1>4, <2>1
    <3> QED
      BY <1>3, <2>1, <3>1
  <2>2. CASE k # m + 1
    <3>1. k \in 1..m /\ k \in 1..(m + 1) /\ k + 1 \in 1..(m + 1)
      BY <2>2
    <3> QED
      BY <1>3, <1>4, <3>1
  <2> QED
    BY <2>1, <2>2
<1>6. i \in 1..(m + 2) /\ m + 1 = (m + 2) - 1
  BY <1>4
<1> QED
  BY <1>2, <1>3, <1>5, <1>6 DEF Removed

(* An edit stays one before a character that both texts end with.          *)
LEMMA EditAppend ==
  ASSUME NEW w \in Seq(Alphabet), NEW z \in Edits({w}), NEW c \in Alphabet
  PROVE  Append(z, c) \in Edits({Append(w, c)})
<1>1. z \in Seq(Alphabet)
  BY EditIs
<1>2. PICK i \in Nat : Removed(z, w, i) \/ Replaced(z, w, i) \/ Removed(w, z, i)
  BY EditIs
<1>3. PICK x, y : x = Append(z, c) /\ y = Append(w, c)
  OBVIOUS
<1>4. x \in Seq(Alphabet) /\ y \in Seq(Alphabet)
  BY <1>1, <1>3
<1>5. CASE Removed(z, w, i)
  <2>1. Removed(x, y, i)
    BY <1>1, <1>3, <1>5, RemovedAppend
  <2>2. x \in Edits({y})
    BY <1>4, <2>1, EditIs
  <2> QED
    BY <1>3, <2>2
<1>6. CASE Removed(w, z, i)
  <2>1. Removed(y, x, i)
    BY <1>1, <1>3, <1>6, RemovedAppend
  <2>2. x \in Edits({y})
    BY <1>4, <2>1, EditIs
  <2> QED
    BY <1>3, <2>2
<1>7. CASE Replaced(z, w, i)
  <2>1. PICK n \in Nat : n = Len(w)
    OBVIOUS
  <2>2. /\ i \in 1..n /\ Len(z) = n /\ \A k \in 1..n : k # i => z[k] = w[k]
    BY <1>7, <2>1 DEF Replaced
  <2>3. /\ Len(x) = n + 1 /\ Len(y) = n + 1 /\ x[n + 1] = c /\ y[n + 1] = c
        /\ \A k \in 1..n : x[k] = z[k] /\ y[k] = w[k]
    <3>1. Len(z) = n /\ Len(w) = n
      BY <2>1, <2>2
    <3> QED
      BY <1>1, <1>3, <3>1
  <2>4. \A k \in 1..(n + 1) : k # i => x[k] = y[k]
    <3>1. \A k \in 1..(n + 1) : k = n + 1 \/ k \in 1..n
      OBVIOUS
    <3> QED
      BY <2>2, <2>3, <3>1
  <2>5. i \in 1..(n + 1)
    BY <2>2
  <2>6. Replaced(x, y, i)
    BY <2>3, <2>4, <2>5 DEF Replaced
  <2>7. x \in Edits({y})
    BY <1>4, <2>6, EditIs
  <2> QED
    BY <1>3, <2>7
<1> QED
  BY <1>2, <1>5, <1>6, <1>7

(* What one edit, or two, make of a text.                                  *)
Within(k, x, y) ==
  \/ k = 0 /\ x = y
  \/ k = 1 /\ x \in Edits({y})
  \/ k = 2 /\ x \in Edits(Edits({y}))

(* Within, edit by edit.                                                   *)
LEMMA WithinIs ==
  ASSUME NEW x \in Seq(Alphabet), NEW y \in Seq(Alphabet)
  PROVE  /\ Within(0, x, y) <=> x = y
         /\ Within(1, x, y) <=> x \in Edits({y})
         /\ Within(2, x, y) <=> \E w \in Edits({y}) : w \in Seq(Alphabet) /\ x \in Edits({w})
<1>1. x \in Edits(Edits({y})) <=> \E w \in Edits({y}) : x \in Edits({w})
  BY EditsOf
<1>2. \A w \in Edits({y}) : w \in Seq(Alphabet)
  BY EditIs
<1>3. /\ Within(0, x, y) <=> x = y
      /\ Within(1, x, y) <=> x \in Edits({y})
      /\ Within(2, x, y) <=> x \in Edits(Edits({y}))
  BY DEF Within
<1> QED
  BY <1>1, <1>2, <1>3

(* A character that both texts end with needs no edit.                     *)
LEMMA WithinSame ==
  ASSUME NEW x \in Seq(Alphabet), NEW y \in Seq(Alphabet), NEW c \in Alphabet,
         NEW k \in 0..2, Within(k, x, y)
  PROVE  Within(k, Append(x, c), Append(y, c))
<1>1. Append(x, c) \in Seq(Alphabet) /\ Append(y, c) \in Seq(Alphabet)
  OBVIOUS
<1>2. CASE k = 0
  BY <1>2 DEF Within
<1>3. CASE k = 1
  BY <1>3, EditAppend DEF Within
<1>4. CASE k = 2
  <2>1. PICK w \in Edits({y}) : w \in Seq(Alphabet) /\ x \in Edits({w})
    BY <1>4, WithinIs
  <2>2. Append(w, c) \in Edits({Append(y, c)}) /\ Append(w, c) \in Seq(Alphabet)
    BY <2>1, EditAppend, SMTT(60)
  <2>3. Append(x, c) \in Edits({Append(w, c)})
    BY <2>1, EditAppend
  <2> QED
    BY <1>1, <1>4, <2>2, <2>3, WithinIs
<1> QED
  BY <1>2, <1>3, <1>4

(* A character that one text ends with, or another that the other does,    *)
(* needs one more.                                                         *)
LEMMA WithinMore ==
  ASSUME NEW x \in Seq(Alphabet), NEW y \in Seq(Alphabet), NEW c \in Alphabet, NEW d \in Alphabet,
         NEW k \in 0..1, Within(k, x, y)
  PROVE  /\ Within(k + 1, Append(x, c), y)
         /\ Within(k + 1, x, Append(y, c))
         /\ Within(k + 1, Append(x, c), Append(y, d))
<1>1. /\ Append(x, c) \in Seq(Alphabet) /\ Append(y, c) \in Seq(Alphabet)
      /\ Append(y, d) \in Seq(Alphabet)
  OBVIOUS
<1>2. CASE k = 0
  <2>1. x = y
    BY <1>2, WithinIs
  <2>2. k + 1 = 1
    BY <1>2
  <2> QED
    BY <2>1, <2>2, EditLast DEF Within
<1>3. CASE k = 1
  <2>1. x \in Edits({y}) /\ k + 1 = 2
    BY <1>3 DEF Within
  <2>2. Append(x, c) \in Edits({x})
    BY EditLast
  <2>3. Within(2, Append(x, c), y)
    BY <1>1, <2>1, <2>2, WithinIs
  <2>4. y \in Edits({Append(y, c)})
    BY EditLast
  <2>5. Within(2, x, Append(y, c))
    BY <1>1, <2>1, <2>4, WithinIs
  <2>6. Append(x, c) \in Edits({Append(y, c)})
    BY <2>1, EditAppend
  <2>7. Append(y, c) \in Edits({Append(y, d)})
    BY EditLast
  <2>8. Within(2, Append(x, c), Append(y, d))
    BY <1>1, <2>6, <2>7, WithinIs
  <2> QED
    BY <2>1, <2>3, <2>5, <2>8
<1> QED
  BY <1>2, <1>3

(* What two characters cost.                                               *)
Differ(c, d) == IF c = d THEN 0 ELSE 1

(* The table of the edit distances of the prefixes of two texts: each cell *)
(* is the least that its three neighbours allow.                           *)
Table(T, x, y) ==
  /\ T \in [0..Len(x) -> [0..Len(y) -> Nat]]
  /\ \A i \in 0..Len(x) : T[i][0] = i
  /\ \A j \in 0..Len(y) : T[0][j] = j
  /\ \A i \in 1..Len(x), j \in 1..Len(y) :
       /\ T[i][j] <= T[i - 1][j] + 1
       /\ T[i][j] <= T[i][j - 1] + 1
       /\ T[i][j] <= T[i - 1][j - 1] + Differ(x[i], y[j])
       /\ \/ T[i][j] = T[i - 1][j] + 1
          \/ T[i][j] = T[i][j - 1] + 1
          \/ T[i][j] = T[i - 1][j - 1] + Differ(x[i], y[j])

(* A prefix and the next.                                                  *)
LEMMA PrefixNext ==
  ASSUME NEW S, NEW x \in Seq(S), NEW i \in 1..Len(x)
  PROVE  /\ SubSeq(x, 1, i) = Append(SubSeq(x, 1, i - 1), x[i])
         /\ SubSeq(x, 1, i) \in Seq(S) /\ SubSeq(x, 1, i - 1) \in Seq(S) /\ x[i] \in S
<1>1. PICK n \in Nat : n = Len(x)
  OBVIOUS
<1>2. PICK u, v : u = SubSeq(x, 1, i - 1) /\ v = SubSeq(x, 1, i)
  OBVIOUS
<1>3. 1 \in Int /\ i \in Int /\ i - 1 \in Int /\ x[i] \in S
  OBVIOUS
<1>4. /\ u \in Seq(S) /\ Len(u) = i - 1 /\ \A k \in 1..(i - 1) : u[k] = x[k]
  <2>1. \A k \in 1..(i - 1) : x[k] \in S
    OBVIOUS
  <2> QED
    BY <1>2, <1>3, <2>1, SubSeqProperties
<1>5. /\ v \in Seq(S) /\ Len(v) = i /\ \A k \in 1..i : v[k] = x[k]
  <2>1. \A k \in 1..i : x[k] \in S
    OBVIOUS
  <2> QED
    BY <1>2, <1>3, <2>1, SubSeqProperties
<1>6. PICK w : w = Append(u, x[i])
  OBVIOUS
<1>7. /\ w \in Seq(S) /\ Len(w) = i /\ w[i] = x[i]
      /\ \A k \in 1..(i - 1) : w[k] = u[k]
  BY <1>3, <1>4, <1>6
<1>8. \A k \in 1..i : w[k] = v[k]
  <2>1. \A k \in 1..i : k # i => k \in 1..(i - 1)
    OBVIOUS
  <2> QED
    BY <1>4, <1>5, <1>7, <2>1
<1>9. v = w
  <2>1. Len(v) = Len(w) /\ \A k \in 1..Len(v) : v[k] = w[k]
    BY <1>5, <1>7, <1>8
  <2> QED
    BY <1>5, <1>7, <2>1, SeqEqual
<1> QED
  BY <1>2, <1>3, <1>4, <1>5, <1>6, <1>9

(* What the table counts are edits.                                        *)
LEMMA TableEdits ==
  ASSUME NEW x \in Seq(Alphabet), NEW y \in Seq(Alphabet), NEW T, Table(T, x, y),
         NEW i \in 0..Len(x), NEW j \in 0..Len(y), T[i][j] <= 2
  PROVE  Within(T[i][j], SubSeq(x, 1, i), SubSeq(y, 1, j))
<1>1. PICK m \in Nat, n \in Nat : m = Len(x) /\ n = Len(y)
  OBVIOUS
<1> DEFINE X(a) == SubSeq(x, 1, a)
           Y(b) == SubSeq(y, 1, b)
           Fails(a, b) == T[a][b] <= 2 /\ ~Within(T[a][b], X(a), Y(b))
           Sums == {s \in Nat : \E a \in 0..m, b \in 0..n : s = a + b /\ Fails(a, b)}
<1>2. SUFFICES ASSUME Sums # {}
               PROVE  FALSE
  <2>1. Fails(i, j) => i + j \in Sums
    BY <1>1
  <2> QED
    BY <2>1
<1>3. PICK s \in Sums : \A t \in Sums : s <= t
  <2>1. Sums \subseteq Nat
    OBVIOUS
  <2> HIDE DEF Sums
  <2> QED
    BY <1>2, <2>1, FirstOf
<1>4. PICK a \in 0..m, b \in 0..n : s = a + b /\ Fails(a, b)
  OBVIOUS
<1>5. ASSUME NEW c \in 0..m, NEW d \in 0..n, c + d < s, T[c][d] <= 2
      PROVE  Within(T[c][d], X(c), Y(d))
  <2>1. c + d \in Nat /\ s \in Nat /\ ~(s <= c + d)
    BY <1>5
  <2>2. c + d \notin Sums
    BY <1>3, <2>1
  <2> HIDE DEF X, Y
  <2>3. ~Fails(c, d)
    BY <2>1, <2>2
  <2> QED
    BY <1>5, <2>3
<1>6. /\ \A c \in 1..m : X(c) = Append(X(c - 1), x[c]) /\ X(c) \in Seq(Alphabet)
                         /\ X(c - 1) \in Seq(Alphabet) /\ x[c] \in Alphabet
      /\ \A d \in 1..n : Y(d) = Append(Y(d - 1), y[d]) /\ Y(d) \in Seq(Alphabet)
                         /\ Y(d - 1) \in Seq(Alphabet) /\ y[d] \in Alphabet
  BY <1>1, PrefixNext
<1>7. X(0) = <<>> /\ Y(0) = <<>>
  OBVIOUS
<1>8. \A c \in 0..m, d \in 0..n : T[c][d] \in Nat
  <2>1. T \in [0..m -> [0..n -> Nat]]
    BY <1>1 DEF Table
  <2> HIDE DEF X, Y, Sums, Fails
  <2> QED
    BY <2>1
<1>9. X(a) \in Seq(Alphabet) /\ Y(b) \in Seq(Alphabet)
  <2>1. a = 0 \/ a \in 1..m
    OBVIOUS
  <2>2. b = 0 \/ b \in 1..n
    OBVIOUS
  <2>3. <<>> \in Seq(Alphabet)
    OBVIOUS
  <2> HIDE DEF X, Y
  <2> QED
    BY <1>6, <1>7, <2>1, <2>2, <2>3
<1>10. T[a][b] \in 0..2 /\ ~Within(T[a][b], X(a), Y(b))
  <2>1. T[a][b] \in Nat
    BY <1>8
  <2>2. T[a][b] <= 2 /\ ~Within(T[a][b], X(a), Y(b))
    BY <1>4
  <2> HIDE DEF X, Y, Sums, Fails
  <2> QED
    BY <2>1, <2>2, SMTT(60)
<1> HIDE DEF X, Y, Sums, Fails
<1>11. ASSUME NEW k \in 0..1, T[a][b] = k + 1, a # 0, T[a - 1][b] = k
       PROVE  FALSE
  <2>1. a \in 1..m /\ a - 1 \in 0..m /\ (a - 1) + b < s /\ T[a - 1][b] <= 2
    BY <1>4, <1>11
  <2>2. Within(k, X(a - 1), Y(b))
    BY <1>5, <1>11, <2>1
  <2>3. Within(k + 1, Append(X(a - 1), x[a]), Y(b))
    BY <1>6, <1>9, <2>1, <2>2, WithinMore
  <2> QED
    BY <1>6, <1>10, <1>11, <2>1, <2>3
<1>12. ASSUME NEW k \in 0..1, T[a][b] = k + 1, b # 0, T[a][b - 1] = k
       PROVE  FALSE
  <2>1. b \in 1..n /\ b - 1 \in 0..n /\ a + (b - 1) < s /\ T[a][b - 1] <= 2
    BY <1>4, <1>12
  <2>2. Within(k, X(a), Y(b - 1))
    BY <1>5, <1>12, <2>1
  <2>3. Within(k + 1, X(a), Append(Y(b - 1), y[b]))
    BY <1>6, <1>9, <2>1, <2>2, WithinMore
  <2> QED
    BY <1>6, <1>10, <1>12, <2>1, <2>3
<1>13. CASE a = 0 /\ b = 0
  <2>1. T[a][b] = 0
    BY <1>1, <1>13 DEF Table
  <2> QED
    BY <1>7, <1>10, <1>13, <2>1 DEF Within
<1>14. CASE a = 0 /\ b # 0
  <2>1. T[a][b] = b /\ T[a][b - 1] = b - 1 /\ b - 1 \in 0..1
    <3>1. b - 1 \in 0..Len(y) /\ b \in 0..Len(y)
      BY <1>1, <1>14
    <3>2. T[a][b] = b /\ T[a][b - 1] = b - 1
      BY <1>14, <3>1 DEF Table
    <3> QED
      BY <1>10, <1>14, <3>2
  <2>2. T[a][b] = (b - 1) + 1
    BY <1>14, <2>1
  <2> QED
    BY <1>12, <1>14, <2>1, <2>2
<1>15. CASE a # 0 /\ b = 0
  <2>1. T[a][b] = a /\ T[a - 1][b] = a - 1 /\ a - 1 \in 0..1
    <3>1. a - 1 \in 0..Len(x) /\ a \in 0..Len(x)
      BY <1>1, <1>15
    <3>2. T[a][b] = a /\ T[a - 1][b] = a - 1
      BY <1>15, <3>1 DEF Table
    <3> QED
      BY <1>10, <1>15, <3>2
  <2>2. T[a][b] = (a - 1) + 1
    BY <1>15, <2>1
  <2> QED
    BY <1>11, <1>15, <2>1, <2>2
<1>16. CASE a # 0 /\ b # 0
  <2>1. a \in 1..m /\ b \in 1..n /\ a - 1 \in 0..m /\ b - 1 \in 0..n
    BY <1>16
  <2>2. \/ T[a][b] = T[a - 1][b] + 1
        \/ T[a][b] = T[a][b - 1] + 1
        \/ T[a][b] = T[a - 1][b - 1] + Differ(x[a], y[b])
    BY <1>1, <2>1 DEF Table
  <2>3. T[a - 1][b] \in Nat /\ T[a][b - 1] \in Nat /\ T[a - 1][b - 1] \in Nat
    BY <1>8, <2>1
  <2>4. CASE T[a][b] = T[a - 1][b] + 1
    <3>1. T[a - 1][b] \in 0..1
      BY <1>10, <2>3, <2>4, SMTT(60)
    <3> QED
      BY <1>11, <1>16, <2>4, <3>1
  <2>5. CASE T[a][b] = T[a][b - 1] + 1
    <3>1. T[a][b - 1] \in 0..1
      BY <1>10, <2>3, <2>5, SMTT(60)
    <3> QED
      BY <1>12, <1>16, <2>5, <3>1
  <2>6. CASE T[a][b] = T[a - 1][b - 1] + Differ(x[a], y[b])
    <3>1. PICK k \in Nat : k = T[a - 1][b - 1]
      BY <2>3
    <3>2. (a - 1) + (b - 1) < s
      BY <1>4
    <3>3. X(a) = Append(X(a - 1), x[a]) /\ Y(b) = Append(Y(b - 1), y[b])
          /\ X(a - 1) \in Seq(Alphabet) /\ Y(b - 1) \in Seq(Alphabet)
          /\ x[a] \in Alphabet /\ y[b] \in Alphabet
      BY <1>6, <2>1
    <3>4. CASE x[a] = y[b]
      <4>1. T[a][b] = k /\ k \in 0..2
        BY <1>10, <2>6, <3>1, <3>4, SMTT(60) DEF Differ
      <4>2. Within(k, X(a - 1), Y(b - 1))
        BY <1>5, <2>1, <3>1, <3>2, <4>1, SMTT(60)
      <4>3. Within(k, Append(X(a - 1), x[a]), Append(Y(b - 1), x[a]))
        BY <3>3, <4>1, <4>2, WithinSame
      <4> QED
        BY <1>10, <3>3, <3>4, <4>1, <4>3
    <3>5. CASE x[a] # y[b]
      <4>1. T[a][b] = k + 1 /\ k \in 0..1
        <5>1. T[a][b] = k + 1
          BY <2>6, <3>1, <3>5 DEF Differ
        <5> QED
          BY <1>10, <5>1
      <4>2. Within(k, X(a - 1), Y(b - 1))
        BY <1>5, <2>1, <3>1, <3>2, <4>1, SMTT(60)
      <4>3. Within(k + 1, Append(X(a - 1), x[a]), Append(Y(b - 1), y[b]))
        BY <3>3, <4>1, <4>2, WithinMore
      <4> QED
        BY <1>10, <3>3, <4>1, <4>3
    <3> QED
      BY <3>4, <3>5
  <2> QED
    BY <2>2, <2>4, <2>5, <2>6
<1> QED
  BY <1>13, <1>14, <1>15, <1>16

(* The least of three.                                                     *)
LEMMA CellIs ==
  ASSUME NEW prev, NEW cur, NEW j, NEW same, prev[j + 1] \in Nat, cur[j] \in Nat, prev[j] \in Nat,
         NEW cost, cost = IF same THEN 0 ELSE 1, NEW cell, cell = NextCell(prev, cur, j, same)
  PROVE  /\ cell \in Nat
         /\ cell <= prev[j + 1] + 1 /\ cell <= cur[j] + 1 /\ cell <= prev[j] + cost
         /\ cell = prev[j + 1] + 1 \/ cell = cur[j] + 1 \/ cell = prev[j] + cost
<1>1. PICK p, q, r : p = prev[j + 1] + 1 /\ q = cur[j] + 1 /\ r = prev[j] + cost
  OBVIOUS
<1>2. p \in Nat /\ q \in Nat /\ r \in Nat
  BY <1>1
<1>3. cell = Min({p, q, r})
  BY <1>1 DEF NextCell
<1>4. PICK T : T = {p, q, r}
  OBVIOUS
<1>5. T \subseteq Nat /\ T # {}
  BY <1>2, <1>4
<1>6. Min(T) \in T /\ \A y \in T : Min(T) <= y
  BY <1>5, MinIs
<1>7. cell \in {p, q, r} /\ cell <= p /\ cell <= q /\ cell <= r
  BY <1>3, <1>4, <1>6
<1> QED
  BY <1>1, <1>2, <1>7

(* A row of the table, cell by cell.                                       *)
RowTo(row, j, prev, i, a, b) ==
  /\ row \in Seq(Nat) /\ Len(row) = j + 1 /\ row[1] = i
  /\ \A k \in 1..j : row[k + 1] = NextCell(prev, row, k, Lower(a[i]) = Lower(b[k]))

(* A cell is added.                                                        *)
LEMMA RowStep ==
  ASSUME NEW n \in Nat, NEW prev \in [1..(n + 1) -> Nat], NEW i \in Nat, NEW a, NEW b,
         NEW j \in 1..n, NEW row, RowTo(row, j - 1, prev, i, a, b), NEW next,
         next = Append(row, NextCell(prev, row, j, Lower(a[i]) = Lower(b[j])))
  PROVE  RowTo(next, j, prev, i, a, b)
<1>1. row \in Seq(Nat) /\ Len(row) = j /\ row[1] = i
  BY DEF RowTo
<1>2. \A k \in 1..(j - 1) : row[k + 1] = NextCell(prev, row, k, Lower(a[i]) = Lower(b[k]))
  BY DEF RowTo
<1>3. PICK cell : cell = NextCell(prev, row, j, Lower(a[i]) = Lower(b[j]))
  OBVIOUS
<1>4. cell \in Nat
  <2>1. prev[j + 1] \in Nat /\ prev[j] \in Nat /\ row[j] \in Nat
    BY <1>1
  <2> QED
    BY <1>3, <2>1, CellIs
<1>5. /\ next \in Seq(Nat) /\ Len(next) = j + 1 /\ next[j + 1] = cell
      /\ \A k \in 1..j : next[k] = row[k]
  BY <1>1, <1>3, <1>4, SMTT(60)
<1>6. \A k \in 1..j : next[k + 1] = NextCell(prev, next, k, Lower(a[i]) = Lower(b[k]))
  <2> TAKE k \in 1..j
  <2>1. NextCell(prev, next, k, Lower(a[i]) = Lower(b[k]))
          = NextCell(prev, row, k, Lower(a[i]) = Lower(b[k]))
    BY <1>5 DEF NextCell
  <2>2. CASE k = j
    BY <1>3, <1>5, <2>1, <2>2
  <2>3. CASE k # j
    <3>1. k \in 1..(j - 1) /\ k + 1 \in 1..j
      BY <2>3
    <3> QED
      BY <1>2, <1>5, <2>1, <3>1
  <2> QED
    BY <2>2, <2>3
<1>7. next[1] = i
  BY <1>1, <1>5
<1> QED
  BY <1>5, <1>6, <1>7 DEF RowTo

(* str_edit_distance_ci computes each row so.                              *)
LEMMA RowIs ==
  ASSUME NEW S, NEW b \in Seq(S), NEW n \in Nat, n = Len(b), NEW a, NEW i \in Nat,
         NEW prev \in [1..(n + 1) -> Nat]
  PROVE  RowTo(NextRow(prev, i, a, b), n, prev, i, a, b)
<1> DEFINE Cell(cur, j) == NextCell(prev, cur, j, Lower(a[i]) = Lower(b[j]))
           Rows == Seq(Nat)
           start == <<i>>
           step == [j \in 1..n |-> [cur \in Rows |->
                      IF Len(cur) = j THEN Append(cur, Cell(cur, j)) ELSE cur]]
           V(g) == [j \in 0..Len(b) |->
                      IF j = 0 THEN <<i>>
                      ELSE LET cur == g[j - 1]
                           IN Append(cur, NextCell(prev, cur, j, Lower(a[i]) = Lower(b[j])))]
<1>1. start \in Rows /\ Len(start) = 1 /\ start[1] = i
  OBVIOUS
<1>2. ASSUME NEW j \in 1..n, NEW cur \in Rows, Len(cur) = j
      PROVE  Append(cur, Cell(cur, j)) \in Rows /\ Len(Append(cur, Cell(cur, j))) = j + 1
  <2>1. prev[j + 1] \in Nat /\ prev[j] \in Nat /\ cur[j] \in Nat
    BY <1>2, SMTT(60)
  <2>2. PICK cell : cell = Cell(cur, j)
    OBVIOUS
  <2>3. cell \in Nat
    BY <2>1, <2>2, CellIs
  <2> HIDE DEF Cell
  <2> QED
    BY <1>2, <2>2, <2>3
<1> HIDE DEF Cell, Rows
<1>3. step \in [1..n -> [Rows -> Rows]]
  <2>1. \A j \in 1..n, cur \in Rows :
          (IF Len(cur) = j THEN Append(cur, Cell(cur, j)) ELSE cur) \in Rows
    BY <1>2
  <2> QED
    BY <2>1
<1> HIDE DEF start
<1>4. PICK f \in [0..n -> Rows] : Loops(f, n, start, step)
  <2> HIDE DEF step
  <2> QED
    BY <1>1, <1>3, LoopRuns
<1>5. /\ f[0] = start
      /\ \A j \in 1..n : f[j - 1] \in Rows /\ f[j] = step[j][f[j - 1]]
  <2>1. \A j \in 1..n : j - 1 \in 0..n
    OBVIOUS
  <2> HIDE DEF step
  <2> QED
    BY <1>4, <2>1 DEF Loops
<1>6. \A j \in 1..n : f[j] = IF Len(f[j - 1]) = j THEN Append(f[j - 1], Cell(f[j - 1], j)) ELSE f[j - 1]
  BY <1>5
<1> HIDE DEF step
<1>7. \A j \in 0..n : Len(f[j]) = j + 1
  <2> DEFINE B == {j \in 0..n : Len(f[j]) # j + 1}
  <2> SUFFICES ASSUME B # {} PROVE FALSE
    OBVIOUS
  <2>1. PICK j \in B : \A k \in B : j <= k
    <3>1. B \subseteq Nat
      OBVIOUS
    <3> HIDE DEF B
    <3> QED
      BY <3>1, FirstOf
  <2>2. j \in 0..n /\ Len(f[j]) # j + 1
    BY <2>1
  <2>3. j # 0
    <3>1. Len(f[0]) = 0 + 1
      BY <1>1, <1>5
    <3> QED
      BY <2>2, <3>1
  <2>4. j \in 1..n /\ j - 1 \in 0..n /\ ~(j <= j - 1)
    BY <2>2, <2>3
  <2>5. Len(f[j - 1]) = j
    BY <2>1, <2>4
  <2>6. f[j] = Append(f[j - 1], Cell(f[j - 1], j)) /\ f[j - 1] \in Rows
    BY <1>5, <1>6, <2>4, <2>5
  <2> QED
    BY <1>2, <2>2, <2>4, <2>5, <2>6
<1>8. f = V(f)
  <2>1. \A j \in 0..n : f[j] = IF j = 0 THEN <<i>> ELSE Append(f[j - 1], Cell(f[j - 1], j))
    <3> TAKE j \in 0..n
    <3>1. CASE j = 0
      BY <1>5, <3>1 DEF start
    <3>2. CASE j # 0
      <4>1. j \in 1..n /\ j - 1 \in 0..n
        BY <3>2
      <4>2. Len(f[j - 1]) = j
        BY <1>7, <4>1
      <4> QED
        BY <1>6, <3>2, <4>1, <4>2
    <3> QED
      BY <3>1, <3>2
  <2>2. f = [j \in 0..n |-> IF j = 0 THEN <<i>> ELSE Append(f[j - 1], Cell(f[j - 1], j))]
    BY <2>1
  <2>3. V(f) = [j \in 0..n |-> IF j = 0 THEN <<i>> ELSE Append(f[j - 1], Cell(f[j - 1], j))]
    BY DEF Cell
  <2> HIDE DEF V
  <2> QED
    BY <2>2, <2>3
<1>9. PICK g : g = CHOOSE h : h = V(h)
  OBVIOUS
<1>10. NextRow(prev, i, a, b) = g[n]
  BY <1>9 DEF NextRow
<1>11. g = V(g)
  <2> HIDE DEF V
  <2> QED
    BY <1>8, <1>9
<1>12. /\ g[0] = <<i>>
       /\ \A j \in 1..n : g[j] = Append(g[j - 1], NextCell(prev, g[j - 1], j, Lower(a[i]) = Lower(b[j])))
  <2>1. g = [j \in 0..n |-> IF j = 0 THEN <<i>>
               ELSE Append(g[j - 1], NextCell(prev, g[j - 1], j, Lower(a[i]) = Lower(b[j])))]
    BY <1>11
  <2>2. 0 \in 0..n /\ \A j \in 1..n : j \in 0..n /\ j # 0
    OBVIOUS
  <2> HIDE DEF V
  <2> QED
    BY <2>1, <2>2
<1> HIDE DEF V
<1> DEFINE B == {j \in 0..n : ~RowTo(g[j], j, prev, i, a, b)}
<1>13. RowTo(g[0], 0, prev, i, a, b)
  <2>1. <<i>> \in Seq(Nat) /\ Len(<<i>>) = 0 + 1 /\ <<i>>[1] = i /\ 1..0 = {}
    OBVIOUS
  <2> QED
    BY <1>12, <2>1 DEF RowTo
<1>14. B = {}
  <2> SUFFICES ASSUME B # {} PROVE FALSE
    OBVIOUS
  <2>1. PICK j \in B : \A k \in B : j <= k
    <3>1. B \subseteq Nat
      OBVIOUS
    <3> HIDE DEF B
    <3> QED
      BY <3>1, FirstOf
  <2>2. j \in 0..n /\ ~RowTo(g[j], j, prev, i, a, b)
    BY <2>1
  <2>3. j # 0
    BY <1>13, <2>2
  <2>4. j \in 1..n /\ j - 1 \in 0..n /\ ~(j <= j - 1)
    BY <2>2, <2>3
  <2>5. RowTo(g[j - 1], j - 1, prev, i, a, b)
    BY <2>1, <2>4
  <2>6. RowTo(g[j], j, prev, i, a, b)
    BY <1>12, <2>4, <2>5, RowStep
  <2> QED
    BY <2>2, <2>6
<1> QED
  BY <1>10, <1>14

(* The distance is the last cell of a table.                               *)
LEMMA DistanceIs ==
  ASSUME NEW R, NEW a \in Seq(R), NEW S, NEW b \in Seq(S)
  PROVE  \E T : /\ Table(T, Folded(a), Folded(b))
                /\ EditDistance(a, b) = T[Len(a)][Len(b)] /\ T[Len(a)][Len(b)] \in Nat
<1>0. PICK m \in Nat, n \in Nat : m = Len(a) /\ n = Len(b)
  OBVIOUS
<1> DEFINE x == Folded(a)
           y == Folded(b)
<1> HIDE DEF x, y
<1> DEFINE Rows == [1..(n + 1) -> Nat]
           start == [j \in 1..(n + 1) |-> j - 1]
           step == [i \in 1..m |-> [prev \in Rows |-> NextRow(prev, i, a, b)]]
           V(g) == [i \in 0..Len(a) |->
                      IF i = 0 THEN [j \in 1..(Len(b) + 1) |-> j - 1]
                      ELSE NextRow(g[i - 1], i, a, b)]
<1>1. ASSUME NEW i \in 1..m, NEW prev \in Rows
      PROVE  NextRow(prev, i, a, b) \in Rows /\ RowTo(NextRow(prev, i, a, b), n, prev, i, a, b)
  <2>1. RowTo(NextRow(prev, i, a, b), n, prev, i, a, b)
    BY <1>0, RowIs, SMTT(60)
  <2>2. PICK row : row = NextRow(prev, i, a, b)
    OBVIOUS
  <2>3. row \in Seq(Nat) /\ Len(row) = n + 1
    BY <2>1, <2>2 DEF RowTo
  <2>4. row \in [1..(n + 1) -> Nat]
    BY <2>3
  <2> QED
    BY <2>1, <2>2, <2>4
<1>2. start \in Rows
  OBVIOUS
<1> HIDE DEF Rows, start
<1>3. step \in [1..m -> [Rows -> Rows]]
  BY <1>1
<1>4. PICK f \in [0..m -> Rows] : Loops(f, m, start, step)
  <2> HIDE DEF step
  <2> QED
    BY <1>2, <1>3, LoopRuns
<1>5. f = V(f)
  <2>1. f = [i \in 0..m |-> IF i = 0 THEN start ELSE step[i][f[i - 1]]]
    BY <1>4 DEF Loops
  <2>2. \A i \in 0..m : i # 0 => i \in 1..m /\ f[i - 1] \in Rows
    BY <1>4
  <2>3. \A i \in 0..m : i # 0 => step[i][f[i - 1]] = NextRow(f[i - 1], i, a, b)
    BY <2>2
  <2>4. f = [i \in 0..m |-> IF i = 0 THEN start ELSE NextRow(f[i - 1], i, a, b)]
    BY <2>1, <2>3
  <2>5. V(f) = [i \in 0..m |-> IF i = 0 THEN start ELSE NextRow(f[i - 1], i, a, b)]
    BY <1>0 DEF start
  <2> QED
    BY <2>4, <2>5
<1>6. PICK g : g = CHOOSE h : h = V(h)
  OBVIOUS
<1>7. EditDistance(a, b) = g[m][n + 1]
  BY <1>0, <1>6 DEF EditDistance
<1>8. g = V(g)
  BY <1>5, <1>6
<1>9. g = [i \in 0..m |-> IF i = 0 THEN start ELSE NextRow(g[i - 1], i, a, b)]
  BY <1>0, <1>8 DEF start
<1> HIDE DEF V
<1>10. g[0] = start /\ \A i \in 1..m : g[i] = NextRow(g[i - 1], i, a, b)
  BY <1>9
<1>11. g \in [0..m -> Rows]
  <2> DEFINE B == {i \in 0..m : g[i] \notin Rows}
  <2>1. B = {}
    <3> SUFFICES ASSUME B # {} PROVE FALSE
      OBVIOUS
    <3>1. PICK i \in B : \A k \in B : i <= k
      <4>1. B \subseteq Nat
        OBVIOUS
      <4> HIDE DEF B
      <4> QED
        BY <4>1, FirstOf
    <3>2. i \in 0..m /\ g[i] \notin Rows
      BY <3>1
    <3>3. i \in 1..m /\ i - 1 \in 0..m /\ ~(i <= i - 1)
      BY <1>2, <1>10, <3>2
    <3>4. g[i - 1] \in Rows
      BY <3>1, <3>3
    <3> QED
      BY <1>1, <1>10, <3>2, <3>3, <3>4
  <2> QED
    BY <1>9, <2>1
<1>12. \A i \in 1..m : RowTo(g[i], n, g[i - 1], i, a, b)
  <2> TAKE i \in 1..m
  <2>1. i - 1 \in 0..m
    OBVIOUS
  <2>2. g[i - 1] \in Rows
    BY <1>11, <2>1
  <2> QED
    BY <1>1, <1>10, <2>2
<1> DEFINE T == [i \in 0..m |-> [j \in 0..n |-> g[i][j + 1]]]
<1>13. \A i \in 0..m, j \in 0..n : T[i][j] = g[i][j + 1] /\ T[i][j] \in Nat
  <2> TAKE i \in 0..m, j \in 0..n
  <2>1. g[i] \in Rows /\ j + 1 \in 1..(n + 1)
    BY <1>11
  <2> QED
    BY <2>1 DEF Rows
<1>14. T \in [0..m -> [0..n -> Nat]]
  <2>1. \A i \in 0..m : [j \in 0..n |-> g[i][j + 1]] \in [0..n -> Nat]
    BY <1>13
  <2> QED
    BY <2>1
<1> HIDE DEF T, step
<1>15. \A i \in 0..m : T[i][0] = i
  <2> TAKE i \in 0..m
  <2>1. T[i][0] = g[i][1]
    <3>1. 0 \in 0..n /\ 0 + 1 = 1
      OBVIOUS
    <3> QED
      BY <1>13, <3>1
  <2>2. CASE i = 0
    BY <1>10, <2>1, <2>2 DEF start
  <2>3. CASE i # 0
    <3>1. i \in 1..m
      BY <2>3
    <3> QED
      BY <1>12, <2>1, <3>1 DEF RowTo
  <2> QED
    BY <2>2, <2>3
<1>16. \A j \in 0..n : T[0][j] = j
  <2> TAKE j \in 0..n
  <2>1. 0 \in 0..m /\ j + 1 \in 1..(n + 1) /\ (j + 1) - 1 = j
    OBVIOUS
  <2>2. T[0][j] = start[j + 1]
    BY <1>10, <1>13, <2>1
  <2> QED
    BY <2>1, <2>2 DEF start
<1>17. ASSUME NEW i \in 1..m, NEW j \in 1..n
       PROVE  /\ T[i][j] <= T[i - 1][j] + 1
              /\ T[i][j] <= T[i][j - 1] + 1
              /\ T[i][j] <= T[i - 1][j - 1] + Differ(x[i], y[j])
              /\ \/ T[i][j] = T[i - 1][j] + 1
                 \/ T[i][j] = T[i][j - 1] + 1
                 \/ T[i][j] = T[i - 1][j - 1] + Differ(x[i], y[j])
  <2>1. i - 1 \in 0..m /\ i \in 0..m /\ j - 1 \in 0..n /\ j \in 0..n /\ (j - 1) + 1 = j
    OBVIOUS
  <2>2. PICK prev, cur : prev = g[i - 1] /\ cur = g[i]
    OBVIOUS
  <2>3. /\ T[i][j] = cur[j + 1] /\ T[i - 1][j] = prev[j + 1]
        /\ T[i][j - 1] = cur[j] /\ T[i - 1][j - 1] = prev[j]
    <3>1. T[i][j] = g[i][j + 1] /\ T[i - 1][j] = g[i - 1][j + 1]
      BY <1>13, <2>1
    <3>2. T[i][j - 1] = g[i][(j - 1) + 1] /\ T[i - 1][j - 1] = g[i - 1][(j - 1) + 1]
      BY <1>13, <2>1
    <3>3. (j - 1) + 1 = j
      BY <2>1
    <3>4. T[i][j - 1] = g[i][j] /\ T[i - 1][j - 1] = g[i - 1][j]
      BY <3>2, <3>3, Zenon
    <3> QED
      BY <2>2, <3>1, <3>4
  <2>4. prev[j + 1] \in Nat /\ cur[j] \in Nat /\ prev[j] \in Nat
    BY <1>13, <2>1, <2>3
  <2>5. x[i] = Lower(a[i]) /\ y[j] = Lower(b[j])
    <3>1. i \in DOMAIN a /\ j \in DOMAIN b
      BY <1>0
    <3> QED
      BY <1>0, <3>1 DEF Folded, x, y
  <2>6. cur[j + 1] = NextCell(prev, cur, j, Lower(a[i]) = Lower(b[j]))
    BY <1>12, <2>2 DEF RowTo
  <2>7. PICK same : same = (Lower(a[i]) = Lower(b[j]))
    OBVIOUS
  <2>8. Differ(x[i], y[j]) = IF same THEN 0 ELSE 1
    BY <2>5, <2>7 DEF Differ
  <2>9. PICK cell, cost : cell = NextCell(prev, cur, j, same) /\ cost = IF same THEN 0 ELSE 1
    OBVIOUS
  <2>10. /\ cell <= prev[j + 1] + 1 /\ cell <= cur[j] + 1 /\ cell <= prev[j] + cost
         /\ cell = prev[j + 1] + 1 \/ cell = cur[j] + 1 \/ cell = prev[j] + cost
    BY <2>4, <2>9, CellIs, SMTT(60)
  <2>11. T[i][j] = cell /\ Differ(x[i], y[j]) = cost
    BY <2>3, <2>6, <2>7, <2>8, <2>9
  <2> QED
    BY <2>3, <2>10, <2>11
<1>18. Len(x) = m /\ Len(y) = n
  BY <1>0 DEF Folded, x, y
<1>19. Table(T, x, y)
  BY <1>14, <1>15, <1>16, <1>17, <1>18 DEF Table
<1>20. m \in 0..m /\ n \in 0..n
  OBVIOUS
<1> QED
  BY <1>0, <1>7, <1>13, <1>19, <1>20 DEF x, y

(* A step to the right, down or back changes a cell by one at most.        *)
LEMMA TableSteps ==
  ASSUME NEW T, NEW x, NEW y, NEW m \in Nat, NEW n \in Nat, m = Len(x), n = Len(y), Table(T, x, y)
  PROVE  /\ \A i \in 0..m, j \in 0..n : T[i][j] \in Nat
         /\ \A i \in 0..m, j \in 1..n : T[i][j] <= T[i][j - 1] + 1
         /\ \A i \in 1..m, j \in 0..n : T[i][j] <= T[i - 1][j] + 1
         /\ \A i \in 0..m, j \in 1..n : T[i][j - 1] <= T[i][j] + 1
<1>1. \A i \in 0..m, j \in 0..n : T[i][j] \in Nat
  <2>1. T \in [0..m -> [0..n -> Nat]]
    BY DEF Table
  <2> QED
    BY <2>1
<1>2. (\A i \in 0..m : T[i][0] = i) /\ (\A j \in 0..n : T[0][j] = j)
  BY DEF Table
<1>3. \A i \in 1..m, j \in 1..n :
        /\ T[i][j] <= T[i - 1][j] + 1
        /\ T[i][j] <= T[i][j - 1] + 1
        /\ T[i][j] <= T[i - 1][j - 1] + Differ(x[i], y[j])
        /\ \/ T[i][j] = T[i - 1][j] + 1
           \/ T[i][j] = T[i][j - 1] + 1
           \/ T[i][j] = T[i - 1][j - 1] + Differ(x[i], y[j])
  BY DEF Table
<1>4. ASSUME NEW i \in 0..m, NEW j \in 1..n
      PROVE  T[i][j] <= T[i][j - 1] + 1
  <2>1. CASE i = 0
    <3>1. j \in 0..n /\ j - 1 \in 0..n
      OBVIOUS
    <3>2. T[0][j] = j /\ T[0][j - 1] = j - 1
      BY <1>2, <3>1
    <3> QED
      BY <2>1, <3>2
  <2>2. CASE i # 0
    <3>1. i \in 1..m
      BY <2>2
    <3> QED
      BY <1>3, <3>1
  <2> QED
    BY <2>1, <2>2
<1>5. ASSUME NEW i \in 1..m, NEW j \in 0..n
      PROVE  T[i][j] <= T[i - 1][j] + 1
  <2>1. CASE j = 0
    <3>1. i \in 0..m /\ i - 1 \in 0..m
      OBVIOUS
    <3>2. T[i][0] = i /\ T[i - 1][0] = i - 1
      BY <1>2, <3>1
    <3> QED
      BY <2>1, <3>2
  <2>2. CASE j # 0
    <3>1. j \in 1..n
      BY <2>2
    <3> QED
      BY <1>3, <3>1
  <2> QED
    BY <2>1, <2>2
<1>6. ASSUME NEW j \in 1..n
      PROVE  \A i \in 0..m : T[i][j - 1] <= T[i][j] + 1
  <2> DEFINE B == {i \in 0..m : ~(T[i][j - 1] <= T[i][j] + 1)}
  <2> SUFFICES ASSUME B # {} PROVE FALSE
    OBVIOUS
  <2>1. PICK i \in B : \A k \in B : i <= k
    <3>1. B \subseteq Nat
      OBVIOUS
    <3> HIDE DEF B
    <3> QED
      BY <3>1, FirstOf
  <2>2. i \in 0..m /\ ~(T[i][j - 1] <= T[i][j] + 1)
    BY <2>1
  <2>3. j \in 0..n /\ j - 1 \in 0..n
    OBVIOUS
  <2>4. i # 0
    <3>1. T[0][j] = j /\ T[0][j - 1] = j - 1
      BY <1>2, <2>3
    <3> QED
      BY <2>2, <2>3, <3>1
  <2>5. i \in 1..m /\ i - 1 \in 0..m /\ ~(i <= i - 1)
    BY <2>2, <2>4
  <2>6. T[i - 1][j - 1] <= T[i - 1][j] + 1
    BY <2>1, <2>5
  <2>7. T[i][j - 1] <= T[i - 1][j - 1] + 1
    BY <1>5, <2>3, <2>5
  <2>8. PICK a, b, c, d : a = T[i][j] /\ b = T[i][j - 1] /\ c = T[i - 1][j - 1] /\ d = T[i - 1][j]
    OBVIOUS
  <2>9. a \in Nat /\ b \in Nat /\ c \in Nat /\ d \in Nat
    BY <1>1, <2>2, <2>3, <2>5, <2>8
  <2>10. a = d + 1 \/ a = b + 1 \/ a = c + Differ(x[i], y[j])
    BY <1>3, <2>5, <2>8
  <2>11. Differ(x[i], y[j]) \in {0, 1}
    BY DEF Differ
  <2>12. c <= d + 1 /\ b <= c + 1 /\ ~(b <= a + 1)
    BY <2>2, <2>6, <2>7, <2>8
  <2> QED
    BY <2>9, <2>10, <2>11, <2>12, SMTT(60)
<1> QED
  BY <1>1, <1>4, <1>5, <1>6

(* A column of one table is above one of another by no more than e.        *)
Above(T, U, m, j, k, e) == \A i \in 0..m : T[i][j] <= U[i][k] + e

(* So are the next columns of the tables of one text with two others, when *)
(* their characters are the same or there is a distance to spare.          *)
LEMMA ColumnStep ==
  ASSUME NEW x, NEW y, NEW z, NEW T, NEW U, NEW m \in Nat, NEW n \in Nat, NEW l \in Nat,
         m = Len(x), n = Len(y), l = Len(z), Table(T, x, y), Table(U, x, z),
         NEW j \in 1..n, NEW k \in 1..l, NEW d \in Nat, NEW e \in Nat,
         Above(T, U, m, j - 1, k - 1, d), j <= k + e, (d = e /\ y[j] = z[k]) \/ d < e
  PROVE  Above(T, U, m, j, k, e)
<1> DEFINE B == {i \in 0..m : ~(T[i][j] <= U[i][k] + e)}
<1> SUFFICES ASSUME B # {} PROVE FALSE
  BY DEF Above
<1>1. PICK i \in B : \A h \in B : i <= h
  <2>1. B \subseteq Nat
    OBVIOUS
  <2> HIDE DEF B
  <2> QED
    BY <2>1, FirstOf
<1>2. i \in 0..m /\ ~(T[i][j] <= U[i][k] + e)
  BY <1>1
<1>3. j \in 0..n /\ j - 1 \in 0..n /\ k \in 0..l /\ k - 1 \in 0..l
  OBVIOUS
<1>4. i # 0
  <2>1. T[0][j] = j /\ U[0][k] = k
    BY <1>3 DEF Table
  <2> QED
    BY <1>2, <2>1
<1>5. i \in 1..m /\ i - 1 \in 0..m /\ ~(i <= i - 1)
  BY <1>2, <1>4, SMTT(60)
<1>6. /\ \A a \in 0..m, b \in 0..n : T[a][b] \in Nat
      /\ \A a \in 0..m, b \in 0..l : U[a][b] \in Nat
  <2>1. \A a \in 0..m, b \in 0..n : T[a][b] \in Nat
    BY TableSteps
  <2>2. \A a \in 0..m, b \in 0..l : U[a][b] \in Nat
    BY TableSteps
  <2> QED
    BY <2>1, <2>2
<1>7. PICK t, tu, tl, td : t = T[i][j] /\ tu = T[i - 1][j] /\ tl = T[i][j - 1] /\ td = T[i - 1][j - 1]
  OBVIOUS
<1>8. PICK u, uu, ul, ud : u = U[i][k] /\ uu = U[i - 1][k] /\ ul = U[i][k - 1] /\ ud = U[i - 1][k - 1]
  OBVIOUS
<1>9. /\ t \in Nat /\ tu \in Nat /\ tl \in Nat /\ td \in Nat
      /\ u \in Nat /\ uu \in Nat /\ ul \in Nat /\ ud \in Nat
  BY <1>2, <1>3, <1>5, <1>6, <1>7, <1>8
<1>10. t <= tu + 1 /\ t <= tl + 1 /\ t <= td + Differ(x[i], y[j])
  BY <1>5, <1>7 DEF Table
<1>11. u = uu + 1 \/ u = ul + 1 \/ u = ud + Differ(x[i], z[k])
  BY <1>5, <1>8 DEF Table
<1>12. tu <= uu + e
  BY <1>1, <1>5, <1>7, <1>8
<1>13. tl <= ul + d /\ td <= ud + d
  BY <1>2, <1>5, <1>7, <1>8 DEF Above
<1>14. /\ Differ(x[i], y[j]) \in {0, 1} /\ Differ(x[i], z[k]) \in {0, 1}
       /\ d <= e /\ (d = e => Differ(x[i], y[j]) = Differ(x[i], z[k]))
  BY DEF Differ
<1>15. ~(t <= u + e)
  BY <1>2, <1>7, <1>8
<1> QED
  BY <1>9, <1>10, <1>11, <1>12, <1>13, <1>14, <1>15, SMTT(60)

(* And as many more as go on with the same characters.                     *)
LEMMA ColumnsFrom ==
  ASSUME NEW x, NEW y, NEW z, NEW T, NEW U, NEW m \in Nat, NEW n \in Nat, NEW l \in Nat,
         m = Len(x), n = Len(y), l = Len(z), Table(T, x, y), Table(U, x, z),
         NEW j \in Nat, NEW k \in Nat, NEW w \in Nat, j + w <= n, k + w <= l,
         NEW e \in Nat, j <= k + e, Above(T, U, m, j, k, e),
         \A d \in 1..w : y[j + d] = z[k + d]
  PROVE  Above(T, U, m, j + w, k + w, e)
<1> DEFINE B == {d \in 0..w : ~Above(T, U, m, j + d, k + d, e)}
<1>1. SUFFICES ASSUME B # {} PROVE FALSE
  <2>1. w \in 0..w
    OBVIOUS
  <2>2. ~Above(T, U, m, j + w, k + w, e) => w \in B
    BY <2>1
  <2> HIDE DEF B
  <2> QED
    BY <2>2
<1>2. PICK d \in B : \A c \in B : d <= c
  <2>1. B \subseteq Nat
    OBVIOUS
  <2> HIDE DEF B
  <2> QED
    BY <1>1, <2>1, FirstOf
<1>3. d \in 0..w /\ ~Above(T, U, m, j + d, k + d, e)
  BY <1>2
<1>4. d # 0
  <2>1. j + 0 = j /\ k + 0 = k
    OBVIOUS
  <2> QED
    BY <1>3, <2>1
<1>5. d \in 1..w /\ d - 1 \in 0..w /\ ~(d <= d - 1)
  BY <1>3, <1>4
<1>6. Above(T, U, m, j + (d - 1), k + (d - 1), e)
  BY <1>2, <1>5
<1>7. PICK a, b : a = j + d /\ b = k + d
  OBVIOUS
<1>8. /\ a \in 1..n /\ b \in 1..l /\ j + (d - 1) = a - 1 /\ k + (d - 1) = b - 1
      /\ a <= b + e /\ y[a] = z[b]
  BY <1>5, <1>7
<1>9. Above(T, U, m, a - 1, b - 1, e)
  BY <1>6, <1>8
<1>10. Above(T, U, m, a, b, e)
  BY <1>8, <1>9, ColumnStep
<1> QED
  BY <1>3, <1>7, <1>10

(* An edit of the second text changes no distance by more than one.        *)
LEMMA EditNear ==
  ASSUME NEW x, NEW m \in Nat, m = Len(x),
         NEW y \in Seq(Alphabet), NEW n \in Nat, n = Len(y),
         NEW z \in Edits({y}), NEW l \in Nat, l = Len(z),
         NEW T, Table(T, x, y), NEW U, Table(U, x, z)
  PROVE  T[m][n] <= U[m][l] + 1
<1>1. PICK p \in Nat : Removed(z, y, p) \/ Replaced(z, y, p) \/ Removed(y, z, p)
  BY EditIs
<1>2. Above(T, U, m, 0, 0, 0)
  <2>1. \A i \in 0..m : T[i][0] = i /\ U[i][0] = i
    BY DEF Table
  <2> QED
    BY <2>1 DEF Above
<1>3. SUFFICES Above(T, U, m, n, l, 1)
  BY DEF Above
<1>4. /\ \A a \in 0..m, b \in 0..n : T[a][b] \in Nat
      /\ \A a \in 0..m, b \in 1..n : T[a][b] <= T[a][b - 1] + 1
  BY TableSteps
<1>5. /\ \A a \in 0..m, b \in 0..l : U[a][b] \in Nat
      /\ \A a \in 0..m, b \in 1..l : U[a][b - 1] <= U[a][b] + 1
  BY TableSteps
<1>6. CASE Replaced(z, y, p)
  <2>1. p \in 1..n /\ l = n /\ \A k \in 1..n : k # p => z[k] = y[k]
    BY <1>6 DEF Replaced
  <2>2. PICK o \in Nat, w \in Nat : o = p - 1 /\ w = n - p
    <3>1. p - 1 \in Nat /\ n - p \in Nat
      BY <2>1
    <3> QED
      BY <3>1
  <2>3. \A d \in 1..o : y[0 + d] = z[0 + d]
    BY <2>1, <2>2
  <2>4. 0 + o <= n /\ 0 + o <= l /\ 0 <= 0 + 0
    BY <2>1, <2>2
  <2>5. Above(T, U, m, 0 + o, 0 + o, 0)
    BY <1>2, <2>3, <2>4, ColumnsFrom, ZenonT(60)
  <2>6. 0 + o = p - 1 /\ p <= p + 1 /\ 0 < 1 /\ p \in 1..l
    BY <2>1, <2>2
  <2>7. Above(T, U, m, p - 1, p - 1, 0)
    BY <2>5, <2>6
  <2>8. Above(T, U, m, p, p, 1)
    BY <2>1, <2>6, <2>7, ColumnStep
  <2>9. \A d \in 1..w : y[p + d] = z[p + d]
    BY <2>1, <2>2
  <2>10. p + w = n /\ p + w = l /\ p + w <= n /\ p + w <= l /\ p <= p + 1
    BY <2>1, <2>2
  <2>12. p \in Nat /\ w \in Nat /\ 1 \in Nat
    BY <2>1, <2>2
  <2>11. Above(T, U, m, p + w, p + w, 1)
    BY <1>2, <2>8, <2>9, <2>10, <2>12, ColumnsFrom, ZenonT(60)
  <2> QED
    BY <2>10, <2>11
<1>7. CASE Removed(z, y, p)
  <2>1. p \in 1..n /\ l = n - 1 /\ \A k \in 1..l : z[k] = IF k < p THEN y[k] ELSE y[k + 1]
    BY <1>7 DEF Removed
  <2>2. PICK o \in Nat, w \in Nat : o = p - 1 /\ w = n - p
    <3>1. p - 1 \in Nat /\ n - p \in Nat
      BY <2>1
    <3> QED
      BY <3>1
  <2>3. \A d \in 1..o : y[0 + d] = z[0 + d]
    <3> TAKE d \in 1..o
    <3>1. 0 + d = d /\ d \in 1..l /\ d < p
      BY <2>1, <2>2
    <3> QED
      BY <2>1, <3>1
  <2>4. 0 + o <= n /\ 0 + o <= l /\ 0 <= 0 + 0
    BY <2>1, <2>2
  <2>5. Above(T, U, m, 0 + o, 0 + o, 0)
    BY <1>2, <2>3, <2>4, ColumnsFrom, ZenonT(60)
  <2>6. Above(T, U, m, p, o, 1)
    <3> SUFFICES ASSUME NEW i \in 0..m PROVE T[i][p] <= U[i][o] + 1
      BY DEF Above
    <3>1. 0 + o = o /\ p - 1 = o /\ o \in 0..l /\ p \in 0..n /\ o \in 0..n
      BY <2>1, <2>2
    <3>2. T[i][o] <= U[i][o] + 0
      BY <2>5, <3>1 DEF Above
    <3>3. T[i][p] <= T[i][p - 1] + 1
      BY <1>4, <2>1
    <3>4. T[i][p] \in Nat /\ T[i][o] \in Nat /\ U[i][o] \in Nat /\ T[i][p] <= T[i][o] + 1
      BY <1>4, <1>5, <3>1, <3>3
    <3>5. PICK a, b, c : a = T[i][p] /\ b = T[i][o] /\ c = U[i][o]
      OBVIOUS
    <3>6. a \in Nat /\ b \in Nat /\ c \in Nat /\ a <= b + 1 /\ b <= c + 0
      BY <3>2, <3>4, <3>5
    <3>7. a <= c + 1
      BY <3>6
    <3> QED
      BY <3>5, <3>7, Zenon
  <2>7. \A d \in 1..w : y[p + d] = z[o + d]
    <3> TAKE d \in 1..w
    <3>1. PICK k : k = o + d
      OBVIOUS
    <3>2. k \in 1..l /\ ~(k < p) /\ k + 1 = p + d
      BY <2>1, <2>2, <3>1
    <3> QED
      BY <2>1, <3>1, <3>2
  <2>8. p + w = n /\ o + w = l /\ p + w <= n /\ o + w <= l /\ p <= o + 1
    BY <2>1, <2>2
  <2>9. Above(T, U, m, p + w, o + w, 1)
    BY <2>6, <2>7, <2>8, ColumnsFrom, ZenonT(60)
  <2> QED
    BY <2>8, <2>9
<1>8. CASE Removed(y, z, p)
  <2>1. p \in 1..l /\ n = l - 1 /\ \A k \in 1..n : y[k] = IF k < p THEN z[k] ELSE z[k + 1]
    BY <1>8 DEF Removed
  <2>2. PICK o \in Nat, w \in Nat : o = p - 1 /\ w = l - p
    <3>1. p - 1 \in Nat /\ l - p \in Nat
      BY <2>1
    <3> QED
      BY <3>1
  <2>3. \A d \in 1..o : y[0 + d] = z[0 + d]
    <3> TAKE d \in 1..o
    <3>1. 0 + d = d /\ d \in 1..n /\ d < p
      BY <2>1, <2>2
    <3> QED
      BY <2>1, <3>1
  <2>4. 0 + o <= n /\ 0 + o <= l /\ 0 <= 0 + 0
    BY <2>1, <2>2
  <2>5. Above(T, U, m, 0 + o, 0 + o, 0)
    BY <1>2, <2>3, <2>4, ColumnsFrom, ZenonT(60)
  <2>6. Above(T, U, m, o, p, 1)
    <3> SUFFICES ASSUME NEW i \in 0..m PROVE T[i][o] <= U[i][p] + 1
      BY DEF Above
    <3>1. 0 + o = o /\ p - 1 = o /\ o \in 0..l /\ p \in 0..l /\ o \in 0..n
      BY <2>1, <2>2
    <3>2. T[i][o] <= U[i][o] + 0
      BY <2>5, <3>1 DEF Above
    <3>3. U[i][p - 1] <= U[i][p] + 1
      BY <1>5, <2>1
    <3>4. T[i][o] \in Nat /\ U[i][p] \in Nat /\ U[i][o] \in Nat /\ U[i][o] <= U[i][p] + 1
      BY <1>4, <1>5, <3>1, <3>3
    <3> QED
      BY <3>2, <3>4, SMTT(60)
  <2>7. \A d \in 1..w : y[o + d] = z[p + d]
    <3> TAKE d \in 1..w
    <3>1. PICK k : k = o + d
      OBVIOUS
    <3>2. k \in 1..n /\ ~(k < p) /\ k + 1 = p + d
      BY <2>1, <2>2, <3>1
    <3> QED
      BY <2>1, <3>1, <3>2
  <2>8. o + w = n /\ p + w = l /\ o + w <= n /\ p + w <= l /\ o <= p + 1
    BY <2>1, <2>2
  <2>9. Above(T, U, m, o + w, p + w, 1)
    BY <2>6, <2>7, <2>8, ColumnsFrom, ZenonT(60)
  <2> QED
    BY <2>8, <2>9
<1> QED
  BY <1>1, <1>6, <1>7, <1>8

(* A text is at no distance from itself.                                   *)
LEMMA SameNear ==
  ASSUME NEW x, NEW m \in Nat, m = Len(x), NEW T, Table(T, x, x)
  PROVE  T[m][m] = 0
<1> DEFINE B == {i \in 0..m : T[i][i] # 0}
<1>1. SUFFICES ASSUME B # {} PROVE FALSE
  <2>1. m \in 0..m
    OBVIOUS
  <2> QED
    BY <2>1
<1>2. PICK i \in B : \A k \in B : i <= k
  <2>1. B \subseteq Nat
    OBVIOUS
  <2> HIDE DEF B
  <2> QED
    BY <1>1, <2>1, FirstOf
<1>3. i \in 0..m /\ T[i][i] # 0
  BY <1>2
<1>4. i # 0
  <2>1. 0 \in 0..m
    OBVIOUS
  <2>2. T[0][0] = 0
    BY <2>1 DEF Table
  <2> QED
    BY <1>3, <2>2
<1>5. i \in 1..m /\ i - 1 \in 0..m /\ ~(i <= i - 1)
  BY <1>3, <1>4
<1>6. T[i - 1][i - 1] = 0
  BY <1>2, <1>5
<1>7. T[i][i] <= T[i - 1][i - 1] + Differ(x[i], x[i])
  BY <1>5 DEF Table
<1>8. Differ(x[i], x[i]) = 0
  BY DEF Differ
<1>9. T[i][i] \in Nat
  BY <1>3, TableSteps
<1> QED
  BY <1>3, <1>6, <1>7, <1>8, <1>9

(* A text of the alphabet is as it is compared.                            *)
LEMMA FoldedIs ==
  ASSUME NEW w \in Seq(Alphabet)
  PROVE  Folded(w) = w
<1>1. \A i \in DOMAIN w : Lower(w[i]) = w[i]
  BY CaseAssumption
<1>2. w = [i \in DOMAIN w |-> w[i]]
  OBVIOUS
<1>3. [i \in DOMAIN w |-> Lower(w[i])] = [i \in DOMAIN w |-> w[i]]
  BY <1>1
<1> QED
  BY <1>2, <1>3 DEF Folded

(* There is a table for any two texts.                                     *)
LEMMA TableExists ==
  ASSUME NEW x \in Seq(Alphabet), NEW y \in Seq(Alphabet)
  PROVE  \E T : Table(T, x, y)
<1>1. PICK T : Table(T, Folded(x), Folded(y))
  BY DistanceIs
<1>2. Folded(x) = x /\ Folded(y) = y
  BY FoldedIs
<1> QED
  BY <1>1, <1>2

(* No table counts more than the edits there are.                          *)
LEMMA TableLeast ==
  ASSUME NEW x \in Seq(Alphabet), NEW y \in Seq(Alphabet), NEW T, Table(T, x, y)
  PROVE  /\ x = y => T[Len(x)][Len(y)] = 0
         /\ x \in Edits({y}) => T[Len(x)][Len(y)] <= 1
         /\ x \in Edits(Edits({y})) => T[Len(x)][Len(y)] <= 2
<1>0. PICK m \in Nat, n \in Nat : m = Len(x) /\ n = Len(y)
  OBVIOUS
<1>1. x = y => T[m][n] = 0
  BY <1>0, SameNear
<1>2. PICK U : Table(U, x, x)
  BY TableExists
<1>3. U[m][m] = 0
  BY <1>0, <1>2, SameNear
<1>4. ASSUME NEW z \in Seq(Alphabet), x \in Edits({z}), NEW V, Table(V, x, z),
             NEW l \in Nat, l = Len(z)
      PROVE  V[m][l] <= 1
  <2>1. V[m][l] <= U[m][m] + 1
    BY <1>0, <1>2, <1>4, EditNear
  <2> QED
    BY <1>3, <2>1
<1>5. ASSUME x \in Edits(Edits({y}))
      PROVE  T[m][n] <= 2
  <2>1. PICK w \in Edits({y}) : x \in Edits({w})
    BY <1>5, EditsOf
  <2>2. w \in Seq(Alphabet)
    BY EditIs
  <2>3. PICK l \in Nat : l = Len(w)
    BY <2>2
  <2>4. PICK V : Table(V, x, w)
    BY <2>2, TableExists
  <2>5. V[m][l] <= 1
    BY <1>4, <2>1, <2>2, <2>3, <2>4
  <2>6. T[m][n] <= V[m][l] + 1
    BY <1>0, <2>3, <2>4, EditNear
  <2>7. T[m][n] \in Nat /\ V[m][l] \in Nat
    <3>1. m \in 0..m /\ n \in 0..n /\ l \in 0..l
      OBVIOUS
    <3>2. T[m][n] \in Nat
      BY <1>0, <3>1, TableSteps
    <3>3. V[m][l] \in Nat
      BY <1>0, <2>3, <2>4, <3>1, TableSteps
    <3> QED
      BY <3>2, <3>3
  <2>8. PICK t, v : t = T[m][n] /\ v = V[m][l]
    OBVIOUS
  <2>9. t <= 2
    BY <2>5, <2>6, <2>7, <2>8, SMTT(60)
  <2> QED
    BY <2>8, <2>9, Zenon
<1>6. ASSUME x \in Edits({y})
      PROVE  T[m][n] <= 1
  BY <1>0, <1>4, <1>6
<1> QED
  BY <1>0, <1>1, <1>5, <1>6

(* A text that is not empty is also what an edit makes of it.              *)
LEMMA EditSelf ==
  ASSUME NEW y \in Seq(Alphabet), y # <<>>
  PROVE  /\ y \in Edits({y}) /\ Edits({y}) \subseteq Edits(Edits({y}))
<1>1. 1 \in 1..Len(y)
  OBVIOUS
<1>2. Replaced(y, y, 1)
  BY <1>1 DEF Replaced
<1>3. 1 \in Nat
  OBVIOUS
<1>4. y \in Edits({y})
  BY <1>2, <1>3, EditIs
<1>5. ASSUME NEW z \in Edits({y})
      PROVE  z \in Edits(Edits({y}))
  BY <1>4, EditsOf
<1> QED
  BY <1>4, <1>5

(* The distance of two texts up to two is the number of edits it takes.    *)
THEOREM DistanceCounts ==
  ASSUME NEW R, NEW a \in Seq(R), NEW S, NEW b \in Seq(S),
         Folded(a) \in Seq(Alphabet), Folded(b) \in Seq(Alphabet), b # <<>>
  PROVE  /\ EditDistance(a, b) \in Nat
         /\ EditDistance(a, b) = 0 <=> Folded(a) = Folded(b)
         /\ EditDistance(a, b) <= 1 <=> Folded(a) \in Edits({Folded(b)})
         /\ EditDistance(a, b) <= 2 <=> Folded(a) \in Edits(Edits({Folded(b)}))
<1>1. PICK m \in Nat, n \in Nat : m = Len(a) /\ n = Len(b)
  OBVIOUS
<1>2. PICK T : /\ Table(T, Folded(a), Folded(b))
               /\ EditDistance(a, b) = T[Len(a)][Len(b)] /\ T[Len(a)][Len(b)] \in Nat
  BY DistanceIs
<1> DEFINE x == Folded(a)
           y == Folded(b)
<1>3. x \in Seq(Alphabet) /\ y \in Seq(Alphabet) /\ Len(x) = m /\ Len(y) = n /\ y # <<>>
  <2>1. Len(Folded(a)) = Len(a) /\ Len(Folded(b)) = Len(b)
    BY DEF Folded
  <2>2. Len(b) # 0
    OBVIOUS
  <2> QED
    BY <1>1, <2>1, <2>2
<1>4. PICK d : d = EditDistance(a, b)
  OBVIOUS
<1>5. d = T[m][n] /\ d \in Nat
  BY <1>1, <1>2, <1>4
<1>6. Table(T, x, y)
  BY <1>2
<1> HIDE DEF x, y
<1>7. /\ x = y => d = 0
      /\ x \in Edits({y}) => d <= 1
      /\ x \in Edits(Edits({y})) => d <= 2
  <2>1. /\ x = y => T[Len(x)][Len(y)] = 0
        /\ x \in Edits({y}) => T[Len(x)][Len(y)] <= 1
        /\ x \in Edits(Edits({y})) => T[Len(x)][Len(y)] <= 2
    BY <1>3, <1>6, TableLeast
  <2> QED
    BY <1>3, <1>5, <2>1, Zenon
<1>8. d <= 2 => Within(d, x, y)
  <2>1. m \in 0..Len(x) /\ n \in 0..Len(y) /\ SubSeq(x, 1, m) = x /\ SubSeq(y, 1, n) = y
    BY <1>3
  <2>2. T[m][n] <= 2 => Within(T[m][n], SubSeq(x, 1, m), SubSeq(y, 1, n))
    BY <1>3, <1>6, <2>1, TableEdits
  <2> QED
    BY <1>5, <2>1, <2>2
<1>9. /\ d = 0 => x = y
      /\ d = 1 => x \in Edits({y})
      /\ d = 2 => x \in Edits(Edits({y}))
  BY <1>8 DEF Within
<1>10. y \in Edits({y}) /\ Edits({y}) \subseteq Edits(Edits({y}))
  BY <1>3, EditSelf
<1>11. d \in Nat
  BY <1>5
<1>12. /\ d <= 1 => d = 0 \/ d = 1
       /\ d <= 2 => d = 0 \/ d = 1 \/ d = 2
  BY <1>11
<1>13. /\ d \in Nat
       /\ d = 0 <=> x = y
       /\ d <= 1 <=> x \in Edits({y})
       /\ d <= 2 <=> x \in Edits(Edits({y}))
  BY <1>7, <1>9, <1>10, <1>11, <1>12
<1> QED
  BY <1>4, <1>13 DEF x, y

(* An edit changes the length by one at most.                              *)
LEMMA EditLength ==
  ASSUME NEW y \in Seq(Alphabet)
  PROVE  /\ \A z \in Edits({y}) :
              z \in Seq(Alphabet) /\ Len(z) <= Len(y) + 1 /\ Len(y) <= Len(z) + 1
         /\ \A z \in Edits(Edits({y})) :
              z \in Seq(Alphabet) /\ Len(z) <= Len(y) + 2 /\ Len(y) <= Len(z) + 2
<1>1. ASSUME NEW w \in Seq(Alphabet), NEW z \in Edits({w})
      PROVE  z \in Seq(Alphabet) /\ Len(z) <= Len(w) + 1 /\ Len(w) <= Len(z) + 1
  <2>1. z \in Seq(Alphabet)
    BY EditIs
  <2>2. PICK i \in Nat : Removed(z, w, i) \/ Replaced(z, w, i) \/ Removed(w, z, i)
    BY EditIs
  <2>3. Len(z) = Len(w) - 1 \/ Len(z) = Len(w) \/ Len(w) = Len(z) - 1
    BY <2>2 DEF Removed, Replaced
  <2>4. Len(z) \in Nat /\ Len(w) \in Nat
    BY <2>1
  <2> QED
    BY <2>1, <2>3, <2>4
<1>2. ASSUME NEW z \in Edits(Edits({y}))
      PROVE  z \in Seq(Alphabet) /\ Len(z) <= Len(y) + 2 /\ Len(y) <= Len(z) + 2
  <2>1. PICK w \in Edits({y}) : z \in Edits({w})
    BY EditsOf
  <2>2. w \in Seq(Alphabet) /\ Len(w) <= Len(y) + 1 /\ Len(y) <= Len(w) + 1
    BY <1>1
  <2>3. z \in Seq(Alphabet) /\ Len(z) <= Len(w) + 1 /\ Len(w) <= Len(z) + 1
    BY <1>1, <2>1, <2>2
  <2>4. Len(z) \in Nat /\ Len(w) \in Nat /\ Len(y) \in Nat
    BY <2>2, <2>3
  <2> QED
    BY <2>2, <2>3, <2>4
<1> QED
  BY <1>1, <1>2

-----------------------------------------------------------------------------
(***************************************************************************)
(* The parts of texts.                                                     *)
(***************************************************************************)

(* A text as it is compared.                                               *)
LEMMA TextIs ==
  ASSUME NEW t, IsText(t)
  PROVE  /\ t \in Seq(Range(t)) /\ Folded(t) \in Seq(Alphabet) /\ Len(Folded(t)) = Len(t)
         /\ Folded(t) = <<>> <=> t = <<>>
<1>1. t \in Seq(Range(t)) /\ Range(Folded(t)) \subseteq Alphabet
  BY DEF IsText
<1>2. Folded(t) = [i \in 1..Len(t) |-> Lower(t[i])] /\ Len(t) \in Nat
  BY <1>1 DEF Folded
<1>3. \A i \in 1..Len(t) : Folded(t)[i] \in Alphabet
  BY <1>1, <1>2 DEF Range
<1>4. PICK n \in Nat : n = Len(t)
  BY <1>2
<1> DEFINE F == Folded(t)
<1> HIDE DEF F
<1>5. F = [i \in 1..n |-> F[i]] /\ \A i \in 1..n : F[i] \in Alphabet
  BY <1>2, <1>3, <1>4 DEF F
<1>6. F \in Seq(Alphabet) /\ Len(F) = n
  BY <1>5
<1>7. F = <<>> <=> n = 0
  BY <1>6
<1>8. t = <<>> <=> n = 0
  BY <1>1, <1>4
<1> QED
  BY <1>1, <1>4, <1>6, <1>7, <1>8 DEF F

(* What is at a place of a sequence.                                       *)
LEMMA PartAt ==
  ASSUME NEW S, NEW s \in Seq(S), NEW i \in Nat, NEW w \in Nat, i + w <= Len(s)
  PROVE  /\ TextAt(s, i, w) \in Seq(S) /\ Len(TextAt(s, i, w)) = w
         /\ \A k \in 1..w : TextAt(s, i, w)[k] = s[i + k]
<1>1. PICK n \in Nat : n = Len(s)
  OBVIOUS
<1>2. PICK j : j = i + w
  OBVIOUS
<1>3. j \in Int /\ i + 1 \in Int /\ \A k \in (i + 1)..j : s[k] \in S
  BY <1>1, <1>2
<1>4. PICK u : u = SubSeq(s, i + 1, j)
  OBVIOUS
<1>5. /\ u \in Seq(S) /\ Len(u) = IF i + 1 <= j THEN j - (i + 1) + 1 ELSE 0
      /\ \A k \in 1..(j - (i + 1) + 1) : u[k] = s[(i + 1) + k - 1]
  BY <1>3, <1>4, SubSeqProperties
<1>6. Len(u) = w
  BY <1>2, <1>5
<1>7. ASSUME NEW k \in 1..w
      PROVE  u[k] = s[i + k]
  <2>1. k \in 1..(j - (i + 1) + 1) /\ (i + 1) + k - 1 = i + k
    BY <1>2
  <2> QED
    BY <1>5, <2>1
<1> QED
  BY <1>2, <1>4, <1>5, <1>6, <1>7 DEF TextAt

(* The case of a part is that of the text.                                 *)
LEMMA FoldedPart ==
  ASSUME NEW t, IsText(t), NEW i \in Nat, NEW w \in Nat, i + w <= Len(t)
  PROVE  /\ Folded(TextAt(t, i, w)) = TextAt(Folded(t), i, w)
         /\ TextAt(Folded(t), i, w) \in Seq(Alphabet)
<1>1. PICK F : F = Folded(t)
  OBVIOUS
<1>2. PICK n \in Nat : n = Len(t)
  BY TextIs
<1>3. t \in Seq(Range(t)) /\ F \in Seq(Alphabet) /\ Len(F) = n
  BY <1>1, <1>2, TextIs
<1>4. \A k \in 1..n : F[k] = Lower(t[k])
  BY <1>1, <1>2, <1>3 DEF Folded
<1>5. PICK u, v : u = TextAt(t, i, w) /\ v = TextAt(F, i, w)
  OBVIOUS
<1>6. u \in Seq(Range(t)) /\ Len(u) = w /\ \A k \in 1..w : u[k] = t[i + k]
  <2>1. t \in Seq(Range(t)) /\ i + w <= Len(t)
    BY <1>3
  <2>2. /\ TextAt(t, i, w) \in Seq(Range(t)) /\ Len(TextAt(t, i, w)) = w
        /\ \A k \in 1..w : TextAt(t, i, w)[k] = t[i + k]
    BY <2>1, PartAt, Zenon
  <2> QED
    BY <1>5, <2>2
<1>7. v \in Seq(Alphabet) /\ Len(v) = w /\ \A k \in 1..w : v[k] = F[i + k]
  <2>1. i + w <= Len(F)
    BY <1>2, <1>3
  <2> QED
    BY <1>3, <1>5, <2>1, PartAt
<1>8. \A k \in 1..w : v[k] = Lower(u[k])
  <2> TAKE k \in 1..w
  <2>1. i + k \in 1..n
    BY <1>2
  <2> QED
    BY <1>4, <1>6, <1>7, <2>1
<1>9. Folded(u) = [k \in 1..w |-> Lower(u[k])]
  BY <1>6 DEF Folded
<1>10. v = [k \in 1..w |-> v[k]]
  BY <1>7
<1>11. Folded(u) = v
  BY <1>8, <1>9, <1>10
<1> QED
  BY <1>1, <1>5, <1>7, <1>11

(* The parts of a sequence, by place and width.                            *)
LEMMA PartIs ==
  ASSUME NEW S, NEW s \in Seq(S), NEW z
  PROVE  z \in SubSeqs(s) \ {<<>>} <=>
           \E i \in Nat, w \in Nat \ {0} : i + w <= Len(s) /\ z = TextAt(s, i, w)
<1>1. PICK n \in Nat : n = Len(s)
  OBVIOUS
<1>2. z \in SubSeqs(s) <=> \E i \in 0..n, j \in 0..n : z = SubSeq(s, i + 1, j)
  BY <1>1 DEF SubSeqs
<1>3. ASSUME NEW i \in Nat, NEW w \in Nat \ {0}, i + w <= n, z = TextAt(s, i, w)
      PROVE  z \in SubSeqs(s) \ {<<>>}
  <2>1. z = SubSeq(s, i + 1, i + w) /\ i \in 0..n /\ i + w \in 0..n
    BY <1>3 DEF TextAt
  <2>2. Len(z) = w /\ z \in Seq(S)
    BY <1>1, <1>3, PartAt
  <2>3. z # <<>>
    BY <2>2
  <2> QED
    BY <1>2, <2>1, <2>3
<1>4. ASSUME NEW i \in 0..n, NEW j \in 0..n, z = SubSeq(s, i + 1, j), z # <<>>
      PROVE  \E k \in Nat, w \in Nat \ {0} : k + w <= n /\ z = TextAt(s, k, w)
  <2>1. i < j
    <3> SUFFICES ASSUME ~(i < j) PROVE FALSE
      OBVIOUS
    <3>1. i + 1 > j
      OBVIOUS
    <3>2. SubSeq(s, i + 1, j) = <<>>
      <4>1. i + 1 \in Int /\ j \in Int /\ \A k \in (i + 1)..j : s[k] \in S
        BY <3>1
      <4>2. SubSeq(s, i + 1, j) \in Seq(S) /\ Len(SubSeq(s, i + 1, j)) = 0
        BY <3>1, <4>1, SubSeqProperties
      <4> QED
        BY <4>2
    <3> QED
      BY <1>4, <3>2
  <2>2. PICK w : w = j - i
    OBVIOUS
  <2>3. w \in Nat \ {0} /\ i \in Nat /\ i + w = j /\ i + w <= n
    BY <2>1, <2>2
  <2>4. z = TextAt(s, i, w)
    BY <1>4, <2>3 DEF TextAt
  <2> QED
    BY <2>3, <2>4
<1> QED
  BY <1>1, <1>2, <1>3, <1>4

(* Where a text is found is where it is a part.                            *)
LEMMA FoundIs ==
  ASSUME NEW h, IsText(h), NEW n, IsText(n), NEW i
  PROVE  /\ i \in Occurrences(h, n) <=>
              /\ i \in Nat /\ i + Len(n) <= Len(h)
              /\ TextAt(Folded(h), i, Len(n)) = Folded(n)
         /\ Occurrences(h, n) \subseteq Nat
<1>1. PICK a \in Nat, b \in Nat : a = Len(h) /\ b = Len(n)
  BY TextIs
<1>2. i \in 0..(a - b) <=> i \in Nat /\ i + b <= a
  BY <1>1
<1>3. ASSUME i \in Nat, i + b <= a
      PROVE  Folded(TextAt(h, i, b)) = TextAt(Folded(h), i, b)
  BY <1>1, <1>3, FoldedPart
<1>4. i \in Occurrences(h, n) <=> i \in 0..(a - b) /\ SameText(TextAt(h, i, b), n)
  BY <1>1 DEF Occurrences
<1>5. SameText(TextAt(h, i, b), n) <=> Folded(TextAt(h, i, b)) = Folded(n)
  BY DEF SameText
<1>6. Occurrences(h, n) \subseteq Nat
  BY <1>1 DEF Occurrences
<1> QED
  BY <1>1, <1>2, <1>3, <1>4, <1>5, <1>6

-----------------------------------------------------------------------------
(***************************************************************************)
(* The windows of a fuzzy search.                                          *)
(***************************************************************************)

(* The widths of the windows, when every one fits the buffer.              *)
LEMMA WidthsAre ==
  ASSUME NEW h, IsText(h), NEW n, IsText(n), n # <<>>, Len(n) + MaxDistance < WindowMax, NEW w
  PROVE  /\ w \in Widths(h, n) =>
              w \in Nat \ {0} /\ w <= Len(h) /\ w <= Len(n) + 2
         /\ w \in Nat \ {0} /\ w <= Len(h) /\ w <= Len(n) + 2 /\ Len(n) <= w + 2 =>
              w \in Widths(h, n)
<1>1. PICK a \in Nat, b \in Nat : a = Len(h) /\ b = Len(n)
  BY TextIs
<1>2. b # 0
  <2>1. n \in Seq(Range(n))
    BY TextIs
  <2> QED
    BY <1>1, <2>1
<1>3. WindowMax \in Nat /\ b + 2 <= WindowMax - 1
  BY <1>1, WindowAssumption DEF MaxDistance
<1>4. PICK c \in Nat : c = WindowMax - 1
  BY <1>3
<1>5. PICK T : T = {b + 2, a, c}
  OBVIOUS
<1>6. T \subseteq Nat /\ T # {} /\ b + 2 \in T /\ a \in T /\ c \in T
  BY <1>5
<1>7. Min(T) \in T /\ \A y \in T : Min(T) <= y
  BY <1>6, MinIs
<1>8. PICK least : least = LeastWidth(n)
  OBVIOUS
<1>9. least = IF b > 2 THEN b - 2 ELSE 1
  BY <1>1, <1>8 DEF LeastWidth
<1>10. Widths(h, n) = least..Min(T)
  BY <1>1, <1>4, <1>5, <1>8 DEF Widths
<1>11. PICK most : most = Min(T)
  OBVIOUS
<1>12. most \in Nat /\ most <= b + 2 /\ most <= a /\ (most = b + 2 \/ most = a \/ most = c)
  BY <1>5, <1>6, <1>7, <1>11
<1>13. w \in Widths(h, n) <=> w \in least..most
  BY <1>10, <1>11
<1>14. least \in Nat \ {0} /\ (least = 1 \/ least = b - 2)
  BY <1>2, <1>9
<1>15. w \in least..most => w \in Nat \ {0} /\ w <= a /\ w <= b + 2
  BY <1>12, <1>14
<1>16. w \in Nat \ {0} /\ w <= a /\ w <= b + 2 /\ b <= w + 2 => w \in least..most
  BY <1>3, <1>4, <1>12, <1>14
<1> QED
  BY <1>1, <1>13, <1>15, <1>16

(* The distance of a part of a text.                                       *)
LEMMA PartDistance ==
  ASSUME NEW h, IsText(h), NEW n, IsText(n), n # <<>>,
         NEW pos \in Nat, NEW w \in Nat \ {0}, pos + w <= Len(h),
         NEW z, z = TextAt(Folded(h), pos, w),
         NEW d, d = EditDistance(TextAt(h, pos, w), n)
  PROVE  /\ z \in SubSeqs(Folded(h)) \ {<<>>} /\ d \in Nat
         /\ d <= 1 <=> z \in Edits({Folded(n)})
         /\ d <= 2 <=> z \in Edits(Edits({Folded(n)}))
<1>1. /\ h \in Seq(Range(h)) /\ Folded(h) \in Seq(Alphabet) /\ Len(Folded(h)) = Len(h)
      /\ n \in Seq(Range(n)) /\ Folded(n) \in Seq(Alphabet)
  BY TextIs
<1>2. w \in Nat
  OBVIOUS
<1>3. z \in SubSeqs(Folded(h)) \ {<<>>}
  BY <1>1, PartIs
<1>4. PICK u : u = TextAt(h, pos, w)
  OBVIOUS
<1>5. u \in Seq(Range(h))
  BY <1>1, <1>2, <1>4, PartAt
<1>6. Folded(u) = z /\ z \in Seq(Alphabet)
  BY <1>2, <1>4, FoldedPart
<1>7. /\ EditDistance(u, n) \in Nat
      /\ EditDistance(u, n) <= 1 <=> Folded(u) \in Edits({Folded(n)})
      /\ EditDistance(u, n) <= 2 <=> Folded(u) \in Edits(Edits({Folded(n)}))
  BY <1>1, <1>5, <1>6, DistanceCounts
<1> QED
  BY <1>3, <1>4, <1>6, <1>7

(* What a window is, and that there is one for every part within two edits.*)
LEMMA WindowIs ==
  ASSUME NEW h, IsText(h), NEW n, IsText(n), n # <<>>, Len(n) + MaxDistance < WindowMax,
         NEW v \in Windows(h, n)
  PROVE  /\ v.dist \in Nat /\ v.pos \in Nat /\ v.pos < Len(h)
         /\ v.dist <= 1 => \E z \in SubSeqs(Folded(h)) \ {<<>>} : z \in Edits({Folded(n)})
         /\ v.dist <= 2 => \E z \in SubSeqs(Folded(h)) \ {<<>>} : z \in Edits(Edits({Folded(n)}))
<1>1. PICK w \in Widths(h, n) :
        v \in {[dist |-> EditDistance(TextAt(h, pos, w), n), pos |-> pos] : pos \in 0..(Len(h) - w)}
  BY DEF Windows
<1>2. PICK pos \in 0..(Len(h) - w) : v = [dist |-> EditDistance(TextAt(h, pos, w), n), pos |-> pos]
  BY <1>1
<1>3. w \in Nat \ {0} /\ w <= Len(h)
  BY WidthsAre
<1>4. PICK a \in Nat : a = Len(h)
  BY TextIs
<1>5. pos \in Nat /\ pos + w <= a /\ pos < a
  BY <1>3, <1>4
<1>6. PICK d, z : d = EditDistance(TextAt(h, pos, w), n) /\ z = TextAt(Folded(h), pos, w)
  OBVIOUS
<1>7. v.dist = d /\ v.pos = pos
  BY <1>2, <1>6
<1>8. /\ z \in SubSeqs(Folded(h)) \ {<<>>} /\ d \in Nat
      /\ d <= 1 <=> z \in Edits({Folded(n)})
      /\ d <= 2 <=> z \in Edits(Edits({Folded(n)}))
  BY <1>3, <1>4, <1>5, <1>6, PartDistance
<1> QED
  BY <1>4, <1>5, <1>7, <1>8

(* No window is missed: for what at most two edits make of the query there *)
(* is one as close, within the widths that str_match_score_ci tries.       *)
LEMMA WindowFor ==
  ASSUME NEW h, IsText(h), NEW n, IsText(n), n # <<>>, Len(n) + MaxDistance < WindowMax,
         NEW z \in SubSeqs(Folded(h)) \ {<<>>}, z \in Edits(Edits({Folded(n)}))
  PROVE  \E v \in Windows(h, n) : v.dist <= 2 /\ (z \in Edits({Folded(n)}) => v.dist <= 1)
<1>1. /\ Folded(h) \in Seq(Alphabet) /\ Len(Folded(h)) = Len(h)
      /\ Folded(n) \in Seq(Alphabet) /\ Len(Folded(n)) = Len(n)
  BY TextIs
<1>2. PICK pos \in Nat, w \in Nat \ {0} : pos + w <= Len(h) /\ z = TextAt(Folded(h), pos, w)
  BY <1>1, PartIs
<1>3. Len(z) = w
  BY <1>1, <1>2, PartAt
<1>4. w <= Len(n) + 2 /\ Len(n) <= w + 2
  BY <1>1, <1>3, EditLength
<1>5. PICK a \in Nat : a = Len(h)
  BY TextIs
<1>6. w <= a /\ pos \in 0..(a - w)
  BY <1>2, <1>5
<1>7. w \in Widths(h, n)
  BY <1>4, <1>5, <1>6, WidthsAre
<1>8. PICK d : d = EditDistance(TextAt(h, pos, w), n)
  OBVIOUS
<1>9. /\ d <= 1 <=> z \in Edits({Folded(n)})
      /\ d <= 2 <=> z \in Edits(Edits({Folded(n)}))
  BY <1>2, <1>8, PartDistance
<1>10. PICK v : v = [dist |-> d, pos |-> pos]
  OBVIOUS
<1>11. v \in Windows(h, n)
  BY <1>5, <1>6, <1>7, <1>8, <1>10 DEF Windows
<1>12. v.dist = d
  BY <1>10
<1> QED
  BY <1>9, <1>11, <1>12

(* The best of some windows is the closest.                                *)
LEMMA BestIs ==
  ASSUME NEW near, near # {}, \A v \in near : v.dist \in Nat /\ v.pos \in Nat,
         NEW best, best = CHOOSE v \in near : \A w \in near : Closer(v, w)
  PROVE  best \in near /\ \A w \in near : best.dist <= w.dist
<1> DEFINE D == {v.dist : v \in near}
<1>1. PICK d \in D : \A e \in D : d <= e
  <2>1. D \subseteq Nat /\ D # {}
    OBVIOUS
  <2> HIDE DEF D
  <2> QED
    BY <2>1, FirstOf
<1> DEFINE P == {v.pos : v \in {v \in near : v.dist = d}}
<1>2. PICK p \in P : \A q \in P : p <= q
  <2>1. P \subseteq Nat
    OBVIOUS
  <2>2. P # {}
    <3>1. PICK v \in near : v.dist = d
      OBVIOUS
    <3>2. v.pos \in P
      BY <3>1
    <3> QED
      BY <3>2
  <2> HIDE DEF P
  <2> QED
    BY <2>1, <2>2, FirstOf
<1>3. PICK v \in near : v.dist = d /\ v.pos = p
  BY <1>2
<1>4. ASSUME NEW w \in near
      PROVE  Closer(v, w)
  <2>1. w.dist \in Nat /\ d \in Nat /\ d <= w.dist
    <3>1. w.dist \in D /\ d \in Nat
      BY <1>3
    <3> HIDE DEF D
    <3> QED
      BY <1>1, <3>1
  <2>2. w.dist = d => p <= w.pos
    <3>1. w.dist = d => w.pos \in P
      OBVIOUS
    <3> HIDE DEF P
    <3> QED
      BY <1>2, <3>1
  <2> QED
    BY <1>3, <2>1, <2>2 DEF Closer
<1>5. best \in near /\ \A w \in near : Closer(best, w)
  <2> HIDE DEF D, P
  <2>1. \E u \in near : \A w \in near : Closer(u, w)
    BY <1>4
  <2> QED
    BY <2>1, Zenon
<1> HIDE DEF D, P
<1>6. ASSUME NEW w \in near
      PROVE  best.dist <= w.dist
  <2>1. Closer(best, w) /\ best.dist \in Nat /\ w.dist \in Nat
    BY <1>5
  <2> QED
    BY <2>1 DEF Closer
<1> QED
  BY <1>5, <1>6

-----------------------------------------------------------------------------
(***************************************************************************)
(* The classes of matches.                                                 *)
(***************************************************************************)

(* A prefix has the characters that a sequence begins with.                *)
LEMMA PrefixIs ==
  ASSUME NEW S, NEW s \in Seq(S), NEW t \in Seq(S)
  PROVE  IsPrefix(s, t) <=> Len(s) <= Len(t) /\ \A k \in 1..Len(s) : s[k] = t[k]
<1>1. PICK n \in Nat : n = Len(s)
  OBVIOUS
<1>2. SUFFICES ASSUME n <= Len(t)
               PROVE  SubSeq(s, 1, n) = SubSeq(t, 1, n) <=> \A k \in 1..n : s[k] = t[k]
  BY <1>1 DEF IsPrefix
<1>3. PICK u, v : u = SubSeq(s, 1, n) /\ v = SubSeq(t, 1, n)
  OBVIOUS
<1>4. 1 \in Int /\ n \in Int /\ \A k \in 1..n : s[k] \in S /\ t[k] \in S
  BY <1>1, <1>2
<1>5. /\ u \in Seq(S) /\ Len(u) = IF 1 <= n THEN n - 1 + 1 ELSE 0
      /\ \A k \in 1..(n - 1 + 1) : u[k] = s[1 + k - 1]
  BY <1>3, <1>4, SubSeqProperties
<1>6. /\ v \in Seq(S) /\ Len(v) = IF 1 <= n THEN n - 1 + 1 ELSE 0
      /\ \A k \in 1..(n - 1 + 1) : v[k] = t[1 + k - 1]
  BY <1>3, <1>4, SubSeqProperties
<1>7. Len(u) = n /\ Len(v) = n /\ \A k \in 1..n : u[k] = s[k] /\ v[k] = t[k]
  BY <1>5, <1>6
<1>8. u = v <=> \A k \in 1..n : u[k] = v[k]
  BY <1>5, <1>6, <1>7
<1> QED
  BY <1>3, <1>7, <1>8

(* What comes before the query, wherever it is found.                      *)
LEMMA BeforeIs ==
  ASSUME NEW h, IsText(h), NEW n, IsText(n), NEW p
  PROVE  (p \in SubSeqs(Folded(h)) /\ IsPrefix(p \o Folded(n), Folded(h)))
           <=> \E i \in Occurrences(h, n) : p = TextAt(Folded(h), 0, i)
<1> DEFINE H == Folded(h)
           N == Folded(n)
<1>1. PICK a \in Nat, b \in Nat : a = Len(h) /\ b = Len(n)
  BY TextIs
<1>2. H \in Seq(Alphabet) /\ Len(H) = a /\ N \in Seq(Alphabet) /\ Len(N) = b
  BY <1>1, TextIs
<1>3. \A i : i \in Occurrences(h, n) <=> i \in Nat /\ i + b <= a /\ TextAt(H, i, b) = N
  BY <1>1, FoundIs
<1> HIDE DEF H, N
<1>10. ASSUME NEW i \in Nat, NEW w \in Nat, i + w <= a
       PROVE  /\ TextAt(H, i, w) \in Seq(Alphabet) /\ Len(TextAt(H, i, w)) = w
              /\ \A k \in 1..w : TextAt(H, i, w)[k] = H[i + k]
  <2>1. H \in Seq(Alphabet) /\ i + w <= Len(H)
    BY <1>2, <1>10
  <2> QED
    BY <1>10, <2>1, PartAt, Zenon
<1>4. ASSUME NEW q \in Seq(Alphabet)
      PROVE  IsPrefix(q \o N, H) <=> /\ Len(q) + b <= a
                                     /\ \A k \in 1..Len(q) : q[k] = H[k]
                                     /\ \A k \in 1..b : N[k] = H[Len(q) + k]
  <2>1. PICK i \in Nat : i = Len(q)
    OBVIOUS
  <2>2. PICK s : s = q \o N
    OBVIOUS
  <2>3. /\ s \in Seq(Alphabet) /\ Len(s) = i + b
        /\ \A k \in 1..(i + b) : s[k] = IF k <= i THEN q[k] ELSE N[k - i]
    BY <1>2, <2>1, <2>2, ConcatProperties
  <2>4. IsPrefix(s, H) <=> i + b <= a /\ \A k \in 1..(i + b) : s[k] = H[k]
    <3>1. s \in Seq(Alphabet) /\ H \in Seq(Alphabet)
      BY <1>2, <2>3
    <3>2. IsPrefix(s, H) <=> Len(s) <= Len(H) /\ \A k \in 1..Len(s) : s[k] = H[k]
      BY <3>1, PrefixIs, SMTT(60)
    <3> QED
      BY <1>2, <2>3, <3>2
  <2>5. ASSUME \A k \in 1..(i + b) : s[k] = H[k]
        PROVE  (\A k \in 1..i : q[k] = H[k]) /\ \A k \in 1..b : N[k] = H[i + k]
    <3>1. \A k \in 1..i : k \in 1..(i + b) /\ k <= i
      OBVIOUS
    <3>2. \A k \in 1..b : i + k \in 1..(i + b) /\ ~(i + k <= i) /\ (i + k) - i = k
      OBVIOUS
    <3> QED
      BY <2>3, <2>5, <3>1, <3>2
  <2>6. ASSUME \A k \in 1..i : q[k] = H[k], \A k \in 1..b : N[k] = H[i + k],
               NEW k \in 1..(i + b)
        PROVE  s[k] = H[k]
    <3>1. CASE k <= i
      BY <2>3, <2>6, <3>1
    <3>2. CASE ~(k <= i)
      <4>1. k - i \in 1..b /\ i + (k - i) = k
        BY <3>2
      <4>2. N[k - i] = H[i + (k - i)]
        BY <2>6, <4>1
      <4> QED
        BY <2>3, <3>2, <4>1, <4>2
    <3> QED
      BY <3>1, <3>2
  <2> QED
    BY <2>1, <2>2, <2>4, <2>5, <2>6
<1>5. ASSUME p \in SubSeqs(H), IsPrefix(p \o N, H)
      PROVE  \E i \in Occurrences(h, n) : p = TextAt(H, 0, i)
  <2>1. p \in Seq(Alphabet)
    <3>1. CASE p = <<>>
      BY <3>1
    <3>2. CASE p # <<>>
      <4>1. PICK i \in Nat, w \in Nat \ {0} : i + w <= Len(H) /\ p = TextAt(H, i, w)
        BY <1>2, <1>5, <3>2, PartIs
      <4>2. w \in Nat
        OBVIOUS
      <4> QED
        BY <1>2, <4>1, <4>2, PartAt
    <3> QED
      BY <3>1, <3>2
  <2>2. PICK i \in Nat : i = Len(p)
    BY <2>1
  <2>3. /\ i + b <= a /\ \A k \in 1..i : p[k] = H[k]
        /\ \A k \in 1..b : N[k] = H[i + k]
    BY <1>4, <1>5, <2>1, <2>2
  <2>4. PICK u, v : u = TextAt(H, 0, i) /\ v = TextAt(H, i, b)
    OBVIOUS
  <2>5. u \in Seq(Alphabet) /\ Len(u) = i /\ \A k \in 1..i : u[k] = H[0 + k]
    <3>1. 0 \in Nat /\ 0 + i <= Len(H)
      BY <1>2, <2>3
    <3> QED
      BY <1>2, <2>4, <3>1, PartAt
  <2>6. v \in Seq(Alphabet) /\ Len(v) = b /\ \A k \in 1..b : v[k] = H[i + k]
    BY <1>10, <2>3, <2>4
  <2>7. \A k \in 1..i : 0 + k = k
    OBVIOUS
  <2>8. p = u
    BY <2>1, <2>2, <2>3, <2>5, <2>7, SeqEqual
  <2>9. N = v
    BY <1>2, <2>3, <2>6, SeqEqual
  <2> QED
    BY <1>3, <2>3, <2>4, <2>8, <2>9
<1>6. ASSUME NEW i \in Occurrences(h, n), p = TextAt(H, 0, i)
      PROVE  p \in SubSeqs(H) /\ IsPrefix(p \o N, H)
  <2>1. i \in Nat /\ i + b <= a /\ TextAt(H, i, b) = N
    BY <1>3
  <2>2. 0 \in Nat /\ 0 + i <= Len(H)
    BY <1>2, <2>1
  <2>3. p \in Seq(Alphabet) /\ Len(p) = i /\ \A k \in 1..i : p[k] = H[0 + k]
    BY <1>2, <1>6, <2>1, <2>2, PartAt
  <2>4. \A k \in 1..b : N[k] = H[i + k]
    BY <1>10, <2>1
  <2>5. \A k \in 1..i : 0 + k = k
    OBVIOUS
  <2>6. IsPrefix(p \o N, H)
    BY <1>4, <2>1, <2>3, <2>4, <2>5
  <2>7. PICK o : o = 0
    OBVIOUS
  <2>8. o \in 0..Len(H) /\ i \in 0..Len(H) /\ p = SubSeq(H, o + 1, i)
    BY <1>2, <1>6, <2>1, <2>7 DEF TextAt
  <2>9. p \in SubSeqs(H)
    <3>1. \E j \in 0..Len(H), k \in 0..Len(H) : p = SubSeq(H, j + 1, k)
      BY <2>8
    <3> QED
      BY <3>1 DEF SubSeqs
  <2> QED
    BY <2>6, <2>9
<1> QED
  BY <1>5, <1>6 DEF H, N

(* What a text is to a query: the query occurs first at p, nowhere before. *)
FirstAt(h, n, p) ==
  /\ p \in Occurrences(h, n)
  /\ \A q \in Occurrences(h, n) : p <= q

(* What a text that does not hold the query is to it.                      *)
FuzzyClass(h, n) ==
  LET parts == SubSeqs(Folded(h)) \ {<<>>}
      one == Edits({Folded(n)})
      two == Edits(Edits({Folded(n)}))
  IN IF Folded(h) \in one THEN 5
     ELSE IF Folded(h) \in two THEN 4
     ELSE IF parts \cap one # {} THEN 3
     ELSE IF parts \cap two # {} THEN 2
     ELSE 0

(* What comes before the first place of the query.                         *)
Leading(h, n) == {p \in SubSeqs(Folded(h)) : IsPrefix(p \o Folded(n), Folded(h))}

(* The shortest of what comes before a place ends at the first place.      *)
LEMMA FirstIs ==
  ASSUME NEW h, IsText(h), NEW n, IsText(n), Occurrences(h, n) # {}, NEW first,
         (\E p \in Leading(h, n) : \A other \in Leading(h, n) : Len(p) <= Len(other))
           => first \in Leading(h, n) /\ \A other \in Leading(h, n) : Len(first) <= Len(other)
  PROVE  /\ Min(Occurrences(h, n)) \in Occurrences(h, n)
         /\ \A q \in Occurrences(h, n) : Min(Occurrences(h, n)) <= q
         /\ Len(first) = Min(Occurrences(h, n))
         /\ first = <<>> <=> Min(Occurrences(h, n)) = 0
<1>1. PICK a \in Nat : a = Len(h)
  BY TextIs
<1>2. PICK occ : occ = Occurrences(h, n)
  OBVIOUS
<1>3. Folded(h) \in Seq(Alphabet) /\ Len(Folded(h)) = a
  BY <1>1, TextIs
<1>4. PICK P : P = Min(occ)
  OBVIOUS
<1>5. occ \subseteq Nat /\ \A i \in occ : i \in 0..a
  <2>1. \A i \in occ : i \in Nat /\ i + Len(n) <= Len(h)
    BY <1>2, FoundIs
  <2>2. Len(n) \in Nat
    BY TextIs
  <2> QED
    BY <1>1, <2>1, <2>2
<1>6. P \in occ /\ \A q \in occ : P <= q
  BY <1>2, <1>4, <1>5, MinIs
<1> DEFINE At(i) == TextAt(Folded(h), 0, i)
           before == Leading(h, n)
<1>7. ASSUME NEW i \in occ
      PROVE  At(i) \in Seq(Alphabet) /\ Len(At(i)) = i
  <2>1. i \in Nat /\ 0 \in Nat /\ 0 + i <= Len(Folded(h))
    BY <1>3, <1>5
  <2> QED
    BY <1>3, <2>1, PartAt
<1>8. \A p : p \in before <=> \E i \in occ : p = At(i)
  BY <1>2, BeforeIs DEF Leading
<1> HIDE DEF At
<1>9. At(P) \in before /\ \A other \in before : Len(At(P)) <= Len(other)
  BY <1>6, <1>7, <1>8
<1>10. first \in before /\ \A other \in before : Len(first) <= Len(other)
  BY <1>9
<1>11. PICK i \in occ : first = At(i)
  BY <1>8, <1>10
<1>12. i <= P /\ P <= i /\ i \in Nat /\ P \in Nat
  <2>1. Len(first) <= Len(At(P))
    BY <1>9, <1>10
  <2>2. Len(first) = i /\ Len(At(P)) = P
    BY <1>6, <1>7, <1>11
  <2> QED
    BY <1>5, <1>6, <2>1, <2>2
<1>13. i = P
  BY <1>12
<1>14. Len(first) = P /\ first \in Seq(Alphabet)
  BY <1>7, <1>11, <1>13
<1>15. first = <<>> <=> P = 0
  BY <1>14
<1> QED
  BY <1>2, <1>4, <1>6, <1>14, <1>15

(* The query is a part of the texts it is found in.                        *)
LEMMA PartFound ==
  ASSUME NEW h, IsText(h), NEW n, IsText(n), n # <<>>
  PROVE  Folded(n) \in SubSeqs(Folded(h)) \ {<<>>} <=> Occurrences(h, n) # {}
<1>1. PICK a \in Nat, b \in Nat : a = Len(h) /\ b = Len(n)
  BY TextIs
<1>2. PICK H, N : H = Folded(h) /\ N = Folded(n)
  OBVIOUS
<1>3. H \in Seq(Alphabet) /\ Len(H) = a /\ N \in Seq(Alphabet) /\ Len(N) = b /\ b # 0
  <2>1. N # <<>>
    BY <1>2, TextIs
  <2>2. H \in Seq(Alphabet) /\ Len(H) = a /\ N \in Seq(Alphabet) /\ Len(N) = b
    BY <1>1, <1>2, TextIs
  <2> QED
    BY <2>1, <2>2
<1>4. \A i : i \in Occurrences(h, n) <=> i \in Nat /\ i + b <= a /\ TextAt(H, i, b) = N
  BY <1>1, <1>2, FoundIs
<1>5. N \in SubSeqs(H) \ {<<>>} <=>
        \E i \in Nat, w \in Nat \ {0} : i + w <= a /\ N = TextAt(H, i, w)
  <2>1. N \in SubSeqs(H) \ {<<>>} <=>
          \E i \in Nat, w \in Nat \ {0} : i + w <= Len(H) /\ N = TextAt(H, i, w)
    BY <1>3, PartIs
  <2> QED
    BY <1>3, <2>1
<1>6. ASSUME NEW i \in Nat, NEW w \in Nat \ {0}, i + w <= a, N = TextAt(H, i, w)
      PROVE  i \in Occurrences(h, n)
  <2>1. w \in Nat /\ H \in Seq(Alphabet) /\ i + w <= Len(H)
    BY <1>3, <1>6
  <2>2. Len(TextAt(H, i, w)) = w
    BY <2>1, PartAt
  <2>3. w = b
    BY <1>3, <1>6, <2>2
  <2> QED
    BY <1>4, <1>6, <2>3
<1>7. ASSUME NEW i \in Occurrences(h, n)
      PROVE  i \in Nat /\ b \in Nat \ {0} /\ i + b <= a /\ N = TextAt(H, i, b)
  BY <1>3, <1>4
<1>8. Occurrences(h, n) # {} => \E i \in Nat, w \in Nat \ {0} : i + w <= a /\ N = TextAt(H, i, w)
  BY <1>7
<1> QED
  BY <1>2, <1>5, <1>6, <1>8

(* What makes the class of a match.                                        *)
LEMMA ClassIs ==
  ASSUME NEW h, IsText(h), NEW n \in Queries, n # <<>>, NEW fuzzy \in BOOLEAN,
         NEW P, P = Min(Occurrences(h, n)), NEW class, class = Class(h, n, fuzzy)
  PROVE  /\ SameText(h, n) => class = 9
         /\ ~SameText(h, n) /\ Occurrences(h, n) # {} =>
              /\ FirstAt(h, n, P)
              /\ class = IF P = 0 THEN 8 ELSE IF Boundary(h, P) THEN 7 ELSE 6
         /\ ~SameText(h, n) /\ Occurrences(h, n) = {} =>
              class = IF h = <<>> \/ ~fuzzy \/ Len(n) < 2 THEN 0 ELSE FuzzyClass(h, n)
<1>1. IsText(n)
  BY TextAssumption
<1>2. PICK H, N : H = Folded(h) /\ N = Folded(n)
  OBVIOUS
<1>3. PICK parts : parts = SubSeqs(H) \ {<<>>}
  OBVIOUS
<1>4. PICK before : before = Leading(h, n)
  OBVIOUS
<1>5. PICK first : first = CHOOSE p \in before : \A other \in before : Len(p) <= Len(other)
  OBVIOUS
<1>6. Near[N] = <<Edits({N}), Edits(Edits({N}))>>
  <2>1. N \in {Folded(q) : q \in Queries}
    BY <1>2
  <2> QED
    BY <2>1 DEF Near
<1>7. PICK one, two : one = Near[N][1] /\ two = Near[N][2]
  OBVIOUS
<1>8. one = Edits({N}) /\ two = Edits(Edits({N}))
  BY <1>6, <1>7
<1>9. class =
     IF H = N THEN 9
     ELSE IF N \in parts
     THEN IF first = <<>> THEN 8 ELSE IF h[Len(first)] \notin Alnum THEN 7 ELSE 6
     ELSE IF H = <<>> \/ ~fuzzy \/ Len(N) < 2 THEN 0
     ELSE IF H \in one THEN 5
     ELSE IF H \in two THEN 4
     ELSE IF parts \cap one # {} THEN 3
     ELSE IF parts \cap two # {} THEN 2
     ELSE 0
  BY <1>2, <1>3, <1>4, <1>5, <1>7, Zenon DEF Class, Leading
<1>10. FuzzyClass(h, n) =
     IF H \in one THEN 5
     ELSE IF H \in two THEN 4
     ELSE IF parts \cap one # {} THEN 3
     ELSE IF parts \cap two # {} THEN 2
     ELSE 0
  BY <1>2, <1>3, <1>8, Zenon DEF FuzzyClass
<1>11. SameText(h, n) <=> H = N
  BY <1>2 DEF SameText
<1>12. N \in parts <=> Occurrences(h, n) # {}
  BY <1>1, <1>2, <1>3, PartFound
<1>13. H = <<>> <=> h = <<>>
  BY <1>2, TextIs
<1>14. Len(N) = Len(n)
  BY <1>1, <1>2, TextIs
<1>15. ASSUME ~SameText(h, n), Occurrences(h, n) # {}
       PROVE  /\ FirstAt(h, n, P)
              /\ class = IF P = 0 THEN 8 ELSE IF Boundary(h, P) THEN 7 ELSE 6
  <2>1. /\ P \in Occurrences(h, n) /\ \A q \in Occurrences(h, n) : P <= q
        /\ Len(first) = P /\ (first = <<>> <=> P = 0)
    <3>1. /\ (\E p \in Leading(h, n) : \A other \in Leading(h, n) : Len(p) <= Len(other))
               => first \in Leading(h, n) /\ \A other \in Leading(h, n) : Len(first) <= Len(other)
      BY <1>4, <1>5, Zenon
    <3>2. /\ Min(Occurrences(h, n)) \in Occurrences(h, n)
          /\ \A q \in Occurrences(h, n) : Min(Occurrences(h, n)) <= q
          /\ Len(first) = Min(Occurrences(h, n))
          /\ first = <<>> <=> Min(Occurrences(h, n)) = 0
      BY <1>1, <1>15, <3>1, FirstIs
    <3> QED
      BY <3>2
  <2>2. FirstAt(h, n, P)
    BY <2>1 DEF FirstAt
  <2>3. class = IF first = <<>> THEN 8 ELSE IF h[Len(first)] \notin Alnum THEN 7 ELSE 6
    BY <1>9, <1>11, <1>12, <1>15
  <2>4. class = IF P = 0 THEN 8 ELSE IF h[P] \notin Alnum THEN 7 ELSE 6
    BY <2>1, <2>3
  <2>5. P # 0 => (Boundary(h, P) <=> h[P] \notin Alnum)
    BY DEF Boundary
  <2> QED
    BY <2>2, <2>4, <2>5
<1>16. ASSUME ~SameText(h, n), Occurrences(h, n) = {}
       PROVE  class = IF h = <<>> \/ ~fuzzy \/ Len(n) < 2 THEN 0 ELSE FuzzyClass(h, n)
  <2>1. class = IF H = <<>> \/ ~fuzzy \/ Len(N) < 2 THEN 0 ELSE FuzzyClass(h, n)
    BY <1>9, <1>10, <1>11, <1>12, <1>16
  <2> QED
    BY <1>13, <1>14, <2>1
<1>17. SameText(h, n) => class = 9
  BY <1>9, <1>11
<1> QED
  BY <1>15, <1>16, <1>17

-----------------------------------------------------------------------------
(***************************************************************************)
(* The scale of the scores.                                                *)
(***************************************************************************)

(* The scores of each class of matches.                                    *)
Scale(class, score) ==
  /\ class \in Nat /\ score \in Nat
  /\ \/ class = 9 /\ score = 1000000
     \/ class = 8 /\ score > 899000 /\ score < 1000000
     \/ class = 7 /\ score > 748000 /\ score <= 800000
     \/ class = 6 /\ score > 648000 /\ score <= 700000
     \/ class = 5 /\ score > 289000 /\ score <= 300000
     \/ class = 4 /\ score > 279000 /\ score <= 280000
     \/ class = 3 /\ score > 184000 /\ score <= 200000
     \/ class = 2 /\ score > 174000 /\ score <= 180000
     \/ class = 0 /\ score = 0

(* A better class is above a worse one, and only what is no match has none.*)
LEMMA ScaleApart ==
  ASSUME NEW c, NEW s, Scale(c, s), NEW d, NEW t, Scale(d, t)
  PROVE  /\ c \in 0..9 /\ s \in 0..ExactScore /\ (c > 0 <=> s > 0)
         /\ c > d => s > t
<1>1. c \in 0..9 /\ s \in Nat /\ (c > 0 <=> s > 0)
  BY SMT DEF Scale
<1>2. s \in 0..ExactScore
  <2>1. s \in Nat /\ s <= 1000000
    BY SMT DEF Scale
  <2>2. PICK top : top = ExactScore
    OBVIOUS
  <2>3. top = 1000000
    BY <2>2, SMT DEF ExactScore
  <2>4. top \in Nat /\ s <= top
    BY <2>1, <2>3, SMT
  <2>5. s \in 0..top
    BY <1>1, <2>4
  <2> QED
    BY <2>2, <2>5
<1>3. c > d => s > t
  BY SMT DEF Scale
<1> QED
  BY <1>1, <1>2, <1>3

(* A text within two edits, or with a part that is, is scored by that.     *)
LEMMA FuzzyScored ==
  ASSUME NEW h, IsText(h), Len(h) < PathMax, NEW n, IsText(n), n # <<>>,
         Len(n) + MaxDistance < WindowMax
  PROVE  Scale(FuzzyClass(h, n), FuzzyScore(h, n))
<1>1. PICK a \in Nat : a = Len(h)
  BY TextIs
<1>2. PICK H, N : H = Folded(h) /\ N = Folded(n)
  OBVIOUS
<1>3. PICK parts, one, two :
        parts = SubSeqs(H) \ {<<>>} /\ one = Edits({N}) /\ two = Edits(Edits({N}))
  OBVIOUS
<1>4. PICK whole : whole = EditDistance(h, n)
  OBVIOUS
<1>5. PICK near : near = {w \in Windows(h, n) : w.dist <= MaxDistance}
  OBVIOUS
<1>6. PICK best : best = CHOOSE v \in near : \A w \in near : Closer(v, w)
  OBVIOUS
<1>7. FuzzyScore(h, n) =
        IF whole <= MaxDistance THEN WholeScore(whole, Len(h))
        ELSE IF near = {} THEN 0
        ELSE WindowScore(best.dist, best.pos, Len(h))
  BY <1>4, <1>5, <1>6, SMT DEF FuzzyScore
<1>8. FuzzyClass(h, n) =
        IF H \in one THEN 5
        ELSE IF H \in two THEN 4
        ELSE IF parts \cap one # {} THEN 3
        ELSE IF parts \cap two # {} THEN 2
        ELSE 0
  BY <1>2, <1>3, Zenon DEF FuzzyClass
<1>9. whole \in Nat /\ (whole <= 1 <=> H \in one) /\ (whole <= 2 <=> H \in two)
  <2>1. /\ h \in Seq(Range(h)) /\ Folded(h) \in Seq(Alphabet)
        /\ n \in Seq(Range(n)) /\ Folded(n) \in Seq(Alphabet)
    BY TextIs
  <2>2. /\ EditDistance(h, n) \in Nat
        /\ EditDistance(h, n) <= 1 <=> Folded(h) \in Edits({Folded(n)})
        /\ EditDistance(h, n) <= 2 <=> Folded(h) \in Edits(Edits({Folded(n)}))
    BY <2>1, DistanceCounts
  <2> QED
    BY <1>2, <1>3, <1>4, <2>2
<1>10. a < 512 /\ Penalty(a) = a
  BY <1>1 DEF PathMax, Penalty
<1>11. CASE whole <= 2
  <2>1. FuzzyScore(h, n) = 300000 - whole * 10000 - a
    BY <1>1, <1>7, <1>10, <1>11, SMT DEF MaxDistance, WholeScore
  <2>2. whole \in {0, 1, 2}
    BY <1>9, <1>11
  <2>3. FuzzyClass(h, n) = IF whole <= 1 THEN 5 ELSE 4
    BY <1>8, <1>9, <1>11
  <2>4. PICK s, c : s = FuzzyScore(h, n) /\ c = FuzzyClass(h, n)
    OBVIOUS
  <2>5. CASE whole = 2
    <3>1. c = 4 /\ s = 280000 - a
      BY <2>1, <2>3, <2>4, <2>5, SMT
    <3> QED
      BY <1>10, <2>4, <3>1, SMT DEF Scale
  <2>6. CASE whole # 2
    <3>1. c = 5 /\ (s = 300000 - a \/ s = 290000 - a)
      BY <2>1, <2>2, <2>3, <2>4, <2>6, SMT
    <3> QED
      BY <1>10, <2>4, <3>1, SMT DEF Scale
  <2> QED
    BY <2>5, <2>6
<1>12. CASE ~(whole <= 2)
  <2>1. H \notin one /\ H \notin two
    <3>1. ~(whole <= 1)
      BY <1>9, <1>12
    <3> QED
      BY <1>9, <1>12, <3>1
  <2>2. \A v \in near : /\ v \in Windows(h, n) /\ v.dist <= 2
                        /\ v.dist \in Nat /\ v.pos \in Nat /\ v.pos < a
                        /\ v.dist <= 1 => parts \cap one # {}
                        /\ parts \cap two # {}
    <3> TAKE v \in near
    <3>1. v \in Windows(h, n) /\ v.dist <= 2
      BY <1>5, SMT DEF MaxDistance
    <3>2. /\ v.dist \in Nat /\ v.pos \in Nat /\ v.pos < Len(h)
          /\ v.dist <= 1 => \E z \in SubSeqs(Folded(h)) \ {<<>>} : z \in Edits({Folded(n)})
          /\ v.dist <= 2 => \E z \in SubSeqs(Folded(h)) \ {<<>>} : z \in Edits(Edits({Folded(n)}))
      BY <3>1, WindowIs
    <3> QED
      BY <1>1, <1>2, <1>3, <3>1, <3>2
  <2>3. ASSUME NEW z \in parts \cap two
        PROVE  \E v \in near : z \in one => v.dist <= 1
    <3>1. PICK v \in Windows(h, n) : v.dist <= 2 /\ (z \in Edits({Folded(n)}) => v.dist <= 1)
      BY <1>2, <1>3, WindowFor
    <3>2. v \in near
      BY <1>5, <3>1, SMT DEF MaxDistance
    <3> QED
      BY <1>2, <1>3, <3>1, <3>2
  <2>4. one \subseteq two
    <3>1. N \in Seq(Alphabet) /\ N # <<>>
      BY <1>2, TextIs
    <3> QED
      BY <1>3, <3>1, EditSelf
  <2>5. CASE near = {}
    <3>1. parts \cap two = {} /\ parts \cap one = {}
      BY <2>3, <2>4, <2>5
    <3>2. FuzzyClass(h, n) = 0 /\ FuzzyScore(h, n) = 0
      BY <1>7, <1>8, <1>12, <2>1, <2>5, <3>1, SMT DEF MaxDistance
    <3> QED
      BY <3>2, SMT DEF Scale
  <2>6. CASE near # {}
    <3>1. best \in near /\ \A w \in near : best.dist <= w.dist
      BY <1>6, <2>2, <2>6, BestIs
    <3>2. PICK d, pos : d = best.dist /\ pos = best.pos
      OBVIOUS
    <3>3. d \in Nat /\ d <= 2 /\ pos \in Nat /\ pos < a /\ parts \cap two # {}
      BY <2>2, <3>1, <3>2
    <3>4. d <= 1 <=> parts \cap one # {}
      <4>1. d <= 1 => parts \cap one # {}
        BY <2>2, <3>1, <3>2
      <4>2. ASSUME NEW z \in parts \cap one
            PROVE  d <= 1
        <5>1. z \in parts \cap two /\ z \in one
          BY <2>4
        <5>2. PICK v \in near : v.dist <= 1
          BY <2>3, <5>1
        <5>3. d <= v.dist /\ v.dist \in Nat
          BY <2>2, <3>1, <3>2
        <5> QED
          BY <3>3, <5>2, <5>3
      <4> QED
        BY <4>1, <4>2
    <3>5. FuzzyScore(h, n) = 200000 - d * 10000 - pos * 10 - a
      BY <1>1, <1>7, <1>10, <1>12, <2>6, <3>2, SMT DEF MaxDistance, WindowScore
    <3>6. FuzzyClass(h, n) = IF d <= 1 THEN 3 ELSE 2
      BY <1>8, <2>1, <3>3, <3>4
    <3>7. PICK s, c : s = FuzzyScore(h, n) /\ c = FuzzyClass(h, n)
      OBVIOUS
    <3>8. CASE d = 2
      <4>1. c = 2 /\ s = 180000 - pos * 10 - a
        BY <3>5, <3>6, <3>7, <3>8, SMT
      <4> QED
        BY <1>10, <3>3, <3>7, <4>1, SMT DEF Scale
    <3>9. CASE d # 2
      <4>1. c = 3 /\ (s = 200000 - pos * 10 - a \/ s = 190000 - pos * 10 - a)
        <5>1. d = 0 \/ d = 1
          BY <3>3, <3>9
        <5> QED
          BY <3>5, <3>6, <3>7, <5>1, SMT
      <4> QED
        BY <1>10, <3>3, <3>7, <4>1, SMT DEF Scale
    <3> QED
      BY <3>8, <3>9
  <2> QED
    BY <2>5, <2>6
<1> QED
  BY <1>11, <1>12

(* The score of the first place of the query.                              *)
LEMMA PlaceScored ==
  ASSUME NEW h, NEW a \in Nat, a = Len(h), a < PathMax, NEW p \in Nat, p < a,
         NEW class, class = IF p = 0 THEN 8 ELSE IF Boundary(h, p) THEN 7 ELSE 6
  PROVE  Scale(class, FoundScore(h, p))
<1>1. a < 512 /\ Penalty(a) = a
  BY DEF PathMax, Penalty
<1>2. CASE p = 0
  <2>1. FoundScore(h, p) = 900000 - a
    BY <1>1, <1>2, SMT DEF FoundScore, PrefixScore
  <2> QED
    BY <1>1, <1>2, <2>1, SMT DEF Scale
<1>3. CASE p # 0 /\ Boundary(h, p)
  <2>1. FoundScore(h, p) = 800000 - p * 100 - a
    BY <1>1, <1>3, SMT DEF FoundScore, BoundaryScore
  <2> QED
    BY <1>1, <1>3, <2>1, SMT DEF Scale
<1>4. CASE p # 0 /\ ~Boundary(h, p)
  <2>1. FoundScore(h, p) = 700000 - p * 100 - a
    BY <1>1, <1>4, SMT DEF FoundScore, InsideScore
  <2> QED
    BY <1>1, <1>4, <2>1, SMT DEF Scale
<1> QED
  BY <1>2, <1>3, <1>4

(* The query is found before the end of a text.                            *)
LEMMA FoundInside ==
  ASSUME NEW h, IsText(h), NEW n, IsText(n), n # <<>>, NEW p \in Occurrences(h, n)
  PROVE  p \in Nat /\ p < Len(h)
<1>1. PICK a \in Nat, b \in Nat : a = Len(h) /\ b = Len(n)
  BY TextIs
<1>2. p \in Nat /\ p + b <= a
  BY <1>1, FoundIs
<1>3. b # 0
  <2>1. n \in Seq(Range(n))
    BY TextIs
  <2> QED
    BY <1>1, <2>1
<1> QED
  BY <1>1, <1>2, <1>3

(* The score of a text is that of its class.                               *)
LEMMA MatchScored ==
  ASSUME NEW h, IsText(h), Len(h) < PathMax, NEW n \in Queries, n # <<>>, NEW fuzzy \in BOOLEAN,
         fuzzy => Len(n) + MaxDistance < WindowMax
  PROVE  Scale(Class(h, n, fuzzy), MatchScore(h, n, fuzzy))
<1>1. IsText(n)
  BY TextAssumption
<1>2. PICK a \in Nat : a = Len(h)
  BY TextIs
<1>3. PICK occ, P : occ = Occurrences(h, n) /\ P = Min(occ)
  OBVIOUS
<1>4. PICK class, score : class = Class(h, n, fuzzy) /\ score = MatchScore(h, n, fuzzy)
  OBVIOUS
<1>5. score = IF h = <<>> THEN 0
              ELSE IF SameText(h, n) THEN 1000000
              ELSE IF occ # {} THEN FoundScore(h, P)
              ELSE IF fuzzy /\ Len(n) >= 2 THEN FuzzyScore(h, n) ELSE 0
  BY <1>3, <1>4, SMT DEF MatchScore, ExactScore
<1>6. /\ SameText(h, n) => Class(h, n, fuzzy) = 9
      /\ ~SameText(h, n) /\ Occurrences(h, n) # {} =>
           /\ FirstAt(h, n, Min(Occurrences(h, n)))
           /\ Class(h, n, fuzzy) =
                IF Min(Occurrences(h, n)) = 0 THEN 8
                ELSE IF Boundary(h, Min(Occurrences(h, n))) THEN 7 ELSE 6
      /\ ~SameText(h, n) /\ Occurrences(h, n) = {} =>
           Class(h, n, fuzzy) =
             IF h = <<>> \/ ~fuzzy \/ Len(n) < 2 THEN 0 ELSE FuzzyClass(h, n)
  BY ClassIs
<1>7. h = <<>> => ~SameText(h, n) /\ occ = {}
  <2>1. ASSUME h = <<>>
        PROVE  ~SameText(h, n)
    <3>1. Folded(h) = <<>> /\ Folded(n) # <<>>
      BY <1>1, <2>1, TextIs
    <3> QED
      BY <3>1 DEF SameText
  <2>2. ASSUME h = <<>>, NEW p \in occ
        PROVE  FALSE
    <3>1. p \in Nat /\ p < Len(h)
      BY <1>1, <1>3, FoundInside
    <3>2. Len(h) = 0
      BY <2>2
    <3> QED
      BY <3>1, <3>2
  <2> QED
    BY <2>1, <2>2
<1>8. CASE h = <<>>
  <2>1. class = 0 /\ score = 0
    BY <1>3, <1>4, <1>5, <1>6, <1>7, <1>8, SMT
  <2> QED
    BY <1>4, <2>1, SMT DEF Scale
<1>9. CASE h # <<>> /\ SameText(h, n)
  <2>1. class = 9 /\ score = 1000000
    BY <1>4, <1>5, <1>6, <1>9, SMT
  <2> QED
    BY <1>4, <2>1, SMT DEF Scale
<1>10. CASE h # <<>> /\ ~SameText(h, n) /\ occ # {}
  <2>1. FirstAt(h, n, P) /\ class = IF P = 0 THEN 8 ELSE IF Boundary(h, P) THEN 7 ELSE 6
    BY <1>3, <1>4, <1>6, <1>10
  <2>2. P \in occ
    BY <1>3, <2>1 DEF FirstAt
  <2>3. P \in Nat /\ P < Len(h)
    BY <1>1, <1>3, <2>2, FoundInside
  <2>4. Scale(class, FoundScore(h, P))
    BY <1>2, <2>1, <2>3, PlaceScored
  <2>5. score = FoundScore(h, P)
    BY <1>5, <1>10, SMT
  <2> QED
    BY <1>4, <2>4, <2>5, Zenon
<1>11. CASE h # <<>> /\ ~SameText(h, n) /\ occ = {}
  <2>1. PICK b \in Nat : b = Len(n)
    BY <1>1, TextIs
  <2>2. class = IF ~fuzzy \/ b < 2 THEN 0 ELSE FuzzyClass(h, n)
    BY <1>3, <1>4, <1>6, <1>11, <2>1
  <2>3. score = IF fuzzy /\ b >= 2 THEN FuzzyScore(h, n) ELSE 0
    BY <1>5, <1>11, <2>1, SMT
  <2>4. CASE fuzzy /\ b >= 2
    <3>1. Scale(FuzzyClass(h, n), FuzzyScore(h, n))
      BY <1>1, <2>4, FuzzyScored
    <3>2. class = FuzzyClass(h, n) /\ score = FuzzyScore(h, n)
      BY <2>1, <2>2, <2>3, <2>4
    <3> QED
      BY <1>4, <3>1, <3>2
  <2>5. CASE ~(fuzzy /\ b >= 2)
    <3>1. class = 0 /\ score = 0
      BY <2>1, <2>2, <2>3, <2>5
    <3> QED
      BY <1>4, <3>1, SMT DEF Scale
  <2> QED
    BY <2>4, <2>5
<1> QED
  BY <1>8, <1>9, <1>10, <1>11

(* A set of numbers with a bound has its greatest among them.              *)
LEMMA MaxIs ==
  ASSUME NEW b \in Nat, NEW T, T \subseteq 0..b, T # {}
  PROVE  Max(T) \in T /\ \A y \in T : y <= Max(T)
<1> DEFINE U == {b - y : y \in T}
<1>1. PICK u \in U : \A v \in U : u <= v
  <2>1. U \subseteq Nat
    OBVIOUS
  <2>2. U # {}
    <3>1. PICK y \in T : TRUE
      OBVIOUS
    <3>2. b - y \in U
      OBVIOUS
    <3> QED
      BY <3>2
  <2> HIDE DEF U
  <2> QED
    BY <2>1, <2>2, FirstOf
<1>2. PICK p \in T : u = b - p
  BY <1>1
<1>3. ASSUME NEW y \in T
      PROVE  p >= y
  <2>1. b - p <= b - y
    BY <1>1, <1>2
  <2>2. p \in Nat /\ y \in Nat
    OBVIOUS
  <2> QED
    BY <2>1, <2>2
<1>4. PICK most : most = Max(T)
  OBVIOUS
<1>5. most \in T /\ \A y \in T : most >= y
  <2>1. \E x \in T : \A y \in T : x >= y
    BY <1>3
  <2> QED
    BY <1>4, <2>1, Zenon DEF Max
<1>6. \A y \in T : y <= most
  BY <1>5
<1> QED
  BY <1>4, <1>5, <1>6

(* The best class of some matches has the best score of them.              *)
LEMMA BestScored ==
  ASSUME NEW P, P # {}, \A p \in P : Scale(p[1], p[2])
  PROVE  Scale(Max({p[1] : p \in P}), Max({p[2] : p \in P}))
<1> DEFINE C == {p[1] : p \in P}
           S == {p[2] : p \in P}
<1>0. PICK b \in Nat : b = ExactScore
  BY SMT DEF ExactScore
<1>1. \A p \in P : p[1] \in 0..9 /\ p[2] \in 0..b
  BY <1>0, ScaleApart
<1>2. C \subseteq 0..9 /\ S \subseteq 0..b /\ C # {} /\ S # {}
  BY <1>1
<1>3. Max(C) \in C /\ \A y \in C : y <= Max(C)
  <2> HIDE DEF C
  <2>1. 9 \in Nat
    OBVIOUS
  <2> QED
    BY <1>2, <2>1, MaxIs
<1>4. Max(S) \in S /\ \A y \in S : y <= Max(S)
  <2> HIDE DEF S
  <2> QED
    BY <1>2, MaxIs
<1>5. PICK c, s : c = Max(C) /\ s = Max(S)
  OBVIOUS
<1>6. PICK p \in P : p[1] = c
  BY <1>3, <1>5
<1>7. PICK q \in P : q[2] = s
  BY <1>4, <1>5
<1>8. p[2] <= s /\ q[1] <= c
  BY <1>3, <1>4, <1>5
<1>9. Scale(c, p[2]) /\ Scale(q[1], s)
  BY <1>6, <1>7
<1> HIDE DEF C, S
<1>10. /\ c \in 0..9 /\ p[2] \in Nat /\ q[1] \in 0..9 /\ s \in Nat
       /\ c > q[1] => p[2] > s
  <2>1. c > q[1] => p[2] > s
    BY <1>9, ScaleApart
  <2>2. c \in 0..9 /\ q[1] \in 0..9 /\ p[2] \in 0..b /\ s \in 0..b
    BY <1>1, <1>6, <1>7
  <2> QED
    BY <2>1, <2>2
<1>11. c = q[1]
  BY <1>8, <1>10, SMT
<1>12. Scale(c, s)
  BY <1>9, <1>11, SMT
<1> QED
  BY <1>5, <1>12, SMT DEF C, S

(* The best of the classes that a query has for the fields of an entry.    *)
BestOf(kind, entry, q, fuzzy) ==
  Max({0} \cup {Class(f, q, fuzzy) : f \in Fields(kind, entry)})

(* The score of an entry is that of its best field.                        *)
LEMMA EntryScored ==
  ASSUME NEW served \in Libraries, NEW kind \in Kinds, NEW entry \in Range(ListIn(served, kind)),
         NEW q \in Queries, q # <<>>, NEW fuzzy \in BOOLEAN,
         fuzzy => Len(q) + MaxDistance < WindowMax
  PROVE  Scale(BestOf(kind, entry, q, fuzzy), EntryScore(kind, entry, q, fuzzy))
<1>1. PICK F : F = Fields(kind, entry)
  OBVIOUS
<1>2. \A f \in F : IsText(f) /\ Len(f) < PathMax
  BY <1>1, LibraryAssumption
<1>3. \A f \in F : Scale(Class(f, q, fuzzy), MatchScore(f, q, fuzzy))
  BY <1>2, MatchScored
<1> DEFINE P == {<<0, 0>>} \cup {<<Class(f, q, fuzzy), MatchScore(f, q, fuzzy)>> : f \in F}
<1>4. \A p \in P : Scale(p[1], p[2])
  <2> TAKE p \in P
  <2>1. CASE p = <<0, 0>>
    <3>1. p[1] = 0 /\ p[2] = 0
      BY <2>1
    <3>2. Scale(0, 0)
      BY SMT DEF Scale
    <3> QED
      BY <3>1, <3>2, SMT
  <2>2. CASE p # <<0, 0>>
    <3>1. PICK f \in F : p = <<Class(f, q, fuzzy), MatchScore(f, q, fuzzy)>>
      BY <2>2
    <3>2. PICK c, s : c = Class(f, q, fuzzy) /\ s = MatchScore(f, q, fuzzy)
      OBVIOUS
    <3>3. p = <<c, s>>
      BY <3>1, <3>2
    <3>4. p[1] = c /\ p[2] = s
      BY <3>3
    <3> QED
      BY <1>3, <3>2, <3>4
  <2> QED
    BY <2>1, <2>2
<1>5. <<0, 0>> \in P
  OBVIOUS
<1> DEFINE C == {p[1] : p \in P}
           S == {p[2] : p \in P}
<1>6. C = {0} \cup {Class(f, q, fuzzy) : f \in F}
  <2>1. \A x : x \in C <=> x = 0 \/ \E f \in F : x = Class(f, q, fuzzy)
    <3> TAKE x
    <3>1. x \in C <=> \E p \in P : x = p[1]
      OBVIOUS
    <3>2. \A p \in P : p = <<0, 0>> \/ \E f \in F : p = <<Class(f, q, fuzzy), MatchScore(f, q, fuzzy)>>
      OBVIOUS
    <3>3. \A f \in F : <<Class(f, q, fuzzy), MatchScore(f, q, fuzzy)>> \in P
      OBVIOUS
    <3>4. ASSUME NEW p \in P, x = p[1]
          PROVE  x = 0 \/ \E f \in F : x = Class(f, q, fuzzy)
      <4>1. CASE p = <<0, 0>>
        BY <3>4, <4>1
      <4>2. CASE p # <<0, 0>>
        <5>1. PICK f \in F : p = <<Class(f, q, fuzzy), MatchScore(f, q, fuzzy)>>
          BY <3>2, <4>2
        <5> QED
          BY <3>4, <5>1
      <4> QED
        BY <4>1, <4>2
    <3>5. ASSUME NEW f \in F, x = Class(f, q, fuzzy)
          PROVE  \E p \in P : x = p[1]
      <4>1. PICK p \in P : p = <<Class(f, q, fuzzy), MatchScore(f, q, fuzzy)>>
        BY <3>3
      <4> QED
        BY <3>5, <4>1
    <3>6. x = 0 => \E p \in P : x = p[1]
      <4>1. PICK p \in P : p = <<0, 0>>
        BY <1>5
      <4>2. p[1] = 0
        BY <4>1
      <4> QED
        BY <4>2
    <3> HIDE DEF P, C
    <3> QED
      BY <3>1, <3>4, <3>5, <3>6
  <2> HIDE DEF C
  <2> QED
    BY <2>1
<1>7. S = {0} \cup {MatchScore(f, q, fuzzy) : f \in F}
  <2>1. \A x : x \in S <=> x = 0 \/ \E f \in F : x = MatchScore(f, q, fuzzy)
    <3> TAKE x
    <3>1. x \in S <=> \E p \in P : x = p[2]
      OBVIOUS
    <3>2. \A p \in P : p = <<0, 0>> \/ \E f \in F : p = <<Class(f, q, fuzzy), MatchScore(f, q, fuzzy)>>
      OBVIOUS
    <3>3. \A f \in F : <<Class(f, q, fuzzy), MatchScore(f, q, fuzzy)>> \in P
      OBVIOUS
    <3>4. ASSUME NEW p \in P, x = p[2]
          PROVE  x = 0 \/ \E f \in F : x = MatchScore(f, q, fuzzy)
      <4>1. CASE p = <<0, 0>>
        BY <3>4, <4>1
      <4>2. CASE p # <<0, 0>>
        <5>1. PICK f \in F : p = <<Class(f, q, fuzzy), MatchScore(f, q, fuzzy)>>
          BY <3>2, <4>2
        <5> QED
          BY <3>4, <5>1
      <4> QED
        BY <4>1, <4>2
    <3>5. ASSUME NEW f \in F, x = MatchScore(f, q, fuzzy)
          PROVE  \E p \in P : x = p[2]
      <4>1. PICK p \in P : p = <<Class(f, q, fuzzy), MatchScore(f, q, fuzzy)>>
        BY <3>3
      <4> QED
        BY <3>5, <4>1
    <3>6. x = 0 => \E p \in P : x = p[2]
      <4>1. PICK p \in P : p = <<0, 0>>
        BY <1>5
      <4>2. p[2] = 0
        BY <4>1
      <4> QED
        BY <4>2
    <3> HIDE DEF P, S
    <3> QED
      BY <3>1, <3>4, <3>5, <3>6
  <2> HIDE DEF S
  <2> QED
    BY <2>1
<1>8. Scale(Max(C), Max(S))
  <2>1. P # {}
    BY <1>5
  <2> HIDE DEF P
  <2> QED
    BY <1>4, <2>1, BestScored
<1> HIDE DEF P, C, S
<1>9. BestOf(kind, entry, q, fuzzy) = Max(C)
  BY <1>1, <1>6 DEF BestOf
<1>10. EntryScore(kind, entry, q, fuzzy) = Max(S)
  BY <1>1, <1>7 DEF EntryScore, Score
<1> QED
  BY <1>8, <1>9, <1>10

-----------------------------------------------------------------------------
(* The ranking of any two texts that a catalogue may hold, for every query *)
(* whose windows fit the buffer (str.c:220): a better class of match, as   *)
(* the code classifies by the first occurrence (str.c:235), has the higher *)
(* score, however far into its text the query is and however long the      *)
(* texts are, whether a search is fuzzy or not.                            *)
THEOREM MatchesRanked ==
  ASSUME NEW h, IsText(h), Len(h) < PathMax, NEW k, IsText(k), Len(k) < PathMax,
         NEW q \in Queries, q # <<>>, NEW fuzzy \in BOOLEAN,
         fuzzy => Len(q) + MaxDistance < WindowMax,
         Class(h, q, fuzzy) > Class(k, q, fuzzy)
  PROVE  MatchScore(h, q, fuzzy) > MatchScore(k, q, fuzzy)
<1>1. Scale(Class(h, q, fuzzy), MatchScore(h, q, fuzzy))
  BY MatchScored
<1>2. Scale(Class(k, q, fuzzy), MatchScore(k, q, fuzzy))
  BY MatchScored
<1> QED
  BY <1>1, <1>2, ScaleApart

(* What a text is to a query that it has or has not, by the class above:   *)
(* the text itself, a prefix, then where the query first is, at the start  *)
(* of a word or inside one.                                                *)
IsOfClass(h, n, class, p) ==
  \/ class = 9 /\ SameText(h, n)
  \/ class = 8 /\ ~SameText(h, n) /\ FirstAt(h, n, p) /\ p = 0
  \/ class = 7 /\ ~SameText(h, n) /\ FirstAt(h, n, p) /\ p # 0 /\ Boundary(h, p)
  \/ class = 6 /\ ~SameText(h, n) /\ FirstAt(h, n, p) /\ p # 0 /\ ~Boundary(h, p)
  \/ class = 0 /\ ~SameText(h, n) /\ Occurrences(h, n) = {}

(* The score of a text that has the query is that of its first place.      *)
LEMMA FoundFirst ==
  ASSUME NEW S, NEW h \in Seq(S), NEW n \in Seq(S), NEW p \in Nat,
         n # <<>>, h # <<>>, ~SameText(h, n), FirstAt(h, n, p)
  PROVE  MatchScore(h, n, FALSE) = FoundScore(h, p) /\ p < Len(h)
<1>1. Len(n) \in Nat \ {0} /\ Len(h) \in Nat
  OBVIOUS
<1>2. Occurrences(h, n) \in SUBSET Int /\ \A q \in Occurrences(h, n) : q < Len(h)
  BY <1>1, SMT DEF Occurrences
<1>3. p \in Occurrences(h, n) /\ \A q \in Occurrences(h, n) : p <= q
  BY Zenon DEF FirstAt
<1>4. Min(Occurrences(h, n)) = p
  BY <1>2, <1>3, LeastIsMin
<1>5. Occurrences(h, n) # {}
  BY <1>3
<1>6. MatchScore(h, n, FALSE) = FoundScore(h, Min(Occurrences(h, n)))
  BY <1>5, SMT DEF MatchScore
<1> QED
  BY <1>2, <1>3, <1>4, <1>6

(* The score of a text is on the scale of what it is to the query.         *)
LEMMA PlainScored ==
  ASSUME NEW S, NEW h \in Seq(S), NEW n \in Seq(S), NEW p \in Nat, NEW class,
         n # <<>>, h # <<>>, Len(h) < PathMax, IsOfClass(h, n, class, p)
  PROVE  Scale(class, MatchScore(h, n, FALSE))
<1>0. PICK s : s = MatchScore(h, n, FALSE)
  OBVIOUS
<1>1. CASE class = 9 /\ SameText(h, n)
  <2>1. s = 1000000
    BY <1>0, <1>1, SMT DEF MatchScore, ExactScore
  <2>2. Scale(class, s)
    BY <1>1, <2>1, SMT DEF Scale
  <2> QED
    BY <1>0, <2>2
<1>2. CASE class = 0 /\ ~SameText(h, n) /\ Occurrences(h, n) = {}
  <2>1. s = 0
    BY <1>0, <1>2, SMT DEF MatchScore
  <2>2. Scale(class, s)
    BY <1>2, <2>1, SMT DEF Scale
  <2> QED
    BY <1>0, <2>2
<1>3. CASE /\ ~SameText(h, n) /\ FirstAt(h, n, p)
           /\ class = IF p = 0 THEN 8 ELSE IF Boundary(h, p) THEN 7 ELSE 6
  <2>1. MatchScore(h, n, FALSE) = FoundScore(h, p) /\ p < Len(h)
    BY <1>3, FoundFirst
  <2>2. PICK a \in Nat : a = Len(h)
    OBVIOUS
  <2>3. Scale(class, FoundScore(h, p))
    BY <1>3, <2>1, <2>2, PlaceScored
  <2> QED
    BY <2>1, <2>3
<1> QED
  BY <1>1, <1>2, <1>3 DEF IsOfClass

(* The ranking of plain searches, for any query and for texts of every     *)
(* length a catalogue holds (str.c:220).                                   *)
THEOREM PlainRanking ==
  ASSUME NEW S, NEW h \in Seq(S), NEW k \in Seq(S), NEW n \in Seq(S),
         NEW p \in Nat, NEW q \in Nat, NEW better, NEW worse,
         n # <<>>, h # <<>>, k # <<>>, Len(h) < PathMax, Len(k) < PathMax,
         IsOfClass(h, n, better, p), IsOfClass(k, n, worse, q), better > worse
  PROVE  MatchScore(h, n, FALSE) > MatchScore(k, n, FALSE)
<1>1. Scale(better, MatchScore(h, n, FALSE))
  BY PlainScored
<1>2. Scale(worse, MatchScore(k, n, FALSE))
  BY PlainScored
<1> QED
  BY <1>1, <1>2, ScaleApart

-----------------------------------------------------------------------------
(***************************************************************************)
(* The hits.                                                               *)
(***************************************************************************)

(* The list of a kind in a library: each entry once, by its id.            *)
LEMMA Listed ==
  ASSUME NEW served \in Libraries, NEW kind \in Kinds
  PROVE  /\ ListIn(served, kind) \in Seq(Range(ListIn(served, kind)))
         /\ IsFiniteSet(Range(ListIn(served, kind)))
         /\ \A e, f \in Range(ListIn(served, kind)) : e.id \in Nat /\ (e.id = f.id => e = f)
<1>1. PICK list : list = ListIn(served, kind)
  OBVIOUS
<1>2. /\ list \in Seq(Range(list))
      /\ \A i, j \in DOMAIN list : list[i].id \in Nat /\ (list[i].id = list[j].id => i = j)
  BY <1>1, LibraryAssumption
<1>3. PICK n \in Nat : n = Len(list) /\ DOMAIN list = 1..n
  BY <1>2
<1>4. \A e \in Range(list) : \E i \in 1..n : list[i] = e
  BY <1>3 DEF Range
<1>5. list \in Surjection(1..n, Range(list))
  <2>1. list \in [1..n -> Range(list)]
    BY <1>2, <1>3
  <2> QED
    BY <1>4, <2>1 DEF Surjection
<1>6. IsFiniteSet(1..n)
  BY <1>3, FS_Interval
<1>7. IsFiniteSet(Range(list))
  BY <1>5, <1>6, FS_Surjection
<1>8. \A e, f \in Range(list) : e.id \in Nat /\ (e.id = f.id => e = f)
  BY <1>2, <1>3, <1>4
<1> QED
  BY <1>1, <1>2, <1>7, <1>8

(* What an entry brings to the ranking, and all that rank.                 *)
Entrant(kind, entry, q, fuzzy) ==
  [id |-> entry.id, score |-> EntryScore(kind, entry, q, fuzzy)]

(* The entrants that score.                                                *)
Scored(kind, list, q, fuzzy) ==
  {s \in {Entrant(kind, entry, q, fuzzy) : entry \in Range(list)} : s.score > 0}

(* They are finitely many.                                                 *)
LEMMA ScoredFinite ==
  ASSUME NEW served \in Libraries, NEW kind \in Kinds, NEW q, NEW fuzzy
  PROVE  IsFiniteSet(Scored(kind, ListIn(served, kind), q, fuzzy))
<1>1. PICK list : list = ListIn(served, kind)
  OBVIOUS
<1> DEFINE T == {Entrant(kind, entry, q, fuzzy) : entry \in Range(list)}
           f == [entry \in Range(list) |-> Entrant(kind, entry, q, fuzzy)]
<1>2. f \in [Range(list) -> T] /\ \A t \in T : \E entry \in Range(list) : f[entry] = t
  OBVIOUS
<1> HIDE DEF f, T
<1>3. f \in Surjection(Range(list), T)
  BY <1>2 DEF Surjection
<1>4. IsFiniteSet(Range(list))
  BY <1>1, Listed
<1>5. IsFiniteSet(T)
  BY <1>3, <1>4, FS_Surjection
<1>6. Scored(kind, list, q, fuzzy) \in SUBSET T
  BY DEF Scored, T
<1>7. IsFiniteSet(Scored(kind, list, q, fuzzy))
  BY <1>5, <1>6, FS_Subset
<1> QED
  BY <1>1, <1>7

(* The sequence that the hits are the ids of.                              *)
Ranking(S) ==
  LET ranks == {<<Cardinality({y \in S : Before(y, x)}), x>> : x \in S}
  IN [n \in 1..Cardinality(S) |-> (CHOOSE rank \in ranks : rank[1] = n - 1)[2]]

(* There are as many hits as entries that score.                           *)
LEMMA HitsCounted ==
  ASSUME NEW kind, NEW list, NEW q, NEW fuzzy,
         IsFiniteSet(Scored(kind, list, q, fuzzy)),
         NEW S, S = Scored(kind, list, q, fuzzy)
  PROVE  /\ Hits(kind, list, q, fuzzy) = [i \in 1..Cardinality(S) |-> Ranking(S)[i].id]
         /\ Cardinality(S) \in Nat
         /\ Hits(kind, list, q, fuzzy) \in Seq(Range(Hits(kind, list, q, fuzzy)))
         /\ Len(Hits(kind, list, q, fuzzy)) = Cardinality(S)
<1>1. S = {s \in {[id |-> entry.id, score |-> EntryScore(kind, entry, q, fuzzy)] :
                   entry \in Range(list)} : s.score > 0}
  BY DEF Scored, Entrant
<1>2. Hits(kind, list, q, fuzzy) = [i \in DOMAIN Ranking(S) |-> Ranking(S)[i].id]
  <2>1. Hits(kind, list, q, fuzzy) =
          [i \in DOMAIN Ordered(S, Before) |-> Ordered(S, Before)[i].id]
    BY <1>1 DEF Hits
  <2>2. Ordered(S, Before) = Ranking(S)
    BY DEF Ordered, Ranking
  <2> QED
    BY <2>1, <2>2
<1>3. PICK n \in Nat : n = Cardinality(S)
  BY FS_CardinalityType
<1>4. DOMAIN Ranking(S) = 1..n
  BY <1>3 DEF Ranking
<1>5. PICK hits : hits = Hits(kind, list, q, fuzzy)
  OBVIOUS
<1>6. hits = [i \in 1..n |-> Ranking(S)[i].id]
  BY <1>2, <1>4, <1>5
<1>7. hits \in Seq(Range(hits)) /\ Len(hits) = n
  BY <1>3, <1>6 DEF Range
<1> QED
  BY <1>3, <1>5, <1>6, <1>7

(* What scores is one entry, with a number for a score.                    *)
LEMMA ScoredIs ==
  ASSUME NEW served \in Libraries, NEW kind \in Kinds,
         NEW q \in Queries, q # <<>>, NEW fuzzy \in BOOLEAN,
         fuzzy => Len(q) + MaxDistance < WindowMax
  PROVE  \A s, t \in Scored(kind, ListIn(served, kind), q, fuzzy) :
           s.id \in Nat /\ s.score \in Nat /\ (s.id = t.id => s = t)
<1>1. PICK list : list = ListIn(served, kind)
  OBVIOUS
<1>2. \A e, f \in Range(list) : e.id \in Nat /\ (e.id = f.id => e = f)
  BY <1>1, Listed
<1>3. PICK b \in Nat : b = ExactScore
  BY SMT DEF ExactScore
<1>4. ASSUME NEW e \in Range(list)
      PROVE  EntryScore(kind, e, q, fuzzy) \in Nat
  <2>1. e \in Range(ListIn(served, kind))
    BY <1>1
  <2>2. Scale(BestOf(kind, e, q, fuzzy), EntryScore(kind, e, q, fuzzy))
    BY <2>1, EntryScored
  <2>3. EntryScore(kind, e, q, fuzzy) \in 0..b
    BY <1>3, <2>2, ScaleApart
  <2> QED
    BY <1>3, <2>3
<1>5. \A s \in Scored(kind, list, q, fuzzy) :
        \E e \in Range(list) : s = Entrant(kind, e, q, fuzzy)
  BY DEF Scored
<1>6. \A e \in Range(list) : /\ Entrant(kind, e, q, fuzzy).id = e.id
                             /\ Entrant(kind, e, q, fuzzy).score = EntryScore(kind, e, q, fuzzy)
  BY DEF Entrant
<1>7. \A s, t \in Scored(kind, list, q, fuzzy) :
        s.id \in Nat /\ s.score \in Nat /\ (s.id = t.id => s = t)
  <2> TAKE s, t \in Scored(kind, list, q, fuzzy)
  <2>1. PICK e \in Range(list) : s = Entrant(kind, e, q, fuzzy)
    BY <1>5
  <2>2. PICK f \in Range(list) : t = Entrant(kind, f, q, fuzzy)
    BY <1>5
  <2>3. s.id = e.id /\ t.id = f.id /\ s.score = EntryScore(kind, e, q, fuzzy)
    BY <1>6, <2>1, <2>2
  <2>4. s.id \in Nat /\ s.score \in Nat
    BY <1>2, <1>4, <2>3
  <2>5. s.id = t.id => s = t
    BY <1>2, <2>1, <2>2, <2>3
  <2> QED
    BY <2>4, <2>5
<1> QED
  BY <1>1, <1>7

(* The ranking has each of them, higher scores and then lower ids first.   *)
LEMMA RankingIs ==
  ASSUME NEW S, IsFiniteSet(S),
         \A s, t \in S : s.id \in Nat /\ s.score \in Nat /\ (s.id = t.id => s = t)
  PROVE  /\ Ranking(S) \in [1..Cardinality(S) -> S]
         /\ \A x \in S : \E k \in 1..Cardinality(S) : Ranking(S)[k] = x
         /\ \A i, j \in 1..Cardinality(S) : i < j <=> Before(Ranking(S)[i], Ranking(S)[j])
<1> DEFINE R == {p \in S \X S : Before(p[1], p[2])}
           ranks == {<<Cardinality({y \in S : Before(y, x)}), x>> : x \in S}
           f == ByRank(ranks, S)
<1>1. \A i, j \in S : <<i, j>> \in R <=> Before(i, j)
  OBVIOUS
<1>2. Ranking(S) = f
  BY DEF Ranking, ByRank
<1> HIDE DEF R
<1>3. Orders(R, S)
  <2>1. \A x \in S : <<x, x>> \notin R
    BY <1>1 DEF Before
  <2>2. \A x, y \in S : x # y => <<x, y>> \in R \/ <<y, x>> \in R
    BY <1>1 DEF Before
  <2>3. \A x, y, z \in S : <<x, y>> \in R /\ <<y, z>> \in R => <<x, z>> \in R
    BY <1>1 DEF Before
  <2> QED
    BY <2>1, <2>2, <2>3 DEF Orders
<1>4. \A x \in S : Below(R, S, x) = {y \in S : Before(y, x)}
  BY <1>1 DEF Below
<1>5. ranks = {<<Cardinality(Below(R, S, x)), x>> : x \in S}
  BY <1>4
<1> HIDE DEF ranks
<1>6. Lines(f, R, S)
  BY <1>3, <1>5, OrderedIs
<1> HIDE DEF f
<1>7. /\ f \in [1..Cardinality(S) -> S]
      /\ \A x \in S : \E k \in 1..Cardinality(S) : f[k] = x
      /\ \A i, j \in 1..Cardinality(S) : i < j <=> <<f[i], f[j]>> \in R
  <2>1. \A x \in S : Cardinality(Below(R, S, x)) + 1 \in 1..Cardinality(S)
                     /\ f[Cardinality(Below(R, S, x)) + 1] = x
    BY <1>6 DEF Lines
  <2> QED
    BY <1>6, <2>1 DEF Lines
<1>8. \A i, j \in 1..Cardinality(S) : i < j <=> Before(f[i], f[j])
  BY <1>1, <1>7
<1> QED
  BY <1>2, <1>7, <1>8

(* The hits are the ids of the entries that score, in the order of the     *)
(* entrants.                                                               *)
Standing(hits, list, kind, q, fuzzy) ==
  /\ hits \in Seq(Nat) /\ IsInjective(hits)
  /\ \A e \in Range(list) : EntryScore(kind, e, q, fuzzy) > 0 =>
       \E i \in 1..Len(hits) : hits[i] = e.id
  /\ \A i \in 1..Len(hits) : \E e \in Range(list) :
       EntryScore(kind, e, q, fuzzy) > 0 /\ hits[i] = e.id
  /\ \A i, j \in 1..Len(hits), e, f \in Range(list) :
       hits[i] = e.id /\ hits[j] = f.id =>
         (i < j <=> Before(Entrant(kind, e, q, fuzzy), Entrant(kind, f, q, fuzzy)))

(* A search ranks its hits so.                                             *)
LEMMA HitsRanked ==
  ASSUME NEW served \in Libraries, NEW kind \in Kinds,
         NEW q \in Queries, q # <<>>, NEW fuzzy \in BOOLEAN,
         fuzzy => Len(q) + MaxDistance < WindowMax
  PROVE  Standing(Hits(kind, ListIn(served, kind), q, fuzzy), ListIn(served, kind), kind, q, fuzzy)
<1>1. PICK list : list = ListIn(served, kind)
  OBVIOUS
<1>2. PICK S : S = Scored(kind, list, q, fuzzy)
  OBVIOUS
<1>3. PICK hits : hits = Hits(kind, list, q, fuzzy)
  OBVIOUS
<1>4. PICK order : order = Ranking(S)
  OBVIOUS
<1>5. IsFiniteSet(S)
  BY <1>1, <1>2, ScoredFinite
<1>6. \A s, t \in S : s.id \in Nat /\ s.score \in Nat /\ (s.id = t.id => s = t)
  BY <1>1, <1>2, ScoredIs
<1>7. PICK n \in Nat : n = Cardinality(S)
  BY <1>5, FS_CardinalityType
<1>8. hits = [i \in 1..n |-> order[i].id] /\ hits \in Seq(Range(hits)) /\ Len(hits) = n
  BY <1>2, <1>3, <1>4, <1>5, <1>7, HitsCounted
<1>9. /\ order \in [1..n -> S]
      /\ \A x \in S : \E k \in 1..n : order[k] = x
      /\ \A i, j \in 1..n : i < j <=> Before(order[i], order[j])
  BY <1>4, <1>5, <1>6, <1>7, RankingIs
<1>10. /\ \A e \in Range(list) : /\ Entrant(kind, e, q, fuzzy).id = e.id
                                 /\ Entrant(kind, e, q, fuzzy).score = EntryScore(kind, e, q, fuzzy)
       /\ \A e, f \in Range(list) : e.id \in Nat /\ (e.id = f.id => e = f)
  BY <1>1, Listed DEF Entrant
<1>11. \A s : s \in S <=> /\ \E e \in Range(list) : s = Entrant(kind, e, q, fuzzy)
                          /\ s.score > 0
  BY <1>2 DEF Scored
<1>12. \A i \in 1..n : hits[i] = order[i].id /\ order[i] \in S
  BY <1>8, <1>9
<1>13. hits \in Seq(Nat)
  BY <1>6, <1>8, <1>12
<1>14. IsInjective(hits)
  <2>1. \A i, j \in 1..n : hits[i] = hits[j] => i = j
    <3> TAKE i, j \in 1..n
    <3>1. hits[i] = hits[j] => order[i] = order[j]
      BY <1>6, <1>12
    <3>2. order[i] = order[j] => ~(i < j) /\ ~(j < i)
      BY <1>6, <1>9, <1>12 DEF Before
    <3>3. i < j \/ j < i \/ i = j
      BY <1>7
    <3> QED
      BY <3>1, <3>2, <3>3
  <2>2. DOMAIN hits = 1..n
    BY <1>8
  <2> QED
    BY <2>1, <2>2 DEF IsInjective
<1>15. \A e \in Range(list) : EntryScore(kind, e, q, fuzzy) > 0 =>
         \E i \in 1..n : hits[i] = e.id
  <2> SUFFICES ASSUME NEW e \in Range(list), EntryScore(kind, e, q, fuzzy) > 0
               PROVE  \E i \in 1..n : hits[i] = e.id
    OBVIOUS
  <2>1. PICK s : s = Entrant(kind, e, q, fuzzy)
    OBVIOUS
  <2>2. s \in S /\ s.id = e.id
    BY <1>10, <1>11, <2>1
  <2> QED
    BY <1>9, <1>12, <2>2
<1>16. \A i \in 1..n : \E e \in Range(list) :
         EntryScore(kind, e, q, fuzzy) > 0 /\ hits[i] = e.id /\ order[i] = Entrant(kind, e, q, fuzzy)
  <2> TAKE i \in 1..n
  <2>1. PICK e \in Range(list) : order[i] = Entrant(kind, e, q, fuzzy) /\ order[i].score > 0
    BY <1>11, <1>12
  <2> QED
    BY <1>10, <1>12, <2>1
<1>17. \A i, j \in 1..n, e, f \in Range(list) :
         hits[i] = e.id /\ hits[j] = f.id =>
           (i < j <=> Before(Entrant(kind, e, q, fuzzy), Entrant(kind, f, q, fuzzy)))
  <2> SUFFICES ASSUME NEW i \in 1..n, NEW j \in 1..n, NEW e \in Range(list), NEW f \in Range(list),
                      hits[i] = e.id, hits[j] = f.id
               PROVE  i < j <=> Before(Entrant(kind, e, q, fuzzy), Entrant(kind, f, q, fuzzy))
    OBVIOUS
  <2>1. order[i] = Entrant(kind, e, q, fuzzy) /\ order[j] = Entrant(kind, f, q, fuzzy)
    BY <1>10, <1>16
  <2> QED
    BY <1>9, <2>1
<1>18. Standing(hits, list, kind, q, fuzzy)
  BY <1>8, <1>13, <1>14, <1>15, <1>16, <1>17 DEF Standing
<1> QED
  BY <1>1, <1>3, <1>18

(* A page is full, and a piece of what it is a page of.                    *)
LEMMA PageShown ==
  ASSUME NEW T, NEW hits \in Seq(T), NEW page, page.limit \in Nat \ {0}, page.offset \in Nat
  PROVE  /\ PageOfHits(hits, page).total = Len(hits)
         /\ PageOfHits(hits, page).shown \in Seq(T)
         /\ FullPage(PageOfHits(hits, page), page)
         /\ \A k \in 1..Len(PageOfHits(hits, page).shown) :
              /\ page.offset + k \in 1..Len(hits)
              /\ PageOfHits(hits, page).shown[k] = hits[page.offset + k]
<1>1. PICK l \in Nat, o \in Nat, n \in Nat : l = page.limit /\ o = page.offset /\ n = Len(hits)
  OBVIOUS
<1>2. PICK m : m = Min({o + l, n})
  OBVIOUS
<1>3. m = IF o + l <= n THEN o + l ELSE n
  BY <1>1, <1>2, MinOfTwo, SMTT(60)
<1>14. l > 0 /\ m \in Int /\ m <= n /\ m <= o + l /\ (m = n \/ m = o + l)
  BY <1>1, <1>3
<1>4. PICK shown : shown = SubSeq(hits, o + 1, m)
  OBVIOUS
<1>5. /\ shown \in Seq(T) /\ Len(shown) = IF o + 1 <= m THEN m - (o + 1) + 1 ELSE 0
      /\ \A k \in 1..(m - (o + 1) + 1) : shown[k] = hits[(o + 1) + k - 1]
  <2>1. o + 1 \in Int /\ m \in Int /\ \A i \in (o + 1)..m : hits[i] \in T
    BY <1>1, <1>3, SMTT(60)
  <2> QED
    BY <1>4, <2>1, SubSeqProperties, SMTT(60)
<1>6. PageOfHits(hits, page) = [total |-> n, shown |-> shown]
  BY <1>1, <1>2, <1>4 DEF PageOfHits
<1>7. PageOfHits(hits, page).total = n /\ PageOfHits(hits, page).shown = shown
  BY <1>6
<1>8. \A k \in 1..Len(shown) : o + k \in 1..n /\ shown[k] = hits[o + k]
  <2> TAKE k \in 1..Len(shown)
  <2>1. o + 1 <= m /\ k \in 1..(m - (o + 1) + 1)
    <3>1. PICK z \in Nat : z = Len(shown)
      BY <1>5
    <3>2. k \in 1..z /\ (z = IF o + 1 <= m THEN m - (o + 1) + 1 ELSE 0)
      BY <1>5, <3>1
    <3> QED
      BY <1>14, <3>2
  <2>2. (o + 1) + k - 1 = o + k /\ o + k \in 1..n
    <3>1. k \in Nat /\ k >= 1 /\ k <= m - (o + 1) + 1
      BY <1>14, <2>1
    <3> QED
      BY <1>14, <3>1
  <2> QED
    BY <1>5, <2>1, <2>2
<1>9. PICK least : least = Min({l, n - o})
  OBVIOUS
<1>10. least = IF l <= n - o THEN l ELSE n - o
  BY <1>1, <1>9, MinOfTwo
<1>11. Max({0, least}) = IF 0 >= least THEN 0 ELSE least
  <2>1. least \in Int /\ 0 \in Int
    BY <1>1, <1>10
  <2> QED
    BY <2>1, MaxOfTwo
<1>12. Len(shown) = Max({0, least})
  <2>1. PICK a, b : a = Len(shown) /\ b = Max({0, least})
    OBVIOUS
  <2>2. a = b
    <3>1. a = IF o + 1 <= m THEN m - o ELSE 0
      BY <1>5, <1>14, <2>1
    <3>2. b = IF 0 >= least THEN 0 ELSE least
      BY <1>11, <2>1
    <3>3. CASE l <= n - o
      <4>1. least = l /\ m = o + l
        BY <1>3, <1>10, <3>3
      <4> QED
        BY <1>14, <3>1, <3>2, <4>1
    <3>4. CASE ~(l <= n - o)
      <4>1. least = n - o /\ m = n
        BY <1>3, <1>10, <3>4
      <4> QED
        BY <3>1, <3>2, <4>1
    <3> QED
      BY <3>3, <3>4
  <2> QED
    BY <2>1, <2>2
<1>13. FullPage(PageOfHits(hits, page), page)
  BY <1>1, <1>7, <1>9, <1>12 DEF FullPage
<1> QED
  BY <1>1, <1>5, <1>7, <1>8, <1>13
=============================================================================
