----------------------------- MODULE BrowseProofs -----------------------------
(***************************************************************************)
(* Proofs about Browse, for any tags, directories and number of items:     *)
(* the index counts and links what it should, and an album has the         *)
(* directory, the date and the cover of its tracks and images.             *)
(***************************************************************************)
EXTENDS Browse, FiniteSetTheorems, SequenceTheorems, WellFoundedInduction, TLAPS

-----------------------------------------------------------------------------
(***************************************************************************)
(* Passes.                                                                 *)
(***************************************************************************)

(* A set of numbers that is not empty has a first one.                     *)
LEMMA FirstOf ==
  ASSUME NEW T, T \subseteq Nat, T # {}
  PROVE  \E n \in T : \A m \in T : n <= m
<1>1. PICK n \in T : \A m \in T : ~(<<m, n>> \in OpToRel(<, Nat))
  BY WFMin, NatLessThanWellFounded
<1>2. \A m \in T : ~(m < n)
  BY <1>1 DEF OpToRel
<1> QED
  BY <1>2

(* What an item makes of an index, in a pass over the items of a kind.     *)
After(items, kind, idx, n) ==
  IF items[n].kind = kind THEN WithItem(items, idx, items[n]) ELSE idx

(* The first n items, one after the other.                                 *)
Begins(items, kind, start, n, after) ==
  after[0] = start /\ \A m \in 1..n : after[m] = After(items, kind, after[m - 1], m)

(* A pass can begin with any number of items.                              *)
LEMMA PassBegins ==
  ASSUME NEW items, NEW kind, NEW start, NEW n \in Nat
  PROVE  \E after : Begins(items, kind, start, n, after)
<1> DEFINE T == {m \in Nat : ~\E after : Begins(items, kind, start, m, after)}
<1>1. SUFFICES ASSUME T # {}
               PROVE  FALSE
  OBVIOUS
<1>2. PICK m \in T : \A k \in T : m <= k
  <2> HIDE DEF T
  <2>1. T \subseteq Nat
    BY DEF T
  <2> QED
    BY <1>1, <2>1, FirstOf
<1>3. m # 0
  <2> DEFINE f == [k \in {0} |-> start]
  <2>1. f[0] = start
    OBVIOUS
  <2> HIDE DEF f
  <2>2. Begins(items, kind, start, 0, f)
    BY <2>1 DEF Begins
  <2> QED
    BY <1>2, <2>2
<1>4. m - 1 \in Nat /\ m - 1 \notin T
  BY <1>2, <1>3
<1>5. PICK g : Begins(items, kind, start, m - 1, g)
  BY <1>4
<1> DEFINE f == [k \in 0..m |-> IF k = m THEN After(items, kind, g[m - 1], m) ELSE g[k]]
<1>6. /\ f[m] = After(items, kind, g[m - 1], m)
      /\ \A k \in 0..(m - 1) : f[k] = g[k]
  BY <1>4
<1> HIDE DEF f
<1>7. f[0] = start
  BY <1>4, <1>5, <1>6 DEF Begins
<1>8. ASSUME NEW k \in 1..m
      PROVE  f[k] = After(items, kind, f[k - 1], k)
  <2>1. k - 1 \in 0..(m - 1)
    BY <1>4
  <2>2. f[k - 1] = g[k - 1]
    BY <1>6, <2>1
  <2>3. CASE k = m
    BY <1>6, <2>2, <2>3
  <2>4. CASE k # m
    <3>1. k \in 1..(m - 1) /\ k \in 0..(m - 1)
      BY <2>4
    <3> QED
      BY <1>5, <1>6, <2>2, <3>1 DEF Begins
  <2> QED
    BY <2>3, <2>4
<1>9. Begins(items, kind, start, m, f)
  BY <1>7, <1>8 DEF Begins
<1> QED
  BY <1>2, <1>9

(* A pass is what its steps make of the index.                             *)
LEMMA PassSteps ==
  ASSUME NEW items, NEW kind, NEW start, Len(items) \in Nat
  PROVE  \E after : /\ Begins(items, kind, start, Len(items), after)
                    /\ Pass(items, kind, start) = after[Len(items)]
<1>1. PICK n \in Nat : n = Len(items)
  OBVIOUS
<1>2. PICK g : Begins(items, kind, start, n, g)
  BY PassBegins
<1> DEFINE Rule(f) == [m \in 0..n |-> IF m = 0 THEN start ELSE After(items, kind, f[m - 1], m)]
           f == [m \in 0..n |-> g[m]]
<1>3. f = Rule(f)
  <2>1. \A m \in 0..n : f[m] = IF m = 0 THEN start ELSE After(items, kind, f[m - 1], m)
    <3> TAKE m \in 0..n
    <3>1. CASE m = 0
      BY <1>2, <3>1 DEF Begins
    <3>2. CASE m # 0
      <4>1. m \in 1..n /\ m - 1 \in 0..n
        BY <3>2
      <4>2. f[m] = g[m] /\ f[m - 1] = g[m - 1]
        BY <4>1
      <4>3. g[m] = After(items, kind, g[m - 1], m)
        BY <1>2, <4>1 DEF Begins
      <4> HIDE DEF f
      <4> QED
        BY <3>2, <4>2, <4>3
    <3> QED
      BY <3>1, <3>2
  <2>2. f = [m \in 0..n |-> f[m]]
    OBVIOUS
  <2> HIDE DEF f
  <2> QED
    BY <2>1, <2>2
<1>4. PICK after : after = CHOOSE h : h = Rule(h)
  OBVIOUS
<1>5. after = Rule(after)
  <2> HIDE DEF f, Rule
  <2> QED
    BY <1>3, <1>4
<1>6. Begins(items, kind, start, n, after)
  <2>1. \A m \in 0..n : after[m] = IF m = 0 THEN start ELSE After(items, kind, after[m - 1], m)
    BY <1>5
  <2>2. 0 \in 0..n /\ \A m \in 1..n : m \in 0..n /\ m # 0
    OBVIOUS
  <2> QED
    BY <2>1, <2>2 DEF Begins
<1>7. Pass(items, kind, start) = after[n]
  <2>1. after = CHOOSE h : h =
          [m \in 0..Len(items) |->
             IF m = 0 THEN start
             ELSE IF items[m].kind = kind THEN WithItem(items, h[m - 1], items[m])
             ELSE h[m - 1]]
    BY <1>1, <1>4 DEF After
  <2> QED
    BY <1>1, <2>1 DEF Pass
<1> QED
  BY <1>1, <1>6, <1>7

-----------------------------------------------------------------------------
(***************************************************************************)
(* Directories in common.                                                  *)
(***************************************************************************)

(* The first n segments of the directories are the same.                   *)
Agree(dirs, n) ==
  \A d, e \in dirs : n <= Len(d) /\ n <= Len(e) /\ \A i \in 1..n : d[i] = e[i]

(* The first n segments are all that the directories have in common.       *)
AgreeUpTo(dirs, n) == Agree(dirs, n) /\ ~Agree(dirs, n + 1)

(* What directories have in common, they have in common up to any segment. *)
LEMMA AgreeLess ==
  ASSUME NEW dirs, dirs \subseteq Seq(STRING), NEW n \in Nat, NEW m \in 0..n, Agree(dirs, n)
  PROVE  Agree(dirs, m)
<1> SUFFICES ASSUME NEW d \in dirs, NEW e \in dirs
             PROVE  m <= Len(d) /\ m <= Len(e) /\ \A i \in 1..m : d[i] = e[i]
  BY DEF Agree
<1>1. n <= Len(d) /\ n <= Len(e) /\ \A i \in 1..n : d[i] = e[i]
  BY DEF Agree
<1>2. Len(d) \in Nat /\ Len(e) \in Nat
  BY LenProperties
<1>3. \A i \in 1..m : i \in 1..n
  OBVIOUS
<1> QED
  BY <1>1, <1>2, <1>3

(* There is a last segment they have in common.                            *)
LEMMA AgreeLast ==
  ASSUME NEW dirs, dirs \subseteq Seq(STRING), dirs # {}
  PROVE  \E n \in Nat : AgreeUpTo(dirs, n)
<1>1. PICK d \in dirs : d \in Seq(STRING) /\ Len(d) \in Nat
  BY LenProperties
<1> DEFINE T == {n \in Nat : ~Agree(dirs, n)}
<1>2. Len(d) + 1 \in T
  BY <1>1 DEF Agree
<1>3. PICK n \in T : \A m \in T : n <= m
  <2> HIDE DEF T
  <2>1. T \subseteq Nat
    BY DEF T
  <2> QED
    BY <1>2, <2>1, FirstOf
<1>4. Agree(dirs, 0)
  <2> SUFFICES ASSUME NEW a \in dirs, NEW b \in dirs
               PROVE  0 <= Len(a) /\ 0 <= Len(b) /\ \A i \in 1..0 : a[i] = b[i]
    BY DEF Agree
  <2>1. Len(a) \in Nat /\ Len(b) \in Nat
    BY LenProperties
  <2> QED
    BY <2>1
<1>5. n # 0
  BY <1>3, <1>4
<1>6. n - 1 \in Nat /\ n - 1 \notin T /\ (n - 1) + 1 = n
  BY <1>3, <1>5
<1> QED
  BY <1>3, <1>6 DEF AgreeUpTo

(* The beginning of a sequence.                                            *)
LEMMA Beginning ==
  ASSUME NEW d \in Seq(STRING), NEW n \in 0..Len(d)
  PROVE  /\ SubSeq(d, 1, n) \in Seq(STRING) /\ Len(SubSeq(d, 1, n)) = n
         /\ \A i \in 1..n : SubSeq(d, 1, n)[i] = d[i]
<1>1. Len(d) \in Nat /\ \A i \in 1..n : d[i] \in STRING
  BY LenProperties
<1>2. /\ SubSeq(d, 1, n) \in Seq(STRING)
      /\ Len(SubSeq(d, 1, n)) = IF 1 <= n THEN n - 1 + 1 ELSE 0
      /\ \A i \in 1..(n - 1 + 1) : SubSeq(d, 1, n)[i] = d[1 + i - 1]
  BY <1>1, SubSeqProperties
<1>3. n - 1 + 1 = n /\ (~(1 <= n) => n = 0) /\ \A i \in 1..n : 1 + i - 1 = i
  BY <1>1
<1> QED
  BY <1>2, <1>3

(* One directory is the beginning of another.                              *)
LEMMA PrefixParts ==
  ASSUME NEW d \in Seq(STRING), NEW e \in Seq(STRING)
  PROVE  IsPrefix(d, e) <=> Len(d) <= Len(e) /\ \A i \in 1..Len(d) : d[i] = e[i]
<1>1. Len(d) \in Nat /\ Len(e) \in Nat
  BY LenProperties
<1>2. SubSeq(d, 1, Len(d)) = d
  BY SubSeqFull
<1>3. CASE Len(d) <= Len(e)
  <2>1. Len(d) \in 0..Len(e)
    BY <1>1, <1>3
  <2>2. PICK b \in Seq(STRING) : /\ b = SubSeq(e, 1, Len(d)) /\ Len(b) = Len(d)
                                 /\ \A i \in 1..Len(d) : b[i] = e[i]
    BY <2>1, Beginning
  <2>3. d = b <=> \A i \in 1..Len(d) : d[i] = b[i]
    BY <2>2, SeqEqual
  <2> QED
    BY <1>2, <1>3, <2>2, <2>3 DEF IsPrefix
<1>4. CASE ~(Len(d) <= Len(e))
  BY <1>4 DEF IsPrefix
<1> QED
  BY <1>3, <1>4

(* The longest prefix directories have in common is any of them up to the  *)
(* last segment they have in common.                                       *)
LEMMA LongestIs ==
  ASSUME NEW dirs, dirs \subseteq Seq(STRING), NEW n \in Nat, AgreeUpTo(dirs, n), NEW dir \in dirs
  PROVE  LongestCommonPrefix(dirs) = SubSeq(dir, 1, n)
<1> DEFINE P == CommonPrefixes(dirs)
           p == SubSeq(dir, 1, n)
<1>1. n \in 0..Len(dir) /\ Agree(dirs, n) /\ ~Agree(dirs, n + 1)
  BY LenProperties DEF AgreeUpTo, Agree
<1>2. p \in Seq(STRING) /\ Len(p) = n /\ \A i \in 1..n : p[i] = dir[i]
  BY <1>1, Beginning
<1>3. p \in P
  <2>1. p \in Prefixes(dir)
    BY <1>1 DEF Prefixes
  <2>2. ASSUME NEW d \in dirs
        PROVE  IsPrefix(p, d)
    <3>1. n <= Len(d) /\ \A i \in 1..n : dir[i] = d[i]
      BY <1>1 DEF Agree
    <3> HIDE DEF p
    <3> QED
      BY <1>2, <3>1, PrefixParts
  <2> QED
    BY <2>1, <2>2 DEF CommonPrefixes
<1>4. ASSUME NEW q \in P
      PROVE  q \in Seq(STRING) /\ Len(q) <= n /\ (Len(q) = n => q = p)
  <2>1. PICK d \in dirs : \E l \in 0..Len(d) : q = SubSeq(d, 1, l)
    BY DEF CommonPrefixes, Prefixes
  <2>2. q \in Seq(STRING) /\ Len(q) \in Nat
    BY <2>1, Beginning, LenProperties
  <2>3. \A e \in dirs : Len(q) <= Len(e) /\ \A i \in 1..Len(q) : q[i] = e[i]
    BY <2>2, PrefixParts DEF CommonPrefixes
  <2>4. Agree(dirs, Len(q))
    BY <2>3 DEF Agree
  <2>5. Len(q) <= n
    <3>1. n + 1 <= Len(q) => n + 1 \in 0..Len(q)
      BY <2>2
    <3> QED
      BY <1>1, <2>2, <2>4, <3>1, AgreeLess
  <2>6. Len(q) = n => q = p
    <3> HIDE DEF p
    <3>1. Len(q) = n => \A i \in 1..Len(q) : q[i] = p[i]
      BY <1>2, <2>3
    <3> QED
      BY <1>2, <2>2, <3>1, SeqEqual
  <2> QED
    BY <2>2, <2>5, <2>6
<1> HIDE DEF P, p
<1>5. LongestCommonPrefix(dirs) = CHOOSE q \in P : \A r \in P : Len(r) <= Len(q)
  BY DEF LongestCommonPrefix, P
<1>6. PICK q \in P : q = LongestCommonPrefix(dirs) /\ \A r \in P : Len(r) <= Len(q)
  <2>1. \A r \in P : Len(r) <= Len(p)
    BY <1>2, <1>4
  <2> QED
    BY <1>3, <1>5, <2>1
<1>7. Len(q) = n
  <2>1. n <= Len(q) /\ Len(q) <= n /\ Len(q) \in Nat
    BY <1>2, <1>3, <1>4, <1>6, LenProperties
  <2> QED
    BY <2>1
<1> QED
  BY <1>4, <1>6, <1>7 DEF p

(* One more directory: the one in common is found from the one before.     *)
LEMMA LongestNext ==
  ASSUME NEW dirs, dirs \subseteq Seq(STRING), dirs # {}, NEW dir \in Seq(STRING)
  PROVE  /\ LongestCommonPrefix(dirs) \in Seq(STRING)
         /\ LongestCommonPrefix(dirs \cup {dir})
              = LongestCommonPrefix({LongestCommonPrefix(dirs), dir})
<1>1. PICK first \in dirs : first \in Seq(STRING) /\ Len(first) \in Nat
  BY LenProperties
<1>2. PICK n \in Nat : AgreeUpTo(dirs, n)
  BY AgreeLast
<1>3. PICK p : p = LongestCommonPrefix(dirs)
  OBVIOUS
<1>4. n \in 0..Len(first)
  BY <1>1, <1>2 DEF AgreeUpTo, Agree
<1>5. p \in Seq(STRING) /\ Len(p) = n /\ \A i \in 1..n : p[i] = first[i]
  BY <1>2, <1>3, <1>4, LongestIs, Beginning, SMTT(60)
<1>6. Len(dir) \in Nat
  BY LenProperties
<1>7. ASSUME NEW m \in Nat
      PROVE  Agree(dirs \cup {dir}, m) <=> Agree({p, dir}, m)
  <2>1. ASSUME Agree(dirs \cup {dir}, m)
        PROVE  Agree({p, dir}, m)
    <3>1. Agree(dirs, m)
      BY <2>1 DEF Agree
    <3>2. m <= n
      <4>1. n + 1 <= m => n + 1 \in 0..m
        OBVIOUS
      <4> QED
        BY <1>2, <3>1, <4>1, AgreeLess DEF AgreeUpTo
    <3>3. m <= Len(dir) /\ \A i \in 1..m : first[i] = dir[i]
      BY <2>1 DEF Agree
    <3>4. \A i \in 1..m : p[i] = dir[i] /\ dir[i] = p[i]
      BY <1>5, <3>2, <3>3
    <3> QED
      BY <1>5, <3>2, <3>3, <3>4 DEF Agree
  <2>2. ASSUME Agree({p, dir}, m)
        PROVE  Agree(dirs \cup {dir}, m)
    <3>1. m <= n /\ m <= Len(dir) /\ \A i \in 1..m : p[i] = dir[i]
      BY <1>5, <2>2 DEF Agree
    <3>2. m \in 0..n
      BY <3>1
    <3>3. Agree(dirs, m)
      BY <1>2, <3>2, AgreeLess DEF AgreeUpTo
    <3>4. \A i \in 1..m : first[i] = dir[i]
      BY <1>5, <3>1
    <3>5. \A d \in dirs : m <= Len(d) /\ \A i \in 1..m : d[i] = dir[i]
      BY <3>3, <3>4, <1>1 DEF Agree
    <3>6. \A d \in dirs \cup {dir} : m <= Len(d) /\ \A i \in 1..m : d[i] = dir[i]
      BY <3>1, <3>5
    <3> QED
      BY <3>6 DEF Agree
  <2> QED
    BY <2>1, <2>2
<1>8. PICK m \in Nat : AgreeUpTo(dirs \cup {dir}, m)
  BY AgreeLast
<1>9. AgreeUpTo({p, dir}, m)
  <2>1. m + 1 \in Nat
    OBVIOUS
  <2>2. Agree(dirs \cup {dir}, m) <=> Agree({p, dir}, m)
    BY <1>7
  <2>3. Agree(dirs \cup {dir}, m + 1) <=> Agree({p, dir}, m + 1)
    BY <1>7, <2>1
  <2> QED
    BY <1>8, <2>2, <2>3 DEF AgreeUpTo
<1>10. LongestCommonPrefix(dirs \cup {dir}) = SubSeq(dir, 1, m)
  <2>1. dirs \cup {dir} \subseteq Seq(STRING) /\ dir \in dirs \cup {dir}
    OBVIOUS
  <2> QED
    BY <1>8, <2>1, LongestIs
<1>11. LongestCommonPrefix({p, dir}) = SubSeq(dir, 1, m)
  BY <1>5, <1>9, LongestIs, ZenonT(60)
<1> QED
  BY <1>3, <1>5, <1>10, <1>11

(* A single directory, and nothing in common with anything.                *)
LEMMA LongestOne ==
  ASSUME NEW dir \in Seq(STRING)
  PROVE  /\ LongestCommonPrefix({dir}) = dir
         /\ LongestCommonPrefix({<<>>, dir}) = <<>>
<1>1. Len(dir) \in Nat
  BY LenProperties
<1>2. AgreeUpTo({dir}, Len(dir))
  BY <1>1 DEF AgreeUpTo, Agree
<1>3. AgreeUpTo({<<>>, dir}, 0)
  BY <1>1 DEF AgreeUpTo, Agree
<1>4. LongestCommonPrefix({dir}) = SubSeq(dir, 1, Len(dir))
  BY <1>1, <1>2, LongestIs
<1>5. LongestCommonPrefix({<<>>, dir}) = SubSeq(dir, 1, 0)
  <2>1. {<<>>, dir} \subseteq Seq(STRING)
    OBVIOUS
  <2> QED
    BY <1>3, <2>1, LongestIs
<1>6. SubSeq(dir, 1, 0) = <<>>
  BY SubSeqEmpty
<1> QED
  BY <1>4, <1>5, <1>6, SubSeqFull

-----------------------------------------------------------------------------
(***************************************************************************)
(* What the pass over the tracks keeps.                                    *)
(***************************************************************************)

Item ==
  [id : Nat \ {0}, kind : {"audio", "image"}, dir : Seq(STRING),
   stem : ImageStem \cup {None, "cover"}, ext : Extension \cup {None, "jpg"},
   artist : STRING, album : STRING, date : STRING]

Catalogue(items) ==
  /\ items \in Seq(Item)
  /\ \A i, j \in DOMAIN items : items[i].id = items[j].id => i = j

ArtistEntry == [name : STRING, tracks : Nat, albums : Nat]

AlbumEntry ==
  [artist : STRING, name : STRING, artistId : Nat, tracks : Nat, cover : Nat,
   date : STRING, dateMixed : BOOLEAN, group : STRING \X STRING, groupMixed : BOOLEAN,
   dir : Seq(STRING)]

IsIndex(idx) ==
  /\ idx = [artists |-> idx.artists, albums |-> idx.albums, album |-> idx.album]
  /\ idx.artists \in Seq(ArtistEntry) /\ idx.albums \in Seq(AlbumEntry)

AlbumsBy(albums, i) == {j \in DOMAIN albums : albums[j].artistId = i}
By(seen, artist) == {x \in seen : x.artist = artist}
Of(seen, artist, album) == {x \in seen : x.artist = artist /\ x.album = album}

(* Artists have different names, and count their tracks and albums.        *)
ArtistsInv(idx, seen) ==
  /\ \A i, j \in DOMAIN idx.artists : idx.artists[i].name = idx.artists[j].name => i = j
  /\ \A i \in DOMAIN idx.artists :
       /\ idx.artists[i].name # None
       /\ idx.artists[i].tracks = Cardinality(By(seen, idx.artists[i].name))
       /\ idx.artists[i].albums = Cardinality(AlbumsBy(idx.albums, i))
  /\ \A x \in seen : x.artist # None => \E i \in DOMAIN idx.artists : idx.artists[i].name = x.artist

(* Albums have different names or artists, and know their artist.          *)
KeysInv(idx) ==
  /\ \A i, j \in DOMAIN idx.albums :
       idx.albums[i].artist = idx.albums[j].artist /\ idx.albums[i].name = idx.albums[j].name => i = j
  /\ \A i \in DOMAIN idx.albums :
       /\ idx.albums[i].name # None /\ idx.albums[i].cover = 0
       /\ IF idx.albums[i].artist = None THEN idx.albums[i].artistId = 0
          ELSE /\ idx.albums[i].artistId \in DOMAIN idx.artists
               /\ idx.artists[idx.albums[i].artistId].name = idx.albums[i].artist

(* Every track of an album is linked to it.                                *)
LinksInv(idx, seen) ==
  /\ DOMAIN idx.album = {x.id : x \in {y \in seen : y.album # None}}
  /\ \A x \in seen : x.album # None =>
       /\ idx.album[x.id] \in DOMAIN idx.albums
       /\ idx.albums[idx.album[x.id]].artist = x.artist
       /\ idx.albums[idx.album[x.id]].name = x.album

(* An album counts its tracks and has the date and the directory they      *)
(* have in common.                                                         *)
AlbumInv(album, seen) ==
  LET of == Of(seen, album.artist, album.name) IN
  /\ album.tracks = Cardinality(of)
  /\ IF album.dateMixed THEN album.date = None /\ \E x, y \in of : x.date # y.date
                        ELSE \A x \in of : x.date = album.date
  /\ of # {} => album.dir = LongestCommonPrefix({x.dir : x \in of})

GroupedInv(idx, seen) ==
  /\ IsIndex(idx) /\ ArtistsInv(idx, seen) /\ KeysInv(idx) /\ LinksInv(idx, seen)
  /\ \A i \in DOMAIN idx.albums :
       /\ AlbumInv(idx.albums[i], seen)
       /\ Of(seen, idx.albums[i].artist, idx.albums[i].name) # {}

(* One part of an index takes the place of another.                        *)
LEMMA IndexReplaced ==
  ASSUME NEW idx, IsIndex(idx), NEW f
  PROVE  /\ [idx EXCEPT !.artists = f] =
              [artists |-> f, albums |-> idx.albums, album |-> idx.album]
         /\ [idx EXCEPT !.albums = f] =
              [artists |-> idx.artists, albums |-> f, album |-> idx.album]
         /\ [idx EXCEPT !.album = f] =
              [artists |-> idx.artists, albums |-> idx.albums, album |-> f]
<1>1. \A a, b, c :
        LET r == [artists |-> a, albums |-> b, album |-> c] IN
        /\ [r EXCEPT !.artists = f] = [artists |-> f, albums |-> b, album |-> c]
        /\ [r EXCEPT !.albums = f] = [artists |-> a, albums |-> f, album |-> c]
        /\ [r EXCEPT !.album = f] = [artists |-> a, albums |-> b, album |-> f]
  OBVIOUS
<1>2. idx = [artists |-> idx.artists, albums |-> idx.albums, album |-> idx.album]
  BY DEF IsIndex
<1> QED
  BY <1>1, <1>2

(* The first of some positions.                                            *)
LEMMA MinOf ==
  ASSUME NEW T, T \subseteq Nat, T # {}
  PROVE  Min(T) \in T
<1>1. \E n \in T : \A m \in T : n <= m
  BY FirstOf
<1> QED
  BY <1>1 DEF Min

(* The artist of a name.                                                   *)
LEMMA ArtistAtParts ==
  ASSUME NEW idx, Len(idx.artists) \in Nat, DOMAIN idx.artists = 1..Len(idx.artists), NEW name
  PROVE  \/ /\ ArtistAt(idx, name) = 0
            /\ \A i \in DOMAIN idx.artists : idx.artists[i].name # name
         \/ /\ ArtistAt(idx, name) \in DOMAIN idx.artists
            /\ idx.artists[ArtistAt(idx, name)].name = name
<1> DEFINE T == {i \in 1..Len(idx.artists) : idx.artists[i].name = name}
<1>1. ArtistAt(idx, name) = IF T # {} THEN Min(T) ELSE 0
  BY DEF ArtistAt, SelectInSeq
<1>2. T # {} => Min(T) \in T
  <2> HIDE DEF T
  <2>1. T \subseteq Nat
    BY DEF T
  <2> QED
    BY <2>1, MinOf
<1> QED
  BY <1>1, <1>2

(* The album of a name and an artist.                                      *)
LEMMA AlbumAtParts ==
  ASSUME NEW idx, Len(idx.albums) \in Nat, DOMAIN idx.albums = 1..Len(idx.albums),
         NEW artist, NEW name
  PROVE  \/ /\ AlbumAt(idx, artist, name) = 0
            /\ \A i \in DOMAIN idx.albums :
                 ~(idx.albums[i].artist = artist /\ idx.albums[i].name = name)
         \/ /\ AlbumAt(idx, artist, name) \in DOMAIN idx.albums
            /\ idx.albums[AlbumAt(idx, artist, name)].artist = artist
            /\ idx.albums[AlbumAt(idx, artist, name)].name = name
<1> DEFINE T == {i \in 1..Len(idx.albums) : idx.albums[i].artist = artist /\ idx.albums[i].name = name}
<1>1. AlbumAt(idx, artist, name) = IF T # {} THEN Min(T) ELSE 0
  BY DEF AlbumAt, SelectInSeq
<1>2. T # {} => Min(T) \in T
  <2> HIDE DEF T
  <2>1. T \subseteq Nat
    BY DEF T
  <2> QED
    BY <2>1, MinOf
<1> QED
  BY <1>1, <1>2

(* One more track by an artist.                                            *)
LEMMA ByNext ==
  ASSUME NEW seen, IsFiniteSet(seen), NEW item, item \notin seen, NEW artist
  PROVE  /\ Cardinality(By(seen, artist)) \in Nat
         /\ Cardinality(By(seen \cup {item}, artist)) =
              IF item.artist = artist THEN Cardinality(By(seen, artist)) + 1
                                      ELSE Cardinality(By(seen, artist))
<1>1. By(seen, artist) \subseteq seen
  BY DEF By
<1>2. IsFiniteSet(By(seen, artist)) /\ Cardinality(By(seen, artist)) \in Nat
  BY <1>1, FS_Subset, FS_CardinalityType
<1>3. CASE item.artist = artist
  <2>1. By(seen \cup {item}, artist) = By(seen, artist) \cup {item}
    BY <1>3 DEF By
  <2>2. item \notin By(seen, artist)
    BY <1>1
  <2> QED
    BY <1>2, <1>3, <2>1, <2>2, FS_AddElement, ZenonT(60)
<1>4. CASE item.artist # artist
  <2>1. By(seen \cup {item}, artist) = By(seen, artist)
    BY <1>4 DEF By
  <2> QED
    BY <1>2, <1>4, <2>1
<1> QED
  BY <1>3, <1>4

(* Albums know their artist whatever it counts.                            *)
LEMMA KeysKept ==
  ASSUME NEW idx, NEW new, KeysInv(idx), new.albums = idx.albums,
         DOMAIN idx.artists \subseteq DOMAIN new.artists,
         \A i \in DOMAIN idx.artists : new.artists[i].name = idx.artists[i].name
  PROVE  KeysInv(new)
BY DEF KeysInv

(* A track of an artist the index has not, or has.                         *)
LEMMA ArtistStep ==
  ASSUME NEW idx, IsIndex(idx), NEW seen, IsFiniteSet(seen), ArtistsInv(idx, seen),
         KeysInv(idx), NEW item \in Item, item \notin seen
  PROVE  LET new == WithArtist(idx, item) IN
         /\ IsIndex(new) /\ new.albums = idx.albums /\ new.album = idx.album
         /\ ArtistsInv(new, seen \cup {item}) /\ KeysInv(new)
<1>a. PICK i : i = ArtistAt(idx, item.artist)
  OBVIOUS
<1>b. PICK all : all = seen \cup {item}
  OBVIOUS
<1>1. PICK n \in Nat : /\ n = Len(idx.artists) /\ DOMAIN idx.artists = 1..n
                       /\ \A k \in 1..n : idx.artists[k] \in ArtistEntry
  BY LenProperties DEF IsIndex
<1>2. item.artist \in STRING
  BY DEF Item
<1>3. \A name : /\ Cardinality(By(seen, name)) \in Nat
                /\ Cardinality(By(all, name)) =
                     IF item.artist = name THEN Cardinality(By(seen, name)) + 1
                                           ELSE Cardinality(By(seen, name))
  BY <1>b, ByNext
<1>4. \/ i = 0 /\ \A k \in 1..n : idx.artists[k].name # item.artist
      \/ i \in 1..n /\ idx.artists[i].name = item.artist
  BY <1>a, <1>1, ArtistAtParts
<1>5. \A k \in 1..n : /\ idx.artists[k].name # None
                      /\ idx.artists[k].tracks = Cardinality(By(seen, idx.artists[k].name))
                      /\ idx.artists[k].albums = Cardinality(AlbumsBy(idx.albums, k))
  BY <1>1 DEF ArtistsInv
<1>6. CASE item.artist = None
  <2>1. WithArtist(idx, item) = idx
    BY <1>6 DEF WithArtist
  <2>2. \A k \in 1..n : idx.artists[k].tracks = Cardinality(By(all, idx.artists[k].name))
    BY <1>3, <1>5, <1>6
  <2>3. ArtistsInv(idx, all)
    BY <1>b, <1>1, <1>6, <2>2 DEF ArtistsInv
  <2> QED
    BY <1>b, <2>1, <2>3
<1>7. CASE item.artist # None /\ i = 0
  <2> DEFINE entry == [name |-> item.artist, tracks |-> 1, albums |-> 0]
             r == Append(idx.artists, entry)
  <2>1. entry \in ArtistEntry
    BY <1>2 DEF ArtistEntry
  <2>2. PICK new : new = WithArtist(idx, item)
    OBVIOUS
  <2>3. new = [idx EXCEPT !.artists = r]
    BY <1>a, <1>7, <2>2 DEF WithArtist
  <2> HIDE DEF r, entry
  <2>4. new = [artists |-> r, albums |-> idx.albums, album |-> idx.album]
    BY <2>3, IndexReplaced
  <2>5. new.artists = r /\ new.albums = idx.albums /\ new.album = idx.album
    BY <2>4
  <2>6. /\ r \in Seq(ArtistEntry) /\ DOMAIN r = 1..(n + 1) /\ r[n + 1] = entry
        /\ \A k \in 1..n : r[k] = idx.artists[k]
    BY <1>1, <2>1, AppendProperties DEF IsIndex, r
  <2>7. IsIndex(new)
    BY <2>4, <2>5, <2>6 DEF IsIndex
  <2>8. entry.name = item.artist /\ entry.tracks = 1 /\ entry.albums = 0
    BY DEF entry
  <2>9. KeysInv(new)
    BY <1>1, <2>5, <2>6, KeysKept
  <2>10. Cardinality(By(all, item.artist)) = 1
    <3>1. By(seen, item.artist) = {}
      BY <1>1, <1>4, <1>7 DEF By, ArtistsInv
    <3>2. Cardinality(By(seen, item.artist)) = 0
      BY <3>1, FS_EmptySet
    <3>3. Cardinality(By(all, item.artist)) = Cardinality(By(seen, item.artist)) + 1
      BY <1>3
    <3> QED
      BY <3>2, <3>3
  <2>11. AlbumsBy(idx.albums, n + 1) = {}
    BY <1>1 DEF KeysInv, AlbumsBy
  <2>12. \A k \in 1..n : item.artist # idx.artists[k].name
    BY <1>4, <1>7
  <2>13. ArtistsInv(new, all)
    <3>1. \A k, l \in 1..(n + 1) : r[k].name = r[l].name => k = l
      <4> SUFFICES ASSUME NEW k \in 1..(n + 1), NEW l \in 1..(n + 1), r[k].name = r[l].name
                   PROVE  k = l
        OBVIOUS
      <4>1. (k \in 1..n \/ k = n + 1) /\ (l \in 1..n \/ l = n + 1)
        OBVIOUS
      <4>2. k \in 1..n /\ l \in 1..n => k = l
        BY <1>1, <2>6 DEF ArtistsInv
      <4> QED
        BY <2>6, <2>8, <2>12, <4>1, <4>2
    <3>2. \A k \in 1..(n + 1) :
            /\ r[k].name # None
            /\ r[k].tracks = Cardinality(By(all, r[k].name))
            /\ r[k].albums = Cardinality(AlbumsBy(idx.albums, k))
      <4> TAKE k \in 1..(n + 1)
      <4>1. CASE k \in 1..n
        BY <1>3, <1>5, <2>6, <2>12, <4>1
      <4>2. CASE k = n + 1
        BY <1>7, <2>6, <2>8, <2>10, <2>11, <4>2, FS_EmptySet
      <4> QED
        BY <4>1, <4>2
    <3>3. \A x \in all : x.artist # None => \E k \in 1..(n + 1) : r[k].name = x.artist
      <4> SUFFICES ASSUME NEW x \in all, x.artist # None
                   PROVE  \E k \in 1..(n + 1) : r[k].name = x.artist
        OBVIOUS
      <4>1. CASE x = item
        <5>1. n + 1 \in 1..(n + 1)
          OBVIOUS
        <5> QED
          BY <2>6, <2>8, <4>1, <5>1
      <4>2. CASE x \in seen
        <5>1. PICK k \in 1..n : idx.artists[k].name = x.artist
          BY <1>1, <4>2 DEF ArtistsInv
        <5>2. k \in 1..(n + 1)
          OBVIOUS
        <5> QED
          BY <2>6, <5>1, <5>2
      <4> QED
        BY <1>b, <4>1, <4>2
    <3> QED
      BY <2>5, <2>6, <3>1, <3>2, <3>3 DEF ArtistsInv
  <2> QED
    BY <1>b, <2>2, <2>5, <2>7, <2>9, <2>13
<1>8. CASE item.artist # None /\ i # 0
  <2> DEFINE r == [idx.artists EXCEPT ![i].tracks = @ + 1]
  <2>1. i \in 1..n /\ idx.artists[i].name = item.artist
    BY <1>4, <1>8
  <2>2. /\ DOMAIN r = 1..n
        /\ r[i] = [idx.artists[i] EXCEPT !.tracks = @ + 1]
        /\ \A k \in 1..n : k # i => r[k] = idx.artists[k]
    BY <1>1, <2>1
  <2>3. PICK new : new = WithArtist(idx, item)
    OBVIOUS
  <2>4. new = [idx EXCEPT !.artists = r]
    BY <1>a, <1>8, <2>3 DEF WithArtist
  <2> HIDE DEF r
  <2>5. new = [artists |-> r, albums |-> idx.albums, album |-> idx.album]
    BY <2>4, IndexReplaced
  <2>6. new.artists = r /\ new.albums = idx.albums /\ new.album = idx.album
    BY <2>5
  <2>7. /\ r[i].name = item.artist /\ r[i].tracks = idx.artists[i].tracks + 1
        /\ r[i].albums = idx.artists[i].albums /\ r[i] \in ArtistEntry
    BY <1>1, <2>1, <2>2 DEF ArtistEntry
  <2>8. \A k \in 1..n : r[k] \in ArtistEntry /\ r[k].name = idx.artists[k].name
                        /\ r[k].albums = idx.artists[k].albums
    BY <1>1, <2>1, <2>2, <2>7
  <2>9. r \in Seq(ArtistEntry)
    <3>1. r = [k \in 1..n |-> r[k]]
      BY <2>2 DEF r
    <3> QED
      BY <2>8, <3>1
  <2>10. IsIndex(new)
    BY <2>5, <2>6, <2>9 DEF IsIndex
  <2>11. KeysInv(new)
    BY <1>1, <2>2, <2>6, <2>8, KeysKept
  <2>12. \A k \in 1..n : k # i => item.artist # idx.artists[k].name
    BY <1>1, <2>1 DEF ArtistsInv
  <2>13. ArtistsInv(new, all)
    <3>1. \A k, l \in 1..n : r[k].name = r[l].name => k = l
      BY <1>1, <2>8 DEF ArtistsInv
    <3>2. \A k \in 1..n :
            /\ r[k].name # None
            /\ r[k].tracks = Cardinality(By(all, r[k].name))
            /\ r[k].albums = Cardinality(AlbumsBy(idx.albums, k))
      <4> TAKE k \in 1..n
      <4>1. CASE k = i
        BY <1>3, <1>5, <2>1, <2>7, <4>1
      <4>2. CASE k # i
        BY <1>3, <1>5, <2>2, <2>12, <4>2
      <4> QED
        BY <4>1, <4>2
    <3>3. \A x \in all : x.artist # None => \E k \in 1..n : r[k].name = x.artist
      <4> SUFFICES ASSUME NEW x \in all, x.artist # None
                   PROVE  \E k \in 1..n : r[k].name = x.artist
        OBVIOUS
      <4>1. CASE x = item
        BY <2>1, <2>7, <4>1
      <4>2. CASE x \in seen
        <5>1. PICK k \in 1..n : idx.artists[k].name = x.artist
          BY <1>1, <4>2 DEF ArtistsInv
        <5> QED
          BY <2>8, <5>1
      <4> QED
        BY <1>b, <4>1, <4>2
    <3> QED
      BY <2>2, <2>6, <3>1, <3>2, <3>3 DEF ArtistsInv
  <2> QED
    BY <1>b, <2>3, <2>6, <2>10, <2>11, <2>13
<1> QED
  BY <1>6, <1>7, <1>8

(* An index knows what a missing tag looks like.                           *)
LEMMA NoneIsText == None \in STRING
BY TagAssumption, TextAssumption

(* The groups of a path are segments of it, or missing.                    *)
LEMMA PathGroupType ==
  ASSUME NEW dir \in Seq(STRING)
  PROVE  PathGroup(dir) \in STRING \X STRING
<1>1. \A i \in 1..Len(dir) : dir[i] \in STRING
  BY LenProperties
<1>2. Len(dir) \in Nat
  BY LenProperties
<1>3. (Len(dir) >= 1 => 1 \in 1..Len(dir)) /\ (Len(dir) >= 2 => 2 \in 1..Len(dir))
  BY <1>2
<1> QED
  BY <1>1, <1>3, NoneIsText DEF PathGroup

(* An album that has no track yet.                                         *)
LEMMA NewAlbumStep ==
  ASSUME NEW idx, IsIndex(idx), NEW all, ArtistsInv(idx, all), KeysInv(idx),
         NEW item \in Item, item \in all, item.album # None,
         AlbumAt(idx, item.artist, item.album) = 0
  PROVE  LET new == WithNewAlbum(idx, item) IN
         /\ IsIndex(new) /\ ArtistsInv(new, all) /\ KeysInv(new) /\ new.album = idx.album
         /\ DOMAIN new.albums = 1..(Len(idx.albums) + 1)
         /\ \A k \in 1..Len(idx.albums) : new.albums[k] = idx.albums[k]
         /\ new.albums[Len(idx.albums) + 1] = NewAlbum(idx, item)
<1>1. PICK n \in Nat : /\ n = Len(idx.albums) /\ DOMAIN idx.albums = 1..n
                       /\ \A k \in 1..n : idx.albums[k] \in AlbumEntry
  BY LenProperties DEF IsIndex
<1>2. PICK m \in Nat : /\ m = Len(idx.artists) /\ DOMAIN idx.artists = 1..m
                       /\ \A k \in 1..m : idx.artists[k] \in ArtistEntry
  BY LenProperties DEF IsIndex
<1>3. PICK a : a = ArtistAt(idx, item.artist)
  OBVIOUS
<1>4. PICK album : album = NewAlbum(idx, item)
  OBVIOUS
<1>5. /\ item.artist \in STRING /\ item.album \in STRING /\ item.date \in STRING
      /\ item.dir \in Seq(STRING) /\ PathGroup(item.dir) \in STRING \X STRING
  BY PathGroupType DEF Item
<1>6. IF item.artist = None THEN a = 0 ELSE a \in 1..m /\ idx.artists[a].name = item.artist
  <2>1. \/ a = 0 /\ \A k \in 1..m : idx.artists[k].name # item.artist
        \/ a \in 1..m /\ idx.artists[a].name = item.artist
    BY <1>2, <1>3, ArtistAtParts
  <2>2. item.artist # None => \E k \in 1..m : idx.artists[k].name = item.artist
    BY <1>2 DEF ArtistsInv
  <2>3. \A k \in 1..m : idx.artists[k].name # None
    BY <1>2 DEF ArtistsInv
  <2> QED
    BY <2>1, <2>2, <2>3
<1>7. a \in 0..m
  BY <1>6
<1>8. /\ album.artist = item.artist /\ album.name = item.album /\ album.artistId = a
      /\ album.tracks = 0 /\ album.cover = 0 /\ album.date = item.date
      /\ album.dateMixed = FALSE /\ album.dir = <<>> /\ album \in AlbumEntry
  BY <1>3, <1>4, <1>5, <1>7 DEF NewAlbum, AlbumEntry
<1> DEFINE albums == Append(idx.albums, album)
           r == [i \in DOMAIN idx.artists |->
                   IF i = a THEN [idx.artists[i] EXCEPT !.albums = @ + 1] ELSE idx.artists[i]]
<1>9. PICK new : new = WithNewAlbum(idx, item)
  OBVIOUS
<1>10. new = [artists |-> r, albums |-> albums, album |-> idx.album]
  <2>1. WithOneMore(idx.artists, a) = r
    BY DEF WithOneMore
  <2>2. new = [artists |-> WithOneMore(idx.artists, a), albums |-> albums, album |-> idx.album]
    BY <1>4, <1>8, <1>9 DEF WithNewAlbum
  <2> HIDE DEF r, albums
  <2> QED
    BY <2>1, <2>2
<1>11. /\ albums \in Seq(AlbumEntry) /\ DOMAIN albums = 1..(n + 1) /\ albums[n + 1] = album
       /\ \A k \in 1..n : albums[k] = idx.albums[k]
  BY <1>1, <1>8, AppendProperties DEF IsIndex
<1>12. /\ DOMAIN r = 1..m
       /\ \A k \in 1..m : /\ r[k] \in ArtistEntry /\ r[k].name = idx.artists[k].name
                          /\ r[k].tracks = idx.artists[k].tracks
                          /\ r[k].albums = IF k = a THEN idx.artists[k].albums + 1
                                                    ELSE idx.artists[k].albums
  <2>1. DOMAIN r = 1..m
    BY <1>2
  <2>2. ASSUME NEW k \in 1..m
        PROVE  /\ r[k] \in ArtistEntry /\ r[k].name = idx.artists[k].name
               /\ r[k].tracks = idx.artists[k].tracks
               /\ r[k].albums = IF k = a THEN idx.artists[k].albums + 1
                                         ELSE idx.artists[k].albums
    <3>1. r[k] = IF k = a THEN [idx.artists[k] EXCEPT !.albums = @ + 1] ELSE idx.artists[k]
      BY <1>2
    <3>2. idx.artists[k] \in ArtistEntry
      BY <1>2
    <3> HIDE DEF r
    <3> QED
      BY <3>1, <3>2 DEF ArtistEntry
  <2> QED
    BY <2>1, <2>2
<1>13. r \in Seq(ArtistEntry)
  <2>1. r = [k \in 1..m |-> r[k]]
    BY <1>2
  <2> HIDE DEF r
  <2> QED
    BY <1>12, <2>1
<1> HIDE DEF albums, r
<1>15. new.artists = r /\ new.albums = albums /\ new.album = idx.album
  BY <1>10
<1>16. IsIndex(new)
  BY <1>10, <1>11, <1>13, <1>15 DEF IsIndex
<1>17. ArtistsInv(new, all)
  <2>1. \A k \in 1..m : AlbumsBy(albums, k) = IF k = a THEN AlbumsBy(idx.albums, k) \cup {n + 1}
                                                       ELSE AlbumsBy(idx.albums, k)
    <3> SUFFICES ASSUME NEW k \in 1..m
                 PROVE  AlbumsBy(albums, k) = IF k = a THEN AlbumsBy(idx.albums, k) \cup {n + 1}
                                                       ELSE AlbumsBy(idx.albums, k)
      OBVIOUS
    <3>1. AlbumsBy(idx.albums, k) = {j \in 1..n : idx.albums[j].artistId = k}
      BY <1>1 DEF AlbumsBy
    <3>2. AlbumsBy(albums, k) = {j \in 1..(n + 1) : albums[j].artistId = k}
      BY <1>11 DEF AlbumsBy
    <3>3. \A j \in 1..(n + 1) : j \in 1..n \/ j = n + 1
      OBVIOUS
    <3>4. \A j \in 1..n : j \in 1..(n + 1)
      OBVIOUS
    <3>5. n + 1 \in 1..(n + 1)
      OBVIOUS
    <3> QED
      BY <1>8, <1>11, <3>1, <3>2, <3>3, <3>4, <3>5
  <2>2. \A k \in 1..m : r[k].albums = Cardinality(AlbumsBy(albums, k))
    <3> SUFFICES ASSUME NEW k \in 1..m
                 PROVE  r[k].albums = Cardinality(AlbumsBy(albums, k))
      OBVIOUS
    <3>1. idx.artists[k].albums = Cardinality(AlbumsBy(idx.albums, k))
      BY <1>2 DEF ArtistsInv
    <3>2. IsFiniteSet(AlbumsBy(idx.albums, k)) /\ n + 1 \notin AlbumsBy(idx.albums, k)
      <4>1. AlbumsBy(idx.albums, k) \subseteq 1..n /\ n + 1 \notin 1..n
        BY <1>1 DEF AlbumsBy
      <4>2. IsFiniteSet(1..n)
        BY FS_Interval
      <4> QED
        BY <4>1, <4>2, FS_Subset
    <3>3. Cardinality(AlbumsBy(idx.albums, k) \cup {n + 1}) = Cardinality(AlbumsBy(idx.albums, k)) + 1
      BY <3>2, FS_AddElement
    <3> QED
      BY <1>12, <2>1, <3>1, <3>3
  <2>3. \A k, l \in 1..m : r[k].name = r[l].name => k = l
    BY <1>2, <1>12, SMTT(60) DEF ArtistsInv
  <2>4. \A k \in 1..m : r[k].name # None /\ r[k].tracks = Cardinality(By(all, r[k].name))
    BY <1>2, <1>12 DEF ArtistsInv
  <2>5. \A x \in all : x.artist # None => \E k \in 1..m : r[k].name = x.artist
    BY <1>2, <1>12 DEF ArtistsInv
  <2> QED
    BY <1>12, <1>15, <2>2, <2>3, <2>4, <2>5 DEF ArtistsInv
<1>18. KeysInv(new)
  <2>1. \A k \in 1..n : ~(idx.albums[k].artist = item.artist /\ idx.albums[k].name = item.album)
    <3>1. \/ /\ AlbumAt(idx, item.artist, item.album) = 0
             /\ \A k \in 1..n :
                  ~(idx.albums[k].artist = item.artist /\ idx.albums[k].name = item.album)
          \/ AlbumAt(idx, item.artist, item.album) \in 1..n
      BY <1>1, AlbumAtParts
    <3> QED
      BY <3>1
  <2>2. ASSUME NEW k \in 1..(n + 1), NEW l \in 1..(n + 1),
               albums[k].artist = albums[l].artist, albums[k].name = albums[l].name
        PROVE  k = l
    <3>1. (k \in 1..n \/ k = n + 1) /\ (l \in 1..n \/ l = n + 1)
      OBVIOUS
    <3>2. k \in 1..n /\ l \in 1..n => k = l
      BY <1>1, <1>11, <2>2, SMTT(60) DEF KeysInv
    <3> QED
      BY <1>8, <1>11, <2>1, <2>2, <3>1, <3>2
  <2>3. ASSUME NEW k \in 1..(n + 1)
        PROVE  /\ albums[k].name # None /\ albums[k].cover = 0
               /\ IF albums[k].artist = None THEN albums[k].artistId = 0
                  ELSE /\ albums[k].artistId \in 1..m
                       /\ r[albums[k].artistId].name = albums[k].artist
    <3>1. CASE k \in 1..n
      <4>1. /\ idx.albums[k].name # None /\ idx.albums[k].cover = 0
            /\ IF idx.albums[k].artist = None THEN idx.albums[k].artistId = 0
               ELSE /\ idx.albums[k].artistId \in 1..m
                    /\ idx.artists[idx.albums[k].artistId].name = idx.albums[k].artist
        BY <1>1, <1>2, <3>1 DEF KeysInv
      <4> QED
        BY <1>11, <1>12, <3>1, <4>1
    <3>2. CASE k = n + 1
      BY <1>6, <1>8, <1>11, <1>12, <3>2
    <3> QED
      BY <3>1, <3>2
  <2> QED
    BY <1>11, <1>12, <1>15, <2>2, <2>3 DEF KeysInv
<1> QED
  BY <1>1, <1>4, <1>9, <1>11, <1>15, <1>16, <1>17, <1>18

(* One more track of an album.                                             *)
LEMMA OfNext ==
  ASSUME NEW seen, IsFiniteSet(seen), NEW item, item \notin seen, NEW artist, NEW album
  PROVE  /\ IsFiniteSet(Of(seen, artist, album)) /\ Of(seen, artist, album) \subseteq seen
         /\ Of(seen \cup {item}, artist, album) =
              IF item.artist = artist /\ item.album = album THEN Of(seen, artist, album) \cup {item}
                                                            ELSE Of(seen, artist, album)
<1>1. Of(seen, artist, album) \subseteq seen
  BY DEF Of
<1>2. IsFiniteSet(Of(seen, artist, album))
  BY <1>1, FS_Subset
<1>3. Of(seen \cup {item}, artist, album) =
        IF item.artist = artist /\ item.album = album THEN Of(seen, artist, album) \cup {item}
                                                      ELSE Of(seen, artist, album)
  BY DEF Of
<1> QED
  BY <1>1, <1>2, <1>3

(* The fields of an album with one more track.                             *)
LEMMA WithTrackFields ==
  ASSUME NEW album \in AlbumEntry, NEW item \in Item
  PROVE  LET new == WithTrack(album, item) IN
         /\ new.artist = album.artist /\ new.name = album.name
         /\ new.artistId = album.artistId /\ new.cover = album.cover
         /\ new.tracks = album.tracks + 1
         /\ new.dateMixed = DateMixedWith(album, item)
         /\ new.date = IF DateMixedWith(album, item) THEN None ELSE item.date
         /\ new.dir = CoverDirWith(album, item)
         /\ CoverDirWith(album, item) \in Seq(STRING) => new \in AlbumEntry
<1>1. item.date \in STRING /\ item.dir \in Seq(STRING)
  BY DEF Item
<1>2. DateMixedWith(album, item) \in BOOLEAN
  BY DEF DateMixedWith, AlbumEntry
<1>3. PICK mixed \in BOOLEAN : mixed = DateMixedWith(album, item)
  BY <1>2
<1>4. PICK date \in STRING : date = IF mixed THEN None ELSE item.date
  BY <1>1, NoneIsText
<1>5. PICK dir : dir = CoverDirWith(album, item)
  OBVIOUS
<1>6. PICK group \in BOOLEAN : group = (album.groupMixed \/ album.group # PathGroup(item.dir))
  BY DEF AlbumEntry
<1>7. PICK new : new = WithTrack(album, item)
  OBVIOUS
<1>8. new = [album EXCEPT !.tracks = album.tracks + 1, !.dateMixed = mixed, !.date = date,
                          !.groupMixed = group, !.dir = dir]
  BY <1>3, <1>4, <1>5, <1>6, <1>7 DEF WithTrack
<1>9. /\ new.artist = album.artist /\ new.name = album.name
      /\ new.artistId = album.artistId /\ new.cover = album.cover
      /\ new.tracks = album.tracks + 1 /\ new.dateMixed = mixed /\ new.date = date
      /\ new.dir = dir
      /\ dir \in Seq(STRING) => new \in AlbumEntry
  <2>1. /\ new.artist = album.artist /\ new.name = album.name
        /\ new.artistId = album.artistId /\ new.cover = album.cover
    BY <1>8 DEF AlbumEntry
  <2>2. new.tracks = album.tracks + 1 /\ new.dateMixed = mixed
    BY <1>8 DEF AlbumEntry
  <2>3. new.date = date /\ new.dir = dir
    BY <1>8 DEF AlbumEntry
  <2>4. ASSUME dir \in Seq(STRING)
        PROVE  new \in AlbumEntry
    <3>1. PICK a : a = [album EXCEPT !.tracks = album.tracks + 1]
      OBVIOUS
    <3>2. PICK b : b = [a EXCEPT !.dateMixed = mixed]
      OBVIOUS
    <3>3. PICK c : c = [b EXCEPT !.date = date]
      OBVIOUS
    <3>4. PICK d : d = [c EXCEPT !.groupMixed = group]
      OBVIOUS
    <3>5. new = [d EXCEPT !.dir = dir]
      BY <1>8, <3>1, <3>2, <3>3, <3>4
    <3>6. a \in AlbumEntry
      BY <3>1 DEF AlbumEntry
    <3>7. b \in AlbumEntry
      BY <3>2, <3>6 DEF AlbumEntry
    <3>8. c \in AlbumEntry
      BY <3>3, <3>7 DEF AlbumEntry
    <3>9. d \in AlbumEntry
      BY <3>4, <3>8 DEF AlbumEntry
    <3> QED
      BY <2>4, <3>5, <3>9 DEF AlbumEntry
  <2> QED
    BY <2>1, <2>2, <2>3, <2>4
<1> QED
  BY <1>3, <1>4, <1>5, <1>7, <1>9

(* The directory an album's tracks have in common, with one more.          *)
LEMMA DirStep ==
  ASSUME NEW album \in AlbumEntry, NEW of, IsFiniteSet(of), of \subseteq Item, NEW item \in Item,
         album.tracks = Cardinality(of),
         of # {} => album.dir = LongestCommonPrefix({x.dir : x \in of})
  PROVE  /\ CoverDirWith(album, item) \in Seq(STRING)
         /\ CoverDirWith(album, item) = LongestCommonPrefix({x.dir : x \in of \cup {item}})
<1>1. PICK dirs : dirs = {x.dir : x \in of}
  OBVIOUS
<1>2. dirs \subseteq Seq(STRING) /\ item.dir \in Seq(STRING)
  BY <1>1 DEF Item
<1>3. {x.dir : x \in of \cup {item}} = dirs \cup {item.dir}
  BY <1>1
<1>4. album.tracks = 0 <=> of = {}
  BY FS_EmptySet
<1>5. CASE of = {}
  <2>1. {x.dir : x \in of \cup {item}} = {item.dir}
    BY <1>5
  <2> QED
    BY <1>2, <1>4, <1>5, <2>1, LongestOne DEF CoverDirWith
<1>6. CASE of # {}
  <2>1. dirs # {}
    BY <1>1, <1>6
  <2>2. PICK p : p = LongestCommonPrefix(dirs)
    OBVIOUS
  <2>3. album.dir = p
    BY <1>1, <1>6, <2>2
  <2>4. /\ p \in Seq(STRING)
        /\ LongestCommonPrefix(dirs \cup {item.dir}) = LongestCommonPrefix({p, item.dir})
    BY <1>2, <2>1, <2>2, LongestNext
  <2>5. LongestCommonPrefix({p, item.dir}) \in Seq(STRING)
    <3>1. {p, item.dir} \subseteq Seq(STRING) /\ {p, item.dir} # {}
      BY <1>2, <2>4
    <3> QED
      BY <1>2, <3>1, LongestNext
  <2>6. CoverDirWith(album, item) = LongestCommonPrefix({p, item.dir})
    <3>1. CASE p = <<>>
      <4>1. CoverDirWith(album, item) = <<>>
        BY <1>4, <1>6, <2>3, <3>1 DEF CoverDirWith
      <4> QED
        BY <1>2, <3>1, <4>1, LongestOne
    <3>2. CASE p # <<>>
      <4>1. CoverDirWith(album, item) = CommonDir(album.dir, item.dir)
        BY <1>4, <1>6, <2>3, <3>2 DEF CoverDirWith
      <4> QED
        BY <2>3, <4>1 DEF CommonDir
    <3> QED
      BY <3>1, <3>2
  <2> QED
    BY <1>3, <2>4, <2>5, <2>6
<1> QED
  BY <1>5, <1>6

(* An album that gets the track.                                           *)
LEMMA AlbumStep ==
  ASSUME NEW album \in AlbumEntry, NEW seen, IsFiniteSet(seen), seen \subseteq Item,
         NEW item \in Item, item \notin seen, AlbumInv(album, seen),
         album.artist = item.artist, album.name = item.album,
         Of(seen, item.artist, item.album) = {} => album.date = item.date
  PROVE  LET new == WithTrack(album, item) IN
         new \in AlbumEntry /\ AlbumInv(new, seen \cup {item})
<1>1. PICK of : of = Of(seen, item.artist, item.album)
  OBVIOUS
<1>2. PICK new : new = WithTrack(album, item)
  OBVIOUS
<1>3. /\ IsFiniteSet(of) /\ of \subseteq Item /\ item \notin of
      /\ Of(seen \cup {item}, item.artist, item.album) = of \cup {item}
  BY <1>1, OfNext, ZenonT(60)
<1>4. /\ album.tracks = Cardinality(of)
      /\ IF album.dateMixed THEN album.date = None /\ \E x, y \in of : x.date # y.date
                            ELSE \A x \in of : x.date = album.date
      /\ of # {} => album.dir = LongestCommonPrefix({x.dir : x \in of})
  BY <1>1 DEF AlbumInv
<1>5. PICK mixed : mixed = DateMixedWith(album, item)
  OBVIOUS
<1>6. PICK dir : dir = CoverDirWith(album, item)
  OBVIOUS
<1>7. /\ new.artist = item.artist /\ new.name = item.album
      /\ new.tracks = album.tracks + 1 /\ new.dateMixed = mixed
      /\ new.date = (IF mixed THEN None ELSE item.date)
      /\ new.dir = dir /\ (dir \in Seq(STRING) => new \in AlbumEntry)
  BY <1>2, <1>5, <1>6, WithTrackFields
<1>8. dir \in Seq(STRING) /\ dir = LongestCommonPrefix({x.dir : x \in of \cup {item}})
  BY <1>3, <1>4, <1>6, DirStep
<1>9. Cardinality(of \cup {item}) = Cardinality(of) + 1
  BY <1>3, FS_AddElement
<1>10. mixed = (album.dateMixed \/ album.date # item.date)
  BY <1>5 DEF DateMixedWith
<1>11. IF new.dateMixed THEN new.date = None /\ \E x, y \in of \cup {item} : x.date # y.date
                        ELSE \A x \in of \cup {item} : x.date = new.date
  <2>1. CASE album.dateMixed
    BY <1>4, <1>7, <1>10, <2>1
  <2>2. CASE ~album.dateMixed /\ album.date # item.date
    <3>1. PICK x \in of : x.date = album.date
      BY <1>1, <1>4, <2>2
    <3> QED
      BY <1>7, <1>10, <2>2, <3>1
  <2>3. CASE ~album.dateMixed /\ album.date = item.date
    BY <1>4, <1>7, <1>10, <2>3
  <2> QED
    BY <2>1, <2>2, <2>3
<1>12. AlbumInv(new, seen \cup {item})
  <2>1. Of(seen \cup {item}, new.artist, new.name) = of \cup {item}
    BY <1>3, <1>7
  <2>2. new.tracks = Cardinality(of \cup {item})
    BY <1>4, <1>7, <1>9
  <2>3. new.dir = LongestCommonPrefix({x.dir : x \in of \cup {item}})
    BY <1>7, <1>8
  <2> QED
    BY <1>11, <2>1, <2>2, <2>3 DEF AlbumInv
<1> QED
  BY <1>2, <1>7, <1>8, <1>12

(* Artists count what they count in any index with as many albums by them. *)
LEMMA ArtistsKept ==
  ASSUME NEW idx, NEW new, NEW seen, ArtistsInv(idx, seen), new.artists = idx.artists,
         \A k : AlbumsBy(new.albums, k) = AlbumsBy(idx.albums, k)
  PROVE  ArtistsInv(new, seen)
BY DEF ArtistsInv

(* A track goes to the album of its artist and name.                       *)
LEMMA LinkStep ==
  ASSUME NEW base, IsIndex(base), NEW seen, IsFiniteSet(seen), seen \subseteq Item,
         NEW item \in Item, item \notin seen, \A x \in seen : x.id # item.id, item.album # None,
         ArtistsInv(base, seen \cup {item}), KeysInv(base), LinksInv(base, seen),
         \A k \in DOMAIN base.albums :
           /\ AlbumInv(base.albums[k], seen)
           /\ Of(seen, base.albums[k].artist, base.albums[k].name) = {} =>
                /\ base.albums[k].artist = item.artist /\ base.albums[k].name = item.album
                /\ base.albums[k].date = item.date,
         NEW i \in DOMAIN base.albums,
         base.albums[i].artist = item.artist, base.albums[i].name = item.album
  PROVE  GroupedInv([artists |-> base.artists,
                     albums |-> [base.albums EXCEPT ![i] = WithTrack(@, item)],
                     album |-> [id \in DOMAIN base.album \cup {item.id} |->
                                  IF id = item.id THEN i ELSE base.album[id]]],
                    seen \cup {item})
<1>1. PICK n \in Nat : /\ n = Len(base.albums) /\ DOMAIN base.albums = 1..n
                       /\ \A k \in 1..n : base.albums[k] \in AlbumEntry
  BY LenProperties DEF IsIndex
<1>2. PICK all : all = seen \cup {item}
  OBVIOUS
<1>3. PICK track : track = WithTrack(base.albums[i], item)
  OBVIOUS
<1>4. PICK albums : albums = [base.albums EXCEPT ![i] = track]
  OBVIOUS
<1>5. PICK links : links = [id \in DOMAIN base.album \cup {item.id} |->
                              IF id = item.id THEN i ELSE base.album[id]]
  OBVIOUS
<1>6. PICK new : new = [artists |-> base.artists, albums |-> albums, album |-> links]
  OBVIOUS
<1>7. new.artists = base.artists /\ new.albums = albums /\ new.album = links
  BY <1>6
<1>8. DOMAIN albums = 1..n /\ albums[i] = track /\ \A k \in 1..n : k # i => albums[k] = base.albums[k]
  BY <1>1, <1>4
<1>9. /\ track \in AlbumEntry /\ AlbumInv(track, all)
      /\ track.artist = base.albums[i].artist /\ track.name = base.albums[i].name
      /\ track.artistId = base.albums[i].artistId /\ track.cover = base.albums[i].cover
  <2>1. PICK album \in AlbumEntry : album = base.albums[i]
    BY <1>1
  <2>2. AlbumInv(album, seen) /\ album.artist = item.artist /\ album.name = item.album
    BY <2>1
  <2>3. Of(seen, item.artist, item.album) = {} => album.date = item.date
    BY <2>1
  <2>4. track \in AlbumEntry /\ AlbumInv(track, all)
    BY <1>2, <1>3, <2>1, <2>2, <2>3, AlbumStep
  <2>5. /\ track.artist = album.artist /\ track.name = album.name
        /\ track.artistId = album.artistId /\ track.cover = album.cover
    BY <1>3, <2>1, WithTrackFields
  <2> QED
    BY <2>1, <2>4, <2>5
<1>10. \A k \in 1..n :
         /\ albums[k] \in AlbumEntry
         /\ albums[k].artist = base.albums[k].artist /\ albums[k].name = base.albums[k].name
         /\ albums[k].artistId = base.albums[k].artistId /\ albums[k].cover = base.albums[k].cover
  BY <1>1, <1>8, <1>9
<1>11. IsIndex(new)
  <2>1. albums = [k \in 1..n |-> albums[k]]
    BY <1>1, <1>4
  <2>2. albums \in Seq(AlbumEntry)
    BY <1>10, <2>1
  <2> QED
    BY <1>6, <1>7, <2>2 DEF IsIndex
<1>12. ArtistsInv(new, all)
  <2>1. \A k : AlbumsBy(albums, k) = AlbumsBy(base.albums, k)
    BY <1>1, <1>8, <1>10 DEF AlbumsBy
  <2>2. ArtistsInv(base, all)
    BY <1>2
  <2> QED
    BY <1>7, <2>1, <2>2, ArtistsKept
<1>13. KeysInv(new)
  <2>1. \A k, l \in 1..n : albums[k].artist = albums[l].artist /\ albums[k].name = albums[l].name => k = l
    BY <1>1, <1>10, SMTT(60) DEF KeysInv
  <2>2. ASSUME NEW k \in 1..n
        PROVE  /\ albums[k].name # None /\ albums[k].cover = 0
               /\ IF albums[k].artist = None THEN albums[k].artistId = 0
                  ELSE /\ albums[k].artistId \in DOMAIN base.artists
                       /\ base.artists[albums[k].artistId].name = albums[k].artist
    <3>1. /\ base.albums[k].name # None /\ base.albums[k].cover = 0
          /\ IF base.albums[k].artist = None THEN base.albums[k].artistId = 0
             ELSE /\ base.albums[k].artistId \in DOMAIN base.artists
                  /\ base.artists[base.albums[k].artistId].name = base.albums[k].artist
      BY <1>1 DEF KeysInv
    <3> QED
      BY <1>10, <3>1
  <2> QED
    BY <1>7, <1>8, <2>1, <2>2 DEF KeysInv
<1>14. LinksInv(new, all)
  <2>1. DOMAIN links = {x.id : x \in {y \in all : y.album # None}}
    <3>1. DOMAIN base.album = {x.id : x \in {y \in seen : y.album # None}}
      BY DEF LinksInv
    <3> QED
      BY <1>2, <1>5, <3>1
  <2>2. ASSUME NEW x \in all, x.album # None
        PROVE  /\ links[x.id] \in 1..n
               /\ albums[links[x.id]].artist = x.artist /\ albums[links[x.id]].name = x.album
    <3>1. CASE x = item
      <4>1. links[item.id] = i
        BY <1>5
      <4> QED
        BY <1>1, <1>10, <3>1, <4>1
    <3>2. CASE x \in seen
      <4>1. x.id # item.id /\ x.id \in DOMAIN base.album
        BY <2>2, <3>2 DEF LinksInv
      <4>2. links[x.id] = base.album[x.id]
        BY <1>5, <4>1
      <4>3. /\ base.album[x.id] \in 1..n
            /\ base.albums[base.album[x.id]].artist = x.artist
            /\ base.albums[base.album[x.id]].name = x.album
        BY <1>1, <2>2, <3>2 DEF LinksInv
      <4> QED
        BY <1>10, <4>2, <4>3
    <3> QED
      BY <1>2, <3>1, <3>2
  <2> QED
    BY <1>7, <1>8, <2>1, <2>2 DEF LinksInv
<1>15. ASSUME NEW k \in 1..n
       PROVE  AlbumInv(albums[k], all) /\ Of(all, albums[k].artist, albums[k].name) # {}
  <2>1. CASE k = i
    <3>1. item \in Of(all, albums[k].artist, albums[k].name)
      BY <1>2, <1>10, <2>1 DEF Of
    <3> QED
      BY <1>8, <1>9, <2>1, <3>1
  <2>2. CASE k # i
    <3>1. albums[k] = base.albums[k]
      BY <1>8, <2>2
    <3>2. ~(item.artist = albums[k].artist /\ item.album = albums[k].name)
      BY <1>1, <2>2, <3>1 DEF KeysInv
    <3>3. Of(all, albums[k].artist, albums[k].name) = Of(seen, albums[k].artist, albums[k].name)
      <4>1. PICK artist, name : artist = albums[k].artist /\ name = albums[k].name
        OBVIOUS
      <4>2. ~(item.artist = artist /\ item.album = name)
        BY <3>2, <4>1
      <4>3. Of(seen \cup {item}, artist, name) = Of(seen, artist, name)
        BY <4>2 DEF Of
      <4> QED
        BY <1>2, <4>1, <4>3
    <3>4. AlbumInv(albums[k], seen) /\ Of(seen, albums[k].artist, albums[k].name) # {}
      BY <1>1, <3>1, <3>2
    <3> QED
      BY <3>3, <3>4 DEF AlbumInv
  <2> QED
    BY <2>1, <2>2
<1>16. GroupedInv(new, all)
  BY <1>7, <1>8, <1>11, <1>12, <1>13, <1>14, <1>15 DEF GroupedInv
<1> QED
  BY <1>2, <1>3, <1>4, <1>5, <1>6, <1>16

(* A new album has no track yet.                                           *)
LEMMA NewAlbumParts ==
  ASSUME NEW idx, NEW item \in Item, NEW seen, Of(seen, item.artist, item.album) = {}
  PROVE  LET album == NewAlbum(idx, item) IN
         /\ album.artist = item.artist /\ album.name = item.album /\ album.date = item.date
         /\ AlbumInv(album, seen)
<1>1. PICK album : album = NewAlbum(idx, item)
  OBVIOUS
<1>2. /\ album.artist = item.artist /\ album.name = item.album /\ album.date = item.date
      /\ album.tracks = 0 /\ album.dateMixed = FALSE
  BY <1>1 DEF NewAlbum
<1>3. Of(seen, album.artist, album.name) = {}
  BY <1>2
<1>4. AlbumInv(album, seen)
  BY <1>2, <1>3, FS_EmptySet DEF AlbumInv
<1> QED
  BY <1>1, <1>2, <1>4

(* A step of the pass over the tracks.                                     *)
LEMMA GroupStep ==
  ASSUME NEW idx, NEW seen, IsFiniteSet(seen), seen \subseteq Item, GroupedInv(idx, seen),
         NEW item \in Item, \A x \in seen : x.id # item.id
  PROVE  GroupedInv(WithAlbum(WithArtist(idx, item), item), seen \cup {item})
<1>1. PICK all : all = seen \cup {item}
  OBVIOUS
<1>2. item \notin seen
  OBVIOUS
<1>3. PICK some : some = WithArtist(idx, item)
  OBVIOUS
<1>4. /\ IsIndex(idx) /\ ArtistsInv(idx, seen) /\ KeysInv(idx) /\ LinksInv(idx, seen)
      /\ \A k \in DOMAIN idx.albums :
           /\ AlbumInv(idx.albums[k], seen)
           /\ Of(seen, idx.albums[k].artist, idx.albums[k].name) # {}
  BY DEF GroupedInv
<1>5. /\ IsIndex(some) /\ some.albums = idx.albums /\ some.album = idx.album
      /\ ArtistsInv(some, all) /\ KeysInv(some)
  BY <1>1, <1>2, <1>3, <1>4, ArtistStep
<1>6. LinksInv(some, seen)
  BY <1>4, <1>5 DEF LinksInv
<1>7. PICK n \in Nat : n = Len(some.albums) /\ DOMAIN some.albums = 1..n
  BY <1>5, LenProperties DEF IsIndex
<1>8. PICK at : at = AlbumAt(some, item.artist, item.album)
  OBVIOUS
<1>9. \/ /\ at = 0
         /\ \A k \in 1..n : ~(some.albums[k].artist = item.artist /\ some.albums[k].name = item.album)
      \/ /\ at \in 1..n
         /\ some.albums[at].artist = item.artist /\ some.albums[at].name = item.album
  BY <1>7, <1>8, AlbumAtParts
<1>10. CASE item.album = None
  <2>1. WithAlbum(some, item) = some
    BY <1>10 DEF WithAlbum
  <2>2. LinksInv(some, all)
    <3>1. {y \in all : y.album # None} = {y \in seen : y.album # None}
      BY <1>1, <1>10
    <3>2. DOMAIN some.album = {x.id : x \in {y \in all : y.album # None}}
      BY <1>6, <3>1 DEF LinksInv
    <3>3. \A x \in all : x.album # None => x \in seen
      BY <1>1, <1>10
    <3> QED
      BY <1>6, <3>2, <3>3 DEF LinksInv
  <2>3. ASSUME NEW k \in DOMAIN some.albums
        PROVE  /\ AlbumInv(some.albums[k], all)
               /\ Of(all, some.albums[k].artist, some.albums[k].name) # {}
    <3>1. PICK album : album = some.albums[k]
      OBVIOUS
    <3>2. album.name # None
      BY <1>5, <3>1 DEF KeysInv
    <3>3. Of(all, album.artist, album.name) = Of(seen, album.artist, album.name)
      BY <1>1, <1>10, <3>2 DEF Of
    <3>4. AlbumInv(album, seen) /\ Of(seen, album.artist, album.name) # {}
      BY <1>4, <1>5, <3>1
    <3> QED
      BY <3>1, <3>3, <3>4 DEF AlbumInv
  <2> QED
    BY <1>1, <1>3, <1>5, <2>1, <2>2, <2>3 DEF GroupedInv
<1>11. CASE item.album # None /\ at # 0
  <2>1. WithAlbum(some, item) =
          [artists |-> some.artists,
           albums |-> [some.albums EXCEPT ![at] = WithTrack(@, item)],
           album |-> [id \in DOMAIN some.album \cup {item.id} |->
                        IF id = item.id THEN at ELSE some.album[id]]]
    BY <1>8, <1>11 DEF WithAlbum
  <2>2. at \in DOMAIN some.albums /\ some.albums[at].artist = item.artist /\ some.albums[at].name = item.album
    BY <1>7, <1>9, <1>11
  <2>3. \A k \in DOMAIN some.albums :
          AlbumInv(some.albums[k], seen) /\ Of(seen, some.albums[k].artist, some.albums[k].name) # {}
    BY <1>4, <1>5
  <2>4. ArtistsInv(some, seen \cup {item})
    BY <1>1, <1>5
  <2>5. GroupedInv([artists |-> some.artists,
                    albums |-> [some.albums EXCEPT ![at] = WithTrack(@, item)],
                    album |-> [id \in DOMAIN some.album \cup {item.id} |->
                                 IF id = item.id THEN at ELSE some.album[id]]],
                   seen \cup {item})
    BY <1>2, <1>5, <1>6, <1>11, <2>2, <2>3, <2>4, LinkStep, ZenonT(60)
  <2> QED
    BY <1>3, <2>1, <2>5, Zenon
<1>12. CASE item.album # None /\ at = 0
  <2>1. PICK base : base = WithNewAlbum(some, item)
    OBVIOUS
  <2>2. PICK album : album = NewAlbum(some, item)
    OBVIOUS
  <2>3. /\ IsIndex(base) /\ ArtistsInv(base, all) /\ KeysInv(base) /\ base.album = some.album
        /\ DOMAIN base.albums = 1..(n + 1)
        /\ \A k \in 1..n : base.albums[k] = some.albums[k]
        /\ base.albums[n + 1] = album
    <3>1. item \in all
      BY <1>1
    <3>2. AlbumAt(some, item.artist, item.album) = 0
      BY <1>8, <1>12
    <3>3. LET new == WithNewAlbum(some, item) IN
          /\ IsIndex(new) /\ ArtistsInv(new, all) /\ KeysInv(new) /\ new.album = some.album
          /\ DOMAIN new.albums = 1..(Len(some.albums) + 1)
          /\ \A k \in 1..Len(some.albums) : new.albums[k] = some.albums[k]
          /\ new.albums[Len(some.albums) + 1] = NewAlbum(some, item)
      BY <1>5, <1>12, <3>1, <3>2, NewAlbumStep
    <3> QED
      BY <1>7, <2>1, <2>2, <3>3
  <2>4. Of(seen, item.artist, item.album) = {}
    <3> SUFFICES ASSUME NEW x \in seen, x.artist = item.artist, x.album = item.album
                 PROVE  FALSE
      BY DEF Of
    <3>1. /\ some.album[x.id] \in 1..n
          /\ some.albums[some.album[x.id]].artist = x.artist
          /\ some.albums[some.album[x.id]].name = x.album
      BY <1>6, <1>7, <1>12 DEF LinksInv
    <3> QED
      BY <1>9, <1>12, <3>1
  <2>5. /\ album.artist = item.artist /\ album.name = item.album /\ album.date = item.date
        /\ AlbumInv(album, seen)
    BY <2>2, <2>4, NewAlbumParts
  <2>6. PICK i : i = AlbumAt(base, item.artist, item.album)
    OBVIOUS
  <2>7. i \in DOMAIN base.albums /\ base.albums[i].artist = item.artist /\ base.albums[i].name = item.album
    <3>1. Len(base.albums) \in Nat /\ DOMAIN base.albums = 1..Len(base.albums)
      BY <2>3, LenProperties DEF IsIndex
    <3>2. n + 1 \in DOMAIN base.albums
      BY <2>3
    <3> QED
      BY <2>3, <2>5, <2>6, <3>1, <3>2, AlbumAtParts
  <2>8. WithAlbum(some, item) =
          [artists |-> base.artists,
           albums |-> [base.albums EXCEPT ![i] = WithTrack(@, item)],
           album |-> [id \in DOMAIN base.album \cup {item.id} |->
                        IF id = item.id THEN i ELSE base.album[id]]]
    BY <1>8, <1>12, <2>1, <2>6 DEF WithAlbum
  <2>9. LinksInv(base, seen)
    <3>1. ASSUME NEW x \in seen, x.album # None
          PROVE  /\ base.album[x.id] \in 1..(n + 1)
                 /\ base.albums[base.album[x.id]].artist = x.artist
                 /\ base.albums[base.album[x.id]].name = x.album
      <4>1. /\ some.album[x.id] \in 1..n
            /\ some.albums[some.album[x.id]].artist = x.artist
            /\ some.albums[some.album[x.id]].name = x.album
        BY <1>6, <1>7, <3>1 DEF LinksInv
      <4> QED
        BY <2>3, <4>1
    <3>2. DOMAIN base.album = {x.id : x \in {y \in seen : y.album # None}}
      BY <1>6, <2>3 DEF LinksInv
    <3> QED
      BY <2>3, <3>1, <3>2 DEF LinksInv
  <2>10. ASSUME NEW k \in DOMAIN base.albums
         PROVE  /\ AlbumInv(base.albums[k], seen)
                /\ Of(seen, base.albums[k].artist, base.albums[k].name) = {} =>
                     /\ base.albums[k].artist = item.artist /\ base.albums[k].name = item.album
                     /\ base.albums[k].date = item.date
    <3>1. k \in 1..n \/ k = n + 1
      BY <2>3
    <3>2. CASE k \in 1..n
      BY <1>4, <1>5, <1>7, <2>3, <3>2
    <3>3. CASE k = n + 1
      BY <2>3, <2>5, <3>3
    <3> QED
      BY <3>1, <3>2, <3>3
  <2>11. ArtistsInv(base, seen \cup {item})
    BY <1>1, <2>3
  <2>12. GroupedInv([artists |-> base.artists,
                     albums |-> [base.albums EXCEPT ![i] = WithTrack(@, item)],
                     album |-> [id \in DOMAIN base.album \cup {item.id} |->
                                  IF id = item.id THEN i ELSE base.album[id]]],
                    seen \cup {item})
    BY <1>2, <1>12, <2>3, <2>7, <2>9, <2>10, <2>11, LinkStep, ZenonT(60)
  <2> QED
    BY <1>3, <2>8, <2>12, Zenon
<1> QED
  BY <1>10, <1>11, <1>12

-----------------------------------------------------------------------------
(***************************************************************************)
(* The index grouped.                                                      *)
(***************************************************************************)

(* The tracks among the first items.                                       *)
Seen(items, n) == {items[m] : m \in {k \in 1..n : IsAudio(items[k])}}

(* All the tracks.                                                         *)
Tracks(items) == {x \in Range(items) : IsAudio(x)}

(* Items of a catalogue.                                                   *)
LEMMA CatalogueParts ==
  ASSUME NEW items, Catalogue(items)
  PROVE  /\ Len(items) \in Nat /\ DOMAIN items = 1..Len(items)
         /\ \A i \in 1..Len(items) : items[i] \in Item
         /\ Range(items) = {items[i] : i \in 1..Len(items)}
         /\ \A i, j \in 1..Len(items) : items[i].id = items[j].id => i = j
<1>1. items \in Seq(Item) /\ \A i, j \in DOMAIN items : items[i].id = items[j].id => i = j
  BY DEF Catalogue
<1>2. Len(items) \in Nat /\ DOMAIN items = 1..Len(items) /\ \A i \in 1..Len(items) : items[i] \in Item
  BY <1>1, LenProperties
<1> QED
  BY <1>1, <1>2 DEF Range

(* One item more, or all.                                                  *)
LEMMA SeenParts ==
  ASSUME NEW items, Catalogue(items), NEW n \in 1..Len(items)
  PROVE  /\ Seen(items, n) = IF IsAudio(items[n]) THEN Seen(items, n - 1) \cup {items[n]}
                                                  ELSE Seen(items, n - 1)
         /\ \A x \in Seen(items, n - 1) : x.id # items[n].id
         /\ Seen(items, n - 1) \subseteq Item
         /\ Seen(items, Len(items)) = Tracks(items)
<1>1. Len(items) \in Nat
  BY CatalogueParts
<1>2. (1..n) = (1..(n - 1)) \cup {n} /\ n \notin 1..(n - 1) /\ 1..(n - 1) \subseteq 1..Len(items)
  BY <1>1
<1>3. Seen(items, n) = IF IsAudio(items[n]) THEN Seen(items, n - 1) \cup {items[n]}
                                            ELSE Seen(items, n - 1)
  <2>1. \A x : x \in Seen(items, n) <=> \E m \in 1..n : IsAudio(items[m]) /\ x = items[m]
    BY DEF Seen
  <2>2. \A x : x \in Seen(items, n - 1) <=> \E m \in 1..(n - 1) : IsAudio(items[m]) /\ x = items[m]
    BY DEF Seen
  <2> QED
    BY <1>2, <2>1, <2>2
<1>4. \A x \in Seen(items, n - 1) : x.id # items[n].id /\ x \in Item
  BY <1>2, CatalogueParts DEF Seen
<1>5. Seen(items, Len(items)) = Tracks(items)
  BY CatalogueParts DEF Seen, Tracks
<1> QED
  BY <1>3, <1>4, <1>5

(* The empty index.                                                        *)
LEMMA GroupBegins == GroupedInv(EmptyIndex, {})
<1>1. PICK idx : idx = EmptyIndex
  OBVIOUS
<1>2. /\ idx = [artists |-> <<>>, albums |-> <<>>, album |-> <<>>]
      /\ idx.artists = <<>> /\ idx.albums = <<>> /\ idx.album = <<>>
  BY <1>1 DEF EmptyIndex
<1>3. DOMAIN idx.artists = {} /\ DOMAIN idx.albums = {} /\ DOMAIN idx.album = {}
  BY <1>2
<1>4. IsIndex(idx)
  BY <1>2 DEF IsIndex
<1>5. ArtistsInv(idx, {}) /\ KeysInv(idx)
  BY <1>3 DEF ArtistsInv, KeysInv
<1>6. LinksInv(idx, {})
  <2>1. {x.id : x \in {y \in {} : y.album # None}} = {}
    OBVIOUS
  <2> QED
    BY <1>3, <2>1 DEF LinksInv
<1> QED
  BY <1>1, <1>3, <1>4, <1>5, <1>6 DEF GroupedInv

(* The index after the pass over the tracks.                               *)
LEMMA GroupedIs ==
  ASSUME NEW items, Catalogue(items)
  PROVE  IsFiniteSet(Tracks(items)) /\ GroupedInv(Grouped(items), Tracks(items))
<1>1. PICK len \in Nat : len = Len(items)
  BY CatalogueParts
<1>2. PICK after : /\ Begins(items, "audio", EmptyIndex, len, after)
                   /\ Grouped(items) = after[len]
  BY <1>1, PassSteps DEF Grouped
<1> DEFINE T == {n \in 0..len : ~(IsFiniteSet(Seen(items, n)) /\ GroupedInv(after[n], Seen(items, n)))}
<1>3. SUFFICES ASSUME T # {}
               PROVE  FALSE
  <2>1. ASSUME T = {}
        PROVE  IsFiniteSet(Tracks(items)) /\ GroupedInv(Grouped(items), Tracks(items))
    <3>1. IsFiniteSet(Seen(items, len)) /\ GroupedInv(after[len], Seen(items, len))
      <4>1. len \in 0..len /\ len \notin T
        BY <2>1
      <4> QED
        BY <4>1
    <3>2. Seen(items, len) = Tracks(items)
      BY <1>1, CatalogueParts DEF Seen, Tracks
    <3> QED
      BY <1>2, <3>1, <3>2
  <2> QED
    BY <2>1
<1>4. PICK n \in T : \A m \in T : n <= m
  <2> HIDE DEF T
  <2>1. T \subseteq Nat
    BY DEF T
  <2> QED
    BY <1>3, <2>1, FirstOf
<1>5. n # 0
  <2>1. Seen(items, 0) = {}
    BY DEF Seen
  <2>2. after[0] = EmptyIndex
    BY <1>2 DEF Begins
  <2>3. IsFiniteSet(Seen(items, 0)) /\ GroupedInv(after[0], Seen(items, 0))
    BY <2>1, <2>2, GroupBegins, FS_EmptySet
  <2> QED
    BY <1>4, <2>3
<1>6. n \in 1..len /\ n - 1 \in 0..len /\ ~(n <= n - 1)
  BY <1>4, <1>5
<1>7. IsFiniteSet(Seen(items, n - 1)) /\ GroupedInv(after[n - 1], Seen(items, n - 1))
  BY <1>4, <1>6
<1>8. after[n] = After(items, "audio", after[n - 1], n)
  BY <1>2, <1>6 DEF Begins
<1>9. /\ Seen(items, n) = IF IsAudio(items[n]) THEN Seen(items, n - 1) \cup {items[n]}
                                               ELSE Seen(items, n - 1)
      /\ \A x \in Seen(items, n - 1) : x.id # items[n].id
      /\ Seen(items, n - 1) \subseteq Item /\ items[n] \in Item
  BY <1>1, <1>6, SeenParts, CatalogueParts
<1>10. IsFiniteSet(Seen(items, n)) /\ GroupedInv(after[n], Seen(items, n))
  <2>1. CASE IsAudio(items[n])
    <3>1. after[n] = WithAlbum(WithArtist(after[n - 1], items[n]), items[n])
      BY <1>8, <2>1 DEF After, WithItem, IsAudio
    <3>2. GroupedInv(WithAlbum(WithArtist(after[n - 1], items[n]), items[n]),
                     Seen(items, n - 1) \cup {items[n]})
      BY <1>7, <1>9, GroupStep
    <3>3. IsFiniteSet(Seen(items, n - 1) \cup {items[n]})
      BY <1>7, FS_AddElement
    <3> QED
      BY <1>9, <2>1, <3>1, <3>2, <3>3
  <2>2. CASE ~IsAudio(items[n])
    <3>1. after[n] = after[n - 1]
      BY <1>8, <2>2 DEF After, IsAudio
    <3> QED
      BY <1>7, <1>9, <2>2, <3>1
  <2> QED
    BY <2>1, <2>2
<1> QED
  BY <1>4, <1>10

-----------------------------------------------------------------------------
(***************************************************************************)
(* What the pass over the images keeps.                                    *)
(***************************************************************************)

(* The indexes have the same, other than covers.                           *)
SameBut(idx, grouped) ==
  /\ idx = [artists |-> grouped.artists, albums |-> idx.albums, album |-> grouped.album]
  /\ idx.albums \in Seq(AlbumEntry) /\ DOMAIN idx.albums = DOMAIN grouped.albums
  /\ \A i \in DOMAIN idx.albums :
       \E cover \in Nat : idx.albums[i] = [grouped.albums[i] EXCEPT !.cover = cover]

(* Images of an album.                                                     *)
Shown(pictures, grouped, i) == {x \in pictures : AlbumOfImage(grouped, x) = i}

(* The album shows the best of its images.                                 *)
CoverInv(album, shown) ==
  IF shown = {} THEN album.cover = 0
  ELSE \E x \in shown : album.cover = x.id /\ \A other \in shown \ {x} : Better(x, other)

PicturedInv(idx, grouped, pictures) ==
  /\ SameBut(idx, grouped)
  /\ \A i \in DOMAIN idx.albums : CoverInv(idx.albums[i], Shown(pictures, grouped, i))

(* The fields of an album whose cover is another.                          *)
LEMMA CoverFields ==
  ASSUME NEW album \in AlbumEntry, NEW cover \in Nat
  PROVE  LET new == [album EXCEPT !.cover = cover] IN
         /\ new \in AlbumEntry
         /\ new.artist = album.artist /\ new.name = album.name /\ new.artistId = album.artistId
         /\ new.tracks = album.tracks /\ new.cover = cover
         /\ new.date = album.date /\ new.dateMixed = album.dateMixed
         /\ new.group = album.group /\ new.groupMixed = album.groupMixed /\ new.dir = album.dir
BY DEF AlbumEntry

(* Albums of indexes that have the same other than covers.                 *)
LEMMA SameAlbums ==
  ASSUME NEW grouped, IsIndex(grouped), NEW idx, SameBut(idx, grouped)
  PROVE  /\ idx.artists = grouped.artists /\ idx.album = grouped.album
         /\ Len(grouped.albums) \in Nat /\ Len(idx.albums) = Len(grouped.albums)
         /\ DOMAIN grouped.albums = 1..Len(grouped.albums)
         /\ DOMAIN idx.albums = 1..Len(grouped.albums)
         /\ \A i \in 1..Len(grouped.albums) :
              /\ idx.albums[i] \in AlbumEntry /\ grouped.albums[i] \in AlbumEntry
              /\ idx.albums[i].artist = grouped.albums[i].artist
              /\ idx.albums[i].name = grouped.albums[i].name
              /\ idx.albums[i].artistId = grouped.albums[i].artistId
              /\ idx.albums[i].tracks = grouped.albums[i].tracks
              /\ idx.albums[i].date = grouped.albums[i].date
              /\ idx.albums[i].dateMixed = grouped.albums[i].dateMixed
              /\ idx.albums[i].group = grouped.albums[i].group
              /\ idx.albums[i].groupMixed = grouped.albums[i].groupMixed
              /\ idx.albums[i].dir = grouped.albums[i].dir
<1>1. PICK n \in Nat : /\ n = Len(grouped.albums) /\ DOMAIN grouped.albums = 1..n
                       /\ \A i \in 1..n : grouped.albums[i] \in AlbumEntry
  BY LenProperties DEF IsIndex
<1>2. PICK albums \in Seq(AlbumEntry) :
        /\ albums = idx.albums /\ idx = [artists |-> grouped.artists, albums |-> albums,
                                         album |-> grouped.album]
        /\ DOMAIN albums = 1..n
        /\ \A i \in 1..n : \E cover \in Nat : albums[i] = [grouped.albums[i] EXCEPT !.cover = cover]
  BY <1>1 DEF SameBut
<1>3. idx.artists = grouped.artists /\ idx.album = grouped.album
  BY <1>2
<1>4. Len(albums) = n /\ \A i \in 1..n : albums[i] \in AlbumEntry
  <2>1. Len(albums) \in Nat /\ DOMAIN albums = 1..Len(albums)
        /\ \A i \in 1..Len(albums) : albums[i] \in AlbumEntry
    BY LenProperties
  <2>2. Len(albums) = n
    BY <1>2, <2>1
  <2> QED
    BY <2>1, <2>2
<1>5. ASSUME NEW i \in 1..n
      PROVE  /\ albums[i] \in AlbumEntry /\ grouped.albums[i] \in AlbumEntry
             /\ albums[i].artist = grouped.albums[i].artist
             /\ albums[i].name = grouped.albums[i].name
             /\ albums[i].artistId = grouped.albums[i].artistId
             /\ albums[i].tracks = grouped.albums[i].tracks
             /\ albums[i].date = grouped.albums[i].date
             /\ albums[i].dateMixed = grouped.albums[i].dateMixed
             /\ albums[i].group = grouped.albums[i].group
             /\ albums[i].groupMixed = grouped.albums[i].groupMixed
             /\ albums[i].dir = grouped.albums[i].dir
  <2>1. PICK album \in AlbumEntry : album = grouped.albums[i]
    BY <1>1
  <2>2. PICK cover \in Nat : albums[i] = [album EXCEPT !.cover = cover]
    BY <1>2, <2>1
  <2> QED
    BY <1>4, <2>1, <2>2, CoverFields
<1> QED
  BY <1>1, <1>2, <1>3, <1>4, <1>5

(* The first of the albums found for an image.                             *)
Found(image, byDir, byNames, byPath) ==
  LET candidates == <<byDir>> \o (IF image.album = None THEN <<>> ELSE <<byNames, byPath>>)
      found == SelectSeq(candidates, LAMBDA i : i # 0)
  IN IF found = <<>> THEN 0 ELSE Head(found)

(* An image is found the same album in them.                               *)
LEMMA SameFound ==
  ASSUME NEW grouped, IsIndex(grouped), NEW idx, SameBut(idx, grouped), NEW image
  PROVE  AlbumOfImage(idx, image) = AlbumOfImage(grouped, image)
<1>1. PICK n \in Nat :
        /\ n = Len(grouped.albums) /\ n = Len(idx.albums)
        /\ DOMAIN grouped.albums = 1..n /\ DOMAIN idx.albums = 1..n
        /\ \A i \in 1..n :
             /\ idx.albums[i].artist = grouped.albums[i].artist
             /\ idx.albums[i].name = grouped.albums[i].name
             /\ idx.albums[i].group = grouped.albums[i].group
             /\ idx.albums[i].groupMixed = grouped.albums[i].groupMixed
             /\ idx.albums[i].dir = grouped.albums[i].dir
  BY SameAlbums
<1>2. AlbumByDir(idx, image) = AlbumByDir(grouped, image)
  <2>1. PICK at : at = {i \in DOMAIN idx.albums : image.dir # <<>> /\ idx.albums[i].dir = image.dir}
    OBVIOUS
  <2>2. at = {i \in DOMAIN grouped.albums : image.dir # <<>> /\ grouped.albums[i].dir = image.dir}
    BY <1>1, <2>1
  <2>3. AlbumByDir(idx, image) = IF Cardinality(at) = 1 THEN CHOOSE i \in at : TRUE ELSE 0
    BY <2>1 DEF AlbumByDir
  <2>4. AlbumByDir(grouped, image) = IF Cardinality(at) = 1 THEN CHOOSE i \in at : TRUE ELSE 0
    BY <2>2 DEF AlbumByDir
  <2> QED
    BY <2>3, <2>4
<1>3. AlbumAt(idx, image.artist, image.album) = AlbumAt(grouped, image.artist, image.album)
  <2>1. {i \in 1..Len(idx.albums) :
           idx.albums[i].artist = image.artist /\ idx.albums[i].name = image.album}
          = {i \in 1..Len(grouped.albums) :
               grouped.albums[i].artist = image.artist /\ grouped.albums[i].name = image.album}
    BY <1>1
  <2> QED
    BY <2>1, Zenon DEF AlbumAt, SelectInSeq
<1>4. AlbumByPath(idx, image) = AlbumByPath(grouped, image)
  <2>1. {i \in 1..Len(idx.albums) :
           ~idx.albums[i].groupMixed /\ idx.albums[i].group = <<image.artist, image.album>>}
          = {i \in 1..Len(grouped.albums) :
               ~grouped.albums[i].groupMixed
               /\ grouped.albums[i].group = <<image.artist, image.album>>}
    BY <1>1
  <2> QED
    BY <2>1, Zenon DEF AlbumByPath, SelectInSeq
<1>5. \A any : AlbumOfImage(any, image) =
        Found(image, AlbumByDir(any, image), AlbumAt(any, image.artist, image.album),
              AlbumByPath(any, image))
  BY DEF AlbumOfImage, Found
<1> QED
  BY <1>2, <1>3, <1>4, <1>5

(* The order of images is total.                                           *)
LEMMA BetterOrder ==
  ASSUME NEW x \in Item, NEW y \in Item, NEW z \in Item
  PROVE  /\ x.id # y.id => Better(x, y) \/ Better(y, x)
         /\ ~(Better(x, y) /\ Better(y, x))
         /\ Better(x, y) /\ Better(y, z) => Better(x, z)
<1>1. \A i : Score(i) \in Nat
  BY DEF Score
<1>2. x.id \in Nat /\ y.id \in Nat /\ z.id \in Nat
  BY DEF Item
<1> QED
  BY <1>1, <1>2 DEF Better

(* The index with another cover.                                           *)
LEMMA CoverReplaced ==
  ASSUME NEW idx, IsIndex(idx), NEW i, NEW cover
  PROVE  [idx EXCEPT !.albums[i].cover = cover] =
           [artists |-> idx.artists,
            albums |-> [idx.albums EXCEPT ![i] = [idx.albums[i] EXCEPT !.cover = cover]],
            album |-> idx.album]
<1>1. [idx EXCEPT !.albums[i].cover = cover] =
        [idx EXCEPT !.albums = [idx.albums EXCEPT ![i] = [idx.albums[i] EXCEPT !.cover = cover]]]
  OBVIOUS
<1> QED
  BY <1>1, IndexReplaced

(* A step of the pass over the images.                                     *)
LEMMA PictureStep ==
  ASSUME NEW items, Catalogue(items), NEW grouped, IsIndex(grouped),
         NEW pictures, pictures \subseteq Range(items),
         NEW idx, PicturedInv(idx, grouped, pictures),
         NEW image \in Range(items), image \notin pictures
  PROVE  PicturedInv(WithCover(items, idx, image), grouped, pictures \cup {image})
<1>1. PICK n \in Nat :
        /\ n = Len(grouped.albums) /\ DOMAIN grouped.albums = 1..n /\ DOMAIN idx.albums = 1..n
        /\ idx.artists = grouped.artists /\ idx.album = grouped.album
        /\ \A k \in 1..n : idx.albums[k] \in AlbumEntry /\ grouped.albums[k] \in AlbumEntry
  BY SameAlbums DEF PicturedInv
<1>2. Range(items) \subseteq Item /\ \A x, y \in Range(items) : x.id = y.id => x = y
  BY CatalogueParts
<1>3. PICK i : i = AlbumOfImage(grouped, image) /\ i = AlbumOfImage(idx, image)
  BY SameFound DEF PicturedInv
<1>4. PICK all : all = pictures \cup {image}
  OBVIOUS
<1>5. \A k : Shown(all, grouped, k) = IF k = i THEN Shown(pictures, grouped, k) \cup {image}
                                               ELSE Shown(pictures, grouped, k)
  BY <1>3, <1>4 DEF Shown
<1>6. \A k : Shown(pictures, grouped, k) \subseteq Range(items) /\ image \notin Shown(pictures, grouped, k)
  BY DEF Shown
<1>7. \A k \in 1..n : CoverInv(idx.albums[k], Shown(pictures, grouped, k))
  BY <1>1 DEF PicturedInv
<1>8. PICK current : current = {item \in Range(items) : item.id = idx.albums[i].cover}
  OBVIOUS
<1>9. PICK new : new = WithCover(items, idx, image)
  OBVIOUS
<1>10. image \in Item /\ image.id \in Nat \ {0}
  BY <1>2 DEF Item
<1>11. SameBut(idx, grouped) /\ IsIndex(idx)
  BY <1>1 DEF PicturedInv, SameBut, IsIndex
<1>12. CASE i # 0 /\ \A item \in current : Better(image, item)
  <2>1. PICK albums : albums = [idx.albums EXCEPT ![i] = [idx.albums[i] EXCEPT !.cover = image.id]]
    OBVIOUS
  <2>2. new = [idx EXCEPT !.albums[i].cover = image.id]
    BY <1>3, <1>8, <1>9, <1>12 DEF WithCover
  <2>3. new = [artists |-> idx.artists, albums |-> albums, album |-> idx.album]
    BY <1>11, <2>1, <2>2, CoverReplaced
  <2>4. new.albums = albums
    BY <2>3
  <2>5. /\ DOMAIN albums = 1..n
        /\ \A k \in 1..n : albums[k] = IF k = i THEN [idx.albums[k] EXCEPT !.cover = image.id]
                                                ELSE idx.albums[k]
    BY <1>1, <2>1
  <2>6. ASSUME NEW k \in 1..n
        PROVE  albums[k] \in AlbumEntry /\ albums[k].cover = IF k = i THEN image.id ELSE idx.albums[k].cover
    <3>1. PICK album \in AlbumEntry : album = idx.albums[k]
      BY <1>1
    <3>2. PICK cover \in Nat : cover = image.id
      BY <1>10
    <3>3. [album EXCEPT !.cover = cover] \in AlbumEntry /\ [album EXCEPT !.cover = cover].cover = cover
      BY CoverFields
    <3>4. albums[k] = IF k = i THEN [album EXCEPT !.cover = cover] ELSE album
      BY <2>5, <3>1, <3>2
    <3> QED
      BY <3>1, <3>2, <3>3, <3>4
  <2>7. ASSUME NEW k \in 1..n
        PROVE  \E cover \in Nat : albums[k] = [grouped.albums[k] EXCEPT !.cover = cover]
    <3>1. PICK cover \in Nat : idx.albums[k] = [grouped.albums[k] EXCEPT !.cover = cover]
      BY <1>1, <1>11 DEF SameBut
    <3>2. PICK album \in AlbumEntry : album = grouped.albums[k]
      BY <1>1
    <3>3. [[album EXCEPT !.cover = cover] EXCEPT !.cover = image.id] = [album EXCEPT !.cover = image.id]
      BY DEF AlbumEntry
    <3>4. CASE k = i
      BY <1>10, <2>5, <3>1, <3>2, <3>3, <3>4
    <3>5. CASE k # i
      BY <2>5, <3>1, <3>5
    <3> QED
      BY <3>4, <3>5
  <2>8. albums \in Seq(AlbumEntry)
    <3>1. albums = [k \in 1..n |-> albums[k]]
      BY <1>1, <2>1
    <3> QED
      BY <2>6, <3>1
  <2>9. SameBut(new, grouped)
    BY <1>1, <2>3, <2>4, <2>5, <2>7, <2>8, ZenonT(60) DEF SameBut
  <2>10. ASSUME NEW k \in 1..n
         PROVE  CoverInv(albums[k], Shown(all, grouped, k))
    <3>1. PICK shown : shown = Shown(pictures, grouped, k)
      OBVIOUS
    <3>2. CoverInv(idx.albums[k], shown) /\ shown \subseteq Range(items) /\ image \notin shown
      BY <1>6, <1>7, <3>1
    <3>3. CASE k # i
      BY <1>5, <2>5, <3>1, <3>2, <3>3
    <3>4. CASE k = i
      <4>1. Shown(all, grouped, k) = shown \cup {image} /\ albums[k].cover = image.id
        BY <1>5, <2>6, <3>1, <3>4
      <4>2. \A other \in shown : Better(image, other)
        <5>1. CASE shown = {}
          BY <5>1
        <5>2. CASE shown # {}
          <6>1. PICK x \in shown : idx.albums[i].cover = x.id /\ \A other \in shown \ {x} : Better(x, other)
            BY <3>2, <3>4, <5>2 DEF CoverInv
          <6>2. x \in current
            BY <1>8, <3>2, <6>1
          <6>3. Better(image, x)
            BY <1>12, <6>2
          <6>4. \A other \in shown \ {x} : Better(image, other)
            BY <1>2, <1>10, <3>2, <6>1, <6>3, BetterOrder
          <6> QED
            BY <6>3, <6>4
        <5> QED
          BY <5>1, <5>2
      <4> QED
        BY <4>1, <4>2 DEF CoverInv
    <3> QED
      BY <3>3, <3>4
  <2> QED
    BY <1>4, <1>9, <2>4, <2>5, <2>9, <2>10 DEF PicturedInv
<1>13. CASE ~(i # 0 /\ \A item \in current : Better(image, item))
  <2>1. new = idx
    BY <1>3, <1>8, <1>9, <1>13 DEF WithCover
  <2>2. ASSUME NEW k \in 1..n
        PROVE  CoverInv(idx.albums[k], Shown(all, grouped, k))
    <3>1. PICK shown : shown = Shown(pictures, grouped, k)
      OBVIOUS
    <3>2. CoverInv(idx.albums[k], shown) /\ shown \subseteq Range(items) /\ image \notin shown
      BY <1>6, <1>7, <3>1
    <3>3. CASE k # i
      BY <1>5, <3>1, <3>2, <3>3
    <3>4. CASE k = i
      <4>1. Shown(all, grouped, k) = shown \cup {image}
        BY <1>5, <3>1, <3>4
      <4>2. PICK y \in current : ~Better(image, y)
        BY <1>13, <3>4
      <4>3. y \in Range(items) /\ y.id = idx.albums[k].cover /\ y \in Item
        BY <1>2, <1>8, <3>4, <4>2
      <4>4. shown # {}
        <5>1. y.id # 0
          BY <4>3 DEF Item
        <5> QED
          BY <3>2, <4>3, <5>1 DEF CoverInv
      <4>5. PICK x \in shown : idx.albums[k].cover = x.id /\ \A other \in shown \ {x} : Better(x, other)
        BY <3>2, <4>4 DEF CoverInv
      <4>6. x = y /\ x # image
        BY <1>2, <3>2, <4>3, <4>5
      <4>7. Better(x, image)
        BY <1>2, <1>10, <4>2, <4>3, <4>6, BetterOrder
      <4> QED
        BY <4>1, <4>5, <4>7 DEF CoverInv
    <3> QED
      BY <3>3, <3>4
  <2> QED
    BY <1>1, <1>4, <1>9, <1>11, <2>1, <2>2 DEF PicturedInv
<1> QED
  BY <1>12, <1>13

(* The images among the first items.                                       *)
Pictured(items, n) == {items[m] : m \in {k \in 1..n : IsImage(items[k])}}

(* All the images.                                                         *)
Pictures(items) == {x \in Range(items) : IsImage(x)}

(* One item more.                                                          *)
LEMMA PicturedParts ==
  ASSUME NEW items, Catalogue(items), NEW n \in 1..Len(items)
  PROVE  /\ Pictured(items, n) = IF IsImage(items[n]) THEN Pictured(items, n - 1) \cup {items[n]}
                                                      ELSE Pictured(items, n - 1)
         /\ items[n] \notin Pictured(items, n - 1)
         /\ Pictured(items, n - 1) \subseteq Range(items) /\ items[n] \in Range(items)
<1>1. Len(items) \in Nat
  BY CatalogueParts
<1>2. (1..n) = (1..(n - 1)) \cup {n} /\ n \notin 1..(n - 1) /\ 1..(n - 1) \subseteq 1..Len(items)
  BY <1>1
<1>3. Pictured(items, n) = IF IsImage(items[n]) THEN Pictured(items, n - 1) \cup {items[n]}
                                                ELSE Pictured(items, n - 1)
  <2>1. \A x : x \in Pictured(items, n) <=> \E m \in 1..n : IsImage(items[m]) /\ x = items[m]
    BY DEF Pictured
  <2>2. \A x : x \in Pictured(items, n - 1) <=> \E m \in 1..(n - 1) : IsImage(items[m]) /\ x = items[m]
    BY DEF Pictured
  <2> QED
    BY <1>2, <2>1, <2>2
<1>4. items[n] \notin Pictured(items, n - 1)
  BY <1>2, CatalogueParts DEF Pictured
<1>5. Pictured(items, n - 1) \subseteq Range(items) /\ items[n] \in Range(items)
  BY <1>2, CatalogueParts DEF Pictured
<1> QED
  BY <1>3, <1>4, <1>5

(* Before the pass no album has a cover.                                   *)
LEMMA PicturesBegin ==
  ASSUME NEW grouped, IsIndex(grouped), KeysInv(grouped)
  PROVE  PicturedInv(grouped, grouped, {})
<1>1. \A k \in DOMAIN grouped.albums : grouped.albums[k] \in AlbumEntry /\ grouped.albums[k].cover = 0
  BY LenProperties DEF IsIndex, KeysInv
<1>2. \A album \in AlbumEntry : album.cover = 0 => album = [album EXCEPT !.cover = 0]
  BY DEF AlbumEntry
<1>3. SameBut(grouped, grouped)
  BY <1>1, <1>2 DEF IsIndex, SameBut
<1>4. \A k : Shown({}, grouped, k) = {}
  BY DEF Shown
<1> QED
  BY <1>1, <1>3, <1>4 DEF PicturedInv, CoverInv

(* The index after both passes.                                            *)
LEMMA PicturedIs ==
  ASSUME NEW items, Catalogue(items)
  PROVE  PicturedInv(Build(items), Grouped(items), Pictures(items))
<1>1. PICK len \in Nat : len = Len(items)
  BY CatalogueParts
<1>2. PICK grouped : grouped = Grouped(items)
  OBVIOUS
<1>3. PICK after : Begins(items, "image", grouped, len, after) /\ Build(items) = after[len]
  BY <1>1, <1>2, PassSteps DEF Build
<1>4. IsIndex(grouped) /\ KeysInv(grouped)
  BY <1>2, GroupedIs DEF GroupedInv
<1> DEFINE T == {n \in 0..len : ~PicturedInv(after[n], grouped, Pictured(items, n))}
<1>5. SUFFICES ASSUME T # {}
               PROVE  FALSE
  <2>1. ASSUME T = {}
        PROVE  PicturedInv(Build(items), Grouped(items), Pictures(items))
    <3>1. PicturedInv(after[len], grouped, Pictured(items, len))
      <4>1. len \in 0..len /\ len \notin T
        BY <2>1
      <4> QED
        BY <4>1
    <3>2. Pictured(items, len) = Pictures(items)
      BY <1>1, CatalogueParts DEF Pictured, Pictures
    <3> QED
      BY <1>2, <1>3, <3>1, <3>2
  <2> QED
    BY <2>1
<1>6. PICK n \in T : \A m \in T : n <= m
  <2> HIDE DEF T
  <2>1. T \subseteq Nat
    BY DEF T
  <2> QED
    BY <1>5, <2>1, FirstOf
<1>7. n # 0
  <2>1. Pictured(items, 0) = {}
    BY DEF Pictured
  <2>2. after[0] = grouped
    BY <1>3 DEF Begins
  <2>3. PicturedInv(after[0], grouped, Pictured(items, 0))
    BY <1>4, <2>1, <2>2, PicturesBegin
  <2> QED
    BY <1>6, <2>3
<1>8. n \in 1..len /\ n - 1 \in 0..len /\ ~(n <= n - 1)
  BY <1>6, <1>7
<1>9. PicturedInv(after[n - 1], grouped, Pictured(items, n - 1))
  BY <1>6, <1>8
<1>10. after[n] = After(items, "image", after[n - 1], n)
  BY <1>3, <1>8 DEF Begins
<1>11. /\ Pictured(items, n) = IF IsImage(items[n]) THEN Pictured(items, n - 1) \cup {items[n]}
                                                    ELSE Pictured(items, n - 1)
       /\ items[n] \notin Pictured(items, n - 1)
       /\ Pictured(items, n - 1) \subseteq Range(items) /\ items[n] \in Range(items)
  BY <1>1, <1>8, PicturedParts
<1>12. PicturedInv(after[n], grouped, Pictured(items, n))
  <2>1. CASE IsImage(items[n])
    <3>1. after[n] = WithCover(items, after[n - 1], items[n])
      BY <1>10, <2>1 DEF After, WithItem, IsAudio, IsImage
    <3>2. PicturedInv(WithCover(items, after[n - 1], items[n]), grouped,
                      Pictured(items, n - 1) \cup {items[n]})
      BY <1>4, <1>9, <1>11, PictureStep
    <3> QED
      BY <1>11, <2>1, <3>1, <3>2
  <2>2. CASE ~IsImage(items[n])
    <3>1. after[n] = after[n - 1]
      BY <1>10, <2>2 DEF After, IsImage
    <3> QED
      BY <1>9, <1>11, <2>2, <3>1
  <2> QED
    BY <2>1, <2>2
<1> QED
  BY <1>6, <1>12

-----------------------------------------------------------------------------
(***************************************************************************)
(* What every index built of a catalogue tells.                            *)
(***************************************************************************)

(* The index of the program is that of its catalogue.                      *)
BrowseInv == Catalogue(catalog) /\ index = Build(catalog)

(* The albums of the index are grouped right, whatever their covers.       *)
LEMMA IndexParts ==
  ASSUME BrowseInv
  PROVE  LET tracks == Tracks(catalog) IN
         \E n \in Nat :
         /\ IsFiniteSet(tracks) /\ tracks \subseteq Item
         /\ DOMAIN Albums = 1..n /\ DOMAIN Artists \subseteq Nat
         /\ \A i, j \in 1..n :
              Albums[i].artist = Albums[j].artist /\ Albums[i].name = Albums[j].name => i = j
         /\ \A i \in 1..n :
              /\ Albums[i].name # None
              /\ AlbumInv(Albums[i], tracks)
              /\ Of(tracks, Albums[i].artist, Albums[i].name) # {}
         /\ DOMAIN index.album = {x.id : x \in {y \in tracks : y.album # None}}
         /\ \A x \in tracks : x.album # None =>
              /\ index.album[x.id] \in 1..n
              /\ Albums[index.album[x.id]].artist = x.artist
              /\ Albums[index.album[x.id]].name = x.album
         /\ \A i \in DOMAIN Artists :
              /\ Artists[i].tracks = Cardinality(By(tracks, Artists[i].name))
              /\ Artists[i].albums = Cardinality(AlbumsBy(Albums, i))
<1>1. PICK tracks : tracks = Tracks(catalog)
  OBVIOUS
<1>2. PICK grouped : grouped = Grouped(catalog)
  OBVIOUS
<1>3. IsFiniteSet(tracks) /\ GroupedInv(grouped, tracks)
  BY <1>1, <1>2, GroupedIs DEF BrowseInv
<1>4. IsIndex(grouped) /\ SameBut(index, grouped)
  BY <1>2, <1>3, PicturedIs DEF BrowseInv, PicturedInv, GroupedInv
<1>5. PICK n \in Nat :
        /\ n = Len(grouped.albums) /\ DOMAIN grouped.albums = 1..n /\ DOMAIN Albums = 1..n
        /\ Artists = grouped.artists /\ index.album = grouped.album
        /\ \A i \in 1..n :
             /\ Albums[i].artist = grouped.albums[i].artist
             /\ Albums[i].name = grouped.albums[i].name
             /\ Albums[i].artistId = grouped.albums[i].artistId
             /\ Albums[i].tracks = grouped.albums[i].tracks
             /\ Albums[i].date = grouped.albums[i].date
             /\ Albums[i].dateMixed = grouped.albums[i].dateMixed
             /\ Albums[i].dir = grouped.albums[i].dir
  BY <1>4, SameAlbums DEF Albums, Artists
<1>6. tracks \subseteq Item
  BY <1>1, CatalogueParts DEF BrowseInv, Tracks
<1>7. DOMAIN Artists \subseteq Nat
  BY <1>4, <1>5, LenProperties DEF IsIndex
<1>8. \A i, j \in 1..n :
        Albums[i].artist = Albums[j].artist /\ Albums[i].name = Albums[j].name => i = j
  BY <1>3, <1>5 DEF GroupedInv, KeysInv
<1>9. ASSUME NEW i \in 1..n
      PROVE  /\ Albums[i].name # None
             /\ AlbumInv(Albums[i], tracks)
             /\ Of(tracks, Albums[i].artist, Albums[i].name) # {}
  <2>1. PICK album : album = grouped.albums[i]
    OBVIOUS
  <2>2. /\ album.name # None /\ AlbumInv(album, tracks)
        /\ Of(tracks, album.artist, album.name) # {}
    BY <1>3, <1>5, <2>1 DEF GroupedInv, KeysInv
  <2>3. /\ Albums[i].artist = album.artist /\ Albums[i].name = album.name
        /\ Albums[i].tracks = album.tracks /\ Albums[i].date = album.date
        /\ Albums[i].dateMixed = album.dateMixed /\ Albums[i].dir = album.dir
    BY <1>5, <2>1
  <2>4. AlbumInv(Albums[i], tracks)
    <3>1. PICK of : of = Of(tracks, album.artist, album.name)
      OBVIOUS
    <3>2. /\ album.tracks = Cardinality(of)
          /\ IF album.dateMixed THEN album.date = None /\ \E x, y \in of : x.date # y.date
                                ELSE \A x \in of : x.date = album.date
          /\ of # {} => album.dir = LongestCommonPrefix({x.dir : x \in of})
      BY <2>2, <3>1 DEF AlbumInv
    <3>3. of = Of(tracks, Albums[i].artist, Albums[i].name)
      BY <2>3, <3>1
    <3>4. of # {} => Albums[i].dir = LongestCommonPrefix({x.dir : x \in of})
      BY <2>3, <3>2
    <3>5. IF Albums[i].dateMixed THEN Albums[i].date = None /\ \E x, y \in of : x.date # y.date
                                 ELSE \A x \in of : x.date = Albums[i].date
      BY <2>3, <3>2
    <3> QED
      BY <2>3, <3>2, <3>3, <3>4, <3>5 DEF AlbumInv
  <2> QED
    BY <2>2, <2>3, <2>4
<1>10. /\ DOMAIN index.album = {x.id : x \in {y \in tracks : y.album # None}}
       /\ \A x \in tracks : x.album # None =>
            /\ index.album[x.id] \in 1..n
            /\ Albums[index.album[x.id]].artist = x.artist
            /\ Albums[index.album[x.id]].name = x.album
  <2>1. LinksInv(grouped, tracks)
    BY <1>3 DEF GroupedInv
  <2> QED
    BY <1>5, <2>1 DEF LinksInv
<1>11. \A i \in DOMAIN Artists :
         /\ Artists[i].tracks = Cardinality(By(tracks, Artists[i].name))
         /\ Artists[i].albums = Cardinality(AlbumsBy(Albums, i))
  <2>1. \A i : AlbumsBy(Albums, i) = AlbumsBy(grouped.albums, i)
    BY <1>5 DEF AlbumsBy
  <2>2. ArtistsInv(grouped, tracks)
    BY <1>3 DEF GroupedInv
  <2> QED
    BY <1>5, <2>1, <2>2 DEF ArtistsInv
<1> QED
  BY <1>1, <1>3, <1>5, <1>6, <1>7, <1>8, <1>9, <1>10, <1>11, ZenonT(60)

(* What an album owns are the tracks of its artist and name.               *)
LEMMA OwnedIs ==
  ASSUME NEW album
  PROVE  Owned(album) = Of(Tracks(catalog), album.artist, album.name)
BY DEF Owned, Owns, Of, Tracks

(* The index counts and links what albums own, and artists have.           *)
LEMMA CountsHold ==
  ASSUME BrowseInv
  PROVE  TracksCounted
<1>1. PICK tracks : tracks = Tracks(catalog)
  OBVIOUS
<1>2. PICK n \in Nat :
         /\ DOMAIN Albums = 1..n
         /\ \A i, j \in 1..n :
              Albums[i].artist = Albums[j].artist /\ Albums[i].name = Albums[j].name => i = j
         /\ \A i \in 1..n : Albums[i].name # None /\ AlbumInv(Albums[i], tracks)
         /\ DOMAIN index.album = {x.id : x \in {y \in tracks : y.album # None}}
         /\ \A x \in tracks : x.album # None =>
              /\ index.album[x.id] \in 1..n
              /\ Albums[index.album[x.id]].artist = x.artist
              /\ Albums[index.album[x.id]].name = x.album
         /\ \A i \in DOMAIN Artists :
              /\ Artists[i].tracks = Cardinality(By(tracks, Artists[i].name))
              /\ Artists[i].albums = Cardinality(AlbumsBy(Albums, i))
  BY <1>1, IndexParts
<1>3. \A i : Owned(Albums[i]) = Of(tracks, Albums[i].artist, Albums[i].name)
  BY <1>1, OwnedIs
<1>4. ASSUME NEW i \in 1..n
      PROVE  Albums[i].tracks = Cardinality(Owned(Albums[i]))
  <2>1. Albums[i].tracks = Cardinality(Of(tracks, Albums[i].artist, Albums[i].name))
    BY <1>2 DEF AlbumInv
  <2> QED
    BY <1>3, <2>1
<1>5. ASSUME NEW i \in 1..n, NEW item \in Owned(Albums[i])
      PROVE  /\ item \in tracks /\ item.album # None /\ index.album[item.id] = i
  <2>1. item \in Of(tracks, Albums[i].artist, Albums[i].name)
    BY <1>3, <1>5
  <2>2. item \in tracks /\ item.artist = Albums[i].artist /\ item.album = Albums[i].name
    BY <2>1 DEF Of
  <2>3. item.album # None
    BY <1>2, <2>2
  <2>4. /\ index.album[item.id] \in 1..n
        /\ Albums[index.album[item.id]].artist = item.artist
        /\ Albums[index.album[item.id]].name = item.album
    BY <1>2, <2>2, <2>3
  <2> QED
    BY <1>2, <2>2, <2>3, <2>4
<1>6. ASSUME NEW x \in tracks, x.album # None
      PROVE  \E i \in 1..n : x \in Owned(Albums[i])
  <2>1. PICK i \in 1..n : Albums[i].artist = x.artist /\ Albums[i].name = x.album
    BY <1>2, <1>6
  <2>2. x \in Of(tracks, Albums[i].artist, Albums[i].name)
    BY <2>1 DEF Of
  <2> QED
    BY <1>3, <2>2
<1>7. DOMAIN index.album = {item.id : item \in UNION {Owned(Albums[i]) : i \in DOMAIN Albums}}
  <2>1. UNION {Owned(Albums[i]) : i \in DOMAIN Albums} = {y \in tracks : y.album # None}
    BY <1>2, <1>5, <1>6
  <2> QED
    BY <1>2, <2>1
<1>8. ASSUME NEW i \in DOMAIN Artists
      PROVE  /\ Artists[i].albums = Cardinality({j \in DOMAIN Albums : Albums[j].artistId = i})
             /\ Artists[i].tracks =
                  Cardinality({item \in Range(catalog) : IsAudio(item) /\ item.artist = Artists[i].name})
  <2>1. AlbumsBy(Albums, i) = {j \in DOMAIN Albums : Albums[j].artistId = i}
    BY DEF AlbumsBy
  <2>2. By(tracks, Artists[i].name) =
          {item \in Range(catalog) : IsAudio(item) /\ item.artist = Artists[i].name}
    BY <1>1 DEF By, Tracks
  <2> QED
    BY <1>2, <2>1, <2>2
<1> QED
  BY <1>2, <1>4, <1>5, <1>7, <1>8 DEF TracksCounted

(* Dates and directories are those the tracks of an album share.           *)
LEMMA SharedHold ==
  ASSUME BrowseInv
  PROVE  DatesShared /\ CoverDirsAgree
<1>1. PICK tracks : tracks = Tracks(catalog)
  OBVIOUS
<1>2. PICK n \in Nat :
         /\ IsFiniteSet(tracks) /\ DOMAIN Albums = 1..n
         /\ \A i \in 1..n : /\ AlbumInv(Albums[i], tracks)
                            /\ Of(tracks, Albums[i].artist, Albums[i].name) # {}
  BY <1>1, IndexParts
<1>3. ASSUME NEW i \in DOMAIN Albums
      PROVE  /\ Albums[i].date =
                  LET dates == {item.date : item \in Owned(Albums[i])}
                  IN IF Cardinality(dates) = 1 THEN CHOOSE d \in dates : TRUE ELSE None
             /\ Albums[i].dir = ResolvedCoverDir(Albums[i])
  <2>1. PICK of : of = Owned(Albums[i])
    OBVIOUS
  <2>2. of = Of(tracks, Albums[i].artist, Albums[i].name)
    BY <1>1, <2>1, OwnedIs
  <2>3. /\ of # {} /\ Albums[i].dir = LongestCommonPrefix({x.dir : x \in of})
        /\ IF Albums[i].dateMixed THEN Albums[i].date = None /\ \E x, y \in of : x.date # y.date
                                  ELSE \A x \in of : x.date = Albums[i].date
    BY <1>2, <2>2 DEF AlbumInv
  <2>4. Albums[i].dir = ResolvedCoverDir(Albums[i])
    BY <2>1, <2>3 DEF ResolvedCoverDir
  <2>5. PICK dates : dates = {x.date : x \in of}
    OBVIOUS
  <2>6. Albums[i].date = IF Cardinality(dates) = 1 THEN CHOOSE d \in dates : TRUE ELSE None
    <3>1. CASE Albums[i].dateMixed
      <4>1. \A d : dates # {d}
        BY <2>3, <2>5, <3>1
      <4>2. IsFiniteSet(dates)
        <5>1. IsFiniteSet(of)
          <6>1. of \subseteq tracks
            BY <2>2 DEF Of
          <6> QED
            BY <1>2, <6>1, FS_Subset
        <5>2. PICK date : date = [x \in of |-> x.date]
          OBVIOUS
        <5>3. date \in Surjection(of, dates)
          BY <2>5, <5>2 DEF Surjection
        <5> QED
          BY <5>1, <5>3, FS_Surjection
      <4>3. Cardinality(dates) # 1
        BY <4>1, <4>2, FS_Singleton
      <4> QED
        BY <2>3, <3>1, <4>3
    <3>2. CASE ~Albums[i].dateMixed
      <4>1. dates = {Albums[i].date}
        BY <2>3, <2>5, <3>2
      <4>2. Cardinality(dates) = 1
        BY <4>1, FS_Singleton
      <4> QED
        BY <4>1, <4>2
    <3> QED
      BY <3>1, <3>2
  <2> QED
    BY <2>1, <2>4, <2>5, <2>6
<1>4. DatesShared
  BY <1>3 DEF DatesShared
<1>5. CoverDirsAgree
  BY <1>3 DEF CoverDirsAgree
<1> QED
  BY <1>4, <1>5

(* An album has the best of its images, if it has any.                     *)
LEMMA CoversHold ==
  ASSUME BrowseInv
  PROVE  CoverIsBest
<1>1. PICK grouped : grouped = Grouped(catalog)
  OBVIOUS
<1>2. IsIndex(grouped) /\ PicturedInv(index, grouped, Pictures(catalog))
  BY <1>1, GroupedIs, PicturedIs DEF BrowseInv, GroupedInv
<1>3. Range(catalog) \subseteq Item /\ \A x, y \in Range(catalog) : x.id = y.id => x = y
  BY CatalogueParts DEF BrowseInv
<1>4. ASSUME NEW i \in DOMAIN Albums
      PROVE  LET images == {item \in Range(catalog) : IsImage(item) /\ AlbumOfImage(index, item) = i}
                 best == {image \in images : \A other \in images \ {image} : Better(image, other)}
             IN Albums[i].cover = (IF best = {} THEN 0 ELSE (CHOOSE image \in best : TRUE).id)
  <2>1. PICK images : images = {item \in Range(catalog) : IsImage(item) /\ AlbumOfImage(index, item) = i}
    OBVIOUS
  <2>2. PICK best : best = {image \in images : \A other \in images \ {image} : Better(image, other)}
    OBVIOUS
  <2>3. images = Shown(Pictures(catalog), grouped, i)
    <3>1. \A x : AlbumOfImage(index, x) = AlbumOfImage(grouped, x)
      BY <1>2, SameFound DEF PicturedInv
    <3>2. \A x : x \in images <=> x \in Range(catalog) /\ IsImage(x) /\ AlbumOfImage(grouped, x) = i
      BY <2>1, <3>1
    <3>3. \A x : x \in Shown(Pictures(catalog), grouped, i)
                   <=> x \in Range(catalog) /\ IsImage(x) /\ AlbumOfImage(grouped, x) = i
      BY DEF Shown, Pictures
    <3> QED
      BY <3>2, <3>3
  <2>4. CoverInv(Albums[i], images)
    BY <1>2, <2>3 DEF PicturedInv, Albums
  <2>5. images \subseteq Item /\ \A x, y \in images : x.id = y.id => x = y
    BY <1>3, <2>1
  <2>6. CASE images = {}
    <3>1. best = {} /\ Albums[i].cover = 0
      BY <2>2, <2>4, <2>6 DEF CoverInv
    <3> QED
      BY <2>1, <2>2, <3>1
  <2>7. CASE images # {}
    <3>1. PICK x \in images : Albums[i].cover = x.id /\ \A other \in images \ {x} : Better(x, other)
      BY <2>4, <2>7 DEF CoverInv
    <3>2. best = {x}
      <4>1. x \in best
        BY <2>2, <3>1
      <4>2. ASSUME NEW y \in best
            PROVE  y = x
        <5>1. y \in images /\ \A other \in images \ {y} : Better(y, other)
          BY <2>2
        <5>2. y # x => Better(x, y) /\ Better(y, x)
          BY <3>1, <5>1
        <5> QED
          BY <2>5, <5>1, <5>2, BetterOrder
      <4> QED
        BY <4>1, <4>2
    <3>3. (CHOOSE image \in best : TRUE) = x
      BY <3>2
    <3>4. best # {}
      BY <3>2
    <3> QED
      BY <2>1, <2>2, <3>1, <3>3, <3>4
  <2> QED
    BY <2>6, <2>7
<1> QED
  BY <1>4 DEF CoverIsBest

-----------------------------------------------------------------------------
(***************************************************************************)
(* Every step leaves a catalogue and its index.                            *)
(***************************************************************************)

(* Items that change and keep their ids.                                   *)
LEMMA CatalogueChanged ==
  ASSUME NEW items, Catalogue(items), NEW new, new = [i \in DOMAIN items |-> new[i]],
         \A i \in DOMAIN items : new[i] \in Item /\ new[i].id = items[i].id
  PROVE  Catalogue(new)
<1>1. Len(items) \in Nat /\ DOMAIN items = 1..Len(items)
  BY CatalogueParts
<1>2. new \in Seq(Item)
  BY <1>1
<1>3. DOMAIN new = DOMAIN items
  OBVIOUS
<1>4. \A i, j \in DOMAIN items : items[i].id = items[j].id => i = j
  BY DEF Catalogue
<1>5. \A i, j \in DOMAIN new : new[i].id = new[j].id => i = j
  BY <1>3, <1>4
<1> QED
  BY <1>2, <1>5 DEF Catalogue

(* An item with another tag.                                               *)
LEMMA ItemChanged ==
  ASSUME NEW item \in Item, NEW field \in {"artist", "album", "date"}, NEW value \in ValuesOf(field)
  PROVE  [item EXCEPT ![field] = value] \in Item /\ [item EXCEPT ![field] = value].id = item.id
<1>1. value \in STRING
  BY TextAssumption DEF ValuesOf
<1>2. CASE field = "artist"
  <2>1. [item EXCEPT !["artist"] = value] \in Item /\ [item EXCEPT !["artist"] = value].id = item.id
    BY <1>1 DEF Item
  <2> QED
    BY <1>2, <2>1
<1>3. CASE field = "album"
  <2>1. [item EXCEPT !["album"] = value] \in Item /\ [item EXCEPT !["album"] = value].id = item.id
    BY <1>1 DEF Item
  <2> QED
    BY <1>3, <2>1
<1>4. CASE field = "date"
  <2>1. [item EXCEPT !["date"] = value] \in Item /\ [item EXCEPT !["date"] = value].id = item.id
    BY <1>1 DEF Item
  <2> QED
    BY <1>4, <2>1
<1> QED
  BY <1>2, <1>3, <1>4

(* A set of ids has a greatest one.                                        *)
LEMMA GreatestOf ==
  ASSUME NEW n \in Nat, NEW f, \A i \in 1..n : f[i] \in Nat
  PROVE  \E max \in Nat : /\ \A i \in 1..n : f[i] <= max
                          /\ n # 0 => \E i \in 1..n : f[i] = max
<1> DEFINE Top(m) == \E max \in Nat : /\ \A i \in 1..m : f[i] <= max
                                      /\ m # 0 => \E i \in 1..m : f[i] = max
           T == {m \in 0..n : ~Top(m)}
<1>1. SUFFICES ASSUME T # {}
               PROVE  FALSE
  <2>1. ASSUME T = {}
        PROVE  Top(n)
    <3> HIDE DEF Top
    <3>1. n \in 0..n /\ n \notin T
      BY <2>1
    <3> QED
      BY <3>1
  <2> QED
    BY <2>1
<1>2. PICK m \in T : \A k \in T : m <= k
  <2> HIDE DEF T
  <2>1. T \subseteq Nat
    BY DEF T
  <2> QED
    BY <1>1, <2>1, FirstOf
<1>3. m # 0
  <2>1. Top(0)
    <3>1. \A i \in 1..0 : f[i] <= 0
      OBVIOUS
    <3> QED
      BY <3>1
  <2> QED
    BY <1>2, <2>1
<1>4. m \in 1..n /\ m - 1 \in 0..n /\ m - 1 \notin T /\ m - 1 \in Nat
  <2>1. m \in 0..n
    OBVIOUS
  <2>2. m \in 1..n /\ m - 1 \in 0..n /\ ~(m <= m - 1) /\ m - 1 \in Nat
    BY <1>3, <2>1
  <2> HIDE DEF T
  <2> QED
    BY <1>2, <2>2
<1>5. PICK max \in Nat : /\ \A i \in 1..(m - 1) : f[i] <= max
                         /\ m - 1 # 0 => \E i \in 1..(m - 1) : f[i] = max
  BY <1>4
<1>6. f[m] \in Nat /\ \A i \in 1..m : i \in 1..(m - 1) \/ i = m
  BY <1>4
<1>7. \A i \in 1..(m - 1) : i \in 1..m
  BY <1>4
<1>8. CASE f[m] >= max
  <2>1. \A i \in 1..(m - 1) : f[i] \in Nat /\ f[i] <= f[m]
    <3>1. \A i \in 1..(m - 1) : f[i] \in Nat
      BY <1>4
    <3> QED
      BY <1>5, <1>6, <1>8, <3>1
  <2>2. \A i \in 1..m : f[i] <= f[m]
    BY <1>6, <2>1
  <2>3. m \in 1..m
    BY <1>4
  <2>4. Top(m)
    BY <1>6, <2>2, <2>3
  <2> QED
    BY <1>2, <2>4
<1>9. CASE ~(f[m] >= max)
  <2>1. \A i \in 1..m : f[i] <= max
    BY <1>5, <1>6, <1>9
  <2>2. m - 1 # 0
    <3>1. m - 1 # 0 \/ m = 1
      BY <1>4
    <3> QED
      BY <1>5, <1>9, <3>1
  <2>3. Top(m)
    BY <1>5, <1>7, <2>1, <2>2
  <2> QED
    BY <1>2, <2>3
<1> QED
  BY <1>8, <1>9

(* The id of an uploaded cover is new.                                     *)
LEMMA NewId ==
  ASSUME NEW items, Catalogue(items), NEW i \in 1..Len(items)
  PROVE  /\ Max({item.id : item \in Range(items)}) \in Nat
         /\ \A j \in 1..Len(items) : items[j].id <= Max({item.id : item \in Range(items)})
<1>1. PICK n \in Nat : n = Len(items) /\ n # 0
  BY CatalogueParts
<1>2. PICK f : f = [j \in 1..n |-> items[j].id]
  OBVIOUS
<1>3. \A j \in 1..n : f[j] = items[j].id /\ f[j] \in Nat
  BY <1>1, <1>2, CatalogueParts DEF Item
<1>4. PICK max \in Nat : (\A j \in 1..n : f[j] <= max) /\ \E j \in 1..n : f[j] = max
  <2>1. \A j \in 1..n : f[j] \in Nat
    BY <1>3
  <2>2. \E max \in Nat : /\ \A j \in 1..n : f[j] <= max
                         /\ n # 0 => \E j \in 1..n : f[j] = max
    BY <2>1, GreatestOf
  <2> QED
    BY <1>1, <2>2
<1>5. PICK ids : ids = {item.id : item \in Range(items)}
  OBVIOUS
<1>6. \A id : id \in ids <=> \E j \in 1..n : id = items[j].id
  BY <1>1, <1>5, CatalogueParts
<1>7. max \in ids /\ \A id \in ids : id <= max
  BY <1>3, <1>4, <1>6, SMTT(60)
<1>8. Max(ids) \in ids /\ \A id \in ids : Max(ids) >= id
  BY <1>7 DEF Max
<1>9. \A id \in ids : id \in Nat
  BY <1>3, <1>6
<1> QED
  BY <1>1, <1>5, <1>6, <1>8, <1>9

(* A function of numbers up to n is a sequence of that length.             *)
LEMMA SeqOfItems ==
  ASSUME NEW n \in Nat, NEW items, items = [i \in 1..n |-> items[i]],
         \A i \in 1..n : items[i] \in Item
  PROVE  items \in Seq(Item) /\ Len(items) = n
<1>1. items \in Seq(Item)
  OBVIOUS
<1>2. DOMAIN items = 1..n
  OBVIOUS
<1>3. Len(items) \in Nat /\ DOMAIN items = 1..Len(items)
  BY <1>1, LenProperties
<1> QED
  BY <1>1, <1>2, <1>3

(* Tracks that a scan finds.                                               *)
LEMMA FoundTracks ==
  ASSUME NEW n \in Nat, NEW tracks \in TracksOf(n)
  PROVE  /\ tracks \in Seq(Item) /\ Len(tracks) = n
         /\ \A i \in 1..n : tracks[i].id = i
<1>1. PICK dir \in [1..n -> TrackDir], artist \in [1..n -> Artist],
           album \in [1..n -> Album], date \in [1..n -> Date] :
        tracks = [i \in 1..n |->
                    [id |-> i, kind |-> "audio", dir |-> dir[i], stem |-> None, ext |-> None,
                     artist |-> artist[i], album |-> album[i], date |-> date[i]]]
  BY DEF TracksOf, TrackItem
<1>2. ASSUME NEW i \in 1..n
      PROVE  tracks[i] \in Item /\ tracks[i].id = i
  <2>1. /\ i \in Nat \ {0} /\ dir[i] \in Seq(STRING) /\ artist[i] \in STRING
        /\ album[i] \in STRING /\ date[i] \in STRING
    BY TextAssumption
  <2>2. tracks[i] = [id |-> i, kind |-> "audio", dir |-> dir[i], stem |-> None, ext |-> None,
                     artist |-> artist[i], album |-> album[i], date |-> date[i]]
    BY <1>1
  <2> QED
    BY <2>1, <2>2, NoneIsText DEF Item
<1>3. tracks = [i \in 1..n |-> tracks[i]]
  BY <1>1
<1> QED
  BY <1>2, <1>3, SeqOfItems

(* Images that a scan finds.                                               *)
LEMMA FoundImages ==
  ASSUME NEW n \in Nat, NEW m \in Nat, NEW images \in ImagesOf(n, m)
  PROVE  /\ images \in Seq(Item) /\ Len(images) = n
         /\ \A j \in 1..n : images[j].id \in Nat /\ images[j].id > m
         /\ \A j, k \in 1..n : images[j].id = images[k].id => j = k
<1> DEFINE Names == {f \in [1..n -> ImageDir \X ImageStem] : IsInjective(f)}
           Ids == {[j \in 1..n |-> m + j], [j \in 1..n |-> m + n + 1 - j]}
           Images(name, ids) == [j \in 1..n |-> ImageItem(ids[j], name[j][1], name[j][2], "jpg")]
<1>a. \E name \in Names, ids \in Ids : images = Images(name, ids)
  <2>1. ImagesOf(n, m) = {Images(name, ids) : name \in Names, ids \in Ids}
    BY DEF ImagesOf
  <2> HIDE DEF Names, Ids, Images
  <2> QED
    BY <2>1
<1>1. PICK name \in Names, ids \in Ids : images = Images(name, ids)
  BY <1>a
<1>2. /\ name \in [1..n -> ImageDir \X ImageStem]
      /\ ids = [j \in 1..n |-> m + j] \/ ids = [j \in 1..n |-> m + n + 1 - j]
  OBVIOUS
<1>3. \A j \in 1..n : ids[j] \in Nat /\ ids[j] > m
  BY <1>2
<1>4. \A j, k \in 1..n : ids[j] = ids[k] => j = k
  BY <1>2
<1>5. \A j \in 1..n : images[j] \in Item /\ images[j].id = ids[j]
  <2> SUFFICES ASSUME NEW j \in 1..n
               PROVE  images[j] \in Item /\ images[j].id = ids[j]
    OBVIOUS
  <2>1. images[j] = [id |-> ids[j], kind |-> "image", dir |-> name[j][1], stem |-> name[j][2],
                     ext |-> "jpg", artist |-> PathGroup(name[j][1])[1],
                     album |-> PathGroup(name[j][1])[2], date |-> None]
    BY <1>1 DEF ImageItem
  <2>2. ids[j] \in Nat \ {0} /\ name[j][1] \in Seq(STRING) /\ name[j][2] \in ImageStem
    BY <1>2, <1>3, TextAssumption
  <2>3. PathGroup(name[j][1])[1] \in STRING /\ PathGroup(name[j][1])[2] \in STRING
    BY <2>2, PathGroupType
  <2> QED
    BY <2>1, <2>2, <2>3, NoneIsText DEF Item
<1>6. images = [j \in 1..n |-> images[j]]
  BY <1>1
<1>7. images \in Seq(Item) /\ Len(images) = n
  BY <1>5, <1>6, SeqOfItems
<1> QED
  BY <1>3, <1>4, <1>5, <1>7

(* Tracks and images together.                                             *)
LEMMA FoundItems ==
  ASSUME NEW m \in Nat, NEW n \in Nat, NEW tracks \in Seq(Item), NEW images \in Seq(Item),
         Len(tracks) = m, \A i \in 1..m : tracks[i].id = i,
         Len(images) = n, \A j \in 1..n : images[j].id \in Nat /\ images[j].id > m,
         \A j, k \in 1..n : images[j].id = images[k].id => j = k
  PROVE  Catalogue(tracks \o images)
<1>1. PICK items : items = tracks \o images
  OBVIOUS
<1>2. /\ items \in Seq(Item) /\ DOMAIN items = 1..(m + n)
      /\ \A i \in 1..(m + n) : items[i] = IF i <= m THEN tracks[i] ELSE images[i - m]
  <2>1. /\ items \in Seq(Item) /\ Len(items) = Len(tracks) + Len(images)
        /\ \A i \in 1..(Len(tracks) + Len(images)) :
             items[i] = IF i <= Len(tracks) THEN tracks[i] ELSE images[i - Len(tracks)]
    BY <1>1, ConcatProperties, ZenonT(60)
  <2> QED
    BY <2>1, LenProperties
<1>3. ASSUME NEW i \in 1..(m + n), NEW j \in 1..(m + n), items[i].id = items[j].id
      PROVE  i = j
  <2>1. ASSUME NEW k \in 1..(m + n)
        PROVE  \/ k \in 1..m /\ items[k].id = k
               \/ /\ k - m \in 1..n /\ items[k].id = images[k - m].id
                  /\ images[k - m].id \in Nat /\ images[k - m].id > m
    <3>1. CASE k <= m
      <4>1. k \in 1..m
        BY <3>1
      <4> QED
        BY <1>2, <3>1, <4>1
    <3>2. CASE ~(k <= m)
      <4>1. k - m \in 1..n
        BY <3>2
      <4> QED
        BY <1>2, <3>2, <4>1
    <3> QED
      BY <3>1, <3>2
  <2>2. \/ i \in 1..m /\ items[i].id = i
        \/ /\ i - m \in 1..n /\ items[i].id = images[i - m].id
           /\ images[i - m].id \in Nat /\ images[i - m].id > m
    BY <2>1
  <2>3. \/ j \in 1..m /\ items[j].id = j
        \/ /\ j - m \in 1..n /\ items[j].id = images[j - m].id
           /\ images[j - m].id \in Nat /\ images[j - m].id > m
    BY <2>1
  <2>4. CASE i \in 1..m /\ items[i].id = i
    BY <1>3, <2>3, <2>4
  <2>5. CASE j \in 1..m /\ items[j].id = j
    BY <1>3, <2>2, <2>5
  <2>6. CASE i - m \in 1..n /\ j - m \in 1..n /\ images[i - m].id = images[j - m].id
    <3>1. i - m = j - m
      BY <2>6
    <3> QED
      BY <3>1
  <2> QED
    BY <1>3, <2>2, <2>3, <2>4, <2>5, <2>6
<1>4. Catalogue(items)
  BY <1>2, <1>3 DEF Catalogue
<1> QED
  BY <1>1, <1>4

(* What albums own has its directories.                                    *)
LEMMA ResolvedType ==
  ASSUME Catalogue(catalog), NEW album
  PROVE  ResolvedCoverDir(album) \in Seq(STRING)
<1>1. PICK dirs : dirs = {item.dir : item \in Owned(album)}
  OBVIOUS
<1>2. dirs \subseteq Seq(STRING)
  <2>1. Owned(album) \subseteq Item
    BY CatalogueParts DEF Owned
  <2> QED
    BY <1>1, <2>1 DEF Item
<1>3. CASE Owned(album) = {}
  <2>1. <<>> \in Seq(STRING)
    OBVIOUS
  <2> QED
    BY <1>3, <2>1 DEF ResolvedCoverDir
<1>4. CASE Owned(album) # {}
  <2>1. dirs # {}
    BY <1>1, <1>4
  <2>2. LongestCommonPrefix(dirs) \in Seq(STRING)
    <3>1. <<>> \in Seq(STRING)
      OBVIOUS
    <3> QED
      BY <1>2, <2>1, <3>1, LongestNext
  <2> QED
    BY <1>1, <1>4, <2>2 DEF ResolvedCoverDir
<1> QED
  BY <1>3, <1>4

(* A catalogue with an uploaded cover.                                     *)
LEMMA UploadedType ==
  ASSUME Catalogue(catalog), NEW album, NEW ext \in Extension, ResolvedCoverDir(album) # <<>>
  PROVE  Catalogue(Uploaded(Cover(album, ext)))
<1>1. PICK n \in Nat : /\ n = Len(catalog) /\ DOMAIN catalog = 1..n
                       /\ \A i \in 1..n : catalog[i] \in Item
                       /\ \A i, j \in 1..n : catalog[i].id = catalog[j].id => i = j
  BY CatalogueParts
<1>2. PICK max : max = Max({item.id : item \in Range(catalog)})
  OBVIOUS
<1>3. n # 0
  <2>1. Owned(album) # {}
    BY DEF ResolvedCoverDir
  <2> QED
    BY <1>1, <2>1, CatalogueParts DEF Owned
<1>4. max \in Nat /\ \A i \in 1..n : catalog[i].id <= max
  <2>1. 1 \in 1..Len(catalog)
    BY <1>1, <1>3
  <2> QED
    BY <1>1, <1>2, <2>1, NewId
<1>5. PICK image : image = Cover(album, ext)
  OBVIOUS
<1>6. image \in Item /\ image.id = max + 1
  <2>1. image = [id |-> max + 1, kind |-> "image", dir |-> ResolvedCoverDir(album),
                 stem |-> "cover", ext |-> ext,
                 artist |-> PathGroup(ResolvedCoverDir(album))[1],
                 album |-> PathGroup(ResolvedCoverDir(album))[2], date |-> None]
    BY <1>2, <1>5 DEF Cover, ImageItem
  <2>2. max + 1 \in Nat \ {0} /\ ResolvedCoverDir(album) \in Seq(STRING)
    BY <1>4, ResolvedType
  <2>3. /\ PathGroup(ResolvedCoverDir(album))[1] \in STRING
        /\ PathGroup(ResolvedCoverDir(album))[2] \in STRING
    BY <2>2, PathGroupType
  <2> QED
    BY <2>1, <2>2, <2>3, NoneIsText DEF Item
<1>7. PICK new : new = Append(catalog, image)
  OBVIOUS
<1>8. /\ new \in Seq(Item) /\ DOMAIN new = 1..(n + 1) /\ new[n + 1] = image
      /\ \A i \in 1..n : new[i] = catalog[i]
  BY <1>1, <1>6, <1>7, AppendProperties DEF Catalogue
<1>9. \A i \in 1..n : catalog[i].id \in Nat /\ catalog[i].id # image.id
  BY <1>1, <1>4, <1>6 DEF Item
<1>10. ASSUME NEW i \in 1..(n + 1), NEW j \in 1..(n + 1), new[i].id = new[j].id
       PROVE  i = j
  <2>1. (i \in 1..n \/ i = n + 1) /\ (j \in 1..n \/ j = n + 1)
    OBVIOUS
  <2> QED
    BY <1>1, <1>8, <1>9, <1>10, <2>1
<1>11. Catalogue(new)
  BY <1>8, <1>10 DEF Catalogue
<1> QED
  BY <1>5, <1>7, <1>11 DEF Uploaded

-----------------------------------------------------------------------------
(***************************************************************************)
(* Theorems                                                                *)
(***************************************************************************)

(* The items always have distinct ids, and the index is always the one     *)
(* that browse_index_build makes of them.                                  *)
THEOREM BrowseInvariance == Spec => []BrowseInv
<1>1. Init => BrowseInv
  <2> SUFFICES ASSUME Init
               PROVE  Catalogue(catalog)
    BY DEF Init, BrowseInv
  <2>1. PICK shape \in Shape :
          \E tracks \in TracksOf(shape[1]), images \in ImagesOf(shape[2], shape[1]) :
            catalog = tracks \o images
    BY DEF Init
  <2>2. PICK m \in Nat, n \in Nat : m = shape[1] /\ n = shape[2]
    BY CountAssumption
  <2>3. PICK tracks \in TracksOf(m), images \in ImagesOf(n, m) : catalog = tracks \o images
    BY <2>1, <2>2
  <2>4. /\ tracks \in Seq(Item) /\ Len(tracks) = m
        /\ \A i \in 1..m : tracks[i].id = i
    BY FoundTracks
  <2>5. /\ images \in Seq(Item) /\ Len(images) = n
        /\ \A j \in 1..n : images[j].id \in Nat /\ images[j].id > m
        /\ \A j, k \in 1..n : images[j].id = images[k].id => j = k
    BY FoundImages
  <2>6. Catalogue(tracks \o images)
    BY <2>4, <2>5, FoundItems
  <2> QED
    BY <2>3, <2>6
<1>2. BrowseInv /\ [Next]_vars => BrowseInv'
  <2> SUFFICES ASSUME BrowseInv, [Next]_vars
               PROVE  BrowseInv'
    OBVIOUS
  <2>1. Catalogue(catalog) /\ \A i \in DOMAIN catalog : catalog[i] \in Item
    BY CatalogueParts DEF BrowseInv
  <2>2. ASSUME NEW id, NEW field \in {"artist", "album", "date"}, NEW value \in ValuesOf(field),
               PatchAlbum(id, field, value)
        PROVE  BrowseInv'
    <3>1. catalog' = [i \in DOMAIN catalog |->
                        IF Owns(index.albums[id], catalog[i])
                        THEN [catalog[i] EXCEPT ![field] = value] ELSE catalog[i]]
      BY <2>2 DEF PatchAlbum
    <3>2. PICK new : new = catalog'
      OBVIOUS
    <3>3. new = [i \in DOMAIN catalog |-> new[i]]
      BY <3>1, <3>2
    <3>4. ASSUME NEW i \in DOMAIN catalog
          PROVE  new[i] \in Item /\ new[i].id = catalog[i].id
      <4>1. new[i] = [catalog[i] EXCEPT ![field] = value] \/ new[i] = catalog[i]
        BY <3>1, <3>2
      <4>2. catalog[i] \in Item
        BY <2>1
      <4>3. /\ [catalog[i] EXCEPT ![field] = value] \in Item
            /\ [catalog[i] EXCEPT ![field] = value].id = catalog[i].id
        BY <4>2, ItemChanged
      <4> QED
        BY <4>1, <4>2, <4>3
    <3>5. Catalogue(new)
      BY <2>1, <3>3, <3>4, CatalogueChanged
    <3>6. index' = Build(catalog')
      BY <2>2 DEF PatchAlbum
    <3> QED
      BY <3>2, <3>5, <3>6 DEF BrowseInv
  <2>3. ASSUME NEW i, NEW field \in {"artist", "album", "date"}, NEW value \in ValuesOf(field),
               PatchTrack(i, field, value)
        PROVE  BrowseInv'
    <3>1. i \in DOMAIN catalog /\ catalog' = [catalog EXCEPT ![i][field] = value]
      BY <2>3 DEF PatchTrack
    <3>2. PICK new : new = catalog'
      OBVIOUS
    <3>3. new = [catalog EXCEPT ![i] = [catalog[i] EXCEPT ![field] = value]]
      BY <3>1, <3>2
    <3>4. \A k \in DOMAIN catalog : new[k] \in Item /\ new[k].id = catalog[k].id
      <4>1. /\ [catalog[i] EXCEPT ![field] = value] \in Item
            /\ [catalog[i] EXCEPT ![field] = value].id = catalog[i].id
        BY <2>1, <3>1, ItemChanged, ZenonT(60)
      <4>2. \A k \in DOMAIN catalog : new[k] = IF k = i THEN [catalog[i] EXCEPT ![field] = value]
                                                        ELSE catalog[k]
        BY <3>3
      <4> QED
        BY <2>1, <4>1, <4>2
    <3>5. new = [k \in DOMAIN catalog |-> new[k]]
      BY <3>3
    <3>6. Catalogue(new)
      BY <2>1, <3>4, <3>5, CatalogueChanged
    <3>7. index' = Build(catalog')
      BY <2>3 DEF PatchTrack
    <3> QED
      BY <3>2, <3>6, <3>7 DEF BrowseInv
  <2>4. ASSUME NEW id, NEW ext \in Extension, PutCover(id, ext)
        PROVE  BrowseInv'
    <3>1. /\ ResolvedCoverDir(index.albums[id]) # <<>>
          /\ catalog' = Uploaded(Cover(index.albums[id], ext)) /\ index' = Build(catalog')
      BY <2>4 DEF PutCover
    <3>2. PICK new : new = catalog' /\ Catalogue(new)
      BY <2>1, <3>1, UploadedType
    <3> QED
      BY <3>1, <3>2 DEF BrowseInv
  <2>5. CASE UNCHANGED vars
    BY <2>5 DEF BrowseInv, vars
  <2> QED
    BY <2>2, <2>3, <2>4, <2>5 DEF Next
<1> QED
  BY <1>1, <1>2, PTL DEF Spec

(* Whatever is patched and uploaded, the index counts and links exactly    *)
(* the tracks that owns_item says an album has.                            *)
THEOREM CountsExact == Spec => []TracksCounted
BY BrowseInvariance, CountsHold, PTL

(* An album always shows a date if and only if all its tracks have it.     *)
THEOREM DatesExact == Spec => []DatesShared
BY BrowseInvariance, SharedHold, PTL

(* An album always has the directory its cover would be written to.        *)
THEOREM DirsExact == Spec => []CoverDirsAgree
BY BrowseInvariance, SharedHold, PTL

(* An album always has the best of the images that belong to it, whatever  *)
(* the order they were found in.                                           *)
THEOREM CoversBest == Spec => []CoverIsBest
BY BrowseInvariance, CoversHold, PTL
=============================================================================
