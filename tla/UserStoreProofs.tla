---------------------------- MODULE UserStoreProofs ----------------------------
(***************************************************************************)
(* Proofs about UserStore, for any tracks and any number of playlists and  *)
(* rows: what the database holds is in order and was served, whatever      *)
(* statement fails and whenever the process dies, and a call does all that *)
(* it promises or nothing.                                                 *)
(***************************************************************************)
EXTENDS UserStore, FiniteSetTheorems, SequenceTheorems, WellFoundedInduction, TLAPS

Play == [track : Track, played : 1..MaxTime]

-----------------------------------------------------------------------------
(***************************************************************************)
(* The database.                                                           *)
(***************************************************************************)

(* The database is taken apart and put together again.                     *)
LEMMA DataParts ==
  ASSUME NEW data, IsData(data)
  PROVE  /\ data = [version |-> data.version, playlist |-> data.playlist,
                    last |-> data.last, track |-> data.track,
                    favourite |-> data.favourite, history |-> data.history]
         /\ data.version \in 0..2 /\ data.last \in 0..MaxPlaylists
         /\ data.last \in Nat /\ data.history \in Seq(Play)
         /\ Partial(data.playlist, 1..data.last, Name)
         /\ Partial(data.track, (1..data.last) \X (0..MaxRows), Track)
         /\ Partial(data.favourite, Track, 1..MaxTime)
BY BoundAssumption DEF IsData, Play

(* Tables of the right types make a database.                              *)
LEMMA DataMade ==
  ASSUME NEW version \in 0..2, NEW last \in 0..MaxPlaylists,
         NEW playlist, Partial(playlist, 1..last, Name),
         NEW track, Partial(track, (1..last) \X (0..MaxRows), Track),
         NEW favourite, Partial(favourite, Track, 1..MaxTime),
         NEW history \in Seq(Play)
  PROVE  IsData([version |-> version, playlist |-> playlist, last |-> last,
                 track |-> track, favourite |-> favourite, history |-> history])
BY DEF IsData, Play

(* A database without rows.                                                *)
LEMMA NoDataType ==
  ASSUME NEW version \in 0..2
  PROVE  IsData([NoData EXCEPT !.version = version])
<1>1. \A D, R : Partial(<<>>, D, R)
  BY DEF Partial
<1>2. [NoData EXCEPT !.version = version] =
        [version |-> version, playlist |-> <<>>, last |-> 0, track |-> <<>>,
         favourite |-> <<>>, history |-> <<>>]
  BY DEF NoData
<1>3. 0 \in 0..MaxPlaylists /\ <<>> \in Seq(Play)
  BY BoundAssumption
<1>4. IsData([version |-> version, playlist |-> <<>>, last |-> 0, track |-> <<>>,
              favourite |-> <<>>, history |-> <<>>])
  <2>1. /\ Partial(<<>>, 1..0, Name) /\ Partial(<<>>, Track, 1..MaxTime)
        /\ Partial(<<>>, (1..0) \X (0..MaxRows), Track)
    BY <1>1
  <2> QED
    BY <1>3, <2>1, DataMade
<1> QED
  BY <1>2, <1>4

(* A row that is put is in the table, the others are as before.            *)
LEMMA PutParts ==
  ASSUME NEW f, NEW x, NEW y
  PROVE  /\ DOMAIN Put(f, x, y) = DOMAIN f \cup {x}
         /\ Put(f, x, y)[x] = y
         /\ \A z \in DOMAIN f \ {x} : Put(f, x, y)[z] = f[z]
BY DEF Put

(* The table keeps its type.                                               *)
LEMMA PutType ==
  ASSUME NEW f, NEW D, NEW R, Partial(f, D, R), NEW x \in D, NEW y \in R
  PROVE  Partial(Put(f, x, y), D, R)
BY DEF Put, Partial

(* A restricted table.                                                     *)
LEMMA RestrictParts ==
  ASSUME NEW f, NEW S, S \subseteq DOMAIN f
  PROVE  /\ DOMAIN Restrict(f, S) = S
         /\ \A z \in S : Restrict(f, S)[z] = f[z]
         /\ \A D, R : Partial(f, D, R) => Partial(Restrict(f, S), D, R)
BY DEF Restrict, Partial

(* Tables that take the place of others.                                   *)
LEMMA TablesReplaced ==
  ASSUME NEW data, IsData(data), NEW f
  PROVE  /\ [data EXCEPT !.track = f] =
              [version |-> data.version, playlist |-> data.playlist, last |-> data.last,
               track |-> f, favourite |-> data.favourite, history |-> data.history]
         /\ [data EXCEPT !.playlist = f] =
              [version |-> data.version, playlist |-> f, last |-> data.last,
               track |-> data.track, favourite |-> data.favourite,
               history |-> data.history]
         /\ [data EXCEPT !.favourite = f] =
              [version |-> data.version, playlist |-> data.playlist, last |-> data.last,
               track |-> data.track, favourite |-> f, history |-> data.history]
         /\ [data EXCEPT !.history = f] =
              [version |-> data.version, playlist |-> data.playlist, last |-> data.last,
               track |-> data.track, favourite |-> data.favourite, history |-> f]
<1>1. \A v, p, l, t, fav, h :
        LET r == [version |-> v, playlist |-> p, last |-> l,
                  track |-> t, favourite |-> fav, history |-> h] IN
        /\ [r EXCEPT !.track = f] =
             [version |-> v, playlist |-> p, last |-> l,
              track |-> f, favourite |-> fav, history |-> h]
        /\ [r EXCEPT !.playlist = f] =
             [version |-> v, playlist |-> f, last |-> l,
              track |-> t, favourite |-> fav, history |-> h]
        /\ [r EXCEPT !.favourite = f] =
             [version |-> v, playlist |-> p, last |-> l,
              track |-> t, favourite |-> f, history |-> h]
        /\ [r EXCEPT !.history = f] =
             [version |-> v, playlist |-> p, last |-> l,
              track |-> t, favourite |-> fav, history |-> f]
  OBVIOUS
<1>2. data = [version |-> data.version, playlist |-> data.playlist,
              last |-> data.last, track |-> data.track,
              favourite |-> data.favourite, history |-> data.history]
  BY DataParts
<1> QED
  BY <1>1, <1>2

(* Deleting the rows of a playlist.                                        *)
LEMMA WithoutRowsParts ==
  ASSUME NEW data, IsData(data), NEW id
  PROVE  LET w == WithoutRows(data, id) IN
         /\ IsData(w)
         /\ w.track = Restrict(data.track, DOMAIN data.track \ RowsOf(data, id))
         /\ DOMAIN w.track = DOMAIN data.track \ RowsOf(data, id)
         /\ \A row \in DOMAIN data.track \ RowsOf(data, id) : w.track[row] = data.track[row]
         /\ w.playlist = data.playlist /\ w.version = data.version /\ w.last = data.last
         /\ w.favourite = data.favourite /\ w.history = data.history
<1> DEFINE S == DOMAIN data.track \ RowsOf(data, id)
           t == Restrict(data.track, S)
           w == WithoutRows(data, id)
<1>1. /\ DOMAIN t = S /\ \A row \in S : t[row] = data.track[row]
      /\ Partial(t, (1..data.last) \X (0..MaxRows), Track)
  BY DataParts, RestrictParts
<1>2. w = [data EXCEPT !.track = t]
  BY DEF WithoutRows
<1> HIDE DEF t, w
<1>3. w = [version |-> data.version, playlist |-> data.playlist, last |-> data.last,
           track |-> t, favourite |-> data.favourite, history |-> data.history]
  BY <1>2, TablesReplaced
<1>4. IsData(w)
  BY <1>1, <1>3, DataParts, DataMade
<1>5. /\ w.track = t /\ w.playlist = data.playlist /\ w.version = data.version
      /\ w.last = data.last /\ w.favourite = data.favourite /\ w.history = data.history
  BY <1>3
<1> QED
  BY <1>1, <1>4, <1>5 DEF t, w

(* Deleting them twice is deleting them once.                              *)
LEMMA WithoutRowsTwice ==
  ASSUME NEW data, IsData(data), NEW id
  PROVE  WithoutRows(WithoutRows(data, id), id) = WithoutRows(data, id)
<1> DEFINE w == WithoutRows(data, id)
           x == WithoutRows(w, id)
<1>1. IsData(w) /\ DOMAIN w.track = DOMAIN data.track \ RowsOf(data, id)
  BY WithoutRowsParts
<1>2. RowsOf(w, id) = {}
  BY <1>1 DEF RowsOf
<1> HIDE DEF w
<1>a. DOMAIN w.track \ RowsOf(w, id) = DOMAIN w.track
  BY <1>2
<1>3. /\ IsData(x) /\ x.track = Restrict(w.track, DOMAIN w.track)
      /\ x.playlist = w.playlist /\ x.version = w.version /\ x.last = w.last
      /\ x.favourite = w.favourite /\ x.history = w.history
  <2>1. /\ IsData(x) /\ x.track = Restrict(w.track, DOMAIN w.track \ RowsOf(w, id))
        /\ x.playlist = w.playlist /\ x.version = w.version /\ x.last = w.last
        /\ x.favourite = w.favourite /\ x.history = w.history
    BY <1>1, WithoutRowsParts
  <2> QED
    BY <1>a, <2>1
<1>4. Restrict(w.track, DOMAIN w.track) = w.track
  BY <1>1, DataParts DEF Restrict, Partial
<1> HIDE DEF x
<1>5. x = w
  <2>1. x = [version |-> x.version, playlist |-> x.playlist, last |-> x.last,
             track |-> x.track, favourite |-> x.favourite, history |-> x.history]
    BY <1>3, DataParts
  <2>2. w = [version |-> w.version, playlist |-> w.playlist, last |-> w.last,
             track |-> w.track, favourite |-> w.favourite, history |-> w.history]
    BY <1>1, DataParts
  <2> QED
    BY <1>3, <1>4, <2>1, <2>2
<1> QED
  BY <1>5 DEF w, x

(* Deleting a playlist.                                                    *)
LEMMA WithoutPlaylistParts ==
  ASSUME NEW data, IsData(data), NEW id
  PROVE  LET w == WithoutPlaylist(data, id) IN
         /\ IsData(w)
         /\ w.track = WithoutRows(data, id).track
         /\ DOMAIN w.playlist = DOMAIN data.playlist \ {id}
         /\ \A j \in DOMAIN data.playlist \ {id} : w.playlist[j] = data.playlist[j]
         /\ w.version = data.version /\ w.last = data.last
         /\ w.favourite = data.favourite /\ w.history = data.history
<1> DEFINE r == WithoutRows(data, id)
           p == Restrict(data.playlist, DOMAIN data.playlist \ {id})
           w == WithoutPlaylist(data, id)
<1>1. /\ IsData(r) /\ r.playlist = data.playlist /\ r.version = data.version
      /\ r.last = data.last /\ r.favourite = data.favourite /\ r.history = data.history
  BY WithoutRowsParts
<1>2. /\ Partial(p, 1..data.last, Name) /\ DOMAIN p = DOMAIN data.playlist \ {id}
      /\ \A j \in DOMAIN data.playlist \ {id} : p[j] = data.playlist[j]
  BY DataParts, RestrictParts
<1>3. w = [r EXCEPT !.playlist = Restrict(r.playlist, DOMAIN r.playlist \ {id})]
  BY DEF WithoutPlaylist
<1>4. w = [r EXCEPT !.playlist = p]
  BY <1>1, <1>3
<1> HIDE DEF r, p, w
<1>5. w = [version |-> r.version, playlist |-> p, last |-> r.last,
           track |-> r.track, favourite |-> r.favourite, history |-> r.history]
  BY <1>1, <1>4, TablesReplaced
<1>6. Partial(p, 1..r.last, Name)
  BY <1>1, <1>2
<1>7. IsData(w)
  BY <1>1, <1>5, <1>6, DataParts, DataMade
<1>8. /\ w.playlist = p /\ w.track = r.track /\ w.version = r.version
      /\ w.last = r.last /\ w.favourite = r.favourite /\ w.history = r.history
  BY <1>5
<1> QED
  BY <1>1, <1>2, <1>7, <1>8 DEF r, w

(* Databases with the same tables are the same.                            *)
LEMMA DataEqual ==
  ASSUME NEW c, NEW d, IsData(c), IsData(d),
         c.version = d.version, c.last = d.last, c.playlist = d.playlist,
         c.track = d.track, c.favourite = d.favourite, c.history = d.history
  PROVE  c = d
<1>1. c = [version |-> c.version, playlist |-> c.playlist, last |-> c.last,
           track |-> c.track, favourite |-> c.favourite, history |-> c.history]
  BY DataParts
<1>2. d = [version |-> d.version, playlist |-> d.playlist, last |-> d.last,
           track |-> d.track, favourite |-> d.favourite, history |-> d.history]
  BY DataParts
<1> QED
  BY <1>1, <1>2

(* So are tables with the same rows.                                       *)
LEMMA PartialEqual ==
  ASSUME NEW f, NEW g, NEW D, NEW R, Partial(f, D, R), Partial(g, D, R),
         DOMAIN f = DOMAIN g, \A x \in DOMAIN f : f[x] = g[x]
  PROVE  f = g
BY DEF Partial

(* The first k positions of a playlist.                                    *)
Block(id, k) == {id} \X (0..(k - 1))

(* There are k of them.                                                    *)
LEMMA BlockCount ==
  ASSUME NEW id, NEW k \in Nat
  PROVE  Cardinality(Block(id, k)) = k
<1> DEFINE S == Block(id, k)
           f == [i \in 1..k |-> <<id, i - 1>>]
<1>1. f \in [1..k -> S]
  BY DEF Block
<1>2. \A i, j \in 1..k : f[i] = f[j] => i = j
  OBVIOUS
<1>3. \A row \in S : \E i \in 1..k : f[i] = row
  <2> SUFFICES ASSUME NEW row \in S
               PROVE  \E i \in 1..k : f[i] = row
    OBVIOUS
  <2>1. /\ row = <<id, row[2]>> /\ row[2] \in 0..(k - 1)
    BY DEF Block
  <2>2. row[2] + 1 \in 1..k /\ f[row[2] + 1] = row
    BY <2>1
  <2> QED
    BY <2>2
<1>4. f \in Bijection(1..k, S)
  BY <1>1, <1>2, <1>3 DEF Bijection, Injection, Surjection, IsInjective
<1>5. ExistsBijection(1..k, S)
  BY <1>4 DEF ExistsBijection
<1> HIDE DEF S
<1>6. Cardinality(S) = k
  BY <1>5, FS_CountingElements
<1> QED
  BY <1>6 DEF S

(* A playlist whose first k tracks were set.                               *)
LEMMA WithTracksParts ==
  ASSUME NEW data, IsData(data), NEW id \in DOMAIN data.playlist,
         NEW tracks \in Seq(Track), Len(tracks) <= MaxRows,
         NEW k \in 0..Len(tracks)
  PROVE  LET w == WithTracks(data, id, tracks, k) IN
         /\ IsData(w)
         /\ DOMAIN w.track = (DOMAIN data.track \ RowsOf(data, id)) \cup Block(id, k)
         /\ RowsOf(w, id) = Block(id, k)
         /\ \A i \in 0..(k - 1) : w.track[<<id, i>>] = tracks[i + 1]
         /\ \A row \in DOMAIN data.track \ RowsOf(data, id) : w.track[row] = data.track[row]
         /\ \A j : j # id => RowsOf(w, j) = RowsOf(data, j)
         /\ w.playlist = data.playlist /\ w.version = data.version /\ w.last = data.last
         /\ w.favourite = data.favourite /\ w.history = data.history
<1> DEFINE D == (DOMAIN data.track \ RowsOf(data, id)) \cup ({id} \X (0..(k - 1)))
           t == [row \in D |-> IF row[1] = id THEN tracks[row[2] + 1]
                               ELSE data.track[row]]
           w == WithTracks(data, id, tracks, k)
<1>1. w = [data EXCEPT !.track = t]
  BY DEF WithTracks
<1>2. id \in 1..data.last /\ data.last \in Nat /\ MaxRows \in Nat
  BY DataParts, BoundAssumption DEF Partial
<1>3. D \subseteq (1..data.last) \X (0..MaxRows)
  BY <1>2, DataParts DEF Partial
<1>4. \A row \in {id} \X (0..(k - 1)) : row[1] = id /\ row[2] + 1 \in 1..Len(tracks)
  OBVIOUS
<1>5. \A row \in DOMAIN data.track \ RowsOf(data, id) : row[1] # id
  BY DEF RowsOf
<1>6. /\ \A row \in {id} \X (0..(k - 1)) : t[row] = tracks[row[2] + 1]
      /\ \A row \in DOMAIN data.track \ RowsOf(data, id) : t[row] = data.track[row]
  BY <1>4, <1>5
<1>7. \A row \in D : t[row] \in Track
  <2>1. \A row \in DOMAIN data.track : data.track[row] \in Track
    BY DataParts DEF Partial
  <2>2. \A i \in 1..Len(tracks) : tracks[i] \in Track
    OBVIOUS
  <2> QED
    BY <1>4, <1>6, <2>1, <2>2
<1>8. Partial(t, (1..data.last) \X (0..MaxRows), Track)
  BY <1>3, <1>7 DEF Partial
<1>9. DOMAIN t = D
  OBVIOUS
<1>a. \A i \in 0..(k - 1) : t[<<id, i>>] = tracks[i + 1]
  BY <1>6
<1> HIDE DEF t, w
<1>b. w = [version |-> data.version, playlist |-> data.playlist, last |-> data.last,
           track |-> t, favourite |-> data.favourite, history |-> data.history]
  BY <1>1, TablesReplaced
<1>c. IsData(w)
  BY <1>8, <1>b, DataParts, DataMade
<1>d. /\ w.track = t /\ w.playlist = data.playlist /\ w.version = data.version
      /\ w.last = data.last /\ w.favourite = data.favourite /\ w.history = data.history
  BY <1>b
<1>e. RowsOf(w, id) = Block(id, k)
  BY <1>4, <1>5, <1>9, <1>d DEF RowsOf, Block
<1>f. \A j : j # id => RowsOf(w, j) = RowsOf(data, j)
  BY <1>4, <1>9, <1>d DEF RowsOf
<1> QED
  BY <1>6, <1>9, <1>a, <1>c, <1>d, <1>e, <1>f DEF w, Block

(* Before the first track is inserted the playlist has no rows.            *)
LEMMA WithTracksNone ==
  ASSUME NEW data, IsData(data), NEW id \in DOMAIN data.playlist,
         NEW tracks \in Seq(Track), Len(tracks) <= MaxRows
  PROVE  WithTracks(data, id, tracks, 0) = WithoutRows(data, id)
<1> DEFINE w == WithTracks(data, id, tracks, 0)
           x == WithoutRows(data, id)
<1>0. 0 \in 0..Len(tracks) /\ Block(id, 0) = {}
  BY DEF Block
<1>1. /\ IsData(w)
      /\ DOMAIN w.track = DOMAIN data.track \ RowsOf(data, id)
      /\ \A row \in DOMAIN data.track \ RowsOf(data, id) : w.track[row] = data.track[row]
      /\ w.playlist = data.playlist /\ w.version = data.version /\ w.last = data.last
      /\ w.favourite = data.favourite /\ w.history = data.history
  BY <1>0, WithTracksParts
<1>2. /\ IsData(x)
      /\ DOMAIN x.track = DOMAIN data.track \ RowsOf(data, id)
      /\ \A row \in DOMAIN data.track \ RowsOf(data, id) : x.track[row] = data.track[row]
      /\ x.playlist = data.playlist /\ x.version = data.version /\ x.last = data.last
      /\ x.favourite = data.favourite /\ x.history = data.history
  BY WithoutRowsParts
<1> HIDE DEF w, x
<1>3. w.track = x.track
  <2>1. /\ Partial(w.track, (1..data.last) \X (0..MaxRows), Track)
        /\ Partial(x.track, (1..data.last) \X (0..MaxRows), Track)
    BY <1>1, <1>2, DataParts
  <2>2. /\ DOMAIN w.track = DOMAIN x.track
        /\ \A row \in DOMAIN w.track : w.track[row] = x.track[row]
    BY <1>1, <1>2
  <2> QED
    BY <2>1, <2>2, PartialEqual
<1>4. w = x
  BY <1>1, <1>2, <1>3, DataEqual
<1> QED
  BY <1>4 DEF w, x

(* Inserting the next track: it gets the next position.                    *)
LEMMA WithTracksNext ==
  ASSUME NEW data, IsData(data), NEW id \in DOMAIN data.playlist,
         NEW tracks \in Seq(Track), Len(tracks) <= MaxRows,
         NEW k \in 0..(Len(tracks) - 1)
  PROVE  LET w == WithTracks(data, id, tracks, k) IN
         /\ Cardinality(RowsOf(w, id)) = k
         /\ [w EXCEPT !.track = Put(@, <<id, k>>, tracks[k + 1])] =
              WithTracks(data, id, tracks, k + 1)
<1> DEFINE w == WithTracks(data, id, tracks, k)
           x == WithTracks(data, id, tracks, k + 1)
           t == Put(w.track, <<id, k>>, tracks[k + 1])
           y == [w EXCEPT !.track = t]
<1>0. /\ k \in 0..Len(tracks) /\ k + 1 \in 0..Len(tracks) /\ k \in Nat
      /\ tracks[k + 1] \in Track
  OBVIOUS
<1>1. /\ IsData(w)
      /\ DOMAIN w.track = (DOMAIN data.track \ RowsOf(data, id)) \cup Block(id, k)
      /\ RowsOf(w, id) = Block(id, k)
      /\ \A i \in 0..(k - 1) : w.track[<<id, i>>] = tracks[i + 1]
      /\ \A row \in DOMAIN data.track \ RowsOf(data, id) : w.track[row] = data.track[row]
      /\ w.playlist = data.playlist /\ w.version = data.version /\ w.last = data.last
      /\ w.favourite = data.favourite /\ w.history = data.history
  BY <1>0, WithTracksParts
<1>2. /\ IsData(x)
      /\ DOMAIN x.track = (DOMAIN data.track \ RowsOf(data, id)) \cup Block(id, k + 1)
      /\ \A i \in 0..k : x.track[<<id, i>>] = tracks[i + 1]
      /\ \A row \in DOMAIN data.track \ RowsOf(data, id) : x.track[row] = data.track[row]
      /\ x.playlist = data.playlist /\ x.version = data.version /\ x.last = data.last
      /\ x.favourite = data.favourite /\ x.history = data.history
  <2>1. (k + 1) - 1 = k
    BY <1>0
  <2>2. /\ IsData(x)
        /\ DOMAIN x.track = (DOMAIN data.track \ RowsOf(data, id)) \cup Block(id, k + 1)
        /\ \A i \in 0..((k + 1) - 1) : x.track[<<id, i>>] = tracks[i + 1]
        /\ \A row \in DOMAIN data.track \ RowsOf(data, id) : x.track[row] = data.track[row]
        /\ x.playlist = data.playlist /\ x.version = data.version /\ x.last = data.last
        /\ x.favourite = data.favourite /\ x.history = data.history
    BY <1>0, WithTracksParts
  <2> QED
    BY <2>1, <2>2
<1> HIDE DEF w, x
<1>3. Cardinality(RowsOf(w, id)) = k
  BY <1>0, <1>1, BlockCount
<1>4. Block(id, k + 1) = Block(id, k) \cup {<<id, k>>}
  BY <1>0 DEF Block
<1>5. /\ DOMAIN t = DOMAIN x.track
      /\ t[<<id, k>>] = tracks[k + 1]
      /\ \A row \in DOMAIN w.track \ {<<id, k>>} : t[row] = w.track[row]
  <2>1. /\ DOMAIN t = DOMAIN w.track \cup {<<id, k>>}
        /\ t[<<id, k>>] = tracks[k + 1]
        /\ \A row \in DOMAIN w.track \ {<<id, k>>} : t[row] = w.track[row]
    BY DEF Put
  <2> QED
    BY <1>1, <1>2, <1>4, <2>1
<1>6. <<id, k>> \in (1..data.last) \X (0..MaxRows)
  BY <1>0, DataParts, BoundAssumption DEF Partial
<1>7. Partial(t, (1..data.last) \X (0..MaxRows), Track)
  <2>1. Partial(w.track, (1..data.last) \X (0..MaxRows), Track)
    BY <1>1, DataParts
  <2> QED
    BY <1>0, <1>6, <2>1, PutType
<1> HIDE DEF t
<1>8. \A row \in DOMAIN t : t[row] = x.track[row]
  <2> SUFFICES ASSUME NEW row \in DOMAIN t
               PROVE  t[row] = x.track[row]
    OBVIOUS
  <2>1. CASE row = <<id, k>>
    <3>1. k \in 0..k
      BY <1>0
    <3> QED
      BY <1>2, <1>5, <2>1, <3>1
  <2>2. CASE row # <<id, k>> /\ row \in DOMAIN data.track \ RowsOf(data, id)
    BY <1>1, <1>2, <1>5, <2>2
  <2>3. CASE row # <<id, k>> /\ row \in Block(id, k)
    <3>1. PICK i \in 0..(k - 1) : row = <<id, i>>
      BY <2>3 DEF Block
    <3>2. i \in 0..k /\ row \in DOMAIN w.track \ {<<id, k>>}
      BY <1>0, <1>1, <2>3
    <3> QED
      BY <1>1, <1>2, <1>5, <3>1, <3>2
  <2> QED
    BY <1>2, <1>4, <1>5, <2>1, <2>2, <2>3
<1>9. t = x.track
  <2>1. Partial(x.track, (1..data.last) \X (0..MaxRows), Track)
    BY <1>2, DataParts
  <2> QED
    BY <1>5, <1>7, <1>8, <2>1, PartialEqual
<1>a. y = [version |-> w.version, playlist |-> w.playlist, last |-> w.last,
           track |-> t, favourite |-> w.favourite, history |-> w.history]
  BY <1>1, TablesReplaced
<1>b. y = x
  <2>1. x = [version |-> x.version, playlist |-> x.playlist, last |-> x.last,
             track |-> x.track, favourite |-> x.favourite, history |-> x.history]
    BY <1>2, DataParts
  <2> QED
    BY <1>1, <1>2, <1>9, <1>a, <2>1
<1> QED
  BY <1>3, <1>b DEF w, x, t

-----------------------------------------------------------------------------
(***************************************************************************)
(* The inductive invariant.                                                *)
(***************************************************************************)

Stages == {"none", "check", "insert", "begin", "delete", "rows", "touch", "drop", "commit"}

(* No call is under way.                                                   *)
LEMMA NoCallParts ==
  /\ NoCall \in Calls /\ NoCall.op = "none" /\ NoCall.at = "none"
  /\ NoCall.id = 0 /\ NoCall.tracks = <<>>
BY BoundAssumption DEF NoCall, Calls

(* A call goes on to its next statement.                                   *)
LEMMA GotoParts ==
  ASSUME call \in Calls, NEW at \in Stages, Goto(at)
  PROVE  /\ call' \in Calls /\ call'.op = call.op /\ call'.at = at
         /\ call'.id = call.id /\ call'.tracks = call.tracks /\ reply' = reply
BY DEF Goto, Calls, Stages

(* The empty database, and the ids a database can give to playlists.       *)
LEMMA NoDataParts ==
  IsData(NoData) /\ DOMAIN NoData.track = {} /\ DOMAIN NoData.playlist = {}
<1>1. IsData([NoData EXCEPT !.version = 0])
  BY NoDataType
<1>2. [NoData EXCEPT !.version = 0] = NoData
  BY DEF NoData
<1> QED
  BY <1>1, <1>2 DEF NoData

(* Every playlist has an id the types allow.                               *)
LEMMA PlaylistIdType ==
  ASSUME NEW data, IsData(data)
  PROVE  DOMAIN data.playlist \subseteq 1..MaxPlaylists
BY DataParts, BoundAssumption DEF Partial

(* Initially nothing is stored.                                            *)
LEMMA InitInv == Init => UserInv
<1> SUFFICES ASSUME Init
             PROVE  UserInv
  OBVIOUS
<1>1. PICK version \in {0, 1, 2} : db = [NoData EXCEPT !.version = version]
  BY DEF Init
<1>2. /\ DOMAIN db.track = {} /\ DOMAIN db.playlist = {}
      /\ DOMAIN db.favourite = {} /\ DOMAIN db.history = {}
  BY <1>1 DEF NoData
<1>3. TypeOK
  <2>1. IsData(db)
    BY <1>1, NoDataType
  <2>2. /\ work = NoData /\ inside = FALSE /\ phase = "down" /\ call = NoCall
        /\ reply = "none" /\ clock = 1 /\ present = {} /\ served = {}
    BY DEF Init
  <2>3. 1 \in 1..MaxTime
    BY BoundAssumption
  <2> QED
    BY <2>1, <2>2, <2>3, NoDataParts, NoCallParts DEF TypeOK
<1>4. StagesInv /\ WorkInv
  BY NoCallParts DEF Init, StagesInv, WorkInv
<1>5. RowsInv
  BY <1>2 DEF RowsInv
<1>6. ServedInv
  BY <1>2, NoCallParts DEF Init, ServedInv, Range
<1> QED
  BY <1>3, <1>4, <1>5, <1>6 DEF UserInv

(* What the store does is not disturbed by the clock and the scan worker.  *)
LEMMA QuietStep ==
  ASSUME UserInv, UNCHANGED <<db, work, inside, phase, call, reply>>,
         clock' \in 1..MaxTime, served \subseteq served', served' \subseteq Track,
         present' \subseteq served'
  PROVE  UserInv'
<1>1. TypeOK'
  BY DEF UserInv, TypeOK
<1>2. StagesInv'
  BY DEF UserInv, StagesInv
<1>3. WorkInv'
  BY DEF UserInv, WorkInv
<1>4. RowsInv'
  BY DEF UserInv, RowsInv
<1>5. ServedInv'
  BY DEF UserInv, ServedInv
<1> QED
  BY <1>1, <1>2, <1>3, <1>4, <1>5 DEF UserInv

(* A new catalogue is served.                                              *)
LEMMA SwapParts ==
  ASSUME UserInv, SwapCatalog
  PROVE  /\ clock' \in 1..MaxTime /\ served \subseteq served'
         /\ served' \subseteq Track /\ present' \subseteq served'
BY DEF UserInv, TypeOK, SwapCatalog

(* The process starts, is refused or dies.                                 *)
LEMMA LifeStep ==
  ASSUME UserInv, Open \/ Refuse \/ Die
  PROVE  UserInv'
<1> USE DEF UserInv
<1>1. CASE Open
  <2>1. call = NoCall /\ phase' = "up" /\ UNCHANGED <<work, inside, call, reply>>
    BY <1>1 DEF Open, StagesInv
  <2>2. /\ clock' \in 1..MaxTime /\ served \subseteq served'
        /\ served' \subseteq Track /\ present' \subseteq served'
    BY <1>1, SwapParts DEF Open
  <2>3. IsData(db)
    BY DEF TypeOK
  <2>4. db = [version |-> db.version, playlist |-> db.playlist, last |-> db.last,
              track |-> db.track, favourite |-> db.favourite, history |-> db.history]
    BY <2>3, DataParts
  <2>5. db' = [version |-> 1, playlist |-> db.playlist, last |-> db.last,
               track |-> db.track, favourite |-> db.favourite, history |-> db.history]
    BY <1>1, <2>4 DEF Open
  <2>6. IsData(db')
    <3>0. 1 \in 0..2
      OBVIOUS
    <3>1. /\ db.last \in 0..MaxPlaylists /\ db.history \in Seq(Play)
          /\ Partial(db.playlist, 1..db.last, Name)
          /\ Partial(db.track, (1..db.last) \X (0..MaxRows), Track)
          /\ Partial(db.favourite, Track, 1..MaxTime)
      BY <2>3, DataParts
    <3> QED
      BY <2>5, <3>0, <3>1, DataMade
  <2>7. /\ db'.playlist = db.playlist /\ db'.track = db.track
        /\ db'.favourite = db.favourite /\ db'.history = db.history
    BY <2>5
  <2>8. TypeOK'
    BY <2>1, <2>2, <2>6 DEF TypeOK
  <2>9. StagesInv' /\ WorkInv'
    BY <2>1, NoCallParts DEF StagesInv, WorkInv
  <2>10. RowsInv'
    BY <2>7 DEF RowsInv, RowsOf
  <2>11. ServedInv'
    BY <2>1, <2>2, <2>7, NoCallParts DEF ServedInv
  <2> QED
    BY <2>8, <2>9, <2>10, <2>11
<1>2. CASE Refuse
  <2>1. TypeOK'
    BY <1>2 DEF Refuse, outside, TypeOK
  <2>2. StagesInv'
    BY <1>2 DEF Refuse, StagesInv
  <2>3. WorkInv'
    BY <1>2 DEF Refuse, WorkInv
  <2>4. RowsInv'
    BY <1>2 DEF Refuse, RowsInv
  <2>5. ServedInv'
    BY <1>2 DEF Refuse, outside, ServedInv
  <2> QED
    BY <2>1, <2>2, <2>3, <2>4, <2>5
<1>3. CASE Die
  <2>1. TypeOK'
    BY <1>3, NoDataParts, NoCallParts DEF Die, TypeOK
  <2>2. StagesInv' /\ WorkInv'
    BY <1>3, NoCallParts DEF Die, StagesInv, WorkInv
  <2>3. RowsInv'
    BY <1>3 DEF Die, RowsInv
  <2>4. ServedInv'
    BY <1>3, NoCallParts DEF Die, ServedInv
  <2> QED
    BY <2>1, <2>2, <2>3, <2>4
<1> QED
  BY <1>1, <1>2, <1>3

(* A handler of one statement leaves what a call would find.               *)
LEMMA IdleStep ==
  ASSUME UserInv, Idle, UNCHANGED <<work, inside, phase, call, outside>>,
         reply' \in {"none", "ok", "error"}, IsData(db'), RowsInv',
         Range(db'.track) \cup DOMAIN db'.favourite \subseteq served,
         \A i \in DOMAIN db'.history : db'.history[i].track \in served
  PROVE  UserInv'
<1>1. TypeOK'
  BY DEF UserInv, TypeOK, outside
<1>2. StagesInv' /\ WorkInv'
  BY NoCallParts DEF Idle, UserInv, StagesInv, WorkInv
<1>3. ServedInv'
  BY NoCallParts DEF Idle, UserInv, ServedInv, outside
<1> QED
  BY <1>1, <1>2, <1>3 DEF UserInv

(* An id that AUTOINCREMENT gives is the highest.                          *)
LEMMA NextIsMax ==
  ASSUME IsData(db)
  PROVE  Max({db.last, NextPlaylistId}) = db.last + 1
<1>1. db.last \in Nat
  BY DataParts
<1>2. \A m \in {db.last, db.last + 1} :
        (\A n \in {db.last, db.last + 1} : m >= n) <=> m = db.last + 1
  BY <1>1
<1> QED
  BY <1>2 DEF Max, NextPlaylistId

(* What creating a playlist makes of the database.                         *)
LEMMA CreateParts ==
  ASSUME IsData(db), NEW name \in Name, NextPlaylistId <= MaxPlaylists,
         db' = [db EXCEPT !.playlist = Put(@, NextPlaylistId, name),
                          !.last = Max({@, NextPlaylistId})]
  PROVE  /\ db' = [version |-> db.version,
                   playlist |-> Put(db.playlist, NextPlaylistId, name),
                   last |-> NextPlaylistId, track |-> db.track,
                   favourite |-> db.favourite, history |-> db.history]
         /\ IsData(db')
<1> DEFINE p == Put(db.playlist, NextPlaylistId, name)
<1>1. db = [version |-> db.version, playlist |-> db.playlist, last |-> db.last,
            track |-> db.track, favourite |-> db.favourite, history |-> db.history]
  BY DataParts
<1>2. \A v, q, l, t, fav, h, q1, l1 :
        /\ [[version |-> v, playlist |-> q, last |-> l,
             track |-> t, favourite |-> fav, history |-> h] EXCEPT !.playlist = q1] =
             [version |-> v, playlist |-> q1, last |-> l,
              track |-> t, favourite |-> fav, history |-> h]
        /\ [[version |-> v, playlist |-> q, last |-> l,
             track |-> t, favourite |-> fav, history |-> h] EXCEPT !.last = l1] =
             [version |-> v, playlist |-> q, last |-> l1,
              track |-> t, favourite |-> fav, history |-> h]
  OBVIOUS
<1>2a. \A r, q1, l1 : [r EXCEPT !.playlist = q1, !.last = l1] =
                        [[r EXCEPT !.playlist = q1] EXCEPT !.last = l1]
  OBVIOUS
<1>3. db' = [db EXCEPT !.playlist = p, !.last = NextPlaylistId]
  BY NextIsMax DEF NextPlaylistId
<1> HIDE DEF p
<1>4. db' = [version |-> db.version, playlist |-> p, last |-> NextPlaylistId,
             track |-> db.track, favourite |-> db.favourite, history |-> db.history]
  BY <1>1, <1>2, <1>2a, <1>3
<1>5. /\ db.version \in 0..2 /\ db.last \in Nat /\ db.history \in Seq(Play)
      /\ Partial(db.playlist, 1..db.last, Name)
      /\ Partial(db.track, (1..db.last) \X (0..MaxRows), Track)
      /\ Partial(db.favourite, Track, 1..MaxTime)
  BY DataParts
<1>6. NextPlaylistId \in 0..MaxPlaylists
  BY <1>5, BoundAssumption DEF NextPlaylistId
<1>7. /\ Partial(db.playlist, 1..NextPlaylistId, Name)
      /\ Partial(db.track, (1..NextPlaylistId) \X (0..MaxRows), Track)
  <2>1. 1..db.last \subseteq 1..NextPlaylistId
    BY <1>5 DEF NextPlaylistId
  <2>2. (1..db.last) \X (0..MaxRows) \subseteq (1..NextPlaylistId) \X (0..MaxRows)
    BY <2>1
  <2> QED
    BY <1>5, <2>1, <2>2 DEF Partial
<1>8. Partial(p, 1..NextPlaylistId, Name)
  <2>1. NextPlaylistId \in 1..NextPlaylistId
    BY <1>5 DEF NextPlaylistId
  <2> QED
    BY <1>7, <2>1, PutType DEF p
<1>9. IsData(db')
  <2>1. IsData([version |-> db.version, playlist |-> p, last |-> NextPlaylistId,
                track |-> db.track, favourite |-> db.favourite,
                history |-> db.history])
    BY <1>5, <1>6, <1>7, <1>8, DataMade
  <2> QED
    BY <1>4, <2>1
<1> QED
  BY <1>4, <1>9 DEF p

(* A playlist is created.                                                  *)
LEMMA CreateStep ==
  ASSUME UserInv, NEW name \in Name, Create(name)
  PROVE  UserInv'
<1>1. IsData(db) /\ Idle /\ UNCHANGED <<work, inside, phase, call, outside>>
  BY DEF UserInv, TypeOK, Create
<1>2. CASE Failed
  BY <1>1, <1>2, IdleStep DEF Failed, UserInv, RowsInv, ServedInv
<1>3. CASE ~Failed
  <2>1. /\ db' = [version |-> db.version,
                  playlist |-> Put(db.playlist, NextPlaylistId, name),
                  last |-> NextPlaylistId, track |-> db.track,
                  favourite |-> db.favourite, history |-> db.history]
        /\ IsData(db') /\ reply' \in {"ok", "error"}
    BY <1>1, <1>3, CreateParts DEF Create, Answered
  <2>2. /\ db'.track = db.track /\ db'.favourite = db.favourite
        /\ db'.history = db.history
        /\ DOMAIN db'.playlist = DOMAIN db.playlist \cup {NextPlaylistId}
    BY <2>1, PutParts
  <2>3. RowsInv'
    <3>1. \A row \in DOMAIN db'.track : row[1] \in DOMAIN db'.playlist
      BY <2>2 DEF UserInv, RowsInv
    <3>2. RowsOf(db', NextPlaylistId) = {NextPlaylistId} \X (0..(0 - 1))
      <4>1. NextPlaylistId \notin DOMAIN db.playlist
        BY <1>1, DataParts DEF NextPlaylistId, Partial
      <4>2. \A row \in DOMAIN db.track : row[1] # NextPlaylistId
        BY <4>1 DEF UserInv, RowsInv
      <4> QED
        BY <2>2, <4>2 DEF RowsOf
    <3>3. \A id \in DOMAIN db.playlist : RowsOf(db', id) = RowsOf(db, id)
      BY <2>2 DEF RowsOf
    <3>4. \A id \in DOMAIN db'.playlist :
            \E n \in 0..MaxRows : RowsOf(db', id) = {id} \X (0..(n - 1))
      BY <2>2, <3>2, <3>3, BoundAssumption DEF UserInv, RowsInv
    <3> QED
      BY <3>1, <3>4 DEF RowsInv
  <2> QED
    BY <1>1, <2>1, <2>2, <2>3, IdleStep DEF UserInv, ServedInv
<1> QED
  BY <1>2, <1>3

(* A playlist is renamed.                                                  *)
LEMMA RenameStep ==
  ASSUME UserInv, NEW id, NEW name \in Name, Rename(id, name)
  PROVE  UserInv'
<1>1. IsData(db) /\ Idle /\ UNCHANGED <<work, inside, phase, call, outside>>
  BY DEF UserInv, TypeOK, Rename
<1>2. CASE Failed
  BY <1>1, <1>2, IdleStep DEF Failed, UserInv, RowsInv, ServedInv
<1>3. CASE ~Failed
  <2> DEFINE p == [db.playlist EXCEPT ![id] = name]
  <2>1. /\ id \in DOMAIN db.playlist /\ db' = [db EXCEPT !.playlist = p]
        /\ reply' \in {"ok", "error"}
    BY <1>3 DEF Rename, Answered
  <2>2. DOMAIN p = DOMAIN db.playlist /\ Partial(p, 1..db.last, Name)
    BY <1>1, DataParts DEF Partial
  <2> HIDE DEF p
  <2>3. db' = [version |-> db.version, playlist |-> p, last |-> db.last,
               track |-> db.track, favourite |-> db.favourite, history |-> db.history]
    BY <1>1, <2>1, TablesReplaced
  <2>4. IsData(db')
    BY <1>1, <2>2, <2>3, DataParts, DataMade
  <2>5. /\ db'.track = db.track /\ db'.favourite = db.favourite
        /\ db'.history = db.history /\ DOMAIN db'.playlist = DOMAIN db.playlist
    BY <2>2, <2>3
  <2>6. RowsInv'
    BY <2>5 DEF UserInv, RowsInv, RowsOf
  <2> QED
    BY <1>1, <2>1, <2>4, <2>5, <2>6, IdleStep DEF UserInv, ServedInv
<1> QED
  BY <1>2, <1>3

(* A favourite is taken away.                                              *)
LEMMA UnfavouriteStep ==
  ASSUME UserInv, NEW track, Unfavourite(track)
  PROVE  UserInv'
<1>1. IsData(db) /\ Idle /\ UNCHANGED <<work, inside, phase, call, outside>>
  BY DEF UserInv, TypeOK, Unfavourite
<1>2. CASE Failed
  BY <1>1, <1>2, IdleStep DEF Failed, UserInv, RowsInv, ServedInv
<1>3. CASE ~Failed
  <2> DEFINE f == Restrict(db.favourite, DOMAIN db.favourite \ {track})
  <2>1. db' = [db EXCEPT !.favourite = f] /\ reply' = "ok"
    BY <1>3 DEF Unfavourite
  <2>2. Partial(f, Track, 1..MaxTime) /\ DOMAIN f \subseteq DOMAIN db.favourite
    <3>1. DOMAIN db.favourite \ {track} \subseteq DOMAIN db.favourite
      OBVIOUS
    <3>2. Partial(db.favourite, Track, 1..MaxTime)
      BY <1>1, DataParts
    <3> QED
      BY <3>1, <3>2, RestrictParts
  <2> HIDE DEF f
  <2>3. db' = [version |-> db.version, playlist |-> db.playlist, last |-> db.last,
               track |-> db.track, favourite |-> f, history |-> db.history]
    BY <1>1, <2>1, TablesReplaced
  <2>4. IsData(db')
    BY <1>1, <2>2, <2>3, DataParts, DataMade
  <2>5. /\ db'.track = db.track /\ db'.playlist = db.playlist
        /\ db'.history = db.history /\ DOMAIN db'.favourite \subseteq DOMAIN db.favourite
    BY <2>2, <2>3
  <2>6. RowsInv'
    BY <2>5 DEF UserInv, RowsInv, RowsOf
  <2> QED
    BY <1>1, <2>1, <2>4, <2>5, <2>6, IdleStep DEF UserInv, ServedInv
<1> QED
  BY <1>2, <1>3

(* A call begins.                                                          *)
LEMMA RequestStep ==
  ASSUME UserInv, NEW op \in {"set", "delete", "favourite", "play"},
         NEW at \in {"check", "begin"}, NEW id \in 0..MaxPlaylists,
         NEW tracks \in Seq(Track), Request(op, at, id, tracks),
         at = "check" <=> op # "delete",
         op \in {"favourite", "play"} => Len(tracks) = 1,
         op = "set" => id \in DOMAIN db.playlist /\ Len(tracks) <= MaxRows,
         at = "begin" => tracks = <<>>
  PROVE  UserInv'
<1>1. /\ call = NoCall /\ phase = "up" /\ reply' = "none"
      /\ UNCHANGED <<db, work, inside, phase, clock, present, served>>
  BY DEF Request, Idle, outside
<1>2. /\ call' \in Calls /\ call'.op = op /\ call'.at = at /\ call'.id = id
      /\ call'.tracks = tracks
  BY DEF Request, Calls
<1>3. TypeOK'
  BY <1>1, <1>2 DEF UserInv, TypeOK
<1>4. StagesInv'
  BY <1>1, <1>2 DEF StagesInv
<1>5. WorkInv'
  BY <1>1, <1>2, NoCallParts DEF UserInv, WorkInv
<1>6. RowsInv'
  BY <1>1 DEF UserInv, RowsInv
<1>7. ServedInv'
  BY <1>1, <1>2 DEF UserInv, ServedInv, Range
<1> QED
  BY <1>3, <1>4, <1>5, <1>6, <1>7 DEF UserInv

(* A call ends, whatever was in its transaction.                           *)
LEMMA AnswerStep ==
  ASSUME UserInv, NEW result \in {"ok", "error"}, Answer(result),
         work' = NoData, inside' = FALSE, UNCHANGED <<phase, outside>>,
         IsData(db'), RowsInv',
         Range(db'.track) \cup DOMAIN db'.favourite \subseteq served,
         \A i \in DOMAIN db'.history : db'.history[i].track \in served
  PROVE  UserInv'
<1>1. TypeOK'
  BY NoDataParts, NoCallParts DEF UserInv, TypeOK, Answer, outside
<1>2. StagesInv' /\ WorkInv'
  BY NoCallParts DEF Answer, StagesInv, WorkInv
<1>3. ServedInv'
  BY NoCallParts DEF Answer, UserInv, ServedInv, outside
<1> QED
  BY <1>1, <1>2, <1>3 DEF UserInv

(* A statement of the transaction that leaves the database alone.          *)
LEMMA StatementStep ==
  ASSUME UserInv, NEW at \in Stages \ {"none", "check"}, Goto(at),
         call.at \notin {"none", "check"},
         UNCHANGED <<db, phase, outside>>, inside' \in BOOLEAN, IsData(work'),
         at \in {"rows", "touch"} => call.op = "set",
         at = "drop" => call.op = "delete",
         at \in {"begin", "delete", "commit"} => call.op \in {"set", "delete"},
         at # "insert",
         WorkInv'
  PROVE  UserInv'
<1>1. /\ call' \in Calls /\ call'.op = call.op /\ call'.at = at
      /\ call'.id = call.id /\ call'.tracks = call.tracks /\ reply' = reply
  BY GotoParts DEF UserInv, TypeOK
<1>2. TypeOK'
  BY <1>1 DEF UserInv, TypeOK, outside
<1>3. phase = "up"
  BY NoCallParts DEF UserInv, StagesInv
<1>4. StagesInv'
  BY <1>1, <1>3 DEF UserInv, StagesInv
<1>5. RowsInv'
  BY DEF UserInv, RowsInv
<1>6. ServedInv'
  BY <1>1 DEF UserInv, ServedInv, outside
<1> QED
  BY <1>2, <1>4, <1>5, <1>6 DEF UserInv

(* What a call to set tracks or to delete a playlist is about.             *)
LEMMA CallParts ==
  ASSUME UserInv
  PROVE  /\ IsData(db) /\ IsData(work) /\ call \in Calls /\ call.tracks \in Seq(Track)
         /\ call.op = "set" => /\ call.id \in DOMAIN db.playlist
                               /\ Len(call.tracks) <= MaxRows
BY DEF UserInv, TypeOK, StagesInv, Calls

(* The ids of the request are looked up.                                   *)
LEMMA CheckStep ==
  ASSUME UserInv, Check
  PROVE  UserInv'
<1>1. /\ call.at = "check" /\ call.op \in {"set", "favourite", "play"}
      /\ UNCHANGED <<db, work, inside, phase, clock, present, served>>
  BY DEF Check, UserInv, StagesInv, outside
<1>2. inside = FALSE /\ work = NoData
  BY <1>1 DEF UserInv, TypeOK, WorkInv
<1>3. CASE Valid
  <2> DEFINE at == IF call.op = "set" THEN "begin" ELSE "insert"
  <2>1. Goto(at) /\ at \in Stages
    BY <1>3 DEF Check, Stages
  <2>2. /\ call' \in Calls /\ call'.op = call.op /\ call'.at = at
        /\ call'.id = call.id /\ call'.tracks = call.tracks /\ reply' = reply
    BY <2>1, GotoParts DEF UserInv, TypeOK
  <2>3. TypeOK'
    BY <1>1, <2>2 DEF UserInv, TypeOK
  <2>4. phase = "up"
    BY <1>1, NoCallParts DEF UserInv, StagesInv
  <2>5. StagesInv'
    BY <1>1, <2>2, <2>4 DEF UserInv, StagesInv
  <2>6. WorkInv'
    BY <1>1, <1>2, <2>2 DEF WorkInv
  <2>7. RowsInv'
    BY <1>1 DEF UserInv, RowsInv
  <2>8. ServedInv'
    BY <1>1, <1>3, <2>2 DEF UserInv, ServedInv, Valid
  <2> QED
    BY <2>3, <2>5, <2>6, <2>7, <2>8 DEF UserInv
<1>4. CASE ~Valid
  <2>1. Answer("error")
    BY <1>4 DEF Check
  <2>2. RowsInv' /\ IsData(db')
    BY <1>1 DEF UserInv, RowsInv, TypeOK
  <2> QED
    BY <1>1, <1>2, <2>1, <2>2, AnswerStep DEF UserInv, ServedInv, outside
<1> QED
  BY <1>3, <1>4

(* A favourite or a play is recorded.                                      *)
LEMMA InsertParts ==
  ASSUME UserInv, Insert
  PROVE  /\ call.tracks[1] \in Track \cap served /\ Answer("ok")
         /\ inside = FALSE /\ work = NoData
         /\ UNCHANGED <<work, inside, phase, clock, present, served>>
         /\ call.op = "favourite" =>
              db' = [version |-> db.version, playlist |-> db.playlist, last |-> db.last,
                     track |-> db.track, history |-> db.history,
                     favourite |-> Put(db.favourite, call.tracks[1], clock)]
         /\ call.op = "play" =>
              db' = [version |-> db.version, playlist |-> db.playlist, last |-> db.last,
                     track |-> db.track, favourite |-> db.favourite,
                     history |-> Append(db.history,
                                        [track |-> call.tracks[1], played |-> clock])]
         /\ call.op \in {"favourite", "play"}
<1> DEFINE track == call.tracks[1]
           f == Put(db.favourite, track, clock)
           h == Append(db.history, [track |-> track, played |-> clock])
<1>1. /\ call.at = "insert" /\ call.op \in {"favourite", "play"}
      /\ call.tracks \in Seq(Track) /\ Len(call.tracks) = 1 /\ IsData(db)
  BY CallParts DEF Insert, UserInv, StagesInv
<1>2. inside = FALSE /\ work = NoData
  BY <1>1 DEF UserInv, TypeOK, WorkInv
<1>3. track \in Track /\ track \in Range(call.tracks) /\ Head(call.tracks) = track
  BY <1>1 DEF Range
<1>4. track \in served
  BY <1>1, <1>3 DEF UserInv, ServedInv
<1>5. /\ call.op = "favourite" => db' = [db EXCEPT !.favourite = f]
      /\ call.op = "play" => db' = [db EXCEPT !.history = h]
      /\ UNCHANGED <<work, inside, phase, clock, present, served>> /\ Answer("ok")
  BY <1>1, <1>2, <1>3 DEF Insert, Execute, Played, outside
<1> HIDE DEF f, h
<1>6. /\ call.op = "favourite" =>
           db' = [version |-> db.version, playlist |-> db.playlist, last |-> db.last,
                  track |-> db.track, history |-> db.history, favourite |-> f]
      /\ call.op = "play" =>
           db' = [version |-> db.version, playlist |-> db.playlist, last |-> db.last,
                  track |-> db.track, favourite |-> db.favourite, history |-> h]
  BY <1>1, <1>5, TablesReplaced, ZenonT(60)
<1> QED
  BY <1>1, <1>2, <1>3, <1>4, <1>5, <1>6 DEF f, h

(* The database then holds what it held and the track.                     *)
LEMMA InsertStep ==
  ASSUME UserInv, Insert
  PROVE  UserInv'
<1> DEFINE track == call.tracks[1]
           f == Put(db.favourite, track, clock)
           play == [track |-> track, played |-> clock]
           h == Append(db.history, play)
<1>1. /\ track \in Track /\ track \in served /\ Answer("ok")
      /\ inside = FALSE /\ work = NoData
      /\ UNCHANGED <<work, inside, phase, clock, present, served>>
      /\ call.op = "favourite" =>
           db' = [version |-> db.version, playlist |-> db.playlist, last |-> db.last,
                  track |-> db.track, history |-> db.history, favourite |-> f]
      /\ call.op = "play" =>
           db' = [version |-> db.version, playlist |-> db.playlist, last |-> db.last,
                  track |-> db.track, favourite |-> db.favourite, history |-> h]
      /\ call.op \in {"favourite", "play"}
  BY InsertParts
<1>2. /\ IsData(db) /\ clock \in 1..MaxTime
      /\ Range(db.track) \cup DOMAIN db.favourite \subseteq served
      /\ \A i \in DOMAIN db.history : db.history[i].track \in served
  BY DEF UserInv, TypeOK, ServedInv
<1>3. /\ db.version \in 0..2 /\ db.last \in 0..MaxPlaylists /\ db.history \in Seq(Play)
      /\ Partial(db.playlist, 1..db.last, Name)
      /\ Partial(db.track, (1..db.last) \X (0..MaxRows), Track)
      /\ Partial(db.favourite, Track, 1..MaxTime)
  BY <1>2, DataParts
<1>4. Partial(f, Track, 1..MaxTime) /\ DOMAIN f = DOMAIN db.favourite \cup {track}
  <2>1. Partial(f, Track, 1..MaxTime)
    BY <1>1, <1>2, <1>3, PutType
  <2>2. DOMAIN f = DOMAIN db.favourite \cup {track}
    BY DEF Put
  <2> QED
    BY <2>1, <2>2
<1>5. /\ h \in Seq(Play)
      /\ \A i \in DOMAIN h : h[i].track \in served
  <2>1. play \in Play /\ play.track = track
    BY <1>1, <1>2 DEF Play
  <2> HIDE DEF play
  <2>2. h \in Seq(Play) /\ Len(h) = Len(db.history) + 1
        /\ \A i \in 1..Len(db.history) : h[i] = db.history[i]
        /\ h[Len(db.history) + 1] = play
    BY <1>3, <2>1
  <2>3. DOMAIN h = 1..(Len(db.history) + 1) /\ DOMAIN db.history = 1..Len(db.history)
        /\ Len(db.history) \in Nat
    BY <1>3, <2>2
  <2>4. \A i \in DOMAIN h : i \in 1..Len(db.history) \/ i = Len(db.history) + 1
    BY <2>3
  <2> QED
    BY <1>1, <1>2, <2>1, <2>2, <2>3, <2>4
<1> HIDE DEF f, h
<1>6. CASE call.op = "favourite"
  <2>1. IsData(db')
    BY <1>1, <1>3, <1>4, <1>6, DataMade
  <2>2. /\ db'.track = db.track /\ db'.playlist = db.playlist
        /\ db'.history = db.history /\ db'.favourite = f
    BY <1>1, <1>6
  <2>3. RowsInv'
    BY <2>2 DEF UserInv, RowsInv, RowsOf
  <2> QED
    BY <1>1, <1>2, <1>4, <2>1, <2>2, <2>3, AnswerStep DEF outside
<1>7. CASE call.op = "play"
  <2>1. IsData(db')
    BY <1>1, <1>3, <1>5, <1>7, DataMade
  <2>2. /\ db'.track = db.track /\ db'.playlist = db.playlist
        /\ db'.history = h /\ db'.favourite = db.favourite
    BY <1>1, <1>7
  <2>3. RowsInv'
    BY <2>2 DEF UserInv, RowsInv, RowsOf
  <2> QED
    BY <1>1, <1>2, <1>5, <2>1, <2>2, <2>3, AnswerStep DEF outside
<1> QED
  BY <1>1, <1>6, <1>7

(* The transaction begins.                                                 *)
LEMMA BeginStep ==
  ASSUME UserInv, Begin
  PROVE  UserInv'
<1>1. /\ call.at = "begin" /\ Goto("delete") /\ inside' = TRUE /\ work' = db
      /\ UNCHANGED <<db, phase, outside>> /\ call.op \in {"set", "delete"}
  BY DEF Begin, Begins, UserInv, StagesInv
<1>2. /\ call'.op = call.op /\ call'.at = "delete" /\ call'.id = call.id
      /\ call'.tracks = call.tracks
  BY <1>1, CallParts, GotoParts DEF Stages
<1>3. WorkInv'
  BY <1>1, <1>2 DEF WorkInv
<1> QED
  BY <1>1, <1>3, CallParts, StatementStep DEF Stages

(* The rows of the playlist are deleted.                                   *)
LEMMA DeleteRowsStep ==
  ASSUME UserInv, DeleteRows
  PROVE  UserInv'
<1> DEFINE at == IF call.op = "delete" THEN "drop"
                 ELSE IF call.tracks = <<>> THEN "touch" ELSE "rows"
<1>1. /\ call.at = "delete" /\ inside = TRUE /\ work = db
      /\ call.op \in {"set", "delete"} /\ IsData(db) /\ call \in Calls
  BY CallParts DEF DeleteRows, UserInv, TypeOK, StagesInv, WorkInv
<1>2. /\ work' = WithoutRows(db, call.id) /\ Goto(at)
      /\ UNCHANGED <<db, inside, phase, outside>>
  BY <1>1 DEF DeleteRows, Execute, Data
<1>3. /\ at \in Stages \ {"none", "check", "insert"}
      /\ call.op = "delete" => at = "drop"
      /\ call.op = "set" => at = IF call.tracks = <<>> THEN "touch" ELSE "rows"
  <2>1. call.op = "delete" => at = "drop"
    OBVIOUS
  <2>2. call.op # "delete" /\ call.tracks = <<>> => at = "touch"
    OBVIOUS
  <2>3. call.op # "delete" /\ call.tracks # <<>> => at = "rows"
    OBVIOUS
  <2> HIDE DEF at
  <2> QED
    BY <1>1, <2>1, <2>2, <2>3 DEF Stages
<1>4. IsData(work')
  BY <1>1, <1>2, WithoutRowsParts
<1> HIDE DEF at
<1>5. /\ call'.op = call.op /\ call'.at = at /\ call'.id = call.id
      /\ call'.tracks = call.tracks
  BY <1>1, <1>2, <1>3, GotoParts
<1>6. WorkInv'
  <2>1. CASE call.op = "delete"
    BY <1>1, <1>2, <1>3, <1>5, <2>1 DEF WorkInv
  <2>2. CASE call.op = "set"
    <3>1. work' = WithTracks(db, call.id, call.tracks, 0)
      BY <1>1, <1>2, <2>2, CallParts, WithTracksNone
    <3>2. call.tracks = <<>> => Len(call.tracks) = 0
      OBVIOUS
    <3>3. call.tracks # <<>> => 0 \in 0..(Len(call.tracks) - 1)
      BY CallParts
    <3> QED
      BY <1>1, <1>2, <1>3, <1>5, <2>2, <3>1, <3>2, <3>3 DEF WorkInv
  <2> QED
    BY <1>1, <2>1, <2>2
<1>7. UNCHANGED <<db, phase, outside>> /\ inside' \in BOOLEAN
  BY <1>1, <1>2
<1> QED
  BY <1>1, <1>2, <1>3, <1>4, <1>6, <1>7, StatementStep

(* The next track of the list is inserted.                                 *)
LEMMA InsertRowStep ==
  ASSUME UserInv, InsertRow
  PROVE  UserInv'
<1>1. /\ call.at = "rows" /\ inside = TRUE /\ call.op = "set" /\ call \in Calls
      /\ IsData(db) /\ call.tracks \in Seq(Track) /\ call.id \in DOMAIN db.playlist
      /\ Len(call.tracks) <= MaxRows
  BY CallParts DEF InsertRow, UserInv, TypeOK, StagesInv, WorkInv
<1>2. PICK k \in 0..(Len(call.tracks) - 1) :
        work = WithTracks(db, call.id, call.tracks, k)
  BY <1>1 DEF UserInv, WorkInv
<1> DEFINE at == IF k + 1 = Len(call.tracks) THEN "touch" ELSE "rows"
<1>3. /\ Cardinality(RowsOf(work, call.id)) = k
      /\ [work EXCEPT !.track = Put(@, <<call.id, k>>, call.tracks[k + 1])] =
           WithTracks(db, call.id, call.tracks, k + 1)
  BY <1>1, <1>2, WithTracksNext
<1>4. /\ work' = WithTracks(db, call.id, call.tracks, k + 1) /\ Goto(at)
      /\ UNCHANGED <<db, inside, phase, outside>>
  BY <1>1, <1>3 DEF InsertRow, Execute, Data, Position
<1>5. k + 1 \in 0..Len(call.tracks)
  BY <1>1
<1>6. IsData(work')
  BY <1>1, <1>4, <1>5, WithTracksParts
<1>7. at \in Stages \ {"none", "check", "insert"} /\ at \in {"touch", "rows"}
  BY DEF Stages
<1>8. /\ at = "touch" => k + 1 = Len(call.tracks)
      /\ at = "rows" => k + 1 \in 0..(Len(call.tracks) - 1)
  BY <1>1
<1> HIDE DEF at
<1>9. /\ call'.op = call.op /\ call'.at = at /\ call'.id = call.id
      /\ call'.tracks = call.tracks
  BY <1>1, <1>4, <1>7, GotoParts
<1>10. WorkInv'
  <2>1. CASE at = "touch"
    BY <1>1, <1>4, <1>8, <1>9, <2>1 DEF WorkInv
  <2>2. CASE at = "rows"
    BY <1>1, <1>4, <1>8, <1>9, <2>2 DEF WorkInv
  <2> QED
    BY <1>7, <2>1, <2>2
<1>11. UNCHANGED <<db, phase, outside>> /\ inside' \in BOOLEAN
  BY <1>1, <1>4
<1> QED
  BY <1>1, <1>4, <1>6, <1>7, <1>10, <1>11, StatementStep

(* The playlist is touched.                                                *)
LEMMA TouchStep ==
  ASSUME UserInv, Touch
  PROVE  UserInv'
<1>1. /\ call.at = "touch" /\ call.op = "set" /\ inside = TRUE
      /\ Goto("commit") /\ UNCHANGED <<db, work, inside, phase, outside>>
      /\ work = WithTracks(db, call.id, call.tracks, Len(call.tracks))
      /\ IsData(work)
  BY CallParts DEF Touch, UserInv, TypeOK, StagesInv, WorkInv
<1>2. /\ call'.op = call.op /\ call'.at = "commit" /\ call'.id = call.id
      /\ call'.tracks = call.tracks
  BY <1>1, CallParts, GotoParts DEF Stages
<1>3. WorkInv'
  BY <1>1, <1>2 DEF WorkInv
<1>4. IsData(work') /\ inside' \in BOOLEAN
  BY <1>1
<1> QED
  BY <1>1, <1>3, <1>4, StatementStep DEF Stages

(* The playlist is deleted.                                                *)
LEMMA DropStep ==
  ASSUME UserInv, DropPlaylist
  PROVE  UserInv'
<1>1. /\ call.at = "drop" /\ call.op = "delete" /\ inside = TRUE /\ IsData(db)
      /\ work = WithoutRows(db, call.id) /\ Goto("commit")
      /\ work' = WithoutPlaylist(work, call.id) /\ call.id \in DOMAIN work.playlist
      /\ UNCHANGED <<db, inside, phase, outside>>
  BY CallParts DEF DropPlaylist, Execute, Data, UserInv, TypeOK, StagesInv, WorkInv
<1>2. /\ call'.op = call.op /\ call'.at = "commit" /\ call'.id = call.id
      /\ call'.tracks = call.tracks
  BY <1>1, CallParts, GotoParts DEF Stages
<1>3. work' = WithoutPlaylist(db, call.id)
  BY <1>1, WithoutRowsTwice DEF WithoutPlaylist
<1>4. call.id \in DOMAIN db.playlist
  BY <1>1, WithoutRowsParts
<1>5. WorkInv'
  BY <1>1, <1>2, <1>3, <1>4 DEF WorkInv
<1>6. IsData(work') /\ inside' \in BOOLEAN
  BY <1>1, <1>3, WithoutPlaylistParts
<1> QED
  BY <1>1, <1>5, <1>6, StatementStep DEF Stages

(* What a commit makes of the database.                                    *)
LEMMA CommitParts ==
  ASSUME UserInv, Commit
  PROVE  /\ call.op \in {"set", "delete"} /\ call.id \in DOMAIN db.playlist
         /\ Answer("ok")
         /\ call.op = "set" =>
              db' = WithTracks(db, call.id, call.tracks, Len(call.tracks))
         /\ call.op = "delete" => db' = WithoutPlaylist(db, call.id)
         /\ work' = NoData /\ inside' = FALSE /\ UNCHANGED <<phase, outside>>
         /\ Range(call.tracks) \subseteq served
BY DEF Commit, Data, UserInv, TypeOK, StagesInv, WorkInv, ServedInv

(* The transaction is committed.                                           *)
LEMMA CommitStep ==
  ASSUME UserInv, Commit
  PROVE  UserInv'
<1> DEFINE id == call.id
           n == Len(call.tracks)
<1>1. /\ IsData(db) /\ RowsInv /\ Range(db.track) \cup DOMAIN db.favourite \subseteq served
      /\ \A i \in DOMAIN db.history : db.history[i].track \in served
  BY DEF UserInv, TypeOK, ServedInv
<1>2. CASE call.op = "set"
  <2>1. /\ db' = WithTracks(db, id, call.tracks, n) /\ id \in DOMAIN db.playlist
        /\ call.tracks \in Seq(Track) /\ n <= MaxRows /\ Range(call.tracks) \subseteq served
    BY <1>2, CommitParts, CallParts
  <2>2. n \in 0..n
    BY <2>1
  <2>3. /\ IsData(db')
        /\ DOMAIN db'.track = (DOMAIN db.track \ RowsOf(db, id)) \cup Block(id, n)
        /\ RowsOf(db', id) = Block(id, n)
        /\ \A i \in 0..(n - 1) : db'.track[<<id, i>>] = call.tracks[i + 1]
        /\ \A row \in DOMAIN db.track \ RowsOf(db, id) : db'.track[row] = db.track[row]
        /\ \A j : j # id => RowsOf(db', j) = RowsOf(db, j)
        /\ db'.playlist = db.playlist
        /\ db'.favourite = db.favourite /\ db'.history = db.history
    BY <1>1, <2>1, <2>2, WithTracksParts
  <2> HIDE DEF id, n
  <2>4. RowsInv'
    <3>1. \A row \in DOMAIN db'.track : row[1] \in DOMAIN db'.playlist
      BY <1>1, <2>1, <2>3 DEF RowsInv, Block
    <3>2. \E m \in 0..MaxRows : RowsOf(db', id) = {id} \X (0..(m - 1))
      BY <2>1, <2>2, <2>3, BoundAssumption DEF Block, n
    <3>3. \A j \in DOMAIN db'.playlist :
            \E m \in 0..MaxRows : RowsOf(db', j) = {j} \X (0..(m - 1))
      BY <1>1, <2>3, <3>2 DEF RowsInv
    <3> QED
      BY <3>1, <3>3 DEF RowsInv
  <2>5. Range(db'.track) \subseteq served
    <3>1. \A i \in 0..(n - 1) : i + 1 \in DOMAIN call.tracks
      BY <2>1 DEF n
    <3>2. \A i \in 0..(n - 1) : db'.track[<<id, i>>] \in served
      BY <2>1, <2>3, <3>1 DEF Range
    <3>3. \A row \in DOMAIN db.track \ RowsOf(db, id) : db'.track[row] \in served
      BY <1>1, <2>3 DEF Range
    <3> QED
      BY <2>3, <3>2, <3>3 DEF Range, Block
  <2> QED
    BY <1>1, <2>3, <2>4, <2>5, CommitParts, AnswerStep
<1>3. CASE call.op = "delete"
  <2>1. db' = WithoutPlaylist(db, id)
    BY <1>3, CommitParts
  <2>2. /\ IsData(db') /\ db'.track = WithoutRows(db, id).track
        /\ DOMAIN db'.playlist = DOMAIN db.playlist \ {id}
        /\ db'.favourite = db.favourite /\ db'.history = db.history
    BY <1>1, <2>1, WithoutPlaylistParts
  <2>3. /\ DOMAIN db'.track = DOMAIN db.track \ RowsOf(db, id)
        /\ \A row \in DOMAIN db.track \ RowsOf(db, id) : db'.track[row] = db.track[row]
    <3>1. LET w == WithoutRows(db, id) IN
          /\ DOMAIN w.track = DOMAIN db.track \ RowsOf(db, id)
          /\ \A row \in DOMAIN db.track \ RowsOf(db, id) : w.track[row] = db.track[row]
      BY <1>1, WithoutRowsParts
    <3> QED
      BY <2>2, <3>1
  <2> HIDE DEF id
  <2>4. RowsInv'
    <3>1. \A j : j # id => RowsOf(db', j) = RowsOf(db, j)
      BY <2>3 DEF RowsOf
    <3> QED
      BY <1>1, <2>2, <2>3, <3>1 DEF RowsInv, RowsOf
  <2>5. Range(db'.track) \subseteq served
    BY <1>1, <2>3 DEF Range
  <2> QED
    BY <1>1, <2>2, <2>4, <2>5, CommitParts, AnswerStep
<1> QED
  BY <1>2, <1>3, CommitParts

(* A statement fails.                                                      *)
LEMMA FailStep ==
  ASSUME UserInv, Fail
  PROVE  UserInv'
<1>1. /\ IsData(db') /\ RowsInv' /\ Answer("error") /\ work' = NoData
      /\ inside' = FALSE /\ UNCHANGED <<db, phase, outside>>
  BY DEF Fail, UserInv, RowsInv, TypeOK
<1> QED
  BY <1>1, AnswerStep DEF UserInv, ServedInv

(* A request that begins a call.                                           *)
LEMMA RequestsStep ==
  ASSUME UserInv,
         \/ \E id \in 1..MaxPlaylists :
              Delete(id) \/ \E tracks \in BoundedSeq(Track, MaxRows) : PutTracks(id, tracks)
         \/ \E track \in Track : PutFavourite(track) \/ PostPlay(track)
  PROVE  UserInv'
<1>1. ASSUME NEW id \in 1..MaxPlaylists, Delete(id)
      PROVE  UserInv'
  <2>1. Request("delete", "begin", id, <<>>) /\ id \in 0..MaxPlaylists
    BY <1>1, BoundAssumption DEF Delete
  <2>2. <<>> \in Seq(Track)
    OBVIOUS
  <2> QED
    BY <2>1, <2>2, RequestStep
<1>2. ASSUME NEW id \in 1..MaxPlaylists, NEW tracks \in BoundedSeq(Track, MaxRows),
             PutTracks(id, tracks)
      PROVE  UserInv'
  <2>1. /\ Request("set", "check", id, tracks) /\ id \in 0..MaxPlaylists
        /\ id \in DOMAIN db.playlist
    BY <1>2, BoundAssumption DEF PutTracks
  <2>2. tracks \in Seq(Track) /\ Len(tracks) <= MaxRows
    <3>1. PICK m \in 0..MaxRows : tracks \in [1..m -> Track]
      BY DEF BoundedSeq, SeqOf
    <3> QED
      BY <3>1, BoundAssumption
  <2> QED
    BY <2>1, <2>2, RequestStep
<1>3. ASSUME NEW track \in Track, PutFavourite(track) \/ PostPlay(track)
      PROVE  UserInv'
  <2>1. \/ Request("favourite", "check", 0, <<track>>)
        \/ Request("play", "check", 0, <<track>>)
    BY <1>3 DEF PutFavourite, PostPlay
  <2>2. <<track>> \in Seq(Track) /\ Len(<<track>>) = 1 /\ 0 \in 0..MaxPlaylists
    BY BoundAssumption
  <2> QED
    BY <2>1, <2>2, RequestStep
<1> QED
  BY <1>1, <1>2, <1>3

(* What a step may be.                                                     *)
LEMMA NextActions ==
  ASSUME Next
  PROVE  \/ Tick \/ Rescan \/ Open \/ Refuse \/ Die
         \/ \E name \in Name : Create(name)
         \/ \E name \in Name, id \in 1..MaxPlaylists : Rename(id, name)
         \/ \E track \in Track : Unfavourite(track)
         \/ \E id \in 1..MaxPlaylists :
              Delete(id) \/ \E tracks \in BoundedSeq(Track, MaxRows) : PutTracks(id, tracks)
         \/ \E track \in Track : PutFavourite(track) \/ PostPlay(track)
         \/ Check \/ Insert \/ Begin \/ DeleteRows \/ InsertRow \/ Touch
         \/ DropPlaylist \/ Commit \/ Fail
BY DEF Next, Environment, RequestAny, Handle

(* Every step keeps the invariant.                                         *)
LEMMA UserStep == UserInv /\ [Next]_vars => UserInv'
<1> SUFFICES ASSUME UserInv, [Next]_vars
             PROVE  UserInv'
  OBVIOUS
<1>1. CASE UNCHANGED vars
  BY <1>1, QuietStep DEF vars, UserInv, TypeOK, ServedInv
<1>2. CASE Tick
  <2>1. /\ UNCHANGED <<db, work, inside, phase, call, reply, present, served>>
        /\ clock \in 1..MaxTime /\ clock < MaxTime /\ clock' = clock + 1
        /\ served \subseteq Track /\ present \subseteq served
    BY <1>2 DEF Tick, UserInv, TypeOK, ServedInv
  <2>2. clock' \in 1..MaxTime
    BY <2>1, BoundAssumption
  <2> QED
    BY <2>1, <2>2, QuietStep
<1>3. CASE Rescan
  BY <1>3, QuietStep, SwapParts DEF Rescan
<1>4. CASE Open \/ Refuse \/ Die
  BY <1>4, LifeStep
<1>5. CASE \E name \in Name : Create(name)
  BY <1>5, CreateStep
<1>6. CASE \E name \in Name, id \in 1..MaxPlaylists : Rename(id, name)
  BY <1>6, RenameStep
<1>7. CASE \E track \in Track : Unfavourite(track)
  BY <1>7, UnfavouriteStep
<1>8. CASE \/ \E id \in 1..MaxPlaylists :
                Delete(id) \/ \E tracks \in BoundedSeq(Track, MaxRows) : PutTracks(id, tracks)
           \/ \E track \in Track : PutFavourite(track) \/ PostPlay(track)
  BY <1>8, RequestsStep
<1>9. CASE Check \/ Insert
  BY <1>9, CheckStep, InsertStep
<1>10. CASE Begin \/ DeleteRows \/ InsertRow \/ Touch \/ DropPlaylist \/ Commit \/ Fail
  BY <1>10, BeginStep, DeleteRowsStep, InsertRowStep, TouchStep, DropStep, CommitStep,
     FailStep
<1> QED
  BY NextActions, <1>1, <1>2, <1>3, <1>4, <1>5, <1>6, <1>7, <1>8, <1>9, <1>10

(* The statements of a call come in their order, and the open transaction  *)
(* holds what the statements before have made of the database: nothing of  *)
(* it reaches the file before COMMIT (src/src/library/user_store.c).       *)
THEOREM UserInvariance == Spec => []UserInv
<1> QED
  BY InitInv, UserStep, PTL DEF Spec

(* In the database file every row of tracks belongs to a playlist, and the *)
(* positions of a playlist are 0, 1, 2, ..., whichever statement fails and *)
(* whenever the process dies.                                              *)
THEOREM PositionsInOrder == Spec => []RowsInOrder
<1>1. UserInv => RowsInOrder
  <2> SUFFICES ASSUME UserInv, NEW row \in DOMAIN db.track
               PROVE  /\ row[1] \in DOMAIN db.playlist
                      /\ row[2] > 0 => <<row[1], row[2] - 1>> \in DOMAIN db.track
    BY DEF RowsInOrder
  <2>1. row[1] \in DOMAIN db.playlist /\ row \in RowsOf(db, row[1])
    BY DEF UserInv, RowsInv, RowsOf
  <2>2. PICK n \in 0..MaxRows : RowsOf(db, row[1]) = {row[1]} \X (0..(n - 1))
    BY <2>1 DEF UserInv, RowsInv
  <2>3. row[2] \in 0..(n - 1) /\ n \in Nat
    BY <2>1, <2>2, BoundAssumption
  <2>4. row[2] > 0 => <<row[1], row[2] - 1>> \in RowsOf(db, row[1])
    BY <2>2, <2>3
  <2> QED
    BY <2>1, <2>4 DEF RowsOf
<1> QED
  BY <1>1, UserInvariance, PTL

(* Every id the store holds was the id of a track some catalogue served,   *)
(* although the scan worker may swap the catalogue between the check of    *)
(* the ids (under ctx->mu) and the statement that writes them.             *)
THEOREM RecordedServed == Spec => []RecordedWasServed
<1>1. UserInv => RecordedWasServed
  BY DEF UserInv, ServedInv, RecordedWasServed
<1> QED
  BY <1>1, UserInvariance, PTL

-----------------------------------------------------------------------------
(***************************************************************************)
(* The lists of tracks.                                                    *)
(***************************************************************************)

(* The rows of a playlist are the first positions, none if there is no     *)
(* such playlist.                                                          *)
LEMMA RowsBlock ==
  ASSUME UserInv, NEW id
  PROVE  \E n \in Nat : RowsOf(db, id) = Block(id, n)
<1>1. CASE id \in DOMAIN db.playlist
  BY <1>1, BoundAssumption DEF UserInv, RowsInv, Block
<1>2. CASE id \notin DOMAIN db.playlist
  <2>1. RowsOf(db, id) = {}
    BY <1>2 DEF UserInv, RowsInv, RowsOf
  <2>2. Block(id, 0) = {}
    BY DEF Block
  <2> QED
    BY <2>1, <2>2
<1> QED
  BY <1>1, <1>2

(* The tracks of a playlist are those at its positions, in order.          *)
LEMMA TracksInOrder ==
  ASSUME NEW data, NEW id, NEW n \in Nat, RowsOf(data, id) = Block(id, n)
  PROVE  TracksIn(data, id) = [i \in 1..n |-> data.track[<<id, i - 1>>]]
<1>1. \A j \in 0..(n - 1) : {other \in Block(id, n) : other[2] < j} = Block(id, j)
  BY DEF Block
<1>2. \A j \in 0..(n - 1) :
        Cardinality({other \in Block(id, n) : other[2] < j}) = j
  <2> TAKE j \in 0..(n - 1)
  <2>1. j \in Nat
    OBVIOUS
  <2>2. Cardinality(Block(id, j)) = j
    BY <2>1, BlockCount
  <2> QED
    BY <1>1, <2>2
<1>3. \A i \in 1..n : RowAt(data, id, i) = <<id, i - 1>>
  <2> TAKE i \in 1..n
  <2>1. /\ <<id, i - 1>> \in Block(id, n)
        /\ \A row \in Block(id, n) : row = <<id, row[2]>> /\ row[2] \in 0..(n - 1)
    BY DEF Block
  <2>2. \A row \in Block(id, n) :
          Cardinality({other \in Block(id, n) : other[2] < row[2]}) = row[2]
    BY <1>2, <2>1
  <2>3. \A row \in Block(id, n) :
          Cardinality({other \in Block(id, n) : other[2] < row[2]}) = i - 1
            <=> row = <<id, i - 1>>
    BY <2>1, <2>2
  <2>4. RowAt(data, id, i) =
          CHOOSE row \in Block(id, n) :
            Cardinality({other \in Block(id, n) : other[2] < row[2]}) = i - 1
    BY DEF RowAt, Nth
  <2> QED
    BY <2>1, <2>3, <2>4
<1>4. Cardinality(RowsOf(data, id)) = n
  BY BlockCount
<1> QED
  BY <1>3, <1>4 DEF TracksIn

(* A playlist whose rows are as they were has the tracks it had.           *)
LEMMA TracksSame ==
  ASSUME UserInv, NEW data, NEW id, RowsOf(data, id) = RowsOf(db, id),
         \A row \in RowsOf(db, id) : data.track[row] = db.track[row]
  PROVE  TracksIn(data, id) = TracksIn(db, id)
<1>1. PICK n \in Nat : RowsOf(db, id) = Block(id, n)
  BY RowsBlock
<1>2. /\ TracksIn(data, id) = [i \in 1..n |-> data.track[<<id, i - 1>>]]
      /\ TracksIn(db, id) = [i \in 1..n |-> db.track[<<id, i - 1>>]]
  BY <1>1, TracksInOrder
<1>3. \A i \in 1..n : <<id, i - 1>> \in RowsOf(db, id)
  BY <1>1 DEF Block
<1> QED
  BY <1>2, <1>3

(* A database whose tracks were set has them.                              *)
LEMMA TracksSet ==
  ASSUME NEW data, IsData(data), NEW id \in DOMAIN data.playlist,
         NEW tracks \in Seq(Track), Len(tracks) <= MaxRows
  PROVE  TracksIn(WithTracks(data, id, tracks, Len(tracks)), id) = tracks
<1> DEFINE n == Len(tracks)
           w == WithTracks(data, id, tracks, n)
<1>1. n \in Nat /\ n \in 0..n
  OBVIOUS
<1>2. /\ RowsOf(w, id) = Block(id, n)
      /\ \A i \in 0..(n - 1) : w.track[<<id, i>>] = tracks[i + 1]
  BY <1>1, WithTracksParts
<1> HIDE DEF w
<1>3. TracksIn(w, id) = [i \in 1..n |-> w.track[<<id, i - 1>>]]
  BY <1>1, <1>2, TracksInOrder
<1>4. \A i \in 1..n : w.track[<<id, i - 1>>] = tracks[i]
  <2> TAKE i \in 1..n
  <2>1. i - 1 \in 0..(n - 1) /\ (i - 1) + 1 = i
    BY <1>1
  <2> QED
    BY <1>2, <2>1
<1>5. tracks = [i \in 1..n |-> tracks[i]]
  OBVIOUS
<1> QED
  BY <1>3, <1>4, <1>5 DEF w

(* What the statements do to the lists: a commit sets the tracks of its    *)
(* playlist or drops it, and leaves the others.                            *)
LEMMA CommitTracks ==
  ASSUME UserInv, Commit
  PROVE  /\ call.op = "set" => TracksIn(db', call.id) = call.tracks
         /\ \A id : id # call.id => TracksIn(db', id) = TracksIn(db, id)
<1>1. /\ IsData(db) /\ call.op \in {"set", "delete"} /\ call.tracks \in Seq(Track)
      /\ call.op = "set" =>
           /\ db' = WithTracks(db, call.id, call.tracks, Len(call.tracks))
           /\ call.id \in DOMAIN db.playlist /\ Len(call.tracks) <= MaxRows
      /\ call.op = "delete" => db' = WithoutPlaylist(db, call.id)
  BY CommitParts, CallParts
<1>2. call.op = "set" => TracksIn(db', call.id) = call.tracks
  BY <1>1, TracksSet
<1>3. ASSUME NEW id, id # call.id
      PROVE  /\ RowsOf(db', id) = RowsOf(db, id)
             /\ \A row \in RowsOf(db, id) : db'.track[row] = db.track[row]
  <2>1. \A row \in RowsOf(db, id) : row \in DOMAIN db.track \ RowsOf(db, call.id)
    BY <1>3 DEF RowsOf
  <2>2. CASE call.op = "set"
    <3>1. Len(call.tracks) \in 0..Len(call.tracks)
      BY <1>1
    <3>2. /\ \A row \in DOMAIN db.track \ RowsOf(db, call.id) :
               db'.track[row] = db.track[row]
          /\ \A j : j # call.id => RowsOf(db', j) = RowsOf(db, j)
      BY <1>1, <2>2, <3>1, WithTracksParts
    <3> QED
      BY <1>3, <2>1, <3>2
  <2>3. CASE call.op = "delete"
    <3>1. db'.track = WithoutRows(db, call.id).track
      BY <1>1, <2>3, WithoutPlaylistParts
    <3>2. /\ DOMAIN db'.track = DOMAIN db.track \ RowsOf(db, call.id)
          /\ \A row \in DOMAIN db.track \ RowsOf(db, call.id) :
               db'.track[row] = db.track[row]
      <4>1. LET w == WithoutRows(db, call.id) IN
            /\ DOMAIN w.track = DOMAIN db.track \ RowsOf(db, call.id)
            /\ \A row \in DOMAIN db.track \ RowsOf(db, call.id) :
                 w.track[row] = db.track[row]
        BY <1>1, WithoutRowsParts, ZenonT(60)
      <4> QED
        BY <3>1, <4>1
    <3> QED
      BY <1>3, <2>1, <3>2 DEF RowsOf
  <2> QED
    BY <1>1, <2>2, <2>3
<1> QED
  BY <1>2, <1>3, TracksSame

(* The rows of playlists change in a commit only.                          *)
LEMMA RowsKept ==
  ASSUME UserInv, [Next]_vars
  PROVE  Commit \/ db'.track = db.track
<1>1. IsData(db)
  BY CallParts
<1>2. ASSUME NEW name \in Name, Create(name)
      PROVE  db'.track = db.track
  BY <1>1, <1>2, CreateParts DEF Create, Failed
<1>3. ASSUME NEW id, NEW name, Rename(id, name)
      PROVE  db'.track = db.track
  <2>1. \/ UNCHANGED db
        \/ db' = [db EXCEPT !.playlist = [db.playlist EXCEPT ![id] = name]]
    BY <1>3 DEF Rename, Failed
  <2> QED
    BY <1>1, <2>1, TablesReplaced
<1>4. ASSUME NEW track, Unfavourite(track)
      PROVE  db'.track = db.track
  <2>1. \/ UNCHANGED db
        \/ db' = [db EXCEPT !.favourite =
                    Restrict(db.favourite, DOMAIN db.favourite \ {track})]
    BY <1>4 DEF Unfavourite, Failed
  <2> QED
    BY <1>1, <2>1, TablesReplaced
<1>5. CASE Insert
  BY <1>5, InsertParts
<1>6. CASE Open
  <2>1. db' = [db EXCEPT !.version = 1]
    BY <1>6 DEF Open
  <2>2. db = [version |-> db.version, playlist |-> db.playlist, last |-> db.last,
              track |-> db.track, favourite |-> db.favourite, history |-> db.history]
    BY <1>1, DataParts
  <2> QED
    BY <2>1, <2>2
<1>7. CASE Begin \/ DeleteRows \/ InsertRow \/ Touch \/ DropPlaylist \/ Fail \/ Check
  <2>1. call.at \in {"delete", "rows", "drop"} => inside = TRUE
    BY DEF UserInv, TypeOK, WorkInv
  <2> QED
    BY <1>7, <2>1 DEF Begin, DeleteRows, InsertRow, Touch, DropPlaylist, Fail, Check, Execute
<1>8. CASE \/ \E id \in 1..MaxPlaylists :
                Delete(id) \/ \E tracks \in BoundedSeq(Track, MaxRows) : PutTracks(id, tracks)
           \/ \E track \in Track : PutFavourite(track) \/ PostPlay(track)
  BY <1>8 DEF Delete, PutTracks, PutFavourite, PostPlay, Request
<1>9. CASE Tick \/ Rescan \/ Refuse \/ Die \/ UNCHANGED vars
  BY <1>9 DEF Tick, Rescan, Refuse, Die, vars
<1> QED
  BY NextActions, <1>2, <1>3, <1>4, <1>5, <1>6, <1>7, <1>8, <1>9

(* A call that sets tracks is answered with ok by its commit.              *)
LEMMA AcceptedByCommit ==
  ASSUME UserInv, [Next]_vars, call.op = "set", reply' = "ok"
  PROVE  Commit
<1>1. call.at # "none" /\ reply = "none" /\ call # NoCall /\ phase = "up"
  BY NoCallParts DEF UserInv, StagesInv
<1>2. ~Idle /\ call.at # "insert"
  BY <1>1 DEF Idle, UserInv, StagesInv
<1>3. CASE \/ \E name \in Name : Create(name)
           \/ \E name \in Name, id \in 1..MaxPlaylists : Rename(id, name)
           \/ \E track \in Track : Unfavourite(track)
  BY <1>2, <1>3 DEF Create, Rename, Unfavourite
<1>4. CASE \/ \E id \in 1..MaxPlaylists :
                Delete(id) \/ \E tracks \in BoundedSeq(Track, MaxRows) : PutTracks(id, tracks)
           \/ \E track \in Track : PutFavourite(track) \/ PostPlay(track)
  BY <1>2, <1>4 DEF Delete, PutTracks, PutFavourite, PostPlay, Request
<1>5. CASE Check \/ Insert \/ Begin \/ DeleteRows \/ InsertRow \/ Touch \/ DropPlaylist
           \/ Fail
  BY <1>1, <1>2, <1>5 DEF Check, Insert, Begin, DeleteRows, InsertRow, Touch,
     DropPlaylist, Fail, Goto, Answer
<1>6. CASE Tick \/ Rescan \/ Open \/ Refuse \/ Die \/ UNCHANGED vars
  BY <1>1, <1>6 DEF Tick, Rescan, Open, Refuse, Die, vars
<1> QED
  BY NextActions, <1>3, <1>4, <1>5, <1>6

(* The reply to a new list of tracks is the truth: the tracks of a         *)
(* playlist change when the request for it is answered with ok, to what it *)
(* asked for, and never on the way to an error (handle_playlist_put and    *)
(* user_store_playlist_set_tracks).                                        *)
THEOREM TracksReply == Spec => TracksReplyTrue
<1> DEFINE Kept ==
      \A id \in 1..MaxPlaylists :
        LET accepted == call.op = "set" /\ call.id = id /\ reply' = "ok" IN
        /\ accepted => TracksOf(id)' = call.tracks
        /\ TracksOf(id)' # TracksOf(id) => accepted \/ id \notin DOMAIN db'.playlist
<1>1. UserInv /\ [Next]_vars => Kept
  <2> SUFFICES ASSUME UserInv, [Next]_vars, NEW id \in 1..MaxPlaylists
               PROVE  /\ call.op = "set" /\ call.id = id /\ reply' = "ok" =>
                           TracksIn(db', id) = call.tracks
                      /\ TracksIn(db', id) # TracksIn(db, id) =>
                           \/ call.op = "set" /\ call.id = id /\ reply' = "ok"
                           \/ id \notin DOMAIN db'.playlist
    BY DEF TracksOf
  <2>1. CASE Commit
    <3>1. /\ call.op = "set" => TracksIn(db', call.id) = call.tracks
          /\ id # call.id => TracksIn(db', id) = TracksIn(db, id)
      BY <2>1, CommitTracks
    <3>2. call.op \in {"set", "delete"} /\ reply' = "ok"
      BY <2>1, CommitParts DEF Answer
    <3>3. call.op = "delete" => call.id \notin DOMAIN db'.playlist
      <4>1. call.op = "delete" => db' = WithoutPlaylist(db, call.id)
        BY <2>1, CommitParts
      <4> QED
        BY <4>1, CallParts, WithoutPlaylistParts
    <3> QED
      BY <3>1, <3>2, <3>3
  <2>2. CASE ~Commit
    <3>1. db'.track = db.track
      BY <2>2, RowsKept
    <3>2. TracksIn(db', id) = TracksIn(db, id)
      BY <3>1 DEF TracksIn, RowAt, Nth, RowsOf
    <3> QED
      BY <2>2, <3>2, AcceptedByCommit
  <2> QED
    BY <2>1, <2>2
<1> QED
  BY <1>1, UserInvariance, PTL DEF Spec, TracksReplyTrue

-----------------------------------------------------------------------------
(***************************************************************************)
(* The promise.                                                            *)
(***************************************************************************)

(* What a database promises of its playlists.                              *)
Shelf(data) ==
  [id \in DOMAIN data.playlist |->
     [name |-> data.playlist[id], tracks |-> TracksIn(data, id)]]

(* What clients see, taken apart.                                          *)
LEMMA PromiseParts ==
  /\ Promise!vars = <<Shelf(db), 1..db.last, DOMAIN db.favourite, db.history>>
  /\ Promise!vars' = <<Shelf(db'), 1..db'.last, DOMAIN db'.favourite, db'.history>>
BY DEF Promise!vars, Shelf, TracksOf

(* A step that changes neither ids, names, lists, favourites nor plays.    *)
LEMMA PromiseKept ==
  ASSUME db'.playlist = db.playlist, db'.track = db.track, db'.last = db.last,
         db'.favourite = db.favourite, db'.history = db.history
  PROVE  UNCHANGED Promise!vars
<1>1. \A id : TracksIn(db', id) = TracksIn(db, id)
  BY DEF TracksIn, RowAt, Nth, RowsOf
<1>2. Shelf(db') = Shelf(db)
  BY <1>1 DEF Shelf
<1> QED
  BY <1>2, PromiseParts

(* Creating a playlist creates it.                                         *)
LEMMA CreatePromise ==
  ASSUME UserInv, NEW name \in Name, Create(name)
  PROVE  [Promise!Next]_(Promise!vars)
<1>1. CASE Failed
  BY <1>1, PromiseKept DEF Failed
<1>2. CASE ~Failed
  <2> DEFINE id == NextPlaylistId
  <2>1. /\ db' = [version |-> db.version, playlist |-> Put(db.playlist, id, name),
                  last |-> id, track |-> db.track,
                  favourite |-> db.favourite, history |-> db.history]
        /\ IsData(db)
    BY <1>2, CallParts, CreateParts DEF Create
  <2>2. /\ db'.playlist = Put(db.playlist, id, name) /\ db'.last = id
        /\ db'.track = db.track /\ db'.favourite = db.favourite
        /\ db'.history = db.history
    BY <2>1
  <2>3. /\ db.last \in Nat /\ id = db.last + 1
        /\ DOMAIN db.playlist \subseteq 1..db.last
    BY <2>1, DataParts DEF NextPlaylistId, Partial
  <2> HIDE DEF id
  <2>4. \A j : TracksIn(db', j) = TracksIn(db, j)
    BY <2>2 DEF TracksIn, RowAt, Nth, RowsOf
  <2>5. TracksIn(db, id) = <<>>
    <3>1. id \notin DOMAIN db.playlist
      BY <2>3
    <3>2. RowsOf(db, id) = Block(id, 0)
      BY <3>1 DEF UserInv, RowsInv, RowsOf, Block
    <3>3. TracksIn(db, id) = [i \in 1..0 |-> db.track[<<id, i - 1>>]]
      BY <3>2, TracksInOrder
    <3> QED
      BY <3>3
  <2>6. /\ DOMAIN Put(db.playlist, id, name) = DOMAIN db.playlist \cup {id}
        /\ Put(db.playlist, id, name)[id] = name
        /\ \A j \in DOMAIN db.playlist : j # id =>
             Put(db.playlist, id, name)[j] = db.playlist[j]
    BY DEF Put
  <2>7. Shelf(db') = [j \in DOMAIN Shelf(db) \cup {id} |->
                        IF j = id THEN [name |-> name, tracks |-> <<>>] ELSE Shelf(db)[j]]
    BY <2>2, <2>4, <2>5, <2>6 DEF Shelf
  <2>8. 1..db'.last = (1..db.last) \cup {id} /\ id \in Nat \ 1..db.last
    BY <2>2, <2>3
  <2>9. id \in DOMAIN Shelf(db')
    BY <2>7
  <2>10. Promise!Create(id, name)
    BY <2>2, <2>7, <2>8 DEF Promise!Create, Shelf, TracksOf
  <2>11. Promise!Next
    BY <2>9, <2>10 DEF Promise!Next, Shelf, TracksOf
  <2> QED
    BY <2>11
<1> QED
  BY <1>1, <1>2

(* Renaming a playlist renames it.                                         *)
LEMMA RenamePromise ==
  ASSUME UserInv, NEW id, NEW name \in Name, Rename(id, name)
  PROVE  [Promise!Next]_(Promise!vars)
<1>1. CASE Failed
  BY <1>1, PromiseKept DEF Failed
<1>2. CASE ~Failed
  <2> DEFINE p == [db.playlist EXCEPT ![id] = name]
  <2>1. id \in DOMAIN db.playlist /\ db' = [db EXCEPT !.playlist = p] /\ IsData(db)
    BY <1>2, CallParts DEF Rename
  <2>2. /\ DOMAIN p = DOMAIN db.playlist /\ p[id] = name
        /\ \A j \in DOMAIN db.playlist \ {id} : p[j] = db.playlist[j]
    BY <2>1
  <2> HIDE DEF p
  <2>3. db' = [version |-> db.version, playlist |-> p, last |-> db.last,
               track |-> db.track, favourite |-> db.favourite, history |-> db.history]
    BY <2>1, TablesReplaced
  <2>4. /\ db'.playlist = p /\ db'.last = db.last /\ db'.track = db.track
        /\ db'.favourite = db.favourite /\ db'.history = db.history
    BY <2>3
  <2>5. \A j : TracksIn(db', j) = TracksIn(db, j)
    BY <2>4 DEF TracksIn, RowAt, Nth, RowsOf
  <2>6. Shelf(db') = [Shelf(db) EXCEPT ![id].name = name]
    BY <2>1, <2>2, <2>4, <2>5, ZenonT(60) DEF Shelf
  <2>7. id \in DOMAIN Shelf(db)
    BY <2>1 DEF Shelf
  <2>8. Promise!Rename(id, name)
    BY <2>4, <2>6, <2>7 DEF Promise!Rename, Shelf, TracksOf
  <2>9. Promise!Next
    BY <2>7, <2>8 DEF Promise!Next, Shelf, TracksOf
  <2> QED
    BY <2>9
<1> QED
  BY <1>1, <1>2

(* Taking a favourite away, adding one, and recording a play.              *)
LEMMA TrackPromise ==
  ASSUME UserInv, Insert \/ \E track \in Track : Unfavourite(track)
  PROVE  [Promise!Next]_(Promise!vars)
<1>1. CASE Insert
  <2> DEFINE track == call.tracks[1]
  <2>1. /\ track \in Track /\ call.op \in {"favourite", "play"}
        /\ call.op = "favourite" =>
             db' = [version |-> db.version, playlist |-> db.playlist, last |-> db.last,
                    track |-> db.track, history |-> db.history,
                    favourite |-> Put(db.favourite, track, clock)]
        /\ call.op = "play" =>
             db' = [version |-> db.version, playlist |-> db.playlist, last |-> db.last,
                    track |-> db.track, favourite |-> db.favourite,
                    history |-> Append(db.history, [track |-> track, played |-> clock])]
    BY <1>1, InsertParts
  <2>2. clock \in 1..MaxTime
    BY DEF UserInv, TypeOK
  <2> HIDE DEF track
  <2>3. db'.playlist = db.playlist /\ db'.last = db.last /\ db'.track = db.track
    BY <2>1
  <2>4. Shelf(db') = Shelf(db)
    BY <2>3 DEF Shelf, TracksIn, RowAt, Nth, RowsOf
  <2>5. CASE call.op = "favourite"
    <3>1. /\ DOMAIN db'.favourite = DOMAIN db.favourite \cup {track}
          /\ db'.history = db.history
      BY <2>1, <2>5 DEF Put
    <3>2. Promise!Favourite(track)
      BY <2>3, <2>4, <3>1 DEF Promise!Favourite, Shelf, TracksOf
    <3> QED
      BY <2>1, <3>2 DEF Promise!Next
  <2>6. CASE call.op = "play"
    <3>1. /\ db'.favourite = db.favourite
          /\ db'.history = Append(db.history, [track |-> track, played |-> clock])
      BY <2>1, <2>6
    <3>2. Promise!Play(track, clock)
      BY <2>3, <2>4, <3>1 DEF Promise!Play, Shelf, TracksOf
    <3> QED
      BY <2>1, <2>2, <3>2 DEF Promise!Next
  <2> QED
    BY <2>1, <2>5, <2>6
<1>2. ASSUME NEW track \in Track, Unfavourite(track)
      PROVE  [Promise!Next]_(Promise!vars)
  <2>1. CASE Failed
    BY <2>1, PromiseKept DEF Failed
  <2>2. CASE ~Failed
    <3> DEFINE f == Restrict(db.favourite, DOMAIN db.favourite \ {track})
    <3>1. db' = [db EXCEPT !.favourite = f] /\ IsData(db)
      BY <1>2, <2>2, CallParts DEF Unfavourite
    <3>2. DOMAIN f = DOMAIN db.favourite \ {track}
      BY DEF Restrict
    <3> HIDE DEF f
    <3>3. db' = [version |-> db.version, playlist |-> db.playlist, last |-> db.last,
                 track |-> db.track, favourite |-> f, history |-> db.history]
      BY <3>1, TablesReplaced
    <3>4. /\ db'.playlist = db.playlist /\ db'.last = db.last /\ db'.track = db.track
          /\ db'.favourite = f /\ db'.history = db.history
      BY <3>3
    <3>5. Shelf(db') = Shelf(db)
      BY <3>4 DEF Shelf, TracksIn, RowAt, Nth, RowsOf
    <3>6. Promise!Unfavourite(track)
      BY <3>2, <3>4, <3>5 DEF Promise!Unfavourite, Shelf, TracksOf
    <3> QED
      BY <3>6 DEF Promise!Next
  <2> QED
    BY <2>1, <2>2
<1> QED
  BY <1>1, <1>2

(* A commit sets the tracks of a playlist, or deletes it.                  *)
LEMMA CommitPromise ==
  ASSUME UserInv, Commit
  PROVE  [Promise!Next]_(Promise!vars)
<1>0. PICK id \in DOMAIN db.playlist : id = call.id
  BY CommitParts
<1>1. /\ IsData(db) /\ call.op \in {"set", "delete"} /\ call.tracks \in Seq(Track)
      /\ id \in DOMAIN db.playlist
      /\ call.op = "set" =>
           /\ db' = WithTracks(db, id, call.tracks, Len(call.tracks))
           /\ Len(call.tracks) <= MaxRows
      /\ call.op = "delete" => db' = WithoutPlaylist(db, id)
  BY <1>0, CommitParts, CallParts
<1>2. /\ call.op = "set" => TracksIn(db', id) = call.tracks
      /\ \A j : j # id => TracksIn(db', j) = TracksIn(db, j)
  BY <1>0, CommitTracks
<1>3. CASE call.op = "set"
  <2>1. /\ db'.playlist = db.playlist /\ db'.last = db.last
        /\ db'.favourite = db.favourite /\ db'.history = db.history
    <3>1. Len(call.tracks) \in 0..Len(call.tracks)
      BY <1>1
    <3> QED
      BY <1>1, <1>3, <3>1, WithTracksParts
  <2>2. /\ DOMAIN Shelf(db') = DOMAIN Shelf(db) /\ id \in DOMAIN Shelf(db)
        /\ Shelf(db')[id] = [name |-> db.playlist[id], tracks |-> call.tracks]
        /\ Shelf(db)[id] = [name |-> db.playlist[id], tracks |-> TracksIn(db, id)]
        /\ \A j \in DOMAIN Shelf(db) : j # id => Shelf(db')[j] = Shelf(db)[j]
    BY <1>1, <1>2, <1>3, <2>1 DEF Shelf
  <2>3. [Shelf(db)[id] EXCEPT !.tracks = call.tracks] = Shelf(db')[id]
    BY <2>2
  <2>4. Shelf(db') = [Shelf(db) EXCEPT ![id].tracks = Shelf(db')[id].tracks]
    BY <2>2, <2>3 DEF Shelf
  <2>5. Shelf(db')[id].tracks \in Seq(Track)
    BY <1>1, <2>2
  <2>6. Promise!SetTracks(id)
    BY <2>1, <2>2, <2>4, <2>5 DEF Promise!SetTracks, Shelf, TracksOf
  <2>7. Promise!Next
    BY <2>2, <2>6 DEF Promise!Next, Shelf, TracksOf
  <2> QED
    BY <2>7
<1>4. CASE call.op = "delete"
  <2>1. /\ DOMAIN db'.playlist = DOMAIN db.playlist \ {id}
        /\ \A j \in DOMAIN db.playlist \ {id} : db'.playlist[j] = db.playlist[j]
        /\ db'.last = db.last /\ db'.favourite = db.favourite
        /\ db'.history = db.history
    BY <1>1, <1>4, WithoutPlaylistParts
  <2>2. Shelf(db') = [j \in DOMAIN Shelf(db) \ {id} |-> Shelf(db)[j]]
    BY <1>2, <2>1 DEF Shelf
  <2>3. id \in DOMAIN Shelf(db)
    BY <1>1 DEF Shelf
  <2>4. Promise!Delete(id)
    BY <2>1, <2>2, <2>3 DEF Promise!Delete, Shelf, TracksOf
  <2>5. Promise!Next
    BY <2>3, <2>4 DEF Promise!Next, Shelf, TracksOf
  <2> QED
    BY <2>5
<1> QED
  BY <1>1, <1>3, <1>4

(* The other steps change nothing a client sees.                           *)
LEMMA OtherPromise ==
  ASSUME UserInv,
         \/ Tick \/ Rescan \/ Open \/ Refuse \/ Die \/ UNCHANGED vars
         \/ \E id \in 1..MaxPlaylists :
              Delete(id) \/ \E tracks \in BoundedSeq(Track, MaxRows) : PutTracks(id, tracks)
         \/ \E track \in Track : PutFavourite(track) \/ PostPlay(track)
         \/ Check \/ Begin \/ DeleteRows \/ InsertRow \/ Touch \/ DropPlaylist \/ Fail
  PROVE  UNCHANGED Promise!vars
<1>1. CASE Open
  <2>1. db' = [db EXCEPT !.version = 1]
    BY <1>1 DEF Open
  <2>2. db = [version |-> db.version, playlist |-> db.playlist, last |-> db.last,
              track |-> db.track, favourite |-> db.favourite, history |-> db.history]
    BY CallParts, DataParts
  <2>3. /\ db'.playlist = db.playlist /\ db'.last = db.last /\ db'.track = db.track
        /\ db'.favourite = db.favourite /\ db'.history = db.history
    BY <2>1, <2>2
  <2> QED
    BY <2>3, PromiseKept
<1>2. CASE ~Open
  <2>1. call.at \in {"delete", "rows", "drop"} => inside = TRUE
    BY DEF UserInv, TypeOK, WorkInv
  <2>2. UNCHANGED db
    BY <1>2, <2>1 DEF Tick, Rescan, Refuse, Die, vars, Delete, PutTracks, PutFavourite,
       PostPlay, Request, Begin, DeleteRows, InsertRow, Touch, DropPlaylist, Fail, Check,
       Execute
  <2> QED
    BY <2>2, PromiseKept
<1> QED
  BY <1>1, <1>2

(* The store keeps its promise: calls are atomic, whatever statement fails *)
(* and whenever the process dies, ids of playlists are not reused, and a   *)
(* play never replaces an earlier one.                                     *)
THEOREM PromiseHolds == Spec => ImplementsUserData
<1>1. Init => Promise!Init
  <2> SUFFICES ASSUME Init
               PROVE  Promise!Init
    OBVIOUS
  <2>1. PICK version \in {0, 1, 2} : db = [NoData EXCEPT !.version = version]
    BY DEF Init
  <2>2. /\ DOMAIN db.playlist = {} /\ db.last = 0 /\ DOMAIN db.favourite = {}
        /\ db.history = <<>>
    BY <2>1 DEF NoData
  <2> QED
    BY <2>2 DEF Promise!Init
<1>2. UserInv /\ [Next]_vars => [Promise!Next]_(Promise!vars)
  <2> SUFFICES ASSUME UserInv, [Next]_vars
               PROVE  [Promise!Next]_(Promise!vars)
    OBVIOUS
  <2>1. CASE \E name \in Name : Create(name)
    BY <2>1, CreatePromise
  <2>2. CASE \E name \in Name, id \in 1..MaxPlaylists : Rename(id, name)
    BY <2>2, RenamePromise
  <2>3. CASE Insert \/ \E track \in Track : Unfavourite(track)
    BY <2>3, TrackPromise
  <2>4. CASE Commit
    BY <2>4, CommitPromise
  <2> QED
    BY NextActions, OtherPromise, <2>1, <2>2, <2>3, <2>4
<1> QED
  BY <1>1, <1>2, UserInvariance, PTL DEF Spec, ImplementsUserData, Promise!Spec

-----------------------------------------------------------------------------
(***************************************************************************)
(* Pages.                                                                  *)
(***************************************************************************)

(* As many pages as it takes, and no page too many.                        *)
LEMMA RoundUp ==
  ASSUME NEW t \in Nat, NEW s \in Nat \ {0}
  PROVE  LET n == (t + s - 1) \div s
         IN n \in Nat /\ t <= n * s /\ (n - 1) * s < t
OBVIOUS
(* Offsets grow by the size of a page.                                     *)
LEMMA Times ==
  ASSUME NEW k \in Nat, NEW n \in Nat, k <= n, NEW s \in Nat
  PROVE  k * s <= n * s /\ (k + 1) * s = k * s + s
OBVIOUS

(* The lesser of two numbers.                                              *)
LEMMA Least ==
  ASSUME NEW a \in Nat, NEW b \in Nat
  PROVE  Min({a, b}) = IF a <= b THEN a ELSE b
BY DEF Min

(* The greater of two numbers.                                             *)
LEMMA Most ==
  ASSUME NEW a \in Nat, NEW b \in Nat
  PROVE  Max({a, b}) = IF a >= b THEN a ELSE b
BY DEF Max

(* A limit is never 0 and never above the largest.                         *)
LEMMA Clamped ==
  ASSUME NEW limit \in Nat
  PROVE  Clamp(limit) \in 1..LimitMax
<1>1. Min({limit, LimitMax}) = IF limit <= LimitMax THEN limit ELSE LimitMax
  BY Least, LimitAssumption
<1>2. PICK least \in Nat : least = Min({limit, LimitMax}) /\ least <= LimitMax
  BY <1>1, LimitAssumption
<1>3. Max({1, least}) = IF 1 >= least THEN 1 ELSE least
  BY Most
<1> QED
  BY <1>2, <1>3, LimitAssumption DEF Clamp

(* A page that begins where the one before it ends, and holds the list     *)
(* from there; the last one holds its end.                                 *)
IsTile(page, list, offsets, k, size) ==
  /\ Len(page) \in 1..size
  /\ \A i \in 1..Len(page) : page[i] = list[offsets[k] + i]
  /\ k = 1 => offsets[k] = 0
  /\ k < Len(offsets) => offsets[k + 1] = offsets[k] + Len(page)
  /\ k = Len(offsets) => offsets[k] + Len(page) = Len(list)

(* The pages of a walk, put together, are the list.                        *)
Tiled(list, offsets, size, room) ==
  /\ \A k \in 1..Len(offsets) : IsTile(Page(list, offsets[k], size, room), list, offsets, k, size)
  /\ Len(offsets) = 0 => list = <<>>

(* Whatever limit a client pages with, the pages it gets are the list cut  *)
(* into pieces: none is empty, each begins where the one before it ended,  *)
(* and the last one ends with the list.  The room of a reply must not be   *)
(* less than the largest limit (params.c:55), which is so for tracks       *)
(* (favourites.c:28) and not for playlists (playlists.c:50).              *)
THEOREM PagesTile ==
  ASSUME NEW S, NEW list, list \in Seq(S), NEW limit \in Nat, NEW room \in Nat, room >= LimitMax
  PROVE  Tiled(list, Offsets(Len(list), Clamp(limit)), Clamp(limit), room)
<1>1. PICK size \in 1..LimitMax : size = Clamp(limit)
  BY Clamped
<1>2. PICK total \in Nat : total = Len(list)
  OBVIOUS
<1>3. size \in Nat \ {0} /\ size <= room /\ LimitMax \in Nat
  BY <1>1, LimitAssumption
<1>4. PICK last \in Nat : last = (total + size - 1) \div size
                          /\ total <= last * size /\ (last - 1) * size < total
  BY <1>3, RoundUp
<1>5. PICK offsets : offsets = Offsets(Len(list), size)
  OBVIOUS
<1>6. offsets = [k \in 1..last |-> (k - 1) * size] /\ Len(offsets) = last
  BY <1>2, <1>4, <1>5 DEF Offsets
<1>7. Min({size, room}) = size
  BY <1>3, Least
<1>8. ASSUME NEW k \in 1..last
      PROVE  IsTile(Page(list, offsets[k], size, room), list, offsets, k, size)
  <2>1. PICK start \in Nat : start = (k - 1) * size
    BY <1>3
  <2>2. start < total /\ (k < last => start + size < total) /\ (k = last => start + size >= total)
    <3>1. start + size = k * size
      BY <1>3, <2>1, Times
    <3>2. start <= (last - 1) * size
      BY <1>3, <1>8, <2>1, Times
    <3>3. k < last => k * size <= (last - 1) * size
      BY <1>3, <1>8, Times
    <3> QED
      BY <1>4, <3>1, <3>2, <3>3
  <2>3. PICK end \in Nat : end = IF start + size <= total THEN start + size ELSE total
    BY <1>3
  <2>4. Min({start + size, total}) = end
    BY <1>3, <2>3, Least
  <2>5. offsets[k] = start
    BY <1>6, <2>1
  <2>6. PICK page : page = Page(list, offsets[k], size, room)
    OBVIOUS
  <2>7. page = SubSeq(list, start + 1, end)
    BY <1>2, <1>7, <2>4, <2>5, <2>6 DEF Page
  <2>8. end - start \in 1..size /\ end <= total
        /\ (k < last => end = start + size) /\ (k = last => end = total)
    BY <1>3, <2>2, <2>3
  <2>9. \A i \in (start + 1)..end : list[i] \in S
    BY <1>2, <2>8
  <2>10. Len(page) = end - start /\ \A i \in 1..(end - start) : page[i] = list[start + i]
    <3>1. /\ Len(page) = IF start + 1 <= end THEN end - (start + 1) + 1 ELSE 0
          /\ \A i \in 1..(end - (start + 1) + 1) : page[i] = list[(start + 1) + i - 1]
      BY <2>7, <2>9, SubSeqProperties
    <3>2. end - (start + 1) + 1 = end - start /\ start + 1 <= end
      BY <2>8
    <3>3. \A i \in 1..(end - start) : (start + 1) + i - 1 = start + i
      BY <2>8
    <3>4. Len(page) = end - start
      BY <3>1, <3>2
    <3> QED
      BY <3>1, <3>2, <3>3, <3>4
  <2>11. k < last => offsets[k + 1] = start + size
    <3>1. k < last => offsets[k + 1] = k * size
      BY <1>6
    <3> QED
      BY <1>3, <2>1, <3>1, Times
  <2>12. k = 1 => start = 0
    BY <1>3, <2>1
  <2>13. /\ k < last => offsets[k + 1] = offsets[k] + Len(page)
         /\ k = last => offsets[k] + Len(page) = total
    BY <1>3, <2>5, <2>8, <2>10, <2>11
  <2>14. Len(page) \in 1..size /\ \A i \in 1..Len(page) : page[i] = list[offsets[k] + i]
    BY <2>5, <2>8, <2>10
  <2>15. IsTile(page, list, offsets, k, size)
    BY <1>2, <1>6, <2>5, <2>12, <2>13, <2>14 DEF IsTile
  <2> QED
    BY <2>6, <2>15
<1>9. last = 0 => list = <<>>
  BY <1>2, <1>3, <1>4
<1> QED
  BY <1>1, <1>2, <1>5, <1>6, <1>8, <1>9 DEF Tiled

(* A set of numbers that is not empty has a first one.                     *)
LEMMA FirstOf ==
  ASSUME NEW T, T \subseteq Nat, T # {}
  PROVE  \E n \in T : \A m \in T : n <= m
<1>1. PICK n \in T : \A m \in T : ~(<<m, n>> \in OpToRel(<, Nat))
  BY WFMin, NatLessThanWellFounded
<1>2. \A m \in T : ~(m < n)
  BY <1>1 DEF OpToRel
<1> QED
  BY <1>2

(* Two consecutive cuts of a list, put together.                           *)
LEMMA CutsJoined ==
  ASSUME NEW list, NEW a \in Nat, NEW b \in Nat
  PROVE  [i \in 1..a |-> list[i]] \o [i \in 1..b |-> list[a + i]]
           = [i \in 1..(a + b) |-> list[i]]
<1> DEFINE U == {list[i] : i \in Nat}
           front == [i \in 1..a |-> list[i]]
           back == [i \in 1..b |-> list[a + i]]
           whole == [i \in 1..(a + b) |-> list[i]]
<1>1. /\ \A i \in 1..a : front[i] = list[i] /\ list[i] \in U
      /\ \A i \in 1..b : back[i] = list[a + i] /\ list[a + i] \in U
      /\ \A i \in 1..(a + b) : whole[i] = list[i] /\ list[i] \in U
  OBVIOUS
<1>2. front \in [1..a -> U] /\ back \in [1..b -> U] /\ whole \in [1..(a + b) -> U]
  BY <1>1
<1> HIDE DEF U, front, back, whole
<1>3. front \in Seq(U) /\ back \in Seq(U) /\ whole \in Seq(U)
  BY <1>2, SeqDef
<1>4. Len(front) = a /\ Len(back) = b /\ Len(whole) = a + b
  BY <1>2, <1>3, LenProperties
<1>5. front \o back \in Seq(U) /\ Len(front \o back) = a + b
  BY <1>3, <1>4, SMTT(60)
<1>6. \A i \in 1..(a + b) : (front \o back)[i] = whole[i]
  <2> TAKE i \in 1..(a + b)
  <2>1. CASE i <= a
    BY <1>1, <1>3, <1>4, <2>1, ConcatProperties
  <2>2. CASE i > a
    <3>1. i - a \in 1..b /\ a + (i - a) = i
      BY <2>2
    <3>2. (front \o back)[i] = back[i - a]
      BY <1>3, <1>4, <2>2, ConcatProperties
    <3> QED
      BY <1>1, <3>1, <3>2
  <2>3. i <= a \/ i > a
    OBVIOUS
  <2> QED
    BY <2>1, <2>2, <2>3, Zenon
<1>7. front \o back = whole
  BY <1>3, <1>4, <1>5, <1>6, SeqEqual
<1> QED
  BY <1>7 DEF front, back, whole

(* What grows by one sequence after the other, from the first, is what the *)
(* sequences put together are.                                             *)
LEMMA Flattened ==
  ASSUME NEW n \in Nat \ {0}, NEW pages, Len(pages) = n, NEW grown,
         /\ grown[1] = pages[1]
         /\ \A k \in 2..n : grown[k] = grown[k - 1] \o pages[k]
  PROVE  FlattenSeq(pages) = grown[n]
<1> DEFINE Rule(f) == [k \in 1..n |-> IF k = 1 THEN pages[k] ELSE f[k - 1] \o pages[k]]
           g == [k \in 1..n |-> grown[k]]
<1>1. PICK flatten : flatten = CHOOSE f : f = Rule(f)
  OBVIOUS
<1>2. FlattenSeq(pages) = flatten[n]
  BY <1>1 DEF FlattenSeq
<1>3. g = Rule(g)
  <2>1. \A k \in 1..n : g[k] = IF k = 1 THEN pages[k] ELSE g[k - 1] \o pages[k]
    <3> TAKE k \in 1..n
    <3>1. CASE k = 1
      BY <3>1
    <3>2. CASE k # 1
      <4>1. k \in 2..n /\ k - 1 \in 1..n
        BY <3>2
      <4>2. g[k] = grown[k] /\ g[k - 1] = grown[k - 1]
        BY <4>1
      <4> QED
        BY <3>2, <4>1, <4>2
    <3> QED
      BY <3>1, <3>2
  <2>2. g = [k \in 1..n |-> g[k]]
    OBVIOUS
  <2> HIDE DEF g
  <2> QED
    BY <2>1, <2>2
<1>4. flatten = Rule(flatten)
  <2> HIDE DEF g, Rule
  <2> QED
    BY <1>1, <1>3
<1>5. /\ flatten[1] = pages[1]
      /\ \A k \in 2..n : flatten[k] = flatten[k - 1] \o pages[k]
  <2>1. \A k \in 1..n :
          flatten[k] = IF k = 1 THEN pages[k] ELSE flatten[k - 1] \o pages[k]
    BY <1>4
  <2>2. 1 \in 1..n /\ \A k \in 2..n : k \in 1..n /\ k # 1
    OBVIOUS
  <2> QED
    BY <2>1, <2>2
<1>6. ASSUME NEW k \in 1..n, flatten[k] # grown[k]
      PROVE  FALSE
  <2> DEFINE bad == {m \in 1..n : flatten[m] # grown[m]}
  <2>1. bad \subseteq Nat /\ bad # {}
    BY <1>6
  <2> HIDE DEF bad
  <2>2. PICK first \in bad : \A m \in bad : first <= m
    BY <2>1, FirstOf
  <2>3. first \in 1..n /\ flatten[first] # grown[first]
    BY <2>2 DEF bad
  <2>4. first # 1
    BY <1>5, <2>3
  <2>5. first - 1 \in 1..n /\ first - 1 \notin bad /\ first \in 2..n
    BY <2>2, <2>3, <2>4
  <2>6. flatten[first - 1] = grown[first - 1]
    BY <2>5 DEF bad
  <2> QED
    BY <1>5, <2>3, <2>5, <2>6
<1> QED
  BY <1>2, <1>6

(* Pages that are the pieces of a list, put together, are the list.        *)
LEMMA TilesJoined ==
  ASSUME NEW S, NEW list \in Seq(S), NEW n \in Nat \ {0}, NEW pages,
         NEW offsets, NEW size \in Nat, Len(pages) = n, Len(offsets) = n,
         \A k \in 1..n : offsets[k] \in Nat /\ pages[k] \in Seq(S)
                         /\ IsTile(pages[k], list, offsets, k, size)
  PROVE  FlattenSeq(pages) = list
<1> DEFINE grown == [k \in 1..n |-> [i \in 1..(offsets[k] + Len(pages[k])) |-> list[i]]]
<1>1. \A k \in 1..n : /\ Len(pages[k]) \in Nat
                      /\ k = 1 => offsets[k] = 0
                      /\ k < n => offsets[k + 1] = offsets[k] + Len(pages[k])
                      /\ k = n => offsets[k] + Len(pages[k]) = Len(list)
  <2> HIDE DEF grown
  <2> TAKE k \in 1..n
  <2>1. pages[k] \in Seq(S) /\ IsTile(pages[k], list, offsets, k, size)
    OBVIOUS
  <2>2. Len(pages[k]) \in Nat
    BY <2>1, LenProperties
  <2>3. /\ k = 1 => offsets[k] = 0
        /\ k < n => offsets[k + 1] = offsets[k] + Len(pages[k])
        /\ k = n => offsets[k] + Len(pages[k]) = Len(list)
    BY <2>1 DEF IsTile
  <2> QED
    BY <2>2, <2>3
<1>2. \A k \in 1..n : pages[k] = [i \in 1..Len(pages[k]) |-> list[offsets[k] + i]]
  <2> TAKE k \in 1..n
  <2>1. pages[k] = [i \in 1..Len(pages[k]) |-> pages[k][i]]
    BY LenProperties
  <2>2. \A i \in 1..Len(pages[k]) : pages[k][i] = list[offsets[k] + i]
    BY DEF IsTile
  <2> QED
    BY <2>1, <2>2
<1>3. grown[1] = pages[1]
  <2>1. 1 \in 1..n
    OBVIOUS
  <2>2. offsets[1] = 0 /\ Len(pages[1]) \in Nat
    BY <1>1, <2>1
  <2>3. \A i \in 1..Len(pages[1]) : 0 + i = i
    OBVIOUS
  <2>4. pages[1] = [i \in 1..Len(pages[1]) |-> list[i]]
    BY <1>2, <2>1, <2>2, <2>3
  <2>5. 0 + Len(pages[1]) = Len(pages[1])
    BY <2>2
  <2> QED
    BY <2>1, <2>2, <2>4, <2>5
<1>4. \A k \in 2..n : grown[k] = grown[k - 1] \o pages[k]
  <2> TAKE k \in 2..n
  <2>1. k \in 1..n /\ k - 1 \in 1..n /\ k - 1 < n /\ (k - 1) + 1 = k
    OBVIOUS
  <2>2. offsets[k] \in Nat /\ Len(pages[k]) \in Nat
    BY <1>1, <2>1
  <2>3. offsets[k] = offsets[k - 1] + Len(pages[k - 1])
    BY <1>1, <2>1
  <2>4. grown[k - 1] = [i \in 1..offsets[k] |-> list[i]]
    BY <2>1, <2>3
  <2>5. grown[k] = [i \in 1..(offsets[k] + Len(pages[k])) |-> list[i]]
    BY <2>1
  <2>6. pages[k] = [i \in 1..Len(pages[k]) |-> list[offsets[k] + i]]
    BY <1>2, <2>1
  <2> HIDE DEF grown
  <2>7. PICK a \in Nat, b \in Nat : a = offsets[k] /\ b = Len(pages[k])
    BY <2>2
  <2>8. [i \in 1..a |-> list[i]] \o [i \in 1..b |-> list[a + i]]
          = [i \in 1..(a + b) |-> list[i]]
    BY CutsJoined
  <2> QED
    BY <2>4, <2>5, <2>6, <2>7, <2>8
<1>5. grown[n] = list
  <2>1. grown[n] = [i \in 1..Len(list) |-> list[i]]
    <3>1. n \in 1..n
      OBVIOUS
    <3> QED
      BY <1>1, <3>1
  <2> HIDE DEF grown
  <2> QED
    BY <2>1, LenProperties
<1>6. PICK g : g = grown
  OBVIOUS
<1> HIDE DEF grown
<1>7. g[1] = pages[1] /\ \A k \in 2..n : g[k] = g[k - 1] \o pages[k]
  BY <1>3, <1>4, <1>6
<1>8. FlattenSeq(pages) = g[n]
  <2>1. n \in Nat \ {0} /\ Len(pages) = n
    OBVIOUS
  <2>2. \A h : (/\ h[1] = pages[1]
                /\ \A k \in 2..n : h[k] = h[k - 1] \o pages[k]) => FlattenSeq(pages) = h[n]
    BY <2>1, Flattened, Zenon
  <2> QED
    BY <1>7, <2>2, Zenon
<1> QED
  BY <1>5, <1>6, <1>8

(* A page holds what the list holds.                                       *)
LEMMA PageType ==
  ASSUME NEW S, NEW list \in Seq(S), NEW offset \in Nat, NEW size \in Nat, NEW room \in Nat
  PROVE  Page(list, offset, size, room) \in Seq(S)
<1>1. PICK least \in Nat : least = Min({size, room})
  BY Least
<1>2. PICK total \in Nat : total = Len(list)
  OBVIOUS
<1>3. PICK end \in Nat : end = Min({offset + least, total}) /\ end <= total
  <2>1. Min({offset + least, total}) = IF offset + least <= total THEN offset + least ELSE total
    BY Least
  <2> QED
    BY <2>1
<1>4. \A i \in (offset + 1)..end : list[i] \in S
  BY <1>2, <1>3
<1>5. SubSeq(list, offset + 1, end) \in Seq(S)
  BY <1>4, SubSeqProperties
<1> QED
  BY <1>1, <1>2, <1>3, <1>5 DEF Page

(* The offsets of the pages are numbers.                                   *)
LEMMA OffsetsType ==
  ASSUME NEW total \in Nat, NEW size \in Nat \ {0}
  PROVE  LET offsets == Offsets(total, size)
         IN Len(offsets) \in Nat /\ DOMAIN offsets = 1..Len(offsets)
            /\ \A k \in 1..Len(offsets) : offsets[k] \in Nat
<1>1. PICK n \in Nat : n = (total + size - 1) \div size
  BY RoundUp
<1>2. PICK offsets : offsets = Offsets(total, size)
  OBVIOUS
<1>3. offsets = [k \in 1..n |-> (k - 1) * size]
  BY <1>1, <1>2 DEF Offsets
<1>4. \A k \in 1..n : (k - 1) * size \in Nat
  OBVIOUS
<1> QED
  BY <1>2, <1>3, <1>4

(* A client that asks for page after page up to the total, with any limit, *)
(* gets the list (params.c:40-75).                                         *)
THEOREM WalkIsList ==
  ASSUME NEW S, NEW list \in Seq(S), NEW limit \in Nat, NEW room \in Nat, room >= LimitMax
  PROVE  Walk(list, limit, room) = list
<1>1. PICK size \in Nat \ {0} : size = Clamp(limit)
  BY Clamped, SMTT(60)
<1>2. PICK offsets : offsets = Offsets(Len(list), size)
  OBVIOUS
<1>3. PICK n \in Nat : /\ n = Len(offsets) /\ DOMAIN offsets = 1..n
                       /\ \A k \in 1..n : offsets[k] \in Nat
  <2>1. PICK total \in Nat : total = Len(list)
    OBVIOUS
  <2>2. /\ Len(Offsets(total, size)) \in Nat
        /\ DOMAIN Offsets(total, size) = 1..Len(Offsets(total, size))
        /\ \A k \in 1..Len(Offsets(total, size)) : Offsets(total, size)[k] \in Nat
    BY OffsetsType
  <2> QED
    BY <1>2, <2>1, <2>2, ZenonT(60)
<1>4. DOMAIN offsets = 1..n /\ \A k \in 1..n : offsets[k] \in Nat
  BY <1>3
<1>5. PICK pages : pages = [k \in 1..n |-> Page(list, offsets[k], size, room)]
  OBVIOUS
<1>6. Walk(list, limit, room) = FlattenSeq(pages)
  BY <1>1, <1>2, <1>4, <1>5 DEF Walk
<1>7. Tiled(list, offsets, size, room)
  BY <1>1, <1>2, PagesTile
<1>8. Len(pages) = n
  BY <1>5
<1>9. CASE n = 0
  <2>1. list = <<>>
    BY <1>3, <1>7, <1>9 DEF Tiled
  <2>2. FlattenSeq(pages) = pages
    BY <1>8, <1>9 DEF FlattenSeq
  <2>3. pages = <<>>
    BY <1>5, <1>9
  <2> QED
    BY <1>6, <2>1, <2>2, <2>3
<1>10. CASE n # 0
  <2>1. \A k \in 1..n : offsets[k] \in Nat /\ pages[k] \in Seq(S)
                        /\ IsTile(pages[k], list, offsets, k, size)
    <3> TAKE k \in 1..n
    <3>1. pages[k] = Page(list, offsets[k], size, room) /\ offsets[k] \in Nat
      BY <1>4, <1>5
    <3>2. pages[k] \in Seq(S)
      BY <3>1, PageType, ZenonT(60)
    <3>3. IsTile(pages[k], list, offsets, k, size)
      BY <1>3, <1>7, <3>1 DEF Tiled
    <3> QED
      BY <3>1, <3>2, <3>3
  <2>2. n \in Nat \ {0} /\ size \in Nat /\ Len(offsets) = n
    BY <1>3, <1>10
  <2>3. FlattenSeq(pages) = list
    BY <1>8, <2>1, <2>2, TilesJoined, ZenonT(60)
  <2> QED
    BY <1>6, <2>3
<1> QED
  BY <1>9, <1>10

-----------------------------------------------------------------------------
(***************************************************************************)
(* The lists that are paged through.                                       *)
(***************************************************************************)

(* There are finitely many favourites; the history grows in the order of   *)
(* its dates, none of which is in the future.                              *)
ListsInv ==
  /\ IsFiniteSet(DOMAIN db.favourite)
  /\ \A j \in DOMAIN db.history :
       /\ db.history[j].played <= clock
       /\ \A i \in 1..j : db.history[i].played <= db.history[j].played

(* The dates of the history.                                               *)
LEMMA PlayTimes ==
  ASSUME UserInv
  PROVE  /\ db.history \in Seq(Play) /\ clock \in Nat
         /\ \A j \in DOMAIN db.history : db.history[j].played \in Nat
<1>1. db.history \in Seq(Play) /\ clock \in Nat
  BY DEF UserInv, TypeOK, IsData, Play
<1>2. \A j \in DOMAIN db.history : db.history[j] \in Play
  BY <1>1, LenProperties
<1>3. \A play \in Play : play.played \in Nat
  BY DEF Play
<1> QED
  BY <1>1, <1>2, <1>3

(* A step that changes neither favourites nor plays.                       *)
LEMMA ListsKept ==
  ASSUME UserInv, ListsInv, clock' \in Nat, clock <= clock',
         db'.favourite = db.favourite, db'.history = db.history
  PROVE  ListsInv'
<1>1. \A j \in DOMAIN db.history : db.history[j].played \in Nat /\ clock \in Nat
  BY PlayTimes
<1> QED
  BY <1>1 DEF ListsInv

(* A favourite or a play is recorded.                                      *)
LEMMA InsertLists ==
  ASSUME UserInv, ListsInv, Insert
  PROVE  ListsInv'
<1> DEFINE track == call.tracks[1]
<1>1. /\ track \in Track /\ call.op \in {"favourite", "play"} /\ clock' = clock
      /\ call.op = "favourite" =>
           db' = [version |-> db.version, playlist |-> db.playlist, last |-> db.last,
                  track |-> db.track, history |-> db.history,
                  favourite |-> Put(db.favourite, track, clock)]
      /\ call.op = "play" =>
           db' = [version |-> db.version, playlist |-> db.playlist, last |-> db.last,
                  track |-> db.track, favourite |-> db.favourite,
                  history |-> Append(db.history, [track |-> track, played |-> clock])]
  BY InsertParts
<1>2. db.history \in Seq(Play) /\ clock \in 1..MaxTime
  BY DEF UserInv, TypeOK, IsData, Play
<1> HIDE DEF track
<1>3. CASE call.op = "favourite"
  <2>1. /\ db'.history = db.history
        /\ DOMAIN db'.favourite = DOMAIN db.favourite \cup {track}
    BY <1>1, <1>3 DEF Put
  <2>2. IsFiniteSet(DOMAIN db'.favourite)
    BY <2>1, FS_AddElement DEF ListsInv
  <2> QED
    BY <1>1, <2>1, <2>2 DEF ListsInv
<1>4. CASE call.op = "play"
  <2>1. PICK play \in Play : play = [track |-> track, played |-> clock]
    BY <1>1, <1>2 DEF Play
  <2>2. /\ db'.favourite = db.favourite
        /\ db'.history = Append(db.history, play)
    BY <1>1, <1>4, <2>1
  <2>3. PICK n \in Nat : n = Len(db.history) /\ DOMAIN db.history = 1..n
    BY <1>2
  <2>4. /\ DOMAIN db'.history = 1..(n + 1)
        /\ db'.history[n + 1] = play
        /\ \A i \in 1..n : db'.history[i] = db.history[i]
    BY <1>2, <2>2, <2>3, AppendProperties
  <2>5. ASSUME NEW j \in 1..(n + 1)
        PROVE  /\ db'.history[j].played <= clock
               /\ \A i \in 1..j : db'.history[i].played <= db'.history[j].played
    <3>1. \A i \in 1..n : db.history[i].played <= clock
      BY <2>3 DEF ListsInv
    <3>2. CASE j = n + 1
      <4>1. db'.history[j].played = clock
        BY <2>1, <2>4, <3>2
      <4>2. \A i \in 1..j : i \in 1..n \/ i = j
        BY <3>2
      <4> QED
        BY <1>2, <2>4, <3>1, <4>1, <4>2
    <3>3. CASE j \in 1..n
      <4>1. \A i \in 1..j : i \in 1..n
        BY <3>3
      <4>2. \A i \in 1..j : db.history[i].played <= db.history[j].played
        BY <2>3, <3>3 DEF ListsInv
      <4> QED
        BY <2>4, <3>1, <3>3, <4>1, <4>2
    <3> QED
      BY <3>2, <3>3
  <2> QED
    BY <1>1, <2>2, <2>4, <2>5 DEF ListsInv
<1> QED
  BY <1>1, <1>3, <1>4

(* A favourite is taken away.                                              *)
LEMMA UnfavouriteLists ==
  ASSUME UserInv, ListsInv, NEW track \in Track, Unfavourite(track)
  PROVE  ListsInv'
<1>1. clock' = clock
  BY DEF Unfavourite, outside
<1>2. CASE Failed
  BY <1>1, <1>2 DEF Failed, ListsInv
<1>3. CASE ~Failed
  <2> DEFINE f == Restrict(db.favourite, DOMAIN db.favourite \ {track})
  <2>1. db' = [db EXCEPT !.favourite = f] /\ IsData(db)
    BY <1>3, CallParts DEF Unfavourite
  <2>2. DOMAIN f = DOMAIN db.favourite \ {track}
    BY DEF Restrict
  <2> HIDE DEF f
  <2>3. db' = [version |-> db.version, playlist |-> db.playlist, last |-> db.last,
               track |-> db.track, favourite |-> f, history |-> db.history]
    BY <2>1, TablesReplaced
  <2>4. db'.favourite = f /\ db'.history = db.history
    BY <2>3
  <2>5. IsFiniteSet(DOMAIN f)
    BY <2>2, FS_RemoveElement DEF ListsInv
  <2> QED
    BY <1>1, <2>4, <2>5 DEF ListsInv
<1> QED
  BY <1>2, <1>3

(* Only those two change favourites or plays.                              *)
LEMMA OthersKeepLists ==
  ASSUME UserInv, [Next]_vars, ~Insert, ~\E track \in Track : Unfavourite(track)
  PROVE  db'.favourite = db.favourite /\ db'.history = db.history
<1>1. db = [version |-> db.version, playlist |-> db.playlist, last |-> db.last,
            track |-> db.track, favourite |-> db.favourite, history |-> db.history]
  BY CallParts, DataParts
<1>2. CASE UNCHANGED db
  BY <1>2
<1>3. CASE Open
  <2>1. db' = [db EXCEPT !.version = 1]
    BY <1>3 DEF Open
  <2> QED
    BY <1>1, <2>1
<1>4. CASE \E name \in Name : Create(name) /\ ~Failed
  <2>1. PICK name \in Name : Create(name) /\ ~Failed
    BY <1>4
  <2>2. /\ db' = [version |-> db.version,
                  playlist |-> Put(db.playlist, NextPlaylistId, name),
                  last |-> NextPlaylistId, track |-> db.track,
                  favourite |-> db.favourite, history |-> db.history]
    BY <2>1, CallParts, CreateParts DEF Create
  <2> QED
    BY <2>2
<1>5. CASE \E name \in Name, id \in 1..MaxPlaylists : Rename(id, name) /\ ~Failed
  <2>1. PICK name \in Name, id \in 1..MaxPlaylists : Rename(id, name) /\ ~Failed
    BY <1>5
  <2>2. PICK p : p = [db.playlist EXCEPT ![id] = name]
    OBVIOUS
  <2>3. db' = [db EXCEPT !.playlist = p] /\ IsData(db)
    BY <2>1, <2>2, CallParts DEF Rename
  <2>4. db' = [version |-> db.version, playlist |-> p, last |-> db.last,
               track |-> db.track, favourite |-> db.favourite, history |-> db.history]
    BY <2>3, TablesReplaced
  <2> QED
    BY <2>4
<1>6. CASE Commit
  <2>1. /\ IsData(db) /\ call.op \in {"set", "delete"} /\ call.tracks \in Seq(Track)
        /\ call.id \in DOMAIN db.playlist
        /\ call.op = "set" =>
             /\ db' = WithTracks(db, call.id, call.tracks, Len(call.tracks))
             /\ Len(call.tracks) <= MaxRows
        /\ call.op = "delete" => db' = WithoutPlaylist(db, call.id)
    BY <1>6, CommitParts, CallParts
  <2>2. Len(call.tracks) \in 0..Len(call.tracks)
    BY <2>1
  <2>3. CASE call.op = "set"
    BY <2>1, <2>2, <2>3, WithTracksParts
  <2>4. CASE call.op = "delete"
    BY <2>1, <2>4, WithoutPlaylistParts
  <2> QED
    BY <2>1, <2>3, <2>4
<1>7. CASE \/ Tick \/ Rescan \/ Refuse \/ Die \/ UNCHANGED vars
           \/ \E name \in Name : Create(name) /\ Failed
           \/ \E name \in Name, id \in 1..MaxPlaylists : Rename(id, name) /\ Failed
           \/ \E id \in 1..MaxPlaylists :
                Delete(id) \/ \E tracks \in BoundedSeq(Track, MaxRows) : PutTracks(id, tracks)
           \/ \E track \in Track : PutFavourite(track) \/ PostPlay(track)
           \/ Check \/ Begin \/ DeleteRows \/ InsertRow \/ Touch \/ DropPlaylist \/ Fail
  <2>1. call.at \in {"delete", "rows", "drop"} => inside = TRUE
    BY DEF UserInv, TypeOK, WorkInv
  <2>2. UNCHANGED db
    BY <1>7, <2>1 DEF Tick, Rescan, Refuse, Die, vars, Delete, PutTracks, PutFavourite,
       PostPlay, Request, Begin, DeleteRows, InsertRow, Touch, DropPlaylist, Fail, Check,
       Execute, Failed
  <2> QED
    BY <2>2
<1> QED
  BY NextActions, <1>3, <1>4, <1>5, <1>6, <1>7

(* Time does not run backwards.                                            *)
LEMMA ClockGrows ==
  ASSUME UserInv, [Next]_vars
  PROVE  clock' \in Nat /\ clock <= clock'
<1>1. clock \in Nat
  BY DEF UserInv, TypeOK
<1>2. clock' = clock \/ clock' = clock + 1
  BY NextActions DEF vars, outside, Tick, SwapCatalog, Rescan, Open, Refuse, Die, Create,
     Rename, Unfavourite, Request, Delete, PutTracks, PutFavourite, PostPlay, Check, Insert,
     Begin, DeleteRows, InsertRow, Touch, DropPlaylist, Commit, Fail
<1> QED
  BY <1>1, <1>2

(* Every step keeps the lists in order.                                    *)
LEMMA ListsInvariance == Spec => []ListsInv
<1>1. Init => ListsInv
  <2> SUFFICES ASSUME Init
               PROVE  ListsInv
    OBVIOUS
  <2>1. DOMAIN db.favourite = {} /\ DOMAIN db.history = {}
    BY DEF Init, NoData
  <2> QED
    BY <2>1, FS_EmptySet DEF ListsInv
<1>2. UserInv /\ ListsInv /\ [Next]_vars => ListsInv'
  <2> SUFFICES ASSUME UserInv, ListsInv, [Next]_vars
               PROVE  ListsInv'
    OBVIOUS
  <2>1. CASE Insert
    BY <2>1, InsertLists
  <2>2. CASE \E track \in Track : Unfavourite(track)
    BY <2>2, UnfavouriteLists
  <2>3. CASE ~Insert /\ ~\E track \in Track : Unfavourite(track)
    BY <2>3, OthersKeepLists, ClockGrows, ListsKept
  <2> QED
    BY <2>1, <2>2, <2>3
<1> QED
  BY <1>1, <1>2, UserInvariance, PTL DEF Spec

(* A function on the first numbers is a sequence.                          *)
LEMMA AnyList ==
  ASSUME NEW n \in Nat, NEW f, f = [i \in 1..n |-> f[i]]
  PROVE  f \in Seq({f[i] : i \in 1..n})
<1>1. f \in [1..n -> {f[i] : i \in 1..n}]
  OBVIOUS
<1> QED
  BY <1>1, SeqDef

(* So a client gets any list.                                              *)
LEMMA AnyWalk ==
  ASSUME NEW n \in Nat, NEW list, list = [i \in 1..n |-> list[i]],
         NEW limit \in 0..(LimitMax + 1)
  PROVE  Walk(list, limit, TrackPage) = list
<1>1. limit \in Nat /\ TrackPage \in Nat /\ TrackPage >= LimitMax
  BY LimitAssumption
<1>2. PICK S : list \in Seq(S)
  BY AnyList
<1> QED
  BY <1>1, <1>2, WalkIsList

(* How many the first n numbers are.                                       *)
LEMMA Counted ==
  ASSUME NEW n \in Nat
  PROVE  Cardinality(1..n) = n
<1>1. Cardinality(1..n) = IF 1 > n THEN 0 ELSE n - 1 + 1
  BY FS_Interval
<1>2. 1 > n => n = 0
  OBVIOUS
<1>3. n - 1 + 1 = n
  OBVIOUS
<1> QED
  BY <1>1, <1>2, <1>3

(* The history is listed from its end.                                     *)
LEMMA PlayedReversed ==
  ASSUME UserInv, ListsInv
  PROVE  PlayedIds = Reverse([i \in DOMAIN db.history |-> db.history[i].track])
<1>1. db.history \in Seq(Play)
  BY DEF UserInv, TypeOK, IsData, Play
<1>2. PICK n \in Nat : n = Len(db.history) /\ DOMAIN db.history = 1..n
  BY <1>1
<1>3. \A i \in 1..n : db.history[i].played \in Nat
  BY <1>2, PlayTimes
<1>4. \A i \in 1..n : \A j \in i..n : db.history[i].played <= db.history[j].played
  <2> TAKE i \in 1..n
  <2> TAKE j \in i..n
  <2>1. j \in DOMAIN db.history /\ i \in 1..j
    BY <1>2
  <2> QED
    BY <2>1 DEF ListsInv
<1>5. \A i \in 1..n : \A j \in 1..n : LaterPlay(j, i) <=> j > i
  <2> TAKE i \in 1..n
  <2> TAKE j \in 1..n
  <2>1. /\ j > i => db.history[i].played <= db.history[j].played
        /\ j <= i => db.history[j].played <= db.history[i].played
    BY <1>4
  <2> QED
    BY <1>3, <2>1 DEF LaterPlay
<1>6. \A i \in 1..n : Cardinality({j \in 1..n : LaterPlay(j, i)}) = n - i
  <2> TAKE i \in 1..n
  <2>1. {j \in 1..n : LaterPlay(j, i)} = (i + 1)..n
    BY <1>5
  <2>2. Cardinality((i + 1)..n) = IF i + 1 > n THEN 0 ELSE n - (i + 1) + 1
    BY FS_Interval
  <2>3. Cardinality((i + 1)..n) = n - i
    BY <2>2
  <2> QED
    BY <2>1, <2>3, Zenon
<1>7. \A k \in 1..n : Nth(1..n, LaterPlay, k) = n - k + 1
  <2> TAKE k \in 1..n
  <2>1. n - k + 1 \in 1..n
    OBVIOUS
  <2>2. \A i \in 1..n : n - i = k - 1 <=> i = n - k + 1
    OBVIOUS
  <2>3. \A i \in 1..n : Cardinality({j \in 1..n : LaterPlay(j, i)}) = k - 1 <=> i = n - k + 1
    BY <1>6, <2>2
  <2> QED
    BY <2>1, <2>3 DEF Nth
<1>8. Ordered(DOMAIN db.history, LaterPlay) = [k \in 1..n |-> n - k + 1]
  <2>1. Cardinality(1..n) = n
    BY Counted
  <2> QED
    BY <1>2, <1>7, <2>1 DEF Ordered
<1>9. PlayedIds = [k \in 1..n |-> db.history[n - k + 1].track]
  BY <1>8 DEF PlayedIds
<1>10. PICK tracks : tracks = [i \in DOMAIN db.history |-> db.history[i].track]
  OBVIOUS
<1>11. Len(tracks) = n /\ \A k \in 1..n : tracks[(n - k) + 1] = db.history[n - k + 1].track
  BY <1>2, <1>10
<1>12. Reverse(tracks) = [k \in 1..n |-> db.history[n - k + 1].track]
  BY <1>11 DEF Reverse
<1> QED
  BY <1>9, <1>10, <1>12

(* A client that pages through favourites, history or a playlist, with any *)
(* limit, gets each of their tracks that the catalogue has, once each and  *)
(* in order, whatever entries are left out on the way; the history newest  *)
(* first, also within one second.                                          *)
THEOREM PagesShow == Spec => []PagesShowTracks
<1>1. UserInv /\ ListsInv => PagesShowTracks
  <2> SUFFICES ASSUME UserInv, ListsInv, NEW limit \in 0..(LimitMax + 1)
               PROVE  /\ Shown(Walk(PlayedIds, limit, TrackPage)) =
                           Shown(Reverse([i \in DOMAIN db.history |-> db.history[i].track]))
                      /\ \A list \in {FavouriteIds} \cup {TracksOf(id) : id \in DOMAIN db.playlist} :
                           Shown(Walk(list, limit, TrackPage)) = Shown(list)
    BY DEF PagesShowTracks
  <2>1. Walk(PlayedIds, limit, TrackPage) = PlayedIds
    <3>1. PICK n \in Nat : n = Len(db.history) /\ DOMAIN db.history = 1..n
      BY PlayTimes
    <3>2. Cardinality(1..n) = n
      BY Counted
    <3>3. DOMAIN Ordered(DOMAIN db.history, LaterPlay) = 1..n
      BY <3>1, <3>2 DEF Ordered
    <3>4. PICK plays : plays = Ordered(DOMAIN db.history, LaterPlay) /\ DOMAIN plays = 1..n
      BY <3>3
    <3>5. PICK list : list = PlayedIds
      OBVIOUS
    <3>6. list = [i \in 1..n |-> db.history[plays[i]].track]
      BY <3>4, <3>5 DEF PlayedIds
    <3>7. list = [i \in 1..n |-> list[i]]
      BY <3>6
    <3> QED
      BY <3>5, <3>7, AnyWalk
  <2>2. Walk(FavouriteIds, limit, TrackPage) = FavouriteIds
    <3>1. PICK n \in Nat : n = Cardinality(DOMAIN db.favourite)
      BY FS_CardinalityType DEF ListsInv
    <3>2. PICK list : list = FavouriteIds
      OBVIOUS
    <3>3. list = [i \in 1..n |-> Nth(DOMAIN db.favourite, LaterFavourite, i)]
      BY <3>1, <3>2 DEF FavouriteIds, Ordered
    <3>4. list = [i \in 1..n |-> list[i]]
      BY <3>3
    <3> QED
      BY <3>2, <3>4, AnyWalk
  <2>3. ASSUME NEW id \in DOMAIN db.playlist
        PROVE  Walk(TracksOf(id), limit, TrackPage) = TracksOf(id)
    <3>1. PICK n \in Nat : RowsOf(db, id) = Block(id, n)
      BY RowsBlock
    <3>2. PICK list : list = TracksOf(id)
      OBVIOUS
    <3>3. list = [i \in 1..n |-> db.track[<<id, i - 1>>]]
      BY <3>1, <3>2, TracksInOrder DEF TracksOf
    <3>4. list = [i \in 1..n |-> list[i]]
      BY <3>3
    <3> QED
      BY <3>2, <3>4, AnyWalk
  <2> QED
    BY <2>1, <2>2, <2>3, PlayedReversed
<1> QED
  BY <1>1, UserInvariance, ListsInvariance, PTL
=============================================================================
