----------------------------- MODULE UserStore ------------------------------
(***************************************************************************)
(* The user store (src/src/library/user_store.c), statement by statement,  *)
(* and the handlers that call it (src/src/api/playlists.c, favourites.c,   *)
(* history.c, media_serve.c).  A statement may fail, the process may die   *)
(* between any two, and the scan worker swaps the catalogue meanwhile: a   *)
(* handler checks track ids under ctx->mu and writes them after it.        *)
(*                                                                         *)
(* One connection, used by the main thread only: one call at a time.  The  *)
(* dates of a playlist are left out: nothing depends on them.              *)
(*                                                                         *)
(* An operator whose name ends in an underscore and a word is a faulty     *)
(* variant of the operator that follows it, for mutation checks only.      *)
(***************************************************************************)
EXTENDS Naturals, Sequences, FiniteSets, SequencesExt, FiniteSetsExt, Functions

CONSTANTS Track,         \* ids of audio items
          Name,          \* names of playlists
          LimitMax,      \* API_PAGE_LIMIT_MAX
          PlaylistPage,  \* the playlists a reply has room for
          TrackPage,     \* the tracks a reply has room for
          MaxPlaylists, MaxRows, MaxTime   \* bounds on ids, entries and the clock

ASSUME TrackAssumption == Track \subseteq Nat \ {0}
ASSUME LimitAssumption ==
  /\ LimitMax \in Nat \ {0} /\ PlaylistPage \in Nat \ {0}
  /\ TrackPage \in Nat /\ TrackPage >= LimitMax
ASSUME BoundAssumption ==
  MaxPlaylists \in Nat /\ MaxRows \in Nat /\ MaxTime \in Nat \ {0}

VARIABLES
  db,        \* the database file
  work,      \* what the open transaction has made of it
  inside,    \* whether a transaction is open
  phase,     \* of the process
  call,      \* the handler under way
  reply,     \* of the last handler
  clock,     \* time(NULL)
  present,   \* the audio ids of the catalogue that is served
  served     \* history: every audio id ever served

vars == <<db, work, inside, phase, call, reply, clock, present, served>>
outside == <<clock, present, served>>

(* version is schema_version, 0 before it is inserted; last the highest id *)
(* an AUTOINCREMENT has given; rows of tracks are keyed by their playlist  *)
(* and position, those of history by their own AUTOINCREMENT.              *)
NoData == [version |-> 0, playlist |-> <<>>, last |-> 0, track |-> <<>>,
           favourite |-> <<>>, history |-> <<>>]

NoCall == [op |-> "none", at |-> "none", id |-> 0, tracks |-> <<>>]

Init ==
  /\ \E version \in {0, 1, 2} : db = [NoData EXCEPT !.version = version]
  /\ work = NoData /\ inside = FALSE
  /\ phase = "down" /\ call = NoCall /\ reply = "none"
  /\ clock = 1 /\ present = {} /\ served = {}

-----------------------------------------------------------------------------
(***************************************************************************)
(* The environment.                                                        *)
(***************************************************************************)

Tick ==
  /\ clock < MaxTime /\ clock' = clock + 1
  /\ UNCHANGED <<db, work, inside, phase, call, reply, present, served>>

SwapCatalog ==
  /\ \E ids \in SUBSET Track : present' = ids /\ served' = served \cup ids
  /\ UNCHANGED clock

Rescan ==
  /\ phase = "up" /\ SwapCatalog
  /\ UNCHANGED <<db, work, inside, phase, call, reply>>

(* user_store_open: ensure_schema makes what is missing and refuses a      *)
(* version it does not know.                                               *)
Known(version) == version \in {0, 1}

Open ==
  /\ phase # "up" /\ Known(db.version)
  /\ phase' = "up" /\ db' = [db EXCEPT !.version = 1]
  /\ SwapCatalog
  /\ UNCHANGED <<work, inside, call, reply>>

Refuse ==
  /\ phase # "up" /\ ~Known(db.version)
  /\ phase' = "refused"
  /\ UNCHANGED <<db, work, inside, call, reply, outside>>

Die ==
  /\ phase = "up" /\ phase' = "down"
  /\ work' = NoData /\ inside' = FALSE /\ call' = NoCall /\ reply' = "none"
  /\ present' = {}
  /\ UNCHANGED <<db, clock, served>>

-----------------------------------------------------------------------------
(***************************************************************************)
(* Statements change the open transaction, or else the database itself.    *)
(***************************************************************************)

Data == IF inside THEN work ELSE db

Execute(data) ==
  IF inside THEN work' = data /\ UNCHANGED db ELSE db' = data /\ UNCHANGED work

RowsOf(data, id) == {row \in DOMAIN data.track : row[1] = id}

WithoutRows(data, id) ==
  [data EXCEPT !.track = Restrict(@, DOMAIN @ \ RowsOf(data, id))]

(* ON DELETE CASCADE.                                                      *)
WithoutPlaylist(data, id) ==
  [WithoutRows(data, id) EXCEPT !.playlist = Restrict(@, DOMAIN @ \ {id})]

Put(f, x, y) == [z \in DOMAIN f \cup {x} |-> IF z = x THEN y ELSE f[z]]

NextPlaylistId_FromRows == Max(DOMAIN db.playlist \cup {0}) + 1
NextPlaylistId_FromZero == db.last
NextPlaylistId == db.last + 1

-----------------------------------------------------------------------------
(***************************************************************************)
(* Handlers of one statement.  Whether it fails is up to the system; the   *)
(* row that was inserted or renamed is then read for the reply, which may  *)
(* fail as well.                                                           *)
(***************************************************************************)

Idle == phase = "up" /\ call = NoCall

Failed == reply' = "error" /\ UNCHANGED db
Answered == reply' \in {"ok", "error"}

Create(name) ==
  /\ Idle /\ NextPlaylistId <= MaxPlaylists
  /\ \/ /\ db' = [db EXCEPT !.playlist = Put(@, NextPlaylistId, name),
                            !.last = Max({@, NextPlaylistId})]
        /\ Answered
     \/ Failed
  /\ UNCHANGED <<work, inside, phase, call, outside>>

Rename(id, name) ==
  /\ Idle
  /\ \/ /\ id \in DOMAIN db.playlist
        /\ db' = [db EXCEPT !.playlist[id] = name]
        /\ Answered
     \/ Failed
  /\ UNCHANGED <<work, inside, phase, call, outside>>

Unfavourite(track) ==
  /\ Idle
  /\ \/ /\ db' = [db EXCEPT !.favourite = Restrict(@, DOMAIN @ \ {track})]
        /\ reply' = "ok"
     \/ Failed
  /\ UNCHANGED <<work, inside, phase, call, outside>>

-----------------------------------------------------------------------------
(***************************************************************************)
(* Handlers that check the track ids of the request first.                 *)
(***************************************************************************)

Request(op, at, id, tracks) ==
  /\ Idle
  /\ call' = [op |-> op, at |-> at, id |-> id, tracks |-> tracks]
  /\ reply' = "none"
  /\ UNCHANGED <<db, work, inside, phase, outside>>

Answer(result) == call' = NoCall /\ reply' = result

Goto(at) == call' = [call EXCEPT !.at = at] /\ UNCHANGED reply

Rows == Cardinality(DOMAIN db.track) + Cardinality(DOMAIN db.favourite) + Len(db.history)

PutTracks(id, tracks) ==
  /\ id \in DOMAIN db.playlist
  /\ Rows + Len(tracks) - Cardinality(RowsOf(db, id)) <= MaxRows
  /\ Request("set", "check", id, tracks)
PutFavourite(track) == Rows < MaxRows /\ Request("favourite", "check", 0, <<track>>)
(* Also a stream, whose reply does not depend on it.                       *)
PostPlay(track) == Rows < MaxRows /\ Request("play", "check", 0, <<track>>)
Delete(id) == Request("delete", "begin", id, <<>>)

Valid_Unchecked == TRUE
Valid == Range(call.tracks) \subseteq present

Check ==
  /\ call.at = "check"
  /\ IF Valid THEN Goto(IF call.op = "set" THEN "begin" ELSE "insert")
              ELSE Answer("error")
  /\ UNCHANGED <<db, work, inside, phase, outside>>

Played_Distinct(history, entry) ==
  Append(SelectSeq(history, LAMBDA e : e.track # entry.track), entry)
Played(history, entry) == Append(history, entry)

(* INSERT ... ON CONFLICT DO UPDATE, or the insert into play_history.      *)
Insert ==
  /\ call.at = "insert"
  /\ LET track == Head(call.tracks) IN
     Execute(IF call.op = "favourite"
             THEN [db EXCEPT !.favourite = Put(@, track, clock)]
             ELSE [db EXCEPT !.history =
                     Played(@, [track |-> track, played |-> clock])])
  /\ Answer("ok")
  /\ UNCHANGED <<inside, phase, outside>>

-----------------------------------------------------------------------------
(***************************************************************************)
(* The two transactions: user_store_playlist_set_tracks deletes the rows   *)
(* of the playlist, inserts the new ones and touches it; user_store_       *)
(* playlist_delete deletes the rows and then the playlist.                 *)
(***************************************************************************)

Begins_Autocommit == UNCHANGED <<work, inside>>
Begins == inside' = TRUE /\ work' = db

Begin ==
  /\ call.at = "begin" /\ Begins
  /\ Goto("delete")
  /\ UNCHANGED <<db, phase, outside>>

DeleteRows ==
  /\ call.at = "delete"
  /\ Execute(WithoutRows(Data, call.id))
  /\ Goto(IF call.op = "delete" THEN "drop"
          ELSE IF call.tracks = <<>> THEN "touch" ELSE "rows")
  /\ UNCHANGED <<inside, phase, outside>>

Position_FromOne(data) == Cardinality(RowsOf(data, call.id)) + 1
Position(data) == Cardinality(RowsOf(data, call.id))

InsertRow ==
  /\ call.at = "rows"
  /\ LET i == Cardinality(RowsOf(Data, call.id)) IN
     /\ Execute([Data EXCEPT !.track =
                   Put(@, <<call.id, Position(Data)>>, call.tracks[i + 1])])
     /\ Goto(IF i + 1 = Len(call.tracks) THEN "touch" ELSE "rows")
  /\ UNCHANGED <<inside, phase, outside>>

Touch ==
  /\ call.at = "touch"
  /\ Goto("commit")
  /\ UNCHANGED <<db, work, inside, phase, outside>>

(* sqlite3_changes tells whether there was a playlist.                     *)
DropPlaylist ==
  /\ call.at = "drop" /\ call.id \in DOMAIN Data.playlist
  /\ Execute(WithoutPlaylist(Data, call.id))
  /\ Goto("commit")
  /\ UNCHANGED <<inside, phase, outside>>

Commit ==
  /\ call.at = "commit"
  /\ db' = Data /\ work' = NoData /\ inside' = FALSE
  /\ Answer("ok")
  /\ UNCHANGED <<phase, outside>>

(* A statement fails, or finds nothing to delete: ROLLBACK.                *)
Fail ==
  /\ call.at \notin {"none", "check"}
  /\ work' = NoData /\ inside' = FALSE
  /\ Answer("error")
  /\ UNCHANGED <<db, phase, outside>>

-----------------------------------------------------------------------------
Environment == Tick \/ Rescan \/ Open \/ Refuse \/ Die

RequestAny ==
  \/ \E name \in Name : Create(name) \/ \E id \in 1..MaxPlaylists : Rename(id, name)
  \/ \E id \in 1..MaxPlaylists :
       Delete(id) \/ \E tracks \in BoundedSeq(Track, MaxRows) : PutTracks(id, tracks)
  \/ \E track \in Track : PutFavourite(track) \/ Unfavourite(track) \/ PostPlay(track)

Handle ==
  Check \/ Insert \/ Begin \/ DeleteRows \/ InsertRow \/ Touch \/ DropPlaylist
    \/ Commit \/ Fail

Next == Environment \/ RequestAny \/ Handle

Spec == Init /\ [][Next]_vars

-----------------------------------------------------------------------------
(***************************************************************************)
(* What the lists show, and in which order.                                *)
(***************************************************************************)

(* A set in the order an ORDER BY gives it, by how many come before: what  *)
(* SortSeq computes is hidden from the provers.                            *)
Nth(S, Before(_, _), n) ==
  CHOOSE x \in S : Cardinality({y \in S : Before(y, x)}) = n - 1
Ordered(S, Before(_, _)) == [n \in 1..Cardinality(S) |-> Nth(S, Before, n)]

PlaylistIds == Ordered(DOMAIN db.playlist, LAMBDA a, b : a < b)

(* ORDER BY position.                                                      *)
RowAt(data, id, i) == Nth(RowsOf(data, id), LAMBDA a, b : a[2] < b[2], i)

TracksIn(data, id) ==
  [i \in 1..Cardinality(RowsOf(data, id)) |-> data.track[RowAt(data, id, i)]]

TracksOf(id) == TracksIn(db, id)

(* ORDER BY added_unix DESC, track_id DESC.                                *)
LaterFavourite(a, b) ==
  \/ db.favourite[a] > db.favourite[b]
  \/ db.favourite[a] = db.favourite[b] /\ a > b

FavouriteIds == Ordered(DOMAIN db.favourite, LaterFavourite)

(* ORDER BY played_unix DESC, id DESC.                                     *)
LaterPlay_OldestFirst(i, j) ==
  \/ db.history[i].played > db.history[j].played
  \/ db.history[i].played = db.history[j].played /\ i < j
LaterPlay(i, j) ==
  \/ db.history[i].played > db.history[j].played
  \/ db.history[i].played = db.history[j].played /\ i > j

PlayedIds ==
  LET plays == Ordered(DOMAIN db.history, LaterPlay)
  IN [i \in DOMAIN plays |-> db.history[plays[i]].track]

(* api_page_parse.                                                         *)
Clamp(limit) == Max({1, Min({limit, LimitMax})})

(* LIMIT and OFFSET; room is what the handler's array holds.               *)
Page_OneLess(list, offset, limit, room) ==
  SubSeq(list, offset + 1, Min({offset + Min({limit, room}) - 1, Len(list)}))
Page(list, offset, limit, room) ==
  SubSeq(list, offset + 1, Min({offset + Min({limit, room}), Len(list)}))

(* Tracks the catalogue does not have are left out of the reply, but total *)
(* counts them.                                                            *)
Shown(list) == SelectSeq(list, LAMBDA id : id \in present)

(* What a client gets that asks for page after page up to the total.       *)
Offsets(total, limit) == [k \in 1..((total + limit - 1) \div limit) |-> (k - 1) * limit]

Walk(list, limit, room) ==
  LET offsets == Offsets(Len(list), Clamp(limit))
  IN FlattenSeq([k \in DOMAIN offsets |->
                   Page(list, offsets[k], Clamp(limit), room)])

-----------------------------------------------------------------------------
(***************************************************************************)
(* Properties                                                              *)
(***************************************************************************)

Partial(f, D, R) == DOMAIN f \subseteq D /\ f \in [DOMAIN f -> R]

IsData(data) ==
  /\ data \in [version : 0..2, last : 0..MaxPlaylists,
               playlist : {data.playlist}, track : {data.track},
               favourite : {data.favourite},
               history : Seq([track : Track, played : 1..MaxTime])]
  /\ Partial(data.playlist, 1..data.last, Name)
  /\ Partial(data.track, (1..data.last) \X (0..MaxRows), Track)
  /\ Partial(data.favourite, Track, 1..MaxTime)

Calls ==
  [op : {"none", "set", "delete", "favourite", "play"},
   at : {"none", "check", "insert", "begin", "delete", "rows", "touch", "drop", "commit"},
   id : 0..MaxPlaylists, tracks : Seq(Track)]

(* The type of every variable.                                             *)
TypeOK ==
  /\ IsData(db) /\ IsData(work) /\ inside \in BOOLEAN
  /\ phase \in {"down", "up", "refused"} /\ reply \in {"none", "ok", "error"}
  /\ call \in Calls
  /\ clock \in 1..MaxTime /\ present \subseteq Track /\ served \subseteq Track

(* The inductive invariant of the proofs: the statements of a call come in *)
(* their order, and the open transaction holds what those before made.     *)
StagesInv ==
  /\ call.at = "none" \/ phase # "up" => call = NoCall
  /\ call.at # "none" => reply = "none"
  /\ call.at \in {"rows", "touch"} => call.op = "set"
  /\ call.at = "drop" => call.op = "delete"
  /\ call.at \in {"begin", "delete", "commit"} => call.op \in {"set", "delete"}
  /\ call.at = "insert" => call.op \in {"favourite", "play"}
  /\ call.at = "check" => call.op \in {"set", "favourite", "play"}
  /\ call.op \in {"favourite", "play"} => Len(call.tracks) = 1
  /\ call.op = "set" => call.id \in DOMAIN db.playlist /\ Len(call.tracks) <= MaxRows

(* The rows of the first k tracks of the list take the place of the rows   *)
(* of the playlist.                                                        *)
WithTracks(data, id, tracks, k) ==
  [data EXCEPT !.track =
     [row \in (DOMAIN @ \ RowsOf(data, id)) \cup ({id} \X (0..(k - 1))) |->
        IF row[1] = id THEN tracks[row[2] + 1] ELSE data.track[row]]]

WorkInv ==
  /\ inside <=> call.at \in {"delete", "rows", "touch", "drop", "commit"}
  /\ ~inside => work = NoData
  /\ call.at = "delete" => work = db
  /\ call.at = "drop" => work = WithoutRows(db, call.id)
  /\ call.at = "rows" => \E k \in 0..(Len(call.tracks) - 1) :
                          work = WithTracks(db, call.id, call.tracks, k)
  /\ call.at = "touch" \/ (call.at = "commit" /\ call.op = "set") =>
       work = WithTracks(db, call.id, call.tracks, Len(call.tracks))
  /\ call.at = "commit" /\ call.op = "delete" =>
       call.id \in DOMAIN db.playlist /\ work = WithoutPlaylist(db, call.id)

(* The positions of a playlist are counted from 0 without a gap.           *)
RowsInv ==
  /\ \A row \in DOMAIN db.track : row[1] \in DOMAIN db.playlist
  /\ \A id \in DOMAIN db.playlist :
       \E n \in 0..MaxRows : RowsOf(db, id) = {id} \X (0..(n - 1))

(* What was checked stays a track that was served.                         *)
ServedInv ==
  /\ present \subseteq served
  /\ call.at \notin {"none", "check"} => Range(call.tracks) \subseteq served
  /\ Range(db.track) \cup DOMAIN db.favourite \subseteq served
  /\ \A i \in DOMAIN db.history : db.history[i].track \in served

UserInv == TypeOK /\ StagesInv /\ WorkInv /\ RowsInv /\ ServedInv

(* In the database file every row of tracks belongs to a playlist, and the *)
(* positions of a playlist are 0, 1, 2, ..., whenever the process dies.    *)
RowsInOrder ==
  \A row \in DOMAIN db.track :
    /\ row[1] \in DOMAIN db.playlist
    /\ row[2] > 0 => <<row[1], row[2] - 1>> \in DOMAIN db.track

(* Every id the store holds was the id of a track some catalogue served,   *)
(* although the catalogue may be another one when the id is written.       *)
RecordedWasServed ==
  /\ Range(db.track) \cup DOMAIN db.favourite \subseteq served
  /\ \A i \in DOMAIN db.history : db.history[i].track \in served

(* The reply to a new list of tracks is the truth: the tracks of a playlist *)
(* change when the request for it is answered with ok, to what it asked    *)
(* for, and never on the way to an error.                                  *)
TracksReplyTrue ==
  [][\A id \in 1..MaxPlaylists :
       LET accepted == call.op = "set" /\ call.id = id /\ reply' = "ok" IN
       /\ accepted => TracksOf(id)' = call.tracks
       /\ TracksOf(id)' # TracksOf(id) => accepted \/ id \notin DOMAIN db'.playlist]_vars

(* A client that pages through favourites, history or a playlist, with any *)
(* limit, gets each of their tracks that the catalogue has, once each and  *)
(* in order, whatever entries are left out on the way; the history newest  *)
(* first, also within one second.                                          *)
PagesShowTracks ==
  LET pages(list, limit) == Shown(Walk(list, limit, TrackPage)) IN
  \A limit \in 0..(LimitMax + 1) :
    /\ pages(PlayedIds, limit) =
         Shown(Reverse([i \in DOMAIN db.history |-> db.history[i].track]))
    /\ \A list \in {FavouriteIds} \cup {TracksOf(id) : id \in DOMAIN db.playlist} :
         pages(list, limit) = Shown(list)

(* A client that pages through the playlists, with any limit, gets each of *)
(* them.                                                                   *)
PagesShowPlaylists ==
  \A limit \in 0..(LimitMax + 1) : Walk(PlaylistIds, limit, PlaylistPage) = PlaylistIds

Promise ==
  INSTANCE UserData WITH
    playlists <- [id \in DOMAIN db.playlist |->
                    [name |-> db.playlist[id], tracks |-> TracksOf(id)]],
    used <- 1..db.last,
    favourites <- DOMAIN db.favourite,
    plays <- db.history,
    Time <- 1..MaxTime

(* The store keeps its promise: calls are atomic, whatever statement fails *)
(* and whenever the process dies, ids of playlists are not reused, and a   *)
(* play never replaces an earlier one.                                     *)
ImplementsUserData == Promise!Spec
=============================================================================
