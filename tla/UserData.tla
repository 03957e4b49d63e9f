------------------------------ MODULE UserData ------------------------------
(***************************************************************************)
(* What the user store (src/include/media_server/library/user_store.h)     *)
(* promises: playlists with an ordered list of tracks, favourites and a    *)
(* history of plays.  Every call happens wholly or not at all, even when   *)
(* it fails or the process dies in the middle of it, and the id of a       *)
(* playlist is used for one playlist only.                                 *)
(***************************************************************************)
EXTENDS Naturals, Sequences

CONSTANTS Track,   \* ids of tracks
          Name,    \* names of playlists
          Time     \* what the clock may show

VARIABLES
  playlists,    \* the name and the tracks of each playlist, by its id
  used,         \* the ids ever given to a playlist
  favourites,   \* a set of tracks
  plays         \* the tracks played and when, oldest first

vars == <<playlists, used, favourites, plays>>

Init ==
  /\ playlists = [id \in {} |-> id] /\ used = {}
  /\ favourites = {} /\ plays = <<>>

Create(id, name) ==
  /\ id \in Nat \ used
  /\ used' = used \cup {id}
  /\ playlists' = [i \in DOMAIN playlists \cup {id} |->
                     IF i = id THEN [name |-> name, tracks |-> <<>>]
                     ELSE playlists[i]]
  /\ UNCHANGED <<favourites, plays>>

Rename(id, name) ==
  /\ id \in DOMAIN playlists
  /\ playlists' = [playlists EXCEPT ![id].name = name]
  /\ UNCHANGED <<used, favourites, plays>>

SetTracks(id) ==
  /\ id \in DOMAIN playlists \cap DOMAIN playlists'
  /\ playlists' = [playlists EXCEPT ![id].tracks = playlists'[id].tracks]
  /\ playlists'[id].tracks \in Seq(Track)
  /\ UNCHANGED <<used, favourites, plays>>

Delete(id) ==
  /\ id \in DOMAIN playlists
  /\ playlists' = [i \in DOMAIN playlists \ {id} |-> playlists[i]]
  /\ UNCHANGED <<used, favourites, plays>>

Favourite(track) ==
  /\ favourites' = favourites \cup {track}
  /\ UNCHANGED <<playlists, used, plays>>

Unfavourite(track) ==
  /\ favourites' = favourites \ {track}
  /\ UNCHANGED <<playlists, used, plays>>

Play(track, time) ==
  /\ plays' = Append(plays, [track |-> track, played |-> time])
  /\ UNCHANGED <<playlists, used, favourites>>

(* The store chooses the id of a new playlist.                             *)
Next ==
  \/ \E id \in DOMAIN playlists', name \in Name : Create(id, name)
  \/ \E id \in DOMAIN playlists :
       \/ Delete(id) \/ SetTracks(id)
       \/ \E name \in Name : Rename(id, name)
  \/ \E track \in Track :
       Favourite(track) \/ Unfavourite(track) \/ \E time \in Time : Play(track, time)

Spec == Init /\ [][Next]_vars
=============================================================================
