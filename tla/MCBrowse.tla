------------------------------ MODULE MCBrowse ------------------------------
(***************************************************************************)
(* TLC instances of Browse: an album with two discs, its directory, and    *)
(* one-level and loose tracks.  The segments are names that tags have too. *)
(***************************************************************************)
EXTENDS Browse

Discs == {<<"A", "X", "CD1">>, <<"A", "X", "CD2">>}
Dirs == Discs \cup {<<"B">>, <<>>}
Parents == {<<"A", "X">>, <<"B">>}

\* Three tracks; two tracks with one or two images.
Tracks == {<<3, 0>>, <<2, 1>>, <<2, 2>>}
Upload == {<<2, 1>>}
Items == <<3, 4, 3>>   \* by the number of tracks

\* Bounds: three tracks are not loose and only those of X have a date, as
\* albums are treated alike; dates do not matter to covers.
Instance ==
  LET tracks == {i \in DOMAIN catalog : IsAudio(catalog[i])} IN
  \A i \in tracks :
    IF Cardinality(tracks) = 3
    THEN catalog[i].dir # <<>> /\ (catalog[i].album = "X" \/ catalog[i].date = "")
    ELSE catalog[i].date = ""
=============================================================================
