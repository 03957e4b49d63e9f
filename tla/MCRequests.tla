----------------------------- MODULE MCRequests -----------------------------
(***************************************************************************)
(* A TLC instance of Requests: libraries with every name of up to four     *)
(* characters, and shelves of up to four items for discoveries; paths made *)
(* from the routes, and numbers of a few digits in base three.             *)
(***************************************************************************)
EXTENDS Requests

Letters == {"a", "b", "-"}
LowerCase(c) == IF c = "A" THEN "a" ELSE c

SeqsUpTo(set, n) == UNION {[1..k -> set] : k \in 1..n}

\* Self-titled singles, each in a file with its name.
Single(id, name) ==
  [id |-> id, kind |-> "audio", title |-> name, artist |-> name, album |-> name,
   filename |-> name \o <<".", "f">>, path |-> name \o <<".", "f">>]

Words(names) ==
  LET listed == FoldSet(LAMBDA name, list : Append(list, name), <<>>, names) IN
  [items |-> [i \in DOMAIN listed |-> Single(i, listed[i])],
   artists |-> [i \in DOMAIN listed |-> [id |-> i, name |-> listed[i]]],
   albums |-> [i \in DOMAIN listed |-> [id |-> i, name |-> listed[i], artist |-> listed[i]]]]

\* The names of up to three characters, and those of four by the first two.
AllWords ==
  {Words(SeqsUpTo(Letters, 2)), Words([1..3 -> Letters])}
    \cup {Words({w \in [1..4 -> Letters] : <<w[1], w[2]>> = first}) :
            first \in Letters \X Letters}

\* Two names with "b" inside a word, one of them also with a word "b".
WordAfterAll == {Words({<<"a", "b">>, <<"a", "b", "-", "b">>})}

\* Up to three tracks and an image, with an id at the end of the range.
Shelf(ids) ==
  LET kept == SetToSortSeq(ids, <) IN
  [items |-> [i \in DOMAIN kept |->
                [Single(kept[i], <<"a">>) EXCEPT !.kind = IF kept[i] = 3 THEN "image" ELSE "audio"]],
   artists |-> IF ids \ {3} = {} THEN <<>> ELSE <<[id |-> 1, name |-> <<"a">>]>>,
   albums |-> IF ids \ {3} = {} THEN <<>>
              ELSE <<[id |-> 1, name |-> <<"a">>, artist |-> <<"a">>]>>]

AllShelves == {Shelf(ids) : ids \in SUBSET {1, 2, 3, 7}}
AllLibraries == AllShelves \cup AllWords

Needles == SeqsUpTo({"A", "b", "-"}, 3) \cup {<<>>, <<"A", "A", "A", "A">>}

Digit == [c \in {"0", "1", "2"} |-> CASE c = "0" -> 0 [] c = "1" -> 1 [] c = "2" -> 2]

Spelled == SeqsUpTo(DOMAIN Digit, 4)
Ids == SeqsUpTo(DOMAIN Digit \cup {"-"}, 3)
         \cup {<<"+", "2">>, <<" ", "2">>, <<" ", "-", "1">>, <<"2", " ">>, <<"-", "+", "1">>}
         \cup {<<"-", "1", "1", "1", "1", "2">>, <<"1", "1", "1", "1", "1", "1", "1", "1">>}

\* A path for each pattern, what is left of it, and one with more segments.
Fill(pattern) == [i \in DOMAIN pattern |-> IF pattern[i] = Id THEN <<"1">> ELSE pattern[i]]
Bare == {Fill(route.pattern) : route \in Range(RouteTable)}
TrackById == Fill(RouteTable[3].pattern)

SomePaths ==
  Bare \cup {Front(path) : path \in {p \in Bare : Len(p) > 1}}
       \cup {Append(path, word) : path \in Bare, word \in {<<>>, <<"1">>, <<"tracks">>}}
       \cup {ReplaceAt(path, Len(path), <<>>) : path \in Bare}
       \cup {ReplaceAt(TrackById, 3, text) : text \in Ids} \cup {<< <<>> >>}

Characters == UNION {Range(segment) : segment \in UNION {Range(path) : path \in SomePaths}}

SomeMethods == {"GET", "PUT", "POST", "PATCH", "DELETE", "OPTIONS", "HEAD"}

SomeLimits == {Missing, <<"0">>, <<"1">>, <<"2">>, <<"-", "1">>}
SomeOffsets == {Missing, <<"2">>}

AllTokens == {Missing, Null, <<"-", "1">>} \cup Spelled
SomeBodies == {<<>>} \cup {<<token>> : token \in AllTokens \ {Missing}}
               \cup {<<s, t>> : s, t \in SeqsUpTo(DOMAIN Digit, 2)}
               \cup {<<t, t, t>> : t \in SeqsUpTo(DOMAIN Digit, 1)}

SomeNames == Spelled \cup SeqsUpTo({"1", "2", " ", "/"}, 4)
=============================================================================
