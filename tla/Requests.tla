------------------------------ MODULE Requests ------------------------------
(***************************************************************************)
(* The requests that only read the library, from the registration of the   *)
(* routes (src/src/api/routes.c) over their dispatch                       *)
(* (src/src/http/server.c) to the replies: an item, a page of items, a     *)
(* search, a discovery; and the numbers that requests, file names and tags *)
(* bring in.                                                               *)
(*                                                                         *)
(* Handlers run one at a time, on the main thread, and hold the mutex of   *)
(* the context for their whole reply.  The discovery handlers hold it      *)
(* twice: a rescan may swap the library in between.                        *)
(*                                                                         *)
(* An operator whose name ends in an underscore and a word is a faulty     *)
(* variant of the operator that follows it, for mutation checks only.      *)
(***************************************************************************)
EXTENDS Router, Search, Inputs

CONSTANTS Libraries,   \* the libraries that may be served
          Shelves,     \* those a discovery and a rescan are explored with
          Method, Paths,
          Character,   \* what the segments of paths are made of
          Alphabet,    \* the characters, in lower case, of texts and queries
          Queries, QueryMax,   \* SEARCH_Q_MAX
          Limits, Offsets,     \* of pages, as texts
          Bodies, Tokens, ArrayMax,
          Names        \* what file names and tags hold for a number

ASSUME ShelfAssumption == Shelves \subseteq Libraries
ASSUME PathAssumption == Paths \subseteq Seq(Seq(Character))

Kinds == {"tracks", "artists", "albums"}
ListIn(served, kind) ==
  CASE kind = "tracks" -> served.items
    [] kind = "artists" -> served.artists
    [] kind = "albums" -> served.albums

IsText(text) == text \in Seq(Range(text)) /\ Range(Folded(text)) \subseteq Alphabet

\* Ids are unique, and texts fit the buffers of the catalogue.
ASSUME LibraryAssumption ==
  \A served \in Libraries : \A kind \in Kinds :
    LET list == ListIn(served, kind) IN
    /\ list \in Seq(Range(list))
    /\ \A i, j \in DOMAIN list : list[i].id \in Nat /\ (list[i].id = list[j].id => i = j)
    /\ \A entry \in Range(list) : \A text \in Fields(kind, entry) :
         IsText(text) /\ Len(text) < PathMax
ASSUME CaseAssumption == \A c \in Alphabet : Lower(c) = c
ASSUME TextAssumption ==
  /\ \A q \in Queries : IsText(q)
  /\ \A text \in Limits \cup Offsets \cup Tokens \cup Names : text \in Seq(Range(text))
  /\ \A tokens \in Bodies : /\ tokens \in Seq(Range(tokens))
                            /\ \A text \in Range(tokens) : text \in Seq(Range(text))

VARIABLES routes,    \* the router's list
          phase,     \* "starting", "up" or "failed"
          library,   \* items, artists, albums
          call,      \* the discovery between its two critical sections
          reply

vars == <<routes, phase, library, call, reply>>

NoCall == [kind |-> "none"]
NoReply == [is |-> "none"]

Init ==
  /\ routes = <<>>
  /\ phase = "starting"
  /\ library \in Libraries
  /\ call = NoCall
  /\ reply = NoReply

-----------------------------------------------------------------------------
(* api_routes_register: a route after the other, until one is refused or   *)
(* there is no memory for it.                                              *)
RegisterRoute ==
  LET route == RouteTable[Len(routes) + 1] IN
  /\ phase = "starting"
  /\ CanAddRoute(routes, route)
  /\ routes' = AddRoute(routes, route)
  /\ phase' = IF Len(routes') = Len(RouteTable) THEN "up" ELSE "starting"
  /\ UNCHANGED <<library, call, reply>>

RegisterFails ==
  /\ phase = "starting"
  /\ phase' = "failed"
  /\ UNCHANGED <<routes, library, call, reply>>

Idle == phase = "up" /\ call = NoCall /\ reply = NoReply

Answers(answer) ==
  /\ Idle
  /\ reply' = answer
  /\ UNCHANGED <<routes, phase, library, call>>

-----------------------------------------------------------------------------
(* api_reply_catalog_kind_by_id: the id of the item, 0 for not found.      *)
Picked(list, places) ==   \* what a list has at some places, in its order
  LET order == Ordered(places, LAMBDA i, j : i < j)
  IN [k \in DOMAIN order |-> list[order[k]]]

OfKind(kind) ==
  Picked(library.items, {i \in DOMAIN library.items : library.items[i].kind = kind})

ItemById(kind, id) ==
  IF \E item \in Range(library.items) : item.kind = kind /\ item.id = id THEN id ELSE 0

ByIdKind(handler) ==
  CASE handler = "handle_track_by_id" -> "audio"
    [] handler = "handle_image_by_id" -> "image"
    [] OTHER -> "none"

(* on_http_message, and the handlers that answer with one item.            *)
Request(method, path) ==
  LET match == RouterMatch(routes, method, path)
      id == IdParam(ParamGet(match, Tail(Id)))
  IN Answers(IF method = "OPTIONS" THEN [is |-> "allowed"]
             ELSE [is |-> "request", method |-> method, path |-> path,
                   handler |-> match.handler, params |-> match.params, id |-> id,
                   item |-> ItemById(ByIdKind(match.handler), id)])

(* api_reply_catalog_kind_list.                                            *)
ListKind(kind, limit, offset) ==
  LET page == PageOf(limit, offset)
      list == OfKind(kind)
      ids == [i \in DOMAIN list |-> list[i].id]
  IN Answers([is |-> "list", kind |-> kind, page |-> page,
              answer |-> PageOfHits(ids, page)])

(* handle_search.                                                          *)
SearchFor(q, fuzzy, limit, offset) ==
  LET page == PageOf(limit, offset)
      Found(kind, list) == PageOfHits(Hits(kind, list, q, fuzzy), page)
  IN Answers(IF Len(q) >= QueryMax THEN [is |-> "invalid_query"]
             ELSE IF q = <<>> THEN [is |-> "missing_query"]
             ELSE [is |-> "search", q |-> q, fuzzy |-> fuzzy, page |-> page,
                   tracks |-> Found("tracks", library.items),
                   artists |-> Found("artists", library.artists),
                   albums |-> Found("albums", library.albums)])

(* The array of a playlist's tracks and the number of a metadata patch.    *)
Body(tokens) ==
  Answers([is |-> "tokens", tokens |-> tokens, values |-> TokenArray(tokens, ArrayMax)])

PatchBody(token) ==
  Answers([is |-> "patch", token |-> token, effect |-> PatchNumber(token)])

(* What a scan makes of a number in a file name or in a tag.               *)
ReadNumber(text) ==
  Answers([is |-> "number", text |-> text,
           name |-> NumberSegment(text), tag |-> TagNumber(text)])

-----------------------------------------------------------------------------
(* handle_discover_random: the first steps of a shuffle, each of which     *)
(* notes the id it brings to its place.                                    *)
AudioIds == LET list == OfKind("audio") IN [i \in DOMAIN list |-> list[i].id]

Taken(page) == Min({page.limit, Len(AudioIds)})

Candidates_All(i, n) == 1..n
Candidates(i, n) == i..n

Picks(n, take) == {f \in [1..take -> 1..n] : \A i \in 1..take : f[i] \in Candidates(i, n)}

Shuffled(ids, choice) ==
  LET deal[i \in 0..Len(choice)] ==
        IF i = 0 THEN [left |-> ids, ids |-> <<>>]
        ELSE LET last == deal[i - 1]
                 left == [last.left EXCEPT ![i] = last.left[choice[i]],
                                           ![choice[i]] = last.left[i]]
             IN [left |-> left, ids |-> Append(last.ids, left[i])]
  IN deal[Len(choice)].ids

MayDiscover == Idle /\ library \in Shelves

Collect(kind, page, ids) ==
  /\ call' = [kind |-> kind, page |-> page, ids |-> ids, from |-> library]
  /\ UNCHANGED <<routes, phase, library, reply>>

CollectRandom(limit) ==
  LET page == PageOf(limit, Missing) IN
  /\ MayDiscover
  /\ \E choice \in Picks(Len(AudioIds), Taken(page)) :
       Collect("random", page, Shuffled(AudioIds, choice))

(* handle_discover_recent: the highest ids.                                *)
CollectRecent(limit) ==
  LET page == PageOf(limit, Missing)
      ranked == Ordered(Range(AudioIds), LAMBDA id, other : id > other)
  IN MayDiscover /\ Collect("recent", page, SubSeq(ranked, 1, Taken(page)))

(* The scan worker, between the two.                                       *)
Swap ==
  /\ call # NoCall
  /\ library' \in Shelves \ {library}
  /\ UNCHANGED <<routes, phase, call, reply>>

(* reply_audio_ids.                                                        *)
Shown(ids) == Picked(ids, {k \in DOMAIN ids : ids[k] \in Range(AudioIds)})

AnswerDiscovery ==
  /\ call # NoCall
  /\ reply' = [is |-> "discovery", kind |-> call.kind, page |-> call.page,
               from |-> call.from, total |-> Len(call.ids), shown |-> Shown(call.ids)]
  /\ call' = NoCall
  /\ UNCHANGED <<routes, phase, library>>

Done ==
  /\ reply # NoReply
  /\ reply' = NoReply
  /\ UNCHANGED <<routes, phase, library, call>>

(* main exits.                                                             *)
Exited == phase = "failed" /\ UNCHANGED vars

-----------------------------------------------------------------------------
Start == RegisterRoute \/ RegisterFails

Reading ==
  \/ \E method \in Method, path \in Paths : Request(method, path)
  \/ \E kind \in {"audio", "image"}, limit \in Limits, offset \in Offsets :
       ListKind(kind, limit, offset)
  \/ \E q \in Queries, fuzzy \in BOOLEAN, limit \in Limits, offset \in Offsets :
       SearchFor(q, fuzzy, limit, offset)

Numbers ==
  \/ \E tokens \in Bodies : Body(tokens)
  \/ \E token \in Tokens : PatchBody(token)
  \/ \E text \in Names : ReadNumber(text)

Discovery ==
  \/ \E limit \in Limits : CollectRandom(limit) \/ CollectRecent(limit)
  \/ Swap
  \/ AnswerDiscovery

Next == Start \/ Reading \/ Numbers \/ Discovery \/ Done \/ Exited

Spec == Init /\ [][Next]_vars

-----------------------------------------------------------------------------
(* The router (router.c:194, routes.c:27) gives a request to the one route *)
(* that its method and path are built from, with the value the path holds  *)
(* for the parameter; no order of the table could change that, and without *)
(* such a route there is no handler.                                       *)
Filled(pattern, value) ==
  [i \in DOMAIN pattern |-> IF pattern[i] = Id THEN value ELSE pattern[i]]

Builds(route, method, path) ==
  /\ route.method = method
  /\ \E value \in {<<>>} \cup {v \in Range(path) : Len(v) < ValueLen} :
       /\ (value # <<>>) <=> (Id \in Range(route.pattern))
       /\ Filled(route.pattern, value) = path

Dispatched ==
  reply.is = "request" =>
    LET built == {route \in Range(RouteTable) : Builds(route, reply.method, reply.path)}
        Value == IF reply.params = <<>> THEN <<>> ELSE reply.params[1].value
    IN /\ {route.handler : route \in built} =
            (IF reply.handler = "none" THEN {} ELSE {reply.handler})
       /\ \A route \in built : Filled(route.pattern, Value) = reply.path

(* Numbers are read exactly or refused, never cut or wrapped to another    *)
(* number (params.c:28, json_body.c:116, metadata.c:50), except that a     *)
(* path may hold spaces, a sign, and a negative number, which strtoull     *)
(* counts from the top.                                                    *)
Place(k) ==
  LET worth[i \in 0..k] == IF i = 0 THEN 1 ELSE Base * worth[i - 1] IN worth[k]

Value(text) ==   \* each digit by its place, from the last one
  LET sum[k \in 0..Len(text)] ==
        IF k = 0 THEN 0
        ELSE sum[k - 1] + DigitValue[text[Len(text) - k + 1]] * Place(k - 1)
  IN sum[Len(text)]

Exact(text, least, most) ==
  IF text # <<>> /\ Digits(text) /\ Value(text) \in least..most THEN Value(text) ELSE Bad

Parts(text) ==   \* spaces, digits, and what is after them
  {part \in (1..Len(text)) \X (1..Len(text)) :
     LET i == part[1]
         j == part[2]
     IN /\ i <= j /\ Digits(SubSeq(text, i, j))
        /\ \A k \in 1..(i - 1) : text[k] = " "
        /\ j = Len(text) \/ ~IsDigit(text[j + 1])}

Found(text, parts) ==
  IF parts = {} THEN 0
  ELSE LET part == CHOOSE p \in parts : TRUE
       IN Max({0, Exact(SubSeq(text, part[1], part[2]), 1, U32Max)})

Spelt(id, text) ==   \* by the digits after spaces and a sign
  \E i \in DOMAIN text :
    LET digits == SubSeq(text, i, Len(text))
        minus == i > 1 /\ text[i - 1] = "-"
    IN /\ Digits(digits) /\ Value(digits) <= U64Max
       /\ \A k \in 1..(i - 1) : text[k] = " " \/ (k = i - 1 /\ text[k] \in {"+", "-"})
       /\ IF minus THEN (id + Value(digits)) % (U64Max + 1) = 0 ELSE id = Value(digits)

IdExact(id, text) ==
  /\ Exact(text, 1, U32Max) # Bad => id = Value(text)
  /\ id # 0 => Spelt(id, text)

NumbersExact ==
  /\ reply.is = "request" =>
       /\ reply.id \in 0..U32Max
       /\ reply.params # <<>> => IdExact(reply.id, reply.params[1].value)
       /\ reply.item \in {0, reply.id}
  /\ reply.is = "tokens" =>
       LET exact == [i \in DOMAIN reply.tokens |-> Exact(reply.tokens[i], 0, U32Max)]
       IN reply.values = IF Len(exact) > ArrayMax \/ \E i \in DOMAIN exact : exact[i] = Bad
                         THEN <<Bad>> ELSE exact
  /\ reply.is = "patch" =>
       (reply.effect = "set") <=> (Exact(reply.token, 1, PatchMax) # Bad)
  /\ reply.is = "number" =>
       LET parts == Parts(reply.text)
           whole == {p \in parts : \A k \in (p[2] + 1)..Len(reply.text) : reply.text[k] = " "}
       IN reply.tag = Found(reply.text, parts) /\ reply.name = Found(reply.text, whole)

-----------------------------------------------------------------------------
(* What a query finds, told from the texts alone: Near holds the texts     *)
(* that one edit, and two, make of each query.                             *)
Edits(texts) ==
  UNION {LET at == DOMAIN text IN
         {RemoveAt(text, i) : i \in at}
           \cup {ReplaceAt(text, ic[1], ic[2]) : ic \in at \X Alphabet}
           \cup {InsertAt(text, ic[1], ic[2]) : ic \in (1..(Len(text) + 1)) \X Alphabet} :
         text \in texts}

Near == [q \in {Folded(q) : q \in Queries} |-> <<Edits({q}), Edits(Edits({q}))>>]

\* The class that the code gives a match: 9 the text itself, 8 a prefix,
\* then by the first place where it is found, 7 after no letter or digit,
\* 6 inside a word; 5 and 4 one and two edits from the whole text, 3 and 2
\* from a part of it, 0 not found.
Class(text, q, fuzzy) ==
  LET h == Folded(text)
      n == Folded(q)
      parts == SubSeqs(h) \ {<<>>}
      before == {p \in SubSeqs(h) : IsPrefix(p \o n, h)}
      first == CHOOSE p \in before : \A other \in before : Len(p) <= Len(other)
  IN IF h = n THEN 9
     ELSE IF n \in parts
     THEN IF first = <<>> THEN 8 ELSE IF text[Len(first)] \notin Alnum THEN 7 ELSE 6
     ELSE IF h = <<>> \/ ~fuzzy \/ Len(n) < 2 THEN 0
     ELSE IF h \in Near[n][1] THEN 5
     ELSE IF h \in Near[n][2] THEN 4
     ELSE IF parts \cap Near[n][1] # {} THEN 3
     ELSE IF parts \cap Near[n][2] # {} THEN 2
     ELSE 0

BestClass(kind, entry) ==
  Max({0} \cup {Class(f, reply.q, reply.fuzzy) : f \in Fields(kind, entry)})

Matches(kind) ==
  {match \in {[entry |-> entry, class |-> BestClass(kind, entry)] :
                 entry \in Range(ListIn(library, kind))} : match.class > 0}

(* The documented class (README.md:248) has nothing about the first place: *)
(* a query that some field has at the start of a word is a word-boundary   *)
(* match, also when it is inside a word before that.                       *)
StartsWord(text, q) ==
  \E p \in SubSeqs(Folded(text)) \ {<<>>} :
    IsPrefix(p \o Folded(q), Folded(text)) /\ text[Len(p)] \notin Alnum

Documented(kind, match) ==
  IF match.class = 6 /\ \E f \in Fields(kind, match.entry) : StartsWord(f, reply.q)
  THEN 7 ELSE match.class

\* str.c:273 skips a window that does not fit its buffer, which only the
\* longest fuzzy queries have.
Exhaustive == reply.fuzzy => Len(reply.q) + MaxDistance < WindowMax

(* A search finds exactly the entries with a field that holds the query,   *)
(* or is or holds something within two edits of it when it is fuzzy and    *)
(* has two letters (search.c:21, str.c:195): no window is left out, and    *)
(* what any page shows is among them, once.                                *)
FuzzyIsExact ==
  reply.is = "search" /\ Exhaustive =>
    \A kind \in Kinds :
      LET found == {match.entry.id : match \in Matches(kind)} IN
      /\ reply[kind].total = Cardinality(found)
      /\ Range(reply[kind].shown) \subseteq found
      /\ IsInjective(reply[kind].shown)

(* The pages of a listing are consecutive pieces of one order              *)
(* (catalog_json.c:161, search.c:32): the catalogue's for a list of tracks *)
(* or images; for a search a better class of match before a worse one,     *)
(* where the code's class and the documented one agree on it, and among    *)
(* artists, which have one text each, an earlier and shorter match first   *)
(* and the lower id when these do not differ.  Where the two classes       *)
(* disagree the order is left open here, and RankedAsDocumented fails.     *)
FullPage(answer, page) ==
  Len(answer.shown) = Max({0, Min({page.limit, answer.total - page.offset})})

Position(text) ==   \* of the query
  LET n == Folded(reply.q)
      at == {i \in 0..(Len(text) - Len(n)) : SubSeq(Folded(text), i + 1, i + Len(n)) = n}
  IN IF at = {} THEN 0 ELSE Min(at)

Sooner(x, y) ==   \* two artists of one class that have the query
  LET px == Position(x.name)
      py == Position(y.name)
  IN /\ px <= py /\ Len(x.name) <= Len(y.name)
     /\ px < py \/ Len(x.name) < Len(y.name) \/ x.id < y.id

Ahead(kind, s, t) ==
  \/ s.class > Documented(kind, t)
  \/ /\ kind = "artists" /\ s.class = t.class /\ s.class > 5
     /\ Documented(kind, s) = s.class /\ Documented(kind, t) = t.class
     /\ Sooner(s.entry, t.entry)

RankedPage(kind) ==
  LET matches == Matches(kind) IN
  \A k \in DOMAIN reply[kind].shown :
    LET match == CHOOSE match \in matches : match.entry.id = reply[kind].shown[k]
        others == matches \ {match}
    IN /\ Cardinality({other \in others : Ahead(kind, other, match)}) < reply.page.offset + k
       /\ Cardinality({other \in others : Ahead(kind, match, other)})
            <= reply[kind].total - (reply.page.offset + k)

ListsRanked ==
  /\ reply.is = "search" =>
       \A kind \in Kinds : /\ FullPage(reply[kind], reply.page)
                           /\ Exhaustive => RankedPage(kind)
  /\ reply.is = "list" =>
       /\ reply.answer.total = Len(OfKind(reply.kind))
       /\ FullPage(reply.answer, reply.page)
       /\ \A k \in DOMAIN reply.answer.shown :
            OfKind(reply.kind)[reply.page.offset + k].id = reply.answer.shown[k]

(* Results are ranked by relevance, "exact -> prefix -> word-boundary       *)
(* substring -> substring -> fuzzy" (README.md:248).  The code ranks by    *)
(* the first occurrence alone (str.c:235).                                 *)
RankedAsDocumented ==
  reply.is = "search" /\ Exhaustive =>
    \A kind \in Kinds :
      LET shown == reply[kind].shown
          Match(id) == CHOOSE match \in Matches(kind) : match.entry.id = id
      IN \A i, j \in DOMAIN shown :
           i < j => Documented(kind, Match(shown[i])) >= Documented(kind, Match(shown[j]))

(* A discovery shows no track twice and none that the library it answers   *)
(* from no longer has (discover.c:33); of the tracks it chose in the       *)
(* library it began with it leaves out only those, and chose as many as    *)
(* there are up to the limit (discover.c:102, discover.c:151), the recent  *)
(* ones with the highest ids, best first.  What total it gives is left     *)
(* open: the code's is the size of the page.                               *)
AudioOf(served) == {item.id : item \in {item \in Range(served.items) : item.kind = "audio"}}

Newest(ids, n) == {id \in ids : Cardinality({other \in ids : other > id}) < n}

DiscoverFair ==
  reply.is = "discovery" =>
    LET from == AudioOf(reply.from)
        kept == from \cap AudioOf(library)
        take == Min({reply.page.limit, Cardinality(from)})
    IN /\ IsInjective(reply.shown)
       /\ Range(reply.shown) \subseteq kept
       /\ Len(reply.shown) >= take - Cardinality(from \ kept)
       /\ reply.kind = "recent" =>
            /\ Range(reply.shown) = Newest(from, take) \cap kept
            /\ \A k \in 2..Len(reply.shown) : reply.shown[k - 1] > reply.shown[k]
=============================================================================
