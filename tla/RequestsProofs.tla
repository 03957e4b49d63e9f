--------------------------- MODULE RequestsProofs ---------------------------
(***************************************************************************)
(* Proofs about Requests, for any requests, libraries, texts and numbers   *)
(* that its assumptions allow, not only the few that TLC tries.            *)
(*                                                                         *)
(* The dispatch: the words of a path tell which of its segments a route of *)
(* the table may have as a parameter (Spots), so that at most one pattern  *)
(* fits it; and router_add refuses a second route of one method and        *)
(* pattern.                                                                *)
(*                                                                         *)
(* The discoveries: what one has collected is fixed while it waits for its *)
(* second critical section (Collected), and a rescan in between can only   *)
(* take from it.                                                           *)
(*                                                                         *)
(* The lists and searches: a rescan comes only inside a discovery, so that *)
(* a reply is checked with the library it was made from (SearchInv), and a *)
(* page is a piece of its hits.                                            *)
(***************************************************************************)
EXTENDS SearchProofs

(* The segments of a path that can be parameters.                          *)
Spots(path) ==
  IF Len(path) = 2
  THEN IF path[1] \in {<<"stream">>, <<"cover">>} THEN {2} ELSE {}
  ELSE IF path[2] \in {<<"library">>, <<"discover">>} THEN {} ELSE {3}

(* What is true of every pattern of the table.                             *)
Tabled(pattern) ==
  /\ Len(pattern) \in 2..4 /\ DOMAIN pattern = 1..Len(pattern)
  /\ pattern = [i \in 1..Len(pattern) |-> pattern[i]]
  /\ \A i \in 1..Len(pattern) : IsParam(pattern[i]) <=> i \in Spots(pattern)
  /\ \A i \in 1..Len(pattern) : pattern[i] = Id <=> i \in Spots(pattern)

-----------------------------------------------------------------------------
(* A word of the table that is not ":id" is no parameter.                  *)
LEMMA Literal ==
  ASSUME NEW a, a # ":"
  PROVE  ~IsParam(<<a>>) /\ <<a>> # Id
<1>1. Len(<<a>>) = 1 /\ Len(Id) = 2 /\ <<a>>[1] = a
  BY DEF Id
<1> QED
  BY <1>1 DEF IsParam

(* The segment ":id" is one.                                               *)
LEMMA IdIsParam == IsParam(Id)
BY DEF IsParam, Id

(* Equal segments of one word have equal words.                            *)
LEMMA OneWord ==
  ASSUME NEW a, NEW b, <<a>> = <<b>>
  PROVE  a = b
<1>1. <<a>>[1] = a /\ <<b>>[1] = b
  OBVIOUS
<1> QED
  BY <1>1

(* The routes of two words.                                                *)
LEMMA TwoWords ==
  ASSUME NEW m, NEW h, NEW a, NEW b, a # ":", b # ":", a # ":id",
         b = ":id" <=> a \in {"stream", "cover"}
  PROVE  Tabled(Route(m, <<a, b>>, h).pattern)
<1> DEFINE p == Route(m, <<a, b>>, h).pattern
<1>1. p = <<<<a>>, IF b = ":id" THEN Id ELSE <<b>>>>
  BY DEF Route
<1> HIDE DEF p
<1>2. Len(p) = 2 /\ DOMAIN p = 1..2 /\ p[1] = <<a>>
      /\ p = [i \in 1..2 |-> p[i]]
      /\ (b = ":id" => p[2] = Id) /\ (b # ":id" => p[2] = <<b>>)
  BY <1>1
<1>3. a \in {"stream", "cover"} <=> p[1] \in {<<"stream">>, <<"cover">>}
  BY <1>2, OneWord
<1>4. Spots(p) = IF b = ":id" THEN {2} ELSE {}
  BY <1>2, <1>3 DEF Spots
<1>5. \A i \in 1..2 : IsParam(p[i]) <=> i \in Spots(p)
  BY <1>2, <1>4, Literal, IdIsParam
<1>6. \A i \in 1..2 : p[i] = Id <=> i \in Spots(p)
  BY <1>2, <1>4, Literal
<1>7. Tabled(p)
  BY <1>2, <1>5, <1>6 DEF Tabled
<1> QED
  BY <1>7 DEF p

(* The same for three words.                                               *)
LEMMA ThreeWords ==
  ASSUME NEW m, NEW h, NEW a, NEW b, NEW c, a # ":", b # ":", c # ":",
         a # ":id", b # ":id", c # ":id" <=> b \in {"library", "discover"}
  PROVE  Tabled(Route(m, <<a, b, c>>, h).pattern)
<1> DEFINE p == Route(m, <<a, b, c>>, h).pattern
<1>1. p = <<<<a>>, <<b>>, IF c = ":id" THEN Id ELSE <<c>>>>
  BY DEF Route
<1> HIDE DEF p
<1>2. Len(p) = 3 /\ DOMAIN p = 1..3 /\ p[1] = <<a>> /\ p[2] = <<b>>
      /\ p = [i \in 1..3 |-> p[i]]
      /\ (c = ":id" => p[3] = Id) /\ (c # ":id" => p[3] = <<c>>)
  BY <1>1
<1>3. b \in {"library", "discover"} <=> p[2] \in {<<"library">>, <<"discover">>}
  BY <1>2, OneWord
<1>4. Spots(p) = IF c = ":id" THEN {3} ELSE {}
  BY <1>2, <1>3 DEF Spots
<1>5. \A i \in 1..3 : IsParam(p[i]) <=> i \in Spots(p)
  BY <1>2, <1>4, Literal, IdIsParam
<1>6. \A i \in 1..3 : p[i] = Id <=> i \in Spots(p)
  BY <1>2, <1>4, Literal
<1>7. Tabled(p)
  BY <1>2, <1>5, <1>6 DEF Tabled
<1> QED
  BY <1>7 DEF p

(* The same for four words.                                                *)
LEMMA FourWords ==
  ASSUME NEW m, NEW h, NEW a, NEW b, NEW d, a # ":", b # ":", d # ":",
         a # ":id", b # ":id", d # ":id", b \notin {"library", "discover"}
  PROVE  Tabled(Route(m, <<a, b, ":id", d>>, h).pattern)
<1> DEFINE p == Route(m, <<a, b, ":id", d>>, h).pattern
<1>1. p = <<<<a>>, <<b>>, Id, <<d>>>>
  BY DEF Route
<1> HIDE DEF p
<1>2. Len(p) = 4 /\ DOMAIN p = 1..4 /\ p[1] = <<a>> /\ p[2] = <<b>> /\ p[3] = Id /\ p[4] = <<d>>
      /\ p = [i \in 1..4 |-> p[i]]
  BY <1>1
<1>3. p[2] \notin {<<"library">>, <<"discover">>}
  BY <1>2, OneWord
<1>4. Spots(p) = {3}
  BY <1>2, <1>3 DEF Spots
<1>5. \A i \in 1..4 : IsParam(p[i]) <=> i \in Spots(p)
  BY <1>2, <1>4, Literal, IdIsParam
<1>6. \A i \in 1..4 : p[i] = Id <=> i \in Spots(p)
  BY <1>2, <1>4, Literal
<1>7. Tabled(p)
  BY <1>2, <1>5, <1>6 DEF Tabled
<1> QED
  BY <1>7 DEF p

(* Every route has a handler.                                              *)
LEMMA RouteHandler == \A m, w, h : Route(m, w, h).handler = h
BY SMTT(60) DEF Route

(* The whole table.                                                        *)
LEMMA TableShape ==
  /\ Len(RouteTable) = 34 /\ DOMAIN RouteTable = 1..34
  /\ \A n \in 1..34 : RouteTable[n].handler # "none" /\ Tabled(RouteTable[n].pattern)
<1>1. Len(RouteTable) = 34 /\ DOMAIN RouteTable = 1..34
  BY DEF RouteTable
<1>2. \A m, h, a, b : a # ":" /\ b # ":" /\ a # ":id" /\ (b = ":id" <=> a \in {"stream", "cover"})
        => Tabled(Route(m, <<a, b>>, h).pattern)
  BY TwoWords
<1>3. \A m, h, a, b, c : a # ":" /\ b # ":" /\ c # ":" /\ a # ":id" /\ b # ":id"
        /\ (c # ":id" <=> b \in {"library", "discover"})
        => Tabled(Route(m, <<a, b, c>>, h).pattern)
  BY ThreeWords
<1>4. \A m, h, a, b, d : a # ":" /\ b # ":" /\ d # ":" /\ a # ":id" /\ b # ":id" /\ d # ":id"
        /\ b \notin {"library", "discover"}
        => Tabled(Route(m, <<a, b, ":id", d>>, h).pattern)
  BY FourWords
<1>5. \A n \in 1..34 : Tabled(RouteTable[n].pattern)
  BY <1>2, <1>3, <1>4, SMTT(60) DEF RouteTable
<1>6. \A n \in 1..34 : RouteTable[n].handler # "none"
  BY RouteHandler, SMTT(60) DEF RouteTable
<1> QED
  BY <1>1, <1>5, <1>6

-----------------------------------------------------------------------------
(* A path that fits a pattern of the table has its parameters at the same  *)
(* segments, and there it alone tells the pattern.                         *)
LEMMA FitTellsPattern ==
  ASSUME NEW pattern, Tabled(pattern), NEW path, MatchPattern(pattern, path)
  PROVE  /\ Spots(path) = Spots(pattern)
         /\ pattern = [i \in 1..Len(path) |-> IF i \in Spots(path) THEN Id ELSE path[i]]
<1>1. Len(pattern) = Len(path) /\ Len(pattern) \in 2..4
  BY DEF MatchPattern, Tabled
<1>2. \A i \in 1..Len(pattern) : i \notin Spots(pattern) => path[i] = pattern[i]
  BY DEF MatchPattern, Takes, Tabled
<1>3. Spots(path) = Spots(pattern)
  <2>1. CASE Len(pattern) = 2
    <3>1. 1 \notin Spots(pattern)
      BY <2>1 DEF Spots
    <3>2. path[1] = pattern[1]
      BY <1>2, <2>1, <3>1
    <3> QED
      BY <1>1, <2>1, <3>2 DEF Spots
  <2>2. CASE Len(pattern) # 2
    <3>1. 2 \notin Spots(pattern)
      BY <2>2 DEF Spots
    <3>2. path[2] = pattern[2]
      BY <1>1, <1>2, <2>2, <3>1
    <3> QED
      BY <1>1, <2>2, <3>2 DEF Spots
  <2> QED
    BY <2>1, <2>2
<1>4. \A i \in 1..Len(pattern) :
        pattern[i] = IF i \in Spots(path) THEN Id ELSE path[i]
  BY <1>2, <1>3 DEF Tabled
<1> QED
  BY <1>1, <1>3, <1>4 DEF Tabled

(* A pattern of the table has at most one parameter.                       *)
LEMMA OneSpot ==
  ASSUME NEW pattern, Tabled(pattern)
  PROVE  \/ Spots(pattern) = {} /\ ParamsAt(pattern) = {}
         \/ \E i \in 1..Len(pattern) : Spots(pattern) = {i} /\ ParamsAt(pattern) = {i}
<1>1. ParamsAt(pattern) = {i \in 1..Len(pattern) : i \in Spots(pattern)}
  BY DEF ParamsAt, Tabled
<1>2. Spots(pattern) \in {{}, {2}, {3}}
  BY DEF Spots
<1>3. Spots(pattern) = {3} => Len(pattern) # 2
  BY DEF Spots
<1>4. Spots(pattern) \subseteq 1..Len(pattern)
  BY <1>2, <1>3 DEF Tabled
<1>5. ParamsAt(pattern) = Spots(pattern)
  BY <1>1, <1>4
<1> QED
  BY <1>2, <1>4, <1>5

(* What a match captures is the segment at the spot.                       *)
LEMMA CapturedValue ==
  ASSUME NEW pattern, Tabled(pattern), NEW path
  PROVE  /\ Spots(pattern) = {} => Captured(pattern, path) = <<>>
         /\ \A i : Spots(pattern) = {i} =>
              Captured(pattern, path) # <<>> /\ Captured(pattern, path)[1].value = path[i]
<1>1. ASSUME Spots(pattern) = {}
      PROVE  Captured(pattern, path) = <<>>
  <2>1. ParamsAt(pattern) = {} /\ Cardinality({}) = 0
    BY <1>1, OneSpot, FS_EmptySet
  <2>2. 1..0 = {}
    OBVIOUS
  <2> QED
    BY <2>1, <2>2 DEF Captured
<1>2. ASSUME NEW i, Spots(pattern) = {i}
      PROVE  Captured(pattern, path) # <<>> /\ Captured(pattern, path)[1].value = path[i]
  <2>1. ParamsAt(pattern) = {i} /\ i \in Nat
    <3>1. PICK k \in 1..Len(pattern) : Spots(pattern) = {k} /\ ParamsAt(pattern) = {k}
      BY <1>2, OneSpot
    <3>2. i = k
      BY <1>2, <3>1
    <3> QED
      BY <3>1, <3>2 DEF Tabled
  <2>2. Cardinality({i}) = 1
    BY FS_Singleton
  <2>3. {j \in {i} : j < i} = {}
    BY <2>1
  <2>4. \A k \in {i} : Cardinality({j \in {i} : j < k}) = 0
    BY <2>3, FS_EmptySet
  <2>5. (CHOOSE k \in {i} : Cardinality({j \in {i} : j < k}) = 1 - 1) = i
    BY <2>4
  <2>6. Captured(pattern, path) = [k \in 1..1 |-> 
     LET n == CHOOSE n \in {i} : Cardinality({j \in {i} : j < n}) = k - 1
     IN [name |-> Tail(pattern[n]), value |-> path[n]]]
    BY <2>1, <2>2 DEF Captured
  <2>7. Captured(pattern, path)[1].value = path[CHOOSE n \in {i} : Cardinality({j \in {i} : j < n}) = 1 - 1]
    BY <2>6
  <2>8. DOMAIN Captured(pattern, path) # DOMAIN <<>>
    BY <2>6
  <2>9. Captured(pattern, path) # <<>>
    BY <2>8
  <2> QED
    BY <2>5, <2>7, <2>9
<1> QED
  BY <1>1, <1>2

(* The value a path has for the parameter of a pattern, if it has one.     *)
ValueAt(pattern, path) ==
  IF Spots(pattern) = {} THEN <<>> ELSE path[CHOOSE i \in Spots(pattern) : TRUE]

(* A path that fits is the pattern filled with its value there.            *)
LEMMA FitIsFilled ==
  ASSUME NEW pattern, Tabled(pattern), NEW path \in Seq(Seq(Character)),
         MatchPattern(pattern, path)
  PROVE  /\ Filled(pattern, ValueAt(pattern, path)) = path
         /\ ValueAt(pattern, path) \in {<<>>} \cup {v \in Range(path) : Len(v) < ValueLen}
         /\ (ValueAt(pattern, path) # <<>>) <=> (Id \in Range(pattern))
<1> DEFINE value == ValueAt(pattern, path)
<1>1. Len(pattern) = Len(path) /\ DOMAIN path = 1..Len(path) /\ Len(path) \in Nat
      /\ path = [i \in 1..Len(path) |-> path[i]]
      /\ DOMAIN pattern = 1..Len(pattern)
  BY DEF MatchPattern, Tabled
<1>2. \A i \in 1..Len(path) : i \notin Spots(pattern) => path[i] = pattern[i] /\ pattern[i] # Id
  BY <1>1 DEF MatchPattern, Takes, Tabled
<1>3. \A i \in 1..Len(path) : i \in Spots(pattern) =>
        pattern[i] = Id /\ Len(path[i]) \in 1..(ValueLen - 1)
  BY <1>1 DEF MatchPattern, Takes, Tabled
<1>4. CASE Spots(pattern) = {}
  <2>1. value = <<>>
    BY <1>4 DEF ValueAt
  <2>2. Id \notin Range(pattern)
    BY <1>1, <1>2, <1>4 DEF Range
  <2>3. Filled(pattern, value) = path
    BY <1>1, <1>2, <1>4 DEF Filled
  <2> QED
    BY <2>1, <2>2, <2>3
<1>5. ASSUME NEW k \in 1..Len(pattern), Spots(pattern) = {k}
      PROVE  /\ Filled(pattern, value) = path
             /\ value \in {<<>>} \cup {v \in Range(path) : Len(v) < ValueLen}
             /\ (value # <<>>) <=> (Id \in Range(pattern))
  <2>1. value = path[k]
    BY <1>5 DEF ValueAt
  <2>2. pattern[k] = Id /\ Len(path[k]) \in 1..(ValueLen - 1) /\ k \in 1..Len(path)
    BY <1>1, <1>3, <1>5
  <2>3. path[k] \in Seq(Character)
    BY <1>1, <2>2
  <2>4. path[k] # <<>> /\ Len(path[k]) < ValueLen
    BY <2>2, <2>3, ParamAssumption
  <2>5. Id \in Range(pattern) /\ path[k] \in Range(path)
    BY <1>1, <2>2 DEF Range
  <2>6. \A i \in 1..Len(path) : path[i] = IF pattern[i] = Id THEN path[k] ELSE pattern[i]
    BY <1>2, <1>5, <2>2
  <2>7. Filled(pattern, value) = path
    BY <1>1, <2>1, <2>6 DEF Filled
  <2> QED
    BY <2>1, <2>4, <2>5, <2>7
<1> QED
  BY <1>4, <1>5, OneSpot

(* What a pattern builds fits it, with that value.                         *)
LEMMA BuiltFits ==
  ASSUME NEW route, Tabled(route.pattern), NEW path \in Seq(Seq(Character)),
         NEW method, Builds(route, method, path)
  PROVE  route.method = method /\ MatchPattern(route.pattern, path)
<1> DEFINE pattern == route.pattern
<1>1. route.method = method
  BY DEF Builds
<1>2. PICK value \in {<<>>} \cup {v \in Range(path) : Len(v) < ValueLen} :
        /\ (value # <<>>) <=> (Id \in Range(pattern))
        /\ Filled(pattern, value) = path
  BY DEF Builds
<1>3. DOMAIN pattern = 1..Len(pattern) /\ Len(pattern) \in Nat
  BY DEF Tabled
<1>4. Len(path) = Len(pattern)
  BY <1>2, <1>3 DEF Filled
<1>5. \A i \in 1..Len(pattern) : path[i] = IF pattern[i] = Id THEN value ELSE pattern[i]
  BY <1>2, <1>3 DEF Filled
<1>6. ASSUME NEW i \in DOMAIN pattern
      PROVE  Takes(pattern[i], path[i])
  <2>1. CASE pattern[i] = Id
    <3>1. path[i] = value /\ value # <<>>
      BY <1>2, <1>3, <1>5, <2>1 DEF Range
    <3>2. value \in Seq(Character) /\ Len(value) < ValueLen
      BY <1>2, <3>1 DEF Range
    <3>3. Len(value) \in 1..(ValueLen - 1)
      BY <3>1, <3>2, ParamAssumption
    <3>4. IsParam(pattern[i])
      BY <2>1, IdIsParam
    <3> QED
      BY <3>1, <3>3, <3>4 DEF Takes
  <2>2. CASE pattern[i] # Id
    <3>1. ~IsParam(pattern[i])
      BY <1>3, <2>2 DEF Tabled
    <3> QED
      BY <1>3, <1>5, <2>2, <3>1 DEF Takes
  <2> QED
    BY <2>1, <2>2
<1> QED
  BY <1>1, <1>4, <1>6 DEF MatchPattern

-----------------------------------------------------------------------------
(* No two routes of one method and pattern, which router_add sees to.      *)
Distinct(table) ==
  \A i, j \in 1..Len(table) :
    table[i].method = table[j].method /\ table[i].pattern = table[j].pattern => i = j

(* The routes of the table that a request fits, by their places.           *)
Fitting(method, path) ==
  {i \in 1..Len(RouteTable) :
     RouteTable[i].method = method /\ MatchPattern(RouteTable[i].pattern, path)}

(* A request fits at most one.                                             *)
LEMMA OneFits ==
  ASSUME Distinct(RouteTable), NEW method, NEW path,
         NEW i \in Fitting(method, path), NEW j \in Fitting(method, path)
  PROVE  i = j
<1>1. /\ i \in 1..Len(RouteTable) /\ RouteTable[i].method = method
      /\ j \in 1..Len(RouteTable) /\ RouteTable[j].method = method
      /\ MatchPattern(RouteTable[i].pattern, path) /\ MatchPattern(RouteTable[j].pattern, path)
  BY DEF Fitting
<1>2. Tabled(RouteTable[i].pattern) /\ Tabled(RouteTable[j].pattern)
  BY <1>1, TableShape
<1>3. RouteTable[i].pattern = [n \in 1..Len(path) |-> IF n \in Spots(path) THEN Id ELSE path[n]]
  BY <1>1, <1>2, FitTellsPattern
<1>4. RouteTable[j].pattern = [n \in 1..Len(path) |-> IF n \in Spots(path) THEN Id ELSE path[n]]
  BY <1>1, <1>2, FitTellsPattern, SMTT(60)
<1> QED
  BY <1>1, <1>3, <1>4 DEF Distinct

(* router_match finds it.                                                  *)
LEMMA MatchFound ==
  ASSUME Distinct(RouteTable), NEW method, NEW path
  PROVE  /\ Fitting(method, path) = {} => RouterMatch(RouteTable, method, path) = NoRoute
         /\ \A k \in Fitting(method, path) :
              RouterMatch(RouteTable, method, path) =
                [handler |-> RouteTable[k].handler,
                 params |-> Captured(RouteTable[k].pattern, path)]
<1> DEFINE at == IF Fitting(method, path) # {} THEN Min(Fitting(method, path)) ELSE 0
<1>1. RouterMatch(RouteTable, method, path) =
        IF at = 0 THEN NoRoute
        ELSE [handler |-> RouteTable[at].handler,
              params |-> Captured(RouteTable[at].pattern, path)]
  BY DEF RouterMatch, SelectInSeq, Fitting
<1>2. ASSUME NEW k \in Fitting(method, path)
      PROVE  at = k /\ k # 0
  <2>1. Fitting(method, path) = {k}
    BY <1>2, OneFits
  <2>2. k \in 1..Len(RouteTable)
    BY <1>2 DEF Fitting
  <2>3. k \in Nat \ {0}
    BY <2>2, TableShape
  <2>4. Min({k}) = k
    BY <2>3 DEF Min
  <2> QED
    BY <2>1, <2>3, <2>4
<1>3. Fitting(method, path) = {} => at = 0
  OBVIOUS
<1> HIDE DEF at
<1> QED
  BY <1>1, <1>2, <1>3

(* The reply to a request says what Dispatched asks.                       *)
Truthful(match, method, path) ==
  LET built == {route \in Range(RouteTable) : Builds(route, method, path)}
      value == IF match.params = <<>> THEN <<>> ELSE match.params[1].value
  IN /\ {route.handler : route \in built} =
          (IF match.handler = "none" THEN {} ELSE {match.handler})
     /\ \A route \in built : Filled(route.pattern, value) = path

(* The match of router_match does.                                         *)
LEMMA MatchTruthful ==
  ASSUME Distinct(RouteTable), NEW method, NEW path \in Seq(Seq(Character))
  PROVE  Truthful(RouterMatch(RouteTable, method, path), method, path)
<1> DEFINE match == RouterMatch(RouteTable, method, path)
           built == {route \in Range(RouteTable) : Builds(route, method, path)}
<1>1. built = {RouteTable[i] : i \in Fitting(method, path)}
  <2>1. ASSUME NEW i \in 1..Len(RouteTable)
        PROVE  Builds(RouteTable[i], method, path) <=> i \in Fitting(method, path)
    <3>1. Tabled(RouteTable[i].pattern)
      BY <2>1, TableShape
    <3>2. ASSUME Builds(RouteTable[i], method, path)
          PROVE  i \in Fitting(method, path)
      BY <3>1, <3>2, BuiltFits DEF Fitting
    <3>3. ASSUME i \in Fitting(method, path)
          PROVE  Builds(RouteTable[i], method, path)
      <4>1. RouteTable[i].method = method /\ MatchPattern(RouteTable[i].pattern, path)
        BY <3>3 DEF Fitting
      <4>2. /\ Filled(RouteTable[i].pattern, ValueAt(RouteTable[i].pattern, path)) = path
            /\ ValueAt(RouteTable[i].pattern, path)
                 \in {<<>>} \cup {v \in Range(path) : Len(v) < ValueLen}
            /\ (ValueAt(RouteTable[i].pattern, path) # <<>>) <=> (Id \in Range(RouteTable[i].pattern))
        BY <3>1, <4>1, FitIsFilled
      <4> QED
        BY <4>1, <4>2 DEF Builds
    <3> QED
      BY <3>2, <3>3
  <2>2. Range(RouteTable) = {RouteTable[i] : i \in 1..Len(RouteTable)}
    BY TableShape DEF Range
  <2>3. Fitting(method, path) \subseteq 1..Len(RouteTable)
    BY DEF Fitting
  <2> QED
    BY <2>1, <2>2, <2>3
<1>2. CASE Fitting(method, path) = {}
  <2>1. match = NoRoute /\ built = {}
    BY <1>1, <1>2, MatchFound
  <2> QED
    BY <2>1 DEF Truthful, NoRoute
<1>3. ASSUME NEW k \in Fitting(method, path)
      PROVE  Truthful(match, method, path)
  <2>1. match = [handler |-> RouteTable[k].handler,
                 params |-> Captured(RouteTable[k].pattern, path)]
    BY <1>3, MatchFound
  <2>2. Fitting(method, path) = {k}
    BY <1>3, OneFits
  <2>3. built = {RouteTable[k]}
    BY <1>1, <2>2
  <2>4. /\ k \in 1..34 /\ MatchPattern(RouteTable[k].pattern, path)
        /\ Tabled(RouteTable[k].pattern) /\ RouteTable[k].handler # "none"
    BY <1>3, TableShape DEF Fitting
  <2> DEFINE pattern == RouteTable[k].pattern
             value == IF match.params = <<>> THEN <<>> ELSE match.params[1].value
  <2>5. value = ValueAt(pattern, path)
    <3>1. match.params = Captured(pattern, path)
      BY <2>1
    <3>2. CASE Spots(pattern) = {}
      <4>1. Captured(pattern, path) = <<>>
        BY <2>4, <3>2, CapturedValue
      <4> QED
        BY <3>1, <3>2, <4>1 DEF ValueAt
    <3>3. ASSUME NEW i, Spots(pattern) = {i}
          PROVE  value = ValueAt(pattern, path)
      <4>1. Captured(pattern, path) # <<>> /\ Captured(pattern, path)[1].value = path[i]
        BY <2>4, <3>3, CapturedValue
      <4>2. ValueAt(pattern, path) = path[i]
        BY <3>3 DEF ValueAt
      <4> QED
        BY <3>1, <4>1, <4>2
    <3> QED
      BY <2>4, <3>2, <3>3, OneSpot
  <2>6. Filled(pattern, ValueAt(pattern, path)) = path
    BY <2>4, FitIsFilled
  <2>7. {route.handler : route \in built} = {match.handler} /\ match.handler # "none"
    BY <2>1, <2>3, <2>4
  <2>8. \A route \in built : Filled(route.pattern, value) = path
    BY <2>3, <2>5, <2>6
  <2> HIDE DEF match
  <2> QED
    BY <2>7, <2>8 DEF Truthful
<1> QED
  BY <1>2, <1>3

-----------------------------------------------------------------------------
(* The inductive invariant: what is registered is the table as far as it   *)
(* was read, without two routes of one method and pattern, and all of it   *)
(* once the server answers.                                                *)
RoutesInv ==
  /\ routes \in Seq(Range(RouteTable)) /\ Len(routes) <= Len(RouteTable)
  /\ \A i \in 1..Len(routes) : routes[i] = RouteTable[i]
  /\ Distinct(routes)
  /\ phase = "starting" => Len(routes) < Len(RouteTable)
  /\ phase = "up" => routes = RouteTable

(* The inductive invariant of the dispatch.                                *)
RequestInv == RoutesInv /\ Dispatched

(* It holds at the start.                                                  *)
LEMMA InitInv == Init => RequestInv
<1> SUFFICES ASSUME Init PROVE RequestInv
  OBVIOUS
<1>1. RoutesInv
  BY TableShape DEF Init, RoutesInv, Distinct
<1>2. Dispatched
  BY DEF Init, NoReply, Dispatched
<1> QED
  BY <1>1, <1>2 DEF RequestInv

(* Registering a route keeps it.                                           *)
LEMMA RegisterStep ==
  ASSUME RoutesInv, RegisterRoute
  PROVE  RoutesInv'
<1>1. /\ Len(RouteTable) = 34 /\ DOMAIN RouteTable = 1..34
      /\ routes \in Seq(Range(RouteTable)) /\ Len(routes) \in Nat /\ Len(routes) < 34
  <2>1. Len(RouteTable) = 34 /\ DOMAIN RouteTable = 1..34
    BY TableShape
  <2> QED
    BY <2>1 DEF RoutesInv, RegisterRoute
<1>2. PICK n \in 1..34 : n = Len(routes) + 1
  <2>1. \A k \in Nat : k < 34 => k + 1 \in 1..34
    OBVIOUS
  <2> QED
    BY <1>1, <2>1
<1>3. n \in 1..34 /\ Len(RouteTable) = 34
  BY <1>1, <1>2
<1>4. PICK route : route = RouteTable[n]
  OBVIOUS
<1>5. route \in Range(RouteTable)
  BY <1>1, <1>3, <1>4 DEF Range
<1>6. /\ routes' = Append(routes, route) /\ CanAddRoute(routes, route)
      /\ phase' = IF Len(routes') = Len(RouteTable) THEN "up" ELSE "starting"
  BY <1>2, <1>4 DEF RegisterRoute, AddRoute
<1>7. /\ routes' \in Seq(Range(RouteTable)) /\ Len(routes') = n
      /\ routes'[n] = route /\ \A i \in 1..Len(routes) : routes'[i] = routes[i]
  BY <1>1, <1>2, <1>5, <1>6
<1>8. routes' = [i \in 1..n |-> routes'[i]]
  BY <1>7
<1>9. \A i \in 1..n : routes'[i] = RouteTable[i]
  <2>1. \A i \in 1..n : i # n => i \in 1..Len(routes)
    BY <1>2, <1>3
  <2>2. \A i \in 1..Len(routes) : routes[i] = RouteTable[i]
    BY DEF RoutesInv
  <2> QED
    BY <1>4, <1>7, <2>1, <2>2
<1>10. \A i \in 1..Len(routes) :
         ~(routes[i].method = route.method /\ routes[i].pattern = route.pattern)
  <2>1. \A i \in 1..Len(routes) : routes[i] \in Range(routes)
    BY <1>1 DEF Range
  <2> QED
    BY <1>6, <2>1 DEF CanAddRoute
<1>11. Distinct(routes')
  <2>1. \A i \in 1..Len(routes') : i # n => i \in 1..Len(routes)
    BY <1>1, <1>2, <1>7
  <2> QED
    BY <1>7, <1>10, <2>1 DEF Distinct, RoutesInv
<1>12. Len(routes') <= 34 /\ (Len(routes') # 34 => Len(routes') < 34)
  BY <1>3, <1>7
<1>13. RouteTable = [i \in 1..34 |-> RouteTable[i]]
  BY DEF RouteTable
<1>14. Len(routes') = 34 => routes' = RouteTable
  BY <1>7, <1>8, <1>9, <1>13
<1>15. (phase' = "up" => Len(routes') = 34) /\ (phase' = "starting" => Len(routes') # 34)
  BY <1>3, <1>6
<1> QED
  BY <1>3, <1>7, <1>9, <1>11, <1>12, <1>14, <1>15 DEF RoutesInv

(* Every step keeps it.                                                    *)
LEMMA RequestStep == RequestInv /\ [Next]_vars => RequestInv'
<1> SUFFICES ASSUME RequestInv, [Next]_vars PROVE RequestInv'
  OBVIOUS
<1> USE DEF RequestInv
<1>1. ASSUME UNCHANGED <<routes, phase, reply>>
      PROVE  RequestInv'
  BY <1>1 DEF RoutesInv, Dispatched
<1>2. ASSUME UNCHANGED <<routes, phase>>, reply'.is # "request"
      PROVE  RequestInv'
  BY <1>2 DEF RoutesInv, Dispatched
<1>3. CASE RegisterRoute
  <2>1. RoutesInv'
    BY <1>3, RegisterStep
  <2>2. reply' = reply
    BY <1>3 DEF RegisterRoute
  <2> QED
    BY <2>1, <2>2 DEF Dispatched
<1>4. CASE RegisterFails
  BY <1>4 DEF RegisterFails, RoutesInv, Dispatched
<1>5. ASSUME NEW method \in Method, NEW path \in Paths, Request(method, path)
      PROVE  RequestInv'
  <2> DEFINE match == RouterMatch(routes, method, path)
             id == IdParam(ParamGet(match, Tail(Id)))
             answer == [is |-> "request", method |-> method, path |-> path,
                        handler |-> match.handler, params |-> match.params, id |-> id,
                        item |-> ItemById(ByIdKind(match.handler), id)]
  <2>1. phase = "up" /\ UNCHANGED <<routes, phase>>
        /\ reply' = IF method = "OPTIONS" THEN [is |-> "allowed"] ELSE answer
    BY <1>5 DEF Request, Answers, Idle
  <2>2. routes = RouteTable /\ Distinct(RouteTable)
    BY <2>1 DEF RoutesInv
  <2>3. path \in Seq(Seq(Character))
    BY PathAssumption
  <2>4. Truthful(match, method, path)
    BY <2>2, <2>3, MatchTruthful
  <2>5. CASE method = "OPTIONS"
    BY <1>2, <2>1, <2>5
  <2>6. CASE method # "OPTIONS"
    <3>1. /\ reply'.method = method /\ reply'.path = path
          /\ reply'.handler = match.handler /\ reply'.params = match.params
      BY <2>1, <2>6
    <3> HIDE DEF match
    <3>2. Dispatched'
      BY <2>4, <3>1 DEF Truthful, Dispatched
    <3> QED
      BY <2>1, <3>2 DEF RoutesInv
  <2> QED
    BY <2>5, <2>6
<1>6. ASSUME NEW answer, Answers(answer), answer.is # "request"
      PROVE  RequestInv'
  BY <1>2, <1>6 DEF Answers
<1>7. ASSUME NEW kind, NEW limit, NEW offset, ListKind(kind, limit, offset)
      PROVE  RequestInv'
  BY <1>2, <1>7 DEF ListKind, Answers
<1>8. ASSUME NEW q, NEW fuzzy, NEW limit, NEW offset, SearchFor(q, fuzzy, limit, offset)
      PROVE  RequestInv'
  BY <1>2, <1>8 DEF SearchFor, Answers
<1>9. CASE Numbers
  BY <1>2, <1>9 DEF Numbers, Body, PatchBody, ReadNumber, Answers
<1>10. CASE Discovery
  <2>1. ASSUME NEW limit \in Limits, CollectRandom(limit) \/ CollectRecent(limit)
        PROVE  RequestInv'
    BY <1>1, <2>1 DEF CollectRandom, CollectRecent, Collect
  <2>2. CASE Swap
    BY <1>1, <2>2 DEF Swap
  <2>3. CASE AnswerDiscovery
    BY <1>2, <2>3 DEF AnswerDiscovery
  <2> QED
    BY <1>10, <2>1, <2>2, <2>3 DEF Discovery
<1>11. CASE Done
  BY <1>2, <1>11 DEF Done, NoReply
<1>12. CASE Exited \/ UNCHANGED vars
  BY <1>1, <1>12 DEF Exited, vars
<1>13. CASE Reading
  BY <1>5, <1>7, <1>8, <1>13 DEF Reading
<1> QED
  BY <1>3, <1>4, <1>9, <1>10, <1>11, <1>12, <1>13 DEF Next, Start

(* Whatever is asked for, a request is handled by the one route of the     *)
(* table that its method and path are built from, with the value the path  *)
(* has for the parameter, or by none if there is no such route; the order  *)
(* of the table does not matter (router.c:194, routes.c:27).               *)
THEOREM RequestsDispatched == Spec => []Dispatched
<1>1. RequestInv => Dispatched
  BY DEF RequestInv
<1> QED
  BY <1>1, InitInv, RequestStep, PTL DEF Spec

(* A finite set of numbers, put in order.                                  *)
Upward(S) == Ordered(S, LAMBDA i, j : i < j)

(* And from the greatest.                                                  *)
Downward(S) == Ordered(S, LAMBDA i, j : i > j)

(* Upward has each number of the set, each after the smaller ones.         *)
LEMMA Rising ==
  ASSUME NEW S, S \subseteq Nat, IsFiniteSet(S)
  PROVE  /\ Upward(S) \in [1..Cardinality(S) -> S]
         /\ \A x \in S : \E k \in 1..Cardinality(S) : Upward(S)[k] = x
         /\ \A i, j \in 1..Cardinality(S) : i < j <=> Upward(S)[i] < Upward(S)[j]
<1> DEFINE R == {p \in S \X S : p[1] < p[2]}
           ranks == {<<Cardinality({y \in S : y < x}), x>> : x \in S}
           f == ByRank(ranks, S)
<1>1. \A i, j \in S : <<i, j>> \in R <=> i < j
  OBVIOUS
<1>2. Upward(S) = f
  BY DEF Upward, Ordered, ByRank
<1> HIDE DEF R
<1>3. Orders(R, S)
  <2>1. \A x \in S : x \in Nat
    OBVIOUS
  <2> QED
    BY <1>1, <2>1 DEF Orders
<1>4. \A x \in S : Below(R, S, x) = {y \in S : y < x}
  BY <1>1 DEF Below
<1>5. ranks = {<<Cardinality(Below(R, S, x)), x>> : x \in S}
  BY <1>4
<1> HIDE DEF ranks
<1>6. Lines(f, R, S)
  BY <1>3, <1>5, OrderedIs
<1> HIDE DEF f
<1>7. /\ f \in [1..Cardinality(S) -> S]
      /\ \A x \in S : \E k \in 1..Cardinality(S) : f[k] = x
      /\ \A i, j \in 1..Cardinality(S) : i < j <=> <<f[i], f[j]>> \in R
      /\ \A k \in 1..Cardinality(S) : Cardinality(Below(R, S, f[k])) = k - 1
  <2>1. \A x \in S : Cardinality(Below(R, S, x)) + 1 \in 1..Cardinality(S)
                     /\ f[Cardinality(Below(R, S, x)) + 1] = x
    BY <1>6 DEF Lines
  <2> QED
    BY <1>6, <2>1 DEF Lines
<1>8. \A i, j \in 1..Cardinality(S) : i < j <=> f[i] < f[j]
  BY <1>1, <1>7
<1>9. \A k \in 1..Cardinality(S) : Cardinality({y \in S : y < f[k]}) = k - 1
  BY <1>4, <1>7
<1> QED
  BY <1>2, <1>7, <1>8, <1>9

(* Downward has each, each after the greater ones: as many as come before  *)
(* it.                                                                     *)
LEMMA Falling ==
  ASSUME NEW S, S \subseteq Nat, IsFiniteSet(S)
  PROVE  /\ Downward(S) \in [1..Cardinality(S) -> S]
         /\ \A x \in S : \E k \in 1..Cardinality(S) : Downward(S)[k] = x
         /\ \A i, j \in 1..Cardinality(S) : i < j <=> Downward(S)[i] > Downward(S)[j]
         /\ \A k \in 1..Cardinality(S) : Cardinality({y \in S : y > Downward(S)[k]}) = k - 1
<1> DEFINE R == {p \in S \X S : p[1] > p[2]}
           ranks == {<<Cardinality({y \in S : y > x}), x>> : x \in S}
           f == ByRank(ranks, S)
<1>1. \A i, j \in S : <<i, j>> \in R <=> i > j
  OBVIOUS
<1>2. Downward(S) = f
  BY DEF Downward, Ordered, ByRank
<1> HIDE DEF R
<1>3. Orders(R, S)
  <2>1. \A x \in S : x \in Nat
    OBVIOUS
  <2> QED
    BY <1>1, <2>1 DEF Orders
<1>4. \A x \in S : Below(R, S, x) = {y \in S : y > x}
  BY <1>1 DEF Below
<1>5. ranks = {<<Cardinality(Below(R, S, x)), x>> : x \in S}
  BY <1>4
<1> HIDE DEF ranks
<1>6. Lines(f, R, S)
  BY <1>3, <1>5, OrderedIs
<1> HIDE DEF f
<1>7. /\ f \in [1..Cardinality(S) -> S]
      /\ \A x \in S : \E k \in 1..Cardinality(S) : f[k] = x
      /\ \A i, j \in 1..Cardinality(S) : i < j <=> <<f[i], f[j]>> \in R
      /\ \A k \in 1..Cardinality(S) : Cardinality(Below(R, S, f[k])) = k - 1
  <2>1. \A x \in S : Cardinality(Below(R, S, x)) + 1 \in 1..Cardinality(S)
                     /\ f[Cardinality(Below(R, S, x)) + 1] = x
    BY <1>6 DEF Lines
  <2> QED
    BY <1>6, <2>1 DEF Lines
<1>8. \A i, j \in 1..Cardinality(S) : i < j <=> f[i] > f[j]
  BY <1>1, <1>7
<1>9. \A k \in 1..Cardinality(S) : Cardinality({y \in S : y > f[k]}) = k - 1
  BY <1>4, <1>7
<1> QED
  BY <1>2, <1>7, <1>8, <1>9

(* The places of a sequence are finite.                                    *)
LEMMA PlacesFinite ==
  ASSUME NEW n \in Nat, NEW places \in SUBSET (1..n)
  PROVE  IsFiniteSet(places) /\ Cardinality(places) \in Nat /\ places \subseteq Nat
         /\ IsFiniteSet(1..n) /\ Cardinality(1..n) = n
<1>1. 0 \in Int /\ 1 \in Int /\ n \in Int
  OBVIOUS
<1>2. IsFiniteSet(1..n) /\ Cardinality(1..n) = IF 1 > n THEN 0 ELSE n - 1 + 1
  BY <1>1, FS_Interval
<1>3. 1 > n => n = 0
  OBVIOUS
<1>4. IsFiniteSet(places) /\ Cardinality(places) \in Nat
  BY <1>2, FS_Subset, FS_CardinalityType
<1> QED
  BY <1>2, <1>3, <1>4

(* What is picked from a sequence keeps its order.                         *)
LEMMA PickedIs ==
  ASSUME NEW S, NEW list \in Seq(S), NEW places \in SUBSET (DOMAIN list),
         NEW n, n = Cardinality(places), NEW order, order = Upward(places)
  PROVE  /\ n \in Nat /\ order \in [1..n -> places]
         /\ Picked(list, places) = [k \in 1..n |-> list[order[k]]]
         /\ Picked(list, places) \in Seq(S) /\ Len(Picked(list, places)) = n
         /\ \A p \in places : \E k \in 1..n : order[k] = p
         /\ \A i, j \in 1..n : i < j <=> order[i] < order[j]
<1>1. PICK m \in Nat : m = Len(list) /\ DOMAIN list = 1..m
  OBVIOUS
<1>2. IsFiniteSet(places) /\ places \subseteq Nat
  BY <1>1, PlacesFinite
<1>3. n \in Nat
  BY <1>1, PlacesFinite
<1>4. /\ order \in [1..n -> places]
      /\ \A p \in places : \E k \in 1..n : order[k] = p
      /\ \A i, j \in 1..n : i < j <=> order[i] < order[j]
  BY <1>2, Rising
<1>5. Picked(list, places) = [k \in 1..n |-> list[order[k]]]
  <2>1. Picked(list, places) = [k \in DOMAIN Upward(places) |-> list[Upward(places)[k]]]
    BY DEF Picked, Upward, Ordered
  <2> QED
    BY <1>4, <2>1
<1>6. \A k \in 1..n : list[order[k]] \in S
  <2>1. \A p \in places : list[p] \in S
    BY <1>1
  <2> QED
    BY <1>4, <2>1
<1>7. [k \in 1..n |-> list[order[k]]] \in [1..n -> S]
  BY <1>6
<1>8. [k \in 1..n |-> list[order[k]]] \in Seq(S) /\ Len([k \in 1..n |-> list[order[k]]]) = n
  BY <1>3, <1>7
<1>9. Picked(list, places) \in Seq(S) /\ Len(Picked(list, places)) = n
  BY <1>5, <1>8
<1> QED
  BY <1>3, <1>4, <1>5, <1>9

-----------------------------------------------------------------------------
(***************************************************************************)
(* Discoveries.                                                            *)
(***************************************************************************)

(* The ids of the audio items of a library, each of one item.              *)
LEMMA AudioListed ==
  ASSUME library \in Libraries
  PROVE  /\ AudioIds \in Seq(AudioOf(library)) /\ Range(AudioIds) = AudioOf(library)
         /\ IsInjective(AudioIds) /\ AudioOf(library) \subseteq Nat
<1> DEFINE items == library.items
           places == {i \in DOMAIN items : items[i].kind = "audio"}
<1>1. PICK m \in Nat : m = Len(items) /\ DOMAIN items = 1..m /\ items \in Seq(Range(items))
  <2>1. ListIn(library, "tracks") = library.items /\ "tracks" \in Kinds
    BY DEF ListIn, Kinds
  <2>2. items \in Seq(Range(items))
    BY <2>1, LibraryAssumption
  <2> QED
    BY <2>2
<1>2. \A i, j \in 1..m : items[i].id \in Nat /\ (items[i].id = items[j].id => i = j)
  <2>1. ListIn(library, "tracks") = library.items /\ "tracks" \in Kinds
    BY DEF ListIn, Kinds
  <2>2. \A i, j \in DOMAIN items : items[i].id \in Nat /\ (items[i].id = items[j].id => i = j)
    BY <2>1, LibraryAssumption
  <2> QED
    BY <1>1, <2>2
<1>3. PICK n : n = Cardinality(places)
  OBVIOUS
<1>4. PICK order : order = Upward(places)
  OBVIOUS
<1>5. PICK list : list = Picked(items, places)
  OBVIOUS
<1>6. /\ n \in Nat /\ order \in [1..n -> places]
      /\ list = [k \in 1..n |-> items[order[k]]]
      /\ \A p \in places : \E k \in 1..n : order[k] = p
      /\ \A i, j \in 1..n : i < j <=> order[i] < order[j]
  <2>1. places \in SUBSET (DOMAIN items)
    OBVIOUS
  <2> HIDE DEF places, items
  <2> QED
    BY <1>1, <1>3, <1>4, <1>5, <2>1, PickedIs
<1>7. AudioIds = [i \in 1..n |-> items[order[i]].id]
  <2>1. AudioIds = [i \in DOMAIN list |-> list[i].id]
    BY <1>5 DEF AudioIds, OfKind
  <2> HIDE DEF items, places
  <2> QED
    BY <1>6, <2>1
<1>8. AudioOf(library) = {items[p].id : p \in places}
  BY DEF AudioOf, Range
<1>9. places \subseteq 1..m /\ \A k \in 1..n : order[k] \in places
  BY <1>1, <1>6
<1> HIDE DEF places, items
<1>10. AudioOf(library) \subseteq Nat
  BY <1>2, <1>8, <1>9
<1>11. \A k \in 1..n : items[order[k]].id \in AudioOf(library)
  BY <1>8, <1>9
<1>12. AudioIds \in Seq(AudioOf(library))
  BY <1>6, <1>7, <1>11
<1>13. Range(AudioIds) = AudioOf(library)
  <2>1. Range(AudioIds) = {items[order[k]].id : k \in 1..n}
    BY <1>7 DEF Range
  <2>2. \A x \in AudioOf(library) : \E k \in 1..n : x = items[order[k]].id
    BY <1>6, <1>8
  <2> QED
    BY <1>11, <2>1, <2>2
<1>14. \A i, j \in 1..n : AudioIds[i] = AudioIds[j] => i = j
  <2> TAKE i, j \in 1..n
  <2>1. AudioIds[i] = AudioIds[j] => order[i] = order[j]
    BY <1>2, <1>7, <1>9
  <2>2. order[i] \in 1..m /\ order[j] \in 1..m
    BY <1>9
  <2>3. order[i] = order[j] => ~(order[i] < order[j]) /\ ~(order[j] < order[i])
    BY <2>2
  <2>4. i < j \/ j < i \/ i = j
    BY <1>6
  <2> QED
    BY <1>6, <2>1, <2>3, <2>4
<1>15. IsInjective(AudioIds)
  BY <1>7, <1>14 DEF IsInjective
<1> QED
  BY <1>10, <1>12, <1>13, <1>15

(* A sequence without repetition is as long as what it holds.              *)
LEMMA RangeCounts ==
  ASSUME NEW S, NEW seq \in Seq(S), IsInjective(seq)
  PROVE  IsFiniteSet(Range(seq)) /\ Cardinality(Range(seq)) = Len(seq)
<1>1. PICK n \in Nat : n = Len(seq) /\ DOMAIN seq = 1..n
  OBVIOUS
<1>2. IsFiniteSet(1..n) /\ Cardinality(1..n) = n
  BY PlacesFinite
<1>3. seq \in [1..n -> Range(seq)]
  BY <1>1 DEF Range
<1>4. \A x \in Range(seq) : \E k \in 1..n : seq[k] = x
  BY <1>1 DEF Range
<1>5. seq \in Bijection(1..n, Range(seq))
  BY <1>1, <1>3, <1>4, Zenon DEF Bijection, Injection, Surjection, IsInjective
<1>6. ExistsBijection(1..n, Range(seq))
  BY <1>5 DEF ExistsBijection
<1> QED
  BY <1>1, <1>2, <1>6, FS_Bijection

(* What a shuffle has done after some steps: the rest is still there, and  *)
(* the ids it noted are the first of it.                                   *)
Dealt(r, i, n, A) ==
  /\ r.left \in [1..n -> A] /\ \A a, b \in 1..n : r.left[a] = r.left[b] => a = b
  /\ r.ids \in Seq(A) /\ Len(r.ids) = i /\ \A k \in 1..i : r.ids[k] = r.left[k]

(* One step of a shuffle.                                                  *)
Deal(r, i, c) ==
  LET left == [r.left EXCEPT ![i] = r.left[c], ![c] = r.left[i]]
  IN [left |-> left, ids |-> Append(r.ids, left[i])]

(* A step of the shuffle is one.                                           *)
LEMMA DealStep ==
  ASSUME NEW A, NEW n \in Nat, NEW i \in 1..n, NEW c \in i..n, NEW r, Dealt(r, i - 1, n, A)
  PROVE  Dealt(Deal(r, i, c), i, n, A)
<1>1. PICK old : old = r.left
  OBVIOUS
<1>2. PICK left : left = [old EXCEPT ![i] = old[c], ![c] = old[i]]
  OBVIOUS
<1>3. /\ old \in [1..n -> A] /\ \A a, b \in 1..n : old[a] = old[b] => a = b
      /\ r.ids \in Seq(A) /\ Len(r.ids) = i - 1 /\ \A k \in 1..(i - 1) : r.ids[k] = old[k]
  BY <1>1 DEF Dealt
<1>4. c \in 1..n /\ \A k \in 1..(i - 1) : k # i /\ k # c /\ k \in 1..n
  OBVIOUS
<1>5. left \in [1..n -> A]
  BY <1>2, <1>3, <1>4
<1>6. \A k \in 1..n : left[k] = IF k = c THEN old[i] ELSE IF k = i THEN old[c] ELSE old[k]
  BY <1>2, <1>3, <1>4
<1>7. \A a, b \in 1..n : left[a] = left[b] => a = b
  BY <1>3, <1>4, <1>6
<1>8. PICK ids : ids = Append(r.ids, left[i])
  OBVIOUS
<1>9. ids \in Seq(A) /\ Len(ids) = i /\ \A k \in 1..i : ids[k] = IF k = i THEN left[i] ELSE r.ids[k]
  <2>1. left[i] \in A
    BY <1>5
  <2> QED
    BY <1>3, <1>8, <2>1
<1>10. \A k \in 1..i : ids[k] = left[k]
  <2>1. \A k \in 1..i : k # i => k \in 1..(i - 1)
    OBVIOUS
  <2> QED
    BY <1>3, <1>4, <1>6, <1>9, <2>1
<1>11. Deal(r, i, c) = [left |-> left, ids |-> ids]
  BY <1>1, <1>2, <1>8 DEF Deal
<1>12. Deal(r, i, c).left = left /\ Deal(r, i, c).ids = ids
  BY <1>11
<1> QED
  BY <1>5, <1>7, <1>9, <1>10, <1>12 DEF Dealt

(* A shuffle deals so many ids, none of them twice.                        *)
LEMMA ShuffledIs ==
  ASSUME NEW A, NEW ids \in Seq(A), IsInjective(ids), NEW n \in Nat, n = Len(ids),
         NEW take \in 0..n, NEW choice \in Picks(n, take)
  PROVE  /\ Shuffled(ids, choice) \in Seq(A) /\ Len(Shuffled(ids, choice)) = take
         /\ IsInjective(Shuffled(ids, choice))
<1>1. /\ choice \in [1..take -> 1..n] /\ \A i \in 1..take : choice[i] \in i..n
      /\ take \in Nat /\ \A i \in 1..take : i \in 1..n
  BY DEF Picks, Candidates
<1>2. Len(choice) = take
  BY <1>1
<1> DEFINE S == [left : [1..n -> A], ids : Seq(A)]
           start == [left |-> ids, ids |-> <<>>]
           step == [i \in 1..take |-> [r \in S |-> Deal(r, i, choice[i])]]
<1>3. ASSUME NEW i \in 1..take, NEW r \in S
      PROVE  Deal(r, i, choice[i]) \in S
  <2>1. i \in 1..n /\ choice[i] \in 1..n
    BY <1>1
  <2>2. PICK left : left = [r.left EXCEPT ![i] = r.left[choice[i]], ![choice[i]] = r.left[i]]
    OBVIOUS
  <2>3. left \in [1..n -> A] /\ left[i] \in A
    BY <2>1, <2>2
  <2>4. Append(r.ids, left[i]) \in Seq(A)
    BY <2>3
  <2>5. Deal(r, i, choice[i]) = [left |-> left, ids |-> Append(r.ids, left[i])]
    BY <2>2 DEF Deal
  <2> QED
    BY <2>3, <2>4, <2>5
<1>4. start \in S
  <2>1. ids \in [1..n -> A]
    OBVIOUS
  <2> QED
    BY <2>1
<1>5. step \in [1..take -> [S -> S]]
  <2> HIDE DEF S
  <2>1. \A i \in 1..take : [r \in S |-> Deal(r, i, choice[i])] \in [S -> S]
    BY <1>3
  <2> QED
    BY <2>1
<1> DEFINE V(g) == [i \in 0..Len(choice) |->
             IF i = 0 THEN [left |-> ids, ids |-> <<>>]
             ELSE LET last == g[i - 1]
                      left == [last.left EXCEPT ![i] = last.left[choice[i]],
                                                ![choice[i]] = last.left[i]]
                  IN [left |-> left, ids |-> Append(last.ids, left[i])]]
<1>6. \A g : V(g) = [i \in 0..take |-> IF i = 0 THEN start ELSE Deal(g[i - 1], i, choice[i])]
  BY <1>2 DEF Deal
<1>7. PICK f \in [0..take -> S] : Loops(f, take, start, step)
  <2> HIDE DEF step, S, start
  <2> QED
    BY <1>1, <1>4, <1>5, LoopRuns
<1>8. PICK g : g = CHOOSE h : h = V(h)
  OBVIOUS
<1> HIDE DEF S, start, V
<1>9. f = V(f)
  <2>1. f = [m \in 0..take |-> IF m = 0 THEN start ELSE step[m][f[m - 1]]]
    BY <1>7 DEF Loops
  <2>2. \A m \in 0..take : m # 0 => m \in 1..take /\ f[m - 1] \in S
    BY <1>7
  <2>3. \A m \in 0..take : m # 0 => step[m][f[m - 1]] = Deal(f[m - 1], m, choice[m])
    BY <2>2
  <2>4. f = [m \in 0..take |-> IF m = 0 THEN start ELSE Deal(f[m - 1], m, choice[m])]
    BY <2>1, <2>3
  <2> QED
    BY <1>6, <2>4
<1>10. g = V(g)
  BY <1>8, <1>9
<1>11. g = [m \in 0..take |-> IF m = 0 THEN start ELSE Deal(g[m - 1], m, choice[m])]
  BY <1>6, <1>10
<1>12. Shuffled(ids, choice) = g[take].ids
  BY <1>2, <1>8 DEF Shuffled, V
<1> DEFINE T == {i \in 0..take : ~Dealt(g[i], i, n, A)}
<1>13. Dealt(g[0], 0, n, A)
  <2>1. g[0] = start
    BY <1>1, <1>11
  <2>2. start.left = ids /\ start.ids = <<>>
    BY DEF start
  <2>3. ids \in [1..n -> A] /\ \A a, b \in 1..n : ids[a] = ids[b] => a = b
    BY DEF IsInjective
  <2> QED
    BY <2>1, <2>2, <2>3 DEF Dealt
<1>14. ASSUME NEW i \in 1..take, Dealt(g[i - 1], i - 1, n, A)
       PROVE  Dealt(g[i], i, n, A)
  <2>1. g[i] = Deal(g[i - 1], i, choice[i])
    BY <1>1, <1>11
  <2>2. i \in 1..n /\ choice[i] \in i..n
    BY <1>1
  <2> QED
    BY <1>14, <2>1, <2>2, DealStep
<1>15. T = {}
  <2> SUFFICES ASSUME T # {}
               PROVE  FALSE
    OBVIOUS
  <2>1. PICK i \in T : \A j \in T : i <= j
    <3>1. T \subseteq Nat
      OBVIOUS
    <3> HIDE DEF T
    <3> QED
      BY <3>1, FirstOf
  <2>2. i \in 0..take /\ ~Dealt(g[i], i, n, A)
    BY <2>1
  <2>3. i \in 1..take /\ i - 1 \in 0..take /\ ~(i <= i - 1)
    BY <1>13, <2>2
  <2>4. Dealt(g[i - 1], i - 1, n, A)
    BY <2>1, <2>3
  <2> QED
    BY <1>14, <2>2, <2>3, <2>4
<1>16. Dealt(g[take], take, n, A)
  BY <1>1, <1>15
<1>17. PICK left, dealt : left = g[take].left /\ dealt = g[take].ids
  OBVIOUS
<1>18. /\ dealt \in Seq(A) /\ Len(dealt) = take
       /\ \A a, b \in 1..take : dealt[a] = dealt[b] => a = b
  BY <1>1, <1>16, <1>17 DEF Dealt
<1>19. IsInjective(dealt)
  BY <1>18 DEF IsInjective
<1> QED
  BY <1>12, <1>17, <1>18, <1>19

(* The newest ids, highest first.                                          *)
LEMMA RecentIs ==
  ASSUME NEW S, S \subseteq Nat, IsFiniteSet(S), NEW n \in Nat, n = Cardinality(S),
         NEW take \in 0..n, NEW ids, ids = SubSeq(Downward(S), 1, take)
  PROVE  /\ ids \in Seq(S) /\ Len(ids) = take /\ IsInjective(ids)
         /\ Range(ids) = Newest(S, take)
         /\ \A i, j \in 1..take : i < j => ids[i] > ids[j]
<1>1. PICK order : order = Downward(S)
  OBVIOUS
<1>2. /\ order \in [1..n -> S]
      /\ \A x \in S : \E k \in 1..n : order[k] = x
      /\ \A i, j \in 1..n : i < j <=> order[i] > order[j]
      /\ \A k \in 1..n : Cardinality({y \in S : y > order[k]}) = k - 1
  <2>1. /\ Downward(S) \in [1..Cardinality(S) -> S]
        /\ \A x \in S : \E k \in 1..Cardinality(S) : Downward(S)[k] = x
        /\ \A i, j \in 1..Cardinality(S) : i < j <=> Downward(S)[i] > Downward(S)[j]
        /\ \A k \in 1..Cardinality(S) :
             Cardinality({y \in S : y > Downward(S)[k]}) = k - 1
    BY Falling
  <2> QED
    BY <1>1, <2>1
<1>3. order \in Seq(S) /\ Len(order) = n
  BY <1>2
<1>4. ids = [k \in 1..take |-> order[k]]
  BY <1>1, <1>3
<1>5. \A k \in 1..take : k \in 1..n /\ order[k] \in S /\ ids[k] = order[k]
  BY <1>2, <1>4
<1>6. ids \in Seq(S) /\ Len(ids) = take
  BY <1>4, <1>5
<1>7. \A i, j \in 1..take : i < j => ids[i] > ids[j]
  BY <1>2, <1>5
<1>8. IsInjective(ids)
  <2>1. \A i, j \in 1..take : ids[i] = ids[j] => i = j
    <3> TAKE i, j \in 1..take
    <3>1. ids[i] \in Nat /\ ids[j] \in Nat
      BY <1>5
    <3>2. ids[i] = ids[j] => ~(ids[i] > ids[j]) /\ ~(ids[j] > ids[i])
      BY <3>1
    <3>3. i < j \/ j < i \/ i = j
      OBVIOUS
    <3> QED
      BY <1>7, <3>2, <3>3
  <2> QED
    BY <1>4, <2>1 DEF IsInjective
<1>9. Range(ids) = {order[k] : k \in 1..take}
  BY <1>4, <1>5 DEF Range
<1>10. \A k \in 1..n : order[k] \in Newest(S, take) <=> k \in 1..take
  <2> TAKE k \in 1..n
  <2>1. order[k] \in Newest(S, take) <=> k - 1 < take
    BY <1>2 DEF Newest
  <2> QED
    BY <2>1
<1>11. Newest(S, take) \subseteq S
  BY DEF Newest
<1>12. Newest(S, take) = {order[k] : k \in 1..take}
  BY <1>2, <1>5, <1>10, <1>11, ZenonT(60)
<1> QED
  BY <1>6, <1>7, <1>8, <1>9, <1>12

(* A sequence has only elements of another, in the order of that one.      *)
KeepsOrder(piece, whole) ==
  \A i, j \in DOMAIN piece : i < j =>
    \E a, b \in DOMAIN whole : a < b /\ piece[i] = whole[a] /\ piece[j] = whole[b]

(* What is shown of the ids that were collected: those still in the        *)
(* library, in the same order.                                             *)
LEMMA ShownIs ==
  ASSUME library \in Libraries, NEW S, IsFiniteSet(S), NEW ids \in Seq(S), IsInjective(ids),
         NEW audio, audio = AudioOf(library), NEW shown, shown = Shown(ids)
  PROVE  /\ shown \in Seq(S) /\ IsInjective(shown)
         /\ Range(shown) = Range(ids) \cap audio
         /\ Len(shown) >= Len(ids) - Cardinality(S \ audio)
         /\ KeepsOrder(shown, ids)
<1> DEFINE places == {k \in DOMAIN ids : ids[k] \in Range(AudioIds)}
<1>1. Range(AudioIds) = audio
  BY AudioListed
<1>2. PICK m \in Nat : m = Len(ids) /\ DOMAIN ids = 1..m
  OBVIOUS
<1>3. places = {k \in 1..m : ids[k] \in audio}
  BY <1>1, <1>2
<1>4. PICK n, order : n = Cardinality(places) /\ order = Upward(places)
  OBVIOUS
<1>5. shown = Picked(ids, places)
  BY DEF Shown
<1> HIDE DEF places
<1>6. /\ n \in Nat /\ order \in [1..n -> places]
      /\ shown = [k \in 1..n |-> ids[order[k]]]
      /\ shown \in Seq(S) /\ Len(shown) = n
      /\ \A p \in places : \E k \in 1..n : order[k] = p
      /\ \A i, j \in 1..n : i < j <=> order[i] < order[j]
  <2>1. places \in SUBSET (DOMAIN ids)
    BY <1>2, <1>3
  <2> QED
    BY <1>4, <1>5, <2>1, PickedIs
<1>7. \A k \in 1..n : order[k] \in 1..m /\ shown[k] = ids[order[k]] /\ shown[k] \in audio
  BY <1>3, <1>6
<1>8. DOMAIN shown = 1..n
  BY <1>6
<1>9. IsInjective(shown)
  <2>1. \A i, j \in 1..n : shown[i] = shown[j] => i = j
    <3> TAKE i, j \in 1..n
    <3>1. order[i] \in 1..m /\ order[j] \in 1..m
      BY <1>7
    <3>2. shown[i] = shown[j] => order[i] = order[j]
      BY <1>2, <1>7, <3>1 DEF IsInjective
    <3>3. order[i] = order[j] => ~(order[i] < order[j]) /\ ~(order[j] < order[i])
      BY <3>1
    <3>4. i < j \/ j < i \/ i = j
      OBVIOUS
    <3> QED
      BY <1>6, <3>2, <3>3, <3>4
  <2> QED
    BY <1>8, <2>1 DEF IsInjective
<1>10. Range(shown) = Range(ids) \cap audio
  <2>1. \A x \in Range(shown) : x \in Range(ids) \cap audio
    BY <1>2, <1>7, <1>8 DEF Range
  <2>2. ASSUME NEW x \in Range(ids) \cap audio
        PROVE  x \in Range(shown)
    <3>1. PICK p \in 1..m : ids[p] = x
      BY <1>2 DEF Range
    <3>2. p \in places
      BY <1>3, <3>1
    <3>3. PICK k \in 1..n : order[k] = p
      BY <1>6, <3>2
    <3>4. shown[k] = x
      BY <1>7, <3>1, <3>3
    <3> QED
      BY <1>8, <3>4 DEF Range
  <2> QED
    BY <2>1, <2>2
<1>11. Len(shown) >= Len(ids) - Cardinality(S \ audio)
  <2>1. PICK all, lost, kept : all = Range(ids) /\ lost = S \ audio /\ kept = all \cap audio
    OBVIOUS
  <2>2. IsFiniteSet(all) /\ Cardinality(all) = m
    BY <1>2, <2>1, RangeCounts
  <2>3. Cardinality(kept) = n
    BY <1>6, <1>9, <1>10, <2>1, RangeCounts
  <2>4. IsFiniteSet(lost) /\ Cardinality(lost) \in Nat
    BY <2>1, FS_Difference, FS_CardinalityType
  <2>5. all \subseteq S
    BY <1>2, <2>1 DEF Range
  <2>6. all \ audio \in SUBSET lost
    BY <2>1, <2>5
  <2>7. Cardinality(all \ audio) <= Cardinality(lost)
    BY <2>4, <2>6, FS_Subset
  <2>8. Cardinality(all \ audio) = Cardinality(all) - Cardinality(kept)
    BY <2>1, <2>2, FS_Difference
  <2>9. m - n <= Cardinality(lost)
    BY <2>2, <2>3, <2>7, <2>8
  <2> QED
    BY <1>2, <1>6, <2>1, <2>4, <2>9
<1>12. KeepsOrder(shown, ids)
  <2> SUFFICES \A i, j \in DOMAIN shown : i < j =>
         \E a, b \in DOMAIN ids : a < b /\ shown[i] = ids[a] /\ shown[j] = ids[b]
    BY DEF KeepsOrder
  <2> TAKE i, j \in DOMAIN shown
  <2>1. i \in 1..n /\ j \in 1..n
    BY <1>8
  <2>2. order[i] \in DOMAIN ids /\ order[j] \in DOMAIN ids
        /\ shown[i] = ids[order[i]] /\ shown[j] = ids[order[j]]
    BY <1>2, <1>7, <2>1
  <2>3. i < j => order[i] < order[j]
    BY <1>6, <2>1
  <2> QED
    BY <2>2, <2>3
<1> QED
  BY <1>6, <1>9, <1>10, <1>11, <1>12

(* A page has a limit and an offset, whatever it is asked for.             *)
LEMMA PageIs ==
  ASSUME NEW S, NEW limit \in Seq(S), NEW T, NEW offset \in Seq(T)
  PROVE  /\ PageOf(limit, offset).limit \in Nat \ {0}
         /\ PageOf(limit, offset).offset \in Nat
<1>1. U64Max \in Nat /\ PageLimitDefault \in Nat /\ PageLimitMax \in Nat \ {0}
  BY WidthAssumption
<1>2. ASSUME NEW U, NEW text \in Seq(U), Strtoull(text) # Bad
      PROVE  Strtoull(text) \in Nat
  <2>1. PICK n \in Nat : n = Len(text)
    OBVIOUS
  <2>2. PICK v \in 0..U64Max : Strtoull(text) = v \/ Strtoull(text) = (U64Max + 1 - v) % (U64Max + 1)
    <3>1. PICK i \in 1..n :
           LET v == Value(SubSeq(text, i, n))
           IN /\ v \in 0..U64Max
              /\ Strtoull(text) = v \/ Strtoull(text) = (U64Max + 1 - v) % (U64Max + 1)
      BY <1>2, <2>1, StrtoullIs
    <3> QED
      BY <3>1
  <2>3. (U64Max + 1 - v) % (U64Max + 1) \in Nat
    BY <1>1
  <2> QED
    BY <1>1, <2>2, <2>3
<1>3. ASSUME NEW U, NEW text \in Seq(U), NEW fallback \in Nat
      PROVE  SizeOr(text, fallback) \in Nat
  BY <1>2 DEF SizeOr
<1>4. PICK size \in Nat : size = SizeOr(limit, PageLimitDefault)
  BY <1>1, <1>3
<1>5. PICK most : most = Min({size, PageLimitMax})
  OBVIOUS
<1>6. most \in Nat
  BY <1>1, <1>5, MinOfTwo
<1>7. Max({1, most}) \in Nat \ {0}
  BY <1>6, MaxOfTwo
<1>8. PageOf(limit, offset).limit = Max({1, most})
  BY <1>4, <1>5 DEF PageOf
<1>9. SizeOr(offset, 0) \in Nat
  BY <1>3
<1>10. PageOf(limit, offset).offset = SizeOr(offset, 0)
  BY DEF PageOf
<1> QED
  BY <1>7, <1>8, <1>9, <1>10

-----------------------------------------------------------------------------
(* What a discovery has collected when it waits for its second critical    *)
(* section: as many ids of the library it began with as it may take, none  *)
(* twice, the recent ones from the highest.                                *)
Collected(c) ==
  LET from == AudioOf(c.from)
      take == Min({c.page.limit, Cardinality(from)})
  IN /\ c.kind \in {"random", "recent"} /\ IsFiniteSet(from) /\ from \subseteq Nat
     /\ c.ids \in Seq(from) /\ IsInjective(c.ids) /\ Len(c.ids) = take
     /\ c.kind = "recent" => /\ Range(c.ids) = Newest(from, take)
                             /\ \A i, j \in DOMAIN c.ids : i < j => c.ids[i] > c.ids[j]

(* The inductive invariant of the discoveries: while one waits, nothing    *)
(* else answers.                                                           *)
DiscoverInv ==
  /\ library \in Libraries
  /\ call # NoCall => Collected(call) /\ reply = NoReply
  /\ DiscoverFair

(* A random discovery collects.                                            *)
LEMMA RandomCollected ==
  ASSUME library \in Libraries, NEW limit \in Limits, CollectRandom(limit)
  PROVE  Collected(call') /\ reply' = NoReply /\ library' = library
<1>1. PICK page : page = PageOf(limit, Missing)
  OBVIOUS
<1>2. page.limit \in Nat
  <2>1. limit \in Seq(Range(limit)) /\ Missing \in Seq({})
    BY TextAssumption DEF Missing
  <2> QED
    BY <1>1, <2>1, PageIs
<1>3. PICK audio, ids : audio = AudioOf(library) /\ ids = AudioIds
  OBVIOUS
<1>4. ids \in Seq(audio) /\ Range(ids) = audio /\ IsInjective(ids) /\ audio \subseteq Nat
  BY <1>3, AudioListed
<1>5. PICK n \in Nat : n = Len(ids)
  BY <1>4
<1>6. IsFiniteSet(audio) /\ Cardinality(audio) = n
  BY <1>4, <1>5, RangeCounts
<1>7. PICK take : take = Min({page.limit, n})
  OBVIOUS
<1>8. take \in 0..n
  BY <1>2, <1>7, MinOfTwo
<1>9. PICK choice \in Picks(n, take) :
        call' = [kind |-> "random", page |-> page, ids |-> Shuffled(ids, choice), from |-> library]
  BY <1>1, <1>3, <1>5, <1>7 DEF CollectRandom, Collect, Taken
<1>10. reply' = NoReply /\ library' = library
  BY DEF CollectRandom, Collect, MayDiscover, Idle
<1>11. PICK dealt : dealt = Shuffled(ids, choice)
  OBVIOUS
<1>12. dealt \in Seq(audio) /\ IsInjective(dealt) /\ Len(dealt) = take
  BY <1>4, <1>5, <1>8, <1>9, <1>11, ShuffledIs
<1>13. /\ call'.kind = "random" /\ call'.page = page /\ call'.ids = dealt
       /\ call'.from = library
  BY <1>9, <1>11
<1>14. Collected(call')
  BY <1>3, <1>4, <1>6, <1>7, <1>12, <1>13 DEF Collected
<1> QED
  BY <1>10, <1>14

(* A recent one does.                                                      *)
LEMMA RecentCollected ==
  ASSUME library \in Libraries, NEW limit \in Limits, CollectRecent(limit)
  PROVE  Collected(call') /\ reply' = NoReply /\ library' = library
<1>1. PICK page : page = PageOf(limit, Missing)
  OBVIOUS
<1>2. page.limit \in Nat
  <2>1. limit \in Seq(Range(limit)) /\ Missing \in Seq({})
    BY TextAssumption DEF Missing
  <2> QED
    BY <1>1, <2>1, PageIs
<1>3. PICK audio, listed : audio = AudioOf(library) /\ listed = AudioIds
  OBVIOUS
<1>4. listed \in Seq(audio) /\ Range(listed) = audio /\ IsInjective(listed) /\ audio \subseteq Nat
  BY <1>3, AudioListed
<1>5. PICK n \in Nat : n = Len(listed)
  BY <1>4
<1>6. IsFiniteSet(audio) /\ Cardinality(audio) = n
  BY <1>4, <1>5, RangeCounts
<1>7. PICK take : take = Min({page.limit, n})
  OBVIOUS
<1>8. take \in 0..n
  BY <1>2, <1>7, MinOfTwo
<1>9. PICK ids : ids = SubSeq(Downward(audio), 1, take)
  OBVIOUS
<1>10. call' = [kind |-> "recent", page |-> page, ids |-> ids, from |-> library]
  <2>1. call' = [kind |-> "recent", page |-> PageOf(limit, Missing),
                 ids |-> SubSeq(Downward(Range(AudioIds)), 1, Taken(PageOf(limit, Missing))),
                 from |-> library]
    BY DEF CollectRecent, Collect, Downward, Ordered
  <2>2. Taken(PageOf(limit, Missing)) = take
    BY <1>1, <1>3, <1>5, <1>7 DEF Taken
  <2>3. Range(AudioIds) = audio
    BY <1>3, <1>4
  <2> QED
    BY <1>1, <1>9, <2>1, <2>2, <2>3
<1>11. reply' = NoReply /\ library' = library
  BY DEF CollectRecent, Collect, MayDiscover, Idle
<1>12. /\ ids \in Seq(audio) /\ Len(ids) = take /\ IsInjective(ids)
       /\ Range(ids) = Newest(audio, take)
       /\ \A i, j \in 1..take : i < j => ids[i] > ids[j]
  BY <1>4, <1>6, <1>8, <1>9, RecentIs
<1>13. DOMAIN ids = 1..take
  BY <1>12
<1>14. /\ call'.kind = "recent" /\ call'.page = page /\ call'.ids = ids
       /\ call'.from = library
  BY <1>10
<1>15. Collected(call')
  BY <1>3, <1>4, <1>6, <1>7, <1>12, <1>13, <1>14 DEF Collected
<1> QED
  BY <1>11, <1>15

(* The answer shows what it should of what was collected.                  *)
LEMMA DiscoveryAnswered ==
  ASSUME library \in Libraries, Collected(call), AnswerDiscovery
  PROVE  DiscoverFair' /\ call' = NoCall /\ library' = library
<1>1. PICK ids, page, kind, from : ids = call.ids /\ page = call.page /\ kind = call.kind
                                   /\ from = AudioOf(call.from)
  OBVIOUS
<1>2. PICK audio, shown, kept, take :
        /\ audio = AudioOf(library) /\ shown = Shown(ids) /\ kept = from \cap audio
        /\ take = Min({page.limit, Cardinality(from)})
  OBVIOUS
<1>3. /\ IsFiniteSet(from) /\ from \subseteq Nat
      /\ ids \in Seq(from) /\ IsInjective(ids) /\ Len(ids) = take
      /\ kind = "recent" => /\ Range(ids) = Newest(from, take)
                            /\ \A i, j \in DOMAIN ids : i < j => ids[i] > ids[j]
  BY <1>1, <1>2 DEF Collected
<1>4. /\ shown \in Seq(from) /\ IsInjective(shown)
      /\ Range(shown) = Range(ids) \cap audio
      /\ Len(shown) >= Len(ids) - Cardinality(from \ audio)
      /\ KeepsOrder(shown, ids)
  <2>1. IsFiniteSet(from) /\ ids \in Seq(from) /\ IsInjective(ids)
    BY <1>3
  <2>2. audio = AudioOf(library) /\ shown = Shown(ids)
    BY <1>2
  <2>3. shown \in Seq(from) /\ IsInjective(shown)
    BY <2>1, <2>2, ShownIs
  <2>4. Range(shown) = Range(ids) \cap audio
    BY <2>1, <2>2, ShownIs, ZenonT(60)
  <2>5. Len(shown) >= Len(ids) - Cardinality(from \ audio)
    BY <2>1, <2>2, ShownIs
  <2>6. KeepsOrder(shown, ids)
    BY <2>1, <2>2, ShownIs
  <2> QED
    BY <2>3, <2>4, <2>5, <2>6
<1>5. Range(ids) \subseteq from
  BY <1>3 DEF Range
<1>6. from \ kept = from \ audio
  BY <1>2
<1>7. kind = "recent" => /\ Range(shown) = Newest(from, take) \cap kept
                         /\ \A k \in 2..Len(shown) : shown[k - 1] > shown[k]
  <2> SUFFICES ASSUME kind = "recent"
               PROVE  /\ Range(shown) = Newest(from, take) \cap kept
                      /\ \A k \in 2..Len(shown) : shown[k - 1] > shown[k]
    OBVIOUS
  <2>1. Range(shown) = Newest(from, take) \cap kept
    BY <1>2, <1>3, <1>4, <1>5
  <2>2. \A i, j \in DOMAIN shown : i < j => shown[i] > shown[j]
    BY <1>3, <1>4 DEF KeepsOrder
  <2>3. \A k \in 2..Len(shown) : k - 1 \in DOMAIN shown /\ k \in DOMAIN shown /\ k - 1 < k
    BY <1>4
  <2> QED
    BY <2>1, <2>2, <2>3
<1>8. /\ reply'.is = "discovery" /\ reply'.kind = kind /\ reply'.page = page
      /\ reply'.from = call.from /\ reply'.total = Len(ids) /\ reply'.shown = shown
      /\ call' = NoCall /\ library' = library
  BY <1>1, <1>2 DEF AnswerDiscovery
<1>9. AudioOf(reply'.from) = from /\ AudioOf(library') = audio
  BY <1>1, <1>2, <1>8
<1>10. Len(shown) >= take - Cardinality(from \ kept)
  BY <1>3, <1>4, <1>6
<1>11. Range(shown) \subseteq kept
  BY <1>2, <1>4, <1>5
<1>12. DiscoverFair'
  BY <1>2, <1>3, <1>4, <1>7, <1>8, <1>9, <1>10, <1>11 DEF DiscoverFair
<1> QED
  BY <1>8, <1>12

(* Every step keeps the invariant.                                         *)
LEMMA DiscoverStep == DiscoverInv /\ [Next]_vars => DiscoverInv'
<1> SUFFICES ASSUME DiscoverInv, [Next]_vars PROVE DiscoverInv'
  OBVIOUS
<1> USE DEF DiscoverInv
<1>1. ASSUME UNCHANGED <<library, call, reply>>
      PROVE  DiscoverInv'
  BY <1>1 DEF DiscoverFair, Collected, AudioOf, Newest
<1>2. ASSUME NEW answer, answer.is # "discovery", Answers(answer)
      PROVE  DiscoverInv'
  BY <1>2 DEF Answers, Idle, DiscoverFair
<1>3. CASE RegisterRoute \/ RegisterFails \/ Exited \/ UNCHANGED vars
  BY <1>1, <1>3 DEF RegisterRoute, RegisterFails, Exited, vars
<1>4. ASSUME NEW method, NEW path, Request(method, path)
      PROVE  DiscoverInv'
  BY <1>2, <1>4 DEF Request
<1>5. ASSUME NEW kind, NEW limit, NEW offset, ListKind(kind, limit, offset)
      PROVE  DiscoverInv'
  BY <1>2, <1>5 DEF ListKind
<1>6. ASSUME NEW q, NEW fuzzy, NEW limit, NEW offset, SearchFor(q, fuzzy, limit, offset)
      PROVE  DiscoverInv'
  <2>1. PICK answer : Answers(answer) /\ answer.is # "discovery"
    BY <1>6 DEF SearchFor
  <2> QED
    BY <1>2, <2>1
<1>7. CASE Numbers
  BY <1>2, <1>7 DEF Numbers, Body, PatchBody, ReadNumber
<1>8. CASE Reading
  BY <1>4, <1>5, <1>6, <1>8 DEF Reading
<1>9. ASSUME NEW limit \in Limits, CollectRandom(limit) \/ CollectRecent(limit)
      PROVE  DiscoverInv'
  <2>1. Collected(call') /\ reply' = NoReply /\ library' = library
    BY <1>9, RandomCollected, RecentCollected
  <2> QED
    BY <2>1 DEF Collected, DiscoverFair, NoReply
<1>10. CASE Swap
  <2>1. call # NoCall /\ call' = call /\ reply' = reply /\ library' \in Shelves
    BY <1>10 DEF Swap
  <2>2. library' \in Libraries
    BY <2>1, ShelfAssumption
  <2>3. Collected(call) /\ reply' = NoReply
    BY <2>1
  <2> QED
    BY <2>1, <2>2, <2>3 DEF DiscoverFair, Collected, NoReply
<1>11. CASE AnswerDiscovery
  BY <1>11, DiscoveryAnswered DEF AnswerDiscovery
<1>12. CASE Done
  BY <1>12 DEF Done, DiscoverFair, NoReply
<1>13. CASE Discovery
  BY <1>9, <1>10, <1>11, <1>13 DEF Discovery
<1> QED
  BY <1>3, <1>7, <1>8, <1>12, <1>13 DEF Next, Start

(* A discovery that shares its work between two critical sections, with a  *)
(* rescan between them at will, shows each track once, none that is gone,  *)
(* and leaves out nothing else of what it chose; it chose as many as there *)
(* were up to the limit, the recent ones with the highest ids              *)
(* (discover.c:33, discover.c:102, discover.c:151).                        *)
THEOREM DiscoveriesFair == Spec => []DiscoverFair
<1>1. Init => DiscoverInv
  BY DEF Init, DiscoverInv, DiscoverFair, NoCall, NoReply
<1>2. DiscoverInv => DiscoverFair
  BY DEF DiscoverInv
<1> QED
  BY <1>1, <1>2, DiscoverStep, PTL DEF Spec

-----------------------------------------------------------------------------
(* The parameters of a pattern with one.                                   *)
LEMMA CapturedAll ==
  ASSUME NEW pattern, Tabled(pattern), NEW path, NEW i, Spots(pattern) = {i}
  PROVE  Captured(pattern, path) = [k \in 1..1 |-> [name |-> Tail(Id), value |-> path[i]]]
<1>1. ParamsAt(pattern) = {i} /\ i \in Nat /\ pattern[i] = Id
  <2>1. PICK k \in 1..Len(pattern) : Spots(pattern) = {k} /\ ParamsAt(pattern) = {k}
    BY OneSpot
  <2>2. i = k
    BY <2>1
  <2> QED
    BY <2>1, <2>2 DEF Tabled
<1>2. Cardinality({i}) = 1
  BY FS_Singleton
<1>3. {j \in {i} : j < i} = {}
  BY <1>1
<1>4. \A k \in {i} : Cardinality({j \in {i} : j < k}) = 0
  BY <1>3, FS_EmptySet
<1>5. (CHOOSE k \in {i} : Cardinality({j \in {i} : j < k}) = 1 - 1) = i
  BY <1>4
<1>6. Captured(pattern, path) = [k \in 1..1 |->
     LET n == CHOOSE n \in {i} : Cardinality({j \in {i} : j < n}) = k - 1
     IN [name |-> Tail(pattern[n]), value |-> path[n]]]
  BY <1>1, <1>2 DEF Captured
<1>7. \A k \in 1..1 : (CHOOSE n \in {i} : Cardinality({j \in {i} : j < n}) = k - 1) = i
  <2>1. \A k \in 1..1 : k = 1
    OBVIOUS
  <2> QED
    BY <1>5, <2>1
<1> QED
  BY <1>1, <1>6, <1>7

(* The only parameter of a match is found by its name.                     *)
LEMMA ParamFound ==
  ASSUME NEW match, NEW value,
         match.params = [k \in 1..1 |-> [name |-> Tail(Id), value |-> value]]
  PROVE  match.params # <<>> /\ match.params[1].value = value
         /\ ParamGet(match, Tail(Id)) = value
<1>1. PICK params : params = match.params
  OBVIOUS
<1>2. Len(params) = 1 /\ params[1] = [name |-> Tail(Id), value |-> value]
  BY <1>1
<1>3. params # <<>> /\ params[1].value = value /\ params[1].name = Tail(Id)
  BY <1>2
<1> DEFINE I == {i \in 1..Len(params) : params[i].name = Tail(Id)}
<1>4. I = {1}
  <2>1. \A i \in 1..Len(params) : i = 1
    BY <1>2
  <2>2. 1 \in 1..Len(params)
    BY <1>2
  <2> QED
    BY <1>3, <2>1, <2>2
<1>5. SelectInSeq(params, LAMBDA param : param.name = Tail(Id)) = IF I # {} THEN Min(I) ELSE 0
  BY DEF SelectInSeq
<1>6. Min({1}) = 1
  BY LeastIsMin
<1>7. SelectInSeq(params, LAMBDA param : param.name = Tail(Id)) = 1
  <2> HIDE DEF I
  <2> QED
    BY <1>4, <1>5, <1>6
<1>8. PICK found : found = SelectInSeq(params, LAMBDA param : param.name = Tail(Id))
  OBVIOUS
<1>9. ParamGet(match, Tail(Id)) = IF found = 0 THEN <<>> ELSE params[found].value
  BY <1>1, <1>8 DEF ParamGet
<1>10. found = 1
  BY <1>7, <1>8
<1> QED
  BY <1>1, <1>3, <1>9, <1>10

(* What a request has for ":id".                                           *)
LEMMA ParamOfMatch ==
  ASSUME Distinct(RouteTable), NEW method, NEW path \in Seq(Seq(Character)),
         NEW match, match = RouterMatch(RouteTable, method, path),
         NEW text, text = ParamGet(match, Tail(Id))
  PROVE  /\ text \in Seq(Character)
         /\ match.params # <<>> => text = match.params[1].value
<1>1. ASSUME match.params = <<>>
      PROVE  text \in Seq(Character)
  <2>1. PICK params : params = match.params
    OBVIOUS
  <2>2. {i \in 1..Len(params) : params[i].name = Tail(Id)} = {}
    BY <1>1, <2>1
  <2>3. SelectInSeq(params, LAMBDA param : param.name = Tail(Id)) = 0
    BY <2>2 DEF SelectInSeq
  <2>4. text = <<>>
    BY <2>1, <2>3 DEF ParamGet
  <2>5. <<>> \in Seq(Character)
    OBVIOUS
  <2> QED
    BY <2>4, <2>5, Zenon
<1>2. CASE Fitting(method, path) = {}
  <2>1. match.params = <<>>
    BY <1>2, MatchFound DEF NoRoute
  <2> QED
    BY <1>1, <2>1
<1>3. ASSUME NEW k \in Fitting(method, path)
      PROVE  /\ text \in Seq(Character)
             /\ match.params # <<>> => text = match.params[1].value
  <2>1. PICK pattern : pattern = RouteTable[k].pattern
    OBVIOUS
  <2>2. match.params = Captured(pattern, path)
    BY <1>3, <2>1, MatchFound
  <2>3. MatchPattern(pattern, path) /\ Tabled(pattern)
    BY <1>3, <2>1, TableShape DEF Fitting
  <2>4. CASE Spots(pattern) = {}
    <3>1. match.params = <<>>
      BY <2>2, <2>3, <2>4, CapturedValue
    <3> QED
      BY <1>1, <3>1
  <2>5. ASSUME NEW i \in 1..Len(pattern), Spots(pattern) = {i}
        PROVE  /\ text \in Seq(Character)
               /\ match.params # <<>> => text = match.params[1].value
    <3>1. match.params = [n \in 1..1 |-> [name |-> Tail(Id), value |-> path[i]]]
      BY <2>2, <2>3, <2>5, CapturedAll, SMTT(60)
    <3>2. text = path[i] /\ match.params[1].value = path[i]
      BY <3>1, ParamFound
    <3>3. i \in 1..Len(path)
      BY <2>3, <2>5 DEF MatchPattern
    <3> QED
      BY <3>2, <3>3
  <2> QED
    BY <2>3, <2>4, <2>5, OneSpot
<1> QED
  BY <1>2, <1>3

(* The id of a request is exact.                                           *)
LEMMA RequestNumbers ==
  ASSUME RoutesInv, NEW method \in Method, NEW path \in Paths, Request(method, path)
  PROVE  NumbersExact'
<1>1. PICK match : match = RouterMatch(routes, method, path)
  OBVIOUS
<1>2. PICK text : text = ParamGet(match, Tail(Id))
  OBVIOUS
<1>3. PICK id : id = IdParam(text)
  OBVIOUS
<1>4. PICK item : item = ItemById(ByIdKind(match.handler), id)
  OBVIOUS
<1>5. item \in {0, id}
  BY <1>4 DEF ItemById
<1>6. /\ phase = "up"
      /\ reply' = IF method = "OPTIONS" THEN [is |-> "allowed"]
                  ELSE [is |-> "request", method |-> method, path |-> path,
                        handler |-> match.handler, params |-> match.params,
                        id |-> id, item |-> item]
  BY <1>1, <1>2, <1>3, <1>4 DEF Request, Answers, Idle
<1>7. routes = RouteTable /\ Distinct(RouteTable)
  BY <1>6 DEF RoutesInv
<1>8. path \in Seq(Seq(Character))
  BY PathAssumption
<1>9. text \in Seq(Character) /\ (match.params # <<>> => text = match.params[1].value)
  BY <1>1, <1>2, <1>7, <1>8, ParamOfMatch
<1>10. IdExact(id, text) /\ id \in 0..U32Max
  BY <1>3, <1>9, IdParamExact
<1>11. CASE method = "OPTIONS"
  BY <1>6, <1>11 DEF NumbersExact
<1>12. CASE method # "OPTIONS"
  <2>1. /\ reply'.is = "request" /\ reply'.params = match.params
        /\ reply'.id = id /\ reply'.item = item
    BY <1>6, <1>12
  <2> QED
    BY <1>5, <1>9, <1>10, <2>1, Zenon DEF NumbersExact
<1> QED
  BY <1>11, <1>12

(* A list of tokens and a patch are.                                       *)
LEMMA BodyNumbers ==
  ASSUME NEW tokens \in Bodies, Body(tokens)
  PROVE  NumbersExact'
<1>1. PICK exact : exact = [i \in DOMAIN tokens |-> Exact(tokens[i], 0, U32Max)]
  OBVIOUS
<1>2. PICK values : values = TokenArray(tokens, ArrayMax)
  OBVIOUS
<1>3. values = IF Len(exact) > ArrayMax \/ \E i \in DOMAIN exact : exact[i] = Bad
               THEN <<Bad>> ELSE exact
  BY <1>1, <1>2, ArrayExact
<1>4. reply' = [is |-> "tokens", tokens |-> tokens, values |-> values]
  BY <1>2 DEF Body, Answers
<1>5. reply'.is = "tokens" /\ reply'.tokens = tokens /\ reply'.values = values
  BY <1>4
<1> QED
  BY <1>1, <1>3, <1>5, Zenon DEF NumbersExact

(* The number of a patch is set exactly, or refused.                       *)
LEMMA PatchNumbers ==
  ASSUME NEW token \in Tokens, PatchBody(token)
  PROVE  NumbersExact'
<1>1. PICK effect : effect = PatchNumber(token)
  OBVIOUS
<1>2. token \in Seq(Range(token))
  BY TextAssumption
<1>3. effect = "set" <=> Exact(token, 1, PatchMax) # Bad
  BY <1>1, <1>2, PatchExact
<1>4. reply' = [is |-> "patch", token |-> token, effect |-> effect]
  BY <1>1 DEF PatchBody, Answers
<1>5. reply'.is = "patch" /\ reply'.token = token /\ reply'.effect = effect
  BY <1>4
<1> QED
  BY <1>3, <1>5, Zenon DEF NumbersExact

(* What a scan reads is.                                                   *)
LEMMA ScanNumbers ==
  ASSUME NEW text \in Names, ReadNumber(text)
  PROVE  NumbersExact'
<1>1. PICK name, tag : name = NumberSegment(text) /\ tag = TagNumber(text)
  OBVIOUS
<1>2. text \in Seq(Range(text))
  BY TextAssumption
<1>3. PICK parts, whole :
        /\ parts = Parts(text)
        /\ whole = {p \in parts : Blank(text, p[2] + 1, Len(text))}
  OBVIOUS
<1>4. tag = Found(text, parts) /\ name = Found(text, whole)
  BY <1>1, <1>2, <1>3, TagExact, NameExact
<1>5. whole = {p \in parts : \A k \in (p[2] + 1)..Len(text) : text[k] = " "}
  BY <1>3, Zenon DEF Blank, IsSpace
<1>6. reply' = [is |-> "number", text |-> text, name |-> name, tag |-> tag]
  BY <1>1 DEF ReadNumber, Answers
<1>7. reply'.is = "number" /\ reply'.text = text /\ reply'.name = name /\ reply'.tag = tag
  BY <1>6
<1> QED
  BY <1>3, <1>4, <1>5, <1>7, Zenon DEF NumbersExact

(* No step replies with a number that is not.                              *)
LEMMA NumberStep == RequestInv /\ NumbersExact /\ [Next]_vars => NumbersExact'
<1> SUFFICES ASSUME RequestInv, NumbersExact, [Next]_vars PROVE NumbersExact'
  OBVIOUS
<1>1. ASSUME reply'.is \notin {"request", "tokens", "patch", "number"}
      PROVE  NumbersExact'
  BY <1>1, Zenon DEF NumbersExact
<1>2. ASSUME reply' = reply
      PROVE  NumbersExact'
  <2>1. PICK is : is = reply.is
    OBVIOUS
  <2>2. CASE is = "request"
    BY <1>2, <2>1, <2>2, Zenon DEF NumbersExact
  <2>3. CASE is = "tokens"
    BY <1>2, <2>1, <2>3, Zenon DEF NumbersExact
  <2>4. CASE is = "patch"
    BY <1>2, <2>1, <2>4, Zenon DEF NumbersExact
  <2>5. CASE is = "number"
    BY <1>2, <2>1, <2>5, Zenon DEF NumbersExact
  <2> QED
    BY <1>2, <1>1, <2>1, <2>2, <2>3, <2>4, <2>5
<1>3. ASSUME NEW answer, Answers(answer), answer.is \notin {"request", "tokens", "patch", "number"}
      PROVE  NumbersExact'
  <2>1. reply' = answer
    BY <1>3 DEF Answers
  <2>2. reply'.is \notin {"request", "tokens", "patch", "number"}
    BY <1>3, <2>1
  <2> QED
    BY <1>1, <2>2
<1>4. CASE Start \/ Exited \/ UNCHANGED vars
  <2>1. reply' = reply
    BY <1>4 DEF Start, RegisterRoute, RegisterFails, Exited, vars
  <2> QED
    BY <1>2, <2>1
<1>5. ASSUME NEW kind, NEW limit, NEW offset, ListKind(kind, limit, offset)
      PROVE  NumbersExact'
  <2>1. PICK answer : Answers(answer) /\ answer.is = "list"
    BY <1>5 DEF ListKind
  <2> QED
    BY <1>3, <2>1
<1>6. ASSUME NEW q, NEW fuzzy, NEW limit, NEW offset, SearchFor(q, fuzzy, limit, offset)
      PROVE  NumbersExact'
  <2>1. PICK answer : Answers(answer)
                      /\ answer.is \in {"invalid_query", "missing_query", "search"}
    BY <1>6 DEF SearchFor
  <2> QED
    BY <1>3, <2>1
<1>7. CASE Reading
  <2>1. RoutesInv
    BY DEF RequestInv
  <2> QED
    BY <1>5, <1>6, <1>7, <2>1, RequestNumbers DEF Reading
<1>8. CASE Numbers
  BY <1>8, BodyNumbers, PatchNumbers, ScanNumbers DEF Numbers
<1>9. CASE Discovery
  <2>1. reply' = reply \/ reply'.is = "discovery"
    <3>1. ASSUME NEW limit, CollectRandom(limit) \/ CollectRecent(limit)
          PROVE  reply' = reply
      BY <3>1 DEF CollectRandom, CollectRecent, Collect
    <3>2. Swap => reply' = reply
      BY DEF Swap
    <3>3. AnswerDiscovery => reply'.is = "discovery"
      BY DEF AnswerDiscovery
    <3> QED
      BY <1>9, <3>1, <3>2, <3>3 DEF Discovery
  <2>2. reply'.is = "discovery" => reply'.is \notin {"request", "tokens", "patch", "number"}
    OBVIOUS
  <2> QED
    BY <1>1, <1>2, <2>1, <2>2
<1>10. CASE Done
  <2>1. reply'.is \notin {"request", "tokens", "patch", "number"}
    BY <1>10 DEF Done, NoReply
  <2> QED
    BY <1>1, <2>1
<1> QED
  BY <1>4, <1>7, <1>8, <1>9, <1>10 DEF Next, Start

(* Whatever text a request, a body, a file name or a tag has for a number, *)
(* and whatever the width of the integers, it is read exactly or refused   *)
(* (params.c:28, json_body.c:116, metadata.c:50).                          *)
THEOREM NumbersAreExact == Spec => []NumbersExact
<1>1. Init => NumbersExact
  <2> SUFFICES ASSUME Init PROVE NumbersExact
    OBVIOUS
  <2>1. reply.is \notin {"request", "tokens", "patch", "number"}
    BY DEF Init, NoReply
  <2> QED
    BY <2>1, Zenon DEF NumbersExact
<1> QED
  BY <1>1, InitInv, RequestStep, NumberStep, PTL DEF Spec

(* A search's reply: a page of the hits of each kind.                      *)
Searched ==
  /\ reply.q \in Queries /\ reply.q # <<>> /\ reply.fuzzy \in BOOLEAN
  /\ reply.page.limit \in Nat \ {0} /\ reply.page.offset \in Nat
  /\ \A kind \in Kinds :
       reply[kind] = PageOfHits(Hits(kind, ListIn(library, kind), reply.q, reply.fuzzy), reply.page)

(* What matches is what scores, by the scale.                              *)
LEMMA MatchIs ==
  ASSUME library \in Libraries, Searched, Exhaustive, NEW kind \in Kinds
  PROVE  /\ \A m \in Matches(kind) :
              /\ m = [entry |-> m.entry, class |-> m.class]
              /\ m.entry \in Range(ListIn(library, kind))
              /\ m.class = BestClass(kind, m.entry)
              /\ Scale(m.class, EntryScore(kind, m.entry, reply.q, reply.fuzzy))
              /\ EntryScore(kind, m.entry, reply.q, reply.fuzzy) > 0
         /\ \A e \in Range(ListIn(library, kind)) :
              EntryScore(kind, e, reply.q, reply.fuzzy) > 0 =>
                [entry |-> e, class |-> BestClass(kind, e)] \in Matches(kind)
<1>1. PICK list, q, fuzzy : list = ListIn(library, kind) /\ q = reply.q /\ fuzzy = reply.fuzzy
  OBVIOUS
<1>2. q \in Queries /\ q # <<>> /\ fuzzy \in BOOLEAN /\ (fuzzy => Len(q) + MaxDistance < WindowMax)
  BY <1>1 DEF Searched, Exhaustive
<1>3. \A e \in Range(list) : Scale(BestOf(kind, e, q, fuzzy), EntryScore(kind, e, q, fuzzy))
  BY <1>1, <1>2, EntryScored
<1>4. \A e : BestClass(kind, e) = BestOf(kind, e, q, fuzzy)
  BY <1>1 DEF BestClass, BestOf
<1>5. \A e \in Range(list) : EntryScore(kind, e, q, fuzzy) > 0 <=> BestClass(kind, e) > 0
  BY <1>3, <1>4, ScaleApart
<1>6. \A m : m \in Matches(kind) <=>
               /\ \E e \in Range(list) : m = [entry |-> e, class |-> BestClass(kind, e)]
               /\ m.class > 0
  BY <1>1 DEF Matches
<1>7. ASSUME NEW m \in Matches(kind)
      PROVE  /\ m = [entry |-> m.entry, class |-> m.class]
             /\ m.entry \in Range(list)
             /\ m.class = BestClass(kind, m.entry)
             /\ Scale(m.class, EntryScore(kind, m.entry, q, fuzzy))
             /\ EntryScore(kind, m.entry, q, fuzzy) > 0
  <2>1. PICK e \in Range(list) : m = [entry |-> e, class |-> BestClass(kind, e)]
    BY <1>6
  <2>2. m.entry = e /\ m.class = BestClass(kind, e) /\ m.class > 0
    BY <1>6, <2>1
  <2>3. m = [entry |-> m.entry, class |-> m.class]
    BY <2>1, <2>2
  <2>4. Scale(m.class, EntryScore(kind, m.entry, q, fuzzy))
    BY <1>3, <1>4, <2>2
  <2>5. EntryScore(kind, m.entry, q, fuzzy) > 0
    BY <1>5, <2>2
  <2> QED
    BY <2>2, <2>3, <2>4, <2>5
<1>8. ASSUME NEW e \in Range(list), EntryScore(kind, e, q, fuzzy) > 0
      PROVE  [entry |-> e, class |-> BestClass(kind, e)] \in Matches(kind)
  <2>1. PICK m : m = [entry |-> e, class |-> BestClass(kind, e)]
    OBVIOUS
  <2>2. m.class > 0
    BY <1>5, <1>8, <2>1
  <2> QED
    BY <1>6, <2>1, <2>2
<1> QED
  BY <1>1, <1>7, <1>8

(* Where the matches of a kind stand among its hits.                       *)
Placed(pos, kind, hits) ==
  /\ pos \in [Matches(kind) -> 1..Len(hits)]
  /\ \A m \in Matches(kind) : hits[pos[m]] = m.entry.id
  /\ \A i \in 1..Len(hits) : \E m \in Matches(kind) : pos[m] = i
  /\ \A m, o \in Matches(kind) :
       /\ pos[m] = pos[o] \/ m.entry.id = o.entry.id => m = o
       /\ Before(Entrant(kind, m.entry, reply.q, reply.fuzzy),
                 Entrant(kind, o.entry, reply.q, reply.fuzzy)) => pos[m] < pos[o]

(* There are such places: each match has one hit.                          *)
LEMMA PlacesExist ==
  ASSUME library \in Libraries, Searched, Exhaustive, NEW kind \in Kinds,
         NEW hits, hits = Hits(kind, ListIn(library, kind), reply.q, reply.fuzzy)
  PROVE  hits \in Seq(Nat) /\ IsInjective(hits) /\ \E pos : Placed(pos, kind, hits)
<1>1. PICK list, q, fuzzy : list = ListIn(library, kind) /\ q = reply.q /\ fuzzy = reply.fuzzy
  OBVIOUS
<1>2. q \in Queries /\ q # <<>> /\ fuzzy \in BOOLEAN /\ (fuzzy => Len(q) + MaxDistance < WindowMax)
  BY <1>1 DEF Searched, Exhaustive
<1>3. Standing(hits, list, kind, q, fuzzy)
  <2>1. Standing(Hits(kind, ListIn(library, kind), q, fuzzy), ListIn(library, kind), kind, q, fuzzy)
    BY <1>2, HitsRanked
  <2> QED
    BY <1>1, <2>1
<1>4. \A e, f \in Range(list) : e.id \in Nat /\ (e.id = f.id => e = f)
  BY <1>1, Listed
<1>5. PICK matches : matches = Matches(kind)
  OBVIOUS
<1>6. \A m \in matches : /\ m = [entry |-> m.entry, class |-> m.class]
                         /\ m.entry \in Range(list)
                         /\ m.class = BestClass(kind, m.entry)
                         /\ EntryScore(kind, m.entry, q, fuzzy) > 0
  BY <1>1, <1>5, MatchIs
<1>7. \A e \in Range(list) : EntryScore(kind, e, q, fuzzy) > 0 =>
        [entry |-> e, class |-> BestClass(kind, e)] \in matches
  BY <1>1, <1>5, MatchIs
<1>8. PICK n \in Nat : n = Len(hits) /\ DOMAIN hits = 1..n
  BY <1>3 DEF Standing
<1> DEFINE pos == [m \in matches |-> CHOOSE i \in 1..n : hits[i] = m.entry.id]
<1>9. \A m \in matches : pos[m] \in 1..n /\ hits[pos[m]] = m.entry.id
  <2> TAKE m \in matches
  <2>1. \E i \in 1..n : hits[i] = m.entry.id
    BY <1>3, <1>6, <1>8 DEF Standing
  <2> QED
    BY <2>1
<1>10. pos = [m \in matches |-> pos[m]]
  OBVIOUS
<1> HIDE DEF pos
<1>11. pos \in [matches -> 1..n]
  BY <1>9, <1>10
<1>12. \A i, j \in 1..n : hits[i] = hits[j] => i = j
  BY <1>3, <1>8 DEF Standing, IsInjective
<1>13. \A m, o \in matches : m.entry.id = o.entry.id => m = o
  <2> TAKE m, o \in matches
  <2>1. m.entry.id = o.entry.id => m.entry = o.entry
    BY <1>4, <1>6
  <2>2. m.entry = o.entry => m.class = o.class
    BY <1>6
  <2> QED
    BY <1>6, <2>1, <2>2
<1>14. \A m, o \in matches : pos[m] = pos[o] => m = o
  BY <1>9, <1>13
<1>15. ASSUME NEW i \in 1..n
       PROVE  \E m \in matches : pos[m] = i
  <2>1. PICK e \in Range(list) : EntryScore(kind, e, q, fuzzy) > 0 /\ hits[i] = e.id
    BY <1>3, <1>8 DEF Standing
  <2>2. PICK m \in matches : m = [entry |-> e, class |-> BestClass(kind, e)]
    BY <1>7, <2>1
  <2>3. m.entry = e
    BY <2>2
  <2> QED
    BY <1>9, <1>12, <2>1, <2>3
<1>16. ASSUME NEW m \in matches, NEW o \in matches,
              Before(Entrant(kind, m.entry, q, fuzzy), Entrant(kind, o.entry, q, fuzzy))
       PROVE  pos[m] < pos[o]
  <2>1. m.entry \in Range(list) /\ o.entry \in Range(list)
    BY <1>6
  <2>2. hits[pos[m]] = m.entry.id /\ hits[pos[o]] = o.entry.id
    BY <1>9
  <2>3. pos[m] \in 1..Len(hits) /\ pos[o] \in 1..Len(hits)
    BY <1>8, <1>9
  <2> QED
    BY <1>3, <1>16, <2>1, <2>2, <2>3 DEF Standing
<1>17. Placed(pos, kind, hits)
  BY <1>1, <1>5, <1>8, <1>9, <1>11, <1>13, <1>14, <1>15, <1>16 DEF Placed
<1> QED
  BY <1>3, <1>17 DEF Standing

(* The page of a kind.                                                     *)
LEMMA PageSearched ==
  ASSUME library \in Libraries, Searched, NEW kind \in Kinds, NEW T,
         Hits(kind, ListIn(library, kind), reply.q, reply.fuzzy) \in Seq(T),
         NEW hits, hits = Hits(kind, ListIn(library, kind), reply.q, reply.fuzzy)
  PROVE  /\ reply[kind].total = Len(hits) /\ reply[kind].shown \in Seq(T)
         /\ FullPage(reply[kind], reply.page)
         /\ \A k \in 1..Len(reply[kind].shown) :
              /\ reply.page.offset + k \in 1..Len(hits)
              /\ reply[kind].shown[k] = hits[reply.page.offset + k]
<1>1. PICK page : page = reply.page
  OBVIOUS
<1>2. page.limit \in Nat \ {0} /\ page.offset \in Nat
  BY <1>1 DEF Searched
<1>3. reply[kind] = PageOfHits(hits, page)
  BY <1>1 DEF Searched
<1>4. hits \in Seq(T)
  OBVIOUS
<1>5. /\ PageOfHits(hits, page).total = Len(hits)
      /\ PageOfHits(hits, page).shown \in Seq(T)
      /\ FullPage(PageOfHits(hits, page), page)
      /\ \A k \in 1..Len(PageOfHits(hits, page).shown) :
           /\ page.offset + k \in 1..Len(hits)
           /\ PageOfHits(hits, page).shown[k] = hits[page.offset + k]
  BY <1>2, <1>4, PageShown, SMTT(60)
<1> QED
  BY <1>1, <1>3, <1>5

(* A search finds the entries that match, each once.                       *)
LEMMA SearchExact ==
  ASSUME library \in Libraries, reply.is = "search" => Searched
  PROVE  FuzzyIsExact
<1> SUFFICES ASSUME reply.is = "search", Exhaustive, NEW kind \in Kinds, NEW found,
                    found = {match.entry.id : match \in Matches(kind)}
             PROVE  /\ reply[kind].total = Cardinality(found)
                    /\ Range(reply[kind].shown) \subseteq found
                    /\ IsInjective(reply[kind].shown)
  BY DEF FuzzyIsExact
<1>1. Searched
  OBVIOUS
<1>2. PICK hits : hits = Hits(kind, ListIn(library, kind), reply.q, reply.fuzzy)
  OBVIOUS
<1>3. hits \in Seq(Nat) /\ IsInjective(hits)
  BY <1>1, <1>2, PlacesExist
<1>4. PICK pos : Placed(pos, kind, hits)
  BY <1>1, <1>2, PlacesExist
<1>5. PICK n \in Nat : n = Len(hits) /\ DOMAIN hits = 1..n
  BY <1>3
<1>6. PICK matches : matches = Matches(kind)
  OBVIOUS
<1>7. Range(hits) = found
  <2>1. \A i \in 1..n : \E m \in matches : hits[i] = m.entry.id
    BY <1>4, <1>5, <1>6 DEF Placed
  <2>2. \A m \in matches : \E i \in 1..n : hits[i] = m.entry.id
    BY <1>4, <1>5, <1>6 DEF Placed
  <2>3. Range(hits) = {hits[i] : i \in 1..n}
    BY <1>5 DEF Range
  <2> QED
    BY <1>6, <2>1, <2>2, <2>3
<1>8. Cardinality(found) = n
  BY <1>3, <1>5, <1>7, RangeCounts
<1>9. PICK shown, o : shown = reply[kind].shown /\ o = reply.page.offset
  OBVIOUS
<1>10. /\ reply[kind].total = n /\ shown \in Seq(Nat)
       /\ \A k \in 1..Len(shown) : o + k \in 1..n /\ shown[k] = hits[o + k]
  <2>1. Hits(kind, ListIn(library, kind), reply.q, reply.fuzzy) \in Seq(Nat)
    BY <1>2, <1>3
  <2>2. /\ reply[kind].total = Len(hits) /\ reply[kind].shown \in Seq(Nat)
        /\ \A k \in 1..Len(reply[kind].shown) :
             /\ reply.page.offset + k \in 1..Len(hits)
             /\ reply[kind].shown[k] = hits[reply.page.offset + k]
    BY <1>1, <1>2, <2>1, PageSearched
  <2> QED
    BY <1>5, <1>9, <2>2
<1>11. PICK z \in Nat : z = Len(shown) /\ DOMAIN shown = 1..z
  BY <1>10
<1>12. Range(shown) \subseteq found
  <2>1. \A k \in 1..z : \E i \in 1..n : shown[k] = hits[i]
    BY <1>10, <1>11
  <2> QED
    BY <1>5, <1>7, <1>11, <2>1, ZenonT(60) DEF Range
<1>13. IsInjective(shown)
  <2>1. \A i, j \in 1..n : hits[i] = hits[j] => i = j
    BY <1>3, <1>5 DEF IsInjective
  <2>2. o \in Nat
    BY <1>1, <1>9 DEF Searched
  <2>3. \A j, k \in 1..z : shown[j] = shown[k] => j = k
    <3> TAKE j, k \in 1..z
    <3>1. shown[j] = shown[k] => o + j = o + k
      BY <1>10, <1>11, <2>1, SMTT(60)
    <3> QED
      BY <2>2, <3>1
  <2> QED
    BY <1>11, <2>3 DEF IsInjective
<1> QED
  BY <1>8, <1>9, <1>10, <1>12, <1>13

(* A list's reply: a page of the ids of a kind.                            *)
ListedReply ==
  /\ reply.page.limit \in Nat \ {0} /\ reply.page.offset \in Nat
  /\ reply.answer = PageOfHits([i \in DOMAIN OfKind(reply.kind) |-> OfKind(reply.kind)[i].id],
                               reply.page)

(* A list keeps the order of the catalogue.                                *)
LEMMA ListInOrder ==
  ASSUME library \in Libraries, ListedReply
  PROVE  /\ reply.answer.total = Len(OfKind(reply.kind))
         /\ FullPage(reply.answer, reply.page)
         /\ \A k \in DOMAIN reply.answer.shown :
              OfKind(reply.kind)[reply.page.offset + k].id = reply.answer.shown[k]
<1>1. PICK items : items = library.items
  OBVIOUS
<1>2. items \in Seq(Range(items))
  <2>1. ListIn(library, "tracks") = library.items /\ "tracks" \in Kinds
    BY DEF ListIn, Kinds
  <2> QED
    BY <1>1, <2>1, LibraryAssumption
<1>3. PICK list : list = OfKind(reply.kind)
  OBVIOUS
<1>4. PICK n \in Nat : list \in Seq(Range(items)) /\ Len(list) = n
  <2> DEFINE places == {i \in DOMAIN items : items[i].kind = reply.kind}
  <2>1. list = Picked(items, places)
    BY <1>1, <1>3 DEF OfKind
  <2>2. places \in SUBSET (DOMAIN items)
    OBVIOUS
  <2> HIDE DEF places
  <2>3. PICK m : m = Cardinality(places)
    OBVIOUS
  <2>4. PICK order : order = Upward(places)
    OBVIOUS
  <2>5. m \in Nat /\ Picked(items, places) \in Seq(Range(items)) /\ Len(Picked(items, places)) = m
    BY <1>2, <2>2, <2>3, <2>4, PickedIs
  <2> QED
    BY <2>1, <2>5
<1>5. PICK ids : ids = [i \in 1..n |-> list[i].id]
  OBVIOUS
<1>6. ids \in Seq(Range(ids)) /\ Len(ids) = n /\ \A i \in 1..n : ids[i] = list[i].id
  BY <1>4, <1>5 DEF Range
<1>7. PICK page : page = reply.page
  OBVIOUS
<1>8. page.limit \in Nat \ {0} /\ page.offset \in Nat
  BY <1>7 DEF ListedReply
<1>9. reply.answer = PageOfHits(ids, page)
  <2>1. DOMAIN list = 1..n
    BY <1>4
  <2> QED
    BY <1>3, <1>5, <1>7, <2>1 DEF ListedReply
<1>10. PICK answer : answer = PageOfHits(ids, page)
  OBVIOUS
<1>11. /\ answer.total = n /\ FullPage(answer, page)
       /\ answer.shown \in Seq(Range(ids))
       /\ \A k \in 1..Len(answer.shown) :
            page.offset + k \in 1..n /\ answer.shown[k] = ids[page.offset + k]
  BY <1>6, <1>8, <1>10, PageShown
<1>12. DOMAIN answer.shown = 1..Len(answer.shown)
  BY <1>11
<1>13. \A k \in DOMAIN answer.shown : list[page.offset + k].id = answer.shown[k]
  BY <1>6, <1>11, <1>12
<1> QED
  BY <1>3, <1>4, <1>7, <1>9, <1>10, <1>11, <1>13

(* What the score of a text that has the query tells.                      *)
Graded(class, score, pos, size, width) ==
  /\ class \in Nat /\ score \in Nat /\ pos \in Nat /\ size \in Nat
  /\ class > 5 =>
       \/ class = 9 /\ score = 1000000 /\ pos = 0 /\ size = width
       \/ class = 8 /\ score = 900000 - size /\ pos = 0
       \/ class = 7 /\ score = 800000 - pos * 100 - size
       \/ class = 6 /\ score = 700000 - pos * 100 - size

(* Of two in one class the earlier and shorter one has the better score.   *)
LEMMA GradesApart ==
  ASSUME NEW c, c > 5, NEW w, NEW s, NEW p, NEW a, Graded(c, s, p, a, w),
         NEW t, NEW r, NEW b, Graded(c, t, r, b, w),
         p <= r, a <= b
  PROVE  /\ s \in Nat /\ t \in Nat
         /\ p < r \/ a < b => s > t
         /\ p = r /\ a = b => s = t
  BY SMT DEF Graded

(* The place of the query is the first of its occurrences.                 *)
LEMMA PositionIs ==
  ASSUME NEW h, IsText(h), IsText(reply.q)
  PROVE  /\ Position(h) = IF Occurrences(h, reply.q) = {} THEN 0 ELSE Min(Occurrences(h, reply.q))
         /\ Position(h) \in Nat
<1>1. PICK q : q = reply.q
  OBVIOUS
<1>2. PICK a \in Nat, b \in Nat : a = Len(h) /\ b = Len(q)
  BY <1>1, TextIs
<1>3. Len(Folded(q)) = b
  BY <1>1, <1>2, TextIs
<1> DEFINE at == {i \in 0..(Len(h) - Len(Folded(q))) :
                    SubSeq(Folded(h), i + 1, i + Len(Folded(q))) = Folded(q)}
<1>4. Position(h) = IF at = {} THEN 0 ELSE Min(at)
  BY <1>1 DEF Position
<1>5. \A i : i \in at <=> i \in Occurrences(h, q)
  <2> TAKE i
  <2>1. i \in at <=> i \in 0..(a - b) /\ SubSeq(Folded(h), i + 1, i + b) = Folded(q)
    BY <1>2, <1>3
  <2>2. i \in 0..(a - b) <=> i \in Nat /\ i + b <= a
    BY <1>2
  <2>3. i \in Occurrences(h, q) <=>
          /\ i \in Nat /\ i + Len(q) <= Len(h)
          /\ TextAt(Folded(h), i, Len(q)) = Folded(q)
    BY <1>1, FoundIs
  <2>4. TextAt(Folded(h), i, b) = SubSeq(Folded(h), i + 1, i + b)
    BY DEF TextAt
  <2> HIDE DEF at
  <2> QED
    BY <1>2, <2>1, <2>2, <2>3, <2>4
<1> HIDE DEF at
<1>6. at = Occurrences(h, q)
  BY <1>5
<1>7. at \subseteq Nat
  BY <1>1, <1>6, FoundIs
<1>8. Position(h) \in Nat
  <2>1. CASE at = {}
    BY <1>4, <2>1
  <2>2. CASE at # {}
    <3>1. Min(at) \in at
      BY <1>7, <2>2, MinIs
    <3> QED
      BY <1>4, <1>7, <2>2, <3>1
  <2> QED
    BY <2>1, <2>2
<1> QED
  BY <1>1, <1>4, <1>6, <1>8

(* A text that is the query has it at the start.                           *)
LEMMA SameAtStart ==
  ASSUME NEW h, IsText(h), NEW n, IsText(n), SameText(h, n)
  PROVE  /\ 0 \in Occurrences(h, n) /\ Min(Occurrences(h, n)) = 0
         /\ Len(h) = Len(n)
<1>1. PICK F : F = Folded(h)
  OBVIOUS
<1>2. Folded(n) = F /\ F \in Seq(Alphabet) /\ Len(F) = Len(h) /\ Len(F) = Len(n)
  BY <1>1, TextIs DEF SameText
<1>3. PICK a \in Nat : a = Len(F)
  BY <1>2
<1>11. PICK z \in Nat : z = 0
  OBVIOUS
<1>4. PICK u : u = TextAt(F, z, a)
  OBVIOUS
<1>5. u \in Seq(Alphabet) /\ Len(u) = a /\ \A k \in 1..a : u[k] = F[z + k]
  <2>1. z + a <= Len(F)
    BY <1>3, <1>11
  <2> QED
    BY <1>2, <1>4, <2>1, PartAt
<1>6. u = F
  <2>1. \A k \in 1..a : u[k] = F[k]
    BY <1>5, <1>11
  <2> QED
    BY <1>2, <1>3, <1>5, <2>1
<1>7. 0 \in Occurrences(h, n)
  <2>1. 0 \in Nat /\ 0 + Len(n) <= Len(h)
    BY <1>2, <1>3
  <2>2. TextAt(Folded(h), 0, Len(n)) = Folded(n)
    BY <1>1, <1>2, <1>3, <1>4, <1>6, <1>11
  <2> QED
    BY <2>1, <2>2, FoundIs
<1>8. PICK occ : occ = Occurrences(h, n)
  OBVIOUS
<1>9. occ \subseteq Nat /\ 0 \in occ
  BY <1>7, <1>8, FoundIs
<1>10. Min(occ) = 0
  <2>1. occ \in SUBSET Int /\ \A y \in occ : 0 <= y
    BY <1>9
  <2> QED
    BY <1>9, <2>1, LeastIsMin
<1> QED
  BY <1>2, <1>8, <1>9, <1>10

(* The score of a text by the place of the query and its length.           *)
LEMMA TextGraded ==
  ASSUME NEW h, IsText(h), Len(h) < PathMax, reply.q \in Queries, reply.q # <<>>,
         NEW fuzzy \in BOOLEAN, fuzzy => Len(reply.q) + MaxDistance < WindowMax
  PROVE  Graded(Class(h, reply.q, fuzzy), MatchScore(h, reply.q, fuzzy),
                Position(h), Len(h), Len(reply.q))
<1>1. PICK n : n = reply.q
  OBVIOUS
<1>2. IsText(n) /\ n \in Queries /\ n # <<>> /\ (fuzzy => Len(n) + MaxDistance < WindowMax)
  BY <1>1, TextAssumption
<1>3. PICK a \in Nat, b \in Nat : a = Len(h) /\ b = Len(n)
  BY <1>2, TextIs
<1>4. PICK occ, P : occ = Occurrences(h, n) /\ P = Min(occ)
  OBVIOUS
<1>5. PICK class, score : class = Class(h, n, fuzzy) /\ score = MatchScore(h, n, fuzzy)
  OBVIOUS
<1>6. PICK pos : pos = Position(h)
  OBVIOUS
<1>7. pos \in Nat /\ (pos = IF occ = {} THEN 0 ELSE P)
  BY <1>1, <1>2, <1>4, <1>6, PositionIs
<1>8. class \in Nat /\ score \in Nat
  <2>1. Scale(class, score)
    BY <1>2, <1>5, MatchScored
  <2> QED
    BY <2>1, SMT DEF Scale
<1>9. a < 512 /\ Penalty(a) = a
  BY <1>3 DEF PathMax, Penalty
<1>10. /\ SameText(h, n) => Class(h, n, fuzzy) = 9
       /\ ~SameText(h, n) /\ Occurrences(h, n) # {} =>
            /\ FirstAt(h, n, Min(Occurrences(h, n)))
            /\ Class(h, n, fuzzy) =
                 IF Min(Occurrences(h, n)) = 0 THEN 8
                 ELSE IF Boundary(h, Min(Occurrences(h, n))) THEN 7 ELSE 6
       /\ ~SameText(h, n) /\ Occurrences(h, n) = {} =>
            Class(h, n, fuzzy) =
              IF h = <<>> \/ ~fuzzy \/ Len(n) < 2 THEN 0 ELSE FuzzyClass(h, n)
  BY <1>2, ClassIs
<1>11. h = <<>> => ~SameText(h, n) /\ occ = {}
  <2>1. ASSUME h = <<>>
        PROVE  ~SameText(h, n)
    <3>1. Folded(h) = <<>> /\ Folded(n) # <<>>
      BY <1>2, <2>1, TextIs
    <3> QED
      BY <3>1 DEF SameText
  <2>2. ASSUME h = <<>>, NEW p \in occ
        PROVE  FALSE
    <3>1. p \in Nat /\ p < Len(h)
      BY <1>2, <1>4, FoundInside
    <3>2. Len(h) = 0
      BY <2>2
    <3> QED
      BY <3>1, <3>2
  <2> QED
    BY <2>1, <2>2
<1>12. score = IF h = <<>> THEN 0
               ELSE IF SameText(h, n) THEN 1000000
               ELSE IF occ # {} THEN FoundScore(h, P)
               ELSE IF fuzzy /\ Len(n) >= 2 THEN FuzzyScore(h, n) ELSE 0
  BY <1>2, <1>4, <1>5, SMT DEF MatchScore, ExactScore
<1>13. FuzzyClass(h, n) \in 0..5
  BY DEF FuzzyClass
<1>14. CASE SameText(h, n)
  <2>1. class = 9 /\ score = 1000000
    BY <1>5, <1>10, <1>11, <1>12, <1>14, SMT
  <2>2. 0 \in occ /\ P = 0 /\ a = b
    BY <1>2, <1>3, <1>4, <1>14, SameAtStart
  <2>3. pos = 0
    BY <1>7, <2>2
  <2>4. Graded(class, score, pos, a, b)
    BY <1>3, <1>8, <2>1, <2>2, <2>3, SMT DEF Graded
  <2> QED
    BY <1>1, <1>3, <1>5, <1>6, <2>4
<1>15. CASE ~SameText(h, n) /\ occ # {}
  <2>1. class = IF P = 0 THEN 8 ELSE IF Boundary(h, P) THEN 7 ELSE 6
    BY <1>4, <1>5, <1>10, <1>15
  <2>2. score = FoundScore(h, P) /\ pos = P
    BY <1>7, <1>11, <1>12, <1>15
  <2>3. FoundScore(h, P) =
          IF P = 0 THEN 900000 - a
          ELSE IF Boundary(h, P) THEN 800000 - P * 100 - a
          ELSE 700000 - P * 100 - a
    BY <1>3, <1>9, SMT DEF FoundScore, PrefixScore, BoundaryScore, InsideScore
  <2>4. CASE P = 0
    <3>1. class = 8 /\ score = 900000 - a /\ pos = 0
      BY <2>1, <2>2, <2>3, <2>4, SMT
    <3> QED
      BY <1>1, <1>3, <1>5, <1>6, <1>7, <1>8, <3>1, SMT DEF Graded
  <2>5. CASE P # 0 /\ Boundary(h, P)
    <3>1. class = 7 /\ score = 800000 - pos * 100 - a
      BY <2>1, <2>2, <2>3, <2>5, SMT
    <3> QED
      BY <1>1, <1>3, <1>5, <1>6, <1>7, <1>8, <3>1, SMT DEF Graded
  <2>6. CASE P # 0 /\ ~Boundary(h, P)
    <3>1. class = 6 /\ score = 700000 - pos * 100 - a
      BY <2>1, <2>2, <2>3, <2>6, SMT
    <3> QED
      BY <1>1, <1>3, <1>5, <1>6, <1>7, <1>8, <3>1, SMT DEF Graded
  <2> QED
    BY <2>4, <2>5, <2>6
<1>16. CASE ~SameText(h, n) /\ occ = {}
  <2>1. class \in 0..5
    BY <1>4, <1>5, <1>10, <1>13, <1>16
  <2>2. ~(class > 5)
    BY <2>1
  <2> QED
    BY <1>1, <1>3, <1>5, <1>6, <1>7, <1>8, <2>2, SMT DEF Graded
<1> QED
  BY <1>14, <1>15, <1>16

(* An artist has one text.                                                 *)
LEMMA ArtistGraded ==
  ASSUME library \in Libraries, Searched, Exhaustive,
         NEW m \in Matches("artists")
  PROVE  Graded(m.class, EntryScore("artists", m.entry, reply.q, reply.fuzzy),
                Position(m.entry.name), Len(m.entry.name), Len(reply.q))
<1>1. PICK kind : kind = "artists"
  OBVIOUS
<1>2. PICK q, fuzzy, e : q = reply.q /\ fuzzy = reply.fuzzy /\ e = m.entry
  OBVIOUS
<1>3. q \in Queries /\ q # <<>> /\ fuzzy \in BOOLEAN /\ (fuzzy => Len(q) + MaxDistance < WindowMax)
  BY <1>2 DEF Searched, Exhaustive
<1>4. e \in Range(ListIn(library, kind)) /\ m.class = BestClass(kind, e) /\ kind \in Kinds
  <2>1. kind \in Kinds
    BY <1>1 DEF Kinds
  <2> QED
    BY <1>1, <1>2, <2>1, MatchIs
<1>5. Fields(kind, e) = {e.name}
  BY <1>1 DEF Fields
<1>6. IsText(e.name) /\ Len(e.name) < PathMax
  BY <1>4, <1>5, LibraryAssumption
<1>7. PICK c, s : c = Class(e.name, q, fuzzy) /\ s = MatchScore(e.name, q, fuzzy)
  OBVIOUS
<1>8. Graded(c, s, Position(e.name), Len(e.name), Len(q))
  BY <1>2, <1>3, <1>6, <1>7, TextGraded
<1>9. c \in Nat /\ s \in Nat
  BY <1>8, SMT DEF Graded
<1>10. Max({0, c}) = c /\ Max({0, s}) = s
  <2>1. 0 \in Int /\ c \in Int /\ s \in Int /\ (0 >= c => c = 0) /\ (0 >= s => s = 0)
    BY <1>9
  <2>2. Max({0, c}) = (IF 0 >= c THEN 0 ELSE c) /\ Max({0, s}) = (IF 0 >= s THEN 0 ELSE s)
    BY <2>1, MaxOfTwo
  <2> QED
    BY <2>1, <2>2
<1>11. BestClass(kind, e) = c
  <2>1. {0} \cup {Class(f, q, fuzzy) : f \in {e.name}} = {0, c}
    BY <1>7
  <2> QED
    BY <1>2, <1>5, <1>10, <2>1 DEF BestClass
<1>12. EntryScore(kind, e, q, fuzzy) = s
  <2>1. {0} \cup {MatchScore(f, q, fuzzy) : f \in {e.name}} = {0, s}
    BY <1>7
  <2> QED
    BY <1>3, <1>5, <1>10, <2>1 DEF EntryScore, Score
<1> QED
  BY <1>1, <1>2, <1>4, <1>8, <1>11, <1>12

(* A match that should come before another does.                           *)
LEMMA AheadBefore ==
  ASSUME library \in Libraries, Searched, Exhaustive, NEW kind \in Kinds,
         NEW m \in Matches(kind), NEW o \in Matches(kind), Ahead(kind, m, o)
  PROVE  Before(Entrant(kind, m.entry, reply.q, reply.fuzzy),
                Entrant(kind, o.entry, reply.q, reply.fuzzy))
<1>1. PICK s, t : /\ s = EntryScore(kind, m.entry, reply.q, reply.fuzzy)
                  /\ t = EntryScore(kind, o.entry, reply.q, reply.fuzzy)
  OBVIOUS
<1>2. Scale(m.class, s) /\ Scale(o.class, t)
  BY <1>1, MatchIs
<1>3. PICK x, y : x = m.entry /\ y = o.entry
  OBVIOUS
<1>4. Before(Entrant(kind, x, reply.q, reply.fuzzy), Entrant(kind, y, reply.q, reply.fuzzy))
        <=> s > t \/ (s = t /\ x.id < y.id)
  BY <1>1, <1>3 DEF Before, Entrant
<1>5. CASE m.class > Documented(kind, o)
  <2>1. m.class \in Nat /\ o.class \in Nat
    BY <1>2, SMT DEF Scale
  <2>2. m.class > o.class
    BY <1>5, <2>1, SMT DEF Documented
  <2>3. s > t
    BY <1>2, <2>2, ScaleApart
  <2> QED
    BY <1>3, <1>4, <2>3
<1>6. CASE kind = "artists" /\ m.class = o.class /\ m.class > 5 /\ Sooner(x, y)
  <2>1. PICK c, p, r, a, b : /\ c = m.class /\ p = Position(x.name) /\ r = Position(y.name)
                             /\ a = Len(x.name) /\ b = Len(y.name)
    OBVIOUS
  <2>2. Graded(c, s, p, a, Len(reply.q))
    <3>1. Graded(m.class, EntryScore("artists", m.entry, reply.q, reply.fuzzy),
                 Position(m.entry.name), Len(m.entry.name), Len(reply.q))
      BY <1>6, ArtistGraded
    <3> QED
      BY <1>1, <1>3, <1>6, <2>1, <3>1
  <2>3. Graded(c, t, r, b, Len(reply.q))
    <3>1. Graded(o.class, EntryScore("artists", o.entry, reply.q, reply.fuzzy),
                 Position(o.entry.name), Len(o.entry.name), Len(reply.q))
      BY <1>6, ArtistGraded
    <3> QED
      BY <1>1, <1>3, <1>6, <2>1, <3>1
  <2>4. p <= r /\ a <= b /\ (p < r \/ a < b \/ x.id < y.id)
    BY <1>6, <2>1 DEF Sooner
  <2>5. c > 5
    BY <1>6, <2>1
  <2>6. /\ s \in Nat /\ t \in Nat
        /\ p < r \/ a < b => s > t
        /\ p = r /\ a = b => s = t
    BY <2>2, <2>3, <2>4, <2>5, GradesApart
  <2>7. p \in Nat /\ r \in Nat /\ a \in Nat /\ b \in Nat
    BY <2>2, <2>3, SMT DEF Graded
  <2>8. s > t \/ (s = t /\ x.id < y.id)
    BY <2>4, <2>6, <2>7
  <2> QED
    BY <1>3, <1>4, <2>8
<1> QED
  BY <1>3, <1>5, <1>6 DEF Ahead

(* What a one-to-one map brings inside an interval is no larger than it.   *)
LEMMA FitsInterval ==
  ASSUME NEW A, NEW a \in Int, NEW b \in Int, a <= b + 1, NEW pos,
         \A m \in A : pos[m] \in a..b,
         \A m, o \in A : pos[m] = pos[o] => m = o
  PROVE  Cardinality(A) <= b - a + 1 /\ Cardinality(A) \in Nat
<1> DEFINE f == [m \in A |-> pos[m]]
<1>1. f \in [A -> a..b] /\ \A m, o \in A : f[m] = f[o] => m = o
  OBVIOUS
<1> HIDE DEF f
<1>2. f \in Injection(A, a..b)
  BY <1>1 DEF Injection, IsInjective
<1>3. IsFiniteSet(a..b) /\ Cardinality(a..b) = IF a > b THEN 0 ELSE b - a + 1
  BY FS_Interval
<1>4. IsFiniteSet(A) /\ Cardinality(A) <= Cardinality(a..b)
  BY <1>2, <1>3, FS_Injection
<1>5. Cardinality(A) \in Nat
  BY <1>4, FS_CardinalityType
<1>6. Cardinality(a..b) = b - a + 1
  BY <1>3
<1> QED
  BY <1>4, <1>5, <1>6

(* No page of a search shows a match behind one it should be ahead of.     *)
LEMMA SearchRanked ==
  ASSUME library \in Libraries, Searched, Exhaustive, NEW kind \in Kinds
  PROVE  RankedPage(kind)
<1>1. PICK matches : matches = Matches(kind)
  OBVIOUS
<1>2. PICK hits : hits = Hits(kind, ListIn(library, kind), reply.q, reply.fuzzy)
  OBVIOUS
<1>3. hits \in Seq(Nat) /\ IsInjective(hits)
  BY <1>2, PlacesExist
<1>4. PICK pos : Placed(pos, kind, hits)
  BY <1>2, PlacesExist
<1>5. PICK n \in Nat : n = Len(hits) /\ DOMAIN hits = 1..n
  BY <1>3
<1>6. /\ \A m \in matches : pos[m] \in 1..n /\ hits[pos[m]] = m.entry.id
      /\ \A i \in 1..n : \E m \in matches : pos[m] = i
      /\ \A m, o \in matches : pos[m] = pos[o] \/ m.entry.id = o.entry.id => m = o
  BY <1>1, <1>4, <1>5 DEF Placed
<1>7. \A m, o \in matches : Ahead(kind, m, o) => pos[m] < pos[o]
  BY <1>1, <1>4, AheadBefore DEF Placed
<1>8. PICK shown, offset : shown = reply[kind].shown /\ offset = reply.page.offset
  OBVIOUS
<1>9. /\ reply[kind].total = n /\ shown \in Seq(Nat)
      /\ \A k \in 1..Len(shown) : offset + k \in 1..n /\ shown[k] = hits[offset + k]
  <2>1. Hits(kind, ListIn(library, kind), reply.q, reply.fuzzy) \in Seq(Nat)
    BY <1>2, <1>3
  <2>2. /\ reply[kind].total = Len(hits) /\ reply[kind].shown \in Seq(Nat)
        /\ \A k \in 1..Len(reply[kind].shown) :
             /\ reply.page.offset + k \in 1..Len(hits)
             /\ reply[kind].shown[k] = hits[reply.page.offset + k]
    BY <1>2, <2>1, PageSearched
  <2> QED
    BY <1>5, <1>8, <2>2
<1>10. ASSUME NEW k \in DOMAIN shown, NEW match,
              match = CHOOSE m \in matches : m.entry.id = shown[k]
       PROVE  /\ Cardinality({other \in matches \ {match} : Ahead(kind, other, match)}) < offset + k
              /\ Cardinality({other \in matches \ {match} : Ahead(kind, match, other)})
                   <= n - (offset + k)
  <2>1. k \in 1..Len(shown)
    BY <1>9
  <2>2. PICK j \in 1..n : j = offset + k /\ shown[k] = hits[j]
    BY <1>9, <2>1
  <2>3. \E m \in matches : m.entry.id = shown[k]
    BY <1>6, <2>2
  <2>4. match \in matches /\ match.entry.id = shown[k]
    BY <1>10, <2>3
  <2>5. pos[match] = j
    <3>1. PICK m \in matches : pos[m] = j
      BY <1>6
    <3>2. m.entry.id = match.entry.id
      BY <1>6, <2>2, <2>4, <3>1
    <3> QED
      BY <1>6, <2>4, <3>1, <3>2
  <2> DEFINE A == {other \in matches \ {match} : Ahead(kind, other, match)}
             B == {other \in matches \ {match} : Ahead(kind, match, other)}
  <2>6. \A m \in A : m \in matches /\ pos[m] \in 1..(j - 1)
    <3> TAKE m \in A
    <3>1. m \in matches /\ pos[m] < pos[match]
      BY <1>7, <2>4
    <3>2. pos[m] \in 1..n
      BY <1>6, <3>1
    <3> QED
      BY <2>5, <3>1, <3>2
  <2>7. \A m \in B : m \in matches /\ pos[m] \in (j + 1)..n
    <3> TAKE m \in B
    <3>1. m \in matches /\ pos[match] < pos[m]
      BY <1>7, <2>4
    <3>2. pos[m] \in 1..n
      BY <1>6, <3>1
    <3> QED
      BY <2>5, <3>1, <3>2
  <2> HIDE DEF A, B
  <2>8. Cardinality(A) <= (j - 1) - 1 + 1 /\ Cardinality(A) \in Nat
    <3>1. 1 \in Int /\ j - 1 \in Int /\ 1 <= (j - 1) + 1
      BY <1>5
    <3>2. \A m, o \in A : pos[m] = pos[o] => m = o
      BY <1>6, <2>6
    <3> QED
      BY <2>6, <3>1, <3>2, FitsInterval
  <2>9. Cardinality(B) <= n - (j + 1) + 1 /\ Cardinality(B) \in Nat
    <3>1. j + 1 \in Int /\ n \in Int /\ j + 1 <= n + 1
      BY <1>5
    <3>2. \A m, o \in B : pos[m] = pos[o] => m = o
      BY <1>6, <2>7
    <3> QED
      BY <2>7, <3>1, <3>2, FitsInterval
  <2>10. Cardinality(A) < j /\ Cardinality(B) <= n - j
    BY <1>5, <2>8, <2>9
  <2> QED
    BY <2>2, <2>10 DEF A, B
<1> QED
  BY <1>1, <1>8, <1>9, <1>10, ZenonT(60) DEF RankedPage

(* Every page of a search is full.                                         *)
LEMMA SearchFull ==
  ASSUME library \in Libraries, Searched, NEW kind \in Kinds
  PROVE  FullPage(reply[kind], reply.page)
<1>1. PICK hits : hits = Hits(kind, ListIn(library, kind), reply.q, reply.fuzzy)
  OBVIOUS
<1>2. PICK S : S = Scored(kind, ListIn(library, kind), reply.q, reply.fuzzy)
  OBVIOUS
<1>3. IsFiniteSet(Scored(kind, ListIn(library, kind), reply.q, reply.fuzzy))
  BY ScoredFinite
<1>4. Hits(kind, ListIn(library, kind), reply.q, reply.fuzzy)
        \in Seq(Range(Hits(kind, ListIn(library, kind), reply.q, reply.fuzzy)))
  BY <1>2, <1>3, HitsCounted
<1> QED
  BY <1>1, <1>4, PageSearched

(* The library of a search or a list is the one its reply is checked with: *)
(* a rescan may come only inside a discovery.                              *)
SearchInv ==
  /\ library \in Libraries
  /\ call # NoCall => reply = NoReply
  /\ reply.is = "search" => Searched
  /\ reply.is = "list" => ListedReply

(* It says what the invariants do.                                         *)
LEMMA SearchInvExact == SearchInv => FuzzyIsExact /\ ListsRanked
<1> SUFFICES ASSUME SearchInv PROVE FuzzyIsExact /\ ListsRanked
  OBVIOUS
<1>1. FuzzyIsExact
  BY SearchExact DEF SearchInv
<1>2. ASSUME reply.is = "search", NEW kind \in Kinds
      PROVE  FullPage(reply[kind], reply.page) /\ (Exhaustive => RankedPage(kind))
  BY <1>2, SearchFull, SearchRanked DEF SearchInv
<1>3. ASSUME reply.is = "list"
      PROVE  /\ reply.answer.total = Len(OfKind(reply.kind))
             /\ FullPage(reply.answer, reply.page)
             /\ \A k \in DOMAIN reply.answer.shown :
                  OfKind(reply.kind)[reply.page.offset + k].id = reply.answer.shown[k]
  BY <1>3, ListInOrder DEF SearchInv
<1>4. ListsRanked
  BY <1>2, <1>3 DEF ListsRanked
<1> QED
  BY <1>1, <1>4

(* The page that a request asks for.                                       *)
LEMMA PageAsked ==
  ASSUME NEW limit \in Limits, NEW offset \in Offsets
  PROVE  /\ PageOf(limit, offset).limit \in Nat \ {0}
         /\ PageOf(limit, offset).offset \in Nat
<1>1. limit \in Seq(Range(limit)) /\ offset \in Seq(Range(offset))
  BY TextAssumption
<1> QED
  BY <1>1, PageIs

(* A search answers with its hits.                                         *)
LEMMA SearchAnswered ==
  ASSUME SearchInv, NEW q \in Queries, NEW fuzzy \in BOOLEAN,
         NEW limit \in Limits, NEW offset \in Offsets, SearchFor(q, fuzzy, limit, offset)
  PROVE  SearchInv'
<1>1. PICK page : page = PageOf(limit, offset)
  OBVIOUS
<1>2. page.limit \in Nat \ {0} /\ page.offset \in Nat
  BY <1>1, PageAsked
<1>3. PICK tracks, artists, albums :
        /\ tracks = PageOfHits(Hits("tracks", library.items, q, fuzzy), page)
        /\ artists = PageOfHits(Hits("artists", library.artists, q, fuzzy), page)
        /\ albums = PageOfHits(Hits("albums", library.albums, q, fuzzy), page)
  OBVIOUS
<1>4. /\ call = NoCall /\ call' = call /\ library' = library
      /\ reply' = IF Len(q) >= QueryMax THEN [is |-> "invalid_query"]
                  ELSE IF q = <<>> THEN [is |-> "missing_query"]
                  ELSE [is |-> "search", q |-> q, fuzzy |-> fuzzy, page |-> page,
                        tracks |-> tracks, artists |-> artists, albums |-> albums]
  BY <1>1, <1>3 DEF SearchFor, Answers, Idle
<1>5. CASE Len(q) >= QueryMax \/ q = <<>>
  <2>1. reply'.is # "search" /\ reply'.is # "list"
    BY <1>4, <1>5
  <2> QED
    BY <1>4, <2>1 DEF SearchInv
<1>6. CASE ~(Len(q) >= QueryMax) /\ q # <<>>
  <2>1. reply' = [is |-> "search", q |-> q, fuzzy |-> fuzzy, page |-> page,
                  tracks |-> tracks, artists |-> artists, albums |-> albums]
    BY <1>4, <1>6
  <2>2. /\ reply'.is = "search" /\ reply'.q = q /\ reply'.fuzzy = fuzzy /\ reply'.page = page
        /\ reply'["tracks"] = tracks /\ reply'["artists"] = artists /\ reply'["albums"] = albums
    BY <2>1
  <2>3. \A kind \in Kinds : reply'[kind] = PageOfHits(Hits(kind, ListIn(library, kind), q, fuzzy), page)
    <3>1. /\ ListIn(library, "tracks") = library.items
          /\ ListIn(library, "artists") = library.artists
          /\ ListIn(library, "albums") = library.albums
      BY DEF ListIn
    <3> QED
      BY <1>3, <2>2, <3>1 DEF Kinds
  <2>4. Searched'
    BY <1>2, <1>4, <1>6, <2>2, <2>3 DEF Searched
  <2> QED
    BY <1>4, <2>2, <2>4 DEF SearchInv
<1> QED
  BY <1>5, <1>6

(* A list answers with its kind.                                           *)
LEMMA ListAnswered ==
  ASSUME SearchInv, NEW kind, NEW limit \in Limits, NEW offset \in Offsets,
         ListKind(kind, limit, offset)
  PROVE  SearchInv'
<1>1. PICK page : page = PageOf(limit, offset)
  OBVIOUS
<1>2. page.limit \in Nat \ {0} /\ page.offset \in Nat
  BY <1>1, PageAsked
<1>3. PICK answer :
        answer = PageOfHits([i \in DOMAIN OfKind(kind) |-> OfKind(kind)[i].id], page)
  OBVIOUS
<1>4. /\ call = NoCall /\ call' = call /\ library' = library
      /\ reply' = [is |-> "list", kind |-> kind, page |-> page, answer |-> answer]
  BY <1>1, <1>3 DEF ListKind, Answers, Idle
<1>5. /\ reply'.is = "list" /\ reply'.kind = kind /\ reply'.page = page
      /\ reply'.answer = answer
  BY <1>4
<1>6. OfKind(reply.kind)' = OfKind(kind)
  BY <1>4, <1>5 DEF OfKind
<1>7. ListedReply'
  BY <1>2, <1>3, <1>5, <1>6 DEF ListedReply
<1> QED
  BY <1>4, <1>5, <1>7 DEF SearchInv

(* Every step keeps the invariant.                                         *)
LEMMA SearchStep == SearchInv /\ [Next]_vars => SearchInv'
<1> SUFFICES ASSUME SearchInv, [Next]_vars PROVE SearchInv'
  OBVIOUS
<1>1. ASSUME UNCHANGED <<library, call, reply>>
      PROVE  SearchInv'
  BY <1>1 DEF SearchInv, Searched, ListedReply, OfKind
<1>2. ASSUME NEW answer, answer.is # "search", answer.is # "list", Answers(answer)
      PROVE  SearchInv'
  BY <1>2 DEF Answers, Idle, SearchInv
<1>3. CASE RegisterRoute \/ RegisterFails \/ Exited \/ UNCHANGED vars
  BY <1>1, <1>3 DEF RegisterRoute, RegisterFails, Exited, vars
<1>4. ASSUME NEW method, NEW path, Request(method, path)
      PROVE  SearchInv'
  BY <1>2, <1>4 DEF Request
<1>5. CASE Reading
  BY <1>4, <1>5, SearchAnswered, ListAnswered DEF Reading
<1>6. CASE Numbers
  BY <1>2, <1>6 DEF Numbers, Body, PatchBody, ReadNumber
<1>7. ASSUME NEW limit \in Limits, CollectRandom(limit) \/ CollectRecent(limit)
      PROVE  SearchInv'
  <2>1. reply = NoReply /\ reply' = reply /\ library' = library
    BY <1>7 DEF CollectRandom, CollectRecent, Collect, MayDiscover, Idle
  <2> QED
    BY <2>1 DEF SearchInv, NoReply
<1>8. CASE Swap
  <2>1. reply = NoReply /\ reply' = reply /\ library' \in Libraries
    BY <1>8, ShelfAssumption DEF Swap, SearchInv
  <2> QED
    BY <2>1 DEF SearchInv, NoReply
<1>9. CASE AnswerDiscovery
  <2>1. call' = NoCall /\ reply'.is = "discovery" /\ library' = library
    BY <1>9 DEF AnswerDiscovery
  <2> QED
    BY <2>1 DEF SearchInv
<1>10. CASE Done
  <2>1. reply' = NoReply /\ library' = library
    BY <1>10 DEF Done
  <2> QED
    BY <2>1 DEF SearchInv, NoReply
<1> QED
  BY <1>3, <1>5, <1>6, <1>7, <1>8, <1>9, <1>10 DEF Next, Start, Discovery

(* A search finds exactly the entries with a field that holds the query,   *)
(* or is within two edits of it or of a part of it when it is fuzzy; what  *)
(* a page shows is among them, each once (search.c:21, str.c:195).         *)
THEOREM SearchesExact == Spec => []FuzzyIsExact
<1>1. Init => SearchInv
  BY DEF Init, SearchInv, NoCall, NoReply
<1> QED
  BY <1>1, SearchInvExact, SearchStep, PTL DEF Spec

(* The pages of lists and searches are full, and consecutive pieces of one *)
(* order. It puts a better class of match first wherever the class of the  *)
(* code and that of README.md:248 agree, and among artists an earlier and  *)
(* shorter match and then the lower id (catalog_json.c:161, search.c:32).  *)
THEOREM ListingsRanked == Spec => []ListsRanked
<1>1. Init => SearchInv
  BY DEF Init, SearchInv, NoCall, NoReply
<1> QED
  BY <1>1, SearchInvExact, SearchStep, PTL DEF Spec
=============================================================================
