------------------------------- MODULE Router -------------------------------
(***************************************************************************)
(* The router (src/src/http/router.c) and the table of routes of the API   *)
(* (src/src/api/routes.c).                                                 *)
(*                                                                         *)
(* A path or a pattern that begins with "/" is the sequence of what stands *)
(* between the slashes after it, so "/" is << <<>> >>.  A segment is a     *)
(* sequence of characters or, when nothing depends on them, of one word;   *)
(* a parameter begins with ":".                                            *)
(*                                                                         *)
(* An operator whose name ends in an underscore and a word is a faulty     *)
(* variant of the operator that follows it, for mutation checks only.      *)
(***************************************************************************)
EXTENDS Naturals, Sequences, SequencesExt

CONSTANTS MaxParams,   \* ROUTER_MAX_PARAMS
          NameLen,     \* ROUTER_PARAM_NAME_LEN
          ValueLen     \* ROUTER_PARAM_VALUE_LEN

ASSUME ParamAssumption == {MaxParams, NameLen, ValueLen} \subseteq Nat

IsParam(segment) == segment # <<>> /\ segment[1] = ":"

ParamsAt(pattern) == {i \in DOMAIN pattern : IsParam(pattern[i])}

ValidPattern(pattern) ==
  /\ \A i \in ParamsAt(pattern) : Len(pattern[i]) - 1 \in 1..(NameLen - 1)
  /\ Cardinality(ParamsAt(pattern)) <= MaxParams

(* router_add, if there is memory.                                         *)
CanAddRoute(routes, route) ==
  /\ route.method # "" /\ ValidPattern(route.pattern)
  /\ ~ \E known \in Range(routes) :
       known.method = route.method /\ known.pattern = route.pattern

AddRoute(routes, route) == Append(routes, route)

(* A parameter takes one segment that is not empty and fits its buffer.    *)
Takes(segment, text) ==
  IF IsParam(segment) THEN Len(text) \in 1..(ValueLen - 1) ELSE segment = text

(* match_pattern goes on until either side ends, and then both must.       *)
MatchPattern_Prefix(pattern, path) ==
  /\ Len(pattern) <= Len(path)
  /\ \A i \in DOMAIN pattern : Takes(pattern[i], path[i])
MatchPattern(pattern, path) ==
  /\ Len(pattern) = Len(path)
  /\ \A i \in DOMAIN pattern : Takes(pattern[i], path[i])

(* The parameters of a match, in order.                                    *)
Captured(pattern, path) ==
  [k \in 1..Cardinality(ParamsAt(pattern)) |->
     LET i == CHOOSE i \in ParamsAt(pattern) :
                Cardinality({j \in ParamsAt(pattern) : j < i}) = k - 1
     IN [name |-> Tail(pattern[i]), value |-> path[i]]]

NoRoute == [handler |-> "none", params |-> <<>>]

(* router_match: the first route that matches.                             *)
RouterMatch(routes, method, path) ==
  LET found == SelectInSeq(routes, LAMBDA route : route.method = method
                                     /\ MatchPattern(route.pattern, path))
  IN IF found = 0 THEN NoRoute
     ELSE [handler |-> routes[found].handler,
           params |-> Captured(routes[found].pattern, path)]

(* router_param_get: the first of that name, <<>> for NULL.                *)
ParamGet(match, name) ==
  LET found == SelectInSeq(match.params, LAMBDA param : param.name = name)
  IN IF found = 0 THEN <<>> ELSE match.params[found].value

-----------------------------------------------------------------------------
(* api_routes_register.                                                    *)
Id == <<":", "id">>

Route(method, words, handler) ==
  [method |-> method, handler |-> handler,
   pattern |-> [i \in DOMAIN words |-> IF words[i] = ":id" THEN Id ELSE <<words[i]>>]]

RouteTable == <<
  Route("GET", <<"api", "ping">>, "handle_ping"),
  Route("GET", <<"api", "tracks">>, "handle_tracks"),
  Route("GET", <<"api", "tracks", ":id">>, "handle_track_by_id"),
  Route("PATCH", <<"api", "tracks", ":id">>, "handle_track_patch"),
  Route("GET", <<"api", "images">>, "handle_images"),
  Route("GET", <<"api", "images", ":id">>, "handle_image_by_id"),
  Route("GET", <<"api", "artists">>, "handle_artists"),
  Route("GET", <<"api", "artists", ":id">>, "handle_artist_by_id"),
  Route("GET", <<"api", "artists", ":id", "albums">>, "handle_artist_albums"),
  Route("GET", <<"api", "albums">>, "handle_albums"),
  Route("GET", <<"api", "albums", ":id">>, "handle_album_by_id"),
  Route("PATCH", <<"api", "albums", ":id">>, "handle_album_patch"),
  Route("PUT", <<"api", "albums", ":id", "cover">>, "handle_album_cover_put"),
  Route("GET", <<"api", "albums", ":id", "tracks">>, "handle_album_tracks"),
  Route("GET", <<"api", "search">>, "handle_search"),
  Route("GET", <<"api", "library", "status">>, "handle_library_status"),
  Route("POST", <<"api", "library", "scan">>, "handle_library_scan"),
  Route("GET", <<"api", "playlists">>, "handle_playlists"),
  Route("POST", <<"api", "playlists">>, "handle_playlist_create"),
  Route("GET", <<"api", "playlists", ":id">>, "handle_playlist_by_id"),
  Route("PATCH", <<"api", "playlists", ":id">>, "handle_playlist_patch"),
  Route("DELETE", <<"api", "playlists", ":id">>, "handle_playlist_delete"),
  Route("GET", <<"api", "playlists", ":id", "tracks">>, "handle_playlist_tracks"),
  Route("PUT", <<"api", "playlists", ":id", "tracks">>, "handle_playlist_tracks_put"),
  Route("GET", <<"api", "favourites">>, "handle_favourites"),
  Route("PUT", <<"api", "favourites", ":id">>, "handle_favourite_put"),
  Route("DELETE", <<"api", "favourites", ":id">>, "handle_favourite_delete"),
  Route("GET", <<"api", "history">>, "handle_history"),
  Route("POST", <<"api", "history">>, "handle_history_post"),
  Route("GET", <<"api", "discover", "random">>, "handle_discover_random"),
  Route("GET", <<"api", "discover", "recent">>, "handle_discover_recent"),
  Route("GET", <<"api", "discover", "recently-played">>, "handle_discover_recently_played"),
  Route("GET", <<"stream", ":id">>, "handle_stream"),
  Route("GET", <<"cover", ":id">>, "handle_cover")>>
=============================================================================
