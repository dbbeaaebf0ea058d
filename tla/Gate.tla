-------------------------------- MODULE Gate --------------------------------
(***************************************************************************)
(* What a request that comes through the tunnel is about (net/gate.rs):    *)
(* the family of routes a bearer needs for it, and the route a party       *)
(* bearer has on it.  A path is the sequence of its segments, the last one *)
(* empty when it ends in a slash.                                          *)
(***************************************************************************)
EXTENDS Naturals, Sequences

CONSTANTS
  Methods, Segments,
  Longer,      \* segment -> the route word it begins with and goes beyond, or itself
  MaxTail      \* how many segments the paths have beyond a known prefix

ASSUME GateAssumption == MaxTail \in Nat

VARIABLES asked, route, family

gateVars == <<asked, route, family>>

Client(tail) == <<"client", "v1">> \o tail
Under(prefix, path) ==
  Len(prefix) <= Len(path) /\ SubSeq(path, 1, Len(prefix)) = prefix
OneMore(prefix, path) == Under(prefix, path) /\ Len(path) = Len(prefix) + 1
Last2(path) == SubSeq(path, Len(path) - 1, Len(path))
NoRoute == <<"nothing">>

AgentOfAvatarPath(path) ==
  /\ Len(path) = 5 /\ Under(Client(<<"agents">>), path)
  /\ path[4] # "" /\ path[5] = "avatar"

IsInferencePath(path) == Under(<<"inference">>, path)

FamilyOf(method, path) ==
  CASE \/ Under(Client(<<"threads">>), path) \/ Under(Client(<<"content">>), path)
       \/ method = "GET" /\ \/ path = Client(<<"agents">>)
                            \/ OneMore(Client(<<"agents">>), path)
                            \/ AgentOfAvatarPath(path) -> "threads"
    [] \/ method = "GET" /\ \/ Under(Client(<<"map">>), path)
                            \/ path = Client(<<"graph", "map">>)
                            \/ Under(Client(<<"timeline">>), path)
       \/ method = "POST" /\ path = Client(<<"map", "mutations", "score">>) -> "life-map-read"
    [] \/ method = "GET" /\ path = Client(<<"moves">>)
       \/ method = "POST" /\ Len(path) = 5 /\ Under(Client(<<"moves">>), path)
                          /\ path[5] = "resolve" -> "moves"
    [] \/ /\ method \in {"PATCH", "POST"}
          /\ \/ Under(Client(<<"map", "nodes">>), path) \/ Under(Client(<<"map", "edges">>), path)
             \/ Under(Client(<<"graph", "nodes">>), path)
       \/ Under(<<"mcp", "proxy">>, path) -> "life-map-write"
    [] Under(<<"mcp", "computer">>, path) \/ Under(<<"mcp", "phone">>, path) -> "computer"
    [] Under(<<"mcp", "mail">>, path) -> "mail"
    [] Under(<<"mcp", "messages">>, path) -> "messages"
    [] IsInferencePath(path) -> "inference"
    [] OTHER -> "none"

\* what follows the text /client/v1/threads, which a longer word also begins with
GluedOrNot(path) == Len(path) >= 3 /\ SubSeq(path, 1, 2) = Client(<<>>)
                    /\ Longer[path[3]] = "threads"
AtThreads(path) == GluedOrNot(path) /\ path[3] = "threads"

PartyRoute(method, path) ==
  LET rest == SubSeq(path, 4, Len(path))
      tail == Tail(rest)
      open == CASE tail \in {<<>>, <<"">>, <<"queue-idle">>, <<"events">>} -> method = "GET"
                [] tail = <<"messages">> -> method \in {"GET", "POST"}
                [] OTHER -> FALSE IN
  CASE method = "GET" /\ AgentOfAvatarPath(path) -> <<"avatar", path[4]>>
    [] ~(method = "GET" /\ AgentOfAvatarPath(path)) /\ AtThreads(path) ->
         CASE rest \in {<<>>, <<"">>} -> IF method = "POST" THEN <<"open">> ELSE NoRoute
           [] rest \notin {<<>>, <<"">>} /\ rest[1] # "" /\ open -> <<"thread", rest[1]>>
           [] OTHER -> NoRoute
    [] OTHER -> NoRoute
-----------------------------------------------------------------------------
Heads == {<<"client", "v1">>, <<"mcp">>, <<>>}
Tails == UNION {[1..n -> Segments] : n \in 0..MaxTail}
Paths == UNION {{h \o t : t \in Tails} : h \in Heads}

GateInit == asked = <<>> /\ route = NoRoute /\ family = "none"

\* a request with a bearer reaches the node
Request(method, path) ==
  /\ asked' = <<method, path>>
  /\ route' = PartyRoute(method, path)
  /\ family' = FamilyOf(method, path)

GateNext == asked = <<>> /\ \E method \in Methods, path \in Paths : Request(method, path)

GateSpec == GateInit /\ [][GateNext]_gateVars
-----------------------------------------------------------------------------
\* What a party bearer reaches is always one of the routes of conversations, the family a
\* connection would need for it: the two readings of a path, one by prefix with and without
\* a slash and one by segments, agree on every path and method (gate.rs party_route,
\* family_of).
PartyRouteIsThreads == route # NoRoute => family = "threads"
=============================================================================
