---------------------------- MODULE ServicesMC ----------------------------
(***************************************************************************)
(* The parts of a node that owe somebody something, model-checked side by  *)
(* side: the authorization server owes an ask its end, the tunnel a report *)
(* of an exit, the work queues an edge its attachment and a move its       *)
(* callbacks, the roster a peer its place.  They share no state, so one    *)
(* behaviour moves one of them.                                            *)
(***************************************************************************)
EXTENDS OAuthServer, Tunnel, PendingEdges, Roster, TLC

CONSTANTS c1

VARIABLE part

MCClients     == {c1}
MCRequests    == {<<>>, <<"party">>, <<"junk">>}
MCFamilyOrder == <<"threads", "mail">>

MCEndsOf    == 1 :> {"a", "b"} @@ 2 :> {"a", "c"} @@ 3 :> {"a"}
MCEdgeRowOf == 1 :> "r" @@ 2 :> "s" @@ 3 :> "r"

\* Two devices that swap, share and lose their keys, this device, and one that was
\* found without the account; an undecodable key, a missing one and an empty id.
MCDevice(id, key, seen, on) ==
  [id |-> id, self |-> id = "s", key |-> key, seen |-> seen, on |-> on, auth |-> id # "x"]
MCDevices ==
  {MCDevice("d", "k", 0, "unsaid"), MCDevice("d", "l", 0, "yes"),
   MCDevice("e", "k", 1, "no"), MCDevice("e", "l", 1, "unsaid"),
   MCDevice("s", "k", 0, "unsaid"), MCDevice("s", "l", 0, "unsaid")}
MCFeeds ==
  {<<a>> : a \in MCDevices} \cup {<<a, b>> : a, b \in MCDevices} \cup
  {<<MCDevice("d", key, 0, "unsaid"), MCDevice("e", NoKey, 0, "yes")>> : key \in {"l", "bad"}} \cup
  {<<MCDevice("", "l", 0, "yes")>>}
MCFound == {MCDevice("x", "l", 0, "unsaid")}

Init ==
  /\ part \in {"oauth", "tunnel", "edges", "fires", "roster"}
  /\ OAuthInit /\ TunnelInit /\ PendingInit /\ RosterInit
  /\ part # "tunnel" => config = "ok" /\ binary = "none"

MovesOAuth ==
  part = "oauth" /\ OAuthNext /\ UNCHANGED <<part, tunnelVars, pendingVars, rosterVars>>
MovesTunnel ==
  part = "tunnel" /\ TunnelNext /\ UNCHANGED <<part, oauthVars, pendingVars, rosterVars>>
MovesEdges ==
  part = "edges" /\ EdgesNext /\ UNCHANGED <<part, oauthVars, tunnelVars, rosterVars>>
MovesFires ==
  part = "fires" /\ FiresNext /\ UNCHANGED <<part, oauthVars, tunnelVars, rosterVars>>

MovesRoster ==
  part = "roster" /\ RosterNext /\ UNCHANGED <<part, oauthVars, tunnelVars, pendingVars>>

Next == MovesOAuth \/ MovesTunnel \/ MovesEdges \/ MovesFires \/ MovesRoster

vars == <<part, oauthVars, tunnelVars, pendingVars, rosterVars>>

\* what OAuthFairness, TunnelFairness and PendingFairness state, for the part that moves
Fairness ==
  /\ \A c \in Clients : WF_oauthVars(part = "oauth" /\ Poll(c))
  /\ WF_oauthVars(part = "oauth" /\ \E p \in minting : MintCode(p))
  /\ WF_oauthVars(part = "oauth" /\ Tick)
  /\ WF_tunnelVars(part = "tunnel" /\ (StopTakes \/ StopEnd))
  /\ WF_tunnelVars(part = "tunnel" /\ \E ok \in BOOLEAN : WriteBinary(ok))
  /\ \A g \in 1..MaxGeneration : WF_tunnelVars(part = "tunnel" /\ StartTask(g)) /\ WF_tunnelVars(part = "tunnel" /\ HealthLoop(g))
  /\ WF_tunnelVars(part = "tunnel" /\ \E g \in sleeping : WakeRestart(g))
  /\ \A m \in MoveIds :
       /\ WF_pendingVars(part = "fires" /\ TakeFire(m))
       /\ WF_pendingVars(part = "fires" /\ (RunFire(m) \/ MarkFire(m)))

Spec == Init /\ [][Next]_vars /\ Fairness
=============================================================================
