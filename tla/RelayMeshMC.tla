---------------------------- MODULE RelayMeshMC ----------------------------
(***************************************************************************)
(* Small instances of RelayMesh: a pair of daemons that pull from each     *)
(* other, and a hub between two daemons.                                   *)
(***************************************************************************)
EXTENDS RelayMesh, TLC

CONSTANTS n1, n2, n3, o1, o2

\* one operation of each device
PairAuthor == o1 :> n1 @@ o2 :> n2
PairPeers  == n1 :> {n2} @@ n2 :> {n1}

\* one operation, relayed by n2 from n1 to n3
HubAuthor == o1 :> n1
HubPeers  == n1 :> {n2} @@ n2 :> {n1, n3} @@ n3 :> {n2}

\* the hub at rest: n1 and n2 stay up, n3 has pulled the operation once, and only
\* then things fail
HubFocus ==
  /\ epoch[n1] \in {0, 1} /\ epoch[n2] \in {0, 2}
  /\ lastEpoch >= 3 => mode[n1] = "running" /\ mode[n2] # "down"
  /\ faults > 0 =>
       /\ mode[n1] = "running" /\ mode[n2] = "running"
       /\ n1 \in links[n2] /\ cursorFile[n3][n2].after = 1
  /\ \A n \in Nodes : ~poisoned[n]
=============================================================================
