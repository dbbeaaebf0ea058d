--------------------------- MODULE PullExchangeMC ---------------------------
(***************************************************************************)
(* Small instances of PullExchange: one peer, and two peers that both hold *)
(* operations of a third device.                                           *)
(***************************************************************************)
EXTENDS PullExchange, TLC

CONSTANTS p1, p2

\* p1 is device 2, so that device 1 comes before its own origin
OneOwn     == p1 :> 2
OneOffered == p1 :> Op

TwoOwn     == p1 :> 2 @@ p2 :> 3
TwoOffered ==
  LET third == [origin : {1}, key : {1, 2}]
  IN p1 :> third \cup [origin : {2}, key : {1}]
       @@ p2 :> third \cup [origin : {3}, key : {1}]

\* the later operation of device 1 comes from another peer than the earlier one
SplitOffered ==
  p1 :> [origin : {1, 2}, key : {1}] @@ p2 :> [origin : {1}, key : {2}]
=============================================================================
