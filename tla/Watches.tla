------------------------------ MODULE Watches ------------------------------
(***************************************************************************)
(* The two watches of a node side by side: the relay watch a caller parks  *)
(* at the signed door (until_relay_changes) and the legacy one parked at a *)
(* source (until_head_changes).  They share no state.                      *)
(***************************************************************************)
EXTENDS RelayDoor, LegacyPull

WatchesSpec == DoorSpec /\ LegacySpec

\* No wake-up is lost between the tick a parked watch marked and the state it
\* read, for a relay watch (until_relay_changes) and for a legacy one
\* (until_head_changes): no watch sleeps on what was announced before.
NoWakeupLost == RelayWakeupKept /\ HeadWakeupKept
=============================================================================
