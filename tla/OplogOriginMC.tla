--------------------------- MODULE OplogOriginMC ---------------------------
(***************************************************************************)
(* The origin device of a row of a self-draining bulk table: two           *)
(* operations of two devices on that row, and a compaction pass.           *)
(***************************************************************************)
EXTENDS OplogStore, TLC

MCRowOf    == 1 :> "n" @@ 4 :> "b" @@ 5 :> "b"
MCDeviceOf == 1 :> "x" @@ 4 :> "x" @@ 5 :> "y"
=============================================================================
