------------------------------- MODULE NodeMC -------------------------------
(***************************************************************************)
(* The parts inside a node, model-checked side by side: the limiter, the   *)
(* proofs of party asks and the reading of paths at its front, the MCP     *)
(* sessions, the relay's signed door, the operation log in SQLite, its     *)
(* quarantine, the rows it writes, and the legacy pull.  They share no     *)
(* state, so one behaviour moves one of them.  The sessions, the log, the  *)
(* door and the legacy pull are taken in scenes that each leave out what   *)
(* the others exercise.                                                    *)
(***************************************************************************)
EXTENDS Limiter, AskProof, Gate, McpSessions, OplogStore, Quarantine, RowWrites,
        Watches, TLC

VARIABLE part

MCSegments == {"", "threads", "threads-old", "agents", "a", "avatar", "messages", "map"}
MCLonger   == [s \in MCSegments |-> IF s = "threads-old" THEN "threads" ELSE s]

MCGrantOf          == "guest" :> Seat @@ "editor" :> Writer
MCAgentParticipant == "bot" :> "guest"
MCRequested ==
  {[tool |-> "write", principal |-> "local", policy |-> "seat"],
   [tool |-> "join",  principal |-> "mail",  policy |-> "writer"]}

\* Operations 1, 2, 6 of one row, 3 of a row that may merge into it, 4 and 5
\* of a row of a bulk table.
MCRowOf    == 1 :> "n" @@ 2 :> "n" @@ 3 :> "m" @@ 4 :> "b" @@ 5 :> "b" @@ 6 :> "n"
MCDeviceOf == 1 :> "x" @@ 2 :> "y" @@ 3 :> "y" @@ 4 :> "x" @@ 5 :> "y" @@ 6 :> "x"
MCAliases  == {<<"m", "n">>}

\* Operation 1 comes damaged and whole, and both peers serve some of the rest.
MCCandidate(op, signer, size, good) ==
  [op |-> op, signer |-> signer, size |-> size, good |-> good]
MCPeerStream ==
  "p" :> <<MCCandidate(1, "s", 1, FALSE), MCCandidate(1, "s", 1, TRUE),
           MCCandidate(2, "t", 2, TRUE)>> @@
  "q" :> <<MCCandidate(2, "t", 2, TRUE), MCCandidate(1, "s", 1, TRUE),
           MCCandidate(3, "s", 1, TRUE)>>

\* Two writes and two deletions of row a, the second write by a device without the
\* unique column; b references a and wants its unique value; l stays local.
MCUpsert(r, v, u) ==
  [row |-> r, delete |-> FALSE, image |-> [k |-> r, v |-> v, u |-> u]]
MCOldUpsert(r, v) == [row |-> r, delete |-> FALSE, image |-> [k |-> r, v |-> v]]
MCDelete(r) == [row |-> r, delete |-> TRUE, image |-> <<>>]
MCMutation ==
  1 :> MCUpsert("a", 1, 1) @@ 2 :> MCDelete("a") @@ 3 :> MCOldUpsert("a", 2) @@
  4 :> MCUpsert("b", 1, 1) @@ 5 :> MCDelete("b") @@ 6 :> MCUpsert("l", 1, 3) @@
  7 :> MCDelete("a")
MCColumnsOf == "full" :> {"k", "v", "u"} @@ "old" :> {"k", "v"}
MCParentOf  == "a" :> "-" @@ "b" :> "a" @@ "l" :> "-"

MCLinks    == <<"p", "q">>
MCSignerOf == 1 :> "x" @@ 2 :> "y" @@ 3 :> "x"

Init ==
  /\ part \in {"limiter", "proof", "gate", "mcp", "bind", "rows", "bulk", "peers",
               "pair", "quarantine", "writes", "door", "watch", "legacy", "parked"}
  /\ LimiterInit /\ ProofInit /\ GateInit /\ McpInit
  /\ StoreInit /\ QuarantineInit /\ RowInit /\ DoorInit /\ LegacyInit
  /\ part # "door" => served.devices = {"a"}
  /\ part # "legacy" => ~incremental

frontVars == <<limiterVars, proofVars, gateVars, mcpVars>>
storedVars == <<storeVars, quarantineVars, rowVars>>

MovesLimiter ==
  /\ part = "limiter" /\ LimiterNext
  /\ UNCHANGED <<part, proofVars, gateVars, mcpVars, storedVars, doorVars, legacyVars>>
MovesProof ==
  /\ part = "proof" /\ ProofNext
  /\ UNCHANGED <<part, limiterVars, gateVars, mcpVars, storedVars, doorVars, legacyVars>>
MovesGate ==
  /\ part = "gate" /\ GateNext
  /\ UNCHANGED <<part, limiterVars, proofVars, mcpVars, storedVars, doorVars, legacyVars>>
\* Writes of one participant over restarts, or writes and joins of two within one.
MovesMcp ==
  /\ part \in {"mcp", "bind"} /\ McpNext
  /\ \/ /\ part = "mcp"
        /\ \A s \in DOMAIN participants' : participants'[s] = "guest"
        /\ \A k \in Calls : calls'[k] # NoCall => calls'[k].tool = "write"
     \/ /\ part = "bind" /\ boots' = 1
        /\ \A s \in DOMAIN negotiated' : negotiated'[s] = Latest
  /\ UNCHANGED <<part, limiterVars, proofVars, gateVars, storedVars, doorVars, legacyVars>>

\* A scene of the log: the operations it appends, and how long it lasts.
Scene(ops, seq, time) == DOMAIN log' \subseteq ops /\ HeadSeq' <= seq /\ clock' <= time

MovesStore ==
  /\ \/ /\ part = "rows"
        /\ WriteStep \/ RowStep \/ CompactionStep
        /\ Scene({1, 2, 3, 6}, 5, 1)
     \/ /\ part = "bulk"
        /\ WriteStep \/ RowStep \/ CompactionStep
        /\ Scene({1, 4, 5}, 5, 1)
     \/ /\ part = "peers"
        /\ WriteStep \/ StreamStep \/ CompactionStep
        /\ Scene({4, 5}, 4, 2) /\ ~peers'["r"].trusted
     \/ /\ part = "pair"
        /\ WriteStep \/ StreamStep \/ CompactionStep
        /\ Scene({1, 4, 5}, 3, 2) /\ relay'.epoch = 1
        /\ \A s \in DOMAIN arrivals' : arrivals'[s] = [op |-> <<4, 5, 1>>[s], at |-> 2]
  /\ UNCHANGED <<part, frontVars, quarantineVars, rowVars, doorVars, legacyVars>>
MovesQuarantine ==
  /\ part = "quarantine" /\ QuarantineNext
  /\ UNCHANGED <<part, frontVars, storeVars, rowVars, doorVars, legacyVars>>
MovesRows ==
  /\ part = "writes" /\ RowNext
  /\ UNCHANGED <<part, frontVars, storeVars, quarantineVars, doorVars, legacyVars>>
\* Two callers and one change at the node, or one caller and several changes.
MovesDoor ==
  /\ part \in {"door", "watch"} /\ DoorNext
  /\ \/ part = "door" /\ served'.version <= 1
     \/ part = "watch" /\ outstanding'["b"] = NotCalling /\ duplicates' = 0 /\ doorTime' = 0
  /\ UNCHANGED <<part, frontVars, storedVars, legacyVars>>

\* Pulling with keys, failures and restarts, or a watch parked at a source.
MovesLegacy ==
  /\ \/ /\ part = "legacy"
        /\ PullStep \/ WaitStep \/ OutsideStep
        /\ pollOnly' = {} /\ sourceLog'["q"] \subseteq {2}
     \/ /\ part = "parked"
        /\ PullStep \/ WaitStep \/ OutsideStep \/ ParkedStep
        /\ restarts' = 0 /\ sourceLog'["p"] \subseteq {1, 2} /\ sourceLog'["q"] = {}
  /\ UNCHANGED <<part, frontVars, storedVars, doorVars>>

Next == \/ MovesLimiter \/ MovesProof \/ MovesGate \/ MovesMcp
        \/ MovesStore \/ MovesQuarantine \/ MovesRows \/ MovesDoor
        \/ MovesLegacy

vars == <<part, frontVars, storedVars, doorVars, legacyVars>>

Spec == Init /\ [][Next]_vars
=============================================================================
