--------------------------- MODULE Watches_proof ----------------------------
(***************************************************************************)
(* Proofs about the two links of a node (LegacyPull, RelayDoor) and about  *)
(* the watches parked on them (Watches).                                   *)
(***************************************************************************)
EXTENDS Watches, FiniteSetTheorems, SequenceTheorems, WellFoundedInduction, TLAPS

(***************************************************************************)
(* LegacyCursorCovered and HeadWakeupKept for any links, operations and    *)
(* page size.  The inductive invariant follows the pull task: while a page *)
(* is admitted, what the source held above the cursor is in the log, still *)
(* in the page, or beyond all of it; once the batch is over, what the      *)
(* cursor is about to cross is in the log, and after the fsync on disk.    *)
(* For the watches: a handler asleep on the tick it marked has read a log  *)
(* that holds all its source has announced.                                *)
(***************************************************************************)

ForcedOps == {frames[i] : i \in 1..forced}

DataTypes ==
  /\ sourceLog \in [LinkPeers -> SUBSET PulledOps]
  /\ frames \in Seq(PulledOps) /\ forced \in 0..Len(frames)
  /\ legacyCursor \in [LinkPeers -> Nat] /\ savedCursor \in [LinkPeers -> Nat]
  /\ passed \in [LinkPeers -> SUBSET PulledOps]
  /\ savedPassed \in [LinkPeers -> SUBSET PulledOps]

TaskRecord ==
  [at : {"pull", "page", "force", "apply", "save", "probe", "wait"}, link : Nat \ {0},
   page : SUBSET PulledOps, held : SUBSET PulledOps, highest : Nat, new : BOOLEAN]

TaskTypes ==
  /\ task \in TaskRecord
  /\ task.at \notin {"probe", "wait"} => task.link \in 1..Len(Links)

Types == DataTypes /\ TaskTypes

\* Where an operation the source held above the cursor is while its page is
\* admitted.
Accounted(o) ==
  \/ o \in ourLog
  \/ o \in task.page /\ o > task.highest
  \/ o > task.highest /\ \A x \in task.page : x < o

TaskInv ==
  /\ task.at = "page" =>
       \A o \in task.held : o > legacyCursor[Linked] => Accounted(o)
  /\ task.at = "force" => Crossed \subseteq ourLog
  /\ task.at = "apply" => Crossed \subseteq ForcedOps

Kept ==
  /\ ourLog = Range(frames)
  /\ \A s \in LinkPeers : /\ passed[s] \subseteq ForcedOps \cap applied
                          /\ savedPassed[s] \subseteq ForcedOps

LegacyInv == Types /\ TaskInv /\ Kept

-----------------------------------------------------------------------------
\* The link a task is at is one of the peers.
LEMMA LinkedIsPeer ==
  ASSUME Types, task.at \notin {"probe", "wait"}
  PROVE  Linked \in LinkPeers /\ legacyCursor[Linked] \in Nat
<1>1. task.link \in DOMAIN Links
  BY LegacyAssumption DEF Types, TaskTypes, TaskRecord
<1>2. Links[task.link] \in Range(Links)
  BY Zenon, <1>1 DEF Range
<1>. QED
  BY Zenon, <1>2 DEF Types, DataTypes, Linked, LinkPeers

\* What is forced is in the log.
LEMMA ForcedInLog ==
  ASSUME Types, Kept
  PROVE  ForcedOps \subseteq ourLog
<1>. SUFFICES ASSUME NEW i \in 1..forced PROVE frames[i] \in Range(frames)
  BY Zenon DEF ForcedOps, Kept
<1>1. i \in 1..Len(frames)
  BY LenProperties DEF Types, DataTypes
<1>. QED
  BY <1>1 DEF Range, Types, DataTypes

\* A page of get_ops is below everything above the cursor that is not in it.
LEMMA PageIsFirst ==
  ASSUME Types, NEW s \in LinkPeers, NEW c \in Nat,
         NEW o \in Since(s, c), o \notin OpsPage(s, c), NEW x \in OpsPage(s, c)
  PROVE  x < o
<1>. DEFINE above == Since(s, c)
            under(z) == {y \in above : y < z}
<1>1. above \subseteq PulledOps /\ above \subseteq Nat /\ IsFiniteSet(above)
  <2>1. above \subseteq PulledOps
    BY Zenon DEF Since, Types, DataTypes
  <2>2. PulledOps \subseteq Nat /\ IsFiniteSet(PulledOps)
    BY Zenon, LegacyAssumption
  <2>3. IsFiniteSet(above)
    <3>1. above \in SUBSET PulledOps
      BY Zenon, <2>1
    <3>. HIDE DEF above
    <3>. QED  BY <2>2, <3>1, FS_Subset, Zenon
  <2>. QED
    <3>. HIDE DEF above
    <3>. QED  BY Zenon, <2>1, <2>2, <2>3
<1>2. o \in above /\ x \in above /\ Cardinality(under(x)) < PullLimit
      /\ ~(Cardinality(under(o)) < PullLimit)
  BY Zenon DEF OpsPage
<1>. SUFFICES ASSUME o <= x PROVE FALSE
  BY <1>1, <1>2
<1>3. under(o) \subseteq under(x) /\ IsFiniteSet(under(x))
  <2>1. under(o) \subseteq under(x)
    BY <1>1, <1>2
  <2>2. under(x) \subseteq above
    BY Zenon
  <2>. QED
    BY Zenon, <1>1, <2>1, <2>2, FS_Subset
<1>4. Cardinality(under(o)) <= Cardinality(under(x))
      /\ Cardinality(under(o)) \in Nat /\ Cardinality(under(x)) \in Nat
  BY Zenon, <1>3, FS_Subset, FS_CardinalityType
<1>. QED
  BY <1>2, <1>4, LegacyAssumption

\* A task within a batch is well typed.
LEMMA InBatchTyped ==
  ASSUME TaskTypes, task.at \notin {"probe", "wait"},
         NEW a \in {"page", "force"}, NEW p \in SUBSET PulledOps,
         NEW h \in SUBSET PulledOps, NEW k \in Nat, NEW b \in BOOLEAN,
         task' = InBatch(a, p, h, k, b)
  PROVE  /\ TaskTypes'
         /\ task'.at = a /\ task'.link = task.link /\ task'.page = p
         /\ task'.held = h /\ task'.highest = k
<1>1. task.link \in 1..Len(Links) /\ task.link \in Nat \ {0}
  BY Zenon DEF TaskTypes, TaskRecord
<1>2. task' \in TaskRecord
  BY Zenon, <1>1 DEF InBatch, TaskRecord
<1>3. /\ task'.at = a /\ task'.link = task.link /\ task'.page = p
      /\ task'.held = h /\ task'.highest = k
  BY Zenon DEF InBatch
<1>. QED
  BY Zenon, <1>1, <1>2, <1>3 DEF TaskTypes

\* Every task that starts over or goes on with a link is well typed.
LEMMA AtLinkTyped ==
  ASSUME NEW i \in Nat \ {0}
  PROVE  /\ AtLink(i) \in [at : {"pull", "probe"}, link : Nat \ {0}, page : SUBSET PulledOps,
                           held : SUBSET PulledOps, highest : Nat, new : BOOLEAN]
         /\ AtLink(i).at = "pull" => AtLink(i).link \in 1..Len(Links)
<1>1. Len(Links) \in Nat
  BY Zenon, LegacyAssumption, LenProperties
<1>. QED
  BY <1>1 DEF AtLink

-----------------------------------------------------------------------------
\* A new process has nothing, and has crossed nothing.
LEMMA LegacyInvInit == LegacyInit => LegacyInv
<1>. SUFFICES ASSUME LegacyInit PROVE LegacyInv
  BY Zenon
<1>1. frames \in Seq(PulledOps) /\ Len(frames) = 0 /\ Range(frames) = {}
  BY DEF LegacyInit, Range
<1>2. task = AtLink(1) /\ task.at \in {"pull", "probe"}
  BY AtLinkTyped DEF LegacyInit
<1>3. Types
  <2>1. DataTypes
    BY <1>1 DEF LegacyInit, DataTypes
  <2>2. TaskTypes
    BY <1>2, AtLinkTyped DEF TaskTypes, TaskRecord
  <2>. QED
    BY Zenon, <2>1, <2>2 DEF Types
<1>4. TaskInv
  BY Zenon, <1>2 DEF TaskInv
<1>5. Kept
  BY Zenon, <1>1 DEF LegacyInit, Kept
<1>. QED
  BY Zenon, <1>3, <1>4, <1>5 DEF LegacyInv

-----------------------------------------------------------------------------
memory == <<ourLog, frames, forced, applied, legacyCursor, savedCursor, passed,
            savedPassed>>

\* A step that leaves the task and what it works on alone.
LEMMA OtherStepKeeps ==
  ASSUME LegacyInv, UNCHANGED <<task, memory>>,
         sourceLog' \in [LinkPeers -> SUBSET PulledOps]
  PROVE  LegacyInv'
<1>1. Types'
  BY Zenon DEF LegacyInv, Types, DataTypes, TaskTypes, TaskRecord, memory
<1>2. TaskInv'
  BY Zenon DEF LegacyInv, TaskInv, Accounted, Crossed, Linked, ForcedOps, memory
<1>3. Kept'
  BY Zenon DEF LegacyInv, Kept, ForcedOps, memory
<1>. QED
  BY Zenon, <1>1, <1>2, <1>3 DEF LegacyInv

\* A task that is neither in a batch nor in front of its fsync or its store has
\* nothing to show.
LEMMA BetweenBatches ==
  ASSUME task'.at \in {"pull", "save", "probe", "wait"}
  PROVE  TaskInv'
  BY Zenon DEF TaskInv

\* A step that only moves the task on, or sends it waiting.
LEMMA MovesOnKeeps ==
  ASSUME LegacyInv, UNCHANGED <<sourceLog, memory>>,
         \/ \E i \in Nat \ {0} : task' = AtLink(i)
         \/ task' = [task EXCEPT !.at = "wait"]
  PROVE  LegacyInv'
<1>1. Types' /\ task'.at \in {"pull", "probe", "wait"}
  <2>1. DataTypes'
    BY Zenon DEF LegacyInv, Types, DataTypes, memory
  <2>2. ASSUME NEW i \in Nat \ {0}, task' = AtLink(i)
        PROVE  Types' /\ task'.at \in {"pull", "probe", "wait"}
    <3>1. TaskTypes' /\ task'.at \in {"pull", "probe"}
      BY Zenon, <2>2, AtLinkTyped DEF TaskTypes, TaskRecord
    <3>. QED
      BY Zenon, <2>1, <3>1 DEF Types
  <2>3. CASE task' = [task EXCEPT !.at = "wait"]
    <3>1. TaskTypes' /\ task'.at = "wait"
      BY Zenon, <2>3 DEF LegacyInv, Types, TaskTypes, TaskRecord
    <3>. QED
      BY Zenon, <2>1, <3>1 DEF Types
  <2>. QED
    BY Zenon, <2>2, <2>3
<1>2. TaskInv'
  BY Zenon, <1>1, BetweenBatches
<1>3. Kept'
  BY DEF LegacyInv, Kept, ForcedOps, memory
<1>. QED
  BY Zenon, <1>1, <1>2, <1>3 DEF LegacyInv

\* A served page accounts for what the source holds above the cursor.
LEMMA FetchOpsKeeps ==
  ASSUME LegacyInv, FetchOps
  PROVE  LegacyInv'
<1>. DEFINE c == legacyCursor[Linked]
<1>1. Linked \in LinkPeers /\ c \in Nat /\ Types
  BY Zenon, LinkedIsPeer DEF LegacyInv, FetchOps
<1>2. /\ task.at = "pull" /\ UNCHANGED <<sourceLog, memory>>
      /\ task' = InBatch("page", OpsPage(Linked, c), sourceLog[Linked], c, FALSE)
  BY Zenon DEF FetchOps, memory, sourceVars, diskVars
<1>3. OpsPage(Linked, c) \subseteq Since(Linked, c) /\ Since(Linked, c) \subseteq PulledOps
      /\ sourceLog[Linked] \subseteq PulledOps
  BY Zenon, <1>1 DEF OpsPage, Since, Types, DataTypes
<1>4. /\ task'.at = "page" /\ task'.held = sourceLog[Linked] /\ task'.highest = c
      /\ task'.page = OpsPage(Linked, c) /\ task'.link = task.link /\ TaskTypes'
  <2>. DEFINE held == sourceLog[Linked]
              first == OpsPage(Linked, c)
  <2>1. /\ task' = InBatch("page", first, held, c, FALSE) /\ task.at = "pull" /\ TaskTypes
        /\ held \in SUBSET PulledOps /\ first \in SUBSET PulledOps /\ c \in Nat
    BY Zenon, <1>1, <1>2, <1>3 DEF Types
  <2>2. /\ task'.at = "page" /\ task'.held = held /\ task'.highest = c
        /\ task'.page = first /\ task'.link = task.link /\ TaskTypes'
    <3>1. "page" \in {"page", "force"} /\ FALSE \in BOOLEAN /\ task.at \notin {"probe", "wait"}
      BY Zenon, <2>1
    <3>. HIDE DEF held, first, c
    <3>. QED  BY <2>1, <3>1, InBatchTyped, Zenon
  <2>. QED
    BY Zenon, <2>2
<1>5. Types'
  <2>1. DataTypes'
    BY Zenon, <1>1, <1>2 DEF Types, DataTypes, memory
  <2>. QED
    BY Zenon, <1>4, <2>1 DEF Types
<1>6. Linked' = Linked /\ legacyCursor'[Linked] = c
  <2>1. Linked' = Linked
    BY Zenon, <1>4 DEF Linked
  <2>2. legacyCursor' = legacyCursor
    BY Zenon, <1>2 DEF memory
  <2>. QED
    BY Zenon, <2>1, <2>2
<1>7. ASSUME NEW o \in task'.held, o > c PROVE Accounted(o)'
  <2>1. o \in Since(Linked, c)
    BY Zenon, <1>4, <1>7 DEF Since
  <2>2. o \in OpsPage(Linked, c) \/ \A x \in OpsPage(Linked, c) : x < o
    BY Zenon, <1>1, <2>1, PageIsFirst
  <2>. QED
    BY Zenon, <1>4, <1>7, <2>2 DEF Accounted
<1>8. TaskInv'
  BY Zenon, <1>4, <1>6, <1>7 DEF TaskInv
<1>9. Kept'
  BY Zenon, <1>2 DEF LegacyInv, Kept, ForcedOps, memory
<1>. QED
  BY Zenon, <1>5, <1>8, <1>9 DEF LegacyInv

\* The least operation of the page gets through: those beyond it stay beyond.
LEMMA AdmitOpKeeps ==
  ASSUME LegacyInv, NEW m \in PulledOps, AdmitOp(m)
  PROVE  LegacyInv'
<1>. DEFINE c == legacyCursor[Linked]
<1>1. /\ Linked \in LinkPeers /\ c \in Nat /\ task.at = "page"
      /\ m \in task.page /\ m \in Nat /\ \A x \in task.page : m <= x
  BY Zenon, LinkedIsPeer, LegacyAssumption DEF LegacyInv, AdmitOp
<1>2. /\ frames' = IF m \in ourLog THEN frames ELSE Append(frames, m)
      /\ ourLog' = ourLog \cup {m}
      /\ UNCHANGED <<sourceLog, forced, applied, legacyCursor, savedCursor, passed, savedPassed>>
  BY Zenon DEF AdmitOp, sourceVars
<1>3. /\ task'.at = "page" /\ task'.held = task.held /\ task'.highest = m
      /\ task'.page = task.page \ {m} /\ task'.link = task.link /\ TaskTypes'
  <2>1. /\ "page" \in {"page", "force"} /\ task.at \notin {"probe", "wait"}
        /\ task.page \ {m} \in SUBSET PulledOps /\ task.held \in SUBSET PulledOps
        /\ (task.new \/ m \notin ourLog) \in BOOLEAN /\ TaskTypes
    BY Zenon, <1>1 DEF LegacyInv, Types, TaskTypes, TaskRecord
  <2>2. task' = InBatch("page", task.page \ {m}, task.held, m, task.new \/ m \notin ourLog)
    BY Zenon DEF AdmitOp
  <2>. QED
    BY <1>1, <2>1, <2>2, InBatchTyped, Zenon
<1>4. /\ frames' \in Seq(PulledOps) /\ Len(frames) \in Nat /\ Len(frames) <= Len(frames')
      /\ \A i \in 1..Len(frames) : frames'[i] = frames[i]
      /\ Range(frames') = Range(frames) \cup {m}
  <2>1. frames \in Seq(PulledOps) /\ Len(frames) \in Nat /\ ourLog = Range(frames)
    BY Zenon, LenProperties DEF LegacyInv, Types, DataTypes, Kept
  <2>2. CASE m \in ourLog
    BY <1>2, <2>1, <2>2
  <2>3. CASE m \notin ourLog
    <3>1. frames' = Append(frames, m)
      BY Zenon, <1>2, <2>3
    <3>2. /\ frames' \in Seq(PulledOps) /\ Len(frames') = Len(frames) + 1
          /\ \A i \in 1..Len(frames) : frames'[i] = frames[i]
          /\ frames'[Len(frames) + 1] = m
      BY <2>1, <3>1
    <3>3. DOMAIN frames = 1..Len(frames) /\ DOMAIN frames' = 1..(Len(frames) + 1)
      BY <2>1, <3>2
    <3>4. 1..(Len(frames) + 1) = 1..Len(frames) \cup {Len(frames) + 1}
      BY <2>1
    <3>5. Range(frames') = Range(frames) \cup {m}
      BY <3>2, <3>3, <3>4 DEF Range
    <3>. QED
      BY <2>1, <3>2, <3>5
  <2>. QED
    BY Zenon, <2>2, <2>3
<1>5. Types'
  <2>1. forced \in Nat /\ forced <= Len(frames) /\ Len(frames') \in Nat
    BY <1>4, LenProperties DEF LegacyInv, Types, DataTypes
  <2>2. forced' \in 0..Len(frames')
    BY <1>2, <1>4, <2>1
  <2>3. DataTypes'
    BY Zenon, <1>2, <1>4, <2>2 DEF LegacyInv, Types, DataTypes
  <2>. QED
    BY Zenon, <1>3, <2>3 DEF Types
<1>6. ForcedOps' = ForcedOps
  <2>1. forced \in 0..Len(frames) /\ forced' = forced
    BY Zenon, <1>2 DEF LegacyInv, Types, DataTypes
  <2>2. \A i \in 1..forced : frames'[i] = frames[i]
    BY <1>4, <2>1
  <2>. QED
    BY Zenon, <2>1, <2>2 DEF ForcedOps
<1>7. Kept'
  BY Zenon, <1>2, <1>4, <1>6 DEF LegacyInv, Kept
<1>8. Linked' = Linked /\ legacyCursor'[Linked] = c
  BY Zenon, <1>2, <1>3 DEF Linked
<1>9. ASSUME NEW o \in task'.held, o > c PROVE Accounted(o)'
  <2>1. o \in task.held /\ o \in Nat /\ task.highest \in Nat
    BY Zenon, <1>3, LegacyAssumption DEF LegacyInv, Types, TaskTypes, TaskRecord
  <2>2. Accounted(o)
    BY Zenon, <1>1, <1>9, <2>1 DEF LegacyInv, TaskInv
  <2>3. \A x \in task.page : x \in Nat
    BY Zenon, LegacyAssumption DEF LegacyInv, Types, TaskTypes, TaskRecord
  <2>4. o \in ourLog' \/ (o \in task.page \ {m} /\ o > m)
        \/ (o > m /\ \A x \in task.page \ {m} : x < o)
    <3>1. CASE o \in ourLog
      BY Zenon, <1>2, <3>1
    <3>2. CASE o \in task.page
      BY <1>1, <1>2, <2>1, <2>3, <3>2
    <3>3. CASE \A x \in task.page : x < o
      BY Zenon, <1>1, <2>1, <2>3, <3>3
    <3>. QED
      BY Zenon, <2>2, <3>1, <3>2, <3>3 DEF Accounted
  <2>. QED
    BY Zenon, <1>3, <2>4 DEF Accounted
<1>10. TaskInv'
  BY Zenon, <1>3, <1>8, <1>9 DEF TaskInv
<1>. QED
  BY Zenon, <1>5, <1>7, <1>10 DEF LegacyInv

\* Where the batch is over, what the cursor will cross got through.
LEMMA EndBatchKeeps ==
  ASSUME LegacyInv, EndBatch
  PROVE  LegacyInv'
<1>1. /\ task.at = "page" /\ UNCHANGED <<sourceLog, memory>> /\ TaskTypes
      /\ task.link \in Nat \ {0} /\ task.highest \in Nat
  BY Zenon DEF LegacyInv, Types, TaskTypes, TaskRecord, EndBatch, memory, sourceVars, diskVars
<1>2. CASE task' = AtLink(task.link + 1)
  <2>1. task.link + 1 \in Nat \ {0}
    BY <1>1
  <2>. QED
    BY Zenon, <1>1, <1>2, <2>1, MovesOnKeeps
<1>3. CASE task' = InBatch("force", {}, task.held, task.highest, task.new /\ task.page = {})
  <2>1. /\ "force" \in {"page", "force"} /\ task.at \notin {"probe", "wait"}
        /\ {} \in SUBSET PulledOps /\ task.held \in SUBSET PulledOps
        /\ (task.new /\ task.page = {}) \in BOOLEAN
    BY Zenon, <1>1 DEF TaskTypes, TaskRecord
  <2>. DEFINE more == task.new /\ task.page = {}
  <2>8. more \in BOOLEAN /\ task' = InBatch("force", {}, task.held, task.highest, more)
    BY Zenon, <1>3, <2>1
  <2>. HIDE DEF more
  <2>2. /\ TaskTypes' /\ task'.at = "force" /\ task'.link = task.link
        /\ task'.held = task.held /\ task'.highest = task.highest
    BY <1>1, <2>1, <2>8, InBatchTyped, ZenonT(30)
  <2>3. DataTypes'
    BY Zenon, <1>1 DEF LegacyInv, Types, DataTypes, memory
  <2>4. Kept'
    BY Zenon, <1>1 DEF LegacyInv, Kept, ForcedOps, memory
  <2>5. Crossed' = Crossed
    <3>1. Linked' = Linked
      BY Zenon, <2>2 DEF Linked
    <3>2. legacyCursor' = legacyCursor
      BY Zenon, <1>1 DEF memory
    <3>. QED
      BY Zenon, <2>2, <3>1, <3>2 DEF Crossed
  <2>6. Crossed \subseteq ourLog'
    <3>. SUFFICES ASSUME NEW o \in Crossed PROVE o \in ourLog
      BY Zenon, <1>1 DEF memory
    <3>1. o \in task.held /\ o > legacyCursor[Linked] /\ o <= task.highest /\ o \in Nat
          /\ legacyCursor[Linked] \in Nat
      BY Zenon, <1>1, LinkedIsPeer, LegacyAssumption
         DEF LegacyInv, Crossed, Types, TaskTypes, TaskRecord
    <3>2. Accounted(o)
      BY Zenon, <1>1, <3>1 DEF LegacyInv, TaskInv
    <3>. QED
      BY <1>1, <3>1, <3>2 DEF Accounted
  <2>7. TaskInv'
    BY Zenon, <2>2, <2>5, <2>6 DEF TaskInv
  <2>. QED
    BY Zenon, <2>2, <2>3, <2>4, <2>7 DEF LegacyInv, Types
<1>. QED
  BY Zenon, <1>2, <1>3 DEF EndBatch, Highest

\* An fsync that works forces all of the file.
LEMMA ForceBatchKeeps ==
  ASSUME LegacyInv, NEW ok \in BOOLEAN, ForceBatch(ok)
  PROVE  LegacyInv'
<1>1. /\ task.at = "force" /\ TaskTypes /\ DataTypes /\ TaskInv /\ Kept
      /\ UNCHANGED <<sourceLog, ourLog, frames, applied, legacyCursor, savedCursor,
                     passed, savedPassed>>
  BY Zenon DEF LegacyInv, Types, ForceBatch, sourceVars
<1>2. CASE ~ok
  <2>1. task.link + 1 \in Nat \ {0} /\ task' = AtLink(task.link + 1) /\ forced' = forced
    BY <1>1, <1>2 DEF ForceBatch, TaskTypes, TaskRecord
  <2>. QED
    BY Zenon, <1>1, <2>1, MovesOnKeeps DEF memory
<1>3. CASE ok
  <2>1. forced' = Len(frames) /\ task' = [task EXCEPT !.at = "apply"]
    BY Zenon, <1>3 DEF ForceBatch
  <2>2. /\ TaskTypes' /\ task'.at = "apply" /\ task'.link = task.link
        /\ task'.held = task.held /\ task'.highest = task.highest
    BY Zenon, <1>1, <2>1 DEF TaskTypes, TaskRecord
  <2>3. Len(frames) \in Nat /\ DataTypes'
    BY <1>1, <2>1, LenProperties DEF DataTypes
  <2>4. ForcedOps' = Range(frames)
    <3>1. DOMAIN frames = 1..Len(frames)
      BY <1>1 DEF DataTypes
    <3>2. ForcedOps' = {frames[i] : i \in 1..Len(frames)}
      BY Zenon, <1>1, <2>1 DEF ForcedOps
    <3>. QED
      BY Zenon, <3>1, <3>2 DEF Range
  <2>5. ForcedOps \subseteq ForcedOps' /\ ourLog = ForcedOps'
    BY Zenon, <1>1, <2>4, ForcedInLog DEF Kept, Types
  <2>6. Crossed' = Crossed
    <3>1. Linked' = Linked
      BY Zenon, <2>2 DEF Linked
    <3>. QED
      BY Zenon, <1>1, <2>2, <3>1 DEF Crossed
  <2>7. TaskInv'
    BY Zenon, <1>1, <2>2, <2>5, <2>6 DEF TaskInv
  <2>8. Kept'
    BY Zenon, <1>1, <2>5 DEF Kept
  <2>. QED
    BY Zenon, <2>2, <2>3, <2>7, <2>8 DEF LegacyInv, Types
<1>. QED
  BY Zenon, <1>2, <1>3

\* What the cursor crosses is on disk, and the store has been given it.
LEMMA ApplyBatchKeeps ==
  ASSUME LegacyInv, ApplyBatch
  PROVE  LegacyInv'
<1>1. /\ task.at = "apply" /\ TaskTypes /\ DataTypes /\ TaskInv /\ Kept
      /\ applied' = applied \cup ToApply
      /\ UNCHANGED <<sourceLog, ourLog, frames, forced, savedCursor, savedPassed>>
      /\ Linked \in LinkPeers /\ task.highest \in Nat
  BY Zenon, LinkedIsPeer
     DEF LegacyInv, Types, TaskTypes, TaskRecord, ApplyBatch, sourceVars, diskVars
<1>2. /\ legacyCursor' = [legacyCursor EXCEPT ![Linked] = task.highest]
      /\ passed' = [passed EXCEPT ![Linked] = @ \cup Crossed]
      /\ task' = [task EXCEPT !.at = "save"]
  BY Zenon DEF ApplyBatch
<1>3. TaskTypes' /\ task'.at = "save"
  BY Zenon, <1>1, <1>2 DEF TaskTypes, TaskRecord
<1>4. Crossed \subseteq PulledOps /\ Crossed \subseteq ForcedOps /\ Crossed \subseteq ToApply
  <2>1. Crossed \subseteq PulledOps /\ Crossed \subseteq ForcedOps
    BY Zenon, <1>1 DEF TaskInv, Crossed, TaskTypes, TaskRecord
  <2>2. Crossed \subseteq ourLog
    BY Zenon, <1>1, <2>1, ForcedInLog DEF Types
  <2>3. Crossed \subseteq ToApply
    BY Zenon, <2>2 DEF Crossed, ToApply
  <2>. QED
    BY Zenon, <2>1, <2>3
<1>5. DataTypes'
  BY Zenon, <1>1, <1>2, <1>4 DEF DataTypes
<1>6. TaskInv'
  BY Zenon, <1>3, BetweenBatches
<1>7. Kept'
  <2>1. ForcedOps' = ForcedOps
    BY Zenon, <1>1 DEF ForcedOps
  <2>2. ASSUME NEW s \in LinkPeers PROVE passed'[s] \subseteq ForcedOps \cap applied'
    BY Zenon, <1>1, <1>2, <1>4 DEF Kept, DataTypes
  <2>. QED
    BY Zenon, <1>1, <2>1, <2>2 DEF Kept
<1>. QED
  BY Zenon, <1>3, <1>5, <1>6, <1>7 DEF LegacyInv, Types

\* A store that stops has been given more, and nothing is crossed.
LEMMA ApplyStopsKeeps ==
  ASSUME LegacyInv, NEW o, ApplyStops(o)
  PROVE  LegacyInv'
<1>1. /\ TaskTypes /\ DataTypes /\ Kept /\ applied \subseteq applied'
      /\ task' = AtLink(task.link + 1) /\ task.link + 1 \in Nat \ {0}
      /\ UNCHANGED <<sourceLog, ourLog, frames, forced, legacyCursor, savedCursor,
                     passed, savedPassed>>
  BY DEF LegacyInv, Types, TaskTypes, TaskRecord, ApplyStops, sourceVars, diskVars
<1>2. TaskTypes' /\ task'.at \in {"pull", "probe"}
  BY Zenon, <1>1, AtLinkTyped DEF TaskTypes, TaskRecord
<1>3. DataTypes'
  BY Zenon, <1>1 DEF DataTypes
<1>4. Kept'
  BY Zenon, <1>1 DEF Kept, ForcedOps
<1>. QED
  BY Zenon, <1>2, <1>3, <1>4, BetweenBatches DEF LegacyInv, Types

\* A saved cursor crossed what the one in memory did.
LEMMA SaveKeeps ==
  ASSUME LegacyInv, NEW ok \in BOOLEAN, SaveLegacyCursor(ok)
  PROVE  LegacyInv'
<1>1. /\ task.at = "save" /\ TaskTypes /\ DataTypes /\ Kept
      /\ UNCHANGED <<sourceLog, ourLog, frames, forced, applied, legacyCursor, passed>>
      /\ Linked \in LinkPeers /\ task.link \in Nat \ {0}
  BY Zenon, LinkedIsPeer DEF LegacyInv, Types, TaskTypes, TaskRecord, SaveLegacyCursor, sourceVars
<1>2. /\ savedCursor' = [savedCursor EXCEPT ![Linked] = IF ok THEN legacyCursor[Linked] ELSE @]
      /\ savedPassed' = [savedPassed EXCEPT ![Linked] = IF ok THEN passed[Linked] ELSE @]
  BY Zenon DEF SaveLegacyCursor
<1>3. TaskTypes' /\ task'.at \in {"pull", "probe"}
  <2>1. PICK i \in Nat \ {0} : task' = AtLink(i)
    BY <1>1 DEF SaveLegacyCursor
  <2>. QED
    BY Zenon, <2>1, AtLinkTyped DEF TaskTypes, TaskRecord
<1>4. DataTypes'
  BY Zenon, <1>1, <1>2 DEF DataTypes
<1>5. Kept'
  <2>1. ForcedOps' = ForcedOps
    BY Zenon, <1>1 DEF ForcedOps
  <2>2. ASSUME NEW s \in LinkPeers PROVE savedPassed'[s] \subseteq ForcedOps
    BY Zenon, <1>1, <1>2 DEF Kept, DataTypes
  <2>. QED
    BY Zenon, <1>1, <2>1, <2>2 DEF Kept
<1>. QED
  BY Zenon, <1>3, <1>4, <1>5, BetweenBatches DEF LegacyInv, Types

\* A restart keeps the forced frames, and goes on from the saved cursors.
LEMMA RestartKeeps ==
  ASSUME LegacyInv, NEW kept, RestartPuller(kept)
  PROVE  LegacyInv'
<1>1. /\ DataTypes /\ Kept /\ kept \in forced..Len(frames)
      /\ frames' = SubSeq(frames, 1, kept) /\ forced' = kept
      /\ ourLog' = Range(frames') /\ applied' = Range(frames')
      /\ legacyCursor' = savedCursor /\ passed' = savedPassed
      /\ task' = AtLink(1) /\ UNCHANGED <<sourceLog, savedCursor, savedPassed>>
  BY Zenon DEF LegacyInv, Types, RestartPuller, sourceVars
<1>2. /\ frames \in Seq(PulledOps) /\ Len(frames) \in Nat /\ forced \in 0..Len(frames)
      /\ kept \in Nat /\ forced <= kept /\ kept <= Len(frames)
  BY <1>1, LenProperties DEF DataTypes
<1>3. /\ frames' \in Seq(PulledOps) /\ Len(frames') = kept
      /\ \A i \in 1..kept : frames'[i] = frames[i]
  BY <1>1, <1>2
<1>4. DataTypes'
  BY <1>1, <1>2, <1>3 DEF DataTypes
<1>5. TaskTypes' /\ task'.at \in {"pull", "probe"}
  BY <1>1, AtLinkTyped DEF TaskTypes, TaskRecord
<1>6. ForcedOps \subseteq ForcedOps' /\ ForcedOps' = Range(frames')
  <2>1. ForcedOps' = {frames'[i] : i \in 1..kept}
    BY Zenon, <1>1 DEF ForcedOps
  <2>2. DOMAIN frames' = 1..kept
    BY <1>3
  <2>3. ForcedOps \subseteq {frames'[i] : i \in 1..kept}
    BY <1>2, <1>3 DEF ForcedOps
  <2>. QED
    BY Zenon, <2>1, <2>2, <2>3 DEF Range
<1>7. Kept'
  BY Zenon, <1>1, <1>6 DEF Kept
<1>. QED
  BY Zenon, <1>4, <1>5, <1>7, BetweenBatches DEF LegacyInv, Types

-----------------------------------------------------------------------------
\* The steps of the pull task.
LEMMA PullStepKeeps ==
  ASSUME LegacyInv, PullStep
  PROVE  LegacyInv'
<1>1. CASE FetchFails
  <2>1. task.link + 1 \in Nat \ {0} /\ UNCHANGED <<sourceLog, memory>>
        /\ task' = AtLink(task.link + 1)
    BY <1>1 DEF LegacyInv, Types, TaskTypes, TaskRecord, FetchFails, memory, sourceVars, diskVars
  <2>. QED
    BY Zenon, <2>1, MovesOnKeeps
<1>. QED
  BY Zenon, <1>1, FetchOpsKeeps, AdmitOpKeeps, EndBatchKeeps, ForceBatchKeeps, ApplyBatchKeeps,
     ApplyStopsKeeps, SaveKeeps DEF PullStep

\* Waiting moves the task on or changes nothing of it.
LEMMA WaitStepKeeps ==
  ASSUME LegacyInv, WaitStep
  PROVE  LegacyInv'
<1>1. Resumes => LegacyInv'
  <2>1. Resumes => UNCHANGED <<sourceLog, memory>> /\ task' = AtLink(1)
    BY Zenon DEF Resumes, memory, sourceVars, diskVars
  <2>. QED
    BY <2>1, MovesOnKeeps
<1>2. ASSUME NEW due, Reprobe(due) PROVE LegacyInv'
  <2>1. Resumes \/ (UNCHANGED <<sourceLog, memory>> /\ task' = [task EXCEPT !.at = "wait"])
    BY Zenon, <1>2 DEF Reprobe, memory, sourceVars, diskVars
  <2>. QED
    BY Zenon, <1>1, <2>1, MovesOnKeeps
<1>. QED
  BY Zenon, <1>1, <1>2 DEF WaitStep, WatchAnswers, WatchErrs, IntervalEnds

\* The handlers at the sources, the sources and the registry.
LEMMA ElsewhereKeeps ==
  ASSUME LegacyInv, ParkedStep \/ OutsideStep
  PROVE  LegacyInv'
<1>1. sourceLog \in [LinkPeers -> SUBSET PulledOps]
  BY Zenon DEF LegacyInv, Types, DataTypes
<1>2. CASE ParkedStep
  <2>1. UNCHANGED <<sourceLog, task, memory>>
    BY Zenon, <1>2 DEF ParkedStep, MarkTick, ReadHead, WokenByTick, HandlerStep, SourcePublishes,
                SourceErrs, memory, sourceVars, diskVars
  <2>. QED
    BY Zenon, <1>1, <2>1, OtherStepKeeps
<1>3. ASSUME NEW s \in LinkPeers, NEW o \in PulledOps, SourceInserts(s, o)
      PROVE  LegacyInv'
  <2>1. UNCHANGED <<task, memory>> /\ sourceLog' = [sourceLog EXCEPT ![s] = @ \cup {o}]
    BY Zenon, <1>3 DEF SourceInserts, memory, diskVars
  <2>2. sourceLog' \in [LinkPeers -> SUBSET PulledOps]
    BY Zenon, <1>1, <2>1
  <2>. QED
    BY Zenon, <2>1, <2>2, OtherStepKeeps
<1>4. ASSUME NEW d, SignerLearned(d)
      PROVE  LegacyInv'
  <2>1. UNCHANGED <<sourceLog, task, memory>>
    BY Zenon, <1>4 DEF SignerLearned, memory, sourceVars, diskVars
  <2>. QED
    BY Zenon, <1>1, <2>1, OtherStepKeeps
<1>. QED
  BY Zenon, <1>2, <1>3, <1>4, RestartKeeps DEF OutsideStep

\* Any step.
LEMMA NextKeeps ==
  ASSUME LegacyInv, [LegacyNext]_legacyVars
  PROVE  LegacyInv'
<1>1. CASE UNCHANGED legacyVars
  <2>1. UNCHANGED <<sourceLog, task, memory>>
    BY Zenon, <1>1 DEF legacyVars, memory
  <2>. QED
    BY Zenon, <2>1, OtherStepKeeps DEF LegacyInv, Types, DataTypes
<1>. QED
  BY Zenon, <1>1, PullStepKeeps, WaitStepKeeps, ElsewhereKeeps DEF LegacyNext

\* For any links, operations and page size: what a source held of the keys its
\* legacy cursor crossed is in the log and the store, and what the saved cursor
\* crossed is forced to disk (sync_once_with, save_cursor, load_cursor).
THEOREM LegacyCovered == LegacySpec => []LegacyCursorCovered
<1>1. LegacyInv /\ [LegacyNext]_legacyVars => LegacyInv'
  BY Zenon, NextKeeps
<1>2. LegacyInv => LegacyCursorCovered
  BY Zenon, ForcedInLog DEF LegacyInv, Kept, LegacyCursorCovered, ForcedOps
<1>. QED
  BY <1>1, <1>2, LegacyInvInit, PTL DEF LegacySpec

-----------------------------------------------------------------------------
\* A finite set of integers has a greatest member.
LEMMA FiniteMax ==
  ASSUME NEW S \in SUBSET Int, IsFiniteSet(S), S # {}
  PROVE  \E m \in S : \A x \in S : x <= m
<1>. DEFINE Bad == {T \in SUBSET S : T # {} /\ ~\E m \in T : \A x \in T : x <= m}
<1>. SUFFICES ASSUME Bad # {} PROVE FALSE
  BY Zenon DEF Bad
<1>. DEFINE R == StrictSubsetOrdering(S)
<1>1. IsWellFoundedOn(R, FiniteSubsetsOf(S))
  BY Zenon, FS_StrictSubsetOrderingWellFounded
<1>2. FiniteSubsetsOf(S) = SUBSET S
  BY Zenon, FS_FiniteSubsetsOfFinite
<1>3. \A x, y \in SUBSET S : x \subseteq y /\ x # y => <<x, y>> \in R
  BY Zenon DEF StrictSubsetOrdering
<1>4. Bad \subseteq SUBSET S
  BY Zenon
<1>. HIDE DEF R, Bad
<1>a. IsWellFoundedOn(R, SUBSET S)
  BY Zenon, <1>1, <1>2
<1>5. PICK T \in Bad : \A U \in Bad : ~(<<U, T>> \in R)
  BY Zenon, <1>a, <1>4, WFMin
<1>. USE DEF Bad
<1>6. PICK t \in T : TRUE
  BY Zenon, <1>5
<1>7. T \ {t} \notin Bad
  BY Zenon, <1>3, <1>5, <1>6
<1>8. CASE T = {t}
  BY <1>5, <1>8
<1>9. CASE T # {t}
  <2>1. PICK m \in T \ {t} : \A x \in T \ {t} : x <= m
    BY Zenon, <1>7, <1>9, <1>5, <1>6
  <2>2. CASE t <= m
    BY Zenon, <2>1, <2>2, <1>5
  <2>3. CASE m <= t
    BY <2>1, <2>3, <1>5, <1>6
  <2>. QED
    BY <2>2, <2>3, <2>1, <1>5, <1>6
<1>. QED
  BY Zenon, <1>8, <1>9

\* The greatest of a finite set of integers.
LEMMA MaxIs ==
  ASSUME NEW S \in SUBSET Int, IsFiniteSet(S), S # {}
  PROVE  Max(S) \in S /\ \A x \in S : x <= Max(S)
  BY Zenon, FiniteMax DEF Max

Handlers == [step : {"none", "mark", "read", "sleep"}, known : Nat, seen : Nat]

WakeInv ==
  /\ sourceTick \in [LinkPeers -> Nat]
  /\ watching \in [LinkPeers -> Handlers]
  /\ DOMAIN published = LinkPeers
  /\ \A s \in LinkPeers :
       /\ published[s] \subseteq sourceLog[s]
       /\ watching[s].seen <= sourceTick[s]
       /\ watching[s].step = "sleep" /\ watching[s].seen = sourceTick[s]
            => \A o \in published[s] : ~(o > watching[s].known)

\* A step after which every handler is where it was, at its start, or gone.
LEMMA RestWakes ==
  ASSUME WakeInv, UNCHANGED <<sourceLog, sourceTick, published>>,
         watching' \in [LinkPeers -> Handlers],
         \A s \in LinkPeers : \/ watching'[s] = watching[s]
                              \/ watching'[s].step # "sleep" /\ watching'[s].seen = 0
  PROVE  WakeInv'
<1>1. \A s \in LinkPeers : 0 <= sourceTick[s]
  BY DEF WakeInv
<1>. QED
  BY Zenon, <1>1 DEF WakeInv

\* A handler's own step.
LEMMA HandlerWakes ==
  ASSUME WakeInv, NEW s \in LinkPeers, NEW step \in {"mark", "read", "sleep"},
         NEW n \in Nat, HandlerStep(s, step, n), n <= sourceTick[s],
         step = "sleep" => \A o \in published[s] : ~(o > watching[s].known)
  PROVE  WakeInv'
<1>1. /\ watching' = [watching EXCEPT ![s] = [step |-> step, known |-> watching[s].known,
                                             seen |-> n]]
      /\ UNCHANGED <<sourceLog, sourceTick, published>>
  BY Zenon DEF HandlerStep, sourceVars
<1>2. watching[s].known \in Nat
  BY Zenon DEF WakeInv, Handlers
<1>3. watching' \in [LinkPeers -> Handlers]
  BY Zenon, <1>1, <1>2 DEF WakeInv, Handlers
<1>4. /\ watching'[s].step = step /\ watching'[s].known = watching[s].known
      /\ watching'[s].seen = n
      /\ \A q \in LinkPeers \ {s} : watching'[q] = watching[q]
  BY Zenon, <1>1 DEF WakeInv
<1>. QED
  BY Zenon, <1>1, <1>3, <1>4 DEF WakeInv

\* An insertion announces nothing, a tick wakes.
LEMMA SourceWakes ==
  ASSUME WakeInv, LegacyInv, NEW s \in LinkPeers,
         \/ SourcePublishes(s) \/ SourceErrs(s)
         \/ \E o \in PulledOps : SourceInserts(s, o)
  PROVE  WakeInv'
<1>1. CASE SourcePublishes(s)
  <2>1. /\ UNCHANGED <<sourceLog, watching>>
        /\ sourceTick' = [sourceTick EXCEPT ![s] = @ + 1]
        /\ published' = [published EXCEPT ![s] = sourceLog[s]]
    BY Zenon, <1>1 DEF SourcePublishes
  <2>2. /\ sourceTick' \in [LinkPeers -> Nat] /\ sourceTick'[s] = sourceTick[s] + 1
        /\ \A q \in LinkPeers \ {s} : sourceTick'[q] = sourceTick[q]
    BY <2>1 DEF WakeInv
  <2>3. watching[s].seen \in Nat /\ sourceTick[s] \in Nat /\ watching[s].seen <= sourceTick[s]
    BY Zenon DEF WakeInv, Handlers
  <2>4. watching[s].seen <= sourceTick'[s] /\ watching[s].seen # sourceTick'[s]
    BY <2>2, <2>3
  <2>5. /\ DOMAIN published' = LinkPeers /\ published'[s] = sourceLog[s]
        /\ \A q \in LinkPeers \ {s} : published'[q] = published[q]
    BY Zenon, <2>1 DEF WakeInv
  <2>. QED
    BY Zenon, <2>1, <2>2, <2>4, <2>5 DEF WakeInv
<1>2. ASSUME NEW o \in PulledOps, SourceInserts(s, o)
      PROVE  WakeInv'
  <2>1. /\ UNCHANGED <<sourceTick, published, watching>>
        /\ sourceLog' = [sourceLog EXCEPT ![s] = @ \cup {o}]
    BY Zenon, <1>2 DEF SourceInserts
  <2>2. \A q \in LinkPeers : sourceLog[q] \subseteq sourceLog'[q]
    BY Zenon, <2>1 DEF LegacyInv, Types, DataTypes
  <2>. QED
    BY Zenon, <2>1, <2>2 DEF WakeInv
<1>3. CASE SourceErrs(s)
  BY Zenon, <1>3, RestWakes DEF SourceErrs, WakeInv
<1>. QED
  BY Zenon, <1>1, <1>2, <1>3

\* A source whose head is not past a key has nothing past it.
LEMMA HeadBounds ==
  ASSUME LegacyInv, NEW s \in LinkPeers, NEW n \in Nat, ~(HeadOf(s) > n)
  PROVE  \A o \in sourceLog[s] : ~(o > n)
<1>. DEFINE S == {0} \cup sourceLog[s]
<1>1. sourceLog[s] \subseteq PulledOps
  BY Zenon DEF LegacyInv, Types, DataTypes
<1>2. S \in SUBSET Int /\ S # {}
  <2>1. \A x \in PulledOps : x \in Nat
    BY Zenon, LegacyAssumption
  <2>2. 0 \in Int /\ \A x \in Nat : x \in Int
    OBVIOUS
  <2>. QED
    BY Zenon, <1>1, <2>1, <2>2
<1>3. IsFiniteSet(S)
  BY Zenon, <1>1, LegacyAssumption, FS_Subset, FS_Singleton, FS_Union
<1>. HIDE DEF S
<1>4. Max(S) \in S /\ \A x \in S : x <= Max(S)
  BY Zenon, <1>2, <1>3, MaxIs
<1>5. ~(Max(S) > n)
  BY Zenon DEF HeadOf, S
<1>6. ASSUME NEW x \in S PROVE ~(x > n)
  <2>1. x \in Int /\ Max(S) \in Int /\ x <= Max(S)
    BY Zenon, <1>2, <1>4
  <2>2. \A y, m \in Int : y <= m /\ ~(m > n) => ~(y > n)
    OBVIOUS
  <2>. QED
    BY Zenon, <1>5, <2>1, <2>2
<1>. QED
  BY Zenon, <1>6 DEF S

\* The daemon starts its watches afresh or drops them.
LEMMA WaitWakes ==
  ASSUME LegacyInv, WakeInv, WaitStep \/ \E kept \in 0..Len(frames) : RestartPuller(kept)
  PROVE  WakeInv'
<1>1. NotWatching \in Handlers /\ NotWatching.step # "sleep" /\ NotWatching.seen = 0
  BY Zenon DEF NotWatching, Handlers
<1>2. ASSUME watching' = [s \in LinkPeers |-> NotWatching],
             UNCHANGED <<sourceLog, sourceTick, published>>
      PROVE  WakeInv'
  <2>1. \A s \in LinkPeers : watching'[s] = NotWatching
    BY Zenon, <1>2
  <2>2. watching' \in [LinkPeers -> Handlers]
    BY Zenon, <1>1, <1>2
  <2>. QED
    BY Zenon, <1>1, <1>2, <2>1, <2>2, RestWakes
<1>3. Resumes => WakeInv'
  BY Zenon, <1>2 DEF Resumes, sourceVars
<1>4. ASSUME NEW due, Reprobe(due), ~Resumes PROVE WakeInv'
  <2>. DEFINE Fresh(s) == [step |-> "mark", known |-> legacyCursor[s], seen |-> 0]
              capable == LinkPeers \ (pollOnly \ due)
  <2>1. /\ UNCHANGED <<sourceLog, sourceTick, published>>
        /\ watching' = [s \in LinkPeers |-> IF s \in capable THEN Fresh(s) ELSE NotWatching]
    BY Zenon, <1>4 DEF Reprobe, sourceVars
  <2>2. \A s \in LinkPeers :
          Fresh(s) \in Handlers /\ Fresh(s).step # "sleep" /\ Fresh(s).seen = 0
    BY Zenon DEF LegacyInv, Types, DataTypes, Handlers
  <2>. HIDE DEF Fresh, capable
  <2>3. \A s \in LinkPeers : watching'[s] = Fresh(s) \/ watching'[s] = NotWatching
    BY Zenon, <2>1
  <2>4. watching' \in [LinkPeers -> Handlers]
    BY Zenon, <1>1, <2>1, <2>2
  <2>. QED
    BY Zenon, <1>1, <2>1, <2>2, <2>3, <2>4, RestWakes
<1>5. ASSUME NEW kept, RestartPuller(kept) PROVE WakeInv'
  BY Zenon, <1>2, <1>5 DEF RestartPuller, sourceVars
<1>. QED
  BY Zenon, <1>3, <1>4, <1>5 DEF WaitStep, WatchAnswers, WatchErrs, IntervalEnds

\* A parked handler marks the tick before it reads the head.
LEMMA ParkedWakes ==
  ASSUME LegacyInv, WakeInv, ParkedStep
  PROVE  WakeInv'
<1>. SUFFICES ASSUME NEW s \in LinkPeers,
                     \/ MarkTick(s) \/ ReadHead(s) \/ WokenByTick(s)
                     \/ SourcePublishes(s) \/ SourceErrs(s)
              PROVE  WakeInv'
  BY Zenon DEF ParkedStep
<1>1. /\ sourceTick[s] \in Nat /\ sourceTick[s] <= sourceTick[s]
      /\ watching[s].seen \in Nat /\ watching[s].seen <= sourceTick[s]
      /\ watching[s].known \in Nat
  BY DEF WakeInv, Handlers
<1>2. CASE MarkTick(s)
  BY Zenon, <1>1, <1>2, HandlerWakes DEF MarkTick
<1>3. CASE ReadHead(s)
  <2>1. \A o \in published[s] : ~(o > watching[s].known)
    BY Zenon, <1>1, <1>3, HeadBounds DEF ReadHead, WakeInv
  <2>. QED
    BY Zenon, <1>1, <1>3, <2>1, HandlerWakes DEF ReadHead
<1>4. CASE WokenByTick(s)
  BY Zenon, <1>1, <1>4, HandlerWakes DEF WokenByTick
<1>. QED
  BY Zenon, <1>2, <1>3, <1>4, SourceWakes

\* Any step.
LEMMA NextWakes ==
  ASSUME LegacyInv, WakeInv, [LegacyNext]_legacyVars
  PROVE  WakeInv'
<1>1. UNCHANGED <<sourceLog, sourceTick, published, watching>> => WakeInv'
  BY Zenon, RestWakes DEF WakeInv
<1>2. CASE PullStep
  <2>1. CASE FetchOps
    BY <1>1, <2>1, Zenon DEF FetchOps, sourceVars
  <2>6. CASE FetchFails
    BY Zenon, <1>1, <2>6 DEF FetchFails, sourceVars
  <2>2. CASE EndBatch
    BY Zenon, <1>1, <2>2 DEF EndBatch, sourceVars
  <2>3. CASE ApplyBatch
    BY Zenon, <1>1, <2>3 DEF ApplyBatch, sourceVars
  <2>4. ASSUME NEW o, AdmitOp(o) \/ ApplyStops(o) PROVE WakeInv'
    BY Zenon, <1>1, <2>4 DEF AdmitOp, ApplyStops, sourceVars
  <2>5. ASSUME NEW ok, ForceBatch(ok) \/ SaveLegacyCursor(ok) PROVE WakeInv'
    BY Zenon, <1>1, <2>5 DEF ForceBatch, SaveLegacyCursor, sourceVars
  <2>. QED
    BY Zenon, <1>2, <2>1, <2>2, <2>3, <2>4, <2>5, <2>6 DEF PullStep
<1>3. CASE OutsideStep
  <2>1. ASSUME NEW d, SignerLearned(d) PROVE WakeInv'
    BY Zenon, <1>1, <2>1 DEF SignerLearned, sourceVars
  <2>. QED
    BY Zenon, <1>3, <2>1, SourceWakes, WaitWakes DEF OutsideStep
<1>4. CASE UNCHANGED legacyVars
  BY Zenon, <1>1, <1>4 DEF legacyVars
<1>. QED
  BY Zenon, <1>2, <1>3, <1>4, WaitWakes, ParkedWakes DEF LegacyNext

\* For any links and any timing of insertions and ticks: a legacy watch that
\* sleeps although its source announced an operation above its cursor is about
\* to be woken (until_head_changes).
THEOREM HeadWakes == LegacySpec => []HeadWakeupKept
<1>1. LegacyInit => WakeInv
  <2>. SUFFICES ASSUME LegacyInit PROVE WakeInv
    BY Zenon
  <2>1. NotWatching \in Handlers /\ NotWatching.step # "sleep" /\ NotWatching.seen = 0
    BY Zenon DEF NotWatching, Handlers
  <2>2. /\ sourceTick = [s \in LinkPeers |-> 0]
        /\ watching = [s \in LinkPeers |-> NotWatching]
        /\ published = [s \in LinkPeers |-> {}] /\ sourceLog = published
    BY Zenon DEF LegacyInit
  <2>. QED
    BY <2>1, <2>2 DEF WakeInv
<1>2. LegacyInv /\ [LegacyNext]_legacyVars => LegacyInv'
  BY Zenon, NextKeeps
<1>3. LegacyInv /\ WakeInv /\ [LegacyNext]_legacyVars => WakeInv'
  BY Zenon, NextWakes
<1>4. WakeInv => HeadWakeupKept
  BY Zenon DEF WakeInv, HeadWakeupKept
<1>. QED
  BY <1>1, <1>2, <1>3, <1>4, LegacyInvInit, PTL DEF LegacySpec

-----------------------------------------------------------------------------
(***************************************************************************)
(* AnswerIsCurrent and RelayWakeupKept for any callers.  An answer that a  *)
(* caller may still take carries the nonce of a call that is outstanding,  *)
(* and was read after that call began; a relay watch asleep on the tick it *)
(* marked has read a head no lower than the one announced.                 *)
(***************************************************************************)

NodeState == [version : Nat, epoch : Nat, floor : Nat, head : Nat, devices : SUBSET Callers]

DoorTypes ==
    /\ served \in NodeState
    /\ tick \in Nat /\ nonces \in Nat
    /\ announced \in Nat /\ announced <= served.head
    /\ DOMAIN outstanding = Callers
    /\ told \in [Callers -> Int]
    /\ began \in [Callers -> Nat]
    /\ \A c \in Callers : began[c] <= served.version

\* The nonces in use were all drawn.
NoncesDrawn ==
    /\ \A r \in requests : r.nonce \in Nat /\ r.nonce <= nonces
    /\ \A h \in handlers : h.request.nonce \in Nat /\ h.request.nonce <= nonces
    /\ \A a \in answers : a.signature.nonce \in Nat /\ a.signature.nonce <= nonces

\* An answer to an outstanding call was read after that call began.
AnswersInTime ==
    \A a \in answers :
        /\ a.body.version \in Nat
        /\ \A c \in Callers :
             outstanding[c] # NotCalling /\ outstanding[c].nonce = a.signature.nonce
             => a.body.version >= began[c]

ToldInTime == \A c \in Callers : told[c] # NoAnswer => told[c] >= began[c]

\* A watch that has read the state, and waits or is about to.
HasRead(h) == h.step \in {"wait", "sleep"}

\* What a watch marked and read.
WatchesMarked ==
    \A h \in handlers :
        /\ h = [request |-> h.request, step |-> h.step, seen |-> h.seen]
        /\ h.seen \in Nat /\ h.seen <= tick
        /\ HasRead(h) /\ announced > h.request.cursor.after => h.seen # tick

DoorInv == DoorTypes /\ NoncesDrawn /\ AnswersInTime /\ ToldInTime /\ WatchesMarked

-----------------------------------------------------------------------------
\* What an answer made now is: of the request's nonce and of the node's version.
LEMMA AnswerFacts ==
  /\ \A r, next :
       /\ SignedResponse(r, Body(served, r.cursor, next)).body.version = served.version
       /\ SignedResponse(r, Body(served, r.cursor, next)).signature.nonce = r.nonce
  /\ \A nonce :
       /\ BookAnswer(nonce).body.version = served.version
       /\ BookAnswer(nonce).signature.nonce = nonce
  BY Zenon DEF SignedResponse, Body, ResponseInput, BookAnswer, BookInput

\* The node answers: whatever it reads now is later than every call's beginning.
LEMMA AnsweringKeeps ==
  ASSUME DoorInv, NEW a, a.body.version = served.version,
         a.signature.nonce \in Nat, a.signature.nonce <= nonces,
         answers' = answers \cup {a},
         requests' \subseteq requests, handlers' \subseteq handlers,
         UNCHANGED <<served, tick, announced, outstanding, nonces, told, began>>
  PROVE  DoorInv'
<1>1. DoorTypes' /\ ToldInTime'
  BY Zenon DEF DoorInv, DoorTypes, ToldInTime
<1>2. NoncesDrawn'
  BY Zenon DEF DoorInv, NoncesDrawn
<1>3. AnswersInTime'
  <2>1. served.version \in Nat /\ \A c \in Callers : served.version >= began[c]
    BY Zenon DEF DoorInv, DoorTypes, NodeState
  <2>. QED
    BY Zenon, <2>1 DEF DoorInv, AnswersInTime
<1>4. WatchesMarked'
  BY Zenon DEF DoorInv, WatchesMarked, HasRead
<1>. QED
  BY Zenon, <1>1, <1>2, <1>3, <1>4 DEF DoorInv

\* A handler takes its place in the node, or moves.
LEMMA HandlingKeeps ==
  ASSUME DoorInv, NEW k,
         k = [request |-> k.request, step |-> k.step, seen |-> k.seen],
         k.request.nonce \in Nat, k.request.nonce <= nonces,
         k.seen \in Nat, k.seen <= tick,
         HasRead(k) /\ announced > k.request.cursor.after => k.seen # tick,
         handlers' \subseteq handlers \cup {k},
         requests' \subseteq requests,
         UNCHANGED <<served, answers, tick, announced, outstanding, nonces, told, began>>
  PROVE  DoorInv'
<1>1. DoorTypes' /\ ToldInTime' /\ AnswersInTime'
  BY Zenon DEF DoorInv, DoorTypes, ToldInTime, AnswersInTime
<1>2. NoncesDrawn'
  BY Zenon DEF DoorInv, NoncesDrawn
<1>3. WatchesMarked'
  BY Zenon DEF DoorInv, WatchesMarked, HasRead
<1>. QED
  BY Zenon, <1>1, <1>2, <1>3 DEF DoorInv

\* A call delivered at the door: a handler takes its nonce, or none does.
LEMMA RequestKeeps ==
  ASSUME DoorInv, NEW r \in requests, RequestArrives(r)
  PROVE  DoorInv'
<1>1. requests' \subseteq requests
  BY Zenon DEF RequestArrives, Delivered
<1>2. r.nonce \in Nat /\ r.nonce <= nonces
  BY Zenon DEF DoorInv, NoncesDrawn
<1>3. UNCHANGED <<served, tick, announced, outstanding, nonces, told, began>>
  BY Zenon DEF RequestArrives
<1>4. ASSUME answers' = answers \cup {StatusAnswer(r, served)}, handlers' = handlers
      PROVE  DoorInv'
  BY Zenon, <1>1, <1>2, <1>3, <1>4, AnsweringKeeps, AnswerFacts DEF StatusAnswer
<1>5. ASSUME NEW step \in {"page", "mark"},
             handlers' = handlers \cup {Handler(r, step)}, answers' = answers
      PROVE  DoorInv'
  <2>. DEFINE k == Handler(r, step)
  <2>1. /\ k = [request |-> k.request, step |-> k.step, seen |-> k.seen]
        /\ k.request = r /\ k.seen = 0 /\ k.step = step
    BY Zenon DEF Handler
  <2>2. ~HasRead(k) /\ 0 <= tick
    BY <2>1 DEF HasRead, DoorInv, DoorTypes
  <2>. HIDE DEF k
  <2>3. handlers' \subseteq handlers \cup {k}
    BY Zenon, <1>5 DEF k
  <2>. QED
    BY <1>1, <1>2, <1>3, <1>5, <2>1, <2>2, <2>3, HandlingKeeps
<1>6. ServeOps(r) \/ ServeHead(r) \/ ServeWatch(r)
  BY Zenon DEF RequestArrives
<1>. QED
  BY Zenon, <1>4, <1>5, <1>6 DEF ServeOps, ServeHead, ServeWatch

\* A call for the device book, which remembers no nonce.
LEMMA BookKeeps ==
  ASSUME DoorInv, NEW r \in requests, BookRequestArrives(r)
  PROVE  DoorInv'
<1>1. requests' \subseteq requests
  BY Zenon DEF BookRequestArrives, Delivered
<1>2. r.nonce \in Nat /\ r.nonce <= nonces
  BY Zenon DEF DoorInv, NoncesDrawn
<1>3. /\ answers' = answers \cup {BookAnswer(r.nonce)}
      /\ UNCHANGED <<served, handlers, tick, announced, outstanding, nonces, told, began>>
  BY Zenon DEF BookRequestArrives
<1>. QED
  BY Zenon, <1>1, <1>2, <1>3, AnsweringKeeps, AnswerFacts

\* The turns of a handler.
LEMMA TurnKeeps ==
  ASSUME DoorInv, NEW h \in handlers,
         ReadPage(h) \/ MarkSeen(h) \/ ReadState(h) \/ BeginWait(h) \/ Woken(h) \/ Expires(h)
  PROVE  DoorInv'
<1>1. /\ h = [request |-> h.request, step |-> h.step, seen |-> h.seen]
      /\ h.seen \in Nat /\ h.seen <= tick
      /\ h.request.nonce \in Nat /\ h.request.nonce <= nonces
      /\ announced \in Nat /\ served.head \in Nat /\ announced <= served.head /\ tick \in Nat
  BY Zenon DEF DoorInv, WatchesMarked, NoncesDrawn, DoorTypes, NodeState
<1>2. ASSUME NEW a, a.body.version = served.version, a.signature.nonce = h.request.nonce,
             answers' = answers \cup {a}, HandlerMoves(h, {})
      PROVE  DoorInv'
  BY Zenon, <1>1, <1>2, AnsweringKeeps DEF HandlerMoves
<1>3. ASSUME NEW k, answers' = answers, HandlerMoves(h, {k}),
             k = [request |-> h.request, step |-> k.step, seen |-> k.seen],
             k.seen \in Nat, k.seen <= tick,
             HasRead(k) /\ announced > h.request.cursor.after => k.seen # tick
      PROVE  DoorInv'
  <2>1. k.request = h.request
    BY <1>3
  <2>2. handlers' \subseteq handlers \cup {k}
    BY Zenon, <1>3 DEF HandlerMoves
  <2>3. UNCHANGED <<served, requests, tick, announced, outstanding, nonces, told, began>>
    BY Zenon, <1>3 DEF HandlerMoves
  <2>. QED
    BY Zenon, <1>1, <1>3, <2>1, <2>2, <2>3, HandlingKeeps
<1>4. CASE ReadPage(h)
  <2>. DEFINE a == SignedResponse(h.request, Body(served, h.request.cursor,
                                   Min({served.head, h.request.cursor.after + h.request.bound})))
  <2>1. a.body.version = served.version /\ a.signature.nonce = h.request.nonce
    BY Zenon, AnswerFacts
  <2>2. answers' = answers \cup {a} /\ HandlerMoves(h, {})
    BY Zenon, <1>4 DEF ReadPage
  <2>. HIDE DEF a
  <2>. QED
    BY Zenon, <1>2, <2>1, <2>2
<1>5. CASE MarkSeen(h)
  <2>1. [h EXCEPT !.step = "read", !.seen = tick]
          = [request |-> h.request, step |-> "read", seen |-> tick]
    <3>1. [h EXCEPT !.step = "read"] = [request |-> h.request, step |-> "read", seen |-> h.seen]
      BY <1>1
    <3>2. [[request |-> h.request, step |-> "read", seen |-> h.seen] EXCEPT !.seen = tick]
            = [request |-> h.request, step |-> "read", seen |-> tick]
      OBVIOUS
    <3>. QED
      BY Zenon, <3>1, <3>2
  <2>. DEFINE k == [request |-> h.request, step |-> "read", seen |-> tick]
  <2>2. answers' = answers /\ HandlerMoves(h, {k})
    BY Zenon, <1>5, <2>1 DEF MarkSeen
  <2>3. k = [request |-> h.request, step |-> k.step, seen |-> k.seen] /\ k.seen = tick
          /\ ~HasRead(k)
    BY Zenon DEF HasRead
  <2>. HIDE DEF k
  <2>. QED
    BY <1>1, <1>3, <2>2, <2>3
<1>6. CASE ReadState(h)
  <2>1. CASE answers' = answers \cup {StatusAnswer(h.request, served)} /\ HandlerMoves(h, {})
    BY Zenon, <1>2, <2>1, AnswerFacts DEF StatusAnswer
  <2>2. CASE /\ served.epoch = h.request.cursor.epoch /\ served.head = h.request.cursor.after
             /\ answers' = answers /\ HandlerMoves(h, {[h EXCEPT !.step = "wait"]})
    <3>1. [h EXCEPT !.step = "wait"] = [request |-> h.request, step |-> "wait", seen |-> h.seen]
      BY <1>1
    <3>. DEFINE k == [request |-> h.request, step |-> "wait", seen |-> h.seen]
    <3>2. answers' = answers /\ HandlerMoves(h, {k})
      BY Zenon, <2>2, <3>1
    <3>3. k = [request |-> h.request, step |-> k.step, seen |-> k.seen] /\ k.seen = h.seen
      BY Zenon
    <3>4. ~(announced > h.request.cursor.after)
      BY <1>1, <2>2
    <3>. HIDE DEF k
    <3>. QED
      BY Zenon, <1>1, <1>3, <3>2, <3>3, <3>4
  <2>. QED
    BY Zenon, <1>6, <2>1, <2>2 DEF ReadState
<1>7. CASE BeginWait(h)
  <2>1. [h EXCEPT !.step = "sleep"] = [request |-> h.request, step |-> "sleep", seen |-> h.seen]
    BY <1>1
  <2>. DEFINE k == [request |-> h.request, step |-> "sleep", seen |-> h.seen]
  <2>2. answers' = answers /\ HandlerMoves(h, {k}) /\ HasRead(h)
    BY Zenon, <1>7, <2>1 DEF BeginWait, Asleep, HasRead
  <2>3. k = [request |-> h.request, step |-> k.step, seen |-> k.seen] /\ k.seen = h.seen
    BY Zenon
  <2>. HIDE DEF k
  <2>. QED
    BY Zenon, <1>1, <1>3, <2>2, <2>3 DEF DoorInv, WatchesMarked
<1>8. CASE Woken(h)
  <2>1. [h EXCEPT !.step = "mark"] = [request |-> h.request, step |-> "mark", seen |-> h.seen]
    BY <1>1
  <2>. DEFINE k == [request |-> h.request, step |-> "mark", seen |-> h.seen]
  <2>2. answers' = answers /\ HandlerMoves(h, {k})
    BY Zenon, <1>8, <2>1 DEF Woken
  <2>3. k = [request |-> h.request, step |-> k.step, seen |-> k.seen] /\ k.seen = h.seen
          /\ ~HasRead(k)
    BY Zenon DEF HasRead
  <2>. HIDE DEF k
  <2>. QED
    BY Zenon, <1>1, <1>3, <2>2, <2>3
<1>9. CASE Expires(h)
  BY Zenon, <1>2, <1>9, AnswerFacts DEF Expires, StatusAnswer
<1>. QED
  BY Zenon, <1>4, <1>5, <1>6, <1>7, <1>8, <1>9

\* The node changes: its version grows, and its head does not fall.
LEMMA ChangeKeeps ==
  ASSUME DoorInv,
         Inserted \/ FloorRises \/ EpochRotates \/ \E c \in Callers : DeviceJoins(c)
  PROVE  DoorInv'
<1>1. UNCHANGED <<handlers, tick, announced, requests, answers, outstanding, nonces, told, began>>
  BY Zenon DEF Inserted, FloorRises, EpochRotates, DeviceJoins, Becomes
<1>2. served \in NodeState
  BY Zenon DEF DoorInv, DoorTypes
<1>3. /\ served' \in NodeState /\ served'.version = served.version + 1
      /\ served'.head >= served.head
  <2>0. ASSUME NEW state \in NodeState, Becomes(state)
        PROVE  /\ served' \in NodeState /\ served'.version = state.version + 1
               /\ served'.head = state.head
    BY <2>0 DEF Becomes, NodeState
  <2>1. CASE Inserted
    <3>. DEFINE s == [served EXCEPT !.head = @ + 1]
    <3>1. s \in NodeState /\ s.version = served.version /\ s.head >= served.head
      BY <1>2 DEF NodeState
    <3>2. Becomes(s)
      BY Zenon, <2>1 DEF Inserted
    <3>. HIDE DEF s
    <3>. QED
      BY <2>0, <3>1, <3>2
  <2>2. CASE FloorRises
    <3>. DEFINE s == [served EXCEPT !.floor = @ + 1]
    <3>1. s \in NodeState /\ s.version = served.version /\ s.head >= served.head
      BY <1>2 DEF NodeState
    <3>2. Becomes(s)
      BY Zenon, <2>2 DEF FloorRises
    <3>. HIDE DEF s
    <3>. QED
      BY <2>0, <3>1, <3>2
  <2>3. CASE EpochRotates
    <3>. DEFINE s == [served EXCEPT !.epoch = @ + 1, !.floor = 0]
    <3>. DEFINE e == [served EXCEPT !.epoch = @ + 1]
    <3>0. e \in NodeState /\ e.version = served.version /\ e.head = served.head
      BY <1>2 DEF NodeState
    <3>3. s = [e EXCEPT !.floor = 0]
      BY Zenon
    <3>. HIDE DEF e, s
    <3>1. s \in NodeState /\ s.version = served.version /\ s.head >= served.head
      BY <1>2, <3>0, <3>3 DEF NodeState
    <3>2. Becomes(s)
      BY Zenon, <2>3 DEF EpochRotates, s
    <3>. HIDE DEF s
    <3>. QED
      BY <2>0, <3>1, <3>2
  <2>4. CASE \E c \in Callers : DeviceJoins(c)
    <3>0. PICK c \in Callers : DeviceJoins(c)
      BY Zenon, <2>4
    <3>. DEFINE s == [served EXCEPT !.devices = @ \cup {c}]
    <3>1. s \in NodeState /\ s.version = served.version /\ s.head >= served.head
      BY <1>2 DEF NodeState
    <3>2. Becomes(s)
      BY Zenon, <3>0 DEF DeviceJoins
    <3>. HIDE DEF s
    <3>. QED
      BY <2>0, <3>1, <3>2
  <2>. QED
    BY Zenon, <2>1, <2>2, <2>3, <2>4
<1>4. served.version \in Nat /\ served.head \in Nat /\ served'.head \in Nat
  BY Zenon, <1>2, <1>3 DEF NodeState
<1>5. DoorTypes'
  BY <1>1, <1>3, <1>4 DEF DoorInv, DoorTypes
<1>6. NoncesDrawn' /\ AnswersInTime' /\ ToldInTime' /\ WatchesMarked'
  BY Zenon, <1>1
  DEF DoorInv, NoncesDrawn, AnswersInTime, ToldInTime, WatchesMarked, HasRead
<1>. QED
  BY Zenon, <1>5, <1>6 DEF DoorInv

\* The tick passes every tick marked.
LEMMA TickKeeps ==
  ASSUME DoorInv, PublishTick
  PROVE  DoorInv'
<1>1. /\ tick' = tick + 1 /\ tick \in Nat
      /\ announced' = served.head /\ served.head \in Nat
      /\ UNCHANGED <<served, handlers, requests, answers, outstanding, nonces, told, began>>
  BY Zenon DEF PublishTick, DoorInv, DoorTypes, NodeState
<1>2. DoorTypes' /\ NoncesDrawn' /\ AnswersInTime' /\ ToldInTime'
  BY <1>1 DEF DoorInv, DoorTypes, NoncesDrawn, AnswersInTime, ToldInTime
<1>3. WatchesMarked'
  <2>1. \A h \in handlers : h.seen \in Nat /\ h.seen <= tick
    BY Zenon DEF DoorInv, WatchesMarked
  <2>2. \A h \in handlers : h.seen <= tick' /\ h.seen # tick'
    BY <1>1, <2>1
  <2>. QED
    BY Zenon, <1>1, <2>2 DEF DoorInv, WatchesMarked
<1>. QED
  BY Zenon, <1>2, <1>3 DEF DoorInv

\* A call begins, with a nonce no answer carries.
LEMMA BeginKeeps ==
  ASSUME DoorInv, NEW c \in Callers, NEW kind \in Kinds, Begin(c, kind)
  PROVE  DoorInv'
<1>. DEFINE r == SignedRequest(c, kind)
<1>1. r.nonce = nonces + 1
  BY Zenon DEF SignedRequest, RequestInput
<1>2. /\ nonces' = nonces + 1
      /\ outstanding' = [outstanding EXCEPT ![c] = r]
      /\ requests' = requests \cup {r}
      /\ told' = [told EXCEPT ![c] = NoAnswer]
      /\ began' = [began EXCEPT ![c] = served.version]
      /\ UNCHANGED <<served, handlers, tick, announced, answers>>
  BY Zenon DEF Begin
<1>. HIDE DEF r
<1>3. nonces \in Nat /\ served.version \in Nat
  BY Zenon DEF DoorInv, DoorTypes, NodeState
<1>4. DoorTypes'
  BY <1>2, <1>3 DEF DoorInv, DoorTypes, NoAnswer
<1>5. NoncesDrawn'
  BY <1>1, <1>2, <1>3 DEF DoorInv, NoncesDrawn
<1>6. AnswersInTime'
  <2>. SUFFICES ASSUME NEW a \in answers, NEW d \in Callers, outstanding'[d] # NotCalling,
                       outstanding'[d].nonce = a.signature.nonce
                PROVE  a.body.version >= began'[d]
    BY Zenon, <1>2 DEF DoorInv, AnswersInTime
  <2>1. d # c
    BY <1>1, <1>2, <1>3 DEF DoorInv, DoorTypes, NoncesDrawn
  <2>. QED
    BY Zenon, <1>2, <2>1 DEF DoorInv, DoorTypes, AnswersInTime
<1>7. ToldInTime'
  BY Zenon, <1>2 DEF DoorInv, DoorTypes, ToldInTime
<1>8. WatchesMarked'
  BY Zenon, <1>2 DEF DoorInv, WatchesMarked, HasRead
<1>. QED
  BY Zenon, <1>4, <1>5, <1>6, <1>7, <1>8 DEF DoorInv

\* A call ends, with nothing or with an answer whose signature covers its nonce.
LEMMA EndKeeps ==
  ASSUME DoorInv, NEW c \in Callers, outstanding[c] # NotCalling, NEW result,
         CallEnds(c, result),
         \/ result = NoAnswer
         \/ \E a \in answers :
              a.signature.nonce = outstanding[c].nonce /\ result = a.body.version
  PROVE  DoorInv'
<1>1. /\ outstanding' = [outstanding EXCEPT ![c] = NotCalling]
      /\ told' = [told EXCEPT ![c] = result]
      /\ UNCHANGED <<served, handlers, tick, announced, requests, answers, nonces, began>>
  BY Zenon DEF CallEnds
<1>2. result = NoAnswer \/ (result \in Nat /\ result >= began[c])
  BY Zenon DEF DoorInv, AnswersInTime
<1>3. DoorTypes'
  BY <1>1, <1>2 DEF DoorInv, DoorTypes, NoAnswer
<1>4. NoncesDrawn' /\ WatchesMarked'
  BY Zenon, <1>1 DEF DoorInv, NoncesDrawn, WatchesMarked, HasRead
<1>5. AnswersInTime'
  BY Zenon, <1>1 DEF DoorInv, DoorTypes, AnswersInTime
<1>6. ToldInTime'
  BY Zenon, <1>1, <1>2 DEF DoorInv, DoorTypes, ToldInTime
<1>. QED
  BY Zenon, <1>3, <1>4, <1>5, <1>6 DEF DoorInv

\* At start no call is under way.
LEMMA DoorStarts == DoorInit => DoorInv
<1>. SUFFICES ASSUME DoorInit PROVE DoorInv
  BY Zenon
<1>1. PICK d \in Callers : served = [version |-> 0, epoch |-> 1, floor |-> 0, head |-> 0,
                                     devices |-> {d}]
  BY Zenon DEF DoorInit
<1>2. DoorTypes
  <2>1. served \in NodeState /\ served.version = 0
    BY Zenon, <1>1 DEF NodeState
  <2>. QED
    BY <2>1 DEF DoorInit, DoorTypes, NoAnswer
<1>3. NoncesDrawn /\ AnswersInTime /\ ToldInTime /\ WatchesMarked
  BY Zenon DEF DoorInit, NoncesDrawn, AnswersInTime, ToldInTime, WatchesMarked
<1>. QED
  BY Zenon, <1>2, <1>3 DEF DoorInv

\* Each step of the door and of its callers, in turn.
LEMMA DoorStep == DoorInv /\ [DoorNext]_doorVars => DoorInv'
<1>. SUFFICES ASSUME DoorInv, [DoorNext]_doorVars PROVE DoorInv'
  BY Zenon
<1>1. ASSUME NEW r \in requests, RequestArrives(r) \/ BookRequestArrives(r) PROVE DoorInv'
  BY Zenon, <1>1, RequestKeeps, BookKeeps
<1>2. ASSUME NEW h \in handlers,
             ReadPage(h) \/ MarkSeen(h) \/ ReadState(h) \/ BeginWait(h) \/ Woken(h) \/ Expires(h)
      PROVE  DoorInv'
  BY Zenon, <1>2, TurnKeeps
<1>3. CASE PublishTick
  BY Zenon, <1>3, TickKeeps
<1>4. CASE Inserted \/ FloorRises \/ EpochRotates \/ \E c \in Callers : DeviceJoins(c)
  BY Zenon, <1>4, ChangeKeeps
<1>5. ASSUME NEW c \in Callers, NEW kind \in Kinds, Begin(c, kind) PROVE DoorInv'
  BY Zenon, <1>5, BeginKeeps
<1>6. ASSUME NEW c \in Callers, NEW a \in answers, TakePage(c, a) PROVE DoorInv'
  <2>1. a.signature.nonce = outstanding[c].nonce
    BY <1>6 DEF TakePage, VerifiesRelay, ResponseInput
  <2>. QED
    BY Zenon, <1>6, <2>1, EndKeeps DEF TakePage
<1>7. ASSUME NEW c \in Callers, NEW a \in answers, TakeBook(c, a) PROVE DoorInv'
  <2>1. a.signature.nonce = outstanding[c].nonce
    BY <1>7 DEF TakeBook, VerifiesBook, BookInput
  <2>. QED
    BY Zenon, <1>7, <2>1, EndKeeps DEF TakeBook
<1>8. ASSUME NEW c \in Callers, CallFails(c) PROVE DoorInv'
  BY Zenon, <1>8, EndKeeps DEF CallFails
<1>9. ASSUME UNCHANGED <<served, handlers, tick, announced, requests, answers, outstanding,
                         nonces, told, began>>
      PROVE  DoorInv'
  BY Zenon, <1>9
  DEF DoorInv, DoorTypes, NoncesDrawn, AnswersInTime, ToldInTime, WatchesMarked, HasRead
<1>10. BatchErrs \/ DoorTick \/ UNCHANGED doorVars => DoorInv'
  BY Zenon, <1>9 DEF BatchErrs, DoorTick, doorVars
<1>. QED
  BY Zenon, <1>1, <1>2, <1>3, <1>4, <1>5, <1>6, <1>7, <1>8, <1>10 DEF DoorNext, NodeStep, CallerStep

\* What a call of the relay returns was read at the node after that call began, whatever the
\* network delays, repeats or hands to another call (relay.rs response signature).
THEOREM AnswersAreCurrent == DoorSpec => []AnswerIsCurrent
<1>1. DoorInv => AnswerIsCurrent
  BY Zenon DEF DoorInv, ToldInTime, AnswerIsCurrent
<1>. QED
  BY <1>1, DoorStarts, DoorStep, PTL DEF DoorSpec

\* No relay watch sleeps on what was announced before (until_relay_changes).
LEMMA RelayWakes == DoorSpec => []RelayWakeupKept
<1>1. DoorInv => RelayWakeupKept
  BY Zenon DEF DoorInv, WatchesMarked, HasRead, RelayWakeupKept
<1>. QED
  BY <1>1, DoorStarts, DoorStep, PTL DEF DoorSpec

-----------------------------------------------------------------------------
(***************************************************************************)
(* Both watches.                                                           *)
(***************************************************************************)

\* No wake-up is lost between the tick a parked watch marked and the state it
\* read, neither for a relay watch (until_relay_changes) nor for a legacy one
\* (until_head_changes), for any callers, links and operations and any batches
\* that err part way: no watch sleeps on what was announced before.
THEOREM WatchesWake == WatchesSpec => []NoWakeupLost
  BY RelayWakes, HeadWakes, PTL DEF WatchesSpec, NoWakeupLost
=============================================================================
