------------------------ MODULE RelayMeshFiles_proof ------------------------
(***************************************************************************)
(* Proofs about RelayMesh: the parts of the inductive invariant that are   *)
(* about one daemon's files.  First the types, the life of a daemon, the   *)
(* frames of a log file and the saved keys; then which frames every step   *)
(* keeps, and that a log holds nothing its file does not.                  *)
(***************************************************************************)
EXTENDS RelayMesh, SequenceTheorems, TLAPS

\* The page of a pull task that is between two calls is a page.
LEMMA NoPageType ==
  ASSUME NEW n \in Nodes
  PROVE  NoPage \in Page
<1>1. (CHOOSE m \in Nodes : TRUE) \in Nodes
  BY Zenon
<1>2. 0 \in Epochs
  BY MeshAssumption DEF Epochs
<1>. QED
  BY <1>1, <1>2 DEF NoPage, Page

\* A pull task that ends its call is back between two calls.
LEMMA EndPullType ==
  ASSUME PullType, NEW n \in Nodes, EndPull(n), UNCHANGED cursor
  PROVE  PullType'
<1>1. NoPage \in Page
  BY Zenon, NoPageType
<1>2. page' \in [Nodes -> Page]
  BY Zenon, <1>1 DEF PullType, EndPull
<1>3. pc' \in [Nodes -> {"idle", "page", "admit", "sync", "save"}]
  BY Zenon DEF PullType, EndPull
<1>4. done' \in [Nodes -> Nat]
  BY Zenon DEF PullType, EndPull
<1>. QED
  BY Zenon, <1>2, <1>3, <1>4 DEF PullType

\* The entry a pull task admits next is an operation.
LEMMA NextEntryType ==
  ASSUME TypeOK, NEW n \in Nodes, HasEntry(n)
  PROVE  NextEntry(n) \in Ops
<1>1. page[n].entries \in Seq(Ops) /\ done[n] \in Nat
  BY Zenon DEF TypeOK, PullType, Page
<1>2. done[n] < Len(page[n].entries)
  BY Zenon DEF HasEntry
<1>3. done[n] + 1 \in 1 .. Len(page[n].entries)
  BY <1>1, <1>2, LenProperties
<1>. QED
  BY <1>1, <1>3 DEF NextEntry

\* A prefix of a sequence has its type.
LEMMA PrefixType ==
  ASSUME NEW S, NEW s \in Seq(S), NEW k \in Nat, k <= Len(s)
  PROVE  SubSeq(s, 1, k) \in Seq(S)
  BY SubSeqProperties

(***************************************************************************)
(* The inductive invariant, in parts.                                      *)
(***************************************************************************)

\* A daemon has an epoch of its own exactly while it is up; it pulls, and can
\* have a poisoned writer, only in its pull loop.
Lifecycle ==
  /\ \A n \in Nodes :
       /\ mode[n] = "down" <=> epoch[n] = 0
       /\ epoch[n] <= lastEpoch
       /\ pc[n] # "idle" => mode[n] = "running"
       /\ poisoned[n] => mode[n] = "running"
       /\ \A m \in Nodes : m # n /\ epoch[m] = epoch[n] => epoch[n] = 0
  /\ \A e \in 1 .. MaxEpoch : e > lastEpoch => stream[e] = <<>>

Replaying(n) == mode[n] \in {"replaying", "rereplaying"}

\* Only the last frame can be torn, and then nothing is written after it: the
\* daemon is down, or replays and will cut it, or refuses to write.
FileFits(n) ==
  /\ synced[n] <= Len(file[n])
  /\ \A i \in 1 .. Len(file[n]) :
       file[n][i] = Torn =>
         /\ i = Len(file[n])
         /\ mode[n] \in {"down", "replaying"} \/ poisoned[n]
  /\ Replaying(n) => /\ pos[n] <= Len(file[n]) + 1
                     /\ \A i \in 1 .. pos[n] - 1 : file[n][i] # Torn

Files == \A n \in Nodes : FileFits(n)

\* The keys in memory are the saved ones and the daemon's own.
KeysSaved ==
  \A n \in Nodes : mode[n] # "down" => registry[n] = peersBin[n] \cup {n}

\* Every operation of a log has its frame in the file.
LogInFile ==
  \A n \in Nodes : \A i \in 1 .. Len(Log(n)) :
    \E k \in 1 .. Len(file[n]) : file[n][k] = Log(n)[i]

\* Every complete frame is of an operation some stream holds.
FilesCreated ==
  \A n \in Nodes : \A k \in 1 .. Len(file[n]) :
    file[n][k] # Torn =>
      \E e \in 1 .. MaxEpoch : \E i \in 1 .. Len(stream[e]) :
        stream[e][i] = file[n][k]

\* An operation is durable in a file of which m frames are synced.
Durable(f, m, o) ==
  \E k \in 1 .. m : f[k] = o /\ \A j \in 1 .. k : f[j] # Torn

\* Everything up to a cursor is durable.
Covered(s, f, m, c) ==
  /\ c.epoch = 0 => c.after = 0
  /\ c.epoch # 0 =>
       /\ c.after <= Len(s[c.epoch])
       /\ \A i \in 1 .. c.after : Durable(f, m, s[c.epoch][i])

Cursors ==
  \A n, q \in Nodes :
    /\ Covered(stream, file[n], synced[n], cursorFile[n][q])
    /\ Covered(stream, file[n], synced[n], cursor[n][q])

\* The page in flight continues its link's cursor: its entries are the next ones
\* of the stream, and the admitted ones are in the log.
PageFits(n) ==
  LET p == page[n]
      c == cursor[n][p.peer]
  IN /\ p.epoch # 0
     /\ c.epoch = 0 \/ c.epoch = p.epoch
     /\ c.after + Len(p.entries) <= Len(stream[p.epoch])
     /\ \A i \in 1 .. Len(p.entries) :
          p.entries[i] = stream[p.epoch][c.after + i]
     /\ done[n] <= Len(p.entries)
     /\ \A i \in 1 .. done[n] : \E j \in 1 .. Len(Log(n)) :
          Log(n)[j] = p.entries[i]

Pages ==
  \A n \in Nodes :
    /\ pc[n] \in {"idle", "page"} => done[n] = 0
    /\ pc[n] \in {"admit", "sync"} => ~page[n].reset
    /\ pc[n] \in {"page", "admit", "sync"} /\ ~page[n].reset => PageFits(n)

\* While no key file is lost, every frame can be verified, and the frames that a
\* replay has passed are in the log.
Replayed ==
  \A n \in Nodes : \A k \in 1 .. Len(file[n]) :
    file[n][k] # Torn =>
      /\ Author[file[n][k]] \in peersBin[n] \cup {n}
      /\ \/ mode[n] \in {"registering", "rereplaying", "running"}
         \/ mode[n] = "replaying" /\ k < pos[n]
         => \E i \in 1 .. Len(Log(n)) : Log(n)[i] = file[n][k]

\* Appending to a log keeps the type of the streams.
LEMMA PushType ==
  ASSUME TypeOK, NEW n \in Nodes, NEW o \in Ops, Push(n, o)
  PROVE  stream' \in [1 .. MaxEpoch -> Seq(Ops)]
<1>1. \A e \in 1 .. MaxEpoch : Append(stream[e], o) \in Seq(Ops)
  BY Zenon, AppendProperties DEF TypeOK, ModelType
<1>. QED
  BY <1>1, ZenonT(30) DEF TypeOK, ModelType, Push

\* Cutting the tail off a file keeps its type.
LEMMA TruncateType ==
  ASSUME TypeOK, Files, NEW n \in Nodes, Replaying(n), TruncateTail(n)
  PROVE  /\ file' \in [Nodes -> Seq(Ops \cup {Torn})]
         /\ synced' \in [Nodes -> Nat]
<1>1. SubSeq(file[n], 1, pos[n] - 1) \in Seq(Ops \cup {Torn})
  BY PrefixType DEF TypeOK, DiskType, DaemonType, Files, FileFits
<1>. QED
  BY <1>1 DEF TypeOK, DiskType, DaemonType, TruncateTail, Smaller

\* Replacing the file of one daemon keeps the type.
LEMMA FileType ==
  ASSUME TypeOK, NEW n \in Nodes, NEW s \in Seq(Ops \cup {Torn}),
         file' = [file EXCEPT ![n] = s]
  PROVE  file' \in [Nodes -> Seq(Ops \cup {Torn})]
  BY Zenon DEF TypeOK, DiskType

\* The memory of a stopped daemon has its type.
LEMMA ForgetType ==
  ASSUME TypeOK, NEW n \in Nodes, Forget(n)
  PROVE  DaemonType' /\ KeysType' /\ PullType'
<1>1. 0 \in Epochs /\ START \in Cursor
  BY MeshAssumption DEF Epochs, START, Cursor
<1>2. DaemonType'
  BY <1>1 DEF TypeOK, DaemonType, Forget, Modes
<1>3. KeysType'
  BY Zenon DEF TypeOK, KeysType, Forget
<1>4. PullType'
  BY Zenon, <1>1, NoPageType DEF TypeOK, PullType, Forget, EndPull
<1>. QED
  BY Zenon, <1>2, <1>3, <1>4

\* A page of a stream holds operations.
LEMMA RelayPageType ==
  ASSUME TypeOK, NEW q \in Nodes, NEW after \in Nat
  PROVE  RelayPage(q, after) \in Seq(Ops)
<1>1. Log(q) \in Seq(Ops)
  BY MeshAssumption DEF TypeOK, ModelType, DaemonType, Log, Epochs
<1>. QED
  BY <1>1, SubSeqProperties, MeshAssumption DEF RelayPage, Smaller

\* Every action keeps the types: the next-state relation never builds a page,
\* cursor or frame that the code could not hold.
LEMMA TypeStep ==
  ASSUME TypeOK, Files, [Next]_vars
  PROVE  TypeOK'
<1>. USE MeshAssumption DEF disk, keys, pull, memory
<1>0. CASE UNCHANGED vars
  BY Zenon, <1>0 DEF TypeOK, vars, DiskType, DaemonType, KeysType, PullType, ModelType
<1>1. ASSUME NEW n \in Nodes, StartUp(n)
      PROVE  TypeOK'
  <2>1. CASE Start(n)
    <3>1. DaemonType'
      BY <2>1 DEF TypeOK, DaemonType, Start, ModelType, Modes, Epochs
    <3>2. KeysType'
      BY <2>1 DEF TypeOK, KeysType, Start, DiskType
    <3>3. ModelType'
      BY <2>1 DEF TypeOK, ModelType, Start, Epochs
    <3>. QED
      BY Zenon, <2>1, <3>1, <3>2, <3>3 DEF TypeOK, Start, DiskType, PullType
  <2>2. CASE ReplayFrame(n)
    <3>1. file[n][pos[n]] \in Ops
      BY <2>2 DEF TypeOK, DiskType, DaemonType, ReplayFrame, AtTail
    <3>2. DaemonType'
      BY <2>2 DEF TypeOK, DaemonType, ReplayFrame
    <3>3. ModelType'
      BY Zenon, <2>2, <3>1, PushType DEF TypeOK, ModelType, ReplayFrame
    <3>. QED
      BY Zenon, <2>2, <3>2, <3>3 DEF TypeOK, ReplayFrame, DiskType, KeysType, PullType
  <2>3. CASE EndReplay(n)
    <3>1. DiskType'
      BY Zenon, <2>3, TruncateType DEF TypeOK, DiskType, EndReplay, Replaying
    <3>2. DaemonType'
      BY Zenon, <2>3 DEF TypeOK, DaemonType, EndReplay, Modes
    <3>3. KeysType'
      BY Zenon, <2>3 DEF TypeOK, KeysType, EndReplay
    <3>. QED
      BY Zenon, <2>3, <3>1, <3>2, <3>3 DEF TypeOK, EndReplay, PullType, ModelType
  <2>4. CASE ExitOnReplay(n)
    <3>1. DiskType'
      BY Zenon, <2>4, TruncateType DEF TypeOK, DiskType, ExitOnReplay, Replaying
    <3>2. DaemonType'
      BY Zenon, <2>4, ForgetType DEF TypeOK, DaemonType, ExitOnReplay
    <3>3. KeysType'
      BY Zenon, <2>4, ForgetType DEF TypeOK, KeysType, ExitOnReplay
    <3>4. PullType'
      BY Zenon, <2>4, ForgetType DEF TypeOK, PullType, ExitOnReplay
    <3>. QED
      BY Zenon, <2>4, <3>1, <3>2, <3>3, <3>4 DEF TypeOK, ExitOnReplay, ModelType
  <2>5. CASE EndRegistration(n)
    <3>1. DaemonType'
      <4>1. mode' \in [Nodes -> Modes]
        BY Zenon, <2>5 DEF TypeOK, DaemonType, EndRegistration, Modes
      <4>2. pos' \in [Nodes -> Nat \ {0}]
        BY <2>5 DEF TypeOK, DaemonType, EndRegistration
      <4>. QED
        BY Zenon, <2>5, <4>1, <4>2 DEF TypeOK, DaemonType, EndRegistration
    <3>. QED
      BY Zenon, <2>5, <3>1 DEF TypeOK, EndRegistration, DiskType, KeysType, PullType, ModelType
  <2>. QED
    BY Zenon, <1>1, <2>1, <2>2, <2>3, <2>4, <2>5 DEF StartUp
<1>2. ASSUME NEW n \in Nodes, NEW q \in Nodes, Register(n, q)
      PROVE  TypeOK'
  <2>1. CASE SkipPeer(n, q)
    <3>1. KeysType'
      BY Zenon, <2>1 DEF TypeOK, KeysType, SkipPeer
    <3>2. ModelType'
      BY <2>1 DEF TypeOK, ModelType, SkipPeer, Fault
    <3>. QED
      BY Zenon, <2>1, <3>1, <3>2 DEF TypeOK, SkipPeer, DiskType, DaemonType, PullType
  <2>2. CASE RegisterPeer(n, q)
    <3>1. DiskType'
      BY <2>2 DEF TypeOK, DiskType, RegisterPeer, KeysType
    <3>2. KeysType'
      BY Zenon, <2>2 DEF TypeOK, KeysType, RegisterPeer
    <3>. QED
      BY Zenon, <2>2, <3>1, <3>2 DEF TypeOK, RegisterPeer, DaemonType, PullType, ModelType
  <2>3. CASE PeerKeyNotSaved(n, q)
    <3>1. KeysType'
      BY Zenon, <2>3 DEF TypeOK, KeysType, PeerKeyNotSaved
    <3>2. ModelType'
      BY <2>3 DEF TypeOK, ModelType, PeerKeyNotSaved, Fault
    <3>. QED
      BY Zenon, <2>3, <3>1, <3>2 DEF TypeOK, PeerKeyNotSaved, DiskType, DaemonType, PullType
  <2>4. CASE CallerNotSaved(n, q)
    <3>1. DiskType'
      BY Zenon, <2>4 DEF TypeOK, DiskType, CallerNotSaved, KeysType
    <3>2. KeysType'
      BY Zenon, <2>4 DEF TypeOK, KeysType, CallerNotSaved
    <3>3. ModelType'
      BY <2>4 DEF TypeOK, ModelType, CallerNotSaved, Fault
    <3>. QED
      BY Zenon, <2>4, <3>1, <3>2, <3>3 DEF TypeOK, CallerNotSaved, DaemonType, PullType
  <2>5. CASE LearnDevices(n, q)
    <3>1. DiskType'
      BY Zenon, <2>5 DEF TypeOK, DiskType, LearnDevices, KeysType
    <3>2. KeysType'
      BY Zenon, <2>5 DEF TypeOK, KeysType, LearnDevices, OpenLink
    <3>3. PullType'
      BY Zenon, <2>5 DEF TypeOK, PullType, LearnDevices, OpenLink, DiskType
    <3>. QED
      BY Zenon, <2>5, <3>1, <3>2, <3>3 DEF TypeOK, LearnDevices, DaemonType, ModelType
  <2>6. CASE LearnNothing(n, q)
    <3>1. KeysType'
      BY Zenon, <2>6 DEF TypeOK, KeysType, LearnNothing, OpenLink
    <3>2. PullType'
      BY Zenon, <2>6 DEF TypeOK, PullType, LearnNothing, OpenLink, DiskType
    <3>3. ModelType'
      BY <2>6 DEF TypeOK, ModelType, LearnNothing, Fault
    <3>. QED
      BY Zenon, <2>6, <3>1, <3>2, <3>3 DEF TypeOK, LearnNothing, DiskType, DaemonType
  <2>. QED
    BY Zenon, <1>2, <2>1, <2>2, <2>3, <2>4, <2>5, <2>6 DEF Register
<1>3. ASSUME NEW n \in Nodes, NEW q \in Nodes, GetRelayOps(n, q)
      PROVE  TypeOK'
  <2>1. cursor[n][q].after \in Nat /\ epoch[q] \in Epochs
    BY Zenon DEF TypeOK, PullType, DaemonType, Cursor
  <2>2. RelayPage(q, cursor[n][q].after) \in Seq(Ops)
    BY Zenon, <2>1, RelayPageType
  <2>3. page' \in [Nodes -> Page]
    BY <1>3, <2>1, <2>2, SMTT(30) DEF TypeOK, PullType, GetRelayOps, Page, NeedsReset
  <2>4. PullType'
    BY Zenon, <1>3, <2>3 DEF TypeOK, PullType, GetRelayOps
  <2>. QED
    BY Zenon, <1>3, <2>4 DEF TypeOK, GetRelayOps, DiskType, DaemonType, KeysType, ModelType
<1>4. ASSUME NEW n \in Nodes, PullStep(n)
      PROVE  TypeOK'
  <2>0. page[n].peer \in Nodes /\ page[n].epoch \in Epochs /\ page[n].entries \in Seq(Ops)
    BY Zenon DEF TypeOK, PullType, Page
  <2>1. CASE ResetCursor(n)
    <3>1. [epoch |-> page[n].epoch, after |-> 0] \in Cursor
      BY Zenon, <2>0 DEF Cursor
    <3>2. PullType'
      BY Zenon, <2>1, <2>0, <3>1 DEF TypeOK, PullType, ResetCursor
    <3>. QED
      BY Zenon, <2>1, <3>2 DEF TypeOK, ResetCursor, DiskType, DaemonType, KeysType, ModelType
  <2>2. CASE LockLog(n)
    <3>1. PullType'
      BY Zenon, <2>2 DEF TypeOK, PullType, LockLog
    <3>. QED
      BY Zenon, <2>2, <3>1 DEF TypeOK, LockLog, DiskType, DaemonType, KeysType, ModelType
  <2>3. CASE AdmitEntry(n)
    <3>1. NextEntry(n) \in Ops
      BY <2>0, <2>3, SMTT(30) DEF TypeOK, PullType, AdmitEntry, HasEntry, NextEntry
    <3>2. Append(file[n], NextEntry(n)) \in Seq(Ops \cup {Torn})
      BY Zenon, <3>1, AppendProperties DEF TypeOK, DiskType
    <3>3. DiskType'
      <4>1. file' \in [Nodes -> Seq(Ops \cup {Torn})]
        <5>1. CASE IsNew(n, NextEntry(n))
          BY <2>3, <3>2, <5>1, FileType, ZenonT(30) DEF AdmitEntry
        <5>2. CASE ~IsNew(n, NextEntry(n))
          BY Zenon, <2>3, <5>2 DEF AdmitEntry, TypeOK, DiskType
        <5>. QED
          BY Zenon, <5>1, <5>2
      <4>. QED
        BY Zenon, <2>3, <4>1 DEF TypeOK, DiskType, AdmitEntry
    <3>4. PullType'
      BY <2>3, SMTT(30) DEF TypeOK, PullType, AdmitEntry
    <3>5. ModelType'
      BY Zenon, <2>3, <3>1, PushType DEF TypeOK, ModelType, AdmitEntry
    <3>. QED
      BY Zenon, <2>3, <3>3, <3>4, <3>5 DEF TypeOK, AdmitEntry, DaemonType, KeysType
  <2>4. CASE UnlockLog(n)
    <3>1. PullType'
      BY Zenon, <2>4 DEF TypeOK, PullType, UnlockLog
    <3>2. ModelType'
      BY <2>4 DEF TypeOK, ModelType, UnlockLog, Fault
    <3>. QED
      BY Zenon, <2>4, <3>1, <3>2 DEF TypeOK, UnlockLog, DiskType, DaemonType, KeysType
  <2>5. CASE PoisonWriter(n)
    <3>1. Append(file[n], Torn) \in Seq(Ops \cup {Torn})
      BY Zenon, AppendProperties DEF TypeOK, DiskType
    <3>2. DiskType'
      <4>1. file' \in [Nodes -> Seq(Ops \cup {Torn})]
        <5>1. CASE file' = [file EXCEPT ![n] = Append(file[n], Torn)]
          BY <3>1, <5>1, FileType, ZenonT(30)
        <5>2. CASE UNCHANGED file
          BY Zenon, <5>2 DEF TypeOK, DiskType
        <5>. QED
          BY Zenon, <2>5, <5>1, <5>2 DEF PoisonWriter
      <4>. QED
        BY Zenon, <2>5, <4>1 DEF TypeOK, DiskType, PoisonWriter
    <3>3. DaemonType'
      BY Zenon, <2>5 DEF TypeOK, DaemonType, PoisonWriter
    <3>4. PullType'
      BY Zenon, <2>5 DEF TypeOK, PullType, PoisonWriter
    <3>5. ModelType'
      BY <2>5 DEF TypeOK, ModelType, PoisonWriter, Fault
    <3>. QED
      BY Zenon, <2>5, <3>2, <3>3, <3>4, <3>5 DEF TypeOK, PoisonWriter, KeysType
  <2>6. CASE MoveCursor(n)
    <3>1. Len(file[n]) \in Nat
      BY Zenon, LenProperties DEF TypeOK, DiskType
    <3>2. [epoch |-> page[n].epoch,
           after |-> cursor[n][page[n].peer].after + done[n]] \in Cursor
      BY <2>0 DEF TypeOK, PullType, Cursor
    <3>3. DiskType'
      <4>1. synced' \in [Nodes -> Nat]
        <5>1. CASE done[n] > 0
          BY <2>6, <3>1, <5>1, ZenonT(30) DEF TypeOK, DiskType, MoveCursor, Fsync
        <5>2. CASE ~(done[n] > 0)
          BY Zenon, <2>6, <5>2 DEF TypeOK, DiskType, MoveCursor
        <5>. QED
          BY Zenon, <5>1, <5>2
      <4>. QED
        BY Zenon, <2>6, <4>1 DEF TypeOK, DiskType, MoveCursor
    <3>4. PullType'
      <4>1. cursor' \in [Nodes -> [Nodes -> Cursor]]
        BY Zenon, <2>6, <2>0, <3>2 DEF TypeOK, PullType, MoveCursor
      <4>2. CASE cursor' = cursor
        <5>1. EndPull(n)
          BY Zenon, <2>6, <4>2 DEF MoveCursor
        <5>. QED
          BY Zenon, <4>1, <5>1, NoPageType DEF TypeOK, PullType, EndPull
      <4>3. CASE cursor' # cursor
        BY <2>6, <4>1, <4>3, ZenonT(30) DEF TypeOK, PullType, MoveCursor
      <4>. QED
        BY Zenon, <4>2, <4>3
    <3>. QED
      BY Zenon, <2>6, <3>3, <3>4 DEF TypeOK, MoveCursor, DaemonType, KeysType, ModelType
  <2>7. CASE ApplyFails(n)
    <3>1. Len(file[n]) \in Nat
      BY Zenon, LenProperties DEF TypeOK, DiskType
    <3>2. DiskType'
      BY Zenon, <2>7, <3>1 DEF TypeOK, DiskType, ApplyFails, Fsync
    <3>3. PullType'
      BY Zenon, <2>7, EndPullType DEF TypeOK, ApplyFails
    <3>. QED
      BY Zenon, <2>7, <3>2, <3>3 DEF TypeOK, ApplyFails, DaemonType, KeysType, ModelType
  <2>8. CASE SyncFails(n)
    <3>1. PullType'
      BY Zenon, <2>8, EndPullType DEF TypeOK, SyncFails
    <3>2. ModelType'
      <4>1. UNCHANGED <<stream, lastEpoch>> /\ faults' = faults + 1
        BY Zenon, <2>8 DEF SyncFails, Fault
      <4>. QED
        BY <4>1 DEF TypeOK, ModelType
    <3>. QED
      BY Zenon, <2>8, <3>1, <3>2 DEF TypeOK, SyncFails, DiskType, DaemonType, KeysType
  <2>9. CASE SaveCursor(n)
    <3>1. DiskType'
      BY Zenon, <2>9, <2>0 DEF TypeOK, DiskType, SaveCursor, PullType
    <3>2. PullType'
      BY Zenon, <2>9, EndPullType DEF TypeOK, SaveCursor
    <3>. QED
      BY Zenon, <2>9, <3>1, <3>2 DEF TypeOK, SaveCursor, DaemonType, KeysType, ModelType
  <2>10. CASE SaveFails(n)
    <3>1. PullType'
      BY Zenon, <2>10, EndPullType DEF TypeOK, SaveFails
    <3>2. ModelType'
      BY <2>10 DEF TypeOK, ModelType, SaveFails, Fault
    <3>. QED
      BY Zenon, <2>10, <3>1, <3>2 DEF TypeOK, SaveFails, DiskType, DaemonType, KeysType
  <2>11. CASE LosePage(n)
    <3>1. PullType'
      BY Zenon, <2>11, EndPullType DEF TypeOK, LosePage
    <3>2. ModelType'
      BY <2>11 DEF TypeOK, ModelType, LosePage, Fault
    <3>. QED
      BY Zenon, <2>11, <3>1, <3>2 DEF TypeOK, LosePage, DiskType, DaemonType, KeysType
  <2>. QED
    BY Zenon, <1>4, <2>1, <2>2, <2>3, <2>4, <2>5, <2>6, <2>7, <2>8, <2>9, <2>10, <2>11
    DEF PullStep
<1>5. ASSUME NEW n \in Nodes, NEW o \in Ops, Commit(n, o)
      PROVE  TypeOK'
  <2>1. ModelType'
    BY Zenon, <1>5, PushType DEF TypeOK, ModelType, Commit
  <2>2. Append(file[n], o) \in Seq(Ops \cup {Torn})
    BY Zenon, AppendProperties DEF TypeOK, DiskType
  <2>3. DiskType'
    BY Zenon, <1>5, <2>2 DEF TypeOK, DiskType, Commit
  <2>. QED
    BY Zenon, <1>5, <2>1, <2>3 DEF TypeOK, Commit, DaemonType, KeysType, PullType
<1>6. ASSUME NEW n \in Nodes, Crash(n)
      PROVE  TypeOK'
  <2>1. PICK kept \in synced[n] .. Len(file[n]) :
          \/ file' = [file EXCEPT ![n] = SubSeq(@, 1, kept)]
          \/ file' = [file EXCEPT ![n] = Append(SubSeq(@, 1, kept), Torn)]
    BY Zenon, <1>6 DEF Crash
  <2>2. SubSeq(file[n], 1, kept) \in Seq(Ops \cup {Torn})
    BY <2>1, PrefixType DEF TypeOK, DiskType
  <2>3. Append(SubSeq(file[n], 1, kept), Torn) \in Seq(Ops \cup {Torn})
    BY Zenon, <2>2, AppendProperties
  <2>4. DiskType'
    <3>1. file' \in [Nodes -> Seq(Ops \cup {Torn})]
      <4>1. CASE file' = [file EXCEPT ![n] = SubSeq(@, 1, kept)]
        BY <2>2, <4>1, FileType, ZenonT(30)
      <4>2. CASE file' = [file EXCEPT ![n] = Append(SubSeq(@, 1, kept), Torn)]
        BY <2>3, <4>2, FileType, ZenonT(30)
      <4>. QED
        BY Zenon, <2>1, <4>1, <4>2
    <3>. QED
      BY Zenon, <1>6, <3>1 DEF TypeOK, DiskType, Crash
  <2>5. DaemonType'
    BY Zenon, <1>6, ForgetType DEF TypeOK, DaemonType, Crash
  <2>6. KeysType'
    BY Zenon, <1>6, ForgetType DEF TypeOK, KeysType, Crash
  <2>7. PullType'
    BY Zenon, <1>6, ForgetType DEF TypeOK, PullType, Crash
  <2>8. ModelType'
    BY <1>6, SMTT(30) DEF TypeOK, ModelType, Crash, Fault
  <2>. QED
    BY Zenon, <2>4, <2>5, <2>6, <2>7, <2>8 DEF TypeOK
<1>7. ASSUME NEW n \in Nodes, LosePeersBin(n)
      PROVE  TypeOK'
  <2>1. DiskType'
    BY Zenon, <1>7 DEF TypeOK, DiskType, LosePeersBin
  <2>2. ModelType'
    BY <1>7 DEF TypeOK, ModelType, LosePeersBin, Fault
  <2>. QED
    BY Zenon, <1>7, <2>1, <2>2 DEF TypeOK, LosePeersBin, DaemonType, KeysType, PullType
<1>. QED
  BY Zenon, <1>0, <1>1, <1>2, <1>3, <1>4, <1>5, <1>6, <1>7 DEF Next

(***************************************************************************)
(* What a step leaves alone.                                               *)
(***************************************************************************)

\* Registration touches keys, links and the cursor of the link it opens.
LEMMA RegisterFrame ==
  ASSUME NEW n \in Nodes, NEW q \in Nodes, Register(n, q)
  PROVE  /\ UNCHANGED <<file, synced, cursorFile, mode, epoch, pos, poisoned,
                        pc, page, done, stream, lastEpoch>>
         /\ mode[n] = "registering"
         /\ UNCHANGED cursor \/ cursor' = [cursor EXCEPT ![n][q] = cursorFile[n][q]]
  BY Zenon DEF Register, SkipPeer, RegisterPeer, PeerKeyNotSaved, CallerNotSaved,
         LearnDevices, LearnNothing, OpenLink, disk, pull

\* The pull task touches no key, no mode, no epoch, and no other daemon's task.
LEMMA PullFrame ==
  ASSUME NEW n \in Nodes, PullStep(n)
  PROVE  /\ UNCHANGED <<mode, epoch, pos, registry, peersBin, lastEpoch>>
         /\ pc[n] # "idle"
  BY Zenon DEF PullStep, ResetCursor, LockLog, AdmitEntry, UnlockLog, PoisonWriter,
         MoveCursor, ApplyFails, SyncFails, SaveCursor, SaveFails, LosePage,
         HasEntry, disk, keys, pull

\* An appended operation is the last of its log; other logs stay.
LEMMA PushEffect ==
  ASSUME TypeOK, NEW n \in Nodes, NEW o \in Ops, epoch[n] # 0, Push(n, o)
  PROVE  /\ epoch[n] \in 1 .. MaxEpoch
         /\ Len(stream'[epoch[n]]) = Len(stream[epoch[n]]) + 1
         /\ \A i \in 1 .. Len(stream[epoch[n]]) :
              stream'[epoch[n]][i] = stream[epoch[n]][i]
         /\ stream'[epoch[n]][Len(stream[epoch[n]]) + 1] = o
         /\ \A e \in 1 .. MaxEpoch : e # epoch[n] => stream'[e] = stream[e]
<1>1. epoch[n] \in 1 .. MaxEpoch
  BY MeshAssumption DEF TypeOK, DaemonType, Epochs
<1>2. stream[epoch[n]] \in Seq(Ops)
  BY Zenon, <1>1 DEF TypeOK, ModelType
<1>3. stream'[epoch[n]] = Append(stream[epoch[n]], o)
  BY Zenon, <1>1 DEF TypeOK, ModelType, Push
<1>4. \A e \in 1 .. MaxEpoch : e # epoch[n] => stream'[e] = stream[e]
  BY Zenon, <1>1 DEF TypeOK, ModelType, Push
<1>5. /\ Len(stream'[epoch[n]]) = Len(stream[epoch[n]]) + 1
      /\ \A i \in 1 .. Len(stream[epoch[n]]) :
           stream'[epoch[n]][i] = stream[epoch[n]][i]
      /\ stream'[epoch[n]][Len(stream[epoch[n]]) + 1] = o
  <2>. DEFINE t == stream[epoch[n]]
  <2>1. t \in Seq(Ops) /\ stream'[epoch[n]] = Append(t, o)
    BY Zenon, <1>2, <1>3
  <2>. HIDE DEF t
  <2>2. /\ Len(Append(t, o)) = Len(t) + 1 /\ Append(t, o)[Len(t) + 1] = o
        /\ \A i \in 1 .. Len(t) : Append(t, o)[i] = t[i]
    BY <2>1, AppendProperties
  <2>. QED
    BY <2>1, <2>2, Zenon DEF t
<1>. QED
  BY Zenon, <1>1, <1>4, <1>5

\* The frame a replaying daemon has reached, unless torn, is an operation.
LEMMA FrameAtPos ==
  ASSUME TypeOK, NEW n \in Nodes,
         pos[n] <= Len(file[n]), file[n][pos[n]] # Torn
  PROVE  file[n][pos[n]] \in Ops
<1>. DEFINE f == file[n]
            i == pos[n]
<1>1. f \in Seq(Ops \cup {Torn}) /\ i \in Nat \ {0}
  BY Zenon DEF TypeOK, DiskType, DaemonType
<1>2. i <= Len(f) /\ f[i] # Torn
  BY Zenon
<1>. HIDE DEF f, i
<1>3. Len(f) \in Nat
  BY Zenon, <1>1, LenProperties
<1>4. i \in 1 .. Len(f)
  BY <1>1, <1>2, <1>3
<1>5. f[i] \in Ops \cup {Torn}
  BY Zenon, <1>1, <1>4, ElementOfSeq
<1>6. f[i] \in Ops
  BY <1>2, <1>5, Zenon
<1>. QED
  BY Zenon, <1>6 DEF f, i

\* What a step does to the streams: nothing, or one operation more for a daemon
\* that is up.
LEMMA StreamEffect ==
  ASSUME TypeOK, Lifecycle, [Next]_vars
  PROVE  \/ UNCHANGED stream
         \/ \E n \in Nodes, o \in Ops : epoch[n] # 0 /\ Push(n, o)
<1>. USE DEF disk, keys, pull, memory
<1>0. CASE UNCHANGED vars
  BY Zenon, <1>0 DEF vars
<1>1. ASSUME NEW n \in Nodes, ReplayFrame(n)
      PROVE  UNCHANGED stream \/ \E o \in Ops : epoch[n] # 0 /\ Push(n, o)
  <2>1. file[n][pos[n]] \in Ops
    <3>1. pos[n] <= Len(file[n]) /\ file[n][pos[n]] # Torn
      BY <1>1, Zenon DEF ReplayFrame, AtTail
    <3>. QED
      BY <3>1, FrameAtPos, Zenon
  <2>2. epoch[n] # 0
    BY Zenon, <1>1 DEF Lifecycle, ReplayFrame
  <2>. QED
    BY <1>1, <2>1, <2>2, ZenonT(30) DEF ReplayFrame
<1>2. ASSUME NEW n \in Nodes, AdmitEntry(n)
      PROVE  UNCHANGED stream \/ \E o \in Ops : epoch[n] # 0 /\ Push(n, o)
  <2>1. NextEntry(n) \in Ops
    BY Zenon, <1>2, NextEntryType DEF AdmitEntry
  <2>2. epoch[n] # 0
    BY Zenon, <1>2 DEF Lifecycle, AdmitEntry, HasEntry
  <2>. QED
    BY Zenon, <1>2, <2>1, <2>2 DEF AdmitEntry
<1>3. ASSUME NEW n \in Nodes, NEW o \in Ops, Commit(n, o)
      PROVE  epoch[n] # 0 /\ Push(n, o)
  BY Zenon, <1>3 DEF Lifecycle, Commit
<1>4. ASSUME NEW n \in Nodes,
             \/ Start(n) \/ EndReplay(n) \/ ExitOnReplay(n) \/ EndRegistration(n)
             \/ \E q \in Nodes : GetRelayOps(n, q)
             \/ Crash(n) \/ LosePeersBin(n)
      PROVE  UNCHANGED stream
  BY <1>4, ZenonT(30) DEF Start, EndReplay, ExitOnReplay, EndRegistration, GetRelayOps,
     Crash, LosePeersBin
<1>5. ASSUME NEW n \in Nodes, PullStep(n), ~AdmitEntry(n)
      PROVE  UNCHANGED stream
  BY Zenon, <1>5 DEF PullStep, ResetCursor, LockLog, UnlockLog, PoisonWriter,
         MoveCursor, ApplyFails, SyncFails, SaveCursor, SaveFails, LosePage
<1>6. ASSUME NEW n \in Nodes, NEW q \in Nodes, Register(n, q)
      PROVE  UNCHANGED stream
  BY Zenon, <1>6, RegisterFrame
<1>. QED
  BY Zenon, <1>0, <1>1, <1>2, <1>3, <1>4, <1>5, <1>6 DEF Next, StartUp

\* Streams only grow.
LEMMA StreamGrows ==
  ASSUME TypeOK, Lifecycle, [Next]_vars, NEW e \in 1 .. MaxEpoch
  PROVE  /\ Len(stream[e]) <= Len(stream'[e])
         /\ \A i \in 1 .. Len(stream[e]) : stream'[e][i] = stream[e][i]
<1>1. CASE UNCHANGED stream
  BY <1>1 DEF TypeOK, ModelType
<1>2. ASSUME NEW n \in Nodes, NEW o \in Ops, epoch[n] # 0, Push(n, o)
      PROVE  /\ Len(stream[e]) <= Len(stream'[e])
             /\ \A i \in 1 .. Len(stream[e]) : stream'[e][i] = stream[e][i]
  BY <1>2, PushEffect, SMTT(30) DEF TypeOK, ModelType
<1>. QED
  BY Zenon, <1>1, <1>2, StreamEffect

(***************************************************************************)
(* Every step keeps the invariant, part by part.                           *)
(***************************************************************************)

\* A stopped daemon has no epoch, no pull and no poisoned writer.
LEMMA ForgetEffect ==
  ASSUME TypeOK, NEW n \in Nodes, Forget(n)
  PROVE  /\ mode'[n] = "down" /\ epoch'[n] = 0 /\ pc'[n] = "idle"
         /\ ~poisoned'[n] /\ done'[n] = 0
         /\ \A m \in Nodes \ {n} :
              /\ mode'[m] = mode[m] /\ epoch'[m] = epoch[m] /\ pc'[m] = pc[m]
              /\ poisoned'[m] = poisoned[m] /\ done'[m] = done[m]
              /\ page'[m] = page[m] /\ cursor'[m] = cursor[m]
              /\ pos'[m] = pos[m] /\ registry'[m] = registry[m]
              /\ links'[m] = links[m]
         /\ cursor'[n] = [q \in Nodes |-> START]
<1>1. /\ mode'[n] = "down" /\ epoch'[n] = 0 /\ ~poisoned'[n]
      /\ \A m \in Nodes \ {n} :
           /\ mode'[m] = mode[m] /\ epoch'[m] = epoch[m]
           /\ pos'[m] = pos[m] /\ poisoned'[m] = poisoned[m]
  BY Zenon DEF TypeOK, DaemonType, Forget
<1>2. /\ pc'[n] = "idle" /\ done'[n] = 0
      /\ cursor'[n] = [q \in Nodes |-> START]
      /\ \A m \in Nodes \ {n} :
           /\ pc'[m] = pc[m] /\ done'[m] = done[m]
           /\ page'[m] = page[m] /\ cursor'[m] = cursor[m]
  BY Zenon DEF TypeOK, PullType, Forget, EndPull
<1>3. \A m \in Nodes \ {n} : registry'[m] = registry[m] /\ links'[m] = links[m]
  BY Zenon DEF TypeOK, KeysType, Forget
<1>. QED
  BY <1>1, <1>2, <1>3, ZenonT(30)

\* Streams of epochs not drawn yet stay empty.
LEMMA UndrawnStep ==
  ASSUME TypeOK, TypeOK', Lifecycle, [Next]_vars, lastEpoch <= lastEpoch',
         NEW e \in 1 .. MaxEpoch, e > lastEpoch'
  PROVE  stream'[e] = <<>>
<1>1. e > lastEpoch /\ stream[e] = <<>>
  BY DEF TypeOK, ModelType, Lifecycle, Epochs
<1>2. ASSUME NEW n \in Nodes, NEW o \in Ops, epoch[n] # 0, Push(n, o)
      PROVE  stream'[e] = <<>>
  BY <1>1, <1>2, PushEffect DEF Lifecycle, TypeOK, DaemonType, ModelType, Epochs
<1>. QED
  BY Zenon, <1>1, <1>2, StreamEffect

\* Each step keeps the stages of the nodes and their tasks.
LEMMA LifecycleStep ==
  ASSUME TypeOK, TypeOK', Lifecycle, [Next]_vars
  PROVE  Lifecycle'
<1>. USE MeshAssumption DEF disk, keys, pull, memory
<1>. DEFINE Part == \A n \in Nodes :
              /\ mode[n] = "down" <=> epoch[n] = 0
              /\ epoch[n] <= lastEpoch
              /\ pc[n] # "idle" => mode[n] = "running"
              /\ poisoned[n] => mode[n] = "running"
              /\ \A m \in Nodes : m # n /\ epoch[m] = epoch[n] => epoch[n] = 0
<1>a. Part
  BY Zenon DEF Lifecycle
<1>b. SUFFICES Part' /\ lastEpoch <= lastEpoch'
  BY Zenon, UndrawnStep DEF Lifecycle
<1>0. CASE UNCHANGED <<mode, epoch, pc, poisoned, lastEpoch>>
  BY <1>0, <1>a, SMTT(30) DEF TypeOK, ModelType, Epochs
<1>1. ASSUME NEW n \in Nodes, Start(n)
      PROVE  Part' /\ lastEpoch <= lastEpoch'
  <2>1. /\ UNCHANGED <<pc, poisoned>> /\ mode[n] = "down"
        /\ mode'[n] = "replaying" /\ epoch'[n] = lastEpoch + 1
        /\ lastEpoch' = lastEpoch + 1
        /\ \A k \in Nodes \ {n} : mode'[k] = mode[k] /\ epoch'[k] = epoch[k]
    BY Zenon, <1>1 DEF Start, TypeOK, DaemonType, ModelType
  <2>2. lastEpoch \in Nat /\ \A k \in Nodes : epoch[k] \in Nat
    BY DEF TypeOK, DaemonType, ModelType, Epochs
  <2>3. lastEpoch <= lastEpoch' /\ epoch'[n] # 0 /\ epoch'[n] <= lastEpoch'
    BY <2>1, <2>2
  <2>4. \A k \in Nodes \ {n} : epoch'[k] <= lastEpoch' /\ epoch'[k] # epoch'[n]
    <3>1. \A k \in Nodes : epoch[k] <= lastEpoch
      BY Zenon, <1>a
    <3>. QED
      BY <2>1, <2>2, <3>1
  <2>. QED
    BY <1>a, <2>1, <2>3, <2>4, ZenonT(30)
<1>2. ASSUME NEW n \in Nodes, EndReplay(n) \/ EndRegistration(n)
      PROVE  Part' /\ lastEpoch <= lastEpoch'
  <2>1. /\ UNCHANGED <<epoch, pc, poisoned, lastEpoch>>
        /\ \A k \in Nodes \ {n} : mode'[k] = mode[k]
        /\ mode[n] # "down" /\ mode[n] # "running" /\ mode'[n] # "down"
    BY Zenon, <1>2 DEF EndReplay, EndRegistration, TypeOK, DaemonType
  <2>2. lastEpoch <= lastEpoch'
    BY <2>1 DEF TypeOK, ModelType, Epochs
  <2>3. Part'
    BY Zenon, <1>a, <2>1
  <2>. QED
    BY Zenon, <2>2, <2>3
<1>3. ASSUME NEW n \in Nodes, Forget(n), UNCHANGED lastEpoch
      PROVE  Part' /\ lastEpoch <= lastEpoch'
  <2>1. \A k \in Nodes \ {n} : /\ mode'[k] = mode[k] /\ epoch'[k] = epoch[k]
                              /\ pc'[k] = pc[k] /\ poisoned'[k] = poisoned[k]
    BY Zenon, <1>3, ForgetEffect
  <2>2. mode'[n] = "down" /\ epoch'[n] = 0 /\ pc'[n] = "idle" /\ ~poisoned'[n]
    BY Zenon, <1>3, ForgetEffect
  <2>3. lastEpoch' = lastEpoch /\ lastEpoch \in Nat
    BY <1>3 DEF TypeOK, ModelType, Epochs
  <2>. QED
    BY <1>a, <2>1, <2>2, <2>3, SMTT(30)
<1>4. ASSUME NEW n \in Nodes, mode[n] = "running",
             \A m \in Nodes \ {n} : pc'[m] = pc[m] /\ poisoned'[m] = poisoned[m],
             UNCHANGED <<mode, epoch, lastEpoch>>
      PROVE  Part' /\ lastEpoch <= lastEpoch'
  <2>1. lastEpoch' = lastEpoch /\ lastEpoch \in Nat
    BY <1>4 DEF TypeOK, ModelType, Epochs
  <2>. QED
    BY <1>a, <1>4, <2>1
<1>5. ASSUME NEW n \in Nodes, NEW q \in Nodes, GetRelayOps(n, q)
      PROVE  Part' /\ lastEpoch <= lastEpoch'
  BY Zenon, <1>4, <1>5 DEF GetRelayOps, TypeOK, PullType
<1>6. ASSUME NEW n \in Nodes, PullStep(n)
      PROVE  Part' /\ lastEpoch <= lastEpoch'
  <2>1. \A m \in Nodes \ {n} : pc'[m] = pc[m]
    BY <1>6, ZenonT(30) DEF PullStep, ResetCursor, LockLog, AdmitEntry, UnlockLog,
       PoisonWriter, MoveCursor, ApplyFails, SyncFails, SaveCursor, SaveFails,
       LosePage, EndPull, TypeOK, PullType
  <2>2. \A m \in Nodes \ {n} : poisoned'[m] = poisoned[m]
    BY Zenon, <1>6 DEF PullStep, ResetCursor, LockLog, AdmitEntry, UnlockLog,
       PoisonWriter, MoveCursor, ApplyFails, SyncFails, SaveCursor, SaveFails,
       LosePage, TypeOK, DaemonType
  <2>. QED
    BY Zenon, <1>4, <1>6, <1>a, <2>1, <2>2, PullFrame
<1>7. ASSUME NEW n \in Nodes, ReplayFrame(n) \/ LosePeersBin(n)
             \/ \E o \in Ops : Commit(n, o)
      PROVE  UNCHANGED <<mode, epoch, pc, poisoned, lastEpoch>>
  BY <1>7, ZenonT(30) DEF ReplayFrame, LosePeersBin, Commit
<1>8. CASE UNCHANGED vars
  BY Zenon, <1>0, <1>8 DEF vars
<1>9. ASSUME NEW n \in Nodes, ExitOnReplay(n) \/ Crash(n)
      PROVE  Forget(n) /\ UNCHANGED lastEpoch
  BY Zenon, <1>9 DEF ExitOnReplay, Crash
<1>10. ASSUME NEW n \in Nodes, NEW q \in Nodes, Register(n, q)
       PROVE  UNCHANGED <<mode, epoch, pc, poisoned, lastEpoch>>
  BY Zenon, <1>10, RegisterFrame
<1>. HIDE DEF Part
<1>. QED
  BY Zenon, <1>0, <1>1, <1>2, <1>3, <1>5, <1>6, <1>7, <1>8, <1>9, <1>10 DEF Next, StartUp

\* A frame appended to one file.
LEMMA AppendEffect ==
  ASSUME TypeOK, NEW n \in Nodes, NEW x \in Ops \cup {Torn},
         file' = [file EXCEPT ![n] = Append(@, x)]
  PROVE  /\ Len(file'[n]) = Len(file[n]) + 1
         /\ \A i \in 1 .. Len(file[n]) : file'[n][i] = file[n][i]
         /\ file'[n][Len(file[n]) + 1] = x
         /\ \A m \in Nodes \ {n} : file'[m] = file[m]
<1>1. file[n] \in Seq(Ops \cup {Torn})
  BY Zenon DEF TypeOK, DiskType
<1>2. file'[n] = Append(file[n], x) /\ \A m \in Nodes \ {n} : file'[m] = file[m]
  BY Zenon DEF TypeOK, DiskType
<1>. QED
  BY <1>1, <1>2, AppendProperties

\* A prefix of a file.
LEMMA PrefixEffect ==
  ASSUME TypeOK, NEW n \in Nodes, NEW k \in Nat, k <= Len(file[n])
  PROVE  /\ Len(SubSeq(file[n], 1, k)) = k
         /\ SubSeq(file[n], 1, k) \in Seq(Ops \cup {Torn})
         /\ \A i \in 1 .. k : SubSeq(file[n], 1, k)[i] = file[n][i]
<1>1. file[n] \in Seq(Ops \cup {Torn})
  BY Zenon DEF TypeOK, DiskType
<1>. QED
  BY <1>1, SubSeqProperties

\* Replay cuts at most the last frame, and only a torn one.
LEMMA TruncateEffect ==
  ASSUME TypeOK, Files, NEW n \in Nodes, Replaying(n), AtTail(n), TruncateTail(n)
  PROVE  /\ pos[n] = Len(file[n]) + 1 \/ (pos[n] = Len(file[n]) /\ file[n][pos[n]] = Torn)
         /\ Len(file'[n]) = pos[n] - 1
         /\ \A i \in 1 .. pos[n] - 1 : file'[n][i] = file[n][i]
         /\ \A i \in 1 .. pos[n] - 1 : file'[n][i] # Torn
         /\ synced'[n] = Smaller(synced[n], pos[n] - 1)
         /\ \A m \in Nodes \ {n} : file'[m] = file[m] /\ synced'[m] = synced[m]
<1>1. pos[n] - 1 \in Nat /\ pos[n] - 1 <= Len(file[n]) /\ Len(file[n]) \in Nat
  BY LenProperties DEF TypeOK, DiskType, DaemonType, Files, FileFits
<1>2. file'[n] = SubSeq(file[n], 1, pos[n] - 1)
  BY ZenonT(30) DEF TypeOK, DiskType, TruncateTail
<1>3. \A m \in Nodes \ {n} : file'[m] = file[m] /\ synced'[m] = synced[m]
  BY Zenon DEF TypeOK, DiskType, TruncateTail
<1>4. synced'[n] = Smaller(synced[n], pos[n] - 1)
  BY Zenon DEF TypeOK, DiskType, TruncateTail
<1>5. pos[n] = Len(file[n]) + 1 \/ (pos[n] = Len(file[n]) /\ file[n][pos[n]] = Torn)
  BY <1>1 DEF AtTail, Files, FileFits, TypeOK, DaemonType
<1>6. \A i \in 1 .. pos[n] - 1 : file[n][i] # Torn
  BY Zenon DEF Files, FileFits
<1>7. /\ Len(file'[n]) = pos[n] - 1
      /\ \A i \in 1 .. pos[n] - 1 : file'[n][i] = file[n][i]
  BY Zenon, <1>1, <1>2, PrefixEffect
<1>. QED
  BY Zenon, <1>3, <1>4, <1>5, <1>6, <1>7

\* A crash keeps what was forced to disk, and leaves at most one torn frame.
LEMMA CrashEffect ==
  ASSUME TypeOK, Files, NEW n \in Nodes, Crash(n)
  PROVE  \E kept \in synced[n] .. Len(file[n]) :
           /\ \A i \in 1 .. kept : file'[n][i] = file[n][i]
           /\ \/ Len(file'[n]) = kept
              \/ /\ Len(file'[n]) = kept + 1 /\ file'[n][kept + 1] = Torn
                 /\ \A i \in 1 .. kept : file[n][i] # Torn
           /\ \A m \in Nodes \ {n} : file'[m] = file[m]
           /\ UNCHANGED synced
<1>1. PICK kept \in synced[n] .. Len(file[n]) :
        \/ file' = [file EXCEPT ![n] = SubSeq(@, 1, kept)]
        \/ /\ \A i \in 1 .. kept : file[n][i] # Torn
           /\ file' = [file EXCEPT ![n] = Append(SubSeq(@, 1, kept), Torn)]
  BY Zenon DEF Crash
<1>2. kept \in Nat /\ kept <= Len(file[n])
  BY DEF TypeOK, DiskType
<1>3. /\ Len(SubSeq(file[n], 1, kept)) = kept
      /\ SubSeq(file[n], 1, kept) \in Seq(Ops \cup {Torn})
      /\ \A i \in 1 .. kept : SubSeq(file[n], 1, kept)[i] = file[n][i]
  BY Zenon, <1>2, PrefixEffect
<1>4. CASE file' = [file EXCEPT ![n] = SubSeq(@, 1, kept)]
  <2>1. file'[n] = SubSeq(file[n], 1, kept) /\ \A m \in Nodes \ {n} : file'[m] = file[m]
    BY Zenon, <1>4 DEF TypeOK, DiskType
  <2>. QED
    BY <1>3, <2>1, ZenonT(30) DEF Crash
<1>5. CASE /\ \A i \in 1 .. kept : file[n][i] # Torn
           /\ file' = [file EXCEPT ![n] = Append(SubSeq(@, 1, kept), Torn)]
  <2>1. /\ file'[n] = Append(SubSeq(file[n], 1, kept), Torn)
        /\ \A m \in Nodes \ {n} : file'[m] = file[m]
    BY Zenon, <1>5 DEF TypeOK, DiskType
  <2>2. /\ Len(file'[n]) = kept + 1 /\ file'[n][kept + 1] = Torn
        /\ \A i \in 1 .. kept : file'[n][i] = file[n][i]
    BY <1>2, <1>3, <2>1, AppendProperties, SMTT(30)
  <2>. QED
    BY Zenon, <1>5, <2>1, <2>2 DEF Crash
<1>. QED
  BY Zenon, <1>1, <1>4, <1>5

\* What FileFits looks at, unchanged for one daemon.
SameFile(m) ==
  /\ file'[m] = file[m] /\ synced'[m] = synced[m] /\ mode'[m] = mode[m]
  /\ poisoned'[m] = poisoned[m] /\ pos'[m] = pos[m]

\* Each step keeps what is said of the files.
LEMMA FilesStep ==
  ASSUME TypeOK, TypeOK', Lifecycle, Files, [Next]_vars
  PROVE  Files'
<1>. USE MeshAssumption DEF disk, keys, pull, memory
<1>a. ASSUME NEW m \in Nodes, SameFile(m)
      PROVE  FileFits(m)'
  BY <1>a, ZenonT(30) DEF Files, FileFits, SameFile, Replaying
<1>b. ASSUME NEW n \in Nodes, \A m \in Nodes \ {n} : SameFile(m), FileFits(n)'
      PROVE  Files'
  BY Zenon, <1>a, <1>b DEF Files
<1>c. \A n \in Nodes : Len(file[n]) \in Nat /\ synced[n] \in Nat /\ pos[n] \in Nat
  BY Zenon, LenProperties DEF TypeOK, DiskType, DaemonType
<1>d. ASSUME NEW n \in Nodes, file' = file, synced' = synced, poisoned' = poisoned,
             \A m \in Nodes \ {n} : mode'[m] = mode[m] /\ pos'[m] = pos[m],
             FileFits(n)'
      PROVE  Files'
  BY Zenon, <1>b, <1>d DEF SameFile
<1>0. CASE UNCHANGED <<file, synced, mode, poisoned, pos>>
  BY Zenon, <1>0, <1>a DEF Files, SameFile
<1>1. ASSUME NEW n \in Nodes, Start(n)
      PROVE  Files'
  <2>1. FileFits(n)'
    <3>1. pos'[n] = 1 /\ mode[n] = "down" /\ mode'[n] = "replaying"
          /\ UNCHANGED <<file, synced, poisoned>>
      BY Zenon, <1>1 DEF Start, TypeOK, DaemonType
    <3>2. 1 <= Len(file[n]) + 1 /\ \A i \in 1 .. pos'[n] - 1 : FALSE
      BY <1>c, <3>1, SMTT(30)
    <3>3. FileFits(n)
      BY Zenon DEF Files
    <3>. QED
      BY Zenon, <3>1, <3>2, <3>3 DEF FileFits
  <2>. QED
    BY Zenon, <1>1, <1>d, <2>1 DEF Start, TypeOK, DaemonType
<1>2. ASSUME NEW n \in Nodes, ReplayFrame(n)
      PROVE  Files'
  <2>1. /\ pos'[n] = pos[n] + 1 /\ mode' = mode /\ file' = file /\ synced' = synced
        /\ poisoned' = poisoned /\ Replaying(n)
    BY Zenon, <1>2 DEF ReplayFrame, Replaying, TypeOK, DaemonType
  <2>2. pos[n] <= Len(file[n]) /\ file[n][pos[n]] # Torn
    BY Zenon, <1>2, <1>c DEF ReplayFrame, AtTail
  <2>3. FileFits(n)'
    BY <1>c, <2>1, <2>2, SMTT(30) DEF Files, FileFits, Replaying
  <2>. QED
    BY Zenon, <1>2, <1>d, <2>3 DEF ReplayFrame, TypeOK, DaemonType
<1>3. ASSUME NEW n \in Nodes, EndReplay(n) \/ ExitOnReplay(n)
      PROVE  Files'
  <2>1. Replaying(n) /\ AtTail(n) /\ TruncateTail(n)
    BY Zenon, <1>3 DEF EndReplay, ExitOnReplay, Replaying
  <2>2. mode'[n] \notin {"replaying", "rereplaying"}
    BY <1>3, ForgetEffect, ZenonT(30) DEF EndReplay, ExitOnReplay, TypeOK, DaemonType
  <2>3. FileFits(n)'
    <3>1. /\ Len(file'[n]) = pos[n] - 1
          /\ \A i \in 1 .. pos[n] - 1 : file'[n][i] # Torn
          /\ synced'[n] = Smaller(synced[n], pos[n] - 1)
      BY Zenon, <2>1, TruncateEffect
    <3>2. synced'[n] <= Len(file'[n])
      BY <1>c, <3>1, SMTT(30) DEF Smaller
    <3>. QED
      BY <2>2, <3>1, <3>2, ZenonT(30) DEF FileFits, Replaying
  <2>4. \A m \in Nodes \ {n} : mode'[m] = mode[m] /\ poisoned'[m] = poisoned[m]
                                /\ pos'[m] = pos[m]
    BY <1>3, ForgetEffect, ZenonT(30) DEF EndReplay, ExitOnReplay, TypeOK, DaemonType
  <2>. QED
    BY <1>b, <2>1, <2>3, <2>4, TruncateEffect, ZenonT(30) DEF SameFile
<1>4. ASSUME NEW n \in Nodes, EndRegistration(n)
      PROVE  Files'
  <2>1. FileFits(n)'
    <3>1. pos'[n] = 1 /\ mode[n] = "registering"
          /\ UNCHANGED <<file, synced, poisoned>>
      BY Zenon, <1>4 DEF EndRegistration, TypeOK, DaemonType
    <3>. QED
      <4>1. FileFits(n)
        BY Zenon DEF Files
      <4>2. 1 <= Len(file[n]) + 1 /\ 1 .. 0 = {} /\ 1 - 1 = 0
        BY <1>c
      <4>3. \A i \in 1 .. pos'[n] - 1 : FALSE
        BY <3>1
      <4>. QED
        BY Zenon, <3>1, <4>1, <4>2, <4>3 DEF FileFits, Replaying
  <2>. QED
    BY Zenon, <1>4, <1>d, <2>1 DEF EndRegistration, TypeOK, DaemonType
<1>5. ASSUME NEW n \in Nodes, NEW x \in Ops \cup {Torn}, mode[n] = "running",
             ~poisoned[n], x = Torn => poisoned'[n],
             file' = [file EXCEPT ![n] = Append(@, x)],
             UNCHANGED <<synced, mode, pos>>,
             \A m \in Nodes \ {n} : poisoned'[m] = poisoned[m]
      PROVE  Files'
  <2>1. FileFits(n)'
    <3>1. /\ Len(file'[n]) = Len(file[n]) + 1
          /\ \A i \in 1 .. Len(file[n]) : file'[n][i] = file[n][i]
          /\ file'[n][Len(file[n]) + 1] = x
      BY <1>5, AppendEffect, ZenonT(30)
    <3>2. synced[n] <= Len(file[n]) /\ \A i \in 1 .. Len(file[n]) : file[n][i] # Torn
      BY Zenon, <1>5 DEF Files, FileFits
    <3>3. synced'[n] <= Len(file'[n])
      <4>1. synced'[n] = synced[n]
        BY Zenon, <1>5
      <4>. QED
        BY <1>c, <3>1, <3>2, <4>1, SMTT(30)
    <3>4. ASSUME NEW i \in 1 .. Len(file'[n]), file'[n][i] = Torn
          PROVE  i = Len(file'[n]) /\ poisoned'[n]
      <4>1. i \in 1 .. Len(file[n]) \/ i = Len(file[n]) + 1
        BY <1>c, <3>1, SMTT(30)
      <4>. QED
        BY Zenon, <1>5, <3>1, <3>2, <3>4, <4>1
    <3>. QED
      BY Zenon, <1>5, <3>3, <3>4 DEF FileFits, Replaying
  <2>. QED
    BY Zenon, <1>b, <1>5, <2>1, AppendEffect DEF SameFile
<1>6. ASSUME NEW n \in Nodes, AdmitEntry(n)
      PROVE  Files'
  <2>1. CASE IsNew(n, NextEntry(n))
    <3>1. NextEntry(n) \in Ops
      BY Zenon, <1>6, NextEntryType DEF AdmitEntry
    <3>2. mode[n] = "running"
      BY Zenon, <1>6 DEF Lifecycle, AdmitEntry, HasEntry
    <3>. QED
      BY Zenon, <1>5, <1>6, <2>1, <3>1, <3>2 DEF AdmitEntry
  <2>2. CASE ~IsNew(n, NextEntry(n))
    BY Zenon, <1>0, <1>6, <2>2 DEF AdmitEntry
  <2>. QED
    BY Zenon, <2>1, <2>2
<1>7. ASSUME NEW n \in Nodes, PoisonWriter(n)
      PROVE  Files'
  <2>1. mode[n] = "running" /\ poisoned'[n] /\ ~poisoned[n]
    BY Zenon, <1>7 DEF Lifecycle, PoisonWriter, HasEntry, TypeOK, DaemonType
  <2>2. \A m \in Nodes \ {n} : poisoned'[m] = poisoned[m]
    BY Zenon, <1>7 DEF PoisonWriter, TypeOK, DaemonType
  <2>3. CASE file' = [file EXCEPT ![n] = Append(@, Torn)]
    BY <1>5, <1>7, <2>1, <2>2, <2>3, ZenonT(30) DEF PoisonWriter
  <2>4. CASE UNCHANGED file
    <3>1. FileFits(n)'
      BY Zenon, <1>7, <2>1, <2>4 DEF PoisonWriter, Files, FileFits, Replaying
    <3>. QED
      BY <1>b, <1>7, <2>2, <2>4, <3>1, ZenonT(30) DEF PoisonWriter, SameFile
  <2>. QED
    BY Zenon, <1>7, <2>3, <2>4 DEF PoisonWriter
<1>8. ASSUME NEW n \in Nodes, MoveCursor(n) \/ ApplyFails(n)
      PROVE  Files'
  <2>1. UNCHANGED synced \/ Fsync(n)
    BY Zenon, <1>8 DEF MoveCursor, ApplyFails
  <2>2. UNCHANGED <<file, mode, poisoned, pos>>
    BY Zenon, <1>8 DEF MoveCursor, ApplyFails
  <2>3. CASE Fsync(n)
    <3>1. FileFits(n)'
      <4>1. synced'[n] <= Len(file'[n])
        BY <1>c, <2>2, <2>3 DEF Fsync, TypeOK, DiskType
      <4>2. FileFits(n)
        BY Zenon DEF Files
      <4>. QED
        BY Zenon, <2>2, <4>1, <4>2 DEF FileFits, Replaying
    <3>. QED
      BY Zenon, <1>b, <2>2, <2>3, <3>1 DEF Fsync, SameFile, TypeOK, DiskType
  <2>. QED
    BY Zenon, <1>0, <2>1, <2>2, <2>3
<1>9. ASSUME NEW n \in Nodes, Crash(n)
      PROVE  Files'
  <2>1. mode'[n] = "down"
    BY Zenon, <1>9, ForgetEffect DEF Crash
  <2>2. \A m \in Nodes \ {n} : mode'[m] = mode[m] /\ poisoned'[m] = poisoned[m]
                                /\ pos'[m] = pos[m]
    BY Zenon, <1>9, ForgetEffect DEF Crash
  <2>3. PICK kept \in synced[n] .. Len(file[n]) :
           /\ \A i \in 1 .. kept : file'[n][i] = file[n][i]
           /\ \/ Len(file'[n]) = kept
              \/ /\ Len(file'[n]) = kept + 1 /\ file'[n][kept + 1] = Torn
                 /\ \A i \in 1 .. kept : file[n][i] # Torn
           /\ \A m \in Nodes \ {n} : file'[m] = file[m]
           /\ UNCHANGED synced
    BY Zenon, <1>9, CrashEffect
  <2>4. FileFits(n)'
    <3>1. synced[n] <= Len(file[n]) /\ \A i \in 1 .. Len(file[n]) :
             file[n][i] = Torn => i = Len(file[n])
      BY Zenon DEF Files, FileFits
    <3>2. kept \in Nat /\ synced[n] <= kept /\ kept <= Len(file[n])
      BY <1>c
    <3>3. synced'[n] <= Len(file'[n])
      <4>1. /\ Len(file'[n]) = kept \/ Len(file'[n]) = kept + 1
            /\ synced'[n] = synced[n]
        BY Zenon, <2>3
      <4>. QED
        BY <1>c, <3>2, <4>1
    <3>4. ASSUME NEW i \in 1 .. Len(file'[n]), file'[n][i] = Torn
          PROVE  i = Len(file'[n])
      <4>1. i \in 1 .. kept \/ (i = kept + 1 /\ Len(file'[n]) = kept + 1)
        BY <2>3, <3>2
      <4>2. i \in 1 .. kept => i \in 1 .. Len(file[n]) /\ file[n][i] = Torn
        BY <1>c, <2>3, <3>2, <3>4
      <4>3. i \in 1 .. kept => i = Len(file[n]) /\ kept = Len(file[n])
        BY <1>c, <3>1, <3>2, <4>2
      <4>4. i \in 1 .. kept => Len(file'[n]) = kept
        BY Zenon, <2>3, <4>2
      <4>. QED
        BY Zenon, <4>1, <4>3, <4>4
    <3>. QED
      BY Zenon, <2>1, <3>3, <3>4 DEF FileFits, Replaying
  <2>. QED
    BY Zenon, <1>b, <2>2, <2>3, <2>4 DEF SameFile
<1>10. ASSUME NEW n \in Nodes, NEW o \in Ops, Commit(n, o)
       PROVE  Files'
  <2>1. o # Torn
    BY Zenon
  <2>. QED
    BY <1>5, <1>10, <2>1, ZenonT(30) DEF Commit
<1>11. ASSUME NEW n \in Nodes, PullStep(n), ~AdmitEntry(n), ~PoisonWriter(n),
              ~MoveCursor(n), ~ApplyFails(n)
       PROVE  UNCHANGED <<file, synced, mode, poisoned, pos>>
  BY Zenon, <1>11 DEF PullStep, ResetCursor, LockLog, UnlockLog, SyncFails, SaveCursor,
     SaveFails, LosePage
<1>12. ASSUME NEW n \in Nodes, LosePeersBin(n) \/ \E q \in Nodes : GetRelayOps(n, q)
       PROVE  UNCHANGED <<file, synced, mode, poisoned, pos>>
  BY <1>12, ZenonT(30) DEF LosePeersBin, GetRelayOps
<1>13. ASSUME NEW n \in Nodes, NEW q \in Nodes, Register(n, q)
       PROVE  UNCHANGED <<file, synced, mode, poisoned, pos>>
  BY Zenon, <1>13, RegisterFrame
<1>14. CASE UNCHANGED vars
  BY Zenon, <1>0, <1>14 DEF vars
<1>. QED
  BY Zenon, <1>0, <1>1, <1>2, <1>3, <1>4, <1>6, <1>7, <1>8, <1>9, <1>10, <1>11, <1>12,
     <1>13, <1>14 DEF Next, StartUp

\* The keys in memory stay the saved ones: registration saves before it uses.
LEMMA KeysStep ==
  ASSUME TypeOK, Lifecycle, KeysSaved, [Next]_vars
  PROVE  KeysSaved'
<1>. USE DEF disk, keys, pull, memory
<1>0. CASE UNCHANGED <<mode, registry, peersBin>>
  BY Zenon, <1>0 DEF KeysSaved
<1>1. ASSUME NEW n \in Nodes, Start(n)
      PROVE  KeysSaved'
  BY Zenon, <1>1 DEF Start, KeysSaved, TypeOK, DaemonType, KeysType, DiskType
<1>2. ASSUME NEW n \in Nodes, Forget(n), UNCHANGED peersBin
      PROVE  KeysSaved'
  BY <1>2, ForgetEffect, ZenonT(30) DEF KeysSaved
<1>3. ASSUME NEW n \in Nodes, EndReplay(n) \/ EndRegistration(n)
      PROVE  KeysSaved'
  BY Zenon, <1>3 DEF EndReplay, EndRegistration, KeysSaved, TypeOK, DaemonType
<1>4. ASSUME NEW n \in Nodes, NEW q \in Nodes, Register(n, q)
      PROVE  KeysSaved'
  <2>1. CASE UNCHANGED <<registry, peersBin>>
    BY Zenon, <1>0, <1>4, <2>1, RegisterFrame
  <2>2. ASSUME NEW added \in SUBSET Nodes,
               registry' = [registry EXCEPT ![n] = @ \cup added],
               peersBin' = [peersBin EXCEPT ![n] =
                              IF added \subseteq registry[n] THEN @
                              ELSE registry[n] \cup added]
        PROVE  KeysSaved'
    <3>1. mode' = mode /\ mode[n] # "down"
      BY Zenon, <1>4, RegisterFrame
    <3>2. registry[n] = peersBin[n] \cup {n}
      BY Zenon, <3>1 DEF KeysSaved
    <3>3. registry'[n] = registry[n] \cup added
      BY Zenon, <2>2 DEF TypeOK, KeysType
    <3>4. peersBin'[n] = IF added \subseteq registry[n] THEN peersBin[n]
                         ELSE registry[n] \cup added
      BY Zenon, <2>2 DEF TypeOK, DiskType
    <3>5. registry'[n] = peersBin'[n] \cup {n}
      BY Zenon, <3>2, <3>3, <3>4
    <3>6. \A m \in Nodes \ {n} : registry'[m] = registry[m] /\ peersBin'[m] = peersBin[m]
      BY Zenon, <2>2 DEF TypeOK, KeysType, DiskType
    <3>. QED
      BY Zenon, <3>1, <3>5, <3>6 DEF KeysSaved
  <2>3. CASE RegisterPeer(n, q) \/ CallerNotSaved(n, q)
    <3>1. (IF q \in registry[n] THEN peersBin[n] ELSE registry[n] \cup {q})
            = (IF {q} \subseteq registry[n] THEN peersBin[n] ELSE registry[n] \cup {q})
      BY Zenon
    <3>2. registry' = [registry EXCEPT ![n] = @ \cup {q}]
      BY Zenon, <2>3 DEF RegisterPeer, CallerNotSaved
    <3>3. peersBin' = [peersBin EXCEPT ![n] =
                         IF {q} \subseteq registry[n] THEN @ ELSE registry[n] \cup {q}]
      BY Zenon, <2>3, <3>1 DEF RegisterPeer, CallerNotSaved
    <3>. QED
      BY <2>2, <3>2, <3>3, ZenonT(30)
  <2>4. CASE LearnDevices(n, q)
    <3>. DEFINE added == registry[q] \ registry[n]
    <3>1. added \in SUBSET Nodes
      BY Zenon DEF TypeOK, KeysType
    <3>2. added = {} <=> added \subseteq registry[n]
      BY Zenon
    <3>. QED
      BY <2>2, <2>4, <3>1, <3>2, ZenonT(30) DEF LearnDevices
  <2>5. CASE SkipPeer(n, q) \/ PeerKeyNotSaved(n, q) \/ LearnNothing(n, q)
    BY Zenon, <2>1, <2>5 DEF SkipPeer, PeerKeyNotSaved, LearnNothing
  <2>. QED
    BY Zenon, <1>4, <2>3, <2>4, <2>5 DEF Register
<1>5. ASSUME NEW n \in Nodes, LosePeersBin(n)
      PROVE  KeysSaved'
  BY <1>5, ZenonT(30) DEF LosePeersBin, KeysSaved, TypeOK, DiskType
<1>6. ASSUME NEW n \in Nodes, PullStep(n)
      PROVE  UNCHANGED <<mode, registry, peersBin>>
  BY Zenon, <1>6, PullFrame
<1>7. ASSUME NEW n \in Nodes, ReplayFrame(n) \/ (\E o \in Ops : Commit(n, o))
             \/ \E q \in Nodes : GetRelayOps(n, q)
      PROVE  UNCHANGED <<mode, registry, peersBin>>
  BY <1>7, ZenonT(30) DEF ReplayFrame, Commit, GetRelayOps
<1>8. ASSUME NEW n \in Nodes, ExitOnReplay(n) \/ Crash(n)
      PROVE  Forget(n) /\ UNCHANGED peersBin
  BY <1>8, ZenonT(30) DEF ExitOnReplay, Crash
<1>9. CASE UNCHANGED vars
  BY Zenon, <1>0, <1>9 DEF vars
<1>. QED
  BY Zenon, <1>0, <1>1, <1>2, <1>3, <1>4, <1>5, <1>6, <1>7, <1>8, <1>9 DEF Next, StartUp

-----------------------------------------------------------------------------
\* No step takes a durable frame away.
LEMMA FramesKept ==
  ASSUME TypeOK, Lifecycle, Files, [Next]_vars, NEW n \in Nodes,
         NEW k \in 1 .. synced[n], \A j \in 1 .. k : file[n][j] # Torn
  PROVE  k <= synced'[n] /\ \A j \in 1 .. k : file'[n][j] = file[n][j]
<1>. USE MeshAssumption DEF disk, keys, pull, memory
<1>. DEFINE Kept == k <= synced'[n] /\ \A j \in 1 .. k : file'[n][j] = file[n][j]
<1>. SUFFICES Kept
  BY Zenon
<1>a. /\ Len(file[n]) \in Nat /\ synced[n] \in Nat /\ pos[n] \in Nat
      /\ k \in Nat /\ k <= Len(file[n])
  BY LenProperties DEF TypeOK, DiskType, DaemonType, Files, FileFits
<1>0. CASE file'[n] = file[n] /\ synced'[n] = synced[n]
  BY <1>0
<1>1. ASSUME NEW m \in Nodes, NEW x \in Ops \cup {Torn},
             file' = [file EXCEPT ![m] = Append(@, x)], UNCHANGED synced
      PROVE  Kept
  BY <1>1, <1>a, AppendEffect
<1>2. ASSUME NEW m \in Nodes, Replaying(m), AtTail(m), TruncateTail(m)
      PROVE  Kept
  <2>1. CASE m = n
    <3>1. k <= pos[n] - 1
      BY <1>2, <1>a, <2>1, TruncateEffect
    <3>2. /\ synced'[n] = Smaller(synced[n], pos[n] - 1)
          /\ \A j \in 1 .. pos[n] - 1 : file'[n][j] = file[n][j]
      BY Zenon, <1>2, <2>1, TruncateEffect
    <3>. QED
      BY <1>a, <3>1, <3>2 DEF Smaller
  <2>2. CASE m # n
    BY <1>0, <1>2, <2>2, TruncateEffect
  <2>. QED
    BY Zenon, <2>1, <2>2
<1>3. ASSUME NEW m \in Nodes, Fsync(m), UNCHANGED file
      PROVE  Kept
  BY <1>3, <1>a DEF Fsync, TypeOK, DiskType
<1>4. ASSUME NEW m \in Nodes, Crash(m)
      PROVE  Kept
  <2>1. CASE m = n
    BY <1>4, <1>a, <2>1, CrashEffect
  <2>2. CASE m # n
    BY Zenon, <1>0, <1>4, <2>2, CrashEffect
  <2>. QED
    BY Zenon, <2>1, <2>2
<1>5. ASSUME NEW m \in Nodes, AdmitEntry(m)
      PROVE  Kept
  <2>1. NextEntry(m) \in Ops
    BY Zenon, <1>5, NextEntryType DEF AdmitEntry
  <2>. QED
    BY Zenon, <1>0, <1>1, <1>5, <2>1 DEF AdmitEntry
<1>6. ASSUME NEW m \in Nodes, PullStep(m), ~AdmitEntry(m)
      PROVE  Kept
  <2>1. CASE PoisonWriter(m)
    BY Zenon, <1>0, <1>1, <2>1 DEF PoisonWriter
  <2>2. CASE MoveCursor(m) \/ ApplyFails(m)
    BY Zenon, <1>0, <1>3, <2>2 DEF MoveCursor, ApplyFails
  <2>. QED
    BY Zenon, <1>0, <1>6, <2>1, <2>2 DEF PullStep, ResetCursor, LockLog, UnlockLog,
       SyncFails, SaveCursor, SaveFails, LosePage
<1>7. ASSUME NEW m \in Nodes, StartUp(m)
      PROVE  Kept
  <2>1. CASE EndReplay(m) \/ ExitOnReplay(m)
    BY Zenon, <1>2, <2>1 DEF EndReplay, ExitOnReplay, Replaying
  <2>. QED
    BY Zenon, <1>0, <1>7, <2>1 DEF StartUp, Start, ReplayFrame, EndRegistration
<1>8. ASSUME NEW m \in Nodes, NEW o \in Ops, Commit(m, o)
      PROVE  Kept
  BY <1>1, <1>8, ZenonT(30) DEF Commit
<1>9. ASSUME NEW m \in Nodes, LosePeersBin(m) \/ \E q \in Nodes : GetRelayOps(m, q)
      PROVE  Kept
  BY Zenon, <1>0, <1>9 DEF LosePeersBin, GetRelayOps
<1>10. ASSUME NEW m \in Nodes, NEW q \in Nodes, Register(m, q)
       PROVE  Kept
  BY Zenon, <1>0, <1>10, RegisterFrame
<1>11. CASE UNCHANGED vars
  BY Zenon, <1>0, <1>11 DEF vars
<1>. HIDE DEF Kept
<1>. QED
  BY Zenon, <1>4, <1>5, <1>6, <1>7, <1>8, <1>9, <1>10, <1>11 DEF Next

\* How a daemon moves through serve(): it stays where it is, or takes one of the
\* steps of start-up, or stops.
LEMMA ModeEffect ==
  ASSUME TypeOK, Lifecycle, [Next]_vars, NEW n \in Nodes
  PROVE  \/ /\ mode'[n] = mode[n] /\ epoch'[n] = epoch[n]
            /\ pos'[n] = pos[n] \/ ReplayFrame(n)
         \/ Start(n) \/ EndReplay(n) \/ EndRegistration(n)
         \/ mode'[n] = "down" /\ epoch'[n] = 0
<1>. USE DEF disk, keys, pull, memory
<1>. DEFINE Stays == mode'[n] = mode[n] /\ epoch'[n] = epoch[n] /\ pos'[n] = pos[n]
<1>1. ASSUME NEW m \in Nodes, m # n,
             \/ Start(m) \/ ReplayFrame(m) \/ EndReplay(m) \/ EndRegistration(m)
      PROVE  Stays
  BY Zenon, <1>1 DEF Start, ReplayFrame, EndReplay, EndRegistration, TypeOK, DaemonType
<1>2. CASE ReplayFrame(n)
  BY Zenon, <1>2 DEF ReplayFrame
<1>3. ASSUME NEW m \in Nodes, ExitOnReplay(m) \/ Crash(m)
      PROVE  Stays \/ (mode'[n] = "down" /\ epoch'[n] = 0)
  <2>1. Forget(m)
    BY Zenon, <1>3 DEF ExitOnReplay, Crash
  <2>. QED
    BY Zenon, <2>1, ForgetEffect
<1>4. ASSUME NEW m \in Nodes, PullStep(m)
      PROVE  Stays
  BY Zenon, <1>4, PullFrame
<1>5. ASSUME NEW m \in Nodes, NEW q \in Nodes, Register(m, q)
      PROVE  Stays
  BY Zenon, <1>5, RegisterFrame
<1>6. ASSUME NEW m \in Nodes, LosePeersBin(m) \/ (\E o \in Ops : Commit(m, o))
             \/ \E q \in Nodes : GetRelayOps(m, q)
      PROVE  Stays
  BY Zenon, <1>6 DEF LosePeersBin, Commit, GetRelayOps
<1>7. CASE UNCHANGED vars
  BY Zenon, <1>7 DEF vars
<1>8. ASSUME NEW m \in Nodes, StartUp(m)
      PROVE  \/ Stays \/ ReplayFrame(n) \/ Start(n) \/ EndReplay(n)
             \/ EndRegistration(n) \/ (mode'[n] = "down" /\ epoch'[n] = 0)
  BY Zenon, <1>1, <1>3, <1>8 DEF StartUp
<1>. QED
  BY Zenon, <1>2, <1>3, <1>4, <1>5, <1>6, <1>7, <1>8 DEF Next

\* A daemon's log grows for as long as its process lives.
LEMMA LogGrows ==
  ASSUME TypeOK, Lifecycle, [Next]_vars, NEW n \in Nodes, epoch'[n] = epoch[n]
  PROVE  /\ Len(Log(n)) <= Len(Log(n)')
         /\ \A i \in 1 .. Len(Log(n)) : Log(n)'[i] = Log(n)[i]
<1>1. CASE epoch[n] = 0
  BY <1>1 DEF Log
<1>2. CASE epoch[n] # 0
  <2>1. epoch[n] \in 1 .. MaxEpoch
    BY <1>2, MeshAssumption DEF TypeOK, DaemonType, Epochs
  <2>. QED
    BY Zenon, <1>2, <2>1, StreamGrows DEF Log
<1>. QED
  BY Zenon, <1>1, <1>2

\* A complete frame of the file was there before, or is of an operation that
\* enters the log in the same step, signed by a known device.
LEMMA FrameEffect ==
  ASSUME TypeOK, Lifecycle, Files, [Next]_vars, NEW n \in Nodes,
         NEW k \in 1 .. Len(file'[n]), file'[n][k] # Torn
  PROVE  \/ k \in 1 .. Len(file[n]) /\ file'[n][k] = file[n][k]
         \/ /\ mode[n] = "running" /\ epoch[n] # 0 /\ UNCHANGED <<mode, epoch>>
            /\ file'[n][k] \in Ops /\ Push(n, file'[n][k])
            /\ Author[file'[n][k]] \in registry[n] \cup {n}
<1>. USE MeshAssumption DEF disk, keys, pull, memory
<1>. DEFINE Old == k \in 1 .. Len(file[n]) /\ file'[n][k] = file[n][k]
            New == /\ mode[n] = "running" /\ epoch[n] # 0 /\ UNCHANGED <<mode, epoch>>
                   /\ file'[n][k] \in Ops /\ Push(n, file'[n][k])
                   /\ Author[file'[n][k]] \in registry[n] \cup {n}
<1>. SUFFICES Old \/ New
  BY Zenon
<1>a. Len(file[n]) \in Nat
  BY Zenon, LenProperties DEF TypeOK, DiskType
<1>0. CASE file'[n] = file[n]
  BY Zenon, <1>0
<1>1. ASSUME NEW m \in Nodes, NEW x \in Ops, mode[m] = "running",
             UNCHANGED <<mode, epoch>>, Push(m, x),
             file' = [file EXCEPT ![m] = Append(@, x)],
             Author[x] \in registry[m] \cup {m}
      PROVE  Old \/ New
  <2>1. CASE m # n
    BY <1>0, <1>1, <2>1, AppendEffect, SMTT(30)
  <2>2. CASE m = n /\ k # Len(file[n]) + 1
    BY <1>1, <1>a, <2>2, AppendEffect
  <2>3. CASE m = n /\ k = Len(file[n]) + 1
    <3>1. file'[n][k] = x
      BY <1>1, <2>3, AppendEffect
    <3>2. epoch[n] # 0
      BY Zenon, <1>1, <2>3 DEF Lifecycle
    <3>. QED
      BY Zenon, <1>1, <2>3, <3>1, <3>2
  <2>. QED
    BY Zenon, <2>1, <2>2, <2>3
<1>2. ASSUME NEW m \in Nodes, AdmitEntry(m)
      PROVE  Old \/ New
  <2>1. NextEntry(m) \in Ops
    BY Zenon, <1>2, NextEntryType DEF AdmitEntry
  <2>2. mode[m] = "running"
    BY Zenon, <1>2 DEF Lifecycle, AdmitEntry, HasEntry
  <2>3. CASE IsNew(m, NextEntry(m))
    BY Zenon, <1>1, <1>2, <2>1, <2>2, <2>3 DEF AdmitEntry
  <2>4. CASE ~IsNew(m, NextEntry(m))
    BY Zenon, <1>0, <1>2, <2>4 DEF AdmitEntry
  <2>. QED
    BY Zenon, <2>3, <2>4
<1>3. ASSUME NEW m \in Nodes, PoisonWriter(m)
      PROVE  Old \/ New
  <2>1. CASE UNCHANGED file
    BY Zenon, <1>0, <2>1
  <2>2. CASE file' = [file EXCEPT ![m] = Append(@, Torn)] /\ m = n
    BY <1>a, <2>2, AppendEffect
  <2>3. CASE file' = [file EXCEPT ![m] = Append(@, Torn)] /\ m # n
    BY <1>0, <2>3, AppendEffect
  <2>. QED
    BY Zenon, <1>3, <2>1, <2>2, <2>3 DEF PoisonWriter
<1>4. ASSUME NEW m \in Nodes, EndReplay(m) \/ ExitOnReplay(m)
      PROVE  Old \/ New
  <2>1. Replaying(m) /\ AtTail(m) /\ TruncateTail(m)
    BY Zenon, <1>4 DEF EndReplay, ExitOnReplay, Replaying
  <2>2. CASE m = n
    <3>1. /\ Len(file'[n]) = pos[n] - 1 /\ pos[n] - 1 <= Len(file[n])
          /\ \A i \in 1 .. pos[n] - 1 : file'[n][i] = file[n][i]
      BY <1>a, <2>1, <2>2, TruncateEffect, SMTT(30)
    <3>. QED
      BY <1>a, <3>1 DEF TypeOK, DaemonType
  <2>3. CASE m # n
    BY Zenon, <1>0, <2>1, <2>3, TruncateEffect
  <2>. QED
    BY Zenon, <2>2, <2>3
<1>5. ASSUME NEW m \in Nodes, Crash(m)
      PROVE  Old \/ New
  <2>1. CASE m = n
    <3>1. PICK kept \in synced[n] .. Len(file[n]) :
             /\ \A i \in 1 .. kept : file'[n][i] = file[n][i]
             /\ \/ Len(file'[n]) = kept
                \/ Len(file'[n]) = kept + 1 /\ file'[n][kept + 1] = Torn
      BY <1>5, <2>1, CrashEffect, ZenonT(30)
    <3>2. synced[n] \in Nat
      BY Zenon DEF TypeOK, DiskType
    <3>3. kept \in Nat /\ kept <= Len(file[n])
      BY <1>a, <3>1, <3>2
    <3>4. k \in 1 .. kept
      BY <3>1, <3>3
    <3>5. k \in 1 .. Len(file[n])
      BY <1>a, <3>3, <3>4
    <3>. QED
      BY Zenon, <3>1, <3>4, <3>5
  <2>2. CASE m # n
    BY Zenon, <1>0, <1>5, <2>2, CrashEffect
  <2>. QED
    BY Zenon, <2>1, <2>2
<1>6. ASSUME NEW m \in Nodes, NEW o \in Ops, Commit(m, o)
      PROVE  Old \/ New
  <2>1. mode[m] = "running" /\ Author[o] \in registry[m] \cup {m}
    BY Zenon, <1>6 DEF Commit
  <2>. QED
    BY <1>1, <1>6, <2>1, ZenonT(30) DEF Commit
<1>7. ASSUME NEW m \in Nodes, \/ Start(m) \/ ReplayFrame(m) \/ EndRegistration(m)
                              \/ LosePeersBin(m) \/ \E q \in Nodes : GetRelayOps(m, q)
      PROVE  UNCHANGED file
  BY Zenon, <1>7 DEF Start, ReplayFrame, EndRegistration, LosePeersBin, GetRelayOps
<1>8. ASSUME NEW m \in Nodes, PullStep(m), ~AdmitEntry(m), ~PoisonWriter(m)
      PROVE  UNCHANGED file
  BY Zenon, <1>8 DEF PullStep, ResetCursor, LockLog, UnlockLog, MoveCursor, ApplyFails,
     SyncFails, SaveCursor, SaveFails, LosePage
<1>9. ASSUME NEW m \in Nodes, NEW q \in Nodes, Register(m, q)
      PROVE  UNCHANGED file
  BY Zenon, <1>9, RegisterFrame
<1>10. CASE UNCHANGED vars
  BY Zenon, <1>0, <1>10 DEF vars
<1>. HIDE DEF Old, New
<1>. QED
  BY Zenon, <1>0, <1>2, <1>3, <1>4, <1>5, <1>6, <1>7, <1>8, <1>9, <1>10 DEF Next, StartUp

\* The file of a live daemon loses no complete frame.
LEMMA FrameStays ==
  ASSUME TypeOK, Lifecycle, Files, [Next]_vars, NEW n \in Nodes, epoch'[n] # 0,
         NEW k \in 1 .. Len(file[n]), file[n][k] # Torn
  PROVE  k \in 1 .. Len(file'[n]) /\ file'[n][k] = file[n][k]
<1>. USE MeshAssumption DEF disk, keys, pull, memory
<1>. DEFINE Kept == k \in 1 .. Len(file'[n]) /\ file'[n][k] = file[n][k]
<1>. SUFFICES Kept
  BY Zenon
<1>a. Len(file[n]) \in Nat
  BY Zenon, LenProperties DEF TypeOK, DiskType
<1>0. CASE file'[n] = file[n]
  BY Zenon, <1>0
<1>1. ASSUME NEW m \in Nodes, NEW x \in Ops \cup {Torn},
             file' = [file EXCEPT ![m] = Append(@, x)]
      PROVE  Kept
  BY <1>0, <1>1, <1>a, AppendEffect
<1>2. ASSUME NEW m \in Nodes, EndReplay(m) \/ ExitOnReplay(m)
      PROVE  Kept
  <2>1. Replaying(m) /\ AtTail(m) /\ TruncateTail(m)
    BY Zenon, <1>2 DEF EndReplay, ExitOnReplay, Replaying
  <2>2. CASE m = n
    <3>1. k \in 1 .. pos[n] - 1
      BY <1>a, <2>1, <2>2, TruncateEffect
    <3>. QED
      BY Zenon, <2>1, <2>2, <3>1, TruncateEffect
  <2>3. CASE m # n
    BY <1>0, <2>1, <2>3, TruncateEffect
  <2>. QED
    BY Zenon, <2>2, <2>3
<1>3. ASSUME NEW m \in Nodes, Crash(m)
      PROVE  Kept
  <2>1. m # n
    BY Zenon, <1>3, ForgetEffect DEF Crash
  <2>. QED
    BY Zenon, <1>0, <1>3, <2>1, CrashEffect
<1>4. ASSUME NEW m \in Nodes, PullStep(m)
      PROVE  Kept
  <2>1. CASE AdmitEntry(m)
    <3>1. NextEntry(m) \in Ops
      BY Zenon, <2>1, NextEntryType DEF AdmitEntry
    <3>. QED
      BY Zenon, <1>0, <1>1, <2>1, <3>1 DEF AdmitEntry
  <2>2. CASE PoisonWriter(m)
    BY Zenon, <1>0, <1>1, <2>2 DEF PoisonWriter
  <2>. QED
    BY Zenon, <1>0, <1>4, <2>1, <2>2 DEF PullStep, ResetCursor, LockLog, UnlockLog,
       MoveCursor, ApplyFails, SyncFails, SaveCursor, SaveFails, LosePage
<1>5. ASSUME NEW m \in Nodes, NEW o \in Ops, Commit(m, o)
      PROVE  Kept
  BY Zenon, <1>1, <1>5 DEF Commit
<1>6. ASSUME NEW m \in Nodes, \/ Start(m) \/ ReplayFrame(m) \/ EndRegistration(m)
                              \/ LosePeersBin(m) \/ \E q \in Nodes : GetRelayOps(m, q)
      PROVE  UNCHANGED file
  BY Zenon, <1>6 DEF Start, ReplayFrame, EndRegistration, LosePeersBin, GetRelayOps
<1>7. ASSUME NEW m \in Nodes, NEW q \in Nodes, Register(m, q)
      PROVE  UNCHANGED file
  BY Zenon, <1>7, RegisterFrame
<1>8. CASE UNCHANGED vars
  BY Zenon, <1>0, <1>8 DEF vars
<1>. HIDE DEF Kept
<1>. QED
  BY Zenon, <1>0, <1>2, <1>3, <1>4, <1>5, <1>6, <1>7, <1>8 DEF Next, StartUp

\* An operation that enters a log has its frame in the file by then, and is new
\* to the mesh or known already.
LEMMA PushInFile ==
  ASSUME TypeOK, Lifecycle, Files, [Next]_vars
  PROVE  \/ UNCHANGED stream
         \/ \E n \in Nodes, o \in Ops :
              /\ epoch[n] # 0 /\ Push(n, o) /\ UNCHANGED epoch
              /\ \E k \in 1 .. Len(file'[n]) : file'[n][k] = o
<1>. USE MeshAssumption DEF disk, keys, pull, memory
<1>. DEFINE In(n, o) ==
        /\ epoch[n] # 0 /\ Push(n, o) /\ UNCHANGED epoch
        /\ \E k \in 1 .. Len(file'[n]) : file'[n][k] = o
<1>. SUFFICES UNCHANGED stream \/ \E n \in Nodes, o \in Ops : In(n, o)
  BY Zenon
<1>. HIDE DEF In
<1>a. \A n \in Nodes : Len(file[n]) \in Nat
  BY Zenon, LenProperties DEF TypeOK, DiskType
<1>1. ASSUME NEW n \in Nodes, ReplayFrame(n)
      PROVE  UNCHANGED stream \/ \E o \in Ops : In(n, o)
  <2>1. pos[n] \in 1 .. Len(file[n]) /\ file[n][pos[n]] \in Ops
    BY <1>1, SMTT(30) DEF TypeOK, DiskType, DaemonType, ReplayFrame, AtTail
  <2>2. epoch[n] # 0 /\ UNCHANGED <<epoch, file>>
    BY Zenon, <1>1 DEF Lifecycle, ReplayFrame
  <2>3. UNCHANGED stream \/ Push(n, file[n][pos[n]])
    BY Zenon, <1>1 DEF ReplayFrame
  <2>4. \E k \in 1 .. Len(file'[n]) : file'[n][k] = file[n][pos[n]]
    BY Zenon, <2>1, <2>2
  <2>5. CASE Push(n, file[n][pos[n]])
    <3>1. In(n, file[n][pos[n]])
      BY Zenon, <2>2, <2>4, <2>5 DEF In
    <3>. QED
      BY Zenon, <2>1, <3>1
  <2>. QED
    BY Zenon, <2>3, <2>5
<1>2. ASSUME NEW n \in Nodes, NEW o \in Ops, mode[n] = "running", UNCHANGED epoch,
             Push(n, o), file' = [file EXCEPT ![n] = Append(@, o)]
      PROVE  In(n, o)
  <2>1. epoch[n] # 0
    BY Zenon, <1>2 DEF Lifecycle
  <2>2. Len(file[n]) + 1 \in 1 .. Len(file'[n]) /\ file'[n][Len(file[n]) + 1] = o
    <3>1. Len(file'[n]) = Len(file[n]) + 1 /\ file'[n][Len(file[n]) + 1] = o
      BY <1>2, AppendEffect, ZenonT(30)
    <3>. QED
      BY <1>a, <3>1
  <2>. QED
    BY Zenon, <1>2, <2>1, <2>2 DEF In
<1>3. ASSUME NEW n \in Nodes, AdmitEntry(n)
      PROVE  UNCHANGED stream \/ \E o \in Ops : In(n, o)
  <2>1. NextEntry(n) \in Ops
    BY Zenon, <1>3, NextEntryType DEF AdmitEntry
  <2>2. mode[n] = "running"
    BY Zenon, <1>3 DEF Lifecycle, AdmitEntry, HasEntry
  <2>3. CASE IsNew(n, NextEntry(n))
    <3>1. In(n, NextEntry(n))
      BY Zenon, <1>2, <1>3, <2>1, <2>2, <2>3 DEF AdmitEntry
    <3>. QED
      BY Zenon, <2>1, <3>1
  <2>. QED
    BY Zenon, <1>3, <2>3 DEF AdmitEntry
<1>4. ASSUME NEW n \in Nodes, NEW o \in Ops, Commit(n, o)
      PROVE  In(n, o)
  BY <1>2, <1>4, ZenonT(30) DEF Commit
<1>5. ASSUME NEW n \in Nodes,
             \/ Start(n) \/ EndReplay(n) \/ ExitOnReplay(n) \/ EndRegistration(n)
             \/ \E q \in Nodes : GetRelayOps(n, q)
             \/ Crash(n) \/ LosePeersBin(n)
      PROVE  UNCHANGED stream
  BY Zenon, <1>5 DEF Start, EndReplay, ExitOnReplay, EndRegistration, GetRelayOps,
     Crash, LosePeersBin
<1>6. ASSUME NEW n \in Nodes, PullStep(n), ~AdmitEntry(n)
      PROVE  UNCHANGED stream
  BY Zenon, <1>6 DEF PullStep, ResetCursor, LockLog, UnlockLog, PoisonWriter,
         MoveCursor, ApplyFails, SyncFails, SaveCursor, SaveFails, LosePage
<1>7. ASSUME NEW n \in Nodes, NEW q \in Nodes, Register(n, q)
      PROVE  UNCHANGED stream
  BY Zenon, <1>7, RegisterFrame
<1>8. CASE UNCHANGED vars
  BY Zenon, <1>8 DEF vars
<1>. QED
  BY Zenon, <1>1, <1>3, <1>4, <1>5, <1>6, <1>7, <1>8 DEF Next, StartUp

\* Each step keeps the log within its file.
LEMMA LogInFileStep ==
  ASSUME TypeOK, TypeOK', Lifecycle, Lifecycle', Files, LogInFile, [Next]_vars
  PROVE  LogInFile'
<1>. SUFFICES ASSUME NEW n \in Nodes, NEW i \in 1 .. Len(Log(n)')
             PROVE  \E k \in 1 .. Len(file'[n]) : file'[n][k] = Log(n)'[i]
  BY Zenon DEF LogInFile
<1>1. epoch'[n] # 0
  BY DEF Log
<1>2. epoch'[n] \in 1 .. MaxEpoch
  BY <1>1, MeshAssumption DEF TypeOK, DaemonType, Epochs
<1>3. epoch'[n] = epoch[n]
  <2>1. SUFFICES ASSUME Start(n) PROVE FALSE
    BY Zenon, <1>1, ModeEffect DEF EndReplay, EndRegistration
  <2>2. epoch'[n] = lastEpoch + 1 /\ UNCHANGED stream
    BY Zenon, <2>1 DEF Start, TypeOK, DaemonType
  <2>3. stream[epoch'[n]] = <<>>
    BY <1>2, <2>2 DEF Lifecycle, TypeOK, ModelType, Epochs
  <2>. QED
    BY <1>1, <2>2, <2>3 DEF Log
<1>4. CASE Log(n)' = Log(n)
  <2>1. PICK k \in 1 .. Len(file[n]) : file[n][k] = Log(n)[i]
    BY Zenon, <1>4 DEF LogInFile
  <2>2. Log(n)[i] \in Ops
    BY <1>1, <1>2, <1>3, <1>4 DEF Log, TypeOK, ModelType
  <2>3. file[n][k] # Torn
    BY Zenon, <2>1, <2>2, MeshAssumption
  <2>. QED
    BY Zenon, <1>1, <1>4, <2>1, <2>3, FrameStays
<1>5. ASSUME NEW m \in Nodes, NEW o \in Ops, epoch[m] # 0, Push(m, o),
             \E k \in 1 .. Len(file'[m]) : file'[m][k] = o
      PROVE  \E k \in 1 .. Len(file'[n]) : file'[n][k] = Log(n)'[i]
  <2>1. CASE m # n
    <3>1. epoch[m] # epoch[n]
      BY Zenon, <1>1, <1>3, <2>1 DEF Lifecycle
    <3>. QED
      BY <1>1, <1>2, <1>3, <1>4, <1>5, <3>1, PushEffect DEF Log
  <2>2. CASE m = n
    <3>1. CASE i = Len(Log(n)) + 1
      BY <1>1, <1>3, <1>5, <2>2, <3>1, PushEffect DEF Log
    <3>2. CASE i # Len(Log(n)) + 1
      <4>1. Len(Log(n)) \in Nat /\ Log(n) \in Seq(Ops)
        BY <1>2, <1>3 DEF Log, TypeOK, ModelType
      <4>2. i \in 1 .. Len(Log(n)) /\ Log(n)'[i] = Log(n)[i]
        BY <1>1, <1>3, <1>5, <2>2, <3>2, <4>1, PushEffect DEF Log
      <4>3. PICK k \in 1 .. Len(file[n]) : file[n][k] = Log(n)[i]
        BY Zenon, <4>2 DEF LogInFile
      <4>4. file[n][k] # Torn
        BY <4>1, <4>2, <4>3, MeshAssumption
      <4>. QED
        BY Zenon, <1>1, <4>2, <4>3, <4>4, FrameStays
    <3>. QED
      BY Zenon, <3>1, <3>2
  <2>. QED
    BY Zenon, <2>1, <2>2
<1>6. CASE UNCHANGED stream
  BY Zenon, <1>3, <1>4, <1>6 DEF Log
<1>. QED
  BY <1>5, <1>6, PushInFile, ZenonT(30)

\* Each step keeps every frame of a file one that was created.
LEMMA FilesCreatedStep ==
  ASSUME TypeOK, TypeOK', Lifecycle, Files, FilesCreated, [Next]_vars
  PROVE  FilesCreated'
<1>. SUFFICES ASSUME NEW n \in Nodes, NEW k \in 1 .. Len(file'[n]),
                     file'[n][k] # Torn
             PROVE  \E e \in 1 .. MaxEpoch : \E i \in 1 .. Len(stream'[e]) :
                      stream'[e][i] = file'[n][k]
  BY Zenon DEF FilesCreated
<1>1. CASE k \in 1 .. Len(file[n]) /\ file'[n][k] = file[n][k]
  <2>0. PICK e \in 1 .. MaxEpoch :
          \E i \in 1 .. Len(stream[e]) : stream[e][i] = file[n][k]
    BY Zenon, <1>1 DEF FilesCreated
  <2>1. PICK i \in 1 .. Len(stream[e]) : stream[e][i] = file[n][k]
    BY Zenon, <2>0
  <2>2. /\ Len(stream[e]) <= Len(stream'[e]) /\ stream'[e][i] = stream[e][i]
        /\ Len(stream[e]) \in Nat /\ Len(stream'[e]) \in Nat
    BY Zenon, <2>1, StreamGrows, LenProperties DEF TypeOK, ModelType
  <2>. QED
    BY <1>1, <2>1, <2>2
<1>2. CASE epoch[n] # 0 /\ file'[n][k] \in Ops /\ Push(n, file'[n][k])
  <2>1. /\ epoch[n] \in 1 .. MaxEpoch
        /\ Len(stream'[epoch[n]]) = Len(stream[epoch[n]]) + 1
        /\ stream'[epoch[n]][Len(stream[epoch[n]]) + 1] = file'[n][k]
    BY Zenon, <1>2, PushEffect
  <2>2. Len(stream[epoch[n]]) \in Nat
    BY Zenon, <2>1, LenProperties DEF TypeOK, ModelType
  <2>. QED
    BY <2>1, <2>2
<1>. QED
  BY Zenon, <1>1, <1>2, FrameEffect
=============================================================================
