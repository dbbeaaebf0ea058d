-------------------------- MODULE RelayMesh_proof ---------------------------
(***************************************************************************)
(* Proofs about RelayMesh: cursors, pages and replay, the inductive        *)
(* invariant, and the theorems, for any number of daemons, operations,     *)
(* starts and failures; and that RelayMesh implements ReplicaSet.          *)
(***************************************************************************)
EXTENDS RelayMeshFiles_proof

\* What was durable stays durable.
LEMMA DurableStays ==
  ASSUME TypeOK, TypeOK', Lifecycle, Files, [Next]_vars, NEW n \in Nodes, NEW o,
         Durable(file[n], synced[n], o)
  PROVE  Durable(file'[n], synced'[n], o)
<1>1. PICK k \in 1 .. synced[n] :
        file[n][k] = o /\ \A j \in 1 .. k : file[n][j] # Torn
  BY Zenon DEF Durable
<1>2. k <= synced'[n] /\ \A j \in 1 .. k : file'[n][j] = file[n][j]
  BY Zenon, <1>1, FramesKept
<1>3. k \in 1 .. synced'[n] /\ k \in 1 .. k
  BY <1>1, <1>2 DEF TypeOK, DiskType
<1>. QED
  BY Zenon, <1>1, <1>2, <1>3 DEF Durable

\* A covered cursor stays covered.
LEMMA CoveredStays ==
  ASSUME TypeOK, TypeOK', Lifecycle, Files, [Next]_vars, NEW n \in Nodes,
         NEW c \in Cursor, Covered(stream, file[n], synced[n], c)
  PROVE  Covered(stream', file'[n], synced'[n], c)
<1>1. c.after \in Nat /\ c.epoch \in 0 .. MaxEpoch
  BY Zenon DEF Cursor, Epochs
<1>2. CASE c.epoch = 0
  BY Zenon, <1>2 DEF Covered
<1>3. CASE c.epoch # 0
  <2>1. c.epoch \in 1 .. MaxEpoch
    BY <1>1, <1>3, MeshAssumption
  <2>2. /\ Len(stream[c.epoch]) <= Len(stream'[c.epoch])
        /\ \A i \in 1 .. Len(stream[c.epoch]) : stream'[c.epoch][i] = stream[c.epoch][i]
    BY Zenon, <2>1, StreamGrows
  <2>3. Len(stream[c.epoch]) \in Nat /\ Len(stream'[c.epoch]) \in Nat
    BY Zenon, <2>1, LenProperties DEF TypeOK, ModelType
  <2>4. c.after <= Len(stream'[c.epoch])
    BY <1>1, <1>3, <2>2, <2>3 DEF Covered
  <2>5. ASSUME NEW i \in 1 .. c.after
        PROVE  Durable(file'[n], synced'[n], stream'[c.epoch][i])
    <3>1. /\ stream'[c.epoch][i] = stream[c.epoch][i]
          /\ Durable(file[n], synced[n], stream[c.epoch][i])
      BY <1>1, <1>3, <2>2, <2>3 DEF Covered
    <3>. QED
      BY Zenon, <3>1, DurableStays
  <2>. QED
    BY Zenon, <1>3, <2>4, <2>5 DEF Covered
<1>. QED
  BY Zenon, <1>2, <1>3

\* Where a cursor in memory comes from: it is the one before, the saved one, the
\* start, or the move or the reset of the link that is being pulled.
LEMMA CursorEffect ==
  ASSUME TypeOK, [Next]_vars, NEW n \in Nodes, NEW q \in Nodes
  PROVE  \/ cursor'[n][q] \in {cursor[n][q], cursorFile[n][q], START}
         \/ ResetCursor(n) /\ q = page[n].peer
         \/ MoveCursor(n) /\ q = page[n].peer
<1>. USE DEF disk, keys, pull, memory
<1>. DEFINE Same == cursor'[n][q] \in {cursor[n][q], cursorFile[n][q], START}
<1>0. CASE UNCHANGED cursor
  BY Zenon, <1>0
<1>1. ASSUME NEW m \in Nodes, Forget(m)
      PROVE  Same
  BY <1>1, ForgetEffect
<1>2. ASSUME NEW m \in Nodes, NEW r \in Nodes, Register(m, r)
      PROVE  Same
  <2>1. CASE cursor' = [cursor EXCEPT ![m][r] = cursorFile[m][r]]
    BY Zenon, <2>1 DEF TypeOK, PullType
  <2>. QED
    BY Zenon, <1>0, <1>2, <2>1, RegisterFrame
<1>3. ASSUME NEW m \in Nodes, ResetCursor(m) \/ MoveCursor(m), m # n \/ q # page[n].peer
      PROVE  Same
  <2>1. page[m].peer \in Nodes
    BY Zenon DEF TypeOK, PullType, Page
  <2>. QED
    BY <1>3, <2>1 DEF ResetCursor, MoveCursor, TypeOK, PullType
<1>4. ASSUME NEW m \in Nodes, PullStep(m), ~ResetCursor(m), ~MoveCursor(m)
      PROVE  UNCHANGED cursor
  BY Zenon, <1>4 DEF PullStep, LockLog, AdmitEntry, UnlockLog, PoisonWriter, ApplyFails,
     SyncFails, SaveCursor, SaveFails, LosePage
<1>5. ASSUME NEW m \in Nodes,
             \/ Start(m) \/ ReplayFrame(m) \/ EndReplay(m) \/ EndRegistration(m)
             \/ LosePeersBin(m) \/ (\E r \in Nodes : GetRelayOps(m, r))
             \/ \E o \in Ops : Commit(m, o)
      PROVE  UNCHANGED cursor
  BY Zenon, <1>5 DEF Start, ReplayFrame, EndReplay, EndRegistration, LosePeersBin,
     GetRelayOps, Commit
<1>6. ASSUME NEW m \in Nodes, ExitOnReplay(m) \/ Crash(m)
      PROVE  Forget(m)
  BY Zenon, <1>6 DEF ExitOnReplay, Crash
<1>7. CASE UNCHANGED vars
  BY Zenon, <1>7 DEF vars
<1>. QED
  BY Zenon, <1>0, <1>1, <1>2, <1>3, <1>4, <1>5, <1>6, <1>7 DEF Next, StartUp

\* A saved cursor is the one before or the one in memory.
LEMMA CursorFileEffect ==
  ASSUME TypeOK, [Next]_vars, NEW n \in Nodes, NEW q \in Nodes
  PROVE  cursorFile'[n][q] \in {cursorFile[n][q], cursor[n][q]}
<1>. USE DEF disk, keys, pull, memory
<1>1. ASSUME NEW m \in Nodes, SaveCursor(m)
      PROVE  cursorFile'[n][q] \in {cursorFile[n][q], cursor[n][q]}
  <2>1. page[m].peer \in Nodes
    BY Zenon DEF TypeOK, PullType, Page
  <2>. QED
    BY Zenon, <1>1, <2>1 DEF SaveCursor, TypeOK, DiskType
<1>2. ASSUME NEW m \in Nodes, PullStep(m), ~SaveCursor(m)
      PROVE  UNCHANGED cursorFile
  BY Zenon, <1>2 DEF PullStep, ResetCursor, LockLog, AdmitEntry, UnlockLog, PoisonWriter,
     MoveCursor, ApplyFails, SyncFails, SaveFails, LosePage
<1>3. ASSUME NEW m \in Nodes,
             \/ StartUp(m) \/ Crash(m) \/ LosePeersBin(m)
             \/ (\E r \in Nodes : GetRelayOps(m, r)) \/ \E o \in Ops : Commit(m, o)
      PROVE  UNCHANGED cursorFile
  BY Zenon, <1>3 DEF StartUp, Start, ReplayFrame, EndReplay, ExitOnReplay,
     EndRegistration, Crash, LosePeersBin, GetRelayOps, Commit
<1>4. ASSUME NEW m \in Nodes, NEW r \in Nodes, Register(m, r)
      PROVE  UNCHANGED cursorFile
  BY Zenon, <1>4, RegisterFrame
<1>5. CASE UNCHANGED vars
  BY Zenon, <1>5 DEF vars
<1>. QED
  BY Zenon, <1>1, <1>2, <1>3, <1>4, <1>5 DEF Next

\* After an fsync, every operation of the log is durable: its frame is in the
\* file, and no torn frame comes before it.
LEMMA FsyncCovers ==
  ASSUME TypeOK, Files, LogInFile, NEW n \in Nodes, Fsync(n), UNCHANGED file,
         NEW i \in 1 .. Len(Log(n)), Log(n)[i] \in Ops
  PROVE  Durable(file'[n], synced'[n], Log(n)[i])
<1>1. PICK k \in 1 .. Len(file[n]) : file[n][k] = Log(n)[i]
  BY Zenon DEF LogInFile
<1>2. file[n][k] # Torn
  BY Zenon, <1>1, MeshAssumption
<1>3. Len(file[n]) \in Nat
  BY Zenon, LenProperties DEF TypeOK, DiskType
<1>4. \A j \in 1 .. k : file[n][j] # Torn
  BY <1>1, <1>2, <1>3 DEF Files, FileFits
<1>5. synced'[n] = Len(file[n])
  BY Zenon DEF Fsync, TypeOK, DiskType
<1>. QED
  BY Zenon, <1>1, <1>4, <1>5 DEF Durable

\* The cursor that a pull moves to is covered: everything before it was, and the
\* admitted entries were forced to disk before the move.
LEMMA MoveCovers ==
  ASSUME TypeOK, TypeOK', Lifecycle, Files, LogInFile, Cursors, Pages, [Next]_vars,
         NEW n \in Nodes, MoveCursor(n), NEW q \in Nodes, q = page[n].peer
  PROVE  Covered(stream', file'[n], synced'[n], cursor'[n][q])
<1>. DEFINE e == page[n].epoch
            c == cursor[n][q]
            s == stream[e]
            w == page[n].entries
<1>1. e \in Epochs /\ w \in Seq(Ops) /\ done[n] \in Nat /\ c \in Cursor
  BY DEF TypeOK, PullType, Page
<1>2. c.after \in Nat /\ Len(w) \in Nat
  BY Zenon, <1>1, LenProperties DEF Cursor
<1>3. PageFits(n)
  BY Zenon DEF MoveCursor, Pages
<1>4. e \in 1 .. MaxEpoch
  <2>1. e # 0
    BY <1>3, Zenon DEF PageFits
  <2>. HIDE DEF e
  <2>. QED
    BY <1>1, <2>1, MeshAssumption DEF Epochs
<1>5. s \in Seq(Ops) /\ Len(s) \in Nat /\ UNCHANGED stream
  BY Zenon, <1>4, LenProperties DEF TypeOK, ModelType, MoveCursor
<1>6. cursor'[n][q] = [epoch |-> e, after |-> c.after + done[n]]
  BY Zenon, <1>1 DEF MoveCursor, TypeOK, PullType
<1>7. /\ c.epoch = 0 \/ c.epoch = e
      /\ c.after + Len(w) <= Len(s)
      /\ \A i \in 1 .. Len(w) : w[i] = s[c.after + i]
      /\ done[n] <= Len(w)
      /\ \A i \in 1 .. done[n] : \E j \in 1 .. Len(Log(n)) : Log(n)[j] = w[i]
  BY <1>3, ZenonT(30) DEF PageFits
<1>8. /\ Covered(stream, file[n], synced[n], c)
      /\ Covered(stream', file'[n], synced'[n], c)
  BY Zenon, <1>1, CoveredStays DEF Cursors
<1>9. stream'[e] = s
  BY Zenon, <1>5
<1>10. done[n] > 0 => Fsync(n) /\ UNCHANGED file
  BY Zenon DEF MoveCursor
<1>. HIDE DEF c, e, s, w
<1>11. ASSUME NEW i \in 1 .. c.after + done[n]
       PROVE  Durable(file'[n], synced'[n], s[i])
  <2>1. CASE i \in 1 .. c.after
    <3>1. c.epoch # 0
      BY <1>2, <1>8, <2>1 DEF Covered
    <3>2. Durable(file'[n], synced'[n], stream'[c.epoch][i])
      BY Zenon, <1>8, <2>1, <3>1 DEF Covered
    <3>. QED
      BY Zenon, <1>7, <1>9, <3>1, <3>2
  <2>2. CASE ~(i \in 1 .. c.after)
    <3>. DEFINE k == i - c.after
    <3>1. k \in 1 .. done[n] /\ k \in 1 .. Len(w) /\ c.after + k = i
      BY <1>1, <1>2, <1>7, <2>2
    <3>2. w[k] = s[i]
      BY Zenon, <1>7, <3>1
    <3>3. PICK j \in 1 .. Len(Log(n)) : Log(n)[j] = w[k]
      BY Zenon, <1>7, <3>1
    <3>4. Log(n)[j] \in Ops
      BY <1>1, <3>1, <3>3
    <3>5. Fsync(n) /\ UNCHANGED file
      BY <1>1, <1>10, <3>1
    <3>. QED
      BY Zenon, <3>2, <3>3, <3>4, <3>5, FsyncCovers
  <2>. QED
    BY Zenon, <2>1, <2>2
<1>12. c.after + done[n] <= Len(s)
  BY <1>1, <1>2, <1>5, <1>7
<1>13. e # 0
  BY <1>4
<1>14. cursor'[n][q].epoch = e /\ cursor'[n][q].after = c.after + done[n]
  BY <1>6
<1>. QED
  BY Zenon, <1>9, <1>11, <1>12, <1>13, <1>14 DEF Covered

\* Each step keeps the cursors covered.
LEMMA CursorsStep ==
  ASSUME TypeOK, TypeOK', Lifecycle, Files, LogInFile, Cursors, Pages, [Next]_vars
  PROVE  Cursors'
<1>. SUFFICES ASSUME NEW n \in Nodes, NEW q \in Nodes
             PROVE  /\ Covered(stream', file'[n], synced'[n], cursorFile'[n][q])
                    /\ Covered(stream', file'[n], synced'[n], cursor'[n][q])
  BY Zenon DEF Cursors
<1>1. cursor[n][q] \in Cursor /\ cursorFile[n][q] \in Cursor /\ START \in Cursor
  BY MeshAssumption DEF TypeOK, PullType, DiskType, START, Cursor, Epochs
<1>2. /\ Covered(stream, file[n], synced[n], cursor[n][q])
      /\ Covered(stream, file[n], synced[n], cursorFile[n][q])
      /\ Covered(stream, file[n], synced[n], START)
  BY Zenon DEF Cursors, Covered, START
<1>3. /\ Covered(stream', file'[n], synced'[n], cursor[n][q])
      /\ Covered(stream', file'[n], synced'[n], cursorFile[n][q])
      /\ Covered(stream', file'[n], synced'[n], START)
  BY Zenon, <1>1, <1>2, CoveredStays
<1>4. Covered(stream', file'[n], synced'[n], cursorFile'[n][q])
  BY Zenon, <1>3, CursorFileEffect
<1>5. CASE cursor'[n][q] \in {cursor[n][q], cursorFile[n][q], START}
  BY Zenon, <1>3, <1>4, <1>5
<1>6. CASE ResetCursor(n) /\ q = page[n].peer
  <2>1. cursor'[n][q] = [epoch |-> page[n].epoch, after |-> 0]
    BY Zenon, <1>6 DEF ResetCursor, TypeOK, PullType
  <2>2. page[n].epoch # 0 => Len(stream'[page[n].epoch]) \in Nat
    BY LenProperties, MeshAssumption DEF TypeOK, PullType, Page, Epochs, ModelType
  <2>3. Covered(stream', file'[n], synced'[n], cursor'[n][q])
    BY <2>1, <2>2 DEF Covered
  <2>. QED
    BY Zenon, <1>4, <2>3
<1>7. CASE MoveCursor(n) /\ q = page[n].peer
  BY Zenon, <1>4, <1>7, MoveCovers
<1>. QED
  BY Zenon, <1>5, <1>6, <1>7, CursorEffect

\* A page keeps fitting while its link's cursor and its daemon's process stay.
LEMMA PageStays ==
  ASSUME TypeOK, TypeOK', Lifecycle, [Next]_vars, NEW n \in Nodes, PageFits(n),
         page'[n] = page[n], done'[n] = done[n], cursor'[n] = cursor[n],
         epoch'[n] = epoch[n]
  PROVE  PageFits(n)'
<1>. DEFINE e == page[n].epoch
            c == cursor[n][page[n].peer]
            w == page[n].entries
<1>1. c \in Cursor /\ w \in Seq(Ops) /\ e \in Epochs /\ done[n] \in Nat
  BY SMTT(30) DEF TypeOK, PullType, Page
<1>2. c.after \in Nat /\ Len(w) \in Nat /\ e \in 1 .. MaxEpoch
  <2>1. e # 0
    BY Zenon DEF PageFits
  <2>. HIDE DEF c, w, e
  <2>2. e \in 1 .. MaxEpoch
    BY <1>1, <2>1, MeshAssumption DEF Epochs
  <2>. QED
    BY Zenon, <1>1, <2>2, LenProperties DEF Cursor
<1>3. /\ Len(stream[e]) \in Nat /\ Len(stream'[e]) \in Nat
      /\ Len(stream[e]) <= Len(stream'[e])
      /\ \A i \in 1 .. Len(stream[e]) : stream'[e][i] = stream[e][i]
  BY Zenon, <1>2, LenProperties, StreamGrows DEF TypeOK, ModelType
<1>4. /\ c.epoch = 0 \/ c.epoch = e
      /\ c.after + Len(w) <= Len(stream[e])
      /\ \A i \in 1 .. Len(w) : w[i] = stream[e][c.after + i]
      /\ done[n] <= Len(w)
      /\ \A i \in 1 .. done[n] : \E j \in 1 .. Len(Log(n)) : Log(n)[j] = w[i]
  BY ZenonT(30) DEF PageFits
<1>5. /\ c.after + Len(w) <= Len(stream'[e])
      /\ \A i \in 1 .. Len(w) : w[i] = stream'[e][c.after + i]
  <2>. HIDE DEF c, e, w
  <2>1. \A i \in 1 .. Len(w) : c.after + i \in 1 .. Len(stream[e])
    BY <1>2, <1>3, <1>4, SMTT(30)
  <2>2. ASSUME NEW i \in 1 .. Len(w) PROVE w[i] = stream'[e][c.after + i]
    <3>1. stream'[e][c.after + i] = stream[e][c.after + i]
      BY Zenon, <1>3, <2>1
    <3>. QED
      BY Zenon, <1>4, <3>1
  <2>3. c.after + Len(w) <= Len(stream'[e])
    BY <1>2, <1>3, <1>4
  <2>. QED
    BY Zenon, <2>2, <2>3
<1>6. ASSUME NEW i \in 1 .. done[n]
      PROVE  \E j \in 1 .. Len(Log(n)') : Log(n)'[j] = w[i]
  <2>1. PICK j \in 1 .. Len(Log(n)) : Log(n)[j] = w[i]
    BY Zenon, <1>4
  <2>2. Len(Log(n)) \in Nat /\ Len(Log(n)') \in Nat
    BY LenProperties, MeshAssumption DEF Log, TypeOK, DaemonType, ModelType, Epochs
  <2>3. j \in 1 .. Len(Log(n)') /\ Log(n)'[j] = Log(n)[j]
    BY <2>1, <2>2, LogGrows
  <2>. QED
    BY Zenon, <2>1, <2>3
<1>7. page'[n].epoch = e /\ page'[n].entries = w /\ cursor'[n][page'[n].peer] = c
      /\ e # 0
  BY <1>2
<1>. HIDE DEF c, e, w
<1>. QED
  BY Zenon, <1>4, <1>5, <1>6, <1>7 DEF PageFits

\* What a step does to a pull task: nothing, its end, or a step of its own.
LEMMA PullEffect ==
  ASSUME TypeOK, Lifecycle, Pages, [Next]_vars, NEW n \in Nodes
  PROVE  \/ /\ pc'[n] = pc[n] /\ page'[n] = page[n] /\ done'[n] = done[n]
            /\ cursor'[n] = cursor[n] /\ epoch'[n] = epoch[n]
         \/ pc'[n] = "idle" /\ done'[n] = 0
         \/ pc'[n] = "save"
         \/ \E q \in Nodes : GetRelayOps(n, q)
         \/ LockLog(n) \/ AdmitEntry(n) \/ UnlockLog(n) \/ PoisonWriter(n)
<1>. USE DEF disk, keys, pull, memory
<1>. DEFINE Stays == /\ pc'[n] = pc[n] /\ page'[n] = page[n] /\ done'[n] = done[n]
                     /\ cursor'[n] = cursor[n] /\ epoch'[n] = epoch[n]
            Ends == pc'[n] = "idle" /\ done'[n] = 0
<1>1. ASSUME NEW m \in Nodes, PullStep(m), m # n
      PROVE  Stays
  <2>1. UNCHANGED epoch /\ page[m].peer \in Nodes
    BY Zenon, <1>1, PullFrame DEF TypeOK, PullType, Page
  <2>2. pc'[n] = pc[n] /\ page'[n] = page[n] /\ done'[n] = done[n]
    BY Zenon, <1>1 DEF PullStep, ResetCursor, LockLog, AdmitEntry, UnlockLog, PoisonWriter,
       MoveCursor, ApplyFails, SyncFails, SaveCursor, SaveFails, LosePage, EndPull,
       TypeOK, PullType
  <2>3. cursor'[n] = cursor[n]
    BY Zenon, <1>1, <2>1 DEF PullStep, ResetCursor, LockLog, AdmitEntry, UnlockLog,
       PoisonWriter, MoveCursor, ApplyFails, SyncFails, SaveCursor, SaveFails,
       LosePage, TypeOK, PullType
  <2>. QED
    BY Zenon, <2>1, <2>2, <2>3
<1>2. ASSUME PullStep(n)
      PROVE  \/ Ends \/ pc'[n] = "save"
             \/ LockLog(n) \/ AdmitEntry(n) \/ UnlockLog(n) \/ PoisonWriter(n)
  <2>1. CASE ResetCursor(n)
    BY Zenon, <2>1 DEF ResetCursor, TypeOK, PullType
  <2>2. CASE MoveCursor(n)
    BY Zenon, <2>2 DEF MoveCursor, EndPull, TypeOK, PullType
  <2>3. CASE \/ ApplyFails(n) \/ SyncFails(n) \/ SaveCursor(n) \/ SaveFails(n)
             \/ LosePage(n)
    BY Zenon, <2>3 DEF ApplyFails, SyncFails, SaveCursor, SaveFails, LosePage, EndPull,
       TypeOK, PullType
  <2>. QED
    BY Zenon, <1>2, <2>1, <2>2, <2>3 DEF PullStep
<1>3. ASSUME NEW m \in Nodes, Forget(m)
      PROVE  Stays \/ Ends
  BY Zenon, <1>3, ForgetEffect
<1>4. ASSUME NEW m \in Nodes, NEW q \in Nodes, Register(m, q)
      PROVE  Stays \/ Ends
  <2>1. UNCHANGED <<pc, page, done, epoch>> /\ mode[m] = "registering"
    BY Zenon, <1>4, RegisterFrame
  <2>2. CASE m = n
    BY Zenon, <2>1, <2>2 DEF Lifecycle, Pages
  <2>3. CASE m # n
    BY Zenon, <1>4, <2>1, <2>3, RegisterFrame DEF TypeOK, PullType
  <2>. QED
    BY Zenon, <2>2, <2>3
<1>5. ASSUME NEW m \in Nodes, Start(m)
      PROVE  Stays \/ Ends
  <2>1. UNCHANGED <<pc, page, done, cursor>> /\ mode[m] = "down"
    BY Zenon, <1>5 DEF Start
  <2>2. CASE m = n
    BY Zenon, <2>1, <2>2 DEF Lifecycle, Pages
  <2>3. CASE m # n
    BY Zenon, <1>5, <2>1, <2>3 DEF Start, TypeOK, DaemonType
  <2>. QED
    BY Zenon, <2>2, <2>3
<1>6. ASSUME NEW m \in Nodes,
             \/ ReplayFrame(m) \/ EndReplay(m) \/ EndRegistration(m)
             \/ LosePeersBin(m) \/ \E o \in Ops : Commit(m, o)
      PROVE  Stays
  BY Zenon, <1>6 DEF ReplayFrame, EndReplay, EndRegistration, LosePeersBin, Commit
<1>7. ASSUME NEW m \in Nodes, NEW q \in Nodes, GetRelayOps(m, q), m # n
      PROVE  Stays
  BY Zenon, <1>7 DEF GetRelayOps, TypeOK, PullType
<1>8. ASSUME NEW m \in Nodes, ExitOnReplay(m) \/ Crash(m)
      PROVE  Forget(m)
  BY Zenon, <1>8 DEF ExitOnReplay, Crash
<1>9. CASE UNCHANGED vars
  BY <1>9, ZenonT(30) DEF vars
<1>. QED
  BY Zenon, <1>1, <1>2, <1>3, <1>4, <1>5, <1>6, <1>7, <1>8, <1>9 DEF Next, StartUp

\* A page the peer built for the link's cursor continues it.
LEMMA NewPageFits ==
  ASSUME TypeOK, TypeOK', Lifecycle, Cursors, Pages, NEW n \in Nodes, NEW q \in Nodes,
         GetRelayOps(n, q), ~page'[n].reset
  PROVE  PageFits(n)'
<1>. USE DEF disk, keys, pull
<1>. DEFINE c == cursor[n][q]
            s == stream[epoch[q]]
            last == Smaller(c.after + PageLimit, Len(s))
<1>1. c \in Cursor /\ c.after \in Nat /\ epoch[q] \in Epochs
  BY Zenon DEF TypeOK, PullType, DaemonType, Cursor
<1>2. epoch[q] # 0 /\ epoch[q] \in 1 .. MaxEpoch
  BY <1>1, MeshAssumption, SMTT(30) DEF GetRelayOps, Serving, Lifecycle, Epochs
<1>3. s \in Seq(Ops) /\ Len(s) \in Nat /\ UNCHANGED <<stream, epoch, cursor, done>>
  BY Zenon, <1>2, LenProperties DEF TypeOK, ModelType, GetRelayOps
<1>4. page'[n] = [peer |-> q, epoch |-> epoch[q], reset |-> NeedsReset(c, q),
                  entries |-> IF NeedsReset(c, q) THEN <<>> ELSE RelayPage(q, c.after)]
  BY Zenon DEF GetRelayOps, TypeOK, PullType
<1>5. ~NeedsReset(c, q)
  BY <1>4, SMTT(30)
<1>6. c.epoch = 0 \/ c.epoch = epoch[q]
  BY Zenon, <1>5 DEF NeedsReset
<1>7. c.after <= Len(s)
  <2>1. c.epoch = 0 => c.after = 0
    BY Zenon DEF Cursors, Covered
  <2>. QED
    BY <1>1, <1>2, <1>3, <1>5, <1>6, <2>1, SMTT(30) DEF NeedsReset, Log
<1>8. page'[n].entries = SubSeq(s, c.after + 1, last)
  <2>1. RelayPage(q, c.after) = SubSeq(s, c.after + 1, last)
    BY <1>2, ZenonT(30) DEF RelayPage, Log
  <2>2. page'[n].entries = RelayPage(q, c.after)
    BY <1>4, <1>5, SMTT(30)
  <2>. QED
    BY Zenon, <2>1, <2>2
<1>. HIDE DEF c, s
<1>9. last \in Nat /\ last <= Len(s) /\ c.after <= last
  BY <1>1, <1>3, <1>7, MeshAssumption DEF Smaller
<1>. HIDE DEF last
<1>10. /\ Len(SubSeq(s, c.after + 1, last)) = last - c.after
       /\ \A i \in 1 .. last - c.after : SubSeq(s, c.after + 1, last)[i] = s[c.after + i]
  BY <1>1, <1>3, <1>9
<1>11. done[n] = 0
  BY Zenon DEF GetRelayOps, Pages
<1>12. stream'[page'[n].epoch] = s /\ cursor'[n][page'[n].peer] = c
       /\ page'[n].epoch = epoch[q] /\ done'[n] = 0
  <2>1. page'[n].epoch = epoch[q] /\ page'[n].peer = q
    BY <1>4
  <2>. QED
    BY <1>3, <1>11, <2>1, Zenon DEF c, s
<1>13. /\ c.after + Len(page'[n].entries) <= Len(s)
       /\ \A i \in 1 .. Len(page'[n].entries) : page'[n].entries[i] = s[c.after + i]
       /\ 0 <= Len(page'[n].entries) /\ 1 .. 0 = {}
  BY <1>1, <1>3, <1>8, <1>9, <1>10
<1>. QED
  BY <1>2, <1>6, <1>12, <1>13, Zenon DEF PageFits

\* Each step keeps the pages under way sound.
LEMMA PagesStep ==
  ASSUME TypeOK, TypeOK', Lifecycle, Files, Cursors, Pages, [Next]_vars
  PROVE  Pages'
<1>. USE DEF disk, keys, pull
<1>. SUFFICES ASSUME NEW n \in Nodes
             PROVE  /\ pc'[n] \in {"idle", "page"} => done'[n] = 0
                    /\ pc'[n] \in {"admit", "sync"} => ~page'[n].reset
                    /\ pc'[n] \in {"page", "admit", "sync"} /\ ~page'[n].reset
                         => PageFits(n)'
  BY Zenon DEF Pages
<1>1. CASE /\ pc'[n] = pc[n] /\ page'[n] = page[n] /\ done'[n] = done[n]
           /\ cursor'[n] = cursor[n] /\ epoch'[n] = epoch[n]
  BY Zenon, <1>1, PageStays DEF Pages
<1>2. CASE (pc'[n] = "idle" /\ done'[n] = 0) \/ pc'[n] = "save"
  BY Zenon, <1>2
<1>3. ASSUME NEW q \in Nodes, GetRelayOps(n, q)
      PROVE  /\ pc'[n] = "page" /\ done'[n] = 0
             /\ ~page'[n].reset => PageFits(n)'
  BY <1>3, NewPageFits, ZenonT(30) DEF GetRelayOps, TypeOK, PullType, Pages
<1>4. CASE LockLog(n) \/ UnlockLog(n) \/ PoisonWriter(n)
  <2>1. /\ UNCHANGED <<page, done, cursor, epoch>> /\ pc'[n] \in {"admit", "sync"}
        /\ ~page[n].reset /\ pc[n] \in {"page", "admit"}
    BY <1>4, ZenonT(30) DEF LockLog, UnlockLog, PoisonWriter, HasEntry, Pages, TypeOK, PullType
  <2>2. PageFits(n)'
    BY <2>1, PageStays, ZenonT(30) DEF Pages
  <2>. QED
    BY Zenon, <2>1, <2>2
<1>5. CASE AdmitEntry(n)
  <2>1. /\ UNCHANGED <<page, cursor, epoch, pc>> /\ pc[n] = "admit" /\ ~page[n].reset
        /\ done'[n] = done[n] + 1 /\ done[n] \in Nat /\ done[n] < Len(page[n].entries)
    BY Zenon, <1>5 DEF AdmitEntry, HasEntry, Pages, TypeOK, PullType
  <2>2. PageFits(n)
    BY Zenon, <2>1 DEF Pages
  <2>. DEFINE e == page[n].epoch
              c == cursor[n][page[n].peer]
              w == page[n].entries
  <2>3. c \in Cursor /\ w \in Seq(Ops) /\ e \in Epochs
    BY DEF TypeOK, PullType, Page
  <2>4. c.after \in Nat /\ Len(w) \in Nat /\ e \in 1 .. MaxEpoch
    <3>1. c.after \in Nat
      BY Zenon, <2>3 DEF Cursor
    <3>2. Len(w) \in Nat
      BY Zenon, <2>3, LenProperties
    <3>3. e # 0
      BY Zenon, <2>2 DEF PageFits
    <3>4. e \in 1 .. MaxEpoch
      BY <2>3, <3>3, MeshAssumption DEF Epochs
    <3>. QED  BY Zenon, <3>1, <3>2, <3>4
  <2>5. /\ Len(stream[e]) \in Nat /\ Len(stream'[e]) \in Nat
        /\ Len(stream[e]) <= Len(stream'[e])
        /\ \A i \in 1 .. Len(stream[e]) : stream'[e][i] = stream[e][i]
    BY Zenon, <2>4, LenProperties, StreamGrows DEF TypeOK, ModelType
  <2>6. /\ c.epoch = 0 \/ c.epoch = e
        /\ c.after + Len(w) <= Len(stream[e])
        /\ \A i \in 1 .. Len(w) : w[i] = stream[e][c.after + i]
        /\ \A i \in 1 .. done[n] : \E j \in 1 .. Len(Log(n)) : Log(n)[j] = w[i]
    BY <2>2, ZenonT(30) DEF PageFits
  <2>7. /\ c.after + Len(w) <= Len(stream'[e])
        /\ \A i \in 1 .. Len(w) : w[i] = stream'[e][c.after + i]
    <3>. HIDE DEF c, e, w
    <3>1. \A i \in 1 .. Len(w) : c.after + i \in 1 .. Len(stream[e])
      BY <2>4, <2>5, <2>6, SMTT(30)
    <3>2. ASSUME NEW i \in 1 .. Len(w) PROVE w[i] = stream'[e][c.after + i]
      <4>1. stream'[e][c.after + i] = stream[e][c.after + i]
        BY Zenon, <2>5, <3>1
      <4>. QED
        BY Zenon, <2>6, <4>1
    <3>3. c.after + Len(w) <= Len(stream'[e])
      BY <2>4, <2>5, <2>6
    <3>. QED
      BY Zenon, <3>2, <3>3
  <2>8. Len(Log(n)) \in Nat /\ Len(Log(n)') \in Nat
    BY LenProperties, MeshAssumption DEF Log, TypeOK, DaemonType, ModelType, Epochs
  <2>9. \A j \in 1 .. Len(Log(n)) : j \in 1 .. Len(Log(n)') /\ Log(n)'[j] = Log(n)[j]
    BY <2>1, <2>8, LogGrows
  <2>10. \E j \in 1 .. Len(Log(n)') : Log(n)'[j] = w[done[n] + 1]
    <3>1. w[done[n] + 1] \in Ops /\ w[done[n] + 1] = NextEntry(n)
      BY <2>1, <2>3, <2>4, SMTT(30) DEF NextEntry
    <3>2. epoch[n] # 0 /\ epoch'[n] = epoch[n]
      BY Zenon, <2>1 DEF Lifecycle
    <3>3. CASE IsNew(n, NextEntry(n))
      <4>1. Push(n, NextEntry(n))
        BY Zenon, <1>5, <3>3 DEF AdmitEntry
      <4>2. /\ Len(stream'[epoch[n]]) = Len(stream[epoch[n]]) + 1
            /\ stream'[epoch[n]][Len(stream[epoch[n]]) + 1] = NextEntry(n)
        BY Zenon, <3>1, <3>2, <4>1, PushEffect
      <4>3. Len(Log(n)) + 1 \in 1 .. Len(Log(n)')
            /\ Log(n)'[Len(Log(n)) + 1] = NextEntry(n)
        BY <2>8, <3>2, <4>2, SMTT(30) DEF Log
      <4>. QED
        BY Zenon, <3>1, <4>3
    <3>4. CASE ~IsNew(n, NextEntry(n))
      <4>1. \E j \in DOMAIN Log(n) : Log(n)[j] = NextEntry(n)
        BY Zenon, <3>4 DEF IsNew, SeqElems
      <4>2. DOMAIN Log(n) = 1 .. Len(Log(n))
        BY LenProperties, MeshAssumption DEF Log, TypeOK, DaemonType, ModelType, Epochs
      <4>. QED
        BY Zenon, <2>9, <3>1, <4>1, <4>2
    <3>. QED
      BY Zenon, <3>3, <3>4
  <2>11. ASSUME NEW i \in 1 .. done[n] + 1
         PROVE  \E j \in 1 .. Len(Log(n)') : Log(n)'[j] = w[i]
    <3>1. CASE i = done[n] + 1
      BY Zenon, <2>10, <3>1
    <3>2. CASE i # done[n] + 1
      <4>1. i \in 1 .. done[n]
        BY <2>1, <3>2
      <4>. QED
        BY Zenon, <2>6, <2>9, <4>1
    <3>. QED
      BY Zenon, <3>1, <3>2
  <2>12. page'[n].epoch = e /\ page'[n].entries = w /\ cursor'[n][page'[n].peer] = c
         /\ e # 0 /\ done'[n] <= Len(w)
    BY <2>1, <2>4
  <2>13. PageFits(n)'
    <3>. HIDE DEF c, e, w
    <3>. QED
      BY Zenon, <2>1, <2>6, <2>7, <2>11, <2>12 DEF PageFits
  <2>. QED
    BY Zenon, <2>1, <2>13
<1>. QED
  BY Zenon, <1>1, <1>2, <1>3, <1>4, <1>5, PullEffect

\* While no key file is lost, the saved keys only grow.
LEMMA PeersGrow ==
  ASSUME TypeOK, Lifecycle, KeysSaved, [Next]_vars, ~KeyFileLoss, NEW n \in Nodes
  PROVE  peersBin[n] \subseteq peersBin'[n]
<1>. USE DEF disk, keys, pull, memory
<1>1. ASSUME NEW m \in Nodes, NEW q \in Nodes, Register(m, q)
      PROVE  peersBin[n] \subseteq peersBin'[n]
  <2>1. peersBin[m] \subseteq registry[m]
    BY Zenon, <1>1, RegisterFrame DEF KeysSaved
  <2>2. CASE RegisterPeer(m, q) \/ CallerNotSaved(m, q)
    <3>1. peersBin' = [peersBin EXCEPT ![m] = IF q \in registry[m] THEN @
                                              ELSE registry[m] \cup {q}]
      BY Zenon, <2>2 DEF RegisterPeer, CallerNotSaved
    <3>. QED
      BY Zenon, <2>1, <3>1 DEF TypeOK, DiskType
  <2>3. CASE LearnDevices(m, q)
    BY Zenon, <2>1, <2>3 DEF LearnDevices, TypeOK, DiskType
  <2>4. CASE SkipPeer(m, q) \/ PeerKeyNotSaved(m, q) \/ LearnNothing(m, q)
    BY <2>4, ZenonT(30) DEF SkipPeer, PeerKeyNotSaved, LearnNothing
  <2>. QED
    BY Zenon, <1>1, <2>2, <2>3, <2>4 DEF Register
<1>2. ASSUME NEW m \in Nodes,
             \/ StartUp(m) \/ Crash(m) \/ (\E r \in Nodes : GetRelayOps(m, r))
             \/ \E o \in Ops : Commit(m, o)
      PROVE  UNCHANGED peersBin
  BY <1>2, ZenonT(30) DEF StartUp, Start, ReplayFrame, EndReplay, ExitOnReplay,
     EndRegistration, Crash, GetRelayOps, Commit
<1>3. ASSUME NEW m \in Nodes, PullStep(m)
      PROVE  UNCHANGED peersBin
  BY Zenon, <1>3, PullFrame
<1>4. ASSUME NEW m \in Nodes, LosePeersBin(m)
      PROVE  FALSE
  BY Zenon, <1>4 DEF LosePeersBin
<1>5. CASE UNCHANGED vars
  BY Zenon, <1>5 DEF vars
<1>. QED
  BY Zenon, <1>1, <1>2, <1>3, <1>4, <1>5 DEF Next

\* Each step but a lost key file keeps what a restart replays.
LEMMA ReplayedStep ==
  ASSUME TypeOK, TypeOK', Lifecycle, Files, KeysSaved, Replayed, [Next]_vars,
         ~KeyFileLoss
  PROVE  Replayed'
<1>. USE DEF disk, keys, pull, memory
<1>. SUFFICES ASSUME NEW n \in Nodes, NEW k \in 1 .. Len(file'[n]), file'[n][k] # Torn
             PROVE  /\ Author[file'[n][k]] \in peersBin'[n] \cup {n}
                    /\ \/ mode'[n] \in {"registering", "rereplaying", "running"}
                       \/ mode'[n] = "replaying" /\ k < pos'[n]
                       => \E i \in 1 .. Len(Log(n)') : Log(n)'[i] = file'[n][k]
  BY Zenon DEF Replayed
<1>. DEFINE o == file'[n][k]
            InLog == \E i \in 1 .. Len(Log(n)) : Log(n)[i] = o
            Known == \E i \in 1 .. Len(Log(n)') : Log(n)'[i] = o
<1>a. Len(Log(n)) \in Nat /\ Len(Log(n)') \in Nat /\ DOMAIN Log(n) = 1 .. Len(Log(n))
  BY LenProperties, MeshAssumption DEF Log, TypeOK, DaemonType, ModelType, Epochs
<1>b. peersBin[n] \subseteq peersBin'[n]
  BY Zenon, PeersGrow
<1>c. ASSUME InLog, epoch'[n] = epoch[n]
      PROVE  Known
  BY <1>a, <1>c, LogGrows, SMTT(30)
<1>d. ASSUME epoch[n] # 0, epoch'[n] = epoch[n], o \in Ops, Push(n, o)
      PROVE  Known
  <2>1. /\ Len(stream'[epoch[n]]) = Len(stream[epoch[n]]) + 1
        /\ stream'[epoch[n]][Len(stream[epoch[n]]) + 1] = o
    BY Zenon, <1>d, PushEffect
  <2>2. Len(Log(n)) + 1 \in 1 .. Len(Log(n)') /\ Log(n)'[Len(Log(n)) + 1] = o
    BY <1>a, <1>d, <2>1 DEF Log
  <2>. QED
    BY Zenon, <2>2
<1>1. CASE /\ mode[n] = "running" /\ epoch[n] # 0 /\ UNCHANGED <<mode, epoch>>
           /\ o \in Ops /\ Push(n, o) /\ Author[o] \in registry[n] \cup {n}
  <2>1. Author[o] \in peersBin'[n] \cup {n}
    BY Zenon, <1>1, <1>b DEF KeysSaved
  <2>. QED
    BY Zenon, <1>1, <1>d, <2>1
<1>2. CASE k \in 1 .. Len(file[n]) /\ o = file[n][k]
  <2>1. Author[o] \in peersBin[n] \cup {n}
    BY Zenon, <1>2 DEF Replayed
  <2>2. Author[o] \in peersBin'[n] \cup {n}
    BY Zenon, <1>b, <2>1
  <2>3. ASSUME \/ mode[n] \in {"registering", "rereplaying", "running"}
               \/ mode[n] = "replaying" /\ k < pos[n]
        PROVE  InLog
    <3>1. k \in 1 .. Len(file[n]) /\ o = file[n][k] /\ file[n][k] # Torn
      BY Zenon, <1>2
    <3>. HIDE DEF o
    <3>. QED
      BY <2>3, <3>1, Zenon DEF Replayed
  <2>. SUFFICES ASSUME \/ mode'[n] \in {"registering", "rereplaying", "running"}
                       \/ mode'[n] = "replaying" /\ k < pos'[n]
                PROVE  Known
    BY Zenon, <2>2
  <2>4. CASE ReplayFrame(n)
    <3>1. /\ mode' = mode /\ epoch' = epoch /\ pos'[n] = pos[n] + 1 /\ pos[n] \in Nat
          /\ epoch[n] # 0 /\ mode[n] # "down"
      BY Zenon, <2>4 DEF ReplayFrame, Lifecycle, TypeOK, DaemonType
    <3>2. CASE k = pos[n] /\ mode[n] = "replaying"
      <4>1. Author[o] \in registry[n]
        BY Zenon, <2>1, <3>1 DEF KeysSaved
      <4>2. o \in Ops
        <5>1. file[n] \in Seq(Ops \cup {Torn}) /\ k \in 1 .. Len(file[n])
          BY Zenon, <1>2 DEF TypeOK, DiskType
        <5>. QED
          BY <1>2, <5>1
      <4>3. CASE o \in SeqElems(Log(n))
        BY Zenon, <1>a, <1>c, <3>1, <4>3 DEF SeqElems
      <4>4. CASE o \notin SeqElems(Log(n))
        <5>1. Push(n, o)
          BY Zenon, <1>2, <2>4, <3>2, <4>1, <4>4 DEF ReplayFrame
        <5>. QED
          BY Zenon, <1>d, <3>1, <4>2, <5>1
      <4>. QED
        BY Zenon, <4>3, <4>4
    <3>3. CASE ~(k = pos[n] /\ mode[n] = "replaying")
      <4>1. \/ mode[n] \in {"registering", "rereplaying", "running"}
            \/ mode[n] = "replaying" /\ k < pos[n]
        BY <3>1, <3>3
      <4>. QED
        BY Zenon, <1>c, <2>3, <3>1, <4>1
    <3>. QED
      BY Zenon, <3>2, <3>3
  <2>5. CASE Start(n)
    BY <2>5, SMTT(30) DEF Start, TypeOK, DaemonType
  <2>6. CASE EndReplay(n)
    <3>1. Replaying(n) /\ AtTail(n) /\ TruncateTail(n) /\ UNCHANGED epoch
      BY Zenon, <2>6 DEF EndReplay, Replaying
    <3>2. k <= pos[n] - 1 /\ pos[n] \in Nat
      <4>1. Len(file'[n]) = pos[n] - 1
        BY <3>1, TruncateEffect, Zenon
      <4>2. pos[n] \in Nat
        BY Zenon DEF TypeOK, DaemonType
      <4>. HIDE DEF o, InLog, Known
      <4>. QED
        BY <4>1, <4>2
    <3>3. InLog
      <4>1. k < pos[n]
        <5>. HIDE DEF InLog
        <5>. QED
          BY <3>2
      <4>. QED
        BY <2>3, <3>1, <4>1, Zenon DEF Replaying
    <3>. QED
      BY Zenon, <1>c, <3>1, <3>3
  <2>7. CASE EndRegistration(n)
    <3>1. mode[n] = "registering" /\ UNCHANGED epoch
      BY Zenon, <2>7 DEF EndRegistration
    <3>. QED
      BY Zenon, <1>c, <2>3, <3>1
  <2>8. CASE mode'[n] = mode[n] /\ epoch'[n] = epoch[n] /\ pos'[n] = pos[n]
    BY Zenon, <1>c, <2>3, <2>8
  <2>9. CASE mode'[n] = "down"
    BY Zenon, <2>9
  <2>. QED
    BY Zenon, <2>4, <2>5, <2>6, <2>7, <2>8, <2>9, ModeEffect
<1>. QED
  BY Zenon, <1>1, <1>2, FrameEffect

(***************************************************************************)
(* The invariant and the theorems.                                         *)
(***************************************************************************)

\* The inductive invariant.
IInv ==
  /\ TypeOK /\ Lifecycle /\ Files /\ KeysSaved /\ LogInFile /\ FilesCreated
  /\ Cursors /\ Pages
  /\ KeyFileLoss \/ Replayed

\* The types hold before the first start.
LEMMA TypeInit ==
  ASSUME Init
  PROVE  TypeOK
<1>. USE MeshAssumption DEF Init
<1>1. START \in Cursor /\ 0 \in Epochs
  BY DEF START, Cursor, Epochs
<1>2. DiskType
  BY <1>1 DEF DiskType
<1>3. DaemonType
  BY <1>1 DEF DaemonType, Modes
<1>4. KeysType
  BY Zenon DEF KeysType
<1>5. PullType
  BY Zenon, <1>1, NoPageType DEF PullType
<1>6. ModelType
  BY <1>1 DEF ModelType
<1>. QED
  BY Zenon, <1>2, <1>3, <1>4, <1>5, <1>6 DEF TypeOK

\* The invariant holds before the first start.
LEMMA InvariantInit ==
  ASSUME Init
  PROVE  IInv
<1>. USE DEF Init
<1>1. TypeOK
  BY Zenon, TypeInit
<1>2. Lifecycle
  BY MeshAssumption DEF Lifecycle
<1>3. Files
  BY DEF Files, FileFits, Replaying
<1>4. KeysSaved /\ LogInFile /\ FilesCreated /\ Replayed
  BY DEF KeysSaved, LogInFile, FilesCreated, Replayed, Log
<1>5. Cursors
  BY Zenon DEF Cursors, Covered, START
<1>6. Pages
  BY Zenon DEF Pages
<1>. QED
  BY Zenon, <1>1, <1>2, <1>3, <1>4, <1>5, <1>6 DEF IInv

\* Every step of every daemon keeps the invariant.
LEMMA InvariantStep ==
  ASSUME IInv, [Next]_vars
  PROVE  IInv'
<1>1. TypeOK'
  BY Zenon, TypeStep DEF IInv
<1>2. Lifecycle'
  BY Zenon, <1>1, LifecycleStep DEF IInv
<1>3. Files'
  BY Zenon, <1>1, FilesStep DEF IInv
<1>4. KeysSaved'
  BY Zenon, KeysStep DEF IInv
<1>5. LogInFile'
  BY Zenon, <1>1, <1>2, LogInFileStep DEF IInv
<1>6. FilesCreated'
  BY Zenon, <1>1, FilesCreatedStep DEF IInv
<1>7. Cursors'
  BY Zenon, <1>1, CursorsStep DEF IInv
<1>8. Pages'
  BY Zenon, <1>1, PagesStep DEF IInv
<1>9. KeyFileLoss' \/ Replayed'
  BY Zenon, <1>1, ReplayedStep DEF IInv
<1>. QED
  BY Zenon, <1>1, <1>2, <1>3, <1>4, <1>5, <1>6, <1>7, <1>8, <1>9 DEF IInv

\* The invariant holds in every state of every mesh.
THEOREM Invariance == Spec => []IInv
<1>1. Init => IInv
  BY Zenon, InvariantInit
<1>2. IInv /\ [Next]_vars => IInv'
  BY Zenon, InvariantStep
<1>. QED
  BY <1>1, <1>2, PTL DEF Spec

\* The types hold in every state of every mesh.
THEOREM TypeCorrect == Spec => []TypeOK
<1>1. IInv => TypeOK
  BY Zenon DEF IInv
<1>. QED
  BY <1>1, Invariance, PTL

\* DurableOps and Durable say the same of a daemon's file.
LEMMA DurableOpsMembers ==
  ASSUME NEW n \in Nodes, NEW o
  PROVE  o \in DurableOps(n) <=> Durable(file[n], synced[n], o)
  BY Zenon DEF DurableOps, DurableFrames, Durable

\* durable.rs: a saved cursor never points past an operation that a crash can
\* take, for any number of daemons, restarts and failures.
THEOREM PersistedCursorSafe == Spec => []PersistedCursorCovered
<1>1. IInv => PersistedCursorCovered
  <2>. SUFFICES ASSUME IInv, NEW n \in Nodes, NEW q \in Nodes,
                       cursorFile[n][q].epoch # 0
               PROVE  LET c == cursorFile[n][q]
                      IN /\ c.after <= Len(stream[c.epoch])
                         /\ \A i \in 1 .. c.after : stream[c.epoch][i] \in DurableOps(n)
    BY Zenon DEF PersistedCursorCovered
  <2>1. Covered(stream, file[n], synced[n], cursorFile[n][q])
    BY Zenon DEF IInv, Cursors
  <2>. QED
    BY Zenon, <2>1, DurableOpsMembers DEF Covered
<1>. QED
  BY <1>1, Invariance, PTL

\* durable.rs: no frame is ever written behind a torn one.
THEOREM TornOnlyLast == Spec => []NoFrameBehindTear
<1>1. IInv => NoFrameBehindTear
  <2>. SUFFICES ASSUME IInv, NEW n \in Nodes, NEW i \in DOMAIN file[n],
                       file[n][i] = Torn
               PROVE  i = Len(file[n])
    BY Zenon DEF NoFrameBehindTear
  <2>1. DOMAIN file[n] = 1 .. Len(file[n])
    BY Zenon, LenProperties DEF IInv, TypeOK, DiskType
  <2>. QED
    BY Zenon, <2>1 DEF IInv, Files, FileFits
<1>. QED
  BY <1>1, Invariance, PTL

\* pnsd.rs: while peers.bin is not lost, a running daemon has in memory everything
\* that its links' cursors have passed.
THEOREM LinkCursorSafe == ~KeyFileLoss => (Spec => []LinkCursorCovered)
<1>. SUFFICES ASSUME ~KeyFileLoss
             PROVE  Spec => []LinkCursorCovered
  BY Zenon
<1>1. IInv => LinkCursorCovered
  <2>. SUFFICES ASSUME IInv, NEW n \in Nodes, NEW q \in links[n],
                       mode[n] = "running", cursor[n][q].epoch # 0
               PROVE  LET c == cursor[n][q]
                      IN /\ c.after <= Len(stream[c.epoch])
                         /\ \A i \in 1 .. c.after :
                              stream[c.epoch][i] \in SeqElems(Log(n))
    BY Zenon DEF LinkCursorCovered
  <2>. DEFINE c == cursor[n][q]
  <2>1. q \in Nodes
    BY Zenon DEF IInv, TypeOK, KeysType
  <2>2. Covered(stream, file[n], synced[n], c)
    BY Zenon, <2>1 DEF IInv, Cursors
  <2>3. ASSUME NEW i \in 1 .. c.after
        PROVE  stream[c.epoch][i] \in SeqElems(Log(n))
    <3>1. PICK k \in 1 .. synced[n] :
            file[n][k] = stream[c.epoch][i] /\ \A j \in 1 .. k : file[n][j] # Torn
      BY Zenon, <2>2, <2>3 DEF Covered, Durable
    <3>2. k \in 1 .. Len(file[n]) /\ k \in 1 .. k
      BY <3>1, LenProperties, SMTT(30) DEF IInv, Files, FileFits, TypeOK, DiskType
    <3>3. \E j \in 1 .. Len(Log(n)) : Log(n)[j] = file[n][k]
      BY <3>1, <3>2, ZenonT(30) DEF IInv, Replayed
    <3>4. DOMAIN Log(n) = 1 .. Len(Log(n))
      <4>1. epoch[n] \in Epochs /\ stream \in [1 .. MaxEpoch -> Seq(Ops)]
        BY Zenon DEF IInv, TypeOK, DaemonType, ModelType
      <4>2. Log(n) \in Seq(Ops)
        BY <4>1, MeshAssumption DEF Log, Epochs
      <4>. QED
        BY Zenon, <4>2, LenProperties
    <3>. QED
      BY Zenon, <3>1, <3>3, <3>4 DEF SeqElems
  <2>. QED
    BY Zenon, <2>2, <2>3 DEF Covered
<1>. QED
  BY <1>1, Invariance, PTL

-----------------------------------------------------------------------------
(***************************************************************************)
(* RelayMesh implements ReplicaSet: a commit creates an operation, an      *)
(* fsync keeps a batch, and every other step is invisible.                 *)
(***************************************************************************)

Created == UNION {SeqElems(stream[e]) : e \in 1 .. MaxEpoch}
Held    == [n \in Nodes |-> DurableOps(n)]

\* An operation is created when some stream holds it.
LEMMA CreatedMembers ==
  ASSUME TypeOK, NEW o
  PROVE  o \in Created <=>
           \E e \in 1 .. MaxEpoch : \E i \in 1 .. Len(stream[e]) : stream[e][i] = o
<1>1. \A e \in 1 .. MaxEpoch : DOMAIN stream[e] = 1 .. Len(stream[e])
  BY Zenon, LenProperties DEF TypeOK, ModelType
<1>. QED
  BY <1>1 DEF Created, SeqElems

\* An operation that enters a log is created from then on, and no other is.
LEMMA PushCreates ==
  ASSUME TypeOK, TypeOK', NEW n \in Nodes, NEW o \in Ops, epoch[n] # 0, Push(n, o)
  PROVE  Created' = Created \cup {o}
<1>1. /\ epoch[n] \in 1 .. MaxEpoch
      /\ Len(stream'[epoch[n]]) = Len(stream[epoch[n]]) + 1
      /\ \A i \in 1 .. Len(stream[epoch[n]]) :
           stream'[epoch[n]][i] = stream[epoch[n]][i]
      /\ stream'[epoch[n]][Len(stream[epoch[n]]) + 1] = o
      /\ \A e \in 1 .. MaxEpoch : e # epoch[n] => stream'[e] = stream[e]
  BY Zenon, PushEffect
<1>2. Len(stream[epoch[n]]) \in Nat
  BY Zenon, <1>1, LenProperties DEF TypeOK, ModelType
<1>3. ASSUME NEW x
      PROVE  x \in Created' <=>
        \E e \in 1 .. MaxEpoch : \E i \in 1 .. Len(stream'[e]) : stream'[e][i] = x
  <2>1. \A e \in 1 .. MaxEpoch : DOMAIN stream'[e] = 1 .. Len(stream'[e])
    BY Zenon, LenProperties DEF TypeOK, ModelType
  <2>. QED
    BY <2>1 DEF Created, SeqElems
<1>4. ASSUME NEW x \in Created'
      PROVE  x \in Created \cup {o}
  <2>1. PICK e \in 1 .. MaxEpoch : \E i \in 1 .. Len(stream'[e]) : stream'[e][i] = x
    BY Zenon, <1>3, <1>4
  <2>2. PICK i \in 1 .. Len(stream'[e]) : stream'[e][i] = x
    BY Zenon, <2>1
  <2>3. CASE e # epoch[n]
    BY Zenon, <1>1, <2>1, <2>2, <2>3, CreatedMembers
  <2>4. CASE e = epoch[n] /\ i = Len(stream[e]) + 1
    BY Zenon, <1>1, <2>2, <2>4
  <2>5. CASE e = epoch[n] /\ i # Len(stream[e]) + 1
    <3>1. i \in 1 .. Len(stream[e]) /\ stream[e][i] = x
      BY <1>1, <1>2, <2>2, <2>5
    <3>. QED
      BY Zenon, <3>1, CreatedMembers
  <2>. QED
    BY Zenon, <2>3, <2>4, <2>5
<1>5. o \in Created'
  <2>1. Len(stream[epoch[n]]) + 1 \in 1 .. Len(stream'[epoch[n]])
    BY <1>1, <1>2
  <2>. QED
    BY Zenon, <1>1, <1>3, <2>1
<1>6. ASSUME NEW x \in Created
      PROVE  x \in Created'
  <2>1. PICK e \in 1 .. MaxEpoch : \E i \in 1 .. Len(stream[e]) : stream[e][i] = x
    BY Zenon, <1>6, CreatedMembers
  <2>2. PICK i \in 1 .. Len(stream[e]) : stream[e][i] = x
    BY Zenon, <2>1
  <2>3. i \in 1 .. Len(stream'[e]) /\ stream'[e][i] = x
    <3>1. CASE e # epoch[n]
      BY Zenon, <1>1, <2>2, <3>1
    <3>2. CASE e = epoch[n]
      BY <1>1, <1>2, <2>2, <3>2
    <3>. QED
      BY Zenon, <3>1, <3>2
  <2>. QED
    BY Zenon, <1>3, <2>3
<1>. QED
  BY Zenon, <1>4, <1>5, <1>6

\* Only an fsync makes frames durable: apart from it, a synced frame was synced
\* before.
LEMMA FramesBefore ==
  ASSUME TypeOK, Lifecycle, Files, Next, NEW n \in Nodes,
         ~(MoveCursor(n) \/ ApplyFails(n)), NEW k \in 1 .. synced'[n]
  PROVE  k \in 1 .. synced[n] /\ file'[n][k] = file[n][k]
<1>. USE MeshAssumption DEF disk, keys, pull, memory
<1>. DEFINE Same == k \in 1 .. synced[n] /\ file'[n][k] = file[n][k]
<1>. SUFFICES Same
  BY Zenon
<1>a. /\ Len(file[n]) \in Nat /\ synced[n] \in Nat /\ pos[n] \in Nat
      /\ synced[n] <= Len(file[n])
  BY Zenon, LenProperties DEF TypeOK, DiskType, DaemonType, Files, FileFits
<1>0. CASE file'[n] = file[n] /\ synced'[n] = synced[n]
  BY Zenon, <1>0
<1>1. ASSUME NEW m \in Nodes, NEW x \in Ops \cup {Torn},
             file' = [file EXCEPT ![m] = Append(@, x)], UNCHANGED synced
      PROVE  Same
  BY <1>1, <1>a, AppendEffect
<1>2. ASSUME NEW m \in Nodes, EndReplay(m) \/ ExitOnReplay(m)
      PROVE  Same
  <2>1. Replaying(m) /\ AtTail(m) /\ TruncateTail(m)
    BY Zenon, <1>2 DEF EndReplay, ExitOnReplay, Replaying
  <2>2. CASE m = n
    <3>1. /\ synced'[n] = Smaller(synced[n], pos[n] - 1)
          /\ \A j \in 1 .. pos[n] - 1 : file'[n][j] = file[n][j]
      BY Zenon, <2>1, <2>2, TruncateEffect
    <3>. QED
      BY <1>a, <3>1 DEF Smaller
  <2>3. CASE m # n
    BY <1>0, <2>1, <2>3, TruncateEffect
  <2>. QED
    BY Zenon, <2>2, <2>3
<1>3. ASSUME NEW m \in Nodes, Crash(m)
      PROVE  Same
  <2>1. CASE m = n
    BY <1>3, <1>a, <2>1, CrashEffect
  <2>2. CASE m # n
    BY Zenon, <1>0, <1>3, <2>2, CrashEffect
  <2>. QED
    BY Zenon, <2>1, <2>2
<1>4. ASSUME NEW m \in Nodes, PullStep(m)
      PROVE  Same
  <2>1. CASE AdmitEntry(m)
    <3>1. NextEntry(m) \in Ops
      BY Zenon, <2>1, NextEntryType DEF AdmitEntry
    <3>. QED
      BY Zenon, <1>0, <1>1, <2>1, <3>1 DEF AdmitEntry
  <2>2. CASE PoisonWriter(m)
    BY Zenon, <1>0, <1>1, <2>2 DEF PoisonWriter
  <2>3. CASE MoveCursor(m) \/ ApplyFails(m)
    <3>1. m # n
      BY Zenon, <2>3
    <3>. QED
      BY Zenon, <1>0, <2>3, <3>1 DEF MoveCursor, ApplyFails, Fsync, TypeOK, DiskType
  <2>. QED
    BY Zenon, <1>0, <1>4, <2>1, <2>2, <2>3 DEF PullStep, ResetCursor, LockLog, UnlockLog,
       SyncFails, SaveCursor, SaveFails, LosePage
<1>5. ASSUME NEW m \in Nodes, NEW o \in Ops, Commit(m, o)
      PROVE  Same
  BY <1>1, <1>5, ZenonT(30) DEF Commit
<1>6. ASSUME NEW m \in Nodes, \/ Start(m) \/ ReplayFrame(m) \/ EndRegistration(m)
                              \/ LosePeersBin(m) \/ \E q \in Nodes : GetRelayOps(m, q)
      PROVE  Same
  BY Zenon, <1>0, <1>6 DEF Start, ReplayFrame, EndRegistration, LosePeersBin, GetRelayOps
<1>7. ASSUME NEW m \in Nodes, NEW q \in Nodes, Register(m, q)
      PROVE  Same
  BY Zenon, <1>0, <1>7, RegisterFrame
<1>. HIDE DEF Same
<1>. QED
  BY Zenon, <1>2, <1>3, <1>4, <1>5, <1>6, <1>7 DEF Next, StartUp

\* What a daemon holds stays what it is, except where it forces frames to disk.
LEMMA HeldSame ==
  ASSUME IInv, IInv', Next, NEW n \in Nodes, ~(MoveCursor(n) \/ ApplyFails(n))
  PROVE  DurableOps(n)' = DurableOps(n)
<1>1. ASSUME NEW o, Durable(file'[n], synced'[n], o)
      PROVE  Durable(file[n], synced[n], o)
  <2>1. PICK k \in 1 .. synced'[n] :
          file'[n][k] = o /\ \A j \in 1 .. k : file'[n][j] # Torn
    BY Zenon, <1>1 DEF Durable
  <2>2. \A j \in 1 .. k : j \in 1 .. synced'[n]
    BY <2>1 DEF IInv, TypeOK, DiskType
  <2>3. \A j \in 1 .. k : j \in 1 .. synced[n] /\ file'[n][j] = file[n][j]
    BY Zenon, <2>2, FramesBefore DEF IInv
  <2>4. k \in 1 .. k
    BY <2>1 DEF IInv, TypeOK, DiskType
  <2>. QED
    BY Zenon, <2>1, <2>3, <2>4 DEF Durable
<1>2. ASSUME NEW o, Durable(file[n], synced[n], o)
      PROVE  Durable(file'[n], synced'[n], o)
  BY Zenon, <1>2, DurableStays DEF IInv
<1>3. \A o : o \in DurableOps(n)' <=> Durable(file'[n], synced'[n], o)
  BY Zenon DEF DurableOps, DurableFrames, Durable
<1>4. \A o : o \in DurableOps(n) <=> Durable(file[n], synced[n], o)
  BY Zenon, DurableOpsMembers
<1>. QED
  BY Zenon, <1>1, <1>2, <1>3, <1>4

\* What a daemon holds was created.
LEMMA HeldCreated ==
  ASSUME IInv, NEW n \in Nodes
  PROVE  DurableOps(n) \subseteq Created /\ DurableOps(n) \subseteq Ops
<1>. SUFFICES ASSUME NEW o \in DurableOps(n)
             PROVE  o \in Created /\ o \in Ops
  BY Zenon
<1>1. PICK k \in 1 .. synced[n] : file[n][k] = o /\ \A j \in 1 .. k : file[n][j] # Torn
  BY Zenon, DurableOpsMembers DEF Durable
<1>2. k \in 1 .. Len(file[n]) /\ k \in 1 .. k
  BY <1>1, LenProperties DEF IInv, TypeOK, DiskType, Files, FileFits
<1>3. o # Torn /\ o \in Ops
  BY <1>1, <1>2 DEF IInv, TypeOK, DiskType
<1>4. o \in Created
  BY Zenon, <1>1, <1>2, <1>3, CreatedMembers DEF IInv, FilesCreated
<1>. QED
  BY Zenon, <1>3, <1>4

\* Only a commit creates an operation.
LEMMA CreatedSame ==
  ASSUME IInv, IInv', Next, ~\E n \in Nodes, o \in Ops : Commit(n, o)
  PROVE  Created' = Created
<1>. USE DEF disk, keys, pull, memory
<1>0. CASE UNCHANGED stream
  BY Zenon, <1>0 DEF Created
<1>1. ASSUME NEW n \in Nodes, NEW o \in Ops, o \in Created, epoch[n] # 0, Push(n, o)
      PROVE  Created' = Created
  BY Zenon, <1>1, PushCreates DEF IInv
<1>2. ASSUME NEW n \in Nodes, ReplayFrame(n)
      PROVE  Created' = Created
  <2>1. pos[n] \in 1 .. Len(file[n]) /\ file[n][pos[n]] \in Ops /\ file[n][pos[n]] # Torn
    BY <1>2, SMTT(30) DEF IInv, TypeOK, DiskType, DaemonType, ReplayFrame, AtTail
  <2>2. file[n][pos[n]] \in Created
    BY Zenon, <2>1, CreatedMembers DEF IInv, FilesCreated
  <2>3. epoch[n] # 0
    BY Zenon, <1>2 DEF IInv, Lifecycle, ReplayFrame
  <2>. QED
    BY Zenon, <1>0, <1>1, <1>2, <2>1, <2>2, <2>3 DEF ReplayFrame
<1>3. ASSUME NEW n \in Nodes, AdmitEntry(n)
      PROVE  Created' = Created
  <2>1. PageFits(n) /\ epoch[n] # 0
    BY Zenon, <1>3 DEF IInv, Pages, Lifecycle, AdmitEntry, HasEntry
  <2>. DEFINE e == page[n].epoch
              c == cursor[n][page[n].peer]
              w == page[n].entries
              i == done[n] + 1
  <2>2. c \in Cursor /\ w \in Seq(Ops) /\ e \in Epochs /\ done[n] \in Nat
    BY DEF IInv, TypeOK, PullType, Page
  <2>3. c.after \in Nat /\ Len(w) \in Nat /\ e \in 1 .. MaxEpoch
    <3>1. c.after \in Nat
      BY Zenon, <2>2 DEF Cursor
    <3>2. Len(w) \in Nat
      BY Zenon, <2>2, LenProperties
    <3>3. e # 0
      BY <2>1, ZenonT(30) DEF PageFits
    <3>4. e \in 1 .. MaxEpoch
      BY <2>2, <3>3, MeshAssumption, SMTT(30) DEF Epochs
    <3>. QED  BY Zenon, <3>1, <3>2, <3>4
  <2>4. i \in 1 .. Len(w) /\ w[i] = NextEntry(n)
    <3>1. done[n] < Len(w) /\ w[i] = NextEntry(n)
      BY Zenon, <1>3 DEF AdmitEntry, HasEntry, NextEntry
    <3>. QED  BY <2>2, <2>3, <3>1, SMTT(30)
  <2>5. /\ c.after + Len(w) <= Len(stream[e])
        /\ \A j \in 1 .. Len(w) : w[j] = stream[e][c.after + j]
    BY <2>1, ZenonT(30) DEF PageFits
  <2>6. Len(stream[e]) \in Nat
    BY Zenon, <2>3, LenProperties DEF IInv, TypeOK, ModelType
  <2>. HIDE DEF c, e, w, i
  <2>7. NextEntry(n) \in Ops
    BY <2>2, <2>4
  <2>8. c.after + i \in 1 .. Len(stream[e]) /\ stream[e][c.after + i] = NextEntry(n)
    BY <2>3, <2>4, <2>5, <2>6
  <2>9. NextEntry(n) \in Created
    BY Zenon, <2>3, <2>8, CreatedMembers DEF IInv
  <2>. QED
    BY Zenon, <1>0, <1>1, <1>3, <2>1, <2>7, <2>9 DEF AdmitEntry
<1>4. ASSUME NEW n \in Nodes,
             \/ Start(n) \/ EndReplay(n) \/ ExitOnReplay(n) \/ EndRegistration(n)
             \/ \E q \in Nodes : GetRelayOps(n, q)
             \/ Crash(n) \/ LosePeersBin(n)
      PROVE  UNCHANGED stream
  BY Zenon, <1>4 DEF Start, EndReplay, ExitOnReplay, EndRegistration, GetRelayOps,
     Crash, LosePeersBin
<1>5. ASSUME NEW n \in Nodes, PullStep(n), ~AdmitEntry(n)
      PROVE  UNCHANGED stream
  BY Zenon, <1>5 DEF PullStep, ResetCursor, LockLog, UnlockLog, PoisonWriter,
         MoveCursor, ApplyFails, SyncFails, SaveCursor, SaveFails, LosePage
<1>6. ASSUME NEW n \in Nodes, NEW q \in Nodes, Register(n, q)
      PROVE  UNCHANGED stream
  BY Zenon, <1>6, RegisterFrame
<1>. QED
  BY Zenon, <1>0, <1>2, <1>3, <1>4, <1>5, <1>6 DEF Next, StartUp

\* Every step of the mesh is a step of the replica set, or invisible in it.
LEMMA StepRefines ==
  ASSUME IInv, IInv', [Next]_vars
  PROVE  [Promise!Next]_<<Created, Held>>
<1>. USE DEF disk, keys, pull, memory
<1>1. CASE UNCHANGED vars
  BY Zenon, <1>1 DEF vars, Created, Held, DurableOps, DurableFrames
<1>2. ASSUME NEW n \in Nodes, NEW o \in Ops, Commit(n, o), Next
      PROVE  [Promise!Next]_<<Created, Held>>
  <2>1. \A m \in Nodes : DurableOps(m)' = DurableOps(m)
    <3>1. \A m \in Nodes : ~(MoveCursor(m) \/ ApplyFails(m))
      <4>1. Len(stream'[epoch[n]]) = Len(stream[epoch[n]]) + 1
            /\ Len(stream[epoch[n]]) \in Nat
        BY Zenon, <1>2, PushEffect, LenProperties
           DEF Commit, IInv, Lifecycle, TypeOK, ModelType
      <4>2. ~UNCHANGED stream
        BY <4>1
      <4>. QED
        BY Zenon, <4>2 DEF MoveCursor, ApplyFails
    <3>. QED
      BY Zenon, <1>2, <3>1, HeldSame
  <2>2. Held' = Held
    BY Zenon, <2>1 DEF Held
  <2>3. o \notin Created /\ Created' = Created \cup {o}
    <3>1. epoch[n] # 0
      BY Zenon, <1>2 DEF Commit, IInv, Lifecycle
    <3>. QED
      BY Zenon, <1>2, <3>1, PushCreates DEF Commit, IInv, Created
  <2>. QED
    BY Zenon, <2>2, <2>3 DEF Promise!Next, Promise!Create, Created, Held
<1>3. ASSUME NEW n \in Nodes, MoveCursor(n) \/ ApplyFails(n), Next
      PROVE  [Promise!Next]_<<Created, Held>>
  <2>1. UNCHANGED <<file, stream>>
    BY Zenon, <1>3 DEF MoveCursor, ApplyFails
  <2>2. Created' = Created
    BY Zenon, <2>1 DEF Created
  <2>3. ASSUME NEW m \in Nodes \ {n} PROVE DurableOps(m)' = DurableOps(m)
    <3>1. synced'[m] = synced[m]
      BY Zenon, <1>3, <2>3 DEF MoveCursor, ApplyFails, Fsync, IInv, TypeOK, DiskType
    <3>. QED
      BY Zenon, <2>1, <3>1 DEF DurableOps, DurableFrames
  <2>4. DurableOps(n) \subseteq DurableOps(n)'
    <3>1. \A o : o \in DurableOps(n)' <=> Durable(file'[n], synced'[n], o)
      BY Zenon DEF DurableOps, DurableFrames, Durable
    <3>. QED
      BY Zenon, <3>1, DurableOpsMembers, DurableStays DEF IInv
  <2>5. DurableOps(n)' \subseteq Created /\ DurableOps(n)' \in SUBSET Ops
    <3>1. (DurableOps(n) \subseteq Created /\ DurableOps(n) \subseteq Ops)'
      BY HeldCreated, PTL
    <3>. QED
      BY Zenon, <2>2, <3>1
  <2>6. Held' = [Held EXCEPT ![n] = @ \cup DurableOps(n)']
    BY <2>3, <2>4, ZenonT(30) DEF Held
  <2>. QED
    BY <2>2, <2>5, <2>6, ZenonT(30) DEF Promise!Next, Promise!Keep, Created, Held
<1>4. ASSUME Next, ~\E n \in Nodes, o \in Ops : Commit(n, o),
             ~\E n \in Nodes : MoveCursor(n) \/ ApplyFails(n)
      PROVE  [Promise!Next]_<<Created, Held>>
  <2>1. Created' = Created
    BY Zenon, <1>4, CreatedSame
  <2>2. Held' = Held
    BY Zenon, <1>4, HeldSame DEF Held
  <2>. QED
    BY Zenon, <2>1, <2>2
<1>. QED
  BY Zenon, <1>1, <1>2, <1>3, <1>4

\* The mesh keeps its promise: for any number of daemons, restarts, torn frames,
\* resets and lost key files, what is durable at a daemon only grows, and only
\* with operations some device committed.
THEOREM Refinement == Spec => RefinesReplicaSet
<1>1. Init => Promise!Init
  <2>. SUFFICES ASSUME Init PROVE Promise!Init
    BY Zenon
  <2>1. Created = {}
    BY DEF Created, SeqElems, Init
  <2>2. \A n \in Nodes : DurableOps(n) = {}
    BY DEF DurableOps, DurableFrames, Init
  <2>. QED
    BY Zenon, <2>1, <2>2 DEF Promise!Init, Created, Held
<1>2. IInv /\ IInv' /\ [Next]_vars => [Promise!Next]_<<Created, Held>>
  BY Zenon, StepRefines
<1>. QED
  BY <1>1, <1>2, Invariance, PTL DEF Spec, RefinesReplicaSet, Promise!Spec, Created, Held
=============================================================================
