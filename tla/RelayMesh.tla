----------------------------- MODULE RelayMesh -----------------------------
(***************************************************************************)
(* A mesh of pnsd daemons that replicate signed operations with relay v2.  *)
(*                                                                         *)
(* Every daemon keeps an in-memory op-log in arrival order (log.rs), an    *)
(* append-only frame file oplog.bin behind it (durable.rs), a file of peer *)
(* verifying keys and one cursor file per peer (net/persistence.rs).  Its  *)
(* single pull task registers the configured peers at start-up, then pulls *)
(* pages of a peer's arrival stream (net/server.rs, net/relay.rs), admits  *)
(* their entries, forces the frames to disk, moves its cursor and saves    *)
(* the cursor (net/sync.rs, bin/pnsd.rs).  Any step can be cut by a crash. *)
(*                                                                         *)
(* An operation is a model value; Author gives the device that signed it.  *)
(* Stream epochs are drawn fresh from a counter where the code draws 32    *)
(* random bytes.  stream[e] is the arrival order of epoch e: it outlives   *)
(* the process that owned e, so that a cursor into e keeps its meaning.    *)
(***************************************************************************)
EXTENDS Integers, Sequences, FiniteSets

CONSTANTS
  Nodes,         \* the daemons; a daemon is also the device that signs
  Ops,           \* the operations of the run
  Author,        \* the device that signed each operation
  Peers,         \* the --peer arguments of each daemon
  Undecodable,   \* operations whose payload the store cannot decode
  PageLimit,     \* DEFAULT_PULL_LIMIT, the entries of one page
  MaxEpoch,      \* bound: how many times a daemon may start
  MaxFaults,     \* bound: failures and crashes of one behaviour
  KeyFileLoss,   \* whether peers.bin may be lost or unreadable
  Torn           \* an incomplete frame at the end of oplog.bin

ASSUME MeshAssumption ==
  /\ Author \in [Ops -> Nodes]
  /\ Peers \in [Nodes -> SUBSET Nodes]
  /\ Undecodable \subseteq Ops
  /\ PageLimit \in Nat \ {0}
  /\ MaxEpoch \in Nat
  /\ MaxFaults \in Nat
  /\ KeyFileLoss \in BOOLEAN
  /\ Torn \notin Ops

VARIABLES
  \* on disk
  file,          \* oplog.bin: the frames, Torn for an incomplete one
  synced,        \* how many frames the last fsync covered
  peersBin,      \* peers.bin
  callersBin,    \* relay-callers.bin
  cursorFile,    \* cursors/<peer>.relay-v2.cursor
  \* in memory
  mode,          \* where the daemon is in serve()
  epoch,         \* the stream epoch of its OpLog, 0 while it is down
  pos,           \* the next frame replay_oplog_file reads
  poisoned,      \* OplogWriter.poisoned
  registry,      \* the keys that verify operations
  callers,       \* the keys that may call the relay routes
  todo,          \* peers serve() has not registered yet
  learning,      \* the peer whose /devices reply is awaited, as a set
  learned,       \* learned_keys
  links,         \* the peers with a Link
  cursor,        \* Link.relay_cursor
  pc,            \* where the pull task is in sync_relay_once
  page,          \* the page it fetched
  done,          \* how many entries of the page it has admitted
  \* of the model
  stream,        \* relay_order of every epoch
  lastEpoch,     \* the last epoch drawn
  faults         \* failures so far

disk   == <<file, synced, peersBin, callersBin, cursorFile>>
keys   == <<registry, callers, todo, learning, learned, links>>
pull   == <<pc, page, done>>
memory == <<mode, epoch, pos, poisoned, keys, cursor, pull>>
vars   == <<disk, memory, stream, lastEpoch, faults>>

(***************************************************************************)
(* Cursors, pages and the log.                                             *)
(***************************************************************************)
Epochs == 0 .. MaxEpoch
START  == [epoch |-> 0, after |-> 0]
Cursor == [epoch : Epochs, after : Nat]

Page   == [peer : Nodes, epoch : Epochs, reset : BOOLEAN, entries : Seq(Ops)]

\* no page, for a pull task that is between two calls
NoPage == [peer |-> CHOOSE n \in Nodes : TRUE, epoch |-> 0, reset |-> FALSE,
           entries |-> <<>>]

Modes == {"down", "replaying", "registering", "rereplaying", "running"}

SeqElems(s) == {s[i] : i \in DOMAIN s}

\* the op-log of a running daemon, in arrival order
Log(n) == IF epoch[n] = 0 THEN <<>> ELSE stream[epoch[n]]

\* log.append of an operation that is not in the log yet
Push(n, o) == stream' = [stream EXCEPT ![epoch[n]] = Append(@, o)]

\* replay() of the store stops at a payload it cannot decode; a daemon decodes
\* what it wrote itself
StoreReplays(n) ==
  \A o \in SeqElems(Log(n)) : o \in Undecodable => Author[o] = n

\* the routes answer once the listener is up, and wait for the log's mutex
Serving(n) == mode[n] \in {"registering", "running"} /\ pc[n] # "admit"

NeedsReset(c, q) ==
  \/ c.epoch # 0 /\ c.epoch # epoch[q]
  \/ c.epoch = epoch[q] /\ c.after > Len(Log(q))

Smaller(a, b) == IF a <= b THEN a ELSE b

RelayPage(q, after) ==
  SubSeq(Log(q), after + 1, Smaller(after + PageLimit, Len(Log(q))))

(***************************************************************************)
(* Start-up.                                                               *)
(***************************************************************************)
Init ==
  /\ file = [n \in Nodes |-> <<>>]
  /\ synced = [n \in Nodes |-> 0]
  /\ peersBin = [n \in Nodes |-> {}]
  /\ callersBin = [n \in Nodes |-> {}]
  /\ cursorFile = [n \in Nodes |-> [q \in Nodes |-> START]]
  /\ mode = [n \in Nodes |-> "down"]
  /\ epoch = [n \in Nodes |-> 0]
  /\ pos = [n \in Nodes |-> 1]
  /\ poisoned = [n \in Nodes |-> FALSE]
  /\ registry = [n \in Nodes |-> {}]
  /\ callers = [n \in Nodes |-> {}]
  /\ todo = [n \in Nodes |-> {}]
  /\ learning = [n \in Nodes |-> {}]
  /\ learned = [n \in Nodes |-> FALSE]
  /\ links = [n \in Nodes |-> {}]
  /\ cursor = [n \in Nodes |-> [q \in Nodes |-> START]]
  /\ pc = [n \in Nodes |-> "idle"]
  /\ page = [n \in Nodes |-> NoPage]
  /\ done = [n \in Nodes |-> 0]
  /\ stream = [e \in 1 .. MaxEpoch |-> <<>>]
  /\ lastEpoch = 0
  /\ faults = 0

\* serve() loads the keys before it replays the file, with a fresh OpLog.
Start(n) ==
  /\ mode[n] = "down"
  /\ lastEpoch < MaxEpoch
  /\ lastEpoch' = lastEpoch + 1
  /\ epoch' = [epoch EXCEPT ![n] = lastEpoch + 1]
  /\ mode' = [mode EXCEPT ![n] = "replaying"]
  /\ pos' = [pos EXCEPT ![n] = 1]
  /\ registry' = [registry EXCEPT ![n] = {n} \cup peersBin[n]]
  /\ callers' = [callers EXCEPT ![n] = {n} \cup callersBin[n]]
  /\ UNCHANGED <<disk, poisoned, todo, learning, learned, links, cursor, pull,
                 stream, faults>>

AtTail(n) == pos[n] <= Len(file[n]) => file[n][pos[n]] = Torn

\* One frame of replay_oplog_file: verified against the registry, deduplicated.
ReplayFrame(n) ==
  /\ mode[n] \in {"replaying", "rereplaying"}
  /\ ~AtTail(n)
  /\ LET o == file[n][pos[n]]
     IN IF Author[o] \in registry[n] /\ o \notin SeqElems(Log(n))
        THEN Push(n, o)
        ELSE UNCHANGED stream
  /\ pos' = [pos EXCEPT ![n] = @ + 1]
  /\ UNCHANGED <<disk, mode, epoch, poisoned, keys, cursor, pull, lastEpoch,
                 faults>>

\* sync_relay_once and the cursor save are over.
EndPull(n) ==
  /\ pc' = [pc EXCEPT ![n] = "idle"]
  /\ page' = [page EXCEPT ![n] = NoPage]
  /\ done' = [done EXCEPT ![n] = 0]

\* The memory of a daemon that is not running.
Forget(n) ==
  /\ mode' = [mode EXCEPT ![n] = "down"]
  /\ epoch' = [epoch EXCEPT ![n] = 0]
  /\ pos' = [pos EXCEPT ![n] = 1]
  /\ poisoned' = [poisoned EXCEPT ![n] = FALSE]
  /\ registry' = [registry EXCEPT ![n] = {}]
  /\ callers' = [callers EXCEPT ![n] = {}]
  /\ todo' = [todo EXCEPT ![n] = {}]
  /\ learning' = [learning EXCEPT ![n] = {}]
  /\ learned' = [learned EXCEPT ![n] = FALSE]
  /\ links' = [links EXCEPT ![n] = {}]
  /\ cursor' = [cursor EXCEPT ![n] = [q \in Nodes |-> START]]
  /\ EndPull(n)

\* mutant: the cut takes the last complete frame too
TruncateTooMuch(n) ==
  /\ file' = [file EXCEPT ![n] = SubSeq(@, 1, pos[n] - 2)]
  /\ synced' = [synced EXCEPT ![n] = Smaller(@, pos[n] - 2)]

\* The torn tail is cut off the file.
TruncateTail(n) ==
  /\ file' = [file EXCEPT ![n] = SubSeq(@, 1, pos[n] - 1)]
  /\ synced' = [synced EXCEPT ![n] = Smaller(@, pos[n] - 1)]

\* Replay ends, the store is replayed, the listener binds and registration
\* starts (or, after the second replay, the pull loop).
EndReplay(n) ==
  /\ mode[n] \in {"replaying", "rereplaying"}
  /\ AtTail(n)
  /\ StoreReplays(n)
  /\ TruncateTail(n)
  /\ \/ /\ mode[n] = "replaying"
        /\ mode' = [mode EXCEPT ![n] = "registering"]
        /\ todo' = [todo EXCEPT ![n] = Peers[n]]
     \/ /\ mode[n] = "rereplaying"
        /\ mode' = [mode EXCEPT ![n] = "running"]
        /\ UNCHANGED todo
  /\ UNCHANGED <<peersBin, callersBin, cursorFile, epoch, pos, poisoned,
                 registry, callers, learning, learned, links, cursor, pull,
                 stream, lastEpoch, faults>>

\* serve() returns an error: the store cannot decode an operation of the log.
ExitOnReplay(n) ==
  /\ mode[n] \in {"replaying", "rereplaying"}
  /\ AtTail(n)
  /\ ~StoreReplays(n)
  /\ TruncateTail(n)
  /\ Forget(n)
  /\ UNCHANGED <<peersBin, callersBin, cursorFile, stream, lastEpoch, faults>>

(***************************************************************************)
(* Registration of the configured peers.                                   *)
(***************************************************************************)
Fault == faults < MaxFaults /\ faults' = faults + 1

\* The peer does not answer: it is skipped for the life of this process.
SkipPeer(n, q) ==
  /\ mode[n] = "registering" /\ learning[n] = {} /\ q \in todo[n]
  /\ IF Serving(q) THEN Fault ELSE UNCHANGED faults
  /\ todo' = [todo EXCEPT ![n] = @ \ {q}]
  /\ UNCHANGED <<disk, mode, epoch, pos, poisoned, registry, callers, learning,
                 learned, links, cursor, pull, stream, lastEpoch>>

\* The peer's /identity reply: a new key is saved before it may verify, and the
\* peer becomes a relay caller; then its /devices reply is awaited.
RegisterPeer(n, q) ==
  /\ mode[n] = "registering" /\ learning[n] = {} /\ q \in todo[n]
  /\ Serving(q)
  /\ registry' = [registry EXCEPT ![n] = @ \cup {q}]
  /\ peersBin' = [peersBin EXCEPT ![n] = IF q \in registry[n] THEN @
                                         ELSE registry[n] \cup {q}]
  /\ learned' = [learned EXCEPT ![n] = @ \/ q \notin registry[n]]
  /\ callers' = [callers EXCEPT ![n] = @ \cup {q}]
  /\ callersBin' = [callersBin EXCEPT ![n] = IF q \in callers[n] THEN @
                                             ELSE callers[n] \cup {q}]
  /\ todo' = [todo EXCEPT ![n] = @ \ {q}]
  /\ learning' = [learning EXCEPT ![n] = {q}]
  /\ UNCHANGED <<file, synced, cursorFile, mode, epoch, pos, poisoned, links,
                 cursor, pull, stream, lastEpoch, faults>>

\* save_peer_keys fails for a new key: the key is evicted, the peer skipped.
PeerKeyNotSaved(n, q) ==
  /\ mode[n] = "registering" /\ learning[n] = {} /\ q \in todo[n]
  /\ Serving(q) /\ q \notin registry[n] /\ Fault
  /\ todo' = [todo EXCEPT ![n] = @ \ {q}]
  /\ UNCHANGED <<disk, mode, epoch, pos, poisoned, registry, callers, learning,
                 learned, links, cursor, pull, stream, lastEpoch>>

\* save_relay_caller_keys fails for a new caller: the peer is skipped, but the
\* key it verified with stays.
CallerNotSaved(n, q) ==
  /\ mode[n] = "registering" /\ learning[n] = {} /\ q \in todo[n]
  /\ Serving(q) /\ q \notin callers[n] /\ Fault
  /\ registry' = [registry EXCEPT ![n] = @ \cup {q}]
  /\ peersBin' = [peersBin EXCEPT ![n] = IF q \in registry[n] THEN @
                                         ELSE registry[n] \cup {q}]
  /\ learned' = [learned EXCEPT ![n] = @ \/ q \notin registry[n]]
  /\ todo' = [todo EXCEPT ![n] = @ \ {q}]
  /\ UNCHANGED <<file, synced, callersBin, cursorFile, mode, epoch, pos,
                 poisoned, callers, learning, links, cursor, pull, stream,
                 lastEpoch>>

\* The link opens at the cursor saved for the peer.
OpenLink(n, q) ==
  /\ learning' = [learning EXCEPT ![n] = {}]
  /\ links' = [links EXCEPT ![n] = @ \cup {q}]
  /\ cursor' = [cursor EXCEPT ![n][q] = cursorFile[n][q]]

\* The /devices reply: the keys the peer vouches for, saved before use.
LearnDevices(n, q) ==
  /\ mode[n] = "registering" /\ learning[n] = {q} /\ Serving(q)
  /\ LET added == registry[q] \ registry[n]
     IN /\ registry' = [registry EXCEPT ![n] = @ \cup added]
        /\ peersBin' = [peersBin EXCEPT ![n] = IF added = {} THEN @
                                               ELSE registry[n] \cup added]
        /\ learned' = [learned EXCEPT ![n] = @ \/ added # {}]
  /\ OpenLink(n, q)
  /\ UNCHANGED <<file, synced, callersBin, cursorFile, mode, epoch, pos,
                 poisoned, callers, todo, pull, stream, lastEpoch, faults>>

\* The /devices request fails, or its keys cannot be saved and are evicted.
LearnNothing(n, q) ==
  /\ mode[n] = "registering" /\ learning[n] = {q}
  /\ IF Serving(q) THEN Fault ELSE UNCHANGED faults
  /\ OpenLink(n, q)
  /\ UNCHANGED <<disk, mode, epoch, pos, poisoned, registry, callers, todo,
                 learned, pull, stream, lastEpoch>>

\* With new keys the file is replayed once more, then the pull loop starts.
EndRegistration(n) ==
  /\ mode[n] = "registering" /\ todo[n] = {} /\ learning[n] = {}
  /\ mode' = [mode EXCEPT ![n] = IF learned[n] THEN "rereplaying" ELSE "running"]
  /\ pos' = [pos EXCEPT ![n] = 1]
  /\ UNCHANGED <<disk, epoch, poisoned, keys, cursor, pull, stream, lastEpoch,
                 faults>>

(***************************************************************************)
(* One call of sync_relay_once and the cursor save after it.               *)
(***************************************************************************)

\* get_relay_ops on the peer, for a caller on its allowlist: a page after the
\* caller's cursor, or a reset of a cursor that is not of this stream.
GetRelayOps(n, q) ==
  /\ mode[n] = "running" /\ pc[n] = "idle" /\ q \in links[n]
  /\ Serving(q) /\ n \in callers[q]
  /\ LET c == cursor[n][q]
         reset == NeedsReset(c, q)
     IN page' = [page EXCEPT ![n] =
          [peer |-> q, epoch |-> epoch[q], reset |-> reset,
           entries |-> IF reset THEN <<>> ELSE RelayPage(q, c.after)]]
  /\ pc' = [pc EXCEPT ![n] = "page"]
  /\ UNCHANGED <<disk, mode, epoch, pos, poisoned, keys, cursor, done, stream,
                 lastEpoch, faults>>

\* The reply is lost or late: sync_relay_once returns an error.
LosePage(n) ==
  /\ pc[n] = "page" /\ Fault
  /\ EndPull(n)
  /\ UNCHANGED <<disk, mode, epoch, pos, poisoned, keys, cursor, stream,
                 lastEpoch>>

\* mutant: a reset is noted but the cursor is not moved
ResetIgnored(n) ==
  /\ pc[n] = "page" /\ page[n].reset
  /\ pc' = [pc EXCEPT ![n] = "save"]
  /\ UNCHANGED <<disk, mode, epoch, pos, poisoned, keys, cursor, page, done,
                 stream, lastEpoch, faults>>

\* A reset moves the cursor to the floor of the peer's stream, which is 0.
ResetCursor(n) ==
  /\ pc[n] = "page" /\ page[n].reset
  /\ cursor' = [cursor EXCEPT ![n][page[n].peer] =
                  [epoch |-> page[n].epoch, after |-> 0]]
  /\ pc' = [pc EXCEPT ![n] = "save"]
  /\ UNCHANGED <<disk, mode, epoch, pos, poisoned, keys, page, done, stream,
                 lastEpoch, faults>>

\* The registry and the log are locked for the entries of the page.
LockLog(n) ==
  /\ pc[n] = "page" /\ ~page[n].reset
  /\ pc' = [pc EXCEPT ![n] = "admit"]
  /\ UNCHANGED <<disk, mode, epoch, pos, poisoned, keys, cursor, page, done,
                 stream, lastEpoch, faults>>

NextEntry(n) == page[n].entries[done[n] + 1]
HasEntry(n)  == pc[n] = "admit" /\ done[n] < Len(page[n].entries)
IsNew(n, o)  == o \notin SeqElems(Log(n))

\* mutant: an entry that cannot be admitted is passed over instead of ending the
\* page
AdmitOrPass(n) ==
  /\ HasEntry(n)
  /\ IF /\ IsNew(n, NextEntry(n)) /\ ~poisoned[n]
        /\ Author[NextEntry(n)] \in registry[n]
     THEN /\ file' = [file EXCEPT ![n] = Append(@, NextEntry(n))]
          /\ Push(n, NextEntry(n))
     ELSE UNCHANGED <<file, stream>>
  /\ done' = [done EXCEPT ![n] = @ + 1]
  /\ UNCHANGED <<synced, peersBin, callersBin, cursorFile, mode, epoch, pos,
                 poisoned, keys, cursor, pc, page, lastEpoch, faults>>

\* mutant: the writer forgets that it is poisoned
AdmitWhenPoisoned(n) ==
  /\ HasEntry(n)
  /\ Author[NextEntry(n)] \in registry[n]
  /\ IF IsNew(n, NextEntry(n))
     THEN /\ file' = [file EXCEPT ![n] = Append(@, NextEntry(n))]
          /\ Push(n, NextEntry(n))
     ELSE UNCHANGED <<file, stream>>
  /\ done' = [done EXCEPT ![n] = @ + 1]
  /\ UNCHANGED <<synced, peersBin, callersBin, cursorFile, mode, epoch, pos,
                 poisoned, keys, cursor, pc, page, lastEpoch, faults>>

\* An entry is verified; an operation the log lacks goes to the file first.
AdmitEntry(n) ==
  /\ HasEntry(n)
  /\ Author[NextEntry(n)] \in registry[n]
  /\ IF IsNew(n, NextEntry(n))
     THEN /\ ~poisoned[n]
          /\ file' = [file EXCEPT ![n] = Append(@, NextEntry(n))]
          /\ Push(n, NextEntry(n))
     ELSE UNCHANGED <<file, stream>>
  /\ done' = [done EXCEPT ![n] = @ + 1]
  /\ UNCHANGED <<synced, peersBin, callersBin, cursorFile, mode, epoch, pos,
                 poisoned, keys, cursor, pc, page, lastEpoch, faults>>

\* The page is exhausted, or its next entry has an unknown signer or meets a
\* poisoned writer; a timestamp too far ahead is a fault.
UnlockLog(n) ==
  /\ pc[n] = "admit"
  /\ IF ~HasEntry(n) \/ Author[NextEntry(n)] \notin registry[n]
          \/ (poisoned[n] /\ IsNew(n, NextEntry(n)))
     THEN UNCHANGED faults
     ELSE Fault
  /\ pc' = [pc EXCEPT ![n] = "sync"]
  /\ UNCHANGED <<disk, mode, epoch, pos, poisoned, keys, cursor, page, done,
                 stream, lastEpoch>>

\* A frame cannot be written and the rollback fails too: the file keeps an
\* incomplete frame (set_len failed) or none (seek failed), and the writer
\* refuses every later append.  (A rollback that succeeds is UnlockLog.)
PoisonWriter(n) ==
  /\ HasEntry(n) /\ Author[NextEntry(n)] \in registry[n]
  /\ IsNew(n, NextEntry(n)) /\ ~poisoned[n] /\ Fault
  /\ poisoned' = [poisoned EXCEPT ![n] = TRUE]
  /\ \/ file' = [file EXCEPT ![n] = Append(@, Torn)]
     \/ UNCHANGED file
  /\ pc' = [pc EXCEPT ![n] = "sync"]
  /\ UNCHANGED <<synced, peersBin, callersBin, cursorFile, mode, epoch, pos,
                 keys, cursor, page, done, stream, lastEpoch>>

\* mutant: the batch is not forced to disk
NoFsync(n) == UNCHANGED synced

\* fsync covers every frame written so far.
Fsync(n) == synced' = [synced EXCEPT ![n] = Len(file[n])]

\* The batch is forced to disk and applied, and only then the cursor moves.
\* A page that admitted nothing only confirms the epoch.
MoveCursor(n) ==
  /\ pc[n] = "sync"
  /\ IF done[n] > 0 THEN StoreReplays(n) /\ Fsync(n) ELSE UNCHANGED synced
  /\ cursor' = [cursor EXCEPT ![n][page[n].peer] =
                  [epoch |-> page[n].epoch, after |-> @.after + done[n]]]
  /\ IF cursor' = cursor
     THEN EndPull(n)
     ELSE pc' = [pc EXCEPT ![n] = "save"] /\ UNCHANGED <<page, done>>
  /\ UNCHANGED <<file, peersBin, callersBin, cursorFile, mode, epoch, pos,
                 poisoned, keys, stream, lastEpoch, faults>>

\* The store cannot decode an operation: the frames are on disk, the cursor
\* stays.
ApplyFails(n) ==
  /\ pc[n] = "sync" /\ done[n] > 0 /\ ~StoreReplays(n)
  /\ Fsync(n)
  /\ EndPull(n)
  /\ UNCHANGED <<file, peersBin, callersBin, cursorFile, mode, epoch, pos,
                 poisoned, keys, cursor, stream, lastEpoch, faults>>

\* sync_after_batch fails: nothing moves, the frames stay unforced.
SyncFails(n) ==
  /\ pc[n] = "sync" /\ done[n] > 0 /\ Fault
  /\ EndPull(n)
  /\ UNCHANGED <<disk, mode, epoch, pos, poisoned, keys, cursor, stream,
                 lastEpoch>>

\* The cursor file is replaced atomically.
SaveCursor(n) ==
  /\ pc[n] = "save"
  /\ cursorFile' = [cursorFile EXCEPT
                      ![n][page[n].peer] = cursor[n][page[n].peer]]
  /\ EndPull(n)
  /\ UNCHANGED <<file, synced, peersBin, callersBin, mode, epoch, pos,
                 poisoned, keys, cursor, stream, lastEpoch, faults>>

\* save_relay_cursor fails: the error is printed, the loop goes on.
SaveFails(n) ==
  /\ pc[n] = "save" /\ Fault
  /\ EndPull(n)
  /\ UNCHANGED <<disk, mode, epoch, pos, poisoned, keys, cursor, stream,
                 lastEpoch>>

(***************************************************************************)
(* Local operations, crashes, lost files.                                  *)
(***************************************************************************)

\* An embedder seals an operation of its own device, appends it to the log and
\* writes its frame; nothing forces the frame to disk.
Commit(n, o) ==
  /\ mode[n] = "running" /\ pc[n] # "admit"
  /\ Author[o] = n /\ ~poisoned[n]
  /\ \A e \in 1 .. MaxEpoch : o \notin SeqElems(stream[e])
  /\ Push(n, o)
  /\ file' = [file EXCEPT ![n] = Append(@, o)]
  /\ UNCHANGED <<synced, peersBin, callersBin, cursorFile, memory, lastEpoch,
                 faults>>

\* The process or the machine stops.  Frames after the last fsync may be gone,
\* and the first frame that is gone, or the one being written, may be torn.
Crash(n) ==
  /\ mode[n] # "down" /\ Fault
  /\ \E kept \in synced[n] .. Len(file[n]) :
       \/ file' = [file EXCEPT ![n] = SubSeq(@, 1, kept)]
       \/ /\ kept < Len(file[n]) \/ HasEntry(n)
          /\ ~\E i \in 1 .. kept : file[n][i] = Torn
          /\ file' = [file EXCEPT ![n] = Append(SubSeq(@, 1, kept), Torn)]
  /\ Forget(n)
  /\ UNCHANGED <<synced, peersBin, callersBin, cursorFile, stream, lastEpoch>>

\* peers.bin is lost or unreadable: load_keys finds no key in it.
LosePeersBin(n) ==
  /\ KeyFileLoss /\ mode[n] = "down" /\ peersBin[n] # {} /\ Fault
  /\ peersBin' = [peersBin EXCEPT ![n] = {}]
  /\ UNCHANGED <<file, synced, callersBin, cursorFile, memory, stream,
                 lastEpoch>>

StartUp(n) ==
  \/ Start(n) \/ ReplayFrame(n) \/ EndReplay(n) \/ ExitOnReplay(n)
  \/ EndRegistration(n)

Register(n, q) ==
  \/ SkipPeer(n, q) \/ RegisterPeer(n, q) \/ PeerKeyNotSaved(n, q)
  \/ CallerNotSaved(n, q) \/ LearnDevices(n, q) \/ LearnNothing(n, q)

PullStep(n) ==
  \/ ResetCursor(n) \/ LockLog(n) \/ AdmitEntry(n) \/ UnlockLog(n)
  \/ PoisonWriter(n) \/ MoveCursor(n) \/ ApplyFails(n) \/ SyncFails(n)
  \/ SaveCursor(n) \/ SaveFails(n) \/ LosePage(n)

Next ==
  \E n \in Nodes :
    \/ StartUp(n)
    \/ \E q \in Nodes : Register(n, q) \/ GetRelayOps(n, q)
    \/ PullStep(n)
    \/ \E o \in Ops : Commit(n, o)
    \/ Crash(n)
    \/ LosePeersBin(n)

Spec == Init /\ [][Next]_vars

(***************************************************************************)
(* Properties.                                                             *)
(***************************************************************************)

DiskType ==
  /\ file \in [Nodes -> Seq(Ops \cup {Torn})]
  /\ synced \in [Nodes -> Nat]
  /\ peersBin \in [Nodes -> SUBSET Nodes]
  /\ callersBin \in [Nodes -> SUBSET Nodes]
  /\ cursorFile \in [Nodes -> [Nodes -> Cursor]]

DaemonType ==
  /\ mode \in [Nodes -> Modes]
  /\ epoch \in [Nodes -> Epochs]
  /\ pos \in [Nodes -> Nat \ {0}]
  /\ poisoned \in [Nodes -> BOOLEAN]

KeysType ==
  /\ registry \in [Nodes -> SUBSET Nodes]
  /\ callers \in [Nodes -> SUBSET Nodes]
  /\ todo \in [Nodes -> SUBSET Nodes]
  /\ learning \in [Nodes -> SUBSET Nodes]
  /\ learned \in [Nodes -> BOOLEAN]
  /\ links \in [Nodes -> SUBSET Nodes]

PullType ==
  /\ cursor \in [Nodes -> [Nodes -> Cursor]]
  /\ pc \in [Nodes -> {"idle", "page", "admit", "sync", "save"}]
  /\ page \in [Nodes -> Page]
  /\ done \in [Nodes -> Nat]

ModelType ==
  /\ stream \in [1 .. MaxEpoch -> Seq(Ops)]
  /\ lastEpoch \in Epochs
  /\ faults \in Nat

\* Every variable has its type, the page in flight included.
TypeOK == DiskType /\ DaemonType /\ KeysType /\ PullType /\ ModelType

\* The operations a crash cannot take from a daemon: the frames of oplog.bin
\* that an fsync covered and that no torn frame hides from replay.
DurableFrames(n) ==
  {k \in 1 .. synced[n] : \A j \in 1 .. k : file[n][j] # Torn}
DurableOps(n) == {file[n][k] : k \in DurableFrames(n)}

\* durable.rs: "on a crash, a persisted cursor can never point past ops the log
\* has lost".  Every operation at or before a saved cursor, in the stream the
\* cursor is of, is durable at the daemon that saved it.
PersistedCursorCovered ==
  \A n, q \in Nodes :
    LET c == cursorFile[n][q]
    IN c.epoch # 0 =>
         /\ c.after <= Len(stream[c.epoch])
         /\ \A i \in 1 .. c.after : stream[c.epoch][i] \in DurableOps(n)

\* pnsd.rs: operations must not "vanish from memory while the cursors still say
\* they were pulled".  What a link's cursor has passed is in the log that the
\* daemon verifies, applies and serves, across restarts.
LinkCursorCovered ==
  \A n \in Nodes : \A q \in links[n] :
    LET c == cursor[n][q]
    IN mode[n] = "running" /\ c.epoch # 0 =>
         /\ c.after <= Len(stream[c.epoch])
         /\ \A i \in 1 .. c.after : stream[c.epoch][i] \in SeqElems(Log(n))

\* durable.rs: "a valid frame is never written after a torn one", so that replay,
\* which stops at the tear, reaches every complete frame.
NoFrameBehindTear ==
  \A n \in Nodes : \A i \in DOMAIN file[n] :
    file[n][i] = Torn => i = Len(file[n])

\* What the mesh promises: a set of operations per daemon that only grows.
Promise == INSTANCE ReplicaSet
  WITH created <- UNION {SeqElems(stream[e]) : e \in 1 .. MaxEpoch},
       held <- [n \in Nodes |-> DurableOps(n)]

\* Crashes, torn frames, resets and retries never take a durable operation away,
\* and nothing becomes durable that no device committed.
RefinesReplicaSet == Promise!Spec

(***************************************************************************)
(* Fairness: every step of serve() is a bounded computation or a request   *)
(* with a time-out, and the loop visits every link in every round.         *)
(***************************************************************************)
Fairness ==
  \A n \in Nodes :
    /\ WF_vars(ReplayFrame(n) \/ EndReplay(n) \/ ExitOnReplay(n)
                 \/ EndRegistration(n))
    /\ WF_vars(\E q \in Nodes : Register(n, q))
    /\ WF_vars(PullStep(n))
    /\ \A q \in Nodes : SF_vars(GetRelayOps(n, q))

FairSpec == Spec /\ Fairness

\* A link that can make progress: both ends run, the peer admits the caller, the
\* writer works, and every operation of the peer can be verified and applied.
CanPull(n, q) ==
  /\ mode[n] = "running" /\ mode[q] = "running"
  /\ q \in links[n] /\ n \in callers[q]
  /\ ~poisoned[n] /\ StoreReplays(n)
  /\ \A o \in SeqElems(Log(q)) :
       /\ Author[o] \in registry[n]
       /\ o \in Undecodable => Author[o] = n

\* Once failures stop, a daemon holds everything its working links offer: no
\* reset, restart or failed save leaves an operation behind for good.
Converges ==
  \A n, q \in Nodes :
    <>[](CanPull(n, q) => SeqElems(Log(q)) \subseteq SeqElems(Log(n)))
=============================================================================
