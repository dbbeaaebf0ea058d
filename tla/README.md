# TLA+ models of proxy-node-server

`proxy-node-server` replicates signed operations between the devices of one
account.  This directory holds TLA+ models of the parts of it that run
concurrently or survive failures, the TLC configurations that check them on
small instances, and TLAPS proofs for any number of daemons, operations and
failures.

## The system and its parts

* **Operations** (`op.rs`, `identity.rs`, `hlc.rs`).  An operation is signed by
  the device that created it and ordered by `(hlc, device, op_id)`.
* **Two replicas.**  The `pnsd` daemon keeps an in-memory log (`log.rs`) with a
  frame file behind it (`durable.rs`), key and cursor files
  (`net/persistence.rs`), and a registry of verifying keys (`registry.rs`).  An
  embedder uses the SQLite replica instead (`sqlite/*`): op-log, coverage claims,
  retention, quarantine, materialized heads and rows, pending edges.
* **Three pulls.**  v1 pages in semantic order (`sync_once_with`); relay v2 pages
  a peer's arrival stream, with an epoch, a position and resets
  (`net/relay.rs`, `net/server.rs`, `sync_relay_once`); v3 combines per-origin
  claims with a backfill of the arrival stream (`pull.rs`, `net/pull_server.rs`,
  `net/pull_client.rs`, `net/socket.rs`).  `/watch` parks a caller until the head
  moves (`net/watch.rs`).
* **Around them**: the OAuth server (`oauth/*`), the cloudflared tunnel manager
  (`tunnel.rs`), roster and port ledger, discovery, the MCP and address surfaces.

The modules follow the parts.  `RelayMesh` composes everything a daemon needs to
replicate over relay v2, `PullExchange` is the v3 pull, `LegacyPull` the v1 pull,
`RelayDoor` the signed calls under them; `OplogStore`, `Quarantine`, `RowWrites` and
`PendingEdges` are the SQLite replica; `OAuthServer`, `Limiter`, `AskProof`, `Gate`,
`McpSessions`, `Tunnel` and `Roster` the front of a node.  `*MC` modules instantiate them
for TLC, `*_proof` modules hold theorems.

`PROJECT.json` lists every part with its status and every hazard with the line
where it bites.

## Relay v2: `RelayMesh`

`RelayMesh` composes the log, the durability file, the key and cursor files, the
registry, the relay routes and the pull task of any number of daemons.

| State | Code |
| --- | --- |
| `file`, `synced` | the frames of `oplog.bin`, and how many the last fsync covered |
| `peersBin`, `callersBin`, `cursorFile` | the files of `net/persistence.rs` |
| `mode`, `pos` | how far `serve()` is: replaying, registering, replaying again, running |
| `epoch`, `stream` | `OpLog.epoch`; the arrival order of every epoch ever drawn |
| `poisoned` | `OplogWriter.poisoned` |
| `registry`, `callers`, `todo`, `learning`, `learned`, `links` | the key sets and the registration loop of `serve()` |
| `cursor`, `pc`, `page`, `done` | a `Link`'s cursor, and the call of `sync_relay_once` in progress |

An action is one step between two points where another task, a crash or an I/O
error can intervene: one frame of a replay, one request, one entry of a page
(the log is locked meanwhile, so the routes of that daemon wait), the fsync with
the store replay and the cursor move, the save of the cursor.  A failed step is an
action of its own and counts against `MaxFaults`: a lost reply, a failed or torn
frame write, a failed fsync, apply or save, a crash that keeps any prefix of the
unforced frames and may tear the next.

Abstractions: an operation is a model value with an author; epochs come from a
counter where the code draws 32 random bytes; a failed fsync leaves the frames
unforced, so a later successful one covers them (an operating system that drops
dirty pages after a failed fsync is outside the model); a store either decodes an
operation or does not.  `Commit` is the embedder's local write, modelled from
`tests/two_node_sync.rs`.  The signature of a relay request, its nonce cache and
the parked watch are `RelayDoor`'s, the v1 pull is `LegacyPull`'s.

`ReplicaSet` is the promise: each daemon holds a set of operations that only
grows, with operations some device created.  `RelayMesh` implements it with
`held` mapped to the operations a crash cannot take away.

### Runs

| Run | Instance | Shows |
| --- | --- | --- |
| `relay_pair` | two daemons, an operation of each, one of which the store cannot decode, three starts, two failures, key files that can be lost, pages of one entry | `TypeOK`, `PersistedCursorCovered`, `NoFrameBehindTear`, `RefinesReplicaSet` |
| `relay_hub` | n1 - n2 - n3, n3 knows the key of n1 only from the `/devices` of n2 | `LinkCursorCovered` with a third party's operation |
| `relay_live` | the pair under `FairSpec`, one failure | `Converges` |
| `relay_hub_key_loss` | the hub when `peers.bin` can be lost | **violates** `LinkCursorCovered`: see below |

Bounds.  Two failures are enough for one to create a bad state (a torn tail, an
unforced frame, an unsaved cursor) and the other, a crash, to expose it; three
starts give each daemon one and one of them a restart, so that a cursor of a dead
epoch meets a new stream.  A page of one entry makes every multi-entry pull
several pages, hence every interleaving of pages.  `HubFocus` restricts the hub
runs to failures after the operation went through once: the third daemon then
restarts, and may lose its keys, with a cursor that is past it.  Failures at any other
time are the theorem's: `LinkCursorCovered` is proved for every mesh whose `peers.bin` is
kept.

Fairness.  `serve()` runs one task whose steps are bounded computations or
requests with a time-out, so start-up, registration and the pull in progress are
weakly fair.  A round visits every link, so a request that is possible again and
again is made: strong fairness of `GetRelayOps` per link, since the peer's log
lock disables it now and then.  Starts, commits and failures are not fair.
`Converges` is stated for links that exist: `serve()` never retries a peer that
did not answer at start-up.  Deadlock is not checked because daemons may all be
stopped with no start left.

The violation.  After `peers.bin` is lost, `serve()` replays the file again when
some key was learned.  A peer whose `/devices` request failed still gets its link,
at its saved cursor: frames of devices known only through that gossip stay out of
memory although the cursor is past them.  The comment at `bin/pnsd.rs:529-531`
says the registry is complete at that point.

### Proofs

`RelayMesh_proof` (on `RelayMeshFiles_proof`, which holds the lemmas about files and
frames) proves, from `MeshAssumption` alone (any finite
or infinite sets, any bounds), that

* `TypeCorrect`: `Spec => []TypeOK`;
* `PersistedCursorSafe`: `Spec => []PersistedCursorCovered`, key loss included;
* `TornOnlyLast`: `Spec => []NoFrameBehindTear`;
* `LinkCursorSafe`: `~KeyFileLoss => (Spec => []LinkCursorCovered)`: the
  hypothesis is exactly what the violating run drops.

None of these is inductive.  `Invariance` establishes the invariant `IInv` they
follow from, whose conjuncts say what the pieces of state owe each other:

* `Lifecycle`: which variables are meaningful in which mode, no two daemons share
  an epoch, and the streams of epochs not drawn yet are empty;
* `Files`: a torn frame is last, and its daemon is down, about to cut it, or
  refuses to write; forced frames are within the file;
* `KeysSaved`: a running daemon's registry is its own key and what `peers.bin`
  holds, so a restart verifies what this run verified;
* `LogInFile`: what is in a log is a complete frame of the file;
* `FilesCreated`: what is in a file is in some stream;
* `Cursors`, `Pages`: saved and link cursors are within their stream and cover
  durable operations; the page in flight is the segment of its stream after the
  cursor, and the admitted part of it is in the log;
* `Replayed`, unless key files may be lost: every frame's author is known, and
  the frames a replay has passed are in the log.

The step that fails without the strengthening is `MoveCursor`: that the entries
passed are durable needs `Pages` (they are the next segment of the peer's stream),
`LogInFile` (an entry skipped as already present has a frame) and `Files` (the
fsync covers it, no tear hides it).  Each action kind has an effect lemma that
states what it leaves alone, and each conjunct one lemma per kind.

The same module proves `Refinement`: `Spec => RefinesReplicaSet`.
Initial states map to initial states; `Commit` maps to `Create`, `MoveCursor` and
`ApplyFails` to `Keep`, everything else, crashes and truncation included, to a
stutter.

`Converges` is only model-checked: liveness is out of the prover's reach.

## Pull v3: `PullExchange`

`PullExchange` is a puller (`drain_pull_pages` over `OpLogPullSocket`) and the
peers it drains (`build_pull_page` over `ServeState`).

| State | Code |
| --- | --- |
| `arr`, `epoch` | a peer's arrival stream and its epoch |
| `held`, `known`, `claims`, `cursors` | the puller's log, registry, `CoverageVector` and relay cursors |
| `pc`, `resume`, `resetSeen`, `progress`, `stalled` | the local variables of `drain_pull_pages`; `progress` is `last_progress`, by which it counts stalled pages and gives up |
| `asked`, `left`, `page` | the request's claims, the origins still to serve, the page |

An operation is an origin and a key; an origin is a number, and the order of
numbers is the order of device ids.  Every envelope has one byte, so a byte budget
of two cuts a page in the middle of a run.  The page builder takes the log's lock
once per call, so `Ask` (state, reset, origins), `ServeOrigin` (one origin) and
`ScanBackfill` are steps of their own.  On the client, the steps are those a failure
can separate: the backfill, the commit of `next_relay_seq`, one keyed run, the
preview, the decision.  `Fail` is a lost request or reply, an error of the host or a
dropped future; `Refuses` is an operation that does not verify or whose clock is
too far ahead.  The floor is 0, because only the SQLite log compacts (its reset to a floor is in
`OplogStore`); no server in
the crate sets `snapshot_recommended`, and `store` filters (`sweep_store`) move
neither cursor nor claim, so both are left out.

A drain that skips operations of unknown signers (`skip_unattested`) gives them up on
purpose and is not modelled.  Two restrictions are named and used as action
constraints: `QuietBuild` (the peer's log does not grow while one page is built) and
`OneAtATime` (no two drains overlap).  What goes wrong without the first, and what a
failure does although the second holds, is what the violating runs show.

### Runs

| Run | Instance | Shows |
| --- | --- | --- |
| `pull_drain` | one peer under `FairSpec`: two origins with two keys, two epochs, one failure, audits, a signer learned late; quiet builds | `NoSilentLoss`, `DoneMeansHeld`, `ClaimIsHeld`, `PullConverges`, `DrainsComplete` |
| `pull_two` | two peers that share a third device's operations, in turn, without failures | `NoSilentLoss`, `DoneMeansHeld` |
| `pull_append_race` | one peer whose log may grow while a page is built | **violates** `NoSilentLoss` |
| `pull_two_fail` | two peers in turn, one failure | **violates** `NoSilentLoss` |
| `pull_audit` | audits under `FairSpec`, no failures | **violates** `AuditsEnd` |

Bounds.  Two origins, of which the lower is not the peer's own, make the own-first
order differ from the token's order; two keys let a claim be above a missing key;
a limit of three with a budget of two cuts pages by bytes and, when keys of both
origins are left, by count, and a limit of one by count alone, on either channel.
Two epochs give a cursor of a dead stream; a second reset in one drain is reached
when the peer restarts while the first is on its way.

Fairness.  A host drains its peers again and again, and each step of a drain is a
bounded computation or a request with a time-out: weak fairness of its steps, strong
fairness of starting an ordinary drain, since an audit may be started instead.  Failures, restarts,
arrivals, previews and roster updates are not fair.  Deadlock is not checked because the bounds let everything stop.

The violations.  The completeness argument at `pull.rs:12-15` needs every arrival the
scan passes to be on the page's keyed channel or above the claim for good.  An append
between the two reads of one page breaks the first; a drain that fails between the
commit of the cursor and the keyed runs, followed by another peer's higher claim,
breaks the second.  In both the operation stays on the peer and is asked for again
only after a reset of the peer's stream.  `pull_audit`: the drain ends only at
a complete page of a request without a token, which an audit of a log longer than a
page never gets.  With one token per round the stall limit ends it with an error;
with more, the loop goes on for ever.  Nothing is lost meanwhile (`pull_drain` allows
audits).

### Proofs

`PullExchange_proof` proves `NoSilentLoss`, `DoneMeansHeld`, `ClaimIsHeld` and
`TypeOK` of `QuietSpec == Init /\ [][Next /\ QuietBuild]_vars`, from
`PullAssumption` and `Alone` (the puller has exactly one peer): any origins, keys,
page limits, budgets, stall limit, epochs and failures, audits included.  The two
hypotheses are what the runs `pull_append_race` and `pull_two_fail` drop.

The properties say nothing of a page in flight, so none is inductive.  The invariant
`IInv` adds, for the peer:

* `Behind`: every arrival behind the cursor is held or above its claim; a keyed
  token names a covered key, a backfill token a position behind the cursor;
* `PageFits`: a run has every arrival above the claim up to its last key, so that a
  claim raised over a prefix of it covers nothing unseen; the page's token is covered
  once its runs are;
* `Building`: while a page is built for a request without a token, every arrival is
  of an origin left to serve, covered by the request, or in a run;
* `Complete`: a page without a token, of a request without one, leaves out only what
  the request covered; this is what makes `done` mean held;
* `Scanned`: every position the cursor will pass is above the claim, held, or in the
  backfill.

The step that needs most of it is `AdmitRun`: the claim jumps to the last key
admitted, and `PageFits` shows that the arrivals behind the cursor under the new claim
were in the run.  `PullConverges` and `DrainsComplete` are liveness and stay with TLC.


## Legacy v1 pull: `LegacyPull`

`LegacyPull` is the daemon with `--legacy-v1`: it drains its links in order, page by
page in order of keys (`sync_once_with`), then waits for one of its parked watches
(`until_head_changes` at the source) or its timer.  Operations are ranks of order
keys, and a cursor is a rank.

| State | Code |
| --- | --- |
| `sourceLog`, `sourceTick`, `owedTick` | a source's log, the tick of its watch channel, an append whose publish is to come |
| `frames`, `forced`, `ourLog`, `applied` | the puller's file, how much of it is forced, its log, its store |
| `legacyCursor`, `savedCursor`, `signers` | the links' cursors, the cursor files, the registry |
| `task`, `watching`, `pollOnly` | where the loop of `serve()` is, the parked requests, the links that fell back to polling |
| `passed`, `savedPassed`, `published` | history: what a source held of the keys a cursor crossed; a source's log at its last tick |

A batch ends at its last operation or at the first one that is refused (signer
unknown, clock too far ahead); the fsync, the store and the save of the cursor may
fail; a crash keeps the forced frames and any prefix of the rest.  A source may come
to hold an operation with a key below ones it has served: v1 never goes back for it,
by design, so `LegacyCursorCovered` speaks of what the source held when it served
the page.

`Watches_proof` proves, from `LegacyAssumption` (any links, any finite set of
operations, any page size):

* `LegacyCovered`: `LegacySpec => []LegacyCursorCovered`.  The property says nothing of
  a page in flight; `TaskInv` does.  While a page is admitted, what the source held
  above the cursor is in the log, still in the page above `highest`, or above the
  whole page (`Accounted`); after the batch what the cursor will cross is in the
  log, after the fsync on disk.  `Kept` makes the log the content of the file, so
  that a restart loses nothing a cursor passed.
* `HeadWakes`: `LegacySpec => []HeadWakeupKept`, the legacy half of `NoWakeupLost` below.
  `WakeInv`: a handler asleep on the current tick knows everything that was in the log
  when that tick was published.

## Signed relay calls and parked watches: `RelayDoor`

`RelayDoor` is what `RelayMesh` takes for granted: the signature of a request and of
its answer, the nonce memory with its age and size, the handlers of `server.rs` that
read the stream more than once, the watch that parks, the device book, and the checks
`client.rs` makes of an answer.  A signature is the record of the fields it covers
and verifies when the verifier builds the same record.  The network loses, delays,
duplicates and misdelivers.  `AnswerIsCurrent`: what a call returns was read after
the call began; it rests on the caller's fresh nonce and not on the node's memory of
nonces.  `RelayWakeupKept`: a watch asleep on the current tick was not past its cursor
when that tick was published, so no tick is slept through.  An append is announced when
its batch ends well; a batch that errs after it has appended publishes nothing
(`BatchErrs`, `SourceErrs`), and the watches then sleep until the next batch that appends
or their deadline.  `Watches` puts the two kinds of watch side by side, and `NoWakeupLost`
is both halves.

`Watches_proof` proves, with no assumption on the constants:

* `AnswersAreCurrent`: `DoorSpec => []AnswerIsCurrent`.  The property speaks of a call
  that is over; `AnswersInTime` carries it through the network: an answer that verifies
  for a call under way has that call's nonce (`NoncesDrawn`: no nonce is drawn twice),
  so whatever page or handler it came from was read after the call began.
* `WatchesWake`: `WatchesSpec => []NoWakeupLost`.  For the relay half, `WatchesMarked`
  says it already of a handler that has read and is about to sleep: what the last tick
  announced is not past its cursor, or the tick has moved since the mark.


## The SQLite replica: `OplogStore`, `Quarantine`, `RowWrites`, `PendingEdges`

The functions of `sqlite/*` run inside transactions of an embedder that is not in
this repository.  Each function is an action; the embedder is modelled from how the
functions are meant to be called and is marked external in `PROJECT.json`.

`OplogStore`: the log, the arrival stream with its epochs and places, the heads, the
peers' acknowledgements, and compaction as a scan followed by chunks with anything in
between.  An operation is the rank of its order key.  A request of a peer carries an
acknowledgement; its cursor may be of another epoch or below the floor, and then it is
reset to the floor (`TakePullReset`).  A page may be lost on its way: only the peer's next
request says how far it came.

* `WinnerIsNewest`: the last-writer-wins read names the newest operation the row ever
  had applied, after merges, compaction and repeated pulls.  A deferral sends the row back
  to the newest operation the log still holds, past what compaction took.
* `NeededOpsAreHeld`: the log holds every pinned operation and, outside the bulk tables,
  the head of every row, though both may become needed after a scan chose them.
* `StreamKeepsPlaces`: within an epoch a place never names another operation.
* `PeersPassedWhatGoes`: an operation younger than the horizon is a candidate only when the
  committed cursor of every paired, awake peer has passed its place or was reset past it.
  Whether the peer holds what its cursor passed is the question of `PullExchange`, and
  `pull_append_race` and `pull_two_fail` show two ways in which it does not.
* `HorizonFloorIsRight`: the binary search in a stream with holes.  The clock of the model
  does not go back; `arrived_at` is wall time and may.

`rotate_relay_stream_epoch` has no caller here.  The model keeps the arrivals in place; a
caller that numbered them anew in the middle of a compaction pass is not modelled.

`Quarantine`: pages with operations of unknown signers, four limits, replay batches
settled after keys and scope have changed.  The table maps a candidate to its row, as
the candidate id is its key; `first` keeps the order of the rowids.  The check of an
envelope under its signer's key is the caller's.
`NothingSkippedIsLost`.

`RowWrites`: operations written into tables in any order, on devices that lack a
column, under a unique and a foreign key.  `RowShowsWinner`: a row shows the newest
operation in every column which that operation carries and the device has, except for
writes a constraint refused (`write_row` gives up on them silently; the sweep that
repairs them is the embedder's).  A column the newest operation does not carry keeps what
an earlier write left, and that depends on the order of arrival: one operation of the
instance is of a writer without a column.

`PendingEdges`: edges buffered on missing endpoints with a queue of wakes
(`NoEdgeStranded`), and the outbox of move callbacks (`OwedCallbackRuns`: a recorded
callback runs or is discarded, through any crash; it may run twice, as the comment on
`mark_move_callback_dispatched` accepts).

`oplog_origin` **violates** `OriginPersists`: `oplog_heads.rs:18` says the stored origin
of a row persists when compaction drops its earliest operation, but `upsert_head`
takes the next operation's device when no applied operation of the row is left in the
log, which happens in a self-draining bulk table.

### Proofs

`OplogStore_proof` proves all five properties of `OplogStore` from `StoreAssumption`:
order keys are positive numbers, every operation has a row, and rows that defer or
merge are not rows of bulk tables (the comment on `rebuild_head` relies on the
compactor keeping such a row's operations).  Any numbers of operations, rows, peers,
places and epochs; pages and chunks of any size.

* `StreamInv` (with it `StreamPlacesKept`): a place names a logged operation, places
  were given in the order of time, and `EndIsKept`: a scan's candidates never include
  the operation at the stream's end.  Without that a pass could delete the last place
  and the next append would reuse it.
* `WinnerInv` (with it `WinnersAreNewest`): the head of a row is the newest operation of
  its history (`HeadsRight`) and, outside the bulk tables, still in the log; operations
  are filed under the canonical row (`Filed`).  A merge needs the last part: it rebuilds
  the head from the log.
* `NeededOpsHeld`: the pins from the guards of `delete_ops_chunk`, the heads from
  `WinnerInv`.
* `PeersInv` (with it `PeersPassedCandidates`): cursors and acknowledgements are of no
  future epoch, and in the present one the peer's cursor has passed everything up to
  their place, or it lay below the floor the peer was reset to.
* `HorizonFloorFound`: the search is a recursive function over its bounds.  That the
  function exists and that it computes the reference are two inductions on the width of
  the interval, by the least counterexample (`LoopRight` is the loop's invariant).

`Tables_proof` proves the rest of the replica, and the roster below:

* `RowsShowWinners`, from `RowAssumption` (order keys are positive numbers).  `RowInv`
  adds to the property that live rows have columns of their table, which the comparison
  of `upsert_matches_current_row` needs.
* `EdgesAreReached`, with no assumption.  The worker retires a wake in the same
  transaction that looks for what is left; `EdgeInv` extends the property to edges with
  a missing end: they are buffered on that end, whose arrival queues a wake.
* `SkippedAreKept`, from `QuarantineAssumption` (streams are sequences of candidates).
  The property alone is not inductive: `RowsKept` says that a row of a well-signed
  candidate is never written off or cut, in whatever order batch, key and scope change.
* `FeedsKeepPeers`, from `RosterAssumption` (candidates have their fields).  The loop
  of `reconcile_roster` is a recursive function over the previous roster; `LoopKeeps`
  is its invariant, proved by the least counterexample: keys and ids stay unrepeated, so
  the validation that follows never rejects what the loop made of a sound feed.

## The front of a node: `OAuthServer`, `Limiter`, `AskProof`, `Gate`, `McpSessions`, `Tunnel`, `Roster`

| Module | Code | Properties |
| --- | --- | --- |
| `OAuthServer` | `oauth/server.rs`, `oauth/store.rs`, the client of `address_client.rs`.  A poll that mints and a redemption that issues are two steps each, because the store locks once per call; answers get lost | `TokenWasGranted`, `BearerIsHeld`, `AskEnds` |
| `Limiter` | `Limiter` of `oauth/mod.rs` | `FewerThanTwoWindows` |
| `AskProof` | `oauth/ask_proof.rs`: signed asks and the nonce memory | `AcceptedOnce` |
| `Gate` | the two readings of a path in `net/gate.rs`, on every path of bounded length | `PartyRouteIsThreads` |
| `McpSessions` | `mcp_server/*`: the maps of `McpServerState` are locked one at a time, so requests of a session interleave between them; restarts, event streams that end | `SessionKeepsWorking`, `ActsForItsSession`, `DispatchedIsOpenToAll` |
| `Tunnel` | `tunnel.rs`, `tunnel/install.rs`: start, stop, start task, health loop, sleeping restarts | `NoStrayProcess`, `SomebodyAtWork`, `StoppedStaysStopped`, `ExitIsTold` |
| `Roster` | `roster.rs`: merging a feed, keeping peers pulled within the grace period | `FeedKeepsRecentPeers` |

In `Tunnel`, `abort()` takes effect only where a task waits.  A start task that has spawned
its process may go on until its next wait and place the process, so tasks of several
generations overlap (`starters`); `stop()` waits for its own.  A health loop in the middle
of a turn ends it, so it can set the state for a tunnel that was stopped or started
meanwhile.  The history variable `overtaken` marks that case; `SomebodyAtWork` and
`ExitIsTold` exclude it, since the code does not handle it.  `stop()` aborts the health loop
only after it has waited for the start task.  An exit noted between its first step and the
end of the loop's turn schedules a restart under the generation of the stop, and that
restart brings the tunnel back: `StoppedStaysStopped` ends where an exit is noted (`last`).

In `McpSessions` a request reads its session's participant, and later looks up the grant
of that participant.  `ActsForItsSession` says that it acts for somebody the session was bound
to while the request was under way (`bindings` is a history variable); a binding that is
replaced between the two steps is not noticed, and the property allows it.

In `Roster`, a feed that moves the key of one recently pulled peer to the device id of
another displaces one of the two, whichever comes first in the old roster
(`Displaced`).

In `Roster`, `CalledOn` gives this device's flag also to a candidate that shares a key
with it: `merge_shared_keys` keeps this device and lets it absorb the other's flag.

### Proofs

`Front_proof` and, for `McpSessions` and `OAuthServer`, `Mcp_proof` prove every safety and
action property of the first six (`Roster` is in `Tables_proof`):

* `AskAcceptedOnce`, for every lifetime, skew and memory with `Lifetime + Skew <= Memory`
  (`ProofTimes`; the constants of the code satisfy it).  `OnceInv`: the proof of an
  accepted ask is over, or its nonce is noted, no earlier than the proof's end allows.
* `LimiterHolds`, for any share and window above zero (`LimiterAssumption`).  The events
  are counted by cardinalities.  `WindowRight`: a window in the table counts the events
  since it started, and fewer than `Per` lie before it within reach; `Rested`: a source
  without a window had fewer than `Per` events in the last `Window` seconds, which is
  why a sweep of a full table opens no window early.
* `PartyReachesThreads`, for paths of any length (`GateAssumption`: a bound is a number).
  Nothing but the first segments matters; the lemmas say what a prefix and a split do.
* `SessionsKeepWorking`, `CallsActForTheirSession`, `DispatchesAreOpen`, from `McpAssumption`: a
  seat's tools are a map writer's too, grants are ordered, and an agent's participant is
  one of the participants.  `McpInv`: the version noted for a session is the one its
  client sends, an entered session has its version or somebody is about to note it, and
  `Fine` says at each stage of a request what it has read so far.  `SeenInv` adds what a
  request that found nobody bound has seen.
* `TokensWereGranted`, `BearersAreHeld`, from `OAuthAssumption`
  (lifetimes are numbers).  `GrantInv` follows an ask through its code, its mint and its
  redemption (`SpentOnce`: an ask has one redemption under way or one token).
  `BearerIsHeld` counts, so its invariant `Balanced` counts too: live tokens without a
  holder and redemptions nobody listens to are together no more than the losses.
* `TunnelProcessesHeld`, `TunnelAttended`, `TunnelStaysStopped`, with no assumption:
  any number of generations and restarts.  `TunnelInv`: a start task that was not aborted
  is of the newest generation (`TasksAgree`), a process outside its slot is owned by a task
  that will place or kill it (`Held`), one loop at most is not aborted (`LoopsAgree`), a loop
  in the middle of a turn found a child that nobody takes (`Watching`), and no restart sleeps
  for the generation of a stop unless an exit was noted after it (`Called`).

### Runs

| Run | Instance | Shows |
| --- | --- | --- |
| `services` | `OAuthServer`, `Tunnel`, `PendingEdges`, `Roster` under fairness | every property of these four |
| `node` | the other nine, `OplogStore` in four scenes, `RelayDoor` and `LegacyPull` in two | every property of these nine |
| `oplog_origin` | three operations, a compaction pass | **violates** `OriginPersists` |

The modules share no state; the variable `part` says which one a behaviour moves, so a
run is the union of its parts and not their product.

Bounds.  OAuth: one client, two asks, one answer lost, times to live of one or two
seconds in a clock of four, so that everything runs out.  Tunnel: three generations
(start, stop, start) and one automatic restart.  Edges: three edges, of which one is
malformed and two share a row, pages of one, two deletions.  Roster: every feed of one
or two of the candidates that swap, share and lose two keys, this device with an old key
and one with an empty id among them.  Log: the scenes are
three rows with a deferral and a merge (`rows`), a bulk table (`bulk`), one peer over
two epochs (`peers`), and two peers with a floor to be reset to (`pair`).  Quarantine:
a damaged and a whole copy of one operation, limits one below what the peers serve.
Rows: two writes and two deletions of a row that another references, and one write of
fewer columns.  Door: two
callers and one change, or one caller and two changes, a request that arrives twice.
Legacy: two sources, three operations, pages of two, one restart; or one source with
parked watches.

Fairness (`services`).  A client polls on a timer and time passes (`AskEnds`); the tokio
tasks of the tunnel are scheduled, and a sleeping restart wakes (`ExitIsTold`); a
dispatcher that was started takes and runs what is recorded, also after a crash
(`OwedCallbackRuns`).  Answers of the person, lost answers, starts, stops, exits and
crashes are not fair.  Deadlock is not checked because the bounds let everything stop.


## Proved, and only model-checked

Every safety invariant and every action property that a passing run checks is proved,
for all values of the constants that satisfy the named assumptions; the runs show the
same formulas on small instances, and the mutants in `PROJECT.json` that they can fail.
The proofs are in eight modules: `RelayMeshFiles_proof` and `RelayMesh_proof`,
`PullExchange_proof`, `Watches_proof` (`LegacyPull`, `RelayDoor`), `OplogStore_proof`,
`Tables_proof` (`RowWrites`, `PendingEdges`, `Quarantine`, `Roster`), `Front_proof`
(`AskProof`, `Limiter`, `Gate`, `Tunnel`) and `Mcp_proof` (`McpSessions`, `OAuthServer`).
Leaves without arithmetic name Zenon, which is much the faster of the two provers there.

The proofs are narrower than the runs in one place: those about `PullExchange` are for
one peer, and `NoSilentLoss` and `DoneMeansHeld` of two peers in turn (`pull_two`) are
only model-checked.  `NoWakeupLost` and the part modules are proved of each part's own
specification; in the runs the parts move one at a time.

The bounds that TLC needs (`MaxTime`, `MaxEpoch` and the like) are in the guards of the
models, so they are in the theorems too, with any value.

Liveness (`Converges`, `PullConverges`, `DrainsComplete`, `AskEnds`, `ExitIsTold`,
`OwedCallbackRuns`) is out of the prover's reach and stays with TLC.  Where a recursive
definition is at the heart of a property (the binary search, the reconciliation loop,
the page builder's runs) it is a recursive function, and the induction is done by hand:
a set of numbers with a counterexample has a least one.

## Other disagreements between text and code

Met while modelling and not the subject of a run:

* `oauth/mod.rs:189` says "At most `per` events from one source in any `window_secs`";
  the windows are fixed, and across a boundary up to `2 * per - 1` pass
  (`FewerThanTwoWindows` is what holds).
* `oauth/net/mod.rs:506` tells the person the client asks "for thirty days"; a token of
  a purpose scope does not expire (`expires_at_for`).
* `bin/pnsd.rs:556` says "Drain every peer to exhaustion"; in legacy mode a page of
  operations that another link brought first, or that fails, ends the drain of that link
  until the next wake-up.
* `net/watch.rs:11` says the watch is "fed the new head from every op-append path"; the `Err`
  arms of `serve()` publish nothing, although the batch may have appended before it erred.
* `oauth/mod.rs:47` says a token's `last_used_at` "moves at most this often"; two requests that
  are admitted at once both read the old value, and both move it.
* A rotation of the relay epoch is not published to parked watches; they find it at
  their deadline.

## Not modelled

* Encodings, signatures and identities (`op.rs`, `identity.rs`, the byte layouts in
  `relay.rs` and `ask_proof.rs`, the value encodings of `row_op.rs`): pure functions of
  bytes; the models take their results as values.
* Reads without state of their own (`device_book.rs`, `oplog_queries.rs`, the dry-run
  statistics of `retention.rs`), pass-through sockets (`log_source.rs`,
  `pull_socket.rs`), stores that are a map (`kv.rs`, `file_store.rs`).
* Priming coverage claims from an existing log (`coverage.rs`): its correctness depends
  on snapshots that the embedder imports.
* `sweep_store` and `skip_unattested` of the v3 client, see above; the embedder's own
  loops around `sqlite/*` beyond what the functions' comments promise.
* The port ledger (`ports.rs`): a file that two nodes of one machine may rewrite over
  each other.  An interrupted installation of cloudflared leaves a partial file that the
  next start takes for a whole one; `Tunnel` has it, and the start then fails.
* Discovery, request and page translation (`address.rs`, `address_web.rs`, the markup of
  `oauth/net/mod.rs`, JSON of the MCP server), wire types and telemetry, the test harness.
* A store that cannot decode an operation blocks a legacy link for good (`net/sync.rs:208`),
  and `serve()` never retries a peer that was away at start-up: both are in the models,
  and no property promises otherwise.
