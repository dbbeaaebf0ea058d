----------------------------- MODULE OplogStore -----------------------------
(***************************************************************************)
(* The operation log kept in SQLite (src/src/sqlite/oplog.rs,              *)
(* oplog_heads.rs, oplog_queries.rs, retention.rs and the peer             *)
(* acknowledgements of coverage.rs).                                       *)
(*                                                                         *)
(* Operations are named by the rank of their order key (hlc, device,       *)
(* op id), so "newer" is ">" and a row's last-writer-wins winner is a      *)
(* maximum.  Every function of these files runs inside a transaction of    *)
(* its caller, hence one action each.  The callers are not in this         *)
(* repository: they append, defer and merge rows, and run a compaction     *)
(* pass as one candidate scan followed by the deletion of the candidates   *)
(* chunk by chunk, a transaction per chunk, with anything in between.      *)
(***************************************************************************)
EXTENDS Integers, FiniteSets, FiniteSetsExt, Functions

CONSTANTS
    Ops,          \* a set of positive integers, in the order of their keys
    RowIds,       \* rows: a store, a table and a primary key
    RowOf,        \* [Ops -> RowIds]: the row an operation was written for
    DeviceOf,     \* [Ops -> devices]: the device that signed it
    BulkRows,     \* the rows of self-draining bulk tables
    External,     \* operations that may be deferred for canonicalization
    Aliases,      \* pairs <<alias, canonical>> of row ids that may merge
    Peers,        \* the other devices
    KeepPerRow,   \* CompactionPolicy.keep_per_row
    MaxDeletes,   \* CompactionPolicy.max_deletes_per_pass
    Horizon,      \* the retention horizon, in units of the clock
    MaxTime, MaxSeq, MaxEpoch    \* bounds

\* Rows that merge or defer operations are not rows of bulk tables: a rebuilt
\* head is read off the log, where "the compactor pins every row's earliest
\* applied op" (rebuild_head), which it does not for a bulk table.
ASSUME StoreAssumption ==
    /\ Ops \subseteq Nat \ {0}
    /\ RowOf \in [Ops -> RowIds]
    /\ External \subseteq Ops
    /\ Aliases \subseteq RowIds \X RowIds
    /\ Horizon \in Nat
    /\ \A x \in External : RowOf[x] \notin BulkRows
    /\ \A a \in Aliases : a[1] \notin BulkRows /\ a[2] \notin BulkRows

VARIABLES
    log,       \* oplog: logged operation -> [row, applied]
    arrivals,  \* oplog_arrivals: relay_seq -> [op, at]
    heads,     \* oplog_heads: row -> [op, origin, trimmed]
    canon,     \* row -> the row its operations are filed under
    relay,     \* mesh_relay_state: [epoch, floor]
    pins,      \* operations other tables still need
    scan,      \* the compaction pass: cursor, candidates and what bound them
    peers,     \* peer -> [trusted, seen, epoch, ack]: devices, mesh_peer_acks
    pulled,    \* peer -> [epoch, seq, passed]: the cursor it committed, and the
               \* operations whose places its cursors have passed (history)
    drained,   \* every operation compaction has deleted (history)
    deferred,  \* every operation ever deferred (history)
    clock      \* seconds, coarsely

storeVars == <<log, arrivals, heads, canon, relay, pins, scan, peers, pulled,
               drained, deferred, clock>>

NoOp == 0
Extended(f, k, v) == [x \in DOMAIN f \cup {k} |-> IF x = k THEN v ELSE f[x]]
Removing(f, S) == Restrict(f, DOMAIN f \ S)

Idle == [after |-> 0, found |-> {}, young |-> {}, peers |-> {}]

-----------------------------------------------------------------------------
(* Reads.                                                                  *)

\* The newest relay_seq, 0 for an empty stream.
HeadSeq == Max({0} \cup DOMAIN arrivals)

AppliedIn(l, r) == {o \in DOMAIN l : l[o].row = r /\ l[o].applied}
Newest(S) == IF S = {} THEN NoOp ELSE Max(S)

\* newest_applied_in_store, and newest_op_in_store for the order key: the
\* materialised head unless it is the excluded operation, else the row's log.
NewestApplied(r, exclude) ==
    IF r \in DOMAIN heads /\ heads[r].op # exclude
    THEN heads[r].op
    ELSE Newest(AppliedIn(log, r) \ {exclude})

IsHead(o) ==
    /\ log[o].row \in DOMAIN heads
    /\ heads[log[o].row].op = o

-----------------------------------------------------------------------------
(* Heads.  Each operator returns the table oplog_heads after the call, for *)
(* the log l the transaction has already written.                          *)

\* Without its WHERE, the latest arrival would be the head.
LatestArrival(h, o, r) ==
    IF r \notin DOMAIN h
    THEN [op |-> o, origin |-> DeviceOf[o], trimmed |-> FALSE]
    ELSE [op |-> o, origin |-> h[r].origin, trimmed |-> FALSE]

\* The INSERT .. ON CONFLICT .. WHERE of upsert_head.
AdvancedHead(h, o, r) ==
    IF r \notin DOMAIN h
    THEN [op |-> o, origin |-> DeviceOf[o], trimmed |-> FALSE]
    ELSE IF o > h[r].op
    THEN [op |-> o, origin |-> h[r].origin, trimmed |-> FALSE]
    ELSE h[r]

\* Its UPDATE of origin_device: only when nothing applied orders below o.
OriginAfter(l, h, o, r) ==
    IF \E x \in AppliedIn(l, r) : x < o THEN h.origin ELSE DeviceOf[o]

UpsertHead(l, h, o, r) ==
    LET new == AdvancedHead(h, o, r)
    IN  Extended(h, r, [new EXCEPT !.origin = OriginAfter(l, new, o, r)])

\* demote_head: o has just been marked unapplied.
DemoteHead(l, h, o) ==
    LET r == l[o].row
        rest == AppliedIn(l, r)
    IN  IF r \notin DOMAIN h \/ h[r].op # o
        THEN h
        ELSE IF rest = {}
        THEN Removing(h, {r})
        ELSE [h EXCEPT ![r] = [@ EXCEPT !.op = Max(rest), !.trimmed = FALSE]]

\* rebuild_head: the row's operations were moved between partitions.
RebuildHead(l, h, r) ==
    LET all == AppliedIn(l, r)
    IN  IF all = {}
        THEN Removing(h, {r})
        ELSE Extended(h, r, [op |-> Max(all), origin |-> DeviceOf[Min(all)],
                         trimmed |-> FALSE])

-----------------------------------------------------------------------------
(* Writing.                                                                *)

\* append of an operation the log does not hold (an INSERT OR IGNORE that
\* inserts nothing changes nothing).  An operation that compaction deleted
\* may come again from a peer.
AppendOp(o) ==
    LET r == canon[RowOf[o]]
        l == Extended(log, o, [row |-> r, applied |-> TRUE])
    IN  /\ o \notin DOMAIN log
        /\ HeadSeq < MaxSeq
        /\ log' = l
        /\ arrivals' = Extended(arrivals, HeadSeq + 1, [op |-> o, at |-> clock])
        /\ heads' = UpsertHead(l, heads, o, r)
        /\ UNCHANGED <<canon, relay, pins, scan, peers, pulled, drained,
                       deferred, clock>>

\* The caller marks an external row's operation unapplied, then demote_head.
Defer(o) ==
    /\ o \in DOMAIN log \cap External
    /\ log[o].applied
    /\ log' = [log EXCEPT ![o].applied = FALSE]
    /\ heads' = DemoteHead(log', heads, o)
    /\ deferred' = deferred \cup {o}
    /\ UNCHANGED <<arrivals, canon, relay, pins, scan, peers, pulled, drained,
                   clock>>

\* The caller marks a deferred operation applied again, then upsert_head.
Canonicalize(o) ==
    /\ o \in DOMAIN log
    /\ ~log[o].applied
    /\ log' = [log EXCEPT ![o].applied = TRUE]
    /\ heads' = UpsertHead(log', heads, o, log[o].row)
    /\ UNCHANGED <<arrivals, canon, relay, pins, scan, peers, pulled, drained,
                   deferred, clock>>

\* The caller's alias merge: row_pk is rewritten, also of rows merged into the
\* alias before, then both heads rebuilt.
MergeAlias(from, to) ==
    LET l == [o \in DOMAIN log |->
                 IF log[o].row = from THEN [log[o] EXCEPT !.row = to] ELSE log[o]]
    IN  /\ canon[from] = from /\ canon[to] = to /\ from # to
        /\ canon' = [r \in RowIds |-> IF canon[r] = from THEN to ELSE canon[r]]
        /\ log' = l
        /\ heads' = RebuildHead(l, RebuildHead(l, heads, from), to)
        /\ UNCHANGED <<arrivals, relay, pins, scan, peers, pulled, drained,
                       deferred, clock>>

\* A pending edge, an undispatched callback, a queued projection or replay
\* comes to need an operation, or is done with it.
Pin(o) ==
    /\ o \in DOMAIN log \ pins
    /\ pins' = pins \cup {o}
    /\ UNCHANGED <<log, arrivals, heads, canon, relay, scan, peers, pulled,
                   drained, deferred, clock>>

Unpin(o) ==
    /\ o \in pins
    /\ pins' = pins \ {o}
    /\ UNCHANGED <<log, arrivals, heads, canon, relay, scan, peers, pulled,
                   drained, deferred, clock>>

-----------------------------------------------------------------------------
(* The relay stream and the peers that walk it.                            *)

\* rotate_relay_stream_epoch: the arrivals stay where they are.  It has no
\* caller in this repository.
RotateEpoch ==
    /\ relay.epoch < MaxEpoch
    /\ relay' = [epoch |-> relay.epoch + 1, floor |-> 0]
    /\ UNCHANGED <<log, arrivals, heads, canon, pins, scan, peers, pulled, drained,
                   deferred, clock>>

\* record_peer_ack: a cursor of another epoch says nothing; in the current
\* one it is folded into the row of that epoch, or replaces an older row.
Acked(row, epoch, seq) ==
    IF epoch # relay.epoch
    THEN row
    ELSE [row EXCEPT !.epoch = epoch,
                     !.ack = IF row.epoch = epoch THEN Max({row.ack, seq}) ELSE seq]

\* The paired devices.
Trusted == {p \in Peers : peers[p].trusted}

\* pull_needs_reset: no cursor against a stream that was cut, one of another
\* epoch, or one outside what the stream holds.
PullNeedsReset(c) ==
    \/ c.epoch = 0 /\ relay.floor > 0
    \/ c.epoch \notin {0, relay.epoch}
    \/ c.epoch = relay.epoch /\ (c.seq < relay.floor \/ c.seq > HeadSeq)

\* An acknowledgement of what is about to be served.
AdmitServed(row, c) ==
    IF PullNeedsReset(c) THEN row ELSE Acked(row, relay.epoch, HeadSeq)

\* admit_pull_ack: a cursor that must be reset, or none, acknowledges nothing.
AdmitPullAck(row, c) ==
    IF PullNeedsReset(c) \/ c.epoch = 0 THEN row ELSE Acked(row, c.epoch, c.seq)

\* The peer commits the cursor of a page of the stream, up to a place.
TakePullPage(p, upto) ==
    LET from == pulled[p].seq
    IN  /\ ~PullNeedsReset(pulled[p])
        /\ upto \in {s \in DOMAIN arrivals : s > from} \cup {from}
        /\ pulled' = [pulled EXCEPT ![p] =
             [epoch |-> relay.epoch, seq |-> upto,
              passed |-> @.passed \cup {arrivals[s].op :
                            s \in {t \in DOMAIN arrivals : from < t /\ t <= upto}}]]

\* The peer takes a reset page and restarts at the floor.
TakePullReset(p) ==
    /\ PullNeedsReset(pulled[p])
    /\ pulled' = [pulled EXCEPT ![p] =
         [epoch |-> relay.epoch, seq |-> relay.floor,
          passed |-> @.passed \cup {arrivals[s].op :
                        s \in {t \in DOMAIN arrivals : t <= relay.floor}}]]

\* A trusted peer pulls: it is seen, the cursor it presents is recorded, and it
\* takes the answer or never gets it.
Pull(p) ==
    /\ p \in Trusted
    /\ peers' = [peers EXCEPT ![p] = [AdmitPullAck(@, pulled[p]) EXCEPT !.seen = clock]]
    /\ \/ \E upto \in 0..MaxSeq : TakePullPage(p, upto)
       \/ TakePullReset(p)
       \/ UNCHANGED pulled
    /\ UNCHANGED <<log, arrivals, heads, canon, relay, pins, scan, drained,
                   deferred, clock>>

\* The owner pairs with a device.
Pair(p) ==
    /\ ~peers[p].trusted
    /\ peers' = [peers EXCEPT ![p].trusted = TRUE, ![p].seen = clock]
    /\ UNCHANGED <<log, arrivals, heads, canon, relay, pins, scan, pulled,
                   drained, deferred, clock>>

Tick ==
    /\ clock < MaxTime
    /\ clock' = clock + 1
    /\ UNCHANGED <<log, arrivals, heads, canon, relay, pins, scan, peers,
                   pulled, drained, deferred>>

-----------------------------------------------------------------------------
(* How far compaction may go.                                              *)

\* The probe of horizon_relay_floor: the last arrival at or before mid.
ProbeAt(mid) == Max({s \in DOMAIN arrivals : s <= mid})

\* A turn that takes the probed place for the arrival found there.
NarrowToMid(b, cutoff) ==
    LET mid == b.lo + (b.hi - b.lo) \div 2
    IN  IF arrivals[ProbeAt(mid)].at <= cutoff
        THEN [b EXCEPT !.best = mid, !.lo = mid + 1]
        ELSE [b EXCEPT !.hi = mid - 1]

\* One turn of its loop over <<lo, hi, best>>.
Narrow(b, cutoff) ==
    LET mid == b.lo + (b.hi - b.lo) \div 2
        seq == ProbeAt(mid)
    IN  IF arrivals[seq].at <= cutoff
        THEN [b EXCEPT !.best = Max({@, seq}), !.lo = mid + 1]
        ELSE [b EXCEPT !.hi = seq - 1]

HorizonSearch(cutoff, first, last) ==
    LET Bounds == [lo : first..(last + 1), hi : (first - 1)..last, best : first..last]
        loop[b \in Bounds] == IF b.lo > b.hi THEN b.best ELSE loop[Narrow(b, cutoff)]
    IN  loop[[lo |-> first, hi |-> last, best |-> first]]

\* horizon_relay_floor: the last arrival no younger than the cutoff, by binary
\* search in a stream whose deleted places are holes.
HorizonFloor(cutoff) ==
    IF arrivals = <<>> THEN 0
    ELSE LET first == Min(DOMAIN arrivals)
         IN  IF arrivals[first].at > cutoff THEN 0
             ELSE IF arrivals[HeadSeq].at <= cutoff THEN HeadSeq
             ELSE HorizonSearch(cutoff, first, HeadSeq)

\* A pairing not seen since the horizon no longer holds anything back.
Dormant(p) == peers[p].seen < clock - Horizon

\* min_peer_ack: no row of this epoch counts zero; None is 0 for the caller.
MinPeerAck ==
    LET awake == {p \in Trusted : ~Dormant(p)}
        ack(p) == IF peers[p].epoch = relay.epoch THEN peers[p].ack ELSE 0
    IN  IF awake = {} THEN 0 ELSE Min({ack(p) : p \in awake})

\* safe_relay_floor.
SafeFloor == Max({HorizonFloor(clock - Horizon), MinPeerAck})

-----------------------------------------------------------------------------
(* A compaction pass.                                                      *)

\* Whether the row's history makes o redundant: enough newer applied
\* operations and an older one, or the table drains itself.
Shadowed(o) ==
    \/ log[o].row \in BulkRows
    \/ /\ Cardinality({x \in AppliedIn(log, log[o].row) : x > o}) >= KeepPerRow
       /\ \E x \in AppliedIn(log, log[o].row) : x < o

\* The pins checked by the scan ...
Deletable(o) ==
    /\ o \notin pins
    /\ log[o].row \in BulkRows \/ ~IsHead(o)

\* A deletion that trusts the scan.
TrustsScan(o) == TRUE

\* ... and again by the deletion.
StillDeletable(o) ==
    /\ o \notin pins
    /\ log[o].row \in BulkRows \/ ~IsHead(o)

\* A walk that includes the newest place.
WalkToHead(after, floor) ==
    {s \in DOMAIN arrivals :
        /\ arrivals[s].op \in DOMAIN log
        /\ log[arrivals[s].op].applied
        /\ after < s /\ s <= floor}

\* The places a scan walks: applied, past the cursor, within the safe floor,
\* and never the newest place of the stream.
Walk(after, floor) ==
    {s \in DOMAIN arrivals :
        /\ arrivals[s].op \in DOMAIN log
        /\ log[arrivals[s].op].applied
        /\ after < s /\ s <= floor /\ s < HeadSeq}

\* compaction_candidates.  The scan ends at a place: the deadline strikes there,
\* which passes it over unexamined as the cursor already stands on it; or the
\* deadline or the cap is met before the page after it, or before the first.
\* The head stands for a walk to the end, after which the next starts over.
Scan(stop, struck) ==
    LET walk == Walk(scan.after, SafeFloor)
        seen == {s \in walk : s < stop \/ (s = stop /\ ~struck)}
        found == {s \in seen : Shadowed(arrivals[s].op) /\ Deletable(arrivals[s].op)}
        kept == {s \in found : Cardinality({t \in found : t < s}) < MaxDeletes}
        full == Cardinality(found) >= MaxDeletes
    IN  /\ scan.found = {}
        /\ stop \in walk \cup {scan.after, HeadSeq}
        /\ struck => stop \in walk
        /\ scan' = [after |-> IF full THEN Max(kept)
                              ELSE IF stop = HeadSeq THEN 0 ELSE stop,
                    found |-> {arrivals[s].op : s \in kept},
                    young |-> {arrivals[s].op : s \in
                                 {t \in kept : arrivals[t].at > clock - Horizon}},
                    peers |-> IF kept = {} THEN {} ELSE {p \in Trusted : ~Dormant(p)}]
        /\ UNCHANGED <<log, arrivals, heads, canon, relay, pins, peers,
                       pulled, drained, deferred, clock>>

\* trim_upsert_head_payloads: the payload a drained bulk head carried goes.
Trimmed(chunk) ==
    [r \in DOMAIN heads |->
        [heads[r] EXCEPT !.trimmed = @ \/ (r \in BulkRows /\ heads[r].op \in chunk)]]

\* What is left of the pass once a chunk is done.
AfterChunk(chunk) ==
    IF scan.found \subseteq chunk
    THEN [Idle EXCEPT !.after = scan.after]
    ELSE [scan EXCEPT !.found = @ \ chunk, !.young = @ \ chunk]

\* delete_ops_chunk: pins and heads are looked at again, the history is not.
DeleteChunk(chunk) ==
    LET gone == {o \in chunk \cap DOMAIN log : StillDeletable(o)}
        places == {s \in DOMAIN arrivals : arrivals[s].op \in gone}
    IN  /\ chunk \subseteq scan.found
        /\ chunk # {}
        /\ heads' = Trimmed(chunk \cap DOMAIN log)
        /\ log' = Removing(log, gone)
        /\ arrivals' = Removing(arrivals, places)
        /\ relay' = [relay EXCEPT !.floor = Max({@} \cup places)]
        /\ drained' = drained \cup gone
        /\ scan' = AfterChunk(chunk)
        /\ UNCHANGED <<canon, pins, peers, pulled, deferred, clock>>

\* The process ends, or the caller runs out of time, between two chunks.
Abandon ==
    /\ scan.found # {}
    /\ scan' = [Idle EXCEPT !.after = scan.after]
    /\ UNCHANGED <<log, arrivals, heads, canon, relay, pins, peers, pulled,
                   drained, deferred, clock>>

-----------------------------------------------------------------------------
StoreInit ==
    /\ log = <<>>
    /\ arrivals = <<>>
    /\ heads = <<>>
    /\ canon = [r \in RowIds |-> r]
    /\ relay = [epoch |-> 1, floor |-> 0]
    /\ pins = {}
    /\ scan = Idle
    /\ peers = [p \in Peers |-> [trusted |-> FALSE, seen |-> 0, epoch |-> 0, ack |-> 0]]
    /\ pulled = [p \in Peers |-> [epoch |-> 0, seq |-> 0, passed |-> {}]]
    /\ drained = {}
    /\ deferred = {}
    /\ clock = 0

WriteStep ==
    \/ \E o \in Ops : AppendOp(o)
    \/ Tick

\* What other tables do to rows and their operations.
RowStep ==
    \/ \E o \in Ops : Defer(o) \/ Canonicalize(o) \/ Pin(o) \/ Unpin(o)
    \/ \E a \in Aliases : MergeAlias(a[1], a[2])

\* What happens to the stream and the peers on it.
StreamStep ==
    \/ RotateEpoch
    \/ \E p \in Peers : Pair(p) \/ Pull(p)

CompactionStep ==
    \/ \E stop \in 0..MaxSeq, struck \in BOOLEAN : Scan(stop, struck)
    \/ \E chunk \in SUBSET scan.found : DeleteChunk(chunk)
    \/ Abandon

StoreNext == WriteStep \/ RowStep \/ StreamStep \/ CompactionStep

StoreSpec == StoreInit /\ [][StoreNext]_storeVars

-----------------------------------------------------------------------------
(* Properties.                                                             *)

\* What a row has applied, and what compaction took from it, except below an
\* operation deferred at some time: whatever compaction deleted under that one
\* is forgotten, and demote_head goes back past it.
HistoryOf(r) ==
    AppliedIn(log, r) \cup
        {o \in drained : /\ canon[RowOf[o]] = r
                         /\ \A x \in deferred : canon[RowOf[x]] = r => x < o}

\* The last-writer-wins reads (newest_applied_in_store) name the newest
\* operation of a row's history, whatever was merged, compacted away or pulled
\* again since: an older write arriving late still loses.  A deferral sends the
\* row back to the newest applied operation the log still holds.
WinnerIsNewest ==
    \A r \in RowIds :
        LET newest == Newest(HistoryOf(r))
        IN  /\ NewestApplied(r, NoOp) = newest
            /\ \A x \in Ops : NewestApplied(r, x) =
                  IF x = newest THEN Newest(AppliedIn(log, r) \ {x}) ELSE newest

\* What other tables point to is there to be read: the log holds every pinned
\* operation, and, outside the bulk tables, holds a row's head as applied,
\* though a pin or a head may come after the scan that made its operation a
\* candidate (delete_ops_chunk), and heads move as operations are deferred and
\* rows merged.
NeededOpsAreHeld ==
    /\ pins \subseteq DOMAIN log
    /\ \A r \in DOMAIN heads \ BulkRows : heads[r].op \in AppliedIn(log, r)

\* A place of the stream never names another operation and the stream's end
\* never goes back, though compaction deletes places and the next place is one
\* past the last that is left.
StreamKeepsPlaces ==
    [][/\ HeadSeq' >= HeadSeq
       /\ \A s \in DOMAIN arrivals \cap DOMAIN arrivals' :
             arrivals'[s].op = arrivals[s].op]_storeVars

\* A candidate younger than the horizon is one whose place the committed
\* cursor of every peer paired and awake at the scan has passed, or lay below
\* the floor it was reset to: a page the peer never got, an epoch rotated or a
\* place deleted never makes the floor pass a cursor.  Whether the peer holds
\* what its cursor passed is PullExchange's question.
PeersPassedWhatGoes ==
    \A o \in scan.young : \A p \in scan.peers : o \in pulled[p].passed

\* The binary search of horizon_relay_floor finds, in a stream with holes, the
\* last arrival that is no younger than the cutoff.  (arrived_at is wall time; the
\* clock here does not go back.)
HorizonFloorIsRight ==
    \A cutoff \in 0..MaxTime :
        HorizonFloor(cutoff) =
            Max({0} \cup {s \in DOMAIN arrivals : arrivals[s].at <= cutoff})

\* origin_device is the device of the earliest operation the row ever had
\* applied: "after compaction drops the true-earliest op the stored fact
\* persists" (oplog_heads.rs).
OriginPersists ==
    \A r \in DOMAIN heads :
        HistoryOf(r) # {} => heads[r].origin = DeviceOf[Min(HistoryOf(r))]
=============================================================================
