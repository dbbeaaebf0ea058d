---------------------------- MODULE PullExchange ----------------------------
(***************************************************************************)
(* Pull protocol v3: a puller drains its peers page by page.               *)
(*                                                                         *)
(* A page has two channels (net/pull_server.rs).  The keyed channel serves *)
(* every origin's operations above the puller's claim for that origin; the *)
(* backfill serves the peer's arrival stream after the puller's cursor,    *)
(* leaving out what is above the claim.  The puller (net/pull_client.rs)   *)
(* admits the backfill, moves its cursor over everything scanned, then     *)
(* admits the keyed runs, each of which raises the claim of its origin.    *)
(*                                                                         *)
(* Both ends are the in-memory implementations of net/socket.rs: the floor *)
(* of a stream is 0, a log answers each call of the page builder under its *)
(* lock and may grow between two calls.  An operation is its origin and    *)
(* its key; an origin is a number and numbers order origins.  A claim of 0 *)
(* is no claim, an epoch of 0 no cursor.  Every envelope has one byte.     *)
(***************************************************************************)
EXTENDS Integers, Sequences, FiniteSetsExt

CONSTANTS
  Peers,          \* the devices the puller pulls from
  Origins,        \* the devices that sign operations
  Own,            \* the origin each peer is
  Offered,        \* the operations that may reach each peer
  MaxKey,         \* bound: the keys of an origin are 1 .. MaxKey
  Limit,          \* PULL_PAGE_LIMIT_MAX
  ByteBudget,     \* PULL_PAGE_BYTE_BUDGET
  StallLimit,     \* PULL_NO_PROGRESS_LIMIT
  Audits,         \* the values of a drain's audit flag
  FirstKnown,     \* the origins the registry starts with
  MaxEpoch,       \* bound: how often a peer starts
  MaxFaults       \* bound: exchanges that fail

Op == [origin : Origins, key : 1 .. MaxKey]

ASSUME PullAssumption ==
  /\ Origins \subseteq Nat
  /\ Own \in [Peers -> Origins]
  /\ Offered \in [Peers -> SUBSET Op]
  /\ {MaxKey, Limit, ByteBudget, StallLimit, MaxEpoch} \subseteq Nat \ {0}
  /\ Audits \subseteq BOOLEAN
  /\ FirstKnown \subseteq Origins
  /\ MaxFaults \in Nat

VARIABLES
  arr,       \* the arrival stream of each peer
  epoch,     \* its epoch
  held,      \* the puller's log
  known,     \* the origins its registry has a key for
  claims,    \* its coverage vector
  cursors,   \* its relay cursor for each peer
  pc,        \* where the drain of each peer is
  audit,     \* whether it is an audit
  resume,    \* the resume token of the next request
  asked,     \* the claims of the request being served
  left,      \* the origins build_keyed_channel has not served yet
  page,      \* the page being built or applied
  resetSeen, \* whether this drain was reset
  progress,  \* last_progress
  stalled,   \* pages without progress
  faults     \* failed exchanges so far

server == <<arr, epoch>>
puller == <<held, known, claims, cursors>>
round  == <<audit, resetSeen, progress, stalled>>
drain  == <<resume, asked, left, page, round>>
vars   == <<server, puller, pc, drain, faults>>

Claims == [Origins -> 0 .. MaxKey]
Cursor == [epoch : 0 .. MaxEpoch, after : Nat]
Resume == [phase : {"none", "keyed", "backfill"}, seq : Nat,
           origin : Origins, key : 0 .. MaxKey]
Run    == [origin : Origins, keys : SUBSET (1 .. MaxKey)]
Page   == [epoch : 0 .. MaxEpoch, reset : BOOLEAN, backfill : SUBSET Nat,
           runs : Seq(Run), size : 0 .. Limit, next : Nat, resume : Resume,
           head : Nat]

AnOrigin == CHOOSE o \in Origins : TRUE

NoResume == [phase |-> "none", seq |-> 0, origin |-> AnOrigin, key |-> 0]
KeyedResume(o, k) == [NoResume EXCEPT !.phase = "keyed", !.origin = o, !.key = k]
BackfillResume(i) == [NoResume EXCEPT !.phase = "backfill", !.seq = i]

NoPage == [epoch |-> 0, reset |-> FALSE, backfill |-> {}, runs |-> <<>>,
           size |-> 0, next |-> 0, resume |-> NoResume, head |-> 0]
NoClaims == [o \in Origins |-> 0]

\* The n least elements of a set of numbers.
Least(S, n) == {k \in S : Cardinality({j \in S : j < k}) < n}

Smaller(a, b) == IF a <= b THEN a ELSE b
Larger(a, b)  == IF a >= b THEN a ELSE b

Arrived(p) == {arr[p][i] : i \in DOMAIN arr[p]}

Init ==
  /\ arr = [p \in Peers |-> <<>>]
  /\ epoch = [p \in Peers |-> 1]
  /\ held = {}
  /\ known = FirstKnown
  /\ claims = NoClaims
  /\ cursors = [p \in Peers |-> [epoch |-> 0, after |-> 0]]
  /\ pc = [p \in Peers |-> "idle"]
  /\ audit = [p \in Peers |-> FALSE]
  /\ resume = [p \in Peers |-> NoResume]
  /\ asked = [p \in Peers |-> NoClaims]
  /\ left = [p \in Peers |-> {}]
  /\ page = [p \in Peers |-> NoPage]
  /\ resetSeen = [p \in Peers |-> FALSE]
  /\ progress = [p \in Peers |-> <<0, NoResume>>]
  /\ stalled = [p \in Peers |-> 0]
  /\ faults = 0

(***************************************************************************)
(* The peers.                                                              *)
(***************************************************************************)

\* An operation reaches a peer's log: its own in the order of its clock, others
\* in the order in which it pulls them.
Arrive(p, o) ==
  /\ o \notin Arrived(p)
  /\ o.origin = Own[p] =>
       \A x \in Arrived(p) : x.origin = o.origin => x.key < o.key
  /\ arr' = [arr EXCEPT ![p] = Append(@, o)]
  /\ UNCHANGED <<epoch, puller, pc, drain, faults>>

\* A drain is over; its local variables are gone.
EndDrain(p, at) ==
  /\ pc' = [pc EXCEPT ![p] = at]
  /\ audit' = [audit EXCEPT ![p] = FALSE]
  /\ resume' = [resume EXCEPT ![p] = NoResume]
  /\ asked' = [asked EXCEPT ![p] = NoClaims]
  /\ left' = [left EXCEPT ![p] = {}]
  /\ page' = [page EXCEPT ![p] = NoPage]
  /\ resetSeen' = [resetSeen EXCEPT ![p] = FALSE]
  /\ progress' = [progress EXCEPT ![p] = <<0, NoResume>>]
  /\ stalled' = [stalled EXCEPT ![p] = 0]

\* A peer restarts with its log and a new epoch; what it was serving fails.
Restart(p) ==
  /\ epoch[p] < MaxEpoch
  /\ epoch' = [epoch EXCEPT ![p] = @ + 1]
  /\ IF pc[p] = "keyed"
     THEN EndDrain(p, "idle")
     ELSE UNCHANGED <<pc, drain>>
  /\ UNCHANGED <<arr, puller, faults>>

(***************************************************************************)
(* A page (net/pull_server.rs).                                            *)
(***************************************************************************)

\* mutant: a cursor of another epoch is read as a position in this one
ResetOnlyPastEnd(c, p) == c.after > Len(arr[p])

NeedsReset(c, p) ==
  \/ c.epoch # 0 /\ c.epoch # epoch[p]
  \/ c.epoch = epoch[p] /\ c.after > Len(arr[p])

\* The request arrives: a reset, or the start of a page.  A backfill token skips
\* the keyed channel, a keyed token its origins below the token's.
Ask(p) ==
  /\ pc[p] = "ask"
  /\ LET reset == NeedsReset(cursors[p], p)
         origins == {x.origin : x \in Arrived(p)}
     IN /\ page' = [page EXCEPT ![p] =
             [NoPage EXCEPT !.epoch = epoch[p], !.reset = reset,
                            !.head = Len(arr[p])]]
        /\ left' = [left EXCEPT ![p] =
             IF reset \/ resume[p].phase = "backfill" THEN {}
             ELSE IF resume[p].phase = "none" THEN origins
             ELSE {o \in origins : o >= resume[p].origin}]
        /\ pc' = [pc EXCEPT ![p] = IF reset THEN "reply" ELSE "keyed"]
  /\ asked' = [asked EXCEPT ![p] = claims]
  /\ UNCHANGED <<server, puller, resume, round, faults>>

\* the peer's own origin first on a fresh exchange, then in order
NextOrigin(p) ==
  IF resume[p].phase = "none" /\ Own[p] \in left[p] THEN Own[p] ELSE Min(left[p])

\* where the keyed channel starts in an origin
KeyedAfter(p, o) ==
  Larger(IF audit[p] THEN 0 ELSE asked[p][o],
         IF resume[p].phase = "keyed" /\ resume[p].origin = o
         THEN resume[p].key ELSE 0)

\* how many envelopes the page may still take
Room(p) == Limit - page[p].size

\* the keys of an origin after a key
OriginSince(p, o, after) ==
  {x.key : x \in {y \in Arrived(p) : y.origin = o /\ y.key > after}}

\* One origin of the keyed channel.  The page is cut, with a token, when the
\* count or the bytes are used up.
ServeOrigin(p) ==
  /\ pc[p] = "keyed" /\ left[p] # {}
  /\ LET o == NextOrigin(p)
         size == page[p].size
         all == OriginSince(p, o, KeyedAfter(p, o))
         fetched == Least(all, Room(p))
         served == Least(fetched, ByteBudget - size)
         total == size + Cardinality(served)
         cut == \/ Cardinality(all) >= Room(p)
                \/ served # fetched
                \/ total >= ByteBudget
         runs == IF served = {} THEN page[p].runs
                 ELSE Append(page[p].runs, [origin |-> o, keys |-> served])
     IN IF cut
        THEN /\ page' = [page EXCEPT ![p].runs = runs, ![p].size = total,
                           ![p].next = cursors[p].after,
                           ![p].resume = KeyedResume(o, Max(served))]
             /\ left' = [left EXCEPT ![p] = {}]
             /\ pc' = [pc EXCEPT ![p] = "reply"]
        ELSE /\ page' = [page EXCEPT ![p].runs = runs, ![p].size = total]
             /\ left' = [left EXCEPT ![p] = @ \ {o}]
             /\ UNCHANGED pc
  /\ UNCHANGED <<server, puller, resume, asked, round, faults>>

\* the positions in a stretch of a stream whose operations the claims cover
CoveredIn(p, claim, from, to) ==
  {i \in from + 1 .. to : arr[p][i].key <= claim[arr[p][i].origin]}

\* The backfill: covered arrivals up to the bytes left, and a token when the
\* count or the bytes are used up.
ScanBackfill(p) ==
  /\ pc[p] = "keyed" /\ left[p] = {}
  /\ LET size == page[p].size
         start == IF resume[p].phase = "backfill" THEN resume[p].seq
                  ELSE cursors[p].after
         end == Smaller(start + Room(p), Len(arr[p]))
         covered == CoveredIn(p, asked[p], start, end)
         taken == Least(covered, ByteBudget - size)
         byteCut == Cardinality(covered) >= ByteBudget - size
         next == IF covered = taken THEN end
                 ELSE Min(covered \ taken) - 1
     IN page' = [page EXCEPT ![p].backfill = taken, ![p].next = next,
          ![p].resume = IF end = start + Room(p) \/ byteCut
                        THEN BackfillResume(next) ELSE NoResume]
  /\ pc' = [pc EXCEPT ![p] = "reply"]
  /\ UNCHANGED <<server, puller, resume, asked, left, round, faults>>

(***************************************************************************)
(* The drain (net/pull_client.rs).                                         *)
(***************************************************************************)

StartDrain(p, a) ==
  /\ pc[p] \in {"idle", "done"}
  /\ audit' = [audit EXCEPT ![p] = a]
  /\ pc' = [pc EXCEPT ![p] = "ask"]
  /\ UNCHANGED <<server, puller, resume, asked, left, page, resetSeen, progress,
                 stalled, faults>>

\* The request or the reply is lost, a call of the host fails, or the drain is
\* dropped: what was committed stays.
Fail(p) ==
  /\ pc[p] \notin {"idle", "done"}
  /\ faults < MaxFaults /\ faults' = faults + 1
  /\ EndDrain(p, "idle")
  /\ UNCHANGED <<server, puller>>

\* A reset: the cursor moves to the start of the peer's stream.  A second reset
\* in one drain is an error, and so is a page of another epoch without one.
ApplyReset(p) ==
  /\ pc[p] = "reply"
  /\ page[p].reset \/ cursors[p].epoch \notin {0, page[p].epoch}
  /\ IF resetSeen[p] \/ ~page[p].reset
     THEN EndDrain(p, "idle") /\ UNCHANGED cursors
     ELSE /\ cursors' = [cursors EXCEPT ![p] =
                           [epoch |-> page[p].epoch, after |-> 0]]
          /\ resetSeen' = [resetSeen EXCEPT ![p] = TRUE]
          /\ resume' = [resume EXCEPT ![p] = NoResume]
          /\ page' = [page EXCEPT ![p] = NoPage]
          /\ pc' = [pc EXCEPT ![p] = "ask"]
          /\ UNCHANGED <<asked, left, audit, progress, stalled>>
  /\ UNCHANGED <<server, held, known, claims, faults>>

\* admit_ops stops at an operation that does not verify, or whose clock is too
\* far ahead: a failure, of at most one of the operations given.
Refuses(S, bad) ==
  \/ bad = {} /\ UNCHANGED faults
  \/ /\ \E x \in S : bad = {x}
     /\ faults < MaxFaults /\ faults' = faults + 1

Before(S, stops) == {x \in S : \A y \in stops : x < y}

\* The backfill is admitted up to the first operation that is refused or has an
\* unknown signer, which ends the drain; the cursor follows what was admitted.
AdmitBackfill(p) ==
  /\ pc[p] = "reply" /\ ~page[p].reset
  /\ cursors[p].epoch \in {0, page[p].epoch}
  /\ \E bad \in SUBSET page[p].backfill :
       LET unknown == {i \in page[p].backfill : arr[p][i].origin \notin known}
           stops == bad \cup unknown
           admitted == Before(page[p].backfill, stops)
       IN /\ Refuses(page[p].backfill \ unknown, bad)
          /\ held' = held \cup {arr[p][i] : i \in admitted}
          /\ cursors' = [cursors EXCEPT ![p] =
               [epoch |-> page[p].epoch,
                after |-> IF admitted = {} THEN @.after ELSE Max(admitted)]]
          /\ IF stops = {}
             THEN pc' = [pc EXCEPT ![p] = "commit"] /\ UNCHANGED drain
             ELSE EndDrain(p, "idle")
  /\ UNCHANGED <<server, known, claims>>

\* The cursor moves over everything the server scanned.
CommitNext(p) ==
  /\ pc[p] = "commit"
  /\ cursors' = [cursors EXCEPT ![p].after = Larger(@, page[p].next)]
  /\ pc' = [pc EXCEPT ![p] = "runs"]
  /\ UNCHANGED <<server, held, known, claims, drain, faults>>

\* mutant: the claim is raised to the end of a run that was cut short
ClaimWholeRun(p) ==
  /\ pc[p] = "runs" /\ page[p].runs # <<>>
  /\ LET run == Head(page[p].runs)
         attested == run.origin \in known
     IN \E bad \in SUBSET run.keys :
          LET admitted == IF attested THEN Before(run.keys, bad) ELSE {}
          IN /\ Refuses(IF attested THEN run.keys ELSE {}, bad)
             /\ held' = held \cup [origin : {run.origin}, key : admitted]
             /\ claims' = IF ~attested THEN claims
                          ELSE [claims EXCEPT ![run.origin] =
                                  Larger(@, Max(run.keys))]
             /\ IF admitted = run.keys
                THEN /\ page' = [page EXCEPT ![p].runs = Tail(@)]
                     /\ UNCHANGED <<pc, resume, asked, left, round>>
                ELSE EndDrain(p, "idle")
  /\ UNCHANGED <<server, known, cursors>>

\* One keyed run is admitted, in order, up to the first operation refused, and
\* raises its origin's claim to the last one admitted.
AdmitRun(p) ==
  /\ pc[p] = "runs" /\ page[p].runs # <<>>
  /\ LET run == Head(page[p].runs)
         attested == run.origin \in known
     IN \E bad \in SUBSET run.keys :
          LET admitted == IF attested THEN Before(run.keys, bad) ELSE {}
          IN /\ Refuses(IF attested THEN run.keys ELSE {}, bad)
             /\ held' = held \cup [origin : {run.origin}, key : admitted]
             /\ claims' = IF admitted = {} THEN claims
                          ELSE [claims EXCEPT ![run.origin] =
                                  Larger(@, Max(admitted))]
             /\ IF admitted = run.keys
                THEN /\ page' = [page EXCEPT ![p].runs = Tail(@)]
                     /\ UNCHANGED <<pc, resume, asked, left, round>>
                ELSE EndDrain(p, "idle")
  /\ UNCHANGED <<server, known, cursors>>

\* While the drain is far behind, the newest arrivals are fetched as well, with
\* a claim for every known origin; neither cursor nor claims move.
PreviewHead(p) ==
  /\ pc[p] = "runs" /\ page[p].runs = <<>>
  /\ page[p].resume # NoResume
  /\ page[p].head > cursors[p].after + Limit
  /\ ~NeedsReset(cursors[p], p)
  /\ \E from \in Larger(0, page[p].head - Limit) .. page[p].head :
       LET end == Smaller(from + Limit, Len(arr[p]))
           inflated == [o \in Origins |-> IF o \in known THEN MaxKey ELSE 0]
       IN held' = held \cup {arr[p][i] :
            i \in Least(CoveredIn(p, inflated, from, end), ByteBudget)}
  /\ UNCHANGED <<server, known, claims, cursors, pc, drain, faults>>

\* mutant: any complete page ends the drain
DecideEarly(p) ==
  /\ pc[p] = "runs" /\ page[p].runs = <<>>
  /\ LET token == page[p].resume
         here == <<cursors[p].after, token>>
         stalls == IF progress[p] = here THEN stalled[p] + 1 ELSE 0
     IN \/ token = NoResume /\ EndDrain(p, "done")
        \/ /\ token # NoResume /\ stalls >= StallLimit
           /\ EndDrain(p, "idle")
        \/ /\ token # NoResume /\ stalls < StallLimit
           /\ pc' = [pc EXCEPT ![p] = "ask"]
           /\ resume' = [resume EXCEPT ![p] = token]
           /\ page' = [page EXCEPT ![p] = NoPage]
           /\ progress' = [progress EXCEPT ![p] = here]
           /\ stalled' = [stalled EXCEPT ![p] = stalls]
           /\ UNCHANGED <<asked, left, audit, resetSeen>>
  /\ UNCHANGED <<server, puller, faults>>

\* The page is applied.  Only a complete page of a request without a token ends
\* the drain; pages that do not advance fail it.
Decide(p) ==
  /\ pc[p] = "runs" /\ page[p].runs = <<>>
  /\ LET token == page[p].resume
         here == <<cursors[p].after, token>>
         stalls == IF progress[p] = here THEN stalled[p] + 1 ELSE 0
     IN \/ /\ token = NoResume /\ resume[p] = NoResume
           /\ EndDrain(p, "done")
        \/ /\ token # NoResume /\ stalls >= StallLimit
           /\ EndDrain(p, "idle")
        \/ /\ token = NoResume => resume[p] # NoResume
           /\ token # NoResume => stalls < StallLimit
           /\ pc' = [pc EXCEPT ![p] = "ask"]
           /\ resume' = [resume EXCEPT ![p] = token]
           /\ page' = [page EXCEPT ![p] = NoPage]
           /\ progress' = [progress EXCEPT ![p] =
                             IF token = NoResume THEN @ ELSE here]
           /\ stalled' = [stalled EXCEPT ![p] =
                            IF token = NoResume THEN @ ELSE stalls]
           /\ UNCHANGED <<asked, left, audit, resetSeen>>
  /\ UNCHANGED <<server, puller, faults>>

\* A roster update brings the key of another origin.
Learn(o) ==
  /\ o \notin known
  /\ known' = known \cup {o}
  /\ UNCHANGED <<server, held, claims, cursors, pc, drain, faults>>

Exchange(p) ==
  \/ Ask(p) \/ ServeOrigin(p) \/ ScanBackfill(p) \/ ApplyReset(p)
  \/ AdmitBackfill(p) \/ CommitNext(p) \/ AdmitRun(p) \/ Decide(p)

Next ==
  \/ \E p \in Peers :
       \/ \E a \in Audits : StartDrain(p, a)
       \/ Exchange(p) \/ PreviewHead(p) \/ Fail(p)
       \/ Restart(p)
       \/ \E o \in Offered[p] : Arrive(p, o)
  \/ \E o \in Origins : Learn(o)

Spec == Init /\ [][Next]_vars

\* A peer's log does not grow while a page is built from it.
QuietBuild == \A p \in Peers : pc[p] = "keyed" => arr'[p] = arr[p]

Draining == {p \in Peers : pc[p] \notin {"idle", "done"}}

\* One drain at a time.
OneAtATime == \A p \in Draining : Draining' \subseteq {p}

(***************************************************************************)
(* Properties.                                                             *)
(***************************************************************************)

\* Every variable has its type, the page in flight included.
TypeOK ==
  /\ arr \in [Peers -> Seq(Op)]
  /\ epoch \in [Peers -> 1 .. MaxEpoch]
  /\ held \subseteq Op
  /\ known \subseteq Origins
  /\ claims \in Claims
  /\ cursors \in [Peers -> Cursor]
  /\ pc \in [Peers -> {"idle", "ask", "keyed", "reply", "commit", "runs", "done"}]
  /\ audit \in [Peers -> BOOLEAN]
  /\ resume \in [Peers -> Resume]
  /\ asked \in [Peers -> Claims]
  /\ left \in [Peers -> SUBSET Origins]
  /\ page \in [Peers -> Page]
  /\ resetSeen \in [Peers -> BOOLEAN]
  /\ progress \in [Peers -> Nat \X Resume]
  /\ stalled \in [Peers -> Nat]
  /\ faults \in Nat

\* the arrivals a cursor of the current epoch has passed
Passed(p) ==
  IF cursors[p].epoch = epoch[p] THEN {arr[p][i] : i \in 1 .. cursors[p].after}
  ELSE {}

\* pull.rs: "Every missing op lands on at least one channel".  Between two
\* drains, an operation behind the cursor that the puller lacks is above its
\* claim: the keyed channel of the next drain serves it.
NoSilentLoss ==
  \A p \in Peers \ Draining : \A o \in Passed(p) :
    o \in held \/ o.key > claims[o.origin]

\* A drain that reports success has left nothing behind its cursor, although a
\* resumed exchange skips origins and the cursor passes their operations.
DoneMeansHeld ==
  \A p \in Peers : pc[p] = "done" => Passed(p) \subseteq held

\* coverage.rs: "claims never advance past what was verified and applied".  The
\* operation a claim names is in the puller's log.
ClaimIsHeld ==
  \A o \in Origins :
    claims[o] # 0 => [origin |-> o, key |-> claims[o]] \in held

(***************************************************************************)
(* Fairness: a host drains its links again and again, not only to audit    *)
(* them, and every step of a drain is a bounded computation or a request   *)
(* with a time-out.                                                        *)
(***************************************************************************)
Fairness ==
  \A p \in Peers : SF_vars(StartDrain(p, FALSE)) /\ WF_vars(Exchange(p))

FairSpec == Spec /\ Fairness

AllKnown(p) == \A x \in Arrived(p) : x.origin \in known

\* Once failures stop, the puller gets everything its peers hold of signers it
\* knows, through lost pages, resets and cuts in any place.
PullConverges ==
  \A p \in Peers : <>[](AllKnown(p) => Arrived(p) \subseteq held)

\* Again and again a drain ends with success, unless an unknown signer stops it
\* or an audit is under way.
DrainsComplete ==
  \A p \in Peers : []<>(pc[p] = "done" \/ audit[p] \/ ~AllKnown(p))

\* "Execute a complete v3 multi-page drain": an audit ends, with success or an
\* error.
AuditsEnd ==
  \A p \in Peers : audit[p] ~> ~audit[p]
=============================================================================
