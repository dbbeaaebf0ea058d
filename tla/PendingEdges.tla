---------------------------- MODULE PendingEdges ----------------------------
(***************************************************************************)
(* The two durable work queues of the operation log                        *)
(* (src/src/sqlite/pending_edges.rs): graph edges waiting for an endpoint, *)
(* with the queue of endpoints to wake, and the outbox of callbacks a      *)
(* resolved move owes.                                                     *)
(*                                                                         *)
(* The functions of that file run in their callers' transactions.  The     *)
(* callers are outside this repository and are modelled from the comments  *)
(* on them: applying an edge buffers it on each missing endpoint, applying *)
(* a node queues a wake, one worker drains the wakes a page at a time, and *)
(* the callbacks of a move are delivered after its commit or at start-up.  *)
(***************************************************************************)
EXTENDS Integers, FiniteSets, Sequences, FiniteSetsExt, Functions

CONSTANTS
    Nodes,       \* endpoints
    EdgeOps,     \* edge operations
    EndsOf,      \* [EdgeOps -> SUBSET Nodes]
    EdgeRowOf,   \* [EdgeOps -> edge rows]
    Malformed,   \* members of EdgeOps whose stored id does not decode
    PageLimit,   \* the limit pending_edges_for is called with
    MoveIds, Resolutions,
    MaxCrashes, MaxDeaths    \* bounds

VARIABLES
    alive,       \* endpoints that exist
    edgeState,   \* edge operation -> "new" | "logged" | "attached" | "gone"
    buffered,    \* pending_graph_edges: pairs <<endpoint, edge>>
    wakes,       \* pending_graph_endpoint_wakes in wake_id order
    deaths,      \* how many endpoints were deleted
    fires,       \* move_callback_fires: move -> [res, dispatched]
    sending,     \* move -> its callbacks being run: the image, and whether they ran
    ran,         \* move -> how often its callbacks ran
    crashes

edgeVars == <<alive, edgeState, buffered, wakes, deaths>>
fireVars == <<fires, sending, ran, crashes>>
pendingVars == <<edgeVars, fireVars>>

Missing(e) == EndsOf[e] \ alive
On(n) == {e \in EdgeOps : <<n, e>> \in buffered}

-----------------------------------------------------------------------------
(* Edges.                                                                  *)

\* buffer_pending_edge on every missing endpoint, in the transaction that
\* logs the edge; an edge with both ends attaches at once.
ApplyEdge(e) ==
    /\ edgeState[e] = "new"
    /\ edgeState' = [edgeState EXCEPT
                        ![e] = IF Missing(e) = {} THEN "attached" ELSE "logged"]
    /\ buffered' = buffered \cup {<<n, e>> : n \in Missing(e)}
    /\ UNCHANGED <<alive, wakes, deaths, fireVars>>

\* queue_pending_edge_wake: a ticket if anything is buffered on the endpoint
\* and it has none.
QueueWake(n) ==
    IF On(n) # {} /\ n \notin Range(wakes) THEN Append(wakes, n) ELSE wakes

\* A node is written: it exists, and is queued in the same transaction.
ApplyNode(n) ==
    /\ n \notin alive
    /\ alive' = alive \cup {n}
    /\ wakes' = QueueWake(n)
    /\ UNCHANGED <<edgeState, buffered, deaths, fireVars>>

\* A node is deleted; its attached edges wait for it again.
DeleteNode(n) ==
    LET cut == {e \in EdgeOps : edgeState[e] = "attached" /\ n \in EndsOf[e]}
    IN  /\ n \in alive
        /\ deaths < MaxDeaths
        /\ deaths' = deaths + 1
        /\ alive' = alive \ {n}
        /\ edgeState' = [e \in EdgeOps |-> IF e \in cut THEN "logged" ELSE edgeState[e]]
        /\ buffered' = buffered \cup {<<n, e>> : e \in cut}
        /\ UNCHANGED <<wakes, fireVars>>

\* A deletion of the edge wins: remove_pending_edges_for_edge_row.
DeleteEdge(row) ==
    LET dead == {e \in EdgeOps : EdgeRowOf[e] = row /\ edgeState[e] # "new"}
    IN  /\ \E e \in dead : edgeState[e] # "gone"
        /\ edgeState' = [e \in EdgeOps |-> IF e \in dead THEN "gone" ELSE edgeState[e]]
        /\ buffered' = {b \in buffered : b[2] \notin dead}
        /\ UNCHANGED <<alive, wakes, deaths, fireVars>>

\* pending_edges_for: the first page of an endpoint's edges, in id order.
PageOf(n) == {e \in On(n) : Cardinality({d \in On(n) : d < e}) < PageLimit}

\* What a page leaves buffered: malformed ids go to the failure table, an edge
\* that attaches leaves both endpoints, one still blocked leaves this endpoint,
\* and the caller's apply, outside this repository, buffers it on those it lacks.
LeftAfter(n, page, attached) ==
    {b \in buffered : /\ b[2] \notin attached
                      /\ ~(b[1] = n /\ b[2] \in page)}
        \cup UNION {{<<m, e>> : m \in Missing(e)} : e \in page \ Malformed}

\* One page taken for all there is.
RetireAfterPage(n, left) == Tail(wakes)

\* remove_pending_edge_wake, or rotate_pending_edge_wake to the tail while
\* edges remain (pending_edges_remain).
Retire(n, left) ==
    IF \E e \in EdgeOps : <<n, e>> \in left
    THEN Append(Tail(wakes), n)
    ELSE Tail(wakes)

\* The worker: the oldest wake, one page of its edges, in one transaction.
DrainWake ==
    LET n == Head(wakes)
        page == PageOf(n)
        attached == {e \in page \ Malformed : Missing(e) = {}}
        left == LeftAfter(n, page, attached)
    IN  /\ wakes # <<>>
        /\ IF n \in alive
           THEN /\ buffered' = left
                /\ edgeState' = [e \in EdgeOps |->
                     IF e \in attached THEN "attached"
                     ELSE IF e \in page \cap Malformed THEN "gone" ELSE edgeState[e]]
                /\ wakes' = Retire(n, left)
           ELSE /\ wakes' = Tail(wakes)
                /\ UNCHANGED <<buffered, edgeState>>
        /\ UNCHANGED <<alive, deaths, fireVars>>

-----------------------------------------------------------------------------
(* Callbacks.                                                              *)

NotSent == [res |-> 0, done |-> FALSE]

\* record_move_callback_fire: only the first fire of a move is recorded.
RecordFire(m, res) ==
    /\ m \notin DOMAIN fires
    /\ fires' = [x \in DOMAIN fires \cup {m} |->
                    IF x = m THEN [res |-> res, dispatched |-> FALSE] ELSE fires[x]]
    /\ UNCHANGED <<sending, ran, crashes, edgeVars>>

\* A dispatcher that marks a move when it takes it.
TakeAndMark(m) ==
    /\ sending[m] = NotSent
    /\ m \in DOMAIN fires
    /\ ~fires[m].dispatched
    /\ fires' = [fires EXCEPT ![m].dispatched = TRUE]
    /\ sending' = [sending EXCEPT ![m] = [res |-> fires[m].res, done |-> FALSE]]
    /\ UNCHANGED <<ran, crashes, edgeVars>>

\* undispatched_move_callback after the commit, undispatched_move_callbacks at
\* start-up: the dispatcher of an owed move loads its image.
TakeFire(m) ==
    /\ sending[m] = NotSent
    /\ m \in DOMAIN fires
    /\ ~fires[m].dispatched
    /\ sending' = [sending EXCEPT ![m] = [res |-> fires[m].res, done |-> FALSE]]
    /\ UNCHANGED <<fires, ran, crashes, edgeVars>>

RunFire(m) ==
    /\ sending[m] # NotSent
    /\ ~sending[m].done
    /\ ran' = [ran EXCEPT ![m] = @ + 1]
    /\ sending' = [sending EXCEPT ![m].done = TRUE]
    /\ UNCHANGED <<fires, crashes, edgeVars>>

\* mark_move_callback_dispatched, once they have run.
MarkFire(m) ==
    /\ sending[m].done
    /\ fires' = [fires EXCEPT ![m].dispatched = TRUE]
    /\ sending' = [sending EXCEPT ![m] = NotSent]
    /\ UNCHANGED <<ran, crashes, edgeVars>>

\* discard_undispatched_move_callback: the image is not terminal after all.
DiscardFire(m) ==
    /\ sending[m] # NotSent
    /\ ~sending[m].done
    /\ fires' = [x \in {y \in DOMAIN fires :
                          ~(/\ y = m
                            /\ fires[y].res = sending[m].res
                            /\ ~fires[y].dispatched)} |-> fires[x]]
    /\ sending' = [sending EXCEPT ![m] = NotSent]
    /\ UNCHANGED <<ran, crashes, edgeVars>>

\* The process stops; the dispatchers start over from the table.
CrashDispatcher ==
    /\ crashes < MaxCrashes
    /\ crashes' = crashes + 1
    /\ sending' = [m \in MoveIds |-> NotSent]
    /\ UNCHANGED <<fires, ran, edgeVars>>

-----------------------------------------------------------------------------
PendingInit ==
    /\ alive = {}
    /\ edgeState = [e \in EdgeOps |-> "new"]
    /\ buffered = {}
    /\ wakes = <<>>
    /\ deaths = 0
    /\ fires = <<>>
    /\ sending = [m \in MoveIds |-> NotSent]
    /\ ran = [m \in MoveIds |-> 0]
    /\ crashes = 0

EdgesNext ==
    \/ \E e \in EdgeOps : ApplyEdge(e) \/ DeleteEdge(EdgeRowOf[e])
    \/ \E n \in Nodes : ApplyNode(n) \/ DeleteNode(n)
    \/ DrainWake

FiresNext ==
    \/ \E m \in MoveIds : \/ TakeFire(m) \/ RunFire(m) \/ MarkFire(m) \/ DiscardFire(m)
                          \/ \E res \in Resolutions : RecordFire(m, res)
    \/ CrashDispatcher

PendingNext == EdgesNext \/ FiresNext

PendingSpec == PendingInit /\ [][PendingNext]_pendingVars

\* The dispatcher of each move keeps being scheduled and carries through what
\* it has taken.
PendingFairness ==
    \A m \in MoveIds : /\ WF_pendingVars(TakeFire(m))
                       /\ WF_pendingVars(RunFire(m) \/ MarkFire(m))

-----------------------------------------------------------------------------
Attachable(e) == edgeState[e] = "logged" /\ Missing(e) = {}

\* An edge whose endpoints both exist and that is not attached yet is buffered
\* on one of them that has a wake, so the worker comes to it: no order of
\* arrivals, deletions, pages, malformed neighbours and rotations strands it.
NoEdgeStranded ==
    \A e \in EdgeOps : Attachable(e) =>
        \E n \in EndsOf[e] : <<n, e>> \in buffered /\ n \in Range(wakes)

\* A recorded callback is run or discarded, across any crash: it is marked
\* dispatched only after it ran.
OwedCallbackRuns ==
    \A m \in MoveIds : m \in DOMAIN fires ~> (m \notin DOMAIN fires \/ ran[m] > 0)
=============================================================================
