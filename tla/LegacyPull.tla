----------------------------- MODULE LegacyPull -----------------------------
(***************************************************************************)
(* The legacy pull by order key (src/src/net/sync.rs sync_once_with, the   *)
(* v1 handlers of server.rs and requests of client.rs, HeadWatch in        *)
(* watch.rs) as the daemon drives it with --legacy-v1                      *)
(* (src/src/bin/pnsd.rs): drain every link page by page, then wait for a   *)
(* watch or a timer.                                                       *)
(*                                                                         *)
(* Operations are named by the rank of their order key; a cursor is such a *)
(* rank.  A source may come to hold an operation whose key is below ones   *)
(* it has served: by design the legacy cursor never goes back for it.      *)
(* What a torn or poisoned file does is RelayMesh's subject; here a crash  *)
(* keeps the forced frames and any prefix of the rest.                     *)
(***************************************************************************)
EXTENDS Integers, Sequences, FiniteSets, FiniteSetsExt, Functions

CONSTANTS
    Links,         \* the sources in the order the daemon drains them
    PulledOps,     \* a set of positive integers
    SignerOf,      \* [PulledOps -> devices]
    PullLimit,     \* operations per page
    MaxRestarts    \* bound

ASSUME LegacyAssumption ==
    /\ Links \in Seq(Range(Links))
    /\ PulledOps \subseteq Nat \ {0} /\ IsFiniteSet(PulledOps)
    /\ PullLimit \in Nat

VARIABLES
    sourceLog,    \* source -> operations in its log
    sourceTick,   \* source -> arrival tick of its watch channel
    published,    \* source -> its log at its last tick (history)
    owedTick,     \* sources that inserted in a batch that goes on
    watching,     \* source -> the handler our watch is parked in
    ourLog,       \* operations in memory
    frames,       \* the durability file
    forced,       \* how many frames have been forced to disk
    applied,      \* operations the store has been given
    signers,      \* devices whose key is registered
    legacyCursor, \* source -> Link::legacy_cursor
    savedCursor,  \* source -> its cursor file
    passed,       \* source -> what it held of what the cursor crossed, when it
    savedPassed,  \* served the pages; the same for the file (history)
    pollOnly,     \* links with poll_only_until set
    task,         \* where the pull task stands
    incremental,  \* ApplyMode: whether only the crossed range is applied
    restarts

legacyVars == <<sourceLog, sourceTick, published, owedTick, watching, ourLog, frames, forced,
                applied, signers, legacyCursor, savedCursor, passed, savedPassed,
                pollOnly, task, incremental, restarts>>
sourceVars == <<sourceLog, sourceTick, published, owedTick, incremental>>
diskVars == <<frames, forced, savedCursor, savedPassed>>

LinkPeers == Range(Links)
NotWatching == [step |-> "none", known |-> 0, seen |-> 0]

\* The task about to pull the i-th link, or done with all of them.
AtLink(i) ==
    [at |-> IF i > Len(Links) THEN "probe" ELSE "pull", link |-> i, page |-> {},
     held |-> {}, highest |-> 0, new |-> FALSE]
Linked == Links[task.link]

\* The task within a batch of its link.
InBatch(at, page, held, highest, new) ==
    [at |-> at, link |-> task.link, page |-> page, held |-> held, highest |-> highest,
     new |-> new]

-----------------------------------------------------------------------------
(* What a source serves.                                                   *)

\* OpLog::since: the operations above a cursor.
Since(s, cursor) == {o \in sourceLog[s] : o > cursor}

\* get_ops: the first of them, as many as a page takes.
OpsPage(s, cursor) ==
    LET above == Since(s, cursor)
    IN  {o \in above : Cardinality({x \in above : x < o}) < PullLimit}

\* OpLog::head, MIN for an empty log.
HeadOf(s) == Max({0} \cup sourceLog[s])

\* An operation reaches a source, of any key, in a batch that goes on.
SourceInserts(s, o) ==
    /\ o \notin sourceLog[s]
    /\ sourceLog' = [sourceLog EXCEPT ![s] = @ \cup {o}]
    /\ owedTick' = owedTick \cup {s}
    /\ UNCHANGED <<sourceTick, published, incremental, watching, ourLog, applied, signers, legacyCursor,
                   passed, pollOnly, task, restarts, diskVars>>

\* The batch ended well and is published, or it erred and is not.
SourcePublishes(s) ==
    /\ s \in owedTick
    /\ owedTick' = owedTick \ {s}
    /\ sourceTick' = [sourceTick EXCEPT ![s] = @ + 1]
    /\ published' = [published EXCEPT ![s] = sourceLog[s]]
    /\ UNCHANGED <<sourceLog, incremental, watching, ourLog, applied, signers, legacyCursor,
                   passed, pollOnly, task, restarts, diskVars>>

SourceErrs(s) ==
    /\ s \in owedTick
    /\ owedTick' = owedTick \ {s}
    /\ UNCHANGED <<sourceLog, sourceTick, published, incremental, watching, ourLog, applied,
                   signers, legacyCursor, passed, pollOnly, task, restarts, diskVars>>

-----------------------------------------------------------------------------
(* One pull: sync_once_with.                                               *)

\* HttpPullSource::pull; the source's log goes on growing meanwhile.
FetchOps ==
    /\ task.at = "pull"
    /\ task' = InBatch("page", OpsPage(Linked, legacyCursor[Linked]),
                       sourceLog[Linked], legacyCursor[Linked], FALSE)
    /\ UNCHANGED <<sourceVars, watching, ourLog, applied, signers, legacyCursor,
                   passed, pollOnly, restarts, diskVars>>

\* The request or its answer fails: the drain goes on with the next link.
FetchFails ==
    /\ task.at = "pull"
    /\ task' = AtLink(task.link + 1)
    /\ UNCHANGED <<sourceVars, watching, ourLog, applied, signers, legacyCursor,
                   passed, pollOnly, restarts, diskVars>>

\* The next operation of the page, of a registered signer: written and put into
\* the log unless it is there.
AdmitOp(o) ==
    /\ task.at = "page"
    /\ o \in task.page /\ \A x \in task.page : o <= x
    /\ SignerOf[o] \in signers
    /\ frames' = IF o \in ourLog THEN frames ELSE Append(frames, o)
    /\ ourLog' = ourLog \cup {o}
    /\ task' = InBatch("page", task.page \ {o}, task.held, o,
                       task.new \/ o \notin ourLog)
    /\ UNCHANGED <<sourceVars, watching, forced, applied, signers, legacyCursor,
                   savedCursor, passed, savedPassed, pollOnly, restarts>>

\* A puller that went by the page's own next, whatever it admitted of it.
PageNext == Max({task.highest} \cup task.page)

\* The key of the last operation that got through.
Highest == task.highest

\* The batch is over: at its end, or where an operation is refused (a signer
\* that is not registered, a signature, a clock that drifts, a frame that
\* cannot be written).  Only a batch that ended and brought something new makes
\* the drain ask again.
EndBatch ==
    /\ task.at = "page"
    /\ task' = IF Highest = legacyCursor[Linked]
               THEN AtLink(task.link + 1)
               ELSE InBatch("force", {}, task.held, Highest, task.new /\ task.page = {})
    /\ UNCHANGED <<sourceVars, watching, ourLog, applied, signers, legacyCursor,
                   passed, pollOnly, restarts, diskVars>>

\* sync_after_batch; when it fails the cursor stays.
ForceBatch(ok) ==
    /\ task.at = "force"
    /\ forced' = IF ok THEN Len(frames) ELSE forced
    /\ task' = IF ok THEN [task EXCEPT !.at = "apply"] ELSE AtLink(task.link + 1)
    /\ UNCHANGED <<sourceVars, watching, ourLog, frames, applied, signers,
                   legacyCursor, savedCursor, passed, savedPassed, pollOnly, restarts>>

\* replay, or apply_range over (cursor, highest].
ToApply ==
    IF incremental
    THEN {o \in ourLog : legacyCursor[Linked] < o /\ o <= task.highest}
    ELSE ourLog

\* What the source held, when it served the page, of what the cursor crosses.
Crossed == {o \in task.held : legacyCursor[Linked] < o /\ o <= task.highest}

\* The store takes them and the cursor moves.
ApplyBatch ==
    /\ task.at = "apply"
    /\ applied' = applied \cup ToApply
    /\ legacyCursor' = [legacyCursor EXCEPT ![Linked] = task.highest]
    /\ passed' = [passed EXCEPT ![Linked] = @ \cup Crossed]
    /\ task' = [task EXCEPT !.at = "save"]
    /\ UNCHANGED <<sourceVars, watching, ourLog, signers, pollOnly, restarts, diskVars>>

\* The store refuses one of them: those before it are in, the cursor stays.
ApplyStops(at) ==
    /\ task.at = "apply"
    /\ at \in ToApply
    /\ applied' = applied \cup {o \in ToApply : o < at}
    /\ task' = AtLink(task.link + 1)
    /\ UNCHANGED <<sourceVars, watching, ourLog, signers, legacyCursor, passed,
                   pollOnly, restarts, diskVars>>

\* save_cursor, whose failure is only printed; the drain asks again while the
\* page brought something new.
SaveLegacyCursor(ok) ==
    /\ task.at = "save"
    /\ savedCursor' = [savedCursor EXCEPT
                         ![Linked] = IF ok THEN legacyCursor[Linked] ELSE @]
    /\ savedPassed' = [savedPassed EXCEPT ![Linked] = IF ok THEN passed[Linked] ELSE @]
    /\ task' = AtLink(IF task.new THEN task.link ELSE task.link + 1)
    /\ UNCHANGED <<sourceVars, watching, ourLog, frames, forced, applied, signers,
                   legacyCursor, passed, pollOnly, restarts>>

-----------------------------------------------------------------------------
(* Waiting.                                                                *)

Resumes ==
    /\ task' = AtLink(1)
    /\ watching' = [s \in LinkPeers |-> NotWatching]
    /\ UNCHANGED <<sourceVars, ourLog, applied, signers, legacyCursor, passed,
                   restarts, diskVars>>

\* Links whose back-off is over join the watches again; without one that can
\* be watched the daemon sleeps the interval out.
Reprobe(due) ==
    LET capable == LinkPeers \ (pollOnly \ due)
    IN  /\ task.at = "probe"
        /\ due \subseteq pollOnly
        /\ pollOnly' = pollOnly \ due
        /\ IF capable = {}
           THEN Resumes
           ELSE /\ task' = [task EXCEPT !.at = "wait"]
                /\ watching' = [s \in LinkPeers |->
                      IF s \in capable
                      THEN [step |-> "mark", known |-> legacyCursor[s], seen |-> 0]
                      ELSE NotWatching]
                /\ UNCHANGED <<sourceVars, ourLog, applied, signers, legacyCursor,
                               passed, restarts, diskVars>>

HandlerStep(s, step, seen) ==
    /\ watching' = [watching EXCEPT ![s] = [step |-> step, known |-> @.known, seen |-> seen]]
    /\ UNCHANGED <<sourceVars, ourLog, applied, signers, legacyCursor, passed,
                   pollOnly, task, restarts, diskVars>>

\* until_head_changes at the source: borrow_and_update, the head, the wait for
\* a tick past the one marked.
MarkTick(s) ==
    /\ watching[s].step = "mark"
    /\ HandlerStep(s, "read", sourceTick[s])

ReadHead(s) ==
    /\ watching[s].step = "read"
    /\ ~(HeadOf(s) > watching[s].known)
    /\ HandlerStep(s, "sleep", watching[s].seen)

WokenByTick(s) ==
    /\ watching[s].step = "sleep"
    /\ watching[s].seen # sourceTick[s]
    /\ HandlerStep(s, "mark", watching[s].seen)

\* A watch answers first (a new head, no permit, its deadline), the others are
\* dropped: wait_for_any_legacy_watch.
WatchAnswers(s) ==
    /\ task.at = "wait"
    /\ watching[s].step # "none"
    /\ pollOnly' = pollOnly
    /\ Resumes

\* A watch that errs makes its link poll-only.
WatchErrs(s) ==
    /\ task.at = "wait"
    /\ watching[s].step # "none"
    /\ pollOnly' = pollOnly \cup {s}
    /\ Resumes

\* With a poll-only link the wait is bounded by the interval.
IntervalEnds ==
    /\ task.at = "wait"
    /\ pollOnly # {}
    /\ pollOnly' = pollOnly
    /\ Resumes

-----------------------------------------------------------------------------
\* A key is registered.
SignerLearned(d) ==
    /\ d \notin signers
    /\ signers' = signers \cup {d}
    /\ UNCHANGED <<sourceVars, watching, ourLog, applied, legacyCursor, passed,
                   pollOnly, task, restarts, diskVars>>

\* The daemon stops and starts again: the file is replayed and cut, the
\* cursors are read back (load_cursor).
RestartPuller(kept) ==
    /\ restarts < MaxRestarts
    /\ restarts' = restarts + 1
    /\ kept \in forced..Len(frames)
    /\ frames' = SubSeq(frames, 1, kept)
    /\ forced' = kept
    /\ ourLog' = Range(frames')
    /\ applied' = Range(frames')
    /\ legacyCursor' = savedCursor
    /\ passed' = savedPassed
    /\ pollOnly' = {}
    /\ task' = AtLink(1)
    /\ watching' = [s \in LinkPeers |-> NotWatching]
    /\ UNCHANGED <<sourceVars, signers, savedCursor, savedPassed>>

LegacyInit ==
    /\ sourceLog = [s \in LinkPeers |-> {}]
    /\ sourceTick = [s \in LinkPeers |-> 0]
    /\ published = sourceLog
    /\ owedTick = {}
    /\ watching = [s \in LinkPeers |-> NotWatching]
    /\ ourLog = {} /\ frames = <<>> /\ forced = 0 /\ applied = {}
    /\ signers = {}
    /\ legacyCursor = [s \in LinkPeers |-> 0] /\ savedCursor = legacyCursor
    /\ passed = [s \in LinkPeers |-> {}] /\ savedPassed = passed
    /\ pollOnly = {}
    /\ task = AtLink(1)
    /\ incremental \in BOOLEAN
    /\ restarts = 0

PullStep ==
    \/ FetchOps \/ FetchFails \/ ApplyBatch
    \/ EndBatch
    \/ \E o \in PulledOps : AdmitOp(o) \/ ApplyStops(o)
    \/ \E ok \in BOOLEAN : ForceBatch(ok) \/ SaveLegacyCursor(ok)

WaitStep ==
    \/ \E due \in SUBSET pollOnly : Reprobe(due)
    \/ \E s \in LinkPeers : WatchAnswers(s) \/ WatchErrs(s)
    \/ IntervalEnds

ParkedStep ==
    \E s \in LinkPeers :
        MarkTick(s) \/ ReadHead(s) \/ WokenByTick(s) \/ SourcePublishes(s) \/ SourceErrs(s)

OutsideStep ==
    \/ \E s \in LinkPeers, o \in PulledOps : SourceInserts(s, o)
    \/ \E o \in PulledOps : SignerLearned(SignerOf[o])
    \/ \E kept \in 0..Len(frames) : RestartPuller(kept)

LegacyNext == PullStep \/ WaitStep \/ ParkedStep \/ OutsideStep

LegacySpec == LegacyInit /\ [][LegacyNext]_legacyVars

-----------------------------------------------------------------------------
\* What a source held of the keys its legacy cursor crossed, when it served the
\* pages, is in the log and in the store, and what the saved cursor crossed is
\* forced to disk: through batches cut short, a failed fsync or store, operations that
\* another link brought first, and restarts (sync_once_with, save_cursor).
LegacyCursorCovered ==
    \A s \in LinkPeers :
        /\ passed[s] \subseteq ourLog \cap applied
        /\ savedPassed[s] \subseteq {frames[i] : i \in 1..forced}

\* A legacy watch that sleeps although its source announced an operation above its
\* cursor is about to be woken: until_head_changes marks the tick before it reads.
\* (What a batch inserted before it erred is not announced.)
HeadWakeupKept ==
    \A s \in LinkPeers :
        /\ watching[s].step = "sleep"
        /\ \E o \in published[s] : o > watching[s].known
        => watching[s].seen # sourceTick[s]
=============================================================================
