----------------------------- MODULE Quarantine -----------------------------
(***************************************************************************)
(* The durable quarantine of pulled operations whose signer's key is not   *)
(* known yet (src/src/sqlite/quarantine.rs).                               *)
(*                                                                         *)
(* A pulled page commits as one transaction of the caller, outside this    *)
(* repository: the operations that verify are appended and recorded as     *)
(* verified, the unverifiable ones are quarantined, and the peer's cursor  *)
(* moves past all of them; an error rolls everything back and the cursor   *)
(* is held.  A replay reads a batch of candidates, verifies them again,    *)
(* and settles the batch in a later transaction.                           *)
(*                                                                         *)
(* A candidate is an envelope: the operation id it claims, its signer, its *)
(* size, and whether its signature is good.  Two candidates may claim one  *)
(* id (a damaged copy and the whole one).                                  *)
(***************************************************************************)
EXTENDS Integers, Sequences, FiniteSets, FiniteSetsExt, Functions

CONSTANTS
    QPeers,        \* the peers pulled from
    PeerStream,    \* [QPeers -> Seq(candidates)]: what each serves, in order
    Hideable,      \* operations a scope may leave out
    MaxEnvelope,   \* MAX_QUARANTINED_ENVELOPE_BYTES
    MaxQuarantined, MaxQuarantinedPerPeer,   \* rows, in all and per peer
    MaxBytes, MaxBytesPerPeer,               \* bytes, in all and per peer
    AuditBytes, MaxAudit,   \* what is kept of an invalid row, and how many
    ReplayRows, ReplayBytes,                 \* the size of a replay batch
    MaxTries                \* bound of the attempts counter

VARIABLES
    quarantine,  \* mesh_unverified_ops: candidate -> its row
    stored,      \* operation id -> the candidate the log stores
    verified,    \* mesh_verified_ops
    position,    \* peer -> how much of its stream the cursor has passed
    attested,    \* signers whose key is known
    hidden,      \* operations the scope leaves out at present
    batch        \* the replay under way: its peer and candidates

quarantineVars == <<quarantine, stored, verified, position, attested, hidden, batch>>

Candidates == UNION {Range(PeerStream[p]) : p \in QPeers}
NoBatch == [peer |-> "none", scanned |-> {}]

ASSUME QuarantineAssumption == \A p \in QPeers : PeerStream[p] \in Seq(Candidates)

\* The envelope verifies under the signer's key, if that is known: the caller's
\* check, outside this repository.
EnvelopeVerifies(c) == c.signer \in attested /\ c.good

-----------------------------------------------------------------------------
(* Writing candidates.                                                     *)

\* encode_quarantined_candidates refuses an envelope over the limit.
Encodes(cs) == \A c \in cs : c.size <= MaxEnvelope

\* A table keyed by the claimed id alone.
TakesNewId(rows, c) == \A d \in DOMAIN rows : d.op # c.op

\* The INSERT OR IGNORE of quarantine_ops, on the candidate id.
TakesNew(rows, c) == c \notin DOMAIN rows

\* quarantine_ops, without its error: the skipped candidates of a page, all
\* first seen now.  The first peer to bring a candidate is its source.
Quarantined(rows, page, skipped, p) ==
    LET new == {c \in {page[i] : i \in skipped} : TakesNew(rows, c)}
        last == Max({0} \cup {rows[c].first : c \in DOMAIN rows})
    IN  [c \in DOMAIN rows \cup new |->
            IF c \in DOMAIN rows THEN rows[c]
            ELSE [peer |-> p, bytes |-> c.size, attempts |-> 0, state |-> "pending",
                  first |-> last + 1]]

Live(rows) == {c \in DOMAIN rows : rows[c].state # "invalid"}
From(rows, p) == {c \in Live(rows) : rows[c].peer = p}
Bytes(rows, cs) == MapThenSumSet(LAMBDA c : rows[c].bytes, cs)

\* The four limits, counted after the inserts; over any of them is an error.
WithinCapacity(rows, p) ==
    /\ Cardinality(Live(rows)) <= MaxQuarantined
    /\ Bytes(rows, Live(rows)) <= MaxBytes
    /\ Cardinality(From(rows, p)) <= MaxQuarantinedPerPeer
    /\ Bytes(rows, From(rows, p)) <= MaxBytesPerPeer

-----------------------------------------------------------------------------
(* A pulled page.                                                          *)

\* classify_remote_ops: stored with this very envelope and known verified, on a page
\* with no other envelope for the id.  (What is stored here was applied, came from a
\* peer and is not pending.)
Completed(page, i) ==
    LET c == page[i]
    IN  /\ \A j \in DOMAIN page : page[j].op = c.op => page[j] = c
        /\ c.op \in DOMAIN stored
        /\ stored[c.op] = c
        /\ c.op \in verified

\* record_verified_ops confirms that the log stores the envelope verified.
Records(cs, log) == \A c \in cs : log[c.op] = c

\* What an append leaves: the first envelope stored for an id stays.
StoredAfter(cs) ==
    [o \in DOMAIN stored \cup {c.op : c \in cs} |->
        IF o \in DOMAIN stored THEN stored[o] ELSE CHOOSE c \in cs : c.op = o]

Page(p, n) == SubSeq(PeerStream[p], position[p] + 1, position[p] + n)

PullCandidates(p, n) ==
    LET page == Page(p, n)
        todo == {i \in DOMAIN page : ~Completed(page, i)}
        good == {page[i] : i \in {j \in todo : EnvelopeVerifies(page[j])}}
        skipped == {i \in todo : page[i].signer \notin attested}
        rows == Quarantined(quarantine, page, skipped, p)
    IN  /\ position[p] + n <= Len(PeerStream[p])
        /\ Encodes({page[i] : i \in skipped})
        /\ WithinCapacity(rows, p)
        /\ Records(good, StoredAfter(good))
        /\ quarantine' = rows
        /\ stored' = StoredAfter(good)
        /\ verified' = verified \cup {c.op : c \in good}
        /\ position' = [position EXCEPT ![p] = @ + n]
        /\ UNCHANGED <<attested, hidden, batch>>

-----------------------------------------------------------------------------
(* Replay.                                                                 *)

Before(c, d, rows) ==
    \/ rows[c].attempts < rows[d].attempts
    \/ rows[c].attempts = rows[d].attempts /\ rows[c].first < rows[d].first

\* What quarantined_rows may return of the rows asked for: fewest attempts and
\* oldest first, in any order where that leaves one, cut at the row limit and
\* at the byte limit, which always lets one row through.
IsBatch(rows, cs, taken) ==
    /\ taken # {}
    /\ \A c \in taken, d \in cs \ taken : ~Before(d, c, rows)
    /\ Cardinality(taken) <= ReplayRows
    /\ Cardinality(taken) = 1 \/ Bytes(rows, taken) <= ReplayBytes
    /\ \/ taken = cs \/ Cardinality(taken) = ReplayRows
       \/ \E c \in cs \ taken : /\ \A d \in cs \ taken : ~Before(d, c, rows)
                                /\ Bytes(rows, taken \cup {c}) > ReplayBytes

\* quarantined_rows, with the caller asking for any signer or attested ones.
SelectBatch(p, trustedOnly) ==
    LET cs == {c \in From(quarantine, p) : trustedOnly => c.signer \in attested}
    IN  /\ batch = NoBatch
        /\ \E taken \in SUBSET cs :
              IsBatch(quarantine, cs, taken) /\ batch' = [peer |-> p, scanned |-> taken]
        /\ UNCHANGED <<quarantine, stored, verified, position, attested, hidden>>

\* The first three statements of finish_quarantine_replay, on one row: count
\* the attempt, mark the ones in error, bound what an invalid row keeps.
Attempted(row, mine, broken) ==
    LET bad == row.state = "invalid" \/ (mine /\ broken)
    IN  [row EXCEPT
            !.attempts = IF mine THEN Min({@ + 1, MaxTries}) ELSE @,
            !.state = IF bad THEN "invalid"
                      ELSE IF mine /\ @ = "out_of_scope" THEN "pending" ELSE @,
            !.bytes = IF bad THEN Min({@, AuditBytes}) ELSE @]

\* Then the invalid rows beyond the audit limit go, whichever they are ...
Audited(rows, keep) ==
    Restrict(rows, {c \in DOMAIN rows : rows[c].state = "invalid" => c \in keep})

\* ... the out-of-scope ones are marked, and those applied deleted by the id
\* they claim, whichever peer brought them.
Finished(rows, out, applied) ==
    [c \in {d \in DOMAIN rows : d.op \notin applied} |->
        IF c \in out /\ rows[c].peer = batch.peer
        THEN [rows[c] EXCEPT !.state = "out_of_scope"] ELSE rows[c]]

\* A batch is verified again and settled; a candidate whose application fails
\* for the moment only counts an attempt.
FinishBatch(failed, keep) ==
    LET scanned == batch.scanned
        good == {c \in scanned : EnvelopeVerifies(c)}
        broken == {c \in scanned : c.signer \in attested /\ ~c.good}
        out == {c \in good : c.op \in hidden}
        apply == {c \in good \ (out \cup failed) :
                     c.op \in DOMAIN stored => stored[c.op] = c}
        rows == [c \in DOMAIN quarantine |->
                    LET mine == c \in scanned /\ quarantine[c].peer = batch.peer
                    IN  Attempted(quarantine[c], mine, c \in broken)]
        invalid == {c \in DOMAIN rows : rows[c].state = "invalid"}
    IN  /\ batch # NoBatch
        /\ failed \subseteq good
        /\ keep \subseteq invalid
        /\ Cardinality(keep) = Min({Cardinality(invalid), MaxAudit})
        /\ quarantine' = Finished(Audited(rows, keep), out, {c.op : c \in apply})
        /\ stored' = StoredAfter(apply)
        /\ verified' = verified \cup {c.op : c \in apply}
        /\ batch' = NoBatch
        /\ UNCHANGED <<position, attested, hidden>>

\* The process ends during a replay: nothing was written.
LoseBatch ==
    /\ batch # NoBatch
    /\ batch' = NoBatch
    /\ UNCHANGED <<quarantine, stored, verified, position, attested, hidden>>

\* A signer's key is learned from a peer's signed device book.
Attest(s) ==
    /\ s \notin attested
    /\ attested' = attested \cup {s}
    /\ UNCHANGED <<quarantine, stored, verified, position, hidden, batch>>

\* The scope of the node changes.
Rescope ==
    /\ hidden' = Hideable \ hidden
    /\ UNCHANGED <<quarantine, stored, verified, position, attested, batch>>

-----------------------------------------------------------------------------
QuarantineInit ==
    /\ quarantine = <<>>
    /\ stored = <<>>
    /\ verified = {}
    /\ position = [p \in QPeers |-> 0]
    /\ attested = {}
    /\ hidden = Hideable
    /\ batch = NoBatch

QuarantineNext ==
    \/ \E p \in QPeers, n \in 1..2 : PullCandidates(p, n)
    \/ \E p \in QPeers, trustedOnly \in BOOLEAN : SelectBatch(p, trustedOnly)
    \/ \E failed \in SUBSET batch.scanned, keep \in SUBSET Candidates :
          FinishBatch(failed, keep)
    \/ LoseBatch
    \/ \E c \in Candidates : Attest(c.signer)
    \/ Rescope

QuarantineSpec == QuarantineInit /\ [][QuarantineNext]_quarantineVars

-----------------------------------------------------------------------------
\* An operation the cursor has passed with a good signature is in the log or
\* waits in the quarantine, whole and not written off: neither the limits, nor
\* a damaged copy that claims the same id, nor a batch settled after the key
\* or the scope changed, loses it.
NothingSkippedIsLost ==
    \A p \in QPeers : \A i \in 1..position[p] :
        LET c == PeerStream[p][i]
        IN  c.good =>
              \/ c.op \in DOMAIN stored
              \/ /\ c \in DOMAIN quarantine
                 /\ quarantine[c].state # "invalid"
                 /\ quarantine[c].bytes = c.size
=============================================================================
