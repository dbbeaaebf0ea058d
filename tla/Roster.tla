------------------------------- MODULE Roster -------------------------------
(***************************************************************************)
(* The roster of an account's devices (src/src/roster.rs): the account     *)
(* feed names devices and their mesh keys; devices that share a key are    *)
(* merged, and a peer pulled within the grace period stays although the    *)
(* feed no longer names its key.                                           *)
(*                                                                         *)
(* A candidate keeps what these functions look at: its device id, whether  *)
(* it is this device, its mesh key, when it was last seen (0: unknown),    *)
(* its always_on flag and whether the account vouches for it.  Keys are in *)
(* lower case, as feed_candidate makes them.  A list of candidates maps    *)
(* places to candidates; a dropped one leaves its place empty, so only the *)
(* order of the places counts.  The embedder fetches feeds, pulls and      *)
(* finds candidates of its own.                                            *)
(***************************************************************************)
EXTENDS Integers, Sequences, FiniteSetsExt, Functions

CONSTANTS
    Feeds,        \* the feeds that may come, sequences of candidates
    Found,        \* candidates the embedder may find by itself
    BadKeys,      \* keys that are no point of the curve
    OwnMeshId     \* the key of this device

\* A CandidatePeer, as far as it is kept here.
IsCandidate(c) ==
    c = [id |-> c.id, self |-> c.self, key |-> c.key, seen |-> c.seen,
         on |-> c.on, auth |-> c.auth]

ASSUME RosterAssumption ==
    /\ \A f \in Feeds : f \in Seq(Range(f)) /\ \A c \in Range(f) : IsCandidate(c)
    /\ \A c \in Found : IsCandidate(c)

NoKey  == "none"
NoId   == ""
NoFeed == <<>>

VARIABLES
    roster,      \* the candidates in use
    recent,      \* keys of the peers pulled within the grace period
    fed          \* the feed the last step took, if it took one

rosterVars == <<roster, recent, fed>>

\* candidate_device_id: whether a candidate's key names a mesh device.
HasMeshId(c) == c.key \notin {NoKey} \cup BadKeys

-----------------------------------------------------------------------------
(* merge_shared_keys.                                                      *)

\* The candidates with the key of the i-th.
Sharing(f, i) == {j \in DOMAIN f : HasMeshId(f[j]) /\ f[j].key = f[i].key}

\* Of these this device is kept, or else the first of those seen last.
KeptOf(f, group) ==
    LET own == {i \in group : f[i].self}
    IN  IF own # {} THEN Min(own)
        ELSE Min({i \in group : \A j \in group : f[j].seen <= f[i].seen})

\* absorb: an explicit yes of any of them counts, then an explicit no.
Absorb(f, kept, group) ==
    LET said == {f[i].on : i \in group}
    IN  [f[kept] EXCEPT !.on = IF "yes" \in said THEN "yes"
                               ELSE IF "no" \in said THEN "no" ELSE "unsaid"]

RepeatsId(f) == \E i, j \in DOMAIN f : i # j /\ f[i].id = f[j].id

MergeSharedKeys(f) ==
    LET stays == {i \in DOMAIN f : HasMeshId(f[i]) => i = KeptOf(f, Sharing(f, i))}
    IN  IF RepeatsId(f) THEN f
        ELSE [i \in stays |->
                 IF HasMeshId(f[i]) THEN Absorb(f, i, Sharing(f, i)) ELSE f[i]]

-----------------------------------------------------------------------------
(* reconcile_roster.                                                       *)

\* A carry that keeps what an older feed said.
CarriedWhole(kept) == kept

\* carried_forward: the flag of an older feed does not count.
CarriedForward(kept) == [kept EXCEPT !.on = "unsaid"]

\* Whether a candidate of the roster stays of itself.
Grace(kept) == kept.auth /\ HasMeshId(kept) /\ kept.key \in recent

LastPlace(r) == Max({0} \cup DOMAIN r)

\* Vec::push.
Push(r, c) ==
    [i \in DOMAIN r \cup {LastPlace(r) + 1} |-> IF i \in DOMAIN r THEN r[i] ELSE c]

\* One candidate of the previous roster: unless its key is there already it
\* takes the place of the candidate with its device id, or a new one.
Carry(r, kept) ==
    LET same == {i \in DOMAIN r : r[i].id = kept.id}
    IN  IF ~Grace(kept) \/ \E c \in Range(r) : c.key = kept.key THEN r
        ELSE IF same = {} THEN Push(r, CarriedForward(kept))
        ELSE [r EXCEPT ![Min(same)] = CarriedForward(kept)]

\* The previous roster, from the front.
ReconcileRoster(incoming) ==
    LET after[n \in 0..LastPlace(roster)] ==
            IF n = 0 THEN incoming
            ELSE IF n \in DOMAIN roster THEN Carry(after[n - 1], roster[n])
            ELSE after[n - 1]
    IN  after[LastPlace(roster)]

-----------------------------------------------------------------------------
\* validate_candidate_keys.
ValidKeys(r) ==
    /\ ~RepeatsId(r)
    /\ \A c \in Range(r) : c.id # NoId /\ c.key \notin BadKeys
    /\ \A i, j \in DOMAIN r : i # j /\ r[i].key = r[j].key => r[i].key = NoKey

\* always_on_mesh_ids.
AlwaysOn(r) ==
    {c.key : c \in {x \in Range(r) : x.on = "yes" /\ HasMeshId(x)}} \cup
    {OwnMeshId : c \in {x \in Range(r) : x.on = "yes" /\ x.self}}

-----------------------------------------------------------------------------
\* The embedder takes a feed, unless its keys are refused.
TakeFeed(f) ==
    LET next == ReconcileRoster(MergeSharedKeys(f))
    IN  /\ roster' = IF ValidKeys(next) THEN next ELSE roster
        /\ fed' = f
        /\ UNCHANGED recent

\* It finds a candidate the account does not vouch for.
Find(c) ==
    /\ roster' = Push(roster, c)
    /\ ValidKeys(roster')
    /\ fed' = NoFeed
    /\ UNCHANGED recent

\* It pulls from a peer of the roster, and the grace period of a pull ends.
PullPeer(c) ==
    /\ HasMeshId(c)
    /\ recent' = recent \cup {c.key}
    /\ fed' = NoFeed
    /\ UNCHANGED roster

GraceEnds(key) ==
    /\ recent' = recent \ {key}
    /\ fed' = NoFeed
    /\ UNCHANGED roster

RosterInit == roster = <<>> /\ recent = {} /\ fed = NoFeed

RosterNext ==
    \/ \E f \in Feeds : TakeFeed(f)
    \/ \E c \in Found : Find(c)
    \/ \E c \in Range(roster) : PullPeer(c)
    \/ \E key \in recent : GraceEnds(key)

RosterSpec == RosterInit /\ [][RosterNext]_rosterVars

-----------------------------------------------------------------------------
\* Who the feed calls always on: the mesh device of a candidate with that flag,
\* and this device when its candidate, or one that shares its key, has it.
CalledOn(f) ==
    {c.key : c \in {x \in Range(f) : x.on = "yes" /\ HasMeshId(x)}} \cup
    {OwnMeshId : c \in {x \in Range(f) : x.self /\ \E y \in Range(f) :
        y.on = "yes" /\ (y = x \/ (HasMeshId(x) /\ y.key = x.key))}}

\* The feed gives the key to the device id of another peer in its grace period.
Displaced(f, key) ==
    \E c \in Range(f), other \in Range(roster) :
        c.key = key /\ c.id = other.id /\ other.key # key /\ Grace(other)

\* A feed whose merged keys are sound is taken, whatever the roster held; a peer
\* pulled within the grace period does not leave with it, unless the feed moved
\* its key to the device id of another such peer; and no device passes for
\* always on unless the feed calls it so, by itself or by its key (merge_shared_keys,
\* reconcile_roster, validate_candidate_keys, always_on_mesh_ids).
FeedKeepsRecentPeers ==
    [][fed' # NoFeed => \A f \in Feeds :
          fed' = f /\ ValidKeys(MergeSharedKeys(f)) =>
              /\ ValidKeys(ReconcileRoster(MergeSharedKeys(f)))
              /\ AlwaysOn(roster') \subseteq CalledOn(f)
              /\ \A kept \in Range(roster) :
                    Grace(kept) => \/ \E c \in Range(roster') : c.key = kept.key
                                   \/ Displaced(f, kept.key)]_rosterVars
=============================================================================
