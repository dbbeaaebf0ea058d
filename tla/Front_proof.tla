---------------------------- MODULE Front_proof -----------------------------
(***************************************************************************)
(* Proofs about the services at a node's front: the proofs of an ask, the  *)
(* limiter, the gate and the tunnel.  Each part stands by itself.          *)
(***************************************************************************)
EXTENDS AskProof, Limiter, Gate, Tunnel, FiniteSetTheorems, TLAPS

(***************************************************************************)
(* AskProof.  AcceptedOnce for every lifetime, clock skew and memory such  *)
(* that the memory is at least as long as a proof can verify.  The         *)
(* inductive invariant says of an accepted ask that its proof is over, or  *)
(* that its nonce is still there, noted no earlier than the proof's end    *)
(* allows.                                                                 *)
(***************************************************************************)

Proof == [to : Recipients \cup {Here}, key : Signers \cup {0}, expires : Int,
          intact : BOOLEAN]

Types ==
  /\ now \in Nat
  /\ proofs \in [Nonces -> Proof]
  /\ seen \in [Nonces -> Int]
  /\ accepted \in [Nonces -> Nat]

Noted(n) ==
  \/ proofs[n].expires < now
  \/ seen[n] # Unseen /\ proofs[n].expires <= seen[n] + Lifetime + Skew

OnceInv ==
  /\ Types
  /\ \A n \in Nonces : accepted[n] <= 1 /\ (accepted[n] = 1 => proofs[n] # Unsigned /\ Noted(n))

\* Nothing is accepted before anything was signed.
LEMMA OnceInit == ProofInit => OnceInv
  BY ProofTimes DEF ProofInit, OnceInv, Types, Proof, Unsigned, Unseen

\* A nonce that first_sighting_conn forgets belongs to a proof that is over.
LEMMA ForgottenIsOver ==
  ASSUME OnceInv, NEW n \in Nonces, accepted[n] = 1
  PROVE  \/ proofs[n].expires < now
         \/ /\ Remembered[n] = seen[n] /\ seen[n] # Unseen
            /\ proofs[n].expires <= seen[n] + Lifetime + Skew
<1>1. now \in Nat /\ seen[n] \in Int /\ proofs[n].expires \in Int
  BY Zenon DEF OnceInv, Types, Proof
<1>2. Noted(n)
  BY Zenon DEF OnceInv
<1>3. Remembered[n] = IF seen[n] < now - Memory THEN Unseen ELSE seen[n]
  BY Zenon DEF Remembered, Forgotten
<1>. QED
  BY <1>1, <1>2, <1>3, ProofTimes DEF Noted

\* Receiving a proof, whichever nonces are forgotten on the way.
LEMMA ReceiveKeeps ==
  ASSUME OnceInv, NEW m \in Nonces, Receive(m)
  PROVE  OnceInv'
<1>. DEFINE verified == proofs[m] # Unsigned /\ Verifies(proofs[m])
<1>1. now' = now /\ proofs' = proofs /\ now \in Nat /\ Unseen \in Int
  BY DEF Receive, OnceInv, Types, Unseen
<1>2. Remembered \in [Nonces -> Int]
  BY Zenon, <1>1 DEF Remembered, OnceInv, Types
<1>3. CASE ~verified
  BY Zenon, <1>1, <1>3 DEF Receive, OnceInv, Types, Noted
<1>4. CASE verified /\ ~FirstSighting(m)
  <2>1. seen' = Remembered /\ accepted' = accepted
    BY Zenon, <1>4 DEF Receive
  <2>2. Types'
    BY Zenon, <1>1, <1>2, <2>1 DEF OnceInv, Types
  <2>3. ASSUME NEW n \in Nonces, accepted[n] = 1
        PROVE  Noted(n)'
    <3>1. \/ proofs[n].expires < now
          \/ Remembered[n] # Unseen /\ proofs[n].expires <= Remembered[n] + Lifetime + Skew
      BY Zenon, <2>3, ForgottenIsOver
    <3>. QED
      BY Zenon, <3>1, <1>1, <2>1 DEF Noted, Unseen
  <2>. QED
    BY Zenon, <1>1, <2>1, <2>2, <2>3 DEF OnceInv
<1>5. CASE verified /\ FirstSighting(m)
  <2>1. seen' = [Remembered EXCEPT ![m] = now] /\ accepted' = [accepted EXCEPT ![m] = @ + 1]
    BY Zenon, <1>5 DEF Receive
  <2>2. Types'
    BY <1>1, <1>2, <2>1 DEF OnceInv, Types
  <2>3. accepted[m] = 0
    <3>1. accepted[m] # 1
      <4>. SUFFICES ASSUME accepted[m] = 1 PROVE FALSE
        BY Zenon
      <4>1. proofs[m].expires \in Int /\ now <= proofs[m].expires
        BY Zenon, <1>5 DEF Verifies, OnceInv, Types, Proof
      <4>2. Remembered[m] = Unseen
        BY Zenon, <1>5 DEF FirstSighting
      <4>. QED
        BY <4>1, <4>2, <1>1, ForgottenIsOver
    <3>. QED
      BY <3>1 DEF OnceInv, Types
  <2>4. ASSUME NEW n \in Nonces, accepted'[n] = 1
        PROVE  proofs[n] # Unsigned /\ Noted(n)'
    <3>1. CASE n = m
      <4>1. seen'[n] = now
        BY Zenon, <2>1, <1>2, <3>1
      <4>2. proofs[n].expires <= now + Lifetime + Skew
        BY Zenon, <1>5, <3>1 DEF Verifies
      <4>. QED
        BY <4>1, <4>2, <1>1, <1>5, <3>1 DEF Noted, Unseen
    <3>2. CASE n # m
      <4>1. accepted[n] = 1 /\ seen'[n] = Remembered[n]
        BY Zenon, <2>1, <2>4, <1>2, <3>2 DEF OnceInv, Types
      <4>2. \/ proofs[n].expires < now
            \/ Remembered[n] # Unseen /\ proofs[n].expires <= Remembered[n] + Lifetime + Skew
        BY Zenon, <4>1, ForgottenIsOver
      <4>. QED
        BY Zenon, <4>1, <4>2, <1>1 DEF Noted, Unseen, OnceInv
    <3>. QED
      BY Zenon, <3>1, <3>2
  <2>5. \A n \in Nonces : accepted'[n] <= 1
    BY <2>1, <2>3 DEF OnceInv, Types
  <2>. QED
    BY Zenon, <1>1, <2>2, <2>4, <2>5 DEF OnceInv
<1>. QED
  BY Zenon, <1>3, <1>4, <1>5

\* Every step keeps the invariant.
LEMMA OnceStep == OnceInv /\ [ProofNext]_proofVars => OnceInv'
<1>. SUFFICES ASSUME OnceInv, [ProofNext]_proofVars PROVE OnceInv'
  BY Zenon
<1>1. ASSUME NEW n \in Nonces, NEW to \in Recipients, NEW k \in Signers,
             NEW drift \in -(Skew + 1)..(Skew + 1), NEW intact \in BOOLEAN,
             Sign(n, to, k, drift, intact)
      PROVE  OnceInv'
  <2>. DEFINE p == [to |-> to, key |-> k, intact |-> intact, expires |-> now + drift + Lifetime]
  <2>1. /\ proofs' = [proofs EXCEPT ![n] = p] /\ proofs[n] = Unsigned
        /\ now' = now /\ seen' = seen /\ accepted' = accepted
    BY Zenon, <1>1 DEF Sign
  <2>2. p \in Proof
    BY <1>1, ProofTimes DEF Proof, OnceInv, Types
  <2>3. Types'
    BY Zenon, <2>1, <2>2 DEF OnceInv, Types
  <2>4. \A q \in Nonces : q # n => proofs'[q] = proofs[q]
    BY Zenon, <2>1 DEF OnceInv, Types
  <2>5. accepted[n] # 1
    BY Zenon, <2>1 DEF OnceInv
  <2>. QED
    BY Zenon, <2>1, <2>3, <2>4, <2>5 DEF OnceInv, Noted
<1>2. ASSUME NEW n \in Nonces, Receive(n) PROVE OnceInv'
  BY Zenon, <1>2, ReceiveKeeps
<1>3. CASE Pass
  <2>1. now' = now + 1 /\ proofs' = proofs /\ seen' = seen /\ accepted' = accepted
    BY Zenon, <1>3 DEF Pass
  <2>2. \A n \in Nonces : proofs[n].expires \in Int
    BY Zenon DEF OnceInv, Types, Proof
  <2>. QED
    BY <2>1, <2>2 DEF OnceInv, Types, Noted
<1>4. CASE UNCHANGED proofVars
  BY Zenon, <1>4 DEF proofVars, OnceInv, Types, Noted
<1>. QED
  BY Zenon, <1>1, <1>2, <1>3, <1>4 DEF ProofNext

\* An ask is accepted at most once, whatever the times are as long as nonces are remembered
\* for longer than a proof can verify (ask_proof.rs first_sighting_conn).
THEOREM AskAcceptedOnce == ProofSpec => []AcceptedOnce
<1>1. OnceInv => AcceptedOnce
  BY Zenon DEF OnceInv, AcceptedOnce
<1>. QED
  BY <1>1, OnceInit, OnceStep, PTL DEF ProofSpec

-----------------------------------------------------------------------------
(***************************************************************************)
(* Limiter.  FewerThanTwoWindows for every quota and window length.  The   *)
(* invariant counts what a source was let through in the window it is in,  *)
(* and bounds what may share a window's length with it and came before.    *)
(***************************************************************************)

Event == [source : Sources, at : Nat]
Counted == [started : Nat, count : Nat]

\* The events of a source since a second, and within seconds.
Since(l, s, lo) == {i \in DOMAIN l : l[i].source = s /\ lo <= l[i].at}
Within(l, s, lo, hi) == {i \in DOMAIN l : l[i].source = s /\ lo <= l[i].at /\ l[i].at < hi}

\* A window in the table: its count is that of the events since it started, the first at its
\* start and none after its end; and fewer than Per came in what may share Window seconds with
\* it and lies before.
WindowRight(l, s, w) ==
  /\ Cardinality(Since(l, s, w.started)) = w.count /\ w.count <= Per
  /\ \E i \in DOMAIN l : l[i].source = s /\ l[i].at = w.started
  /\ \A i \in DOMAIN l : l[i].source = s => l[i].at < w.started + Window
  /\ \A from \in Nat :
       from + Window > w.started => Cardinality(Within(l, s, from, w.started)) < Per

\* A source that may open a window now: fewer than Per events less than Window seconds ago.
Rested(l, s, sec) ==
  /\ \A i \in DOMAIN l : l[i].source = s => l[i].at < sec
  /\ \A from \in Nat : from + Window > sec => Cardinality(Since(l, s, from)) < Per

Bounded(l, s) ==
  \A from \in Nat : Cardinality(Within(l, s, from, from + Window)) < 2 * Per

LimiterTypes ==
  /\ second \in Nat /\ let \in Seq(Event) /\ \A i \in DOMAIN let : let[i].at <= second
  /\ windows \in [DOMAIN windows -> Counted]
  /\ \A s \in DOMAIN windows : windows[s].started <= second

LimiterInv ==
  /\ LimiterTypes
  /\ \A s \in Sources : /\ s \in DOMAIN windows => WindowRight(let, s, windows[s])
                        /\ s \notin DOMAIN windows => Rested(let, s, second)
                        /\ Bounded(let, s)

\* What was let through has its second.
LEMMA EventsTimed ==
  ASSUME NEW l \in Seq(Event), NEW i \in DOMAIN l
  PROVE  l[i] \in Event /\ l[i].at \in Nat
<1>1. l[i] \in Event
  OBVIOUS
<1>. QED
  BY Zenon, <1>1 DEF Event

\* Events are counted.
LEMMA EventsFinite ==
  ASSUME NEW l \in Seq(Event), NEW s, NEW lo, NEW hi
  PROVE  /\ IsFiniteSet(Since(l, s, lo)) /\ IsFiniteSet(Within(l, s, lo, hi))
         /\ Cardinality(Since(l, s, lo)) \in Nat /\ Cardinality(Within(l, s, lo, hi)) \in Nat
<1>1. IsFiniteSet(DOMAIN l)
  <2>1. DOMAIN l = 1..Len(l) /\ Len(l) \in Nat
    OBVIOUS
  <2>. QED
    BY <2>1, FS_Interval
<1>2. Since(l, s, lo) \in SUBSET DOMAIN l /\ Within(l, s, lo, hi) \in SUBSET DOMAIN l
  BY Zenon DEF Since, Within
<1>. QED
  BY Zenon, <1>1, <1>2, FS_Subset, FS_CardinalityType

\* A window that is over leaves its source rested.
LEMMA OverRests ==
  ASSUME NEW l \in Seq(Event), NEW s, NEW w \in Counted, NEW sec \in Nat,
         WindowRight(l, s, w), sec - w.started >= Window
  PROVE  Rested(l, s, sec)
<1>1. /\ w.started \in Nat /\ Window \in Nat /\ Per \in Nat /\ sec >= w.started + Window
      /\ \A i \in DOMAIN l : l[i].at \in Nat
  BY LimiterAssumption, EventsTimed DEF Counted
<1>2. \A i \in DOMAIN l : l[i].source = s => l[i].at < sec
  BY <1>1 DEF WindowRight
<1>3. ASSUME NEW from \in Nat, from + Window > sec PROVE Cardinality(Since(l, s, from)) < Per
  <2>. DEFINE S == Since(l, s, w.started)
              T == Since(l, s, from)
  <2>1. from > w.started
    BY <1>1, <1>3
  <2>2. PICK i \in DOMAIN l : l[i].source = s /\ l[i].at = w.started
    BY Zenon DEF WindowRight
  <2>3. i \in S /\ T \in SUBSET (S \ {i})
    BY <1>1, <2>1, <2>2 DEF Since
  <2>4. /\ IsFiniteSet(S) /\ Cardinality(S) \in Nat /\ Cardinality(T) \in Nat
        /\ Cardinality(S) <= Per
    BY Zenon, EventsFinite DEF WindowRight
  <2>. HIDE DEF S, T
  <2>5. IsFiniteSet(S \ {i}) /\ Cardinality(S \ {i}) = Cardinality(S) - 1
    BY Zenon, <2>3, <2>4, FS_RemoveElement
  <2>6. Cardinality(T) <= Cardinality(S \ {i})
    BY Zenon, <2>3, <2>5, FS_Subset
  <2>7. Cardinality(T) < Per
    BY <1>1, <2>4, <2>5, <2>6
  <2>. QED
    BY Zenon, <2>7 DEF T
<1>. QED
  BY Zenon, <1>2, <1>3 DEF Rested

\* The list of events with one more.
LEMMA AppendedEvent ==
  ASSUME NEW l \in Seq(Event), NEW e \in Event
  PROVE  /\ DOMAIN Append(l, e) = DOMAIN l \cup {Len(l) + 1} /\ Len(l) + 1 \notin DOMAIN l
         /\ Append(l, e)[Len(l) + 1] = e /\ e.at \in Nat
         /\ \A i \in DOMAIN l : Append(l, e)[i] = l[i] /\ l[i].at \in Nat
<1>1. /\ DOMAIN Append(l, e) = DOMAIN l \cup {Len(l) + 1} /\ Len(l) + 1 \notin DOMAIN l
      /\ Append(l, e)[Len(l) + 1] = e /\ \A i \in DOMAIN l : Append(l, e)[i] = l[i]
  OBVIOUS
<1>2. e.at \in Nat
  BY Zenon DEF Event
<1>. QED
  BY Zenon, <1>1, <1>2, EventsTimed

\* An event let through is one more of its source since any earlier second.
LEMMA EventAdds ==
  ASSUME NEW l \in Seq(Event), NEW e \in Event, NEW lo \in Nat, lo <= e.at
  PROVE  Cardinality(Since(Append(l, e), e.source, lo)) = Cardinality(Since(l, e.source, lo)) + 1
<1>. DEFINE A == Since(l, e.source, lo)
            n == Len(l) + 1
<1>1. Since(Append(l, e), e.source, lo) = A \cup {n} /\ n \notin A
  BY AppendedEvent DEF Since
<1>2. IsFiniteSet(A)
  BY Zenon, EventsFinite
<1>. HIDE DEF A, n
<1>3. Cardinality(A \cup {n}) = Cardinality(A) + 1
  BY Zenon, <1>1, <1>2, FS_AddElement
<1>. QED
  BY Zenon, <1>1, <1>3 DEF A

\* It is none of another source, and none before its second.
LEMMA EventElsewhere ==
  ASSUME NEW l \in Seq(Event), NEW e \in Event, NEW t, t # e.source, NEW lo
  PROVE  Since(Append(l, e), t, lo) = Since(l, t, lo)
BY AppendedEvent DEF Since

\* An event of another source, or after the end, is not in a window.
LEMMA EventOutside ==
  ASSUME NEW l \in Seq(Event), NEW e \in Event, NEW t, NEW lo, NEW hi \in Int,
         t # e.source \/ hi <= e.at
  PROVE  Within(Append(l, e), t, lo, hi) = Within(l, t, lo, hi)
BY AppendedEvent DEF Within

\* Two windows that meet: the end of one and the whole of the next.
LEMMA WindowsMeet ==
  ASSUME NEW l \in Seq(Event), NEW s, NEW w \in Counted, WindowRight(l, s, w),
         NEW from \in Nat, from + Window > w.started
  PROVE  Cardinality(Within(l, s, from, from + Window)) < 2 * Per
<1>. DEFINE A == Within(l, s, from, w.started)
            B == Since(l, s, w.started)
            C == Within(l, s, from, from + Window)
<1>1. /\ IsFiniteSet(A) /\ IsFiniteSet(B) /\ Cardinality(A) \in Nat /\ Cardinality(B) \in Nat
      /\ Cardinality(C) \in Nat
  BY Zenon, EventsFinite
<1>2. Cardinality(A) < Per /\ Cardinality(B) <= Per
  BY Zenon DEF WindowRight
<1>3. \A i \in DOMAIN l : l[i].at \in Nat
  BY Zenon, EventsTimed
<1>4. C \in SUBSET (A \cup B) /\ A \cap B = {}
  BY <1>3 DEF Within, Since, Counted
<1>. HIDE DEF A, B, C
<1>5. IsFiniteSet(A \cup B) /\ Cardinality(A \cup B) = Cardinality(A) + Cardinality(B)
  <2>1. /\ IsFiniteSet(A \cup B)
        /\ Cardinality(A \cup B) = Cardinality(A) + Cardinality(B) - Cardinality(A \cap B)
    BY Zenon, <1>1, FS_Union
  <2>2. Cardinality(A \cap B) = 0
    BY Zenon, <1>4, FS_EmptySet
  <2>. QED
    BY <1>1, <2>1, <2>2
<1>6. Cardinality(C) <= Cardinality(A \cup B)
  BY Zenon, <1>4, <1>5, FS_Subset
<1>7. Cardinality(C) < 2 * Per
  BY <1>1, <1>2, <1>5, <1>6, LimiterAssumption
<1>. QED
  BY Zenon, <1>7 DEF C

\* An event let through at a second no earlier than the others, in the window w it falls in,
\* which becomes v.
LEMMA EventKeeps ==
  ASSUME NEW l \in Seq(Event), NEW s \in Sources, NEW sec \in Nat, NEW w \in Counted,
         \A i \in DOMAIN l : l[i].at <= sec, w.count < Per,
         \/ WindowRight(l, s, w) /\ w.started <= sec /\ sec < w.started + Window
         \/ Rested(l, s, sec) /\ w = [started |-> sec, count |-> 0]
  PROVE  WindowRight(Append(l, [source |-> s, at |-> sec]), s,
                     [started |-> w.started, count |-> w.count + 1])
<1>. DEFINE e == [source |-> s, at |-> sec]
            m == Append(l, e)
            v == [started |-> w.started, count |-> w.count + 1]
            n == Len(l) + 1
<1>1. e \in Event /\ e.source = s /\ e.at = sec
  BY Zenon DEF Event
<1>. HIDE DEF e
<1>2. /\ DOMAIN m = DOMAIN l \cup {n} /\ m[n] = e /\ \A i \in DOMAIN l : m[i] = l[i]
      /\ \A i \in DOMAIN l : l[i].at \in Nat
  <2>1. DOMAIN m = DOMAIN l \cup {n} /\ m[n] = e /\ \A i \in DOMAIN l : m[i] = l[i]
    BY <1>1
  <2>. QED
    BY Zenon, <2>1, EventsTimed
<1>3. w.started \in Nat /\ w.count \in Nat /\ w.started <= sec /\ Window \in Nat \ {0}
        /\ Per \in Nat
  BY LimiterAssumption DEF Counted
<1>4. /\ Cardinality(Since(m, s, w.started)) = Cardinality(Since(l, s, w.started)) + 1
      /\ \A from \in Nat : Within(m, s, from, w.started) = Within(l, s, from, w.started)
  <2>1. Cardinality(Since(m, s, w.started)) = Cardinality(Since(l, s, w.started)) + 1
    BY Zenon, <1>1, <1>3, EventAdds
  <2>2. w.started \in Int
    BY <1>3
  <2>. QED
    BY <1>1, <1>3, <2>1, <2>2, EventOutside
<1>. HIDE DEF m, n
<1>5. CASE WindowRight(l, s, w) /\ sec < w.started + Window
  <2>1. Cardinality(Since(m, s, w.started)) = w.count + 1 /\ w.count + 1 <= Per
    BY <1>3, <1>4, <1>5 DEF WindowRight
  <2>2. \E i \in DOMAIN m : m[i].source = s /\ m[i].at = w.started
    BY Zenon, <1>2, <1>5 DEF WindowRight
  <2>3. \A i \in DOMAIN m : m[i].source = s => m[i].at < w.started + Window
    BY Zenon, <1>1, <1>2, <1>5 DEF WindowRight
  <2>. QED
    BY Zenon, <1>4, <1>5, <2>1, <2>2, <2>3 DEF WindowRight, m, e
<1>6. CASE Rested(l, s, sec) /\ w = [started |-> sec, count |-> 0]
  <2>0. w.started = sec /\ w.count = 0
    BY Zenon, <1>6
  <2>1. Cardinality(Since(m, s, w.started)) = w.count + 1 /\ w.count + 1 <= Per
    <3>1. Since(l, s, sec) = {}
      BY <1>2, <1>6 DEF Since, Rested
    <3>. QED
      BY <1>3, <1>4, <2>0, <3>1, FS_EmptySet
  <2>2. \E i \in DOMAIN m : m[i].source = s /\ m[i].at = w.started
    BY Zenon, <1>1, <1>2, <2>0
  <2>3. \A i \in DOMAIN m : m[i].source = s => m[i].at < w.started + Window
    BY <1>1, <1>2, <1>3, <2>0
  <2>4. ASSUME NEW from \in Nat, from + Window > w.started
        PROVE  Cardinality(Within(m, s, from, w.started)) < Per
    <3>. DEFINE A == Within(l, s, from, w.started)
                B == Since(l, s, from)
    <3>1. A \in SUBSET B
      BY Zenon DEF Within, Since
    <3>2. IsFiniteSet(B) /\ Cardinality(B) \in Nat /\ Cardinality(A) \in Nat
      BY Zenon, EventsFinite
    <3>3. Cardinality(B) < Per
      BY Zenon, <1>6, <2>0, <2>4 DEF Rested
    <3>4. Cardinality(A) <= Cardinality(B)
      <4>. HIDE DEF A, B
      <4>. QED
        BY Zenon, <3>1, <3>2, FS_Subset
    <3>. HIDE DEF A, B
    <3>5. Cardinality(A) < Per
      BY <1>3, <3>2, <3>3, <3>4
    <3>. QED
      BY Zenon, <1>4, <3>5 DEF A
  <2>. QED
    BY Zenon, <2>1, <2>2, <2>3, <2>4 DEF WindowRight, m, e
<1>. QED
  BY Zenon, <1>5, <1>6

\* Another source's event changes nothing for a source.
LEMMA OthersUntouched ==
  ASSUME NEW l \in Seq(Event), NEW e \in Event, NEW t, t # e.source
  PROVE  /\ \A w \in Counted : WindowRight(l, t, w) => WindowRight(Append(l, e), t, w)
         /\ \A sec \in Nat : Rested(l, t, sec) => Rested(Append(l, e), t, sec)
         /\ Bounded(l, t) => Bounded(Append(l, e), t)
<1>. DEFINE m == Append(l, e)
            n == Len(l) + 1
<1>1. DOMAIN m = DOMAIN l \cup {n} /\ m[n] = e /\ \A i \in DOMAIN l : m[i] = l[i]
  OBVIOUS
<1>2. /\ \A lo \in Nat : Since(m, t, lo) = Since(l, t, lo)
      /\ \A lo \in Nat, hi \in Int : Within(m, t, lo, hi) = Within(l, t, lo, hi)
  BY EventElsewhere, EventOutside
<1>. HIDE DEF m, n
<1>3. ASSUME NEW w \in Counted, WindowRight(l, t, w) PROVE WindowRight(m, t, w)
  <2>1. w.started \in Nat
    BY Zenon DEF Counted
  <2>. QED
    BY <1>1, <1>2, <1>3, <2>1 DEF WindowRight
<1>4. ASSUME NEW sec \in Nat, Rested(l, t, sec) PROVE Rested(m, t, sec)
  BY Zenon, <1>1, <1>2, <1>4 DEF Rested
<1>5. ASSUME Bounded(l, t) PROVE Bounded(m, t)
  <2>1. \A from \in Nat : from + Window \in Int
    BY LimiterAssumption
  <2>. QED
    BY Zenon, <1>2, <1>5, <2>1 DEF Bounded
<1>. QED
  BY Zenon, <1>3, <1>4, <1>5 DEF m

\* Limiter::allow.
LEMMA AllowKeeps ==
  ASSUME LimiterInv, NEW s \in Sources, Allow(s)
  PROVE  LimiterInv'
<1>. DEFINE w == Current(s)
            v == [started |-> w.started, count |-> w.count + 1]
            e == [source |-> s, at |-> second]
            next == IF w.count < Per THEN v ELSE w
<1>1. /\ second \in Nat /\ let \in Seq(Event) /\ \A i \in DOMAIN let : let[i].at <= second
      /\ windows \in [DOMAIN windows -> Counted]
      /\ \A t \in DOMAIN windows : windows[t].started <= second /\ windows[t] \in Counted
      /\ Window \in Nat \ {0} /\ Per \in Nat \ {0}
  BY Zenon, LimiterAssumption DEF LimiterInv, LimiterTypes
<1>2. /\ DOMAIN Kept \subseteq DOMAIN windows /\ \A t \in DOMAIN Kept : Kept[t] = windows[t]
      /\ \A t \in DOMAIN windows : t \notin DOMAIN Kept => Over(windows[t])
  BY Zenon DEF Kept, Restrict
<1>3. /\ w \in Counted /\ w.started <= second
      /\ \/ /\ s \in DOMAIN Kept /\ w = Kept[s]
            /\ WindowRight(let, s, w) /\ second < w.started + Window
         \/ Rested(let, s, second) /\ w = [started |-> second, count |-> 0]
  <2>1. CASE s \in DOMAIN Kept /\ ~Over(Kept[s])
    <3>1. w = windows[s] /\ w = Kept[s] /\ WindowRight(let, s, w)
      BY Zenon, <1>2, <2>1 DEF Current, LimiterInv
    <3>2. w \in Counted /\ w.started <= second /\ w.started \in Nat /\ ~Over(w)
      BY Zenon, <1>1, <1>2, <2>1, <3>1 DEF Counted
    <3>. QED
      BY <1>1, <2>1, <3>1, <3>2 DEF Over
  <2>2. CASE ~(s \in DOMAIN Kept /\ ~Over(Kept[s]))
    <3>1. w = [started |-> second, count |-> 0]
      BY Zenon, <2>2 DEF Current
    <3>2. CASE s \in DOMAIN windows
      BY <1>1, <1>2, <2>2, <3>1, <3>2, OverRests DEF Over, LimiterInv, Counted
    <3>3. CASE s \notin DOMAIN windows
      BY <1>1, <3>1, <3>3 DEF LimiterInv, Counted
    <3>. QED
      BY Zenon, <3>2, <3>3
  <2>. QED
    BY Zenon, <2>1, <2>2
<1>4. /\ windows' = [t \in DOMAIN Kept \cup {s} |-> IF t = s THEN next ELSE Kept[t]]
      /\ let' = IF w.count < Per THEN Append(let, e) ELSE let
      /\ second' = second
  <2>1. [w EXCEPT !.count = @ + 1] = v
    BY <1>3 DEF Counted
  <2>. HIDE DEF w
  <2>. QED
    BY Zenon, <2>1 DEF Allow, w
<1>5. e \in Event /\ e.source = s /\ e.at = second
  BY Zenon, <1>1 DEF Event
<1>. HIDE DEF w, e
<1>6. w.started \in Nat /\ w.count \in Nat
  BY Zenon, <1>3 DEF Counted
<1>7. v \in Counted /\ next \in Counted /\ next.started = w.started
  BY <1>3, <1>6 DEF Counted
<1>8. WindowRight(let', s, next)
  <2>1. CASE w.count < Per
    <3>1. WindowRight(Append(let, e), s, v)
      BY Zenon, <1>1, <1>3, <2>1, EventKeeps DEF e
    <3>. QED
      BY Zenon, <1>4, <2>1, <3>1
  <2>2. CASE ~(w.count < Per)
    <3>1. w # [started |-> second, count |-> 0]
      BY <1>1, <2>2
    <3>. QED
      BY Zenon, <1>3, <1>4, <2>2, <3>1
  <2>. QED
    BY Zenon, <2>1, <2>2
<1>. HIDE DEF next, v
<1>9. let' \in Seq(Event) /\ \A i \in DOMAIN let' : let'[i].at <= second
  BY <1>1, <1>4, <1>5
<1>10. /\ DOMAIN windows' = DOMAIN Kept \cup {s} /\ windows'[s] = next
       /\ \A t \in DOMAIN Kept : t # s => windows'[t] = windows[t]
  BY Zenon, <1>2, <1>4
<1>11. LimiterTypes'
  <2>1. windows' \in [DOMAIN windows' -> Counted]
    BY Zenon, <1>1, <1>2, <1>4, <1>7
  <2>2. \A t \in DOMAIN windows' : windows'[t].started <= second
    BY Zenon, <1>1, <1>2, <1>3, <1>7, <1>10
  <2>. QED
    BY Zenon, <1>1, <1>4, <1>9, <2>1, <2>2 DEF LimiterTypes
<1>12. Bounded(let', s)
  <2>. SUFFICES ASSUME NEW from \in Nat
                PROVE  Cardinality(Within(let', s, from, from + Window)) < 2 * Per
    BY Zenon DEF Bounded
  <2>1. CASE from + Window > second
    <3>1. from + Window > next.started
      BY <1>1, <1>3, <1>6, <1>7, <2>1
    <3>. QED
      BY Zenon, <1>7, <1>8, <1>9, <3>1, WindowsMeet
  <2>2. CASE ~(from + Window > second)
    <3>1. from + Window \in Int /\ from + Window <= second
      BY <1>1, <2>2
    <3>2. Within(let', s, from, from + Window) = Within(let, s, from, from + Window)
      BY <1>1, <1>4, <1>5, <3>1, EventOutside
    <3>. QED
      BY Zenon, <3>2 DEF LimiterInv, Bounded
  <2>. QED
    BY Zenon, <2>1, <2>2
<1>13. ASSUME NEW t \in Sources
       PROVE  /\ t \in DOMAIN windows' => WindowRight(let', t, windows'[t])
              /\ t \notin DOMAIN windows' => Rested(let', t, second)
              /\ Bounded(let', t)
  <2>1. CASE t = s
    BY Zenon, <1>8, <1>10, <1>12, <2>1
  <2>2. CASE t # s
    <3>1. /\ t \in DOMAIN windows => WindowRight(let, t, windows[t])
          /\ t \notin DOMAIN windows => Rested(let, t, second)
          /\ Bounded(let, t)
      BY Zenon DEF LimiterInv
    <3>2. /\ \A u \in Counted : WindowRight(let, t, u) => WindowRight(let', t, u)
          /\ Rested(let, t, second) => Rested(let', t, second)
          /\ Bounded(let, t) => Bounded(let', t)
      BY Zenon, <1>1, <1>4, <1>5, <2>2, OthersUntouched
    <3>3. ASSUME t \in DOMAIN windows, t \notin DOMAIN Kept PROVE Rested(let, t, second)
      BY Zenon, <1>1, <1>2, <3>1, <3>3, OverRests DEF Over
    <3>. QED
      BY Zenon, <1>1, <1>2, <1>10, <2>2, <3>1, <3>2, <3>3
  <2>. QED
    BY Zenon, <2>1, <2>2
<1>. QED
  BY Zenon, <1>4, <1>11, <1>13 DEF LimiterInv

\* Within any Window seconds fewer than twice Per events of a source are let through
\* (oauth/mod.rs Limiter::allow), however full the table is.
THEOREM LimiterHolds == LimiterSpec => []FewerThanTwoWindows
<1>1. LimiterInit => LimiterInv
  <2>. SUFFICES ASSUME LimiterInit PROVE LimiterInv
    BY Zenon
  <2>1. second = 0 /\ let = <<>> /\ DOMAIN windows = {} /\ windows \in [{} -> Counted]
    BY Zenon DEF LimiterInit
  <2>2. \A s, lo, hi : Since(let, s, lo) = {} /\ Within(let, s, lo, hi) = {}
    BY <2>1 DEF Since, Within
  <2>3. Cardinality({}) = 0 /\ 0 < Per /\ 0 < 2 * Per
    BY FS_EmptySet, LimiterAssumption
  <2>4. LimiterTypes
    BY <2>1 DEF LimiterTypes
  <2>. QED
    <3>1. DOMAIN let = {}
      BY <2>1
    <3>2. \A s \in Sources : Rested(let, s, second) /\ Bounded(let, s)
      BY Zenon, <2>2, <2>3, <3>1 DEF Rested, Bounded
    <3>. QED
      BY Zenon, <2>1, <2>4, <3>2 DEF LimiterInv
<1>2. LimiterInv /\ [LimiterNext]_limiterVars => LimiterInv'
  <2>. SUFFICES ASSUME LimiterInv, [LimiterNext]_limiterVars PROVE LimiterInv'
    BY Zenon
  <2>1. CASE \E s \in Sources : Allow(s)
    BY Zenon, <2>1, AllowKeeps
  <2>2. CASE UNCHANGED limiterVars
    BY Zenon, <2>2 DEF limiterVars, LimiterInv, LimiterTypes
  <2>3. CASE Second
    <3>1. second \in Nat /\ second' = second + 1 /\ UNCHANGED <<windows, let>>
      BY Zenon, <2>3 DEF Second, LimiterInv, LimiterTypes
    <3>2. LimiterTypes'
      <4>1. /\ let \in Seq(Event) /\ windows \in [DOMAIN windows -> Counted]
            /\ \A i \in DOMAIN let : let[i].at <= second
            /\ \A s \in DOMAIN windows : windows[s].started <= second
        BY Zenon DEF LimiterInv, LimiterTypes
      <4>2. \A i \in DOMAIN let : let[i].at \in Nat
        BY Zenon, <4>1, EventsTimed
      <4>3. \A s \in DOMAIN windows : windows[s].started \in Nat
        BY Zenon, <4>1 DEF Counted
      <4>. QED
        BY <3>1, <4>1, <4>2, <4>3 DEF LimiterTypes
    <3>3. ASSUME NEW s, Rested(let, s, second) PROVE Rested(let, s, second')
      <4>1. \A i \in DOMAIN let : let[i].at \in Nat
        BY Zenon, EventsTimed DEF LimiterInv, LimiterTypes
      <4>. QED
        BY <3>1, <3>3, <4>1, LimiterAssumption DEF Rested
    <3>. QED
      BY Zenon, <3>1, <3>2, <3>3 DEF LimiterInv
  <2>. QED
    BY Zenon, <2>1, <2>2, <2>3 DEF LimiterNext
<1>3. LimiterInv => FewerThanTwoWindows
  <2>. SUFFICES ASSUME LimiterInv, NEW s \in Sources, NEW from \in 0..second
                PROVE  Cardinality(Within(let, s, from, from + Window)) < 2 * Per
    BY Zenon DEF FewerThanTwoWindows, Within
  <2>. QED
    BY DEF LimiterInv, Bounded
<1>. QED
  BY <1>1, <1>2, <1>3, PTL DEF LimiterSpec

-----------------------------------------------------------------------------
(***************************************************************************)
(* Gate.  PartyRouteIsThreads for every set of segments and every depth:   *)
(* the gate's readings of a path exclude one another.                      *)
(***************************************************************************)

\* The words of the paths the gate compares with.
Words == {"client", "v1", "threads", "content", "agents", "map", "graph", "timeline", "mutations",
          "score", "moves", "nodes", "edges", "mcp", "proxy", "computer", "phone", "mail",
          "messages", "inference"}

\* A path is under a prefix when it starts with its segments.
LEMMA UnderIs ==
  ASSUME NEW W, NEW s \in Seq(W), NEW t \in Seq(W)
  PROVE  Under(s, t) <=> Len(s) <= Len(t) /\ \A i \in 1..Len(s) : s[i] = t[i]
<1>1. CASE ~(Len(s) <= Len(t))
  BY Zenon, <1>1 DEF Under
<1>2. CASE Len(s) <= Len(t)
  <2>. DEFINE b == SubSeq(t, 1, Len(s))
  <2>1. b \in Seq(W) /\ Len(b) = Len(s) /\ \A i \in 1..Len(s) : b[i] = t[i]
    BY <1>2
  <2>2. Under(s, t) <=> b = s
    BY Zenon, <1>2 DEF Under
  <2>. HIDE DEF b
  <2>3. b = s <=> \A i \in 1..Len(s) : b[i] = s[i]
    BY <2>1
  <2>. QED
    BY Zenon, <1>2, <2>1, <2>2, <2>3
<1>. QED
  BY Zenon, <1>1, <1>2

\* A path of two segments.
LEMMA PairIs ==
  ASSUME NEW W, NEW a \in W, NEW b \in W
  PROVE  /\ <<a, b>> \in Seq(W) /\ Len(<<a, b>>) = 2
         /\ <<a, b>>[1] = a /\ <<a, b>>[2] = b
OBVIOUS

Joined(W, g, h) ==
  /\ g \o h \in Seq(W) /\ Len(g \o h) = Len(g) + Len(h)
  /\ \A i \in 1..Len(g) : (g \o h)[i] = g[i]
  /\ \A i \in 1..Len(h) : (g \o h)[Len(g) + i] = h[i]

\* Two paths joined, segment by segment.
LEMMA JoinedAre ==
  ASSUME NEW W, NEW g \in Seq(W), NEW h \in Seq(W)
  PROVE  Joined(W, g, h)
BY DEF Joined

\* A path below /client/v1, segment by segment.
LEMMA ClientIs ==
  ASSUME NEW W, NEW tail \in Seq(W), Words \subseteq W
  PROVE  /\ Client(tail) \in Seq(W) /\ Len(Client(tail)) = Len(tail) + 2
         /\ Client(tail)[1] = "client" /\ Client(tail)[2] = "v1"
         /\ \A i \in 1..Len(tail) : Client(tail)[2 + i] = tail[i]
<1>. DEFINE h == <<"client", "v1">>
<1>1. h \in Seq(W) /\ Len(h) = 2 /\ h[1] = "client" /\ h[2] = "v1"
  <2>1. "client" \in W /\ "v1" \in W
    BY Zenon DEF Words
  <2>. QED
    BY Zenon, <2>1, PairIs
<1>. HIDE DEF h
<1>2. Client(tail) = h \o tail
  BY Zenon DEF Client, h
<1>3. /\ h \o tail \in Seq(W) /\ Len(h \o tail) = Len(h) + Len(tail)
      /\ \A i \in 1..Len(h) : (h \o tail)[i] = h[i]
      /\ \A i \in 1..Len(tail) : (h \o tail)[Len(h) + i] = tail[i]
  BY <1>1, JoinedAre DEF Joined
<1>4. Len(tail) \in Nat
  OBVIOUS
<1>. QED
  BY <1>1, <1>2, <1>3, <1>4

\* A path that begins with a tail under /client/v1 has the tail's first word for its third.
LEMMA UnderClient ==
  ASSUME NEW W, NEW path \in Seq(W), NEW tail \in Seq(W), Len(tail) >= 1,
         Words \subseteq W, path = Client(tail) \/ Under(Client(tail), path)
  PROVE  path[1] = "client" /\ path[3] = tail[1]
<1>1. /\ Client(tail) \in Seq(W) /\ Len(Client(tail)) = Len(tail) + 2
      /\ Client(tail)[1] = "client" /\ Client(tail)[2 + 1] = tail[1]
  BY ClientIs
<1>2. CASE path = Client(tail)
  BY <1>1, <1>2
<1>3. CASE Under(Client(tail), path)
  <2>1. \A i \in 1..Len(Client(tail)) : Client(tail)[i] = path[i]
    BY <1>1, <1>3, UnderIs
  <2>. QED
    BY <1>1, <2>1
<1>. QED
  BY Zenon, <1>2, <1>3

\* Under a prefix the first segments agree.
LEMMA UnderFirst ==
  ASSUME NEW W, NEW path \in Seq(W), NEW p \in Seq(W), Len(p) >= 1, Under(p, path)
  PROVE  path[1] = p[1]
BY UnderIs

\* party_route names a path of conversations or of an avatar only for a path under threads or
\* agents, where no other family's arm of family_of can match.
LEMMA OneFamily ==
  ASSUME NEW W, NEW path \in Seq(W), Words \subseteq W, NEW method,
         path[1] = "client", path[3] \in {"threads", "agents"},
         \/ Under(Client(<<"threads">>), path)
         \/ method = "GET" /\ AgentOfAvatarPath(path)
  PROVE  FamilyOf(method, path) = "threads"
<1>1. \A w \in Words : <<w>> \in Seq(W) /\ Len(<<w>>) = 1 /\ <<w>>[1] = w
  OBVIOUS
<1>2. \A w, x \in Words : <<w, x>> \in Seq(W) /\ Len(<<w, x>>) = 2 /\ <<w, x>>[1] = w
  OBVIOUS
<1>3. \A w, x, y \in Words : <<w, x, y>> \in Seq(W) /\ Len(<<w, x, y>>) = 3 /\ <<w, x, y>>[1] = w
  OBVIOUS
<1>4. ASSUME NEW w \in Words, w # "threads", w # "agents"
      PROVE  ~Under(Client(<<w>>), path) /\ path # Client(<<w>>)
  <2>. DEFINE t == <<w>>
  <2>1. t \in Seq(W) /\ Len(t) = 1 /\ t[1] = w
    BY Zenon, <1>1
  <2>. HIDE DEF t
  <2>2. ~Under(Client(t), path) /\ path # Client(t)
    BY <1>4, <2>1, UnderClient
  <2>. QED
    BY Zenon, <2>2 DEF t
<1>5. ASSUME NEW w \in Words, NEW x \in Words, w # "threads", w # "agents"
      PROVE  ~Under(Client(<<w, x>>), path) /\ path # Client(<<w, x>>)
  <2>. DEFINE t == <<w, x>>
  <2>1. t \in Seq(W) /\ Len(t) = 2 /\ t[1] = w
    BY Zenon, <1>2
  <2>. HIDE DEF t
  <2>2. ~Under(Client(t), path) /\ path # Client(t)
    BY <1>5, <2>1, UnderClient
  <2>. QED
    BY Zenon, <2>2 DEF t
<1>6. path # Client(<<"map", "mutations", "score">>)
  <2>. DEFINE t == <<"map", "mutations", "score">>
  <2>1. t \in Seq(W) /\ Len(t) = 3 /\ t[1] = "map"
    <3>1. "map" \in Words /\ "mutations" \in Words /\ "score" \in Words
      BY Zenon DEF Words
    <3>. QED
      BY Zenon, <1>3, <3>1
  <2>. HIDE DEF t
  <2>2. path # Client(t)
    BY <2>1, UnderClient
  <2>. QED
    BY Zenon, <2>2 DEF t
<1>7. ASSUME NEW w \in Words, NEW x \in Words, w # "client" PROVE ~Under(<<w, x>>, path)
  <2>. DEFINE t == <<w, x>>
  <2>1. t \in Seq(W) /\ Len(t) >= 1 /\ t[1] = w
    BY <1>2
  <2>. HIDE DEF t
  <2>2. Under(t, path) => path[1] = w
    BY Zenon, <2>1, UnderFirst
  <2>3. ~Under(t, path)
    BY Zenon, <1>7, <2>2
  <2>. QED
    BY Zenon, <2>3 DEF t
<1>8. ~IsInferencePath(path)
  <2>. DEFINE t == <<"inference">>
  <2>1. t \in Seq(W) /\ Len(t) = 1 /\ t[1] = "inference"
    BY Zenon, <1>1 DEF Words
  <2>. HIDE DEF t
  <2>2. ~Under(t, path)
    BY <2>1, UnderFirst
  <2>. QED
    BY Zenon, <2>2 DEF IsInferencePath, t
<1>9. /\ ~Under(Client(<<"map">>), path) /\ ~Under(Client(<<"timeline">>), path)
      /\ ~Under(Client(<<"moves">>), path) /\ path # Client(<<"moves">>)
  BY Zenon, <1>4 DEF Words
<1>10. /\ path # Client(<<"graph", "map">>) /\ ~Under(Client(<<"map", "nodes">>), path)
       /\ ~Under(Client(<<"map", "edges">>), path) /\ ~Under(Client(<<"graph", "nodes">>), path)
  BY Zenon, <1>5 DEF Words
<1>11. /\ ~Under(<<"mcp", "proxy">>, path) /\ ~Under(<<"mcp", "computer">>, path)
       /\ ~Under(<<"mcp", "phone">>, path) /\ ~Under(<<"mcp", "mail">>, path)
       /\ ~Under(<<"mcp", "messages">>, path)
  BY Zenon, <1>7 DEF Words
<1>. QED
  BY Zenon, <1>6, <1>8, <1>9, <1>10, <1>11 DEF FamilyOf

\* The segments /client/v1/threads, read one by one, are the prefix read as a whole.
LEMMA AtThreadsIsUnder ==
  ASSUME NEW W, NEW path \in Seq(W), Words \subseteq W, AtThreads(path)
  PROVE  Under(Client(<<"threads">>), path) /\ path[1] = "client" /\ path[3] = "threads"
<1>. DEFINE t == <<"threads">>
            e == <<>>
            h == SubSeq(path, 1, 2)
<1>1. t \in Seq(W) /\ Len(t) = 1 /\ t[1] = "threads" /\ e \in Seq(W) /\ Len(e) = 0
  BY DEF Words
<1>2. Len(path) \in Nat /\ Len(path) >= 3 /\ h = Client(e) /\ path[3] = "threads"
  BY DEF AtThreads, GluedOrNot
<1>3. h[1] = path[1] /\ h[2] = path[2]
  BY <1>2
<1>. HIDE DEF t, e, h
<1>4. path[1] = "client" /\ path[2] = "v1"
  BY Zenon, <1>1, <1>2, <1>3, ClientIs
<1>5. /\ Client(t) \in Seq(W) /\ Len(Client(t)) = 3 /\ Client(t)[1] = "client"
      /\ Client(t)[2] = "v1" /\ Client(t)[2 + 1] = "threads"
  <2>1. /\ Client(t) \in Seq(W) /\ Len(Client(t)) = Len(t) + 2
        /\ Client(t)[1] = "client" /\ Client(t)[2] = "v1"
        /\ \A i \in 1..Len(t) : Client(t)[2 + i] = t[i]
    BY Zenon, <1>1, ClientIs
  <2>. QED
    BY <1>1, <2>1
<1>6. \A i \in 1..Len(Client(t)) : Client(t)[i] = path[i]
  BY <1>2, <1>4, <1>5
<1>7. Under(Client(t), path)
  BY Zenon, <1>2, <1>5, <1>6, UnderIs
<1>. QED
  BY Zenon, <1>2, <1>4, <1>7 DEF t

\* Every route a party bearer has is of the conversations' family (gate.rs party_route,
\* family_of).
LEMMA RoutesAreThreads ==
  ASSUME NEW W, NEW path \in Seq(W), Words \subseteq W, NEW method,
         PartyRoute(method, path) # NoRoute
  PROVE  FamilyOf(method, path) = "threads"
<1>1. CASE method = "GET" /\ AgentOfAvatarPath(path)
  <2>. DEFINE t == <<"agents">>
  <2>1. t \in Seq(W) /\ Len(t) >= 1 /\ t[1] = "agents"
    BY DEF Words
  <2>2. Under(Client(t), path)
    BY Zenon, <1>1 DEF AgentOfAvatarPath
  <2>. HIDE DEF t
  <2>3. path[1] = "client" /\ path[3] = "agents"
    BY Zenon, <2>1, <2>2, UnderClient
  <2>. QED
    BY Zenon, <1>1, <2>3, OneFamily
<1>2. CASE ~(method = "GET" /\ AgentOfAvatarPath(path))
  <2>1. AtThreads(path)
    BY Zenon, <1>2 DEF PartyRoute
  <2>2. Under(Client(<<"threads">>), path) /\ path[1] = "client" /\ path[3] = "threads"
    BY Zenon, <2>1, AtThreadsIsUnder
  <2>. QED
    BY Zenon, <2>2, OneFamily
<1>. QED
  BY Zenon, <1>1, <1>2

\* The paths considered are sequences of segments.
LEMMA PathsAreWords == Paths \subseteq Seq(Segments \cup Words)
<1>. DEFINE W == Segments \cup Words
<1>1. \A h \in Heads : h \in Seq(W)
  <2>1. "client" \in W /\ "v1" \in W /\ "mcp" \in W
    BY Zenon DEF Words
  <2>. HIDE DEF W
  <2>2. <<"client", "v1">> \in Seq(W) /\ <<"mcp">> \in Seq(W) /\ <<>> \in Seq(W)
    BY <2>1
  <2>. QED
    BY Zenon, <2>2 DEF Heads
<1>2. \A t \in Tails : t \in Seq(W)
  BY GateAssumption DEF Tails
<1>. HIDE DEF W
<1>3. \A h, t \in Seq(W) : h \o t \in Seq(W)
  OBVIOUS
<1>4. Paths \subseteq Seq(W)
  <2>. SUFFICES ASSUME NEW path \in Paths PROVE path \in Seq(W)
    BY Zenon
  <2>1. PICK h \in Heads, t \in Tails : path = h \o t
    BY Zenon DEF Paths
  <2>2. h \in Seq(W) /\ t \in Seq(W)
    BY Zenon, <1>1, <1>2
  <2>. QED
    BY Zenon, <1>3, <2>1, <2>2
<1>. QED
  BY Zenon, <1>4 DEF W

\* What a party bearer reaches is always one of the routes of conversations, whatever the
\* segments of paths and however long they are (gate.rs party_route, family_of).
THEOREM PartyReachesThreads == GateSpec => []PartyRouteIsThreads
<1>1. GateInit => PartyRouteIsThreads
  BY Zenon DEF GateInit, PartyRouteIsThreads
<1>2. PartyRouteIsThreads /\ [GateNext]_gateVars => PartyRouteIsThreads'
  <2>. SUFFICES ASSUME GateNext PROVE PartyRouteIsThreads'
    BY Zenon DEF gateVars, PartyRouteIsThreads
  <2>1. PICK method \in Methods, path \in Paths : Request(method, path)
    BY Zenon DEF GateNext
  <2>2. path \in Seq(Segments \cup Words)
    BY Zenon, PathsAreWords
  <2>3. route' = PartyRoute(method, path) /\ family' = FamilyOf(method, path)
    BY Zenon, <2>1 DEF Request
  <2>4. PartyRoute(method, path) # NoRoute => FamilyOf(method, path) = "threads"
    BY Zenon, <2>2, RoutesAreThreads
  <2>. QED
    BY Zenon, <2>3, <2>4 DEF PartyRouteIsThreads
<1>. QED
  BY <1>1, <1>2, PTL DEF GateSpec

-----------------------------------------------------------------------------
(***************************************************************************)
(* Tunnel.  For any number of starts, stops and failures.  Every process   *)
(* is held by the child slot, by a stop or by the start task that spawned  *)
(* it; one start task and one health loop at most are not aborted.         *)
(***************************************************************************)

States == {"stopped", "starting", "connected", "error"}
Waits  == {"finding", "downloading", "extracting", "placing"}
Task   == [at : Waits \cup Running, of : Nat \ {0}, system : BOOLEAN, aborted : BOOLEAN]
Loop   == [of : Nat, at : {"check", "exited", "probe", "acting"}, ready : BOOLEAN,
           aborted : BOOLEAN]

TunnelTypes ==
  /\ state \in States
  /\ generation \in Nat
  /\ child \in Nat
  /\ processes \in SUBSET (Nat \ {0})
  /\ starters \in SUBSET Task
  /\ loops \in SUBSET Loop
  /\ sleeping \in SUBSET Nat
  /\ stopping \in Nat \cup {NoStop, Awaits}

\* A start task that was not aborted is the one of the newest generation, and no stop is
\* under way; an aborted one does not wait.
TasksAgree ==
  \A t \in starters : IF t.aborted THEN t.at \in Running
                                   ELSE t.of = generation /\ stopping = NoStop

\* The child slot, a stop and a start task that has spawned hold every process.
OwnedBy(ts) == {t.of : t \in {u \in ts : u.at \in Owning}}
Held == processes \subseteq {child, stopping} \cup OwnedBy(starters)

\* One health loop is not aborted, and one that waits is not aborted.
LoopsAgree ==
  /\ \A h \in loops : h.aborted => h.at \in MidTurn
  /\ \A h, k \in loops : ~h.aborted /\ ~k.aborted => h = k

\* A loop in the middle of a turn found a child, and nobody else takes it.
Watching == \A h \in loops : ~h.aborted /\ h.at \in {"probe", "acting"} => child # NoProcess

Exiting == \E h \in loops : h.at = "exited"
Up == state \in {"starting", "connected"} /\ ~overtaken
Starting == \E t \in starters : ~t.aborted

\* Somebody will notice that nothing is at work.
Attended ==
  /\ Up => \A t \in starters : ~t.aborted /\ t.at = "placed" => child # NoProcess \/ Exiting
  /\ Up /\ stopping = NoStop =>
       Starting \/ Exiting \/ \E h \in loops : h.at # "check" \/ child # NoProcess

\* What runs or is scheduled after a stop was begun before it.
Called ==
  /\ last = "stop" => \A t \in starters : t.aborted
  /\ \A g \in sleeping : g <= generation /\ (g = generation => last # "stop")

TunnelInv ==
  TunnelTypes /\ TasksAgree /\ Held /\ LoopsAgree /\ Watching /\ Attended /\ Called

\* At start nothing runs.
LEMMA TunnelStarts == TunnelInit => TunnelInv
<1>. SUFFICES ASSUME TunnelInit PROVE TunnelInv
  BY Zenon
<1>1. /\ state = "stopped" /\ generation = 0 /\ child = 0 /\ processes = {} /\ loops = {}
      /\ starters = {} /\ sleeping = {} /\ stopping = NoStop
  BY Zenon DEF TunnelInit, NoProcess
<1>2. TunnelTypes
  BY Zenon, <1>1 DEF TunnelTypes, States
<1>. QED
  BY Zenon, <1>1, <1>2
  DEF TunnelInv, TasksAgree, Held, LoopsAgree, Watching, Attended, Up, Called

\* abort() leaves the start tasks that run, marked, with their processes.
LEMMA AbortedTaskFacts ==
  ASSUME TunnelTypes
  PROVE  /\ AbortedTasks(starters) \subseteq Task
         /\ \A t \in AbortedTasks(starters) : t.aborted = TRUE /\ t.at \in Running
         /\ OwnedBy(starters) \subseteq OwnedBy(AbortedTasks(starters))
<1>1. ASSUME NEW u \in starters
      PROVE  LET t == [u EXCEPT !.aborted = TRUE]
             IN  t \in Task /\ t.at = u.at /\ t.of = u.of /\ t.aborted = TRUE
  BY Zenon DEF TunnelTypes, Task
<1>2. ASSUME NEW u \in starters, u.at \in Owning PROVE u.of \in OwnedBy(AbortedTasks(starters))
  <2>1. [u EXCEPT !.aborted = TRUE] \in AbortedTasks(starters)
    BY Zenon, <1>2 DEF AbortedTasks, Running
  <2>. QED
    BY Zenon, <1>1, <1>2, <2>1 DEF OwnedBy
<1>. QED
  BY Zenon, <1>1, <1>2 DEF AbortedTasks, OwnedBy

\* start_from_config, called by start() or by a restart that is not outdated.
LEMMA LaunchKeeps ==
  ASSUME TunnelInv, NEW g, StartFromConfig(g), stopping = NoStop,
         UNCHANGED <<child, processes, loops, stopping>>,
         sleeping' \subseteq sleeping, last' = "start" \/ last' = last,
         ~Outdated(g) => last' # "stop"
  PROVE  TunnelInv'
<1>. USE DEF TunnelInv
<1>1. CASE UNCHANGED <<state, generation, starters, overtaken>>
  BY Zenon, <1>1 DEF TunnelTypes, TasksAgree, Held, LoopsAgree, Watching, Attended, Exiting, Up,
    Starting, Called
<1>2. CASE state' = "error" /\ UNCHANGED <<generation, starters>>
  BY Zenon, <1>2
  DEF TunnelTypes, States, TasksAgree, Held, LoopsAgree, Watching, Attended, Up, Called
<1>. DEFINE new == [at |-> "finding", of |-> generation + 1, system |-> FALSE, aborted |-> FALSE]
<1>3. ASSUME ~Outdated(g), generation' = generation + 1, state' = "starting",
             starters' = AbortedTasks(starters) \cup {new}
      PROVE  TunnelInv'
  <2>1. new \in Task /\ new.aborted = FALSE /\ new.of = generation' /\ new.at = "finding"
    BY <1>3 DEF TunnelTypes, Task, Waits
  <2>. HIDE DEF new
  <2>2. /\ AbortedTasks(starters) \subseteq Task
        /\ \A t \in AbortedTasks(starters) : t.aborted = TRUE /\ t.at \in Running
        /\ OwnedBy(starters) \subseteq OwnedBy(AbortedTasks(starters))
    BY Zenon, AbortedTaskFacts
  <2>a. state' \in States /\ generation' \in Nat /\ sleeping' \in SUBSET Nat
    BY <1>3 DEF TunnelTypes, States
  <2>3. TunnelTypes'
    BY Zenon, <1>3, <2>1, <2>2, <2>a DEF TunnelTypes
  <2>4. TasksAgree'
    BY Zenon, <1>3, <2>1, <2>2 DEF TasksAgree
  <2>5. Held'
    BY Zenon, <1>3, <2>2 DEF Held, OwnedBy
  <2>6. LoopsAgree' /\ Watching'
    BY Zenon DEF LoopsAgree, Watching
  <2>7. Attended'
    BY Zenon, <1>3, <2>1, <2>2 DEF Attended, Starting
  <2>8. Called'
    <3>1. \A s \in sleeping' : s <= generation' /\ s # generation'
      BY <1>3 DEF Called, TunnelTypes
    <3>. QED
      BY Zenon, <1>3, <3>1 DEF Called
  <2>. QED
    BY Zenon, <2>3, <2>4, <2>5, <2>6, <2>7, <2>8
<1>. QED
  BY Zenon, <1>1, <1>2, <1>3 DEF StartFromConfig, NothingToDo

\* A start task goes on to its next wait, with the processes that are held.
LEMMA TaskGoesOn ==
  ASSUME TunnelInv, NEW t \in starters, NEW u \in Task, starters' = (starters \ {t}) \cup {u},
         u.of = t.of, u.aborted = t.aborted, t.aborted => u.at \in Running, u.at # "placed",
         t.at \in Owning => u.at \in Owning,
         UNCHANGED <<state, generation, child, loops, sleeping, stopping, last, overtaken>>,
         processes' \subseteq processes \cup (IF u.at \in Owning THEN {t.of} ELSE {})
  PROVE  TunnelInv'
<1>. USE DEF TunnelInv
<1>1. TunnelTypes'
  BY Zenon DEF TunnelTypes, Task
<1>2. TasksAgree'
  BY Zenon DEF TasksAgree
<1>3. Held'
  <2>1. OwnedBy(starters) \subseteq OwnedBy(starters')
    BY Zenon DEF OwnedBy
  <2>2. u.at \in Owning => t.of \in OwnedBy(starters')
    BY Zenon DEF OwnedBy
  <2>. QED
    BY Zenon, <2>1, <2>2 DEF Held
<1>4. LoopsAgree' /\ Watching'
  BY Zenon DEF LoopsAgree, Watching
<1>5. Attended'
  BY Zenon DEF Attended, Up, Exiting, Starting
<1>6. Called'
  BY Zenon DEF Called
<1>. QED
  BY Zenon, <1>1, <1>2, <1>3, <1>4, <1>5, <1>6

\* A start task gives up: one that was not aborted says so, an aborted one leaves the state
\* to others; a process it owned is gone.
LEMMA TaskGivesUp ==
  ASSUME TunnelInv, NEW t \in starters, starters' = starters \ {t},
         UNCHANGED <<generation, child, loops, sleeping, stopping, last>>,
         \/ state' = "error"
         \/ t.aborted /\ UNCHANGED <<state, overtaken>>,
         processes' \subseteq processes, t.at \in Owning => t.of \notin processes'
  PROVE  TunnelInv'
<1>. USE DEF TunnelInv
<1>1. TunnelTypes'
  BY Zenon DEF TunnelTypes, States
<1>2. TasksAgree' /\ LoopsAgree' /\ Watching' /\ Called'
  BY Zenon DEF TasksAgree, LoopsAgree, Watching, Called
<1>3. Held'
  <2>1. ASSUME NEW p \in OwnedBy(starters), p \notin OwnedBy(starters') PROVE p \notin processes'
    BY Zenon, <2>1 DEF OwnedBy
  <2>. QED
    BY Zenon, <2>1 DEF Held
<1>4. Attended'
  BY Zenon DEF Attended, Up, Exiting, Starting
<1>. QED
  BY Zenon, <1>1, <1>2, <1>3, <1>4

\* start_inner up to the process it owns.
LEMMA FindingKeeps ==
  ASSUME TunnelInv, NEW t \in starters, NEW ok \in BOOLEAN,
         FindBinary(t, ok) \/ Download(t, ok) \/ Extracted(t) \/ Spawn(t, ok) \/ Recheck(t)
  PROVE  TunnelInv'
<1>1. /\ t \in Task /\ (t.aborted => t.at \in Running)
      /\ ~t.aborted => IsCurrent(t.of)
      /\ processes \in SUBSET (Nat \ {0})
  BY Zenon DEF TunnelInv, TunnelTypes, TasksAgree, IsCurrent
<1>2. UNCHANGED <<generation, child, loops, sleeping, stopping, last>>
  BY Zenon DEF FindBinary, Download, Extracted, Spawn, Recheck
<1>. DEFINE Stays == UNCHANGED <<state, overtaken>>
            GivesUp == starters' = starters \ {t}
<1>a. \A at \in Waits \cup Running :
        LET u == [t EXCEPT !.at = at]
        IN  u \in Task /\ u.of = t.of /\ u.aborted = t.aborted /\ u.at = at
  BY Zenon, <1>1 DEF Task
<1>b. /\ {"placing", "downloading", "extracting", "finding"} \subseteq Waits
      /\ Waits \cap Running = {} /\ Owning \subseteq Running /\ Waits \cap Owning = {}
      /\ "spawned" \in Owning /\ "owned" \in Owning /\ "placed" \notin Owning \cup Waits
  BY DEF Waits, Owning, Running
<1>c. t.at \in Waits => ~t.aborted /\ IsCurrent(t.of) /\ t.at \notin Owning
  BY Zenon, <1>1, <1>b
<1>3. CASE FindBinary(t, ok)
  <2>0. t.at = "finding" /\ Stays /\ processes' = processes
    BY Zenon, <1>3 DEF FindBinary
  <2>. DEFINE v == [t EXCEPT !.at = "placing", !.system = TRUE]
  <2>1. v \in Task /\ v.of = t.of /\ v.aborted = t.aborted /\ v.at = "placing"
    BY Zenon, <1>1 DEF Task, Waits
  <2>2. \E u \in Task : /\ starters' = (starters \ {t}) \cup {u}
                        /\ u.of = t.of /\ u.aborted = t.aborted
                        /\ u.at \in {"placing", "downloading"}
    BY Zenon, <1>3, <1>a, <1>b, <1>c, <2>0, <2>1 DEF FindBinary, Proceeds, TaskMoves
  <2>. QED
    BY Zenon, <1>2, <1>b, <1>c, <2>0, <2>2, TaskGoesOn
<1>4. CASE Download(t, ok)
  <2>0. t.at = "downloading" /\ processes' = processes
    BY Zenon, <1>4 DEF Download
  <2>1. CASE ok
    <3>1. /\ Stays
          /\ \E u \in Task : /\ starters' = (starters \ {t}) \cup {u}
                             /\ u.of = t.of /\ u.aborted = t.aborted /\ u.at = "extracting"
      BY Zenon, <1>4, <1>a, <1>b, <2>1 DEF Download, TaskMoves
    <3>. QED
      BY Zenon, <1>2, <1>b, <1>c, <2>0, <3>1, TaskGoesOn
  <2>2. CASE ~ok
    <3>1. GivesUp /\ state' = "error"
      BY Zenon, <1>4, <1>b, <1>c, <2>0, <2>2 DEF Download, Fails, TaskEnds, ErrorIfCurrent
    <3>. QED
      BY Zenon, <1>2, <1>b, <1>c, <2>0, <3>1, TaskGivesUp
  <2>. QED
    BY Zenon, <2>1, <2>2
<1>5. CASE Extracted(t)
  <2>0. t.at = "extracting" /\ processes' = processes
    BY Zenon, <1>5 DEF Extracted
  <2>1. CASE binary = "ready"
    <3>1. /\ Stays
          /\ \E u \in Task : /\ starters' = (starters \ {t}) \cup {u}
                             /\ u.of = t.of /\ u.aborted = t.aborted /\ u.at = "placing"
      BY Zenon, <1>5, <1>a, <1>b, <1>c, <2>0, <2>1 DEF Extracted, Proceeds, TaskMoves
    <3>. QED
      BY Zenon, <1>2, <1>b, <1>c, <2>0, <3>1, TaskGoesOn
  <2>2. CASE binary # "ready"
    <3>1. GivesUp /\ state' = "error"
      BY Zenon, <1>5, <1>b, <1>c, <2>0, <2>2 DEF Extracted, Fails, TaskEnds, ErrorIfCurrent
    <3>. QED
      BY Zenon, <1>2, <1>b, <1>c, <2>0, <3>1, TaskGivesUp
  <2>. QED
    BY Zenon, <2>1, <2>2
<1>6. CASE Spawn(t, ok)
  <2>0. t.at = "placing"
    BY Zenon, <1>6 DEF Spawn
  <2>1. CASE ok
    <3>1. /\ Stays /\ processes' = processes \cup {t.of}
          /\ \E u \in Task : /\ starters' = (starters \ {t}) \cup {u}
                             /\ u.of = t.of /\ u.aborted = t.aborted /\ u.at = "spawned"
      BY Zenon, <1>6, <1>a, <1>b, <1>c, <2>0, <2>1 DEF Spawn, TaskMoves
    <3>. QED
      BY Zenon, <1>2, <1>b, <1>c, <2>0, <3>1, TaskGoesOn
  <2>2. CASE ~ok
    <3>1. GivesUp /\ state' = "error" /\ processes' = processes
      BY Zenon, <1>6, <1>b, <1>c, <2>0, <2>2 DEF Spawn, TaskEnds, ErrorIfCurrent
    <3>. QED
      BY Zenon, <1>2, <1>b, <1>c, <2>0, <3>1, TaskGivesUp
  <2>. QED
    BY Zenon, <2>1, <2>2
<1>7. CASE Recheck(t)
  <2>0. t.at = "spawned" /\ Stays
    BY Zenon, <1>7 DEF Recheck
  <2>1. CASE IsCurrent(t.of)
    <3>1. /\ processes' = processes
          /\ \E u \in Task : /\ starters' = (starters \ {t}) \cup {u}
                             /\ u.of = t.of /\ u.aborted = t.aborted /\ u.at = "owned"
      BY Zenon, <1>7, <1>a, <1>b, <2>1 DEF Recheck, TaskMoves
    <3>. QED
      BY Zenon, <1>2, <1>b, <2>0, <3>1, TaskGoesOn
  <2>2. CASE ~IsCurrent(t.of)
    <3>1. GivesUp /\ t.aborted /\ processes' = processes \ {t.of}
      BY Zenon, <1>1, <1>7, <2>2 DEF Recheck, TaskEnds
    <3>. QED
      BY Zenon, <1>2, <2>0, <3>1, TaskGivesUp
  <2>. QED
    BY Zenon, <2>1, <2>2
<1>. QED
  BY Zenon, <1>3, <1>4, <1>5, <1>6, <1>7

\* An aborted task is dropped where it waits.
LEMMA DropKeeps ==
  ASSUME TunnelInv, NEW t \in starters, DropTask(t)
  PROVE  TunnelInv'
  BY Zenon, TaskGivesUp DEF DropTask, TaskEnds

\* The process is placed in the child slot, whose former process is killed.
LEMMA PlacingKeeps ==
  ASSUME TunnelInv, NEW t \in starters, PlaceChild(t)
  PROVE  TunnelInv'
<1>. DEFINE u == [t EXCEPT !.at = "placed"]
<1>1. /\ u \in Task /\ u.of = t.of /\ u.aborted = t.aborted /\ u.at = "placed"
      /\ t.of \in Nat \ {0} /\ u.at \in Running /\ u.at \notin Owning
  BY DEF TunnelInv, TunnelTypes, Task, Running, Owning
<1>2. /\ child' = t.of /\ processes' = processes \ {child}
      /\ starters' = (starters \ {t}) \cup {u}
      /\ UNCHANGED <<state, generation, loops, sleeping, stopping, last, overtaken>>
  BY Zenon DEF PlaceChild, KillsExisting, TaskMoves
<1>. HIDE DEF u
<1>3. TunnelTypes'
  BY Zenon, <1>1, <1>2 DEF TunnelInv, TunnelTypes
<1>4. TasksAgree'
  BY Zenon, <1>1, <1>2 DEF TunnelInv, TasksAgree
<1>5. Held'
  <2>1. OwnedBy(starters) \subseteq OwnedBy(starters') \cup {t.of}
    BY Zenon, <1>2 DEF OwnedBy
  <2>. QED
    BY Zenon, <1>2, <2>1 DEF TunnelInv, Held
<1>6. child' # NoProcess
  BY Zenon, <1>1, <1>2 DEF NoProcess
<1>7. LoopsAgree' /\ Watching'
  BY Zenon, <1>2, <1>6 DEF TunnelInv, LoopsAgree, Watching
<1>8. Attended'
  BY Zenon, <1>1, <1>2, <1>6 DEF TunnelInv, Attended, Up, Exiting, Starting
<1>9. Called'
  BY Zenon, <1>1, <1>2 DEF TunnelInv, Called
<1>. QED
  BY Zenon, <1>3, <1>4, <1>5, <1>7, <1>8, <1>9 DEF TunnelInv

\* abort() leaves the loops in the middle of a turn, marked.
LEMMA AbortedFacts ==
  ASSUME TunnelTypes
  PROVE  /\ Aborted(loops) \subseteq Loop
         /\ \A h \in Aborted(loops) : h.aborted = TRUE /\ h.at \in MidTurn
         /\ \A at \in MidTurn :
              (\E h \in loops : h.at = at) => \E h \in Aborted(loops) : h.at = at
<1>1. ASSUME NEW k \in loops
      PROVE  /\ [k EXCEPT !.aborted = TRUE] \in Loop
             /\ [k EXCEPT !.aborted = TRUE].at = k.at
                  /\ [k EXCEPT !.aborted = TRUE].aborted = TRUE
  BY Zenon DEF TunnelTypes, Loop
<1>2. ASSUME NEW at \in MidTurn, NEW k \in loops, k.at = at
      PROVE  \E h \in Aborted(loops) : h.at = at
  <2>1. [k EXCEPT !.aborted = TRUE] \in Aborted(loops)
    BY Zenon, <1>2 DEF Aborted
  <2>. QED
    BY Zenon, <1>1, <1>2, <2>1
<1>. QED
  BY Zenon, <1>1, <1>2 DEF Aborted

\* The health loop replaces the one before, which is aborted.
LEMMA WatchKeeps ==
  ASSUME TunnelInv, NEW t \in starters, StartHealthLoop(t)
  PROVE  TunnelInv'
<1>. DEFINE new == [of |-> t.of, at |-> "check", ready |-> FALSE, aborted |-> FALSE]
<1>1. t \in Task /\ t.at = "placed" /\ t.at \notin Owning
  BY DEF StartHealthLoop, TunnelInv, TunnelTypes, Owning
<1>2. /\ loops' = Aborted(loops) \cup {new} /\ starters' = starters \ {t}
      /\ UNCHANGED <<state, generation, child, processes, sleeping, stopping, last, overtaken>>
  BY Zenon DEF StartHealthLoop, TaskEnds
<1>3. new \in Loop /\ new.at = "check" /\ new.aborted = FALSE
  BY <1>1 DEF Loop, Task
<1>. HIDE DEF new
<1>4. /\ Aborted(loops) \subseteq Loop
      /\ \A h \in Aborted(loops) : h.aborted = TRUE /\ h.at \in MidTurn
      /\ \A at \in MidTurn :
              (\E h \in loops : h.at = at) => \E h \in Aborted(loops) : h.at = at
  BY Zenon, AbortedFacts DEF TunnelInv
<1>5. TunnelTypes'
  BY Zenon, <1>2, <1>3, <1>4 DEF TunnelInv, TunnelTypes
<1>6. TasksAgree'
  BY Zenon, <1>2 DEF TunnelInv, TasksAgree
<1>7. Held'
  BY Zenon, <1>1, <1>2 DEF TunnelInv, Held, OwnedBy
<1>8. LoopsAgree'
  BY Zenon, <1>2, <1>3, <1>4 DEF LoopsAgree
<1>9. Watching'
  BY Zenon, <1>2, <1>3, <1>4 DEF Watching
<1>10. Attended'
  <2>1. Exiting => Exiting'
    BY Zenon, <1>2, <1>4 DEF Exiting, MidTurn
  <2>2. new \in loops' /\ Up' = Up
    BY Zenon, <1>2 DEF Up
  <2>3. ASSUME NEW h \in loops, h.at # "check"
        PROVE  child # NoProcess \/ \E k \in loops' : k.at # "check"
    <3>1. h \in Loop
      BY Zenon DEF TunnelInv, TunnelTypes
    <3>2. CASE h.at \in MidTurn
      BY Zenon, <1>2, <1>4, <2>3, <3>2
    <3>3. CASE h.at = "probe"
      BY Zenon, <3>1, <3>3 DEF TunnelInv, LoopsAgree, Watching, MidTurn, Loop
    <3>. QED
      BY Zenon, <2>3, <3>1, <3>2, <3>3 DEF Loop, MidTurn
  <2>4. ASSUME Up, stopping = NoStop
        PROVE  Starting' \/ Exiting' \/ \E h \in loops' : h.at # "check" \/ child # NoProcess
    <3>1. CASE ~t.aborted
      BY Zenon, <1>1, <2>1, <2>2, <2>4, <3>1 DEF TunnelInv, Attended
    <3>2. CASE t.aborted
      <4>1. Starting => Starting'
        BY Zenon, <1>2, <3>2 DEF Starting
      <4>. QED
        BY Zenon, <2>1, <2>2, <2>3, <2>4, <4>1 DEF TunnelInv, Attended
    <3>. QED
      BY Zenon, <3>1, <3>2
  <2>. QED
    BY Zenon, <1>2, <2>1, <2>2, <2>4 DEF TunnelInv, Attended
<1>11. Called'
  BY Zenon, <1>2 DEF TunnelInv, Called
<1>. QED
  BY Zenon, <1>5, <1>6, <1>7, <1>8, <1>9, <1>10, <1>11 DEF TunnelInv

\* stop aborts the start task and waits for it.
LEMMA StopBeginKeeps ==
  ASSUME TunnelInv, StopBegin
  PROVE  TunnelInv'
<1>1. /\ generation' = generation + 1 /\ starters' = AbortedTasks(starters)
      /\ stopping = NoStop /\ stopping' = Awaits /\ last' = "stop"
      /\ UNCHANGED <<state, child, processes, loops, sleeping, overtaken>>
  BY Zenon DEF StopBegin
<1>2. /\ AbortedTasks(starters) \subseteq Task
      /\ \A t \in AbortedTasks(starters) : t.aborted = TRUE /\ t.at \in Running
      /\ OwnedBy(starters) \subseteq OwnedBy(AbortedTasks(starters))
  BY Zenon, AbortedTaskFacts DEF TunnelInv
<1>3. generation' \in Nat /\ Awaits # NoStop /\ NoStop \notin processes
  BY <1>1 DEF TunnelInv, TunnelTypes, Awaits, NoStop
<1>4. TunnelTypes'
  BY Zenon, <1>1, <1>2, <1>3 DEF TunnelInv, TunnelTypes
<1>5. TasksAgree'
  BY Zenon, <1>1, <1>2 DEF TasksAgree
<1>6. Held'
  BY Zenon, <1>1, <1>2, <1>3 DEF TunnelInv, Held
<1>7. LoopsAgree' /\ Watching'
  BY Zenon, <1>1 DEF TunnelInv, LoopsAgree, Watching
<1>8. Attended'
  BY Zenon, <1>1, <1>2, <1>3 DEF Attended
<1>9. Called'
  <2>1. \A g \in sleeping : g <= generation' /\ g # generation'
    BY <1>1 DEF TunnelInv, TunnelTypes, Called
  <2>. QED
    BY Zenon, <1>1, <1>2, <2>1 DEF Called
<1>. QED
  BY Zenon, <1>4, <1>5, <1>6, <1>7, <1>8, <1>9 DEF TunnelInv

\* The start task has ended: stop aborts the health loop and takes the child.
LEMMA StopTakesKeeps ==
  ASSUME TunnelInv, StopTakes
  PROVE  TunnelInv'
<1>1. /\ stopping = Awaits /\ loops' = Aborted(loops) /\ stopping' = child /\ child' = NoProcess
      /\ UNCHANGED <<state, generation, processes, starters, sleeping, last, overtaken>>
  BY Zenon DEF StopTakes
<1>2. /\ Aborted(loops) \subseteq Loop
      /\ \A h \in Aborted(loops) : h.aborted = TRUE /\ h.at \in MidTurn
  BY Zenon, AbortedFacts DEF TunnelInv
<1>3. child' \in Nat /\ Awaits # NoStop /\ Awaits \notin processes /\ child # NoStop
  BY <1>1 DEF TunnelInv, TunnelTypes, Awaits, NoStop, NoProcess
<1>4. \A t \in starters : t.aborted
  BY Zenon, <1>1, <1>3 DEF TunnelInv, TasksAgree
<1>5. TunnelTypes'
  BY Zenon, <1>1, <1>2, <1>3 DEF TunnelInv, TunnelTypes
<1>6. TasksAgree'
  BY Zenon, <1>1, <1>4 DEF TunnelInv, TasksAgree
<1>7. Held'
  BY Zenon, <1>1, <1>3 DEF TunnelInv, Held
<1>8. LoopsAgree' /\ Watching'
  BY Zenon, <1>1, <1>2 DEF LoopsAgree, Watching
<1>9. Attended'
  BY Zenon, <1>1, <1>3, <1>4 DEF Attended
<1>10. Called'
  BY Zenon, <1>1 DEF TunnelInv, Called
<1>. QED
  BY Zenon, <1>5, <1>6, <1>7, <1>8, <1>9, <1>10 DEF TunnelInv

\* stop ends the process it took.
LEMMA StopEndKeeps ==
  ASSUME TunnelInv, StopEnd
  PROVE  TunnelInv'
<1>1. /\ stopping # NoStop /\ processes' = processes \ {stopping} /\ state' = "stopped"
      /\ stopping' = NoStop
      /\ UNCHANGED <<generation, child, starters, loops, sleeping, last>>
  BY Zenon DEF StopEnd
<1>2. TunnelTypes'
  BY Zenon, <1>1 DEF TunnelInv, TunnelTypes, States
<1>3. TasksAgree' /\ LoopsAgree' /\ Watching' /\ Called'
  BY Zenon, <1>1 DEF TunnelInv, TasksAgree, LoopsAgree, Watching, Called
<1>4. Held' /\ Attended'
  BY Zenon, <1>1 DEF TunnelInv, Held, Attended, Up
<1>. QED
  BY Zenon, <1>2, <1>3, <1>4 DEF TunnelInv

\* A loop looks at the child.
LEMMA CheckKeeps ==
  ASSUME TunnelInv, NEW h \in loops, CheckChild(h)
  PROVE  TunnelInv'
<1>1. /\ h \in Loop /\ h.at = "check" /\ h.aborted = FALSE
      /\ UNCHANGED <<state, generation, processes, starters, sleeping, stopping, last,
           overtaken>>
  BY Zenon DEF CheckChild, TunnelInv, TunnelTypes, LoopsAgree, Loop, MidTurn
<1>2. \A k \in loops : k # h => k.aborted = TRUE /\ k.at \in MidTurn
  BY Zenon, <1>1 DEF TunnelInv, TunnelTypes, LoopsAgree, Loop
<1>a. TasksAgree'
  BY Zenon, <1>1 DEF TunnelInv, TasksAgree
<1>3. CASE child = NoProcess
  <2>1. loops' = loops \ {h} /\ child' = child
    BY Zenon, <1>3 DEF CheckChild, Ends
  <2>2. TunnelTypes' /\ Held' /\ LoopsAgree' /\ Watching' /\ Called'
    BY Zenon, <1>1, <2>1 DEF TunnelInv, TunnelTypes, Held, LoopsAgree, Watching, Called
  <2>3. Exiting => Exiting'
    BY Zenon, <1>1, <2>1 DEF Exiting
  <2>4. (\E k \in loops : k.at # "check") => \E k \in loops' : k.at # "check"
    BY Zenon, <1>1, <2>1
  <2>5. Attended'
    BY Zenon, <1>1, <1>3, <2>1, <2>3, <2>4 DEF TunnelInv, Attended, Up, Starting
  <2>. QED
    BY Zenon, <1>a, <2>2, <2>5 DEF TunnelInv
<1>4. CASE child # NoProcess
  <2>. DEFINE at == IF child \in processes THEN "probe" ELSE "exited"
              k == [h EXCEPT !.at = at]
  <2>1. /\ loops' = (loops \ {h}) \cup {k}
        /\ child \in processes => child' = child
        /\ child \notin processes => child' = NoProcess
    BY Zenon, <1>4 DEF CheckChild, Moves
  <2>2. k \in Loop /\ k.at = at /\ k.aborted = FALSE
    BY Zenon, <1>1 DEF Loop
  <2>. HIDE DEF k
  <2>3. TunnelTypes'
    BY <1>1, <2>1, <2>2 DEF TunnelInv, TunnelTypes, NoProcess
  <2>4. Held'
    BY Zenon, <1>1, <2>1 DEF TunnelInv, Held
  <2>5. LoopsAgree'
    BY Zenon, <1>2, <2>1, <2>2 DEF LoopsAgree, MidTurn
  <2>6. Watching'
    BY Zenon, <1>2, <1>4, <2>1, <2>2 DEF Watching
  <2>7. \E l \in loops' : l.at # "check"
    BY Zenon, <2>1, <2>2
  <2>8. child' # NoProcess \/ Exiting'
    BY Zenon, <1>4, <2>1, <2>2 DEF Exiting
  <2>9. Attended'
    BY Zenon, <2>7, <2>8 DEF Attended
  <2>10. Called'
    BY Zenon, <1>1, <2>1, <2>2 DEF TunnelInv, Called
  <2>. QED
    BY Zenon, <1>a, <2>3, <2>4, <2>5, <2>6, <2>9, <2>10 DEF TunnelInv
<1>. QED
  BY Zenon, <1>3, <1>4

\* An exit is noted: a restart sleeps for the generation there is now.
LEMMA NotingKeeps ==
  ASSUME TunnelInv, NEW h \in loops, NotesExit(h)
  PROVE  TunnelInv'
<1>1. /\ h.at = "exited" /\ state' = "error" /\ loops' = loops \ {h}
      /\ sleeping' \subseteq sleeping \cup {generation} /\ last' # "stop"
      /\ UNCHANGED <<generation, child, processes, starters, stopping>>
  BY Zenon DEF NotesExit, Ends, ToldExit
<1>2. TunnelTypes'
  BY Zenon, <1>1 DEF TunnelInv, TunnelTypes, States
<1>3. TasksAgree' /\ Held' /\ LoopsAgree' /\ Watching'
  BY Zenon, <1>1 DEF TunnelInv, TasksAgree, Held, LoopsAgree, Watching
<1>4. Attended'
  BY Zenon, <1>1 DEF Attended, Up
<1>5. Called'
  <2>1. generation <= generation
    BY DEF TunnelInv, TunnelTypes
  <2>. QED
    BY Zenon, <1>1, <2>1 DEF TunnelInv, Called
<1>. QED
  BY Zenon, <1>2, <1>3, <1>4, <1>5 DEF TunnelInv

\* A loop probes the child.
LEMMA ProbeKeeps ==
  ASSUME TunnelInv, NEW h \in loops, NEW ready \in BOOLEAN, Probe(h, ready)
  PROVE  TunnelInv'
<1>. DEFINE k == [h EXCEPT !.at = "acting", !.ready = ready]
<1>1. /\ h.at = "probe" /\ loops' = (loops \ {h}) \cup {k} /\ h \in Loop /\ h.aborted = FALSE
      /\ UNCHANGED <<state, generation, child, processes, starters, sleeping, stopping, last,
                     overtaken>>
  BY Zenon DEF Probe, TunnelInv, TunnelTypes, LoopsAgree, Loop, MidTurn
<1>2. k \in Loop /\ k.at = "acting" /\ k.aborted = FALSE
  BY Zenon, <1>1 DEF Loop
<1>. HIDE DEF k
<1>3. \A l \in loops : l # h => l.aborted = TRUE
  BY Zenon, <1>1 DEF TunnelInv, TunnelTypes, LoopsAgree, Loop
<1>4. child # NoProcess
  BY Zenon, <1>1 DEF TunnelInv, Watching
<1>5. TunnelTypes' /\ TasksAgree' /\ Held'
  BY Zenon, <1>1, <1>2 DEF TunnelInv, TunnelTypes, TasksAgree, Held
<1>6. LoopsAgree' /\ Watching'
  BY Zenon, <1>1, <1>2, <1>3, <1>4 DEF TunnelInv, LoopsAgree, Watching, MidTurn
<1>7. Attended'
  BY Zenon, <1>1, <1>2, <1>4 DEF Attended
<1>8. Called'
  BY Zenon, <1>1, <1>2 DEF TunnelInv, Called
<1>. QED
  BY Zenon, <1>5, <1>6, <1>7, <1>8 DEF TunnelInv

\* A loop acts on the answer; an aborted one overtakes the stop.
LEMMA ActingKeeps ==
  ASSUME TunnelInv, NEW h \in loops, ActOnProbe(h)
  PROVE  TunnelInv'
<1>1. /\ h.at = "acting" /\ state' \in {"connected", "starting"} /\ h \in Loop
      /\ overtaken' = h.aborted
      /\ UNCHANGED <<generation, child, processes, starters, sleeping, stopping, last>>
  BY Zenon DEF ActOnProbe, TunnelInv, TunnelTypes
<1>a. TasksAgree' /\ Held'
  BY Zenon, <1>1 DEF TunnelInv, TasksAgree, Held
<1>2. CASE h.aborted
  <2>1. loops' = loops \ {h} /\ overtaken' = TRUE
    BY Zenon, <1>1, <1>2 DEF ActOnProbe, Ends
  <2>2. TunnelTypes'
    BY Zenon, <1>1, <2>1 DEF TunnelInv, TunnelTypes, States
  <2>3. LoopsAgree' /\ Watching' /\ Attended' /\ Called'
    BY Zenon, <1>1, <2>1 DEF TunnelInv, LoopsAgree, Watching, Attended, Up, Called
  <2>. QED
    BY Zenon, <1>a, <2>2, <2>3 DEF TunnelInv
<1>3. CASE ~h.aborted
  <2>. DEFINE k == [h EXCEPT !.at = "check"]
  <2>1. loops' = (loops \ {h}) \cup {k} /\ h.aborted = FALSE
    BY Zenon, <1>1, <1>3 DEF ActOnProbe, Moves, Loop
  <2>2. k \in Loop /\ k.at = "check" /\ k.aborted = FALSE
    BY Zenon, <1>1, <2>1 DEF Loop
  <2>. HIDE DEF k
  <2>3. TunnelTypes'
    BY Zenon, <1>1, <2>1, <2>2 DEF TunnelInv, TunnelTypes, States
  <2>4. \A l \in loops : l # h => l.aborted = TRUE
    BY Zenon, <1>1, <2>1 DEF TunnelInv, TunnelTypes, LoopsAgree, Loop
  <2>5. child # NoProcess
    BY Zenon, <1>1, <2>1 DEF TunnelInv, Watching
  <2>6. LoopsAgree' /\ Watching'
    BY Zenon, <1>1, <2>1, <2>2, <2>4, <2>5 DEF TunnelInv, LoopsAgree, Watching
  <2>7. Attended'
    BY Zenon, <1>1, <2>1, <2>2, <2>5 DEF Attended
  <2>8. Called'
    BY Zenon, <1>1, <2>1, <2>2 DEF TunnelInv, Called
  <2>. QED
    BY Zenon, <1>a, <2>3, <2>6, <2>7, <2>8 DEF TunnelInv
<1>. QED
  BY Zenon, <1>2, <1>3

\* Every step keeps the invariant.
LEMMA TunnelStep == TunnelInv /\ [TunnelNext]_tunnelVars => TunnelInv'
<1>. SUFFICES ASSUME TunnelInv, [TunnelNext]_tunnelVars PROVE TunnelInv'
  BY Zenon
<1>1. CASE Start
  <2>1. "start" # "stop"
    OBVIOUS
  <2>. QED
    BY Zenon, <1>1, <2>1, LaunchKeeps DEF Start
<1>2. ASSUME NEW g \in sleeping, WakeRestart(g) PROVE TunnelInv'
  <2>1. ~Outdated(g) => last # "stop"
    BY <1>2 DEF Outdated, NoGeneration, TunnelInv, TunnelTypes, Called
  <2>. QED
    BY Zenon, <1>2, <2>1, LaunchKeeps DEF WakeRestart
<1>3. ASSUME NEW g, StartTask(g) PROVE TunnelInv'
  BY Zenon, <1>3, FindingKeeps, PlacingKeeps, WatchKeeps, DropKeeps DEF StartTask
<1>4. CASE StopBegin \/ StopTakes \/ StopEnd
  BY Zenon, <1>4, StopBeginKeeps, StopTakesKeeps, StopEndKeeps
<1>5. ASSUME NEW g, HealthLoop(g) PROVE TunnelInv'
  BY Zenon, <1>5, CheckKeeps, NotingKeeps, ProbeKeeps, ActingKeeps DEF HealthLoop
<1>6. ASSUME NEW p \in processes, Exit(p) PROVE TunnelInv'
  BY Zenon, <1>6
  DEF Exit, TunnelInv, TunnelTypes, TasksAgree, Held, LoopsAgree, Watching,
              Attended, Exiting, Up, Starting, Called
<1>7. ASSUME UNCHANGED <<state, generation, child, processes, starters, loops, sleeping, stopping,
                         last, overtaken>>
      PROVE  TunnelInv'
  BY Zenon, <1>7 DEF TunnelInv, TunnelTypes, TasksAgree, Held, LoopsAgree, Watching,
              Attended, Exiting, Up, Starting, Called
<1>8. (\E ok \in BOOLEAN : WriteBinary(ok)) \/ (\E c \in Configs : Configure(c))
        \/ UNCHANGED tunnelVars => TunnelInv'
  BY Zenon, <1>7 DEF WriteBinary, Configure, tunnelVars
<1>. QED
  BY Zenon, <1>1, <1>2, <1>3, <1>4, <1>5, <1>6, <1>8 DEF TunnelNext

\* The invariant gives what the health of the tunnel rests on.
LEMMA TunnelInvGives == TunnelInv => NoStrayProcess /\ SomebodyAtWork /\ StoppedStaysStopped
<1>. SUFFICES ASSUME TunnelInv PROVE NoStrayProcess /\ SomebodyAtWork /\ StoppedStaysStopped
  BY Zenon
<1>1. NoStrayProcess
  BY Zenon DEF TunnelInv, Held, OwnedBy, NoStrayProcess
<1>2. SomebodyAtWork
  BY Zenon DEF TunnelInv, Attended, Up, Exiting, Starting, SomebodyAtWork
<1>3. StoppedStaysStopped
  BY Zenon DEF TunnelInv, Called, StoppedStaysStopped
<1>. QED
  BY Zenon, <1>1, <1>2, <1>3

\* No cloudflared process runs outside the child slot, a start task that spawned it and the
\* stop that ends it, however many starts and stops there are (tunnel.rs start_inner, stop).
THEOREM TunnelProcessesHeld == TunnelSpec => []NoStrayProcess
  BY TunnelStarts, TunnelStep, TunnelInvGives, PTL DEF TunnelSpec

\* A tunnel that says it is starting or connected has somebody at work on it, unless an
\* aborted loop was the last to set the state (tunnel.rs start_from_config, run_health_loop).
THEOREM TunnelAttended == TunnelSpec => []SomebodyAtWork
  BY TunnelStarts, TunnelStep, TunnelInvGives, PTL DEF TunnelSpec

\* After stop has begun no start task is at work that was not aborted, until start is called
\* or a health loop notes an exit: no restart that sleeps through a stop starts anything
\* (tunnel.rs start_from_config, schedule_restart).
THEOREM TunnelStaysStopped == TunnelSpec => []StoppedStaysStopped
  BY TunnelStarts, TunnelStep, TunnelInvGives, PTL DEF TunnelSpec
=============================================================================
