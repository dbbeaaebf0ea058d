------------------------- MODULE PullExchange_proof -------------------------
(***************************************************************************)
(* Theorems for PullExchange: with one peer whose log is quiet while a     *)
(* page is built, no cursor, claim, cut, reset or failure loses an         *)
(* operation, for any number of origins, keys, pages and failures.         *)
(* The invariant comes first, with what the steps around a drain and the   *)
(* building of a page do to it.                                            *)
(***************************************************************************)
EXTENDS PullExchange, FiniteSetTheorems, WellFoundedInduction, TLAPS

(***************************************************************************)
(* Least and greatest elements.                                            *)
(***************************************************************************)

\* A set of naturals has a least element.
LEMMA MinOfNats ==
  ASSUME NEW S \in SUBSET Nat, S # {}
  PROVE  Min(S) \in S /\ \A y \in S : Min(S) <= y
<1>1. PICK x \in S : \A y \in S : ~(<<y, x>> \in OpToRel(<, Nat))
  BY Zenon, NatLessThanWellFounded, WFMin
<1>2. \A y \in S : y \in Nat /\ x \in Nat
  BY Zenon, <1>1
<1>3. \A y \in S : ~(y < x)
  BY Zenon, <1>1, <1>2 DEF OpToRel
<1>4. \A y \in S : x <= y
  BY <1>2, <1>3
<1>. QED  BY Zenon, <1>4 DEF Min

\* A bounded set of naturals has a greatest element.
LEMMA MaxOfNats ==
  ASSUME NEW n \in Nat, NEW S \in SUBSET (0 .. n), S # {}
  PROVE  Max(S) \in S /\ \A y \in S : y <= Max(S)
<1>. DEFINE T == {n - k : k \in S}
<1>0. \A k \in S : k \in 0 .. n
  BY Zenon
<1>1. T \in SUBSET Nat /\ T # {}
  <2>1. \A k \in S : n - k \in Nat
    BY <1>0
  <2>. QED  BY Zenon, <2>1
<1>2. PICK m \in T : \A t \in T : m <= t
  BY Zenon, <1>1, MinOfNats
<1>3. PICK x \in S : m = n - x
  BY Zenon, <1>2
<1>4. \A y \in S : x >= y
  BY <1>0, <1>2, <1>3
<1>. QED  BY Zenon, <1>4 DEF Max

\* What the n least elements of a set of bounded naturals are.
LEMMA LeastFacts ==
  ASSUME NEW N \in Nat, NEW S \in SUBSET (0 .. N), NEW n \in Int
  PROVE  /\ IsFiniteSet(S) /\ Cardinality(S) \in Nat
         /\ Least(S, n) \subseteq S
         /\ IsFiniteSet(Least(S, n)) /\ Cardinality(Least(S, n)) \in Nat
         /\ \A x \in S : \A y \in Least(S, n) : x <= y => x \in Least(S, n)
         /\ Cardinality(S) < n => Least(S, n) = S
         /\ n > 0 /\ S # {} => Least(S, n) # {}
         /\ n >= 0 => Cardinality(Least(S, n)) <= n
<1>. DEFINE below(k) == {j \in S : j < k}
            L == Least(S, n)
<1>0. \A k \in S : k \in Nat
  OBVIOUS
<1>1. IsFiniteSet(S) /\ Cardinality(S) \in Nat
  <2>1. IsFiniteSet(0 .. N)
    BY FS_Interval, 0 \in Int, N \in Int
  <2>2. IsFiniteSet(S)
    BY Zenon, <2>1, FS_Subset
  <2>. QED  BY Zenon, <2>2, FS_CardinalityType
<1>2. \A T \in SUBSET S : IsFiniteSet(T) /\ Cardinality(T) \in Nat
                          /\ Cardinality(T) <= Cardinality(S)
  BY Zenon, <1>1, FS_Subset, FS_CardinalityType
<1>3. L \subseteq S
  BY Zenon DEF Least
<1>4. ASSUME NEW x \in S, NEW y \in L, x <= y
      PROVE  x \in L
  <2>1. y \in S /\ Cardinality(below(y)) < n
    BY Zenon DEF Least
  <2>2. below(x) \in SUBSET below(y)
    <3>1. \A j \in S : j < x => j < y
      BY <1>0, <1>4, <2>1
    <3>. QED  BY Zenon, <3>1
  <2>3. Cardinality(below(x)) <= Cardinality(below(y))
    BY Zenon, <1>2, <2>2, FS_Subset
  <2>4. Cardinality(below(x)) < n
    BY <1>2, <2>1, <2>3
  <2>. QED  BY Zenon, <2>4 DEF Least
<1>5. ASSUME Cardinality(S) < n
      PROVE  L = S
  <2>1. ASSUME NEW x \in S PROVE Cardinality(below(x)) < n
    BY <1>1, <1>2, <1>5
  <2>. QED  BY Zenon, <2>1 DEF Least
<1>6. ASSUME n > 0, S # {}
      PROVE  L # {}
  <2>0. S \in SUBSET Nat
    BY Zenon, <1>0
  <2>1. PICK m \in S : \A y \in S : m <= y
    BY Zenon, <1>6, <2>0, MinOfNats
  <2>2. below(m) = {}
    <3>1. \A j \in S : ~(j < m)
      BY <1>0, <2>1
    <3>. QED  BY Zenon, <3>1
  <2>3. Cardinality(below(m)) < n
    BY Zenon, <1>6, <2>2, FS_EmptySet
  <2>. QED  BY Zenon, <2>1, <2>3 DEF Least
<1>7. ASSUME n >= 0
      PROVE  Cardinality(L) <= n
  <2>1. CASE L = {}
    BY Zenon, <1>7, <2>1, FS_EmptySet
  <2>2. CASE L # {}
    <3>1. PICK m \in L : \A y \in L : y <= m
      BY Zenon, <1>3, <2>2, MaxOfNats
    <3>2. m \in S /\ Cardinality(below(m)) < n
      BY Zenon, <3>1 DEF Least
    <3>3. L \subseteq below(m) \cup {m}
      <4>0. \A y \in L : y \in S /\ y \in Nat /\ m \in Nat
        BY Zenon, <1>0, <1>3
      <4>1. \A y \in L : y \in S /\ (y < m \/ y = m)
        BY <4>0, <3>1
      <4>. QED  BY Zenon, <4>1
    <3>4. below(m) \in SUBSET S /\ m \notin below(m)
      <4>1. ~(m < m)
        BY <1>0, <3>2
      <4>. QED  BY Zenon, <4>1
    <3>5. /\ IsFiniteSet(below(m) \cup {m})
          /\ Cardinality(below(m) \cup {m}) = Cardinality(below(m)) + 1
      BY Zenon, <1>2, <3>4, FS_AddElement
    <3>6. Cardinality(L) <= Cardinality(below(m) \cup {m})
      BY Zenon, <3>3, <3>5, FS_Subset
    <3>. QED  BY <1>2, <1>3, <3>2, <3>4, <3>5, <3>6
  <2>. QED  BY Zenon, <2>1, <2>2
<1>. HIDE DEF L
<1>. QED  BY Zenon, <1>1, <1>2, <1>3, <1>4, <1>5, <1>6, <1>7 DEF L

(***************************************************************************)
(* Types.                                                                  *)
(***************************************************************************)

ServerType == arr \in [Peers -> Seq(Op)] /\ epoch \in [Peers -> 1 .. MaxEpoch]

PullerType ==
  /\ held \subseteq Op
  /\ known \subseteq Origins
  /\ claims \in Claims
  /\ cursors \in [Peers -> Cursor]

DrainType ==
  /\ pc \in [Peers -> {"idle", "ask", "keyed", "reply", "commit", "runs", "done"}]
  /\ audit \in [Peers -> BOOLEAN]
  /\ resume \in [Peers -> Resume]
  /\ asked \in [Peers -> Claims]
  /\ left \in [Peers -> SUBSET Origins]
  /\ page \in [Peers -> Page]
  /\ resetSeen \in [Peers -> BOOLEAN]
  /\ progress \in [Peers -> Nat \X Resume]
  /\ stalled \in [Peers -> Nat]

\* The initial values have their types.
LEMMA InitialValues ==
  ASSUME NEW p \in Peers
  PROVE  /\ AnOrigin \in Origins /\ NoResume \in Resume /\ NoClaims \in Claims
         /\ NoPage \in Page /\ <<0, NoResume>> \in Nat \X Resume
<1>1. AnOrigin \in Origins
  BY Zenon, PullAssumption DEF AnOrigin
<1>2. MaxKey \in Nat /\ MaxEpoch \in Nat /\ Limit \in Nat
  BY Zenon, PullAssumption
<1>3. NoResume \in Resume
  BY <1>1, <1>2 DEF NoResume, Resume
<1>4. NoClaims \in Claims
  BY <1>2 DEF NoClaims, Claims
<1>5. <<>> \in Seq(Run)
  OBVIOUS
<1>6. NoPage \in Page
  BY <1>2, <1>3, <1>5 DEF NoPage, Page
<1>. QED  BY Zenon, <1>1, <1>3, <1>4, <1>6

\* The parts of a state of the right type.
LEMMA Parts ==
  ASSUME TypeOK, NEW p \in Peers
  PROVE  /\ arr[p] \in Seq(Op) /\ Len(arr[p]) \in Nat
         /\ \A i \in 1 .. Len(arr[p]) :
              /\ arr[p][i] \in Op /\ arr[p][i].origin \in Origins
              /\ arr[p][i].key \in 1 .. MaxKey /\ arr[p][i].key \in Nat
         /\ \A o \in Origins : claims[o] \in 0 .. MaxKey /\ claims[o] \in Nat
         /\ \A o \in Origins : asked[p][o] \in 0 .. MaxKey /\ asked[p][o] \in Nat
         /\ cursors[p] \in Cursor /\ cursors[p].after \in Nat
         /\ resume[p] \in Resume /\ resume[p].seq \in Nat
         /\ resume[p].key \in 0 .. MaxKey /\ resume[p].key \in Nat
         /\ resume[p].origin \in Origins
         /\ page[p] \in Page
<1>1. MaxKey \in Nat
  BY Zenon, PullAssumption
<1>2. arr[p] \in Seq(Op) /\ Len(arr[p]) \in Nat
  BY DEF TypeOK
<1>3. \A i \in 1 .. Len(arr[p]) : arr[p][i] \in Op
  BY <1>2
<1>4. \A x \in Op : x.origin \in Origins /\ x.key \in 1 .. MaxKey /\ x.key \in Nat
  BY <1>1 DEF Op
<1>5. \A o \in Origins : claims[o] \in 0 .. MaxKey /\ claims[o] \in Nat
  BY <1>1 DEF TypeOK, Claims
<1>6. \A o \in Origins : asked[p][o] \in 0 .. MaxKey /\ asked[p][o] \in Nat
  BY <1>1 DEF TypeOK, Claims
<1>7. cursors[p] \in Cursor /\ cursors[p].after \in Nat
  BY Zenon DEF TypeOK, Cursor
<1>8. resume[p] \in Resume /\ page[p] \in Page
  BY Zenon DEF TypeOK
<1>9. \A t \in Resume : /\ t.seq \in Nat /\ t.key \in 0 .. MaxKey /\ t.key \in Nat
                        /\ t.origin \in Origins
  BY <1>1 DEF Resume
<1>. QED  BY Zenon, <1>2, <1>3, <1>4, <1>5, <1>6, <1>7, <1>8, <1>9

\* The parts of a page.
LEMMA PageParts ==
  ASSUME NEW g \in Page
  PROVE  /\ g.runs \in Seq(Run) /\ Len(g.runs) \in Nat
         /\ \A j \in 1 .. Len(g.runs) : g.runs[j] \in Run
         /\ g.next \in Nat /\ g.head \in Nat /\ g.size \in 0 .. Limit
         /\ g.size \in Nat /\ g.resume \in Resume /\ g.backfill \subseteq Nat
         /\ g.epoch \in 0 .. MaxEpoch /\ g.reset \in BOOLEAN
         /\ g.resume.seq \in Nat /\ g.resume.key \in Nat
         /\ g.resume.origin \in Origins
<1>1. Limit \in Nat /\ MaxKey \in Nat
  BY Zenon, PullAssumption
<1>2. g.runs \in Seq(Run) /\ g.next \in Nat /\ g.head \in Nat /\ g.size \in 0 .. Limit
      /\ g.resume \in Resume /\ g.backfill \subseteq Nat /\ g.epoch \in 0 .. MaxEpoch
      /\ g.reset \in BOOLEAN
  BY Zenon DEF Page
<1>3. \A t \in Resume : t.seq \in Nat /\ t.key \in Nat /\ t.origin \in Origins
  BY <1>1 DEF Resume
<1>4. Len(g.runs) \in Nat /\ \A j \in 1 .. Len(g.runs) : g.runs[j] \in Run
  BY <1>2
<1>. QED  BY <1>1, <1>2, <1>3, <1>4

\* A drain that is over has only initial values.
LEMMA EndDrainEffect ==
  ASSUME DrainType, NEW p \in Peers, NEW at \in {"idle", "done"}, EndDrain(p, at)
  PROVE  DrainType' /\ pc'[p] = at /\ resume'[p] = NoResume /\ page'[p] = NoPage
<1>1. /\ pc' \in [Peers -> {"idle", "ask", "keyed", "reply", "commit", "runs", "done"}]
      /\ pc'[p] = at
  BY Zenon DEF DrainType, EndDrain
<1>2. resume' \in [Peers -> Resume] /\ resume'[p] = NoResume
  BY Zenon, InitialValues DEF DrainType, EndDrain
<1>3. asked' \in [Peers -> Claims] /\ left' \in [Peers -> SUBSET Origins]
  BY Zenon, InitialValues DEF DrainType, EndDrain
<1>4. page' \in [Peers -> Page] /\ page'[p] = NoPage
  BY Zenon, InitialValues DEF DrainType, EndDrain
<1>5. /\ resetSeen' \in [Peers -> BOOLEAN] /\ stalled' \in [Peers -> Nat]
      /\ audit' \in [Peers -> BOOLEAN]
  BY Zenon DEF DrainType, EndDrain
<1>6. progress' \in [Peers -> Nat \X Resume]
  BY Zenon, InitialValues DEF DrainType, EndDrain
<1>. QED  BY Zenon, <1>1, <1>2, <1>3, <1>4, <1>5, <1>6 DEF DrainType

(***************************************************************************)
(* The inductive invariant.                                                *)
(***************************************************************************)

\* What a cursor may pass: an operation that is held, or above its claim.
Kept(x) == x \in held \/ x.key > claims[x.origin]

InRuns(p, x) ==
  \E j \in 1 .. Len(page[p].runs) :
    page[p].runs[j].origin = x.origin /\ x.key \in page[p].runs[j].keys

\* The cursor and the token of the next request.
Behind(p) ==
  /\ cursors[p].after <= Len(arr[p])
  /\ \A i \in 1 .. cursors[p].after : Kept(arr[p][i])
  /\ resume[p].phase = "keyed" => resume[p].key <= claims[resume[p].origin]
  /\ resume[p].phase = "backfill" => resume[p].seq <= cursors[p].after
  /\ pc[p] = "done" => \A i \in 1 .. cursors[p].after : arr[p][i] \in held

OnPage(p) == pc[p] \in {"keyed", "reply", "commit", "runs"} /\ ~page[p].reset

\* A run has every operation above the claim up to its end.
RunFits(p, run) ==
  /\ run.keys # {}
  /\ \A i \in 1 .. page[p].head : \A k \in run.keys :
       /\ arr[p][i].origin = run.origin
       /\ arr[p][i].key > claims[run.origin]
       /\ arr[p][i].key <= k
       => arr[p][i].key \in run.keys

\* Any page in flight.
PageFits(p) ==
  OnPage(p) =>
    /\ cursors[p].after <= page[p].head /\ page[p].head <= Len(arr[p])
    /\ \A o \in Origins : asked[p][o] <= claims[o]
    /\ \A j \in 1 .. Len(page[p].runs) : RunFits(p, page[p].runs[j])
    /\ page[p].resume.phase = "keyed" =>
         \/ page[p].resume.key <= claims[page[p].resume.origin]
         \/ InRuns(p, page[p].resume)

\* A page being built: what a fresh exchange has not served is left, covered, or
\* in a run.
Building(p) ==
  pc[p] = "keyed" =>
    /\ ~page[p].reset /\ page[p].head = Len(arr[p]) /\ asked[p] = claims
    /\ page[p].size < Limit /\ page[p].size < ByteBudget
    /\ page[p].resume = NoResume /\ page[p].backfill = {}
    /\ resume[p].phase = "none" =>
         \A i \in 1 .. page[p].head :
           \/ arr[p][i].origin \in left[p]
           \/ arr[p][i].key <= asked[p][arr[p][i].origin]
           \/ InRuns(p, arr[p][i])

\* A complete page of a fresh exchange leaves out only what was covered.
Complete(p) ==
  /\ OnPage(p) /\ pc[p] # "keyed"
  /\ resume[p].phase = "none" /\ page[p].resume.phase = "none"
  => \A i \in 1 .. page[p].head :
       \/ arr[p][i].key <= asked[p][arr[p][i].origin]
       \/ arr[p][i] \in held
       \/ InRuns(p, arr[p][i])

\* The stretch the backfill scanned.
Scanned(p) ==
  /\ pc[p] \in {"reply", "commit"} /\ ~page[p].reset =>
       /\ asked[p] = claims /\ page[p].next <= page[p].head
       /\ page[p].resume.phase = "backfill" => page[p].resume.seq <= page[p].next
  /\ pc[p] = "reply" /\ ~page[p].reset =>
       /\ page[p].backfill \subseteq 1 .. page[p].head
       /\ \A i \in page[p].backfill :
            /\ i <= page[p].next
            /\ resume[p].phase = "backfill" => resume[p].seq <= i
       /\ \A i \in cursors[p].after + 1 .. page[p].next :
            i \in page[p].backfill \/ Kept(arr[p][i])
  /\ pc[p] = "commit" =>
       ~page[p].reset /\ \A i \in 1 .. page[p].next : Kept(arr[p][i])
  /\ pc[p] = "runs" =>
       /\ ~page[p].reset
       /\ page[p].resume.phase = "backfill" =>
            page[p].resume.seq <= cursors[p].after

IInv ==
  /\ TypeOK
  /\ ClaimIsHeld
  /\ \A p \in Peers :
       Behind(p) /\ PageFits(p) /\ Building(p) /\ Complete(p) /\ Scanned(p)

\* The puller has one peer.
Alone == Peers # {} /\ \A p, q \in Peers : p = q

\* The invariant, seen from the only peer.
LEMMA Focus ==
  ASSUME Alone, NEW p \in Peers, TypeOK', ClaimIsHeld', Behind(p)', PageFits(p)',
         Building(p)', Complete(p)', Scanned(p)'
  PROVE  IInv'
  BY Zenon DEF IInv, Alone

\* Between two pages nothing is asked of the page.
LEMMA Between ==
  ASSUME Alone, NEW p \in Peers, TypeOK', ClaimIsHeld', Behind(p)',
         pc'[p] \in {"idle", "ask", "done"}
  PROVE  IInv'
<1>1. PageFits(p)' /\ Building(p)' /\ Complete(p)' /\ Scanned(p)'
  BY Zenon DEF PageFits, Building, Complete, Scanned, OnPage
<1>. QED  BY Zenon, <1>1, Focus

\* An operation that may be passed stays so while claims are raised only over
\* held operations.
LEMMA BehindStays ==
  ASSUME TypeOK, NEW p \in Peers, Behind(p),
         UNCHANGED <<arr, claims, cursors>>, held \subseteq held',
         resume'[p].phase = "none", pc'[p] # "done"
  PROVE  Behind(p)'
<1>1. \A i \in 1 .. cursors[p].after : Kept(arr[p][i])'
  BY Zenon DEF Behind, Kept
<1>. QED  BY Zenon, <1>1 DEF Behind

\* The life of a drain outside the page.
LEMMA OutsideStep ==
  ASSUME Alone, IInv, NEW p \in Peers,
         (\E a \in Audits : StartDrain(p, a)) \/ Fail(p)
  PROVE  IInv'
<1>0. TypeOK /\ ClaimIsHeld /\ Behind(p)
  BY Zenon DEF IInv
<1>1. ASSUME NEW a \in Audits, StartDrain(p, a)
      PROVE  IInv'
  <2>0. a \in BOOLEAN
    BY Zenon, PullAssumption
  <2>1. TypeOK' /\ pc'[p] = "ask"
    BY Zenon, <1>0, <1>1, <2>0 DEF TypeOK, StartDrain, server, puller
  <2>2. ClaimIsHeld' /\ Behind(p)'
    BY Zenon, <1>0, <1>1, <2>1
    DEF ClaimIsHeld, Behind, Kept, StartDrain, server, puller
  <2>. QED  BY Zenon, <2>1, <2>2, Between
<1>2. CASE Fail(p)
  <2>1. DrainType' /\ pc'[p] = "idle" /\ resume'[p] = NoResume
    BY Zenon, <1>0, <1>2, EndDrainEffect DEF TypeOK, DrainType, Fail
  <2>2. UNCHANGED <<arr, epoch, held, known, claims, cursors>> /\ faults' \in Nat
    BY <1>0, <1>2 DEF TypeOK, Fail, server, puller
  <2>3. TypeOK'
    BY Zenon, <1>0, <2>1, <2>2 DEF TypeOK, DrainType
  <2>4. ClaimIsHeld' /\ Behind(p)'
    BY <1>0, <2>1, <2>2, BehindStays DEF ClaimIsHeld, NoResume
  <2>. QED  BY Zenon, <2>1, <2>3, <2>4, Between
<1>. QED  BY Zenon, <1>1, <1>2

(***************************************************************************)
(* Steps of the peer and of the registry.                                  *)
(***************************************************************************)

\* An arrival is behind everything a page or a cursor speaks of.
LEMMA ArriveStep ==
  ASSUME Alone, IInv, NEW p \in Peers, NEW o \in Offered[p], Arrive(p, o),
         pc[p] # "keyed"
  PROVE  IInv'
<1>0. /\ TypeOK /\ ClaimIsHeld /\ Behind(p) /\ PageFits(p) /\ Building(p)
      /\ Complete(p) /\ Scanned(p)
  BY Zenon DEF IInv
<1>1. /\ UNCHANGED <<epoch, held, known, claims, cursors, pc, audit, resume, asked,
                     left, page, resetSeen, progress, stalled, faults>>
      /\ arr' = [arr EXCEPT ![p] = Append(@, o)]
  BY Zenon DEF Arrive, puller, drain, round
<1>2. o \in Op
  BY Zenon, PullAssumption
<1>3. /\ arr[p] \in Seq(Op) /\ Len(arr[p]) \in Nat
      /\ cursors[p].after \in Nat /\ page[p] \in Page
  BY Zenon, <1>0, Parts
<1>4. arr' \in [Peers -> Seq(Op)]
  BY <1>0, <1>1, <1>2, <1>3 DEF TypeOK
<1>5. TypeOK'
  BY Zenon, <1>0, <1>1, <1>4 DEF TypeOK
<1>6. arr'[p] = Append(arr[p], o)
  BY Zenon, <1>0, <1>1 DEF TypeOK
<1>7. /\ Len(arr'[p]) = Len(arr[p]) + 1
      /\ \A i \in 1 .. Len(arr[p]) : arr'[p][i] = arr[p][i]
  BY <1>2, <1>3, <1>6
<1>8. page[p].head \in Nat /\ page[p].next \in Nat
  BY Zenon, <1>3, PageParts
<1>9. ClaimIsHeld'
  BY Zenon, <1>0, <1>1 DEF ClaimIsHeld
<1>10. ASSUME NEW i, arr'[p][i] = arr[p][i], Kept(arr[p][i])
      PROVE  Kept(arr[p][i])'
  <2>1. held' = held /\ claims' = claims
    BY Zenon, <1>1
  <2>. QED  BY Zenon, <1>10, <2>1 DEF Kept
<1>11. Behind(p)'
  <2>1. /\ cursors[p].after <= Len(arr[p])
        /\ \A i \in 1 .. cursors[p].after : Kept(arr[p][i])
    BY Zenon, <1>0 DEF Behind
  <2>2. \A i \in 1 .. cursors[p].after : arr'[p][i] = arr[p][i]
    BY <1>3, <1>7, <2>1
  <2>3. \A i \in 1 .. cursors[p].after : Kept(arr[p][i])'
    BY Zenon, <1>10, <2>1, <2>2
  <2>4. pc[p] = "done" => \A i \in 1 .. cursors[p].after : arr'[p][i] \in held
    BY Zenon, <1>0, <2>2 DEF Behind
  <2>5. cursors[p].after <= Len(arr'[p])
    BY <1>3, <1>7, <2>1
  <2>. QED  BY Zenon, <1>0, <1>1, <2>3, <2>4, <2>5 DEF Behind
<1>12. ASSUME OnPage(p)
       PROVE  /\ page[p].head <= Len(arr[p]) /\ cursors[p].after <= page[p].head
              /\ page[p].head <= Len(arr'[p])
              /\ \A i \in 1 .. page[p].head : arr'[p][i] = arr[p][i]
  BY <1>0, <1>3, <1>7, <1>8, <1>12 DEF PageFits
<1>13. PageFits(p)'
  <2>1. SUFFICES ASSUME OnPage(p) PROVE PageFits(p)'
    BY Zenon, <1>1 DEF PageFits, OnPage
  <2>2. \A j \in 1 .. Len(page[p].runs) : RunFits(p, page[p].runs[j])'
    BY Zenon, <1>0, <1>1, <1>12, <2>1 DEF PageFits, RunFits
  <2>3. InRuns(p, page[p].resume)' <=> InRuns(p, page[p].resume)
    BY Zenon, <1>1 DEF InRuns
  <2>. QED  BY Zenon, <1>0, <1>1, <1>12, <2>1, <2>2, <2>3 DEF PageFits
<1>14. Building(p)'
  BY Zenon, <1>1 DEF Building
<1>15. Complete(p)'
  <2>1. SUFFICES ASSUME OnPage(p), resume[p].phase = "none",
                        page[p].resume.phase = "none",
                        NEW i \in 1 .. page[p].head
                 PROVE  \/ arr'[p][i].key <= asked[p][arr'[p][i].origin]
                        \/ arr'[p][i] \in held
                        \/ InRuns(p, arr[p][i])'
    BY Zenon, <1>1, <1>12 DEF Complete, OnPage
  <2>2. InRuns(p, arr[p][i])' <=> InRuns(p, arr[p][i])
    BY Zenon, <1>1, <1>12, <2>1 DEF InRuns
  <2>. QED  BY Zenon, <1>0, <1>12, <2>1, <2>2 DEF Complete
<1>16. Scanned(p)'
  <2>1. ASSUME pc[p] = "reply", ~page[p].reset,
               NEW i \in cursors[p].after + 1 .. page[p].next
        PROVE  i \in page[p].backfill \/ Kept(arr[p][i])'
    <3>1. page[p].next <= page[p].head /\ i \in 1 .. page[p].head
      BY <1>0, <1>3, <1>8, <2>1 DEF Scanned
    <3>2. arr'[p][i] = arr[p][i]
      BY Zenon, <1>12, <2>1, <3>1 DEF OnPage
    <3>. QED  BY Zenon, <1>0, <1>10, <2>1, <3>2 DEF Scanned
  <2>2. ASSUME pc[p] = "commit", NEW i \in 1 .. page[p].next
        PROVE  Kept(arr[p][i])'
    <3>1. ~page[p].reset /\ page[p].next <= page[p].head /\ i \in 1 .. page[p].head
      BY <1>0, <1>3, <1>8, <2>2 DEF Scanned
    <3>2. arr'[p][i] = arr[p][i]
      BY Zenon, <1>12, <2>2, <3>1 DEF OnPage
    <3>. QED  BY Zenon, <1>0, <1>10, <2>2, <3>2 DEF Scanned
  <2>. QED  BY Zenon, <1>0, <1>1, <2>1, <2>2 DEF Scanned
<1>. QED  BY Zenon, <1>5, <1>9, <1>11, <1>13, <1>14, <1>15, <1>16, Focus

\* More may be held, and more signers known.
LEMMA MoreHeld ==
  ASSUME Alone, IInv, NEW p \in Peers, TypeOK', held \subseteq held',
         UNCHANGED <<arr, claims, cursors, pc, drain>>
  PROVE  IInv'
<1>0. /\ TypeOK /\ ClaimIsHeld /\ Behind(p) /\ PageFits(p) /\ Building(p)
      /\ Complete(p) /\ Scanned(p)
  BY Zenon DEF IInv
<1>1. UNCHANGED <<arr, claims, cursors, pc, resume, asked, left, page>>
  BY Zenon DEF drain
<1>2. ClaimIsHeld'
  BY Zenon, <1>0, <1>1 DEF ClaimIsHeld
<1>3. ASSUME NEW i, Kept(arr[p][i]) PROVE Kept(arr[p][i])'
  BY Zenon, <1>1, <1>3 DEF Kept
<1>4. ASSUME NEW i, InRuns(p, arr[p][i]) PROVE InRuns(p, arr[p][i])'
  BY Zenon, <1>1, <1>4 DEF InRuns
<1>5. Behind(p)'
  BY Zenon, <1>0, <1>1, <1>3 DEF Behind
<1>6. PageFits(p)'
  <2>1. \A j \in 1 .. Len(page[p].runs) :
          RunFits(p, page[p].runs[j])' <=> RunFits(p, page[p].runs[j])
    BY Zenon, <1>1 DEF RunFits
  <2>2. InRuns(p, page[p].resume)' <=> InRuns(p, page[p].resume)
    BY Zenon, <1>1 DEF InRuns
  <2>. QED  BY Zenon, <1>0, <1>1, <2>1, <2>2 DEF PageFits, OnPage
<1>7. Building(p)'
  BY Zenon, <1>0, <1>1, <1>4 DEF Building
<1>8. Complete(p)'
  BY Zenon, <1>0, <1>1, <1>4 DEF Complete, OnPage
<1>9. Scanned(p)'
  BY Zenon, <1>0, <1>1, <1>3 DEF Scanned
<1>. QED  BY Zenon, <1>2, <1>5, <1>6, <1>7, <1>8, <1>9, Focus

\* A signer becomes known.
LEMMA LearnStep ==
  ASSUME Alone, IInv, NEW p \in Peers, NEW o \in Origins, Learn(o)
  PROVE  IInv'
<1>1. TypeOK
  BY Zenon DEF IInv
<1>2. TypeOK' /\ held \subseteq held' /\ UNCHANGED <<arr, claims, cursors, pc, drain>>
  BY Zenon, <1>1 DEF TypeOK, Learn, server, drain, round
<1>. QED  BY Zenon, <1>2, MoreHeld

\* A restart keeps the log: only the page being built is lost.
LEMMA RestartStep ==
  ASSUME Alone, IInv, NEW p \in Peers, Restart(p)
  PROVE  IInv'
<1>0. TypeOK /\ ClaimIsHeld /\ Behind(p)
  BY Zenon DEF IInv
<1>1. epoch' \in [Peers -> 1 .. MaxEpoch]
  BY <1>0, PullAssumption DEF TypeOK, Restart
<1>2. UNCHANGED <<arr, held, known, claims, cursors, faults>>
  BY Zenon DEF Restart, puller
<1>3. CASE pc[p] = "keyed"
  <2>1. DrainType' /\ pc'[p] = "idle" /\ resume'[p] = NoResume
    BY Zenon, <1>0, <1>3, EndDrainEffect DEF TypeOK, DrainType, Restart
  <2>2. TypeOK'
    BY Zenon, <1>0, <1>1, <1>2, <2>1 DEF TypeOK, DrainType
  <2>3. ClaimIsHeld' /\ Behind(p)'
    BY <1>0, <1>2, <2>1, BehindStays DEF ClaimIsHeld, NoResume
  <2>. QED  BY Zenon, <2>1, <2>2, <2>3, Between
<1>4. CASE pc[p] # "keyed"
  <2>1. UNCHANGED <<pc, drain>>
    BY Zenon, <1>4 DEF Restart
  <2>2. TypeOK'
    BY Zenon, <1>0, <1>1, <1>2, <2>1 DEF TypeOK, drain, round
  <2>. QED  BY Zenon, <1>2, <2>1, <2>2, MoreHeld
<1>. QED  BY Zenon, <1>3, <1>4

\* A preview only adds operations of the peer's log.
LEMMA PreviewStep ==
  ASSUME Alone, IInv, NEW p \in Peers, PreviewHead(p)
  PROVE  IInv'
<1>0. TypeOK
  BY Zenon DEF IInv
<1>1. UNCHANGED <<arr, epoch, known, claims, cursors, pc, drain, faults>>
  BY Zenon DEF PreviewHead, server
<1>2. held \subseteq held' /\ held' \subseteq Op
  <2>0. /\ Len(arr[p]) \in Nat /\ page[p] \in Page
        /\ \A i \in 1 .. Len(arr[p]) : arr[p][i] \in Op
    BY Zenon, <1>0, Parts
  <2>1. page[p].head \in Nat /\ Limit \in Nat
    BY Zenon, <2>0, PageParts, PullAssumption
  <2>. DEFINE inflated == [o \in Origins |-> IF o \in known THEN MaxKey ELSE 0]
              part(from) == CoveredIn(p, inflated, from,
                                      Smaller(from + Limit, Len(arr[p])))
  <2>2. PICK from \in Larger(0, page[p].head - Limit) .. page[p].head :
          held' = held \cup {arr[p][i] : i \in Least(part(from), ByteBudget)}
    BY Zenon DEF PreviewHead
  <2>3. from \in Nat /\ Smaller(from + Limit, Len(arr[p])) \in Nat
        /\ Smaller(from + Limit, Len(arr[p])) <= Len(arr[p])
    BY <2>0, <2>1 DEF Larger, Smaller
  <2>4. part(from) \subseteq 1 .. Len(arr[p])
    BY <2>0, <2>3 DEF CoveredIn
  <2>5. Least(part(from), ByteBudget) \subseteq 1 .. Len(arr[p])
    BY Zenon, <2>4 DEF Least
  <2>6. held \subseteq Op
    BY Zenon, <1>0 DEF TypeOK
  <2>. HIDE DEF part
  <2>. QED  BY Zenon, <2>0, <2>2, <2>5, <2>6
<1>3. TypeOK'
  BY Zenon, <1>0, <1>1, <1>2 DEF TypeOK, drain, round
<1>. QED  BY Zenon, <1>1, <1>2, <1>3, MoreHeld

(***************************************************************************)
(* Steps of a page.                                                        *)
(***************************************************************************)

\* A request starts a page that nothing has been served on, or a reset.
LEMMA AskStep ==
  ASSUME Alone, IInv, NEW p \in Peers, Ask(p)
  PROVE  IInv'
<1>0. TypeOK /\ ClaimIsHeld /\ Behind(p)
  BY Zenon DEF IInv
<1>. DEFINE reset == NeedsReset(cursors[p], p)
            origins == {x.origin : x \in Arrived(p)}
<1>1. /\ page' = [page EXCEPT ![p] =
             [NoPage EXCEPT !.epoch = epoch[p], !.reset = reset,
                            !.head = Len(arr[p])]]
      /\ left' = [left EXCEPT ![p] =
             IF reset \/ resume[p].phase = "backfill" THEN {}
             ELSE IF resume[p].phase = "none" THEN origins
             ELSE {o \in origins : o >= resume[p].origin}]
      /\ pc' = [pc EXCEPT ![p] = IF reset THEN "reply" ELSE "keyed"]
      /\ asked' = [asked EXCEPT ![p] = claims]
      /\ pc[p] = "ask"
      /\ UNCHANGED <<arr, epoch, held, known, claims, cursors, resume, audit,
                     resetSeen, progress, stalled, faults>>
  BY Zenon DEF Ask, server, puller, round
<1>2. /\ arr[p] \in Seq(Op) /\ Len(arr[p]) \in Nat /\ cursors[p].after \in Nat
      /\ \A i \in 1 .. Len(arr[p]) : arr[p][i].origin \in Origins
      /\ \A o \in Origins : claims[o] \in Nat
  BY Zenon, <1>0, Parts
<1>3. DOMAIN arr[p] = 1 .. Len(arr[p])
  BY <1>2
<1>4. origins \subseteq Origins
  BY Zenon, <1>2, <1>3 DEF Arrived
<1>5. \A i \in 1 .. Len(arr[p]) : arr[p][i].origin \in origins
  BY Zenon, <1>3 DEF Arrived
<1>6. reset \in BOOLEAN /\ epoch[p] \in 0 .. MaxEpoch
  <2>1. epoch[p] \in 1 .. MaxEpoch /\ MaxEpoch \in Nat
    BY Zenon, <1>0, PullAssumption DEF TypeOK
  <2>. QED  BY <2>1 DEF NeedsReset
<1>. HIDE DEF reset, origins
<1>7. page'[p] = [NoPage EXCEPT !.epoch = epoch[p], !.reset = reset,
                                !.head = Len(arr[p])]
  BY Zenon, <1>0, <1>1 DEF TypeOK
<1>8. page'[p] \in Page
  BY Zenon, <1>2, <1>6, <1>7, InitialValues DEF Page
<1>9. /\ page'[p].reset = reset /\ page'[p].head = Len(arr[p])
      /\ page'[p].runs = <<>> /\ page'[p].size = 0 /\ page'[p].resume = NoResume
      /\ page'[p].backfill = {}
  BY Zenon, <1>7 DEF NoPage
<1>10. TypeOK'
  <2>1. page' \in [Peers -> Page]
    <3>1. \A q \in Peers : q = p
      BY Zenon DEF Alone
    <3>. QED  BY Zenon, <1>0, <1>1, <1>8, <3>1 DEF TypeOK
  <2>2. left' \in [Peers -> SUBSET Origins]
    BY Zenon, <1>0, <1>1, <1>4 DEF TypeOK
  <2>3. asked' \in [Peers -> Claims]
    BY Zenon, <1>0, <1>1 DEF TypeOK
  <2>4. pc' \in [Peers -> {"idle", "ask", "keyed", "reply", "commit", "runs", "done"}]
    BY Zenon, <1>0, <1>1 DEF TypeOK
  <2>. QED  BY Zenon, <1>0, <1>1, <2>1, <2>2, <2>3, <2>4 DEF TypeOK
<1>11. pc'[p] = (IF reset THEN "reply" ELSE "keyed") /\ asked'[p] = claims
  BY Zenon, <1>0, <1>1 DEF TypeOK
<1>12. ClaimIsHeld'
  BY Zenon, <1>0, <1>1 DEF ClaimIsHeld
<1>13. Behind(p)'
  BY <1>0, <1>1, <1>11 DEF Behind, Kept
<1>14. PageFits(p)'
  <2>1. \A o \in Origins : asked'[p][o] <= claims'[o]
    BY <1>1, <1>2, <1>11
  <2>2. cursors'[p].after <= page'[p].head /\ page'[p].head <= Len(arr'[p])
    BY <1>0, <1>1, <1>2, <1>9 DEF Behind
  <2>3. \A j \in 1 .. Len(page'[p].runs) : RunFits(p, page[p].runs[j])'
    BY <1>9
  <2>4. page'[p].resume.phase = "none"
    BY <1>9 DEF NoResume
  <2>. QED  BY Zenon, <2>1, <2>2, <2>3, <2>4 DEF PageFits
<1>15. Building(p)'
  <2>1. SUFFICES ASSUME ~reset PROVE Building(p)'
    BY Zenon, <1>11 DEF Building
  <2>2. 0 < Limit /\ 0 < ByteBudget
    BY PullAssumption
  <2>3. resume[p].phase = "none" => left'[p] = origins
    BY Zenon, <1>0, <1>1, <2>1 DEF TypeOK
  <2>. QED  BY Zenon, <1>1, <1>5, <1>9, <1>11, <2>1, <2>2, <2>3 DEF Building
<1>16. Complete(p)' /\ Scanned(p)'
  BY Zenon, <1>9, <1>11 DEF Complete, Scanned, OnPage
<1>. QED  BY Zenon, <1>10, <1>12, <1>13, <1>14, <1>15, <1>16, Focus

\* Where the keyed channel starts is never above the claim.
LEMMA KeyedAfterBound ==
  ASSUME TypeOK, NEW p \in Peers, Behind(p), asked[p] = claims,
         NEW o \in Origins
  PROVE  KeyedAfter(p, o) \in Nat /\ KeyedAfter(p, o) <= claims[o]
<1>1. claims[o] \in Nat /\ resume[p].key \in Nat
  BY Zenon, Parts
<1>2. resume[p].phase = "keyed" /\ resume[p].origin = o => resume[p].key <= claims[o]
  BY Zenon DEF Behind
<1>. QED  BY <1>1, <1>2 DEF KeyedAfter, Larger

\* The origin served next is one of those left.
LEMMA NextOriginLeft ==
  ASSUME TypeOK, NEW p \in Peers, left[p] # {}
  PROVE  NextOrigin(p) \in left[p] /\ NextOrigin(p) \in Origins
<1>1. left[p] \in SUBSET Origins /\ left[p] \in SUBSET Nat
  BY Zenon, PullAssumption DEF TypeOK
<1>2. Min(left[p]) \in left[p]
  BY Zenon, <1>1, MinOfNats
<1>. QED  BY Zenon, <1>1, <1>2 DEF NextOrigin

\* A run takes the least keys after its start: it is closed downwards, it is cut
\* only if it has something, and a run that is not cut has everything.
LEMMA ServedFacts ==
  ASSUME NEW all \in SUBSET (0 .. MaxKey), NEW size \in Nat,
         size < Limit, size < ByteBudget
  PROVE  LET fetched == Least(all, Limit - size)
             served == Least(fetched, ByteBudget - size)
             total == size + Cardinality(served)
             cut == \/ Cardinality(all) >= Limit - size
                    \/ served # fetched
                    \/ total >= ByteBudget
         IN  /\ served \subseteq all
             /\ \A x \in all : \A k \in served : x <= k => x \in served
             /\ total \in 0 .. Limit
             /\ cut => served # {}
             /\ ~cut => served = all /\ total < Limit /\ total < ByteBudget
<1>. DEFINE fetched == Least(all, Limit - size)
            served == Least(fetched, ByteBudget - size)
            total == size + Cardinality(served)
            cut == \/ Cardinality(all) >= Limit - size
                   \/ served # fetched
                   \/ total >= ByteBudget
            room == Limit - size
            bytes == ByteBudget - size
<1>0. MaxKey \in Nat /\ Limit \in Nat /\ ByteBudget \in Nat
  BY Zenon, PullAssumption
<1>1. room \in Int /\ room > 0 /\ bytes \in Int /\ bytes > 0
  BY <1>0
<1>2. /\ IsFiniteSet(all) /\ Cardinality(all) \in Nat
      /\ fetched \subseteq all
      /\ Cardinality(fetched) \in Nat
      /\ \A x \in all : \A y \in fetched : x <= y => x \in fetched
      /\ Cardinality(all) < room => fetched = all
      /\ all # {} => fetched # {}
      /\ Cardinality(fetched) <= room
  <2>1. /\ IsFiniteSet(all) /\ Cardinality(all) \in Nat
        /\ Least(all, room) \subseteq all
        /\ Cardinality(Least(all, room)) \in Nat
        /\ \A x \in all : \A y \in Least(all, room) : x <= y => x \in Least(all, room)
        /\ Cardinality(all) < room => Least(all, room) = all
        /\ room > 0 /\ all # {} => Least(all, room) # {}
        /\ room >= 0 => Cardinality(Least(all, room)) <= room
    <3>. HIDE DEF room
    <3>. QED  BY Zenon, <1>0, <1>1, LeastFacts
  <2>2. room >= 0
    BY <1>1
  <2>. QED  BY Zenon, <1>1, <2>1, <2>2
<1>3. fetched \in SUBSET (0 .. MaxKey)
  BY Zenon, <1>2
<1>. HIDE DEF fetched
<1>4. /\ IsFiniteSet(fetched)
      /\ served \subseteq fetched
      /\ Cardinality(served) \in Nat
      /\ \A x \in fetched : \A y \in served : x <= y => x \in served
      /\ fetched # {} => served # {}
  BY Zenon, <1>0, <1>1, <1>3, LeastFacts
<1>5. Cardinality(served) <= Cardinality(fetched)
  BY Zenon, <1>4, FS_Subset
<1>. HIDE DEF served
<1>6. total \in 0 .. Limit
  BY <1>0, <1>2, <1>4, <1>5
<1>7. ASSUME cut PROVE served # {}
  <2>1. CASE Cardinality(all) >= room
    <3>1. all # {}
      BY <1>1, <2>1, FS_EmptySet
    <3>. QED  BY Zenon, <1>2, <1>4, <3>1
  <2>2. CASE served # fetched
    BY Zenon, <1>4, <2>2
  <2>3. CASE total >= ByteBudget
    <3>1. Cardinality(served) > 0
      BY <1>0, <1>4, <2>3
    <3>. QED  BY <3>1, FS_EmptySet
  <2>. QED  BY Zenon, <1>7, <2>1, <2>2, <2>3
<1>8. ASSUME ~cut PROVE served = all /\ total < Limit /\ total < ByteBudget
  <2>1. /\ ~(Cardinality(all) >= room) /\ served = fetched
        /\ ~(total >= ByteBudget)
    BY Zenon, <1>8
  <2>2. Cardinality(all) < room /\ total < ByteBudget
    BY <1>0, <1>1, <1>2, <1>4, <2>1
  <2>3. served = all
    BY Zenon, <1>2, <2>1, <2>2
  <2>4. total < Limit
    BY <1>0, <1>2, <2>2, <2>3
  <2>. QED  BY Zenon, <2>2, <2>3, <2>4
<1>9. /\ served \subseteq all
      /\ \A x \in all : \A k \in served : x <= k => x \in served
  BY Zenon, <1>2, <1>4
<1>. HIDE DEF total, cut
<1>. QED  BY Zenon, <1>6, <1>7, <1>8, <1>9 DEF fetched, served, total, cut

\* An origin of the keyed channel: its run fits the page, a cut leaves a token
\* that is in the run, and otherwise the origin has nothing else.
LEMMA ServeOriginStep ==
  ASSUME Alone, IInv, NEW p \in Peers, ServeOrigin(p)
  PROVE  IInv'
<1>0. TypeOK /\ ClaimIsHeld /\ Behind(p) /\ PageFits(p) /\ Building(p)
  BY Zenon DEF IInv
<1>. DEFINE o == NextOrigin(p)
            size == page[p].size
            all == OriginSince(p, o, KeyedAfter(p, o))
            fetched == Least(all, Room(p))
            served == Least(fetched, ByteBudget - size)
            total == size + Cardinality(served)
            cut == \/ Cardinality(all) >= Room(p)
                   \/ served # fetched
                   \/ total >= ByteBudget
            run == [origin |-> o, keys |-> served]
            runs == IF served = {} THEN page[p].runs
                    ELSE Append(page[p].runs, run)
            token == KeyedResume(o, Max(served))
<1>1. /\ pc[p] = "keyed" /\ left[p] # {}
      /\ UNCHANGED <<arr, epoch, held, known, claims, cursors, resume, asked, audit,
                     resetSeen, progress, stalled, faults>>
  BY Zenon DEF ServeOrigin, server, puller, round
<1>2. cut => /\ page' = [page EXCEPT ![p].runs = runs, ![p].size = total,
                           ![p].next = cursors[p].after,
                           ![p].resume = token]
             /\ left' = [left EXCEPT ![p] = {}]
             /\ pc' = [pc EXCEPT ![p] = "reply"]
  BY Zenon DEF ServeOrigin
<1>3. ~cut => /\ page' = [page EXCEPT ![p].runs = runs, ![p].size = total]
              /\ left' = [left EXCEPT ![p] = @ \ {o}]
              /\ pc' = pc
  BY Zenon DEF ServeOrigin
<1>4. /\ ~page[p].reset /\ page[p].head = Len(arr[p]) /\ asked[p] = claims
      /\ size < Limit /\ size < ByteBudget
      /\ page[p].resume = NoResume /\ page[p].backfill = {}
  BY Zenon, <1>0, <1>1 DEF Building
<1>5. /\ Len(arr[p]) \in Nat /\ arr[p] \in Seq(Op)
      /\ \A i \in 1 .. Len(arr[p]) :
           arr[p][i].origin \in Origins /\ arr[p][i].key \in 1 .. MaxKey
           /\ arr[p][i].key \in Nat
      /\ \A x \in Origins : claims[x] \in Nat
      /\ cursors[p].after \in Nat /\ page[p] \in Page
  BY Zenon, <1>0, Parts
<1>6. o \in Origins /\ o \in left[p]
  BY Zenon, <1>0, <1>1, NextOriginLeft
<1>7. KeyedAfter(p, o) \in Nat /\ KeyedAfter(p, o) <= claims[o]
  BY Zenon, <1>0, <1>4, <1>6, KeyedAfterBound
<1>8. Arrived(p) = {arr[p][i] : i \in 1 .. Len(arr[p])}
  BY <1>5 DEF Arrived
<1>9. all \in SUBSET (1 .. MaxKey)
  BY Zenon, <1>5, <1>8 DEF OriginSince
<1>10. \A i \in 1 .. Len(arr[p]) :
         arr[p][i].origin = o /\ arr[p][i].key > claims[o] => arr[p][i].key \in all
  <2>1. ASSUME NEW i \in 1 .. Len(arr[p]), arr[p][i].origin = o,
               arr[p][i].key > claims[o]
        PROVE  arr[p][i].key \in all
    <3>1. arr[p][i] \in Arrived(p)
      BY Zenon, <1>8
    <3>2. arr[p][i].key > KeyedAfter(p, o)
      BY <1>5, <1>6, <1>7, <2>1
    <3>. QED  BY Zenon, <2>1, <3>1, <3>2 DEF OriginSince
  <2>. QED  BY Zenon, <2>1
<1>. HIDE DEF o, all
<1>11. size \in Nat /\ size \in 0 .. Limit /\ page[p].runs \in Seq(Run)
       /\ Len(page[p].runs) \in Nat
  BY Zenon, <1>5, PageParts
<1>12. MaxKey \in Nat /\ Limit \in Nat
  BY Zenon, PullAssumption
<1>13. /\ served \subseteq all
       /\ \A x \in all : \A k \in served : x <= k => x \in served
       /\ total \in 0 .. Limit
       /\ cut => served # {}
       /\ ~cut => served = all /\ total < Limit /\ total < ByteBudget
  <2>1. all \in SUBSET (0 .. MaxKey)
    BY <1>9, <1>12
  <2>2. Room(p) = Limit - size
    BY Zenon DEF Room
  <2>3. size \in Nat /\ size < Limit /\ size < ByteBudget
    BY Zenon, <1>4, <1>11
  <2>. HIDE DEF size
  <2>. QED  BY <2>1, <2>2, <2>3, ServedFacts, SMTT(30)
<1>14. served \in SUBSET (1 .. MaxKey)
  BY Zenon, <1>9, <1>13
<1>. HIDE DEF fetched, served, total, cut
<1>15. run \in Run
  BY Zenon, <1>6, <1>14 DEF Run
<1>16. runs \in Seq(Run)
  BY <1>11, <1>15
<1>17. served # {} => Max(served) \in served
  <2>1. served \in SUBSET (0 .. MaxKey)
    BY <1>12, <1>14
  <2>. QED  BY Zenon, <1>12, <2>1, MaxOfNats
<1>18. cut => token \in Resume
  <2>1. cut => Max(served) \in 0 .. MaxKey
    <3>1. served \subseteq 0 .. MaxKey
      BY <1>12, <1>14
    <3>. QED  BY Zenon, <1>13, <1>17, <3>1
  <2>. QED  BY Zenon, <1>6, <2>1, InitialValues DEF KeyedResume, NoResume, Resume
<1>19. /\ served # {} => /\ Len(runs) = Len(page[p].runs) + 1
                         /\ runs[Len(page[p].runs) + 1] = run
       /\ served = {} => runs = page[p].runs
       /\ \A j \in 1 .. Len(page[p].runs) : runs[j] = page[p].runs[j]
       /\ Len(runs) \in Nat /\ Len(page[p].runs) <= Len(runs)
  BY <1>11, <1>15
<1>. HIDE DEF runs, token
<1>20. /\ page'[p].runs = runs /\ page'[p].size = total
       /\ page'[p].head = page[p].head /\ page'[p].reset = page[p].reset
       /\ page'[p].backfill = page[p].backfill /\ page'[p].epoch = page[p].epoch
       /\ cut => page'[p].next = cursors[p].after /\ page'[p].resume = token
       /\ ~cut => page'[p].next = page[p].next /\ page'[p].resume = page[p].resume
  <2>1. page \in [Peers -> Page]
    BY Zenon, <1>0 DEF TypeOK
  <2>. QED  BY <1>2, <1>3, <1>5, <2>1 DEF Page
<1>21. page' \in [Peers -> Page]
  <2>1. page \in [Peers -> Page]
    BY Zenon, <1>0 DEF TypeOK
  <2>2. CASE cut
    <3>1. [page[p] EXCEPT !.runs = runs, !.size = total, !.next = cursors[p].after,
                          !.resume = token] \in Page
      BY Zenon, <1>5, <1>13, <1>16, <1>18, <2>2 DEF Page
    <3>. QED  BY Zenon, <1>2, <2>1, <2>2, <3>1
  <2>3. CASE ~cut
    <3>1. [page[p] EXCEPT !.runs = runs, !.size = total] \in Page
      BY Zenon, <1>5, <1>13, <1>16 DEF Page
    <3>. QED  BY Zenon, <1>3, <2>1, <2>3, <3>1
  <2>. QED  BY Zenon, <2>2, <2>3
<1>22. TypeOK' /\ pc'[p] = (IF cut THEN "reply" ELSE "keyed")
       /\ left'[p] = (IF cut THEN {} ELSE left[p] \ {o})
  <2>1. /\ pc' \in [Peers -> {"idle", "ask", "keyed", "reply", "commit", "runs", "done"}]
        /\ pc'[p] = (IF cut THEN "reply" ELSE "keyed")
    BY Zenon, <1>0, <1>1, <1>2, <1>3 DEF TypeOK
  <2>2. left' \in [Peers -> SUBSET Origins]
        /\ left'[p] = (IF cut THEN {} ELSE left[p] \ {o})
    BY Zenon, <1>0, <1>2, <1>3 DEF TypeOK
  <2>. QED  BY Zenon, <1>0, <1>1, <1>21, <2>1, <2>2 DEF TypeOK
<1>23. ASSUME NEW x, InRuns(p, x)
       PROVE  \E j \in 1 .. Len(runs) : runs[j].origin = x.origin /\ x.key \in runs[j].keys
  <2>1. PICK j \in 1 .. Len(page[p].runs) :
          page[p].runs[j].origin = x.origin /\ x.key \in page[p].runs[j].keys
    BY Zenon, <1>23 DEF InRuns
  <2>2. j \in 1 .. Len(runs) /\ runs[j] = page[p].runs[j]
    BY <1>11, <1>19
  <2>. QED  BY Zenon, <2>1, <2>2
<1>24. ASSUME NEW x, x.origin = o, x.key \in served
       PROVE  \E j \in 1 .. Len(runs) : runs[j].origin = x.origin /\ x.key \in runs[j].keys
  <2>1. Len(page[p].runs) + 1 \in 1 .. Len(runs)
        /\ runs[Len(page[p].runs) + 1] = run
    BY <1>11, <1>19, <1>24
  <2>. QED  BY <1>24, <2>1
<1>25. ClaimIsHeld' /\ Behind(p)'
  BY Zenon, <1>0, <1>1, <1>22 DEF ClaimIsHeld, Behind, Kept
<1>26. PageFits(p)'
  <2>1. OnPage(p)
    BY Zenon, <1>1, <1>4 DEF OnPage
  <2>2. /\ cursors[p].after <= page[p].head /\ page[p].head <= Len(arr[p])
        /\ \A x \in Origins : asked[p][x] <= claims[x]
        /\ \A j \in 1 .. Len(page[p].runs) : RunFits(p, page[p].runs[j])
    BY Zenon, <1>0, <2>1 DEF PageFits
  <2>4. served # {} => RunFits(p, run)
    <3>1. ASSUME NEW i \in 1 .. Len(arr[p]), NEW k \in served,
                 arr[p][i].origin = o, arr[p][i].key > claims[o],
                 arr[p][i].key <= k
          PROVE  arr[p][i].key \in served
      BY Zenon, <1>10, <1>13, <3>1
    <3>. QED  BY Zenon, <1>4, <3>1 DEF RunFits
  <2>5. ASSUME NEW j \in 1 .. Len(runs) PROVE RunFits(p, page[p].runs[j])'
    <3>1. RunFits(p, runs[j])
      <4>1. CASE j \in 1 .. Len(page[p].runs)
        BY Zenon, <1>19, <2>2, <4>1
      <4>2. CASE j \notin 1 .. Len(page[p].runs)
        <5>1. served # {} /\ j = Len(page[p].runs) + 1
          BY <1>11, <1>19, <4>2
        <5>. HIDE DEF run
        <5>. QED  BY Zenon, <1>19, <2>4, <5>1
      <4>. QED  BY Zenon, <4>1, <4>2
    <3>2. page'[p].runs[j] = runs[j] /\ page'[p].head = page[p].head
          /\ arr' = arr /\ claims' = claims
      BY Zenon, <1>1, <1>20
    <3>. QED  BY Zenon, <3>1, <3>2 DEF RunFits
  <2>6. cut => InRuns(p, page[p].resume)'
    <3>1. SUFFICES ASSUME cut PROVE InRuns(p, page[p].resume)'
      BY Zenon
    <3>2. token.origin = o /\ token.key = Max(served) /\ Max(served) \in served
      BY Zenon, <1>13, <1>17, <3>1 DEF token, KeyedResume, NoResume
    <3>. QED  BY <1>20, <1>24, <3>1, <3>2 DEF InRuns
  <2>7. ~cut => page'[p].resume.phase = "none"
    BY <1>4, <1>20 DEF NoResume
  <2>. QED  BY Zenon, <1>1, <1>20, <2>2, <2>5, <2>6, <2>7 DEF PageFits
<1>27. Building(p)'
  <2>1. SUFFICES ASSUME ~cut PROVE Building(p)'
    BY Zenon, <1>22 DEF Building
  <2>2. ASSUME resume[p].phase = "none", NEW i \in 1 .. page[p].head
        PROVE  \/ arr[p][i].origin \in left'[p]
               \/ arr[p][i].key <= asked[p][arr[p][i].origin]
               \/ \E j \in 1 .. Len(runs) :
                    runs[j].origin = arr[p][i].origin /\ arr[p][i].key \in runs[j].keys
    <3>1. CASE InRuns(p, arr[p][i])
      BY Zenon, <1>23, <3>1
    <3>2. CASE arr[p][i].origin \in left[p] /\ arr[p][i].origin # o
      BY Zenon, <1>22, <2>1, <3>2
    <3>3. CASE arr[p][i].origin = o
      <4>1. CASE arr[p][i].key > claims[o]
        <5>1. arr[p][i].key \in served
          BY Zenon, <1>4, <1>10, <1>13, <2>1, <2>2, <3>3, <4>1
        <5>. QED  BY Zenon, <1>24, <3>3, <5>1
      <4>2. CASE ~(arr[p][i].key > claims[o])
        <5>1. arr[p][i].key \in Nat /\ claims[o] \in Nat
          BY Zenon, <1>4, <1>5, <1>6, <2>2
        <5>. QED  BY <1>4, <3>3, <4>2, <5>1
      <4>. QED  BY Zenon, <4>1, <4>2
    <3>. QED  BY Zenon, <1>0, <1>1, <2>2, <3>1, <3>2, <3>3 DEF Building
  <2>3. resume'[p].phase = "none" =>
          \A i \in 1 .. page'[p].head :
             \/ arr'[p][i].origin \in left'[p]
             \/ arr'[p][i].key <= asked'[p][arr'[p][i].origin]
             \/ InRuns(p, arr[p][i])'
    BY Zenon, <1>1, <1>20, <2>2 DEF InRuns
  <2>. QED  BY Zenon, <1>1, <1>4, <1>13, <1>20, <2>1, <2>3 DEF Building
<1>28. Complete(p)'
  <2>1. cut => page'[p].resume.phase = "keyed"
    BY Zenon, <1>20 DEF token, KeyedResume, NoResume
  <2>. QED  BY Zenon, <1>22, <2>1 DEF Complete
<1>29. Scanned(p)'
  <2>1. cut => page'[p].resume.phase = "keyed"
    BY Zenon, <1>20 DEF token, KeyedResume, NoResume
  <2>2. cursors[p].after <= page[p].head
    BY Zenon, <1>0, <1>1, <1>4 DEF PageFits, OnPage
  <2>3. cursors[p].after + 1 .. cursors[p].after = {}
    BY <1>5
  <2>4. CASE cut
    BY Zenon, <1>1, <1>4, <1>20, <1>22, <2>1, <2>2, <2>3, <2>4 DEF Scanned
  <2>5. CASE ~cut
    BY Zenon, <1>22, <2>5 DEF Scanned
  <2>. QED  BY Zenon, <2>4, <2>5
<1>. QED  BY Zenon, <1>22, <1>25, <1>26, <1>27, <1>28, <1>29, Focus

\* The backfill: what the new cursor would pass is taken, held or above the claim.
LEMMA ScanBackfillStep ==
  ASSUME Alone, IInv, NEW p \in Peers, ScanBackfill(p)
  PROVE  IInv'
<1>0. TypeOK /\ ClaimIsHeld /\ Behind(p) /\ PageFits(p) /\ Building(p)
  BY Zenon DEF IInv
<1>. DEFINE size == page[p].size
            start == IF resume[p].phase = "backfill" THEN resume[p].seq
                     ELSE cursors[p].after
            end == Smaller(start + Room(p), Len(arr[p]))
            covered == CoveredIn(p, asked[p], start, end)
            taken == Least(covered, ByteBudget - size)
            byteCut == Cardinality(covered) >= ByteBudget - size
            next == IF covered = taken THEN end
                    ELSE Min(covered \ taken) - 1
            token == IF end = start + Room(p) \/ byteCut
                     THEN BackfillResume(next) ELSE NoResume
<1>1. /\ pc[p] = "keyed" /\ left[p] = {}
      /\ page' = [page EXCEPT ![p].backfill = taken, ![p].next = next,
                              ![p].resume = token]
      /\ pc' = [pc EXCEPT ![p] = "reply"]
      /\ UNCHANGED <<arr, epoch, held, known, claims, cursors, resume, asked, left,
                     audit, resetSeen, progress, stalled, faults>>
  BY Zenon DEF ScanBackfill, server, puller, round
<1>2. /\ ~page[p].reset /\ page[p].head = Len(arr[p]) /\ asked[p] = claims
      /\ size < Limit /\ size < ByteBudget
  BY Zenon, <1>0, <1>1 DEF Building
<1>3. /\ Len(arr[p]) \in Nat
      /\ \A i \in 1 .. Len(arr[p]) :
           arr[p][i].origin \in Origins /\ arr[p][i].key \in Nat
      /\ \A x \in Origins : claims[x] \in Nat
      /\ cursors[p].after \in Nat /\ page[p] \in Page /\ resume[p].seq \in Nat
  BY Zenon, <1>0, Parts
<1>4. size \in Nat /\ Limit \in Nat /\ ByteBudget \in Nat
  BY Zenon, <1>3, PageParts, PullAssumption
<1>5. Room(p) \in Nat
  BY <1>2, <1>4 DEF Room
<1>6. /\ resume[p].phase = "backfill" => start = resume[p].seq
      /\ start \in Nat /\ start <= cursors[p].after /\ cursors[p].after <= Len(arr[p])
  BY <1>0, <1>3 DEF Behind
<1>. HIDE DEF start
<1>7. end \in Nat /\ end <= Len(arr[p])
  BY <1>3, <1>5, <1>6 DEF Smaller
<1>. HIDE DEF end
<1>8. /\ covered \subseteq start + 1 .. end
      /\ \A i \in start + 1 .. end :
           i \in covered <=> arr[p][i].key <= claims[arr[p][i].origin]
  BY Zenon, <1>2 DEF CoveredIn
<1>9. covered \in SUBSET (0 .. Len(arr[p])) /\ \A i \in covered : i \in Nat /\ i > start
  <2>1. start + 1 .. end \subseteq 0 .. Len(arr[p])
    <3>. DEFINE length == Len(arr[p])
    <3>1. start \in Nat /\ end \in Nat /\ length \in Nat /\ end <= length
      BY Zenon, <1>3, <1>6, <1>7
    <3>. HIDE DEF length
    <3>2. start + 1 .. end \subseteq 0 .. length
      BY <3>1
    <3>. QED
      BY Zenon, <3>2 DEF length
  <2>2. \A i \in start + 1 .. end : i \in Nat /\ i > start
    BY <1>6, <1>7
  <2>. QED  BY Zenon, <1>8, <2>1, <2>2
<1>. HIDE DEF covered
<1>10. /\ taken \subseteq covered
       /\ \A x \in covered : \A y \in taken : x <= y => x \in taken
  <2>1. ByteBudget - size \in Int
    BY <1>4
  <2>. QED  BY Zenon, <1>3, <1>9, <2>1, LeastFacts
<1>. HIDE DEF taken
<1>11. /\ next \in Nat /\ next <= end
       /\ \A i \in covered : i <= next => i \in taken
       /\ \A i \in taken : i <= next
  <2>1. CASE covered = taken
    <3>1. \A i \in start + 1 .. end : i <= end
      BY <1>6, <1>7
    <3>. QED  BY <1>7, <1>8, <2>1, <3>1
  <2>2. CASE covered # taken
    <3>1. covered \ taken \in SUBSET Nat /\ covered \ taken # {}
      BY Zenon, <1>9, <1>10, <2>2
    <3>. DEFINE m == Min(covered \ taken)
    <3>2. m \in covered \ taken /\ \A y \in covered \ taken : m <= y
      BY Zenon, <3>1, MinOfNats
    <3>3. m \in Nat /\ m > start /\ m \in start + 1 .. end /\ next = m - 1
      BY Zenon, <1>8, <1>9, <2>2, <3>2
    <3>. HIDE DEF m
    <3>4. next \in Nat /\ next <= end
      BY <1>6, <1>7, <3>3
    <3>5. \A i \in covered : i <= next => i \in taken
      <4>1. \A i \in covered : i <= next => ~(m <= i)
        BY <1>9, <3>3
      <4>. QED  BY Zenon, <3>2, <4>1
    <3>6. \A i \in taken : i <= next
      <4>1. \A i \in taken : i \in Nat /\ ~(m <= i)
        BY Zenon, <1>9, <1>10, <3>2
      <4>. QED  BY <3>3, <4>1
    <3>. QED  BY Zenon, <3>4, <3>5, <3>6
  <2>. QED  BY Zenon, <2>1, <2>2
<1>. HIDE DEF next
<1>12. token \in Resume /\ (token.phase = "backfill" => token.seq = next)
       /\ token.phase # "keyed"
  <2>1. /\ BackfillResume(next) \in Resume
        /\ BackfillResume(next).phase = "backfill" /\ BackfillResume(next).seq = next
    BY Zenon, <1>11, InitialValues DEF BackfillResume, NoResume, Resume
  <2>2. NoResume \in Resume /\ NoResume.phase = "none"
    BY Zenon, InitialValues DEF NoResume
  <2>. QED  BY Zenon, <2>1, <2>2
<1>. HIDE DEF token
<1>13. /\ page'[p].backfill = taken /\ page'[p].next = next /\ page'[p].resume = token
       /\ page'[p].head = page[p].head /\ page'[p].reset = page[p].reset
       /\ page'[p].runs = page[p].runs
  <2>1. page \in [Peers -> Page]
    BY Zenon, <1>0 DEF TypeOK
  <2>. QED  BY Zenon, <1>1, <1>3, <2>1 DEF Page
<1>14. TypeOK' /\ pc'[p] = "reply"
  <2>1. taken \subseteq Nat
    BY Zenon, <1>9, <1>10
  <2>2. [page[p] EXCEPT !.backfill = taken, !.next = next, !.resume = token] \in Page
    BY Zenon, <1>3, <1>11, <1>12, <2>1 DEF Page
  <2>3. page' \in [Peers -> Page]
    BY Zenon, <1>0, <1>1, <2>2 DEF TypeOK
  <2>4. /\ pc' \in [Peers -> {"idle", "ask", "keyed", "reply", "commit", "runs", "done"}]
        /\ pc'[p] = "reply"
    BY Zenon, <1>0, <1>1 DEF TypeOK
  <2>. QED  BY Zenon, <1>0, <1>1, <2>3, <2>4 DEF TypeOK
<1>15. ClaimIsHeld' /\ Behind(p)'
  BY Zenon, <1>0, <1>1, <1>14 DEF ClaimIsHeld, Behind, Kept
<1>16. PageFits(p)'
  <2>1. /\ cursors[p].after <= page[p].head /\ page[p].head <= Len(arr[p])
        /\ \A x \in Origins : asked[p][x] <= claims[x]
        /\ \A j \in 1 .. Len(page[p].runs) : RunFits(p, page[p].runs[j])
    BY Zenon, <1>0, <1>1, <1>2 DEF PageFits, OnPage
  <2>2. \A j \in 1 .. Len(page[p].runs) : RunFits(p, page[p].runs[j])'
    BY Zenon, <1>1, <1>13, <2>1 DEF RunFits
  <2>. QED  BY Zenon, <1>1, <1>12, <1>13, <2>1, <2>2 DEF PageFits
<1>17. Building(p)'
  BY Zenon, <1>14 DEF Building
<1>18. Complete(p)'
  <2>1. \A i : InRuns(p, arr[p][i])' <=> InRuns(p, arr[p][i])
    BY Zenon, <1>1, <1>13 DEF InRuns
  <2>2. resume[p].phase = "none" =>
         \A i \in 1 .. page[p].head :
           \/ arr[p][i].key <= asked[p][arr[p][i].origin]
           \/ InRuns(p, arr[p][i])
    BY Zenon, <1>0, <1>1 DEF Building
  <2>. QED  BY Zenon, <1>1, <1>13, <2>1, <2>2 DEF Complete
<1>19. Scanned(p)'
  <2>1. taken \subseteq 1 .. page[p].head
    <3>1. start + 1 .. end \subseteq 1 .. Len(arr[p])
      BY <1>3, <1>6, <1>7
    <3>. QED  BY Zenon, <1>2, <1>8, <1>10, <3>1
  <2>2. ASSUME NEW i \in cursors[p].after + 1 .. next
        PROVE  i \in taken \/ Kept(arr[p][i])'
    <3>1. i \in start + 1 .. end /\ i <= next /\ i \in 1 .. Len(arr[p])
      BY <1>3, <1>6, <1>7, <1>11
    <3>2. CASE arr[p][i].key <= claims[arr[p][i].origin]
      BY Zenon, <1>8, <1>11, <3>1, <3>2
    <3>3. CASE ~(arr[p][i].key <= claims[arr[p][i].origin])
      <4>1. arr[p][i].key > claims[arr[p][i].origin]
        BY <1>3, <3>1, <3>3
      <4>. QED  BY Zenon, <1>1, <4>1 DEF Kept
    <3>. QED  BY Zenon, <3>2, <3>3
  <2>3. next <= page[p].head /\ next <= next
    BY <1>2, <1>3, <1>7, <1>11
  <2>4. \A i \in taken :
          i <= next /\ (resume[p].phase = "backfill" => resume[p].seq <= i)
    <3>1. \A i \in taken : i \in Nat /\ i > start
      BY Zenon, <1>9, <1>10
    <3>. QED  BY <1>6, <1>11, <3>1
  <2>. QED  BY Zenon, <1>1, <1>2, <1>12, <1>13, <1>14, <2>1, <2>2, <2>3, <2>4 DEF Scanned
<1>. QED  BY Zenon, <1>14, <1>15, <1>16, <1>17, <1>18, <1>19, Focus

-----------------------------------------------------------------------------
(***************************************************************************)
(* Steps of the puller.                                                    *)
(***************************************************************************)

\* A reset starts the peer's stream again, or ends the drain.
LEMMA ApplyResetStep ==
  ASSUME Alone, IInv, NEW p \in Peers, ApplyReset(p)
  PROVE  IInv'
<1>0. TypeOK /\ ClaimIsHeld /\ Behind(p)
  BY Zenon DEF IInv
<1>1. UNCHANGED <<arr, epoch, held, known, claims, faults>>
  BY Zenon DEF ApplyReset, server
<1>2. CASE EndDrain(p, "idle") /\ UNCHANGED cursors
  <2>1. DrainType' /\ pc'[p] = "idle" /\ resume'[p] = NoResume
    BY Zenon, <1>0, <1>2, EndDrainEffect DEF TypeOK, DrainType
  <2>2. TypeOK'
    BY Zenon, <1>0, <1>1, <1>2, <2>1 DEF TypeOK, DrainType
  <2>3. ClaimIsHeld' /\ Behind(p)'
    BY <1>0, <1>1, <1>2, <2>1, BehindStays DEF ClaimIsHeld, NoResume
  <2>. QED  BY Zenon, <2>1, <2>2, <2>3, Between
<1>3. CASE ~(resetSeen[p] \/ ~page[p].reset)
  <2>1. /\ cursors' = [cursors EXCEPT ![p] = [epoch |-> page[p].epoch, after |-> 0]]
        /\ resetSeen' = [resetSeen EXCEPT ![p] = TRUE]
        /\ resume' = [resume EXCEPT ![p] = NoResume]
        /\ page' = [page EXCEPT ![p] = NoPage]
        /\ pc' = [pc EXCEPT ![p] = "ask"]
        /\ UNCHANGED <<asked, left, audit, progress, stalled>>
    BY Zenon, <1>3 DEF ApplyReset
  <2>2. page[p].epoch \in 0 .. MaxEpoch
    BY Zenon, <1>0, Parts, PageParts
  <2>3. /\ cursors' \in [Peers -> Cursor] /\ cursors'[p].after = 0
    BY Zenon, <1>0, <2>1, <2>2 DEF TypeOK, Cursor
  <2>4. /\ resume' \in [Peers -> Resume] /\ page' \in [Peers -> Page]
        /\ resume'[p] = NoResume
    BY Zenon, <1>0, <2>1, InitialValues DEF TypeOK
  <2>5. /\ pc' \in [Peers -> {"idle", "ask", "keyed", "reply", "commit", "runs", "done"}]
        /\ pc'[p] = "ask" /\ resetSeen' \in [Peers -> BOOLEAN]
    BY Zenon, <1>0, <2>1 DEF TypeOK
  <2>6. TypeOK'
    BY Zenon, <1>0, <1>1, <2>1, <2>3, <2>4, <2>5 DEF TypeOK
  <2>7. ClaimIsHeld'
    BY Zenon, <1>0, <1>1 DEF ClaimIsHeld
  <2>8. Behind(p)'
    <3>1. Len(arr[p]) \in Nat
      BY Zenon, <1>0, Parts
    <3>2. 0 <= Len(arr'[p]) /\ 1 .. 0 = {}
      BY <1>1, <3>1
    <3>. QED  BY <2>3, <2>4, <2>5, <3>2 DEF Behind, NoResume
  <2>. QED  BY Zenon, <2>5, <2>6, <2>7, <2>8, Between
<1>. QED  BY Zenon, <1>2, <1>3 DEF ApplyReset

\* What stays of a page when only the log and the cursor move.
LEMMA PageStays ==
  ASSUME TypeOK, NEW p \in Peers, PageFits(p), Complete(p),
         UNCHANGED <<arr, claims, drain>>, held \subseteq held',
         ~page[p].reset, pc[p] \in {"reply", "commit"},
         cursors'[p].after <= page[p].head
  PROVE  PageFits(p)' /\ Complete(p)'
<1>1. UNCHANGED <<arr, claims, resume, asked, left, page>>
  BY Zenon DEF drain
<1>2. OnPage(p)
  BY Zenon DEF OnPage
<1>3. \A j \in 1 .. Len(page[p].runs) : RunFits(p, page[p].runs[j])'
  BY Zenon, <1>1, <1>2 DEF PageFits, RunFits
<1>4. InRuns(p, page[p].resume)' <=> InRuns(p, page[p].resume)
  BY Zenon, <1>1 DEF InRuns
<1>5. PageFits(p)'
  BY Zenon, <1>1, <1>2, <1>3, <1>4 DEF PageFits
<1>6. \A i : InRuns(p, arr[p][i])' <=> InRuns(p, arr[p][i])
  BY Zenon, <1>1 DEF InRuns
<1>7. Complete(p)'
  BY Zenon, <1>1, <1>2, <1>6 DEF Complete
<1>. QED  BY Zenon, <1>5, <1>7

\* The cursor moves over what was scanned.
LEMMA CommitNextStep ==
  ASSUME Alone, IInv, NEW p \in Peers, CommitNext(p)
  PROVE  IInv'
<1>0. /\ TypeOK /\ ClaimIsHeld /\ Behind(p) /\ PageFits(p) /\ Complete(p)
      /\ Scanned(p)
  BY Zenon DEF IInv
<1>1. /\ pc[p] = "commit"
      /\ cursors' = [cursors EXCEPT ![p].after = Larger(@, page[p].next)]
      /\ pc' = [pc EXCEPT ![p] = "runs"]
      /\ UNCHANGED <<arr, epoch, held, known, claims, drain, faults>>
  BY Zenon DEF CommitNext, server
<1>2. UNCHANGED <<audit, resume, asked, left, page, resetSeen, progress, stalled>>
  BY Zenon, <1>1 DEF drain, round
<1>3. /\ cursors[p].after \in Nat /\ cursors[p] \in Cursor /\ Len(arr[p]) \in Nat
      /\ page[p].next \in Nat /\ page[p].head \in Nat
  BY Zenon, <1>0, Parts, PageParts
<1>4. cursors \in [Peers -> Cursor]
  BY Zenon, <1>0 DEF TypeOK
<1>5. cursors'[p].after = Larger(cursors[p].after, page[p].next)
  BY Zenon, <1>1, <1>3, <1>4 DEF Cursor
<1>6. Larger(cursors[p].after, page[p].next) \in Nat
  BY Zenon, <1>3 DEF Larger
<1>7. cursors' \in [Peers -> Cursor]
  BY Zenon, <1>1, <1>3, <1>4, <1>6 DEF Cursor
<1>8. /\ pc' \in [Peers -> {"idle", "ask", "keyed", "reply", "commit", "runs", "done"}]
      /\ pc'[p] = "runs"
  BY Zenon, <1>0, <1>1 DEF TypeOK
<1>9. TypeOK' /\ ClaimIsHeld'
  BY Zenon, <1>0, <1>1, <1>2, <1>7, <1>8 DEF TypeOK, ClaimIsHeld
<1>10. /\ ~page[p].reset /\ page[p].next <= page[p].head
       /\ \A i \in 1 .. page[p].next : Kept(arr[p][i])
       /\ page[p].resume.phase = "backfill" => page[p].resume.seq <= page[p].next
  BY Zenon, <1>0, <1>1 DEF Scanned
<1>11. cursors[p].after <= page[p].head /\ page[p].head <= Len(arr[p])
  BY Zenon, <1>0, <1>1, <1>10 DEF PageFits, OnPage
<1>12. cursors'[p].after <= page[p].head /\ cursors'[p].after <= Len(arr[p])
       /\ cursors[p].after <= cursors'[p].after /\ page[p].next <= cursors'[p].after
       /\ cursors'[p].after \in Nat
  BY <1>3, <1>5, <1>10, <1>11 DEF Larger
<1>13. Behind(p)'
  <2>1. ASSUME NEW i \in 1 .. cursors'[p].after PROVE Kept(arr[p][i])
    <3>1. i \in 1 .. cursors[p].after \/ i \in 1 .. page[p].next
      BY Zenon, <1>3, <1>5 DEF Larger
    <3>. QED  BY Zenon, <1>0, <1>10, <3>1 DEF Behind
  <2>2. \A i \in 1 .. cursors'[p].after : Kept(arr[p][i])'
    BY Zenon, <1>1, <2>1 DEF Kept
  <2>3. resume[p].seq \in Nat
    BY Zenon, <1>0, Parts
  <2>4. resume[p].phase = "backfill" => resume[p].seq <= cursors'[p].after
    BY <1>0, <1>3, <1>12, <2>3 DEF Behind
  <2>. QED  BY Zenon, <1>0, <1>1, <1>2, <1>8, <1>12, <2>2, <2>4 DEF Behind
<1>14. PageFits(p)' /\ Complete(p)'
  BY Zenon, <1>0, <1>1, <1>10, <1>12, PageStays
<1>15. Building(p)'
  BY Zenon, <1>8 DEF Building
<1>16. Scanned(p)'
  <2>1. page[p].resume.seq \in Nat
    BY Zenon, <1>0, Parts, PageParts
  <2>2. page[p].resume.phase = "backfill" => page[p].resume.seq <= cursors'[p].after
    BY <1>3, <1>10, <1>12, <2>1
  <2>. QED  BY Zenon, <1>2, <1>8, <1>10, <2>2 DEF Scanned
<1>. QED  BY Zenon, <1>9, <1>13, <1>14, <1>15, <1>16, Focus

\* What is before the first stop is closed downwards.
LEMMA BeforeFacts ==
  ASSUME NEW S \in SUBSET Nat, NEW stops \in SUBSET Nat
  PROVE  /\ Before(S, stops) \subseteq S
         /\ \A x \in S : \A y \in Before(S, stops) : x <= y => x \in Before(S, stops)
         /\ stops = {} => Before(S, stops) = S
<1>1. ASSUME NEW x \in S, NEW y \in Before(S, stops), x <= y
      PROVE  x \in Before(S, stops)
  <2>1. x \in Nat /\ y \in Nat /\ \A z \in stops : z \in Nat /\ y < z
    BY Zenon DEF Before
  <2>2. \A z \in stops : x < z
    BY <1>1, <2>1
  <2>. QED  BY Zenon, <2>2 DEF Before
<1>. QED  BY Zenon, <1>1 DEF Before

\* The backfill is admitted: the cursor follows what is held.
LEMMA AdmitBackfillStep ==
  ASSUME Alone, IInv, NEW p \in Peers, AdmitBackfill(p)
  PROVE  IInv'
<1>0. /\ TypeOK /\ ClaimIsHeld /\ Behind(p) /\ PageFits(p) /\ Complete(p)
      /\ Scanned(p)
  BY Zenon DEF IInv
<1>. DEFINE taken == page[p].backfill
            unknown == {i \in taken : arr[p][i].origin \notin known}
<1>1. PICK bad \in SUBSET taken :
        LET stops == bad \cup unknown
            admitted == Before(taken, stops)
        IN /\ Refuses(taken \ unknown, bad)
           /\ held' = held \cup {arr[p][i] : i \in admitted}
           /\ cursors' = [cursors EXCEPT ![p] =
                [epoch |-> page[p].epoch,
                 after |-> IF admitted = {} THEN @.after ELSE Max(admitted)]]
           /\ IF stops = {}
              THEN pc' = [pc EXCEPT ![p] = "commit"] /\ UNCHANGED drain
              ELSE EndDrain(p, "idle")
  BY Zenon DEF AdmitBackfill
<1>. DEFINE stops == bad \cup unknown
            admitted == Before(taken, stops)
            after == IF admitted = {} THEN cursors[p].after ELSE Max(admitted)
<1>2. /\ pc[p] = "reply" /\ ~page[p].reset
      /\ UNCHANGED <<arr, epoch, known, claims>>
  BY Zenon DEF AdmitBackfill, server
<1>3. /\ cursors[p].after \in Nat /\ cursors[p] \in Cursor /\ Len(arr[p]) \in Nat
      /\ page[p].next \in Nat /\ page[p].head \in Nat /\ taken \subseteq Nat
      /\ page[p].epoch \in 0 .. MaxEpoch /\ resume[p].seq \in Nat
      /\ \A i \in 1 .. Len(arr[p]) : arr[p][i] \in Op
  BY Zenon, <1>0, Parts, PageParts
<1>4. /\ page[p].next <= page[p].head /\ taken \subseteq 1 .. page[p].head
      /\ \A i \in taken :
           i <= page[p].next /\ (resume[p].phase = "backfill" => resume[p].seq <= i)
      /\ \A i \in cursors[p].after + 1 .. page[p].next : i \in taken \/ Kept(arr[p][i])
      /\ asked[p] = claims
      /\ page[p].resume.phase = "backfill" => page[p].resume.seq <= page[p].next
  BY Zenon, <1>0, <1>2 DEF Scanned
<1>5. cursors[p].after <= page[p].head /\ page[p].head <= Len(arr[p])
  BY Zenon, <1>0, <1>2 DEF PageFits, OnPage
<1>6. /\ admitted \subseteq taken
      /\ \A x \in taken : \A y \in admitted : x <= y => x \in admitted
      /\ stops = {} => admitted = taken
  <2>1. stops \in SUBSET Nat /\ taken \in SUBSET Nat
    BY Zenon, <1>3
  <2>. HIDE DEF stops
  <2>. QED  BY Zenon, <2>1, BeforeFacts
<1>7. /\ held' = held \cup {arr[p][i] : i \in admitted}
      /\ cursors' = [cursors EXCEPT ![p] = [epoch |-> page[p].epoch, after |-> after]]
      /\ faults' = faults \/ faults' = faults + 1
  BY Zenon, <1>1 DEF Refuses
<1>8. stops = {} => pc' = [pc EXCEPT ![p] = "commit"] /\ UNCHANGED drain
  BY Zenon, <1>1
<1>9. stops # {} => EndDrain(p, "idle")
  BY Zenon, <1>1
<1>. HIDE DEF admitted, stops
<1>10. admitted # {} => Max(admitted) \in admitted /\ \A y \in admitted : y <= Max(admitted)
  <2>1. admitted \in SUBSET (0 .. page[p].head)
    <3>1. 1 .. page[p].head \subseteq 0 .. page[p].head
      BY <1>3
    <3>. QED  BY Zenon, <1>4, <1>6, <3>1
  <2>. QED  BY Zenon, <1>3, <2>1, MaxOfNats
<1>11. /\ after \in Nat /\ after <= page[p].head
       /\ after # cursors[p].after => after \in admitted
       /\ after # cursors[p].after => after <= page[p].next
  <2>1. CASE admitted = {}
    BY Zenon, <1>3, <1>5, <2>1
  <2>2. CASE admitted # {}
    <3>1. after = Max(admitted)
      BY Zenon, <2>2
    <3>. HIDE DEF after
    <3>2. after \in admitted /\ after \in taken
      BY Zenon, <1>6, <1>10, <2>2, <3>1
    <3>3. \A i \in 1 .. page[p].head : i \in Nat /\ i <= page[p].head
      BY <1>3
    <3>. QED  BY Zenon, <1>4, <3>2, <3>3
  <2>. QED  BY Zenon, <2>1, <2>2
<1>. HIDE DEF after
<1>12. held \subseteq held' /\ held' \subseteq Op
  <2>1. \A i \in admitted : i \in 1 .. Len(arr[p])
    <3>1. 1 .. page[p].head \subseteq 1 .. Len(arr[p])
      BY <1>3, <1>5
    <3>. QED  BY Zenon, <1>4, <1>6, <3>1
  <2>2. held \subseteq Op
    BY Zenon, <1>0 DEF TypeOK
  <2>. QED  BY Zenon, <1>3, <1>7, <2>1, <2>2
<1>13. cursors' \in [Peers -> Cursor] /\ cursors'[p].after = after
  <2>1. cursors \in [Peers -> Cursor]
    BY Zenon, <1>0 DEF TypeOK
  <2>2. [epoch |-> page[p].epoch, after |-> after] \in Cursor
    BY Zenon, <1>3, <1>11 DEF Cursor
  <2>. QED  BY Zenon, <1>7, <2>1, <2>2
<1>14. faults' \in Nat
  BY <1>0, <1>7 DEF TypeOK
<1>15. ClaimIsHeld'
  BY Zenon, <1>0, <1>2, <1>12 DEF ClaimIsHeld
<1>16. ASSUME NEW i \in Nat, Kept(arr[p][i]) PROVE Kept(arr[p][i])'
  BY Zenon, <1>2, <1>12, <1>16 DEF Kept
<1>17. ASSUME NEW i \in admitted PROVE Kept(arr[p][i])'
  BY Zenon, <1>2, <1>7 DEF Kept
<1>18. ASSUME NEW i \in 1 .. after PROVE Kept(arr[p][i])'
  <2>1. CASE i <= cursors[p].after
    <3>1. i \in 1 .. cursors[p].after /\ i \in Nat
      BY <1>3, <1>11, <2>1
    <3>. QED  BY Zenon, <1>0, <1>16, <3>1 DEF Behind
  <2>2. CASE ~(i <= cursors[p].after)
    <3>1. /\ after # cursors[p].after /\ i \in Nat /\ i <= after
          /\ i \in cursors[p].after + 1 .. page[p].next
      BY <1>3, <1>11, <2>2
    <3>2. CASE i \in taken
      BY Zenon, <1>6, <1>11, <1>17, <3>1, <3>2
    <3>. QED  BY Zenon, <1>4, <1>16, <3>1, <3>2
  <2>. QED  BY Zenon, <2>1, <2>2
<1>19. after <= Len(arr[p])
  BY <1>3, <1>5, <1>11
<1>20. CASE stops # {}
  <2>1. DrainType' /\ pc'[p] = "idle" /\ resume'[p] = NoResume
    BY Zenon, <1>0, <1>9, <1>20, EndDrainEffect DEF TypeOK, DrainType
  <2>2. TypeOK'
    BY Zenon, <1>0, <1>2, <1>12, <1>13, <1>14, <2>1 DEF TypeOK, DrainType
  <2>3. Behind(p)'
    BY <1>2, <1>13, <1>18, <1>19, <2>1 DEF Behind, NoResume
  <2>. QED  BY Zenon, <1>15, <2>1, <2>2, <2>3, Between
<1>21. CASE stops = {}
  <2>1. /\ UNCHANGED <<audit, resume, asked, left, page, resetSeen, progress, stalled>>
        /\ pc' \in [Peers -> {"idle", "ask", "keyed", "reply", "commit", "runs", "done"}]
        /\ pc'[p] = "commit" /\ UNCHANGED drain /\ admitted = taken
    BY Zenon, <1>0, <1>6, <1>8, <1>21 DEF TypeOK, drain, round
  <2>2. TypeOK'
    BY Zenon, <1>0, <1>2, <1>12, <1>13, <1>14, <2>1 DEF TypeOK
  <2>3. resume[p].phase = "backfill" => resume[p].seq <= after
    <3>1. CASE after = cursors[p].after
      BY Zenon, <1>0, <3>1 DEF Behind
    <3>2. CASE after # cursors[p].after
      BY Zenon, <1>4, <1>6, <1>11, <3>2
    <3>. QED  BY Zenon, <3>1, <3>2
  <2>4. Behind(p)'
    BY Zenon, <1>0, <1>2, <1>13, <1>18, <1>19, <2>1, <2>3 DEF Behind
  <2>5. PageFits(p)' /\ Complete(p)'
    BY Zenon, <1>0, <1>2, <1>11, <1>12, <1>13, <2>1, PageStays
  <2>6. Building(p)'
    BY Zenon, <2>1 DEF Building
  <2>7. ASSUME NEW i \in 1 .. page[p].next PROVE Kept(arr[p][i])'
    <3>1. CASE i <= cursors[p].after
      <4>1. i \in 1 .. cursors[p].after /\ i \in Nat
        BY <1>3, <3>1
      <4>. QED  BY Zenon, <1>0, <1>16, <4>1 DEF Behind
    <3>2. CASE ~(i <= cursors[p].after)
      <4>1. i \in cursors[p].after + 1 .. page[p].next /\ i \in Nat
        BY <1>3, <3>2
      <4>. QED  BY Zenon, <1>4, <1>16, <1>17, <2>1, <4>1
    <3>. QED  BY Zenon, <3>1, <3>2
  <2>8. Scanned(p)'
    BY Zenon, <1>2, <1>4, <2>1, <2>7 DEF Scanned
  <2>. QED  BY Zenon, <1>15, <2>2, <2>4, <2>5, <2>6, <2>8, Focus
<1>. QED  BY Zenon, <1>20, <1>21

\* A keyed run is admitted up to the first refusal, and the claim follows: what
\* the new claim covers was in the run, since the run fits.
LEMMA AdmitRunStep ==
  ASSUME Alone, IInv, NEW p \in Peers, AdmitRun(p)
  PROVE  IInv'
<1>0. /\ TypeOK /\ ClaimIsHeld /\ Behind(p) /\ PageFits(p) /\ Complete(p)
      /\ Scanned(p)
  BY Zenon DEF IInv
<1>. DEFINE run == Head(page[p].runs)
            attested == run.origin \in known
<1>1. PICK bad \in SUBSET run.keys :
        LET admitted == IF attested THEN Before(run.keys, bad) ELSE {}
        IN /\ Refuses(IF attested THEN run.keys ELSE {}, bad)
           /\ held' = held \cup [origin : {run.origin}, key : admitted]
           /\ claims' = IF admitted = {} THEN claims
                        ELSE [claims EXCEPT ![run.origin] = Larger(@, Max(admitted))]
           /\ IF admitted = run.keys
              THEN /\ page' = [page EXCEPT ![p].runs = Tail(@)]
                   /\ UNCHANGED <<pc, resume, asked, left, round>>
              ELSE EndDrain(p, "idle")
  BY Zenon DEF AdmitRun
<1>. DEFINE admitted == IF attested THEN Before(run.keys, bad) ELSE {}
            o == run.origin
            top == Max(admitted)
<1>2. /\ pc[p] = "runs" /\ page[p].runs # <<>>
      /\ UNCHANGED <<arr, epoch, known, cursors>>
  BY Zenon DEF AdmitRun, server
<1>3. /\ cursors[p].after \in Nat /\ Len(arr[p]) \in Nat /\ page[p] \in Page
      /\ page[p].head \in Nat /\ page[p].runs \in Seq(Run) /\ Len(page[p].runs) \in Nat
      /\ \A i \in 1 .. Len(arr[p]) :
           /\ arr[p][i] \in Op /\ arr[p][i].origin \in Origins
           /\ arr[p][i].key \in Nat
      /\ \A x \in Origins : claims[x] \in 0 .. MaxKey /\ claims[x] \in Nat
      /\ \A x \in Origins : asked[p][x] \in Nat
      /\ resume[p].key \in Nat /\ resume[p].origin \in Origins
      /\ page[p].resume.key \in Nat /\ page[p].resume.origin \in Origins
  BY Zenon, <1>0, Parts, PageParts
<1>4. /\ run = page[p].runs[1] /\ 1 \in 1 .. Len(page[p].runs) /\ run \in Run
      /\ Tail(page[p].runs) \in Seq(Run)
      /\ Len(Tail(page[p].runs)) = Len(page[p].runs) - 1
      /\ \A j \in 1 .. Len(page[p].runs) - 1 :
           Tail(page[p].runs)[j] = page[p].runs[j + 1]
  BY <1>2, <1>3
<1>. HIDE DEF run
<1>5. o \in Origins /\ run.keys \in SUBSET (1 .. MaxKey) /\ MaxKey \in Nat
  BY Zenon, <1>4, PullAssumption DEF Run
<1>6. /\ ~page[p].reset
      /\ page[p].resume.phase = "backfill" => page[p].resume.seq <= cursors[p].after
  BY Zenon, <1>0, <1>2 DEF Scanned
<1>7. /\ cursors[p].after <= page[p].head /\ page[p].head <= Len(arr[p])
      /\ \A x \in Origins : asked[p][x] <= claims[x]
      /\ \A j \in 1 .. Len(page[p].runs) : RunFits(p, page[p].runs[j])
      /\ page[p].resume.phase = "keyed" =>
           \/ page[p].resume.key <= claims[page[p].resume.origin]
           \/ InRuns(p, page[p].resume)
  BY Zenon, <1>0, <1>2, <1>6 DEF PageFits, OnPage
<1>8. RunFits(p, run)
  BY Zenon, <1>4, <1>7
<1>9. /\ held' = held \cup [origin : {o}, key : admitted]
      /\ admitted = {} => claims' = claims
      /\ admitted # {} => claims' = [claims EXCEPT ![o] = Larger(@, top)]
      /\ faults' = faults \/ faults' = faults + 1
  BY Zenon, <1>1 DEF Refuses
<1>10. admitted = run.keys =>
         /\ page' = [page EXCEPT ![p].runs = Tail(@)]
         /\ UNCHANGED <<pc, resume, asked, left, round>>
  BY Zenon, <1>1
<1>11. admitted # run.keys => EndDrain(p, "idle")
  BY Zenon, <1>1
<1>12. /\ admitted \subseteq run.keys
       /\ \A x \in run.keys : \A y \in admitted : x <= y => x \in admitted
  <2>1. run.keys \in SUBSET Nat /\ bad \in SUBSET Nat
    BY <1>5
  <2>2. /\ Before(run.keys, bad) \subseteq run.keys
        /\ \A x \in run.keys : \A y \in Before(run.keys, bad) :
             x <= y => x \in Before(run.keys, bad)
    BY Zenon, <2>1, BeforeFacts
  <2>. QED  BY Zenon, <2>2
<1>. HIDE DEF admitted
<1>13. admitted \in SUBSET (1 .. MaxKey) /\ \A k \in admitted : k \in Nat
  BY <1>5, <1>12
<1>14. admitted # {} => top \in admitted /\ \A y \in admitted : y <= top
  <2>1. admitted \in SUBSET (0 .. MaxKey)
    BY <1>5, <1>13
  <2>. QED  BY Zenon, <1>5, <2>1, MaxOfNats
<1>. HIDE DEF top
<1>15. /\ claims' \in Claims
       /\ \A x \in Origins : claims'[x] \in Nat /\ claims[x] <= claims'[x]
       /\ \A x \in Origins : claims'[x] # claims[x] =>
            x = o /\ admitted # {} /\ claims'[x] = top
       /\ \A k \in admitted : k <= claims'[o]
  <2>1. CASE admitted = {}
    <3>1. claims' = claims /\ claims \in Claims
      BY Zenon, <1>0, <1>9, <2>1 DEF TypeOK
    <3>. QED  BY <1>3, <2>1, <3>1
  <2>2. CASE admitted # {}
    <3>1. claims \in [Origins -> 0 .. MaxKey] /\ top \in 0 .. MaxKey /\ top \in Nat
      <4>1. \A k \in 1 .. MaxKey : k \in 0 .. MaxKey /\ k \in Nat
        BY <1>5
      <4>. QED  BY Zenon, <1>0, <1>13, <1>14, <2>2, <4>1 DEF TypeOK, Claims
    <3>2. /\ Larger(claims[o], top) \in 0 .. MaxKey /\ Larger(claims[o], top) \in Nat
          /\ claims[o] <= Larger(claims[o], top) /\ top <= Larger(claims[o], top)
          /\ Larger(claims[o], top) = claims[o] \/ Larger(claims[o], top) = top
      BY <1>3, <1>5, <3>1 DEF Larger
    <3>3. claims' = [claims EXCEPT ![o] = Larger(claims[o], top)]
      BY Zenon, <1>9, <2>2
    <3>4. claims'[o] = Larger(claims[o], top) /\ \A x \in Origins \ {o} : claims'[x] = claims[x]
      BY Zenon, <1>5, <3>1, <3>3
    <3>5. claims' \in Claims
      BY Zenon, <3>1, <3>2, <3>3 DEF Claims
    <3>6. \A x \in Origins : claims'[x] \in Nat /\ claims[x] <= claims'[x]
      BY <1>3, <3>2, <3>4
    <3>7. \A k \in admitted : k <= claims'[o]
      <4>1. SUFFICES ASSUME NEW k \in admitted PROVE k <= claims'[o]
        BY Zenon
      <4>2. k \in Nat /\ k <= top
        BY Zenon, <1>13, <1>14, <4>1
      <4>3. claims'[o] \in Nat /\ top <= claims'[o]
        BY Zenon, <3>2, <3>4
      <4>. QED  BY <3>1, <4>2, <4>3
    <3>. QED  BY Zenon, <2>2, <3>2, <3>4, <3>5, <3>6, <3>7
  <2>. QED  BY Zenon, <2>1, <2>2
<1>16. /\ held \subseteq held' /\ held' \subseteq Op
       /\ \A x \in Op : x.origin = o /\ x.key \in admitted => x \in held'
  <2>1. held \subseteq Op
    BY Zenon, <1>0 DEF TypeOK
  <2>2. [origin : {o}, key : admitted] \subseteq Op
    BY Zenon, <1>5, <1>13 DEF Op
  <2>3. \A x \in Op : x.origin = o /\ x.key \in admitted =>
          x \in [origin : {o}, key : admitted]
    BY Zenon DEF Op
  <2>. QED  BY Zenon, <1>9, <2>1, <2>2, <2>3
<1>17. ClaimIsHeld'
  <2>1. ASSUME NEW x \in Origins, claims'[x] # 0
        PROVE  [origin |-> x, key |-> claims'[x]] \in held'
    <3>1. CASE claims'[x] = claims[x]
      BY Zenon, <1>0, <1>16, <2>1, <3>1 DEF ClaimIsHeld
    <3>2. CASE claims'[x] # claims[x]
      <4>1. x = o /\ claims'[x] \in admitted
        BY Zenon, <1>14, <1>15, <3>2
      <4>. QED  BY Zenon, <1>9, <4>1
    <3>. QED  BY Zenon, <3>1, <3>2
  <2>. QED  BY Zenon, <2>1 DEF ClaimIsHeld
<1>18. ASSUME NEW i \in 1 .. page[p].head, Kept(arr[p][i])
       PROVE  Kept(arr[p][i])'
  <2>. DEFINE x == arr[p][i]
  <2>1. /\ x \in Op /\ x.origin \in Origins /\ x.key \in Nat
        /\ arr'[p][i] = x
    BY <1>2, <1>3, <1>7
  <2>2. CASE x \in held
    BY Zenon, <1>16, <2>1, <2>2 DEF Kept
  <2>3. CASE x.key > claims[x.origin]
    <3>1. CASE claims'[x.origin] = claims[x.origin]
      BY Zenon, <2>1, <2>3, <3>1 DEF Kept
    <3>2. CASE claims'[x.origin] # claims[x.origin] /\ x.key <= top
      <4>1. x.origin = o /\ top \in admitted /\ top \in run.keys
        BY Zenon, <1>12, <1>14, <1>15, <2>1, <3>2
      <4>2. x.key \in run.keys
        BY Zenon, <1>8, <2>3, <3>2, <4>1 DEF RunFits
      <4>3. x.key \in admitted
        BY Zenon, <1>12, <3>2, <4>1, <4>2
      <4>. QED  BY Zenon, <1>16, <2>1, <4>1, <4>3 DEF Kept
    <3>3. CASE claims'[x.origin] # claims[x.origin] /\ ~(x.key <= top)
      <4>1. claims'[x.origin] = top /\ top \in Nat
        BY Zenon, <1>13, <1>14, <1>15, <2>1, <3>3
      <4>2. x.key > claims'[x.origin]
        BY <2>1, <3>3, <4>1
      <4>. QED  BY Zenon, <2>1, <4>2 DEF Kept
    <3>. QED  BY Zenon, <3>1, <3>2, <3>3
  <2>. HIDE DEF x
  <2>. QED  BY Zenon, <1>18, <2>2, <2>3 DEF Kept, x
<1>19. \A i \in 1 .. cursors[p].after : Kept(arr[p][i])'
  <2>1. \A i \in 1 .. cursors[p].after : i \in 1 .. page[p].head
    BY <1>3, <1>7
  <2>. QED  BY Zenon, <1>0, <1>18, <2>1 DEF Behind
<1>20. faults' \in Nat
  BY <1>0, <1>9 DEF TypeOK
<1>21. cursors[p].after <= Len(arr[p])
  BY Zenon, <1>0 DEF Behind
<1>22. CASE admitted # run.keys
  <2>1. DrainType' /\ pc'[p] = "idle" /\ resume'[p] = NoResume
    BY Zenon, <1>0, <1>11, <1>22, EndDrainEffect DEF TypeOK, DrainType
  <2>2. TypeOK'
    BY Zenon, <1>0, <1>2, <1>15, <1>16, <1>20, <2>1 DEF TypeOK, DrainType
  <2>3. Behind(p)'
    BY <1>2, <1>19, <1>21, <2>1 DEF Behind, NoResume
  <2>. QED  BY Zenon, <1>17, <2>1, <2>2, <2>3, Between
<1>23. CASE admitted = run.keys
  <2>1. /\ page' = [page EXCEPT ![p].runs = Tail(@)]
        /\ UNCHANGED <<pc, audit, resume, asked, left, resetSeen, progress, stalled>>
    BY Zenon, <1>10, <1>23 DEF round
  <2>2. [page[p] EXCEPT !.runs = Tail(@)] \in Page
    BY Zenon, <1>3, <1>4 DEF Page
  <2>3. page' \in [Peers -> Page] /\ page'[p] = [page[p] EXCEPT !.runs = Tail(@)]
    BY Zenon, <1>0, <2>1, <2>2 DEF TypeOK
  <2>4. /\ page'[p].runs = Tail(page[p].runs) /\ page'[p].head = page[p].head
        /\ page'[p].reset = page[p].reset /\ page'[p].resume = page[p].resume
    BY Zenon, <1>3, <2>3 DEF Page
  <2>5. TypeOK'
    BY Zenon, <1>0, <1>2, <1>15, <1>16, <1>20, <2>1, <2>3 DEF TypeOK
  <2>6. Behind(p)'
    <3>1. resume[p].phase = "keyed" => resume[p].key <= claims'[resume[p].origin]
      <4>1. resume[p].phase = "keyed" => resume[p].key <= claims[resume[p].origin]
        BY Zenon, <1>0 DEF Behind
      <4>. QED  BY <1>3, <1>15, <4>1
    <3>. QED  BY Zenon, <1>0, <1>2, <1>19, <2>1, <3>1 DEF Behind
  <2>7. ASSUME NEW x, InRuns(p, x)
        PROVE  \/ x.origin = o /\ x.key \in admitted
               \/ \E j \in 1 .. Len(page'[p].runs) :
                    /\ page'[p].runs[j].origin = x.origin
                    /\ x.key \in page'[p].runs[j].keys
    <3>1. PICK j \in 1 .. Len(page[p].runs) :
            page[p].runs[j].origin = x.origin /\ x.key \in page[p].runs[j].keys
      BY Zenon, <2>7 DEF InRuns
    <3>2. CASE j = 1
      BY Zenon, <1>4, <1>23, <3>1, <3>2
    <3>3. CASE j # 1
      <4>1. j - 1 \in 1 .. Len(page[p].runs) - 1 /\ (j - 1) + 1 = j
        BY <1>3, <3>3
      <4>2. page'[p].runs[j - 1] = page[p].runs[j] /\ j - 1 \in 1 .. Len(page'[p].runs)
        BY Zenon, <1>4, <2>4, <4>1
      <4>. QED  BY Zenon, <3>1, <4>2
    <3>. QED  BY Zenon, <3>2, <3>3
  <2>8. ASSUME NEW j \in 1 .. Len(page'[p].runs) PROVE RunFits(p, page[p].runs[j])'
    <3>1. j + 1 \in 1 .. Len(page[p].runs) /\ page'[p].runs[j] = page[p].runs[j + 1]
      BY <1>3, <1>4, <2>4
    <3>. DEFINE r == page[p].runs[j + 1]
    <3>2. r \in Run /\ RunFits(p, r)
      BY <1>3, <1>7, <3>1
    <3>3. r.origin \in Origins
      BY Zenon, <3>2 DEF Run
    <3>. HIDE DEF r
    <3>4. ASSUME NEW i \in 1 .. page[p].head, arr[p][i].origin = r.origin,
                 arr[p][i].key > claims'[r.origin]
          PROVE  arr[p][i].key > claims[r.origin]
      <4>1. i \in 1 .. Len(arr[p])
        <5>1. /\ page[p].head \in Nat /\ page[p].head <= Len(arr[p])
              /\ Len(arr[p]) \in Nat
          BY Zenon, <1>3, <1>7
        <5>. QED  BY <5>1
      <4>2. arr[p][i].key \in Nat /\ claims[r.origin] \in Nat /\ claims'[r.origin] \in Nat
            /\ claims[r.origin] <= claims'[r.origin]
        BY Zenon, <1>3, <1>15, <3>3, <4>1
      <4>. QED  BY <3>4, <4>2
    <3>5. page'[p].runs[j] = r
      BY Zenon, <3>1 DEF r
    <3>. QED  BY Zenon, <1>2, <2>4, <3>2, <3>4, <3>5 DEF RunFits
  <2>9. PageFits(p)'
    <3>1. \A x \in Origins : asked[p][x] <= claims'[x]
      BY <1>3, <1>7, <1>15
    <3>2. ASSUME page[p].resume.phase = "keyed"
          PROVE  \/ page[p].resume.key <= claims'[page[p].resume.origin]
                 \/ InRuns(p, page[p].resume)'
      <4>1. CASE page[p].resume.key <= claims[page[p].resume.origin]
        <5>. DEFINE t == page[p].resume
        <5>1. /\ t.key \in Nat /\ claims[t.origin] \in Nat /\ claims'[t.origin] \in Nat
              /\ claims[t.origin] <= claims'[t.origin] /\ t.key <= claims[t.origin]
          BY Zenon, <1>3, <1>15, <4>1
        <5>. HIDE DEF t
        <5>2. t.key <= claims'[t.origin]
          BY <5>1
        <5>. QED  BY Zenon, <5>2 DEF t
      <4>2. CASE InRuns(p, page[p].resume)
        BY Zenon, <1>15, <2>4, <2>7, <4>2 DEF InRuns
      <4>. QED  BY Zenon, <1>7, <3>2, <4>1, <4>2
    <3>. QED  BY Zenon, <1>2, <1>7, <2>1, <2>4, <2>8, <3>1, <3>2 DEF PageFits
  <2>10. Building(p)'
    BY Zenon, <1>2, <2>1 DEF Building
  <2>11. Complete(p)'
    <3>1. SUFFICES ASSUME resume[p].phase = "none", page[p].resume.phase = "none",
                          NEW i \in 1 .. page[p].head
                   PROVE  \/ arr[p][i].key <= asked[p][arr[p][i].origin]
                          \/ arr[p][i] \in held'
                          \/ InRuns(p, arr[p][i])'
      BY Zenon, <1>2, <2>1, <2>4 DEF Complete
    <3>2. \/ arr[p][i].key <= asked[p][arr[p][i].origin]
          \/ arr[p][i] \in held
          \/ InRuns(p, arr[p][i])
      BY Zenon, <1>0, <1>2, <1>6, <3>1 DEF Complete, OnPage
    <3>3. arr[p][i] \in Op
      <4>1. i \in 1 .. Len(arr[p])
        <5>1. /\ page[p].head \in Nat /\ page[p].head <= Len(arr[p])
              /\ Len(arr[p]) \in Nat
          BY Zenon, <1>3, <1>7
        <5>. QED  BY <5>1
      <4>. QED  BY Zenon, <1>3, <4>1
    <3>4. CASE InRuns(p, arr[p][i])
      BY Zenon, <1>2, <1>16, <2>7, <3>3, <3>4 DEF InRuns
    <3>. QED  BY Zenon, <1>16, <3>2, <3>4
  <2>12. Scanned(p)'
    BY Zenon, <1>2, <1>6, <2>1, <2>4 DEF Scanned
  <2>. QED  BY Zenon, <1>17, <2>5, <2>6, <2>9, <2>10, <2>11, <2>12, Focus
<1>. QED  BY Zenon, <1>22, <1>23

\* The end of a page: the drain is over, gives up, or asks for the next page with
\* the token of this one.
LEMMA DecideStep ==
  ASSUME Alone, IInv, NEW p \in Peers, Decide(p)
  PROVE  IInv'
<1>0. /\ TypeOK /\ DrainType /\ ClaimIsHeld /\ Behind(p) /\ PageFits(p) /\ Complete(p)
      /\ Scanned(p)
  BY Zenon DEF IInv, TypeOK, DrainType
<1>1. /\ pc[p] = "runs" /\ page[p].runs = <<>>
      /\ UNCHANGED <<arr, epoch, held, known, claims, cursors, faults>>
  BY Zenon DEF Decide, server, puller
<1>2. /\ ClaimIsHeld'
      /\ \A i \in 1 .. cursors[p].after : Kept(arr[p][i])'
      /\ cursors'[p].after <= Len(arr'[p])
  BY Zenon, <1>0, <1>1 DEF ClaimIsHeld, Behind, Kept
<1>3. ~page[p].reset /\ \A x : ~InRuns(p, x)
  <2>1. Len(page[p].runs) = 0
    BY <1>1
  <2>2. ~ \E j \in 1 .. 0 : TRUE
    OBVIOUS
  <2>. QED  BY Zenon, <1>0, <1>1, <2>1, <2>2 DEF Scanned, InRuns
<1>4. CASE page[p].resume = NoResume /\ resume[p] = NoResume /\ EndDrain(p, "done")
  <2>1. DrainType' /\ pc'[p] = "done" /\ resume'[p] = NoResume
    BY Zenon, <1>0, <1>4, EndDrainEffect
  <2>2. TypeOK'
    BY Zenon, <1>0, <1>1, <2>1 DEF TypeOK, DrainType
  <2>3. ASSUME NEW i \in 1 .. cursors[p].after PROVE arr[p][i] \in held
    <3>1. /\ cursors[p].after \in Nat /\ page[p].head \in Nat /\ Len(arr[p]) \in Nat
          /\ \A j \in 1 .. Len(arr[p]) :
               arr[p][j].origin \in Origins /\ arr[p][j].key \in Nat
          /\ \A o \in Origins : claims[o] \in Nat /\ asked[p][o] \in Nat
      BY Zenon, <1>0, Parts, PageParts
    <3>2. /\ cursors[p].after <= page[p].head /\ page[p].head <= Len(arr[p])
          /\ \A o \in Origins : asked[p][o] <= claims[o]
      BY Zenon, <1>0, <1>1, <1>3 DEF PageFits, OnPage
    <3>3. i \in 1 .. page[p].head /\ i \in 1 .. Len(arr[p])
      BY <3>1, <3>2
    <3>4. resume[p].phase = "none" /\ page[p].resume.phase = "none"
      BY <1>4 DEF NoResume
    <3>5. arr[p][i] \in held \/ arr[p][i].key <= asked[p][arr[p][i].origin]
      BY Zenon, <1>0, <1>1, <1>3, <3>3, <3>4 DEF Complete, OnPage
    <3>6. arr[p][i] \in held \/ arr[p][i].key > claims[arr[p][i].origin]
      BY Zenon, <1>0 DEF Behind, Kept
    <3>7. arr[p][i].origin \in Origins /\ arr[p][i].key \in Nat
      BY Zenon, <3>1, <3>3
    <3>8. /\ asked[p][arr[p][i].origin] \in Nat /\ claims[arr[p][i].origin] \in Nat
          /\ asked[p][arr[p][i].origin] <= claims[arr[p][i].origin]
      BY Zenon, <3>1, <3>2, <3>7
    <3>9. ~(/\ arr[p][i].key <= asked[p][arr[p][i].origin]
            /\ arr[p][i].key > claims[arr[p][i].origin])
      BY <3>7, <3>8
    <3>. QED  BY Zenon, <3>5, <3>6, <3>9
  <2>4. Behind(p)'
    <3>1. resume'[p].phase = "none"
      BY <2>1 DEF NoResume
    <3>. QED  BY Zenon, <1>1, <1>2, <2>1, <2>3, <3>1 DEF Behind
  <2>. QED  BY Zenon, <1>2, <2>1, <2>2, <2>4, Between
<1>5. CASE EndDrain(p, "idle")
  <2>1. DrainType' /\ pc'[p] = "idle" /\ resume'[p] = NoResume
    BY Zenon, <1>0, <1>5, EndDrainEffect
  <2>2. TypeOK'
    BY Zenon, <1>0, <1>1, <2>1 DEF TypeOK, DrainType
  <2>3. Behind(p)'
    <3>1. resume'[p].phase = "none"
      BY <2>1 DEF NoResume
    <3>. QED  BY Zenon, <1>1, <1>2, <2>1, <3>1 DEF Behind
  <2>. QED  BY Zenon, <1>2, <2>1, <2>2, <2>3, Between
<1>. DEFINE token == page[p].resume
            here == <<cursors[p].after, token>>
            stalls == IF progress[p] = here THEN stalled[p] + 1 ELSE 0
<1>6. CASE /\ pc' = [pc EXCEPT ![p] = "ask"]
           /\ resume' = [resume EXCEPT ![p] = token]
           /\ page' = [page EXCEPT ![p] = NoPage]
           /\ progress' = [progress EXCEPT ![p] = IF token = NoResume THEN @ ELSE here]
           /\ stalled' = [stalled EXCEPT ![p] = IF token = NoResume THEN @ ELSE stalls]
           /\ UNCHANGED <<asked, left, audit, resetSeen>>
  <2>1. token \in Resume /\ here \in Nat \X Resume /\ stalls \in Nat
    <3>1. token \in Resume /\ cursors[p].after \in Nat
      BY Zenon, <1>0, Parts, PageParts
    <3>2. stalled[p] \in Nat
      BY Zenon, <1>0 DEF TypeOK
    <3>. QED  BY <3>1, <3>2
  <2>. HIDE DEF token, here, stalls
  <2>2. /\ pc' \in [Peers -> {"idle", "ask", "keyed", "reply", "commit", "runs", "done"}]
        /\ pc'[p] = "ask"
    BY Zenon, <1>0, <1>6 DEF TypeOK
  <2>3. resume' \in [Peers -> Resume] /\ resume'[p] = token
    BY Zenon, <1>0, <1>6, <2>1 DEF TypeOK
  <2>4. page' \in [Peers -> Page]
    BY Zenon, <1>0, <1>6, InitialValues DEF TypeOK
  <2>5. progress' \in [Peers -> Nat \X Resume]
    <3>1. progress \in [Peers -> Nat \X Resume]
      BY Zenon, <1>0 DEF TypeOK
    <3>. QED  BY Zenon, <1>6, <2>1, <3>1
  <2>6. stalled' \in [Peers -> Nat]
    <3>1. stalled \in [Peers -> Nat]
      BY Zenon, <1>0 DEF TypeOK
    <3>. QED  BY Zenon, <1>6, <2>1, <3>1
  <2>7. TypeOK'
    BY Zenon, <1>0, <1>1, <1>6, <2>2, <2>3, <2>4, <2>5, <2>6 DEF TypeOK
  <2>8. /\ token.phase = "keyed" => token.key <= claims[token.origin]
        /\ token.phase = "backfill" => token.seq <= cursors[p].after
    BY Zenon, <1>0, <1>1, <1>3 DEF PageFits, OnPage, Scanned, token
  <2>9. Behind(p)'
    BY Zenon, <1>1, <1>2, <2>2, <2>3, <2>8 DEF Behind
  <2>. QED  BY Zenon, <1>2, <2>2, <2>7, <2>9, Between
<1>. QED  BY Zenon, <1>4, <1>5, <1>6 DEF Decide

(***************************************************************************)
(* The theorems.                                                           *)
(***************************************************************************)

\* The exchange with the peer's log quiet while a page is built from it.
QuietSpec == Init /\ [][Next /\ QuietBuild]_vars

\* The logs, the claims and the cursors start empty.
LEMMA InitInv ==
  ASSUME Alone, Init
  PROVE  IInv
<1>1. PICK p \in Peers : Peers = {p}
  BY Zenon DEF Alone
<1>2. /\ AnOrigin \in Origins /\ NoResume \in Resume /\ NoClaims \in Claims
      /\ NoPage \in Page /\ <<0, NoResume>> \in Nat \X Resume
  BY Zenon, <1>1, InitialValues
<1>3. 1 \in 1 .. MaxEpoch /\ [epoch |-> 0, after |-> 0] \in Cursor
  BY PullAssumption DEF Cursor
<1>4. known \subseteq Origins
  BY Zenon, PullAssumption DEF Init
<1>5. TypeOK
  BY <1>2, <1>3, <1>4 DEF Init, TypeOK
<1>6. ClaimIsHeld
  BY Zenon DEF Init, ClaimIsHeld, NoClaims
<1>7. Behind(p)
  <2>1. /\ arr[p] = <<>> /\ cursors[p].after = 0 /\ resume[p] = NoResume
        /\ pc[p] = "idle"
    BY Zenon DEF Init
  <2>2. Len(arr[p]) = 0 /\ resume[p].phase = "none"
    BY <2>1 DEF NoResume
  <2>. QED  BY <2>1, <2>2 DEF Behind
<1>8. PageFits(p) /\ Building(p) /\ Complete(p) /\ Scanned(p)
  <2>1. pc[p] = "idle"
    BY Zenon DEF Init
  <2>. QED  BY Zenon, <2>1 DEF PageFits, Building, Complete, Scanned, OnPage
<1>. QED  BY Zenon, <1>1, <1>5, <1>6, <1>7, <1>8 DEF IInv

\* Every step keeps the invariant.
LEMMA NextInv ==
  ASSUME Alone, IInv, Next, QuietBuild
  PROVE  IInv'
<1>1. CASE \E p \in Peers : (\E a \in Audits : StartDrain(p, a)) \/ Fail(p)
  BY Zenon, <1>1, OutsideStep
<1>2. CASE \E p \in Peers : Exchange(p)
  <2>1. PICK p \in Peers : Exchange(p)
    BY Zenon, <1>2
  <2>. QED  BY Zenon, <2>1, AskStep, ServeOriginStep, ScanBackfillStep, ApplyResetStep,
               AdmitBackfillStep, CommitNextStep, AdmitRunStep, DecideStep DEF Exchange
<1>3. CASE \E p \in Peers : PreviewHead(p)
  BY Zenon, <1>3, PreviewStep
<1>4. CASE \E p \in Peers : Restart(p)
  BY Zenon, <1>4, RestartStep
<1>5. CASE \E p \in Peers : \E o \in Offered[p] : Arrive(p, o)
  <2>0. PICK p \in Peers : \E o \in Offered[p] : Arrive(p, o)
    BY Zenon, <1>5
  <2>1. PICK o \in Offered[p] : Arrive(p, o)
    BY Zenon, <2>0
  <2>2. pc[p] # "keyed"
    <3>1. arr'[p] # arr[p]
      <4>1. arr \in [Peers -> Seq(Op)] /\ arr[p] \in Seq(Op)
        BY Zenon DEF IInv, TypeOK
      <4>2. arr'[p] = Append(arr[p], o)
        BY Zenon, <2>1, <4>1 DEF Arrive
      <4>3. Len(Append(arr[p], o)) # Len(arr[p])
        BY <4>1
      <4>. QED  BY Zenon, <4>2, <4>3
    <3>. QED  BY Zenon, <3>1 DEF QuietBuild
  <2>. QED  BY Zenon, <2>1, <2>2, ArriveStep
<1>6. CASE \E o \in Origins : Learn(o)
  <2>1. PICK p \in Peers : TRUE
    BY Zenon DEF Alone
  <2>. QED  BY Zenon, <1>6, <2>1, LearnStep
<1>. QED  BY Zenon, <1>1, <1>2, <1>3, <1>4, <1>5, <1>6 DEF Next

\* A step that changes nothing keeps the invariant.
LEMMA StutterInv ==
  ASSUME IInv, UNCHANGED vars
  PROVE  IInv'
<1>1. UNCHANGED <<arr, epoch, held, known, claims, cursors, pc, audit, resume, asked,
                  left, page, resetSeen, progress, stalled, faults>>
  BY Zenon DEF vars, server, puller, drain, round
<1>2. TypeOK' /\ ClaimIsHeld'
  BY Zenon, <1>1 DEF IInv, TypeOK, ClaimIsHeld
<1>3. ASSUME NEW p \in Peers
      PROVE  (Behind(p) /\ PageFits(p) /\ Building(p) /\ Complete(p) /\ Scanned(p))'
  <2>1. Behind(p) /\ PageFits(p) /\ Building(p) /\ Complete(p) /\ Scanned(p)
    BY Zenon DEF IInv
  <2>2. Behind(p)'
    BY Zenon, <1>1, <2>1 DEF Behind, Kept
  <2>3. PageFits(p)'
    BY Zenon, <1>1, <2>1 DEF PageFits, OnPage, RunFits, InRuns
  <2>4. Building(p)'
    BY Zenon, <1>1, <2>1 DEF Building, InRuns
  <2>5. Complete(p)'
    BY Zenon, <1>1, <2>1 DEF Complete, OnPage, InRuns
  <2>6. Scanned(p)'
    BY Zenon, <1>1, <2>1 DEF Scanned, Kept
  <2>. QED  BY Zenon, <2>2, <2>3, <2>4, <2>5, <2>6
<1>. QED  BY Zenon, <1>2, <1>3 DEF IInv

\* Between a puller and one peer, whatever is cut, resumed, reset, refused or
\* fails, the inductive invariant holds.
THEOREM PullInvariant ==
  ASSUME Alone
  PROVE  QuietSpec => []IInv
<1>1. Init => IInv
  BY Zenon, InitInv
<1>2. IInv /\ [Next /\ QuietBuild]_vars => IInv'
  BY Zenon, NextInv, StutterInv
<1>. QED  BY <1>1, <1>2, PTL DEF QuietSpec

\* Every variable keeps its type.
THEOREM PullTypes ==
  ASSUME Alone
  PROVE  QuietSpec => []TypeOK
<1>1. IInv => TypeOK
  BY Zenon DEF IInv
<1>. QED  BY <1>1, PullInvariant, PTL

\* coverage.rs: a claim never names an operation the puller lacks.
THEOREM PullClaims ==
  ASSUME Alone
  PROVE  QuietSpec => []ClaimIsHeld
<1>1. IInv => ClaimIsHeld
  BY Zenon DEF IInv
<1>. QED  BY <1>1, PullInvariant, PTL

\* pull.rs, pull_client.rs: between two drains, what the cursor has passed and
\* the puller lacks is above its claim, for any page size and any failures.
THEOREM PullNoSilentLoss ==
  ASSUME Alone
  PROVE  QuietSpec => []NoSilentLoss
<1>1. IInv => NoSilentLoss
  <2>1. SUFFICES ASSUME IInv, NEW p \in Peers \ Draining, NEW o \in Passed(p)
                 PROVE  o \in held \/ o.key > claims[o.origin]
    BY Zenon DEF NoSilentLoss
  <2>2. PICK i \in 1 .. cursors[p].after : o = arr[p][i]
    BY Zenon, <2>1 DEF Passed
  <2>. QED  BY Zenon, <2>1, <2>2 DEF IInv, Behind, Kept
<1>. QED  BY <1>1, PullInvariant, PTL

\* pull_client.rs: a drain that reports success holds all its cursor has passed.
THEOREM PullDoneMeansHeld ==
  ASSUME Alone
  PROVE  QuietSpec => []DoneMeansHeld
<1>1. IInv => DoneMeansHeld
  <2>1. SUFFICES ASSUME IInv, NEW p \in Peers, pc[p] = "done", NEW o \in Passed(p)
                 PROVE  o \in held
    BY Zenon DEF DoneMeansHeld
  <2>2. PICK i \in 1 .. cursors[p].after : o = arr[p][i]
    BY Zenon, <2>1 DEF Passed
  <2>. QED  BY Zenon, <2>1, <2>2 DEF IInv, Behind
<1>. QED  BY <1>1, PullInvariant, PTL

=============================================================================
