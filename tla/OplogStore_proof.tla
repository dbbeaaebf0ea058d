-------------------------- MODULE OplogStore_proof --------------------------
(***************************************************************************)
(* Proofs about OplogStore, for any operations, rows, peers, horizon and   *)
(* chunk size.  StreamInv is about the relay stream, WinnerInv about the   *)
(* heads of the rows, PeersInv about what peers acknowledged.              *)
(***************************************************************************)
EXTENDS OplogStore, FiniteSetTheorems, WellFoundedInduction, TLAPS

(***************************************************************************)
(* Minimum, maximum and induction.                                         *)
(***************************************************************************)

\* Every set of naturals has a least member.
LEMMA LeastNat ==
  ASSUME NEW T \in SUBSET Nat, T # {}
  PROVE  \E x \in T : \A y \in T : x <= y
<1>. DEFINE R == OpToRel(<, Nat)
<1>1. IsWellFoundedOn(R, Nat)
  BY Zenon, NatLessThanWellFounded
<1>2. \A x, y \in Nat : x < y => <<x, y>> \in R
  BY Zenon DEF OpToRel
<1>. HIDE DEF R
<1>3. PICK x \in T : \A y \in T : ~(<<y, x>> \in R)
  BY Zenon, <1>1, WFMin
<1>4. \A y \in T : ~(y < x)
  BY Zenon, <1>2, <1>3
<1>5. \A y \in T : y \in Nat
  BY Zenon
<1>. QED
  BY <1>3, <1>4, <1>5

\* A finite set of integers has a greatest member.
LEMMA FiniteMax ==
  ASSUME NEW S \in SUBSET Int, IsFiniteSet(S), S # {}
  PROVE  \E m \in S : \A x \in S : x <= m
<1>. DEFINE Bad == {T \in SUBSET S : T # {} /\ ~\E m \in T : \A x \in T : x <= m}
<1>. SUFFICES ASSUME Bad # {} PROVE FALSE
  BY Zenon DEF Bad
<1>. DEFINE R == StrictSubsetOrdering(S)
<1>1. IsWellFoundedOn(R, FiniteSubsetsOf(S))
  BY Zenon, FS_StrictSubsetOrderingWellFounded
<1>2. FiniteSubsetsOf(S) = SUBSET S
  BY Zenon, FS_FiniteSubsetsOfFinite
<1>3. \A x, y \in SUBSET S : x \subseteq y /\ x # y => <<x, y>> \in R
  BY Zenon DEF StrictSubsetOrdering
<1>4. Bad \subseteq SUBSET S
  BY Zenon
<1>. HIDE DEF R, Bad
<1>a. IsWellFoundedOn(R, SUBSET S)
  BY Zenon, <1>1, <1>2
<1>5. PICK T \in Bad : \A U \in Bad : ~(<<U, T>> \in R)
  BY Zenon, <1>a, <1>4, WFMin
<1>. USE DEF Bad
<1>6. PICK t \in T : TRUE
  BY Zenon, <1>5
<1>7. T \ {t} \notin Bad
  BY Zenon, <1>3, <1>5, <1>6
<1>8. CASE T = {t}
  BY <1>5, <1>8
<1>9. CASE T # {t}
  <2>1. PICK m \in T \ {t} : \A x \in T \ {t} : x <= m
    BY Zenon, <1>7, <1>9, <1>5, <1>6
  <2>2. CASE t <= m
    BY Zenon, <2>1, <2>2, <1>5
  <2>3. CASE m <= t
    BY <2>1, <2>3, <1>5, <1>6
  <2>. QED
    BY <2>2, <2>3, <2>1, <1>5, <1>6
<1>. QED
  BY Zenon, <1>8, <1>9

\* The greatest of a finite set of integers.
LEMMA MaxIs ==
  ASSUME NEW S \in SUBSET Int, IsFiniteSet(S), S # {}
  PROVE  Max(S) \in S /\ \A x \in S : x <= Max(S)
  BY Zenon, FiniteMax DEF Max

\* The least of a set of naturals.
LEMMA MinIs ==
  ASSUME NEW S \in SUBSET Nat, S # {}
  PROVE  Min(S) \in S /\ \A x \in S : Min(S) <= x
  BY Zenon, LeastNat DEF Min

\* The greater of two.
LEMMA MaxOfTwo ==
  ASSUME NEW a \in Nat, NEW b \in Nat
  PROVE  Max({a, b}) \in {a, b} /\ a <= Max({a, b}) /\ b <= Max({a, b})
<1>1. {a, b} \in SUBSET Int /\ {a, b} # {}
  OBVIOUS
<1>2. IsFiniteSet({a, b})
  <2>1. IsFiniteSet({a} \cup {b})
    BY Zenon, FS_Singleton, FS_AddElement
  <2>2. {a} \cup {b} = {a, b}
    BY Zenon
  <2>. QED
    BY Zenon, <2>1, <2>2
<1>. QED
  BY Zenon, <1>1, <1>2, MaxIs

-----------------------------------------------------------------------------
(* The relay stream of the log (OplogStore).                                 *)

LogRow == [row : RowIds, applied : BOOLEAN]
Arrival == [op : Ops, at : Nat]

\* The last place of a stream with these places.
LastOf(D) == Max({0} \cup D)

\* The last place of a stream, zero for an empty one.
LEMMA LastFacts ==
  ASSUME NEW D \in SUBSET (Nat \ {0}), IsFiniteSet(D)
  PROVE  /\ LastOf(D) \in Nat
         /\ \A s \in D : s <= LastOf(D)
         /\ LastOf(D) # 0 <=> LastOf(D) \in D
         /\ D # {} => LastOf(D) \in D
<1>. DEFINE E == {0} \cup D
<1>1. IsFiniteSet(E)
  BY FS_AddElement
<1>2. E \in SUBSET Int /\ E # {} /\ \A s \in E : s \in Nat
  OBVIOUS
<1>3. LastOf(D) \in E /\ \A s \in E : s <= LastOf(D)
  BY Zenon, <1>1, <1>2, MaxIs DEF LastOf
<1>4. LastOf(D) \in Nat /\ (LastOf(D) = 0 \/ LastOf(D) \in D)
  BY Zenon, <1>2, <1>3
<1>5. \A s \in D : s \in Nat /\ s # 0 /\ s <= LastOf(D)
  BY Zenon, <1>3
<1>6. ASSUME D # {} PROVE LastOf(D) \in D
  <2>1. PICK s \in D : TRUE
    BY Zenon, <1>6
  <2>. QED
    BY <1>4, <1>5, <2>1
<1>. QED
  BY Zenon, <1>4, <1>5, <1>6

StreamTypes ==
  /\ DOMAIN log \in SUBSET Ops /\ IsFiniteSet(DOMAIN log) /\ log \in [DOMAIN log -> LogRow]
  /\ DOMAIN arrivals \in SUBSET (Nat \ {0}) /\ IsFiniteSet(DOMAIN arrivals)
  /\ arrivals \in [DOMAIN arrivals -> Arrival]
  /\ canon \in [RowIds -> RowIds]
  /\ relay \in [epoch : Nat, floor : Nat]
  /\ clock \in Nat
  /\ scan = [after |-> scan.after, found |-> scan.found, young |-> scan.young,
             peers |-> scan.peers]

\* A place names a logged operation, and each operation has one place at most.
PlacesNamed ==
  /\ \A s \in DOMAIN arrivals : arrivals[s].op \in DOMAIN log
  /\ \A s, t \in DOMAIN arrivals : arrivals[s].op = arrivals[t].op => s = t

\* Places were given in the order of time.
PlacesInTime ==
  /\ \A s \in DOMAIN arrivals : arrivals[s].at <= clock
  /\ \A s, t \in DOMAIN arrivals : s < t => arrivals[s].at <= arrivals[t].at

\* A pass never has the operation at the end of the stream among its candidates.
EndIsKept ==
  /\ scan.found \subseteq DOMAIN log
  /\ \A s \in DOMAIN arrivals : arrivals[s].op \in scan.found => s < HeadSeq

FloorInside == relay.floor <= HeadSeq

StreamInv == StreamTypes /\ PlacesNamed /\ PlacesInTime /\ EndIsKept /\ FloorInside

\* The head of the relay stream is its last place.
LEMMA HeadFacts ==
  ASSUME StreamTypes
  PROVE  /\ HeadSeq = LastOf(DOMAIN arrivals) /\ HeadSeq \in Nat
         /\ \A s \in DOMAIN arrivals : s \in Nat /\ s # 0 /\ s <= HeadSeq
         /\ HeadSeq # 0 <=> HeadSeq \in DOMAIN arrivals
         /\ DOMAIN arrivals # {} => HeadSeq \in DOMAIN arrivals
<1>1. HeadSeq = LastOf(DOMAIN arrivals)
  BY Zenon DEF HeadSeq, LastOf
<1>2. DOMAIN arrivals \in SUBSET (Nat \ {0}) /\ IsFiniteSet(DOMAIN arrivals)
  BY Zenon DEF StreamTypes
<1>. QED
  BY Zenon, <1>1, <1>2, LastFacts

\* append.
LEMMA AppendKeepsStream ==
  ASSUME StreamInv, NEW o \in Ops, AppendOp(o)
  PROVE  /\ StreamInv' /\ HeadSeq' = HeadSeq + 1
         /\ \A s \in DOMAIN arrivals : s \in DOMAIN arrivals' /\ arrivals'[s] = arrivals[s]
<1>. DEFINE r == canon[RowOf[o]]
            n == HeadSeq + 1
            a == [op |-> o, at |-> clock]
            e == [row |-> r, applied |-> TRUE]
<1>1. /\ o \notin DOMAIN log /\ log' = Extended(log, o, e)
      /\ arrivals' = Extended(arrivals, n, a)
      /\ UNCHANGED <<canon, relay, scan, clock>>
  BY Zenon DEF AppendOp
<1>2. e \in LogRow
  BY Zenon, StoreAssumption DEF StreamInv, StreamTypes, LogRow
<1>3. a \in Arrival /\ a.op = o /\ a.at = clock
  BY Zenon DEF StreamInv, StreamTypes, Arrival
<1>4. /\ HeadSeq \in Nat /\ n \in Nat \ {0} /\ n \notin DOMAIN arrivals
      /\ \A s \in DOMAIN arrivals : s \in Nat /\ s < n
  BY HeadFacts DEF StreamInv
<1>. HIDE DEF e, a, n
<1>5. /\ DOMAIN log' = DOMAIN log \cup {o} /\ log'[o] = e
      /\ \A x \in DOMAIN log : log'[x] = log[x]
      /\ log' \in [DOMAIN log \cup {o} -> LogRow]
  BY Zenon, <1>1, <1>2 DEF Extended, StreamInv, StreamTypes
<1>6. /\ DOMAIN arrivals' = DOMAIN arrivals \cup {n} /\ arrivals'[n] = a
      /\ \A s \in DOMAIN arrivals : arrivals'[s] = arrivals[s]
      /\ arrivals' \in [DOMAIN arrivals \cup {n} -> Arrival]
  BY Zenon, <1>1, <1>3, <1>4 DEF Extended, StreamInv, StreamTypes
<1>7. StreamTypes'
  <2>1. IsFiniteSet(DOMAIN log') /\ IsFiniteSet(DOMAIN arrivals')
    BY <1>5, <1>6, FS_AddElement DEF StreamInv, StreamTypes
  <2>. QED
    BY Zenon, <1>1, <1>4, <1>5, <1>6, <2>1 DEF StreamInv, StreamTypes
<1>8. HeadSeq' = n
  <2>1. /\ HeadSeq' \in Nat /\ n <= HeadSeq' /\ HeadSeq' \in DOMAIN arrivals'
    <3>1. /\ HeadSeq' = LastOf(DOMAIN arrivals')
          /\ DOMAIN arrivals' \in SUBSET (Nat \ {0}) /\ IsFiniteSet(DOMAIN arrivals')
      BY Zenon, <1>7 DEF HeadSeq, LastOf, StreamTypes
    <3>. QED
      BY Zenon, <1>6, <3>1, LastFacts
  <2>. QED
    BY <1>4, <1>6, <2>1
<1>9. PlacesNamed'
  BY <1>1, <1>3, <1>5, <1>6 DEF StreamInv, PlacesNamed
<1>10. PlacesInTime'
  <2>1. clock \in Nat /\ \A s \in DOMAIN arrivals : arrivals[s].at <= clock
    BY Zenon DEF StreamInv, StreamTypes, PlacesInTime
  <2>2. ASSUME NEW s \in DOMAIN arrivals', NEW t \in DOMAIN arrivals', s < t
        PROVE  arrivals'[s].at <= arrivals'[t].at
    <3>1. s # n
      BY <1>4, <1>6, <2>2
    <3>2. CASE t = n
      BY Zenon, <1>3, <1>6, <2>1, <3>1, <3>2
    <3>3. CASE t # n
      BY Zenon, <1>6, <2>2, <3>1, <3>3 DEF StreamInv, PlacesInTime
    <3>. QED
      BY Zenon, <3>2, <3>3
  <2>3. \A s \in DOMAIN arrivals' : arrivals'[s].at <= clock'
    BY <1>1, <1>3, <1>6, <2>1
  <2>. QED
    BY Zenon, <2>2, <2>3 DEF PlacesInTime
<1>11. EndIsKept'
  BY Zenon, <1>1, <1>3, <1>4, <1>5, <1>6, <1>8 DEF StreamInv, EndIsKept
<1>. QED
  <2>1. FloorInside'
    BY <1>1, <1>4, <1>8 DEF StreamInv, StreamTypes, FloorInside, n
  <2>. QED
    BY Zenon, <1>6, <1>7, <1>8, <1>9, <1>10, <1>11, <2>1 DEF StreamInv, n

\* Operations keep their places while their rows and flags change.
LEMMA RelabelKeepsStream ==
  ASSUME StreamInv, DOMAIN log' = DOMAIN log, log' \in [DOMAIN log -> LogRow],
         canon' \in [RowIds -> RowIds], UNCHANGED <<arrivals, relay, scan>>,
         clock' \in Nat, clock <= clock'
  PROVE  StreamInv' /\ HeadSeq' = HeadSeq
<1>1. HeadSeq' = HeadSeq
  BY Zenon DEF HeadSeq
<1>2. StreamTypes' /\ PlacesNamed' /\ EndIsKept' /\ FloorInside'
  BY Zenon, <1>1 DEF StreamInv, StreamTypes, PlacesNamed, EndIsKept, FloorInside
<1>3. PlacesInTime'
  <2>1. \A s \in DOMAIN arrivals : arrivals[s].at \in Nat /\ clock \in Nat
    BY Zenon DEF StreamInv, StreamTypes, Arrival
  <2>. QED
    BY <2>1 DEF StreamInv, PlacesInTime
<1>. QED
  BY Zenon, <1>1, <1>2, <1>3 DEF StreamInv

\* rotate_relay_stream_epoch.
LEMMA RotateKeepsStream ==
  ASSUME StreamInv, RotateEpoch
  PROVE  StreamInv' /\ HeadSeq' = HeadSeq /\ UNCHANGED arrivals
<1>1. /\ UNCHANGED <<log, arrivals, canon, scan, clock>>
      /\ relay' = [epoch |-> relay.epoch + 1, floor |-> 0]
  BY Zenon DEF RotateEpoch
<1>2. HeadSeq' = HeadSeq
  BY Zenon, <1>1 DEF HeadSeq
<1>3. relay' \in [epoch : Nat, floor : Nat] /\ relay'.floor <= HeadSeq
  BY <1>1, HeadFacts DEF StreamInv, StreamTypes
<1>4. StreamTypes' /\ PlacesNamed' /\ PlacesInTime' /\ EndIsKept' /\ FloorInside'
  BY Zenon, <1>1, <1>2, <1>3
     DEF StreamInv, StreamTypes, PlacesNamed, PlacesInTime, EndIsKept, FloorInside
<1>. QED
  BY Zenon, <1>1, <1>2, <1>4 DEF StreamInv

\* compaction_candidates.
LEMMA ScanKeepsStream ==
  ASSUME StreamInv, NEW stop, NEW struck, Scan(stop, struck)
  PROVE  StreamInv' /\ HeadSeq' = HeadSeq
<1>1. PICK kept \in SUBSET Walk(scan.after, SafeFloor) :
        /\ scan'.found = {arrivals[s].op : s \in kept}
        /\ scan' = [after |-> scan'.after, found |-> scan'.found, young |-> scan'.young,
                    peers |-> scan'.peers]
        /\ UNCHANGED <<log, arrivals, canon, relay, clock>>
  <2>. DEFINE walk == Walk(scan.after, SafeFloor)
              seen == {s \in walk : s < stop \/ (s = stop /\ ~struck)}
              found == {s \in seen : Shadowed(arrivals[s].op) /\ Deletable(arrivals[s].op)}
              kept == {s \in found : Cardinality({t \in found : t < s}) < MaxDeletes}
              full == Cardinality(found) >= MaxDeletes
  <2>1. /\ scan' = [after |-> IF full THEN Max(kept)
                              ELSE IF stop = HeadSeq THEN 0 ELSE stop,
                    found |-> {arrivals[s].op : s \in kept},
                    young |-> {arrivals[s].op : s \in
                                 {t \in kept : arrivals[t].at > clock - Horizon}},
                    peers |-> IF kept = {} THEN {} ELSE {p \in Trusted : ~Dormant(p)}]
        /\ UNCHANGED <<log, arrivals, canon, relay, clock>>
    BY Zenon DEF Scan
  <2>2. kept \in SUBSET walk
    BY Zenon
  <2>. HIDE DEF kept, full, walk
  <2>3. /\ scan'.found = {arrivals[s].op : s \in kept}
        /\ scan' = [after |-> scan'.after, found |-> scan'.found, young |-> scan'.young,
                    peers |-> scan'.peers]
    BY Zenon, <2>1
  <2>. QED
    BY Zenon, <2>1, <2>2, <2>3 DEF walk
<1>2. \A s \in kept : s \in DOMAIN arrivals /\ s < HeadSeq /\ arrivals[s].op \in DOMAIN log
  BY Zenon, <1>1 DEF Walk
<1>3. HeadSeq' = HeadSeq
  BY Zenon, <1>1 DEF HeadSeq
<1>4. StreamTypes' /\ PlacesNamed' /\ PlacesInTime' /\ FloorInside'
  BY Zenon, <1>1, <1>3 DEF StreamInv, StreamTypes, PlacesNamed, PlacesInTime, FloorInside
<1>5. EndIsKept'
  BY Zenon, <1>1, <1>2, <1>3 DEF StreamInv, EndIsKept, PlacesNamed
<1>. QED
  BY Zenon, <1>3, <1>4, <1>5 DEF StreamInv

\* delete_ops_chunk.
LEMMA DeleteKeepsStream ==
  ASSUME StreamInv, NEW chunk \in SUBSET scan.found, DeleteChunk(chunk)
  PROVE  /\ StreamInv' /\ HeadSeq' = HeadSeq /\ relay'.epoch = relay.epoch
         /\ \A s \in DOMAIN arrivals' : s \in DOMAIN arrivals /\ arrivals'[s] = arrivals[s]
<1>. DEFINE gone == {o \in chunk \cap DOMAIN log : StillDeletable(o)}
            places == {s \in DOMAIN arrivals : arrivals[s].op \in gone}
<1>1. /\ log' = Removing(log, gone) /\ arrivals' = Removing(arrivals, places)
      /\ scan' = AfterChunk(chunk) /\ UNCHANGED <<canon, clock>>
      /\ relay' = [relay EXCEPT !.floor = Max({@} \cup places)]
  BY Zenon DEF DeleteChunk
<1>2. gone \subseteq scan.found /\ gone \subseteq chunk
  BY Zenon
<1>3. /\ scan' = [after |-> scan'.after, found |-> scan'.found, young |-> scan'.young,
                  peers |-> scan'.peers]
      /\ scan'.found \subseteq scan.found \ chunk
  <2>1. CASE scan.found \subseteq chunk
    <3>1. scan' = [Idle EXCEPT !.after = scan.after]
      BY Zenon, <1>1, <2>1 DEF AfterChunk
    <3>. QED
      BY Zenon, <3>1 DEF Idle
  <2>2. CASE ~(scan.found \subseteq chunk)
    <3>1. scan' = [scan EXCEPT !.found = @ \ chunk, !.young = @ \ chunk]
      BY Zenon, <1>1, <2>2 DEF AfterChunk
    <3>2. scan = [after |-> scan.after, found |-> scan.found, young |-> scan.young,
                  peers |-> scan.peers]
      BY Zenon DEF StreamInv, StreamTypes
    <3>3. scan' = [after |-> scan.after, found |-> scan.found \ chunk,
                   young |-> scan.young \ chunk, peers |-> scan.peers]
      BY Zenon, <3>1, <3>2
    <3>. QED
      BY Zenon, <3>3
  <2>. QED
    BY Zenon, <2>1, <2>2
<1>. HIDE DEF gone
<1>4. /\ DOMAIN log' = DOMAIN log \ gone /\ log' \in [DOMAIN log \ gone -> LogRow]
      /\ \A o \in DOMAIN log' : log'[o] = log[o]
  BY Zenon, <1>1 DEF Removing, Restrict, StreamInv, StreamTypes
<1>5. /\ DOMAIN arrivals' = DOMAIN arrivals \ places
      /\ arrivals' \in [DOMAIN arrivals \ places -> Arrival]
      /\ \A s \in DOMAIN arrivals' : s \in DOMAIN arrivals /\ arrivals'[s] = arrivals[s]
  BY Zenon, <1>1 DEF Removing, Restrict, StreamInv, StreamTypes
<1>a. relay' \in [epoch : Nat, floor : Nat] /\ relay'.floor <= HeadSeq
        /\ relay'.epoch = relay.epoch
  <2>. DEFINE f == relay.floor
              F == {f} \cup places
  <2>1. f \in Nat /\ relay.epoch \in Nat /\ f <= HeadSeq
    BY Zenon DEF StreamInv, StreamTypes, FloorInside
  <2>2. \A s \in F : s \in Nat /\ s <= HeadSeq
    BY Zenon, <2>1, HeadFacts DEF StreamInv
  <2>3. IsFiniteSet(F)
    <3>1. IsFiniteSet(places)
      BY Zenon, FS_Subset DEF StreamInv, StreamTypes
    <3>. QED
      BY <3>1, FS_AddElement
  <2>. HIDE DEF F
  <2>4. F \in SUBSET Int /\ F # {}
    BY <2>2 DEF F
  <2>5. Max(F) \in F
    BY Zenon, <2>3, <2>4, MaxIs
  <2>6. relay' = [relay EXCEPT !.floor = Max(F)] /\ relay \in [epoch : Nat, floor : Nat]
    BY Zenon, <1>1 DEF F, StreamInv, StreamTypes
  <2>. QED
    BY Zenon, <2>1, <2>2, <2>5, <2>6
<1>6. StreamTypes'
  <2>1. IsFiniteSet(DOMAIN log') /\ IsFiniteSet(DOMAIN arrivals')
    BY Zenon, <1>4, <1>5, FS_Subset DEF StreamInv, StreamTypes
  <2>. QED
    BY Zenon, <1>1, <1>3, <1>4, <1>5, <1>a, <2>1 DEF StreamInv, StreamTypes
<1>7. PlacesNamed'
  <2>1. \A s \in DOMAIN arrivals' : arrivals[s].op \notin gone
    BY Zenon, <1>5
  <2>. QED
    BY Zenon, <1>4, <1>5, <2>1 DEF StreamInv, PlacesNamed
<1>8. PlacesInTime'
  BY Zenon, <1>1, <1>5 DEF StreamInv, PlacesInTime
<1>9. HeadSeq' = HeadSeq
  <2>1. /\ HeadSeq' = LastOf(DOMAIN arrivals')
        /\ DOMAIN arrivals' \in SUBSET (Nat \ {0}) /\ IsFiniteSet(DOMAIN arrivals')
    BY Zenon, <1>6 DEF HeadSeq, LastOf, StreamTypes
  <2>2. /\ HeadSeq' \in Nat /\ \A s \in DOMAIN arrivals' : s <= HeadSeq'
        /\ HeadSeq' # 0 => HeadSeq' \in DOMAIN arrivals'
    BY Zenon, <2>1, LastFacts
  <2>3. /\ HeadSeq \in Nat
        /\ HeadSeq # 0 => HeadSeq \in DOMAIN arrivals
        /\ \A s \in DOMAIN arrivals : s <= HeadSeq
    BY Zenon, HeadFacts DEF StreamInv
  <2>4. HeadSeq \in DOMAIN arrivals => HeadSeq \in DOMAIN arrivals'
    BY <1>2, <1>5, <2>3 DEF StreamInv, EndIsKept
  <2>. QED
    BY <1>5, <2>2, <2>3, <2>4
<1>10. EndIsKept'
  <2>1. scan'.found \subseteq DOMAIN log'
    BY Zenon, <1>2, <1>3, <1>4 DEF StreamInv, EndIsKept
  <2>. QED
    BY Zenon, <1>3, <1>5, <1>9, <2>1 DEF StreamInv, EndIsKept
<1>11. FloorInside'
  BY Zenon, <1>9, <1>a DEF FloorInside
<1>. QED
  BY Zenon, <1>5, <1>6, <1>7, <1>8, <1>9, <1>10, <1>11, <1>a DEF StreamInv

\* A compaction given up between two chunks.
LEMMA AbandonKeepsStream ==
  ASSUME StreamInv, Abandon
  PROVE  StreamInv' /\ HeadSeq' = HeadSeq
<1>1. scan' = [Idle EXCEPT !.after = scan.after]
        /\ UNCHANGED <<log, arrivals, canon, relay, clock>>
  BY Zenon DEF Abandon
<1>2. /\ scan' = [after |-> scan'.after, found |-> scan'.found, young |-> scan'.young,
                  peers |-> scan'.peers]
      /\ scan'.found = {}
  BY Zenon, <1>1 DEF Idle
<1>. QED
  BY Zenon, <1>1, <1>2
     DEF StreamInv, StreamTypes, PlacesNamed, PlacesInTime, EndIsKept, FloorInside, HeadSeq

\* What leaves the stream alone but for the time.
LEMMA QuietKeepsStream ==
  ASSUME StreamInv, UNCHANGED <<log, arrivals, canon, relay, scan>>, clock' \in Nat,
           clock <= clock'
  PROVE  StreamInv' /\ HeadSeq' = HeadSeq
<1>1. DOMAIN log' = DOMAIN log /\ log' \in [DOMAIN log -> LogRow] /\ canon' \in [RowIds -> RowIds]
  BY Zenon DEF StreamInv, StreamTypes
<1>. QED
  BY Zenon, <1>1, RelabelKeepsStream

\* The caller's writes to rows.
LEMMA RowStepKeepsStream ==
  ASSUME StreamInv, RowStep
  PROVE  StreamInv' /\ HeadSeq' = HeadSeq /\ UNCHANGED <<arrivals, relay>>
<1>1. clock \in Nat /\ clock <= clock /\ log \in [DOMAIN log -> LogRow]
        /\ canon \in [RowIds -> RowIds]
  BY DEF StreamInv, StreamTypes
<1>2. ASSUME NEW o \in Ops, Defer(o) \/ Canonicalize(o)
      PROVE  StreamInv' /\ HeadSeq' = HeadSeq /\ UNCHANGED <<arrivals, relay>>
  <2>1. PICK b \in BOOLEAN : log' = [log EXCEPT ![o].applied = b]
    BY Zenon, <1>2 DEF Defer, Canonicalize
  <2>2. UNCHANGED <<arrivals, relay, canon, scan, clock>>
    BY Zenon, <1>2 DEF Defer, Canonicalize
  <2>3. DOMAIN log' = DOMAIN log /\ log' \in [DOMAIN log -> LogRow]
    BY Zenon, <1>1, <2>1 DEF LogRow
  <2>. QED
    BY Zenon, <1>1, <2>2, <2>3, RelabelKeepsStream
<1>3. ASSUME NEW o \in Ops, Pin(o) \/ Unpin(o)
      PROVE  StreamInv' /\ HeadSeq' = HeadSeq /\ UNCHANGED <<arrivals, relay>>
  BY Zenon, <1>1, <1>3, QuietKeepsStream DEF Pin, Unpin
<1>4. ASSUME NEW a \in Aliases, MergeAlias(a[1], a[2])
      PROVE  StreamInv' /\ HeadSeq' = HeadSeq /\ UNCHANGED <<arrivals, relay>>
  <2>1. a[1] \in RowIds /\ a[2] \in RowIds
    BY Zenon, StoreAssumption
  <2>. DEFINE from == a[1]
              to == a[2]
  <2>2. /\ log' = [o \in DOMAIN log |->
                     IF log[o].row = from THEN [log[o] EXCEPT !.row = to] ELSE log[o]]
        /\ canon' = [r \in RowIds |-> IF canon[r] = from THEN to ELSE canon[r]]
        /\ UNCHANGED <<arrivals, relay, scan, clock>>
    BY Zenon, <1>4 DEF MergeAlias
  <2>. HIDE DEF from, to
  <2>3. DOMAIN log' = DOMAIN log /\ log' \in [DOMAIN log -> LogRow]
    BY Zenon, <1>1, <2>1, <2>2 DEF LogRow, to
  <2>4. canon' \in [RowIds -> RowIds]
    BY Zenon, <1>1, <2>1, <2>2 DEF to
  <2>. QED
    BY Zenon, <1>1, <2>2, <2>3, <2>4, RelabelKeepsStream
<1>. QED
  BY Zenon, <1>2, <1>3, <1>4 DEF RowStep

\* At start the stream is empty.
LEMMA StreamStarts == StoreInit => StreamInv
<1>. SUFFICES ASSUME StoreInit PROVE StreamInv
  BY Zenon
<1>1. DOMAIN log = {} /\ DOMAIN arrivals = {} /\ IsFiniteSet({})
  BY FS_EmptySet DEF StoreInit
<1>2. log \in [{} -> LogRow] /\ arrivals \in [{} -> Arrival]
  BY DEF StoreInit
<1>3. scan.found = {} /\ scan = [after |-> scan.after, found |-> scan.found, young |-> scan.young,
                                 peers |-> scan.peers]
  BY Zenon DEF StoreInit, Idle
<1>4. canon \in [RowIds -> RowIds] /\ clock \in Nat
  BY Zenon DEF StoreInit
<1>5. StreamTypes
  BY Zenon, <1>1, <1>2, <1>3, <1>4 DEF StoreInit, StreamTypes
<1>6. FloorInside
  BY <1>5, HeadFacts DEF StoreInit, FloorInside
<1>. QED
  BY Zenon, <1>1, <1>3, <1>5, <1>6 DEF StreamInv, PlacesNamed, PlacesInTime, EndIsKept

\* The stream's end never goes back and its places keep their operations.
LEMMA StreamStepFacts ==
  ASSUME StreamInv, StoreNext
  PROVE  /\ StreamInv'
         /\ HeadSeq' >= HeadSeq
         /\ \A s \in DOMAIN arrivals \cap DOMAIN arrivals' :
              arrivals'[s].op = arrivals[s].op
<1>1. HeadSeq \in Nat /\ clock \in Nat
  BY Zenon, HeadFacts DEF StreamInv, StreamTypes
<1>2. CASE \E o \in Ops : AppendOp(o)
  <2>1. relay' = relay
    BY Zenon, <1>2 DEF AppendOp
  <2>. QED
    BY <1>1, <1>2, <2>1, AppendKeepsStream
<1>3. CASE Tick
  BY <1>1, <1>3, QuietKeepsStream DEF Tick
<1>4. CASE RowStep
  BY <1>1, <1>4, RowStepKeepsStream
<1>5. CASE RotateEpoch
  BY <1>1, <1>5, RotateKeepsStream
<1>6. CASE \E p \in Peers : Pair(p) \/ Pull(p)
  BY <1>1, <1>6, QuietKeepsStream DEF Pair, Pull
<1>7. CASE \E stop \in 0..MaxSeq, struck \in BOOLEAN : Scan(stop, struck)
  <2>1. UNCHANGED <<arrivals, relay>>
    BY Zenon, <1>7 DEF Scan
  <2>. QED
    BY <1>1, <1>7, <2>1, ScanKeepsStream
<1>8. CASE \E chunk \in SUBSET scan.found : DeleteChunk(chunk)
  BY <1>1, <1>8, DeleteKeepsStream
<1>9. CASE Abandon
  <2>1. UNCHANGED <<arrivals, relay>>
    BY Zenon, <1>9 DEF Abandon
  <2>. QED
    BY <1>1, <1>9, <2>1, AbandonKeepsStream
<1>. QED
  BY Zenon, <1>2, <1>3, <1>4, <1>5, <1>6, <1>7, <1>8, <1>9
     DEF StoreNext, WriteStep, StreamStep, CompactionStep

\* The relay stream keeps its places and its end (oplog.rs append, retention.rs
\* compaction_candidates, delete_ops_chunk).
THEOREM StreamPlacesKept == StoreSpec => StreamKeepsPlaces
<1>1. StreamInv /\ [StoreNext]_storeVars => StreamInv'
  <2>. SUFFICES ASSUME StreamInv, UNCHANGED storeVars PROVE StreamInv'
    BY Zenon, StreamStepFacts
  <2>1. clock' \in Nat /\ clock <= clock'
    BY DEF storeVars, StreamInv, StreamTypes
  <2>. QED
    BY Zenon, <2>1, QuietKeepsStream DEF storeVars
<1>2. StreamInv /\ [StoreNext]_storeVars =>
        [/\ HeadSeq' >= HeadSeq
         /\ \A s \in DOMAIN arrivals \cap DOMAIN arrivals' :
               arrivals'[s].op = arrivals[s].op]_storeVars
  BY Zenon, StreamStepFacts
<1>. QED
  BY <1>1, <1>2, StreamStarts, PTL DEF StoreSpec, StreamKeepsPlaces

-----------------------------------------------------------------------------
(* The heads of rows (OplogStore).                                           *)

Devices == {DeviceOf[o] : o \in Ops}
HeadRow == [op : Ops, origin : Devices, trimmed : BOOLEAN]

HeadsTyped(h) == DOMAIN h \in SUBSET RowIds /\ h \in [DOMAIN h -> HeadRow]

\* The operation is newer than all of the row that were ever deferred.
Clear(cn, df, r, o) == \A x \in df : cn[RowOf[x]] = r => x < o

\* HistoryOf, of a given log and given history.
History(l, cn, dr, df, r) ==
  AppliedIn(l, r) \cup {o \in dr : cn[RowOf[o]] = r /\ Clear(cn, df, r, o)}

\* The head of a row is the newest of its history, and is in the log outside the bulk tables.
HeadRight(r, hist, applied, h) ==
  /\ r \in DOMAIN h <=> hist # {}
  /\ r \in DOMAIN h => h[r].op \in hist /\ \A o \in hist : o <= h[r].op
  /\ r \in DOMAIN h /\ r \notin BulkRows => h[r].op \in applied

\* Operations are filed under the canonical row, and only deferred ones are unapplied.
Filed ==
  \A o \in DOMAIN log : log[o].row = canon[RowOf[o]] /\ (log[o].applied \/ o \in deferred)

\* Rows of bulk tables neither merge nor take others in.
BulkAlone == \A r \in RowIds : canon[r] # r => r \notin BulkRows /\ canon[r] \notin BulkRows

HeadsRight ==
  \A r \in RowIds :
    HeadRight(r, History(log, canon, drained, deferred, r), AppliedIn(log, r), heads)

WinnerInv ==
  /\ HeadsTyped(heads) /\ drained \in SUBSET Ops /\ deferred \in SUBSET External
  /\ Filed /\ BulkAlone /\ HeadsRight

\* A greatest member is the greatest.
LEMMA MaxUnique ==
  ASSUME NEW S \in SUBSET Nat, NEW m \in S, \A y \in S : y <= m
  PROVE  Max(S) = m
<1>1. Max(S) \in S /\ \A y \in S : Max(S) >= y
  BY Zenon DEF Max
<1>2. Max(S) \in Nat /\ m \in Nat /\ Max(S) >= m /\ Max(S) <= m
  BY Zenon, <1>1
<1>. QED
  BY <1>2

\* The applied operations of a row, the first and the last of them.
LEMMA AppliedFacts ==
  ASSUME NEW l, DOMAIN l \in SUBSET Ops, IsFiniteSet(DOMAIN l), NEW r
  PROVE  /\ AppliedIn(l, r) \in SUBSET Ops /\ AppliedIn(l, r) \in SUBSET Nat
         /\ AppliedIn(l, r) # {} =>
              /\ Max(AppliedIn(l, r)) \in AppliedIn(l, r)
              /\ \A o \in AppliedIn(l, r) : o <= Max(AppliedIn(l, r))
              /\ Min(AppliedIn(l, r)) \in AppliedIn(l, r)
<1>. DEFINE A == AppliedIn(l, r)
<1>1. A \subseteq DOMAIN l
  BY Zenon DEF AppliedIn
<1>2. IsFiniteSet(A)
  BY Zenon, <1>1, FS_Subset
<1>. HIDE DEF A
<1>3. A \in SUBSET Ops /\ A \in SUBSET Nat /\ A \in SUBSET Int
  <2>1. \A x \in A : x \in Ops
    BY Zenon, <1>1
  <2>2. \A x \in Ops : x \in Nat
    BY Zenon, StoreAssumption
  <2>. QED
    BY <2>1, <2>2
<1>. QED
  BY Zenon, <1>2, <1>3, MaxIs, MinIs DEF A

\* A table of heads that differs in the row r alone, whose head is right with o in its history.
UpsertGood(g, h, o, r, hist, applied) ==
  /\ HeadsTyped(g)
  /\ \A q : q # r => (q \in DOMAIN g <=> q \in DOMAIN h)
  /\ \A q \in DOMAIN h : q # r => g[q] = h[q]
  /\ HeadRight(r, hist \cup {o}, applied \cup {o}, g)

\* upsert_head: the newer of the head and the operation.
LEMMA UpsertFacts ==
  ASSUME NEW l, NEW h, HeadsTyped(h), NEW o \in Ops, NEW r \in RowIds, NEW hist \in SUBSET Ops,
         NEW applied, HeadRight(r, hist, applied, h)
  PROVE  UpsertGood(UpsertHead(l, h, o, r), h, o, r, hist, applied)
<1>. DEFINE new == AdvancedHead(h, o, r)
            was == OriginAfter(l, new, o, r)
            row == [new EXCEPT !.origin = was]
            g == UpsertHead(l, h, o, r)
<1>1. /\ new \in HeadRow
      /\ r \notin DOMAIN h => new.op = o
      /\ r \in DOMAIN h => new.op = IF o > h[r].op THEN o ELSE h[r].op
  <2>1. DeviceOf[o] \in Devices
    BY Zenon DEF Devices
  <2>2. CASE r \notin DOMAIN h
    BY Zenon, <2>1, <2>2 DEF AdvancedHead, HeadRow
  <2>3. CASE r \in DOMAIN h
    <3>1. h[r] \in HeadRow
      BY Zenon, <2>3 DEF HeadsTyped
    <3>2. h[r].origin \in Devices
      BY Zenon, <3>1 DEF HeadRow
    <3>3. CASE o > h[r].op
      <4>1. new = [op |-> o, origin |-> h[r].origin, trimmed |-> FALSE]
        BY Zenon, <2>3, <3>3 DEF AdvancedHead
      <4>. QED
        BY <2>3, <3>2, <3>3, <4>1 DEF HeadRow
    <3>4. CASE ~(o > h[r].op)
      BY Zenon, <2>3, <3>1, <3>4 DEF AdvancedHead
    <3>. QED
      BY Zenon, <3>3, <3>4
  <2>. QED
    BY Zenon, <2>2, <2>3
<1>. HIDE DEF new
<1>2. was \in Devices
  BY Zenon, <1>1 DEF OriginAfter, Devices, HeadRow
<1>. HIDE DEF was
<1>3. row \in HeadRow /\ row.op = new.op
  BY Zenon, <1>1, <1>2 DEF HeadRow
<1>4. g = Extended(h, r, row)
  BY Zenon DEF UpsertHead, new, was
<1>. HIDE DEF row, g
<1>5. /\ DOMAIN g = DOMAIN h \cup {r} /\ g[r] = row
      /\ \A q \in DOMAIN h : q # r => g[q] = h[q]
      /\ g \in [DOMAIN h \cup {r} -> HeadRow]
  BY Zenon, <1>3, <1>4 DEF Extended, HeadsTyped
<1>6. HeadsTyped(g)
  BY Zenon, <1>5 DEF HeadsTyped
<1>7. HeadRight(r, hist \cup {o}, applied \cup {o}, g)
  <2>1. o \in Nat /\ \A x \in hist : x \in Nat
    BY Zenon, StoreAssumption
  <2>2. CASE r \notin DOMAIN h
    <3>1. hist = {} /\ g[r].op = o
      BY Zenon, <1>1, <1>3, <1>5, <2>2 DEF HeadRight
    <3>. QED
      BY <1>5, <2>1, <3>1 DEF HeadRight
  <2>3. CASE r \in DOMAIN h
    <3>1. /\ h[r].op \in hist /\ \A x \in hist : x <= h[r].op
          /\ r \notin BulkRows => h[r].op \in applied
      BY Zenon, <2>3 DEF HeadRight
    <3>2. g[r].op = IF o > h[r].op THEN o ELSE h[r].op
      BY Zenon, <1>1, <1>3, <1>5, <2>3
    <3>3. h[r].op \in Nat
      BY Zenon, <2>1, <3>1
    <3>4. g[r].op \in hist \cup {o} /\ \A x \in hist \cup {o} : x <= g[r].op
      <4>1. CASE o > h[r].op
        <5>1. g[r].op = o
          BY Zenon, <3>2, <4>1
        <5>2. ASSUME NEW x \in hist PROVE x <= o
          <6>1. x \in Nat /\ o \in Nat /\ h[r].op \in Nat /\ x <= h[r].op
            BY Zenon, <2>1, <3>1, <3>3
          <6>. QED
            BY <4>1, <6>1
        <5>3. o <= o
          BY <2>1
        <5>. QED
          BY Zenon, <5>1, <5>2, <5>3
      <4>2. CASE ~(o > h[r].op)
        <5>1. g[r].op = h[r].op
          BY Zenon, <3>2, <4>2
        <5>2. o <= h[r].op
          BY <2>1, <3>3, <4>2
        <5>. QED
          BY Zenon, <3>1, <5>1, <5>2
      <4>. QED
        BY Zenon, <4>1, <4>2
    <3>5. r \notin BulkRows => g[r].op \in applied \cup {o}
      BY Zenon, <3>1, <3>2
    <3>. QED
      BY Zenon, <1>5, <3>4, <3>5 DEF HeadRight
  <2>. QED
    BY Zenon, <2>2, <2>3
<1>. QED
  BY Zenon, <1>5, <1>6, <1>7 DEF g, UpsertGood

\* A table of heads that differs in the row r alone, whose head is the newest of the set.
RebuiltGood(g, h, r, all) ==
  /\ HeadsTyped(g)
  /\ \A q : q # r => (q \in DOMAIN g <=> q \in DOMAIN h)
  /\ \A q \in DOMAIN h : q # r => g[q] = h[q]
  /\ r \in DOMAIN g <=> all # {}
  /\ r \in DOMAIN g => g[r].op = Max(all)

\* rebuild_head: the newest applied operation the log has.
LEMMA RebuildFacts ==
  ASSUME NEW l, DOMAIN l \in SUBSET Ops, IsFiniteSet(DOMAIN l), NEW h, HeadsTyped(h),
         NEW r \in RowIds
  PROVE  RebuiltGood(RebuildHead(l, h, r), h, r, AppliedIn(l, r))
<1>. DEFINE all == AppliedIn(l, r)
            row == [op |-> Max(all), origin |-> DeviceOf[Min(all)], trimmed |-> FALSE]
            g == RebuildHead(l, h, r)
<1>1. CASE all = {}
  <2>1. g = Removing(h, {r})
    BY Zenon, <1>1 DEF RebuildHead
  <2>. HIDE DEF g
  <2>2. DOMAIN g = DOMAIN h \ {r} /\ g \in [DOMAIN h \ {r} -> HeadRow]
          /\ \A q \in DOMAIN h : q # r => g[q] = h[q]
    BY Zenon, <2>1 DEF Removing, Restrict, HeadsTyped
  <2>. QED
    BY Zenon, <1>1, <2>2 DEF HeadsTyped, g, RebuiltGood
<1>2. CASE all # {}
  <2>1. g = Extended(h, r, row)
    BY Zenon, <1>2 DEF RebuildHead
  <2>2. Max(all) \in Ops /\ Min(all) \in Ops
    BY Zenon, <1>2, AppliedFacts
  <2>3. row \in HeadRow /\ row.op = Max(all)
    BY Zenon, <2>2 DEF HeadRow, Devices
  <2>. HIDE DEF g, row
  <2>4. /\ DOMAIN g = DOMAIN h \cup {r} /\ g[r] = row
        /\ \A q \in DOMAIN h : q # r => g[q] = h[q]
        /\ g \in [DOMAIN h \cup {r} -> HeadRow]
    BY Zenon, <2>1, <2>3 DEF Extended, HeadsTyped
  <2>. QED
    BY Zenon, <1>2, <2>3, <2>4 DEF HeadsTyped, g, RebuiltGood
<1>. QED
  BY Zenon, <1>1, <1>2

\* The history of a row consists of operations.
LEMMA HistoryIsOps ==
  ASSUME NEW l, DOMAIN l \in SUBSET Ops, NEW cn, NEW dr \in SUBSET Ops, NEW df, NEW r
  PROVE  History(l, cn, dr, df, r) \in SUBSET Ops
BY Zenon DEF History, AppliedIn

\* Rows of deferred operations are outside the bulk tables.
LEMMA DeferredNotBulk ==
  ASSUME StreamInv, WinnerInv, NEW r \in RowIds, NEW x \in External, canon[RowOf[x]] = r
  PROVE  r \notin BulkRows
<1>1. RowOf[x] \in RowIds /\ RowOf[x] \notin BulkRows
  BY Zenon, StoreAssumption
<1>. QED
  BY Zenon, <1>1 DEF WinnerInv, BulkAlone

\* An operation comes to be applied under its row: append, and the end of a deferral.
LEMMA AppliedOneMore ==
  ASSUME StreamInv, WinnerInv, NEW o \in Ops, NEW r \in RowIds, r = canon[RowOf[o]],
         DOMAIN log' = DOMAIN log \cup {o},
         log'[o] = [row |-> r, applied |-> TRUE],
         \A x \in DOMAIN log : x # o => log'[x] = log[x],
         o \in DOMAIN log => log[o].row = r,
         heads' = UpsertHead(log', heads, o, r), UNCHANGED <<canon, drained, deferred>>
  PROVE  WinnerInv'
<1>1. AppliedIn(log', r) = AppliedIn(log, r) \cup {o}
  BY DEF AppliedIn
<1>2. \A q : q # r => AppliedIn(log', q) = AppliedIn(log, q)
  BY DEF AppliedIn
<1>3. /\ History(log', canon', drained', deferred', r)
           = History(log, canon, drained, deferred, r) \cup {o}
      /\ \A q : q # r => History(log', canon', drained', deferred', q)
                          = History(log, canon, drained, deferred, q)
  BY Zenon, <1>1, <1>2 DEF History
<1>4. History(log, canon, drained, deferred, r) \in SUBSET Ops
  BY Zenon, HistoryIsOps DEF StreamInv, StreamTypes, WinnerInv
<1>5. HeadRight(r, History(log, canon, drained, deferred, r), AppliedIn(log, r), heads)
  BY Zenon DEF WinnerInv, HeadsRight
<1>6. /\ HeadsTyped(heads')
      /\ \A q : q # r => (q \in DOMAIN heads' <=> q \in DOMAIN heads)
      /\ \A q \in DOMAIN heads : q # r => heads'[q] = heads[q]
      /\ HeadRight(r, History(log', canon', drained', deferred', r), AppliedIn(log', r), heads')
  <2>. DEFINE hist == History(log, canon, drained, deferred, r)
              applied == AppliedIn(log, r)
  <2>1. HeadsTyped(heads)
    BY Zenon DEF WinnerInv
  <2>. HIDE DEF hist, applied
  <2>2. UpsertGood(UpsertHead(log', heads, o, r), heads, o, r, hist, applied)
    <3>1. HeadRight(r, hist, applied, heads) /\ hist \in SUBSET Ops
      BY Zenon, <1>4, <1>5 DEF hist, applied
    <3>. QED
      BY Zenon, <2>1, <3>1, UpsertFacts
  <2>. QED
    BY Zenon, <1>1, <1>3, <2>2 DEF hist, applied, UpsertGood
<1>7. HeadsRight'
  <2>. SUFFICES ASSUME NEW q \in RowIds
                PROVE  HeadRight(q, History(log', canon', drained', deferred', q),
                                 AppliedIn(log', q), heads')
    BY Zenon DEF HeadsRight
  <2>1. CASE q = r
    BY Zenon, <1>6, <2>1
  <2>2. CASE q # r
    <3>1. HeadRight(q, History(log, canon, drained, deferred, q), AppliedIn(log, q), heads)
      BY Zenon DEF WinnerInv, HeadsRight
    <3>. QED
      BY Zenon, <1>2, <1>3, <1>6, <2>2, <3>1 DEF HeadRight
  <2>. QED
    BY Zenon, <2>1, <2>2
<1>8. Filed'
  BY DEF WinnerInv, Filed
<1>. QED
  BY Zenon, <1>6, <1>7, <1>8 DEF WinnerInv, BulkAlone

\* An operation is appended.
LEMMA AppendKeepsWinner ==
  ASSUME StreamInv, WinnerInv, NEW o \in Ops, AppendOp(o)
  PROVE  WinnerInv'
<1>. DEFINE r == canon[RowOf[o]]
<1>1. /\ o \notin DOMAIN log /\ log' = Extended(log, o, [row |-> r, applied |-> TRUE])
      /\ heads' = UpsertHead(log', heads, o, r) /\ UNCHANGED <<canon, drained, deferred>>
  BY Zenon DEF AppendOp
<1>2. r \in RowIds
  BY Zenon, StoreAssumption DEF StreamInv, StreamTypes
<1>3. /\ DOMAIN log' = DOMAIN log \cup {o} /\ log'[o] = [row |-> r, applied |-> TRUE]
      /\ \A x \in DOMAIN log : x # o => log'[x] = log[x]
  BY Zenon, <1>1 DEF Extended
<1>. HIDE DEF r
<1>. QED
  BY Zenon, <1>1, <1>2, <1>3, AppliedOneMore DEF r

\* A log row with its flag set.
LEMMA MarkedFacts ==
  ASSUME NEW e \in LogRow, NEW b \in BOOLEAN
  PROVE  [e EXCEPT !.applied = b] = [row |-> e.row, applied |-> b]
BY DEF LogRow

\* A deferred operation is marked applied again.
LEMMA CanonicalizeKeepsWinner ==
  ASSUME StreamInv, WinnerInv, NEW o \in Ops, Canonicalize(o)
  PROVE  WinnerInv'
<1>. DEFINE r == log[o].row
<1>1. /\ o \in DOMAIN log /\ log' = [log EXCEPT ![o].applied = TRUE]
      /\ heads' = UpsertHead(log', heads, o, r) /\ UNCHANGED <<canon, drained, deferred>>
  BY Zenon DEF Canonicalize
<1>2. r \in RowIds /\ r = canon[RowOf[o]] /\ log \in [DOMAIN log -> LogRow] /\ log[o] \in LogRow
  BY Zenon, <1>1 DEF StreamInv, StreamTypes, WinnerInv, Filed, LogRow
<1>3. [log[o] EXCEPT !.applied = TRUE] = [row |-> r, applied |-> TRUE]
  BY Zenon, <1>2, MarkedFacts
<1>4. /\ DOMAIN log' = DOMAIN log \cup {o} /\ log'[o] = [row |-> r, applied |-> TRUE]
      /\ \A x \in DOMAIN log : x # o => log'[x] = log[x]
  BY Zenon, <1>1, <1>2, <1>3
<1>. HIDE DEF r
<1>. QED
  BY Zenon, <1>1, <1>2, <1>4, AppliedOneMore DEF r

\* A row whose head and history a step does not touch.
LEMMA SameRowRight ==
  ASSUME NEW q, NEW hist, NEW applied, NEW h, NEW g, HeadRight(q, hist, applied, h),
         q \in DOMAIN g <=> q \in DOMAIN h, q \in DOMAIN h => g[q].op = h[q].op
  PROVE  HeadRight(q, hist, applied, g)
BY Zenon DEF HeadRight

\* demote_head after an operation was marked unapplied.
LEMMA DeferKeepsWinner ==
  ASSUME StreamInv, WinnerInv, NEW o \in Ops, Defer(o)
  PROVE  WinnerInv'
<1>. DEFINE r == log[o].row
            A == AppliedIn(log, r)
            rest == AppliedIn(log', r)
            hist == History(log, canon, drained, deferred, r)
            next == History(log', canon', drained', deferred', r)
<1>1. /\ o \in DOMAIN log /\ o \in External /\ log[o].applied
      /\ log' = [log EXCEPT ![o].applied = FALSE]
      /\ heads' = DemoteHead(log', heads, o) /\ UNCHANGED <<canon, drained>>
      /\ deferred' = deferred \cup {o}
  BY Zenon DEF Defer
<1>2. r \in RowIds /\ r = canon[RowOf[o]] /\ log \in [DOMAIN log -> LogRow] /\ log[o] \in LogRow
  BY Zenon, <1>1 DEF StreamInv, StreamTypes, WinnerInv, Filed, LogRow
<1>3. /\ DOMAIN log' = DOMAIN log /\ log'[o] = [row |-> r, applied |-> FALSE]
      /\ \A x \in DOMAIN log : x # o => log'[x] = log[x]
  BY Zenon, <1>1, <1>2, MarkedFacts
<1>. HIDE DEF r
<1>4. rest = A \ {o} /\ o \in A /\ \A q : q # r => AppliedIn(log', q) = AppliedIn(log, q)
  BY Zenon, <1>1, <1>3 DEF AppliedIn, r
<1>5. r \notin BulkRows
  BY Zenon, <1>1, <1>2, DeferredNotBulk
<1>6. /\ History(log, canon, drained, deferred, r) = hist
      /\ History(log', canon', drained', deferred', r) = next
      /\ next \subseteq hist /\ rest \subseteq next
      /\ \A d \in next : d \in rest \/ o < d
      /\ \A q : q # r => History(log', canon', drained', deferred', q)
                          = History(log, canon, drained, deferred, q)
  <2>1. \A q, d : Clear(canon', deferred', q, d) <=>
          Clear(canon, deferred, q, d) /\ (q = r => o < d)
    BY Zenon, <1>1, <1>2 DEF Clear
  <2>. QED
    BY Zenon, <1>1, <1>4, <2>1 DEF History
<1>7. /\ r \in DOMAIN heads /\ heads[r].op \in A /\ \A x \in hist : x <= heads[r].op
      /\ HeadsTyped(heads) /\ heads[r] \in HeadRow
  <2>1. HeadRight(r, hist, A, heads) /\ HeadsTyped(heads) /\ A \subseteq hist
    BY Zenon, <1>2 DEF WinnerInv, HeadsRight, History
  <2>. HIDE DEF hist, A
  <2>. QED
    BY Zenon, <1>4, <1>5, <2>1 DEF HeadRight, HeadsTyped
<1>8. /\ rest \in SUBSET Ops
      /\ rest # {} => Max(rest) \in rest /\ \A x \in rest : x <= Max(rest)
  BY Zenon, <1>3, AppliedFacts DEF StreamInv, StreamTypes
<1>9. log'[o].row = r
  BY <1>3
<1>. HIDE DEF A, rest, hist, next
<1>a. heads[r].op = o => next = rest
  <2>1. o \in Nat /\ \A d \in hist : d \in Nat
    BY Zenon, HistoryIsOps, StoreAssumption DEF hist, StreamInv, StreamTypes, WinnerInv
  <2>2. heads[r].op = o => \A d \in hist : ~(o < d)
    BY <1>7, <2>1
  <2>. QED
    BY Zenon, <1>6, <2>2
<1>10. /\ HeadsTyped(heads')
       /\ \A q : q # r => (q \in DOMAIN heads' <=> q \in DOMAIN heads)
       /\ \A q \in DOMAIN heads : q # r => heads'[q] = heads[q]
       /\ HeadRight(r, next, rest, heads')
  <2>1. CASE heads[r].op # o
    <3>1. heads' = heads
      BY Zenon, <1>1, <1>9, <2>1 DEF DemoteHead
    <3>. QED
      BY Zenon, <1>4, <1>6, <1>7, <2>1, <3>1 DEF HeadRight
  <2>2. CASE heads[r].op = o /\ rest = {}
    <3>1. heads' = Removing(heads, {r})
      BY Zenon, <1>1, <1>7, <1>9, <2>2 DEF DemoteHead, rest
    <3>2. /\ DOMAIN heads' = DOMAIN heads \ {r} /\ heads' \in [DOMAIN heads \ {r} -> HeadRow]
          /\ \A q \in DOMAIN heads : q # r => heads'[q] = heads[q]
      BY Zenon, <1>7, <3>1 DEF Removing, Restrict, HeadsTyped
    <3>. QED
      BY Zenon, <1>7, <1>a, <2>2, <3>2 DEF HeadRight, HeadsTyped
  <2>3. CASE heads[r].op = o /\ rest # {}
    <3>. DEFINE d == [heads[r] EXCEPT !.op = Max(rest)]
                e == [d EXCEPT !.trimmed = FALSE]
    <3>1. heads' = [heads EXCEPT ![r] = [heads[r] EXCEPT !.op = Max(rest), !.trimmed = FALSE]]
      BY Zenon, <1>1, <1>7, <1>9, <2>3 DEF DemoteHead, rest
    <3>2. [heads[r] EXCEPT !.op = Max(rest), !.trimmed = FALSE] = e
      BY Zenon
    <3>3. d \in HeadRow /\ d.op = Max(rest)
      BY Zenon, <1>7, <1>8, <2>3 DEF HeadRow
    <3>. HIDE DEF d
    <3>4. e \in HeadRow /\ e.op = Max(rest)
      BY Zenon, <3>3 DEF HeadRow
    <3>. HIDE DEF e
    <3>5. /\ DOMAIN heads' = DOMAIN heads /\ heads' \in [DOMAIN heads -> HeadRow]
          /\ heads'[r] = e /\ \A q \in DOMAIN heads : q # r => heads'[q] = heads[q]
      BY Zenon, <1>7, <3>1, <3>2, <3>4 DEF HeadsTyped
    <3>. QED
      BY Zenon, <1>7, <1>8, <1>a, <2>3, <3>4, <3>5 DEF HeadRight, HeadsTyped
  <2>. QED
    BY Zenon, <2>1, <2>2, <2>3
<1>11. HeadsRight'
  <2>. SUFFICES ASSUME NEW q \in RowIds
                PROVE  HeadRight(q, History(log', canon', drained', deferred', q),
                                 AppliedIn(log', q), heads')
    BY Zenon DEF HeadsRight
  <2>1. CASE q = r
    BY Zenon, <1>6, <1>10, <2>1 DEF rest, next
  <2>2. CASE q # r
    <3>1. HeadRight(q, History(log, canon, drained, deferred, q), AppliedIn(log, q), heads)
      BY Zenon DEF WinnerInv, HeadsRight
    <3>. QED
      BY Zenon, <1>4, <1>6, <1>10, <2>2, <3>1, SameRowRight
  <2>. QED
    BY Zenon, <2>1, <2>2
<1>12. Filed'
  BY <1>1, <1>2, <1>3 DEF WinnerInv, Filed
<1>. QED
  BY Zenon, <1>1, <1>10, <1>11, <1>12 DEF WinnerInv, BulkAlone

\* The alias merge, with rebuild_head of both rows.
LEMMA MergeKeepsWinner ==
  ASSUME StreamInv, WinnerInv, NEW from \in RowIds, NEW to \in RowIds,
         from \notin BulkRows, to \notin BulkRows, MergeAlias(from, to)
  PROVE  WinnerInv'
<1>. DEFINE F == AppliedIn(log, from)
            T == AppliedIn(log, to)
            mid == RebuildHead(log', heads, from)
<1>1. /\ canon[from] = from /\ canon[to] = to /\ from # to
      /\ canon' = [r \in RowIds |-> IF canon[r] = from THEN to ELSE canon[r]]
      /\ log' = [o \in DOMAIN log |->
                   IF log[o].row = from THEN [log[o] EXCEPT !.row = to] ELSE log[o]]
      /\ heads' = RebuildHead(log', mid, to) /\ UNCHANGED <<drained, deferred>>
  BY Zenon DEF MergeAlias
<1>2. \A o \in DOMAIN log : log[o] \in LogRow
  BY Zenon DEF StreamInv, StreamTypes
<1>3. /\ DOMAIN log' = DOMAIN log
      /\ \A o \in DOMAIN log : /\ log'[o].applied = log[o].applied
                               /\ log[o].row = from => log'[o].row = to
                               /\ log[o].row # from => log'[o].row = log[o].row
  BY Zenon, <1>1, <1>2 DEF LogRow
<1>4. /\ AppliedIn(log', from) = {} /\ AppliedIn(log', to) = F \cup T
      /\ \A q : q # from /\ q # to => AppliedIn(log', q) = AppliedIn(log, q)
  BY <1>1, <1>3 DEF AppliedIn
<1>5. /\ DOMAIN log' \in SUBSET Ops /\ IsFiniteSet(DOMAIN log') /\ HeadsTyped(heads)
  BY Zenon, <1>3 DEF StreamInv, StreamTypes, WinnerInv
<1>6. RebuiltGood(mid, heads, from, AppliedIn(log', from))
  BY Zenon, <1>5, RebuildFacts
<1>. HIDE DEF mid
<1>7. RebuiltGood(heads', mid, to, AppliedIn(log', to))
  <2>1. HeadsTyped(mid)
    BY Zenon, <1>6 DEF RebuiltGood
  <2>. QED
    BY Zenon, <1>1, <1>5, <2>1, RebuildFacts
<1>8. /\ F \cup T \in SUBSET Nat
      /\ F \cup T # {} =>
           Max(F \cup T) \in F \cup T /\ \A o \in F \cup T : o <= Max(F \cup T)
  BY Zenon, <1>4, <1>5, AppliedFacts
<1>9. /\ HeadsTyped(heads') /\ from \notin DOMAIN heads'
      /\ \A q : q # from /\ q # to => (q \in DOMAIN heads' <=> q \in DOMAIN heads)
      /\ \A q \in DOMAIN heads : q # from /\ q # to => heads'[q] = heads[q]
      /\ to \in DOMAIN heads' <=> F \cup T # {}
      /\ to \in DOMAIN heads' => heads'[to].op = Max(F \cup T)
  BY Zenon, <1>1, <1>4, <1>6, <1>7 DEF RebuiltGood
<1>10. \A x \in Ops : /\ RowOf[x] \in RowIds
                      /\ canon[RowOf[x]] = from => canon'[RowOf[x]] = to
                      /\ canon[RowOf[x]] # from => canon'[RowOf[x]] = canon[RowOf[x]]
  BY Zenon, <1>1, StoreAssumption
<1>11. drained \in SUBSET Ops /\ deferred \in SUBSET Ops
  BY Zenon, StoreAssumption DEF WinnerInv
<1>12. History(log', canon', drained', deferred', from) = {}
  BY Zenon, <1>1, <1>4, <1>10, <1>11 DEF History
<1>13. \A q : q # from /\ q # to =>
         History(log', canon', drained', deferred', q) = History(log, canon, drained, deferred, q)
  <2>. SUFFICES ASSUME NEW q, q # from, q # to
                PROVE  History(log', canon', drained', deferred', q)
                         = History(log, canon, drained, deferred, q)
    BY Zenon
  <2>1. \A x \in Ops : canon'[RowOf[x]] = q <=> canon[RowOf[x]] = q
    BY Zenon, <1>10
  <2>2. \A o : Clear(canon', deferred', q, o) <=> Clear(canon, deferred, q, o)
    BY Zenon, <1>1, <1>11, <2>1 DEF Clear
  <2>. QED
    BY Zenon, <1>1, <1>4, <1>11, <2>1, <2>2 DEF History
<1>14. ASSUME NEW d \in History(log', canon', drained', deferred', to)
       PROVE  \E o \in F \cup T : d <= o
  <2>1. CASE d \in F \cup T
    BY Zenon, <1>8, <2>1
  <2>2. CASE d \notin F \cup T
    <3>1. d \in drained /\ canon'[RowOf[d]] = to /\ Clear(canon', deferred, to, d)
      BY Zenon, <1>1, <1>4, <1>14, <2>2 DEF History
    <3>2. Clear(canon, deferred, from, d) /\ Clear(canon, deferred, to, d)
      BY Zenon, <1>1, <1>10, <1>11, <3>1 DEF Clear
    <3>3. \/ d \in History(log, canon, drained, deferred, from)
          \/ d \in History(log, canon, drained, deferred, to)
      BY Zenon, <1>10, <1>11, <3>1, <3>2 DEF History
    <3>4. /\ HeadRight(from, History(log, canon, drained, deferred, from), F, heads)
          /\ HeadRight(to, History(log, canon, drained, deferred, to), T, heads)
      BY Zenon DEF WinnerInv, HeadsRight
    <3>. QED
      BY Zenon, <3>3, <3>4 DEF HeadRight
  <2>. QED
    BY Zenon, <2>1, <2>2
<1>. HIDE DEF F, T
<1>15. HeadRight(to, History(log', canon', drained', deferred', to), AppliedIn(log', to), heads')
  <2>. DEFINE hist == History(log', canon', drained', deferred', to)
              m == Max(F \cup T)
  <2>1. F \cup T \subseteq hist
    BY Zenon, <1>4 DEF History
  <2>2. CASE F \cup T = {}
    <3>1. hist = {}
      BY Zenon, <1>14, <2>2
    <3>. QED
      BY Zenon, <1>9, <2>2, <3>1 DEF HeadRight
  <2>3. CASE F \cup T # {}
    <3>1. m \in F \cup T /\ \A o \in F \cup T : o <= m /\ o \in Nat
      BY Zenon, <1>8, <2>3
    <3>2. \A d \in hist : d \in Nat
      BY Zenon, <1>5, <1>11, <1>1, HistoryIsOps, StoreAssumption
    <3>. HIDE DEF m, hist
    <3>3. \A d \in hist : d <= m
      <4>. SUFFICES ASSUME NEW d \in hist PROVE d <= m
        BY Zenon
      <4>1. PICK o \in F \cup T : d <= o
        BY Zenon, <1>14 DEF hist
      <4>2. d \in Nat /\ o \in Nat /\ m \in Nat /\ o <= m
        BY Zenon, <3>1, <3>2
      <4>. QED
        BY <4>1, <4>2
    <3>4. to \in DOMAIN heads' /\ heads'[to].op = m
      BY Zenon, <1>9, <2>3 DEF m
    <3>. QED
      BY Zenon, <1>4, <2>1, <3>1, <3>3, <3>4 DEF HeadRight, hist
  <2>. QED
    BY Zenon, <2>2, <2>3
<1>16. HeadsRight'
  <2>. SUFFICES ASSUME NEW q \in RowIds
                PROVE  HeadRight(q, History(log', canon', drained', deferred', q),
                                 AppliedIn(log', q), heads')
    BY Zenon DEF HeadsRight
  <2>1. CASE q = to
    BY Zenon, <1>15, <2>1
  <2>2. CASE q = from
    BY Zenon, <1>9, <1>12, <2>2 DEF HeadRight
  <2>3. CASE q # from /\ q # to
    <3>1. HeadRight(q, History(log, canon, drained, deferred, q), AppliedIn(log, q), heads)
      BY Zenon DEF WinnerInv, HeadsRight
    <3>. QED
      BY Zenon, <1>4, <1>9, <1>13, <2>3, <3>1, SameRowRight
  <2>. QED
    BY Zenon, <2>1, <2>2, <2>3
<1>17. Filed'
  <2>1. \A o \in DOMAIN log : o \in Ops
    BY Zenon DEF StreamInv, StreamTypes
  <2>. QED
    BY Zenon, <1>1, <1>3, <1>10, <2>1 DEF WinnerInv, Filed
<1>18. BulkAlone'
  BY Zenon, <1>1 DEF WinnerInv, BulkAlone
<1>. QED
  BY Zenon, <1>1, <1>9, <1>16, <1>17, <1>18 DEF WinnerInv

\* delete_ops_chunk: an operation that goes is older than its row's head, or of a bulk table.
LEMMA DeleteKeepsWinner ==
  ASSUME StreamInv, WinnerInv, NEW chunk \in SUBSET scan.found, DeleteChunk(chunk)
  PROVE  WinnerInv'
<1>. DEFINE gone == {o \in chunk \cap DOMAIN log : StillDeletable(o)}
<1>1. /\ heads' = Trimmed(chunk \cap DOMAIN log) /\ log' = Removing(log, gone)
      /\ drained' = drained \cup gone /\ UNCHANGED <<canon, deferred>>
  BY Zenon DEF DeleteChunk
<1>2. \A o \in gone : /\ o \in DOMAIN log
                      /\ log[o].row \in BulkRows \/ ~IsHead(o)
  BY Zenon DEF StillDeletable
<1>. HIDE DEF gone
<1>3. /\ DOMAIN log' = DOMAIN log \ gone /\ \A o \in DOMAIN log' : log'[o] = log[o]
  BY Zenon, <1>1 DEF Removing, Restrict
<1>4. /\ DOMAIN heads' = DOMAIN heads /\ heads' \in [DOMAIN heads -> HeadRow]
      /\ \A r \in DOMAIN heads : heads'[r].op = heads[r].op
  <2>. DEFINE flag(r) == heads[r].trimmed \/ (r \in BulkRows
         /\ heads[r].op \in chunk \cap DOMAIN log)
              row(r) == [heads[r] EXCEPT !.trimmed = flag(r)]
  <2>1. heads' = [r \in DOMAIN heads |-> row(r)]
    BY Zenon, <1>1 DEF Trimmed
  <2>2. ASSUME NEW r \in DOMAIN heads PROVE row(r) \in HeadRow /\ row(r).op = heads[r].op
    <3>1. heads[r] \in HeadRow
      BY Zenon DEF WinnerInv, HeadsTyped
    <3>2. flag(r) \in BOOLEAN
      BY Zenon, <3>1 DEF HeadRow
    <3>. HIDE DEF flag
    <3>. QED
      BY Zenon, <3>1, <3>2 DEF HeadRow
  <2>. HIDE DEF row
  <2>. QED
    BY Zenon, <2>1, <2>2
<1>5. \A r : AppliedIn(log', r) = AppliedIn(log, r) \ gone
  BY Zenon, <1>3 DEF AppliedIn
<1>6. ASSUME NEW r \in RowIds
      PROVE  HeadRight(r, History(log', canon', drained', deferred', r), AppliedIn(log', r), heads')
  <2>. DEFINE hist == History(log, canon, drained, deferred, r)
              next == History(log', canon', drained', deferred', r)
  <2>1. HeadRight(r, hist, AppliedIn(log, r), heads)
    BY Zenon DEF WinnerInv, HeadsRight
  <2>2. ASSUME r \in DOMAIN heads, r \notin BulkRows PROVE heads[r].op \in AppliedIn(log', r)
    <3>1. heads[r].op \in AppliedIn(log, r)
      BY Zenon, <2>1, <2>2 DEF HeadRight
    <3>2. heads[r].op \notin gone
      BY Zenon, <1>2, <2>2, <3>1 DEF IsHead, AppliedIn
    <3>. QED
      BY Zenon, <1>5, <3>1, <3>2
  <2>3. next \subseteq hist
    <3>. SUFFICES ASSUME NEW d \in next, d \notin hist PROVE FALSE
      BY Zenon
    <3>1. d \in gone /\ canon[RowOf[d]] = r /\ Clear(canon, deferred, r, d)
      BY Zenon, <1>1, <1>5 DEF History
    <3>2. d \in DOMAIN log /\ log[d].row = r /\ d \in Nat
      BY Zenon, <1>2, <3>1, StoreAssumption DEF WinnerInv, Filed, StreamInv, StreamTypes
    <3>3. d \notin deferred
      BY <3>1, <3>2 DEF Clear
    <3>. QED
      BY Zenon, <3>2, <3>3 DEF WinnerInv, Filed, History, AppliedIn
  <2>4. ASSUME r \in DOMAIN heads PROVE heads[r].op \in next
    <3>1. CASE r \notin BulkRows
      BY Zenon, <2>2, <2>4, <3>1 DEF History
    <3>2. CASE r \in BulkRows
      <4>1. \A x \in deferred : canon[RowOf[x]] # r
        BY Zenon, <3>2, DeferredNotBulk DEF WinnerInv
      <4>2. \A d : Clear(canon, deferred, r, d)
        BY Zenon, <4>1 DEF Clear
      <4>3. heads[r].op \in hist
        BY Zenon, <2>1, <2>4 DEF HeadRight
      <4>4. \A d \in AppliedIn(log, r) : canon[RowOf[d]] = r
        BY Zenon DEF AppliedIn, WinnerInv, Filed
      <4>. QED
        BY Zenon, <1>1, <1>5, <4>2, <4>3, <4>4 DEF History
    <3>. QED
      BY Zenon, <3>1, <3>2
  <2>. HIDE DEF next, hist
  <2>5. HeadRight(r, next, AppliedIn(log', r), heads')
    BY Zenon, <1>4, <2>1, <2>2, <2>3, <2>4 DEF HeadRight
  <2>. QED
    BY Zenon, <2>5 DEF next
<1>7. Filed'
  BY Zenon, <1>1, <1>3 DEF WinnerInv, Filed
<1>8. drained' \in SUBSET Ops
  BY Zenon, <1>1, <1>2 DEF WinnerInv, StreamInv, StreamTypes
<1>. QED
  BY Zenon, <1>1, <1>4, <1>6, <1>7, <1>8 DEF WinnerInv, HeadsRight, BulkAlone, HeadsTyped

\* At start no row has a head.
LEMMA WinnerStarts == StoreInit => WinnerInv
<1>. SUFFICES ASSUME StoreInit PROVE WinnerInv
  BY Zenon
<1>1. DOMAIN log = {} /\ DOMAIN heads = {} /\ heads \in [{} -> HeadRow]
        /\ drained = {} /\ deferred = {}
  BY DEF StoreInit
<1>2. canon = [r \in RowIds |-> r]
  BY Zenon DEF StoreInit
<1>3. \A r : AppliedIn(log, r) = {} /\ History(log, canon, drained, deferred, r) = {}
  BY Zenon, <1>1 DEF AppliedIn, History
<1>. QED
  BY Zenon, <1>1, <1>2, <1>3 DEF WinnerInv, HeadsTyped, Filed, BulkAlone, HeadsRight, HeadRight

\* Each step of the store, in turn.
LEMMA WinnerStep ==
  ASSUME StreamInv, WinnerInv, StoreNext
  PROVE  WinnerInv'
<1>1. CASE UNCHANGED <<log, heads, canon, drained, deferred>>
  BY Zenon, <1>1 DEF WinnerInv, Filed, BulkAlone, HeadsRight
<1>2. CASE WriteStep
  <2>1. CASE \E o \in Ops : AppendOp(o)
    BY Zenon, <2>1, AppendKeepsWinner
  <2>2. CASE Tick
    BY Zenon, <1>1, <2>2 DEF Tick
  <2>. QED
    BY Zenon, <1>2, <2>1, <2>2 DEF WriteStep
<1>3. CASE RowStep
  <2>1. CASE \E o \in Ops : Defer(o)
    BY Zenon, <2>1, DeferKeepsWinner
  <2>2. CASE \E o \in Ops : Canonicalize(o)
    BY Zenon, <2>2, CanonicalizeKeepsWinner
  <2>3. CASE \E o \in Ops : Pin(o) \/ Unpin(o)
    BY Zenon, <1>1, <2>3 DEF Pin, Unpin
  <2>4. CASE \E a \in Aliases : MergeAlias(a[1], a[2])
    <3>1. PICK a \in Aliases : MergeAlias(a[1], a[2])
      BY Zenon, <2>4
    <3>2. /\ a[1] \in RowIds /\ a[2] \in RowIds
          /\ a[1] \notin BulkRows /\ a[2] \notin BulkRows
      BY Zenon, StoreAssumption
    <3>. QED
      BY Zenon, <3>1, <3>2, MergeKeepsWinner
  <2>. QED
    BY Zenon, <1>3, <2>1, <2>2, <2>3, <2>4 DEF RowStep
<1>4. CASE StreamStep
  BY Zenon, <1>1, <1>4 DEF StreamStep, RotateEpoch, Pair, Pull
<1>5. CASE CompactionStep
  <2>1. CASE \E chunk \in SUBSET scan.found : DeleteChunk(chunk)
    BY Zenon, <2>1, DeleteKeepsWinner
  <2>2. CASE Abandon \/ \E stop \in 0..MaxSeq, struck \in BOOLEAN : Scan(stop, struck)
    BY Zenon, <1>1, <2>2 DEF Abandon, Scan
  <2>. QED
    BY Zenon, <1>5, <2>1, <2>2 DEF CompactionStep
<1>. QED
  BY Zenon, <1>2, <1>3, <1>4, <1>5 DEF StoreNext

\* A stuttering step.
LEMMA StoreUnchanged == UNCHANGED storeVars /\ StreamInv /\ WinnerInv => StreamInv' /\ WinnerInv'
<1>. SUFFICES ASSUME UNCHANGED storeVars, StreamInv, WinnerInv PROVE StreamInv' /\ WinnerInv'
  BY Zenon
<1>1. clock' \in Nat /\ clock <= clock'
  BY DEF storeVars, StreamInv, StreamTypes
<1>2. StreamInv'
  BY Zenon, <1>1, QuietKeepsStream DEF storeVars
<1>. QED
  BY Zenon, <1>2 DEF storeVars, WinnerInv, Filed, BulkAlone, HeadsRight

\* The heads hold: the stream and the heads are as they should be in every state.
LEMMA StoreKept == StoreSpec => [](StreamInv /\ WinnerInv)
<1>1. StreamInv /\ WinnerInv /\ [StoreNext]_storeVars => StreamInv' /\ WinnerInv'
  BY Zenon, StreamStepFacts, WinnerStep, StoreUnchanged
<1>. QED
  BY <1>1, StreamStarts, WinnerStarts, PTL DEF StoreSpec

\* The last-writer-wins reads name the newest operation of a row's history (oplog_heads.rs,
\* newest_applied_in_store), whatever was deferred, merged, compacted away or pulled again:
\* what compaction took counts unless it lay below an operation that was deferred.
THEOREM WinnersAreNewest == StoreSpec => []WinnerIsNewest
<1>1. StreamInv /\ WinnerInv => WinnerIsNewest
  <2>. SUFFICES ASSUME StreamInv, WinnerInv, NEW r \in RowIds
                PROVE  LET newest == Newest(HistoryOf(r))
                       IN  /\ NewestApplied(r, NoOp) = newest
                           /\ \A x \in Ops : NewestApplied(r, x) =
                                 IF x = newest THEN Newest(AppliedIn(log, r) \ {x}) ELSE newest
    BY Zenon DEF WinnerIsNewest
  <2>. DEFINE hist == History(log, canon, drained, deferred, r)
              A == AppliedIn(log, r)
  <2>1. HistoryOf(r) = hist
    BY Zenon DEF HistoryOf, History, Clear
  <2>2. hist \in SUBSET Nat /\ 0 \notin hist /\ A \subseteq hist /\ 0 \notin Ops /\ 0 \notin A
    BY Zenon, HistoryIsOps, StoreAssumption DEF StreamInv, StreamTypes, WinnerInv, History
  <2>3. HeadRight(r, hist, A, heads)
    BY Zenon DEF WinnerInv, HeadsRight
  <2>. HIDE DEF hist
  <2>4. CASE r \notin DOMAIN heads
    <3>1. hist = {} /\ A = {}
      BY Zenon, <2>2, <2>3, <2>4 DEF HeadRight
    <3>. HIDE DEF A
    <3>2. \A x : NewestApplied(r, x) = NoOp
      BY Zenon, <2>4, <3>1 DEF NewestApplied, Newest, A
    <3>3. Newest(hist) = NoOp
      BY Zenon, <3>1 DEF Newest
    <3>. QED
      BY Zenon, <2>1, <2>2, <3>2, <3>3 DEF NoOp
  <2>5. CASE r \in DOMAIN heads
    <3>1. heads[r].op \in hist /\ \A o \in hist : o <= heads[r].op
      BY Zenon, <2>3, <2>5 DEF HeadRight
    <3>2. Newest(hist) = heads[r].op
      BY Zenon, <2>2, <3>1, MaxUnique DEF Newest
    <3>3. heads[r].op # NoOp
      BY Zenon, <2>2, <3>1 DEF NoOp
    <3>. HIDE DEF A
    <3>. QED
      BY Zenon, <2>1, <2>5, <3>2, <3>3 DEF NewestApplied
  <2>. QED
    BY Zenon, <2>4, <2>5
<1>. QED
  BY <1>1, StoreKept, PTL

\* The log holds every pinned operation, and a row's head outside the bulk tables
\* (retention.rs delete_ops_chunk, oplog_heads.rs demote_head, rebuild_head).
THEOREM NeededOpsHeld == StoreSpec => []NeededOpsAreHeld
<1>. DEFINE PinsHeld == pins \subseteq DOMAIN log
<1>1. StoreInit => PinsHeld
  BY Zenon DEF StoreInit
<1>2. PinsHeld /\ [StoreNext]_storeVars => PinsHeld'
  <2>. SUFFICES ASSUME PinsHeld, [StoreNext]_storeVars PROVE PinsHeld'
    BY Zenon
  <2>1. CASE UNCHANGED storeVars
    BY Zenon, <2>1 DEF storeVars
  <2>2. CASE WriteStep
    BY Zenon, <2>2 DEF WriteStep, AppendOp, Tick, Extended
  <2>3. CASE RowStep
    BY Zenon, <2>3 DEF RowStep, Defer, Canonicalize, Pin, Unpin, MergeAlias
  <2>4. CASE StreamStep
    BY Zenon, <2>4 DEF StreamStep, RotateEpoch, Pair, Pull
  <2>5. CASE CompactionStep
    <3>1. CASE \E chunk \in SUBSET scan.found : DeleteChunk(chunk)
      <4>1. PICK chunk \in SUBSET scan.found : DeleteChunk(chunk)
        BY Zenon, <3>1
      <4>. DEFINE gone == {o \in chunk \cap DOMAIN log : StillDeletable(o)}
      <4>2. log' = Removing(log, gone) /\ pins' = pins
        BY Zenon, <4>1 DEF DeleteChunk
      <4>3. \A o \in gone : o \notin pins
        BY Zenon DEF StillDeletable
      <4>. HIDE DEF gone
      <4>. QED
        BY Zenon, <4>2, <4>3 DEF Removing, Restrict
    <3>2. CASE Abandon \/ \E stop \in 0..MaxSeq, struck \in BOOLEAN : Scan(stop, struck)
      BY Zenon, <3>2 DEF Abandon, Scan
    <3>. QED
      BY Zenon, <2>5, <3>1, <3>2 DEF CompactionStep
  <2>. QED
    BY Zenon, <2>1, <2>2, <2>3, <2>4, <2>5 DEF StoreNext
<1>3. PinsHeld /\ WinnerInv => NeededOpsAreHeld
  <2>. SUFFICES ASSUME WinnerInv, NEW r \in DOMAIN heads \ BulkRows
                PROVE  heads[r].op \in AppliedIn(log, r)
    BY Zenon DEF NeededOpsAreHeld
  <2>. QED
    BY Zenon DEF WinnerInv, HeadsTyped, HeadsRight, HeadRight
<1>. QED
  BY <1>1, <1>2, <1>3, StoreKept, PTL DEF StoreSpec

-----------------------------------------------------------------------------
(* The binary search of horizon_relay_floor (OplogStore).                    *)

Computes(B, T, val, n) == \E f : f = [b \in B |-> IF b \in T THEN val[b] ELSE f[n[b]]]

\* A loop over B whose turns n lower a measure m until the state is in T computes a function.
LEMMA LoopComputes ==
  ASSUME NEW B, NEW T, NEW val, NEW n \in [B -> B], NEW m \in [B -> Nat], NEW K \in Nat,
         \A b \in B : m[b] < K, \A b \in B \ T : m[n[b]] < m[b]
  PROVE  Computes(B, T, val, n)
<1>. DEFINE Upto(f, k) == /\ f = [b \in B |-> f[b]]
                          /\ \A b \in B : m[b] < k => f[b] = IF b \in T THEN val[b] ELSE f[n[b]]
            Fails == {k \in Nat : ~\E f : Upto(f, k)}
<1>1. Fails = {}
  <2>. SUFFICES ASSUME Fails # {} PROVE FALSE
    BY Zenon
  <2>1. PICK k \in Fails : \A j \in Fails : k <= j
    BY Zenon, LeastNat
  <2>2. k # 0
    <3>1. Upto([b \in B |-> val[b]], 0)
      OBVIOUS
    <3>. QED
      BY <2>1, <3>1
  <2>3. k \in Nat /\ k - 1 \in Nat /\ k - 1 \notin Fails
    <3>1. k \in Nat
      BY Zenon, <2>1
    <3>. HIDE DEF Fails
    <3>2. k - 1 \in Nat /\ ~(k <= k - 1)
      BY <2>2, <3>1
    <3>. QED
      BY Zenon, <2>1, <3>1, <3>2
  <2>4. PICK f : Upto(f, k - 1)
    BY Zenon, <2>3
  <2>. DEFINE g == [b \in B |-> IF m[b] < k - 1 THEN f[b]
                                ELSE IF b \in T THEN val[b] ELSE f[n[b]]]
  <2>5. ASSUME NEW b \in B, m[b] < k PROVE g[b] = IF b \in T THEN val[b] ELSE g[n[b]]
    <3>1. g[b] = IF b \in T THEN val[b] ELSE f[n[b]]
      BY Zenon, <2>4
    <3>2. ASSUME b \notin T PROVE g[n[b]] = f[n[b]]
      <4>1. n[b] \in B /\ m[n[b]] \in Nat /\ m[b] \in Nat /\ m[n[b]] < m[b]
        BY Zenon, <3>2
      <4>2. m[n[b]] < k - 1
        BY <2>3, <2>5, <4>1
      <4>. QED
        BY Zenon, <4>1, <4>2
    <3>. HIDE DEF g
    <3>. QED
      BY Zenon, <3>1, <3>2
  <2>6. Upto(g, k)
    BY Zenon, <2>5
  <2>. QED
    BY Zenon, <2>1, <2>6
<1>2. PICK f : Upto(f, K)
  BY Zenon, <1>1
<1>3. f = [b \in B |-> IF b \in T THEN val[b] ELSE f[n[b]]]
  BY Zenon, <1>2
<1>. QED
  BY Zenon, <1>3 DEF Computes

BoundsOf(first, last) == [lo : first..(last + 1), hi : (first - 1)..last, best : first..last]
Searching(B, cutoff) ==
  CHOOSE f : f = [b \in B |-> IF b.lo > b.hi THEN b.best ELSE f[Narrow(b, cutoff)]]

\* The binary search is a function of its bounds.
LEMMA SearchIs ==
  ASSUME NEW cutoff, NEW first, NEW last
  PROVE  HorizonSearch(cutoff, first, last) =
           Searching(BoundsOf(first, last), cutoff)[[lo |-> first, hi |-> last, best |-> first]]
BY Zenon DEF HorizonSearch, Searching, BoundsOf

\* The probe finds an arrival, the last up to mid.
LEMMA ProbeFinds ==
  ASSUME StreamInv, NEW mid \in Nat, NEW s \in DOMAIN arrivals, s <= mid
  PROVE  /\ ProbeAt(mid) \in DOMAIN arrivals /\ ProbeAt(mid) \in Nat
         /\ s <= ProbeAt(mid) /\ ProbeAt(mid) <= mid
         /\ \A t \in DOMAIN arrivals : t <= mid => t <= ProbeAt(mid)
<1>. DEFINE S == {t \in DOMAIN arrivals : t <= mid}
<1>1. S \in SUBSET Int /\ IsFiniteSet(S) /\ S # {}
  BY FS_Subset DEF StreamInv, StreamTypes
<1>2. ProbeAt(mid) \in S /\ \A t \in S : t <= ProbeAt(mid)
  BY Zenon, <1>1, MaxIs DEF ProbeAt
<1>. QED
  BY Zenon, <1>2 DEF StreamInv, StreamTypes

\* What the loop of the search keeps true.
LoopRight(b, cutoff) ==
  /\ b.best \in DOMAIN arrivals /\ arrivals[b.best].at <= cutoff
  /\ \A s \in DOMAIN arrivals : s < b.lo => s <= b.best
  /\ \A s \in DOMAIN arrivals : s > b.hi => arrivals[s].at > cutoff

Span(b) == IF b.lo > b.hi THEN 0 ELSE b.hi - b.lo + 1

\* One turn stays in bounds, narrows them, and keeps the loop's invariant.
LEMMA NarrowFacts ==
  ASSUME StreamInv, NEW cutoff \in Int, NEW first \in DOMAIN arrivals, NEW last \in Nat,
         NEW b \in BoundsOf(first, last), ~(b.lo > b.hi)
  PROVE  LET c == Narrow(b, cutoff)
         IN  /\ c \in BoundsOf(first, last) /\ Span(c) < Span(b)
             /\ LoopRight(b, cutoff) => LoopRight(c, cutoff)
<1>. DEFINE mid == b.lo + (b.hi - b.lo) \div 2
            seq == ProbeAt(mid)
            c == Narrow(b, cutoff)
<1>1. /\ b = [lo |-> b.lo, hi |-> b.hi, best |-> b.best]
      /\ b.lo \in Int /\ b.hi \in Int /\ b.best \in Int /\ first \in Nat
      /\ first <= b.lo /\ b.lo <= last + 1 /\ first - 1 <= b.hi /\ b.hi <= last
      /\ first <= b.best /\ b.best <= last /\ b.lo <= b.hi
  BY DEF BoundsOf, StreamInv, StreamTypes
<1>2. mid \in Nat /\ b.lo <= mid /\ mid <= b.hi
  BY <1>1
<1>. HIDE DEF mid
<1>3. /\ seq \in DOMAIN arrivals /\ seq \in Nat /\ first <= seq /\ seq <= mid
      /\ \A t \in DOMAIN arrivals : t <= mid => t <= seq
  BY <1>1, <1>2, ProbeFinds
<1>. HIDE DEF seq
<1>4. \A s \in DOMAIN arrivals : s \in Nat /\ arrivals[s].at \in Nat
  BY Zenon DEF StreamInv, StreamTypes, Arrival
<1>5. CASE arrivals[seq].at <= cutoff
  <2>. DEFINE top == Max({b.best, seq})
  <2>1. b.best \in Nat
    BY <1>1
  <2>2. top \in {b.best, seq} /\ b.best <= top /\ seq <= top
    BY Zenon, <1>3, <2>1, MaxOfTwo
  <2>. HIDE DEF top
  <2>3. c = [lo |-> mid + 1, hi |-> b.hi, best |-> top]
    BY Zenon, <1>1, <1>5 DEF Narrow, mid, seq, top
  <2>. HIDE DEF c
  <2>4. c \in BoundsOf(first, last)
    BY <1>1, <1>2, <1>3, <2>2, <2>3 DEF BoundsOf
  <2>5. Span(c) < Span(b)
    BY <1>1, <1>2, <2>3 DEF Span
  <2>6. ASSUME LoopRight(b, cutoff) PROVE LoopRight(c, cutoff)
    BY <1>1, <1>2, <1>3, <1>4, <1>5, <2>2, <2>3, <2>6 DEF LoopRight
  <2>. QED
    BY Zenon, <2>4, <2>5, <2>6 DEF c
<1>6. CASE ~(arrivals[seq].at <= cutoff)
  <2>1. c = [lo |-> b.lo, hi |-> seq - 1, best |-> b.best]
    BY Zenon, <1>1, <1>6 DEF Narrow, mid, seq
  <2>. HIDE DEF c
  <2>2. c \in BoundsOf(first, last)
    BY <1>1, <1>2, <1>3, <2>1 DEF BoundsOf
  <2>3. Span(c) < Span(b)
    BY <1>1, <1>2, <1>3, <2>1 DEF Span
  <2>4. ASSUME LoopRight(b, cutoff) PROVE LoopRight(c, cutoff)
    <3>1. ASSUME NEW s \in DOMAIN arrivals, s > seq - 1 PROVE arrivals[s].at > cutoff
      <4>1. arrivals[seq].at <= arrivals[s].at
        BY <1>3, <1>4, <3>1 DEF StreamInv, PlacesInTime
      <4>. QED
        BY <1>3, <1>4, <1>6, <4>1
    <3>. QED
      BY Zenon, <2>1, <2>4, <3>1 DEF LoopRight
  <2>. QED
    BY Zenon, <2>2, <2>3, <2>4 DEF c
<1>. QED
  BY Zenon, <1>5, <1>6

\* The search returns the last arrival that is no younger than the cutoff.
LEMMA SearchFinds ==
  ASSUME StreamInv, NEW cutoff \in Int, NEW first \in DOMAIN arrivals, NEW last \in Nat,
         NEW b \in BoundsOf(first, last), LoopRight(b, cutoff)
  PROVE  LET best == Searching(BoundsOf(first, last), cutoff)[b]
         IN  /\ best \in DOMAIN arrivals /\ arrivals[best].at <= cutoff
             /\ \A s \in DOMAIN arrivals : arrivals[s].at <= cutoff => s <= best
<1>. DEFINE B == BoundsOf(first, last)
            T == {c \in B : c.lo > c.hi}
            n == [c \in B |-> IF c \in T THEN c ELSE Narrow(c, cutoff)]
            m == [c \in B |-> Span(c)]
            val == [c \in B |-> c.best]
            search == Searching(B, cutoff)
            Found(s) == /\ s \in DOMAIN arrivals /\ arrivals[s].at <= cutoff
                        /\ \A t \in DOMAIN arrivals : arrivals[t].at <= cutoff => t <= s
<1>1. \A c \in B \ T : /\ Narrow(c, cutoff) \in B /\ Span(Narrow(c, cutoff)) < Span(c)
                       /\ LoopRight(c, cutoff) => LoopRight(Narrow(c, cutoff), cutoff)
  BY Zenon, NarrowFacts
<1>2. first \in Nat /\ \A s \in DOMAIN arrivals : s \in Nat /\ arrivals[s].at \in Nat
  BY Zenon DEF StreamInv, StreamTypes, Arrival
<1>3. \A c \in B : c.lo \in Int /\ c.hi \in Int /\ Span(c) \in Nat /\ Span(c) < last + 2
  BY <1>2 DEF BoundsOf, Span
<1>. HIDE DEF B
<1>4. n \in [B -> B] /\ m \in [B -> Nat] /\ last + 2 \in Nat
  BY <1>1, <1>3
<1>5. /\ \A c \in B : m[c] < last + 2
      /\ \A c \in B \ T : m[n[c]] < m[c]
  BY Zenon, <1>1, <1>3
<1>6. PICK f : f = [c \in B |-> IF c \in T THEN val[c] ELSE f[n[c]]]
  <2>. HIDE DEF n, m, T, val
  <2>1. Computes(B, T, val, n)
    BY Zenon, <1>4, <1>5, LoopComputes
  <2>. QED
    BY Zenon, <2>1 DEF Computes
<1>7. f = [c \in B |-> IF c.lo > c.hi THEN c.best ELSE f[Narrow(c, cutoff)]]
  <2>1. \A c \in B : f[c] = IF c.lo > c.hi THEN c.best ELSE f[Narrow(c, cutoff)]
    BY Zenon, <1>6
  <2>. QED
    BY Zenon, <1>6, <2>1
<1>8. search = [c \in B |-> IF c.lo > c.hi THEN c.best ELSE search[Narrow(c, cutoff)]]
  BY Zenon, <1>7 DEF Searching
<1>. HIDE DEF search
<1>9. \A c \in B : /\ c \in T => search[c] = c.best
                   /\ c \notin T => search[c] = search[Narrow(c, cutoff)]
  BY Zenon, <1>8
<1>. DEFINE Lost == {k \in Nat : \E c \in B : /\ Span(c) = k /\ LoopRight(c, cutoff)
                                             /\ ~Found(search[c])}
<1>. HIDE DEF Found
<1>10. Lost = {}
  <2>. SUFFICES ASSUME Lost # {} PROVE FALSE
    BY Zenon
  <2>1. PICK k \in Lost : \A j \in Lost : k <= j
    BY Zenon, LeastNat
  <2>2. PICK c \in B : Span(c) = k /\ LoopRight(c, cutoff) /\ ~Found(search[c])
    BY Zenon, <2>1
  <2>3. CASE c \in T
    <3>1. search[c] = c.best /\ c.lo > c.hi /\ c.lo \in Int /\ c.hi \in Int
      BY Zenon, <1>3, <1>9, <2>3
    <3>2. Found(c.best)
      <4>1. \A s \in DOMAIN arrivals : s < c.lo \/ s > c.hi
        BY <1>2, <3>1
      <4>. QED
        BY <1>2, <2>2, <4>1 DEF LoopRight, Found
    <3>. QED
      BY Zenon, <2>2, <3>1, <3>2
  <2>4. CASE c \notin T
    <3>. DEFINE d == Narrow(c, cutoff)
    <3>1. d \in B /\ Span(d) < Span(c) /\ LoopRight(d, cutoff) /\ search[c] = search[d]
      BY Zenon, <1>1, <1>9, <2>2, <2>4
    <3>2. Span(d) \in Nat /\ k \in Nat
      BY Zenon, <1>3, <2>1, <3>1
    <3>. HIDE DEF d
    <3>3. Span(d) \in Lost
      BY Zenon, <2>2, <3>1, <3>2
    <3>. QED
      BY <2>1, <2>2, <3>1, <3>2, <3>3
  <2>. QED
    BY Zenon, <2>3, <2>4
<1>11. Found(search[b])
  BY Zenon, <1>3, <1>10 DEF B
<1>. QED
  BY Zenon, <1>11 DEF Found, search, B

\* horizon_relay_floor, for every cutoff: the last arrival that is no younger.
LEMMA FloorFinds ==
  ASSUME StreamInv, NEW cutoff \in Int
  PROVE  LET floor == HorizonFloor(cutoff)
         IN  /\ floor \in Nat
             /\ floor # 0 => floor \in DOMAIN arrivals
             /\ floor # 0 => arrivals[floor].at <= cutoff
             /\ \A s \in DOMAIN arrivals : arrivals[s].at <= cutoff => s <= floor
<1>. DEFINE floor == HorizonFloor(cutoff)
            first == Min(DOMAIN arrivals)
<1>1. /\ DOMAIN arrivals \in SUBSET Nat
      /\ \A s \in DOMAIN arrivals : s \in Nat /\ s # 0 /\ s <= HeadSeq /\ arrivals[s].at \in Nat
      /\ HeadSeq \in Nat /\ (DOMAIN arrivals # {} => HeadSeq \in DOMAIN arrivals)
      /\ \A s, t \in DOMAIN arrivals : s <= t => arrivals[s].at <= arrivals[t].at
  <2>1. /\ DOMAIN arrivals \in SUBSET Nat
        /\ \A s \in DOMAIN arrivals : s \in Nat /\ arrivals[s].at \in Nat
    BY Zenon DEF StreamInv, StreamTypes, Arrival
  <2>2. \A s, t \in DOMAIN arrivals : s <= t => arrivals[s].at <= arrivals[t].at
    BY <2>1 DEF StreamInv, PlacesInTime
  <2>. QED
    BY Zenon, <2>1, <2>2, HeadFacts DEF StreamInv
<1>2. CASE DOMAIN arrivals = {}
  <2>1. arrivals = <<>>
    BY <1>2 DEF StreamInv, StreamTypes
  <2>2. floor = 0
    BY Zenon, <2>1 DEF HorizonFloor
  <2>. QED
    BY <1>2, <2>2
<1>3. CASE DOMAIN arrivals # {}
  <2>1. arrivals # <<>>
    BY <1>3
  <2>2. first \in DOMAIN arrivals /\ \A s \in DOMAIN arrivals : first <= s
    BY Zenon, <1>1, <1>3, MinIs
  <2>3. floor = IF arrivals[first].at > cutoff THEN 0
                ELSE IF arrivals[HeadSeq].at <= cutoff THEN HeadSeq
                ELSE HorizonSearch(cutoff, first, HeadSeq)
    BY Zenon, <2>1 DEF HorizonFloor
  <2>. HIDE DEF first, floor
  <2>4. CASE arrivals[first].at > cutoff
    <3>1. \A s \in DOMAIN arrivals : ~(arrivals[s].at <= cutoff)
      BY <1>1, <2>2, <2>4
    <3>2. floor = 0
      BY Zenon, <2>3, <2>4
    <3>. QED
      BY <3>1, <3>2 DEF floor
  <2>5. CASE ~(arrivals[first].at > cutoff) /\ arrivals[HeadSeq].at <= cutoff
    <3>1. floor = HeadSeq
      BY Zenon, <2>3, <2>5
    <3>. QED
      BY Zenon, <1>1, <1>3, <2>5, <3>1 DEF floor
  <2>6. CASE ~(arrivals[first].at > cutoff) /\ ~(arrivals[HeadSeq].at <= cutoff)
    <3>. DEFINE b == [lo |-> first, hi |-> HeadSeq, best |-> first]
    <3>1. floor = Searching(BoundsOf(first, HeadSeq), cutoff)[b]
      BY Zenon, <2>3, <2>6, SearchIs
    <3>2. b \in BoundsOf(first, HeadSeq)
      BY <1>1, <2>2 DEF BoundsOf
    <3>3. LoopRight(b, cutoff)
      BY <1>1, <2>2, <2>6 DEF LoopRight
    <3>. HIDE DEF b
    <3>4. /\ floor \in DOMAIN arrivals /\ arrivals[floor].at <= cutoff
          /\ \A s \in DOMAIN arrivals : arrivals[s].at <= cutoff => s <= floor
      BY Zenon, <1>1, <2>2, <3>1, <3>2, <3>3, SearchFinds
    <3>. QED
      BY Zenon, <1>1, <3>4 DEF floor
  <2>. QED
    BY Zenon, <2>4, <2>5, <2>6
<1>. QED
  BY Zenon, <1>2, <1>3

\* The binary search of horizon_relay_floor is right on a stream with holes (retention.rs).
THEOREM HorizonFloorFound == StoreSpec => []HorizonFloorIsRight
<1>1. StreamInv => HorizonFloorIsRight
  <2>. SUFFICES ASSUME StreamInv, NEW cutoff \in 0..MaxTime
                PROVE  HorizonFloor(cutoff) =
                         Max({0} \cup {s \in DOMAIN arrivals : arrivals[s].at <= cutoff})
    BY Zenon DEF HorizonFloorIsRight
  <2>. DEFINE S == {0} \cup {s \in DOMAIN arrivals : arrivals[s].at <= cutoff}
              floor == HorizonFloor(cutoff)
  <2>1. cutoff \in Int
    OBVIOUS
  <2>2. /\ floor \in Nat
        /\ floor # 0 => floor \in DOMAIN arrivals
        /\ floor # 0 => arrivals[floor].at <= cutoff
        /\ \A s \in DOMAIN arrivals : arrivals[s].at <= cutoff => s <= floor
    BY Zenon, <2>1, FloorFinds
  <2>. HIDE DEF floor
  <2>3. S \in SUBSET Nat /\ floor \in S /\ \A s \in S : s <= floor
    <3>1. \A s \in DOMAIN arrivals : s \in Nat
      BY Zenon DEF StreamInv, StreamTypes
    <3>2. \A s \in S : s \in Nat /\ s <= floor
      BY <2>2, <3>1
    <3>3. floor \in S
      BY Zenon, <2>2
    <3>. HIDE DEF S
    <3>. QED
      BY Zenon, <3>2, <3>3
  <2>. HIDE DEF S
  <2>4. Max(S) = floor
    BY Zenon, <2>3, MaxUnique
  <2>. QED
    BY Zenon, <2>4 DEF S, floor
<1>. QED
  BY <1>1, StoreKept, PTL

-----------------------------------------------------------------------------
(* What peers acknowledged (OplogStore).                                     *)

PeerRow == [trusted : BOOLEAN, seen : Nat, epoch : Nat, ack : Nat]
Cursor == [epoch : Nat, seq : Nat, passed : SUBSET Ops]

\* A place of an epoch is none of the future, and in the present epoch lies within the stream,
\* and the operations at all places up to it are among the set.
Known(a, now, epoch, seq, passed) ==
  /\ epoch <= now
  /\ epoch = now => /\ seq <= LastOf(DOMAIN a)
                    /\ \A s \in DOMAIN a : s <= seq => a[s].op \in passed

CursorsKnown ==
  \A p \in Peers : Known(arrivals, relay.epoch, pulled[p].epoch, pulled[p].seq, pulled[p].passed)

AcksKnown ==
  \A p \in Peers : Known(arrivals, relay.epoch, peers[p].epoch, peers[p].ack, pulled[p].passed)

PeersInv ==
  /\ peers \in [Peers -> PeerRow] /\ pulled \in [Peers -> Cursor] /\ relay.epoch # 0
  /\ scan.peers \subseteq Peers
  /\ \A p \in Peers : pulled[p].epoch = 0 => pulled[p].seq = 0
  /\ CursorsKnown /\ AcksKnown /\ PeersPassedWhatGoes

\* What is known stays known as the stream grows, or loses places, within an epoch.
LEMMA KnownStays ==
  ASSUME NEW a, NEW b, NEW now \in Nat, NEW epoch \in Nat, NEW seq \in Nat, NEW passed,
         LastOf(DOMAIN a) \in Nat, LastOf(DOMAIN b) \in Nat,
         LastOf(DOMAIN a) <= LastOf(DOMAIN b), \A s \in DOMAIN b : s \in Nat,
         \A s \in DOMAIN b : s <= LastOf(DOMAIN a) => s \in DOMAIN a /\ b[s].op = a[s].op,
         Known(a, now, epoch, seq, passed)
  PROVE  Known(b, now, epoch, seq, passed)
BY DEF Known

\* And as the peer receives more.
LEMMA KnownMore ==
  ASSUME NEW a, NEW now, NEW epoch, NEW seq, NEW passed, NEW more, passed \subseteq more,
         Known(a, now, epoch, seq, passed)
  PROVE  Known(a, now, epoch, seq, more)
BY Zenon DEF Known

\* A page extends what the peer's cursor stands for.
LEMMA PageKnown ==
  ASSUME StreamInv, relay.epoch # 0, NEW c \in Cursor, c.epoch = 0 => c.seq = 0,
         Known(arrivals, relay.epoch, c.epoch, c.seq, c.passed), ~PullNeedsReset(c),
         NEW upto \in {s \in DOMAIN arrivals : s > c.seq} \cup {c.seq}
  PROVE  /\ upto \in Nat
         /\ Known(arrivals, relay.epoch, relay.epoch, upto,
              c.passed \cup {arrivals[s].op : s \in {t \in DOMAIN arrivals : c.seq < t
                /\ t <= upto}})
<1>1. /\ relay.epoch \in Nat /\ c.seq \in Nat
      /\ c.epoch = 0 \/ c.epoch = relay.epoch
  BY Zenon DEF PullNeedsReset, StreamInv, StreamTypes, Cursor
<1>2. /\ LastOf(DOMAIN arrivals) \in Nat
      /\ \A s \in DOMAIN arrivals : s \in Nat /\ s # 0 /\ s <= LastOf(DOMAIN arrivals)
  BY Zenon, HeadFacts DEF StreamInv
<1>3. upto \in Nat /\ (upto \in DOMAIN arrivals \/ upto = c.seq)
  BY Zenon, <1>1, <1>2
<1>4. c.seq <= LastOf(DOMAIN arrivals)
        /\ \A s \in DOMAIN arrivals : s <= c.seq => arrivals[s].op \in c.passed
  <2>1. CASE c.epoch = 0
    BY <1>2, <2>1
  <2>2. CASE c.epoch = relay.epoch
    BY Zenon, <2>2 DEF Known
  <2>. QED
    BY Zenon, <1>1, <2>1, <2>2
<1>5. upto <= LastOf(DOMAIN arrivals)
  BY Zenon, <1>2, <1>3, <1>4
<1>. QED
  BY <1>1, <1>2, <1>3, <1>4, <1>5 DEF Known

\* A reset puts the cursor on the floor, behind which the peer is told to start.
LEMMA ResetKnown ==
  ASSUME StreamInv, NEW passed
  PROVE  /\ relay.floor \in Nat
         /\ Known(arrivals, relay.epoch, relay.epoch, relay.floor,
              passed \cup {arrivals[s].op : s \in {t \in DOMAIN arrivals : t <= relay.floor}})
<1>1. relay.epoch \in Nat /\ relay.floor \in Nat /\ relay.floor <= LastOf(DOMAIN arrivals)
  BY Zenon, HeadFacts DEF StreamInv, StreamTypes, FloorInside
<1>. QED
  BY <1>1 DEF Known

\* record_peer_ack of an admitted cursor records no more than the peer's cursors have passed.
LEMMA AckKnown ==
  ASSUME StreamInv, NEW row \in PeerRow, NEW c \in Cursor, NEW passed,
         Known(arrivals, relay.epoch, row.epoch, row.ack, passed),
         Known(arrivals, relay.epoch, c.epoch, c.seq, passed)
  PROVE  LET new == AdmitPullAck(row, c)
         IN  new \in PeerRow /\ Known(arrivals, relay.epoch, new.epoch, new.ack, passed)
<1>. DEFINE new == AdmitPullAck(row, c)
            ack == IF row.epoch = c.epoch THEN Max({row.ack, c.seq}) ELSE c.seq
            d == [row EXCEPT !.epoch = c.epoch]
            e == [d EXCEPT !.ack = ack]
<1>1. row.ack \in Nat /\ c.seq \in Nat /\ c.epoch \in Nat
  BY Zenon DEF PeerRow, Cursor
<1>2. CASE new = row
  BY Zenon, <1>2
<1>3. CASE new # row
  <2>1. c.epoch = relay.epoch /\ new = [row EXCEPT !.epoch = c.epoch, !.ack = ack]
    BY Zenon, <1>3 DEF AdmitPullAck, Acked
  <2>2. new = e
    BY Zenon, <2>1
  <2>3. ack \in Nat /\ Known(arrivals, relay.epoch, c.epoch, ack, passed)
    <3>1. CASE row.epoch = c.epoch
      BY Zenon, <1>1, <3>1, MaxOfTwo
    <3>2. CASE row.epoch # c.epoch
      BY Zenon, <1>1, <3>2
    <3>. QED
      BY Zenon, <3>1, <3>2
  <2>. HIDE DEF ack
  <2>4. d \in PeerRow /\ d.epoch = c.epoch
    BY Zenon, <1>1 DEF PeerRow
  <2>. HIDE DEF d
  <2>5. e \in PeerRow /\ e.epoch = c.epoch /\ e.ack = ack
    BY Zenon, <2>3, <2>4 DEF PeerRow
  <2>. HIDE DEF e, new
  <2>. QED
    BY Zenon, <2>2, <2>3, <2>5 DEF new
<1>. QED
  BY Zenon, <1>2, <1>3

\* Marking a row seen leaves what it acknowledged.
LEMMA SeenFacts ==
  ASSUME NEW row \in PeerRow, NEW t \in Nat
  PROVE  LET new == [row EXCEPT !.seen = t]
         IN  new \in PeerRow /\ new.epoch = row.epoch /\ new.ack = row.ack
BY Zenon DEF PeerRow

\* The answer a peer takes, if it gets one.
LEMMA PullKnown ==
  ASSUME StreamInv, PeersInv, NEW p \in Peers, Pull(p)
  PROVE  /\ pulled' \in [Peers -> Cursor]
         /\ \A q \in Peers : q # p => pulled'[q] = pulled[q]
         /\ pulled[p].passed \subseteq pulled'[p].passed
         /\ pulled'[p].epoch = 0 => pulled'[p].seq = 0
         /\ Known(arrivals, relay.epoch, pulled'[p].epoch, pulled'[p].seq, pulled'[p].passed)
<1>1. /\ pulled[p] \in Cursor /\ (pulled[p].epoch = 0 => pulled[p].seq = 0)
      /\ Known(arrivals, relay.epoch, pulled[p].epoch, pulled[p].seq, pulled[p].passed)
      /\ relay.epoch \in Nat /\ relay.epoch # 0 /\ pulled \in [Peers -> Cursor]
      /\ pulled[p].passed \in SUBSET Ops /\ \A s \in DOMAIN arrivals : arrivals[s].op \in Ops
  BY Zenon DEF PeersInv, CursorsKnown, StreamInv, StreamTypes, Arrival, Cursor
<1>2. CASE UNCHANGED pulled
  BY Zenon, <1>1, <1>2
<1>3. CASE \E upto \in 0..MaxSeq : TakePullPage(p, upto)
  <2>1. PICK upto \in 0..MaxSeq : TakePullPage(p, upto)
    BY Zenon, <1>3
  <2>. DEFINE more == pulled[p].passed \cup
                {arrivals[s].op : s \in {t \in DOMAIN arrivals : pulled[p].seq < t /\ t <= upto}}
              c == [epoch |-> relay.epoch, seq |-> upto, passed |-> more]
  <2>2. /\ ~PullNeedsReset(pulled[p])
        /\ upto \in {s \in DOMAIN arrivals : s > pulled[p].seq} \cup {pulled[p].seq}
        /\ pulled' = [pulled EXCEPT ![p] = c]
    BY Zenon, <2>1 DEF TakePullPage
  <2>3. upto \in Nat /\ Known(arrivals, relay.epoch, relay.epoch, upto, more)
    BY Zenon, <1>1, <2>2, PageKnown
  <2>4. more \in SUBSET Ops /\ pulled[p].passed \subseteq more
    BY Zenon, <1>1
  <2>. HIDE DEF more
  <2>5. c \in Cursor /\ c.epoch = relay.epoch /\ c.seq = upto /\ c.passed = more
    BY Zenon, <1>1, <2>3, <2>4 DEF Cursor
  <2>. HIDE DEF c
  <2>6. pulled'[p] = c /\ pulled' \in [Peers -> Cursor]
          /\ \A q \in Peers : q # p => pulled'[q] = pulled[q]
    BY Zenon, <1>1, <2>2, <2>5
  <2>. QED
    BY Zenon, <1>1, <2>3, <2>4, <2>5, <2>6
<1>4. CASE TakePullReset(p)
  <2>. DEFINE more == pulled[p].passed \cup
                {arrivals[s].op : s \in {t \in DOMAIN arrivals : t <= relay.floor}}
              c == [epoch |-> relay.epoch, seq |-> relay.floor, passed |-> more]
  <2>2. pulled' = [pulled EXCEPT ![p] = c]
    BY Zenon, <1>4 DEF TakePullReset
  <2>3. relay.floor \in Nat /\ Known(arrivals, relay.epoch, relay.epoch, relay.floor, more)
    BY Zenon, ResetKnown
  <2>4. more \in SUBSET Ops /\ pulled[p].passed \subseteq more
    BY Zenon, <1>1
  <2>. HIDE DEF more
  <2>5. c \in Cursor /\ c.epoch = relay.epoch /\ c.seq = relay.floor /\ c.passed = more
    BY Zenon, <1>1, <2>3, <2>4 DEF Cursor
  <2>. HIDE DEF c
  <2>6. pulled'[p] = c /\ pulled' \in [Peers -> Cursor]
          /\ \A q \in Peers : q # p => pulled'[q] = pulled[q]
    BY Zenon, <1>1, <2>2, <2>5
  <2>. QED
    BY Zenon, <1>1, <2>3, <2>4, <2>5, <2>6
<1>. QED
  BY Zenon, <1>2, <1>3, <1>4 DEF Pull

\* A peer's pull, acknowledging what it presents.
LEMMA PullKeepsPeers ==
  ASSUME StreamInv, PeersInv, NEW p \in Peers, Pull(p)
  PROVE  PeersInv'
<1>. DEFINE row == AdmitPullAck(peers[p], pulled[p])
            seen == [row EXCEPT !.seen = clock]
<1>1. /\ peers' = [peers EXCEPT ![p] = seen] /\ UNCHANGED <<arrivals, relay, scan>>
  BY Zenon DEF Pull
<1>2. /\ pulled' \in [Peers -> Cursor]
      /\ \A q \in Peers : q # p => pulled'[q] = pulled[q]
      /\ pulled[p].passed \subseteq pulled'[p].passed
      /\ pulled'[p].epoch = 0 => pulled'[p].seq = 0
      /\ Known(arrivals, relay.epoch, pulled'[p].epoch, pulled'[p].seq, pulled'[p].passed)
  BY Zenon, PullKnown
<1>3. /\ peers \in [Peers -> PeerRow] /\ peers[p] \in PeerRow /\ pulled[p] \in Cursor
      /\ Known(arrivals, relay.epoch, pulled[p].epoch, pulled[p].seq, pulled[p].passed)
      /\ Known(arrivals, relay.epoch, peers[p].epoch, peers[p].ack, pulled[p].passed)
      /\ clock \in Nat
  BY Zenon DEF PeersInv, CursorsKnown, AcksKnown, StreamInv, StreamTypes
<1>4. row \in PeerRow /\ Known(arrivals, relay.epoch, row.epoch, row.ack, pulled[p].passed)
  BY Zenon, <1>3, AckKnown
<1>. HIDE DEF row
<1>5. seen \in PeerRow /\ seen.epoch = row.epoch /\ seen.ack = row.ack
  BY Zenon, <1>3, <1>4, SeenFacts
<1>. HIDE DEF seen
<1>6. peers' \in [Peers -> PeerRow] /\ peers'[p] = seen
        /\ \A q \in Peers : q # p => peers'[q] = peers[q]
  BY Zenon, <1>1, <1>3, <1>5
<1>7. Known(arrivals, relay.epoch, seen.epoch, seen.ack, pulled'[p].passed)
  BY Zenon, <1>2, <1>4, <1>5, KnownMore
<1>8. CursorsKnown' /\ AcksKnown'
  BY Zenon, <1>1, <1>2, <1>6, <1>7 DEF PeersInv, CursorsKnown, AcksKnown
<1>9. PeersPassedWhatGoes'
  BY Zenon, <1>1, <1>2 DEF PeersInv, PeersPassedWhatGoes
<1>. QED
  BY Zenon, <1>1, <1>2, <1>6, <1>8, <1>9 DEF PeersInv

\* The owner pairs with a device: what it acknowledged does not change.
LEMMA PairKeepsPeers ==
  ASSUME StreamInv, PeersInv, NEW p \in Peers, Pair(p)
  PROVE  PeersInv'
<1>. DEFINE d == [peers[p] EXCEPT !.trusted = TRUE]
            e == [d EXCEPT !.seen = clock]
<1>1. /\ peers' = [[peers EXCEPT ![p].trusted = TRUE] EXCEPT ![p].seen = clock]
      /\ UNCHANGED <<arrivals, relay, scan, pulled>>
      /\ peers \in [Peers -> PeerRow] /\ clock \in Nat
  BY Zenon DEF Pair, PeersInv, StreamInv, StreamTypes
<1>2. d \in PeerRow /\ d.epoch = peers[p].epoch /\ d.ack = peers[p].ack
  BY Zenon, <1>1 DEF PeerRow
<1>3. peers' = [peers EXCEPT ![p] = e]
  BY Zenon, <1>1
<1>. HIDE DEF d
<1>4. e \in PeerRow /\ e.epoch = d.epoch /\ e.ack = d.ack
  BY Zenon, <1>1, <1>2, SeenFacts
<1>. HIDE DEF e
<1>5. peers' \in [Peers -> PeerRow] /\ peers'[p] = e
        /\ \A q \in Peers : q # p => peers'[q] = peers[q]
  BY Zenon, <1>1, <1>3, <1>4
<1>6. AcksKnown'
  BY Zenon, <1>1, <1>2, <1>4, <1>5 DEF PeersInv, AcksKnown
<1>. QED
  BY Zenon, <1>1, <1>5, <1>6 DEF PeersInv, CursorsKnown, PeersPassedWhatGoes

\* A step that leaves the peers alone and the epoch, and takes no candidate on.
LEMMA StreamKeepsPeers ==
  ASSUME StreamInv, StreamInv', PeersInv, UNCHANGED <<peers, pulled>>, relay'.epoch = relay.epoch,
         HeadSeq' >= HeadSeq,
         \A s \in DOMAIN arrivals' :
            s <= HeadSeq => s \in DOMAIN arrivals /\ arrivals'[s].op = arrivals[s].op,
         scan'.young \subseteq scan.young, scan'.peers \subseteq scan.peers
  PROVE  PeersInv'
<1>1. /\ HeadSeq = LastOf(DOMAIN arrivals) /\ HeadSeq \in Nat
      /\ HeadSeq' = LastOf(DOMAIN arrivals') /\ HeadSeq' \in Nat
      /\ \A s \in DOMAIN arrivals' : s \in Nat
      /\ relay.epoch \in Nat
  <2>1. /\ HeadSeq' = LastOf(DOMAIN arrivals')
        /\ DOMAIN arrivals' \in SUBSET (Nat \ {0}) /\ IsFiniteSet(DOMAIN arrivals')
    BY Zenon DEF HeadSeq, LastOf, StreamInv, StreamTypes
  <2>2. HeadSeq' \in Nat /\ \A s \in DOMAIN arrivals' : s \in Nat
    BY Zenon, <2>1, LastFacts
  <2>. QED
    BY Zenon, <2>1, <2>2, HeadFacts DEF StreamInv, StreamTypes
<1>2. ASSUME NEW epoch \in Nat, NEW seq \in Nat, NEW passed,
               Known(arrivals, relay.epoch, epoch, seq, passed)
      PROVE  Known(arrivals', relay.epoch, epoch, seq, passed)
  BY Zenon, <1>1, <1>2, KnownStays
<1>3. \A p \in Peers : /\ pulled[p].epoch \in Nat /\ pulled[p].seq \in Nat
                       /\ peers[p].epoch \in Nat /\ peers[p].ack \in Nat
  BY Zenon DEF PeersInv, PeerRow, Cursor
<1>4. CursorsKnown'
  BY Zenon, <1>2, <1>3 DEF PeersInv, CursorsKnown
<1>5. AcksKnown'
  BY Zenon, <1>2, <1>3 DEF PeersInv, AcksKnown
<1>. QED
  BY Zenon, <1>4, <1>5 DEF PeersInv, PeersPassedWhatGoes

\* rotate_relay_stream_epoch: what was acknowledged is of an earlier epoch.
LEMMA RotateKeepsPeers ==
  ASSUME StreamInv, PeersInv, RotateEpoch
  PROVE  PeersInv'
<1>1. /\ relay'.epoch = relay.epoch + 1 /\ relay.epoch \in Nat
      /\ UNCHANGED <<peers, pulled, scan>>
  BY Zenon DEF RotateEpoch, StreamInv, StreamTypes
<1>2. \A p \in Peers : pulled[p].epoch \in Nat /\ peers[p].epoch \in Nat
  BY Zenon DEF PeersInv, PeerRow, Cursor
<1>3. \A p \in Peers : pulled[p].epoch <= relay.epoch /\ peers[p].epoch <= relay.epoch
  BY Zenon DEF PeersInv, CursorsKnown, AcksKnown, Known
<1>4. CursorsKnown' /\ AcksKnown'
  BY <1>1, <1>2, <1>3 DEF CursorsKnown, AcksKnown, Known
<1>. QED
  BY <1>1, <1>4 DEF PeersInv, PeersPassedWhatGoes

\* A place walked that is younger than the horizon was acknowledged by every awake peer.
LEMMA YoungAreKnown ==
  ASSUME StreamInv, PeersInv, NEW s \in DOMAIN arrivals, s <= SafeFloor,
         arrivals[s].at > clock - Horizon, NEW p \in Trusted, ~Dormant(p)
  PROVE  arrivals[s].op \in pulled[p].passed
<1>. DEFINE cutoff == clock - Horizon
            floor == HorizonFloor(cutoff)
            awake == {q \in Trusted : ~Dormant(q)}
            ack(q) == IF peers[q].epoch = relay.epoch THEN peers[q].ack ELSE 0
            acks == {ack(q) : q \in awake}
<1>1. /\ cutoff \in Int /\ s \in Nat /\ s # 0
      /\ \A t \in DOMAIN arrivals : arrivals[t].at \in Nat /\ t \in Nat
  BY StoreAssumption DEF StreamInv, StreamTypes, Arrival
<1>2. p \in Peers /\ p \in awake
  BY Zenon DEF Trusted
<1>3. \A q \in awake : ack(q) \in Nat
  BY Zenon DEF PeersInv, PeerRow, Trusted
<1>4. /\ floor \in Nat
      /\ floor # 0 => floor \in DOMAIN arrivals
      /\ floor # 0 => arrivals[floor].at <= cutoff
  <2>. HIDE DEF cutoff
  <2>. QED
    BY Zenon, <1>1, FloorFinds
<1>. HIDE DEF floor
<1>5. ~(s <= floor)
  <2>. SUFFICES ASSUME s <= floor PROVE FALSE
    BY Zenon
  <2>1. floor # 0 /\ floor \in DOMAIN arrivals /\ arrivals[floor].at <= cutoff
    BY <1>1, <1>4
  <2>2. arrivals[s].at <= arrivals[floor].at
    BY <1>1, <2>1 DEF StreamInv, PlacesInTime
  <2>. QED
    BY <1>1, <2>1, <2>2
<1>6. acks \in SUBSET Nat /\ acks # {} /\ ack(p) \in acks
  BY Zenon, <1>2, <1>3
<1>7. MinPeerAck = Min(acks)
  BY Zenon, <1>2 DEF MinPeerAck
<1>. HIDE DEF acks, ack
<1>8. MinPeerAck \in Nat /\ MinPeerAck <= ack(p) /\ ack(p) \in Nat
  BY Zenon, <1>6, <1>7, MinIs
<1>9. SafeFloor = Max({floor, MinPeerAck})
  BY Zenon DEF SafeFloor, floor
<1>10. s <= MinPeerAck
  BY Zenon, <1>1, <1>4, <1>5, <1>8, <1>9, MaxOfTwo
<1>11. peers[p].epoch = relay.epoch /\ s <= peers[p].ack
  BY <1>1, <1>8, <1>10 DEF ack
<1>. QED
  BY Zenon, <1>2, <1>11 DEF PeersInv, AcksKnown, Known

\* compaction_candidates.
LEMMA ScanKeepsPeers ==
  ASSUME StreamInv, PeersInv, NEW stop, NEW struck, Scan(stop, struck)
  PROVE  PeersInv'
<1>. DEFINE walk == Walk(scan.after, SafeFloor)
            seen == {s \in walk : s < stop \/ (s = stop /\ ~struck)}
            found == {s \in seen : Shadowed(arrivals[s].op) /\ Deletable(arrivals[s].op)}
            kept == {s \in found : Cardinality({t \in found : t < s}) < MaxDeletes}
            young == {arrivals[s].op : s \in {t \in kept : arrivals[t].at > clock - Horizon}}
            awake == IF kept = {} THEN {} ELSE {p \in Trusted : ~Dormant(p)}
<1>1. /\ scan'.young = young /\ scan'.peers = awake
      /\ UNCHANGED <<arrivals, relay, peers, pulled>>
  BY Zenon DEF Scan
<1>2. \A s \in kept : s \in DOMAIN arrivals /\ s <= SafeFloor
  BY Zenon DEF Walk
<1>. HIDE DEF kept
<1>3. ASSUME NEW o \in young, NEW p \in awake PROVE o \in pulled[p].passed
  <2>1. PICK s \in kept : arrivals[s].at > clock - Horizon /\ o = arrivals[s].op
    BY Zenon, <1>3
  <2>2. p \in Trusted /\ ~Dormant(p)
    BY Zenon, <1>3
  <2>. QED
    BY Zenon, <1>2, <2>1, <2>2, YoungAreKnown
<1>4. awake \subseteq Peers
  BY Zenon DEF Trusted
<1>. HIDE DEF young, awake
<1>5. PeersPassedWhatGoes'
  BY Zenon, <1>1, <1>3 DEF PeersPassedWhatGoes
<1>. QED
  BY Zenon, <1>1, <1>4, <1>5 DEF PeersInv, CursorsKnown, AcksKnown

\* Each step of the store, in turn, for the peers' acknowledgements.
LEMMA PeersStep ==
  ASSUME StreamInv, PeersInv, StoreNext
  PROVE  PeersInv'
<1>1. StreamInv' /\ HeadSeq' >= HeadSeq
  BY Zenon, StreamStepFacts
<1>2. CASE UNCHANGED <<arrivals, relay, peers, pulled, scan>>
  BY Zenon, <1>2 DEF PeersInv, CursorsKnown, AcksKnown, PeersPassedWhatGoes
<1>3. CASE WriteStep
  <2>1. CASE Tick
    BY Zenon, <1>2, <2>1 DEF Tick
  <2>2. CASE \E o \in Ops : AppendOp(o)
    <3>1. PICK o \in Ops : AppendOp(o)
      BY Zenon, <2>2
    <3>2. /\ arrivals' = Extended(arrivals, HeadSeq + 1, [op |-> o, at |-> clock])
          /\ UNCHANGED <<relay, peers, pulled, scan>>
      BY Zenon, <3>1 DEF AppendOp
    <3>3. HeadSeq \in Nat
      BY Zenon, HeadFacts DEF StreamInv
    <3>4. \A s \in DOMAIN arrivals' :
            s <= HeadSeq => s \in DOMAIN arrivals /\ arrivals'[s].op = arrivals[s].op
      BY <3>2, <3>3 DEF Extended
    <3>. QED
      BY Zenon, <1>1, <3>2, <3>4, StreamKeepsPeers
  <2>. QED
    BY Zenon, <1>3, <2>1, <2>2 DEF WriteStep
<1>4. CASE RowStep
  BY Zenon, <1>2, <1>4 DEF RowStep, Defer, Canonicalize, Pin, Unpin, MergeAlias
<1>5. CASE StreamStep
  BY Zenon, <1>5, RotateKeepsPeers, PairKeepsPeers, PullKeepsPeers DEF StreamStep
<1>6. CASE CompactionStep
  <2>1. CASE \E stop \in 0..MaxSeq, struck \in BOOLEAN : Scan(stop, struck)
    BY Zenon, <2>1, ScanKeepsPeers
  <2>2. CASE \E chunk \in SUBSET scan.found : DeleteChunk(chunk)
    <3>1. PICK chunk \in SUBSET scan.found : DeleteChunk(chunk)
      BY Zenon, <2>2
    <3>. DEFINE gone == {o \in chunk \cap DOMAIN log : StillDeletable(o)}
                places == {s \in DOMAIN arrivals : arrivals[s].op \in gone}
    <3>2. /\ arrivals' = Removing(arrivals, places) /\ scan' = AfterChunk(chunk)
          /\ relay' = [relay EXCEPT !.floor = Max({@} \cup places)]
          /\ UNCHANGED <<peers, pulled>>
      BY Zenon, <3>1 DEF DeleteChunk
    <3>. HIDE DEF places
    <3>3. relay'.epoch = relay.epoch
      BY Zenon, <3>2 DEF StreamInv, StreamTypes
    <3>4. \A s \in DOMAIN arrivals' :
            s <= HeadSeq => s \in DOMAIN arrivals /\ arrivals'[s].op = arrivals[s].op
      BY Zenon, <3>2 DEF Removing, Restrict
    <3>5. scan'.young \subseteq scan.young /\ scan'.peers \subseteq scan.peers
      <4>1. scan = [after |-> scan.after, found |-> scan.found, young |-> scan.young,
                    peers |-> scan.peers]
        BY Zenon DEF StreamInv, StreamTypes
      <4>2. CASE scan.found \subseteq chunk
        BY Zenon, <3>2, <4>2 DEF AfterChunk, Idle
      <4>3. CASE ~(scan.found \subseteq chunk)
        <5>1. scan' = [[scan EXCEPT !.found = @ \ chunk] EXCEPT !.young = @ \ chunk]
          BY Zenon, <3>2, <4>3 DEF AfterChunk
        <5>. QED
          BY Zenon, <4>1, <5>1
      <4>. QED
        BY Zenon, <4>2, <4>3
    <3>. QED
      BY Zenon, <1>1, <3>2, <3>3, <3>4, <3>5, StreamKeepsPeers
  <2>3. CASE Abandon
    <3>1. /\ UNCHANGED <<arrivals, relay, peers, pulled>>
          /\ scan'.young = {} /\ scan'.peers = {}
      BY Zenon, <2>3 DEF Abandon, Idle
    <3>. QED
      BY Zenon, <3>1 DEF PeersInv, CursorsKnown, AcksKnown, PeersPassedWhatGoes
  <2>. QED
    BY Zenon, <1>6, <2>1, <2>2, <2>3 DEF CompactionStep
<1>. QED
  BY Zenon, <1>3, <1>4, <1>5, <1>6 DEF StoreNext

\* At start no peer is trusted.
LEMMA PeersStart == StoreInit => PeersInv
<1>. SUFFICES ASSUME StoreInit PROVE PeersInv
  BY Zenon
<1>1. /\ peers \in [Peers -> PeerRow] /\ pulled \in [Peers -> Cursor]
      /\ relay.epoch = 1 /\ scan.young = {} /\ scan.peers = {}
  BY Zenon DEF StoreInit, Idle, PeerRow, Cursor
<1>2. \A p \in Peers : pulled[p].epoch = 0 /\ pulled[p].seq = 0 /\ peers[p].epoch = 0
  BY Zenon DEF StoreInit
<1>. QED
  BY <1>1, <1>2 DEF PeersInv, CursorsKnown, AcksKnown, Known, PeersPassedWhatGoes

\* A candidate younger than the horizon is one whose place the committed cursor of every paired
\* and awake peer has passed, or lay below the floor it was reset to (retention.rs
\* safe_relay_floor, coverage.rs record_peer_ack).
THEOREM PeersPassedCandidates == StoreSpec => []PeersPassedWhatGoes
<1>1. StreamInv /\ PeersInv /\ [StoreNext]_storeVars => PeersInv'
  <2>1. PeersInv /\ UNCHANGED storeVars => PeersInv'
    BY Zenon DEF storeVars, PeersInv, CursorsKnown, AcksKnown, PeersPassedWhatGoes
  <2>. QED
    BY Zenon, <2>1, PeersStep
<1>2. PeersInv => PeersPassedWhatGoes
  BY Zenon DEF PeersInv
<1>. QED
  BY <1>1, <1>2, StoreKept, PeersStart, PTL DEF StoreSpec
=============================================================================
