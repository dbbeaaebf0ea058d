---------------------------- MODULE Tables_proof ----------------------------
(***************************************************************************)
(* Proofs about the tables a node derives from what it pulls: rows         *)
(* (RowWrites), edges that wait for their ends (PendingEdges), candidates of*)
(* unknown signers (Quarantine), and the roster of devices (Roster).  Each *)
(* part stands by itself.                                                  *)
(***************************************************************************)
EXTENDS RowWrites, PendingEdges, Quarantine, Roster, FiniteSetTheorems,
        WellFoundedInduction, TLAPS

(***************************************************************************)
(* Minimum, maximum and induction.                                         *)
(***************************************************************************)

\* Every set of naturals has a least member.
LEMMA LeastNat ==
  ASSUME NEW T \in SUBSET Nat, T # {}
  PROVE  \E x \in T : \A y \in T : x <= y
<1>. DEFINE R == OpToRel(<, Nat)
<1>1. IsWellFoundedOn(R, Nat)
  BY Zenon, NatLessThanWellFounded
<1>2. \A x, y \in Nat : x < y => <<x, y>> \in R
  BY Zenon DEF OpToRel
<1>. HIDE DEF R
<1>3. PICK x \in T : \A y \in T : ~(<<y, x>> \in R)
  BY Zenon, <1>1, WFMin
<1>4. \A y \in T : ~(y < x)
  BY Zenon, <1>2, <1>3
<1>5. \A y \in T : y \in Nat
  BY Zenon
<1>. QED
  BY <1>3, <1>4, <1>5

\* A finite set of integers has a greatest member.
LEMMA FiniteMax ==
  ASSUME NEW S \in SUBSET Int, IsFiniteSet(S), S # {}
  PROVE  \E m \in S : \A x \in S : x <= m
<1>. DEFINE Bad == {T \in SUBSET S : T # {} /\ ~\E m \in T : \A x \in T : x <= m}
<1>. SUFFICES ASSUME Bad # {} PROVE FALSE
  BY Zenon DEF Bad
<1>. DEFINE R == StrictSubsetOrdering(S)
<1>1. IsWellFoundedOn(R, FiniteSubsetsOf(S))
  BY Zenon, FS_StrictSubsetOrderingWellFounded
<1>2. FiniteSubsetsOf(S) = SUBSET S
  BY Zenon, FS_FiniteSubsetsOfFinite
<1>3. \A x, y \in SUBSET S : x \subseteq y /\ x # y => <<x, y>> \in R
  BY Zenon DEF StrictSubsetOrdering
<1>4. Bad \subseteq SUBSET S
  BY Zenon
<1>. HIDE DEF R, Bad
<1>a. IsWellFoundedOn(R, SUBSET S)
  BY Zenon, <1>1, <1>2
<1>5. PICK T \in Bad : \A U \in Bad : ~(<<U, T>> \in R)
  BY Zenon, <1>a, <1>4, WFMin
<1>. USE DEF Bad
<1>6. PICK t \in T : TRUE
  BY Zenon, <1>5
<1>7. T \ {t} \notin Bad
  BY Zenon, <1>3, <1>5, <1>6
<1>8. CASE T = {t}
  BY <1>5, <1>8
<1>9. CASE T # {t}
  <2>1. PICK m \in T \ {t} : \A x \in T \ {t} : x <= m
    BY Zenon, <1>7, <1>9, <1>5, <1>6
  <2>2. CASE t <= m
    BY Zenon, <2>1, <2>2, <1>5
  <2>3. CASE m <= t
    BY <2>1, <2>3, <1>5, <1>6
  <2>. QED
    BY <2>2, <2>3, <2>1, <1>5, <1>6
<1>. QED
  BY Zenon, <1>8, <1>9

\* The greatest of a finite set of integers.
LEMMA MaxIs ==
  ASSUME NEW S \in SUBSET Int, IsFiniteSet(S), S # {}
  PROVE  Max(S) \in S /\ \A x \in S : x <= Max(S)
  BY Zenon, FiniteMax DEF Max

\* The least of a set of naturals.
LEMMA MinIs ==
  ASSUME NEW S \in SUBSET Nat, S # {}
  PROVE  Min(S) \in S /\ \A x \in S : Min(S) <= x
  BY Zenon, LeastNat DEF Min

(***************************************************************************)
(* RowWrites.  RowShowsWinner for any rows and mutations.                  *)
(***************************************************************************)

-----------------------------------------------------------------------------
(* Rows and the operations that win them (RowWrites).                        *)

\* The newest operation of a set on a row.
NewestIn(S, r) == Max({0} \cup {o \in S : Mutation[o].row = r})

\* The newest write of a row in a set of writes.
LEMMA NewestFacts ==
  ASSUME NEW S \in SUBSET RowOps, IsFiniteSet(S), NEW r
  PROVE  /\ NewestIn(S, r) \in Nat
         /\ NewestIn(S, r) # 0 => NewestIn(S, r) \in S /\ Mutation[NewestIn(S, r)].row = r
         /\ \A o \in S : Mutation[o].row = r => o <= NewestIn(S, r)
<1>. DEFINE mine == {o \in S : Mutation[o].row = r}
<1>1. IsFiniteSet(mine)
  BY Zenon, FS_Subset
<1>2. IsFiniteSet({0} \cup mine)
  BY <1>1, FS_AddElement
<1>3. {0} \cup mine \in SUBSET Nat /\ {0} \cup mine \in SUBSET Int /\ {0} \cup mine # {}
  <2>1. \A x \in mine : x \in Nat
    BY Zenon, RowAssumption
  <2>. HIDE DEF mine
  <2>. QED
    BY <2>1
<1>4. NewestIn(S, r) \in {0} \cup mine /\ \A o \in {0} \cup mine : o <= NewestIn(S, r)
  BY Zenon, <1>2, <1>3, MaxIs DEF NewestIn
<1>. QED
  BY Zenon, <1>3, <1>4

\* An operation more is the newest of its row, unless the row has a newer one.
LEMMA NewestAdded ==
  ASSUME NEW S \in SUBSET RowOps, IsFiniteSet(S), NEW o \in RowOps, NEW r
  PROVE  /\ Mutation[o].row # r => NewestIn(S \cup {o}, r) = NewestIn(S, r)
         /\ Mutation[o].row = r /\ NewestIn(S, r) >= o => NewestIn(S \cup {o}, r) = NewestIn(S, r)
         /\ Mutation[o].row = r /\ ~(NewestIn(S, r) >= o) => NewestIn(S \cup {o}, r) = o
<1>. DEFINE T == S \cup {o}
<1>1. T \in SUBSET RowOps /\ IsFiniteSet(T)
  BY Zenon, FS_AddElement
<1>2. o \in Nat /\ o # 0 /\ o \in T /\ S \subseteq T
  BY Zenon, RowAssumption
<1>3. /\ NewestIn(T, r) \in Nat
      /\ NewestIn(T, r) # 0 => NewestIn(T, r) \in T /\ Mutation[NewestIn(T, r)].row = r
      /\ \A x \in T : Mutation[x].row = r => x <= NewestIn(T, r)
  BY Zenon, <1>1, NewestFacts
<1>4. /\ NewestIn(S, r) \in Nat
      /\ NewestIn(S, r) # 0 => NewestIn(S, r) \in S /\ Mutation[NewestIn(S, r)].row = r
      /\ \A x \in S : Mutation[x].row = r => x <= NewestIn(S, r)
  BY Zenon, NewestFacts
<1>5. \A x \in T : x \in S \/ x = o
  BY Zenon
<1>. HIDE DEF T
<1>6. ASSUME Mutation[o].row # r PROVE NewestIn(T, r) = NewestIn(S, r)
  BY <1>2, <1>3, <1>4, <1>5, <1>6
<1>7. ASSUME Mutation[o].row = r, NewestIn(S, r) >= o PROVE NewestIn(T, r) = NewestIn(S, r)
  BY <1>2, <1>3, <1>4, <1>5, <1>7
<1>8. ASSUME Mutation[o].row = r, ~(NewestIn(S, r) >= o) PROVE NewestIn(T, r) = o
  BY <1>2, <1>3, <1>4, <1>5, <1>8
<1>. QED
  BY Zenon, <1>6, <1>7, <1>8 DEF T

RowTypes ==
  /\ rows = [n \in Replicas |-> rows[n]]
  /\ appliedOps \in [Replicas -> SUBSET RowOps]
  /\ refused \in [Replicas -> SUBSET RowOps]
  /\ \A n \in Replicas : IsFiniteSet(appliedOps[n])

\* A live row is of a table the device keeps in sync, and has the columns of that table.
Fits(n, table) ==
  \A r \in DOMAIN table :
    r \notin DeviceLocal /\ KeyColumn \in ColumnsOf[n] /\ DOMAIN table[r] = ColumnsOf[n]

\* The row of a table shows the operation.
ShowsIn(n, r, o, table) ==
  IF Mutation[o].delete \/ OutOfSync(n, o)
  THEN r \notin DOMAIN table
  ELSE LocalColumns(n, o) # {} =>
         r \in DOMAIN table /\ \A c \in LocalColumns(n, o) : table[r][c] = Mutation[o].image[c]

\* The newest operation on the row shows, or was refused.
Won(n, r, ops, no, table) ==
  NewestIn(ops, r) # 0 /\ NewestIn(ops, r) \notin no => ShowsIn(n, r, NewestIn(ops, r), table)

RowInv ==
  /\ RowTypes
  /\ \A n \in Replicas : Fits(n, rows[n])
  /\ \A n \in Replicas, r \in TableRows : Won(n, r, appliedOps[n], refused[n], rows[n])

\* A step at one replica leaves the others alone.
LEMMA RowInvAt ==
  ASSUME RowInv, NEW n \in Replicas, RowTypes',
         \A k \in Replicas \ {n} : /\ rows'[k] = rows[k] /\ appliedOps'[k] = appliedOps[k]
                                   /\ refused'[k] = refused[k],
         Fits(n, rows'[n]),
         \A r \in TableRows : Won(n, r, appliedOps'[n], refused'[n], rows'[n])
  PROVE  RowInv'
<1>1. \A k \in Replicas : Fits(k, rows'[k])
  BY Zenon DEF RowInv
<1>2. \A k \in Replicas, r \in TableRows : Won(k, r, appliedOps'[k], refused'[k], rows'[k])
  BY Zenon DEF RowInv
<1>. QED
  BY Zenon, <1>1, <1>2 DEF RowInv

\* A row of one table is put or dropped.
PutIn(table, r, image) == [x \in DOMAIN table \cup {r} |-> IF x = r THEN image ELSE table[x]]
DropIn(table, r) == [x \in DOMAIN table \ {r} |-> table[x]]

\* Operations applied and rows that are not the operation's stay as they are.
LEMMA OtherRowsStay ==
  ASSUME NEW n, NEW r, NEW q, q # r, NEW o, NEW table, NEW image
  PROVE  /\ ShowsIn(n, q, o, PutIn(table, r, image)) <=> ShowsIn(n, q, o, table)
         /\ ShowsIn(n, q, o, DropIn(table, r)) <=> ShowsIn(n, q, o, table)
BY Zenon DEF ShowsIn, PutIn, DropIn

\* write_row_if_newer and the append.
LEMMA ApplyOpKeeps ==
  ASSUME RowInv, NEW n \in Replicas, NEW o \in RowOps, ApplyOp(n, o)
  PROVE  RowInv'
<1>. DEFINE r == Mutation[o].row
            S == appliedOps[n]
            T == S \cup {o}
            no == refused[n]
            old == rows[n]
<1>1. appliedOps' = [appliedOps EXCEPT ![n] = S \cup {o}]
  BY Zenon DEF ApplyOp
<1>2. S \in SUBSET RowOps /\ IsFiniteSet(S) /\ IsFiniteSet(T) /\ no \in SUBSET RowOps
  BY Zenon, FS_AddElement DEF RowInv, RowTypes
<1>3. appliedOps' \in [Replicas -> SUBSET RowOps] /\ appliedOps'[n] = T
        /\ \A k \in Replicas \ {n} : appliedOps'[k] = appliedOps[k]
  BY Zenon, <1>1, <1>2 DEF RowInv, RowTypes
<1>4. Fits(n, old) /\ \A q \in TableRows : Won(n, q, S, no, old)
  BY Zenon DEF RowInv
<1>5. Superseded(n, o) <=> NewestIn(S, r) >= o
  BY Zenon DEF Superseded, NewestOn, NewestIn
<1>6. \A q : q # r => NewestIn(T, q) = NewestIn(S, q)
  BY Zenon, <1>2, NewestAdded
<1>7. /\ NewestIn(S, r) >= o => NewestIn(T, r) = NewestIn(S, r)
      /\ ~(NewestIn(S, r) >= o) => NewestIn(T, r) = o
  BY Zenon, <1>2, NewestAdded
<1>8. r \in TableRows
  BY Zenon DEF TableRows
<1>9. ASSUME NEW table, NEW more,
             rows' = [rows EXCEPT ![n] = table], refused' = [refused EXCEPT ![n] = more],
             more \in SUBSET RowOps, Fits(n, table),
             \A q \in TableRows : Won(n, q, T, more, table)
      PROVE  RowInv'
  <2>1. /\ rows' = [k \in Replicas |-> rows'[k]] /\ rows'[n] = table
        /\ \A k \in Replicas \ {n} : rows'[k] = rows[k]
    BY Zenon, <1>9 DEF RowInv, RowTypes
  <2>2. /\ refused' \in [Replicas -> SUBSET RowOps] /\ refused'[n] = more
        /\ \A k \in Replicas \ {n} : refused'[k] = refused[k]
    BY Zenon, <1>9 DEF RowInv, RowTypes
  <2>3. RowTypes'
    BY Zenon, <1>2, <1>3, <2>1, <2>2 DEF RowInv, RowTypes
  <2>. QED
    BY Zenon, <1>3, <1>9, <2>1, <2>2, <2>3, RowInvAt
<1>10. rows = [rows EXCEPT ![n] = old] /\ refused = [refused EXCEPT ![n] = no]
  BY Zenon DEF RowInv, RowTypes
<1>. HIDE DEF r, S, T, no, old
<1>11. CASE Superseded(n, o)
  <2>1. UNCHANGED <<rows, refused>>
    BY Zenon, <1>11 DEF ApplyOp
  <2>2. \A q \in TableRows : Won(n, q, T, no, old)
    BY Zenon, <1>4, <1>5, <1>6, <1>7, <1>11 DEF Won
  <2>. QED
    BY Zenon, <1>2, <1>4, <1>9, <1>10, <2>1, <2>2
<1>12. CASE ~Superseded(n, o)
  <2>1. NewestIn(T, r) = o
    BY Zenon, <1>5, <1>7, <1>12
  <2>2. \A q \in TableRows : q # r => Won(n, q, T, no, old)
    BY Zenon, <1>4, <1>6 DEF Won
  <2>3. CASE Skips(n, o)
    <3>1. UNCHANGED <<rows, refused>>
      BY Zenon, <2>3 DEF ApplyOp
    <3>2. OutOfSync(n, o) => r \notin DOMAIN old
      BY Zenon, <1>4 DEF Fits, OutOfSync, r
    <3>3. Won(n, r, T, no, old)
      BY Zenon, <2>1, <2>3, <3>2 DEF Won, ShowsIn, Skips
    <3>. QED
      BY Zenon, <1>2, <1>4, <1>9, <1>10, <2>2, <3>1, <3>3
  <2>4. CASE ~Skips(n, o) /\ rows' = rows /\ refused' = [refused EXCEPT ![n] = @ \cup {o}]
    <3>. DEFINE more == no \cup {o}
    <3>1. more \in SUBSET RowOps /\ refused' = [refused EXCEPT ![n] = more]
      BY Zenon, <1>2, <2>4 DEF no
    <3>2. \A q \in TableRows : Won(n, q, T, more, old)
      BY Zenon, <2>1, <2>2 DEF Won
    <3>. HIDE DEF more
    <3>. QED
      BY Zenon, <1>4, <1>9, <1>10, <2>4, <3>1, <3>2
  <2>5. CASE /\ ~Skips(n, o) /\ ~Mutation[o].delete /\ Matches(n, o)
             /\ UNCHANGED <<rows, refused>>
    <3>1. Won(n, r, T, no, old)
      BY Zenon, <2>1, <2>5 DEF Won, ShowsIn, Skips, Matches, r, old
    <3>. QED
      BY Zenon, <1>2, <1>4, <1>9, <1>10, <2>2, <2>5, <3>1
  <2>6. CASE /\ ~Skips(n, o) /\ ~Mutation[o].delete
             /\ rows' = Put(n, r, Upserted(n, o)) /\ UNCHANGED refused
    <3>. DEFINE image == Upserted(n, o)
                table == PutIn(old, r, image)
    <3>1. rows' = [rows EXCEPT ![n] = table]
      BY Zenon, <2>6 DEF Put, PutIn, old
    <3>2. /\ \A c \in LocalColumns(n, o) : image[c] = Mutation[o].image[c]
          /\ DOMAIN image = ColumnsOf[n]
      <4>1. LocalColumns(n, o) \subseteq ColumnsOf[n]
        BY Zenon DEF LocalColumns
      <4>. QED
        BY Zenon, <4>1 DEF Upserted
    <3>. HIDE DEF image
    <3>3. Fits(n, table)
      BY Zenon, <1>4, <2>6, <3>2 DEF Fits, PutIn, Skips, OutOfSync, r
    <3>4. ShowsIn(n, r, o, table)
      BY Zenon, <2>6, <3>2 DEF ShowsIn, PutIn, Skips
    <3>5. \A q \in TableRows : Won(n, q, T, no, table)
      BY Zenon, <2>1, <2>2, <3>4, OtherRowsStay DEF Won
    <3>. HIDE DEF table
    <3>. QED
      BY Zenon, <1>2, <1>9, <1>10, <2>6, <3>1, <3>3, <3>5
  <2>7. CASE /\ ~Skips(n, o) /\ Mutation[o].delete
             /\ rows' = Drop(n, r) /\ UNCHANGED refused
    <3>. DEFINE table == DropIn(old, r)
    <3>1. rows' = [rows EXCEPT ![n] = table]
      BY Zenon, <2>7 DEF Drop, DropIn, old
    <3>2. Fits(n, table)
      BY Zenon, <1>4 DEF Fits, DropIn
    <3>3. ShowsIn(n, r, o, table)
      BY Zenon, <2>7 DEF ShowsIn, DropIn
    <3>4. \A q \in TableRows : Won(n, q, T, no, table)
      BY Zenon, <2>1, <2>2, <3>3, OtherRowsStay DEF Won
    <3>. HIDE DEF table
    <3>. QED
      BY Zenon, <1>2, <1>9, <1>10, <2>7, <3>1, <3>2, <3>4
  <2>. QED
    BY Zenon, <1>12, <2>3, <2>4, <2>5, <2>6, <2>7 DEF ApplyOp, WriteDelete, WriteUpsert, r
<1>. QED
  BY Zenon, <1>11, <1>12

\* The sweep drops a row whose deletion was refused before (delete_row).
LEMMA FinishTombstoneKeeps ==
  ASSUME RowInv, NEW n \in Replicas, NEW r \in TableRows, FinishTombstone(n, r)
  PROVE  RowInv'
<1>. DEFINE S == appliedOps[n]
            w == NewestIn(S, r)
            old == rows[n]
            table == DropIn(old, r)
            less == refused[n] \ {w}
<1>1. /\ rows' = [rows EXCEPT ![n] = table] /\ refused' = [refused EXCEPT ![n] = less]
      /\ appliedOps' = appliedOps
  BY Zenon DEF FinishTombstone, Drop, DropIn, NewestOn, NewestIn
<1>2. w # 0 /\ Mutation[w].delete
  BY Zenon DEF FinishTombstone, Divergence, NewestOn, NewestIn
<1>3. S \in SUBSET RowOps /\ IsFiniteSet(S) /\ less \in SUBSET RowOps
  BY Zenon DEF RowInv, RowTypes
<1>4. Mutation[w].row = r
  BY Zenon, <1>2, <1>3, NewestFacts
<1>5. Fits(n, table)
  BY Zenon DEF RowInv, Fits, DropIn
<1>6. ASSUME NEW q \in TableRows PROVE Won(n, q, S, less, table)
  <2>1. CASE q = r
    BY Zenon, <1>2, <2>1 DEF Won, ShowsIn, DropIn
  <2>2. CASE q # r
    <3>1. NewestIn(S, q) # 0 => NewestIn(S, q) # w
      BY Zenon, <1>3, <1>4, <2>2, NewestFacts
    <3>2. Won(n, q, S, refused[n], old)
      BY Zenon DEF RowInv
    <3>. QED
      BY Zenon, <2>2, <3>1, <3>2, OtherRowsStay DEF Won
  <2>. QED
    BY Zenon, <2>1, <2>2
<1>. HIDE DEF table, less
<1>7. /\ rows' = [k \in Replicas |-> rows'[k]] /\ rows'[n] = table
      /\ \A k \in Replicas \ {n} : rows'[k] = rows[k]
  BY Zenon, <1>1 DEF RowInv, RowTypes
<1>8. /\ refused' \in [Replicas -> SUBSET RowOps] /\ refused'[n] = less
      /\ \A k \in Replicas \ {n} : refused'[k] = refused[k]
  BY Zenon, <1>1, <1>3 DEF RowInv, RowTypes
<1>9. RowTypes'
  BY Zenon, <1>1, <1>7, <1>8 DEF RowInv, RowTypes
<1>. QED
  BY Zenon, <1>1, <1>5, <1>6, <1>7, <1>8, <1>9, RowInvAt

\* A row shows the newest operation on it unless that was refused, in every column it carries
\* and the device has, and with the writer's columns the sweep finds nothing to repair (rows.rs
\* write_row_if_newer, row_divergence), for any replicas, schemas, constraints and orders.
THEOREM RowsShowWinners == RowSpec => []RowShowsWinner
<1>1. RowInit => RowInv
  <2>. SUFFICES ASSUME RowInit PROVE RowInv
    BY Zenon
  <2>1. RowTypes
    BY Zenon, FS_EmptySet DEF RowInit, RowTypes
  <2>2. \A n \in Replicas : Fits(n, rows[n])
    BY DEF RowInit, Fits
  <2>3. ASSUME NEW n \in Replicas, NEW r PROVE NewestIn(appliedOps[n], r) = 0
    BY Zenon, <2>1, NewestFacts DEF RowInit, RowTypes
  <2>. QED
    BY Zenon, <2>1, <2>2, <2>3 DEF RowInv, Won
<1>2. RowInv /\ [RowNext]_rowVars => RowInv'
  <2>. SUFFICES ASSUME RowInv, [RowNext]_rowVars PROVE RowInv'
    BY Zenon
  <2>1. CASE RowNext
    BY Zenon, <2>1, ApplyOpKeeps, FinishTombstoneKeeps DEF RowNext
  <2>2. CASE UNCHANGED rowVars
    BY Zenon, <2>2 DEF rowVars, RowInv, RowTypes
  <2>. QED
    BY Zenon, <2>1, <2>2
<1>3. RowInv => RowShowsWinner
  <2>. SUFFICES ASSUME RowInv, NEW n \in Replicas, NEW r \in TableRows,
                       NewestOn(n, r) # 0, NewestOn(n, r) \notin refused[n]
                PROVE  /\ Shows(n, r, NewestOn(n, r))
                       /\ /\ r \in DOMAIN rows[n]
                          /\ ColumnsOf[n] = DOMAIN Mutation[NewestOn(n, r)].image
                          => Divergence(n, r) = "covered"
    BY Zenon DEF RowShowsWinner
  <2>. DEFINE o == NewestOn(n, r)
  <2>1. o = NewestIn(appliedOps[n], r)
    BY Zenon DEF NewestOn, NewestIn
  <2>. HIDE DEF o
  <2>2. ShowsIn(n, r, o, rows[n])
    BY Zenon, <2>1 DEF RowInv, Won, o
  <2>3. Shows(n, r, o)
    BY Zenon, <2>2 DEF Shows, ShowsIn
  <2>4. ASSUME r \in DOMAIN rows[n], ColumnsOf[n] = DOMAIN Mutation[o].image
        PROVE  Divergence(n, r) = "covered"
    <3>1. ~Mutation[o].delete
            /\ \A c \in LocalColumns(n, o) : rows[n][r][c] = Mutation[o].image[c]
      BY Zenon, <2>2, <2>4 DEF ShowsIn
    <3>2. /\ DOMAIN rows[n][r] = DOMAIN Mutation[o].image
          /\ DOMAIN rows[n][r] \subseteq LocalColumns(n, o)
      BY Zenon, <2>4 DEF RowInv, Fits, LocalColumns
    <3>3. ImageMatches(Mutation[o].image, rows[n][r])
      BY Zenon, <2>4, <3>1, <3>2 DEF ImageMatches
    <3>. QED
      BY Zenon, <3>1, <3>3 DEF Divergence, o
  <2>. QED
    BY Zenon, <2>3, <2>4 DEF o
<1>. QED
  BY <1>1, <1>2, <1>3, PTL DEF RowSpec

-----------------------------------------------------------------------------
(***************************************************************************)
(* PendingEdges.  NoEdgeStranded for any nodes and edges.                  *)
(***************************************************************************)

EdgeTypes ==
  /\ wakes \in Seq(Nodes)
  /\ edgeState \in [EdgeOps -> {"new", "logged", "attached", "gone"}]

\* The worker or the arrival of a node comes to the edge.
Reached(e) ==
  \/ \E m \in Missing(e) : <<m, e>> \in buffered
  \/ \E m \in EndsOf[e] : m \in alive /\ <<m, e>> \in buffered /\ m \in Range(wakes)

EdgeInv ==
  /\ EdgeTypes
  /\ \A e \in EdgeOps : edgeState[e] = "logged" => Reached(e)

\* A wake at the tail keeps those before it.
LEMMA WakeAppended ==
  ASSUME NEW ws \in Seq(Nodes), NEW n \in Nodes
  PROVE  /\ Append(ws, n) \in Seq(Nodes)
         /\ n \in Range(Append(ws, n))
         /\ \A m : m \in Range(ws) => m \in Range(Append(ws, n))
<1>1. /\ Append(ws, n) \in Seq(Nodes) /\ Len(Append(ws, n)) = Len(ws) + 1
      /\ Append(ws, n)[Len(ws) + 1] = n
      /\ \A i \in 1..Len(ws) : Append(ws, n)[i] = ws[i]
  OBVIOUS
<1>2. Len(ws) \in Nat
  OBVIOUS
<1>. QED
  BY <1>1, <1>2 DEF Range

\* Taking the oldest wake keeps the others.
LEMMA WakeTaken ==
  ASSUME NEW ws \in Seq(Nodes), ws # <<>>
  PROVE  /\ Tail(ws) \in Seq(Nodes)
         /\ Head(ws) \in Nodes
         /\ \A m : m \in Range(ws) /\ m # Head(ws) => m \in Range(Tail(ws))
<1>1. /\ Tail(ws) \in Seq(Nodes) /\ Len(Tail(ws)) = Len(ws) - 1 /\ Head(ws) = ws[1]
      /\ \A i \in 1..Len(Tail(ws)) : Tail(ws)[i] = ws[i + 1]
      /\ Len(ws) \in Nat /\ Len(ws) > 0 /\ ws[1] \in Nodes
  OBVIOUS
<1>2. ASSUME NEW m, m \in Range(ws), m # Head(ws) PROVE m \in Range(Tail(ws))
  <2>1. PICK i \in 1..Len(ws) : ws[i] = m
    BY <1>2 DEF Range
  <2>2. i - 1 \in 1..Len(Tail(ws)) /\ Tail(ws)[i - 1] = m
    BY <1>1, <1>2, <2>1
  <2>3. DOMAIN Tail(ws) = 1..Len(Tail(ws))
    BY <1>1
  <2>. QED
    BY <2>2, <2>3, Zenon DEF Range
<1>. QED
  BY Zenon, <1>1, <1>2

\* Applying an edge (graph apply, buffer_pending_edge).
LEMMA ApplyEdgeKeeps ==
  ASSUME EdgeInv, NEW e \in EdgeOps, ApplyEdge(e)
  PROVE  EdgeInv'
<1>1. /\ UNCHANGED <<alive, wakes>>
      /\ edgeState' = [edgeState EXCEPT ![e] = IF Missing(e) = {} THEN "attached" ELSE "logged"]
      /\ buffered' = buffered \cup {<<n, e>> : n \in Missing(e)}
  BY Zenon DEF ApplyEdge
<1>2. EdgeTypes'
  BY Zenon, <1>1 DEF EdgeInv, EdgeTypes
<1>3. ASSUME NEW d \in EdgeOps, edgeState'[d] = "logged" PROVE Reached(d)'
  <2>1. CASE d = e
    <3>1. PICK n \in Missing(e) : TRUE
      BY Zenon, <1>1, <1>3, <2>1 DEF EdgeInv, EdgeTypes
    <3>2. <<n, e>> \in buffered' /\ n \in Missing(e)'
      BY Zenon, <1>1 DEF Missing
    <3>. QED
      BY Zenon, <2>1, <3>2 DEF Reached
  <2>2. CASE d # e
    <3>1. Reached(d)
      BY Zenon, <1>1, <1>3, <2>2 DEF EdgeInv, EdgeTypes
    <3>. QED
      BY Zenon, <1>1, <3>1 DEF Reached, Missing
  <2>. QED
    BY Zenon, <2>1, <2>2
<1>. QED
  BY Zenon, <1>2, <1>3 DEF EdgeInv

\* A node is written and queued (queue_pending_edge_wake).
LEMMA ApplyNodeKeeps ==
  ASSUME EdgeInv, NEW n \in Nodes, ApplyNode(n)
  PROVE  EdgeInv'
<1>1. alive' = alive \cup {n} /\ wakes' = QueueWake(n) /\ UNCHANGED <<edgeState, buffered>>
  BY Zenon DEF ApplyNode
<1>2. /\ wakes' \in Seq(Nodes)
      /\ \A m : m \in Range(wakes) => m \in Range(wakes')
      /\ On(n) # {} => n \in Range(wakes')
  BY Zenon, <1>1, WakeAppended DEF QueueWake, EdgeInv, EdgeTypes
<1>3. ASSUME NEW d \in EdgeOps, edgeState'[d] = "logged" PROVE Reached(d)'
  <2>1. Reached(d)
    BY Zenon, <1>1, <1>3 DEF EdgeInv
  <2>2. ASSUME NEW m \in Missing(d), <<m, d>> \in buffered, m # n PROVE Reached(d)'
    BY Zenon, <1>1, <2>2 DEF Reached, Missing
  <2>3. ASSUME n \in Missing(d), <<n, d>> \in buffered PROVE Reached(d)'
    <3>1. n \in Range(wakes')
      BY Zenon, <1>2, <2>3 DEF On
    <3>. QED
      BY Zenon, <1>1, <2>3, <3>1 DEF Reached, Missing
  <2>4. ASSUME NEW m \in EndsOf[d], m \in alive, <<m, d>> \in buffered, m \in Range(wakes)
        PROVE  Reached(d)'
    BY Zenon, <1>1, <1>2, <2>4 DEF Reached
  <2>. QED
    BY Zenon, <2>1, <2>2, <2>3, <2>4 DEF Reached
<1>. QED
  BY Zenon, <1>1, <1>2, <1>3 DEF EdgeInv, EdgeTypes

\* A node is deleted and its edges wait for it again.
LEMMA DeleteNodeKeeps ==
  ASSUME EdgeInv, NEW n \in Nodes, DeleteNode(n)
  PROVE  EdgeInv'
<1>. DEFINE cut == {e \in EdgeOps : edgeState[e] = "attached" /\ n \in EndsOf[e]}
<1>1. /\ alive' = alive \ {n} /\ wakes' = wakes
      /\ edgeState' = [e \in EdgeOps |-> IF e \in cut THEN "logged" ELSE edgeState[e]]
      /\ buffered' = buffered \cup {<<n, e>> : e \in cut}
  BY Zenon DEF DeleteNode
<1>2. EdgeTypes'
  BY Zenon, <1>1 DEF EdgeInv, EdgeTypes
<1>3. ASSUME NEW d \in EdgeOps, edgeState'[d] = "logged" PROVE Reached(d)'
  <2>1. CASE d \in cut
    <3>1. n \in Missing(d)' /\ <<n, d>> \in buffered'
      BY Zenon, <1>1, <2>1 DEF Missing
    <3>. QED
      BY Zenon, <3>1 DEF Reached
  <2>2. CASE d \notin cut
    <3>1. Reached(d)
      BY Zenon, <1>1, <1>3, <2>2 DEF EdgeInv
    <3>. QED
      BY Zenon, <1>1, <3>1 DEF Reached, Missing
  <2>. QED
    BY Zenon, <2>1, <2>2
<1>. QED
  BY Zenon, <1>2, <1>3 DEF EdgeInv

\* An edge is deleted (remove_pending_edges_for_edge_row).
LEMMA DeleteEdgeKeeps ==
  ASSUME EdgeInv, NEW row, DeleteEdge(row)
  PROVE  EdgeInv'
<1>. DEFINE dead == {e \in EdgeOps : EdgeRowOf[e] = row /\ edgeState[e] # "new"}
<1>1. /\ UNCHANGED <<alive, wakes>>
      /\ edgeState' = [e \in EdgeOps |-> IF e \in dead THEN "gone" ELSE edgeState[e]]
      /\ buffered' = {b \in buffered : b[2] \notin dead}
  BY Zenon DEF DeleteEdge
<1>. HIDE DEF dead
<1>2. EdgeTypes'
  BY Zenon, <1>1 DEF EdgeInv, EdgeTypes
<1>3. ASSUME NEW d \in EdgeOps, edgeState'[d] = "logged" PROVE Reached(d)'
  <2>1. d \notin dead /\ Reached(d)
    BY Zenon, <1>1, <1>3 DEF EdgeInv
  <2>2. \A m : <<m, d>> \in buffered => <<m, d>> \in buffered'
    BY Zenon, <1>1, <2>1
  <2>. QED
    BY Zenon, <1>1, <2>1, <2>2 DEF Reached, Missing
<1>. QED
  BY Zenon, <1>2, <1>3 DEF EdgeInv

\* The worker takes the oldest wake (pending_edges_for, rotate_pending_edge_wake).
LEMMA DrainWakeKeeps ==
  ASSUME EdgeInv, DrainWake
  PROVE  EdgeInv'
<1>. DEFINE n == Head(wakes)
            page == PageOf(n)
            attached == {e \in page \ Malformed : Missing(e) = {}}
            left == LeftAfter(n, page, attached)
<1>1. /\ wakes # <<>> /\ alive' = alive
      /\ n \in alive =>
           /\ buffered' = left
           /\ edgeState' = [e \in EdgeOps |->
                IF e \in attached THEN "attached"
                ELSE IF e \in page \cap Malformed THEN "gone" ELSE edgeState[e]]
           /\ wakes' = Retire(n, left)
      /\ n \notin alive => wakes' = Tail(wakes) /\ UNCHANGED <<buffered, edgeState>>
  BY Zenon DEF DrainWake
<1>. HIDE DEF page
<1>2. /\ Tail(wakes) \in Seq(Nodes) /\ n \in Nodes
      /\ \A m : m \in Range(wakes) /\ m # n => m \in Range(Tail(wakes))
  BY Zenon, <1>1, WakeTaken DEF EdgeInv, EdgeTypes
<1>. HIDE DEF n
<1>3. /\ Retire(n, left) \in Seq(Nodes)
      /\ \A m : m \in Range(wakes) /\ m # n => m \in Range(Retire(n, left))
      /\ \A e \in EdgeOps : <<n, e>> \in left => n \in Range(Retire(n, left))
  BY Zenon, <1>2, WakeAppended DEF Retire
<1>. HIDE DEF left, attached
<1>4. EdgeTypes'
  BY Zenon, <1>1, <1>2, <1>3 DEF EdgeInv, EdgeTypes
<1>5. ASSUME NEW d \in EdgeOps, edgeState'[d] = "logged" PROVE Reached(d)'
  <2>1. CASE n \notin alive
    <3>1. Reached(d)
      BY Zenon, <1>1, <1>5, <2>1 DEF EdgeInv
    <3>. QED
      BY Zenon, <1>1, <1>2, <2>1, <3>1 DEF Reached, Missing
  <2>2. CASE n \in alive
    <3>1. d \notin attached /\ d \notin page \cap Malformed /\ Reached(d)
      BY Zenon, <1>1, <1>5, <2>2 DEF EdgeInv
    <3>2. CASE d \in page
      <4>1. PICK m \in Missing(d) : TRUE
        BY Zenon, <3>1, <3>2 DEF attached
      <4>2. <<m, d>> \in left
        BY <3>1, <3>2 DEF left, LeftAfter
      <4>. QED
        BY Zenon, <1>1, <2>2, <4>2 DEF Reached, Missing
    <3>3. CASE d \notin page
      <4>1. \A m : <<m, d>> \in buffered => <<m, d>> \in left
        BY Zenon, <3>1, <3>3 DEF left, LeftAfter
      <4>2. \A m : <<m, d>> \in left /\ m \in Range(wakes) => m \in Range(wakes')
        BY Zenon, <1>1, <1>3, <2>2
      <4>. QED
        BY Zenon, <1>1, <2>2, <3>1, <4>1, <4>2 DEF Reached, Missing
    <3>. QED
      BY Zenon, <3>2, <3>3
  <2>. QED
    BY Zenon, <2>1, <2>2
<1>. QED
  BY Zenon, <1>4, <1>5 DEF EdgeInv

\* Callbacks and stuttering touch no edge.
LEMMA EdgesAtRest ==
  ASSUME EdgeInv, UNCHANGED edgeVars
  PROVE  EdgeInv'
BY Zenon DEF EdgeInv, EdgeTypes, Reached, Missing, edgeVars

\* No edge is stranded: one whose endpoints both exist is buffered on one of them that has a
\* wake (pending_edges.rs: buffer_pending_edge, queue_pending_edge_wake,
\* rotate_pending_edge_wake, remove_pending_edges_for_edge_row), for any graph and page size.
THEOREM EdgesAreReached == PendingSpec => []NoEdgeStranded
<1>1. PendingInit => EdgeInv
  BY DEF PendingInit, EdgeInv, EdgeTypes
<1>2. EdgeInv /\ [PendingNext]_pendingVars => EdgeInv'
  <2>. SUFFICES ASSUME EdgeInv, [PendingNext]_pendingVars PROVE EdgeInv'
    BY Zenon
  <2>1. CASE EdgesNext
    BY Zenon, <2>1, ApplyEdgeKeeps, DeleteEdgeKeeps, ApplyNodeKeeps, DeleteNodeKeeps, DrainWakeKeeps
       DEF EdgesNext
  <2>2. CASE FiresNext
    <3>1. UNCHANGED edgeVars
      BY Zenon, <2>2
      DEF FiresNext, RecordFire, TakeFire, RunFire, MarkFire, DiscardFire, CrashDispatcher
    <3>. QED
      BY Zenon, <3>1, EdgesAtRest
  <2>3. CASE UNCHANGED pendingVars
    BY Zenon, <2>3, EdgesAtRest DEF pendingVars
  <2>. QED
    BY Zenon, <2>1, <2>2, <2>3 DEF PendingNext
<1>3. EdgeInv => NoEdgeStranded
  BY Zenon DEF EdgeInv, Reached, NoEdgeStranded, Attachable
<1>. QED
  BY <1>1, <1>2, <1>3, PTL DEF PendingSpec

-----------------------------------------------------------------------------
(***************************************************************************)
(* Quarantine.  What a cursor passed is in the log or in the table.        *)
(***************************************************************************)

(***************************************************************************)
(* Quarantine: what the cursor passed is in the log or in the table.       *)
(***************************************************************************)

\* A row has its five columns.
RowShaped(row) ==
    row = [peer |-> row.peer, bytes |-> row.bytes, attempts |-> row.attempts,
           state |-> row.state, first |-> row.first]

\* A row of a well-signed candidate is whole and not written off.
RowWhole(c, row) == c.good => row.state # "invalid" /\ row.bytes = c.size

RowsKept(table) == \A c \in DOMAIN table : RowShaped(table[c]) /\ RowWhole(c, table[c])

\* What the cursors have passed is stored under its id, or has a row.
PassedKept ==
    \A p \in QPeers : \A i \in 1..position[p] :
        PeerStream[p][i].good =>
            \/ PeerStream[p][i].op \in DOMAIN stored
            \/ PeerStream[p][i] \in DOMAIN quarantine

CursorsWithin ==
    /\ position \in [QPeers -> Nat]
    /\ \A p \in QPeers : position[p] <= Len(PeerStream[p])

QuarantineInv == RowsKept(quarantine) /\ PassedKept /\ CursorsWithin

\* A row with three columns set, as the settlement sets them.
Updated(row, a, s, b) == [row EXCEPT !.attempts = a, !.state = s, !.bytes = b]

\* The two columns of a settled row that matter, and its shape.
LEMMA UpdatedIs ==
    ASSUME NEW row, NEW a, NEW s, NEW b, RowShaped(row)
    PROVE  LET new == Updated(row, a, s, b)
           IN  RowShaped(new) /\ new.state = s /\ new.bytes = b
<1> DEFINE r1 == [row EXCEPT !.attempts = a]
           r2 == [r1 EXCEPT !.state = s]
           r3 == [r2 EXCEPT !.bytes = b]
<1>1. RowShaped(r1)
  BY DEF RowShaped
<1> HIDE DEF r1
<1>2. RowShaped(r2) /\ r2.state = s
  BY <1>1 DEF RowShaped
<1> HIDE DEF r2
<1>3. RowShaped(r3) /\ r3.state = s /\ r3.bytes = b
  BY <1>2 DEF RowShaped
<1> HIDE DEF r3
<1>4. Updated(row, a, s, b) = r3
  BY Zenon DEF Updated, r1, r2, r3
<1> QED BY Zenon, <1>3, <1>4

\* The first statements of a settlement leave the row of a well-signed
\* candidate whole: only a row found broken is written off and cut.
LEMMA AttemptedKeeps ==
    ASSUME NEW c, NEW row, NEW mine, NEW broken,
           RowShaped(row), RowWhole(c, row), c.good => ~broken
    PROVE  LET new == Attempted(row, mine, broken)
           IN  RowShaped(new) /\ RowWhole(c, new)
<1> DEFINE a == IF mine THEN Min({row.attempts + 1, MaxTries}) ELSE row.attempts
           bad == row.state = "invalid" \/ (mine /\ broken)
           b == IF bad THEN Min({row.bytes, AuditBytes}) ELSE row.bytes
           s == IF bad THEN "invalid"
                ELSE IF mine /\ row.state = "out_of_scope" THEN "pending" ELSE row.state
<1>1. c.good => s # "invalid" /\ b = c.size
  BY Zenon DEF RowWhole
<1>2. Attempted(row, mine, broken) = Updated(row, a, s, b)
  BY Zenon DEF Attempted, Updated
<1> HIDE DEF a, s, b, bad
<1> QED BY <1>1, <1>2, UpdatedIs DEF RowWhole

\* Marking a row out of scope leaves it whole.
LEMMA MarkedKeeps ==
    ASSUME NEW c, NEW row, RowShaped(row), RowWhole(c, row)
    PROVE  LET new == [row EXCEPT !.state = "out_of_scope"]
           IN  RowShaped(new) /\ RowWhole(c, new)
  BY DEF RowShaped, RowWhole

\* quarantine_ops keeps the rows it finds and adds whole ones; every skipped
\* candidate has one afterwards.
LEMMA QuarantinedKeeps ==
    ASSUME NEW table, NEW page, NEW skipped, NEW p, RowsKept(table)
    PROVE  LET new == Quarantined(table, page, skipped, p)
           IN  /\ RowsKept(new)
               /\ DOMAIN table \subseteq DOMAIN new
               /\ \A i \in skipped : page[i] \in DOMAIN new
<1> DEFINE fresh == {c \in {page[i] : i \in skipped} : TakesNew(table, c)}
           last == Max({0} \cup {table[c].first : c \in DOMAIN table})
           now == last + 1
           new == Quarantined(table, page, skipped, p)
<1>1. new = [c \in DOMAIN table \cup fresh |->
                IF c \in DOMAIN table THEN table[c]
                ELSE [peer |-> p, bytes |-> c.size, attempts |-> 0,
                      state |-> "pending", first |-> now]]
  BY Zenon DEF Quarantined
<1>2. \A i \in skipped : page[i] \in DOMAIN table \cup fresh
  BY Zenon DEF TakesNew
<1> HIDE DEF fresh, now, last, new
<1>3. DOMAIN new = DOMAIN table \cup fresh
  BY Zenon, <1>1
<1>4. ASSUME NEW c \in DOMAIN new
      PROVE  RowShaped(new[c]) /\ RowWhole(c, new[c])
  <2>1. CASE c \in DOMAIN table
    BY Zenon, <1>1, <1>3, <2>1 DEF RowsKept
  <2>2. CASE c \notin DOMAIN table
    <3>1. new[c] = [peer |-> p, bytes |-> c.size, attempts |-> 0,
                    state |-> "pending", first |-> now]
      BY Zenon, <1>1, <1>3, <1>4, <2>2
    <3> QED BY <3>1 DEF RowShaped, RowWhole
  <2> QED BY Zenon, <2>1, <2>2
<1>5. RowsKept(new)
  BY Zenon, <1>4 DEF RowsKept
<1> QED BY Zenon, <1>2, <1>3, <1>5 DEF new

\* At start no cursor has moved.
LEMMA QuarantineStarts == QuarantineInit => QuarantineInv
<1> SUFFICES ASSUME QuarantineInit PROVE QuarantineInv
  BY Zenon
<1>1. RowsKept(quarantine)
  BY DEF QuarantineInit, RowsKept
<1>2. CursorsWithin
  <2>1. \A p \in QPeers : Len(PeerStream[p]) \in Nat
    BY QuarantineAssumption
  <2> QED BY <2>1 DEF QuarantineInit, CursorsWithin
<1>3. PassedKept
  BY DEF QuarantineInit, PassedKept
<1> QED BY Zenon, <1>1, <1>2, <1>3 DEF QuarantineInv

\* A page has its n envelopes ...
LEMMA SliceDomain ==
    ASSUME NEW S, NEW s \in Seq(S), NEW m \in Nat, NEW n \in Nat
    PROVE  DOMAIN SubSeq(s, m + 1, m + n) = 1..n
<1>1. (m + n) - (m + 1) + 1 = n
  OBVIOUS
<1> QED BY <1>1

\* ... and they are the n that follow the cursor.
LEMMA SliceItems ==
    ASSUME NEW S, NEW s \in Seq(S), NEW m \in Nat, NEW n \in Nat, m + n <= Len(s)
    PROVE  \A k \in 1..n : SubSeq(s, m + 1, m + n)[k] = s[m + k]
<1>1. \A k \in 1..n : m + 1 + k - 1 = m + k /\ k \in 1..(m + n - (m + 1) + 1)
  OBVIOUS
<1> QED BY <1>1

\* A pulled page: each envelope the cursor passes is complete already, is
\* stored with the page, or gets a row.
LEMMA PullKeeps ==
    ASSUME QuarantineInv, NEW p \in QPeers, NEW n \in 1..2, PullCandidates(p, n)
    PROVE  QuarantineInv'
<1> DEFINE page == Page(p, n)
           todo == {i \in DOMAIN page : ~Completed(page, i)}
           good == {page[i] : i \in {j \in todo : EnvelopeVerifies(page[j])}}
           skipped == {i \in todo : page[i].signer \notin attested}
           table == Quarantined(quarantine, page, skipped, p)
<1>1. /\ position[p] + n <= Len(PeerStream[p])
      /\ quarantine' = table
      /\ stored' = StoredAfter(good)
      /\ position' = [position EXCEPT ![p] = @ + n]
  BY Zenon DEF PullCandidates
<1>2. RowsKept(quarantine)
  BY Zenon DEF QuarantineInv
<1>3. /\ RowsKept(table)
      /\ DOMAIN quarantine \subseteq DOMAIN table
      /\ \A i \in skipped : page[i] \in DOMAIN table
  <2> HIDE DEF page, skipped
  <2> QED BY Zenon, <1>2, QuarantinedKeeps
<1>4. DOMAIN stored' = DOMAIN stored \cup {c.op : c \in good}
  BY Zenon, <1>1 DEF StoredAfter
<1>5. CursorsWithin'
  BY <1>1 DEF CursorsWithin, QuarantineInv
<1>6. ASSUME NEW k \in 1..n, page[k].good
      PROVE  page[k].op \in DOMAIN stored' \/ page[k] \in DOMAIN quarantine'
  <2>1. k \in DOMAIN page
    <3>1. position[p] \in Nat /\ PeerStream[p] \in Seq(Candidates) /\ n \in Nat
      BY QuarantineAssumption DEF QuarantineInv, CursorsWithin
    <3>2. DOMAIN page = 1..n
      BY Zenon, <1>1, <3>1, SliceDomain DEF Page
    <3> QED BY Zenon, <3>2
  <2> HIDE DEF page, table
  <2>2. CASE Completed(page, k)
    BY Zenon, <2>2, <1>4 DEF Completed
  <2>3. CASE ~Completed(page, k) /\ page[k].signer \in attested
    BY Zenon, <2>1, <2>3, <1>4, <1>6 DEF EnvelopeVerifies
  <2>4. CASE ~Completed(page, k) /\ page[k].signer \notin attested
    BY Zenon, <2>1, <2>4, <1>1, <1>3
  <2> QED BY Zenon, <2>2, <2>3, <2>4
<1>7. ASSUME NEW q \in QPeers, NEW i \in 1..position'[q], PeerStream[q][i].good
      PROVE  \/ PeerStream[q][i].op \in DOMAIN stored'
             \/ PeerStream[q][i] \in DOMAIN quarantine'
  <2>0. /\ position \in [QPeers -> Nat]
        /\ Len(PeerStream[p]) \in Nat
        /\ PeerStream[p] \in Seq(Candidates)
    BY QuarantineAssumption DEF QuarantineInv, CursorsWithin
  <2>1. CASE i \in 1..position[q]
    <3>1. \/ PeerStream[q][i].op \in DOMAIN stored
          \/ PeerStream[q][i] \in DOMAIN quarantine
      BY Zenon, <1>7, <2>1 DEF QuarantineInv, PassedKept
    <3> QED BY Zenon, <3>1, <1>1, <1>3, <1>4
  <2>2. CASE i \notin 1..position[q]
    <3>1. q = p /\ i \in Nat /\ i > position[p] /\ i <= position[p] + n
      <4> HIDE DEF page, todo, good, skipped, table
      <4> QED BY <1>1, <2>0, <2>2
    <3>2. i - position[p] \in 1..n
      BY <2>0, <3>1
    <3>3. page[i - position[p]] = PeerStream[p][i]
      <4>1. \A k \in 1..n : page[k] = PeerStream[p][position[p] + k]
        <5>1. position[p] + n <= Len(PeerStream[p]) /\ position[p] \in Nat /\ n \in Nat
          <6> HIDE DEF page, todo, good, skipped, table
          <6> QED BY <1>1, <2>0
        <5>2. \A k \in 1..n : SubSeq(PeerStream[p], position[p] + 1, position[p] + n)[k]
                                = PeerStream[p][position[p] + k]
          <6> HIDE DEF page, todo, good, skipped, table
          <6> QED BY Zenon, <5>1, <2>0, SliceItems
        <5> QED BY Zenon, <5>2 DEF Page
      <4> HIDE DEF page
      <4> QED BY <4>1, <3>1, <3>2, <2>0
    <3> HIDE DEF page, table, good
    <3> QED BY Zenon, <1>6, <1>7, <3>1, <3>2, <3>3
  <2> QED BY Zenon, <2>1, <2>2
<1>8. PassedKept'
  BY Zenon, <1>7 DEF PassedKept
<1>9. RowsKept(quarantine')
  BY Zenon, <1>1, <1>3
<1> QED BY Zenon, <1>5, <1>8, <1>9 DEF QuarantineInv, RowsKept

\* A settled batch: a row goes only when its operation is stored, or when it
\* was written off, which a well-signed one never is.
LEMMA FinishKeeps ==
    ASSUME QuarantineInv, NEW failed, NEW keep, FinishBatch(failed, keep)
    PROVE  QuarantineInv'
<1> DEFINE good == {c \in batch.scanned : EnvelopeVerifies(c)}
           broken == {c \in batch.scanned : c.signer \in attested /\ ~c.good}
           out == {c \in good : c.op \in hidden}
           apply == {c \in good \ (out \cup failed) :
                        c.op \in DOMAIN stored => stored[c.op] = c}
           mine(c) == c \in batch.scanned /\ quarantine[c].peer = batch.peer
           table == [c \in DOMAIN quarantine |->
                       Attempted(quarantine[c], mine(c), c \in broken)]
           left == Audited(table, keep)
           applied == {c.op : c \in apply}
<1>1. /\ quarantine' = Finished(left, out, applied)
      /\ stored' = StoredAfter(apply)
      /\ position' = position
  BY Zenon DEF FinishBatch
<1>2. DOMAIN stored' = DOMAIN stored \cup applied
  BY Zenon, <1>1 DEF StoredAfter
<1>3. RowsKept(table)
  <2> SUFFICES ASSUME NEW c \in DOMAIN quarantine
               PROVE  RowShaped(table[c]) /\ RowWhole(c, table[c])
    BY Zenon DEF RowsKept
  <2>1. RowShaped(quarantine[c]) /\ RowWhole(c, quarantine[c])
    BY Zenon DEF QuarantineInv, RowsKept
  <2>2. c.good => ~(c \in broken)
    BY Zenon
  <2>3. table[c] = Attempted(quarantine[c], mine(c), c \in broken)
    BY Zenon
  <2> HIDE DEF table, mine, broken
  <2> QED BY Zenon, <2>1, <2>2, <2>3, AttemptedKeeps
<1>4. DOMAIN table = DOMAIN quarantine
  BY Zenon
<1> HIDE DEF table, applied, out
<1>5. /\ DOMAIN left = {c \in DOMAIN table : table[c].state = "invalid" => c \in keep}
      /\ \A c \in DOMAIN left : left[c] = table[c]
  BY Zenon DEF Audited, Restrict
<1>6. \A c \in DOMAIN quarantine : c.good => c \in DOMAIN left
  BY Zenon, <1>3, <1>4, <1>5 DEF RowsKept, RowWhole
<1>7. RowsKept(left)
  BY Zenon, <1>3, <1>5 DEF RowsKept
<1> HIDE DEF left
<1>8. /\ DOMAIN quarantine' = {d \in DOMAIN left : d.op \notin applied}
      /\ \A c \in DOMAIN quarantine' :
            quarantine'[c] = IF c \in out /\ left[c].peer = batch.peer
                             THEN [left[c] EXCEPT !.state = "out_of_scope"] ELSE left[c]
  BY Zenon, <1>1 DEF Finished
<1>9. RowsKept(quarantine')
  <2> SUFFICES ASSUME NEW c \in DOMAIN quarantine'
               PROVE  RowShaped(quarantine'[c]) /\ RowWhole(c, quarantine'[c])
    BY Zenon DEF RowsKept
  <2>1. RowShaped(left[c]) /\ RowWhole(c, left[c])
    BY Zenon, <1>7, <1>8 DEF RowsKept
  <2>2. CASE c \in out /\ left[c].peer = batch.peer
    <3> DEFINE new == [left[c] EXCEPT !.state = "out_of_scope"]
    <3>1. quarantine'[c] = new
      BY Zenon, <1>8, <2>2
    <3>2. RowShaped(new) /\ RowWhole(c, new)
      BY Zenon, <2>1, MarkedKeeps
    <3> HIDE DEF new
    <3> QED BY Zenon, <3>1, <3>2
  <2>3. CASE ~(c \in out /\ left[c].peer = batch.peer)
    BY Zenon, <1>8, <2>1, <2>3
  <2> QED BY Zenon, <2>2, <2>3
<1>10. PassedKept'
  <2> SUFFICES ASSUME NEW p \in QPeers, NEW i \in 1..position[p], PeerStream[p][i].good
               PROVE  \/ PeerStream[p][i].op \in DOMAIN stored'
                      \/ PeerStream[p][i] \in DOMAIN quarantine'
    BY Zenon, <1>1 DEF PassedKept
  <2>1. PeerStream[p][i].op \in DOMAIN stored \/ PeerStream[p][i] \in DOMAIN quarantine
    BY Zenon DEF QuarantineInv, PassedKept
  <2> QED BY Zenon, <2>1, <1>2, <1>6, <1>8
<1> QED BY Zenon, <1>1, <1>9, <1>10 DEF QuarantineInv, RowsKept, CursorsWithin

\* Each step, in turn; but for pages and settlements none touches the rows.
LEMMA QuarantineStep == QuarantineInv /\ [QuarantineNext]_quarantineVars => QuarantineInv'
<1> SUFFICES ASSUME QuarantineInv, [QuarantineNext]_quarantineVars PROVE QuarantineInv'
  BY Zenon
<1>1. ASSUME NEW p \in QPeers, NEW n \in 1..2, PullCandidates(p, n) PROVE QuarantineInv'
  BY Zenon, <1>1, PullKeeps
<1>2. ASSUME NEW failed, NEW keep, FinishBatch(failed, keep) PROVE QuarantineInv'
  BY Zenon, <1>2, FinishKeeps
<1>3. ASSUME UNCHANGED <<quarantine, stored, position>> PROVE QuarantineInv'
  BY Zenon, <1>3 DEF QuarantineInv, RowsKept, PassedKept, CursorsWithin
<1>4. ASSUME NEW p, NEW trustedOnly, SelectBatch(p, trustedOnly) PROVE QuarantineInv'
  BY Zenon, <1>3, <1>4 DEF SelectBatch
<1>5. ASSUME LoseBatch \/ Rescope \/ \E c \in Candidates : Attest(c.signer)
      PROVE  QuarantineInv'
  BY Zenon, <1>3, <1>5 DEF LoseBatch, Rescope, Attest
<1>6. CASE UNCHANGED quarantineVars
  BY Zenon, <1>3, <1>6 DEF quarantineVars
<1> QED BY Zenon, <1>1, <1>2, <1>4, <1>5, <1>6 DEF QuarantineNext

\* For any streams, limits and order of pulls, replays, keys learned and
\* changes of scope, an operation with a good signature that a cursor passed
\* is in the log, or waits in mesh_unverified_ops whole and not written off
\* (quarantine_ops and finish_quarantine_replay).
THEOREM SkippedAreKept == QuarantineSpec => []NothingSkippedIsLost
<1>1. QuarantineInv => NothingSkippedIsLost
  BY Zenon DEF QuarantineInv, PassedKept, RowsKept, RowWhole, NothingSkippedIsLost
<1> QED BY <1>1, QuarantineStarts, QuarantineStep, PTL DEF QuarantineSpec

-----------------------------------------------------------------------------
(***************************************************************************)
(* Roster.  FeedKeepsRecentPeers for any feeds and candidates found.  The  *)
(* loop of reconcile_roster has an invariant of its own (LoopKeeps).       *)
(***************************************************************************)

-----------------------------------------------------------------------------
(* The roster (Roster).                                                    *)

\* A list of candidates: places from one on, each with a candidate.
IsList(r) ==
    /\ DOMAIN r \in SUBSET (Nat \ {0})
    /\ IsFiniteSet(DOMAIN r)
    /\ \A i \in DOMAIN r : IsCandidate(r[i])

\* No place lies behind the last one.
LEMMA PlacesEnd ==
    ASSUME NEW r, IsList(r)
    PROVE  LastPlace(r) \in Nat /\ \A i \in DOMAIN r : i <= LastPlace(r)
<1> DEFINE E == {0} \cup DOMAIN r
<1>1. IsFiniteSet(E)
  BY FS_AddElement DEF IsList
<1>2. E \in SUBSET Int /\ E # {} /\ \A s \in E : s \in Nat
  BY DEF IsList
<1>3. LastPlace(r) \in E /\ \A s \in E : s <= LastPlace(r)
  BY Zenon, <1>1, <1>2, MaxIs DEF LastPlace
<1> QED BY Zenon, <1>2, <1>3

\* carried_forward changes the flag only.
LEMMA CarriedIs ==
    ASSUME NEW c, IsCandidate(c)
    PROVE  LET d == CarriedForward(c)
           IN  /\ IsCandidate(d)
               /\ d.id = c.id /\ d.key = c.key /\ d.on = "unsaid"
  BY DEF IsCandidate, CarriedForward

\* R is r with c at place n, which is free or held a candidate with c's id.
PlacedAt(r, R, n, c) ==
    /\ n \in Nat \ {0}
    /\ DOMAIN R = DOMAIN r \cup {n}
    /\ R[n] = c
    /\ \A i \in DOMAIN r : i # n => R[i] = r[i]
    /\ \A i \in DOMAIN r : i # n => r[i].id # c.id
    /\ n \in DOMAIN r => r[n].id = c.id

\* A candidate pushed lands behind the others.
LEMMA PushPlaces ==
    ASSUME NEW r, NEW c, IsList(r), \A i \in DOMAIN r : r[i].id # c.id
    PROVE  \E n : PlacedAt(r, Push(r, c), n, c)
<1> DEFINE n == LastPlace(r) + 1
<1>1. n \in Nat \ {0} /\ n \notin DOMAIN r
  BY PlacesEnd DEF IsList
<1>2. Push(r, c) = [i \in DOMAIN r \cup {n} |-> IF i \in DOMAIN r THEN r[i] ELSE c]
  BY Zenon DEF Push
<1> HIDE DEF n
<1>3. PlacedAt(r, Push(r, c), n, c)
  BY Zenon, <1>1, <1>2 DEF PlacedAt
<1> QED BY Zenon, <1>3

Unrepeated(r) == \A i, j \in DOMAIN r : i # j => r[i].id # r[j].id

\* One turn of reconcile_roster leaves the list, or places the candidate.
LEMMA CarryPlaces ==
    ASSUME NEW r, NEW kept, IsList(r), Unrepeated(r), IsCandidate(kept)
    PROVE  \/ /\ Carry(r, kept) = r
              /\ ~Grace(kept) \/ \E i \in DOMAIN r : r[i].key = kept.key
           \/ /\ Grace(kept)
              /\ \A i \in DOMAIN r : r[i].key # kept.key
              /\ \E n : PlacedAt(r, Carry(r, kept), n, CarriedForward(kept))
<1> DEFINE same == {i \in DOMAIN r : r[i].id = kept.id}
           d == CarriedForward(kept)
           there == \E c \in Range(r) : c.key = kept.key
<1>1. there <=> \E i \in DOMAIN r : r[i].key = kept.key
  BY Zenon DEF Range
<1>2. Carry(r, kept) = IF ~Grace(kept) \/ there THEN r
                       ELSE IF same = {} THEN Push(r, d)
                       ELSE [r EXCEPT ![Min(same)] = d]
  BY Zenon DEF Carry
<1>3. d.id = kept.id
  BY Zenon, CarriedIs
<1> HIDE DEF d, there
<1>4. CASE ~Grace(kept) \/ there
  BY Zenon, <1>1, <1>2, <1>4
<1>5. CASE Grace(kept) /\ ~there /\ same = {}
  <2>1. \A i \in DOMAIN r : r[i].id # d.id
    BY Zenon, <1>3, <1>5
  <2>2. Carry(r, kept) = Push(r, d)
    BY Zenon, <1>2, <1>5
  <2> QED BY Zenon, <1>1, <1>5, <2>1, <2>2, PushPlaces DEF d
<1>6. CASE Grace(kept) /\ ~there /\ same # {}
  <2> DEFINE n == Min(same)
             R == [r EXCEPT ![n] = d]
  <2>1. Carry(r, kept) = R
    BY Zenon, <1>2, <1>6
  <2>2. n \in same
    <3>1. same \in SUBSET Nat
      BY Zenon DEF IsList
    <3> HIDE DEF same
    <3> QED BY Zenon, <3>1, <1>6, MinIs
  <2>3. n \in DOMAIN r /\ r[n].id = d.id /\ n \in Nat \ {0}
    BY Zenon, <1>3, <2>2 DEF IsList
  <2> HIDE DEF n
  <2>4. \A i \in DOMAIN r : i # n => r[i].id # d.id
    BY Zenon, <2>3 DEF Unrepeated
  <2>5. PlacedAt(r, R, n, d)
    BY Zenon, <2>3, <2>4 DEF PlacedAt
  <2> QED BY Zenon, <1>1, <1>6, <2>1, <2>5 DEF d
<1> QED BY Zenon, <1>4, <1>5, <1>6

\* What validate_candidate_keys accepts, place by place.
LEMMA ValidIs ==
    ASSUME NEW r
    PROVE  ValidKeys(r) <=>
             /\ Unrepeated(r)
             /\ \A i \in DOMAIN r : r[i].id # NoId /\ r[i].key \notin BadKeys
             /\ \A i, j \in DOMAIN r : i # j /\ r[i].key = r[j].key => r[i].key = NoKey
  BY Zenon DEF ValidKeys, RepeatsId, Unrepeated, Range

\* A candidate with a fresh, sound key placed by its id keeps a list valid.
LEMMA PlacedIsValid ==
    ASSUME NEW r, NEW R, NEW n, NEW c, IsList(r), ValidKeys(r), PlacedAt(r, R, n, c),
           IsCandidate(c), c.id # NoId, c.key \notin BadKeys, \A i \in DOMAIN r : r[i].key # c.key
    PROVE  IsList(R) /\ ValidKeys(R)
<1>1. IsList(R)
  <2>1. IsFiniteSet(DOMAIN r \cup {n})
    BY Zenon, FS_AddElement DEF IsList
  <2> QED BY Zenon, <2>1 DEF IsList, PlacedAt
<1>2. Unrepeated(R)
  BY ValidIs DEF PlacedAt, Unrepeated
<1>3. \A i \in DOMAIN R : R[i].id # NoId /\ R[i].key \notin BadKeys
  BY Zenon, ValidIs DEF PlacedAt
<1>4. \A i, j \in DOMAIN R : i # j /\ R[i].key = R[j].key => R[i].key = NoKey
  BY Zenon, ValidIs DEF PlacedAt
<1> QED BY Zenon, <1>1, <1>2, <1>3, <1>4, ValidIs

-----------------------------------------------------------------------------
\* Who always_on_mesh_ids names, place by place.
OnAt(c, k) ==
    c.on = "yes" /\ ((HasMeshId(c) /\ k = c.key) \/ (c.self /\ k = OwnMeshId))

\* Who is always on, place by place.
LEMMA AlwaysOnIs ==
    ASSUME NEW r, NEW k
    PROVE  k \in AlwaysOn(r) <=> \E i \in DOMAIN r : OnAt(r[i], k)
<1> DEFINE byKey == {c.key : c \in {x \in Range(r) : x.on = "yes" /\ HasMeshId(x)}}
           own == {OwnMeshId : c \in {x \in Range(r) : x.on = "yes" /\ x.self}}
<1>1. k \in byKey <=> \E i \in DOMAIN r : r[i].on = "yes" /\ HasMeshId(r[i]) /\ k = r[i].key
  BY Zenon DEF Range
<1>2. k \in own <=> \E i \in DOMAIN r : r[i].on = "yes" /\ r[i].self /\ k = OwnMeshId
  BY Zenon DEF Range
<1>3. AlwaysOn(r) = byKey \cup own
  BY Zenon DEF AlwaysOn
<1> HIDE DEF byKey, own
<1> QED BY Zenon, <1>1, <1>2, <1>3 DEF OnAt

\* Candidate i of a feed has the flag, or one with its mesh key has.
FlaggedAt(f, i) ==
    \/ f[i].on = "yes"
    \/ HasMeshId(f[i]) /\ \E j \in DOMAIN f : f[j].key = f[i].key /\ f[j].on = "yes"

\* The feed calls on whom a flagged candidate stands for.
LEMMA FlaggedIsCalled ==
    ASSUME NEW f, NEW i \in DOMAIN f, FlaggedAt(f, i), NEW k,
           (HasMeshId(f[i]) /\ k = f[i].key) \/ (f[i].self /\ k = OwnMeshId)
    PROVE  k \in CalledOn(f)
<1> DEFINE byKey == {c.key : c \in {x \in Range(f) : x.on = "yes" /\ HasMeshId(x)}}
           Stands(x) == \E y \in Range(f) :
                            y.on = "yes" /\ (y = x \/ (HasMeshId(x) /\ y.key = x.key))
           own == {OwnMeshId : c \in {x \in Range(f) : x.self /\ Stands(x)}}
<1>1. CalledOn(f) = byKey \cup own
  BY Zenon DEF CalledOn
<1>2. PICK j \in DOMAIN f : /\ f[j].on = "yes"
                            /\ j = i \/ (HasMeshId(f[i]) /\ f[j].key = f[i].key)
  BY Zenon DEF FlaggedAt
<1>3. f[i] \in Range(f) /\ f[j] \in Range(f)
  BY Zenon DEF Range
<1>4. CASE HasMeshId(f[i]) /\ k = f[i].key
  <2>1. HasMeshId(f[j]) /\ f[j].key = k
    BY Zenon, <1>2, <1>4 DEF HasMeshId
  <2> QED BY Zenon, <1>1, <1>2, <1>3, <2>1
<1>5. CASE f[i].self /\ k = OwnMeshId
  <2>1. Stands(f[i])
    BY Zenon, <1>2, <1>3
  <2>2. k \in own
    <3> HIDE DEF Stands
    <3> QED BY Zenon, <1>3, <1>5, <2>1
  <2> QED BY Zenon, <1>1, <2>2
<1> QED BY Zenon, <1>4, <1>5

\* What is left at a place of a merged feed: the feed's candidate, whose flag
\* may come from one with its key.
StaysFrom(f, m) ==
    /\ DOMAIN m \subseteq DOMAIN f
    /\ \A i \in DOMAIN m :
          /\ IsCandidate(m[i])
          /\ m[i].id = f[i].id /\ m[i].key = f[i].key /\ m[i].self = f[i].self
          /\ m[i].on = "yes" => FlaggedAt(f, i)

\* absorb keeps all but the flag.
LEMMA AbsorbIs ==
    ASSUME NEW f, NEW i \in DOMAIN f, IsCandidate(f[i]), HasMeshId(f[i])
    PROVE  LET c == Absorb(f, i, Sharing(f, i))
           IN  /\ IsCandidate(c)
               /\ c.id = f[i].id /\ c.key = f[i].key /\ c.self = f[i].self
               /\ c.on = "yes" => FlaggedAt(f, i)
<1> DEFINE said == {f[j].on : j \in Sharing(f, i)}
           on == IF "yes" \in said THEN "yes" ELSE IF "no" \in said THEN "no" ELSE "unsaid"
           c == [f[i] EXCEPT !.on = on]
<1>1. on = "yes" => FlaggedAt(f, i)
  <2>1. "yes" \in said => \E j \in DOMAIN f : f[j].key = f[i].key /\ f[j].on = "yes"
    BY Zenon DEF Sharing
  <2> HIDE DEF said
  <2> QED BY Zenon, <2>1 DEF FlaggedAt
<1>2. Absorb(f, i, Sharing(f, i)) = c
  BY Zenon DEF Absorb
<1> HIDE DEF on
<1>3. IsCandidate(c) /\ c.id = f[i].id /\ c.key = f[i].key /\ c.self = f[i].self /\ c.on = on
  BY DEF IsCandidate
<1> HIDE DEF c
<1> QED BY Zenon, <1>1, <1>2, <1>3

\* merge_shared_keys drops candidates and raises flags, no more.
LEMMA MergedStays ==
    ASSUME NEW f \in Feeds
    PROVE  StaysFrom(f, MergeSharedKeys(f)) /\ IsList(MergeSharedKeys(f))
<1> DEFINE stays == {i \in DOMAIN f : HasMeshId(f[i]) => i = KeptOf(f, Sharing(f, i))}
           m == MergeSharedKeys(f)
<1>1. \A i \in DOMAIN f : IsCandidate(f[i])
  BY Zenon, RosterAssumption DEF Range
<1>2. StaysFrom(f, m)
  <2>1. CASE RepeatsId(f)
    <3>1. m = f
      BY Zenon, <2>1 DEF MergeSharedKeys
    <3> HIDE DEF m
    <3> QED BY Zenon, <1>1, <3>1 DEF StaysFrom, FlaggedAt
  <2>2. CASE ~RepeatsId(f)
    <3>1. m = [i \in stays |->
                  IF HasMeshId(f[i]) THEN Absorb(f, i, Sharing(f, i)) ELSE f[i]]
      BY Zenon, <2>2 DEF MergeSharedKeys
    <3>2. stays \subseteq DOMAIN f
      BY Zenon
    <3> HIDE DEF m, stays
    <3>3. DOMAIN m = stays
      BY Zenon, <3>1
    <3>4. ASSUME NEW i \in stays
          PROVE  /\ IsCandidate(m[i])
                 /\ m[i].id = f[i].id /\ m[i].key = f[i].key /\ m[i].self = f[i].self
                 /\ m[i].on = "yes" => FlaggedAt(f, i)
      <4>0. i \in DOMAIN f
        BY Zenon, <3>2
      <4>1. CASE HasMeshId(f[i])
        <5>1. m[i] = Absorb(f, i, Sharing(f, i))
          BY Zenon, <3>1, <4>1
        <5> QED BY Zenon, <1>1, <4>0, <4>1, <5>1, AbsorbIs
      <4>2. CASE ~HasMeshId(f[i])
        <5>1. m[i] = f[i]
          BY Zenon, <3>1, <4>2
        <5> QED BY Zenon, <1>1, <4>0, <5>1 DEF FlaggedAt
      <4> QED BY Zenon, <4>1, <4>2
    <3> QED BY Zenon, <3>2, <3>3, <3>4 DEF StaysFrom
  <2> QED BY Zenon, <2>1, <2>2
<1> HIDE DEF m
<1>3. IsList(m)
  <2>1. DOMAIN f = 1..Len(f) /\ Len(f) \in Nat
    BY RosterAssumption
  <2>2. DOMAIN m \subseteq 1..Len(f)
    BY Zenon, <1>2, <2>1 DEF StaysFrom
  <2>3. IsFiniteSet(DOMAIN m)
    <3>1. 1 \in Int /\ Len(f) \in Int
      BY <2>1
    <3>2. IsFiniteSet(1..Len(f))
      BY Zenon, <3>1, FS_Interval
    <3> QED BY Zenon, <2>2, <3>2, FS_Subset
  <2> QED BY <1>2, <2>1, <2>2, <2>3 DEF IsList, StaysFrom
<1> QED BY Zenon, <1>2, <1>3 DEF m

-----------------------------------------------------------------------------
\* The loop of reconcile_roster: what is there after each place of the
\* previous roster.
Runs(g, incoming) ==
    /\ g[0] = incoming
    /\ \A n \in 1..LastPlace(roster) :
          g[n] = IF n \in DOMAIN roster THEN Carry(g[n - 1], roster[n]) ELSE g[n - 1]

\* The loop computes what ReconcileRoster stands for.
LEMMA ReconcileRuns ==
    ASSUME NEW incoming, LastPlace(roster) \in Nat
    PROVE  \E g : Runs(g, incoming) /\ ReconcileRoster(incoming) = g[LastPlace(roster)]
<1> DEFINE last == LastPlace(roster)
           Turn(g, n) == IF n = 0 THEN incoming
                         ELSE IF n \in DOMAIN roster THEN Carry(g[n - 1], roster[n])
                         ELSE g[n - 1]
           Upto(g, k) == \A n \in 0..last : n < k => g[n] = Turn(g, n)
           Fails == {k \in Nat : ~\E g : Upto(g, k)}
<1>1. Fails = {}
  <2> SUFFICES ASSUME Fails # {} PROVE FALSE
    BY Zenon
  <2>1. PICK k \in Fails : \A j \in Fails : k <= j
    BY Zenon, LeastNat
  <2>2. k # 0
    <3>1. \A g : Upto(g, 0)
      OBVIOUS
    <3> QED BY Zenon, <2>1, <3>1
  <2>3. k \in Nat /\ k - 1 \in Nat /\ k - 1 \notin Fails
    <3>1. Fails \in SUBSET Nat
      BY Zenon
    <3> HIDE DEF Fails
    <3> QED BY <2>1, <2>2, <3>1
  <2>4. PICK g : Upto(g, k - 1)
    <3> HIDE DEF Upto
    <3> QED BY Zenon, <2>3
  <2> DEFINE h == [n \in 0..last |-> IF n < k - 1 THEN g[n] ELSE Turn(g, n)]
  <2>5. ASSUME NEW n \in 0..last, n < k PROVE h[n] = Turn(h, n)
    <3>1. h[n] = Turn(g, n)
      <4> HIDE DEF Turn
      <4> QED BY Zenon, <2>4
    <3>2. n # 0 => h[n - 1] = g[n - 1]
      <4>1. n # 0 => n - 1 \in 0..last /\ n - 1 < k - 1
        BY <2>3, <2>5
      <4> HIDE DEF Turn
      <4> QED BY Zenon, <4>1
    <3> HIDE DEF h
    <3> QED BY Zenon, <3>1, <3>2
  <2>6. Upto(h, k)
    <3> HIDE DEF h, Turn
    <3> QED BY Zenon, <2>5
  <2> QED BY Zenon, <2>1, <2>6
<1>2. PICK g : Upto(g, last + 1)
  <2>1. last + 1 \in Nat
    OBVIOUS
  <2> HIDE DEF Upto, last
  <2> QED BY Zenon, <1>1, <2>1
<1> DEFINE all(f) == f = [n \in 0..last |-> Turn(f, n)]
           done == CHOOSE f : all(f)
<1>3. \A n \in 0..last : g[n] = Turn(g, n)
  <2> HIDE DEF Turn
  <2> QED BY <1>2
<1>4. \E f : all(f)
  <2> DEFINE f == [n \in 0..last |-> g[n]]
  <2>1. ASSUME NEW n \in 0..last PROVE f[n] = Turn(f, n)
    <3>1. f[n] = Turn(g, n)
      <4> HIDE DEF Turn
      <4> QED BY Zenon, <1>3
    <3>2. n # 0 => f[n - 1] = g[n - 1]
      OBVIOUS
    <3> HIDE DEF f
    <3> QED BY Zenon, <3>1, <3>2
  <2>2. f = [n \in 0..last |-> f[n]]
    BY Zenon
  <2>3. all(f)
    <3> HIDE DEF f, Turn
    <3> QED BY Zenon, <2>1, <2>2
  <2> QED BY Zenon, <2>3
<1>5. all(done)
  <2> HIDE DEF all
  <2> QED BY Zenon, <1>4
<1>6. ReconcileRoster(incoming) = done[last]
  BY Zenon DEF ReconcileRoster
<1> HIDE DEF done
<1>7. \A n \in 0..last : done[n] = Turn(done, n)
  <2> HIDE DEF Turn
  <2> QED BY Zenon, <1>5
<1>8. Runs(done, incoming)
  <2>1. done[0] = incoming
    BY <1>7
  <2>2. \A n \in 1..last : n \in 0..last /\ n # 0
    OBVIOUS
  <2> QED BY Zenon, <1>7, <2>1, <2>2 DEF Runs
<1> QED BY Zenon, <1>6, <1>8

\* What the loop keeps true once n places are done: the list is valid, calls
\* nobody on the feed does not call; each candidate is the feed's or has the id
\* of one carried; and a peer in its grace period is there or displaced.
LoopKeeps(f, r, n) ==
    /\ IsList(r) /\ ValidKeys(r)
    /\ AlwaysOn(r) \subseteq CalledOn(f)
    /\ \A i \in DOMAIN r :
          \/ \E c \in Range(f) : c.id = r[i].id /\ c.key = r[i].key
          \/ \E j \in DOMAIN roster : j <= n /\ roster[j].id = r[i].id
    /\ \A j \in DOMAIN roster : j <= n /\ Grace(roster[j]) =>
          \/ \E i \in DOMAIN r : r[i].key = roster[j].key
          \/ Displaced(f, roster[j].key)

RosterInv == IsList(roster) /\ ValidKeys(roster)

\* The loop starts from the merged feed.
LEMMA LoopStarts ==
    ASSUME RosterInv, NEW f \in Feeds, ValidKeys(MergeSharedKeys(f))
    PROVE  LoopKeeps(f, MergeSharedKeys(f), 0)
<1> DEFINE m == MergeSharedKeys(f)
<1>1. StaysFrom(f, m) /\ IsList(m)
  BY Zenon, MergedStays
<1> HIDE DEF m
<1>2. AlwaysOn(m) \subseteq CalledOn(f)
  <2> SUFFICES ASSUME NEW k \in AlwaysOn(m) PROVE k \in CalledOn(f)
    BY Zenon
  <2>1. PICK i \in DOMAIN m : OnAt(m[i], k)
    BY Zenon, AlwaysOnIs
  <2>2. i \in DOMAIN f /\ FlaggedAt(f, i)
    BY Zenon, <1>1, <2>1 DEF StaysFrom, OnAt
  <2>3. (HasMeshId(f[i]) /\ k = f[i].key) \/ (f[i].self /\ k = OwnMeshId)
    BY Zenon, <1>1, <2>1 DEF StaysFrom, OnAt, HasMeshId
  <2> QED BY Zenon, <2>2, <2>3, FlaggedIsCalled
<1>3. \A i \in DOMAIN m : \E c \in Range(f) : c.id = m[i].id /\ c.key = m[i].key
  BY Zenon, <1>1 DEF StaysFrom, Range
<1>4. \A j \in DOMAIN roster : ~(j <= 0)
  BY DEF RosterInv, IsList
<1>5. ValidKeys(m)
  BY Zenon DEF m
<1> QED BY Zenon, <1>1, <1>2, <1>3, <1>4, <1>5 DEF LoopKeeps, m

\* A turn of the loop at a place of the previous roster.  A candidate loses its
\* place only to one with its device id, and then the feed had put it there.
LEMMA TurnKeeps ==
    ASSUME RosterInv, NEW f, NEW r, NEW n \in DOMAIN roster, LoopKeeps(f, r, n - 1)
    PROVE  LoopKeeps(f, Carry(r, roster[n]), n)
<1> DEFINE kept == roster[n]
           R == Carry(r, kept)
<1>1. /\ IsList(roster) /\ n \in Nat \ {0} /\ IsCandidate(kept)
      /\ \A j \in DOMAIN roster : j \in Nat
      /\ \A j \in DOMAIN roster : j # n => roster[j].id # kept.id
  BY Zenon, ValidIs DEF RosterInv, IsList, Unrepeated
<1>2. \A j \in DOMAIN roster : /\ j <= n - 1 => j <= n
                               /\ j <= n /\ j # n => j <= n - 1
                               /\ j <= n - 1 => j # n
  BY <1>1
<1>3. IsList(r) /\ ValidKeys(r) /\ Unrepeated(r)
  BY Zenon, ValidIs DEF LoopKeeps
<1>4. ASSUME R = r, ~Grace(kept) \/ \E i \in DOMAIN r : r[i].key = kept.key
      PROVE  LoopKeeps(f, R, n)
  <2>1. ASSUME NEW j \in DOMAIN roster, j <= n, Grace(roster[j])
        PROVE  \/ \E i \in DOMAIN r : r[i].key = roster[j].key
               \/ Displaced(f, roster[j].key)
    BY Zenon, <1>2, <1>4, <2>1 DEF LoopKeeps
  <2>2. LoopKeeps(f, r, n)
    BY Zenon, <1>2, <2>1 DEF LoopKeeps
  <2> HIDE DEF R
  <2> QED BY Zenon, <1>4, <2>2
<1>5. ASSUME Grace(kept), \A i \in DOMAIN r : r[i].key # kept.key,
             NEW p, PlacedAt(r, R, p, CarriedForward(kept))
      PROVE  LoopKeeps(f, R, n)
  <2> DEFINE d == CarriedForward(kept)
  <2>1. IsCandidate(d) /\ d.id = kept.id /\ d.key = kept.key /\ d.on = "unsaid"
    BY Zenon, <1>1, CarriedIs
  <2>2. d.id # NoId /\ d.key \notin BadKeys
    BY Zenon, <1>5, <2>1, ValidIs DEF Grace, HasMeshId, RosterInv
  <2> HIDE DEF d, R, kept
  <2>3. PlacedAt(r, R, p, d)
    BY Zenon, <1>5 DEF d
  <2>4. IsList(R) /\ ValidKeys(R)
    BY Zenon, <1>3, <1>5, <2>1, <2>2, <2>3, PlacedIsValid
  <2>5. AlwaysOn(R) \subseteq CalledOn(f)
    <3> SUFFICES ASSUME NEW k \in AlwaysOn(R) PROVE k \in AlwaysOn(r)
      BY Zenon DEF LoopKeeps
    <3>1. PICK i \in DOMAIN R : OnAt(R[i], k)
      BY Zenon, AlwaysOnIs
    <3>2. i # p
      BY Zenon, <2>1, <2>3, <3>1 DEF PlacedAt, OnAt
    <3>3. i \in DOMAIN r /\ R[i] = r[i]
      BY Zenon, <2>3, <3>2 DEF PlacedAt
    <3> QED BY Zenon, <3>1, <3>3, AlwaysOnIs
  <2>6. ASSUME NEW i \in DOMAIN R
        PROVE  \/ \E c \in Range(f) : c.id = R[i].id /\ c.key = R[i].key
               \/ \E j \in DOMAIN roster : j <= n /\ roster[j].id = R[i].id
    <3>1. CASE i = p
      <4>1. n <= n /\ kept.id = R[i].id
        BY <1>1, <2>1, <2>3, <3>1 DEF PlacedAt
      <4> QED BY Zenon, <4>1 DEF kept
    <3>2. CASE i # p
      <4>1. i \in DOMAIN r /\ R[i] = r[i]
        BY Zenon, <2>3, <3>2 DEF PlacedAt
      <4> QED BY Zenon, <1>2, <4>1 DEF LoopKeeps
    <3> QED BY Zenon, <3>1, <3>2
  <2>7. ASSUME NEW j \in DOMAIN roster, j <= n, Grace(roster[j])
        PROVE  \/ \E i \in DOMAIN R : R[i].key = roster[j].key
               \/ Displaced(f, roster[j].key)
    <3>1. CASE j = n
      BY Zenon, <2>1, <2>3, <3>1 DEF PlacedAt, kept
    <3>2. CASE j # n
      <4>1. \/ \E i \in DOMAIN r : r[i].key = roster[j].key
            \/ Displaced(f, roster[j].key)
        BY Zenon, <1>2, <2>7, <3>2 DEF LoopKeeps
      <4>2. ASSUME NEW i \in DOMAIN r, r[i].key = roster[j].key, i # p
            PROVE  \E h \in DOMAIN R : R[h].key = roster[j].key
        BY Zenon, <2>3, <4>2 DEF PlacedAt
      <4>3. ASSUME p \in DOMAIN r, r[p].key = roster[j].key
            PROVE  Displaced(f, roster[j].key)
        <5>1. r[p].id = kept.id
          BY Zenon, <2>1, <2>3, <4>3 DEF PlacedAt
        <5>2. ~\E h \in DOMAIN roster : h <= n - 1 /\ roster[h].id = r[p].id
          BY Zenon, <1>1, <1>2, <5>1
        <5>3. PICK c \in Range(f) : c.id = r[p].id /\ c.key = r[p].key
          BY Zenon, <4>3, <5>2 DEF LoopKeeps
        <5>4. kept \in Range(roster) /\ kept.key # roster[j].key
          BY Zenon, <1>5, <4>3 DEF Range, kept
        <5> QED BY Zenon, <1>5, <4>3, <5>1, <5>3, <5>4 DEF Displaced
      <4> QED BY Zenon, <4>1, <4>2, <4>3
    <3> QED BY Zenon, <3>1, <3>2
  <2> QED BY Zenon, <2>4, <2>5, <2>6, <2>7 DEF LoopKeeps
<1>6. \/ R = r /\ (~Grace(kept) \/ \E i \in DOMAIN r : r[i].key = kept.key)
      \/ /\ Grace(kept)
         /\ \A i \in DOMAIN r : r[i].key # kept.key
         /\ \E p : PlacedAt(r, R, p, CarriedForward(kept))
  BY Zenon, <1>1, <1>3, CarryPlaces
<1> HIDE DEF R, kept
<1>7. LoopKeeps(f, R, n)
  BY Zenon, <1>4, <1>5, <1>6
<1> QED BY Zenon, <1>7 DEF R, kept

\* reconcile_roster on a merged feed with sound keys.
LEMMA ReconcileKeeps ==
    ASSUME RosterInv, NEW f \in Feeds, ValidKeys(MergeSharedKeys(f))
    PROVE  LoopKeeps(f, ReconcileRoster(MergeSharedKeys(f)), LastPlace(roster))
<1> DEFINE m == MergeSharedKeys(f)
           last == LastPlace(roster)
<1>1. last \in Nat /\ \A i \in DOMAIN roster : i \in Nat \ {0} /\ i <= last
  BY Zenon, PlacesEnd DEF RosterInv, IsList
<1>2. PICK g : Runs(g, m) /\ ReconcileRoster(m) = g[last]
  BY Zenon, <1>1, ReconcileRuns
<1>3. LoopKeeps(f, m, 0)
  BY Zenon, LoopStarts
<1> HIDE DEF m, last
<1> DEFINE Fails == {n \in 0..last : ~LoopKeeps(f, g[n], n)}
<1>4. Fails = {}
  <2> SUFFICES ASSUME Fails # {} PROVE FALSE
    BY Zenon
  <2>1. Fails \in SUBSET Nat
    OBVIOUS
  <2>2. PICK n \in Fails : \A j \in Fails : n <= j
    <3> HIDE DEF Fails
    <3> QED BY Zenon, <2>1, LeastNat
  <2>3. n \in 0..last /\ ~LoopKeeps(f, g[n], n)
    BY Zenon, <2>2
  <2>4. n # 0
    BY Zenon, <1>2, <1>3, <2>3 DEF Runs
  <2>5. n \in 1..last /\ n - 1 \in 0..last /\ ~(n <= n - 1)
    BY <1>1, <2>3, <2>4
  <2>6. LoopKeeps(f, g[n - 1], n - 1)
    BY Zenon, <2>2, <2>5
  <2>7. g[n] = IF n \in DOMAIN roster THEN Carry(g[n - 1], roster[n]) ELSE g[n - 1]
    BY Zenon, <1>2, <2>5 DEF Runs, last
  <2>8. CASE n \in DOMAIN roster
    <3>1. g[n] = Carry(g[n - 1], roster[n])
      BY Zenon, <2>7, <2>8
    <3>2. LoopKeeps(f, Carry(g[n - 1], roster[n]), n)
      BY Zenon, <2>6, <2>8, TurnKeeps
    <3> QED BY Zenon, <2>3, <3>1, <3>2
  <2>9. CASE n \notin DOMAIN roster
    <3>1. g[n] = g[n - 1]
      BY Zenon, <2>7, <2>9
    <3>2. \A j \in DOMAIN roster : (j <= n - 1 => j <= n) /\ (j <= n => j <= n - 1)
      BY <1>1, <2>5, <2>9
    <3>3. LoopKeeps(f, g[n - 1], n)
      BY Zenon, <2>6, <3>2 DEF LoopKeeps
    <3> QED BY Zenon, <2>3, <3>1, <3>3
  <2> QED BY Zenon, <2>8, <2>9
<1>5. LoopKeeps(f, g[last], last)
  BY <1>1, <1>4
<1> QED BY Zenon, <1>2, <1>5 DEF m, last

\* A list stays one when a candidate is pushed or carried.
LEMMA PushIsList ==
    ASSUME NEW r, NEW c, IsList(r), IsCandidate(c)
    PROVE  IsList(Push(r, c))
<1> DEFINE n == LastPlace(r) + 1
<1>1. n \in Nat \ {0} /\ n \notin DOMAIN r
  BY PlacesEnd DEF IsList
<1>2. Push(r, c) = [i \in DOMAIN r \cup {n} |-> IF i \in DOMAIN r THEN r[i] ELSE c]
  BY Zenon DEF Push
<1> HIDE DEF n
<1>3. IsFiniteSet(DOMAIN r \cup {n})
  BY Zenon, FS_AddElement DEF IsList
<1> QED BY Zenon, <1>1, <1>2, <1>3 DEF IsList

\* A list stays one when a candidate is carried.
LEMMA CarryIsList ==
    ASSUME NEW r, NEW kept, IsList(r), IsCandidate(kept)
    PROVE  IsList(Carry(r, kept))
<1> DEFINE d == CarriedForward(kept)
<1>1. IsCandidate(d)
  BY Zenon, CarriedIs
<1> HIDE DEF d
<1>2. \/ Carry(r, kept) = r
      \/ Carry(r, kept) = Push(r, d)
      \/ \E n : Carry(r, kept) = [r EXCEPT ![n] = d]
  BY Zenon DEF Carry, d
<1>3. \A n : IsList([r EXCEPT ![n] = d])
  BY Zenon, <1>1 DEF IsList
<1> QED BY Zenon, <1>1, <1>2, <1>3, PushIsList

\* Whatever the feed, reconcile_roster returns a list.
LEMMA ReconcileIsList ==
    ASSUME RosterInv, NEW m, IsList(m)
    PROVE  IsList(ReconcileRoster(m))
<1> DEFINE last == LastPlace(roster)
<1>1. last \in Nat /\ \A i \in DOMAIN roster : IsCandidate(roster[i])
  BY Zenon, PlacesEnd DEF RosterInv, IsList
<1>2. PICK g : Runs(g, m) /\ ReconcileRoster(m) = g[last]
  BY Zenon, <1>1, ReconcileRuns
<1> HIDE DEF last
<1> DEFINE Fails == {n \in 0..last : ~IsList(g[n])}
<1>3. Fails = {}
  <2> SUFFICES ASSUME Fails # {} PROVE FALSE
    BY Zenon
  <2>1. Fails \in SUBSET Nat
    OBVIOUS
  <2>2. PICK n \in Fails : \A j \in Fails : n <= j
    <3> HIDE DEF Fails
    <3> QED BY Zenon, <2>1, LeastNat
  <2>3. n \in 0..last /\ ~IsList(g[n])
    BY Zenon, <2>2
  <2>4. n # 0
    BY Zenon, <1>2, <2>3 DEF Runs
  <2>5. n \in 1..last /\ n - 1 \in 0..last /\ ~(n <= n - 1)
    BY <1>1, <2>3, <2>4
  <2>6. IsList(g[n - 1])
    BY Zenon, <2>2, <2>5
  <2>7. g[n] = IF n \in DOMAIN roster THEN Carry(g[n - 1], roster[n]) ELSE g[n - 1]
    BY Zenon, <1>2, <2>5 DEF Runs, last
  <2>8. IsList(Carry(g[n - 1], roster[n])) \/ n \notin DOMAIN roster
    BY Zenon, <1>1, <2>6, CarryIsList
  <2> QED BY Zenon, <2>3, <2>6, <2>7, <2>8
<1> QED BY <1>1, <1>2, <1>3

\* At start the roster is empty.
LEMMA RosterStarts == RosterInit => RosterInv
<1> SUFFICES ASSUME RosterInit PROVE RosterInv
  BY Zenon
<1>1. DOMAIN roster = {}
  BY DEF RosterInit
<1> QED BY Zenon, <1>1, FS_EmptySet, ValidIs DEF RosterInv, IsList, Unrepeated

\* Only a list validate_candidate_keys accepts becomes the roster.
LEMMA RosterStep == RosterInv /\ [RosterNext]_rosterVars => RosterInv'
<1> SUFFICES ASSUME RosterInv, [RosterNext]_rosterVars
             PROVE  IsList(roster') /\ ValidKeys(roster')
  BY Zenon DEF RosterInv, IsList, IsCandidate, ValidKeys, RepeatsId, Range
<1>1. ASSUME NEW f \in Feeds, TakeFeed(f) PROVE IsList(roster') /\ ValidKeys(roster')
  <2> DEFINE m == MergeSharedKeys(f)
             next == ReconcileRoster(m)
  <2>1. roster' = IF ValidKeys(next) THEN next ELSE roster
    BY Zenon, <1>1 DEF TakeFeed
  <2>2. IsList(next)
    BY Zenon, MergedStays, ReconcileIsList
  <2> HIDE DEF next
  <2> QED BY Zenon, <2>1, <2>2 DEF RosterInv
<1>2. ASSUME NEW c \in Found, Find(c) PROVE IsList(roster') /\ ValidKeys(roster')
  <2>1. roster' = Push(roster, c) /\ ValidKeys(roster')
    BY Zenon, <1>2 DEF Find
  <2>2. IsCandidate(c)
    BY Zenon, RosterAssumption
  <2> QED BY Zenon, <2>1, <2>2, PushIsList DEF RosterInv
<1>3. ASSUME roster' = roster PROVE IsList(roster') /\ ValidKeys(roster')
  BY Zenon, <1>3 DEF RosterInv
<1> QED BY Zenon, <1>1, <1>2, <1>3 DEF RosterNext, PullPeer, GraceEnds, rosterVars

\* For any feeds, pulls and candidates found: a feed with sound merged keys is
\* taken, no peer pulled within the grace period leaves with it unless the feed
\* moved its key to the device id of another such peer, and no device passes for
\* always on unless the feed calls it so (merge_shared_keys, reconcile_roster,
\* validate_candidate_keys, always_on_mesh_ids).
THEOREM FeedsKeepPeers == RosterSpec => FeedKeepsRecentPeers
<1> DEFINE Keeps(f) ==
        /\ ValidKeys(ReconcileRoster(MergeSharedKeys(f)))
        /\ AlwaysOn(roster') \subseteq CalledOn(f)
        /\ \A kept \in Range(roster) :
              Grace(kept) => \/ \E c \in Range(roster') : c.key = kept.key
                             \/ Displaced(f, kept.key)
    Fed == fed' # NoFeed => \A f \in Feeds :
               fed' = f /\ ValidKeys(MergeSharedKeys(f)) => Keeps(f)
<1>1. ASSUME RosterInv, NEW f \in Feeds, TakeFeed(f), ValidKeys(MergeSharedKeys(f))
      PROVE  Keeps(f)
  <2> DEFINE next == ReconcileRoster(MergeSharedKeys(f))
  <2>1. LoopKeeps(f, next, LastPlace(roster))
    BY Zenon, <1>1, ReconcileKeeps
  <2>2. roster' = IF ValidKeys(next) THEN next ELSE roster
    BY Zenon, <1>1 DEF TakeFeed
  <2> HIDE DEF next
  <2>3. ValidKeys(next)
    BY Zenon, <2>1 DEF LoopKeeps
  <2>4. roster' = next
    BY Zenon, <2>2, <2>3
  <2>5. AlwaysOn(roster') \subseteq CalledOn(f)
    BY Zenon, <2>1, <2>4 DEF LoopKeeps
  <2>6. ASSUME NEW kept \in Range(roster), Grace(kept)
        PROVE  \/ \E c \in Range(roster') : c.key = kept.key
               \/ Displaced(f, kept.key)
    <3>1. PICK j \in DOMAIN roster : kept = roster[j]
      BY Zenon DEF Range
    <3>2. j <= LastPlace(roster)
      BY Zenon, <1>1, PlacesEnd DEF RosterInv
    <3>3. \/ \E i \in DOMAIN next : next[i].key = roster[j].key
          \/ Displaced(f, roster[j].key)
      BY Zenon, <2>1, <2>6, <3>1, <3>2 DEF LoopKeeps
    <3> QED BY Zenon, <2>4, <3>1, <3>3 DEF Range
  <2> QED BY Zenon, <2>3, <2>5, <2>6 DEF next
<1>2. RosterInv /\ [RosterNext]_rosterVars => [Fed]_rosterVars
  <2> SUFFICES ASSUME RosterInv, RosterNext, NEW f \in Feeds, fed' # NoFeed, fed' = f,
                      ValidKeys(MergeSharedKeys(f))
               PROVE  Keeps(f)
    <3> HIDE DEF Keeps
    <3> QED BY Zenon
  <2>1. TakeFeed(f)
    BY Zenon DEF RosterNext, Find, PullPeer, GraceEnds, TakeFeed
  <2> QED BY Zenon, <1>1, <2>1
<1>3. RosterSpec => [][Fed]_rosterVars
  <2> HIDE DEF Fed
  <2> QED BY <1>2, RosterStarts, RosterStep, PTL DEF RosterSpec
<1> QED BY Zenon, <1>3 DEF FeedKeepsRecentPeers
=============================================================================
