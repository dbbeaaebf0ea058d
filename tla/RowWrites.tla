----------------------------- MODULE RowWrites ------------------------------
(***************************************************************************)
(* Pulled operations written into the tables themselves                    *)
(* (src/src/sqlite/rows.rs): last writer wins per row, under schemas that  *)
(* differ between devices and constraints that may refuse a write.         *)
(*                                                                         *)
(* An operation is named by the rank of its order key and carries a row    *)
(* image (an upsert) or none (a delete).  Each replica applies each        *)
(* operation once, in any order; the caller's transaction is               *)
(* write_row_if_newer followed by the append to the log.  The sweep that   *)
(* compares rows with the log is the caller's; its comparison              *)
(* (row_divergence) and its deletion (delete_row) are here.                *)
(***************************************************************************)
EXTENDS Integers, FiniteSets, FiniteSetsExt

CONSTANTS
    Replicas,
    RowOps,        \* a set of positive integers
    Mutation,      \* [RowOps -> [row, delete, image]], image: column -> value,
                   \* of the columns the writer's device has
    ColumnsOf,     \* [Replicas -> sets of columns]; empty: no such table
    KeyColumn, UniqueColumn,
    DeviceLocal,   \* rows of tables that stay on their device
    ParentOf,      \* [rows -> a row it references, or NoRow]
    NoRow,
    Unset          \* a column's default

\* The rank of an order key; zero stands for no operation.
ASSUME RowAssumption == RowOps \subseteq Nat \ {0}

VARIABLES
    rows,       \* replica -> (live row -> image)
    appliedOps, \* replica -> operations in its log
    refused     \* replica -> operations a constraint refused (history)

rowVars == <<rows, appliedOps, refused>>

TableRows == {Mutation[o].row : o \in RowOps}

-----------------------------------------------------------------------------
\* newest_applied_in_store for the operation's row.
NewestOn(n, r) == Max({0} \cup {o \in appliedOps[n] : Mutation[o].row = r})

\* The op's columns that exist locally.
LocalColumns(n, o) == DOMAIN Mutation[o].image \cap ColumnsOf[n]

LiveImage(n, r) == IF r \in DOMAIN rows[n] THEN rows[n][r] ELSE [c \in ColumnsOf[n] |-> Unset]

\* upsert_matches_current_row: nothing to write.
Matches(n, o) ==
    LET r == Mutation[o].row
    IN  /\ r \in DOMAIN rows[n]
        /\ \A c \in LocalColumns(n, o) : rows[n][r][c] = Mutation[o].image[c]

\* INSERT .. ON CONFLICT (key) DO UPDATE of the op's local columns.
Upserted(n, o) ==
    LET old == LiveImage(n, Mutation[o].row)
    IN  [c \in ColumnsOf[n] |->
            IF c \in LocalColumns(n, o) THEN Mutation[o].image[c] ELSE old[c]]

\* Another row holds the value of the unique column.
UniqueConflict(n, o) ==
    /\ UniqueColumn \in LocalColumns(n, o)
    /\ \E r \in DOMAIN rows[n] \ {Mutation[o].row} :
          rows[n][r][UniqueColumn] = Mutation[o].image[UniqueColumn]

\* A live row references the one to delete (foreign keys are suspended for
\* upserts only).
ForeignKeyConflict(n, r) == \E c \in DOMAIN rows[n] : ParentOf[c] = r

Put(n, r, image) ==
    [rows EXCEPT ![n] = [x \in DOMAIN @ \cup {r} |-> IF x = r THEN image ELSE @[x]]]

Drop(n, r) == [rows EXCEPT ![n] = [x \in DOMAIN @ \ {r} |-> @[x]]]

\* A table that stays local, a table or key column this device does not have.
OutOfSync(n, o) == Mutation[o].row \in DeviceLocal \/ KeyColumn \notin ColumnsOf[n]

\* The early returns of write_row: those, and an upsert of foreign columns only.
Skips(n, o) ==
    \/ OutOfSync(n, o)
    \/ ~Mutation[o].delete /\ LocalColumns(n, o) = {}

\* The Upsert arm of write_row.
WriteUpsert(n, o) ==
    IF Matches(n, o)
    THEN UNCHANGED <<rows, refused>>
    ELSE IF UniqueConflict(n, o)
    THEN /\ refused' = [refused EXCEPT ![n] = @ \cup {o}]
         /\ UNCHANGED rows
    ELSE /\ rows' = Put(n, Mutation[o].row, Upserted(n, o))
         /\ UNCHANGED refused

\* The Delete arm.
WriteDelete(n, o) ==
    LET r == Mutation[o].row
    IN  IF r \in DOMAIN rows[n] /\ ForeignKeyConflict(n, r)
        THEN /\ refused' = [refused EXCEPT ![n] = @ \cup {o}]
             /\ UNCHANGED rows
        ELSE /\ rows' = Drop(n, r)
             /\ UNCHANGED refused

\* A write that does not look at what the row already has.
NeverSuperseded(n, o) == FALSE

\* The order keys compared by write_row_if_newer.
Superseded(n, o) == NewestOn(n, Mutation[o].row) >= o

\* write_row_if_newer, then the append.
ApplyOp(n, o) ==
    /\ o \notin appliedOps[n]
    /\ appliedOps' = [appliedOps EXCEPT ![n] = @ \cup {o}]
    /\ IF Superseded(n, o) \/ Skips(n, o)
       THEN UNCHANGED <<rows, refused>>
       ELSE IF Mutation[o].delete THEN WriteDelete(n, o) ELSE WriteUpsert(n, o)

-----------------------------------------------------------------------------
\* material_image_matches, with no volatile column.
ImageMatches(logged, live) ==
    DOMAIN logged = DOMAIN live /\ \A c \in DOMAIN live : logged[c] = live[c]

\* row_divergence of a live row from the newest operation on it.
Divergence(n, r) ==
    LET newest == NewestOn(n, r)
    IN  IF newest = 0 THEN "uncovered"
        ELSE IF Mutation[newest].delete THEN "tombstoned"
        ELSE IF ImageMatches(Mutation[newest].image, rows[n][r]) THEN "covered"
        ELSE "uncovered"

\* The sweep finishes a deletion the tables had refused (delete_row); one that
\* is refused again is left to the next sweep.
FinishTombstone(n, r) ==
    /\ r \in DOMAIN rows[n]
    /\ Divergence(n, r) = "tombstoned"
    /\ ~ForeignKeyConflict(n, r)
    /\ rows' = Drop(n, r)
    /\ refused' = [refused EXCEPT ![n] = @ \ {NewestOn(n, r)}]
    /\ UNCHANGED appliedOps

RowInit ==
    /\ rows = [n \in Replicas |-> <<>>]
    /\ appliedOps = [n \in Replicas |-> {}]
    /\ refused = [n \in Replicas |-> {}]

RowNext ==
    \E n \in Replicas :
        \/ \E o \in RowOps : ApplyOp(n, o)
        \/ \E r \in TableRows : FinishTombstone(n, r)

RowSpec == RowInit /\ [][RowNext]_rowVars

-----------------------------------------------------------------------------
Shows(n, r, o) ==
    IF Mutation[o].delete \/ OutOfSync(n, o)
    THEN r \notin DOMAIN rows[n]
    ELSE LocalColumns(n, o) # {} =>
           /\ r \in DOMAIN rows[n]
           /\ \A c \in LocalColumns(n, o) : rows[n][r][c] = Mutation[o].image[c]

\* Whatever order a replica's operations came in, each row shows the newest of
\* them, in every column that operation carries and the replica has; and a
\* replica with exactly the writer's columns sees no divergence to repair.  The
\* exceptions are the writes a constraint refused.  (A column the newest operation
\* does not carry keeps what an earlier write left, whichever came last.)
RowShowsWinner ==
    \A n \in Replicas, r \in TableRows :
        LET o == NewestOn(n, r)
        IN  (o # 0 /\ o \notin refused[n]) =>
              /\ Shows(n, r, o)
              /\ (r \in DOMAIN rows[n] /\ ColumnsOf[n] = DOMAIN Mutation[o].image)
                    => Divergence(n, r) = "covered"
=============================================================================
