----------------------------- MODULE ReplicaSet -----------------------------
(***************************************************************************)
(* What the daemons promise together: each holds a set of operations that  *)
(* only grows, and only with operations some device created.               *)
(***************************************************************************)
CONSTANTS Nodes, Ops

VARIABLES
  created,   \* the operations committed so far
  held       \* the operations each daemon will still have after any crash

Init == created = {} /\ held = [n \in Nodes |-> {}]

\* A device commits an operation.
Create(o) ==
  /\ o \notin created
  /\ created' = created \cup {o}
  /\ UNCHANGED held

\* A daemon makes a batch of existing operations durable.
Keep(n, batch) ==
  /\ batch \subseteq created
  /\ held' = [held EXCEPT ![n] = @ \cup batch]
  /\ UNCHANGED created

Next ==
  \/ \E o \in Ops : Create(o)
  \/ \E n \in Nodes, batch \in SUBSET Ops : Keep(n, batch)

Spec == Init /\ [][Next]_<<created, held>>
=============================================================================
