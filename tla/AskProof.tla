------------------------------ MODULE AskProof ------------------------------
(***************************************************************************)
(* The proof a party ask carries (oauth/ask_proof.rs): the asking node     *)
(* signs the ask with an expiry and a nonce, the asked node checks it and  *)
(* notes the nonce.  A proof can arrive any number of times, at any time;  *)
(* nonces are forgotten after a day.  An ask without a proof, let in until *)
(* UNSIGNED_ASKS_UNTIL, touches nothing here and is left out.              *)
(***************************************************************************)
EXTENDS Integers

CONSTANTS
  Nonces,            \* one per proof signed
  Keys,              \* the keys the key book has for the address the ask names
  Here,              \* the recipient an ask to this node is signed for
  Recipients, Signers,
  Lifetime, Skew, Memory,
  MaxNow             \* bound on the clock

ASSUME ProofTimes ==
  /\ Lifetime \in Nat /\ Skew \in Nat /\ Memory \in Nat
  /\ Lifetime + Skew <= Memory

VARIABLES
  now,       \* the asked node's clock
  proofs,    \* nonce -> the proof signed with it
  seen,      \* ask_nonces: nonce -> seen_at, or Unseen
  accepted   \* nonce -> how often its ask was accepted

proofVars == <<now, proofs, seen, accepted>>

Unseen   == -1
Unsigned == [to |-> Here, key |-> 0, expires |-> -1, intact |-> FALSE]

ProofInit ==
  /\ now = 0
  /\ proofs = [n \in Nonces |-> Unsigned]
  /\ seen = [n \in Nonces |-> Unseen]
  /\ accepted = [n \in Nonces |-> 0]

\* sign_with_identity, by a node whose clock is off by `drift`; `intact` is false of a proof
\* whose ask was altered on its way
Sign(n, to, k, drift, intact) ==
  /\ proofs[n] = Unsigned
  /\ now + drift >= 0
  /\ proofs' = [proofs EXCEPT ![n] = [to |-> to, key |-> k, intact |-> intact,
                                      expires |-> now + drift + Lifetime]]
  /\ UNCHANGED <<now, seen, accepted>>

\* verify_party_ask_signature
Verifies(p) ==
  /\ p.to = Here
  /\ now <= p.expires
  /\ p.expires <= now + Lifetime + Skew
  /\ p.key \in Keys
  /\ p.intact

\* first_sighting_conn: nonces seen before the memory's reach are dropped, then this one is
\* added unless it is there
ForgottenAtExpiry(n) == seen[n] < now - Lifetime
Forgotten(n) == seen[n] < now - Memory
Remembered == [n \in Nonces |-> IF Forgotten(n) THEN Unseen ELSE seen[n]]

FirstSighting(n) == Remembered[n] = Unseen

Receive(n) ==
  LET verified == proofs[n] # Unsigned /\ Verifies(proofs[n]) IN
  /\ proofs[n] # Unsigned
  /\ seen' = IF verified
             THEN IF FirstSighting(n) THEN [Remembered EXCEPT ![n] = now] ELSE Remembered
             ELSE seen
  /\ accepted' = IF verified /\ FirstSighting(n) THEN [accepted EXCEPT ![n] = @ + 1]
                 ELSE accepted
  /\ UNCHANGED <<now, proofs>>

Pass ==
  /\ now < MaxNow
  /\ now' = now + 1
  /\ UNCHANGED <<proofs, seen, accepted>>

ProofNext ==
  \/ \E n \in Nonces, to \in Recipients, k \in Signers, drift \in -(Skew + 1)..(Skew + 1),
        intact \in BOOLEAN : Sign(n, to, k, drift, intact)
  \/ \E n \in Nonces : Receive(n)
  \/ Pass

ProofSpec == ProofInit /\ [][ProofNext]_proofVars
-----------------------------------------------------------------------------
\* An ask is accepted at most once on its proof, however often and however late its proof arrives and
\* although nonces are forgotten: a proof that still verifies was first seen within the
\* memory's reach (ask_proof.rs verify_party_ask_signature, first_sighting_conn).
AcceptedOnce == \A n \in Nonces : accepted[n] <= 1
=============================================================================
