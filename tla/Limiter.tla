------------------------------ MODULE Limiter ------------------------------
(***************************************************************************)
(* The limiter of oauth/mod.rs: registrations and asks are counted per     *)
(* source, in a window that opens with the first event after the last one  *)
(* was over.  Once the table is full, a call first drops the windows that  *)
(* are over.                                                               *)
(***************************************************************************)
EXTENDS Integers, Sequences, FiniteSets, Functions

CONSTANTS
  Sources,
  Per, Window,     \* at most Per events in a window of Window seconds
  TableLimit,      \* the table size at which a call drops what is over
  MaxSecond, MaxEvents  \* bounds on the clock and on the events let through

ASSUME LimiterAssumption == Per \in Nat \ {0} /\ Window \in Nat \ {0}

VARIABLES second, windows, let

limiterVars == <<second, windows, let>>

LimiterInit ==
  /\ second = 0
  /\ windows = [s \in {} |-> [started |-> 0, count |-> 0]]
  /\ let = <<>>

Over(w) == second - w.started >= Window

KeptNone == IF Cardinality(DOMAIN windows) < TableLimit THEN windows
            ELSE Restrict(windows, {})
Kept == IF Cardinality(DOMAIN windows) < TableLimit THEN windows
        ELSE Restrict(windows, {s \in DOMAIN windows : ~Over(windows[s])})

\* the window the event of a source falls in
Current(s) ==
  IF s \in DOMAIN Kept /\ ~Over(Kept[s]) THEN Kept[s]
  ELSE [started |-> second, count |-> 0]

Allow(s) ==
  LET w == Current(s)
      allowed == w.count < Per
      next == IF allowed THEN [w EXCEPT !.count = @ + 1] ELSE w IN
  /\ Len(let) < MaxEvents
  /\ windows' = [t \in DOMAIN Kept \cup {s} |-> IF t = s THEN next ELSE Kept[t]]
  /\ let' = IF allowed THEN Append(let, [source |-> s, at |-> second]) ELSE let
  /\ UNCHANGED second

Second == second < MaxSecond /\ second' = second + 1 /\ UNCHANGED <<windows, let>>

LimiterNext == (\E s \in Sources : Allow(s)) \/ Second

LimiterSpec == LimiterInit /\ [][LimiterNext]_limiterVars
-----------------------------------------------------------------------------
\* Within any Window seconds fewer than twice Per events of one source are let through:
\* the windows are fixed, so the end of one and the beginning of the next can meet
\* (mod.rs Limiter::allow, whose comment says at most Per), and dropping windows when the
\* table is full gives no source a fresh one early.
FewerThanTwoWindows ==
  \A s \in Sources, from \in 0..second :
    Cardinality({i \in DOMAIN let : /\ let[i].source = s
                                   /\ from <= let[i].at /\ let[i].at < from + Window}) < 2 * Per
=============================================================================
