--------------------------- MODULE BackfillLedger ---------------------------
(***************************************************************************)
(* What a managed detail backfill promises about the targets it selected,  *)
(* whatever its pumps, detail jobs, retries, blocks and crashes do: a      *)
(* target is pending until it is accounted for under one outcome, and      *)
(* never comes back; a run ends by itself only when nothing is pending;    *)
(* and a cancellation is final, drops what is pending and accounts for no  *)
(* more than that.                                                         *)
(***************************************************************************)
EXTENDS Integers, FiniteSets

CONSTANT Targets  \* what a run may select

VARIABLES
  phase,    \* "open" however often it is blocked or paused, "cancelling" or over
  pending,  \* the targets not accounted for yet
  tally,    \* how many targets have had each outcome
  target    \* how many targets were selected

Outcomes == {"succeeded", "unavailable", "failed"}
Accounted == tally.succeeded + tally.unavailable + tally.failed + tally.cancelled

(* Selected targets that no query shows any more are unavailable at once.  *)
Init ==
  /\ phase = "open"
  /\ pending \in SUBSET Targets
  /\ target \in Nat /\ Cardinality(pending) <= target
  /\ tally = [succeeded |-> 0, unavailable |-> target - Cardinality(pending),
              failed |-> 0, cancelled |-> 0]

Account(S, outcome) ==
  /\ phase \in {"open", "cancelling"}
  /\ pending' = pending \ S
  /\ tally' = [tally EXCEPT ![outcome] = @ + Cardinality(S)]
  /\ UNCHANGED <<phase, target>>

Finish ==
  /\ phase = "open" /\ pending = {}
  /\ phase' = IF tally.failed = 0 THEN "completed" ELSE "partial"
  /\ UNCHANGED <<pending, tally, target>>

Cancel ==
  /\ phase = "open" /\ phase' = "cancelling"
  /\ UNCHANGED <<pending, tally, target>>

Drop ==
  /\ phase = "cancelling" /\ pending' = {}
  /\ UNCHANGED <<phase, tally, target>>

(* Of what was dropped, a crash may lose the count. *)
Withdraw ==
  /\ phase = "cancelling" /\ pending = {}
  /\ phase' = "cancelled"
  /\ \E n \in 0 .. target - Accounted : tally' = [tally EXCEPT !.cancelled = @ + n]
  /\ UNCHANGED <<pending, target>>

Next == \/ (\E S \in SUBSET pending, outcome \in Outcomes : Account(S, outcome))
        \/ Finish \/ Cancel \/ Drop \/ Withdraw

vars == <<phase, pending, tally, target>>

Spec == Init /\ [][Next]_vars

=============================================================================
