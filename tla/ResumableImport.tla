-------------------------- MODULE ResumableImport --------------------------
(***************************************************************************)
(* What a checkpointed import promises its user, whatever goes on inside:  *)
(* delivery is at least once, the checkpoint claims only what is stored    *)
(* and never claims less than before, and Ok means everything is stored    *)
(* (docs/resume.md, "Import (batch-level checkpoint)").                    *)
(***************************************************************************)
EXTENDS Integers

CONSTANT NBatches
Batches == 1..NBatches

VARIABLES
  stored,   \* batches in the collection
  claimed,  \* length of the prefix the checkpoint object claims
  outcome   \* how the last run ended, "none" before it does

abstractVars == <<stored, claimed, outcome>>

Init == stored = {} /\ claimed = 0 /\ outcome = "none"

\* Some batches reach the collection, in any order, before the run ends.
Store ==
  /\ outcome = "none"
  /\ stored' \in SUBSET Batches /\ stored \subseteq stored'
  /\ UNCHANGED <<claimed, outcome>>

Claim ==
  /\ outcome = "none"
  /\ \E c \in claimed..NBatches : 1..c \subseteq stored /\ claimed' = c
  /\ UNCHANGED <<stored, outcome>>

Succeed ==
  /\ outcome = "none" /\ stored = Batches
  /\ outcome' = "ok"
  /\ UNCHANGED <<stored, claimed>>

Fail ==
  /\ outcome = "none"
  /\ outcome' = "failed"
  /\ UNCHANGED <<stored, claimed>>

Rerun ==
  /\ outcome # "none"
  /\ outcome' = "none"
  /\ UNCHANGED <<stored, claimed>>

Next == Store \/ Claim \/ Succeed \/ Fail \/ Rerun

Spec == Init /\ [][Next]_abstractVars

=============================================================================
