-------------------------- MODULE MCFeatureKernel --------------------------
(* Constants for TLC.  Two Units of Work, one implementation and one QA    *)
(* definition.                                                             *)
EXTENDS FeatureKernel, TLC

CONSTANTS s1, s2

MCSession == {s1, s2}
MCSymmetry == Permutations(MCSession)

MCKey == {"build", "check"}
MCQAKey == {"check"}

(* One plan with both definitions.                                         *)
MCOnePlan == {1}
MCOnePlanKeys == [p \in MCOnePlan |-> MCKey]

(* An older plan and a newer revision, each defining the one build Task.   *)
MCTwoPlans == {1, 2}
MCTwoPlanKeys == [p \in MCTwoPlans |-> {"build"}]

(* COMPLETED and SUPERSEDED are one to every rule (neither plan is live),  *)
(* and only the kernel makes a plan ACTIVE.                                *)
MCReadyOrOver == {e \in PlanEdges : e.to \in {"READY", "SUPERSEDED"}}
MCReadyOnly   == {e \in PlanEdges : e.to = "READY"}

Pass    == [final |-> TRUE, passed |-> TRUE, open |-> "none", evidence |-> Evidence]
Finding == [final |-> FALSE, passed |-> FALSE, open |-> "here", evidence |-> {}]

(* A Final Pass short of one kind of evidence, and a report that brings it *)
(* along with a defect of another Feature: acceptance needs both.          *)
Bare    == [final |-> TRUE, passed |-> TRUE, open |-> "none",
            evidence |-> {"GIT_DIFF", "TEST_OUTPUT"}]
Foreign == [final |-> FALSE, passed |-> FALSE, open |-> "elsewhere",
            evidence |-> {"REASONING"}]

MCPass == {Pass}
MCPassOrFinding == {Pass, Finding}
MCPassInTwoParts == {Bare, Foreign}
=============================================================================
