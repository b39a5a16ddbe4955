------------------------------ MODULE Lifecycle ------------------------------
(***************************************************************************)
(* The four lifecycle graphs of the OS and the question a state machine    *)
(* answers about a requested transition.  Everything here is constant: the *)
(* code builds the graphs once, at import, and a StateMachine keeps no     *)
(* state of its own (state/machine.py).                                    *)
(*                                                                         *)
(* An edge is [from, to, by, needs]: who may request it, and which         *)
(* conditions the Rule Engine must then find satisfied.                    *)
(***************************************************************************)
EXTENDS FiniteSets

Coordinator == "COORDINATOR"
Worker      == "WORKER"
Reviewer    == "REVIEWER"
QA          == "QA"
OS          == "OS"

(* Who may stand behind a request: an actor's role, or the OS itself.      *)
Initiator == {Coordinator, Worker, Reviewer, QA, OS}

FeatureStatus == {"DRAFT", "PLANNED", "IN_PROGRESS", "IN_VALIDATION", "ACCEPTED"}

TaskStatus == {"CREATED", "PENDING_DEPENDENCIES", "READY", "ASSIGNED",
               "IN_PROGRESS", "SUBMITTED", "IN_REVIEW", "IN_QA",
               "REVISION_REQUIRED", "ACCEPTED"}

PlanStatus == {"DRAFT", "READY", "ACTIVE", "COMPLETED", "SUPERSEDED"}

WorkPackageStatus == {"DRAFT", "SUBMITTED", "VALIDATED", "REVIEWED",
                      "ACCEPTED", "REJECTED"}

Edge(from, to, by, needs) == [from |-> from, to |-> to, by |-> by, needs |-> needs]

FeatureEdges ==
  { Edge("DRAFT", "PLANNED", {Coordinator},
         {"FEATURE_PLAN_ATTACHED", "PLAN_HAS_TASK_DEFINITIONS"}),
    Edge("PLANNED", "IN_PROGRESS", {Coordinator},
         {"PLAN_IS_READY", "TASKS_INSTANTIATED", "PLAN_DEPENDENCIES_VALID"}),
    Edge("IN_PROGRESS", "IN_VALIDATION", {Coordinator, OS},
         {"ALL_IMPLEMENTATION_TASKS_ACCEPTED"}),
    Edge("IN_VALIDATION", "IN_PROGRESS", {Coordinator, QA},
         {"QA_DEFECT_FINDINGS_RECORDED"}),
    Edge("IN_VALIDATION", "ACCEPTED", {Coordinator},
         {"ALL_TASKS_ACCEPTED", "QA_FINAL_PASS_RECORDED",
          "ZERO_UNRESOLVED_IN_SCOPE_DEFECTS", "MANDATORY_EVIDENCE_PRESENT"}) }

TaskEdges ==
  { Edge("CREATED", "PENDING_DEPENDENCIES", {OS}, {"TASK_HAS_DEPENDENCIES"}),
    Edge("CREATED", "READY", {OS},
         {"DEPENDENCIES_ACCEPTED", "ORIGINATING_PLAN_ACTIVE"}),
    Edge("PENDING_DEPENDENCIES", "READY", {OS},
         {"DEPENDENCIES_ACCEPTED", "ORIGINATING_PLAN_ACTIVE"}),
    Edge("READY", "ASSIGNED", {Coordinator},
         {"WORKER_IS_ACTIVE", "WORKER_CAPABILITY_MATCHES"}),
    Edge("ASSIGNED", "IN_PROGRESS", {Worker}, {"REQUESTER_IS_ASSIGNED_WORKER"}),
    Edge("IN_PROGRESS", "SUBMITTED", {Worker},
         {"WORK_PACKAGE_PRESENT", "CLAIMS_DEFINED",
          "MANDATORY_SYSTEM_EVIDENCE_ATTACHED", "VERIFICATION_GUIDE_PRESENT"}),
    Edge("SUBMITTED", "IN_REVIEW", {OS}, {"REVIEWER_ASSIGNED"}),
    Edge("IN_REVIEW", "IN_QA", {Reviewer},
         {"REVIEW_DECISION_APPROVED", "REVIEW_NOTES_PRESENT"}),
    Edge("IN_REVIEW", "REVISION_REQUIRED", {Reviewer},
         {"REVIEW_DECISION_CHANGES_REQUESTED", "REVIEW_FEEDBACK_PRESENT"}),
    Edge("IN_QA", "ACCEPTED", {QA},
         {"QA_REPORT_PASSED", "TEST_EXECUTION_EVIDENCE_PRESENT"}),
    Edge("IN_QA", "REVISION_REQUIRED", {QA, Coordinator},
         {"QA_REPORT_FAILED", "DEFECTS_DOCUMENTED"}),
    Edge("REVISION_REQUIRED", "IN_PROGRESS", {Worker},
         {"INCREMENTED_REVISION_CREATED"}) }

PlanEdges ==
  { Edge("DRAFT", "READY", {Coordinator}, {}),
    Edge("READY", "ACTIVE", {Coordinator}, {}),
    Edge("ACTIVE", "COMPLETED", {Coordinator, OS}, {}),
    Edge("ACTIVE", "SUPERSEDED", {Coordinator}, {}) }

WorkPackageEdges ==
  { Edge("DRAFT", "SUBMITTED", {Worker}, {}),
    Edge("SUBMITTED", "VALIDATED", {OS}, {}),
    Edge("VALIDATED", "REVIEWED", {OS}, {}),
    Edge("REVIEWED", "ACCEPTED", {OS}, {}),
    Edge("REVIEWED", "REJECTED", {OS}, {}) }

(* Conditions some edge names and no registered rule evaluates.  The       *)
(* engine reports them as unevaluated and never fails on them, so asking   *)
(* for one is asking for nothing (rules/registry.py).                      *)
UnevaluatedConditions ==
  {"TASK_HAS_DEPENDENCIES", "REVIEW_DECISION_CHANGES_REQUESTED",
   "QA_REPORT_FAILED", "INCREMENTED_REVISION_CREATED",
   "QA_DEFECT_FINDINGS_RECORDED", "PLAN_DEPENDENCIES_VALID",
   "REVIEW_NOTES_PRESENT", "REVIEW_FEEDBACK_PRESENT", "DEFECTS_DOCUMENTED",
   "TASKS_INSTANTIATED"}

IsTerminal(edges, state) == \A e \in edges : e.from # state

Defines(edges, from, to) == \E e \in edges : e.from = from /\ e.to = to

(* The one edge between two states: the constructor refuses a second one.  *)
Definition(edges, from, to) == CHOOSE e \in edges : e.from = from /\ e.to = to

(* StateMachine.evaluate reduced to its verdict: the request is legal.     *)
MachineAllows(edges, from, to, initiator) ==
  /\ ~IsTerminal(edges, from)
  /\ Defines(edges, from, to)
  /\ initiator \in Definition(edges, from, to).by

(* The conditions a legal request must still satisfy and a rule judges.    *)
Judged(edges, from, to) == Definition(edges, from, to).needs \ UnevaluatedConditions
=============================================================================
