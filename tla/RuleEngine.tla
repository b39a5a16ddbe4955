------------------------------ MODULE RuleEngine ------------------------------
(***************************************************************************)
(* The rule registry and the engine that evaluates it (rules/registry.py,  *)
(* rules/engine.py).  The registry is a constant of the program: the       *)
(* engine validates it once, at import, and nothing can change it after.   *)
(*                                                                         *)
(* A rule is named here by the one condition it evaluates.  What a rule    *)
(* finds is a parameter: `holds' is the set of conditions that are true of *)
(* the facts (FeatureKernel and TaskKernel say when each one is).          *)
(***************************************************************************)
EXTENDS Integers, Sequences, FiniteSets, Lifecycle

(* The stages that have rules, in their order: STATE_TRANSITION is empty.  *)
ActorAuthority == 1
PlanDependency == 3
EvidenceStage  == 4
AcceptanceStage == 5

(* A rule, the conditions of the rules it requires, and of the facts it    *)
(* reads those that a caller may have left out: the context loader always  *)
(* supplies the entity and every collection.                               *)
Rule(condition, stage, requires, facts) ==
  [condition |-> condition, stage |-> stage, requires |-> requires, facts |-> facts]

RULES == <<
  Rule("WORKER_IS_ACTIVE", ActorAuthority, {}, {"candidate_worker"}),
  Rule("WORKER_CAPABILITY_MATCHES", ActorAuthority, {}, {"candidate_worker"}),
  Rule("REQUESTER_IS_ASSIGNED_WORKER", ActorAuthority, {}, {"requesting_actor"}),
  Rule("REVIEWER_ASSIGNED", ActorAuthority, {}, {}),
  Rule("FEATURE_PLAN_ATTACHED", PlanDependency, {}, {}),
  Rule("PLAN_HAS_TASK_DEFINITIONS", PlanDependency, {"FEATURE_PLAN_ATTACHED"}, {}),
  Rule("PLAN_IS_READY", PlanDependency, {"FEATURE_PLAN_ATTACHED"}, {}),
  Rule("ORIGINATING_PLAN_ACTIVE", PlanDependency, {}, {}),
  Rule("DEPENDENCIES_ACCEPTED", PlanDependency, {}, {}),
  Rule("WORK_PACKAGE_PRESENT", EvidenceStage, {}, {}),
  Rule("CLAIMS_DEFINED", EvidenceStage, {"WORK_PACKAGE_PRESENT"}, {}),
  Rule("VERIFICATION_GUIDE_PRESENT", EvidenceStage, {"WORK_PACKAGE_PRESENT"}, {}),
  Rule("MANDATORY_SYSTEM_EVIDENCE_ATTACHED", EvidenceStage, {}, {}),
  Rule("MANDATORY_EVIDENCE_PRESENT", EvidenceStage, {}, {}),
  Rule("REVIEW_DECISION_APPROVED", AcceptanceStage, {}, {}),
  Rule("QA_REPORT_PASSED", AcceptanceStage, {}, {}),
  Rule("TEST_EXECUTION_EVIDENCE_PRESENT", AcceptanceStage, {"QA_REPORT_PASSED"}, {}),
  Rule("ALL_IMPLEMENTATION_TASKS_ACCEPTED", AcceptanceStage, {}, {}),
  Rule("ALL_TASKS_ACCEPTED", AcceptanceStage, {}, {}),
  Rule("QA_FINAL_PASS_RECORDED", AcceptanceStage, {}, {}),
  Rule("ZERO_UNRESOLVED_IN_SCOPE_DEFECTS", AcceptanceStage, {"QA_FINAL_PASS_RECORDED"}, {}) >>

IMPLEMENTED == {RULES[i].condition : i \in DOMAIN RULES}

(* The conditions without a rule, by the reason they have none.            *)
PENDING_RULE_EXPANSION ==
  {"TASK_HAS_DEPENDENCIES", "REVIEW_DECISION_CHANGES_REQUESTED", "QA_REPORT_FAILED",
   "INCREMENTED_REVISION_CREATED", "QA_DEFECT_FINDINGS_RECORDED"}
SATISFIED_BY_DOMAIN_INVARIANT ==
  {"PLAN_DEPENDENCIES_VALID", "REVIEW_NOTES_PRESENT", "REVIEW_FEEDBACK_PRESENT",
   "DEFECTS_DOCUMENTED"}
BLOCKED == {"TASKS_INSTANTIATED"}

(* The closed vocabulary: every condition some edge declares.              *)
Vocabulary ==
  UNION {e.needs : e \in FeatureEdges \cup TaskEdges \cup PlanEdges \cup WorkPackageEdges}

(* The edges a Feature and its Tasks walk when nothing is sent back and no *)
(* Task waits, and what they ask for.                                      *)
SliceEdges ==
  {e \in FeatureEdges : <<e.from, e.to>> # <<"IN_VALIDATION", "IN_PROGRESS">>}
    \cup {e \in TaskEdges : {e.from, e.to} \cap {"PENDING_DEPENDENCIES", "REVISION_REQUIRED"} = {}}
FOUNDATION_V1 == UNION {e.needs : e \in SliceEdges}

----------------------------------------------------------------------------
Index(c) == CHOOSE i \in DOMAIN RULES : RULES[i].condition = c
RuleFor(c) == RULES[Index(c)]

(* The evaluation order: by stage, and as declared inside a stage.         *)
Precedes(c, d) ==
  \/ RuleFor(c).stage < RuleFor(d).stage
  \/ RuleFor(c).stage = RuleFor(d).stage /\ Index(c) < Index(d)

(* What the program checks when it is imported, and does not start without. *)
ValidRegistry ==
  /\ \A i, j \in DOMAIN RULES : RULES[i].condition = RULES[j].condition => i = j
  /\ \A c \in IMPLEMENTED : \A p \in RuleFor(c).requires : p \in IMPLEMENTED /\ Precedes(p, c)

Partitioned(classes, whole) ==
  /\ UNION classes = whole
  /\ \A A, B \in classes : A # B => A \cap B = {}

ValidClassification ==
  /\ Partitioned({IMPLEMENTED, PENDING_RULE_EXPANSION, SATISFIED_BY_DOMAIN_INVARIANT, BLOCKED},
                 Vocabulary)
  /\ Vocabulary \ IMPLEMENTED = UnevaluatedConditions

(* The gate the Kernel must pass before it may operate, with the one       *)
(* condition it accounts for explicitly.                                   *)
FoundationGate ==
  FOUNDATION_V1 \subseteq IMPLEMENTED \cup SATISFIED_BY_DOMAIN_INVARIANT \cup BLOCKED

(* What a StateMachine's constructor checks of its transitions.            *)
ValidGraph(edges, states) ==
  /\ \A e, f \in edges : e.from = f.from /\ e.to = f.to => e = f
  /\ \A e \in edges : e.from # e.to
  /\ \A x \in states : \E e \in edges : x \in {e.from, e.to}

ASSUME RegistryAssumption == ValidRegistry /\ ValidClassification /\ FoundationGate

ASSUME GraphAssumption ==
  /\ ValidGraph(FeatureEdges, FeatureStatus) /\ ValidGraph(TaskEdges, TaskStatus)
  /\ ValidGraph(PlanEdges, PlanStatus) /\ ValidGraph(WorkPackageEdges, WorkPackageStatus)

----------------------------------------------------------------------------
(* One evaluation.  `verdict' is what the rules have returned so far, by   *)
(* condition; PENDING is a rule the engine has not come to.                *)

RuleStatus == {"PENDING", "PASSED", "FAILED", "SKIPPED"}

Unjudged == [c \in IMPLEMENTED |-> "PENDING"]

Selected(requested) == requested \cap IMPLEMENTED

(* Checked before any rule runs.                                           *)
MissingFacts(requested, supplied) ==
  UNION {RuleFor(c).facts : c \in Selected(requested)} \ supplied

(* The rule the loop is at.                                                *)
IsNext(c, requested, verdict) ==
  /\ c \in Selected(requested) /\ verdict[c] = "PENDING"
  /\ \A d \in Selected(requested) : Precedes(d, c) => verdict[d] # "PENDING"

(* wrong: the first failure ends the evaluation                            *)
EvaluatedToAFailure(requested, verdict) ==
  \/ \E c \in Selected(requested) : verdict[c] = "FAILED"
  \/ \A c \in Selected(requested) : verdict[c] # "PENDING"

Evaluated(requested, verdict) == \A c \in Selected(requested) : verdict[c] # "PENDING"

(* wrong: a prerequisite nobody asked for blocks like one that failed      *)
BlockedByTheAbsent(c, verdict) ==
  {p \in RuleFor(c).requires : verdict[p] # "PASSED"}

(* The prerequisites that make the verdict of c meaningless.               *)
Blocking(c, verdict) == {p \in RuleFor(c).requires : verdict[p] \in {"FAILED", "SKIPPED"}}

(* A rule that indexes the newest live plan has no answer without one.     *)
Raises(c, holds) ==
  c \in {"PLAN_HAS_TASK_DEFINITIONS", "PLAN_IS_READY"} /\ "FEATURE_PLAN_ATTACHED" \notin holds

StatusOf(c, holds, verdict) ==
  IF Blocking(c, verdict) # {} THEN "SKIPPED"
  ELSE IF c \in holds THEN "PASSED" ELSE "FAILED"

IsSatisfied(verdict) == \A c \in IMPLEMENTED : verdict[c] # "FAILED"

(* What a refusal records: every rule that did not pass.                   *)
RuleReasons(verdict) == {c \in IMPLEMENTED : verdict[c] \in {"FAILED", "SKIPPED"}}
=============================================================================
