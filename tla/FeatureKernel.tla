--------------------------- MODULE FeatureKernel ---------------------------
(***************************************************************************)
(* The Feature side of the OS Kernel (core/kernel.py): transition_feature, *)
(* return_for_rework, activate_plan with its Task instantiation, and       *)
(* record_qa_report, run by concurrent Units of Work over one Feature.     *)
(*                                                                         *)
(* The database is READ COMMITTED and locks no row a transaction only      *)
(* reads, so a Unit of Work is several steps: it loads the entity, runs    *)
(* the context loader's SELECTs one after the other, and only then judges  *)
(* and commits.  Everything committed in between by others is invisible to *)
(* the judgement.  What the code relies on is the version of a row it      *)
(* SAVES: the UPDATE matches the version read at load time, so a row saved *)
(* is a row nobody changed since it was loaded (repositories/base.py).     *)
(*                                                                         *)
(* Flush and commit are one step: from its UPDATE on, a transaction holds  *)
(* the row lock, so a competing UPDATE waits and then misses its version.  *)
(*                                                                         *)
(* Abstracted: titles, actors' identities, timestamps, event rows (module  *)
(* EventStream), and a Task's life between creation and acceptance (module *)
(* TaskKernel), which here is the single status OPEN.                      *)
(***************************************************************************)
EXTENDS Integers, Sequences, FiniteSets, Lifecycle

CONSTANTS
  Session,      \* concurrent Units of Work
  PlanId,       \* the Feature's possible plans: a plan is its revision number
  Key,          \* plan-local task definition keys
  QAKey,        \* the keys whose definition has capability QA
  PlanKeys,     \* [PlanId -> SUBSET Key]: the definitions of each plan
  ReportKind,   \* the QA Reports an actor may write, before stamping
  CallerEdges,  \* the edges of the Plan graph callers outside the kernel walk
  MaxRound,     \* bound on qa_round
  MaxLedger,    \* bound on ALLOWED ledger lines
  MaxReports    \* bound on recorded QA Reports

Evidence == {"GIT_DIFF", "TEST_OUTPUT", "REASONING"}

(* Where an OPEN defect of a report resolves: nowhere ("none" open at all), *)
(* to this Feature, to another one, or the scope does not resolve.          *)
OpenDefect == {"none", "here", "elsewhere", "unscoped"}

ReportShape == [final : BOOLEAN, passed : BOOLEAN, open : OpenDefect,
                evidence : SUBSET Evidence]

(* QAReport's own validators: PASSED carries no OPEN defect.               *)
ValidReport(k) == k.passed => k.open = "none"

ASSUME FeatureKernelAssumption ==
  /\ PlanId \subseteq Nat \ {0}
  /\ QAKey \subseteq Key
  /\ PlanKeys \in [PlanId -> SUBSET Key]
  /\ ReportKind \subseteq {k \in ReportShape : ValidReport(k)}
  /\ CallerEdges \subseteq PlanEdges
  /\ MaxRound \in Nat /\ MaxLedger \in Nat /\ MaxReports \in Nat

VARIABLES
  feature,   \* the features row: [status, round, version]
  plans,     \* the feature_plans rows: [PlanId -> [status, version]]
  tasks,     \* the tasks rows: a function from task identifiers to a status
  reports,   \* the qa_reports rows, with the defects and evidence they carry
  ledger,    \* the ALLOWED lines of state_transition_audit, oldest first
  refused,   \* whether a REJECTED line has been appended since the last of them
  pc,        \* where each Unit of Work is
  seen,      \* the features row as each Unit of Work loaded it
  target,    \* the plan an activation is about, and its row as loaded
  facts,     \* what the context loader read
  draft      \* the QA Report a session is about to record

vars == <<feature, plans, tasks, reports, ledger, refused,
          pc, seen, target, facts, draft>>

rows     == <<feature, plans, tasks, reports, ledger, refused>>
sessions == <<pc, seen, target, facts, draft>>

(* A Task's identifier: the plan and the definition it came from, and the  *)
(* Unit of Work that generated it (new_id never repeats).                  *)
TaskId == PlanId \X Key \X Session

Absent     == "ABSENT"   \* a plan nobody has added yet
FeatureRow == [status : FeatureStatus, round : Nat \ {0}, version : Nat \ {0}]
PlanRow    == [status : PlanStatus \cup {Absent}, version : Nat]
Report     == [kind : ReportKind, round : Nat \ {0}, written : Nat \ {0}]
Line       == [from : FeatureStatus, to : FeatureStatus, round : Nat \ {0}]
TaskMap    == UNION {[T -> {"OPEN", "ACCEPTED"}] : T \in SUBSET TaskId}
Facts      == [tasks : TaskMap, plans : [PlanId -> PlanRow], reports : SUBSET Report]
Draft      == [kind : ReportKind, written : Nat \ {0}]

NewFeature == [status |-> "DRAFT", round |-> 1, version |-> 1]
NoPlan     == [status |-> Absent, version |-> 0]
NoTarget   == [plan |-> 0, row |-> NoPlan]
Target     == [plan : PlanId, row : PlanRow] \cup {NoTarget}
NoFacts    == [tasks |-> <<>>, plans |-> [p \in PlanId |-> NoPlan], reports |-> {}]
NoDraft    == {}          \* draft[s] holds at most one report

----------------------------------------------------------------------------
(* What the rules say of the facts.  Each reads the Feature row as loaded  *)
(* (f) and the facts (x), never the database.                              *)

LivePlans(x) == {p \in PlanId : x.plans[p].status \in {"DRAFT", "READY", "ACTIVE"}}

NewestLive(x) == CHOOSE p \in LivePlans(x) : \A q \in LivePlans(x) : q <= p

FeaturePlanAttached(x) == LivePlans(x) # {}

PlanHasTaskDefinitions(x) == FeaturePlanAttached(x) /\ PlanKeys[NewestLive(x)] # {}

(* With no live plan at all the rule raises instead of failing: either way *)
(* the request is not applied, and CanJudge says it is not recorded.       *)
PlanIsReady(x) ==
  FeaturePlanAttached(x) /\ x.plans[NewestLive(x)].status \in {"READY", "ACTIVE"}

ImplementationTasks(x) == {t \in DOMAIN x.tasks : t[2] \notin QAKey}

SomeImplementationTask(x) == ImplementationTasks(x) # {}   \* wrong: none need be accepted

ImplementationTasksAccepted(x) ==
  /\ ImplementationTasks(x) # {}
  /\ \A t \in ImplementationTasks(x) : x.tasks[t] = "ACCEPTED"

AllTasksAccepted(x) ==
  /\ DOMAIN x.tasks # {}
  /\ \A t \in DOMAIN x.tasks : x.tasks[t] = "ACCEPTED"

ReportsOfEveryRound(f, x) == x.reports                     \* wrong: no round filter

CurrentRoundReports(f, x) == {r \in x.reports : r.round = f.round}

IsValidFinalPass(r) == r.kind.final /\ r.kind.passed /\ r.kind.open = "none"

QAFinalPassRecorded(f, x) == \E r \in CurrentRoundReports(f, x) : IsValidFinalPass(r)

Blocks(r) == r.kind.open \in {"here", "unscoped"}

ZeroDefects(f, x) == \A r \in CurrentRoundReports(f, x) : ~Blocks(r)

(* Only QA Reports bring evidence here: the loader resolves Work Packages  *)
(* through a Task's Revisions, and a Feature transition supplies no Task.  *)
FeatureEvidencePresent(f, x) ==
  Evidence \subseteq UNION {r.kind.evidence : r \in CurrentRoundReports(f, x)}

(* RuleEngine.evaluate over the conditions a Feature edge can request.     *)
RulesPass(conditions, f, x) ==
  /\ "FEATURE_PLAN_ATTACHED" \in conditions => FeaturePlanAttached(x)
  /\ "PLAN_HAS_TASK_DEFINITIONS" \in conditions => PlanHasTaskDefinitions(x)
  /\ "PLAN_IS_READY" \in conditions => PlanIsReady(x)
  /\ "ALL_IMPLEMENTATION_TASKS_ACCEPTED" \in conditions => ImplementationTasksAccepted(x)
  /\ "ALL_TASKS_ACCEPTED" \in conditions => AllTasksAccepted(x)
  /\ "QA_FINAL_PASS_RECORDED" \in conditions => QAFinalPassRecorded(f, x)
  /\ "ZERO_UNRESOLVED_IN_SCOPE_DEFECTS" \in conditions => ZeroDefects(f, x)
  /\ "MANDATORY_EVIDENCE_PRESENT" \in conditions => FeatureEvidencePresent(f, x)

(* The runner's decision for a request, on the row and facts s has loaded. *)
Permits(s, to, by) ==
  /\ MachineAllows(FeatureEdges, seen[s].status, to, by)
  /\ RulesPass(Judged(FeatureEdges, seen[s].status, to), seen[s], facts[s])

(* A rule raises on these facts: PLAN_IS_READY indexes an empty tuple.     *)
CanJudge(s, to, by) ==
  ~ /\ MachineAllows(FeatureEdges, seen[s].status, to, by)
    /\ "PLAN_IS_READY" \in Judged(FeatureEdges, seen[s].status, to)
    /\ LivePlans(facts[s]) = {}

----------------------------------------------------------------------------
Init ==
  /\ feature = NewFeature
  /\ plans = [p \in PlanId |-> NoPlan]
  /\ tasks = <<>>
  /\ reports = {}
  /\ ledger = <<>>
  /\ refused = FALSE
  /\ pc = [s \in Session |-> "idle"]
  /\ seen = [s \in Session |-> NewFeature]
  /\ target = [s \in Session |-> NoTarget]
  /\ facts = [s \in Session |-> NoFacts]
  /\ draft = [s \in Session |-> NoDraft]

(* The Unit of Work of s is over: nothing it loaded outlives it.           *)
Close(s) ==
  /\ pc' = [pc EXCEPT ![s] = "idle"]
  /\ seen' = [seen EXCEPT ![s] = NewFeature]
  /\ target' = [target EXCEPT ![s] = NoTarget]
  /\ facts' = [facts EXCEPT ![s] = NoFacts]
  /\ draft' = [draft EXCEPT ![s] = NoDraft]

(* Leaving the session without a commit rolls back: an exception out of a  *)
(* rule, out of apply() or out of the commit (the stale version of a row   *)
(* among them), or a crash.  Nothing is written, not even an audit line.   *)
Rollback(s) ==
  /\ pc[s] # "idle"
  /\ Close(s)
  /\ UNCHANGED rows

----------------------------------------------------------------------------
(* transition_feature and return_for_rework open alike: the Feature row.   *)
OpenFeature(s) ==
  /\ pc[s] = "idle"
  /\ pc' = [pc EXCEPT ![s] = "loaded"]
  /\ seen' = [seen EXCEPT ![s] = feature]
  /\ UNCHANGED <<rows, target, facts, draft>>

(* activate_plan opens with the plan it was given, then the plan's Feature. *)
OpenPlan(s, p) ==
  /\ pc[s] = "idle"
  /\ plans[p].status # Absent
  /\ pc' = [pc EXCEPT ![s] = "loaded"]
  /\ target' = [target EXCEPT ![s] = [plan |-> p, row |-> plans[p]]]
  /\ seen' = [seen EXCEPT ![s] = feature]
  /\ UNCHANGED <<rows, facts, draft>>

(* load_rule_context's SELECTs, in its order: the Feature's Tasks, ...     *)
LoadTasks(s) ==
  /\ pc[s] = "loaded"
  /\ pc' = [pc EXCEPT ![s] = "tasks"]
  /\ facts' = [facts EXCEPT ![s].tasks = tasks]
  /\ UNCHANGED <<rows, seen, target, draft>>

(* ... its plans (a plan already loaded in this transaction comes back as  *)
(* it was loaded), and its QA Reports with the evidence attached to them.  *)
LoadPlansAndReports(s) ==
  /\ pc[s] = "tasks"
  /\ pc' = [pc EXCEPT ![s] = "judging"]
  /\ facts' = [facts EXCEPT ![s] =
       [tasks   |-> @.tasks,
        plans   |-> [p \in PlanId |-> IF p = target[s].plan THEN target[s].row ELSE plans[p]],
        reports |-> reports]]
  /\ UNCHANGED <<rows, seen, target, draft>>

(* The runner refuses: the REJECTED line is all that is committed.  An     *)
(* activation always asks for IN_PROGRESS, as the COORDINATOR.             *)
Refuse(s) ==
  /\ pc[s] = "judging"
  /\ \E to \in FeatureStatus, by \in Initiator :
       /\ target[s] # NoTarget => to = "IN_PROGRESS" /\ by = Coordinator
       /\ ~Permits(s, to, by)
       /\ CanJudge(s, to, by)
  /\ refused' = TRUE
  /\ Close(s)
  /\ UNCHANGED <<feature, plans, tasks, reports, ledger>>

----------------------------------------------------------------------------
FeatureIsNeverStale(s) == TRUE                             \* wrong: no version match

(* The version an UPDATE of the features row matches on is the loaded one. *)
FeatureIsFresh(s) == feature.version = seen[s].version

(* A save of the Feature, with the ALLOWED line the runner appends to it.  *)
SaveFeature(s, status, round) ==
  /\ FeatureIsFresh(s)
  /\ feature' = [status |-> status, round |-> round, version |-> feature.version + 1]
  /\ ledger' = Append(ledger, [from |-> seen[s].status, to |-> status, round |-> round])
  /\ refused' = FALSE

(* transition_feature, permitted.                                          *)
CommitTransition(s) ==
  /\ pc[s] = "judging" /\ target[s] = NoTarget
  /\ Len(ledger) < MaxLedger
  /\ \E to \in FeatureStatus, by \in Initiator :
       Permits(s, to, by) /\ SaveFeature(s, to, seen[s].round)
  /\ Close(s)
  /\ UNCHANGED <<plans, tasks, reports>>

(* return_for_rework, permitted: opening_next_qa_round on the loaded row.  *)
CommitRework(s) ==
  /\ pc[s] = "judging" /\ target[s] = NoTarget
  /\ Len(ledger) < MaxLedger
  /\ seen[s].round < MaxRound
  /\ \E by \in Initiator : Permits(s, "IN_PROGRESS", by)
  /\ SaveFeature(s, "IN_PROGRESS", seen[s].round + 1)
  /\ Close(s)
  /\ UNCHANGED <<plans, tasks, reports>>

(* activate_plan, permitted: _instantiate first reads the Tasks again.     *)
BeginInstantiate(s) ==
  /\ pc[s] = "judging" /\ target[s] # NoTarget
  /\ Permits(s, "IN_PROGRESS", Coordinator)
  /\ pc' = [pc EXCEPT ![s] = "instantiating"]
  /\ facts' = [facts EXCEPT ![s].tasks = tasks]
  /\ UNCHANGED <<rows, seen, target, draft>>

EveryDefinition(s, p) == PlanKeys[p]                       \* wrong: not reconciling

(* wrong: the QA definitions are left for a later activation.              *)
UninstantiatedImplementation(s, p) ==
  {k \in PlanKeys[p] \ QAKey : \A t \in DOMAIN facts[s].tasks : <<t[1], t[2]>> # <<p, k>>}

(* The definitions of plan p that no Task read by s came from.             *)
Uninstantiated(s, p) ==
  {k \in PlanKeys[p] : \A t \in DOMAIN facts[s].tasks : <<t[1], t[2]>> # <<p, k>>}

(* A plan row that does not change issues no UPDATE and checks no version. *)
PlanIsFresh(s) ==
  \/ target[s].row.status = "ACTIVE"
  \/ plans[target[s].plan].version = target[s].row.version

Activated(row) ==
  IF row.status = "ACTIVE" THEN row ELSE [status |-> "ACTIVE", version |-> row.version + 1]

(* ... then adds the missing Tasks, saves the plan ACTIVE and the Feature  *)
(* IN_PROGRESS.  A plan that defines no Task cannot leave DRAFT, so        *)
(* with_status raises on it and the session rolls back.                    *)
CommitActivation(s) ==
  LET p == target[s].plan
      new == {<<p, k, s>> : k \in Uninstantiated(s, p)}
  IN /\ pc[s] = "instantiating"
     /\ Len(ledger) < MaxLedger
     /\ PlanKeys[p] # {}
     /\ PlanIsFresh(s)
     /\ tasks' = [t \in DOMAIN tasks \cup new |->
                    IF t \in DOMAIN tasks THEN tasks[t] ELSE "OPEN"]
     /\ plans' = IF target[s].row.status = "ACTIVE" THEN plans
                 ELSE [plans EXCEPT ![p] = Activated(target[s].row)]
     /\ SaveFeature(s, "IN_PROGRESS", seen[s].round)
     /\ Close(s)
     /\ UNCHANGED reports

----------------------------------------------------------------------------
(* A QA actor writes a report while the Feature is in some round; the call *)
(* that records it may come much later.                                    *)
WriteReport(s, k) ==
  /\ pc[s] = "idle"
  /\ pc' = [pc EXCEPT ![s] = "drafted"]
  /\ draft' = [draft EXCEPT ![s] = {[kind |-> k, written |-> feature.round]}]
  /\ UNCHANGED <<rows, seen, target, facts>>

(* record_qa_report loads the Feature whose round it will stamp, ...       *)
LoadForReport(s) ==
  /\ pc[s] = "drafted"
  /\ pc' = [pc EXCEPT ![s] = "stamping"]
  /\ seen' = [seen EXCEPT ![s] = feature]
  /\ UNCHANGED <<rows, target, facts, draft>>

PrecedingRound(s, d) == seen[s].round - 1                  \* wrong: rounds count from 1

(* The round a report is recorded in, whatever round its author gave it.   *)
StampedRound(s, d) == seen[s].round

(* ... and appends the stamped report; the caller commits.  No row is      *)
(* saved, so no version is checked.                                        *)
CommitReport(s) ==
  /\ pc[s] = "stamping"
  /\ Cardinality(reports) < MaxReports
  /\ \E d \in draft[s] :
       reports' = reports \cup
         {[kind |-> d.kind, round |-> StampedRound(s, d), written |-> d.written]}
  /\ Close(s)
  /\ UNCHANGED <<feature, plans, tasks, ledger, refused>>

----------------------------------------------------------------------------
(* What other callers do through the repositories.  The kernel saves a     *)
(* plan only in activate_plan; its other statuses are set by callers, that *)
(* are assumed to follow the Plan graph no code path enforces.             *)

AddPlan(p) ==
  /\ plans[p].status = Absent
  /\ \A q \in PlanId : q < p => plans[q].status # Absent
  /\ plans' = [plans EXCEPT ![p] = [status |-> "DRAFT", version |-> 1]]
  /\ UNCHANGED <<feature, tasks, reports, ledger, refused, sessions>>

SavePlan(p) ==
  /\ plans[p].status # Absent
  /\ PlanKeys[p] # {}
  /\ \E e \in CallerEdges :
       /\ e.from = plans[p].status
       /\ plans' = [plans EXCEPT ![p] = [status |-> e.to, version |-> @.version + 1]]
  /\ UNCHANGED <<feature, tasks, reports, ledger, refused, sessions>>

(* A Task reaches ACCEPTED, its last state (TaskKernel says how).          *)
AcceptTask(t) ==
  /\ tasks[t] = "OPEN"
  /\ tasks' = [tasks EXCEPT ![t] = "ACCEPTED"]
  /\ UNCHANGED <<feature, plans, reports, ledger, refused, sessions>>

Next ==
  \/ \E s \in Session :
       \/ OpenFeature(s) \/ \E p \in PlanId : OpenPlan(s, p)
       \/ LoadTasks(s) \/ LoadPlansAndReports(s)
       \/ Refuse(s) \/ CommitTransition(s) \/ CommitRework(s)
       \/ BeginInstantiate(s) \/ CommitActivation(s)
       \/ (\E k \in ReportKind : WriteReport(s, k)) \/ LoadForReport(s) \/ CommitReport(s)
       \/ Rollback(s)
  \/ \E p \in PlanId : AddPlan(p) \/ SavePlan(p)
  \/ \E t \in DOMAIN tasks : AcceptTask(t)

Spec == Init /\ [][Next]_vars

----------------------------------------------------------------------------
TypeOK ==
  /\ feature \in FeatureRow
  /\ plans \in [PlanId -> PlanRow]
  /\ tasks \in TaskMap
  /\ reports \subseteq Report
  /\ ledger \in Seq(Line)
  /\ refused \in BOOLEAN
  /\ pc \in [Session -> {"idle", "loaded", "tasks", "judging", "instantiating",
                         "drafted", "stamping"}]
  /\ seen \in [Session -> FeatureRow]
  /\ target \in [Session -> Target]
  /\ facts \in [Session -> Facts]
  /\ draft \in [Session -> SUBSET Draft]
  /\ \A s \in Session : pc[s] = "instantiating" => target[s] # NoTarget

(* The enforcement ledger tells the Feature's true story: its ALLOWED      *)
(* lines form one unbroken walk from DRAFT to the current status, one line *)
(* per version of the row.  A lost update, or two transitions both applied *)
(* from the same loaded state, would break the walk (runner.py: the line's *)
(* from_state is the status as loaded, not as stored).                     *)
LedgerIsTheHistory ==
  /\ feature.version = Len(ledger) + 1
  /\ \A i \in 1..Len(ledger) :
       ledger[i].from = IF i = 1 THEN NewFeature.status ELSE ledger[i - 1].to
  /\ ledger # <<>> => /\ feature.status = ledger[Len(ledger)].to
                      /\ feature.round = ledger[Len(ledger)].round

(* An ACCEPTED Feature is certified by what is STORED, though acceptance   *)
(* was judged on rows read earlier and never locked: every Task is         *)
(* ACCEPTED, and a valid QA Final Pass and all mandatory evidence stand in *)
(* the round the Feature ended in.                                         *)
AcceptedIsCertified ==
  LET current == {r \in reports : r.round = feature.round}
  IN feature.status = "ACCEPTED" =>
       /\ DOMAIN tasks # {}
       /\ \A t \in DOMAIN tasks : tasks[t] = "ACCEPTED"
       /\ \E r \in current : IsValidFinalPass(r)
       /\ Evidence \subseteq UNION {r.kind.evidence : r \in current}

(* A Feature in validation has work, and none of it is left to build: no   *)
(* activation can slip a Task in between the reading of the Tasks and the  *)
(* commit.                                                                 *)
ValidationHasNothingOpen ==
  feature.status = "IN_VALIDATION" =>
    /\ \E t \in DOMAIN tasks : t[2] \notin QAKey
    /\ \A t \in DOMAIN tasks : t[2] \notin QAKey => tasks[t] = "ACCEPTED"

(* Activation is reconciling: however activations of one plan interleave,  *)
(* a definition has at most one Task.                                      *)
OneTaskPerDefinition ==
  \A t, u \in DOMAIN tasks : t[1] = u[1] /\ t[2] = u[2] => t = u

(* ... and of two plans of the Feature activated at once, one is           *)
(* instantiated: the plans' own rows differ, the Feature's version decides. *)
(* That lasts until the Feature enters validation: activate_plan then runs *)
(* again, along the edge that returns it to IN_PROGRESS.                   *)
OnePlanUntilValidation ==
  (\A i \in 1..Len(ledger) : ledger[i].to # "IN_VALIDATION") =>
    \A t, u \in DOMAIN tasks : t[1] = u[1]

(* ACCEPTED is final for the row whatever Units of Work that loaded it     *)
(* earlier go on to do: no rework, no second acceptance, no new round.     *)
AcceptanceIsFinal == [][feature.status = "ACCEPTED" => feature' = feature]_vars

(* The QA round never goes back and never skips, even when two reworks of  *)
(* the same loaded round race.                                             *)
RoundAdvancesByOne ==
  [][feature'.round # feature.round => feature'.round = feature.round + 1]_vars

----------------------------------------------------------------------------
(* The rows alone, as AtomicFeature sees them.                             *)
Atomic == INSTANCE AtomicFeature WITH
  Maker     <- Session,
  Mandatory <- Evidence,
  status    <- feature.status,
  round     <- feature.round,
  attached  <- {p \in PlanId : plans[p].status # Absent},
  opened    <- DOMAIN tasks,
  accepted  <- {t \in DOMAIN tasks : tasks[t] = "ACCEPTED"},
  passed    <- {r.round : r \in {q \in reports : IsValidFinalPass(q)}},
  evidenced <- UNION {{r.round} \X r.kind.evidence : r \in reports}

(* Read by read and under no lock, the Kernel behaves as if every          *)
(* transition of the Feature were judged on the stored rows in the instant *)
(* it is saved, and a plan were instantiated whole or not at all: no       *)
(* activation, retried or racing, ever finds the Tasks of its plan in part *)
(* (and then drops the dependencies between the two parts).                *)
ImplementsAtomicFeature == Atomic!Spec

----------------------------------------------------------------------------
(* What the documentation says and the code does not do: each is the       *)
(* subject of a run that expects a violation.                              *)

(* domain/qa.py: "a report written during one round but submitted after    *)
(* rework began stays in the round it was written for".                    *)
ReportKeepsItsRound == \A r \in reports : r.round = r.written

(* domain/feature.py: the round advances "on exactly that transition and   *)
(* on no other", that transition being the return from validation; and     *)
(* kernel.py: a Feature is never returned "without its round advancing".   *)
RoundAdvancesExactlyOnRework ==
  [][feature'.round # feature.round
       <=> feature.status = "IN_VALIDATION" /\ feature'.status = "IN_PROGRESS"]_vars

(* ADR-003: "Feature Acceptance requires zero unresolved in-scope defects", *)
(* and a defect is recorded in the round of the report that carries it.    *)
AcceptedWithoutOpenDefect ==
  [][feature.status # "ACCEPTED" /\ feature'.status = "ACCEPTED"
       => \A r \in reports : r.round = feature.round => ~Blocks(r)]_vars
=============================================================================
