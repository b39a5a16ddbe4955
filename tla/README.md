# Formal model of the AI Engineering OS kernel

TLA+ modules, TLC configurations and TLAPS proofs about the code under
`src/src/ai_engineering_os/`. Paths below are relative to that directory; ADRs are under
`src/docs/`.

## 1. The system

The OS enforces an engineering process. A **Feature** is planned, its plan is instantiated
into **Tasks**, a Task is assigned, worked on, submitted, reviewed and verified, and the
Feature is validated and accepted. Every status change goes through one path:

    caller -> Kernel operation -> load the facts -> StateMachine + RuleEngine (the verdict)
           -> refuse (REJECTED audit line)  or  apply + ALLOWED audit line + event, one commit
           -> pg_notify on commit -> EventSubscriber -> handler

| Component | State | Operations | Interacts by |
|---|---|---|---|
| Kernel, Feature side (`core/kernel.py`) | none of its own; rows `features`, `feature_plans`, `tasks`, `qa_reports`, the audit ledger | `transition_feature`, `return_for_rework`, `activate_plan` with `_instantiate`, `record_qa_report` | SELECTs and saves of one Unit of Work |
| Kernel, Task side (`core/kernel.py`, `core/routing.py`) | rows `tasks`, `task_revisions`, Work Packages, Evidence, Decisions | `transition_task`, `assign_task`, `route_for_review` | same |
| Transition runner (`core/runner.py`) | none | `run`, `_refuse`, `_allow` | asks machine and engine, calls the operation's `apply`, appends line and event, commits |
| Context loader (`core/context_loader.py`) | none | `load_rule_context` | up to a dozen SELECTs, none of them locking |
| State machines (`state/`) | four constant graphs | `StateMachine.evaluate` | called by the runner |
| Rules, engine, registry (`rules/`) | none; the registry is validated once, at import | one `evaluate` per rule; order by stage, skip behind a failed prerequisite, error on a missing fact | called by the runner on the loaded context |
| Domain (`domain/`) | immutable entities with validators | construction, `with_status`, `assigned_to`, ... | an entity that breaks a validator cannot be built: the operation raises |
| Unit of Work, repositories (`storage/`) | one session, rows tracked since their load | `get`, `list`, `save`, `add`, commit, rollback | READ COMMITTED; `UPDATE ... WHERE version = <loaded>`, flushed by the save and locking its row until the end |
| Events (`events/`, `storage/repositories/event_repo.py`) | `os_events`; the subscriber's position, wake-up and LISTEN | append, notify, `start`, `drain`, `run_forever`, `_reconnect`, `stop` | notification as a hint, the table as the truth |

**What is hard here.** Units of Work run concurrently and lock nothing they only read, so a
verdict may rest on facts that are no longer true at commit; the version of the one row
that is saved is all that protects it. A retried or concurrent activation, two handovers
of one Task, a report written in one QA round and recorded in the next, decisions and
reports that outlive the Revision they are about, a runner that is cancelled between two
flushes or never hears the answer to its commit, a subscriber that is interrupted
anywhere: none of these is reached by the unit tests, which run one Unit of Work at a time.
`PROJECT.json` lists 40 such hazards, at their lines.

**What makes each part correct.** Ledger: it tells the true history of each entity, with no
lost update. Feature: what certified acceptance is stored and stays so; rounds advance one
at a time; a plan's definition becomes one Task and of plans that race one is instantiated. Task: its
Revisions are numbered without gap or repetition, no author reviews the work, one Worker
holds it, acceptance stands on an approval and a pass of the very Revision accepted, a
dependency is accepted first. Runner and Unit of Work: rows and line are stored together or
not at all, a line tells the truth of the verdict, no update is lost, frozen content stays
frozen, and every Unit of Work ends. Events: handled in order and once, no lost wake-up, nothing
skipped that was there to be read, everything reached in the end.

## 2. The modules

| Module | Models | Extends |
|---|---|---|
| `Lifecycle` | the Feature, Task, Plan and Work Package graphs, and the verdict of `StateMachine.evaluate` | |
| `FeatureKernel` | Feature-side operations by concurrent Units of Work over one Feature | `Lifecycle` |
| `TaskKernel` | Task-side operations, and what callers write through the repositories | `Lifecycle` |
| `RuleEngine` | the registry, what is validated of it and of the graphs at import, and one evaluation rule by rule | `Lifecycle` |
| `UnitOfWork` | sessions, tracked rows, flushes and their locks, commit, rollback | |
| `TransitionRunner` | the runner, step by step and interrupted anywhere, for every Feature and Task edge | `UnitOfWork`, `RuleEngine` |
| `EventStream` | writers, the stream, notifications and one subscriber | |
| `EngineeringProcess` | both sides of the Kernel over one Feature and its Tasks: `AtomicFeature` and `AtomicTasks` composed | `Lifecycle` |
| `AtomicFeature`, `AtomicTasks`, `AtomicStore`, `OrderedDelivery` | what `FeatureKernel`, `TaskKernel`, `UnitOfWork` and `EventStream` promise | (the first two `Lifecycle`) |
| `FeatureKernelProofs`, `TaskKernelProofs`, `EventStreamProofs`, `UnitOfWorkProofs`, `TransitionRunnerProofs`, `EngineeringProcessProofs` | theorems about the module each is named after | that module, `TLAPS` |
| `FeatureRefinementProofs`, `TaskRefinementProofs` | that the detailed module implements the abstract one | the proofs above |
| `MCFeatureKernel`, `MCTaskKernel`, `MCEventStream`, `MCTransitionRunner`, `MCEngineeringProcess` | constants for TLC | |

**One Unit of Work is several steps.** `pc[s]` says where session `s` is. An operation loads
its entity (`OpenFeature`, `OpenPlan`, `OpenTask`: the first `get_by_id`), runs the
loader's SELECTs in the loader's order (`LoadTasks`, `LoadPlansAndReports`; `SelectReviewer`,
`LoadWork`, `LoadFeature`), and then either `Refuse`s or commits (`CommitTransition`,
`CommitRework`, `BeginInstantiate` and `CommitActivation`, `CommitReport`,
`CommitAssignment`, `CommitRouting`). Other sessions commit between any two of these
steps. Two SELECTs that no rule reads together are one step. `FeatureIsFresh` and
`TaskIsFresh` are the version match of the UPDATE; a session whose row is stale can only
`Rollback`, which also stands for every exception and for a crash. In the two kernel modules
everything from the first flush to the commit is one step; `UnitOfWork` has the flushes,
the locks and the commit as steps of their own, and `UnitsAreAtomic` (section 4) is what
justifies the coarser grain.

**Which request is made** is not stored: a permitted request is any target and initiator
for which the graph and the rules say yes on what was loaded (`Permits`), a refused one any
other. `MachineAllows` and `Judged` come from the graph; `RulesPass` is the conjunction of
the registered rules. Ten conditions the graphs name have no rule
(`UnevaluatedConditions`), and the engine never fails on them.

**FeatureKernel** keeps the Feature row, the plans, the Tasks as a map from (plan, key,
creating session) to OPEN or ACCEPTED, the QA Reports with the defects and evidence they
carry, and the ALLOWED lines. A report is written in one step and recorded in later ones,
so its author's round (`written`) and its stamp (`round`) may differ. Callers add plans,
newest last, and move them along the Plan graph; Tasks become ACCEPTED at any time.

**TaskKernel** keeps per Task its row, Revisions with their Work Packages, and the ALLOWED
lines; Evidence, Decisions and QA Reports; the plan's status and the active actors.
`Constructible` is the conjunction of `domain/task.py`'s validators and `Readable` that of
the Revision history. Handovers, package edits, decisions and reports are written by
callers through the repositories; no code outside the tests does it yet, and the module's
comment says what is assumed of them: as the tests do, one Unit of Work for Revision, package and
pointer, handed over while the Worker holds the Task, numbered one by one (`with_active_revision`
itself asks for a greater number only, in any status).

**EventStream**: an event is its sequence number, given at INSERT and visible at COMMIT.
The subscriber is one coroutine, so an action is what happens between two awaits:
`Subscribe`, `EstablishPosition`, `ReadBatch`, `HandleEvent`, `WakeUp`, `Reconnect`. Faults
are actions of their own, chosen by the constant `Faults`. `late`, `handled` and `opened`
are history variables: no guard reads them but `EstablishPosition`, to know whether
`opened` is still to be set.

**UnitOfWork and TransitionRunner.** A session is one Unit of Work and is never used again.
`loaded[s]` are the rows it tracks (`_track`), `written[s]` those it has flushed, hence
locked; a row is its version, who has written it, and for a Work Package who rewrote its
content and whether it has left DRAFT. The runner adds a program counter: `Begin` takes a
request (an edge, on whose behalf, which optional facts were supplied, which conditions are
true, what `apply` will save in which order, or that it cannot build the entity), `LoadNext`
reads the rows, `EvaluateMachine` refuses or goes on to the engine, `EvaluateRule` runs one
rule, `Conclude` looks at the verdict, `Apply` flushes one save, `RecordAllowed` and
`RecordRejected` append the line, `RunnerCommits` commits. `Raise` is every exception the
code itself raises, at the step where it does: a missing fact, a rule without an answer, an
entity that cannot be built, a version that is gone, a line with no actor to name.
`Abandon` is a cancellation, a lost connection or a crash, anywhere. A commit may take
effect and not be answered: the session then ends "failed", as an exception leaves it.
Plain callers save rows and commit without asking the runner.

**RuleEngine.** A rule is named by its condition, with its stage, its prerequisites and the
facts a caller may leave out. What the program validates when it is imported is stated as
assumptions that TLC evaluates: `ValidRegistry`, `ValidClassification`, `FoundationGate`,
`ValidGraph`. Whether a condition is true is a parameter here (`holds`), and the subject of
the kernel modules, which take the verdict for the plain conjunction. `LinesTellTheTruth`
is what makes that right: skipped rules and prerequisites nobody asked for change which
failures are reported, never the outcome.

**The abstract specifications** have none of the machinery. `AtomicFeature`: the Feature
takes one edge at a time, what the edge demands is true of the stored rows at that instant
(`Entitled`), and a plan becomes Tasks whole and once. `AtomicTasks`: the same for each
Task. `AtomicStore`: a transaction happens at one instant or not at all. `OrderedDelivery`:
a handler is given committed events one at a time, in order, none that came in its turn
left out. Each is instantiated at the end of the detailed module with a refinement mapping
that forgets the sessions (or connection, batches and wake-ups) and keeps the stored rows
(or the handled events); the mapping uses no history variable but `opened`, `late` and
`handled` of `EventStream`. Each says in its comment what it does *not* promise, because
the code does not keep it: no open defect, a plan that is still live, a Worker still
active, events that commit late.

**EngineeringProcess** is what the two kernels amount to. Its rows are those of `AtomicFeature` and
`AtomicTasks`; each of its steps is an operation of one side and leaves the rows of the other
alone, which is what the code does: a Unit of Work saves the Feature (with its plans and new
Tasks) or one Task. The sides meet in what they read. `Accepted`, the Tasks the Feature side finds
ACCEPTED, is a function of the Task side's rows; a Task can move only once an activation has added
it; dependencies and capabilities come from the plan's definitions, keys becoming the Tasks made
together. That the interleaving of whole operations is enough is what the refinement theorems of
each kernel give. A QA Report is one step for both sides, since its evidence counts for both.

**Abstracted.** Titles, texts, identifiers, timestamps (a report keeps the order of its
date), failure codes, event payloads, mapper fields. Bounds are in guards and named
`Max...`: they stop the counters and stand for nothing in the code.

## 3. The runs

All sizes are distinct states.

| Run | Instance | Shows |
|---|---|---|
| `feature_accept` (1,094,052) | 2 sessions, 1 plan with one implementation and one QA definition, 2 rounds, 6 lines, 2 reports that are sufficient only together | `LedgerIsTheHistory`, `AcceptedIsCertified`, `ValidationHasNothingOpen`, `AcceptanceIsFinal`, `RoundAdvancesByOne`, `ImplementsAtomicFeature` |
| `feature_activate` (1,265,030) | 2 sessions, 2 plans of one definition each, made READY and superseded by callers; 4 lines, so that a plan can be activated again from validation | `OneTaskPerDefinition`, `OnePlanUntilValidation` |
| `task_route` (878,776) | 2 sessions, 2 Workers, 2 Reviewers of whom one may author a Revision or be deactivated, 2 Revisions, each without a Work Package or short of evidence that is attached later | `HistoryAgreesWithPointer`, `TaskLedgerIsAWalk`, `ReviewerIsNoAuthor`, `SubmittedMeetsTheStandard`, `AssignedOnce` |
| `task_rework` (1,360,604) | 1 session, 2 Revisions handed over as drafts, completed and submitted; an approval and two reports, pass or fail, of either Revision and in either order of date | `AcceptedIsVerified`, `FirstReportDecides`, over the rework loop |
| `task_wait` (647,492) | 2 sessions, 2 Tasks of which one waits, the plan may be superseded | `ReadyAfterItsDependencies`, `ImplementsAtomicTasks` |
| `runner_interrupted` (60,231) | 2 Units of Work over a Feature, a plan, a Task and a package row: one asks for any edge of both graphs over any truth of the conditions it needs, in its right or not, facts missing or not, entity sound or not, or edits the package; the other activates, assigns, edits or submits the package, or saves the plan | `OutcomesAreWhole`, `LinesTellTheTruth`, `RefusalsNameEverything`, `NothingIsLost`, `ContentStaysFrozen`, `SomebodyGoesOn`, `StepsLeaveLess`, `EveryUnitEnds`, `ImplementsAtomicStore` |
| `events_deliver` (107,240) | 2 writers, 4 events, batches of 2, every fault | `NoWakeupIsLost`, `HandledInOrder`, `OnlyLateEventsAreSkipped`, `EveryEventIsReached`, `ImplementsOrderedDelivery` |
| `qa_round_stamp`, `qa_round_advance`, `late_defect`, `event_gap`, `review_by_anyone` | small | violated: section 5 |

**Why the bounds are enough.** Every interference here is between two Units of Work that
share a row, or one that reads and one that writes: two sessions are the smallest instance
that has it, and the row's version stops a third as it stops the second. Six ALLOWED lines
take a Feature from DRAFT through one rework to ACCEPTED (four without it); two rounds are
what the round filter distinguishes. A Task needs seven lines to be ACCEPTED and eleven
after one rework (`task_rework`); nine in `task_route` reach a second
routing after a second Revision. Two Revisions tell the active one from an older one. Four events
with batches of two give a full batch, a full batch with a remainder and an empty pass.
Symmetry is used over the two sessions only, in safety runs, and never in the runs that
check liveness. `feature_activate` needs no reports and one round: four lines reach
validation and the activation that follows it. `task_rework` has two
Revisions, so that an approval or a pass of the older one is there to be taken for one of the
newer, and two reports, so that the first-dated can differ from the last-recorded. It has one
session: what decides is which of the records counts, and callers record approvals, reports,
drafts and submissions between any two of its steps (as its own handover is one Unit of Work,
no other session hands over in between). That race, a Revision handed over while the
submission of the preceding one is judged, is in `task_route`, whose two sessions have room
for both Revisions and for evidence that arrives late. The second session in `task_wait` is there
for `ImplementsAtomicTasks`: an edge into IN_QA, ACCEPTED or SUBMITTED finds its approval,
report or evidence stored at that instant. The theorems have all of it for any number of
sessions, Revisions and reports. In `runner_interrupted` two Units of Work over four rows give each pair
of saves that can meet; the requests of the first are exhaustive, since what one edge needs
is at most a few conditions.

**By hand.** `EngineeringProcess` is proved and not one of the runs above;
`tlc -config EngineeringProcess_accept.cfg MCEngineeringProcess` checks all its properties on an instance
(29,896 states): a plan of two Tasks of which one waits for the other, a second plan with a QA
Task, two rounds and one Revision of each Task. It is the instance on which the theorems were found.

**Deadlock** is checked in the kernel runs: some session can always begin or roll back.
`EventStream` disables it, because the system really comes to rest: all events written, the
subscriber waiting, dead or stopped. So does `runner_interrupted`: a Unit of Work is used
once, and both end.

**Fairness** is stated where the code's scheduling gives it. `EventStream.FairSpec`: weak
fairness of `SubscriberStep` and of
`OnNotification`. The asyncio event loop runs a coroutine that can run and a callback that
is due; the handler is assumed to return. Nothing obliges a writer to commit, a fault to
happen, or the owner to start a subscriber that is stopped. `EveryEventIsReached` asks for
each committed event to be passed by the position unless the subscription ended (stopped,
dead, or dropped). A backlog of several batches behind one wake-up is the case that
matters (its mutant reads one batch per wake-up). `TransitionRunner.FairSpec`: weak fairness
of `Runs(s)` per session, since the event loop runs a coroutine that can go on and the
database wakes a transaction whose row is unlocked. `Begin` and `Abandon` are not fair.
`EveryUnitEnds` then says that no Unit of Work waits for ever for another's row. It
rests on two things: a session that ends leaves no lock behind (its mutant leaves one), and
what the Kernel saves in one Unit of Work, it saves in one order (plan, then Feature), so
that two of them close no circle of waiting. The safety halves of that argument are properties
of their own and theorems: whoever waits, another Unit of Work is at work (`SomebodyGoesOn`), and
each step leaves its session less of a finite work (`StepsLeaveLess`). The two kernel modules state no liveness: a Unit of Work may
always roll back and callers owe it no retry.

**Mutants.** Each property of a passing run has a variant of the code that breaks it
(`PROJECT.json`, operators marked `wrong:`): the version match dropped, the round filter
dropped, authors forgotten, a drain without its loop, a reconnect without its drain, a
batch read newest first, and so on.

## 4. The proofs

For all values of the constants that satisfy the modules' ASSUMEs (sets of sessions, Tasks,
actors, plans, keys, report kinds, rows and writers of any size, infinite too; any bounds; any
requests; two theorems need an order to be well-founded, and say so). Every safety invariant and action property of the passing runs is a theorem, and so are the four
refinements and what the two sides of the Kernel promise together.

* **`FeatureKernelProofs`**. `FeatureKernelTypes`, `LedgerIsAlwaysTheHistory`,
  `AcceptedStaysAccepted`, `RoundsAdvanceByOne`, `AcceptedFeaturesAreCertified`,
  `ValidatedFeaturesHaveNothingOpen`. The argument of the last two is the argument of the
  code. A verdict rests on facts that were read and not locked, so it must be said why they
  still hold at commit. `SeenIsAVersion`: a loaded row is no newer than the stored one, and
  equals it if the versions do. `FactsAreStable`: while the loaded version is current,
  Tasks are only accepted, never added (adding is what an activation does, and it
  saves the Feature), so the Tasks read are the Tasks stored, each at least as far.
  `ReportsAreKept`: reports read are still stored, reports being only added. Hence at a
  commit that finds its version, the judged conditions hold of the stored rows, and
  afterwards nothing takes them away: no edge leaves ACCEPTED, and a commit that adds Tasks
  also saves the Feature as IN_PROGRESS. `CertificationInv` is the conjunction that is
  inductive; `ActivationIsPermitted` is part of it because an activation is judged in one
  step and committed in a later one: that it was permitted, hence from a status that is not
  terminal, must be carried to the commit. Note what the argument cannot give: *no open
  defect*, because that needs reports not to be added. Run `late_defect` shows it fails.
  `DefinitionsAreInstantiatedOnce` and `OnePlanIsStarted` rest on `InstantiationInv`, which
  adds `NothingBeforeTheStart`: a Feature that is DRAFT or PLANNED has no Task. An
  activation that finds its version has read exactly the stored Tasks
  (`InstantiationSteps`), so what it adds was missing.
* **`EventStreamProofs`**. `EventStreamTypes`; `NoWakeupIsEverLost`, from `WakeupInv`, that
  adds `LastPassReadsAll`: during the last pass of a drain, whatever is unread beyond the
  batch has a wake-up pending; `EventsAreHandledInOrder`, from `OrderInv`: what is in the
  batch is beyond the position and beyond what was handled; `OnlyLateEventsAreEverSkipped`,
  from `SkipInv`: the position, once it has moved, is a committed event, and a batch
  leaves out no event below its own greatest that is not late. `TheStreamDeliversInOrder`, the
  refinement, needs `NumbersAreGivenOnce`, as an event published twice would be two events, and
  `PositionIsReached`: the position in the coroutine is the last event handled, or where it was
  opened.
* **`TaskKernelProofs`**. `TaskKernelTypes`, by which every stored Task satisfies the validators
  of `domain/task.py`;
  `HistoriesAgreeWithTheirPointers`, `TaskLedgersAreWalks`, `TasksAreAssignedOnce`, from
  `HistoryInv`; `TasksAwaitTheirDependencies`, `ReviewersAreIndependent`,
  `SubmissionsMeetTheStandard`, `AcceptedTasksAreVerified`, `AcceptancesRestOnTheFirstReport`,
  from `StoredInv`. The argument has the shape
  of the Feature's. `LockInv`: a loaded Task is no newer than the stored one, and is it if
  the versions agree; what was judged is what was loaded, or what routing made of it.
  `FactsInv`: what was read of other rows and can only grow (Revisions, evidence,
  decisions, accepted prerequisites) is still there at the commit, and under a version that
  still matches the Revisions read are all there are, because a handover saves the Task.
  `VerificationInv` adds that a Task in QA was approved at the Revision it has, and that
  reports have different dates, without which "the first report" is no report.
  `SubmissionsMeetTheStandard` says of a SUBMITTED Task that its active Revision has a Work Package,
  complete or still a DRAFT, and that each mandatory type of evidence is on record for the Task.
  `AcceptancesRestOnTheFirstReport`: of the reports an acceptance was shown on the active
  Revision, the first-dated passed (`rules/verification.py`); one recorded after they were read is
  not seen, whatever its date, as nothing locks the reports.
* **`TaskRefinementProofs`**: `TheKernelIsAtomic`. A commit that finds its version starts
  from the stored row; that the facts read stay true, and the invariants on the state after
  the step, give `Entitled`; records are seen through the mapping to grow only.
* **`FeatureRefinementProofs`**: `TheFeatureKernelIsAtomic`. Needs, beside `InstantiationInv`,
  `PlansAreWhole`: a plan with one Task has one for each of its definitions. It is inductive because
  an activation that finds its version has read all Tasks and adds what is missing of its plan at once.
* **`UnitOfWorkProofs`**. `UnitsTypes`, `NoUpdateIsLost`, `FrozenContentStays`, `UnitsAreAtomic`.
  `VersionsIdentifyRows`: a loaded row whose version is the stored one is the stored
  row. `LocksExclude`: no row is flushed by two sessions. `FlushesBuildOnStored`: a flushed
  row is the stored row plus the session's change, since the lock keeps the stored one as it
  was when the UPDATE matched. `ClosedHoldNothing`: a session that is not open holds no lock.
  So a commit, which installs all flushed rows, is one `Transact`, and everything before it a stutter.
* **`TransitionRunnerProofs`**. `RunnerUsesUnits` shows that each step of the runner is a step
  of its Unit of Work, so `RunnerIsAtomic`, `RunnerLosesNothing` and
  `RunnerKeepsFrozenContent` follow from the theorems above. `TransitionsAreWhole` and
  `LedgerIsTrue` rest on `Sound`, an invariant of each Unit of Work alone: the verdict so far is
  right, behind a skipped rule is a failed one, and one that did not pass right before it
  (`VerdictIsSound`); the step it is at was
  earned (`PlaceIsEarned`); flushed and still to be flushed make the request (`WorkIsWhole`);
  a staged line is true (`StagedIsTrue`). `Settled` is what commits make of it.
  `RefusalsAreComplete` is about the list a refusal leaves (`rules/engine.py:13-18`): all that is not met is
  on it at once, and what is on it without being unmet is there for another reason on it.
  `KernelSavesNeverDeadlock` (and `SomebodyAlwaysGoesOn`, for any order): under `SavesInOrder(after)`
  for a well-founded `after`, somebody is always at work. What a session has flushed comes before what it has
  still to flush (`FlushedInOrder`); so a session that waits holds only rows earlier than the one it
  waits for, and the last of the rows waited for is held by a session that does not wait
  (`NoCircleOfWaiting`). The Kernel saves a plan before its Feature (`core/kernel.py:298-299`); TLC
  evaluates this of the requests of the instance (`KernelsOrder`). `UnitsApproachTheirEnd` and
  `UnitsRunOutOfWork`: every step of a session takes it to a later one of five places or leaves it
  fewer things to do there, counted, and no other session's step gives it more.
* **`EngineeringProcessProofs`**. The conclusion neither kernel can draw alone.
  `AcceptedFeaturesAreEngineered`: an ACCEPTED Feature has a Final Pass and its evidence, and each
  Task of it was approved and passed at the very Revision it has, reviewed by somebody capable who
  wrote none of it, upon prerequisites accepted themselves. `AcceptedFeaturesRest` and
  `ValidatedFeaturesRest`: nothing moves under an ACCEPTED Feature, and no implementation Task
  under one in validation, although Tasks are never locked by the Feature's operations.
  `WorkComesAfterTheStart`, `PrerequisitesAreThere`, `AcceptedFeaturesAreBackend` (section 5). The invariant is
  `ProcessInv`: `TasksInv` (a Task not opened is untouched, none is opened before the start, a plan
  is opened whole), `WorkInv` (what each status was earned with is still so), `CertificateInv` (what the
  Feature was validated or accepted on is still so; inductive because ACCEPTED is the last status of a
  Task and whatever adds Tasks leaves the Feature IN_PROGRESS). `SomeTaskAlwaysCanGoOn`: there is always a
  Task to work on until all are ACCEPTED, so dependencies never block a Feature for good. Its
  hypothesis is that the definitions are well-founded by `depends_on`, which `FeaturePlan` validates
  (`domain/plan.py:75-80`) of finite plans. `TheFeatureIsKept`: the Feature side promises in the
  composition what it promises alone. The one thing `AtomicFeature` assumes of its environment,
  that Tasks are only ever accepted, is discharged by `AtomicTasks`. `TasksAreAddedNew` is what the
  Task side assumes of its beginning: a Task an activation adds has no Worker, Reviewer, Revision,
  package, approval or report.

**Model-checked only.** The two liveness properties, `EveryEventIsReached` and
`EveryUnitEnds`: liveness under fairness is beyond the prover. Of the second only that last step is
missing, from `SomebodyGoesOn` and `StepsLeaveLess` under weak fairness to an end; of the first,
`NoWakeupIsEverLost` is the safety half. That the registry and the graphs pass the
checks made of them at import is evaluated by TLC (they are constants). No module declares
a RECURSIVE operator.

## 5. Where the code and its documents disagree

With a run whose counterexample shows it:

1. `qa_round_stamp`. `record_qa_report` stamps the round current at *recording*
   (`core/kernel.py:364`); `core/kernel.py:353-357` and `domain/qa.py:86-91` promise that a
   report stays in the round it was written for. A Final Pass of round 1 can certify round 2.
2. `qa_round_advance`. `return_for_rework` checks only the target, IN_PROGRESS, so it also
   *starts* a PLANNED Feature, in round 2; `transition_feature` walks the rework edge without
   advancing the round, and so does `activate_plan` of a Feature in validation (`core/kernel.py:244-246, 262`, `domain/feature.py:69-71`).
3. `late_defect`. A defect recorded after the acceptance has read the reports does not stop
   it: the two save no common row (`core/context_loader.py:87`; ADR-003:280).
4. `event_gap`. Two writers that commit in the opposite order of their numbers lose the
   smaller one (`events/listener.py:137`, against line 22: "no event is lost").
   `OnlyLateEventsAreSkipped` says that this is the only way to lose one.
5. `review_by_anyone`. An approval by any actor lets the Task into QA
   (`rules/verification.py:60`, against 61: "approved by its Reviewer").

In the models, without a run of their own:

* `transition_feature` starts a Feature with no Task instantiated: TASKS_INSTANTIATED has no
  rule and the runner does not assert it (`rules/registry.py:222-226`).
* `activate_plan` accepts the identifier of a plan in any status, if the newest live plan is
  READY or ACTIVE, and of a Feature in validation whatever its plans are: the Tasks of a
  second plan then join those of the first, though "activates a READY Plan" and "the Feature
  moves PLANNED -> IN_PROGRESS" is what it says of itself (`core/kernel.py:278-307`). This
  is why `OnePlanUntilValidation` ends where it does.
* REVISION_REQUIRED returns to IN_PROGRESS without a new Revision (`state/task_sm.py:129-135`),
  and Evidence of any Revision counts (`rules/evidence.py:58`): rejected work can be
  submitted again as it is.
* A Task is accepted with its Work Package still DRAFT (`state/work_package_sm.py:3-24`).
* Work starts under a superseded plan: only the edges into READY look at it
  (`rules/planning.py:160-174`).
* A dropped LISTEN is not noticed while the pump waits (`events/listener.py:143-147`); a
  reconnect that raises ends the pump, and `stop` then raises its exception
  (`events/listener.py:113-120, 153`).
* Some attempts leave no line, against "every evaluated attempt is recorded"
  (`domain/event.py:140`): PLAN_IS_READY raises IndexError with no live plan
  (`rules/planning.py:143`), as its prerequisite FEATURE_PLAN_ATTACHED is not among the conditions of its
  edge and a prerequisite that was not asked for does not block (`rules/engine.py:19-20`);
  a fact is missing; `apply` raises (`core/runner.py:152`); the initiator has no identifier.
  In `TransitionRunner` each of them is a disjunct of `Raise`.
* A commit that takes effect and is not answered leaves ALLOWED rows and line behind an
  exception, against "no durable outcome" (`core/runner.py:138-140`). `OutcomesAreWhole` is
  what still holds: rows and line together, whatever the caller was told.
* A domain object carries no version: one read in an earlier Unit of Work and saved in a
  later one, which has loaded the row itself, overwrites what came between. No code in
  `ai_engineering_os` does it, so `NothingIsLost` is about rows read and saved in one Unit of Work.
* A reconciling activation drops dependency edges to Tasks that already exist
  (`core/kernel.py:377-388`). `ImplementsAtomicFeature` shows that the Kernel itself never
  finds a plan instantiated in part, so this needs a caller that adds Tasks on its own.
  Dependencies are a constant of `TaskKernel`.
* A Feature with a Task of capability QA can never be ACCEPTED, nor one with a FRONTEND Task be
  validated: there is a standard of evidence for BACKEND alone, and any other submission is refused
  (`rules/evidence.py:35-52`; `Implementation-Blueprint.md:1076` lists it as unresolved).
  `OnlyBackendIsAccepted` is this consequence, over both sides of the Kernel.
* ACCEPTED is the last status of a Task, so a rework reopens no accepted Task: only another plan
  adds work to the Feature, though `rules/acceptance.py:153` speaks of "work that has since changed".
* The evidence closure of a Feature transition has no Work Package evidence, since the loader
  resolves Revisions only for a Task (`core/context_loader.py`, `rules/evidence.py:152-154`).

## 6. Not modelled

Row mappers, table definitions and migrations; the FastAPI entry point, settings and the
static prototype. Decision Records and Acknowledgements: entities with no kernel operation.
Codes, messages and details of rules and refusals: the reasons of a line are conditions.
Isolation below READ COMMITTED's statement level. Deadlocks of the database between callers
that save the same rows in opposite orders: under one order there are none
(`KernelSavesNeverDeadlock`), the Kernel has one, no caller in the repository has another, and
PostgreSQL would end one by an error, which is `Abandon`.

Six hazards have no property, because the code does not protect against them and no
invariant could say so: a plan superseded after a Task became READY (`rules/planning.py:174`),
a Work Package that stays editable until acceptance (`state/work_package_sm.py:24`), an
actor deactivated between reading and commit (`core/kernel.py:119`), an activation of a plan in
any status (`core/kernel.py:298`), a LISTEN that drops unnoticed (`events/listener.py:146`), and a
reconnect that fails (`events/listener.py:153`). The models contain all six.

## 7. Plan

All modules of the plan are written: the kernels and their composition, the runner with its engine
and Units of Work, the event stream, the four abstract specifications, the runs and the proofs. What is left:

1. The events the runner stages, as the input of `EventStream`: `AtomicStore` appends lines
   at one instant, and `EventStream` starts from there with numbers given at INSERT.
2. More edges of the domain: Decision Records and Acknowledgements, once the Kernel has
   operations for them.
