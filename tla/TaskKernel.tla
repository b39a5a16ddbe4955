----------------------------- MODULE TaskKernel -----------------------------
(***************************************************************************)
(* The Task side of the OS Kernel (core/kernel.py): transition_task,       *)
(* assign_task and route_for_review, run by concurrent Units of Work, next *)
(* to what callers write through the repositories: Revisions with their    *)
(* Work Packages, Evidence, Review Decisions and QA Reports.               *)
(*                                                                         *)
(* A Unit of Work loads the Task, runs the context loader's SELECTs, then  *)
(* judges and commits, under READ COMMITTED: what it has read may be old   *)
(* by then, except the Task row, whose UPDATE matches the loaded version   *)
(* (FeatureKernel says more of this scheme).                               *)
(*                                                                         *)
(* Abstracted: the Feature (all Tasks are of one), titles and timestamps,  *)
(* Worker Evidence on Work Packages (no rule counts it), event rows, QA    *)
(* Reports on no Revision, the QA round stamp (FeatureKernel), and every   *)
(* Work Package status after SUBMITTED, which no code sets.                *)
(***************************************************************************)
EXTENDS Integers, Sequences, FiniteSets, Lifecycle

CONSTANTS
  Session,       \* concurrent Units of Work
  Task,          \* the Feature's Tasks, instantiated from one plan
  Dependencies,  \* [Task -> SUBSET Task]: the prerequisite edges
  Backend,       \* the Tasks of capability BACKEND: no other has an evidence standard
  Actor,         \* an actor is its identifier, and routing prefers the lowest
  Role,          \* [Actor -> Initiator]: the actors' roles
  Capable,       \* [Task -> SUBSET Actor]: who declares the Task's capability
  Handover,      \* what a caller may hand over: [author, package, content, evidence]
  Drafts,        \* the contents a caller may give a draft afterwards
  Edits,         \* which other changes may come after it: "submit", "attach"
  Verdict,       \* the Review Decisions an actor may record: [by, approved]
  ReportKind,    \* the QA Reports an actor may record, as Outcomes
  Leaving,       \* the actors who may be deactivated
  PlanMayEnd,    \* whether the Coordinator may supersede the plan
  MaxRevision,   \* bound on the Revisions of a Task
  MaxLedger,     \* bound on the ALLOWED lines of a Task
  MaxReports     \* bound on QA Reports, and the instants they may be dated at

SystemEvidenceType == {"GIT_DIFF", "TEST_OUTPUT", "API_RESPONSE"}
Content            == {"claims", "guide"}

(* A Work Package cannot be SUBMITTED without claims and guide.            *)
Packed(p) == p.package = "SUBMITTED" => p.content = Content

Parcel     == {h \in [author : Actor, package : {"NONE", "DRAFT", "SUBMITTED"},
                      content : SUBSET Content, evidence : SUBSET SystemEvidenceType] : Packed(h)}
Opinion    == [by : Actor, approved : BOOLEAN]

(* Of the Evidence on a report: its SYSTEM records, of the types that count *)
(* towards the standard, and whether anybody attached TEST_OUTPUT to it.   *)
Outcome    == {k \in [passed : BOOLEAN, tests : BOOLEAN, output : BOOLEAN,
                       evidence : SUBSET SystemEvidenceType] :
                 "TEST_OUTPUT" \in k.evidence => k.output}

ASSUME TaskKernelAssumption ==
  /\ Task # {}
  /\ Dependencies \in [Task -> SUBSET Task]
  /\ \A t \in Task : t \notin Dependencies[t]
  /\ Backend \subseteq Task
  /\ Actor \subseteq Nat \ {0}
  /\ Role \in [Actor -> Initiator]
  /\ Capable \in [Task -> SUBSET Actor]
  /\ Handover \subseteq Parcel
  /\ Drafts \subseteq SUBSET Content /\ Edits \subseteq {"submit", "attach"}
  /\ Verdict \subseteq Opinion /\ ReportKind \subseteq Outcome
  /\ Leaving \subseteq Actor /\ PlanMayEnd \in BOOLEAN
  /\ MaxRevision \in Nat /\ MaxLedger \in Nat /\ MaxReports \in Nat

VARIABLES
  task,       \* the tasks rows
  work,       \* per Task, its task_revisions rows with their Work Packages
  evidence,   \* SYSTEM Evidence on Work Packages: <<task, revision, type>>
  decisions,  \* the review_decisions rows
  reports,    \* the qa_reports rows against a Revision
  plan,       \* the status of the plan the Tasks came from
  active,     \* the actors whose row says is_active
  ledger,     \* per Task, the ALLOWED lines of state_transition_audit
  refused,    \* whether a REJECTED line has been appended since the last of them
  pc,         \* where each Unit of Work is
  about,      \* the Task it is about
  seen,       \* that Task's row as it was loaded
  judged,     \* the Task the rules are given: seen, or seen as routed
  facts       \* what the context loader read

vars == <<task, work, evidence, decisions, reports, plan, active, ledger, refused,
          pc, about, seen, judged, facts>>

records  == <<work, evidence, decisions, reports>>
others   == <<plan, active>>
history  == <<ledger, refused>>
sessions == <<pc, about, seen, judged, facts>>

NoActor == 0

TaskRow  == [status : TaskStatus, worker : Actor \cup {NoActor},
             reviewer : Actor \cup {NoActor}, revision : Nat, version : Nat \ {0}]
Revision == {r \in [number : Nat \ {0}, author : Actor,
                    package : {"NONE", "DRAFT", "SUBMITTED"}, content : SUBSET Content] : Packed(r)}
Mark     == Task \X Nat \X SystemEvidenceType
Decision == [task : Task, revision : Nat, by : Actor, approved : BOOLEAN]
QAReport == [task : Task, revision : Nat, at : Nat, kind : ReportKind]
Line     == [from : TaskStatus, to : TaskStatus]
Facts    == [work : Seq(Revision), evidence : SUBSET Mark, decisions : SUBSET Decision,
             reports : SUBSET QAReport, plan : PlanStatus, accepted : SUBSET Task,
             active : SUBSET Actor, candidates : SUBSET Actor]

NewTask == [status |-> "CREATED", worker |-> NoActor, reviewer |-> NoActor,
            revision |-> 0, version |-> 1]
NoFacts == [work |-> <<>>, evidence |-> {}, decisions |-> {}, reports |-> {},
            plan |-> "ACTIVE", accepted |-> {}, active |-> {}, candidates |-> {}]

AnyTask == CHOOSE t \in Task : TRUE

Rows(rows) == {rows[i] : i \in 1..Len(rows)}

----------------------------------------------------------------------------
(* The validators of domain/task.py: a Task that breaks one cannot be      *)
(* built, so the operation that would build it raises and rolls back.      *)

Unassigned       == {"CREATED", "PENDING_DEPENDENCIES", "READY"}
RevisionRequired == {"SUBMITTED", "IN_REVIEW", "IN_QA", "REVISION_REQUIRED", "ACCEPTED"}
ReviewerRequired == RevisionRequired \ {"SUBMITTED"}

Constructible(t, row) ==
  /\ row.status = "PENDING_DEPENDENCIES" => Dependencies[t] # {}
  /\ row.status \in Unassigned <=> row.worker = NoActor
  /\ row.status \in Unassigned => row.reviewer = NoActor
  /\ row.status \in ReviewerRequired => row.reviewer # NoActor
  /\ row.worker # NoActor => row.reviewer # row.worker
  /\ row.status \in RevisionRequired => row.revision >= 1

(* A history with a number missing or taken twice cannot be built either:  *)
(* nothing can be done to its Task any more.                               *)
Readable(rows) == \A i \in 1..Len(rows) : rows[i].number = i

AssignedWorkerOnly(row, rows) == {row.worker} \ {NoActor}  \* wrong: forgets authors

(* Who performed the work: the assigned Worker and every Revision's author. *)
WorkAuthors(row, rows) == {r.author : r \in Rows(rows)} \cup ({row.worker} \ {NoActor})

ActiveReviewers == {a \in active : Role[a] = Reviewer}

CanReview(t, a) == a \in Capable[t]

EligibleReviewers(t, row, candidates, rows) ==
  {a \in candidates : CanReview(t, a) /\ a \notin WorkAuthors(row, rows)}

----------------------------------------------------------------------------
(* What the rules say of the judged Task j (about t) on the facts x.       *)

AnyRevision(j, rows) == Rows(rows)               \* wrong: not the active one

ActiveRevision(j, rows) == {r \in Rows(rows) : r.number = j.revision}

DependenciesKnown(t, x) == Dependencies[t] \subseteq Task  \* wrong: resolving is enough

DependenciesAccepted(t, x) == Dependencies[t] \subseteq x.accepted

ReviewerAssigned(t, j, x) ==
  /\ j.reviewer \in x.candidates
  /\ CanReview(t, j.reviewer)
  /\ j.reviewer \notin WorkAuthors(j, x.work)

WorkPackage(j, x) == {r \in ActiveRevision(j, x.work) : r.package # "NONE"}

(* Evidence of every Revision counts, and of every QA Report.              *)
SystemEvidence(t, x) ==
  /\ t \in Backend
  /\ SystemEvidenceType \subseteq
       {m[3] : m \in x.evidence} \cup UNION {r.kind.evidence : r \in x.reports}

DecisionsOn(t, j, x) ==
  {d \in x.decisions : d.task = t /\ \E r \in ActiveRevision(j, x.work) : d.revision = r.number}

ReportsOn(t, j, x) ==
  {q \in x.reports : q.task = t /\ \E r \in ActiveRevision(j, x.work) : q.revision = r.number}

(* wrong: the report dated last                                            *)
LatestReportPassed(t, j, x) ==
  \E q \in ReportsOn(t, j, x) :
    /\ \A p \in ReportsOn(t, j, x) : p.at <= q.at
    /\ q.kind.passed

(* Of several reports on a Revision the rules take the one dated first.    *)
QAReportPassed(t, j, x) ==
  \E q \in ReportsOn(t, j, x) :
    /\ \A p \in ReportsOn(t, j, x) : q.at <= p.at
    /\ q.kind.passed

TestExecutionEvidence(t, j, x) ==
  \E q \in ReportsOn(t, j, x) :
    /\ \A p \in ReportsOn(t, j, x) : q.at <= p.at
    /\ q.kind.tests /\ q.kind.output

(* RuleEngine.evaluate over the conditions a Task edge can request; a is   *)
(* the actor supplied: the requester, or the candidate Worker.             *)
RulesPass(conditions, t, j, x, a) ==
  /\ "DEPENDENCIES_ACCEPTED" \in conditions => DependenciesAccepted(t, x)
  /\ "ORIGINATING_PLAN_ACTIVE" \in conditions => x.plan = "ACTIVE"
  /\ "WORKER_IS_ACTIVE" \in conditions => a \in x.active /\ Role[a] = Worker
  /\ "WORKER_CAPABILITY_MATCHES" \in conditions => a \in Capable[t]
  /\ "REQUESTER_IS_ASSIGNED_WORKER" \in conditions => a = j.worker
  /\ "WORK_PACKAGE_PRESENT" \in conditions => WorkPackage(j, x) # {}
  /\ "CLAIMS_DEFINED" \in conditions => \E r \in WorkPackage(j, x) : "claims" \in r.content
  /\ "VERIFICATION_GUIDE_PRESENT" \in conditions =>
       \E r \in WorkPackage(j, x) : "guide" \in r.content
  /\ "MANDATORY_SYSTEM_EVIDENCE_ATTACHED" \in conditions => SystemEvidence(t, x)
  /\ "REVIEWER_ASSIGNED" \in conditions => ReviewerAssigned(t, j, x)
  /\ "REVIEW_DECISION_APPROVED" \in conditions => \E d \in DecisionsOn(t, j, x) : d.approved
  /\ "QA_REPORT_PASSED" \in conditions => QAReportPassed(t, j, x)
  /\ "TEST_EXECUTION_EVIDENCE_PRESENT" \in conditions => TestExecutionEvidence(t, j, x)

Permits(s, to, by, a) ==
  /\ MachineAllows(TaskEdges, seen[s].status, to, by)
  /\ RulesPass(Judged(TaskEdges, seen[s].status, to), about[s], judged[s], facts[s], a)

----------------------------------------------------------------------------
Init ==
  /\ task = [t \in Task |-> NewTask]
  /\ work = [t \in Task |-> <<>>]
  /\ evidence = {} /\ decisions = {} /\ reports = {}
  /\ plan = "ACTIVE"
  /\ active = Actor
  /\ ledger = [t \in Task |-> <<>>]
  /\ refused = FALSE
  /\ pc = [s \in Session |-> "idle"]
  /\ about = [s \in Session |-> AnyTask]
  /\ seen = [s \in Session |-> NewTask]
  /\ judged = [s \in Session |-> NewTask]
  /\ facts = [s \in Session |-> NoFacts]

(* The Unit of Work of s is over: nothing it loaded outlives it.           *)
Close(s) ==
  /\ pc' = [pc EXCEPT ![s] = "idle"]
  /\ about' = [about EXCEPT ![s] = AnyTask]
  /\ seen' = [seen EXCEPT ![s] = NewTask]
  /\ judged' = [judged EXCEPT ![s] = NewTask]
  /\ facts' = [facts EXCEPT ![s] = NoFacts]

(* Leaving the session without a commit: an exception, or a crash.         *)
Rollback(s) ==
  /\ pc[s] # "idle"
  /\ Close(s)
  /\ UNCHANGED <<task, records, others, history>>

(* Every operation starts with tasks.get_by_id.                            *)
OpenTask(s, t) ==
  /\ pc[s] = "idle"
  /\ pc' = [pc EXCEPT ![s] = "loaded"]
  /\ about' = [about EXCEPT ![s] = t]
  /\ seen' = [seen EXCEPT ![s] = task[t]]
  /\ judged' = [judged EXCEPT ![s] = task[t]]
  /\ UNCHANGED <<task, records, others, history, facts>>

(* route_for_review reads the history and the active Reviewers, and builds *)
(* the Task as routed to the lowest eligible identifier, if there is one.  *)
SelectReviewer(s) ==
  LET t == about[s]
      eligible == EligibleReviewers(t, seen[s], ActiveReviewers, work[t])
      lowest == CHOOSE a \in eligible : \A b \in eligible : a <= b
      routed == [seen[s] EXCEPT !.status = "IN_REVIEW", !.reviewer = lowest]
  IN /\ pc[s] = "loaded"
     /\ Readable(work[t])
     /\ eligible # {} => Constructible(t, routed)
     /\ pc' = [pc EXCEPT ![s] = "routed"]
     /\ judged' = IF eligible = {} THEN judged ELSE [judged EXCEPT ![s] = routed]
     /\ facts' = [facts EXCEPT ![s].candidates = ActiveReviewers]
     /\ UNCHANGED <<task, records, others, history, about, seen>>

(* load_rule_context's SELECTs, in its order: the candidate Worker's row   *)
(* and the Revisions with their Work Packages and Decisions, ...           *)
LoadWork(s) ==
  LET t == about[s]
  IN /\ pc[s] \in {"loaded", "routed"}
     /\ Readable(work[t])
     /\ pc' = [pc EXCEPT ![s] = IF @ = "routed" THEN "routing" ELSE "work"]
     /\ facts' = [facts EXCEPT ![s] =
          [@ EXCEPT !.work = work[t], !.decisions = {d \in decisions : d.task = t},
                    !.active = active]]
     /\ UNCHANGED <<task, records, others, history, about, seen, judged>>

(* ... then the Feature's Tasks, plan and QA Reports, the active Reviewers *)
(* unless the router supplied them, and the Evidence.                      *)
LoadFeature(s) ==
  /\ pc[s] \in {"work", "routing"}
  /\ pc' = [pc EXCEPT ![s] = IF @ = "routing" THEN "judging route" ELSE "judging"]
  /\ facts' = [facts EXCEPT ![s] =
       [@ EXCEPT !.accepted = {t \in Task : task[t].status = "ACCEPTED"},
                 !.plan = plan,
                 !.reports = reports,
                 !.evidence = {m \in evidence : m[1] = about[s] /\ m[2] <= Len(facts[s].work)},
                 !.candidates =
                   IF pc[s] = "routing" THEN facts[s].candidates ELSE ActiveReviewers]]
  /\ UNCHANGED <<task, records, others, history, about, seen, judged>>

(* The statuses somebody may be granted on what s has loaded.              *)
Permitted(s) ==
  {to \in TaskStatus :
     /\ Defines(TaskEdges, seen[s].status, to)
     /\ \E by \in Initiator, a \in Actor : Permits(s, to, by, a)}

RoutingPermitted(s) == \E a \in Actor : Permits(s, "IN_REVIEW", OS, a)

(* The runner refuses: the REJECTED line is all that is committed.  There  *)
(* is always something to refuse, but the router asks only for IN_REVIEW,  *)
(* as the OS.                                                              *)
Refuse(s) ==
  /\ pc[s] = "judging" \/ (pc[s] = "judging route" /\ ~RoutingPermitted(s))
  /\ refused' = TRUE
  /\ Close(s)
  /\ UNCHANGED <<task, records, others, ledger>>

----------------------------------------------------------------------------
SameRevision(row) == row.revision                \* wrong: a Revision is not incremented

NextRevision(row) == row.revision + 1

TaskIsNeverStale(s) == TRUE                      \* wrong: no version match

(* The version an UPDATE of the tasks row matches on is the loaded one.    *)
TaskIsFresh(s) == task[about[s]].version = seen[s].version

SaveTask(s, row) ==
  /\ TaskIsFresh(s)
  /\ Constructible(about[s], row)
  /\ task' = [task EXCEPT ![about[s]] = [row EXCEPT !.version = task[about[s]].version + 1]]

(* The runner applies, and appends the ALLOWED line in the same commit.    *)
Allow(s, row) ==
  /\ Len(ledger[about[s]]) < MaxLedger
  /\ SaveTask(s, row)
  /\ ledger' = [ledger EXCEPT ![about[s]] =
       Append(@, [from |-> seen[s].status, to |-> row.status])]
  /\ refused' = FALSE
  /\ Close(s)
  /\ UNCHANGED <<records, others>>

(* transition_task, permitted: a change of status and of nothing else.     *)
CommitTransition(s) ==
  /\ pc[s] = "judging"
  /\ \E to \in Permitted(s) : Allow(s, [seen[s] EXCEPT !.status = to])

(* assign_task, permitted.                                                 *)
CommitAssignment(s) ==
  /\ pc[s] = "judging"
  /\ \E a \in Actor :
       /\ Permits(s, "ASSIGNED", Coordinator, a)
       /\ Allow(s, [seen[s] EXCEPT !.status = "ASSIGNED", !.worker = a])

(* route_for_review, permitted: the Task judged is the Task saved.         *)
CommitRouting(s) ==
  /\ pc[s] = "judging route"
  /\ RoutingPermitted(s)
  /\ Allow(s, judged[s])

----------------------------------------------------------------------------
(* What callers write through the repositories.  No code outside the tests *)
(* does it yet; they are assumed to keep, as those tests do, the Revision, *)
(* its Work Package and Evidence, and the active-revision pointer in one   *)
(* Unit of Work, to hand over only while the Worker holds the Task, and to *)
(* number Revisions one by one (with_active_revision itself only asks for  *)
(* a greater number, in any status).  No schema makes numbers unique.      *)

CommitHandover(s) ==
  LET t == about[s]
      n == NextRevision(seen[s])
  IN /\ pc[s] = "loaded"
     /\ seen[s].status \in {"ASSIGNED", "IN_PROGRESS", "REVISION_REQUIRED"}
     /\ Len(work[t]) < MaxRevision
     /\ SaveTask(s, [seen[s] EXCEPT !.revision = n])
     /\ \E h \in Handover :
          /\ work' = [work EXCEPT ![t] =
               Append(@, [number |-> n, author |-> h.author,
                          package |-> h.package, content |-> h.content])]
          /\ evidence' = evidence \cup
               (IF h.package = "NONE" THEN {} ELSE {<<t, n, e>> : e \in h.evidence})
     /\ Close(s)
     /\ UNCHANGED <<decisions, reports, others, history>>

(* WorkPackageRepository.save: the content of a DRAFT may change, ...      *)
RevisePackage(t, n) ==
  /\ work[t][n].package = "DRAFT"
  /\ \E c \in Drafts : work' = [work EXCEPT ![t][n].content = c]
  /\ UNCHANGED <<task, evidence, decisions, reports, others, history, sessions>>

(* ... and a complete one may be submitted.                                *)
SubmitPackage(t, n) ==
  /\ "submit" \in Edits
  /\ work[t][n].package = "DRAFT" /\ work[t][n].content = Content
  /\ work' = [work EXCEPT ![t][n].package = "SUBMITTED"]
  /\ UNCHANGED <<task, evidence, decisions, reports, others, history, sessions>>

AttachEvidence(t, n) ==
  /\ "attach" \in Edits
  /\ work[t][n].package # "NONE"
  /\ \E e \in SystemEvidenceType : evidence' = evidence \cup {<<t, n, e>>}
  /\ UNCHANGED <<task, work, decisions, reports, others, history, sessions>>

RecordDecision(t, n) ==
  /\ \E v \in Verdict :
       decisions' = decisions \cup
         {[task |-> t, revision |-> n, by |-> v.by, approved |-> v.approved]}
  /\ UNCHANGED <<task, work, evidence, reports, others, history, sessions>>

(* A report is dated when it is written and may be recorded much later, so *)
(* reports are not recorded in the order of their dates.                   *)
RecordReport(t, n) ==
  /\ \E at \in 1..MaxReports, k \in ReportKind :
       /\ \A q \in reports : q.at # at
       /\ reports' = reports \cup {[task |-> t, revision |-> n, at |-> at, kind |-> k]}
  /\ UNCHANGED <<task, work, evidence, decisions, others, history, sessions>>

Deactivate(a) ==
  /\ a \in active
  /\ active' = active \ {a}
  /\ UNCHANGED <<task, records, plan, history, sessions>>

SupersedePlan ==
  /\ PlanMayEnd /\ plan = "ACTIVE"
  /\ plan' = "SUPERSEDED"
  /\ UNCHANGED <<task, records, active, history, sessions>>

Next ==
  \/ \E s \in Session :
       \/ \E t \in Task : OpenTask(s, t)
       \/ SelectReviewer(s) \/ LoadWork(s) \/ LoadFeature(s)
       \/ Refuse(s) \/ CommitTransition(s) \/ CommitAssignment(s) \/ CommitRouting(s)
       \/ CommitHandover(s)
       \/ Rollback(s)
  \/ \E t \in Task : \E n \in 1..Len(work[t]) :
       \/ RevisePackage(t, n) \/ SubmitPackage(t, n) \/ AttachEvidence(t, n)
       \/ RecordDecision(t, n) \/ RecordReport(t, n)
  \/ \E a \in Leaving : Deactivate(a)
  \/ SupersedePlan

Spec == Init /\ [][Next]_vars

----------------------------------------------------------------------------
TypeOK ==
  /\ task \in [Task -> TaskRow]
  /\ work \in [Task -> Seq(Revision)]
  /\ evidence \subseteq Mark
  /\ decisions \subseteq Decision
  /\ reports \subseteq QAReport
  /\ plan \in PlanStatus
  /\ active \subseteq Actor
  /\ ledger \in [Task -> Seq(Line)]
  /\ refused \in BOOLEAN
  /\ pc \in [Session -> {"idle", "loaded", "routed", "work", "routing",
                         "judging", "judging route"}]
  /\ about \in [Session -> Task]
  /\ seen \in [Session -> TaskRow]
  /\ judged \in [Session -> TaskRow]
  /\ facts \in [Session -> Facts]
  /\ \A t \in Task : Constructible(t, task[t])

(* However handovers race, the Revisions of a Task count 1, 2, 3, ... up   *)
(* to its active-revision pointer: the history stays readable and its head *)
(* is what the pointer names, though no constraint makes numbers unique.   *)
HistoryAgreesWithPointer ==
  \A t \in Task : Readable(work[t]) /\ Len(work[t]) = task[t].revision

(* The ALLOWED lines of a Task form one unbroken walk of its graph from    *)
(* CREATED to its status: no transition is applied from a status that a    *)
(* concurrent Unit of Work had already left.                               *)
TaskLedgerIsAWalk ==
  \A t \in Task :
    LET path == ledger[t]
    IN /\ \A i \in 1..Len(path) :
            /\ path[i].from = IF i = 1 THEN NewTask.status ELSE path[i - 1].to
            /\ Defines(TaskEdges, path[i].from, path[i].to)
       /\ task[t].status = IF path = <<>> THEN NewTask.status ELSE path[Len(path)].to

(* ADR-001 as stored: the Reviewer of a Task under review or past it has   *)
(* no part in the work, whichever Revision it was, even one handed over    *)
(* while the router was choosing.                                          *)
ReviewerIsNoAuthor ==
  \A t \in Task :
    task[t].status \in {"IN_REVIEW", "IN_QA", "ACCEPTED"} =>
      /\ task[t].reviewer # task[t].worker
      /\ \A r \in Rows(work[t]) : r.author # task[t].reviewer

(* An ACCEPTED Task's verification stands on the Revision it ended with: a *)
(* Decision approves that very Revision, and a PASSED report of executed   *)
(* tests was recorded on it.  Two judgements, at different times, by Units *)
(* of Work that locked nothing.                                            *)
AcceptedIsVerified ==
  \A t \in Task :
    task[t].status = "ACCEPTED" =>
      /\ \E d \in decisions : d.task = t /\ d.revision = task[t].revision /\ d.approved
      /\ \E q \in reports :
           /\ q.task = t /\ q.revision = task[t].revision
           /\ q.kind.passed /\ q.kind.tests /\ q.kind.output

(* The report an acceptance rests on is the one dated first of those on    *)
(* the accepted Revision: one dated before it was not on record yet when   *)
(* the reports were read, whatever order they were recorded in.            *)
FirstReportDecides ==
  [][\A s \in Session :
       LET t == about[s]
       IN /\ pc[s] = "judging" /\ pc'[s] = "idle"
          /\ task[t].status # "ACCEPTED" /\ task'[t].status = "ACCEPTED"
          => \E q \in reports :
               /\ q.task = t /\ q.revision = task[t].revision /\ q.kind.passed
               /\ \A p \in reports :
                    p.task = t /\ p.revision = q.revision /\ p.at < q.at
                      => p \notin facts[s].reports]_vars

(* A submitted Task met its capability's standard: it is BACKEND (no other *)
(* standard is ruled), a record of each mandatory type is stored, on its   *)
(* own packages or a QA Report, and its active Revision has a Work         *)
(* Package, complete unless still a DRAFT, even when another Revision is   *)
(* handed over while the submission is judged.                             *)
SubmittedMeetsTheStandard ==
  \A t \in Task :
    task[t].status \in {"SUBMITTED", "IN_REVIEW", "IN_QA", "ACCEPTED"} =>
      /\ t \in Backend
      /\ SystemEvidenceType \subseteq {m[3] : m \in {e \in evidence : e[1] = t}}
                                  \cup UNION {q.kind.evidence : q \in reports}
      /\ \E r \in Rows(work[t]) :
           /\ r.number = task[t].revision
           /\ r.package = "DRAFT" \/ (r.package = "SUBMITTED" /\ r.content = Content)

(* No Task is ready, or past it, before all it depends on is ACCEPTED, and *)
(* what was ACCEPTED when it was read is still so.                         *)
ReadyAfterItsDependencies ==
  \A t \in Task :
    task[t].status \notin {"CREATED", "PENDING_DEPENDENCIES"} =>
      \A d \in Dependencies[t] : task[d].status = "ACCEPTED"

(* A Task is assigned to exactly one Worker: of two assignments of one     *)
(* READY Task one wins, and nothing after it takes the Task away.          *)
AssignedOnce ==
  [][\A t \in Task : task[t].worker # NoActor => task'[t].worker = task[t].worker]_vars

----------------------------------------------------------------------------
(* The rows alone, as AtomicTasks sees them.                               *)
Atomic == INSTANCE AtomicTasks WITH
  Mandatory <- SystemEvidenceType,
  status    <- [t \in Task |-> task[t].status],
  worker    <- [t \in Task |-> task[t].worker],
  reviewer  <- [t \in Task |-> task[t].reviewer],
  revision  <- [t \in Task |-> task[t].revision],
  authors   <- [t \in Task |-> {r.author : r \in Rows(work[t])}],
  packaged  <- [t \in Task |->
                 {r.number : r \in {x \in Rows(work[t]) : x.package # "NONE"}}],
  evidenced <- [t \in Task |-> {m[3] : m \in {e \in evidence : e[1] = t}}
                               \cup UNION {q.kind.evidence : q \in reports}],
  approved  <- {<<d.task, d.revision>> : d \in {x \in decisions : x.approved}},
  passed    <- {<<q.task, q.revision>> : q \in
                 {x \in reports : x.kind.passed /\ x.kind.tests /\ x.kind.output}}

(* Read by read and under no lock, the Kernel behaves as if every          *)
(* transition were judged on the stored rows in the instant it is saved.   *)
ImplementsAtomicTasks == Atomic!Spec

----------------------------------------------------------------------------
(* What the documentation says and the code does not do: the subject of a  *)
(* run that expects a violation.                                           *)

(* rules/verification.py: "Returns whether the active Revision was         *)
(* approved by its Reviewer".                                              *)
ApprovedByItsReviewer ==
  [][\A t \in Task :
       task[t].status = "IN_REVIEW" /\ task'[t].status = "IN_QA" =>
         \E d \in decisions : /\ d.task = t /\ d.revision = task[t].revision
                              /\ d.by = task[t].reviewer /\ d.approved]_vars
=============================================================================
