--------------------------- MODULE TaskKernelProofs ---------------------------
(***************************************************************************)
(* Of TaskKernel, for any Tasks, actors, prerequisites and Units of Work   *)
(* and any bounds: types, and what its optimistic locking and the rules    *)
(* keep true of the stored rows.                                           *)
(***************************************************************************)
EXTENDS TaskKernel, TLAPS, WellFoundedInduction

PCs == {"idle", "loaded", "routed", "work", "routing", "judging", "judging route"}

RowTypes ==
  /\ task \in [Task -> TaskRow]
  /\ work \in [Task -> Seq(Revision)]
  /\ evidence \subseteq Mark
  /\ decisions \subseteq Decision
  /\ reports \subseteq QAReport
  /\ plan \in PlanStatus
  /\ active \subseteq Actor
  /\ ledger \in [Task -> Seq(Line)]
  /\ refused \in BOOLEAN
  /\ \A t \in Task : Constructible(t, task[t])

SessionTypes ==
  /\ pc \in [Session -> PCs]
  /\ about \in [Session -> Task]
  /\ seen \in [Session -> TaskRow]
  /\ judged \in [Session -> TaskRow]
  /\ facts \in [Session -> Facts]

LEMMA TypeParts == TypeOK <=> RowTypes /\ SessionTypes
BY DEF TypeOK, RowTypes, SessionTypes, PCs

LEMMA Defaults ==
  /\ NewTask \in TaskRow /\ NoFacts \in Facts
  /\ \A t \in Task : Constructible(t, NewTask)
<1>1. NoActor = 0 /\ 0 \notin Actor
  BY TaskKernelAssumption DEF NoActor
<1>2. NewTask \in TaskRow
  BY DEF NewTask, TaskRow, TaskStatus
<1>3. NoFacts \in Facts
  BY DEF NoFacts, Facts, PlanStatus
<1>4. QED
  BY <1>2, <1>3 DEF NewTask, Constructible, Unassigned, ReviewerRequired, RevisionRequired

LEMMA AnyTaskIsATask == AnyTask \in Task
BY TaskKernelAssumption DEF AnyTask

LEMMA CloseTypes ==
  ASSUME SessionTypes, NEW s \in Session, Close(s)
  PROVE  SessionTypes'
BY AnyTaskIsATask, Defaults DEF SessionTypes, Close, PCs

LEMMA SaveTypes ==
  ASSUME RowTypes, SessionTypes, NEW s \in Session, NEW row \in TaskRow, SaveTask(s, row)
  PROVE  /\ task' \in [Task -> TaskRow]
         /\ \A t \in Task : Constructible(t, task'[t])
<1> DEFINE t == about[s]
           saved == [row EXCEPT !.version = task[t].version + 1]
<1>1. t \in Task /\ task[t] \in TaskRow
  BY DEF RowTypes, SessionTypes
<1>2. saved \in TaskRow
  BY <1>1 DEF TaskRow
<1>3. task' = [task EXCEPT ![t] = saved]
  BY DEF SaveTask
<1>4. Constructible(t, saved)
  BY DEF SaveTask, Constructible, TaskRow
<1>5. QED
  BY <1>1, <1>2, <1>3, <1>4 DEF RowTypes

LEMMA AllowTypes ==
  ASSUME RowTypes, SessionTypes, NEW s \in Session, NEW row \in TaskRow, Allow(s, row)
  PROVE  RowTypes' /\ SessionTypes'
<1>1. task' \in [Task -> TaskRow] /\ \A t \in Task : Constructible(t, task'[t])
  BY SaveTypes DEF Allow
<1>2. [from |-> seen[s].status, to |-> row.status] \in Line
  BY DEF SessionTypes, TaskRow, Line
<1>3. ledger' \in [Task -> Seq(Line)]
  BY <1>2 DEF Allow, RowTypes, SessionTypes
<1>4. SessionTypes'
  BY CloseTypes DEF Allow
<1>5. QED
  BY <1>1, <1>3, <1>4 DEF Allow, records, others, RowTypes

(* The router's choice exists: identifiers are numbers.                    *)
LEMMA LowestExists ==
  ASSUME NEW eligible \in SUBSET Actor, eligible # {}
  PROVE  (CHOOSE a \in eligible : \A b \in eligible : a <= b) \in eligible
<1> DEFINE Below == {p \in Nat \X Nat : p[1] < p[2]}
<1>1. eligible \subseteq Nat
  BY TaskKernelAssumption
<1>2. IsWellFoundedOn(Below, Nat)
  BY NatLessThanWellFounded DEF OpToRel
<1>3. \E a \in eligible : \A b \in eligible : ~ (<<b, a>> \in Below)
  <2> HIDE DEF Below
  <2>1. QED
    BY <1>1, <1>2, WFMin
<1>4. \A a, b \in Nat : ~ (<<b, a>> \in Below) => a <= b
  OBVIOUS
<1> HIDE DEF Below
<1>5. \E a \in eligible : \A b \in eligible : a <= b
  BY <1>1, <1>3, <1>4
<1>6. QED
  BY <1>5

LEMMA InitTypes == Init => TypeOK
<1> SUFFICES ASSUME Init PROVE RowTypes /\ SessionTypes
  BY TypeParts
<1>1. RowTypes
  <2>1. work \in [Task -> Seq(Revision)] /\ ledger \in [Task -> Seq(Line)]
    BY DEF Init
  <2>2. task \in [Task -> TaskRow] /\ \A t \in Task : Constructible(t, task[t])
    BY Defaults DEF Init
  <2>3. QED
    BY <2>1, <2>2 DEF Init, RowTypes, PlanStatus
<1>2. SessionTypes
  BY Defaults, AnyTaskIsATask DEF Init, SessionTypes, PCs
<1>3. QED
  BY <1>1, <1>2

LEMMA NextTypes == TypeOK /\ [Next]_vars => TypeOK'
<1> SUFFICES ASSUME TypeOK, [Next]_vars PROVE RowTypes' /\ SessionTypes'
  BY TypeParts DEF TypeOK, RowTypes, SessionTypes, PCs
<1>0. RowTypes /\ SessionTypes
  BY TypeParts
<1>1. ASSUME NEW s \in Session, NEW t \in Task, OpenTask(s, t) PROVE RowTypes' /\ SessionTypes'
  BY <1>0, <1>1 DEF OpenTask, records, others, history, RowTypes, SessionTypes, PCs
<1>2. ASSUME NEW s \in Session, SelectReviewer(s) PROVE RowTypes' /\ SessionTypes'
  <2> DEFINE t == about[s]
             eligible == EligibleReviewers(t, seen[s], ActiveReviewers, work[t])
             lowest == CHOOSE a \in eligible : \A b \in eligible : a <= b
             routed == [seen[s] EXCEPT !.status = "IN_REVIEW", !.reviewer = lowest]
  <2>1. ActiveReviewers \subseteq Actor
    BY <1>0 DEF RowTypes, ActiveReviewers
  <2>2. eligible \in SUBSET Actor
    BY <2>1 DEF EligibleReviewers
  <2>3. eligible # {} => routed \in TaskRow
    <3>1. eligible # {} => lowest \in Actor
      BY <2>2, LowestExists
    <3>2. seen[s] \in TaskRow
      BY <1>0 DEF SessionTypes
    <3> HIDE DEF lowest, eligible
    <3>3. QED
      BY <3>1, <3>2 DEF TaskRow, TaskStatus
  <2>4. judged' = IF eligible = {} THEN judged ELSE [judged EXCEPT ![s] = routed]
    BY <1>2 DEF SelectReviewer
  <2>5. judged' \in [Session -> TaskRow]
    <3> HIDE DEF routed, eligible
    <3>1. QED
      BY <1>0, <2>3, <2>4 DEF SessionTypes
  <2>6. facts' \in [Session -> Facts]
    BY <1>0, <1>2, <2>1 DEF SelectReviewer, SessionTypes, Facts
  <2>7. QED
    BY <1>0, <1>2, <2>5, <2>6 DEF SelectReviewer, records, others, history, RowTypes,
       SessionTypes, PCs
<1>3. ASSUME NEW s \in Session, LoadWork(s) PROVE RowTypes' /\ SessionTypes'
  <2>1. work[about[s]] \in Seq(Revision)
    BY <1>0 DEF RowTypes, SessionTypes
  <2>2. facts' \in [Session -> Facts]
    BY <1>0, <1>3, <2>1 DEF LoadWork, RowTypes, SessionTypes, Facts
  <2>3. QED
    BY <1>0, <1>3, <2>2 DEF LoadWork, records, others, history, RowTypes, SessionTypes, PCs
<1>4. ASSUME NEW s \in Session, LoadFeature(s) PROVE RowTypes' /\ SessionTypes'
  <2>1. ActiveReviewers \subseteq Actor
    BY <1>0 DEF RowTypes, ActiveReviewers
  <2> DEFINE accepted == {t \in Task : task[t].status = "ACCEPTED"}
             attached == {m \in evidence : m[1] = about[s] /\ m[2] <= Len(facts[s].work)}
             candidates == IF pc[s] = "routing" THEN facts[s].candidates ELSE ActiveReviewers
             read == [facts[s] EXCEPT !.accepted = accepted, !.plan = plan,
                                      !.reports = reports, !.evidence = attached,
                                      !.candidates = candidates]
  <2>2. facts' \in [Session -> Facts]
    <3>1. facts[s] \in Facts /\ facts \in [Session -> Facts]
      BY <1>0 DEF SessionTypes
    <3>2. /\ accepted \in SUBSET Task /\ plan \in PlanStatus
          /\ reports \in SUBSET QAReport /\ attached \in SUBSET Mark
      BY <1>0 DEF RowTypes
    <3>3. candidates \in SUBSET Actor
      BY <2>1, <3>1 DEF Facts
    <3>4. facts' = [facts EXCEPT ![s] = read]
      BY <1>4 DEF LoadFeature
    <3> HIDE DEF accepted, attached, candidates
    <3>5. read \in Facts
      BY <3>1, <3>2, <3>3 DEF Facts
    <3>6. QED
      BY <3>1, <3>4, <3>5
  <2>3. QED
    BY <1>0, <1>4, <2>2 DEF LoadFeature, records, others, history, RowTypes, SessionTypes, PCs
<1>5. ASSUME NEW s \in Session, Refuse(s) PROVE RowTypes' /\ SessionTypes'
  BY <1>0, <1>5, CloseTypes DEF Refuse, records, others, RowTypes
<1>6. ASSUME NEW s \in Session, CommitTransition(s) PROVE RowTypes' /\ SessionTypes'
  <2>1. PICK to \in TaskStatus : Allow(s, [seen[s] EXCEPT !.status = to])
    BY <1>6 DEF CommitTransition, Permitted
  <2>2. [seen[s] EXCEPT !.status = to] \in TaskRow
    BY <1>0 DEF SessionTypes, TaskRow
  <2>3. QED
    BY <1>0, <2>1, <2>2, AllowTypes
<1>7. ASSUME NEW s \in Session, CommitAssignment(s) PROVE RowTypes' /\ SessionTypes'
  <2>1. PICK a \in Actor : Allow(s, [seen[s] EXCEPT !.status = "ASSIGNED", !.worker = a])
    BY <1>7 DEF CommitAssignment
  <2>2. [seen[s] EXCEPT !.status = "ASSIGNED", !.worker = a] \in TaskRow
    BY <1>0 DEF SessionTypes, TaskRow, TaskStatus
  <2>3. QED
    BY <1>0, <2>1, <2>2, AllowTypes
<1>8. ASSUME NEW s \in Session, CommitRouting(s) PROVE RowTypes' /\ SessionTypes'
  <2>1. judged[s] \in TaskRow
    BY <1>0 DEF SessionTypes
  <2>2. QED
    BY <1>0, <1>8, <2>1, AllowTypes DEF CommitRouting
<1>9. ASSUME NEW s \in Session, CommitHandover(s) PROVE RowTypes' /\ SessionTypes'
  <2> DEFINE t == about[s]
             n == NextRevision(seen[s])
  <2>1. PICK h \in Handover :
          /\ work' = [work EXCEPT ![t] =
               Append(@, [number |-> n, author |-> h.author,
                          package |-> h.package, content |-> h.content])]
          /\ evidence' = evidence \cup
               (IF h.package = "NONE" THEN {} ELSE {<<t, n, e>> : e \in h.evidence})
    BY <1>9 DEF CommitHandover
  <2>2. h \in Parcel
    BY TaskKernelAssumption
  <2>3. n \in Nat \ {0} /\ t \in Task
    BY <1>0 DEF SessionTypes, TaskRow, NextRevision
  <2>4. [seen[s] EXCEPT !.revision = n] \in TaskRow
    BY <1>0, <2>3 DEF SessionTypes, TaskRow
  <2>5. task' \in [Task -> TaskRow] /\ \A u \in Task : Constructible(u, task'[u])
    BY <1>0, <1>9, <2>4, SaveTypes DEF CommitHandover
  <2>6. [number |-> n, author |-> h.author, package |-> h.package, content |-> h.content]
          \in Revision
    BY <2>2, <2>3 DEF Parcel, Revision, Packed
  <2>7. work' \in [Task -> Seq(Revision)]
    BY <1>0, <2>1, <2>3, <2>6 DEF RowTypes
  <2>8. evidence' \subseteq Mark
    BY <1>0, <2>1, <2>2, <2>3 DEF RowTypes, Mark, Parcel
  <2>9. SessionTypes'
    BY <1>0, <1>9, CloseTypes DEF CommitHandover
  <2>10. QED
    BY <1>0, <1>9, <2>5, <2>7, <2>8, <2>9 DEF CommitHandover, others, history, RowTypes
<1>10. ASSUME NEW s \in Session, Rollback(s) PROVE RowTypes' /\ SessionTypes'
  BY <1>0, <1>10, CloseTypes DEF Rollback, records, others, history, RowTypes
<1>11. ASSUME NEW t \in Task, NEW n \in 1..Len(work[t]), RevisePackage(t, n)
       PROVE  RowTypes' /\ SessionTypes'
  <2>1. PICK c \in Drafts : work' = [work EXCEPT ![t][n].content = c]
    BY <1>11 DEF RevisePackage
  <2>2. work[t] \in Seq(Revision) /\ work[t][n] \in Revision
    BY <1>0 DEF RowTypes
  <2>3. [work[t][n] EXCEPT !.content = c] \in Revision
    <3>1. c \subseteq Content /\ work[t][n].package = "DRAFT"
      BY <1>11, TaskKernelAssumption DEF RevisePackage
    <3>2. QED
      BY <2>2, <3>1 DEF Revision, Packed
  <2>4. work' \in [Task -> Seq(Revision)]
    BY <1>0, <2>1, <2>2, <2>3 DEF RowTypes
  <2>5. QED
    BY <1>0, <1>11, <2>4 DEF RevisePackage, others, history, sessions, RowTypes, SessionTypes
<1>12. ASSUME NEW t \in Task, NEW n \in 1..Len(work[t]), SubmitPackage(t, n)
       PROVE  RowTypes' /\ SessionTypes'
  <2>1. work' = [work EXCEPT ![t][n].package = "SUBMITTED"]
    BY <1>12 DEF SubmitPackage
  <2>2. work[t] \in Seq(Revision) /\ work[t][n] \in Revision
    BY <1>0 DEF RowTypes
  <2>3. [work[t][n] EXCEPT !.package = "SUBMITTED"] \in Revision
    BY <1>12, <2>2 DEF SubmitPackage, Revision, Packed
  <2>4. work' \in [Task -> Seq(Revision)]
    BY <1>0, <2>1, <2>2, <2>3 DEF RowTypes
  <2>5. QED
    BY <1>0, <1>12, <2>4 DEF SubmitPackage, others, history, sessions, RowTypes, SessionTypes
<1>13. ASSUME NEW t \in Task, NEW n \in 1..Len(work[t]), AttachEvidence(t, n)
       PROVE  RowTypes' /\ SessionTypes'
  <2>1. n \in Nat
    BY <1>0 DEF RowTypes
  <2>2. QED
    BY <1>0, <1>13, <2>1 DEF AttachEvidence, others, history, sessions, RowTypes,
       SessionTypes, Mark
<1>14. ASSUME NEW t \in Task, NEW n \in 1..Len(work[t]), RecordDecision(t, n)
       PROVE  RowTypes' /\ SessionTypes'
  <2>1. n \in Nat /\ Verdict \subseteq Opinion
    BY <1>0, TaskKernelAssumption DEF RowTypes
  <2>2. decisions' \subseteq Decision
    BY <1>0, <1>14, <2>1 DEF RecordDecision, RowTypes, Decision, Opinion
  <2>3. QED
    BY <1>0, <1>14, <2>2 DEF RecordDecision, others, history, sessions, RowTypes, SessionTypes
<1>15. ASSUME NEW t \in Task, NEW n \in 1..Len(work[t]), RecordReport(t, n)
       PROVE  RowTypes' /\ SessionTypes'
  <2>1. n \in Nat /\ \A at \in 1..MaxReports : at \in Nat
    BY <1>0, TaskKernelAssumption DEF RowTypes
  <2>2. reports' \subseteq QAReport
    BY <1>0, <1>15, <2>1 DEF RecordReport, RowTypes, QAReport
  <2>3. QED
    BY <1>0, <1>15, <2>2 DEF RecordReport, others, history, sessions, RowTypes, SessionTypes
<1>16. ASSUME NEW a \in Leaving, Deactivate(a) PROVE RowTypes' /\ SessionTypes'
  BY <1>0, <1>16 DEF Deactivate, records, history, sessions, RowTypes, SessionTypes
<1>17. CASE SupersedePlan
  BY <1>0, <1>17 DEF SupersedePlan, records, history, sessions, RowTypes, SessionTypes, PlanStatus
<1>18. CASE UNCHANGED vars
  BY <1>0, <1>18 DEF vars, RowTypes, SessionTypes
<1>19. QED
  BY <1>1, <1>2, <1>3, <1>4, <1>5, <1>6, <1>7, <1>8, <1>9, <1>10, <1>11, <1>12, <1>13,
     <1>14, <1>15, <1>16, <1>17, <1>18 DEF Next

(* Rows and Units of Work are well formed, and every stored Task could be  *)
(* built: domain/task.py's validators hold of it.                          *)
THEOREM TaskKernelTypes == Spec => []TypeOK
BY InitTypes, NextTypes, PTL DEF Spec

----------------------------------------------------------------------------
(* What a step does to a Unit of Work that is open after it, and to rows.  *)

Loaded(s) == pc[s] # "idle"

Kept(u) == /\ pc'[u] = pc[u] /\ about'[u] = about[u] /\ seen'[u] = seen[u]
           /\ judged'[u] = judged[u] /\ facts'[u] = facts[u]

Reads(u) == (\E t \in Task : OpenTask(u, t)) \/ SelectReviewer(u) \/ LoadWork(u) \/ LoadFeature(u)

(* Nothing else moves a Unit of Work on than its own reading.              *)
LEMMA SessionSteps ==
  ASSUME TypeOK, [Next]_vars, NEW u \in Session, Loaded(u)'
  PROVE  Kept(u) \/ Reads(u)
<1> USE DEF TypeOK, Loaded, Kept
<1>1. ASSUME NEW s \in Session, Close(s) PROVE Kept(u)
  BY <1>1 DEF Close
<1>2. ASSUME NEW s \in Session, NEW t \in Task, OpenTask(s, t) PROVE Kept(u) \/ Reads(u)
  BY <1>2 DEF OpenTask, Reads
<1>3. ASSUME NEW s \in Session, SelectReviewer(s) PROVE Kept(u) \/ Reads(u)
  <2>1. CASE s = u
    BY <1>3, <2>1 DEF Reads
  <2>2. CASE s # u
    <3>1. pc'[u] = pc[u] /\ facts'[u] = facts[u] /\ judged'[u] = judged[u]
      BY <1>3, <2>2 DEF SelectReviewer
    <3>2. QED
      BY <1>3, <3>1 DEF SelectReviewer
  <2>3. QED
    BY <2>1, <2>2
<1>4. ASSUME NEW s \in Session, LoadWork(s) PROVE Kept(u) \/ Reads(u)
  BY <1>4 DEF LoadWork, Reads
<1>5. ASSUME NEW s \in Session, LoadFeature(s) PROVE Kept(u) \/ Reads(u)
  BY <1>5 DEF LoadFeature, Reads
<1>6. ASSUME NEW s \in Session,
             \/ Refuse(s) \/ CommitTransition(s) \/ CommitAssignment(s) \/ CommitRouting(s)
             \/ CommitHandover(s) \/ Rollback(s)
      PROVE  Close(s)
  BY <1>6 DEF Refuse, CommitTransition, CommitAssignment, CommitRouting, CommitHandover,
     Rollback, Allow
<1>7. ASSUME NEW t \in Task, NEW n \in 1..Len(work[t]),
             \/ RevisePackage(t, n) \/ SubmitPackage(t, n) \/ AttachEvidence(t, n)
             \/ RecordDecision(t, n) \/ RecordReport(t, n)
      PROVE  Kept(u)
  BY <1>7 DEF RevisePackage, SubmitPackage, AttachEvidence, RecordDecision, RecordReport, sessions
<1>8. ASSUME SupersedePlan \/ \E a \in Leaving : Deactivate(a) PROVE Kept(u)
  BY <1>8 DEF SupersedePlan, Deactivate, sessions
<1>9. CASE UNCHANGED vars
  BY <1>9 DEF vars
<1>10. QED
  BY <1>1, <1>2, <1>3, <1>4, <1>5, <1>6, <1>7, <1>8, <1>9 DEF Next

LEMMA ReadingChangesNoRow ==
  ASSUME NEW u \in Session, Reads(u)
  PROVE  task' = task /\ UNCHANGED <<work, evidence, decisions, reports, ledger>>
BY DEF Reads, OpenTask, SelectReviewer, LoadWork, LoadFeature, records, history

(* Revisions are added, never removed; who wrote one does not change, and  *)
(* a Work Package does not go away.                                        *)
Extends(later, earlier) ==
  /\ Len(earlier) <= Len(later)
  /\ \A i \in 1..Len(earlier) :
       /\ later[i].number = earlier[i].number /\ later[i].author = earlier[i].author
       /\ earlier[i].package # "NONE" => later[i].package # "NONE"

LEMMA ExtendsIsReflexive == ASSUME NEW x \in Seq(Revision) PROVE Extends(x, x)
BY DEF Extends

LEMMA ExtendsIsTransitive ==
  ASSUME NEW x \in Seq(Revision), NEW y \in Seq(Revision), NEW z \in Seq(Revision),
         Extends(z, y), Extends(y, x)
  PROVE  Extends(z, x)
<1>1. Len(x) \in Nat /\ Len(y) \in Nat /\ Len(z) \in Nat
  OBVIOUS
<1>2. QED
  BY <1>1 DEF Extends

LEMMA ExtendsKeepsAuthors ==
  ASSUME NEW x \in Seq(Revision), NEW y \in Seq(Revision), Extends(y, x), NEW row
  PROVE  WorkAuthors(row, x) \subseteq WorkAuthors(row, y)
BY DEF Extends, WorkAuthors, Rows

LEMMA WorkSteps ==
  ASSUME TypeOK, [Next]_vars, NEW t \in Task
  PROVE  /\ Extends(work'[t], work[t])
         /\ \/ Len(work'[t]) = Len(work[t])
            \/ \E s \in Session : about[s] = t /\ CommitHandover(s)
<1> DEFINE Goal == /\ Extends(work'[t], work[t])
                   /\ \/ Len(work'[t]) = Len(work[t])
                      \/ \E s \in Session : about[s] = t /\ CommitHandover(s)
<1>1. work \in [Task -> Seq(Revision)] /\ work[t] \in Seq(Revision)
  BY DEF TypeOK
<1>2. ASSUME NEW s \in Session, CommitHandover(s) PROVE Goal
  <2>1. PICK r : work' = [work EXCEPT ![about[s]] = Append(@, r)]
    BY <1>2 DEF CommitHandover
  <2>2. CASE about[s] = t
    <3>1. work'[t] = Append(work[t], r)
      BY <1>1, <2>1, <2>2
    <3>2. /\ Len(work'[t]) = Len(work[t]) + 1
          /\ \A i \in 1..Len(work[t]) : work'[t][i] = work[t][i]
      BY <1>1, <3>1
    <3>3. QED
      BY <1>1, <1>2, <2>2, <3>2 DEF Extends
  <2>3. CASE about[s] # t
    BY <1>1, <2>1, <2>3, ExtendsIsReflexive
  <2>4. QED
    BY <2>2, <2>3
<1>3. ASSUME NEW u \in Task, NEW n \in 1..Len(work[u]), RevisePackage(u, n) PROVE Goal
  BY <1>1, <1>3 DEF RevisePackage, Extends
<1>4. ASSUME NEW u \in Task, NEW n \in 1..Len(work[u]), SubmitPackage(u, n) PROVE Goal
  BY <1>1, <1>4 DEF SubmitPackage, Extends
<1>5. CASE work' = work
  BY <1>1, <1>5, ExtendsIsReflexive
<1>6. QED
  BY <1>2, <1>3, <1>4, <1>5 DEF Next, vars, records, OpenTask, SelectReviewer, LoadWork,
     LoadFeature, Refuse, CommitTransition, CommitAssignment, CommitRouting, Rollback, Allow,
     AttachEvidence, RecordDecision, RecordReport, Deactivate, SupersedePlan

(* Evidence, Decisions and QA Reports are only added.                      *)
LEMMA RecordSteps ==
  ASSUME [Next]_vars
  PROVE  /\ evidence \subseteq evidence' /\ decisions \subseteq decisions'
         /\ reports \subseteq reports'
BY DEF Next, vars, records, OpenTask, SelectReviewer, LoadWork, LoadFeature, Refuse,
   CommitTransition, CommitAssignment, CommitRouting, CommitHandover, Rollback, Allow,
   RevisePackage, SubmitPackage, AttachEvidence, RecordDecision, RecordReport, Deactivate,
   SupersedePlan

----------------------------------------------------------------------------
(* What the graph says of the way into each status the proofs are about.   *)
LEMMA GrantedEdge ==
  ASSUME NEW from, NEW to, NEW by, MachineAllows(TaskEdges, from, to, by)
  PROVE  \E e \in TaskEdges :
           e.from = from /\ e.to = to /\ Judged(TaskEdges, from, to) = e.needs \ UnevaluatedConditions
<1>1. \E e \in TaskEdges : e.from = from /\ e.to = to
  BY DEF MachineAllows, Defines
<1>2. /\ Definition(TaskEdges, from, to) \in TaskEdges
      /\ Definition(TaskEdges, from, to).from = from /\ Definition(TaskEdges, from, to).to = to
  BY <1>1 DEF Definition
<1>3. QED
  BY <1>2 DEF Judged

Needed(needs) == needs \ UnevaluatedConditions

LEMMA WaysIn ==
  ASSUME NEW from, NEW to, NEW by, MachineAllows(TaskEdges, from, to, by)
  PROVE  LET asked == Judged(TaskEdges, from, to)
         IN /\ to # "CREATED"
            /\ to = "PENDING_DEPENDENCIES" => from = "CREATED"
            /\ to = "READY" => /\ from \in {"CREATED", "PENDING_DEPENDENCIES"}
                              /\ "DEPENDENCIES_ACCEPTED" \in asked
            /\ to = "ASSIGNED" => from = "READY"
            /\ to = "SUBMITTED" => /\ "WORK_PACKAGE_PRESENT" \in asked
                                  /\ "MANDATORY_SYSTEM_EVIDENCE_ATTACHED" \in asked
            /\ to = "IN_REVIEW" => from = "SUBMITTED" /\ "REVIEWER_ASSIGNED" \in asked
            /\ to = "IN_QA" => from = "IN_REVIEW" /\ "REVIEW_DECISION_APPROVED" \in asked
            /\ to = "ACCEPTED" => /\ from = "IN_QA" /\ "QA_REPORT_PASSED" \in asked
                                 /\ "TEST_EXECUTION_EVIDENCE_PRESENT" \in asked
<1>1. PICK e \in TaskEdges :
        e.from = from /\ e.to = to /\ Judged(TaskEdges, from, to) = Needed(e.needs)
  BY GrantedEdge DEF Needed
<1>2. \A x \in TaskEdges :
        /\ x.to # "CREATED"
        /\ x.to = "PENDING_DEPENDENCIES" => x.from = "CREATED"
        /\ x.to = "READY" => x.from \in {"CREATED", "PENDING_DEPENDENCIES"}
        /\ x.to = "ASSIGNED" => x.from = "READY"
        /\ x.to = "IN_REVIEW" => x.from = "SUBMITTED"
        /\ x.to = "IN_QA" => x.from = "IN_REVIEW"
        /\ x.to = "ACCEPTED" => x.from = "IN_QA"
  BY DEF TaskEdges, Edge
<1>3. \A x \in TaskEdges :
        /\ x.to = "READY" => "DEPENDENCIES_ACCEPTED" \in x.needs
        /\ x.to = "SUBMITTED" => /\ "WORK_PACKAGE_PRESENT" \in x.needs
                                /\ "MANDATORY_SYSTEM_EVIDENCE_ATTACHED" \in x.needs
        /\ x.to = "IN_REVIEW" => "REVIEWER_ASSIGNED" \in x.needs
        /\ x.to = "IN_QA" => "REVIEW_DECISION_APPROVED" \in x.needs
        /\ x.to = "ACCEPTED" => /\ "QA_REPORT_PASSED" \in x.needs
                               /\ "TEST_EXECUTION_EVIDENCE_PRESENT" \in x.needs
  BY DEF TaskEdges, Edge
<1>4. \A needs : \A c \in {"DEPENDENCIES_ACCEPTED", "WORK_PACKAGE_PRESENT",
               "MANDATORY_SYSTEM_EVIDENCE_ATTACHED", "REVIEWER_ASSIGNED",
               "REVIEW_DECISION_APPROVED", "QA_REPORT_PASSED",
               "TEST_EXECUTION_EVIDENCE_PRESENT"} :
        c \in needs => c \in Needed(needs)
  BY DEF UnevaluatedConditions, Needed
<1>5. QED
  BY <1>1, <1>2, <1>3, <1>4

LEMMA AcceptedIsTerminal ==
  ASSUME NEW to, NEW by
  PROVE  ~MachineAllows(TaskEdges, "ACCEPTED", to, by)
BY DEF MachineAllows, IsTerminal, TaskEdges, Edge

LEMMA GrantedIsDefined ==
  ASSUME NEW from, NEW to, NEW by, MachineAllows(TaskEdges, from, to, by)
  PROVE  Defines(TaskEdges, from, to)
BY DEF MachineAllows

----------------------------------------------------------------------------
(* Optimistic locking, and what routing judges.                            *)

(* What a Unit of Work holds of a Task whose version has not moved is      *)
(* still the row.                                                          *)
SeenIsAVersion ==
  \A s \in Session : Loaded(s) =>
    /\ seen[s].version <= task[about[s]].version
    /\ seen[s].version = task[about[s]].version => seen[s] = task[about[s]]

RoutingPc == {"routed", "routing", "judging route"}

MayReview(s, rows) ==
  /\ seen[s].reviewer \in facts[s].candidates /\ CanReview(about[s], seen[s].reviewer)
  /\ seen[s].reviewer \notin WorkAuthors(seen[s], rows)

(* The rules are given the Task as it was loaded; the router's, as routed, *)
(* or, when nobody is eligible, as loaded: with a Reviewer, if it has one, *)
(* who is not eligible either.                                             *)
JudgedIsSeenOrRouted ==
  \A s \in Session : Loaded(s) =>
    /\ pc[s] \notin RoutingPc => judged[s] = seen[s]
    /\ pc[s] \in RoutingPc =>
         \/ \E a \in Actor : judged[s] = [seen[s] EXCEPT !.status = "IN_REVIEW", !.reviewer = a]
         \/ /\ judged[s] = seen[s]
            /\ ~MayReview(s, work[about[s]])
            /\ pc[s] # "routed" => ~MayReview(s, facts[s].work)

LockInv == SeenIsAVersion /\ JudgedIsSeenOrRouted

(* The Task judged is saved, along an edge its machine allows, when the    *)
(* rules pass.                                                             *)
Moves(s, row) ==
  /\ pc[s] \in {"judging", "judging route"}
  /\ row \in TaskRow /\ Allow(s, row)
  /\ \E by \in Initiator : MachineAllows(TaskEdges, seen[s].status, row.status, by)
  /\ \E a \in Actor :
       RulesPass(Judged(TaskEdges, seen[s].status, row.status), about[s], judged[s], facts[s], a)
  /\ row.revision = seen[s].revision /\ judged[s].revision = seen[s].revision
  /\ row.reviewer = judged[s].reviewer /\ judged[s].worker = seen[s].worker
  /\ row.worker = seen[s].worker \/ row.status = "ASSIGNED"
  /\ judged[s] = seen[s] \/ row.status = "IN_REVIEW"

LEMMA TaskSteps ==
  ASSUME TypeOK, JudgedIsSeenOrRouted, [Next]_vars
  PROVE  \/ task' = task /\ ledger' = ledger
         \/ \E s \in Session : CommitHandover(s)
         \/ \E s \in Session, row \in TaskRow : Moves(s, row)
<1>1. ASSUME NEW s \in Session, CommitTransition(s) PROVE \E row \in TaskRow : Moves(s, row)
  <2>1. PICK to \in Permitted(s) : Allow(s, [seen[s] EXCEPT !.status = to])
    BY <1>1 DEF CommitTransition
  <2>2. to \in TaskStatus /\ \E by \in Initiator, a \in Actor : Permits(s, to, by, a)
    BY <2>1 DEF Permitted
  <2>3. seen[s] \in TaskRow /\ judged[s] = seen[s]
    BY <1>1 DEF TypeOK, JudgedIsSeenOrRouted, Loaded, RoutingPc, CommitTransition
  <2> DEFINE row == [seen[s] EXCEPT !.status = to]
  <2>4. /\ row \in TaskRow /\ row.status = to /\ row.revision = seen[s].revision
        /\ row.reviewer = seen[s].reviewer /\ row.worker = seen[s].worker
    BY <2>2, <2>3 DEF TaskRow
  <2>5. Moves(s, row)
    BY <1>1, <2>1, <2>2, <2>3, <2>4 DEF Moves, Permits, CommitTransition
  <2>6. QED
    BY <2>4, <2>5
<1>2. ASSUME NEW s \in Session, CommitAssignment(s) PROVE \E row \in TaskRow : Moves(s, row)
  <2>1. PICK a \in Actor : /\ Permits(s, "ASSIGNED", Coordinator, a)
                           /\ Allow(s, [seen[s] EXCEPT !.status = "ASSIGNED", !.worker = a])
    BY <1>2 DEF CommitAssignment
  <2>2. seen[s] \in TaskRow /\ judged[s] = seen[s] /\ Coordinator \in Initiator
    BY <1>2 DEF TypeOK, JudgedIsSeenOrRouted, Loaded, RoutingPc, CommitAssignment, Initiator
  <2> DEFINE row == [seen[s] EXCEPT !.status = "ASSIGNED", !.worker = a]
  <2>3. /\ row \in TaskRow /\ row.status = "ASSIGNED" /\ row.revision = seen[s].revision
        /\ row.reviewer = seen[s].reviewer
    BY <2>2 DEF TaskRow, TaskStatus
  <2>4. Moves(s, row)
    BY <1>2, <2>1, <2>2, <2>3 DEF Moves, Permits, CommitAssignment
  <2>5. QED
    BY <2>3, <2>4
<1>3. ASSUME NEW s \in Session, CommitRouting(s) PROVE \E row \in TaskRow : Moves(s, row)
  <2>1. PICK a \in Actor : Permits(s, "IN_REVIEW", OS, a)
    BY <1>3 DEF CommitRouting, RoutingPermitted
  <2>2. seen[s] \in TaskRow /\ judged[s] \in TaskRow /\ OS \in Initiator
    BY DEF TypeOK, Initiator
  <2>3. ReviewerAssigned(about[s], judged[s], facts[s])
    BY <2>1, WaysIn DEF Permits, RulesPass
  <2>4. PICK b \in Actor : judged[s] = [seen[s] EXCEPT !.status = "IN_REVIEW", !.reviewer = b]
    <3>1. CASE judged[s] = seen[s] /\ ~MayReview(s, facts[s].work)
      BY <2>3, <3>1 DEF ReviewerAssigned, MayReview
    <3>2. QED
      BY <1>3, <3>1 DEF JudgedIsSeenOrRouted, Loaded, RoutingPc, CommitRouting
  <2>5. /\ judged[s].status = "IN_REVIEW" /\ judged[s].revision = seen[s].revision
        /\ judged[s].worker = seen[s].worker
    BY <2>2, <2>4 DEF TaskRow
  <2>6. Moves(s, judged[s])
    BY <1>3, <2>1, <2>2, <2>5 DEF Moves, Permits, CommitRouting
  <2>7. QED
    BY <2>2, <2>6
<1>4. CASE task' = task /\ ledger' = ledger
  BY <1>4
<1>5. QED
  BY <1>1, <1>2, <1>3, <1>4 DEF Next, vars, history, OpenTask, SelectReviewer, LoadWork,
     LoadFeature, Refuse, Rollback, RevisePackage, SubmitPackage, AttachEvidence,
     RecordDecision, RecordReport, Deactivate, SupersedePlan

(* A save bumps the version of the one row it matched; no other changes.   *)
LEMMA SavesOneRow ==
  ASSUME TypeOK, NEW s \in Session, NEW row, SaveTask(s, row), NEW t \in Task
  PROVE  IF t = about[s]
         THEN task'[t] = [row EXCEPT !.version = task[t].version + 1]
         ELSE task'[t] = task[t]
BY DEF SaveTask, TypeOK

LEMMA SavedRowIsTheStoredOne ==
  ASSUME SeenIsAVersion, NEW s \in Session, Loaded(s), TaskIsFresh(s)
  PROVE  seen[s] = task[about[s]]
BY DEF SeenIsAVersion, TaskIsFresh

LEMMA VersionSteps ==
  ASSUME TypeOK, JudgedIsSeenOrRouted, [Next]_vars, NEW t \in Task
  PROVE  task'[t] = task[t] \/ task'[t].version = task[t].version + 1
<1>1. ASSUME NEW s \in Session, NEW row \in TaskRow, SaveTask(s, row)
      PROVE  task'[t] = task[t] \/ task'[t].version = task[t].version + 1
  <2>1. CASE t = about[s]
    <3>1. task'[t] = [row EXCEPT !.version = task[t].version + 1]
      BY <1>1, <2>1, SavesOneRow
    <3>2. QED
      BY <3>1 DEF TaskRow
  <2>2. CASE t # about[s]
    BY <1>1, <2>2, SavesOneRow
  <2>3. QED
    BY <2>1, <2>2
<1>2. ASSUME NEW s \in Session, CommitHandover(s) PROVE \E row \in TaskRow : SaveTask(s, row)
  <2> DEFINE row == [seen[s] EXCEPT !.revision = NextRevision(seen[s])]
  <2>1. seen[s] \in TaskRow
    BY DEF TypeOK
  <2>2. row \in TaskRow
    BY <2>1 DEF TaskRow, NextRevision
  <2>3. QED
    BY <1>2, <2>2 DEF CommitHandover
<1>3. QED
  BY <1>1, <1>2, TaskSteps DEF Moves, Allow

LEMMA NextSeen ==
  ASSUME TypeOK, LockInv, [Next]_vars
  PROVE  SeenIsAVersion'
<1> SUFFICES ASSUME NEW u \in Session, Loaded(u)'
             PROVE  /\ seen'[u].version <= task'[about'[u]].version
                    /\ seen'[u].version = task'[about'[u]].version =>
                         seen'[u] = task'[about'[u]]
  BY DEF SeenIsAVersion
<1>1. \A t \in Task : task[t].version \in Nat
  BY DEF TypeOK, TaskRow
<1>2. CASE Kept(u)
  <2>1. about[u] \in Task /\ Loaded(u) /\ seen[u].version \in Nat
    BY <1>2 DEF Kept, Loaded, TypeOK, TaskRow
  <2>2. \/ task'[about[u]] = task[about[u]]
        \/ task'[about[u]].version = task[about[u]].version + 1
    BY <2>1, VersionSteps DEF LockInv
  <2>3. QED
    BY <1>1, <1>2, <2>1, <2>2 DEF Kept, LockInv, SeenIsAVersion
<1>3. ASSUME NEW t \in Task, OpenTask(u, t)
      PROVE  seen'[u] = task'[about'[u]] /\ about'[u] \in Task
  BY <1>3 DEF OpenTask, TypeOK
<1>4. ASSUME SelectReviewer(u) \/ LoadWork(u) \/ LoadFeature(u)
      PROVE  Loaded(u) /\ seen' = seen /\ about' = about
  BY <1>4 DEF SelectReviewer, LoadWork, LoadFeature, Loaded
<1>5. CASE Reads(u)
  <2>1. task' = task
    BY <1>5, ReadingChangesNoRow
  <2>2. QED
    BY <1>1, <1>3, <1>4, <1>5, <2>1 DEF Reads, LockInv, SeenIsAVersion
<1>6. QED
  BY <1>2, <1>5, SessionSteps

LEMMA NextJudged ==
  ASSUME TypeOK, LockInv, [Next]_vars
  PROVE  JudgedIsSeenOrRouted'
<1> DEFINE Goal(u) ==
      /\ pc'[u] \notin RoutingPc => judged'[u] = seen'[u]
      /\ pc'[u] \in RoutingPc =>
           \/ \E a \in Actor :
                judged'[u] = [seen'[u] EXCEPT !.status = "IN_REVIEW", !.reviewer = a]
           \/ /\ judged'[u] = seen'[u]
              /\ ~MayReview(u, work[about[u]])'
              /\ pc'[u] # "routed" => ~MayReview(u, facts[u].work)'
<1> SUFFICES ASSUME NEW u \in Session, Loaded(u)' PROVE Goal(u)
  BY DEF JudgedIsSeenOrRouted
<1>0. /\ pc \in [Session -> PCs] /\ about \in [Session -> Task] /\ work \in [Task -> Seq(Revision)]
      /\ judged \in [Session -> TaskRow] /\ seen \in [Session -> TaskRow]
      /\ facts \in [Session -> Facts]
  BY DEF TypeOK, PCs
<1>1. CASE Kept(u)
  <2>1. Loaded(u) /\ about[u] \in Task
    BY <1>0, <1>1 DEF Kept, Loaded
  <2>2. Extends(work'[about[u]], work[about[u]])
    BY <2>1, WorkSteps
  <2>3. work'[about[u]] \in Seq(Revision)
    BY <2>1, NextTypes DEF TypeOK
  <2>4. WorkAuthors(seen[u], work[about[u]]) \subseteq WorkAuthors(seen[u], work'[about[u]])
    BY <1>0, <2>1, <2>2, <2>3, ExtendsKeepsAuthors
  <2>5. MayReview(u, work[about[u]])' => MayReview(u, work[about[u]])
    BY <1>1, <2>4 DEF Kept, MayReview
  <2>6. MayReview(u, facts[u].work)' <=> MayReview(u, facts[u].work)
    BY <1>1 DEF Kept, MayReview
  <2>7. QED
    BY <1>1, <2>1, <2>5, <2>6 DEF Kept, LockInv, JudgedIsSeenOrRouted
<1>2. ASSUME NEW t \in Task, OpenTask(u, t) PROVE Goal(u)
  BY <1>0, <1>2 DEF OpenTask, RoutingPc
<1>3. CASE SelectReviewer(u)
  <2> DEFINE t == about[u]
             eligible == EligibleReviewers(t, seen[u], ActiveReviewers, work[t])
             lowest == CHOOSE a \in eligible : \A b \in eligible : a <= b
             routed == [seen[u] EXCEPT !.status = "IN_REVIEW", !.reviewer = lowest]
  <2>1. /\ pc'[u] = "routed" /\ pc[u] = "loaded" /\ seen' = seen /\ about' = about /\ work' = work
        /\ judged' = IF eligible = {} THEN judged ELSE [judged EXCEPT ![u] = routed]
        /\ facts'[u].candidates = ActiveReviewers
    BY <1>0, <1>3 DEF SelectReviewer, Facts, records
  <2>2. CASE eligible # {}
    <3>1. eligible \in SUBSET Actor
      BY DEF EligibleReviewers, ActiveReviewers, TypeOK
    <3>2. lowest \in Actor
      BY <2>2, <3>1, LowestExists
    <3>3. judged'[u] = routed
      BY <1>0, <2>1, <2>2
    <3> HIDE DEF lowest
    <3>4. QED
      BY <2>1, <3>2, <3>3 DEF RoutingPc
  <2>3. CASE eligible = {}
    <3>1. judged' = judged /\ judged[u] = seen[u]
      BY <2>1, <2>3 DEF LockInv, JudgedIsSeenOrRouted, Loaded, RoutingPc
    <3>2. ~MayReview(u, work[about[u]])'
      BY <2>1, <2>3 DEF MayReview, EligibleReviewers
    <3>3. QED
      BY <2>1, <3>1, <3>2 DEF RoutingPc
  <2>4. QED
    BY <2>2, <2>3
<1>4. CASE LoadWork(u)
  <2>1. /\ pc[u] \in {"loaded", "routed"}
        /\ pc'[u] = IF pc[u] = "routed" THEN "routing" ELSE "work"
        /\ judged' = judged /\ seen' = seen /\ about' = about /\ work' = work
        /\ facts'[u].candidates = facts[u].candidates /\ facts'[u].work = work[about[u]]
    BY <1>0, <1>4 DEF LoadWork, Facts, records
  <2>2. MayReview(u, work[about[u]])' <=> MayReview(u, work[about[u]])
    BY <2>1 DEF MayReview
  <2>3. MayReview(u, facts[u].work)' <=> MayReview(u, work[about[u]])
    BY <2>1 DEF MayReview
  <2>4. QED
    BY <2>1, <2>2, <2>3 DEF LockInv, JudgedIsSeenOrRouted, Loaded, RoutingPc
<1>5. CASE LoadFeature(u)
  <2>1. /\ pc[u] \in {"work", "routing"}
        /\ pc'[u] = IF pc[u] = "routing" THEN "judging route" ELSE "judging"
        /\ judged' = judged /\ seen' = seen /\ about' = about /\ work' = work
        /\ pc[u] = "routing" => facts'[u].candidates = facts[u].candidates
        /\ facts'[u].work = facts[u].work
    BY <1>0, <1>5 DEF LoadFeature, Facts, records
  <2>2. pc[u] = "routing" => (MayReview(u, work[about[u]])' <=> MayReview(u, work[about[u]]))
    BY <2>1 DEF MayReview
  <2>3. pc[u] = "routing" => (MayReview(u, facts[u].work)' <=> MayReview(u, facts[u].work))
    BY <2>1 DEF MayReview
  <2>4. QED
    BY <2>1, <2>2, <2>3 DEF LockInv, JudgedIsSeenOrRouted, Loaded, RoutingPc
<1>6. QED
  BY <1>1, <1>2, <1>3, <1>4, <1>5, SessionSteps DEF Reads

LEMMA InitLock == Init => LockInv
BY DEF Init, LockInv, SeenIsAVersion, JudgedIsSeenOrRouted, Loaded

LEMMA LockIsInvariant == Spec => [](TypeOK /\ LockInv)
<1>1. TypeOK /\ LockInv /\ [Next]_vars => (TypeOK /\ LockInv)'
  BY NextTypes, NextSeen, NextJudged DEF LockInv
<1>2. Init => TypeOK /\ LockInv
  BY InitTypes, InitLock
<1>3. QED
  BY <1>1, <1>2, PTL DEF Spec

----------------------------------------------------------------------------
(* The two ways a Task's row changes, seen from the stored row.            *)
LEMMA MoveSteps ==
  ASSUME TypeOK, LockInv, NEW s \in Session, NEW row \in TaskRow, Moves(s, row)
  PROVE  LET t == about[s]
         IN /\ t \in Task /\ seen[s] = task[t] /\ row.revision = task[t].revision
            /\ \E by \in Initiator : MachineAllows(TaskEdges, task[t].status, row.status, by)
            /\ row.worker = task[t].worker \/ row.status = "ASSIGNED"
            /\ task'[t] = [row EXCEPT !.version = task[t].version + 1]
            /\ task'[t].status = row.status /\ task'[t].worker = row.worker
            /\ task'[t].reviewer = row.reviewer /\ task'[t].revision = row.revision
            /\ \A u \in Task \ {t} : task'[u] = task[u]
            /\ ledger'[t] = Append(ledger[t], [from |-> task[t].status, to |-> row.status])
            /\ \A u \in Task \ {t} : ledger'[u] = ledger[u]
            /\ UNCHANGED <<work, evidence, decisions, reports>>
<1>1. about[s] \in Task
  BY DEF TypeOK
<1>2. SaveTask(s, row) /\ Loaded(s)
  BY DEF Moves, Allow, Loaded
<1>3. seen[s] = task[about[s]]
  BY <1>2, SavedRowIsTheStoredOne DEF LockInv, SaveTask
<1>4. /\ task'[about[s]] = [row EXCEPT !.version = task[about[s]].version + 1]
      /\ \A u \in Task \ {about[s]} : task'[u] = task[u]
  BY <1>1, <1>2, SavesOneRow
<1>5. /\ task'[about[s]].status = row.status /\ task'[about[s]].worker = row.worker
      /\ task'[about[s]].reviewer = row.reviewer /\ task'[about[s]].revision = row.revision
  BY <1>4 DEF TaskRow
<1> DEFINE line == [from |-> seen[s].status, to |-> row.status]
<1>6. /\ ledger' = [ledger EXCEPT ![about[s]] = Append(@, line)]
      /\ UNCHANGED <<work, evidence, decisions, reports>>
  BY DEF Moves, Allow, records
<1>7. /\ ledger'[about[s]] = Append(ledger[about[s]], line)
      /\ \A u \in Task \ {about[s]} : ledger'[u] = ledger[u]
  <2> HIDE DEF line
  <2>1. QED
    BY <1>1, <1>6 DEF TypeOK
<1>8. /\ row.revision = seen[s].revision
      /\ \E by \in Initiator : MachineAllows(TaskEdges, seen[s].status, row.status, by)
      /\ row.worker = seen[s].worker \/ row.status = "ASSIGNED"
  BY DEF Moves
<1>9. QED
  BY <1>1, <1>3, <1>4, <1>5, <1>6, <1>7, <1>8

LEMMA HandoverSteps ==
  ASSUME TypeOK, LockInv, NEW s \in Session, CommitHandover(s)
  PROVE  LET t == about[s]
         IN /\ t \in Task /\ seen[s] = task[t]
            /\ task[t].status \in {"ASSIGNED", "IN_PROGRESS", "REVISION_REQUIRED"}
            /\ task'[t].status = task[t].status /\ task'[t].worker = task[t].worker
            /\ task'[t].reviewer = task[t].reviewer
            /\ task'[t].revision = task[t].revision + 1
            /\ \A u \in Task \ {t} : task'[u] = task[u] /\ work'[u] = work[u]
            /\ \E r : r.number = task[t].revision + 1 /\ work'[t] = Append(work[t], r)
            /\ ledger' = ledger
<1>1. about[s] \in Task /\ Loaded(s)
  BY DEF TypeOK, CommitHandover, Loaded
<1>2. seen[s] = task[about[s]]
  BY <1>1, SavedRowIsTheStoredOne DEF LockInv, SaveTask, CommitHandover
<1> DEFINE row == [task[about[s]] EXCEPT !.revision = task[about[s]].revision + 1]
<1>3. SaveTask(s, row)
  BY <1>2 DEF CommitHandover, NextRevision
<1>4. task'[about[s]] = [row EXCEPT !.version = task[about[s]].version + 1]
      /\ \A u \in Task \ {about[s]} : task'[u] = task[u]
  BY <1>1, <1>3, SavesOneRow
<1>4a. /\ task'[about[s]].status = task[about[s]].status
       /\ task'[about[s]].worker = task[about[s]].worker
       /\ task'[about[s]].reviewer = task[about[s]].reviewer
       /\ task'[about[s]].revision = task[about[s]].revision + 1
  <2>1. task[about[s]] \in TaskRow
    BY <1>1 DEF TypeOK
  <2>2. QED
    BY <1>4, <2>1 DEF TaskRow
<1>5. PICK h \in Handover :
        work' = [work EXCEPT ![about[s]] =
          Append(@, [number |-> NextRevision(seen[s]), author |-> h.author,
                     package |-> h.package, content |-> h.content])]
  BY DEF CommitHandover
<1> DEFINE r == [number |-> NextRevision(seen[s]), author |-> h.author,
                 package |-> h.package, content |-> h.content]
<1>6. /\ r.number = task[about[s]].revision + 1
      /\ work'[about[s]] = Append(work[about[s]], r)
      /\ \A u \in Task \ {about[s]} : work'[u] = work[u]
  <2>1. r.number = task[about[s]].revision + 1
    BY <1>2 DEF NextRevision
  <2>2. work' = [work EXCEPT ![about[s]] = Append(@, r)]
    BY <1>5
  <2> HIDE DEF r
  <2>3. QED
    BY <1>1, <2>1, <2>2 DEF TypeOK
<1>7. \E x : /\ x.number = task[about[s]].revision + 1
             /\ work'[about[s]] = Append(work[about[s]], x)
  <2> HIDE DEF r
  <2>1. QED
    BY <1>6
<1>8. QED
  BY <1>1, <1>2, <1>4, <1>4a, <1>6, <1>7 DEF CommitHandover, history

LEMMA NextPointer ==
  ASSUME TypeOK, LockInv, HistoryAgreesWithPointer, [Next]_vars
  PROVE  HistoryAgreesWithPointer'
<1> SUFFICES ASSUME NEW t \in Task
             PROVE  Readable(work'[t]) /\ Len(work'[t]) = task'[t].revision
  BY DEF HistoryAgreesWithPointer, Readable
<1>1. work[t] \in Seq(Revision) /\ Readable(work[t]) /\ Len(work[t]) = task[t].revision
  BY DEF HistoryAgreesWithPointer, TypeOK
<1>2. CASE \E s \in Session : about[s] = t /\ CommitHandover(s)
  <2>1. PICK s \in Session : about[s] = t /\ CommitHandover(s)
    BY <1>2
  <2>2. PICK r : /\ r.number = task[t].revision + 1 /\ work'[t] = Append(work[t], r)
                 /\ task'[t].revision = task[t].revision + 1
    BY <2>1, HandoverSteps DEF TypeOK, TaskRow
  <2>3. /\ Len(work'[t]) = Len(work[t]) + 1 /\ work'[t][Len(work[t]) + 1] = r
        /\ \A i \in 1..Len(work[t]) : work'[t][i] = work[t][i]
    BY <1>1, <2>2
  <2>4. QED
    BY <1>1, <2>2, <2>3 DEF Readable
<1>3. CASE ~ \E s \in Session : about[s] = t /\ CommitHandover(s)
  <2>1. Extends(work'[t], work[t]) /\ Len(work'[t]) = Len(work[t])
    BY <1>3, WorkSteps
  <2>2. Readable(work'[t])
    BY <1>1, <2>1 DEF Readable, Extends
  <2>3. task'[t].revision = task[t].revision
    <3>1. ASSUME NEW s \in Session, NEW row \in TaskRow, Moves(s, row)
          PROVE  task'[t].revision = task[t].revision
      BY <3>1, MoveSteps
    <3>2. ASSUME NEW s \in Session, CommitHandover(s) PROVE task'[t].revision = task[t].revision
      BY <1>3, <3>2, HandoverSteps
    <3>3. QED
      BY <3>1, <3>2, TaskSteps DEF LockInv
  <2>4. QED
    BY <1>1, <2>1, <2>2, <2>3
<1>4. QED
  BY <1>2, <1>3

LEMMA NextWalk ==
  ASSUME TypeOK, LockInv, TaskLedgerIsAWalk, [Next]_vars
  PROVE  TaskLedgerIsAWalk'
<1> DEFINE Walk(path, status) ==
      /\ \A i \in 1..Len(path) :
           /\ path[i].from = IF i = 1 THEN NewTask.status ELSE path[i - 1].to
           /\ Defines(TaskEdges, path[i].from, path[i].to)
      /\ status = IF path = <<>> THEN NewTask.status ELSE path[Len(path)].to
<1> SUFFICES ASSUME NEW t \in Task PROVE Walk(ledger'[t], task'[t].status)
  BY DEF TaskLedgerIsAWalk
<1>1. ledger[t] \in Seq(Line) /\ Walk(ledger[t], task[t].status)
  BY DEF TaskLedgerIsAWalk, TypeOK
<1>2. ASSUME NEW s \in Session, NEW row \in TaskRow, Moves(s, row), about[s] = t
      PROVE  Walk(ledger'[t], task'[t].status)
  <2> DEFINE line == [from |-> task[t].status, to |-> row.status]
  <2>1. ledger'[t] = Append(ledger[t], line) /\ task'[t].status = row.status
    BY <1>2, MoveSteps DEF TypeOK
  <2>2. Defines(TaskEdges, task[t].status, row.status)
    BY <1>2, MoveSteps, GrantedIsDefined
  <2>3. /\ Len(ledger[t]) \in Nat /\ Len(ledger'[t]) = Len(ledger[t]) + 1
        /\ ledger'[t][Len(ledger[t]) + 1] = line /\ ledger'[t] # <<>>
        /\ \A i \in 1..Len(ledger[t]) : ledger'[t][i] = ledger[t][i]
    <3>1. line \in Line
      BY DEF TypeOK, TaskRow, Line
    <3>2. QED
      BY <1>1, <2>1, <3>1
  <2>4. line.from = IF Len(ledger[t]) = 0 THEN NewTask.status ELSE ledger[t][Len(ledger[t])].to
    BY <1>1
  <2>5. ASSUME NEW i \in 1..Len(ledger'[t])
        PROVE  /\ ledger'[t][i].from = IF i = 1 THEN NewTask.status ELSE ledger'[t][i - 1].to
               /\ Defines(TaskEdges, ledger'[t][i].from, ledger'[t][i].to)
    <3>1. CASE i = Len(ledger[t]) + 1
      BY <2>2, <2>3, <2>4, <3>1
    <3>2. CASE i # Len(ledger[t]) + 1
      <4>1. i \in 1..Len(ledger[t]) /\ (i # 1 => i - 1 \in 1..Len(ledger[t]))
        BY <2>3, <3>2
      <4>2. QED
        BY <1>1, <2>3, <4>1
    <3>3. QED
      BY <3>1, <3>2
  <2>6. task'[t].status = ledger'[t][Len(ledger'[t])].to
    BY <2>1, <2>3
  <2>7. QED
    BY <2>3, <2>5, <2>6
<1>3. ASSUME NEW s \in Session, NEW row \in TaskRow, Moves(s, row), about[s] # t
      PROVE  ledger'[t] = ledger[t] /\ task'[t].status = task[t].status
  BY <1>3, MoveSteps
<1>4. ASSUME NEW s \in Session, CommitHandover(s)
      PROVE  ledger'[t] = ledger[t] /\ task'[t].status = task[t].status
  <2>1. CASE t = about[s]
    BY <1>4, <2>1, HandoverSteps
  <2>2. CASE t # about[s]
    BY <1>4, <2>2, HandoverSteps
  <2>3. QED
    BY <2>1, <2>2
<1>5. QED
  BY <1>1, <1>2, <1>3, <1>4, TaskSteps DEF LockInv

HistoryInv == LockInv /\ HistoryAgreesWithPointer /\ TaskLedgerIsAWalk

LEMMA HistoryIsInvariant == Spec => [](TypeOK /\ HistoryInv)
<1>1. TypeOK /\ HistoryInv /\ [Next]_vars => (TypeOK /\ HistoryInv)'
  BY NextTypes, NextSeen, NextJudged, NextPointer, NextWalk DEF HistoryInv, LockInv
<1>2. Init => TypeOK /\ HistoryInv
  <2>1. Init => HistoryAgreesWithPointer /\ TaskLedgerIsAWalk
    BY DEF Init, HistoryAgreesWithPointer, TaskLedgerIsAWalk, Readable, NewTask
  <2>2. QED
    BY <2>1, InitTypes, InitLock DEF HistoryInv
<1>3. QED
  BY <1>1, <1>2, PTL DEF Spec

(* Racing handovers never give two Revisions one number nor leave a gap:   *)
(* the pointer a Worker's save increments is matched with its version.     *)
THEOREM HistoriesAgreeWithTheirPointers == Spec => []HistoryAgreesWithPointer
<1>1. TypeOK /\ HistoryInv => HistoryAgreesWithPointer
  BY DEF HistoryInv
<1>2. QED
  BY <1>1, HistoryIsInvariant, PTL

(* The enforcement ledger of a Task is one walk of the Task graph that     *)
(* ends where the Task is (runner.py, repositories/base.py).               *)
THEOREM TaskLedgersAreWalks == Spec => []TaskLedgerIsAWalk
<1>1. TypeOK /\ HistoryInv => TaskLedgerIsAWalk
  BY DEF HistoryInv
<1>2. QED
  BY <1>1, HistoryIsInvariant, PTL

(* Of racing assignments one wins, and no later save takes a Task away     *)
(* from its Worker (kernel.py, assign_task).                               *)
THEOREM TasksAreAssignedOnce == Spec => AssignedOnce
<1>1. TypeOK /\ HistoryInv /\ [Next]_vars
        => [\A t \in Task :
              task[t].worker # NoActor => task'[t].worker = task[t].worker]_vars
  <2> SUFFICES ASSUME TypeOK, HistoryInv, [Next]_vars, NEW t \in Task, task[t].worker # NoActor
               PROVE  task'[t].worker = task[t].worker
    OBVIOUS
  <2>1. ASSUME NEW s \in Session, NEW row \in TaskRow, Moves(s, row), about[s] = t
        PROVE  task'[t].worker = task[t].worker
    <3>1. row.status # "ASSIGNED"
      <4>1. task[t].status # "READY"
        BY DEF TypeOK, Constructible, Unassigned
      <4>2. \E by \in Initiator : MachineAllows(TaskEdges, task[t].status, row.status, by)
        BY <2>1, MoveSteps DEF HistoryInv
      <4>3. QED
        BY <4>1, <4>2, WaysIn
    <3>2. QED
      BY <2>1, <3>1, MoveSteps DEF HistoryInv
  <2>2. ASSUME NEW s \in Session, NEW row \in TaskRow, Moves(s, row), about[s] # t
        PROVE  task'[t].worker = task[t].worker
    BY <2>2, MoveSteps DEF HistoryInv
  <2>3. ASSUME NEW s \in Session, CommitHandover(s) PROVE task'[t].worker = task[t].worker
    <3>1. CASE t = about[s]
      BY <2>3, <3>1, HandoverSteps DEF HistoryInv
    <3>2. CASE t # about[s]
      BY <2>3, <3>2, HandoverSteps DEF HistoryInv
    <3>3. QED
      BY <3>1, <3>2
  <2>4. QED
    BY <2>1, <2>2, <2>3, TaskSteps DEF HistoryInv, LockInv
<1>2. QED
  BY <1>1, HistoryIsInvariant, PTL DEF Spec, AssignedOnce

----------------------------------------------------------------------------
(* What a Unit of Work has read stays true, though nothing is locked.      *)

HasWork(s)    == pc[s] \in {"work", "routing", "judging", "judging route"}
HasFeature(s) == pc[s] \in {"judging", "judging route"}

AcceptedTasks == {t \in Task : task[t].status = "ACCEPTED"}

(* No Revision is missing from what was read while the version stands: a   *)
(* handover moves it.                                                      *)
WorkIsKnown ==
  \A s \in Session : HasWork(s) =>
    /\ facts[s].work \in Seq(Revision) /\ Extends(work[about[s]], facts[s].work)
    /\ seen[s].version = task[about[s]].version => Len(facts[s].work) = Len(work[about[s]])
    /\ facts[s].decisions \subseteq decisions

RecordsAreKnown ==
  \A s \in Session : HasFeature(s) =>
    /\ facts[s].reports \subseteq reports
    /\ facts[s].evidence \subseteq {m \in evidence : m[1] = about[s]}
    /\ facts[s].accepted \subseteq AcceptedTasks

FactsInv == WorkIsKnown /\ RecordsAreKnown

LEMMA AcceptanceSteps ==
  ASSUME TypeOK, LockInv, [Next]_vars, NEW t \in Task, task[t].status = "ACCEPTED"
  PROVE  task'[t].status = "ACCEPTED"
<1>1. ASSUME NEW s \in Session, NEW row \in TaskRow, Moves(s, row)
      PROVE  task'[t].status = "ACCEPTED"
  <2>1. \E by \in Initiator :
          MachineAllows(TaskEdges, task[about[s]].status, row.status, by)
    BY <1>1, MoveSteps
  <2>2. about[s] # t
    BY <2>1, AcceptedIsTerminal
  <2>3. QED
    BY <1>1, <2>2, MoveSteps
<1>2. ASSUME NEW s \in Session, CommitHandover(s) PROVE task'[t].status = "ACCEPTED"
  <2>1. task[about[s]].status # "ACCEPTED"
    BY <1>2, HandoverSteps
  <2>2. QED
    BY <1>2, <2>1, HandoverSteps
<1>3. QED
  BY <1>1, <1>2, TaskSteps DEF LockInv

LEMMA HandoverBumps ==
  ASSUME TypeOK, NEW s \in Session, CommitHandover(s)
  PROVE  task'[about[s]].version = task[about[s]].version + 1
<1> DEFINE row == [seen[s] EXCEPT !.revision = NextRevision(seen[s])]
<1>1. about[s] \in Task /\ seen[s] \in TaskRow
  BY DEF TypeOK
<1>2. SaveTask(s, row)
  BY DEF CommitHandover
<1>3. task'[about[s]] = [row EXCEPT !.version = task[about[s]].version + 1]
  BY <1>1, <1>2, SavesOneRow
<1>4. QED
  BY <1>1, <1>3 DEF TaskRow

LEMMA NextWorkIsKnown ==
  ASSUME TypeOK, LockInv, FactsInv, [Next]_vars
  PROVE  WorkIsKnown'
<1> DEFINE Goal(u) ==
      /\ facts'[u].work \in Seq(Revision) /\ Extends(work'[about'[u]], facts'[u].work)
      /\ seen'[u].version = task'[about'[u]].version =>
           Len(facts'[u].work) = Len(work'[about'[u]])
      /\ facts'[u].decisions \subseteq decisions'
<1> SUFFICES ASSUME NEW u \in Session, HasWork(u)' PROVE Goal(u)
  BY DEF WorkIsKnown
<1>0. /\ pc \in [Session -> PCs] /\ about \in [Session -> Task] /\ work \in [Task -> Seq(Revision)]
      /\ facts \in [Session -> Facts]
  BY DEF TypeOK, PCs
<1>1. CASE Kept(u)
  <2> DEFINE t == about[u]
  <2>1. HasWork(u) /\ t \in Task /\ about'[u] = t /\ facts'[u] = facts[u] /\ Loaded(u)
    BY <1>0, <1>1 DEF Kept, HasWork, Loaded
  <2>2. /\ facts[u].work \in Seq(Revision) /\ Extends(work[t], facts[u].work)
        /\ seen[u].version = task[t].version => Len(facts[u].work) = Len(work[t])
        /\ facts[u].decisions \subseteq decisions
    BY <2>1 DEF FactsInv, WorkIsKnown
  <2>3. Extends(work'[t], work[t]) /\ work'[t] \in Seq(Revision) /\ work[t] \in Seq(Revision)
    BY <1>0, <2>1, WorkSteps, NextTypes DEF TypeOK
  <2>4. Extends(work'[t], facts[u].work)
    BY <2>2, <2>3, ExtendsIsTransitive
  <2>5. ASSUME seen[u].version = task'[t].version PROVE Len(facts[u].work) = Len(work'[t])
    <3>1. /\ seen[u].version \in Nat /\ task[t].version \in Nat
          /\ seen[u].version <= task[t].version
      BY <2>1 DEF TypeOK, TaskRow, LockInv, SeenIsAVersion
    <3>2. task'[t].version # task[t].version + 1
      BY <2>5, <3>1
    <3>3. task'[t] = task[t]
      BY <2>1, <3>2, VersionSteps DEF LockInv
    <3>4. Len(work'[t]) = Len(work[t])
      BY <2>1, <3>2, WorkSteps, HandoverBumps
    <3>5. QED
      BY <2>2, <2>5, <3>3, <3>4
  <2>6. facts[u].decisions \subseteq decisions'
    BY <2>2, RecordSteps
  <2>7. QED
    BY <1>1, <2>1, <2>2, <2>4, <2>5, <2>6 DEF Kept
<1>2. CASE LoadWork(u)
  <2>1. /\ facts'[u].work = work[about[u]] /\ facts'[u].decisions \subseteq decisions
        /\ about' = about /\ work' = work /\ decisions' = decisions
    BY <1>0, <1>2 DEF LoadWork, Facts, records
  <2>2. QED
    BY <1>0, <2>1, ExtendsIsReflexive
<1>3. CASE LoadFeature(u)
  <2>1. /\ HasWork(u)
        /\ facts'[u].work = facts[u].work /\ facts'[u].decisions = facts[u].decisions
        /\ about' = about /\ work' = work /\ decisions' = decisions /\ task' = task /\ seen' = seen
    BY <1>0, <1>3 DEF LoadFeature, Facts, records, HasWork
  <2>2. QED
    BY <2>1 DEF FactsInv, WorkIsKnown
<1>4. ASSUME SelectReviewer(u) \/ \E t \in Task : OpenTask(u, t) PROVE FALSE
  BY <1>0, <1>4 DEF SelectReviewer, OpenTask, HasWork
<1>5. QED
  BY <1>1, <1>2, <1>3, <1>4, SessionSteps DEF Reads, Loaded, HasWork

LEMMA NextRecordsAreKnown ==
  ASSUME TypeOK, LockInv, FactsInv, [Next]_vars
  PROVE  RecordsAreKnown'
<1> SUFFICES ASSUME NEW u \in Session, HasFeature(u)'
             PROVE  /\ facts'[u].reports \subseteq reports'
                    /\ facts'[u].evidence \subseteq {m \in evidence' : m[1] = about'[u]}
                    /\ facts'[u].accepted \subseteq AcceptedTasks'
  BY DEF RecordsAreKnown
<1>0. pc \in [Session -> PCs] /\ facts \in [Session -> Facts]
  BY DEF TypeOK, PCs
<1>1. CASE Kept(u)
  <2>1. /\ facts[u].reports \subseteq reports
        /\ facts[u].evidence \subseteq {m \in evidence : m[1] = about[u]}
        /\ facts[u].accepted \subseteq AcceptedTasks
    BY <1>1 DEF FactsInv, RecordsAreKnown, HasFeature, Kept
  <2>2. AcceptedTasks \subseteq AcceptedTasks'
    BY AcceptanceSteps DEF AcceptedTasks
  <2>3. QED
    BY <1>1, <2>1, <2>2, RecordSteps DEF Kept
<1>2. CASE LoadFeature(u)
  <2>1. /\ facts'[u].reports = reports /\ facts'[u].accepted = AcceptedTasks
        /\ facts'[u].evidence =
             {m \in evidence : m[1] = about[u] /\ m[2] <= Len(facts[u].work)}
        /\ about' = about
    BY <1>0, <1>2 DEF LoadFeature, Facts, AcceptedTasks
  <2>2. task' = task /\ reports' = reports /\ evidence' = evidence
    BY <1>2 DEF LoadFeature, records
  <2>3. QED
    BY <2>1, <2>2 DEF AcceptedTasks
<1>3. ASSUME SelectReviewer(u) \/ LoadWork(u) \/ \E t \in Task : OpenTask(u, t) PROVE FALSE
  BY <1>0, <1>3 DEF SelectReviewer, LoadWork, OpenTask, HasFeature
<1>4. QED
  BY <1>1, <1>2, <1>3, SessionSteps DEF Reads, Loaded, HasFeature

----------------------------------------------------------------------------
(* What the rules judged, restated of the rows as they are saved.          *)
LEMMA JudgedRows ==
  ASSUME TypeOK, LockInv, FactsInv, NEW s \in Session, NEW row \in TaskRow, Moves(s, row)
  PROVE  LET t == about[s]  x == facts[s]
         IN /\ judged[s].revision = task[t].revision
            /\ row.reviewer = judged[s].reviewer
            /\ \E a \in Actor :
                 RulesPass(Judged(TaskEdges, task[t].status, row.status), t, judged[s], x, a)
            /\ x.work \in Seq(Revision) /\ work[t] \in Seq(Revision)
            /\ Extends(work[t], x.work) /\ Len(x.work) = Len(work[t])
            /\ x.decisions \subseteq decisions /\ x.reports \subseteq reports
            /\ x.evidence \subseteq {m \in evidence : m[1] = t}
            /\ x.accepted \subseteq AcceptedTasks
<1>1. HasWork(s) /\ HasFeature(s)
  BY DEF Moves, HasWork, HasFeature
<1>2. seen[s] = task[about[s]] /\ about[s] \in Task
  BY MoveSteps
<1>3. work[about[s]] \in Seq(Revision)
  BY <1>2 DEF TypeOK
<1>4. QED
  BY <1>1, <1>2, <1>3 DEF FactsInv, WorkIsKnown, RecordsAreKnown, Moves

(* A status is entered by a move; anything else leaves the rows it is      *)
(* about alone but for what is only ever added.                            *)
LEMMA StatusSteps ==
  ASSUME TypeOK, LockInv, [Next]_vars, NEW t \in Task
  PROVE  \/ task'[t] = task[t]
         \/ /\ task[t].status \in {"ASSIGNED", "IN_PROGRESS", "REVISION_REQUIRED"}
            /\ task'[t].status = task[t].status
         \/ \E s \in Session, row \in TaskRow : about[s] = t /\ Moves(s, row)
<1>1. ASSUME NEW s \in Session, NEW row \in TaskRow, Moves(s, row), about[s] # t
      PROVE  task'[t] = task[t]
  BY <1>1, MoveSteps
<1>2. ASSUME NEW s \in Session, CommitHandover(s)
      PROVE  \/ task'[t] = task[t]
             \/ /\ task[t].status \in {"ASSIGNED", "IN_PROGRESS", "REVISION_REQUIRED"}
                /\ task'[t].status = task[t].status
  BY <1>2, HandoverSteps
<1>3. QED
  BY <1>1, <1>2, TaskSteps DEF LockInv

LEMMA NextReady ==
  ASSUME TypeOK, LockInv, FactsInv, ReadyAfterItsDependencies, [Next]_vars
  PROVE  ReadyAfterItsDependencies'
<1> DEFINE Waiting == {"CREATED", "PENDING_DEPENDENCIES"}
<1> SUFFICES ASSUME NEW t \in Task, task'[t].status \notin Waiting
             PROVE  \A d \in Dependencies[t] : task'[d].status = "ACCEPTED"
  BY DEF ReadyAfterItsDependencies
<1>1. Dependencies[t] \subseteq Task
  BY TaskKernelAssumption
<1>2. SUFFICES \A d \in Dependencies[t] : task[d].status = "ACCEPTED"
  BY <1>1, AcceptanceSteps
<1>3. CASE task[t].status \notin Waiting
  BY <1>3 DEF ReadyAfterItsDependencies
<1>4. CASE task[t].status \in Waiting
  <2>1. PICK s \in Session, row \in TaskRow : about[s] = t /\ Moves(s, row)
    BY <1>4, StatusSteps
  <2>2. /\ task'[t].status = row.status
        /\ \E by \in Initiator : MachineAllows(TaskEdges, task[t].status, row.status, by)
    BY <2>1, MoveSteps
  <2>3. row.status = "READY"
    <3>1. \A to \in TaskStatus : \A by :
            MachineAllows(TaskEdges, task[t].status, to, by) => to \in Waiting \cup {"READY"}
      BY <1>4 DEF MachineAllows, Defines, TaskEdges, Edge
    <3>2. QED
      BY <2>2, <3>1 DEF TaskRow
  <2>4. "DEPENDENCIES_ACCEPTED" \in Judged(TaskEdges, task[t].status, row.status)
    BY <2>2, <2>3, WaysIn
  <2>5. Dependencies[t] \subseteq facts[s].accepted /\ facts[s].accepted \subseteq AcceptedTasks
    BY <2>1, <2>4, JudgedRows DEF RulesPass, DependenciesAccepted
  <2>6. QED
    BY <2>5 DEF AcceptedTasks
<1>5. QED
  BY <1>3, <1>4

(* While a Task is under review or past it, nothing is handed over.        *)
UnderReview == {"IN_REVIEW", "IN_QA", "ACCEPTED"}

LEMMA NextReviewer ==
  ASSUME TypeOK, LockInv, FactsInv, ReviewerIsNoAuthor, [Next]_vars
  PROVE  ReviewerIsNoAuthor'
<1> SUFFICES ASSUME NEW t \in Task, task'[t].status \in UnderReview
             PROVE  /\ task'[t].reviewer # task'[t].worker
                    /\ \A r \in Rows(work'[t]) : r.author # task'[t].reviewer
  BY DEF ReviewerIsNoAuthor, UnderReview
<1>0. work[t] \in Seq(Revision) /\ work'[t] \in Seq(Revision) /\ task[t] \in TaskRow
  BY NextTypes DEF TypeOK
<1>1. task'[t].reviewer # task'[t].worker
  <2>1. Constructible(t, task'[t])
    BY NextTypes DEF TypeOK
  <2>2. QED
    BY <2>1 DEF Constructible, Unassigned, UnderReview
<1>2. CASE \E s \in Session : about[s] = t /\ CommitHandover(s)
  <2>1. task'[t].status \in {"ASSIGNED", "IN_PROGRESS", "REVISION_REQUIRED"}
    BY <1>2, HandoverSteps
  <2>2. QED
    BY <2>1 DEF UnderReview
<1>3. CASE ~ \E s \in Session : about[s] = t /\ CommitHandover(s)
  <2>1. Extends(work'[t], work[t]) /\ Len(work'[t]) = Len(work[t])
    BY <1>3, WorkSteps
  <2>2. \A r \in Rows(work'[t]) : \E o \in Rows(work[t]) : r.author = o.author
    BY <1>0, <2>1 DEF Extends, Rows
  <2>3. SUFFICES \A r \in Rows(work[t]) : r.author # task'[t].reviewer
    BY <1>1, <2>2
  <2>4. CASE task'[t] = task[t]
    BY <2>4 DEF ReviewerIsNoAuthor, UnderReview
  <2>5. ASSUME NEW s \in Session, NEW row \in TaskRow, about[s] = t, Moves(s, row)
        PROVE  \A r \in Rows(work[t]) : r.author # task'[t].reviewer
    <3>1. /\ task'[t].status = row.status /\ task'[t].reviewer = row.reviewer
          /\ \E by \in Initiator : MachineAllows(TaskEdges, task[t].status, row.status, by)
          /\ seen[s] = task[t]
      BY <2>5, MoveSteps
    <3>2. /\ row.reviewer = judged[s].reviewer
          /\ facts[s].work \in Seq(Revision)
          /\ Extends(work[t], facts[s].work) /\ Len(facts[s].work) = Len(work[t])
      BY <2>5, JudgedRows
    <3>3. CASE row.status = "IN_REVIEW"
      <4>1. "REVIEWER_ASSIGNED" \in Judged(TaskEdges, task[t].status, row.status)
        BY <3>1, <3>3, WaysIn
      <4>2. ReviewerAssigned(t, judged[s], facts[s])
        BY <2>5, <4>1, JudgedRows DEF RulesPass
      <4>3. \A r \in Rows(facts[s].work) : r.author # judged[s].reviewer
        BY <4>2 DEF ReviewerAssigned, WorkAuthors
      <4>4. \A r \in Rows(work[t]) : \E o \in Rows(facts[s].work) : r.author = o.author
        BY <1>0, <3>2 DEF Extends, Rows
      <4>5. QED
        BY <3>1, <3>2, <4>3, <4>4
    <3>4. CASE row.status \in {"IN_QA", "ACCEPTED"}
      <4>1. task[t].status \in UnderReview
        BY <3>1, <3>4, WaysIn DEF UnderReview
      <4>2. judged[s] = seen[s]
        BY <2>5, <3>4 DEF Moves
      <4>3. QED
        BY <3>1, <3>2, <4>1, <4>2 DEF ReviewerIsNoAuthor, UnderReview
    <3>5. QED
      BY <3>1, <3>3, <3>4 DEF UnderReview
  <2>6. QED
    BY <2>4, <2>5, StatusSteps DEF UnderReview
<1>4. QED
  BY <1>2, <1>3

(* What a submission is judged by, of the rows it is given.                *)
MeetsTheStandard(t, n, marks, filed, rows) ==
  /\ t \in Backend
  /\ SystemEvidenceType \subseteq {m[3] : m \in {e \in marks : e[1] = t}}
                               \cup UNION {q.kind.evidence : q \in filed}
  /\ \E r \in Rows(rows) : r.number = n /\ r.package # "NONE"

LEMMA StandardIsKept ==
  ASSUME NEW t, NEW n, NEW marks, NEW more, NEW filed, NEW further,
         NEW rows \in Seq(Revision), NEW later \in Seq(Revision),
         marks \subseteq more, filed \subseteq further, Extends(later, rows),
         MeetsTheStandard(t, n, marks, filed, rows)
  PROVE  MeetsTheStandard(t, n, more, further, later)
<1>1. {m[3] : m \in {e \in marks : e[1] = t}} \subseteq {m[3] : m \in {e \in more : e[1] = t}}
  OBVIOUS
<1>2. UNION {q.kind.evidence : q \in filed} \subseteq UNION {q.kind.evidence : q \in further}
  OBVIOUS
<1>3. \E r \in Rows(later) : r.number = n /\ r.package # "NONE"
  <2>1. PICK i \in 1..Len(rows) : rows[i].number = n /\ rows[i].package # "NONE"
    BY DEF MeetsTheStandard, Rows
  <2>2. i \in 1..Len(later) /\ later[i].number = n /\ later[i].package # "NONE"
    BY <2>1 DEF Extends
  <2>3. QED
    BY <2>2 DEF Rows
<1>4. QED
  BY <1>1, <1>2, <1>3 DEF MeetsTheStandard

(* A Work Package past DRAFT is complete, whoever edits it.                *)
LEMMA SubmittedPackagesAreComplete ==
  ASSUME NEW rows \in Seq(Revision), NEW r \in Rows(rows), r.package # "NONE"
  PROVE  r.package = "DRAFT" \/ (r.package = "SUBMITTED" /\ r.content = Content)
BY DEF Rows, Revision, Packed

Handed == {"SUBMITTED", "IN_REVIEW", "IN_QA", "ACCEPTED"}

LEMMA NextStandard ==
  ASSUME TypeOK, LockInv, FactsInv, SubmittedMeetsTheStandard, [Next]_vars
  PROVE  SubmittedMeetsTheStandard'
<1> SUFFICES ASSUME NEW t \in Task, task'[t].status \in Handed
             PROVE  MeetsTheStandard(t, task'[t].revision, evidence', reports', work'[t])
  <2>1. \A t \in Task : work'[t] \in Seq(Revision)
    BY NextTypes DEF TypeOK
  <2>2. QED
    BY <2>1, SubmittedPackagesAreComplete DEF SubmittedMeetsTheStandard, MeetsTheStandard, Handed
<1>0. work[t] \in Seq(Revision) /\ work'[t] \in Seq(Revision)
  BY NextTypes DEF TypeOK
<1>1. Extends(work'[t], work[t]) /\ evidence \subseteq evidence' /\ reports \subseteq reports'
  BY WorkSteps, RecordSteps
<1>2. SUFFICES MeetsTheStandard(t, task'[t].revision, evidence, reports, work[t])
  BY <1>0, <1>1, StandardIsKept
<1>3. ASSUME task[t].status \in Handed
      PROVE  MeetsTheStandard(t, task[t].revision, evidence, reports, work[t])
  BY <1>3 DEF SubmittedMeetsTheStandard, MeetsTheStandard, Handed
<1>4. CASE task'[t] = task[t]
  BY <1>3, <1>4
<1>5. ASSUME NEW s \in Session, NEW row \in TaskRow, about[s] = t, Moves(s, row)
      PROVE  MeetsTheStandard(t, task'[t].revision, evidence, reports, work[t])
  <2>1. /\ task'[t].status = row.status /\ task'[t].revision = task[t].revision
        /\ \E by \in Initiator : MachineAllows(TaskEdges, task[t].status, row.status, by)
    BY <1>5, MoveSteps
  <2>2. CASE row.status # "SUBMITTED"
    <3>1. task[t].status \in Handed
      BY <2>1, <2>2, WaysIn DEF Handed
    <3>2. QED
      BY <1>3, <2>1, <3>1
  <2>3. CASE row.status = "SUBMITTED"
    <3>1. {"WORK_PACKAGE_PRESENT", "MANDATORY_SYSTEM_EVIDENCE_ATTACHED"}
            \subseteq Judged(TaskEdges, task[t].status, row.status)
      BY <2>1, <2>3, WaysIn
    <3>2. /\ judged[s].revision = task[t].revision
          /\ facts[s].work \in Seq(Revision) /\ Extends(work[t], facts[s].work)
          /\ facts[s].reports \subseteq reports
          /\ facts[s].evidence \subseteq {m \in evidence : m[1] = t}
      BY <1>5, JudgedRows
    <3>3. WorkPackage(judged[s], facts[s]) # {} /\ SystemEvidence(t, facts[s])
      BY <1>5, <3>1, JudgedRows DEF RulesPass
    <3>4. MeetsTheStandard(t, task[t].revision, facts[s].evidence, facts[s].reports,
                           facts[s].work)
      <4>1. {e \in facts[s].evidence : e[1] = t} = facts[s].evidence
        BY <3>2
      <4>2. QED
        BY <3>2, <3>3, <4>1 DEF MeetsTheStandard, SystemEvidence, WorkPackage, ActiveRevision
    <3>5. facts[s].evidence \subseteq evidence
      BY <3>2
    <3>6. QED
      BY <1>0, <2>1, <3>2, <3>4, <3>5, StandardIsKept
  <2>4. QED
    BY <2>2, <2>3
<1>6. QED
  BY <1>4, <1>5, StatusSteps DEF Handed

(* AcceptedIsVerified rests on what the step before it established, and on *)
(* no two reports being dated the same.                                    *)
Approved(t, n) == \E d \in decisions : d.task = t /\ d.revision = n /\ d.approved

ApprovedBeforeQA ==
  \A t \in Task : task[t].status \in {"IN_QA", "ACCEPTED"} => Approved(t, task[t].revision)

DatesDiffer == \A p, q \in reports : p.at = q.at => p = q

VerificationInv == ApprovedBeforeQA /\ DatesDiffer /\ AcceptedIsVerified

LEMMA NextDates ==
  ASSUME DatesDiffer, [Next]_vars
  PROVE  DatesDiffer'
<1>1. ASSUME NEW t \in Task, NEW n \in 1..Len(work[t]), RecordReport(t, n) PROVE DatesDiffer'
  BY <1>1 DEF RecordReport, DatesDiffer
<1>2. CASE reports' = reports
  BY <1>2 DEF DatesDiffer
<1>3. QED
  BY <1>1, <1>2 DEF Next, vars, records, OpenTask, SelectReviewer, LoadWork,
     LoadFeature, Refuse, CommitTransition, CommitAssignment, CommitRouting, CommitHandover,
     Rollback, Allow, RevisePackage, SubmitPackage, AttachEvidence, RecordDecision, Deactivate,
     SupersedePlan

LEMMA NextVerification ==
  ASSUME TypeOK, LockInv, FactsInv, VerificationInv, [Next]_vars
  PROVE  VerificationInv'
<1> DEFINE Passing(t, n) ==
      \E q \in reports : /\ q.task = t /\ q.revision = n
                         /\ q.kind.passed /\ q.kind.tests /\ q.kind.output
<1>1. ASSUME NEW t \in Task, NEW s \in Session, NEW row \in TaskRow, about[s] = t, Moves(s, row)
      PROVE  /\ row.status = "IN_QA" => Approved(t, task[t].revision)
             /\ row.status = "ACCEPTED" => Passing(t, task[t].revision)
  <2>1. \E by \in Initiator : MachineAllows(TaskEdges, task[t].status, row.status, by)
    BY <1>1, MoveSteps
  <2>2. /\ judged[s].revision = task[t].revision
        /\ facts[s].decisions \subseteq decisions /\ facts[s].reports \subseteq reports
    BY <1>1, JudgedRows
  <2>3. ASSUME row.status = "IN_QA" PROVE Approved(t, task[t].revision)
    <3>1. "REVIEW_DECISION_APPROVED" \in Judged(TaskEdges, task[t].status, row.status)
      BY <2>1, <2>3, WaysIn
    <3>2. \E d \in DecisionsOn(t, judged[s], facts[s]) : d.approved
      BY <1>1, <3>1, JudgedRows DEF RulesPass
    <3>3. QED
      BY <2>2, <3>2 DEF DecisionsOn, ActiveRevision, Approved
  <2>4. ASSUME row.status = "ACCEPTED" PROVE Passing(t, task[t].revision)
    <3>1. {"QA_REPORT_PASSED", "TEST_EXECUTION_EVIDENCE_PRESENT"}
            \subseteq Judged(TaskEdges, task[t].status, row.status)
      BY <2>1, <2>4, WaysIn
    <3>2. QAReportPassed(t, judged[s], facts[s]) /\ TestExecutionEvidence(t, judged[s], facts[s])
      BY <1>1, <3>1, JudgedRows DEF RulesPass
    <3> DEFINE filed == ReportsOn(t, judged[s], facts[s])
    <3>3. PICK p \in filed : (\A o \in filed : p.at <= o.at) /\ p.kind.passed
      BY <3>2 DEF QAReportPassed
    <3>4. PICK q \in filed : /\ \A o \in filed : q.at <= o.at
                             /\ q.kind.tests /\ q.kind.output
      BY <3>2 DEF TestExecutionEvidence
    <3>5. filed \subseteq reports
      BY <2>2 DEF ReportsOn
    <3>6. p = q
      <4>1. p.at \in Nat /\ q.at \in Nat
        BY <3>5 DEF TypeOK, QAReport
      <4>2. p.at <= q.at /\ q.at <= p.at
        BY <3>3, <3>4
      <4>3. p.at = q.at
        BY <4>1, <4>2
      <4>4. QED
        BY <3>5, <4>3 DEF VerificationInv, DatesDiffer
    <3>7. p.task = t /\ p.revision = task[t].revision
      BY <2>2 DEF ReportsOn, ActiveRevision
    <3>8. QED
      BY <3>3, <3>4, <3>5, <3>6, <3>7
  <2>5. QED
    BY <2>3, <2>4
<1>2. decisions \subseteq decisions' /\ reports \subseteq reports'
  BY RecordSteps
<1> HIDE DEF Passing
<1>3. ApprovedBeforeQA'
  <2> SUFFICES ASSUME NEW t \in Task, task'[t].status \in {"IN_QA", "ACCEPTED"}
               PROVE  Approved(t, task'[t].revision)
    BY <1>2 DEF ApprovedBeforeQA, Approved
  <2>1. CASE task'[t] = task[t]
    BY <2>1 DEF VerificationInv, ApprovedBeforeQA
  <2>2. ASSUME NEW s \in Session, NEW row \in TaskRow, about[s] = t, Moves(s, row)
        PROVE  Approved(t, task'[t].revision)
    <3>1. /\ task'[t].status = row.status /\ task'[t].revision = task[t].revision
          /\ \E by \in Initiator : MachineAllows(TaskEdges, task[t].status, row.status, by)
      BY <2>2, MoveSteps
    <3>2. row.status = "ACCEPTED" => task[t].status = "IN_QA"
      BY <3>1, WaysIn
    <3>3. QED
      BY <1>1, <2>2, <3>1, <3>2 DEF VerificationInv, ApprovedBeforeQA
  <2>3. QED
    BY <2>1, <2>2, StatusSteps
<1>4. AcceptedIsVerified'
  <2> SUFFICES ASSUME NEW t \in Task, task'[t].status = "ACCEPTED"
               PROVE  Passing(t, task'[t].revision)
    BY <1>2, <1>3 DEF AcceptedIsVerified, ApprovedBeforeQA, Approved, Passing
  <2>1. CASE task'[t] = task[t]
    BY <2>1 DEF VerificationInv, AcceptedIsVerified, Passing
  <2>2. ASSUME NEW s \in Session, NEW row \in TaskRow, about[s] = t, Moves(s, row)
        PROVE  Passing(t, task'[t].revision)
    <3>1. task'[t].status = row.status /\ task'[t].revision = task[t].revision
      BY <2>2, MoveSteps
    <3>2. QED
      BY <1>1, <2>2, <3>1
  <2>3. QED
    BY <2>1, <2>2, StatusSteps
<1>5. QED
  BY <1>3, <1>4, NextDates DEF VerificationInv

(* Judged on the Revision that is the active one still, an acceptance has  *)
(* behind it the first of the reports it was shown.                        *)
LEMMA FirstReportStep ==
  ASSUME TypeOK, LockInv, FactsInv, [Next]_vars, NEW s \in Session,
         pc[s] = "judging", pc'[s] = "idle",
         task[about[s]].status # "ACCEPTED", task'[about[s]].status = "ACCEPTED"
  PROVE  \E q \in reports :
           /\ q.task = about[s] /\ q.revision = task[about[s]].revision /\ q.kind.passed
           /\ \A p \in reports :
                p.task = about[s] /\ p.revision = q.revision /\ p.at < q.at
                  => p \notin facts[s].reports
<1> DEFINE t == about[s]
<1>1. t \in Task /\ task'[t] # task[t]
  BY DEF TypeOK
<1>2. PICK u \in Session, row \in TaskRow : about[u] = t /\ Moves(u, row)
  BY <1>1, StatusSteps
<1>3. u = s
  BY <1>2 DEF Moves, Allow, Close, TypeOK
<1>4. /\ task'[t].status = row.status
      /\ \E by \in Initiator : MachineAllows(TaskEdges, task[t].status, row.status, by)
  BY <1>2, <1>3, MoveSteps DEF LockInv
<1>5. "QA_REPORT_PASSED" \in Judged(TaskEdges, task[t].status, row.status)
  <2>1. row.status = "ACCEPTED"
    BY <1>4
  <2>2. {"QA_REPORT_PASSED", "TEST_EXECUTION_EVIDENCE_PRESENT"}
          \subseteq Judged(TaskEdges, task[t].status, row.status)
    BY <1>4, <2>1, WaysIn
  <2>3. QED
    BY <2>2
<1>6. /\ judged[s].revision = task[t].revision
      /\ work[t] \in Seq(Revision) /\ facts[s].work \in Seq(Revision)
      /\ Extends(work[t], facts[s].work) /\ facts[s].reports \subseteq reports
  BY <1>2, <1>3, JudgedRows
<1>7. QAReportPassed(t, judged[s], facts[s])
  BY <1>2, <1>3, <1>5, JudgedRows DEF RulesPass
<1> DEFINE filed == ReportsOn(t, judged[s], facts[s])
<1>8. PICK q \in filed : (\A p \in filed : q.at <= p.at) /\ q.kind.passed
  BY <1>7 DEF QAReportPassed
<1>9. q \in reports /\ q.task = t /\ q.revision = task[t].revision
  BY <1>6, <1>8 DEF ReportsOn, ActiveRevision
<1>10. ASSUME NEW p \in reports, p.task = t, p.revision = q.revision, p.at < q.at,
              p \in facts[s].reports
       PROVE  FALSE
  <2>1. p \in filed
    BY <1>8, <1>10 DEF ReportsOn
  <2>2. q.at <= p.at /\ p.at \in Nat /\ q.at \in Nat
    BY <1>8, <1>9, <2>1 DEF TypeOK, QAReport
  <2>3. QED
    BY <1>10, <2>2
<1>11. QED
  BY <1>8, <1>9, <1>10

----------------------------------------------------------------------------
StoredInv ==
  /\ LockInv /\ FactsInv /\ ReadyAfterItsDependencies /\ ReviewerIsNoAuthor
  /\ SubmittedMeetsTheStandard /\ VerificationInv

LEMMA StoredIsInvariant == Spec => [](TypeOK /\ StoredInv)
<1>1. TypeOK /\ StoredInv /\ [Next]_vars => (TypeOK /\ StoredInv)'
  <2> SUFFICES ASSUME TypeOK, StoredInv, [Next]_vars PROVE (TypeOK /\ StoredInv)'
    OBVIOUS
  <2>1. LockInv /\ FactsInv /\ TypeOK'
    BY NextTypes DEF StoredInv
  <2>2. LockInv' /\ FactsInv'
    BY <2>1, NextSeen, NextJudged, NextWorkIsKnown, NextRecordsAreKnown DEF LockInv, FactsInv
  <2>3. QED
    BY <2>1, <2>2, NextReady, NextReviewer, NextStandard, NextVerification DEF StoredInv
<1>2. Init => TypeOK /\ StoredInv
  <2> SUFFICES ASSUME Init PROVE StoredInv
    BY InitTypes
  <2>1. FactsInv
    BY DEF Init, FactsInv, WorkIsKnown, RecordsAreKnown, HasWork, HasFeature
  <2>2. \A t \in Task : task[t].status = "CREATED"
    BY DEF Init, NewTask
  <2>3. QED
    BY <2>1, <2>2, InitLock DEF Init, StoredInv, ReadyAfterItsDependencies, ReviewerIsNoAuthor,
       SubmittedMeetsTheStandard, VerificationInv, ApprovedBeforeQA, DatesDiffer,
       AcceptedIsVerified
<1>3. QED
  BY <1>1, <1>2, PTL DEF Spec

(* No Task starts before what it depends on is done, though the statuses   *)
(* of its prerequisites are read under no lock (rules/dependencies.py).    *)
THEOREM TasksAwaitTheirDependencies == Spec => []ReadyAfterItsDependencies
<1>1. TypeOK /\ StoredInv => ReadyAfterItsDependencies
  BY DEF StoredInv
<1>2. QED
  BY <1>1, StoredIsInvariant, PTL

(* ADR-001: nobody reviews what he wrote, not even a Revision handed over  *)
(* while the router was choosing (routing.py, rules/authority.py).            *)
THEOREM ReviewersAreIndependent == Spec => []ReviewerIsNoAuthor
<1>1. TypeOK /\ StoredInv => ReviewerIsNoAuthor
  BY DEF StoredInv
<1>2. QED
  BY <1>1, StoredIsInvariant, PTL

(* What was submitted met the standard of its capability, on what is       *)
(* stored: a Work Package on the active Revision, complete or still a      *)
(* DRAFT, and each mandatory type on record among the Task's Evidence and  *)
(* the QA Reports (rules/submission.py, rules/evidence.py).                *)
THEOREM SubmissionsMeetTheStandard == Spec => []SubmittedMeetsTheStandard
<1>1. TypeOK /\ StoredInv => SubmittedMeetsTheStandard
  BY DEF StoredInv
<1>2. QED
  BY <1>1, StoredIsInvariant, PTL

(* The approval and the passing report an ACCEPTED Task rests on are of    *)
(* the Revision it ended with (rules/verification.py).                     *)
THEOREM AcceptedTasksAreVerified == Spec => []AcceptedIsVerified
<1>1. TypeOK /\ StoredInv => AcceptedIsVerified
  BY DEF StoredInv, VerificationInv
<1>2. QED
  BY <1>1, StoredIsInvariant, PTL

(* An acceptance rests on the first-dated of the reports it was shown,     *)
(* recorded in whatever order (rules/verification.py, _active_qa_report).  *)
THEOREM AcceptancesRestOnTheFirstReport == Spec => FirstReportDecides
<1>1. TypeOK /\ StoredInv /\ [Next]_vars
        => [\A s \in Session :
              LET t == about[s]
              IN /\ pc[s] = "judging" /\ pc'[s] = "idle"
                 /\ task[t].status # "ACCEPTED" /\ task'[t].status = "ACCEPTED"
                 => \E q \in reports :
                      /\ q.task = t /\ q.revision = task[t].revision /\ q.kind.passed
                      /\ \A p \in reports :
                           p.task = t /\ p.revision = q.revision /\ p.at < q.at
                             => p \notin facts[s].reports]_vars
  BY FirstReportStep DEF StoredInv
<1>2. QED
  BY <1>1, StoredIsInvariant, PTL DEF Spec, FirstReportDecides
=============================================================================
