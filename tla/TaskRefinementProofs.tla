------------------------- MODULE TaskRefinementProofs -------------------------
(***************************************************************************)
(* TaskKernel implements AtomicTasks: every step of the Kernel, seen in    *)
(* the stored rows alone, is an atomic step of one Task, a record added,   *)
(* or nothing.                                                             *)
(***************************************************************************)
EXTENDS TaskKernelProofs

(* The rows as AtomicTasks sees them, Task by Task.                        *)
Authors(rows)  == {r.author : r \in Rows(rows)}
Packaged(rows) == {r.number : r \in {x \in Rows(rows) : x.package # "NONE"}}
Evidenced(t, marks, filed) ==
  {m[3] : m \in {e \in marks : e[1] = t}} \cup UNION {q.kind.evidence : q \in filed}
ApprovedIn(given) == {<<d.task, d.revision>> : d \in {x \in given : x.approved}}
Passing(q) == q.kind.passed /\ q.kind.tests /\ q.kind.output
PassedIn(filed) == {<<q.task, q.revision>> : q \in {x \in filed : Passing(x)}}

SameRevisions(later, earlier) ==
  /\ Len(later) = Len(earlier)
  /\ \A i \in 1..Len(earlier) :
       /\ later[i].number = earlier[i].number /\ later[i].author = earlier[i].author
       /\ later[i].package = "NONE" <=> earlier[i].package = "NONE"

LEMMA SameRevisionsLookTheSame ==
  ASSUME NEW x \in Seq(Revision), NEW y \in Seq(Revision), SameRevisions(y, x)
  PROVE  Authors(y) = Authors(x) /\ Packaged(y) = Packaged(x)
<1>1. Len(x) = Len(y) /\ Len(x) \in Nat
  BY DEF SameRevisions
<1>2. \A r \in Rows(x) : \E z \in Rows(y) :
        z.number = r.number /\ z.author = r.author /\ (z.package = "NONE" <=> r.package = "NONE")
  BY <1>1 DEF SameRevisions, Rows
<1>3. \A r \in Rows(y) : \E z \in Rows(x) :
        z.number = r.number /\ z.author = r.author /\ (z.package = "NONE" <=> r.package = "NONE")
  BY <1>1 DEF SameRevisions, Rows
<1>4. QED
  BY <1>2, <1>3 DEF Authors, Packaged

(* Only a handover shows in the history: an edit keeps author, number and  *)
(* whether there is a Work Package.                                        *)
LEMMA EditsDoNotShow ==
  ASSUME TypeOK, [Next]_vars, ~\E s \in Session : CommitHandover(s), NEW t \in Task
  PROVE  SameRevisions(work'[t], work[t])
<1>1. work \in [Task -> Seq(Revision)] /\ work[t] \in Seq(Revision)
  BY DEF TypeOK
<1>2. ASSUME NEW u \in Task, NEW n \in 1..Len(work[u]), RevisePackage(u, n)
      PROVE  SameRevisions(work'[t], work[t])
  BY <1>1, <1>2 DEF RevisePackage, SameRevisions
<1>3. ASSUME NEW u \in Task, NEW n \in 1..Len(work[u]), SubmitPackage(u, n)
      PROVE  SameRevisions(work'[t], work[t])
  BY <1>1, <1>3 DEF SubmitPackage, SameRevisions
<1>4. CASE work' = work
  BY <1>1, <1>4 DEF SameRevisions
<1>5. QED
  BY <1>2, <1>3, <1>4 DEF Next, vars, records, OpenTask, SelectReviewer, LoadWork,
     LoadFeature, Refuse, CommitTransition, CommitAssignment, CommitRouting, Rollback, Allow,
     AttachEvidence, RecordDecision, RecordReport, Deactivate, SupersedePlan

LEMMA RecordsAreOnlyAdded ==
  ASSUME [Next]_vars
  PROVE  /\ \A t \in Task : Evidenced(t, evidence, reports) \subseteq
                              Evidenced(t, evidence', reports')
         /\ ApprovedIn(decisions) \subseteq ApprovedIn(decisions')
         /\ PassedIn(reports) \subseteq PassedIn(reports')
BY RecordSteps DEF Evidenced, ApprovedIn, PassedIn

(* The state AtomicTasks is given, by value.                               *)
LEMMA MappedRows ==
  ASSUME NEW t \in Task
  PROVE  /\ Atomic!Others(t) <=>
              \A u \in Task \ {t} : /\ task'[u].status = task[u].status
                                    /\ task'[u].worker = task[u].worker
                                    /\ task'[u].reviewer = task[u].reviewer
         /\ \A from, to : Atomic!Defines(Atomic!TaskEdges, from, to) <=>
              Defines(TaskEdges, from, to)
<1>1. Atomic!Others(t) <=>
        \A u \in Task \ {t} : /\ task'[u].status = task[u].status
                              /\ task'[u].worker = task[u].worker
                              /\ task'[u].reviewer = task[u].reviewer
  BY DEF Atomic!Others
<1>2. Atomic!TaskEdges = TaskEdges
  BY DEF Atomic!TaskEdges, TaskEdges, Atomic!Edge, Edge, Atomic!OS, OS, Atomic!Coordinator,
     Coordinator, Atomic!Worker, Worker, Atomic!Reviewer, Reviewer, Atomic!QA, QA
<1>3. QED
  BY <1>1, <1>2 DEF Atomic!Defines, Defines

(* The Task saved has the entitlement its new status asks for: the         *)
(* invariants say so of the state after the save, which changes no record  *)
(* and no other Task.                                                      *)
LEMMA SavedIsEntitled ==
  ASSUME TypeOK, StoredInv, TypeOK', StoredInv', NEW s \in Session, NEW row \in TaskRow,
         Moves(s, row)
  PROVE  LET t == about[s]  to == row.status
         IN /\ to = "READY" => \A d \in Dependencies[t] : task[d].status = "ACCEPTED"
            /\ to = "SUBMITTED" => /\ t \in Backend
                                   /\ SystemEvidenceType \subseteq
                                        Evidenced(t, evidence, reports)
                                   /\ task[t].revision \in Packaged(work[t])
            /\ to = "IN_QA" => <<t, task[t].revision>> \in ApprovedIn(decisions)
            /\ to = "ACCEPTED" => <<t, task[t].revision>> \in PassedIn(reports)
<1> DEFINE t == about[s]
           to == row.status
<1>1. /\ t \in Task /\ task'[t].status = to /\ task'[t].revision = task[t].revision
      /\ \A u \in Task \ {t} : task'[u] = task[u]
      /\ work' = work /\ evidence' = evidence /\ decisions' = decisions /\ reports' = reports
  BY MoveSteps DEF StoredInv
<1>2. to = "READY" => \A d \in Dependencies[t] : task[d].status = "ACCEPTED"
  <2>1. \A d \in Dependencies[t] : d \in Task \ {t}
    BY <1>1, TaskKernelAssumption
  <2>2. ReadyAfterItsDependencies'
    BY DEF StoredInv
  <2>3. QED
    BY <1>1, <2>1, <2>2 DEF ReadyAfterItsDependencies
<1>3. to = "SUBMITTED" => /\ t \in Backend
                          /\ SystemEvidenceType \subseteq Evidenced(t, evidence, reports)
                          /\ task[t].revision \in Packaged(work[t])
  <2>1. SubmittedMeetsTheStandard'
    BY DEF StoredInv
  <2>2. QED
    BY <1>1, <2>1 DEF SubmittedMeetsTheStandard, Evidenced, Packaged
<1>4. to = "IN_QA" => <<t, task[t].revision>> \in ApprovedIn(decisions)
  <2>1. ApprovedBeforeQA'
    BY DEF StoredInv, VerificationInv
  <2>2. QED
    BY <1>1, <2>1 DEF ApprovedBeforeQA, Approved, ApprovedIn
<1>5. to = "ACCEPTED" => <<t, task[t].revision>> \in PassedIn(reports)
  <2>1. AcceptedIsVerified'
    BY DEF StoredInv, VerificationInv
  <2>2. QED
    BY <1>1, <2>1 DEF AcceptedIsVerified, PassedIn, Passing
<1>6. QED
  BY <1>2, <1>3, <1>4, <1>5

(* And only routing names a Reviewer, who did not do the work.             *)
LEMMA SavedActorsAreNamedOnce ==
  ASSUME TypeOK, StoredInv, TypeOK', StoredInv', NEW s \in Session, NEW row \in TaskRow,
         Moves(s, row)
  PROVE  LET t == about[s]
         IN /\ row.status = "ASSIGNED" \/ row.worker = task[t].worker
            /\ row.status = "ASSIGNED" => task[t].worker = NoActor
            /\ row.status = "IN_REVIEW" \/ row.reviewer = task[t].reviewer
            /\ row.status = "IN_REVIEW" =>
                 row.reviewer \in Capable[t] \ (Authors(work[t]) \cup {row.worker})
<1> DEFINE t == about[s]
<1>1. /\ t \in Task /\ seen[s] = task[t] /\ task'[t].status = row.status
      /\ task'[t].worker = row.worker /\ task'[t].reviewer = row.reviewer
      /\ row.worker = task[t].worker \/ row.status = "ASSIGNED"
      /\ work' = work
  BY MoveSteps DEF StoredInv
<1>2. PICK by \in Initiator : MachineAllows(TaskEdges, task[t].status, row.status, by)
  BY MoveSteps DEF StoredInv
<1>3. row.status = "ASSIGNED" => task[t].worker = NoActor
  <2>1. row.status = "ASSIGNED" => task[t].status = "READY"
    BY <1>2, WaysIn
  <2>2. Constructible(t, task[t])
    BY <1>1 DEF TypeOK
  <2>3. QED
    BY <2>1, <2>2 DEF Constructible, Unassigned
<1>4. row.status = "IN_REVIEW" \/ row.reviewer = task[t].reviewer
  BY <1>1 DEF Moves
<1>5. ASSUME row.status = "IN_REVIEW"
      PROVE  row.reviewer \in Capable[t] \ (Authors(work[t]) \cup {row.worker})
  <2>1. "REVIEWER_ASSIGNED" \in Judged(TaskEdges, task[t].status, row.status)
    BY <1>2, <1>5, WaysIn
  <2>2. ReviewerAssigned(t, judged[s], facts[s]) /\ row.reviewer = judged[s].reviewer
    BY <2>1, JudgedRows DEF StoredInv, RulesPass
  <2>3. row.reviewer \in Capable[t]
    BY <2>2 DEF ReviewerAssigned, CanReview
  <2>4. ReviewerIsNoAuthor'
    BY DEF StoredInv
  <2>5. row.reviewer # row.worker /\ \A r \in Rows(work[t]) : r.author # row.reviewer
    BY <1>1, <1>5, <2>4 DEF ReviewerIsNoAuthor
  <2>6. QED
    BY <2>3, <2>5 DEF Authors
<1>6. QED
  BY <1>1, <1>3, <1>4, <1>5

LEMMA SavesAdvance ==
  ASSUME TypeOK, StoredInv, TypeOK', StoredInv', NEW s \in Session, NEW row \in TaskRow,
         Moves(s, row), NEW t \in Task, t = about[s]
  PROVE  Atomic!Advance(t)
<1>1. /\ t \in Task /\ task'[t].status = row.status /\ task'[t].worker = row.worker
      /\ task'[t].reviewer = row.reviewer
      /\ \A u \in Task : task'[u].revision = task[u].revision
      /\ \A u \in Task \ {t} : task'[u] = task[u]
      /\ UNCHANGED <<work, evidence, decisions, reports>>
  BY MoveSteps DEF StoredInv
<1>2. Atomic!Others(t)
  BY <1>1, MappedRows
<1>3. Atomic!Defines(Atomic!TaskEdges, task[t].status, row.status)
  <2>1. \E by \in Initiator : MachineAllows(TaskEdges, task[t].status, row.status, by)
    BY MoveSteps DEF StoredInv
  <2>2. Defines(TaskEdges, task[t].status, row.status)
    BY <2>1 DEF MachineAllows
  <2>3. QED
    BY <1>1, <2>2, MappedRows
<1>4. Atomic!Entitled(t, row.status)
  <2>1. Dependencies[t] \subseteq Task
    BY <1>1, TaskKernelAssumption
  <2>2. QED
    BY <1>1, <2>1, SavedIsEntitled DEF Atomic!Entitled, Evidenced, Packaged, ApprovedIn,
       PassedIn, Passing
<1>5. /\ row.status = "ASSIGNED" \/ row.worker = task[t].worker
      /\ row.status = "ASSIGNED" => task[t].worker = NoActor
      /\ row.status = "IN_REVIEW" \/ row.reviewer = task[t].reviewer
      /\ row.status = "IN_REVIEW" =>
           row.reviewer \in Capable[t] \ ({r.author : r \in Rows(work[t])} \cup {row.worker})
  BY SavedActorsAreNamedOnce DEF Authors
<1>6. [u \in Task |-> task[u].revision]' = [u \in Task |-> task[u].revision]
  BY <1>1
<1>7. QED
  BY <1>1, <1>2, <1>3, <1>4, <1>5, <1>6 DEF Atomic!Advance, Atomic!records

LEMMA HandoversHandOver ==
  ASSUME TypeOK, LockInv, [Next]_vars, NEW s \in Session, CommitHandover(s),
         NEW t \in Task, t = about[s]
  PROVE  Atomic!HandOver(t)
<1> DEFINE n == task[t].revision + 1
<1>1. /\ t \in Task /\ seen[s] = task[t]
      /\ task[t].status \in {"ASSIGNED", "IN_PROGRESS", "REVISION_REQUIRED"}
      /\ task'[t].status = task[t].status /\ task'[t].worker = task[t].worker
      /\ task'[t].reviewer = task[t].reviewer /\ task'[t].revision = n
      /\ \A u \in Task \ {t} : task'[u] = task[u] /\ work'[u] = work[u]
  BY HandoverSteps
<1>2. PICK h \in Handover :
        work' = [work EXCEPT ![t] =
          Append(@, [number |-> NextRevision(seen[s]), author |-> h.author,
                     package |-> h.package, content |-> h.content])]
  BY DEF CommitHandover
<1> DEFINE r == [number |-> n, author |-> h.author, package |-> h.package,
                 content |-> h.content]
<1>3. r.number = n /\ r.author = h.author /\ r.package = h.package /\ h.author \in Actor
  BY TaskKernelAssumption DEF Parcel
<1>4. work'[t] = Append(work[t], r) /\ work[t] \in Seq(Revision)
  <2>1. work' = [work EXCEPT ![t] = Append(@, r)]
    BY <1>1, <1>2 DEF NextRevision
  <2> HIDE DEF r
  <2>2. QED
    BY <1>1, <2>1 DEF TypeOK
<1>5. Rows(work'[t]) = Rows(work[t]) \cup {r}
  <2> HIDE DEF r
  <2>1. Len(work[t]) \in Nat
    BY <1>4
  <2>2. QED
    BY <1>4, <2>1 DEF Rows
<1> DEFINE more == IF h.package = "NONE" THEN {} ELSE {n}
<1>6. /\ Authors(work'[t]) = Authors(work[t]) \cup {h.author}
      /\ Packaged(work'[t]) = Packaged(work[t]) \cup more
  <2> HIDE DEF r
  <2>1. QED
    BY <1>3, <1>5 DEF Authors, Packaged
<1> HIDE DEF r
<1>7. [u \in Task |-> task'[u].revision] = [[u \in Task |-> task[u].revision] EXCEPT ![t] = @ + 1]
  BY <1>1
<1>8. [u \in Task |-> Authors(work'[u])] =
        [[u \in Task |-> Authors(work[u])] EXCEPT ![t] = @ \cup {h.author}]
  BY <1>1, <1>6
<1>9. [u \in Task |-> Packaged(work'[u])] =
        [[u \in Task |-> Packaged(work[u])] EXCEPT ![t] = @ \cup more]
  BY <1>1, <1>6
<1>10. more \in {{}, {n}}
  OBVIOUS
<1> HIDE DEF more
<1>11. \A u \in Task : Evidenced(u, evidence, reports) \subseteq Evidenced(u, evidence', reports')
  BY RecordsAreOnlyAdded
<1>12. decisions' = decisions /\ reports' = reports
  BY DEF CommitHandover
<1>13. /\ [u \in Task |-> task'[u].status] = [u \in Task |-> task[u].status]
       /\ [u \in Task |-> task'[u].worker] = [u \in Task |-> task[u].worker]
       /\ [u \in Task |-> task'[u].reviewer] = [u \in Task |-> task[u].reviewer]
  BY <1>1
<1>14. QED
  BY <1>1, <1>3, <1>7, <1>8, <1>9, <1>10, <1>11, <1>12, <1>13 DEF Atomic!HandOver,
     Atomic!rows, Authors, Packaged, Evidenced

LEMMA RestRecords ==
  ASSUME TypeOK, [Next]_vars, task' = task, ~\E s \in Session : CommitHandover(s)
  PROVE  Atomic!Record
<1>1. \A t \in Task : work[t] \in Seq(Revision) /\ work'[t] \in Seq(Revision)
  BY NextTypes DEF TypeOK
<1>2. \A t \in Task : /\ Authors(work'[t]) = Authors(work[t])
                      /\ Packaged(work'[t]) = Packaged(work[t])
  BY <1>1, EditsDoNotShow, SameRevisionsLookTheSame
<1>3. /\ \A t \in Task : Evidenced(t, evidence, reports) \subseteq
                           Evidenced(t, evidence', reports')
      /\ ApprovedIn(decisions) \subseteq ApprovedIn(decisions')
      /\ PassedIn(reports) \subseteq PassedIn(reports')
  BY RecordsAreOnlyAdded
<1>4. QED
  BY <1>2, <1>3 DEF Atomic!Record, Atomic!rows, Authors, Packaged, Evidenced, ApprovedIn,
     PassedIn, Passing

LEMMA InitIsAtomic == Init => Atomic!Init
BY DEF Init, Atomic!Init, NewTask, Rows

(* Whoever reads the rows sees Tasks that move one at a time, each on what *)
(* is stored at that instant: the reads under no lock and the versioned    *)
(* UPDATE of transition_task, assign_task and route_for_review do not show.*)
THEOREM TheKernelIsAtomic == Spec => ImplementsAtomicTasks
<1>1. TypeOK /\ TypeOK' /\ StoredInv /\ StoredInv' /\ [Next]_vars => [Atomic!Next]_(Atomic!vars)
  <2> SUFFICES ASSUME TypeOK, TypeOK', StoredInv, StoredInv', [Next]_vars
               PROVE  Atomic!Next
    OBVIOUS
  <2>1. LockInv
    BY DEF StoredInv
  <2>2. ASSUME NEW s \in Session, CommitHandover(s) PROVE Atomic!Next
    <3>1. PICK t \in Task : t = about[s]
      BY DEF TypeOK
    <3>2. Atomic!HandOver(t)
      BY <2>1, <2>2, <3>1, HandoversHandOver
    <3>3. QED
      BY <3>1, <3>2 DEF Atomic!Next
  <2>3. ASSUME NEW s \in Session, NEW row \in TaskRow, Moves(s, row) PROVE Atomic!Next
    <3>1. PICK t \in Task : t = about[s]
      BY DEF TypeOK
    <3>2. Atomic!Advance(t)
      BY <2>3, <3>1, SavesAdvance
    <3>3. QED
      BY <3>1, <3>2 DEF Atomic!Next
  <2>4. CASE task' = task /\ ~\E s \in Session : CommitHandover(s)
    <3>1. Atomic!Record
      BY <2>4, RestRecords
    <3>2. QED
      BY <3>1 DEF Atomic!Next
  <2>5. QED
    BY <2>1, <2>2, <2>3, <2>4, TaskSteps DEF LockInv
<1>2. QED
  BY <1>1, InitIsAtomic, StoredIsInvariant, PTL DEF Spec, ImplementsAtomicTasks, Atomic!Spec

=============================================================================
