------------------------ MODULE FeatureKernelProofs ------------------------
(***************************************************************************)
(* Of FeatureKernel, for any number of Units of Work, plans, keys and      *)
(* reports: types, and what its optimistic locking keeps true.             *)
(***************************************************************************)
EXTENDS FeatureKernel, TLAPS

(* A task map is a function from task identifiers to the two statuses.     *)
LEMMA TaskMapIsFunction ==
  ASSUME NEW f
  PROVE  f \in TaskMap <=>
           \E T \in SUBSET TaskId : f \in [T -> {"OPEN", "ACCEPTED"}]
BY DEF TaskMap

LEMMA TaskMapDomain ==
  ASSUME NEW f \in TaskMap
  PROVE  DOMAIN f \subseteq TaskId /\ f \in [DOMAIN f -> {"OPEN", "ACCEPTED"}]
BY TaskMapIsFunction

LEMMA FeatureStates ==
  /\ "DRAFT" \in FeatureStatus /\ "IN_PROGRESS" \in FeatureStatus
  /\ NewFeature \in FeatureRow
  /\ NoPlan \in PlanRow
  /\ NoTarget \in Target
  /\ NoFacts \in Facts
  /\ NoDraft \subseteq Draft
<1>1. <<>> \in TaskMap
  <2>1. <<>> \in [{} -> {"OPEN", "ACCEPTED"}]
    OBVIOUS
  <2>2. QED
    BY <2>1, TaskMapIsFunction
<1>2. QED
  BY <1>1 DEF FeatureStatus, NewFeature, FeatureRow, NoPlan, PlanRow, Absent, NoTarget,
     Target, NoFacts, Facts, NoDraft

LEMMA InitTypes == Init => TypeOK
<1> SUFFICES ASSUME Init PROVE TypeOK
  OBVIOUS
<1>1. tasks \in TaskMap
  BY FeatureStates DEF Init, NoFacts, Facts
<1>2. ledger \in Seq(Line)
  BY DEF Init
<1>3. QED
  BY <1>1, <1>2, FeatureStates DEF Init, TypeOK

PCs == {"idle", "loaded", "tasks", "judging", "instantiating", "drafted", "stamping"}

SessionTypes ==
  /\ pc \in [Session -> PCs]
  /\ seen \in [Session -> FeatureRow]
  /\ target \in [Session -> Target]
  /\ facts \in [Session -> Facts]
  /\ draft \in [Session -> SUBSET Draft]
  /\ \A s \in Session : pc[s] = "instantiating" => target[s] # NoTarget

RowTypes ==
  /\ feature \in FeatureRow
  /\ plans \in [PlanId -> PlanRow]
  /\ tasks \in TaskMap
  /\ reports \subseteq Report
  /\ ledger \in Seq(Line)
  /\ refused \in BOOLEAN

LEMMA TypeParts == TypeOK <=> RowTypes /\ SessionTypes
BY DEF TypeOK, RowTypes, SessionTypes, PCs

LEMMA CloseTypes ==
  ASSUME SessionTypes, NEW s \in Session, Close(s)
  PROVE  SessionTypes'
BY FeatureStates DEF SessionTypes, Close, PCs

LEMMA SaveTypes ==
  ASSUME TypeOK, NEW s \in Session, NEW status \in FeatureStatus,
         NEW round \in Nat \ {0}, SaveFeature(s, status, round)
  PROVE  feature' \in FeatureRow /\ ledger' \in Seq(Line) /\ refused' \in BOOLEAN
<1>1. seen[s] \in FeatureRow
  BY DEF TypeOK
<1>2. [from |-> seen[s].status, to |-> status, round |-> round] \in Line
  BY <1>1 DEF Line, FeatureRow
<1>3. ledger' \in Seq(Line)
  BY <1>2 DEF SaveFeature, TypeOK
<1>4. feature.version + 1 \in Nat \ {0}
  BY DEF TypeOK, FeatureRow
<1>5. feature' \in FeatureRow /\ refused' \in BOOLEAN
  BY <1>4 DEF SaveFeature, FeatureRow
<1>6. QED
  BY <1>3, <1>5

LEMMA NextTypes == TypeOK /\ [Next]_vars => TypeOK'
<1> SUFFICES ASSUME TypeOK, [Next]_vars PROVE RowTypes' /\ SessionTypes'
  BY TypeParts DEF TypeOK, RowTypes, SessionTypes, PCs
<1>0. RowTypes /\ SessionTypes
  BY TypeParts
<1>1. ASSUME NEW s \in Session, OpenFeature(s) PROVE RowTypes' /\ SessionTypes'
  BY <1>0, <1>1 DEF OpenFeature, rows, RowTypes, SessionTypes, PCs
<1>2. ASSUME NEW s \in Session, NEW p \in PlanId, OpenPlan(s, p)
      PROVE  RowTypes' /\ SessionTypes'
  <2>1. [plan |-> p, row |-> plans[p]] \in Target
    BY <1>0 DEF RowTypes, Target
  <2>2. QED
    BY <1>0, <1>2, <2>1 DEF OpenPlan, rows, RowTypes, SessionTypes, PCs
<1>3. ASSUME NEW s \in Session, LoadTasks(s) PROVE RowTypes' /\ SessionTypes'
  BY <1>0, <1>3 DEF LoadTasks, rows, RowTypes, SessionTypes, PCs, Facts
<1>4. ASSUME NEW s \in Session, LoadPlansAndReports(s) PROVE RowTypes' /\ SessionTypes'
  <2>1. [p \in PlanId |-> IF p = target[s].plan THEN target[s].row ELSE plans[p]]
          \in [PlanId -> PlanRow]
    <3>1. target[s].row \in PlanRow
      BY <1>0, FeatureStates DEF SessionTypes, Target, NoTarget
    <3>2. QED
      BY <1>0, <3>1 DEF RowTypes
  <2>2. facts' \in [Session -> Facts]
    BY <1>0, <1>4, <2>1 DEF LoadPlansAndReports, RowTypes, SessionTypes, Facts
  <2>3. QED
    BY <1>0, <1>4, <2>2 DEF LoadPlansAndReports, rows, RowTypes, SessionTypes, PCs
<1>5. ASSUME NEW s \in Session, Refuse(s) PROVE RowTypes' /\ SessionTypes'
  BY <1>0, <1>5, CloseTypes DEF Refuse, RowTypes
<1>6. ASSUME NEW s \in Session, CommitTransition(s) PROVE RowTypes' /\ SessionTypes'
  <2>1. seen[s].round \in Nat \ {0}
    BY <1>0 DEF SessionTypes, FeatureRow
  <2>2. feature' \in FeatureRow /\ ledger' \in Seq(Line) /\ refused' \in BOOLEAN
    BY <1>6, <2>1, SaveTypes DEF CommitTransition
  <2>3. QED
    BY <1>0, <1>6, <2>2, CloseTypes DEF CommitTransition, RowTypes
<1>7. ASSUME NEW s \in Session, CommitRework(s) PROVE RowTypes' /\ SessionTypes'
  <2>1. seen[s].round + 1 \in Nat \ {0}
    BY <1>0 DEF SessionTypes, FeatureRow
  <2>2. feature' \in FeatureRow /\ ledger' \in Seq(Line) /\ refused' \in BOOLEAN
    BY <1>7, <2>1, SaveTypes, FeatureStates DEF CommitRework
  <2>3. QED
    BY <1>0, <1>7, <2>2, CloseTypes DEF CommitRework, RowTypes
<1>8. ASSUME NEW s \in Session, BeginInstantiate(s) PROVE RowTypes' /\ SessionTypes'
  BY <1>0, <1>8 DEF BeginInstantiate, rows, RowTypes, SessionTypes, PCs, Facts
<1>9. ASSUME NEW s \in Session, CommitActivation(s) PROVE RowTypes' /\ SessionTypes'
  <2> DEFINE p == target[s].plan
             new == {<<p, k, s>> : k \in Uninstantiated(s, p)}
  <2>1. PlanKeys[p] # {} /\ seen[s].round \in Nat \ {0}
    BY <1>0, <1>9 DEF CommitActivation, SessionTypes, FeatureRow
  <2>2. tasks' = [t \in DOMAIN tasks \cup new |->
                    IF t \in DOMAIN tasks THEN tasks[t] ELSE "OPEN"]
    BY <1>9 DEF CommitActivation
  <2>3. feature' \in FeatureRow /\ ledger' \in Seq(Line) /\ refused' \in BOOLEAN
    BY <1>9, <2>1, SaveTypes, FeatureStates DEF CommitActivation
  <2>4. target[s] \in [plan : PlanId, row : PlanRow]
    BY <1>0, <1>9 DEF CommitActivation, SessionTypes, Target
  <2>5. new \subseteq TaskId
    <3>1. p \in PlanId /\ PlanKeys[p] \subseteq Key
      BY <2>4, FeatureKernelAssumption
    <3>2. Uninstantiated(s, p) \subseteq Key
      BY <3>1 DEF Uninstantiated
    <3>3. QED
      BY <3>1, <3>2 DEF TaskId
  <2>6. DOMAIN tasks \subseteq TaskId /\ tasks \in [DOMAIN tasks -> {"OPEN", "ACCEPTED"}]
    BY <1>0, TaskMapDomain DEF RowTypes
  <2>7. tasks' \in TaskMap
    <3>1. tasks' \in [DOMAIN tasks \cup new -> {"OPEN", "ACCEPTED"}]
      BY <2>2, <2>6
    <3>2. DOMAIN tasks \cup new \subseteq TaskId
      BY <2>5, <2>6
    <3>3. QED
      BY <3>1, <3>2, TaskMapIsFunction
  <2>8. Activated(target[s].row) \in PlanRow
    BY <2>4 DEF Activated, PlanRow, PlanStatus
  <2>9. plans' \in [PlanId -> PlanRow]
    BY <1>0, <1>9, <2>8 DEF CommitActivation, RowTypes
  <2>10. QED
    BY <1>0, <1>9, <2>3, <2>7, <2>9, CloseTypes DEF CommitActivation, RowTypes
<1>10. ASSUME NEW s \in Session, NEW k \in ReportKind, WriteReport(s, k)
       PROVE  RowTypes' /\ SessionTypes'
  <2>1. [kind |-> k, written |-> feature.round] \in Draft
    BY <1>0, <1>10 DEF RowTypes, FeatureRow, Draft
  <2>2. QED
    BY <1>0, <1>10, <2>1 DEF WriteReport, rows, RowTypes, SessionTypes, PCs
<1>11. ASSUME NEW s \in Session, LoadForReport(s) PROVE RowTypes' /\ SessionTypes'
  BY <1>0, <1>11 DEF LoadForReport, rows, RowTypes, SessionTypes, PCs
<1>12. ASSUME NEW s \in Session, CommitReport(s) PROVE RowTypes' /\ SessionTypes'
  <2>1. \A d \in draft[s] :
          [kind |-> d.kind, round |-> seen[s].round, written |-> d.written] \in Report
    BY <1>0 DEF SessionTypes, FeatureRow, Draft, Report
  <2>2. reports' \subseteq Report
    BY <1>0, <1>12, <2>1 DEF CommitReport, StampedRound, RowTypes
  <2>3. QED
    BY <1>0, <1>12, <2>2, CloseTypes DEF CommitReport, RowTypes
<1>13. ASSUME NEW s \in Session, Rollback(s) PROVE RowTypes' /\ SessionTypes'
  BY <1>0, <1>13, CloseTypes DEF Rollback, rows, RowTypes
<1>14. ASSUME NEW p \in PlanId, AddPlan(p) PROVE RowTypes' /\ SessionTypes'
  BY <1>0, <1>14 DEF AddPlan, sessions, RowTypes, SessionTypes, PlanRow, PlanStatus
<1>15. ASSUME NEW p \in PlanId, SavePlan(p) PROVE RowTypes' /\ SessionTypes'
  <2>1. \A e \in CallerEdges : e.to \in PlanStatus
    BY FeatureKernelAssumption DEF PlanEdges, Edge, PlanStatus
  <2>2. plans' \in [PlanId -> PlanRow]
    BY <1>0, <1>15, <2>1 DEF SavePlan, RowTypes, PlanRow
  <2>3. QED
    BY <1>0, <1>15, <2>2 DEF SavePlan, sessions, RowTypes, SessionTypes
<1>16. ASSUME NEW t \in DOMAIN tasks, AcceptTask(t) PROVE RowTypes' /\ SessionTypes'
  <2>1. tasks' \in [DOMAIN tasks -> {"OPEN", "ACCEPTED"}] /\ DOMAIN tasks \subseteq TaskId
    BY <1>0, <1>16, TaskMapDomain DEF AcceptTask, RowTypes
  <2>2. tasks' \in TaskMap
    BY <2>1, TaskMapIsFunction
  <2>3. QED
    BY <1>0, <1>16, <2>2 DEF AcceptTask, sessions, RowTypes, SessionTypes
<1>17. CASE UNCHANGED vars
  BY <1>0, <1>17 DEF vars, RowTypes, SessionTypes
<1>18. QED
  BY <1>1, <1>2, <1>3, <1>4, <1>5, <1>6, <1>7, <1>8, <1>9, <1>10, <1>11, <1>12, <1>13,
     <1>14, <1>15, <1>16, <1>17 DEF Next

(* Rows and Units of Work are well formed.                                 *)
THEOREM FeatureKernelTypes == Spec => []TypeOK
BY InitTypes, NextTypes, PTL DEF Spec

----------------------------------------------------------------------------
(* Optimistic locking: what a Unit of Work holds of a row whose version    *)
(* has not moved is still the row.                                         *)

Loaded(s) == pc[s] \in {"loaded", "tasks", "judging", "instantiating", "stamping"}

SeenIsAVersion ==
  \A s \in Session : Loaded(s) =>
    /\ seen[s].version <= feature.version
    /\ seen[s].version = feature.version => seen[s] = feature

(* An activation has been permitted from a status that is not terminal.    *)
ActivationIsPermitted ==
  \A s \in Session : pc[s] = "instantiating" =>
    MachineAllows(FeatureEdges, seen[s].status, "IN_PROGRESS", Coordinator)

(* A Feature with no line in the ledger has not moved.                     *)
HistoryBegins == ledger = <<>> => feature = NewFeature

HistoryInv ==
  HistoryBegins /\ LedgerIsTheHistory /\ SeenIsAVersion /\ ActivationIsPermitted

(* Tasks are only added by a commit that moves the Feature's version, and  *)
(* acceptance and reports are never taken back.                            *)
FactsAreStable ==
  \A s \in Session : pc[s] \in {"tasks", "judging", "instantiating"} =>
    /\ DOMAIN facts[s].tasks \subseteq DOMAIN tasks
    /\ \A t \in DOMAIN facts[s].tasks :
         facts[s].tasks[t] = "ACCEPTED" => tasks[t] = "ACCEPTED"
    /\ seen[s].version = feature.version => DOMAIN tasks \subseteq DOMAIN facts[s].tasks

ReportsAreKept == \A s \in Session : facts[s].reports \subseteq reports

CertificationInv ==
  /\ HistoryInv /\ FactsAreStable /\ ReportsAreKept
  /\ AcceptedIsCertified /\ ValidationHasNothingOpen

----------------------------------------------------------------------------
(* Every step either leaves the Feature and its ledger alone or is a save  *)
(* of the loaded row along an edge its machine allows.                     *)
Saves(s) ==
  /\ Loaded(s) /\ Close(s)
  /\ \E to \in FeatureStatus, by \in Initiator, round \in {seen[s].round, seen[s].round + 1} :
       MachineAllows(FeatureEdges, seen[s].status, to, by) /\ SaveFeature(s, to, round)

LEMMA FeatureSteps ==
  ASSUME TypeOK, ActivationIsPermitted, [Next]_vars
  PROVE  \/ feature' = feature /\ ledger' = ledger
         \/ \E s \in Session : Saves(s)
<1> USE DEF Loaded, Saves, Permits
<1>1. ASSUME NEW s \in Session, CommitTransition(s) PROVE Saves(s)
  BY <1>1 DEF CommitTransition
<1>2. ASSUME NEW s \in Session, CommitRework(s) PROVE Saves(s)
  BY <1>2, FeatureStates DEF CommitRework
<1>3. ASSUME NEW s \in Session, CommitActivation(s) PROVE Saves(s)
  <2>1. MachineAllows(FeatureEdges, seen[s].status, "IN_PROGRESS", Coordinator)
    BY <1>3 DEF CommitActivation, ActivationIsPermitted
  <2>2. Coordinator \in Initiator
    BY DEF Initiator
  <2>3. QED
    BY <1>3, <2>1, <2>2, FeatureStates DEF CommitActivation
<1>4. CASE UNCHANGED vars
  BY <1>4 DEF vars
<1>5. QED
  BY <1>1, <1>2, <1>3, <1>4 DEF Next, OpenFeature, OpenPlan, LoadTasks, LoadPlansAndReports,
     Refuse, BeginInstantiate, WriteReport, LoadForReport, CommitReport, Rollback, AddPlan,
     SavePlan, AcceptTask, rows

(* A Unit of Work that holds the Feature's row has kept it, or has just    *)
(* read it.                                                                *)
LEMMA SeenSteps ==
  ASSUME TypeOK, [Next]_vars, NEW u \in Session, Loaded(u)'
  PROVE  \/ Loaded(u) /\ seen'[u] = seen[u]
         \/ seen'[u] = feature /\ feature' = feature
<1> USE DEF Loaded, TypeOK
<1>1. ASSUME NEW s \in Session, Close(s) PROVE Loaded(u) /\ seen'[u] = seen[u]
  BY <1>1 DEF Close
<1>2. ASSUME NEW s \in Session,
             OpenFeature(s) \/ LoadForReport(s) \/ \E p \in PlanId : OpenPlan(s, p)
      PROVE  \/ Loaded(u) /\ seen'[u] = seen[u]
             \/ seen'[u] = feature /\ feature' = feature
  BY <1>2 DEF OpenFeature, LoadForReport, OpenPlan, rows
<1>3. ASSUME NEW s \in Session,
             \/ LoadTasks(s) \/ LoadPlansAndReports(s) \/ BeginInstantiate(s)
             \/ \E k \in ReportKind : WriteReport(s, k)
      PROVE  Loaded(u) /\ seen'[u] = seen[u]
  BY <1>3 DEF LoadTasks, LoadPlansAndReports, BeginInstantiate, WriteReport
<1>4. ASSUME NEW s \in Session,
             \/ Refuse(s) \/ CommitTransition(s) \/ CommitRework(s) \/ CommitActivation(s)
             \/ CommitReport(s) \/ Rollback(s)
      PROVE  Close(s)
  BY <1>4 DEF Refuse, CommitTransition, CommitRework, CommitActivation, CommitReport, Rollback
<1>5. ASSUME NEW p \in PlanId, AddPlan(p) \/ SavePlan(p)
      PROVE  Loaded(u) /\ seen'[u] = seen[u]
  BY <1>5 DEF AddPlan, SavePlan, sessions
<1>6. ASSUME NEW t \in DOMAIN tasks, AcceptTask(t) PROVE Loaded(u) /\ seen'[u] = seen[u]
  BY <1>6 DEF AcceptTask, sessions
<1>7. CASE UNCHANGED vars
  BY <1>7 DEF vars
<1>8. QED
  BY <1>1, <1>2, <1>3, <1>4, <1>5, <1>6, <1>7 DEF Next

(* The version match makes a save start from the stored row.               *)
LEMMA SavedRowIsTheStoredOne ==
  ASSUME SeenIsAVersion, NEW s \in Session, Saves(s)
  PROVE  seen[s] = feature
BY DEF SeenIsAVersion, Saves, SaveFeature, FeatureIsFresh

LEMMA SavesBump ==
  ASSUME NEW s \in Session, Saves(s)
  PROVE  feature'.version = feature.version + 1
BY DEF Saves, SaveFeature

LEMMA NextSeen ==
  ASSUME TypeOK, TypeOK', ActivationIsPermitted, SeenIsAVersion, [Next]_vars
  PROVE  SeenIsAVersion'
<1> SUFFICES ASSUME NEW u \in Session, Loaded(u)'
             PROVE  /\ seen'[u].version <= feature'.version
                    /\ seen'[u].version = feature'.version => seen'[u] = feature'
  BY DEF SeenIsAVersion
<1>1. feature.version \in Nat /\ (Loaded(u) => seen[u].version \in Nat)
  BY DEF TypeOK, FeatureRow
<1>2. CASE seen'[u] = feature /\ feature' = feature
  BY <1>1, <1>2
<1>3. CASE Loaded(u) /\ seen'[u] = seen[u]
  <2>1. CASE feature' = feature
    BY <1>3, <2>1 DEF SeenIsAVersion
  <2>2. CASE \E s \in Session : Saves(s)
    <3>1. feature'.version = feature.version + 1
      BY <2>2, SavesBump
    <3>2. seen'[u].version <= feature.version
      BY <1>3 DEF SeenIsAVersion
    <3>3. QED
      BY <1>1, <1>3, <3>1, <3>2
  <2>3. QED
    BY <2>1, <2>2, FeatureSteps
<1>4. QED
  BY <1>2, <1>3, SeenSteps

(* Only BeginInstantiate brings a Unit of Work to the instantiation.       *)
LEMMA InstantiatingSteps ==
  ASSUME TypeOK, [Next]_vars, NEW u \in Session, pc'[u] = "instantiating"
  PROVE  BeginInstantiate(u) \/ (pc[u] = "instantiating" /\ seen'[u] = seen[u])
<1> USE DEF TypeOK
<1>1. ASSUME NEW s \in Session, Close(s) PROVE pc[u] = "instantiating" /\ seen'[u] = seen[u]
  BY <1>1 DEF Close
<1>2. ASSUME NEW s \in Session,
             \/ OpenFeature(s) \/ LoadForReport(s) \/ LoadTasks(s) \/ LoadPlansAndReports(s)
             \/ (\E p \in PlanId : OpenPlan(s, p)) \/ (\E k \in ReportKind : WriteReport(s, k))
      PROVE  pc[u] = "instantiating" /\ seen'[u] = seen[u]
  BY <1>2 DEF OpenFeature, LoadForReport, LoadTasks, LoadPlansAndReports, OpenPlan, WriteReport
<1>3. ASSUME NEW s \in Session, BeginInstantiate(s)
      PROVE  BeginInstantiate(u) \/ (pc[u] = "instantiating" /\ seen'[u] = seen[u])
  BY <1>3 DEF BeginInstantiate
<1>4. ASSUME NEW s \in Session,
             \/ Refuse(s) \/ CommitTransition(s) \/ CommitRework(s) \/ CommitActivation(s)
             \/ CommitReport(s) \/ Rollback(s)
      PROVE  Close(s)
  BY <1>4 DEF Refuse, CommitTransition, CommitRework, CommitActivation, CommitReport, Rollback
<1>5. ASSUME NEW p \in PlanId, AddPlan(p) \/ SavePlan(p)
      PROVE  pc[u] = "instantiating" /\ seen'[u] = seen[u]
  BY <1>5 DEF AddPlan, SavePlan, sessions
<1>6. ASSUME NEW t \in DOMAIN tasks, AcceptTask(t)
      PROVE  pc[u] = "instantiating" /\ seen'[u] = seen[u]
  BY <1>6 DEF AcceptTask, sessions
<1>7. CASE UNCHANGED vars
  BY <1>7 DEF vars
<1>8. QED
  BY <1>1, <1>2, <1>3, <1>4, <1>5, <1>6, <1>7 DEF Next

LEMMA NextPermitted ==
  ASSUME TypeOK, ActivationIsPermitted, [Next]_vars
  PROVE  ActivationIsPermitted'
<1> SUFFICES ASSUME NEW u \in Session, pc'[u] = "instantiating"
             PROVE  MachineAllows(FeatureEdges, seen'[u].status, "IN_PROGRESS", Coordinator)
  BY DEF ActivationIsPermitted
<1>1. CASE pc[u] = "instantiating" /\ seen'[u] = seen[u]
  BY <1>1 DEF ActivationIsPermitted
<1>2. CASE BeginInstantiate(u)
  BY <1>2 DEF BeginInstantiate, Permits
<1>3. QED
  BY <1>1, <1>2, InstantiatingSteps

(* A save appends the one line that continues the walk.                    *)
LEMMA NextHistory ==
  ASSUME TypeOK, HistoryInv, [Next]_vars
  PROVE  HistoryInv'
<1> USE DEF HistoryInv
<1>1. TypeOK'
  BY NextTypes
<1>2. SeenIsAVersion' /\ ActivationIsPermitted'
  BY <1>1, NextSeen, NextPermitted
<1>3. CASE feature' = feature /\ ledger' = ledger
  BY <1>2, <1>3 DEF HistoryBegins, LedgerIsTheHistory
<1>4. ASSUME NEW s \in Session, Saves(s) PROVE HistoryInv'
  <2>1. PICK to \in FeatureStatus, round \in {seen[s].round, seen[s].round + 1} :
          SaveFeature(s, to, round)
    BY <1>4 DEF Saves
  <2>2. seen[s] = feature
    BY <1>4, SavedRowIsTheStoredOne
  <2> DEFINE line == [from |-> feature.status, to |-> to, round |-> round]
  <2>3. ledger \in Seq(Line) /\ ledger' = Append(ledger, line)
    BY <2>1, <2>2 DEF SaveFeature, TypeOK
  <2>4. line \in Line
    BY <2>2 DEF TypeOK, FeatureRow, Line
  <2>5. /\ Len(ledger) \in Nat /\ Len(ledger') = Len(ledger) + 1
        /\ ledger'[Len(ledger) + 1] = line /\ ledger' # <<>>
        /\ \A i \in 1..Len(ledger) : ledger'[i] = ledger[i]
    BY <2>3, <2>4
  <2>6. feature' = [status |-> to, round |-> round, version |-> feature.version + 1]
    BY <2>1 DEF SaveFeature
  <2>7. line.from = IF Len(ledger) = 0 THEN NewFeature.status ELSE ledger[Len(ledger)].to
    BY <2>3 DEF HistoryBegins, LedgerIsTheHistory
  <2>8. ASSUME NEW i \in 1..Len(ledger')
        PROVE  ledger'[i].from = IF i = 1 THEN NewFeature.status ELSE ledger'[i - 1].to
    <3>1. CASE i = Len(ledger) + 1
      BY <2>5, <2>7, <3>1
    <3>2. CASE i # Len(ledger) + 1
      <4>1. i \in 1..Len(ledger) /\ (i # 1 => i - 1 \in 1..Len(ledger))
        BY <2>5, <3>2
      <4>2. QED
        BY <2>5, <4>1 DEF LedgerIsTheHistory
    <3>3. QED
      BY <3>1, <3>2
  <2>9. LedgerIsTheHistory'
    BY <2>5, <2>6, <2>8 DEF LedgerIsTheHistory, TypeOK, FeatureRow
  <2>10. QED
    BY <1>2, <2>5, <2>9 DEF HistoryBegins
<1>5. QED
  BY <1>3, <1>4, FeatureSteps

LEMMA InitHistory == Init => HistoryInv
BY DEF Init, HistoryInv, HistoryBegins, LedgerIsTheHistory, SeenIsAVersion, Loaded,
   ActivationIsPermitted, NewFeature

LEMMA HistoryIsInvariant == Spec => [](TypeOK /\ HistoryInv)
<1>1. TypeOK /\ HistoryInv /\ [Next]_vars => (TypeOK /\ HistoryInv)'
  BY NextTypes, NextHistory
<1>2. Init => TypeOK /\ HistoryInv
  BY InitTypes, InitHistory
<1>3. QED
  BY <1>1, <1>2, PTL DEF Spec

(* No save is lost and none is made from a stale row: the enforcement      *)
(* ledger is the Feature's history, line by line and version by version    *)
(* (runner.py, repositories/base.py).                                      *)
THEOREM LedgerIsAlwaysTheHistory == Spec => []LedgerIsTheHistory
<1>1. TypeOK /\ HistoryInv => LedgerIsTheHistory
  BY DEF HistoryInv
<1>2. QED
  BY <1>1, HistoryIsInvariant, PTL

----------------------------------------------------------------------------
LEMMA AcceptedIsTerminal ==
  ASSUME NEW to, NEW by
  PROVE  ~MachineAllows(FeatureEdges, "ACCEPTED", to, by)
BY DEF MachineAllows, IsTerminal, FeatureEdges, Edge

(* ACCEPTED is the last word on the row, whatever was loaded before it.    *)
THEOREM AcceptedStaysAccepted == Spec => AcceptanceIsFinal
<1>1. TypeOK /\ HistoryInv /\ [Next]_vars
        => [feature.status = "ACCEPTED" => feature' = feature]_vars
  <2> SUFFICES ASSUME TypeOK, HistoryInv, [Next]_vars, feature.status = "ACCEPTED"
               PROVE  feature' = feature
    OBVIOUS
  <2>1. ASSUME NEW s \in Session, Saves(s) PROVE FALSE
    <3>1. seen[s].status = "ACCEPTED"
      BY <2>1, SavedRowIsTheStoredOne DEF HistoryInv
    <3>2. QED
      BY <2>1, <3>1, AcceptedIsTerminal DEF Saves
  <2>2. QED
    BY <2>1, FeatureSteps DEF HistoryInv
<1>2. QED
  BY <1>1, HistoryIsInvariant, PTL DEF Spec, AcceptanceIsFinal

(* Two reworks of one loaded round cannot both advance it.                 *)
THEOREM RoundsAdvanceByOne == Spec => RoundAdvancesByOne
<1>1. TypeOK /\ HistoryInv /\ [Next]_vars
        => [feature'.round # feature.round => feature'.round = feature.round + 1]_vars
  <2> SUFFICES ASSUME TypeOK, HistoryInv, [Next]_vars, feature'.round # feature.round
               PROVE  feature'.round = feature.round + 1
    OBVIOUS
  <2>1. PICK s \in Session : Saves(s)
    BY FeatureSteps DEF HistoryInv
  <2>2. seen[s] = feature
    BY <2>1, SavedRowIsTheStoredOne DEF HistoryInv
  <2>3. QED
    BY <2>1, <2>2 DEF Saves, SaveFeature
<1>2. QED
  BY <1>1, HistoryIsInvariant, PTL DEF Spec, RoundAdvancesByOne

----------------------------------------------------------------------------
(* The Tasks, the reports and the statuses of Tasks only grow; a Task is   *)
(* added by an activation, which saves the Feature IN_PROGRESS.            *)
LEMMA RowSteps ==
  ASSUME TypeOK, [Next]_vars
  PROVE  /\ DOMAIN tasks \subseteq DOMAIN tasks'
         /\ \A t \in DOMAIN tasks : tasks[t] = "ACCEPTED" => tasks'[t] = "ACCEPTED"
         /\ reports \subseteq reports'
         /\ DOMAIN tasks' # DOMAIN tasks =>
              feature'.status = "IN_PROGRESS" /\ feature'.version = feature.version + 1
<1> DEFINE Goal ==
      /\ DOMAIN tasks \subseteq DOMAIN tasks'
      /\ \A t \in DOMAIN tasks : tasks[t] = "ACCEPTED" => tasks'[t] = "ACCEPTED"
      /\ reports \subseteq reports'
      /\ DOMAIN tasks' # DOMAIN tasks =>
           feature'.status = "IN_PROGRESS" /\ feature'.version = feature.version + 1
<1>1. ASSUME NEW s \in Session, CommitActivation(s) PROVE Goal
  <2> DEFINE new == {<<target[s].plan, k, s>> : k \in Uninstantiated(s, target[s].plan)}
  <2>1. /\ tasks' = [t \in DOMAIN tasks \cup new |->
                       IF t \in DOMAIN tasks THEN tasks[t] ELSE "OPEN"]
        /\ reports' = reports
        /\ SaveFeature(s, "IN_PROGRESS", seen[s].round)
    BY <1>1 DEF CommitActivation
  <2>2. feature'.status = "IN_PROGRESS" /\ feature'.version = feature.version + 1
    BY <2>1 DEF SaveFeature
  <2>3. QED
    BY <2>1, <2>2
<1>2. ASSUME NEW s \in Session, CommitReport(s) PROVE Goal
  BY <1>2 DEF CommitReport
<1>3. ASSUME NEW t \in DOMAIN tasks, AcceptTask(t) PROVE Goal
  BY <1>3 DEF AcceptTask
<1>4. CASE tasks' = tasks /\ reports' = reports
  BY <1>4
<1>5. QED
  BY <1>1, <1>2, <1>3, <1>4 DEF Next, vars, OpenFeature, OpenPlan, LoadTasks,
     LoadPlansAndReports, Refuse, CommitTransition, CommitRework, BeginInstantiate,
     WriteReport, LoadForReport, Rollback, AddPlan, SavePlan, rows

Holds(s) == pc[s] \in {"tasks", "judging", "instantiating"}

(* What a Unit of Work knows of the Tasks it has kept or read just now.    *)
LEMMA TaskFactsSteps ==
  ASSUME TypeOK, [Next]_vars, NEW u \in Session, Holds(u)'
  PROVE  \/ Holds(u) /\ facts'[u].tasks = facts[u].tasks /\ seen'[u] = seen[u]
         \/ facts'[u].tasks = tasks /\ tasks' = tasks
<1> DEFINE Kept == Holds(u) /\ facts'[u].tasks = facts[u].tasks /\ seen'[u] = seen[u]
           Read == facts'[u].tasks = tasks /\ tasks' = tasks
<1> USE DEF TypeOK, Holds, Facts
<1>1. ASSUME NEW s \in Session, Close(s) PROVE Kept
  BY <1>1 DEF Close
<1>2. ASSUME NEW s \in Session,
             \/ OpenFeature(s) \/ LoadForReport(s) \/ LoadPlansAndReports(s)
             \/ (\E p \in PlanId : OpenPlan(s, p)) \/ (\E k \in ReportKind : WriteReport(s, k))
      PROVE  Kept
  BY <1>2 DEF OpenFeature, LoadForReport, LoadPlansAndReports, OpenPlan, WriteReport
<1>3. ASSUME NEW s \in Session, LoadTasks(s) \/ BeginInstantiate(s) PROVE Kept \/ Read
  BY <1>3 DEF LoadTasks, BeginInstantiate, rows
<1>4. ASSUME NEW s \in Session,
             \/ Refuse(s) \/ CommitTransition(s) \/ CommitRework(s) \/ CommitActivation(s)
             \/ CommitReport(s) \/ Rollback(s)
      PROVE  Close(s)
  BY <1>4 DEF Refuse, CommitTransition, CommitRework, CommitActivation, CommitReport, Rollback
<1>5. ASSUME NEW p \in PlanId, AddPlan(p) \/ SavePlan(p) PROVE Kept
  BY <1>5 DEF AddPlan, SavePlan, sessions
<1>6. ASSUME NEW t \in DOMAIN tasks, AcceptTask(t) PROVE Kept
  BY <1>6 DEF AcceptTask, sessions
<1>7. CASE UNCHANGED vars
  BY <1>7 DEF vars
<1>8. QED
  BY <1>1, <1>2, <1>3, <1>4, <1>5, <1>6, <1>7 DEF Next

(* ... and of the reports.                                                 *)
LEMMA ReportFactsSteps ==
  ASSUME TypeOK, [Next]_vars, NEW u \in Session
  PROVE  facts'[u].reports \in {facts[u].reports, reports, {}}
<1> DEFINE Goal == facts'[u].reports \in {facts[u].reports, reports, {}}
<1> USE DEF TypeOK, Facts
<1>1. ASSUME NEW s \in Session, Close(s) PROVE Goal
  BY <1>1 DEF Close, NoFacts
<1>2. ASSUME NEW s \in Session,
             \/ OpenFeature(s) \/ LoadForReport(s)
             \/ (\E p \in PlanId : OpenPlan(s, p)) \/ (\E k \in ReportKind : WriteReport(s, k))
      PROVE  Goal
  BY <1>2 DEF OpenFeature, LoadForReport, OpenPlan, WriteReport
<1>3a. ASSUME NEW s \in Session, LoadTasks(s) \/ BeginInstantiate(s) PROVE Goal
  <2>1. facts' = [facts EXCEPT ![s].tasks = tasks]
    BY <1>3a DEF LoadTasks, BeginInstantiate
  <2>2. facts'[u].reports = facts[u].reports
    BY <2>1
  <2>3. QED
    BY <2>2
<1>3b. ASSUME NEW s \in Session, LoadPlansAndReports(s) PROVE Goal
  BY <1>3b DEF LoadPlansAndReports
<1>4. ASSUME NEW s \in Session,
             \/ Refuse(s) \/ CommitTransition(s) \/ CommitRework(s) \/ CommitActivation(s)
             \/ CommitReport(s) \/ Rollback(s)
      PROVE  Close(s)
  BY <1>4 DEF Refuse, CommitTransition, CommitRework, CommitActivation, CommitReport, Rollback
<1>5. ASSUME NEW p \in PlanId, AddPlan(p) \/ SavePlan(p) PROVE Goal
  BY <1>5 DEF AddPlan, SavePlan, sessions
<1>6. ASSUME NEW t \in DOMAIN tasks, AcceptTask(t) PROVE Goal
  BY <1>6 DEF AcceptTask, sessions
<1>7. CASE UNCHANGED vars
  BY <1>7 DEF vars
<1>8. QED
  BY <1>1, <1>2, <1>3a, <1>3b, <1>4, <1>5, <1>6, <1>7 DEF Next

LEMMA NextFacts ==
  ASSUME TypeOK, HistoryInv, FactsAreStable, ReportsAreKept, [Next]_vars
  PROVE  FactsAreStable' /\ ReportsAreKept'
<1>1. ReportsAreKept'
  BY ReportFactsSteps, RowSteps DEF ReportsAreKept
<1>2. ASSUME NEW u \in Session, Holds(u)'
      PROVE  /\ DOMAIN facts'[u].tasks \subseteq DOMAIN tasks'
             /\ \A t \in DOMAIN facts'[u].tasks :
                  facts'[u].tasks[t] = "ACCEPTED" => tasks'[t] = "ACCEPTED"
             /\ seen'[u].version = feature'.version =>
                  DOMAIN tasks' \subseteq DOMAIN facts'[u].tasks
  <2>1. CASE facts'[u].tasks = tasks /\ tasks' = tasks
    BY <2>1
  <2>2. CASE Holds(u) /\ facts'[u].tasks = facts[u].tasks /\ seen'[u] = seen[u]
    <3>1. /\ DOMAIN facts[u].tasks \subseteq DOMAIN tasks
          /\ \A t \in DOMAIN facts[u].tasks :
               facts[u].tasks[t] = "ACCEPTED" => tasks[t] = "ACCEPTED"
          /\ seen[u].version = feature.version => DOMAIN tasks \subseteq DOMAIN facts[u].tasks
      BY <2>2 DEF FactsAreStable, Holds
    <3>2. /\ DOMAIN facts'[u].tasks \subseteq DOMAIN tasks'
          /\ \A t \in DOMAIN facts'[u].tasks :
               facts'[u].tasks[t] = "ACCEPTED" => tasks'[t] = "ACCEPTED"
      BY <2>2, <3>1, RowSteps
    <3>3. seen[u].version <= feature.version
          /\ seen[u].version \in Nat /\ feature.version \in Nat
      BY <2>2 DEF Holds, HistoryInv, SeenIsAVersion, Loaded, TypeOK, FeatureRow
    <3>4. ASSUME seen'[u].version = feature'.version
          PROVE  DOMAIN tasks' \subseteq DOMAIN facts'[u].tasks
      <4>1. feature'.version # feature.version + 1
        BY <2>2, <3>3, <3>4
      <4>2. \A s \in Session : ~Saves(s)
        BY <4>1, SavesBump
      <4>3. feature' = feature /\ DOMAIN tasks' = DOMAIN tasks
        BY <4>1, <4>2, FeatureSteps, RowSteps DEF HistoryInv
      <4>4. QED
        BY <2>2, <3>1, <3>4, <4>3
    <3>5. QED
      BY <3>2, <3>4
  <2>3. QED
    BY <1>2, <2>1, <2>2, TaskFactsSteps
<1>3. QED
  BY <1>1, <1>2 DEF FactsAreStable, Holds

----------------------------------------------------------------------------
(* What the graph demands of the two transitions that certify something.   *)
LEMMA EdgeIntoValidation ==
  ASSUME NEW from, NEW by, MachineAllows(FeatureEdges, from, "IN_VALIDATION", by)
  PROVE  "ALL_IMPLEMENTATION_TASKS_ACCEPTED" \in Judged(FeatureEdges, from, "IN_VALIDATION")
<1>1. \E e \in FeatureEdges : e.from = from /\ e.to = "IN_VALIDATION"
  BY DEF MachineAllows, Defines
<1>2. \A e \in FeatureEdges : e.to = "IN_VALIDATION"
        => "ALL_IMPLEMENTATION_TASKS_ACCEPTED" \in e.needs
  BY DEF FeatureEdges, Edge
<1>3. Definition(FeatureEdges, from, "IN_VALIDATION") \in FeatureEdges
      /\ Definition(FeatureEdges, from, "IN_VALIDATION").to = "IN_VALIDATION"
  BY <1>1 DEF Definition
<1>4. QED
  BY <1>2, <1>3 DEF Judged, UnevaluatedConditions

LEMMA EdgeIntoAccepted ==
  ASSUME NEW from, NEW by, MachineAllows(FeatureEdges, from, "ACCEPTED", by)
  PROVE  {"ALL_TASKS_ACCEPTED", "QA_FINAL_PASS_RECORDED", "MANDATORY_EVIDENCE_PRESENT"}
           \subseteq Judged(FeatureEdges, from, "ACCEPTED")
<1>1. \E e \in FeatureEdges : e.from = from /\ e.to = "ACCEPTED"
  BY DEF MachineAllows, Defines
<1>2. \A e \in FeatureEdges : e.to = "ACCEPTED" =>
        {"ALL_TASKS_ACCEPTED", "QA_FINAL_PASS_RECORDED", "MANDATORY_EVIDENCE_PRESENT"}
          \subseteq e.needs
  BY DEF FeatureEdges, Edge
<1>3. Definition(FeatureEdges, from, "ACCEPTED") \in FeatureEdges
      /\ Definition(FeatureEdges, from, "ACCEPTED").to = "ACCEPTED"
  BY <1>1 DEF Definition
<1>4. QED
  BY <1>2, <1>3 DEF Judged, UnevaluatedConditions

(* A Feature enters validation or acceptance by transition_feature only:   *)
(* rework and activation lead to IN_PROGRESS.                              *)
Enters(s, to) ==
  /\ pc[s] = "judging"
  /\ \E by \in Initiator : MachineAllows(FeatureEdges, seen[s].status, to, by)
  /\ RulesPass(Judged(FeatureEdges, seen[s].status, to), seen[s], facts[s])
  /\ SaveFeature(s, to, seen[s].round)
  /\ tasks' = tasks /\ reports' = reports

LEMMA EnteringSteps ==
  ASSUME TypeOK, HistoryInv, [Next]_vars, feature' # feature, feature'.status # "IN_PROGRESS"
  PROVE  \E s \in Session : Enters(s, feature'.status)
<1>1. ASSUME NEW s \in Session, CommitTransition(s) PROVE Enters(s, feature'.status)
  BY <1>1 DEF CommitTransition, Permits, Enters, SaveFeature
<1>2. ASSUME NEW s \in Session, CommitRework(s) \/ CommitActivation(s) PROVE FALSE
  BY <1>2 DEF CommitRework, CommitActivation, SaveFeature
<1>3. QED
  BY <1>1, <1>2 DEF Next, vars, OpenFeature, OpenPlan, LoadTasks, LoadPlansAndReports,
     Refuse, BeginInstantiate, WriteReport, LoadForReport, CommitReport, Rollback, AddPlan,
     SavePlan, AcceptTask, rows

(* The Tasks judged by a Unit of Work whose version still matches are the  *)
(* stored ones, and those it found ACCEPTED are.                           *)
LEMMA JudgedTasksAreStored ==
  ASSUME HistoryInv, FactsAreStable, NEW s \in Session, NEW to, Enters(s, to)
  PROVE  /\ seen[s] = feature
         /\ DOMAIN facts[s].tasks = DOMAIN tasks
         /\ \A t \in DOMAIN tasks : facts[s].tasks[t] = "ACCEPTED" => tasks[t] = "ACCEPTED"
<1>1. seen[s] = feature
  BY DEF Enters, SaveFeature, FeatureIsFresh, HistoryInv, SeenIsAVersion, Loaded
<1>2. QED
  BY <1>1 DEF FactsAreStable, Enters

LEMMA NextCertification ==
  ASSUME TypeOK, CertificationInv, [Next]_vars
  PROVE  CertificationInv'
<1> USE DEF CertificationInv
<1>1. HistoryInv' /\ FactsAreStable' /\ ReportsAreKept'
  BY NextHistory, NextFacts
<1>2. AcceptedIsCertified'
  <2> DEFINE Certified(rep, f) ==
               LET current == {r \in rep : r.round = f.round}
               IN /\ \E r \in current : IsValidFinalPass(r)
                  /\ Evidence \subseteq UNION {r.kind.evidence : r \in current}
  <2>1. \A f, small, large : small \subseteq large /\ Certified(small, f) => Certified(large, f)
    <3> SUFFICES ASSUME NEW f, NEW small, NEW large, small \subseteq large, Certified(small, f)
                 PROVE  Certified(large, f)
      OBVIOUS
    <3>1. {r \in small : r.round = f.round} \subseteq {r \in large : r.round = f.round}
      OBVIOUS
    <3>2. UNION {r.kind.evidence : r \in {q \in small : q.round = f.round}}
            \subseteq UNION {r.kind.evidence : r \in {q \in large : q.round = f.round}}
      BY <3>1
    <3>3. QED
      BY <3>1, <3>2
  <2> SUFFICES ASSUME feature'.status = "ACCEPTED"
               PROVE  /\ DOMAIN tasks' # {}
                      /\ \A t \in DOMAIN tasks' : tasks'[t] = "ACCEPTED"
                      /\ Certified(reports', feature')
    BY DEF AcceptedIsCertified
  <2>2. CASE feature' = feature
    <3>1. DOMAIN tasks' = DOMAIN tasks /\ reports \subseteq reports'
          /\ \A t \in DOMAIN tasks : tasks[t] = "ACCEPTED" => tasks'[t] = "ACCEPTED"
      BY RowSteps
    <3>2. /\ DOMAIN tasks # {}
          /\ \A t \in DOMAIN tasks : tasks[t] = "ACCEPTED"
          /\ Certified(reports, feature)
      BY <2>2 DEF AcceptedIsCertified
    <3>3. Certified(reports', feature)
      BY <2>1, <3>1, <3>2
    <3> HIDE DEF Certified
    <3>4. QED
      BY <2>2, <3>1, <3>2, <3>3
  <2>3. CASE feature' # feature
    <3>1. PICK s \in Session : Enters(s, "ACCEPTED")
      BY <2>3, EnteringSteps
    <3>2. /\ seen[s] = feature
          /\ DOMAIN facts[s].tasks = DOMAIN tasks
          /\ \A t \in DOMAIN tasks : facts[s].tasks[t] = "ACCEPTED" => tasks[t] = "ACCEPTED"
      BY <3>1, JudgedTasksAreStored
    <3>3. {"ALL_TASKS_ACCEPTED", "QA_FINAL_PASS_RECORDED", "MANDATORY_EVIDENCE_PRESENT"}
            \subseteq Judged(FeatureEdges, seen[s].status, "ACCEPTED")
      BY <3>1, EdgeIntoAccepted DEF Enters
    <3>4. /\ AllTasksAccepted(facts[s])
          /\ QAFinalPassRecorded(seen[s], facts[s])
          /\ FeatureEvidencePresent(seen[s], facts[s])
      BY <3>1, <3>3 DEF Enters, RulesPass
    <3>5. /\ DOMAIN tasks # {}
          /\ \A t \in DOMAIN tasks : tasks[t] = "ACCEPTED"
      BY <3>2, <3>4 DEF AllTasksAccepted
    <3>6. Certified(facts[s].reports, feature)
      BY <3>2, <3>4 DEF QAFinalPassRecorded, FeatureEvidencePresent, CurrentRoundReports
    <3>7. facts[s].reports \subseteq reports /\ tasks' = tasks /\ reports' = reports
      BY <3>1 DEF ReportsAreKept, Enters
    <3>8. Certified(reports, feature)
      BY <2>1, <3>6, <3>7
    <3>9. feature'.round = feature.round
      BY <3>1, <3>2 DEF Enters, SaveFeature
    <3>10. QED
      BY <3>5, <3>7, <3>8, <3>9
  <2>4. QED
    BY <2>2, <2>3
<1>3. ValidationHasNothingOpen'
  <2> SUFFICES ASSUME feature'.status = "IN_VALIDATION"
               PROVE  /\ \E t \in DOMAIN tasks' : t[2] \notin QAKey
                      /\ \A t \in DOMAIN tasks' : t[2] \notin QAKey => tasks'[t] = "ACCEPTED"
    BY DEF ValidationHasNothingOpen
  <2>1. CASE feature' = feature
    <3>1. DOMAIN tasks' = DOMAIN tasks
          /\ \A t \in DOMAIN tasks : tasks[t] = "ACCEPTED" => tasks'[t] = "ACCEPTED"
      BY RowSteps
    <3>2. QED
      BY <2>1, <3>1 DEF ValidationHasNothingOpen
  <2>2. CASE feature' # feature
    <3>1. PICK s \in Session : Enters(s, "IN_VALIDATION")
      BY <2>2, EnteringSteps
    <3>2. /\ DOMAIN facts[s].tasks = DOMAIN tasks
          /\ \A t \in DOMAIN tasks : facts[s].tasks[t] = "ACCEPTED" => tasks[t] = "ACCEPTED"
      BY <3>1, JudgedTasksAreStored
    <3>3. ImplementationTasksAccepted(facts[s])
      BY <3>1, EdgeIntoValidation DEF Enters, RulesPass
    <3>4. QED
      BY <3>1, <3>2, <3>3 DEF ImplementationTasksAccepted, ImplementationTasks, Enters
  <2>3. QED
    BY <2>1, <2>2
<1>4. QED
  BY <1>1, <1>2, <1>3

LEMMA InitCertification == Init => CertificationInv
BY InitHistory DEF Init, CertificationInv, FactsAreStable, ReportsAreKept, NoFacts,
   AcceptedIsCertified, ValidationHasNothingOpen, NewFeature

LEMMA CertificationIsInvariant == Spec => []CertificationInv
<1>1. Init => CertificationInv
  BY InitCertification
<1>2. TypeOK /\ CertificationInv /\ [Next]_vars => CertificationInv'
  BY NextCertification
<1>3. QED
  BY <1>1, <1>2, FeatureKernelTypes, PTL DEF Spec

(* Acceptance is judged on rows read earlier under no lock, and still what *)
(* is stored certifies an ACCEPTED Feature: all Tasks ACCEPTED, a Final    *)
(* Pass and all mandatory evidence in its round (kernel.py and the rules   *)
(* of rules/acceptance.py and rules/evidence.py).                          *)
THEOREM AcceptedFeaturesAreCertified == Spec => []AcceptedIsCertified
<1>1. CertificationInv => AcceptedIsCertified
  BY DEF CertificationInv
<1>2. QED
  BY <1>1, CertificationIsInvariant, PTL

(* No activation slips a Task into a Feature in validation.                *)
THEOREM ValidatedFeaturesHaveNothingOpen == Spec => []ValidationHasNothingOpen
<1>1. CertificationInv => ValidationHasNothingOpen
  BY DEF CertificationInv
<1>2. QED
  BY <1>1, CertificationIsInvariant, PTL

----------------------------------------------------------------------------
(* A Feature that was never started has no Task.                           *)
NothingBeforeTheStart == feature.status \in {"DRAFT", "PLANNED"} => DOMAIN tasks = {}

InstantiationInv ==
  CertificationInv /\ NothingBeforeTheStart /\ OneTaskPerDefinition /\ OnePlanUntilValidation

Missing(p, k) == \A t \in DOMAIN tasks : ~(t[1] = p /\ t[2] = k)

(* s adds the Tasks of plan p that the stored rows lack.                   *)
Instantiates(s, p) ==
  /\ feature.status \in {"PLANNED", "IN_VALIDATION"}
  /\ \A t \in DOMAIN tasks' \ DOMAIN tasks :
       \E k \in Key : t = <<p, k, s>> /\ Missing(p, k)

LEMMA EdgeIntoProgress ==
  ASSUME NEW from, MachineAllows(FeatureEdges, from, "IN_PROGRESS", Coordinator)
  PROVE  from \in {"PLANNED", "IN_VALIDATION"}
BY DEF MachineAllows, Defines, FeatureEdges, Edge

LEMMA EdgeIntoPlanned ==
  ASSUME NEW from, NEW to \in {"DRAFT", "PLANNED"}, NEW by,
         MachineAllows(FeatureEdges, from, to, by)
  PROVE  from = "DRAFT"
BY DEF MachineAllows, Defines, FeatureEdges, Edge

(* An activation that finds its version adds what is missing from the      *)
(* stored Tasks, though it looked for them in those it had read.           *)
LEMMA InstantiationSteps ==
  ASSUME TypeOK, CertificationInv, [Next]_vars, DOMAIN tasks' # DOMAIN tasks
  PROVE  \E s \in Session, p \in PlanId : Instantiates(s, p)
<1> USE DEF CertificationInv, HistoryInv
<1>1. PICK s \in Session : CommitActivation(s)
  BY DEF Next, vars, OpenFeature, OpenPlan, LoadTasks, LoadPlansAndReports, Refuse,
     CommitTransition, CommitRework, BeginInstantiate, WriteReport, LoadForReport,
     CommitReport, Rollback, AddPlan, SavePlan, AcceptTask, rows
<1> DEFINE p == target[s].plan
           new == {<<p, k, s>> : k \in Uninstantiated(s, p)}
<1>2. pc[s] = "instantiating" /\ FeatureIsFresh(s)
  BY <1>1 DEF CommitActivation, SaveFeature
<1>3. seen[s] = feature
  BY <1>2 DEF FeatureIsFresh, SeenIsAVersion, Loaded
<1>4. p \in PlanId
  BY <1>2 DEF TypeOK, Target, NoTarget
<1>5. feature.status \in {"PLANNED", "IN_VALIDATION"}
  BY <1>2, <1>3, EdgeIntoProgress DEF ActivationIsPermitted
<1>6. DOMAIN tasks = DOMAIN facts[s].tasks
  BY <1>2, <1>3 DEF FactsAreStable
<1>7. DOMAIN tasks' = DOMAIN tasks \cup new
  BY <1>1 DEF CommitActivation
<1>8. ASSUME NEW k \in Uninstantiated(s, p) PROVE k \in Key /\ Missing(p, k)
  <2>1. k \in Key
    BY <1>4, FeatureKernelAssumption DEF Uninstantiated
  <2>2. \A t \in DOMAIN tasks : <<t[1], t[2]>> # <<p, k>>
    BY <1>6 DEF Uninstantiated
  <2>3. QED
    BY <2>1, <2>2 DEF Missing
<1>9. QED
  BY <1>4, <1>5, <1>7, <1>8 DEF Instantiates

LEMMA NextInstantiation ==
  ASSUME TypeOK, InstantiationInv, [Next]_vars
  PROVE  InstantiationInv'
<1> USE DEF InstantiationInv
<1>1. CertificationInv'
  BY NextCertification
<1>2. HistoryInv
  BY DEF CertificationInv
<1>3. NothingBeforeTheStart'
  <2> SUFFICES ASSUME feature'.status \in {"DRAFT", "PLANNED"} PROVE DOMAIN tasks' = {}
    BY DEF NothingBeforeTheStart
  <2>1. DOMAIN tasks' = DOMAIN tasks
    BY RowSteps
  <2>2. ASSUME NEW s \in Session, Saves(s) PROVE feature.status = "DRAFT"
    <3>1. seen[s] = feature
      BY <1>2, <2>2, SavedRowIsTheStoredOne DEF HistoryInv
    <3>2. PICK to \in FeatureStatus, by \in Initiator :
            MachineAllows(FeatureEdges, seen[s].status, to, by) /\ feature'.status = to
      BY <2>2 DEF Saves, SaveFeature
    <3>3. QED
      BY <3>1, <3>2, EdgeIntoPlanned
  <2>3. QED
    BY <1>2, <2>1, <2>2, FeatureSteps DEF HistoryInv, NothingBeforeTheStart
<1>4. OneTaskPerDefinition'
  <2>1. CASE DOMAIN tasks' = DOMAIN tasks
    BY <2>1 DEF OneTaskPerDefinition
  <2>2. CASE DOMAIN tasks' # DOMAIN tasks
    <3>1. PICK s \in Session, p \in PlanId : Instantiates(s, p)
      BY <2>2, InstantiationSteps
    <3>2. ASSUME NEW t \in DOMAIN tasks', NEW u \in DOMAIN tasks', t[1] = u[1], t[2] = u[2]
          PROVE  t = u
      <4>1. CASE t \in DOMAIN tasks /\ u \in DOMAIN tasks
        BY <3>2, <4>1 DEF OneTaskPerDefinition
      <4>2. CASE t \notin DOMAIN tasks /\ u \in DOMAIN tasks
        BY <3>1, <3>2, <4>2 DEF Instantiates, Missing
      <4>3. CASE t \in DOMAIN tasks /\ u \notin DOMAIN tasks
        BY <3>1, <3>2, <4>3 DEF Instantiates, Missing
      <4>4. CASE t \notin DOMAIN tasks /\ u \notin DOMAIN tasks
        BY <3>1, <3>2, <4>4 DEF Instantiates
      <4>5. QED
        BY <4>1, <4>2, <4>3, <4>4
    <3>3. QED
      BY <3>2 DEF OneTaskPerDefinition
  <2>3. QED
    BY <2>1, <2>2
<1>5. OnePlanUntilValidation'
  <2> SUFFICES ASSUME \A i \in 1..Len(ledger') : ledger'[i].to # "IN_VALIDATION"
               PROVE  \A t, u \in DOMAIN tasks' : t[1] = u[1]
    BY DEF OnePlanUntilValidation
  <2>1. \A i \in 1..Len(ledger) : ledger[i].to # "IN_VALIDATION"
    <3>1. CASE ledger' = ledger
      BY <3>1
    <3>2. ASSUME NEW s \in Session, Saves(s)
          PROVE  \A i \in 1..Len(ledger) : ledger[i].to # "IN_VALIDATION"
      <4>1. ledger \in Seq(Line) /\ \E line : ledger' = Append(ledger, line)
        BY <3>2 DEF Saves, SaveFeature, TypeOK
      <4>2. Len(ledger') = Len(ledger) + 1 /\ \A i \in 1..Len(ledger) : ledger'[i] = ledger[i]
        BY <4>1
      <4>3. QED
        BY <4>1, <4>2
    <3>3. QED
      BY <1>2, <3>1, <3>2, FeatureSteps DEF HistoryInv
  <2>2. feature.status # "IN_VALIDATION"
    BY <1>2, <2>1 DEF HistoryInv, HistoryBegins, LedgerIsTheHistory, NewFeature, TypeOK
  <2>3. CASE DOMAIN tasks' = DOMAIN tasks
    BY <2>1, <2>3 DEF OnePlanUntilValidation
  <2>4. CASE DOMAIN tasks' # DOMAIN tasks
    <3>1. PICK s \in Session, p \in PlanId : Instantiates(s, p)
      BY <2>4, InstantiationSteps
    <3>2. DOMAIN tasks = {}
      BY <2>2, <3>1 DEF Instantiates, NothingBeforeTheStart
    <3>3. \A t \in DOMAIN tasks' : t[1] = p
      BY <3>1, <3>2 DEF Instantiates
    <3>4. QED
      BY <3>3
  <2>5. QED
    BY <2>3, <2>4
<1>6. QED
  BY <1>1, <1>3, <1>4, <1>5

LEMMA InstantiationIsInvariant == Spec => []InstantiationInv
<1>1. Init => InstantiationInv
  <2>1. Init => CertificationInv
    BY InitCertification
  <2>2. Init => NothingBeforeTheStart /\ OneTaskPerDefinition /\ OnePlanUntilValidation
    BY DEF Init, NothingBeforeTheStart, OneTaskPerDefinition, OnePlanUntilValidation
  <2>3. QED
    BY <2>1, <2>2 DEF InstantiationInv
<1>2. TypeOK /\ InstantiationInv /\ [Next]_vars => InstantiationInv'
  BY NextInstantiation
<1>3. QED
  BY <1>1, <1>2, FeatureKernelTypes, PTL DEF Spec

(* Retried and racing activations reconcile: a plan's definition never has *)
(* two Tasks, though no constraint forbids it (kernel.py, _instantiate).   *)
THEOREM DefinitionsAreInstantiatedOnce == Spec => []OneTaskPerDefinition
<1>1. InstantiationInv => OneTaskPerDefinition
  BY DEF InstantiationInv
<1>2. QED
  BY <1>1, InstantiationIsInvariant, PTL

(* Of plans activated at once one wins, while no return from validation    *)
(* opens the Feature to another activation (kernel.py, activate_plan).     *)
THEOREM OnePlanIsStarted == Spec => []OnePlanUntilValidation
<1>1. InstantiationInv => OnePlanUntilValidation
  BY DEF InstantiationInv
<1>2. QED
  BY <1>1, InstantiationIsInvariant, PTL
=============================================================================
