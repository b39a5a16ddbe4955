------------------------ MODULE FeatureRefinementProofs ------------------------
(***************************************************************************)
(* FeatureKernel implements AtomicFeature: every step of the Kernel, seen  *)
(* in the stored rows alone, is one atomic step of the Feature, a plan     *)
(* instantiated as a whole, a record added, or nothing.                    *)
(***************************************************************************)
EXTENDS FeatureKernelProofs

Attached == {p \in PlanId : plans[p].status # Absent}

(* A plan some Task comes from has a Task for each of its definitions.     *)
PlansAreWhole ==
  \A t \in DOMAIN tasks : \A k \in PlanKeys[t[1]] :
    \E u \in DOMAIN tasks : u[1] = t[1] /\ u[2] = k

(* A plan once read is a plan there is: plans are never removed.           *)
ReadPlansAreAttached ==
  \A s \in Session :
    /\ target[s] # NoTarget => target[s].plan \in Attached
    /\ \A p \in PlanId : facts[s].plans[p].status # Absent => p \in Attached

StoredInv == InstantiationInv /\ PlansAreWhole /\ ReadPlansAreAttached

----------------------------------------------------------------------------
LEMMA AbsentIsNoStatus == Absent \notin PlanStatus
BY DEF Absent, PlanStatus

LEMMA PlansAreKept ==
  ASSUME TypeOK, [Next]_vars
  PROVE  Attached \subseteq Attached'
<1>1. ASSUME NEW q \in PlanId, AddPlan(q) PROVE Attached \subseteq Attached'
  BY <1>1 DEF AddPlan, Attached, TypeOK, Absent
<1>2. ASSUME NEW q \in PlanId, SavePlan(q) PROVE Attached \subseteq Attached'
  <2>1. \A e \in CallerEdges : e.to # Absent
    BY FeatureKernelAssumption DEF PlanEdges, Edge, Absent
  <2>2. QED
    BY <1>2, <2>1 DEF SavePlan, Attached, TypeOK
<1>3. ASSUME NEW s \in Session, CommitActivation(s) PROVE Attached \subseteq Attached'
  <2>1. plans' = plans \/ plans' = [plans EXCEPT ![target[s].plan] = Activated(target[s].row)]
    BY <1>3 DEF CommitActivation
  <2>2. Activated(target[s].row).status # Absent
    BY DEF Activated, Absent
  <2>3. QED
    BY <2>1, <2>2 DEF Attached, TypeOK
<1>4. CASE plans' = plans
  BY <1>4 DEF Attached
<1>5. QED
  BY <1>1, <1>2, <1>3, <1>4 DEF Next, vars, OpenFeature, OpenPlan, LoadTasks,
     LoadPlansAndReports, Refuse, CommitTransition, CommitRework, BeginInstantiate,
     WriteReport, LoadForReport, CommitReport, Rollback, AcceptTask, rows

(* What a Unit of Work knows of plans it has kept, or has just read.       *)
LEMMA NextReadPlans ==
  ASSUME TypeOK, ReadPlansAreAttached, [Next]_vars
  PROVE  ReadPlansAreAttached'
<1> SUFFICES ASSUME NEW u \in Session
             PROVE  /\ target'[u] # NoTarget => target'[u].plan \in Attached
                    /\ \A p \in PlanId : facts'[u].plans[p].status # Absent => p \in Attached
  BY PlansAreKept DEF ReadPlansAreAttached
<1> DEFINE Goal == /\ target'[u] # NoTarget => target'[u].plan \in Attached
                   /\ \A p \in PlanId : facts'[u].plans[p].status # Absent => p \in Attached
<1>1. /\ target[u] # NoTarget => target[u].plan \in Attached
      /\ \A p \in PlanId : facts[u].plans[p].status # Absent => p \in Attached
  BY DEF ReadPlansAreAttached
<1>2. CASE target'[u] = target[u] /\ facts'[u].plans = facts[u].plans
  BY <1>1, <1>2
<1>3. ASSUME NEW s \in Session, Close(s) PROVE Goal
  <2>1. target'[u] \in {target[u], NoTarget} /\ facts'[u] \in {facts[u], NoFacts}
    BY <1>3 DEF Close, TypeOK
  <2>2. \A p \in PlanId : NoFacts.plans[p].status = Absent
    BY DEF NoFacts, NoPlan
  <2>3. QED
    BY <1>1, <2>1, <2>2
<1>4. ASSUME NEW s \in Session, NEW p \in PlanId, OpenPlan(s, p) PROVE Goal
  <2>1. p \in Attached
    BY <1>4 DEF OpenPlan, Attached
  <2>2. target'[u] = target[u] \/ target'[u].plan = p
    BY <1>4 DEF OpenPlan, TypeOK
  <2>3. facts' = facts
    BY <1>4 DEF OpenPlan
  <2>4. QED
    BY <1>1, <2>1, <2>2, <2>3
<1>5. ASSUME NEW s \in Session, LoadPlansAndReports(s) PROVE Goal
  <2> DEFINE known == [p \in PlanId |-> IF p = target[s].plan THEN target[s].row ELSE plans[p]]
  <2>1. target' = target
    BY <1>5 DEF LoadPlansAndReports
  <2>2. facts'[u].plans = facts[u].plans \/ (u = s /\ facts'[u].plans = known)
    BY <1>5 DEF LoadPlansAndReports, TypeOK, Facts
  <2>3. ASSUME u = s, NEW p \in PlanId, known[p].status # Absent PROVE p \in Attached
    <3>1. CASE p = target[s].plan
      <4>1. target[s] # NoTarget
        BY <3>1, FeatureKernelAssumption DEF NoTarget
      <4>2. QED
        BY <1>1, <2>3, <3>1, <4>1
    <3>2. CASE p # target[s].plan
      BY <2>3, <3>2 DEF Attached
    <3>3. QED
      BY <3>1, <3>2
  <2>4. QED
    BY <1>1, <2>1, <2>2, <2>3
<1>6. ASSUME NEW s \in Session, LoadTasks(s) \/ BeginInstantiate(s) PROVE Goal
  <2>1. target' = target /\ facts' = [facts EXCEPT ![s].tasks = tasks]
    BY <1>6 DEF LoadTasks, BeginInstantiate
  <2>2. facts'[u].plans = facts[u].plans
    BY <2>1 DEF TypeOK
  <2>3. QED
    BY <1>2, <2>1, <2>2
<1>7. ASSUME NEW s \in Session,
             \/ Refuse(s) \/ CommitTransition(s) \/ CommitRework(s) \/ CommitActivation(s)
             \/ CommitReport(s) \/ Rollback(s)
      PROVE  Close(s)
  BY <1>7 DEF Refuse, CommitTransition, CommitRework, CommitActivation, CommitReport, Rollback
<1>8. CASE target' = target /\ facts' = facts
  BY <1>1, <1>8
<1>9. QED
  BY <1>3, <1>4, <1>5, <1>6, <1>7, <1>8 DEF Next, vars, OpenFeature, WriteReport,
     LoadForReport, AddPlan, SavePlan, AcceptTask, sessions

(* An activation that finds its version instantiates the stored plan whole *)
(* or, if it has been, not at all.                                         *)
LEMMA ActivationSteps ==
  ASSUME TypeOK, StoredInv, NEW s \in Session, CommitActivation(s)
  PROVE  LET p == target[s].plan
         IN /\ p \in PlanId /\ p \in Attached /\ seen[s] = feature
            /\ MachineAllows(FeatureEdges, feature.status, "IN_PROGRESS", Coordinator)
            /\ DOMAIN tasks' = IF \E t \in DOMAIN tasks : t[1] = p THEN DOMAIN tasks
                               ELSE DOMAIN tasks \cup {<<p, k, s>> : k \in PlanKeys[p]}
<1> DEFINE p == target[s].plan
<1>1. pc[s] = "instantiating" /\ FeatureIsFresh(s)
  BY DEF CommitActivation, SaveFeature
<1>2. HistoryInv /\ FactsAreStable
  BY DEF StoredInv, InstantiationInv, CertificationInv
<1>3. seen[s] = feature
  BY <1>1, <1>2 DEF FeatureIsFresh, HistoryInv, SeenIsAVersion, Loaded
<1>4. p \in PlanId /\ p \in Attached
  BY <1>1 DEF TypeOK, Target, NoTarget, StoredInv, ReadPlansAreAttached
<1>5. MachineAllows(FeatureEdges, feature.status, "IN_PROGRESS", Coordinator)
  BY <1>1, <1>2, <1>3 DEF HistoryInv, ActivationIsPermitted
<1>6. DOMAIN facts[s].tasks = DOMAIN tasks
  BY <1>1, <1>2, <1>3 DEF FactsAreStable
<1>7. DOMAIN tasks' = DOMAIN tasks \cup {<<p, k, s>> : k \in Uninstantiated(s, p)}
  BY DEF CommitActivation
<1>8. CASE \E t \in DOMAIN tasks : t[1] = p
  <2>1. Uninstantiated(s, p) = {}
    BY <1>6, <1>8 DEF Uninstantiated, StoredInv, PlansAreWhole
  <2>2. QED
    BY <1>3, <1>4, <1>5, <1>7, <1>8, <2>1
<1>9. CASE ~\E t \in DOMAIN tasks : t[1] = p
  <2>1. Uninstantiated(s, p) = PlanKeys[p]
    BY <1>6, <1>9 DEF Uninstantiated
  <2>2. QED
    BY <1>3, <1>4, <1>5, <1>7, <1>9, <2>1
<1>10. QED
  BY <1>8, <1>9

LEMMA OnlyActivationsAddTasks ==
  ASSUME TypeOK, [Next]_vars, ~\E s \in Session : CommitActivation(s)
  PROVE  DOMAIN tasks' = DOMAIN tasks
BY DEF Next, vars, OpenFeature, OpenPlan, LoadTasks, LoadPlansAndReports, Refuse,
   CommitTransition, CommitRework, BeginInstantiate, WriteReport, LoadForReport, CommitReport,
   Rollback, AddPlan, SavePlan, AcceptTask, rows

LEMMA NextWhole ==
  ASSUME TypeOK, StoredInv, [Next]_vars
  PROVE  PlansAreWhole'
<1>1. CASE DOMAIN tasks' = DOMAIN tasks
  BY <1>1 DEF StoredInv, PlansAreWhole
<1>2. ASSUME NEW s \in Session, CommitActivation(s), DOMAIN tasks' # DOMAIN tasks
      PROVE  PlansAreWhole'
  <2> DEFINE p == target[s].plan
             new == {<<p, k, s>> : k \in PlanKeys[p]}
  <2>1. DOMAIN tasks' = DOMAIN tasks \cup new
    BY <1>2, ActivationSteps
  <2>2. ASSUME NEW t \in DOMAIN tasks', NEW k \in PlanKeys[t[1]]
        PROVE  \E u \in DOMAIN tasks' : u[1] = t[1] /\ u[2] = k
    <3>1. CASE t \in DOMAIN tasks
      BY <2>1, <2>2, <3>1 DEF StoredInv, PlansAreWhole
    <3>2. CASE t \in new
      <4>1. t[1] = p
        BY <3>2
      <4>2. <<p, k, s>> \in new
        BY <2>2, <4>1
      <4>3. QED
        BY <2>1, <4>1, <4>2
    <3>3. QED
      BY <2>1, <3>1, <3>2
  <2>3. QED
    BY <2>2 DEF PlansAreWhole
<1>3. QED
  BY <1>1, <1>2, OnlyActivationsAddTasks

LEMMA StoredIsInvariant == Spec => [](TypeOK /\ StoredInv)
<1>1. Init => PlansAreWhole /\ ReadPlansAreAttached
  BY DEF Init, PlansAreWhole, ReadPlansAreAttached, NoFacts, NoPlan
<1>2. TypeOK /\ StoredInv /\ InstantiationInv' /\ [Next]_vars => StoredInv'
  BY NextWhole, NextReadPlans DEF StoredInv
<1>3. StoredInv <=> InstantiationInv /\ PlansAreWhole /\ ReadPlansAreAttached
  BY DEF StoredInv
<1>4. QED
  BY <1>1, <1>2, <1>3, FeatureKernelTypes, InstantiationIsInvariant, PTL DEF Spec

----------------------------------------------------------------------------
(* The rows as AtomicFeature sees them.                                    *)
Done(map)      == {t \in DOMAIN map : map[t] = "ACCEPTED"}
PassedIn(filed) == {r.round : r \in {q \in filed : IsValidFinalPass(q)}}
EvidencedIn(filed) == UNION {{r.round} \X r.kind.evidence : r \in filed}

LEMMA RecordsAreOnlyAdded ==
  ASSUME NEW x, NEW y, x \subseteq y
  PROVE  PassedIn(x) \subseteq PassedIn(y) /\ EvidencedIn(x) \subseteq EvidencedIn(y)
BY DEF PassedIn, EvidencedIn

LEMMA SameGraph ==
  \A from, to : Atomic!Defines(Atomic!FeatureEdges, from, to) <=> Defines(FeatureEdges, from, to)
<1>1. Atomic!FeatureEdges = FeatureEdges
  BY DEF Atomic!FeatureEdges, FeatureEdges, Atomic!Edge, Edge, Atomic!OS, OS,
     Atomic!Coordinator, Coordinator, Atomic!QA, QA
<1>2. QED
  BY <1>1 DEF Atomic!Defines, Defines

LEMMA EdgeIntoPlannedNeeds ==
  ASSUME NEW from, NEW by, MachineAllows(FeatureEdges, from, "PLANNED", by)
  PROVE  "FEATURE_PLAN_ATTACHED" \in Judged(FeatureEdges, from, "PLANNED")
<1>1. \E e \in FeatureEdges : e.from = from /\ e.to = "PLANNED"
  BY DEF MachineAllows, Defines
<1>2. \A e \in FeatureEdges : e.to = "PLANNED" => "FEATURE_PLAN_ATTACHED" \in e.needs
  BY DEF FeatureEdges, Edge
<1>3. Definition(FeatureEdges, from, "PLANNED") \in FeatureEdges
      /\ Definition(FeatureEdges, from, "PLANNED").to = "PLANNED"
  BY <1>1 DEF Definition
<1>4. QED
  BY <1>2, <1>3 DEF Judged, UnevaluatedConditions

(* A transition saved without instantiation: what it leaves alone.         *)
Moves(s, to) ==
  /\ \E by \in Initiator : Permits(s, to, by)
  /\ \E round \in {seen[s].round, seen[s].round + 1} :
       /\ SaveFeature(s, to, round)
       /\ round = seen[s].round \/ to = "IN_PROGRESS"
  /\ pc[s] = "judging"
  /\ UNCHANGED <<plans, tasks, reports>>

LEMMA Movers ==
  ASSUME NEW s \in Session, CommitTransition(s) \/ CommitRework(s)
  PROVE  \E to \in FeatureStatus : Moves(s, to)
<1>1. CASE CommitTransition(s)
  BY <1>1 DEF CommitTransition, Moves
<1>2. CASE CommitRework(s)
  BY <1>2, FeatureStates DEF CommitRework, Moves
<1>3. QED
  BY <1>1, <1>2

(* The Feature saved has the entitlement its new status asks for: the      *)
(* invariants say so of the state after the save, which changes no Task,   *)
(* no plan and no report.                                                  *)
LEMMA MovedIsEntitled ==
  ASSUME TypeOK, StoredInv, StoredInv', NEW s \in Session, NEW to \in FeatureStatus, Moves(s, to)
  PROVE  /\ to = "PLANNED" => Attached # {}
         /\ to = "IN_VALIDATION" =>
              LET work == {t \in DOMAIN tasks : t[2] \notin QAKey}
              IN work # {} /\ work \subseteq Done(tasks)
         /\ to = "ACCEPTED" => /\ DOMAIN tasks # {} /\ DOMAIN tasks \subseteq Done(tasks)
                               /\ feature.round \in PassedIn(reports)
                               /\ \A e \in Evidence : <<feature.round, e>> \in EvidencedIn(reports)
<1>1. AcceptedIsCertified' /\ ValidationHasNothingOpen'
  BY DEF StoredInv, InstantiationInv, CertificationInv
<1>2. seen[s] = feature
  BY DEF Moves, SaveFeature, FeatureIsFresh, StoredInv, InstantiationInv, CertificationInv,
     HistoryInv, SeenIsAVersion, Loaded
<1>3. feature'.status = to /\ tasks' = tasks /\ reports' = reports
  BY DEF Moves, SaveFeature
<1>4. ASSUME to = "PLANNED" PROVE Attached # {}
  <2>1. PICK by \in Initiator : Permits(s, "PLANNED", by)
    BY <1>4 DEF Moves
  <2>2. FeaturePlanAttached(facts[s])
    BY <2>1, EdgeIntoPlannedNeeds DEF Permits, RulesPass
  <2>3. PICK p \in PlanId : facts[s].plans[p].status \in {"DRAFT", "READY", "ACTIVE"}
    BY <2>2 DEF FeaturePlanAttached, LivePlans
  <2>4. facts[s].plans[p].status # Absent
    BY <2>3 DEF Absent
  <2>5. QED
    BY <2>4 DEF StoredInv, ReadPlansAreAttached
<1>5. ASSUME to = "IN_VALIDATION"
      PROVE  LET work == {t \in DOMAIN tasks : t[2] \notin QAKey}
             IN work # {} /\ work \subseteq Done(tasks)
  BY <1>1, <1>3, <1>5 DEF ValidationHasNothingOpen, Done
<1>6. ASSUME to = "ACCEPTED"
      PROVE  /\ DOMAIN tasks # {} /\ DOMAIN tasks \subseteq Done(tasks)
             /\ feature.round \in PassedIn(reports)
             /\ \A e \in Evidence : <<feature.round, e>> \in EvidencedIn(reports)
  <2>1. feature'.round = feature.round
    BY <1>2, <1>6 DEF Moves, SaveFeature
  <2> DEFINE current == {r \in reports : r.round = feature.round}
  <2>2. /\ DOMAIN tasks # {} /\ \A t \in DOMAIN tasks : tasks[t] = "ACCEPTED"
        /\ \E r \in current : IsValidFinalPass(r)
        /\ Evidence \subseteq UNION {r.kind.evidence : r \in current}
    BY <1>1, <1>3, <1>6, <2>1 DEF AcceptedIsCertified
  <2>3. \A e \in Evidence : \E r \in current : e \in r.kind.evidence
    BY <2>2
  <2>4. \A e \in Evidence : <<feature.round, e>> \in EvidencedIn(reports)
    BY <2>3 DEF EvidencedIn
  <2>5. QED
    BY <2>2, <2>4 DEF Done, PassedIn
<1>7. QED
  BY <1>4, <1>5, <1>6

LEMMA MovesAdvance ==
  ASSUME TypeOK, StoredInv, StoredInv', NEW s \in Session, NEW to \in FeatureStatus, Moves(s, to)
  PROVE  Atomic!Advance
<1>1. seen[s] = feature
  BY DEF Moves, SaveFeature, FeatureIsFresh, StoredInv, InstantiationInv, CertificationInv,
     HistoryInv, SeenIsAVersion, Loaded
<1>2. /\ feature'.status = to /\ UNCHANGED <<plans, tasks, reports>>
      /\ feature'.round = feature.round
           \/ (to = "IN_PROGRESS" /\ feature'.round = feature.round + 1)
  BY <1>1 DEF Moves, SaveFeature
<1>3. Atomic!Defines(Atomic!FeatureEdges, feature.status, to)
  <2>1. Defines(FeatureEdges, feature.status, to)
    BY <1>1 DEF Moves, Permits, MachineAllows
  <2>2. QED
    BY <2>1, SameGraph
<1>4. Atomic!Entitled(to)
  BY MovedIsEntitled DEF Atomic!Entitled, Atomic!Implementation, Attached, Done, PassedIn,
     EvidencedIn
<1>5. QED
  BY <1>2, <1>3, <1>4 DEF Atomic!Advance, Atomic!Moves, Atomic!records

LEMMA ActivationsActivate ==
  ASSUME TypeOK, StoredInv, [Next]_vars, NEW s \in Session, CommitActivation(s),
         NEW p \in PlanId, p = target[s].plan
  PROVE  Atomic!Activate(p, s)
<1>1. /\ p \in Attached /\ seen[s] = feature
      /\ MachineAllows(FeatureEdges, feature.status, "IN_PROGRESS", Coordinator)
      /\ DOMAIN tasks' = IF \E t \in DOMAIN tasks : t[1] = p THEN DOMAIN tasks
                         ELSE DOMAIN tasks \cup {<<p, k, s>> : k \in PlanKeys[p]}
  BY ActivationSteps
<1>2. Atomic!Defines(Atomic!FeatureEdges, feature.status, "IN_PROGRESS")
  BY <1>1, SameGraph DEF MachineAllows
<1>3. feature'.status = "IN_PROGRESS" /\ feature'.round = feature.round /\ reports' = reports
  BY <1>1 DEF CommitActivation, SaveFeature
<1>4. Done(tasks') = Done(tasks)
  BY DEF CommitActivation, Done
<1>5. Attached' = Attached
  <2>1. plans' = plans \/ plans' = [plans EXCEPT ![p] = Activated(target[s].row)]
    BY DEF CommitActivation
  <2>2. \A q \in PlanId \ {p} : plans'[q] = plans[q]
    BY <2>1 DEF TypeOK
  <2>3. p \in Attached'
    BY <1>1, PlansAreKept
  <2>4. QED
    BY <1>1, <2>2, <2>3 DEF Attached
<1>6. QED
  BY <1>1, <1>2, <1>3, <1>4, <1>5 DEF Atomic!Activate, Atomic!Starts, Atomic!Started, Atomic!records,
     Attached, Done

LEMMA RestRecords ==
  ASSUME TypeOK, [Next]_vars,
         ~\E s \in Session : CommitTransition(s) \/ CommitRework(s) \/ CommitActivation(s)
  PROVE  Atomic!Record
<1>1. feature' = feature
  BY DEF Next, vars, OpenFeature, OpenPlan, LoadTasks, LoadPlansAndReports, Refuse,
     BeginInstantiate, WriteReport, LoadForReport, CommitReport, Rollback, AddPlan, SavePlan,
     AcceptTask, rows
<1>2. DOMAIN tasks' = DOMAIN tasks
  BY OnlyActivationsAddTasks
<1>3. Done(tasks) \subseteq Done(tasks') /\ reports \subseteq reports'
  BY <1>2, RowSteps DEF Done
<1>4. Attached \subseteq Attached'
  BY PlansAreKept
<1>5. PassedIn(reports) \subseteq PassedIn(reports')
      /\ EvidencedIn(reports) \subseteq EvidencedIn(reports')
  BY <1>3, RecordsAreOnlyAdded
<1>6. Done(tasks') \subseteq DOMAIN tasks
  BY <1>2 DEF Done
<1>7. QED
  BY <1>1, <1>2, <1>3, <1>4, <1>5, <1>6 DEF Atomic!Record, Attached, Done, PassedIn, EvidencedIn

LEMMA InitIsAtomic == Init => Atomic!Init
BY DEF Init, Atomic!Init, NewFeature, NoPlan, Absent

(* Whoever reads the rows sees a Feature whose every transition is judged  *)
(* on what is stored at that instant, and plans that become Tasks whole    *)
(* and once: the reads under no lock of transition_feature,                *)
(* return_for_rework and activate_plan do not show.                        *)
THEOREM TheFeatureKernelIsAtomic == Spec => ImplementsAtomicFeature
<1>1. TypeOK /\ StoredInv /\ StoredInv' /\ [Next]_vars => [Atomic!Next]_(Atomic!vars)
  <2> SUFFICES ASSUME TypeOK, StoredInv, StoredInv', [Next]_vars
               PROVE  Atomic!Next
    OBVIOUS
  <2>1. ASSUME NEW s \in Session, CommitTransition(s) \/ CommitRework(s) PROVE Atomic!Next
    BY <2>1, Movers, MovesAdvance DEF Atomic!Next
  <2>2. ASSUME NEW s \in Session, CommitActivation(s) PROVE Atomic!Next
    <3>1. PICK p \in PlanId : p = target[s].plan
      BY <2>2, ActivationSteps
    <3>2. Atomic!Activate(p, s)
      BY <2>2, <3>1, ActivationsActivate
    <3>3. QED
      BY <3>2 DEF Atomic!Next
  <2>3. CASE ~\E s \in Session : CommitTransition(s) \/ CommitRework(s) \/ CommitActivation(s)
    BY <2>3, RestRecords DEF Atomic!Next
  <2>4. QED
    BY <2>1, <2>2, <2>3
<1>2. QED
  BY <1>1, InitIsAtomic, StoredIsInvariant, PTL DEF Spec, ImplementsAtomicFeature, Atomic!Spec

=============================================================================
