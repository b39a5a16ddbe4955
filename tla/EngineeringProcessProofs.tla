----------------------- MODULE EngineeringProcessProofs -----------------------
(***************************************************************************)
(* Of the two sides of the Kernel together, for any plans, definitions and *)
(* actors: each keeps what it promises alone, since the other keeps what   *)
(* it assumes; and what an ACCEPTED Feature then is.                       *)
(***************************************************************************)
EXTENDS EngineeringProcess, WellFoundedInduction, TLAPS

LEMMA TasksAreMade ==
  ASSUME NEW p \in PlanId, NEW k \in PlanKeys[p], NEW m \in Maker
  PROVE  <<p, k, m>> \in Task
BY DEF Task

LEMMA TasksAreTriples ==
  ASSUME NEW t \in Task
  PROVE  /\ t = <<t[1], t[2], t[3]>>
         /\ t[1] \in PlanId /\ t[2] \in PlanKeys[t[1]] /\ t[3] \in Maker
BY DEF Task

LEMMA DependenciesAreTasks ==
  ASSUME NEW t \in Task, NEW d \in Dependencies[t]
  PROVE  /\ d \in Task /\ d[1] = t[1] /\ d[2] \in Needs[Of(t)]
         /\ d[2] \in PlanKeys[t[1]] /\ d = <<t[1], d[2], t[3]>>
<1>1. PICK k \in Needs[Of(t)] \cap PlanKeys[t[1]] : d = <<t[1], k, t[3]>>
  BY DEF Dependencies
<1>2. QED
  BY <1>1, TasksAreTriples, TasksAreMade

LEMMA SameTaskGraph ==
  \A from, to : TaskSide!Defines(TaskSide!TaskEdges, from, to) <=> Defines(TaskEdges, from, to)
<1>1. TaskSide!TaskEdges = TaskEdges
  BY DEF TaskSide!TaskEdges, TaskEdges, TaskSide!Edge, Edge, TaskSide!OS, OS,
     TaskSide!Coordinator, Coordinator, TaskSide!QA, QA, TaskSide!Worker, Worker,
     TaskSide!Reviewer, Reviewer
<1>2. QED
  BY <1>1 DEF TaskSide!Defines, Defines

LEMMA SameFeatureGraph ==
  \A from, to :
    FeatureSide!Defines(FeatureSide!FeatureEdges, from, to) <=> Defines(FeatureEdges, from, to)
<1>1. FeatureSide!FeatureEdges = FeatureEdges
  BY DEF FeatureSide!FeatureEdges, FeatureEdges, FeatureSide!Edge, Edge, FeatureSide!OS, OS,
     FeatureSide!Coordinator, Coordinator, FeatureSide!QA, QA
<1>2. QED
  BY <1>1 DEF FeatureSide!Defines, Defines

(* The edges of the two graphs, without who asks for them.                 *)
TaskWalk ==
  {<<"CREATED", "PENDING_DEPENDENCIES">>, <<"CREATED", "READY">>,
   <<"PENDING_DEPENDENCIES", "READY">>, <<"READY", "ASSIGNED">>, <<"ASSIGNED", "IN_PROGRESS">>,
   <<"IN_PROGRESS", "SUBMITTED">>, <<"SUBMITTED", "IN_REVIEW">>, <<"IN_REVIEW", "IN_QA">>,
   <<"IN_REVIEW", "REVISION_REQUIRED">>, <<"IN_QA", "ACCEPTED">>,
   <<"IN_QA", "REVISION_REQUIRED">>, <<"REVISION_REQUIRED", "IN_PROGRESS">>}

FeatureWalk ==
  {<<"DRAFT", "PLANNED">>, <<"PLANNED", "IN_PROGRESS">>, <<"IN_PROGRESS", "IN_VALIDATION">>,
   <<"IN_VALIDATION", "IN_PROGRESS">>, <<"IN_VALIDATION", "ACCEPTED">>}

LEMMA TaskWalks ==
  ASSUME NEW from, NEW to, TaskSide!Defines(TaskSide!TaskEdges, from, to)
  PROVE  <<from, to>> \in TaskWalk
<1>1. PICK e \in TaskEdges : e.from = from /\ e.to = to
  BY SameTaskGraph DEF Defines
<1>2. QED
  BY <1>1 DEF TaskEdges, Edge, TaskWalk

LEMMA FeatureWalks ==
  ASSUME NEW from, NEW to, FeatureSide!Defines(FeatureSide!FeatureEdges, from, to)
  PROVE  <<from, to>> \in FeatureWalk
<1>1. PICK e \in FeatureEdges : e.from = from /\ e.to = to
  BY SameFeatureGraph DEF Defines
<1>2. QED
  BY <1>1 DEF FeatureEdges, Edge, FeatureWalk

----------------------------------------------------------------------------
(* What each step does, and leaves alone.                                  *)
LEMMA TransitionOfATask ==
  ASSUME TypeOK, NEW t \in Task, TransitionTask(t)
  PROVE  /\ t \in opened /\ UNCHANGED featureRows
         /\ UNCHANGED <<revision, authors, packaged, evidenced, approved, passed>>
         /\ <<status[t], status'[t]>> \in TaskWalk
         /\ \A u \in Task \ {t} : /\ status'[u] = status[u] /\ worker'[u] = worker[u]
                                  /\ reviewer'[u] = reviewer[u]
         /\ status'[t] = "READY" => \A d \in Dependencies[t] : status[d] = "ACCEPTED"
         /\ status'[t] = "SUBMITTED" => t \in Backend
         /\ status'[t] = "IN_QA" => <<t, revision[t]>> \in approved
         /\ status'[t] = "ACCEPTED" => <<t, revision[t]>> \in passed
         /\ status'[t] = "ASSIGNED" \/ worker'[t] = worker[t]
         /\ status'[t] = "IN_REVIEW" \/ reviewer'[t] = reviewer[t]
         /\ status'[t] = "IN_REVIEW" =>
              reviewer'[t] \in Capable[t] \ (authors[t] \cup {worker'[t]})
<1>1. t \in opened /\ TaskSide!Advance(t) /\ UNCHANGED featureRows
  BY DEF TransitionTask
<1>2. <<status[t], status'[t]>> \in TaskWalk
  BY <1>1, TaskWalks DEF TaskSide!Advance
<1>3. QED
  BY <1>1, <1>2 DEF TaskSide!Advance, TaskSide!Entitled, TaskSide!Others, TaskSide!records

LEMMA HandOverOfATask ==
  ASSUME TypeOK, NEW t \in Task, HandOver(t)
  PROVE  /\ t \in opened /\ UNCHANGED featureRows
         /\ UNCHANGED <<status, worker, reviewer, approved, passed>>
         /\ status[t] \in {"ASSIGNED", "IN_PROGRESS", "REVISION_REQUIRED"}
         /\ \A u \in Task \ {t} : /\ revision'[u] = revision[u] /\ authors'[u] = authors[u]
                                  /\ packaged'[u] = packaged[u]
BY DEF HandOver, TaskSide!HandOver, TaskSide!rows, TypeOK

LEMMA TransitionOfTheFeature ==
  ASSUME TypeOK, TransitionFeature
  PROVE  /\ <<feature, feature'>> \in FeatureWalk
         /\ UNCHANGED <<opened, attached, finalPasses, filed, taskRows>>
         /\ feature' = "IN_VALIDATION" =>
              Implementation(opened) # {} /\ Implementation(opened) \subseteq Accepted
         /\ feature' = "ACCEPTED" =>
              /\ opened # {} /\ opened \subseteq Accepted
              /\ round \in finalPasses /\ {round} \X FeatureStandard \subseteq filed
         /\ round' = round \/ feature' = "IN_PROGRESS"
<1>1. FeatureSide!Moves /\ UNCHANGED <<attached, finalPasses, filed, taskRows>>
  BY DEF TransitionFeature
<1>2. <<feature, feature'>> \in FeatureWalk
  BY <1>1, FeatureWalks DEF FeatureSide!Moves
<1>3. QED
  BY <1>1, <1>2 DEF FeatureSide!Moves, FeatureSide!Entitled, FeatureSide!Implementation,
     Implementation

LEMMA ActivationOfAPlan ==
  ASSUME TypeOK, NEW p \in PlanId, NEW m \in Maker, ActivatePlan(p, m)
  PROVE  /\ <<feature, feature'>> \in FeatureWalk /\ feature' = "IN_PROGRESS"
         /\ UNCHANGED <<round, attached, finalPasses, filed, taskRows>>
         /\ \/ opened' = opened
            \/ /\ ~\E t \in opened : t[1] = p
               /\ opened' = opened \cup {<<p, k, m>> : k \in PlanKeys[p]}
<1>1. FeatureSide!Starts(p, m) /\ UNCHANGED <<attached, finalPasses, filed, taskRows>>
  BY DEF ActivatePlan
<1>2. <<feature, feature'>> \in FeatureWalk
  BY <1>1, FeatureWalks DEF FeatureSide!Starts
<1>3. QED
  BY <1>1, <1>2 DEF FeatureSide!Starts, FeatureSide!Started

(* The rest only records.                                                  *)
Recording ==
  /\ UNCHANGED <<feature, round, opened, status, worker, reviewer, revision, authors, packaged>>
  /\ approved \subseteq approved' /\ passed \subseteq passed'
  /\ \A x \in (approved' \cup passed') \ (approved \cup passed) : x[1] \in opened
  /\ attached \subseteq attached' /\ finalPasses \subseteq finalPasses' /\ filed \subseteq filed'
  /\ \A t \in Task : evidenced[t] \subseteq evidenced'[t]

LEMMA RestRecords ==
  ASSUME \/ \E p \in PlanId : AddPlan(p)
         \/ \E t \in Task : Approve(t)
         \/ \E n \in 1..round : RecordReport(n)
         \/ UNCHANGED vars
  PROVE  Recording
BY DEF AddPlan, Approve, RecordReport, Recording, vars, featureRows, taskRows

LEMMA StepsAre ==
  ASSUME [Next]_vars
  PROVE  \/ TransitionFeature \/ \E p \in PlanId, m \in Maker : ActivatePlan(p, m)
         \/ \E t \in Task : TransitionTask(t) \/ HandOver(t)
         \/ Recording
BY RestRecords DEF Next

----------------------------------------------------------------------------
LEMMA NextTypes == TypeOK /\ [Next]_vars => TypeOK'
<1> SUFFICES ASSUME TypeOK, [Next]_vars PROVE TypeOK'
  OBVIOUS
<1>1. CASE TransitionFeature
  BY <1>1 DEF TransitionFeature, FeatureSide!Moves, taskRows, TypeOK
<1>2. ASSUME NEW p \in PlanId, NEW m \in Maker, ActivatePlan(p, m) PROVE TypeOK'
  <2>1. {<<p, k, m>> : k \in PlanKeys[p]} \subseteq Task
    BY TasksAreMade
  <2>2. opened' \subseteq Task
    BY <1>2, <2>1, ActivationOfAPlan DEF TypeOK
  <2>3. feature' \in FeatureStatus
    BY <1>2, ActivationOfAPlan DEF FeatureStatus
  <2>4. QED
    BY <1>2, <2>2, <2>3, ActivationOfAPlan DEF taskRows, TypeOK
<1>3. ASSUME NEW t \in Task, TransitionTask(t) PROVE TypeOK'
  <2>1. UNCHANGED <<feature, round, opened, revision, authors, packaged, evidenced>>
    BY <1>3, TransitionOfATask DEF featureRows
  <2>2. /\ status' \in [Task -> TaskStatus]
        /\ worker' \in [Task -> Actor \cup {NoActor}]
        /\ reviewer' \in [Task -> Actor \cup {NoActor}]
    BY <1>3 DEF TransitionTask, TypeOK
  <2>3. QED
    BY <2>1, <2>2 DEF TypeOK
<1>4. ASSUME NEW t \in Task, HandOver(t) PROVE TypeOK'
  <2>1. UNCHANGED <<feature, round, opened, status, worker, reviewer>>
    BY <1>4, HandOverOfATask DEF featureRows
  <2>2. evidenced' \in [Task -> SUBSET TaskStandard]
    BY <1>4 DEF HandOver, TypeOK
  <2>3. revision' = [revision EXCEPT ![t] = @ + 1]
    BY <1>4 DEF HandOver, TaskSide!HandOver
  <2>4. revision' \in [Task -> Nat] /\ revision'[t] \in Nat
    BY <2>3 DEF TypeOK
  <2>5. authors' \in [Task -> SUBSET Actor]
    BY <1>4 DEF HandOver, TaskSide!HandOver, TypeOK
  <2>6. PICK more \in {{}, {revision'[t]}} : packaged' = [packaged EXCEPT ![t] = @ \cup more]
    BY <1>4 DEF HandOver, TaskSide!HandOver
  <2>7. packaged' \in [Task -> SUBSET Nat]
    BY <2>4, <2>6 DEF TypeOK
  <2>8. QED
    BY <2>1, <2>2, <2>4, <2>5, <2>7 DEF TypeOK
<1>5. ASSUME NEW n \in 1..round, RecordReport(n) PROVE TypeOK'
  BY <1>5 DEF RecordReport, TypeOK
<1>6. CASE UNCHANGED vars \/ (\E p \in PlanId : AddPlan(p)) \/ (\E t \in Task : Approve(t))
  BY <1>6 DEF vars, featureRows, taskRows, AddPlan, Approve, TypeOK
<1>7. QED
  BY <1>1, <1>2, <1>3, <1>4, <1>5, <1>6 DEF Next

THEOREM ProcessTypes == Spec => []TypeOK
<1>1. Init => TypeOK
  BY DEF Init, FeatureSide!Init, TaskSide!Init, TypeOK, FeatureStatus, TaskStatus
<1>2. QED
  BY <1>1, NextTypes, PTL DEF Spec

----------------------------------------------------------------------------
(* The inductive invariant, in three parts: what Tasks there are, ...      *)
IsNew(t) ==
  /\ status[t] = "CREATED" /\ worker[t] = NoActor /\ reviewer[t] = NoActor
  /\ revision[t] = 0 /\ authors[t] = {} /\ packaged[t] = {}
  /\ \A x \in approved \cup passed : x[1] # t

UnopenedAreNew == \A t \in Task \ opened : IsNew(t)

StartedFirst == feature \in {"DRAFT", "PLANNED"} => opened = {}

PlansAreWhole == \A t \in opened : \A k \in PlanKeys[t[1]] : <<t[1], k, t[3]>> \in opened

TasksInv == UnopenedAreNew /\ StartedFirst /\ PlansAreWhole

(* ... what each of them has been through, ...                             *)
Earned(t) ==
  /\ status[t] \notin {"CREATED", "PENDING_DEPENDENCIES"} =>
       \A d \in Dependencies[t] : status[d] = "ACCEPTED"
  /\ status[t] \in {"SUBMITTED", "IN_REVIEW", "IN_QA", "ACCEPTED"} => t \in Backend
  /\ status[t] \in {"IN_REVIEW", "IN_QA", "ACCEPTED"} =>
       reviewer[t] \in Capable[t] \ (authors[t] \cup {worker[t]})
  /\ status[t] \in {"IN_QA", "ACCEPTED"} => <<t, revision[t]>> \in approved
  /\ status[t] = "ACCEPTED" => <<t, revision[t]>> \in passed

WorkInv == \A t \in Task : Earned(t)

(* ... and what the Feature has.                                           *)
CertificateInv ==
  /\ feature = "IN_VALIDATION" =>
       Implementation(opened) # {} /\ Implementation(opened) \subseteq Accepted
  /\ feature = "ACCEPTED" =>
       /\ opened # {} /\ opened \subseteq Accepted
       /\ round \in finalPasses /\ {round} \X FeatureStandard \subseteq filed

ProcessInv == TasksInv /\ WorkInv /\ CertificateInv

(* An operation on one Task leaves the others alone.                       *)
LEMMA OthersRest ==
  ASSUME TypeOK, NEW t \in Task, NEW u \in Task, t # u, TransitionTask(u) \/ HandOver(u)
  PROVE  UNCHANGED Work(t) /\ UNCHANGED <<approved, passed>>
<1>1. CASE TransitionTask(u)
  <2>1. \A x \in Task \ {u} : /\ status'[x] = status[x] /\ worker'[x] = worker[x]
                               /\ reviewer'[x] = reviewer[x]
    BY <1>1, TransitionOfATask
  <2>2. UNCHANGED <<revision, authors, packaged, approved, passed>>
    BY <1>1, TransitionOfATask
  <2>3. QED
    BY <2>1, <2>2 DEF Work
<1>2. CASE HandOver(u)
  <2>1. /\ revision'[t] = revision[t] /\ authors'[t] = authors[t] /\ packaged'[t] = packaged[t]
        /\ UNCHANGED <<status, worker, reviewer, approved, passed>>
    BY <1>2, HandOverOfATask
  <2>2. QED
    BY <2>1 DEF Work
<1>3. QED
  BY <1>1, <1>2

(* ACCEPTED is the last status of a Task, whoever takes the step.          *)
LEMMA AcceptedTasksStay ==
  ASSUME TypeOK, [Next]_vars, NEW t \in Task, status[t] = "ACCEPTED"
  PROVE  UNCHANGED Work(t)
<1>1. ASSUME NEW u \in Task, TransitionTask(u) PROVE UNCHANGED Work(t)
  <2>1. t # u
    BY <1>1, TransitionOfATask DEF TaskWalk
  <2>2. QED
    BY <1>1, <2>1, OthersRest
<1>2. ASSUME NEW u \in Task, HandOver(u) PROVE UNCHANGED Work(t)
  <2>1. t # u
    BY <1>2, HandOverOfATask
  <2>2. QED
    BY <1>2, <2>1, OthersRest
<1>3. ASSUME NEW p \in PlanId, NEW m \in Maker, ActivatePlan(p, m) PROVE UNCHANGED Work(t)
  BY <1>3, ActivationOfAPlan DEF taskRows, Work
<1>4. CASE TransitionFeature
  BY <1>4, TransitionOfTheFeature DEF taskRows, Work
<1>5. CASE Recording
  BY <1>5 DEF Recording, Work
<1>6. QED
  BY <1>1, <1>2, <1>3, <1>4, <1>5, StepsAre

LEMMA OpenedTasksStay ==
  ASSUME TypeOK, [Next]_vars
  PROVE  opened \subseteq opened' /\ Accepted \subseteq Accepted'
<1>1. opened \subseteq opened'
  BY StepsAre, TransitionOfTheFeature, ActivationOfAPlan, TransitionOfATask, HandOverOfATask
  DEF featureRows, Recording
<1>2. \A t \in Accepted : status'[t] = "ACCEPTED"
  BY AcceptedTasksStay DEF Accepted, TypeOK, Work
<1>3. QED
  BY <1>1, <1>2 DEF Accepted

(* Only a Task that is there is worked on, decided on or reported on.      *)
LEMMA NextUnopened ==
  ASSUME TypeOK, UnopenedAreNew, [Next]_vars
  PROVE  UnopenedAreNew'
<1> SUFFICES ASSUME NEW t \in Task \ opened' PROVE IsNew(t)'
  BY DEF UnopenedAreNew
<1>0. t \in Task /\ t \notin opened /\ IsNew(t)
  BY OpenedTasksStay DEF UnopenedAreNew
<1>1. ASSUME NEW u \in Task, TransitionTask(u) \/ HandOver(u) PROVE IsNew(t)'
  <2>1. u \in opened
    BY <1>1 DEF TransitionTask, HandOver
  <2>2. UNCHANGED Work(t) /\ UNCHANGED <<approved, passed>>
    BY <1>0, <1>1, <2>1, OthersRest
  <2>3. QED
    BY <1>0, <2>2 DEF Work, IsNew
<1>2. CASE TransitionFeature \/ \E p \in PlanId, m \in Maker : ActivatePlan(p, m)
  <2>1. UNCHANGED taskRows
    BY <1>2, TransitionOfTheFeature, ActivationOfAPlan
  <2>2. QED
    BY <1>0, <2>1 DEF taskRows, IsNew
<1>3. CASE Recording
  BY <1>0, <1>3 DEF Recording, IsNew
<1>4. QED
  BY <1>1, <1>2, <1>3, StepsAre

LEMMA NextTasks == TypeOK /\ TasksInv /\ [Next]_vars => TasksInv'
<1> SUFFICES ASSUME TypeOK, TasksInv, [Next]_vars PROVE TasksInv'
  OBVIOUS
<1>1. CASE TransitionFeature
  <2>1. <<feature, feature'>> \in FeatureWalk /\ UNCHANGED opened
    BY <1>1, TransitionOfTheFeature
  <2>2. feature' \in {"DRAFT", "PLANNED"} => feature = "DRAFT"
    BY <2>1 DEF FeatureWalk
  <2>3. QED
    BY <2>1, <2>2, NextUnopened DEF TasksInv, StartedFirst, PlansAreWhole
<1>2. ASSUME NEW p \in PlanId, NEW m \in Maker, ActivatePlan(p, m) PROVE TasksInv'
  <2>1. feature' = "IN_PROGRESS"
    BY <1>2, ActivationOfAPlan
  <2>2. CASE opened' = opened
    BY <2>1, <2>2, NextUnopened DEF TasksInv, StartedFirst, PlansAreWhole
  <2>3. CASE opened' = opened \cup {<<p, k, m>> : k \in PlanKeys[p]}
    <3>1. ASSUME NEW t \in opened', NEW k \in PlanKeys[t[1]]
          PROVE  <<t[1], k, t[3]>> \in opened'
      <4>1. CASE t \in opened
        BY <2>3, <3>1, <4>1 DEF TasksInv, PlansAreWhole
      <4>2. CASE t \in {<<p, j, m>> : j \in PlanKeys[p]}
        BY <2>3, <3>1, <4>2
      <4>3. QED
        BY <2>3, <4>1, <4>2
    <3>2. QED
      BY <2>1, <3>1, NextUnopened DEF TasksInv, StartedFirst, PlansAreWhole
  <2>4. QED
    BY <1>2, <2>2, <2>3, ActivationOfAPlan
<1>3. CASE UNCHANGED <<feature, opened>>
  BY <1>3, NextUnopened DEF TasksInv, StartedFirst, PlansAreWhole
<1>4. QED
  BY <1>1, <1>2, <1>3, StepsAre, TransitionOfATask, HandOverOfATask DEF featureRows, Recording

LEMMA NextWork == TypeOK /\ WorkInv /\ [Next]_vars => WorkInv'
<1> SUFFICES ASSUME TypeOK, WorkInv, [Next]_vars, NEW t \in Task PROVE Earned(t)'
  BY DEF WorkInv
<1>0. Earned(t) /\ \A d \in Dependencies[t] : d \in Task
  BY DependenciesAreTasks DEF WorkInv
<1>a. \A d \in Dependencies[t] : status[d] = "ACCEPTED" => status'[d] = "ACCEPTED"
  BY <1>0, AcceptedTasksStay DEF Work
<1>1. ASSUME NEW u \in Task, TransitionTask(u) PROVE Earned(t)'
  <2>1. CASE t # u
    <3>1. UNCHANGED Work(t) /\ UNCHANGED <<approved, passed>>
      BY <1>1, <2>1, OthersRest
    <3>2. QED
      BY <1>0, <1>a, <3>1 DEF Work, Earned
  <2>2. CASE t = u
    <3>1. <<status[t], status'[t]>> \in TaskWalk
      BY <1>1, <2>2, TransitionOfATask
    <3>2. status'[t] \notin {"CREATED", "PENDING_DEPENDENCIES"} =>
            \A d \in Dependencies[t] : status'[d] = "ACCEPTED"
      BY <1>0, <1>a, <1>1, <2>2, <3>1, TransitionOfATask DEF Earned, TaskWalk
    <3>3. status'[t] \in {"SUBMITTED", "IN_REVIEW", "IN_QA", "ACCEPTED"} => t \in Backend
      BY <1>0, <1>1, <2>2, <3>1, TransitionOfATask DEF Earned, TaskWalk
    <3>4. status'[t] \in {"IN_REVIEW", "IN_QA", "ACCEPTED"} =>
            reviewer'[t] \in Capable[t] \ (authors'[t] \cup {worker'[t]})
      BY <1>0, <1>1, <2>2, <3>1, TransitionOfATask DEF Earned, TaskWalk
    <3>5. /\ status'[t] \in {"IN_QA", "ACCEPTED"} => <<t, revision'[t]>> \in approved'
          /\ status'[t] = "ACCEPTED" => <<t, revision'[t]>> \in passed'
      BY <1>0, <1>1, <2>2, <3>1, TransitionOfATask DEF Earned, TaskWalk
    <3>6. QED
      BY <3>2, <3>3, <3>4, <3>5 DEF Earned
  <2>3. QED
    BY <2>1, <2>2
<1>2. ASSUME NEW u \in Task, HandOver(u) PROVE Earned(t)'
  BY <1>0, <1>a, <1>2, HandOverOfATask DEF Earned
<1>3. CASE TransitionFeature \/ \E p \in PlanId, m \in Maker : ActivatePlan(p, m)
  <2>1. UNCHANGED taskRows
    BY <1>3, TransitionOfTheFeature, ActivationOfAPlan
  <2>2. QED
    BY <1>0, <2>1 DEF taskRows, Earned
<1>4. CASE Recording
  BY <1>0, <1>4 DEF Recording, Earned
<1>5. QED
  BY <1>1, <1>2, <1>3, <1>4, StepsAre

LEMMA NextCertificate == TypeOK /\ CertificateInv /\ [Next]_vars => CertificateInv'
<1> SUFFICES ASSUME TypeOK, CertificateInv, [Next]_vars PROVE CertificateInv'
  OBVIOUS
<1>0. Accepted \subseteq Accepted'
  BY OpenedTasksStay
<1>1. CASE TransitionFeature
  <2>1. /\ <<feature, feature'>> \in FeatureWalk /\ UNCHANGED <<opened, finalPasses, filed>>
        /\ round' = round \/ feature' = "IN_PROGRESS"
    BY <1>1, TransitionOfTheFeature
  <2>2. QED
    BY <1>0, <1>1, <2>1, TransitionOfTheFeature DEF CertificateInv, Implementation
<1>2. ASSUME NEW p \in PlanId, NEW m \in Maker, ActivatePlan(p, m) PROVE CertificateInv'
  BY <1>2, ActivationOfAPlan DEF CertificateInv
<1>3. CASE /\ UNCHANGED <<feature, round, opened>>
           /\ finalPasses \subseteq finalPasses' /\ filed \subseteq filed'
  BY <1>0, <1>3 DEF CertificateInv, Implementation
<1>4. QED
  BY <1>1, <1>2, <1>3, StepsAre, TransitionOfATask, HandOverOfATask DEF featureRows, Recording

LEMMA ProcessIsInvariant == Spec => [](TypeOK /\ ProcessInv)
<1>1. Init => ProcessInv
  BY DEF Init, FeatureSide!Init, TaskSide!Init, ProcessInv, TasksInv, UnopenedAreNew, IsNew,
     StartedFirst, PlansAreWhole, WorkInv, Earned, CertificateInv
<1>2. TypeOK /\ ProcessInv /\ [Next]_vars => ProcessInv'
  BY NextTasks, NextWork, NextCertificate DEF ProcessInv
<1>3. QED
  BY <1>1, <1>2, ProcessTypes, PTL DEF Spec

----------------------------------------------------------------------------
(* Whatever the two sides do in turns, a Feature that is ACCEPTED has a    *)
(* Final Pass and its evidence, and each of its Tasks was approved and     *)
(* passed QA at the Revision it has, by a capable Reviewer who wrote none  *)
(* of it, upon accepted prerequisites.                                     *)
THEOREM AcceptedFeaturesAreEngineered == Spec => []AcceptedIsEngineered
<1>1. TypeOK /\ ProcessInv => AcceptedIsEngineered
  <2> SUFFICES ASSUME TypeOK, ProcessInv, feature = "ACCEPTED", NEW t \in opened
               PROVE  IsEngineered(t)
    BY DEF AcceptedIsEngineered, ProcessInv, CertificateInv
  <2>1. t \in Task /\ status[t] = "ACCEPTED" /\ Earned(t)
    BY DEF TypeOK, ProcessInv, CertificateInv, WorkInv, Accepted
  <2>2. ASSUME NEW d \in Dependencies[t] PROVE d \in Accepted
    <3>1. d \in Task /\ status[d] = "ACCEPTED"
      BY <2>1, DependenciesAreTasks DEF Earned
    <3>2. d \in opened
      BY <3>1 DEF ProcessInv, TasksInv, UnopenedAreNew, IsNew
    <3>3. QED
      BY <3>1, <3>2 DEF Accepted
  <2>3. QED
    BY <2>1, <2>2 DEF IsEngineered, Earned
<1>2. QED
  BY <1>1, ProcessIsInvariant, PTL

(* No status, assignment, Revision or package changes any more, and no     *)
(* Task is added, once the Feature is ACCEPTED: neither side looks at the  *)
(* Feature's status before it works on a Task, and none needs to.          *)
THEOREM AcceptedFeaturesRest == Spec => AcceptedIsAtRest
<1> DEFINE Rests == UNCHANGED <<feature, round, opened>> /\ \A t \in Task : UNCHANGED Work(t)
<1>1. TypeOK /\ ProcessInv /\ [Next]_vars => [feature = "ACCEPTED" => Rests]_vars
  <2> SUFFICES ASSUME TypeOK, ProcessInv, [Next]_vars, feature = "ACCEPTED" PROVE Rests
    OBVIOUS
  <2>1. \A t \in opened : t \in Task /\ status[t] = "ACCEPTED"
    BY DEF TypeOK, ProcessInv, CertificateInv, Accepted
  <2>2. ~TransitionFeature /\ ~\E p \in PlanId, m \in Maker : ActivatePlan(p, m)
    BY TransitionOfTheFeature, ActivationOfAPlan DEF FeatureWalk
  <2>3. ~\E t \in Task : TransitionTask(t) \/ HandOver(t)
    BY <2>1, TransitionOfATask, HandOverOfATask DEF TaskWalk
  <2>4. Recording
    BY <2>2, <2>3, StepsAre
  <2>5. QED
    BY <2>4 DEF Recording, Work
<1>2. QED
  BY <1>1, ProcessIsInvariant, PTL DEF Spec, AcceptedIsAtRest

(* While the Feature is validated its implementation stays as it is: what  *)
(* QA looks at is what is accepted.                                        *)
THEOREM ValidatedFeaturesRest == Spec => ValidatedIsAtRest
<1>1. TypeOK /\ ProcessInv /\ [Next]_vars
        => [feature = "IN_VALIDATION" =>
              \A t \in Implementation(opened) : UNCHANGED Work(t)]_vars
  <2> SUFFICES ASSUME TypeOK, ProcessInv, [Next]_vars, feature = "IN_VALIDATION",
                      NEW t \in Implementation(opened)
               PROVE  UNCHANGED Work(t)
    OBVIOUS
  <2>1. t \in Task /\ status[t] = "ACCEPTED"
    BY DEF TypeOK, ProcessInv, CertificateInv, Accepted, Implementation
  <2>2. QED
    BY <2>1, AcceptedTasksStay
<1>2. QED
  BY <1>1, ProcessIsInvariant, PTL DEF Spec, ValidatedIsAtRest

(* A plan with a definition of another capability than BACKEND never gets  *)
(* its Feature accepted.                                                   *)
THEOREM AcceptedFeaturesAreBackend == Spec => []OnlyBackendIsAccepted
<1>1. TypeOK /\ ProcessInv => OnlyBackendIsAccepted
  <2> SUFFICES ASSUME TypeOK, ProcessInv PROVE OnlyBackendIsAccepted
    OBVIOUS
  <2>1. \A t \in Accepted : t \in Backend
    BY DEF TypeOK, Accepted, ProcessInv, WorkInv, Earned
  <2>2. QED
    BY <2>1 DEF OnlyBackendIsAccepted, ProcessInv, CertificateInv
<1>2. QED
  BY <1>1, ProcessIsInvariant, PTL

(* Nobody works on a Task before an activation has started its Feature.    *)
THEOREM WorkComesAfterTheStart == Spec => []WorkFollowsTheStart
<1>1. ProcessInv => WorkFollowsTheStart
  BY DEF ProcessInv, TasksInv, UnopenedAreNew, IsNew, StartedFirst, WorkFollowsTheStart
<1>2. QED
  BY <1>1, ProcessIsInvariant, PTL

LEMMA WholePlansHavePrerequisites ==
  ASSUME TypeOK, ProcessInv
  PROVE  PrerequisitesExist
<1> SUFFICES ASSUME NEW t \in opened, NEW d \in Dependencies[t] PROVE d \in opened
  BY DEF PrerequisitesExist
<1>1. t \in Task
  BY DEF TypeOK
<1>2. d[2] \in PlanKeys[t[1]] /\ d = <<t[1], d[2], t[3]>>
  BY <1>1, DependenciesAreTasks
<1>3. QED
  BY <1>2 DEF ProcessInv, TasksInv, PlansAreWhole

(* However activations are retried, every prerequisite of a Task is there. *)
THEOREM PrerequisitesAreThere == Spec => []PrerequisitesExist
BY WholePlansHavePrerequisites, ProcessIsInvariant, PTL

(* A definition comes after those of its plan it depends on.  FeaturePlan  *)
(* refuses a plan in which this closes a circle (domain/plan.py), and      *)
(* plans are finite: the relation is well-founded.                         *)
ComesBefore ==
  {pair \in Definitions \X Definitions :
     LET d == pair[1]
         e == pair[2]
     IN d[1] = e[1] /\ d[2] \in Needs[e]}

(* Hence no Feature is ever stuck with Tasks that all wait for each other: *)
(* until all are ACCEPTED, there is one whose prerequisites are.           *)
THEOREM SomeTaskAlwaysCanGoOn ==
  ASSUME IsWellFoundedOn(ComesBefore, Definitions)
  PROVE  Spec => []SomeTaskCanGoOn
<1>1. TypeOK /\ ProcessInv => SomeTaskCanGoOn
  <2> SUFFICES ASSUME TypeOK, ProcessInv, opened # Accepted
               PROVE  \E t \in opened \ Accepted : Dependencies[t] \subseteq Accepted
    BY DEF SomeTaskCanGoOn
  <2> DEFINE todo == {Of(t) : t \in opened \ Accepted}
  <2>1. todo # {}
    BY DEF Accepted
  <2>2. ASSUME NEW t \in Task PROVE Of(t) \in Definitions
    BY TasksAreTriples DEF Of, Definitions
  <2>3. todo \subseteq Definitions
    BY <2>2 DEF TypeOK
  <2>4. PICK e \in todo : \A d \in todo : ~(<<d, e>> \in ComesBefore)
    BY <2>1, <2>3, WFMin
  <2>5. PICK t \in opened \ Accepted : e = Of(t)
    OBVIOUS
  <2>6. ASSUME NEW d \in Dependencies[t] PROVE d \in Accepted
    <3>1. t \in Task /\ d \in opened
      BY WholePlansHavePrerequisites DEF TypeOK, PrerequisitesExist
    <3>2. d \in Task /\ d[1] = t[1] /\ d[2] \in Needs[Of(t)]
      BY <3>1, DependenciesAreTasks
    <3>3. <<Of(d), Of(t)>> \in ComesBefore
      BY <2>2, <3>1, <3>2 DEF ComesBefore, Of
    <3>4. Of(d) \notin todo
      BY <2>4, <2>5, <3>3
    <3>5. QED
      BY <3>1, <3>4
  <2>7. QED
    BY <2>5, <2>6
<1>2. QED
  BY <1>1, ProcessIsInvariant, PTL

----------------------------------------------------------------------------
(* The Feature's promise, with the Task side at work.  What AtomicFeature  *)
(* assumes of whoever accepts its Tasks, Record, is what the Task side     *)
(* does: a Task is accepted when it is there, and for good; and the Tasks  *)
(* that an activation adds are not ACCEPTED.                               *)
THEOREM TheFeatureIsKept == Spec => KeepsTheFeature
<1>1. Init => FeatureSide!Init
  BY DEF Init
<1>2. TypeOK /\ ProcessInv /\ [Next]_vars => [FeatureSide!Next]_(FeatureSide!vars)
  <2> SUFFICES ASSUME TypeOK, ProcessInv, [Next]_vars PROVE FeatureSide!Next
    OBVIOUS
  <2>1. CASE TransitionFeature
    <3>1. FeatureSide!Moves /\ UNCHANGED <<attached, finalPasses, filed, status, opened>>
      BY <2>1, TransitionOfTheFeature DEF TransitionFeature, taskRows
    <3>2. FeatureSide!Advance
      BY <3>1 DEF FeatureSide!Advance, FeatureSide!records, Accepted
    <3>3. QED
      BY <3>2 DEF FeatureSide!Next
  <2>2. ASSUME NEW p \in PlanId, NEW m \in Maker, ActivatePlan(p, m) PROVE FeatureSide!Next
    <3>1. FeatureSide!Starts(p, m) /\ UNCHANGED <<attached, finalPasses, filed, status>>
      BY <2>2 DEF ActivatePlan, taskRows
    <3>2. opened \subseteq opened' /\ opened' \subseteq Task
      BY NextTypes, OpenedTasksStay DEF TypeOK
    <3>3. \A t \in opened' \ opened : status[t] = "CREATED"
      BY <3>2 DEF ProcessInv, TasksInv, UnopenedAreNew, IsNew
    <3>4. Accepted' = Accepted
      BY <3>1, <3>2, <3>3 DEF Accepted
    <3>5. FeatureSide!Activate(p, m)
      BY <3>1, <3>4 DEF FeatureSide!Activate, FeatureSide!records
    <3>6. QED
      BY <3>5 DEF FeatureSide!Next
  <2>3. ASSUME NEW t \in Task, TransitionTask(t) \/ HandOver(t) PROVE FeatureSide!Next
    <3>1. UNCHANGED <<feature, round, attached, opened, finalPasses, filed>>
      BY <2>3, TransitionOfATask, HandOverOfATask DEF featureRows
    <3>2. FeatureSide!Record
      BY <3>1, OpenedTasksStay DEF FeatureSide!Record, Accepted
    <3>3. QED
      BY <3>2 DEF FeatureSide!Next
  <2>4. CASE Recording
    <3>1. FeatureSide!Record
      BY <2>4, OpenedTasksStay DEF FeatureSide!Record, Recording, Accepted
    <3>2. QED
      BY <3>1 DEF FeatureSide!Next
  <2>5. QED
    BY <2>1, <2>2, <2>3, <2>4, StepsAre
<1>3. QED
  BY <1>1, <1>2, ProcessIsInvariant, PTL DEF Spec, KeepsTheFeature, FeatureSide!Spec

(* A Task is added untouched (core/kernel.py, _instantiate): under no      *)
(* Feature is a Task worked on, decided on or reported on that is not      *)
(* there, which is what the Task side assumes of its beginning.            *)
THEOREM TasksAreAddedNew == Spec => AddedIsNew
<1>1. TypeOK /\ TypeOK' /\ ProcessInv /\ [Next]_vars =>
        [\A t \in opened' \ opened :
           /\ Work(t)' = <<"CREATED", NoActor, NoActor, 0, {}, {}>>
           /\ \A certified \in approved' \cup passed' : certified[1] # t]_vars
  <2> SUFFICES ASSUME TypeOK, TypeOK', ProcessInv, [Next]_vars, NEW t \in opened' \ opened
               PROVE  /\ Work(t)' = <<"CREATED", NoActor, NoActor, 0, {}, {}>>
                      /\ \A certified \in approved' \cup passed' : certified[1] # t
    OBVIOUS
  <2>1. IsNew(t)
    BY DEF TypeOK, ProcessInv, TasksInv, UnopenedAreNew
  <2>2. \E p \in PlanId, m \in Maker : ActivatePlan(p, m)
    BY StepsAre, TransitionOfTheFeature, TransitionOfATask, HandOverOfATask
    DEF featureRows, Recording
  <2>3. UNCHANGED taskRows
    BY <2>2, ActivationOfAPlan
  <2>4. QED
    BY <2>1, <2>3 DEF IsNew, Work, taskRows
<1>2. QED
  BY <1>1, ProcessIsInvariant, PTL DEF Spec, AddedIsNew

=============================================================================
