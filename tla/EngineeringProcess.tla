-------------------------- MODULE EngineeringProcess --------------------------
(***************************************************************************)
(* The two sides of the Kernel over one set of rows: a Feature, the Tasks  *)
(* its plans become, and the work on them.  A step is one operation of     *)
(* AtomicFeature or of AtomicTasks, which FeatureKernel and TaskKernel     *)
(* implement, and leaves the other side's rows alone: an operation saves   *)
(* the Feature with its plans and new Tasks, or one Task (core/kernel.py). *)
(*                                                                         *)
(* Nothing here couples the two but the rows both read.  The Feature is    *)
(* judged on the statuses of its Tasks, that the Task side writes; a Task  *)
(* is there once an activation has added it, and neither side looks at     *)
(* anything else of the other.  That what either assumes of the other is   *)
(* kept, and what the two amount to together, is what is to be shown.      *)
(***************************************************************************)
EXTENDS Integers, Lifecycle

CONSTANTS
  PlanId,           \* the Feature's possible plans
  PlanKeys,         \* [PlanId -> SUBSET Key]: the definitions of each plan
  QAKey,            \* the keys whose definition has capability QA
  Maker,            \* who may activate: a Task's identifier is new each time
  Needs,            \* [Definition -> SUBSET Key]: depends_on, within the plan
  Skilled,          \* [Definition -> SUBSET Actor]: who declares its capability
  BackendWork,      \* the definitions of capability BACKEND
  Actor, NoActor,
  FeatureStandard,  \* the types of evidence a Feature is accepted on
  TaskStandard      \* ... and a Task submitted on

(* A definition is named by its plan and its key in it, a Task by these    *)
(* and by who made it.                                                     *)
Definitions == UNION {{p} \X PlanKeys[p] : p \in PlanId}
Task        == UNION {{p} \X PlanKeys[p] \X Maker : p \in PlanId}
Of(t)       == <<t[1], t[2]>>

Implementation(tasks) == {t \in tasks : t[2] \notin QAKey}

(* _resolved_dependencies: keys become the Tasks made with this one.       *)
Dependencies ==
  [t \in Task |-> {<<t[1], k, t[3]>> : k \in Needs[Of(t)] \cap PlanKeys[t[1]]}]
Capable == [t \in Task |-> Skilled[Of(t)]]
Backend == {t \in Task : Of(t) \in BackendWork}

VARIABLES
  feature, round, attached, opened, finalPasses, filed,
  status, worker, reviewer, revision, authors, packaged, evidenced, approved, passed

featureRows == <<feature, round, attached, opened, finalPasses, filed>>
taskRows    == <<status, worker, reviewer, revision, authors, packaged, evidenced,
                 approved, passed>>
vars        == <<featureRows, taskRows>>

(* Who reads the statuses of a Feature's Tasks sees which are ACCEPTED.    *)
Accepted == {t \in opened : status[t] = "ACCEPTED"}

FeatureSide == INSTANCE AtomicFeature WITH
  Mandatory <- FeatureStandard, status <- feature, accepted <- Accepted,
  passed <- finalPasses, evidenced <- filed
TaskSide == INSTANCE AtomicTasks WITH Mandatory <- TaskStandard

Init == FeatureSide!Init /\ TaskSide!Init

----------------------------------------------------------------------------
(* transition_feature and return_for_rework.                               *)
TransitionFeature ==
  /\ feature' \in FeatureStatus /\ round' \in {round, round + 1}
  /\ FeatureSide!Moves
  /\ UNCHANGED <<attached, finalPasses, filed, taskRows>>

(* activate_plan.                                                          *)
ActivatePlan(p, m) ==
  /\ FeatureSide!Starts(p, m)
  /\ UNCHANGED <<attached, finalPasses, filed, taskRows>>

(* transition_task, assign_task and route_for_review, of a Task there is.  *)
TransitionTask(t) ==
  /\ t \in opened
  /\ \E to \in TaskStatus, w, r \in Actor \cup {NoActor} :
       /\ status' = [status EXCEPT ![t] = to]
       /\ worker' = [worker EXCEPT ![t] = w] /\ reviewer' = [reviewer EXCEPT ![t] = r]
  /\ TaskSide!Advance(t)
  /\ UNCHANGED featureRows

(* The Worker hands over a Revision, with what evidence comes with it.     *)
HandOver(t) ==
  /\ t \in opened
  /\ \E types \in SUBSET TaskStandard : evidenced' = [evidenced EXCEPT ![t] = @ \cup types]
  /\ TaskSide!HandOver(t)
  /\ UNCHANGED featureRows

AddPlan(p) ==
  /\ attached' = attached \cup {p}
  /\ UNCHANGED <<feature, round, opened, finalPasses, filed, taskRows>>

(* A Reviewer decides on a Revision of a Task.                             *)
Approve(t) ==
  /\ t \in opened
  /\ \E n \in 1..revision[t] : approved' = approved \cup {<<t, n>>}
  /\ UNCHANGED <<featureRows, status, worker, reviewer, revision, authors, packaged, evidenced,
                 passed>>

(* record_qa_report: it is a Final Pass or not, on a Revision or on none,  *)
(* and its evidence counts for the Feature and for each of the Tasks.  It  *)
(* is stamped with the round that was read, which may be over.             *)
RecordReport(n) ==
  /\ finalPasses' \in {finalPasses, finalPasses \cup {n}}
  /\ \E types \in SUBSET (FeatureStandard \cup TaskStandard) :
       /\ filed' = filed \cup ({n} \X (types \cap FeatureStandard))
       /\ evidenced' = [t \in Task |-> evidenced[t] \cup (types \cap TaskStandard)]
  /\ \/ passed' = passed
     \/ \E t \in opened : \E i \in 1..revision[t] : passed' = passed \cup {<<t, i>>}
  /\ UNCHANGED <<feature, round, attached, opened, status, worker, reviewer, revision, authors,
                 packaged, approved>>

Next ==
  \/ TransitionFeature
  \/ \E p \in PlanId : AddPlan(p) \/ \E m \in Maker : ActivatePlan(p, m)
  \/ \E t \in Task : TransitionTask(t) \/ HandOver(t) \/ Approve(t)
  \/ \E n \in 1..round : RecordReport(n)

Spec == Init /\ [][Next]_vars

----------------------------------------------------------------------------
(* What the two sides amount to: an ACCEPTED Feature has a Final Pass and  *)
(* its evidence, and each Task of it was approved and passed QA at the     *)
(* very Revision it has, reviewed by somebody capable who wrote none of    *)
(* it, upon prerequisites that were accepted themselves.                   *)
IsEngineered(t) ==
  /\ status[t] = "ACCEPTED"
  /\ <<t, revision[t]>> \in approved \cap passed
  /\ reviewer[t] \in Capable[t] \ (authors[t] \cup {worker[t]})
  /\ Dependencies[t] \subseteq Accepted

AcceptedIsEngineered ==
  feature = "ACCEPTED" =>
    /\ opened # {} /\ \A t \in opened : IsEngineered(t)
    /\ round \in finalPasses /\ {round} \X FeatureStandard \subseteq filed

(* Nobody's work changes under a Feature that is ACCEPTED, ...             *)
Work(t) == <<status[t], worker[t], reviewer[t], revision[t], authors[t], packaged[t]>>

AcceptedIsAtRest ==
  [][feature = "ACCEPTED" =>
       UNCHANGED <<feature, round, opened>> /\ \A t \in Task : UNCHANGED Work(t)]_vars

(* ... and no implementation under one that is being validated: what QA    *)
(* has tested is what the Feature is accepted with.                        *)
ValidatedIsAtRest ==
  [][feature = "IN_VALIDATION" =>
       \A t \in Implementation(opened) : UNCHANGED Work(t)]_vars

(* Only work of capability BACKEND can be submitted (rules/evidence.py has *)
(* no standard for another), so that a Feature with a QA Task is never     *)
(* ACCEPTED, nor one with a FRONTEND Task validated.                       *)
OnlyBackendIsAccepted ==
  /\ feature = "IN_VALIDATION" => Implementation(opened) \subseteq Backend
  /\ feature = "ACCEPTED" => opened \subseteq Backend

(* No work before a plan has started the Feature.                          *)
WorkFollowsTheStart ==
  \A t \in Task :
    status[t] # "CREATED" \/ revision[t] # 0 =>
      t \in opened /\ feature \notin {"DRAFT", "PLANNED"}

(* No Task waits for one that there will never be.                         *)
PrerequisitesExist == \A t \in opened : Dependencies[t] \subseteq opened

(* As long as there is a Task to accept, one waits for no other.           *)
SomeTaskCanGoOn ==
  opened # Accepted => \E t \in opened \ Accepted : Dependencies[t] \subseteq Accepted

TypeOK ==
  /\ feature \in FeatureStatus /\ round \in Nat \ {0}
  /\ opened \subseteq Task
  /\ status \in [Task -> TaskStatus]
  /\ worker \in [Task -> Actor \cup {NoActor}] /\ reviewer \in [Task -> Actor \cup {NoActor}]
  /\ revision \in [Task -> Nat]
  /\ authors \in [Task -> SUBSET Actor] /\ packaged \in [Task -> SUBSET Nat]
  /\ evidenced \in [Task -> SUBSET TaskStandard]

(* An activation adds a Task as AtomicTasks assumes it begins, whatever    *)
(* has been done and recorded under the Feature before: nobody has it, and *)
(* nothing was handed over, decided or reported on it.                     *)
AddedIsNew ==
  [][\A t \in opened' \ opened :
       /\ Work(t)' = <<"CREATED", NoActor, NoActor, 0, {}, {}>>
       /\ \A certified \in approved' \cup passed' : certified[1] # t]_vars

(* The Feature side promises with the Task side what it promises alone.    *)
KeepsTheFeature == FeatureSide!Spec
=============================================================================
