-------------------------- MODULE MCTransitionRunner --------------------------
(* Two Units of Work.  The first asks for any edge of the Feature and Task *)
(* graphs, in its right or on somebody else's behalf, over facts of which  *)
(* any combination of what the edge needs is true; the second is one of a  *)
(* few that save the same rows.                                            *)
EXTENDS TransitionRunner, TLC

CONSTANTS first, second, featureRow, planRow, taskRow, package

MCReason == IMPLEMENTED \cup {"state_machine"}

Everything == {"candidate_worker", "requesting_actor"}

SavesOf(graph, e) ==
  IF graph = "Task" THEN <<<<taskRow, "status">>>>
  ELSE IF e.from = "PLANNED" THEN <<<<planRow, "status">>, <<featureRow, "status">>>>
  ELSE <<<<featureRow, "status">>>>

Ask1(graph, e, by, supplied, holds, sound) ==
  [graph |-> graph, from |-> e.from, to |-> e.to, by |-> by, supplied |-> supplied,
   holds |-> holds, saves |-> SavesOf(graph, e), sound |-> sound]

(* What may be true of the facts: of a plan or a Work Package that is not  *)
(* there nothing is.                                                       *)
Relevant(e) ==
  LET own == e.needs \cap IMPLEMENTED
  IN own \cup (UNION {RuleFor(c).requires : c \in own})
Possible(holds) ==
  \A c \in {"PLAN_HAS_TASK_DEFINITIONS", "PLAN_IS_READY", "CLAIMS_DEFINED",
            "VERIFICATION_GUIDE_PRESENT"} \cap holds : RuleFor(c).requires \subseteq holds
Facts(e) == {holds \in SUBSET Relevant(e) : Possible(holds)}

Right(e) == CHOOSE by \in e.by : TRUE
Wrong(e) == CHOOSE by \in Initiator \ e.by : TRUE

OfEdge(graph, e) ==
  {Ask1(graph, e, Right(e), Everything, holds, TRUE) : holds \in Facts(e)}
    \cup {Ask1(graph, e, Wrong(e), Everything, {}, TRUE),
          Ask1(graph, e, Right(e), {}, Relevant(e), TRUE),
          Ask1(graph, e, Right(e), Everything, Relevant(e), FALSE)}

Kernel == UNION {OfEdge("Feature", e) : e \in FeatureEdges}
            \cup UNION {OfEdge("Task", e) : e \in TaskEdges}

Plain(saves) ==
  [graph |-> "none", from |-> "", to |-> "", by |-> OS, supplied |-> {}, holds |-> {},
   saves |-> saves, sound |-> TRUE]

Packages == {Plain(<<<<package, "edit">>>>), Plain(<<<<package, "edit">>, <<package, "submit">>>>)}

Activation == Definition(FeatureEdges, "PLANNED", "IN_PROGRESS")
Assignment == Definition(TaskEdges, "READY", "ASSIGNED")

MCAsked == (first :> Kernel \cup Packages) @@
           (second :> Packages
              \cup {Ask1("Feature", Activation, Coordinator, Everything, Relevant(Activation), TRUE),
                    Ask1("Task", Assignment, Coordinator, Everything, Relevant(Assignment), TRUE),
                    Plain(<<<<planRow, "status">>>>)})

(* The order of the Kernel's saves: a Feature after its plan.              *)
ASSUME KernelsOrder == SavesInOrder({featureRow} \X {planRow})
===============================================================================
