----------------------------- MODULE AtomicTasks -----------------------------
(***************************************************************************)
(* What the Task side of the Kernel promises whoever reads its rows, with  *)
(* no Unit of Work in sight: one Task at a time takes one edge of its      *)
(* graph, and what that edge demands is true of the stored rows at that    *)
(* very instant.  TaskKernel, which reads first and saves later, is shown  *)
(* to implement it.                                                        *)
(*                                                                         *)
(* It promises nothing the Kernel cannot keep: that the plan is active or  *)
(* the Worker's row is, or which of several QA Reports counts, is judged   *)
(* on what was read, and may be over by the time of the save.              *)
(***************************************************************************)
EXTENDS Integers, Lifecycle

CONSTANTS Task, Dependencies, Backend, Actor, Capable, Mandatory, NoActor

VARIABLES
  status, worker, reviewer,
  revision,  \* per Task, the number of its active Revision
  authors,   \* per Task, who wrote its Revisions
  packaged,  \* per Task, the numbers of its Revisions with a Work Package
  evidenced, \* per Task, the types of SYSTEM Evidence that count for it
  approved,  \* the Revisions <<task, number>> with an approving Decision
  passed     \* ... and with a PASSED report of executed tests

rows    == <<status, worker, reviewer>>
records == <<packaged, evidenced, approved, passed>>
vars    == <<rows, revision, authors, records>>

Init ==
  /\ status = [t \in Task |-> "CREATED"]
  /\ worker = [t \in Task |-> NoActor] /\ reviewer = [t \in Task |-> NoActor]
  /\ revision = [t \in Task |-> 0]
  /\ authors = [t \in Task |-> {}]
  /\ packaged = [t \in Task |-> {}]
  /\ evidenced = [t \in Task |-> {}]
  /\ approved = {} /\ passed = {}

(* What may be true of t when it enters a status, of the rows as they are. *)
Entitled(t, to) ==
  /\ to = "READY" => \A d \in Dependencies[t] : status[d] = "ACCEPTED"
  /\ to = "SUBMITTED" => /\ t \in Backend /\ Mandatory \subseteq evidenced[t]
                         /\ revision[t] \in packaged[t]
  /\ to = "IN_QA" => <<t, revision[t]>> \in approved
  /\ to = "ACCEPTED" => <<t, revision[t]>> \in passed

Others(t) == \A u \in Task \ {t} : /\ status'[u] = status[u] /\ worker'[u] = worker[u]
                                   /\ reviewer'[u] = reviewer[u]

(* One Task takes one edge of its graph.  Only an assignment names the     *)
(* Worker, and only routing a Reviewer, who did not do the work.           *)
Advance(t) ==
  /\ Defines(TaskEdges, status[t], status'[t])
  /\ Entitled(t, status'[t])
  /\ status'[t] = "ASSIGNED" \/ worker'[t] = worker[t]
  /\ status'[t] = "ASSIGNED" => worker[t] = NoActor
  /\ status'[t] = "IN_REVIEW" \/ reviewer'[t] = reviewer[t]
  /\ status'[t] = "IN_REVIEW" =>
       reviewer'[t] \in Capable[t] \ (authors[t] \cup {worker'[t]})
  /\ Others(t)
  /\ UNCHANGED <<revision, authors, records>>

(* The Worker hands over the next Revision, while the Task is in work.     *)
HandOver(t) ==
  /\ status[t] \in {"ASSIGNED", "IN_PROGRESS", "REVISION_REQUIRED"}
  /\ revision' = [revision EXCEPT ![t] = @ + 1]
  /\ \E a \in Actor : authors' = [authors EXCEPT ![t] = @ \cup {a}]
  /\ \E more \in {{}, {revision'[t]}} : packaged' = [packaged EXCEPT ![t] = @ \cup more]
  /\ \A u \in Task : evidenced[u] \subseteq evidenced'[u]
  /\ UNCHANGED <<rows, approved, passed>>

(* Evidence, Decisions and reports are recorded, and never withdrawn.      *)
Record ==
  /\ \A t \in Task : evidenced[t] \subseteq evidenced'[t]
  /\ approved \subseteq approved' /\ passed \subseteq passed'
  /\ UNCHANGED <<rows, revision, authors, packaged>>

Next == Record \/ \E t \in Task : Advance(t) \/ HandOver(t)

Spec == Init /\ [][Next]_vars
=============================================================================
