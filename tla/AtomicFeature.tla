---------------------------- MODULE AtomicFeature ----------------------------
(***************************************************************************)
(* What the Feature side of the Kernel promises whoever reads its rows,    *)
(* with no Unit of Work in sight: the Feature takes one edge of its graph  *)
(* at a time, what the edge demands is true of the stored rows at that     *)
(* very instant, and a plan becomes Tasks as a whole and once, in the step *)
(* that starts the Feature.  FeatureKernel, which reads first and saves    *)
(* later, is shown to implement it.                                        *)
(*                                                                         *)
(* It promises nothing the Kernel cannot keep: that no defect is open, or  *)
(* that a plan is live, READY or the newest, is judged on what was read    *)
(* and may be over by the time of the save.                                *)
(***************************************************************************)
EXTENDS Integers, Lifecycle

CONSTANTS PlanId, PlanKeys, QAKey, Maker, Mandatory

VARIABLES
  status, round,
  attached,  \* the plans that have been added
  opened,    \* the Tasks <<plan, key, maker>> there are
  accepted,  \* ... and those that are ACCEPTED
  passed,    \* the rounds with a valid QA Final Pass
  evidenced  \* the types of evidence on record, as <<round, type>>

records == <<attached, accepted, passed, evidenced>>
vars    == <<status, round, opened, records>>

Init ==
  /\ status = "DRAFT" /\ round = 1
  /\ attached = {} /\ opened = {} /\ accepted = {} /\ passed = {} /\ evidenced = {}

Implementation == {t \in opened : t[2] \notin QAKey}

Started(p) == \E t \in opened : t[1] = p

(* What may be true when the Feature enters a status, of the rows as they  *)
(* are.                                                                    *)
Entitled(to) ==
  /\ to = "PLANNED" => attached # {}
  /\ to = "IN_VALIDATION" => Implementation # {} /\ Implementation \subseteq accepted
  /\ to = "ACCEPTED" => /\ opened # {} /\ opened \subseteq accepted
                        /\ round \in passed
                        /\ \A e \in Mandatory : <<round, e>> \in evidenced

(* The Feature takes one edge of its graph.  A round may only begin with   *)
(* IN_PROGRESS, and is then the next one.                                  *)
Moves ==
  /\ Defines(FeatureEdges, status, status')
  /\ Entitled(status')
  /\ round' = round \/ (status' = "IN_PROGRESS" /\ round' = round + 1)
  /\ opened' = opened

Advance == Moves /\ UNCHANGED records

(* A plan starts the Feature, and becomes its Tasks if it has not before.  *)
Starts(p, m) ==
  /\ Defines(FeatureEdges, status, "IN_PROGRESS") /\ status' = "IN_PROGRESS"
  /\ p \in attached
  /\ opened' = IF Started(p) THEN opened ELSE opened \cup {<<p, k, m>> : k \in PlanKeys[p]}
  /\ round' = round

Activate(p, m) == Starts(p, m) /\ UNCHANGED records

(* A Task is ACCEPTED, a plan added or a report recorded, for good.        *)
Record ==
  /\ attached \subseteq attached' /\ passed \subseteq passed' /\ evidenced \subseteq evidenced'
  /\ accepted \subseteq accepted' /\ accepted' \subseteq opened
  /\ UNCHANGED <<status, round, opened>>

Next == Advance \/ Record \/ \E p \in PlanId, m \in Maker : Activate(p, m)

Spec == Init /\ [][Next]_vars
=============================================================================
