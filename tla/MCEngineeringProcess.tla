------------------------- MODULE MCEngineeringProcess -------------------------
(* A small instance of EngineeringProcess: a plan of two BACKEND Tasks of  *)
(* which one waits for the other, and one with a QA Task.                  *)
EXTENDS EngineeringProcess

MCPlanKeys == [p \in {1, 2} |-> IF p = 1 THEN {"api", "client"} ELSE {"check"}]
MCBackend  == {<<1, "api">>, <<1, "client">>}
MCNeeds    == [d \in Definitions |-> IF d = <<1, "client">> THEN {"api"} ELSE {}]
MCSkilled  == [d \in Definitions |-> {"reviewer"}]

(* Two rounds, and one Revision of each Task.                              *)
IsSmall == round <= 2 /\ \A t \in Task : revision[t] <= 1
=============================================================================
