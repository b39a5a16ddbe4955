---------------------------- MODULE MCTaskKernel ----------------------------
(* Small instances of TaskKernel: one Task whose work changes hands and is *)
(* reviewed and verified, and two Tasks of which one waits for the other.  *)
EXTENDS TaskKernel, TLC

CONSTANTS t1, t2, s1, s2

MCSymmetry == Permutations({s1, s2})

(* Actor 2 is a Worker.  1 and 3 are Reviewers: routing prefers 1.         *)
MCActor == 1..3
MCRole  == [a \in MCActor |-> IF a = 2 THEN Worker ELSE Reviewer]

(* The same with a second Worker, 4.                                       *)
MCTeam     == 1..4
MCTeamRole == [a \in MCTeam |-> IF a \in {2, 4} THEN Worker ELSE Reviewer]

MCAlone       == [t \in {t1} |-> {}]
MCWaits       == [t \in {t1, t2} |-> IF t = t2 THEN {t1} ELSE {}]
MCOneCapable  == [t \in {t1} |-> MCActor]
MCTeamCapable == [t \in {t1} |-> MCTeam]
MCBothCapable == [t \in {t1, t2} |-> IF t = t1 THEN MCActor ELSE {2}]

Complete(a) == [author |-> a, package |-> "SUBMITTED", content |-> Content,
                evidence |-> SystemEvidenceType]

(* Short of evidence; without a package; and a draft to be completed.      *)
Short(a) == [Complete(a) EXCEPT !.evidence = {"GIT_DIFF", "TEST_OUTPUT"}]
Nothing  == [author |-> 2, package |-> "NONE", content |-> {}, evidence |-> {}]
Draft    == [author |-> 2, package |-> "DRAFT", content |-> {"claims"},
             evidence |-> SystemEvidenceType]

MCByWorker == {Complete(2)}

(* A Revision written by a Reviewer, or one of the Worker with no package.  *)
MCByEither == {Short(1), Nothing}

MCDraft == {Draft}

(* What a draft may become: complete.                                      *)
MCCompleted == {Content}

MCNone     == {}
MCApproval == {[by |-> 3, approved |-> TRUE]}

(* Both report executed tests, the failing one with a Worker's output.     *)
Green == [passed |-> TRUE, tests |-> TRUE, output |-> TRUE, evidence |-> {"TEST_OUTPUT"}]
Red   == [passed |-> FALSE, tests |-> TRUE, output |-> TRUE, evidence |-> {}]

MCPass       == {Green}
MCPassOrFail == {Green, Red}
=============================================================================
