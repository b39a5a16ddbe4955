CONSTANTS
  s1 = s1
  s2 = s2
  Session <- MCSession
  PlanId <- MCTwoPlans
  Key <- MCKey
  QAKey <- MCQAKey
  PlanKeys <- MCTwoPlanKeys
  ReportKind <- MCPass
  CallerEdges <- MCReadyOrOver
  MaxRound = 1
  MaxLedger = 4
  MaxReports = 0
SPECIFICATION Spec
SYMMETRY MCSymmetry
INVARIANTS OneTaskPerDefinition OnePlanUntilValidation
