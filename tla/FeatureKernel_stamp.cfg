CONSTANTS
  s1 = s1
  s2 = s2
  Session <- MCSession
  PlanId <- MCOnePlan
  Key <- MCKey
  QAKey <- MCQAKey
  PlanKeys <- MCOnePlanKeys
  ReportKind <- MCPass
  CallerEdges <- MCReadyOnly
  MaxRound = 2
  MaxLedger = 6
  MaxReports = 1
SPECIFICATION Spec
INVARIANT ReportKeepsItsRound
