CONSTANTS
  s1 = s1
  s2 = s2
  Session <- MCSession
  PlanId <- MCOnePlan
  Key <- MCKey
  QAKey <- MCQAKey
  PlanKeys <- MCOnePlanKeys
  ReportKind <- MCPassOrFinding
  CallerEdges <- MCReadyOnly
  MaxRound = 2
  MaxLedger = 6
  MaxReports = 2
SPECIFICATION Spec
PROPERTY AcceptedWithoutOpenDefect
