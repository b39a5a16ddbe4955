CONSTANTS
  s1 = s1
  s2 = s2
  Session <- MCSession
  PlanId <- MCOnePlan
  Key <- MCKey
  QAKey <- MCQAKey
  PlanKeys <- MCOnePlanKeys
  ReportKind <- MCPassInTwoParts
  CallerEdges <- MCReadyOnly
  MaxRound = 2
  MaxLedger = 6
  MaxReports = 2
SPECIFICATION Spec
SYMMETRY MCSymmetry
INVARIANTS TypeOK LedgerIsTheHistory AcceptedIsCertified ValidationHasNothingOpen
PROPERTIES AcceptanceIsFinal RoundAdvancesByOne ImplementsAtomicFeature
