SPECIFICATION Spec
CONSTANTS
  t1 = t1  t2 = t2  s1 = s1  s2 = s2
  Session = {s1, s2}
  Task = {t1}
  Dependencies <- MCAlone
  Capable <- MCTeamCapable
  Backend = {t1}
  Actor <- MCTeam
  Role <- MCTeamRole
  Handover <- MCByEither
  Drafts <- MCNone
  Edits = {"attach"}
  Verdict <- MCNone
  ReportKind <- MCNone
  Leaving = {1}
  PlanMayEnd = FALSE
  MaxRevision = 2
  MaxLedger = 9
  MaxReports = 0
SYMMETRY MCSymmetry
INVARIANTS TypeOK HistoryAgreesWithPointer TaskLedgerIsAWalk ReviewerIsNoAuthor SubmittedMeetsTheStandard
PROPERTIES AssignedOnce
