SPECIFICATION Spec
CONSTANTS
  t1 = t1  t2 = t2  s1 = s1  s2 = s2
  Session = {s1}
  Task = {t1}
  Dependencies <- MCAlone
  Capable <- MCOneCapable
  Backend = {t1}
  Actor <- MCActor
  Role <- MCRole
  Handover <- MCByWorker
  Drafts <- MCNone
  Edits = {}
  Verdict <- MCApproval
  ReportKind <- MCNone
  Leaving = {}
  PlanMayEnd = FALSE
  MaxRevision = 1
  MaxLedger = 7
  MaxReports = 0
PROPERTIES ApprovedByItsReviewer
