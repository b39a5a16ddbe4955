SPECIFICATION Spec
CONSTANTS
  t1 = t1  t2 = t2  s1 = s1  s2 = s2
  Session = {s1}
  Task = {t1}
  Dependencies <- MCAlone
  Capable <- MCOneCapable
  Backend = {t1}
  Actor <- MCActor
  Role <- MCRole
  Handover <- MCDraft
  Drafts <- MCCompleted
  Edits = {"submit"}
  Verdict <- MCApproval
  ReportKind <- MCPassOrFail
  Leaving = {}
  PlanMayEnd = FALSE
  MaxRevision = 2
  MaxLedger = 11
  MaxReports = 2
INVARIANTS AcceptedIsVerified
 
