SPECIFICATION Spec
CONSTANTS
  t1 = t1  t2 = t2  s1 = s1  s2 = s2
  Session = {s1, s2}
  Task = {t1, t2}
  Dependencies <- MCWaits
  Capable <- MCBothCapable
  Backend = {t1}
  Actor <- MCActor
  Role <- MCRole
  Handover <- MCByWorker
  Drafts <- MCNone
  Edits = {}
  Verdict <- MCApproval
  ReportKind <- MCPass
  Leaving = {}
  PlanMayEnd = TRUE
  MaxRevision = 1
  MaxLedger = 7
  MaxReports = 1
SYMMETRY MCSymmetry
INVARIANTS ReadyAfterItsDependencies
PROPERTIES ImplementsAtomicTasks
