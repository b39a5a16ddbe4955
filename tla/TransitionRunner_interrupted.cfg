SPECIFICATION FairSpec
CONSTANTS
  first = first
  second = second
  featureRow = featureRow
  planRow = planRow
  taskRow = taskRow
  package = package
  Session = {first, second}
  Row = {featureRow, planRow, taskRow, package}
  Reason <- MCReason
  Asked <- MCAsked
INVARIANTS TypeOK OutcomesAreWhole LinesTellTheTruth RefusalsNameEverything SomebodyGoesOn
PROPERTIES StepsLeaveLess NothingIsLost ContentStaysFrozen EveryUnitEnds ImplementsAtomicStore
CHECK_DEADLOCK FALSE
