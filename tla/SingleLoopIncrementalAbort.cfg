CONSTANTS
  m1 = m1
  m2 = m2
  Assignment = {m1, m2}
  NoModel = NoModel
  p1 = p1
  p2 = p2
  p3 = p3
  PropertyId = {p1, p2}
  GotoModelProperties = {p1, p2}
  FatalReach <- MCFatalReach
  MaxSegments = 2
  MaxSteps = 2
  Programs <- MCAllPrograms
  Verifiers = {"stop_on_fail"}
  SolverErrors = TRUE
SPECIFICATION Spec
INVARIANTS InvariantsHold
