CONSTANTS
  m1 = m1
  m2 = m2
  m3 = m3
  Assignment = {m1, m2, m3}
  NoModel = NoModel
  p1 = p1
  p2 = p2
  p3 = p3
  PropertyId = {p1, p2}
  GotoModelProperties = {p1}
  FatalReach <- MCFatalReach
  MaxSteps = 3
  Equations <- MCEquations
  Verifiers = {"all_properties_with_fault_localization"}
  SolverErrors = FALSE
SPECIFICATION Spec
INVARIANT VerdictsCorrect
