CONSTANTS
  m1 = m1
  m2 = m2
  m3 = m3
  Assignment = {m1, m2, m3}
  NoModel = NoModel
  p1 = p1
  p2 = p2
  p3 = p3
  PropertyId = {p1, p2, p3}
  GotoModelProperties = {p1, p3}
  FatalReach <- MCFatalReach
  Programs <- MCPrograms
  Verifiers = {"stop_on_fail", "all_properties_with_trace_storage"}
  Strategies = {"lifo", "fifo"}
  SolverErrors = TRUE
SPECIFICATION Spec
INVARIANTS VerdictsCorrect OverallResultCorrect TracesAreCounterexamples ReadsLiveEquation ExplorationOrder InvariantsHold
PROPERTIES Terminates
