CONSTANTS
  main = main
  f = f
  Function = {main, f}
  NoFunction = NoFunction
  fatal = fatal
  plain = plain
  PropertyId = {fatal, plain}
  Programs <- MCStraightPrograms
  Statuses <- MCStatuses
SPECIFICATION Spec
INVARIANTS ProvenAfterFatalAreUnknown
