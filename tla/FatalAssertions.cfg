CONSTANTS
  main = main
  f = f
  Function = {main, f}
  NoFunction = NoFunction
  fatal = fatal
  plain = plain
  PropertyId = {fatal, plain}
  Programs <- MCPrograms
  Statuses <- MCStatuses
SPECIFICATION Spec
INVARIANTS FixpointIsLeast OnlyProvenAreMarked
PROPERTIES Terminates
