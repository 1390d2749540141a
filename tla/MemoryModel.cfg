CONSTANTS
  x = x
  y = y
  Address <- MCAddress
  Models = {"sc", "tso", "pso"}
  Programs <- MCPrograms
SPECIFICATION Spec
INVARIANTS AtomicSectionsAreAtomic NoExecutionMissed NoSpuriousExecution
