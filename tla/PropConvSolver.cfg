SPECIFICATION Spec
CONSTANTS
  m1 = m1
  m2 = m2
  NoModel = NoModel
  Assignment <- MCAssignment
  Constraints <- MCConstraints
  Equalities <- MCEqualities
  Assumptions <- MCAssumptions
  Liberties = {}
  MaxContexts = 2
  MaxLiterals = 3
INVARIANTS
  WellFormed
  SolvesActiveContexts
PROPERTIES
  ImplementsStackDecisionProcedure
  RemovableInContext
