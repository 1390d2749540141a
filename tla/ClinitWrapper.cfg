CONSTANTS
  A = A
  B = B
  C = C
  t1 = t1
  t2 = t2
  Class = {A, B, C}
  Thread = {t1, t2}
  NotInitialised = NotInitialised
  Initialised = Initialised
  Hierarchies <- MCHierarchies
  Initialisers <- MCInitialisers
  ThreadPrograms <- MCThreadPrograms
SPECIFICATION Spec
INVARIANTS BasesFirst NoSelfDeadlock
PROPERTIES ImplementsClassInitialization ThreadsFinish
CHECK_DEADLOCK FALSE
