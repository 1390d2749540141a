CONSTANTS
  Width = 2
  FractionWidth = 1
  RoundingModes = {1}
  NoModel = NoModel
  Assignment <- MCAssignment
  Operations <- MCOperations
  FloatResult <- MCFloatResult
  Clients <- MCClients
  max_node_refinement = 1
  MaxContexts = 1
SPECIFICATION Spec
PROPERTIES SatisfiableIsReal UnsatisfiableIsReal LoopEnds
