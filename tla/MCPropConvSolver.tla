-------------------------- MODULE MCPropConvSolver --------------------------
(* prop_conv_solvert on two assignments: m1 and m2 tell apart an expression,  *)
(* its negation, true and false.                                              *)
EXTENDS PropConvSolver

CONSTANTS m1, m2

MCAssignment == {m1, m2}
MCConstraints == {{m1}, {m2}}
MCEqualities == {{m2}}
MCAssumptions == {<<>>, <<{m1, m2}, {m1}>>}
=============================================================================
