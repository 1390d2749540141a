--------------------------- MODULE MCBVRefinement ---------------------------
EXTENDS BVRefinement

CONSTANT RoundingModes

Symbols == {"a", "b", "r", "s"}

MCAssignment ==
  {m : m \in {f \in [Symbols \cup {"rounding_mode"} -> 0..3] :
                f["rounding_mode"] \in RoundingModes /\ f["s"] <= 1}}

\* The mean of x and y, rounded down (0) or up (1).
MCFloatResult(x, y, rounding_mode) == (x + y + rounding_mode) \div 2

Op(id, op0, op1, res) == [id |-> id, op0 |-> op0, op1 |-> op1, result |-> res]
Mult == Op("mult", "a", "b", "r")
Div == Op("div", "r", "b", "s")
Mod == Op("mod", "a", "b", "s")
Float == Op("floatbv", "a", "b", "r")
MCOperations == {Mult, Div, Mod, Float}

\* s[a] and s[b] are r and s.
Ackermann == {m : m \in {n \in MCAssignment : n["a"] = n["b"] => n["r"] = n["s"]}}

Constraint(P(_), operations, arrays) ==
  [holds |-> {m : m \in {n \in MCAssignment : P(n)}}, operations |-> operations, arrays |-> arrays]

MCClients ==
  {[constraints |-> {Constraint(LAMBDA m : m["r"] = 2, {Mult}, {}),
                     Constraint(LAMBDA m : m["s"] > m["a"], {Mult, Div}, {})},
    refine_arrays |-> TRUE],
   [constraints |-> {Constraint(LAMBDA m : m["a"] * m["b"] # m["r"], {Mult}, {}),
                     Constraint(LAMBDA m : m["s"] = 1 /\ m["a"] > m["b"], {Mod}, {})},
    refine_arrays |-> FALSE]}
  \cup
  {[constraints |-> {Constraint(LAMBDA m : m["r"] # m["s"], {}, {Ackermann}),
                     Constraint(LAMBDA m : m["r"] > m["a"] /\ m["a"] >= m["b"],
                                {Float}, {Ackermann})},
    refine_arrays |-> b] : b \in BOOLEAN}
=============================================================================
