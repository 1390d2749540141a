---------------------------- MODULE BVRefinement ----------------------------
(***************************************************************************)
(* bv_refinementt (solvers/refinement): a decision procedure that leaves   *)
(* out what arithmetic operations and arrays mean, and adds it when a      *)
(* solution turns out to be spurious (overapproximation).  At the same     *)
(* time it assumes bits of the operands to be zero, and gives up these     *)
(* assumptions when they are part of a proof (underapproximation).         *)
(*                                                                         *)
(* An assignment gives a value to every symbol, and an expression is the   *)
(* set of the assignments that satisfy it.  Contexts are those of          *)
(* StackDecisionProcedure, which prop_conv_solvert implements.             *)
(***************************************************************************)
EXTENDS Integers, Sequences

CONSTANTS
  Width,                 \* of all operands and results
  FractionWidth,         \* of floats; the fraction is the lower part
  Assignment,            \* functions from symbols to values
  NoModel,
  Operations,            \* the arithmetic expressions
  FloatResult(_, _, _),  \* of two operands and a rounding mode
  Clients,               \* what a client may use
  max_node_refinement,
  MaxContexts            \* bound on the depth of the context stack

MAX_STATE == 10000
MAX_INTEGER_UNDERAPPROX == 3

Value == 0..(2 ^ Width - 1)
Expr == SUBSET Assignment

\* An operation has two operands, which are not constants, and a result.  A client
\* uses constraints, together with the operations and the array constraints that
\* their conversion gives rise to, and has chosen whether to refine arrays.
ASSUME BVRefinementAssumption ==
  /\ Width \in Nat /\ FractionWidth \in 0..Width
  /\ NoModel \notin Assignment
  /\ \A o \in Operations :
       /\ o.id \in {"mult", "div", "mod", "floatbv"}
       /\ \A m \in Assignment : m[o.op0] \in Value /\ m[o.op1] \in Value /\ m[o.result] \in Value
  /\ \A cl \in Clients :
       /\ cl.refine_arrays \in BOOLEAN
       /\ \A c \in cl.constraints :
            c.holds \in Expr /\ c.operations \subseteq Operations /\ c.arrays \subseteq Expr
  /\ max_node_refinement \in 0..(MAX_STATE - 1)
  /\ MaxContexts \in Nat

\* The rounding mode is the same in all assignments: it is a constant of the program.
ASSUME RoundingModeAssumption ==
  \A m, n \in Assignment : m["rounding_mode"] = n["rounding_mode"]

VARIABLES
  client,                  \* a member of Clients
  contexts,                \* what the client has set, as in StackDecisionProcedure
  formula,                 \* what satisfies the clauses for operations and arrays
  array_constraints,       \* of the arrays that have been converted
  lazy_array_constraints,
  approximations,          \* of the operations that have been converted
  sat_model, conflict,     \* of the SAT solver
  pc,                      \* "client", "prop_solve", "check_SAT", "check_UNSAT"
  result                   \* of the last call of dec_solve

vars == <<client, contexts, formula, array_constraints, lazy_array_constraints,
          approximations, sat_model, conflict, pc, result>>
clientVars == <<client, contexts, array_constraints>>

-----------------------------------------------------------------------------
(* Operations *)

\* r may be the result of an operation on x and y.  Division by zero may have any.
IsResult(id, x, y, r, rounding_mode) ==
  /\ id = "mult" => r = (x * y) % (2 ^ Width)
  /\ id = "div" /\ y # 0 => r = x \div y
  /\ id = "mod" /\ y # 0 => r = x % y
  /\ id = "floatbv" => r = FloatResult(x, y, rounding_mode)

Correct(o, m) == IsResult(o.id, m[o.op0], m[o.op1], m[o.result], m["rounding_mode"])

\* convert_mult: x*0 = 0*x = 0, x*1 = 1*x = x
PartiallyCorrect(o, m) ==
  o.id = "mult" =>
    /\ m[o.op0] = 0 \/ m[o.op1] = 0 => m[o.result] = 0
    /\ m[o.op0] = 1 => m[o.result] = m[o.op1]
    /\ m[o.op1] = 1 => m[o.result] = m[o.op0]

\* Literals of under_assumptions: bit b of symbol s is zero.
Bits(o, from, to) == {o.op0, o.op1} \X (from .. to)
BitIsZero(m, l) == (m[l[1]] \div 2 ^ l[2]) % 2 = 0
AllZero(m, bits) == \A l \in bits : BitIsZero(m, l)

\* initialize
initialize(o) ==
  [under_assumptions |-> Bits(o, 0, Width - 1), under_state |-> 0, over_state |-> 0]

-----------------------------------------------------------------------------
(* The client *)

Init ==
  /\ client \in Clients
  /\ contexts = <<Assignment>>
  /\ formula = Assignment
  /\ array_constraints = {} /\ lazy_array_constraints = {}
  /\ approximations = [o \in {} |-> initialize(o)]
  /\ sat_model = NoModel /\ conflict = {}
  /\ pc = "client" /\ result = "none"

\* convert, convert_mult, convert_div, convert_mod, convert_floatbv_op
Convert(c) ==
  /\ approximations' =
       [o \in DOMAIN approximations \cup c.operations |->
          IF o \in DOMAIN approximations THEN approximations[o] ELSE initialize(o)]
  /\ formula' = {m \in formula : \A o \in c.operations : PartiallyCorrect(o, m)}
  /\ array_constraints' = array_constraints \cup c.arrays

\* set_to(c, true) in the current context
SetTo ==
  /\ pc = "client"
  /\ \E c \in client.constraints :
       /\ contexts' = [contexts EXCEPT ![Len(contexts)] = @ \cap c.holds]
       /\ Convert(c)
  /\ UNCHANGED <<client, lazy_array_constraints, sat_model, conflict, pc, result>>

\* push(), and push({c})
Push ==
  /\ pc = "client" /\ Len(contexts) <= MaxContexts
  /\ \/ /\ contexts' = Append(contexts, Assignment)
        /\ UNCHANGED <<formula, approximations, array_constraints>>
     \/ \E c \in client.constraints : contexts' = Append(contexts, c.holds) /\ Convert(c)
  /\ UNCHANGED <<client, lazy_array_constraints, sat_model, conflict, pc, result>>

Pop ==
  /\ pc = "client" /\ Len(contexts) > 1
  /\ contexts' = SubSeq(contexts, 1, Len(contexts) - 1)
  /\ UNCHANGED <<client, formula, array_constraints, lazy_array_constraints,
                 approximations, sat_model, conflict, pc, result>>

-----------------------------------------------------------------------------
(* dec_solve *)

\* The model is what the client reads before it does anything else; it is forgotten
\* here.
Return(r) == pc' = "client" /\ result' = r /\ sat_model' = NoModel

\* The call, with finish_eager_conversion: array constraints are generated in every
\* call, lazily or not.  The SAT solver must not be called after an error.
DecSolve ==
  /\ pc = "client" /\ result # "D_ERROR"
  /\ pc' = "prop_solve"
  /\ IF client.refine_arrays
     THEN /\ lazy_array_constraints' = lazy_array_constraints \cup array_constraints
          /\ UNCHANGED formula
     ELSE /\ formula' = {m \in formula : \A e \in array_constraints : m \in e}
          /\ UNCHANGED lazy_array_constraints
  /\ UNCHANGED <<clientVars, approximations, sat_model, conflict, result>>

Conjunction(cs) == {m \in Assignment : \A i \in DOMAIN cs : m \in cs[i]}

\* What satisfies all clauses and the contexts.
Solutions == {m : m \in Conjunction(contexts) \cap formula}

UnderAssumptions == UNION {approximations[o].under_assumptions : o \in DOMAIN approximations}

\* prop_solve.  A proof uses some of the assumptions.  When the clauses alone are
\* found to be inconsistent is_in_conflict may still look at an old proof; then too
\* the conflict is one of the sets below.
prop_solve ==
  /\ pc = "prop_solve"
  /\ \/ \E m \in Solutions :
          /\ AllZero(m, UnderAssumptions)
          /\ sat_model' = m
          /\ pc' = "check_SAT"
          /\ UNCHANGED <<conflict, result>>
     \/ \E solutions \in {Solutions}, bits \in SUBSET UnderAssumptions :
          /\ \A m \in solutions : ~AllZero(m, bits)
          /\ conflict' = bits
          /\ pc' = "check_UNSAT"
          /\ UNCHANGED <<sat_model, result>>
     \/ Return("D_ERROR") /\ UNCHANGED conflict
  /\ UNCHANGED <<clientVars, formula, lazy_array_constraints, approximations>>

\* Mutant: any refinement counts as full interpretation.
InterpretedSomehow(o) == approximations[o].over_state > 0

\* check_SAT(a): already fully interpreted?
Interpreted(o) ==
  IF o.id = "floatbv" THEN approximations[o].over_state = MAX_STATE
  ELSE approximations[o].over_state > 0

\* The operations whose interpretation has to be refined.
Spurious == {o \in DOMAIN approximations : ~Interpreted(o) /\ ~Correct(o, sat_model)}

\* For a float only the values of the model are interpreted, until there have been
\* too many of them.  The rounding mode is that of the model.
PointOnly(o) == o.id = "floatbv" /\ approximations[o].over_state < max_node_refinement

SatisfiesRefinement(o, m) ==
  (PointOnly(o) => m[o.op0] = sat_model[o.op0] /\ m[o.op1] = sat_model[o.op1])
  => IsResult(o.id, m[o.op0], m[o.op1], m[o.result], sat_model["rounding_mode"])

OverState(o) ==
  IF o.id = "floatbv" /\ ~PointOnly(o) THEN MAX_STATE
  ELSE approximations[o].over_state + 1

\* arrays_overapproximated
Violated == {e \in lazy_array_constraints : sat_model \notin e}

\* The approximations after check_SAT(a) for all of them.
Refined ==
  [o \in DOMAIN approximations |->
     IF o \in Spurious THEN [approximations[o] EXCEPT !.over_state = OverState(o)]
     ELSE approximations[o]]

\* progress
ReturnOrRepeat(progress, answer) ==
  IF progress THEN pc' = "prop_solve" /\ sat_model' = NoModel /\ UNCHANGED result
  ELSE Return(answer)

\* Mutant: violated array constraints are found, and forgotten.
check_SAT_no_arrays ==
  /\ pc = "check_SAT"
  /\ formula' = {m \in formula : \A o \in Spurious : SatisfiesRefinement(o, m)}
  /\ approximations' = Refined
  /\ ReturnOrRepeat(Violated # {} \/ Spurious # {}, "D_SATISFIABLE")
  /\ UNCHANGED <<clientVars, lazy_array_constraints, conflict>>

\* check_SAT()
check_SAT ==
  /\ pc = "check_SAT"
  /\ formula' = {m \in formula : /\ \A e \in Violated : m \in e
                                 /\ \A o \in Spurious : SatisfiesRefinement(o, m)}
  /\ lazy_array_constraints' = lazy_array_constraints \ Violated
  /\ approximations' = Refined
  /\ ReturnOrRepeat(Violated # {} \/ Spurious # {}, "D_SATISFIABLE")
  /\ UNCHANGED <<clientVars, conflict>>

\* Mutant: only one of the operands is looked at.
conflicts_with_op0(o) ==
  {l \in approximations[o].under_assumptions : l[1] = o.op0} \cap conflict # {}

\* conflicts_with
conflicts_with(o) == approximations[o].under_assumptions \cap conflict # {}

\* check_UNSAT(a): fewer bits are assumed to be zero.
Weaker(o, state) ==
  IF o.id = "floatbv"
  THEN IF state = 0 THEN Bits(o, 0, FractionWidth - 1) ELSE {}
  ELSE IF state + 1 >= MAX_INTEGER_UNDERAPPROX /\ state + 1 >= Width THEN {}
       ELSE Bits(o, state + 1, Width - 1)

\* check_UNSAT()
check_UNSAT ==
  /\ pc = "check_UNSAT"
  /\ approximations' =
       [o \in DOMAIN approximations |->
          IF conflicts_with(o)
          THEN [approximations[o] EXCEPT !.under_assumptions = Weaker(o, approximations[o].under_state),
                                         !.under_state = @ + 1]
          ELSE approximations[o]]
  /\ ReturnOrRepeat(\E o \in DOMAIN approximations : conflicts_with(o), "D_UNSATISFIABLE")
  /\ conflict' = {}
  /\ UNCHANGED <<clientVars, formula, lazy_array_constraints>>

-----------------------------------------------------------------------------

Loop == prop_solve \/ check_SAT \/ check_UNSAT

Next == SetTo \/ Push \/ Pop \/ DecSolve \/ Loop

\* The loop of dec_solve keeps running, and every call of the SAT solver returns.
Spec == Init /\ [][Next]_vars /\ WF_vars(Loop)

-----------------------------------------------------------------------------
(* Properties *)

Approximation ==
  [under_assumptions : SUBSET (UNION {Bits(o, 0, Width - 1) : o \in Operations}),
   under_state : Nat,
   over_state : 0..MAX_STATE]

\* Types.
TypeOK ==
  /\ client \in Clients
  /\ contexts \in Seq(Expr) /\ contexts # <<>>
  /\ formula \in Expr
  /\ array_constraints \subseteq Expr /\ lazy_array_constraints \subseteq Expr
  /\ DOMAIN approximations \subseteq Operations
  /\ \A o \in DOMAIN approximations : approximations[o] \in Approximation
  /\ pc \in {"client", "prop_solve", "check_SAT", "check_UNSAT"}
  /\ result \in {"none", "D_SATISFIABLE", "D_UNSATISFIABLE", "D_ERROR"}
  /\ sat_model \in Assignment \cup {NoModel}
  /\ pc = "check_SAT" => sat_model \in Assignment

\* What the client has asked for, with operations and arrays as they are meant.
Meaning ==
  {m \in Conjunction(contexts) :
     /\ \A o \in DOMAIN approximations : Correct(o, m)
     /\ \A e \in array_constraints : m \in e}

\* "got SAT, and it simulates => SAT": the model satisfies everything the client has
\* set in the contexts on the stack, and all operations and arrays (check_SAT).
SatisfiableIsReal ==
  [][pc # "client" /\ pc' = "client" /\ result' = "D_SATISFIABLE" => sat_model \in Meaning]_vars

\* "got UNSAT, and the proof passes => UNSAT": neither an assumption about bits nor
\* what a refinement has added excludes a solution (check_UNSAT, check_SAT).
UnsatisfiableIsReal ==
  [][pc # "client" /\ pc' = "client" /\ result' = "D_UNSATISFIABLE" => Meaning = {}]_vars

\* The refinement loop of dec_solve ends ("this guarantees progress").
LoopEnds == pc # "client" ~> pc = "client"
=============================================================================
