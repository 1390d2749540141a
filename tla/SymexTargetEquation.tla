------------------------ MODULE SymexTargetEquation -------------------------
(***************************************************************************)
(* The SSA equation symbolic execution produces, and its conversion into   *)
(* constraints of a decision procedure                                     *)
(* (goto-symex/symex_target_equation.cpp, goto-symex/ssa_step.h).          *)
(*                                                                         *)
(* A valuation of all SSA symbols is an element of Assignment, and an      *)
(* expression is the set of the valuations that satisfy it.  A handle the  *)
(* decision procedure returns for an expression stands for the same set.   *)
(***************************************************************************)
EXTENDS Naturals, Sequences

CONSTANTS Assignment,    \* the valuations of the SSA symbols
          PropertyId     \* the identifiers of the properties

Expr == SUBSET Assignment

\* SSA_stept.  DECL, GOTO, LOCATION and the like put no constraint on the
\* valuations and are left out; "ASSIGNMENT" stands for CONSTRAINT as well.
Step ==
  [type : {"ASSIGNMENT", "ASSUME", "ASSERT"},
   guard : Expr,
   cond_expr : Expr,
   property_id : PropertyId,   \* for ASSERT
   converted : BOOLEAN,
   cond_handle : Expr]

\* The steps symbolic execution emits.  The condition of an assumption and of an
\* assertion is guarded (guard => condition), and neither is the constant true
\* (symex_assume_l2, vcc).
FreshStep(type, guard, cond, id) ==
  [type |-> type, guard |-> guard,
   cond_expr |-> IF type = "ASSIGNMENT" THEN cond
                 ELSE (Assignment \ guard) \cup cond,
   property_id |-> id, converted |-> FALSE, cond_handle |-> {}]

is_assert(step) == step.type = "ASSERT"
is_assume(step) == step.type = "ASSUME"
is_assignment(step) == step.type = "ASSIGNMENT"

Asserts(eq) == {i \in DOMAIN eq : is_assert(eq[i])}

\* The identifiers of the properties that have an assertion in the equation.
PropertyIds(eq) == {eq[i].property_id : i \in Asserts(eq)}

\* The assertions count_assertions() counts.
Unconverted(eq) == {i \in Asserts(eq) : ~eq[i].converted}

\* A set of constraints as one expression.
AllOf(exprs) == {v \in Assignment : \A e \in exprs : v \in e}

-----------------------------------------------------------------------------
(* Conversion.  A conversion adds a constraint to the decision procedure, by   *)
(* one or several calls of set_to, and changes the steps.                      *)

\* convert_without_assertions: assignments become constraints; of an assumption
\* only the handle is taken.
AssignmentsConstraint(eq) ==
  AllOf({eq[i].cond_expr : i \in {j \in DOMAIN eq : is_assignment(eq[j])
                                                     /\ ~eq[j].converted}})

convert_without_assertions(eq) ==
  [i \in DOMAIN eq |->
     IF is_assignment(eq[i]) THEN [eq[i] EXCEPT !.converted = TRUE]
     ELSE IF is_assume(eq[i])
     THEN [eq[i] EXCEPT !.cond_handle = eq[i].cond_expr]
     ELSE eq[i]]

\* The assumptions in front of step k.
AssumptionsBefore(eq, k) == {i \in 1 .. k - 1 : is_assume(eq[i])}

\* There is one assertion, and the encoding for a single assertion applies: the
\* assumptions before it and its negation, with the constant false as its handle.
Single(eq, optimized_for_single_assertions) ==
  /\ optimized_for_single_assertions
  /\ \E k \in Unconverted(eq) : Unconverted(eq) = {k}

\* Mutant: all assumptions count, also those after the assertion.
AssertionHandleAllAssumptions(eq, k, optimized_for_single_assertions) ==
  IF Single(eq, optimized_for_single_assertions) THEN {}
  ELSE {v \in Assignment :
          (\A i \in DOMAIN eq : is_assume(eq[i]) => v \in eq[i].cond_handle)
            => v \in eq[k].cond_expr}

\* Mutant: assumptions are forgotten.
AssertionHandleNoAssumptions(eq, k, optimized_for_single_assertions) ==
  IF Single(eq, optimized_for_single_assertions) THEN {} ELSE eq[k].cond_expr

\* The handle of assertion k: otherwise, that the assumptions before it imply its
\* condition.
AssertionHandle(eq, k, optimized_for_single_assertions) ==
  IF Single(eq, optimized_for_single_assertions) THEN {}
  ELSE {v \in Assignment :
          (\A i \in AssumptionsBefore(eq, k) : v \in eq[i].cond_handle)
            => v \in eq[k].cond_expr}

\* convert_assertions: one of the assertions not converted before is violated.
AssertionsConstraint(eq, optimized_for_single_assertions) ==
  IF Unconverted(eq) = {} THEN Assignment
  ELSE IF Single(eq, optimized_for_single_assertions)
  THEN {v \in Assignment :
          \A k \in Unconverted(eq) :
            /\ v \notin eq[k].cond_expr
            /\ \A i \in AssumptionsBefore(eq, k) : v \in eq[i].cond_expr}
  ELSE {v \in Assignment :
          \E k \in Unconverted(eq) : v \notin AssertionHandle(eq, k, FALSE)}

convert_assertions(eq, optimized_for_single_assertions) ==
  [i \in DOMAIN eq |->
     IF i \in Unconverted(eq)
     THEN [eq[i] EXCEPT
             !.converted = TRUE,
             !.cond_handle = AssertionHandle(eq, i,
                                             optimized_for_single_assertions)]
     ELSE eq[i]]

-----------------------------------------------------------------------------
(* What the equation means *)

\* Valuation v is an execution of the program that the equation describes.
Execution(eq, v) ==
  \A i \in DOMAIN eq : is_assignment(eq[i]) => v \in eq[i].cond_expr

\* In the execution v all assumptions before assertion k hold, and k does not.
Violates(eq, v, k) ==
  /\ Execution(eq, v)
  /\ \A i \in AssumptionsBefore(eq, k) : v \in eq[i].cond_expr
  /\ v \notin eq[k].cond_expr

\* Some execution violates property id.
Violable(eq, id) ==
  \E v \in Assignment, k \in Asserts(eq) :
    eq[k].property_id = id /\ Violates(eq, v, k)
=============================================================================
