----------------------- MODULE StackDecisionProcedure -----------------------
(***************************************************************************)
(* What a decision procedure with contexts promises its clients            *)
(* (solvers/decision_procedure.h, solvers/stack_decision_procedure.h).     *)
(*                                                                         *)
(* An assignment is one valuation of the symbols of the formula, and an    *)
(* expression is the set of the assignments that satisfy it.  A context is *)
(* the conjunction of everything added inside it; contexts[1] is the root  *)
(* context, whose constraints are permanent.  The formula that is solved   *)
(* is the conjunction of all the contexts on the stack.                    *)
(***************************************************************************)
EXTENDS Integers, Sequences

CONSTANTS Assignment,   \* the valuations of the symbols
          NoModel,      \* there is no satisfying assignment to read from
          Assumptions   \* the vectors of expressions that are pushed

VARIABLES contexts,     \* the stack of contexts, the root at the bottom
          result,       \* the answer of the last call of operator()
          model         \* the assignment `get` reads from

sdpVars == <<contexts, result, model>>

Expr == SUBSET Assignment

Results == {"none", "D_SATISFIABLE", "D_UNSATISFIABLE", "D_ERROR"}

\* The expression added for expr by set_to(expr, value).
Valued(expr, value) == IF value THEN expr ELSE Assignment \ expr

\* The assignments that satisfy every context on the stack cs.
Conjunction(cs) == {m \in Assignment : \A i \in DOMAIN cs : m \in cs[i]}

SDPTypeOK ==
  /\ contexts \in Seq(Expr)
  /\ Len(contexts) >= 1
  /\ result \in Results
  /\ model \in Assignment \cup {NoModel}

SDPInit ==
  /\ contexts = <<Assignment>>
  /\ result = "none"
  /\ model = NoModel

\* set_to: adds a constraint inside the current context.
SetTo(expr, value) ==
  /\ UNCHANGED <<result, model>>
  /\ contexts' = [contexts EXCEPT ![Len(contexts)] = @ \cap Valued(expr, value)]

\* push(): a new child context without constraints.
Push ==
  /\ UNCHANGED <<result, model>>
  /\ contexts' = Append(contexts, Assignment)

\* push(assumptions): a new child context that consists of the assumptions.
PushAssumptions(assumptions) ==
  /\ UNCHANGED <<result, model>>
  /\ contexts' = Append(contexts, Conjunction(assumptions))

\* pop(): removes the top context and what was added inside it.
Pop ==
  /\ UNCHANGED <<result, model>>
  /\ Len(contexts) > 1
  /\ contexts' = SubSeq(contexts, 1, Len(contexts) - 1)

\* operator(): solves the conjunction of the contexts under an assumption (the
\* whole of Assignment when there is none).  Only D_SATISFIABLE promises an
\* assignment to read from.  A resource limit gives D_ERROR.  The headers do not
\* say in which context the client is then: when memory runs out,
\* prop_conv_solvert leaves the context in which it solves on the stack, and with
\* it the assumption.
Solve(assumption) ==
  \/ /\ result' = "D_SATISFIABLE"
     /\ model' \in Conjunction(contexts) \cap assumption
     /\ UNCHANGED contexts
  \/ /\ Conjunction(contexts) \cap assumption = {}
     /\ result' = "D_UNSATISFIABLE"
     /\ model' \in {NoModel, model}
     /\ UNCHANGED contexts
  \/ /\ result' = "D_ERROR"
     /\ model' \in {NoModel, model}
     /\ contexts' \in {contexts, Append(contexts, assumption)}

SDPNext ==
  \/ \E expr \in Expr, value \in BOOLEAN : SetTo(expr, value)
  \/ Push
  \/ \E assumptions \in Assumptions : PushAssumptions(assumptions)
  \/ Pop
  \/ \E assumption \in Expr : Solve(assumption)

SDPSpec == SDPInit /\ [][SDPNext]_sdpVars
=============================================================================
