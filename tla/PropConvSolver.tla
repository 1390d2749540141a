--------------------------- MODULE PropConvSolver ---------------------------
(***************************************************************************)
(* prop_conv_solvert (solvers/prop/prop_conv_solver.cpp): contexts on top  *)
(* of a SAT solver that only ever adds clauses.  A context is a fresh      *)
(* context literal c; a constraint e of the context becomes the permanent  *)
(* clause {!c, e}; the literals of the contexts on the stack are passed as *)
(* assumptions of every solver call.                                       *)
(*                                                                         *)
(* An expression is the set of the assignments that satisfy it, so the     *)
(* literal `convert` returns for it is <<"expr", e>> and its negation is   *)
(* the complement; <<"on", n>> is the context literal number n and         *)
(* <<"off", n>> its negation.                                              *)
(***************************************************************************)
EXTENDS Integers, Sequences

CONSTANTS Assignment,        \* the valuations of the symbols
          NoModel,           \* the SAT solver holds no model
          Constraints,       \* the expressions clients pass to set_to
          Equalities,        \* those of them boolbvt propagates: symbol == rhs
          Assumptions,       \* the vectors of expressions clients push
          Liberties,         \* what clients do beyond what they mean to do
          MaxContexts,       \* bound on the depth of the context stack
          MaxLiterals        \* bound on the number of context literals

Expr == SUBSET Assignment

ASSUME PropConvAssumption ==
  /\ NoModel \notin Assignment
  /\ Constraints \subseteq Expr
  /\ Equalities \subseteq Constraints
  /\ Assumptions \subseteq Seq(Expr)
  /\ Liberties \subseteq {"false_in_context", "set_in_assumptions",
                          "equality_in_context"}
  /\ MaxContexts \in Nat
  /\ MaxLiterals \in Nat

VARIABLES
  formula,                   \* the clauses in the SAT solver
  assumption_stack,          \* bvt: the literals of all contexts on the stack
  context_size_stack,        \* number of literals of each context on the stack
  context_literal_counter,   \* number of context literals created so far
  result,                    \* what the last call of dec_solve returned
  model,                     \* Minisat's model (of the symbols)
  status                     \* statust of the SAT solver

vars == <<formula, assumption_stack, context_size_stack,
          context_literal_counter, result, model, status>>

-----------------------------------------------------------------------------
(* Literals and clauses *)

Lit(e) == <<"expr", e>>
On(n) == <<"on", n>>
Off(n) == <<"off", n>>

Not(l) == IF l[1] = "expr" THEN Lit(Assignment \ l[2])
          ELSE IF l[1] = "on" THEN Off(l[2]) ELSE On(l[2])

\* Literal l is true when the symbols have the assignment m and exactly the
\* context literals in `on` are true.
LitHolds(l, m, on) ==
  \/ l[1] = "expr" /\ m \in l[2]
  \/ l[1] = "on" /\ l[2] \in on
  \/ l[1] = "off" /\ l[2] \notin on

\* All clauses and all assumptions hold.
Satisfies(clauses, assumptions, m, on) ==
  /\ \A c \in clauses : \E l \in c : LitHolds(l, m, on)
  /\ \A i \in DOMAIN assumptions : LitHolds(assumptions[i], m, on)

\* The assignments of the symbols that some choice of the context literals
\* extends to a solution.
Solutions(clauses, assumptions) ==
  {m \in Assignment :
     \E on \in SUBSET (0 .. context_literal_counter) :
        Satisfies(clauses, assumptions, m, on)}

-----------------------------------------------------------------------------
(* State *)

Literal == {"expr"} \X Expr \cup {"on", "off"} \X Nat

Results == {"none", "D_SATISFIABLE", "D_UNSATISFIABLE", "D_ERROR"}

TypeOK ==
  /\ formula \subseteq SUBSET Literal
  /\ assumption_stack \in Seq(Literal)
  /\ context_size_stack \in Seq(Nat)
  /\ context_literal_counter \in Nat
  /\ result \in Results
  /\ model \in Assignment \cup {NoModel}
  /\ status \in {"INIT", "SAT", "UNSAT", "ERROR"}

Init ==
  /\ formula = {}
  /\ assumption_stack = <<>>
  /\ context_size_stack = <<>>
  /\ context_literal_counter = 0
  /\ result = "none"
  /\ model = NoModel
  /\ status = "INIT"

-----------------------------------------------------------------------------
(* Operations *)

Back(s) == s[Len(s)]

\* Mutant: a disjunction set to true as if it were a conjunction.
add_conjuncts_to_prop(ls, value) ==
  formula' = formula \cup IF value THEN {{l} : l \in ls} ELSE {{Not(l)} : l \in ls}

\* add_constraints_to_prop: the clauses for expr set to true or to false, where
\* the literals ls are the disjuncts of expr.
add_constraints_to_prop(ls, value) ==
  formula' = formula \cup IF value THEN {ls} ELSE {{Not(l)} : l \in ls}

\* Mutant: set_to without the guard of the current context.
set_to_unguarded(expr, value) ==
  /\ add_constraints_to_prop({Lit(expr)}, value)
  /\ UNCHANGED <<assumption_stack, context_size_stack,
                 context_literal_counter, result, model, status>>

\* prop_conv_solvert::set_to, reached through boolbvt::set_to.
set_to(expr, value) ==
  /\ IF assumption_stack = <<>>
     THEN add_constraints_to_prop({Lit(expr)}, value)
     ELSE add_constraints_to_prop({Not(Back(assumption_stack)), Lit(expr)}, value)
  /\ UNCHANGED <<assumption_stack, context_size_stack,
                 context_literal_counter, result, model, status>>

\* boolbvt::set_to, first case: an equality `symbol == rhs` maps the bits of the
\* symbol to those of rhs, in whatever context.
boolbv_set_equality_to_true(expr) ==
  /\ formula' = formula \cup {{Lit(expr)}}
  /\ UNCHANGED <<assumption_stack, context_size_stack,
                 context_literal_counter, result, model, status>>

\* Mutant: the context literal counter is not advanced.
push_reusing_literal ==
  /\ assumption_stack' = Append(assumption_stack, On(context_literal_counter))
  /\ context_size_stack' = Append(context_size_stack, 1)
  /\ UNCHANGED <<formula, context_literal_counter, result, model, status>>

\* push(): a fresh context literal.
push ==
  /\ assumption_stack' = Append(assumption_stack, On(context_literal_counter))
  /\ context_size_stack' = Append(context_size_stack, 1)
  /\ context_literal_counter' = context_literal_counter + 1
  /\ UNCHANGED <<formula, result, model, status>>

\* push(assumptions): the literals of the assumptions, as one context.
push_assumptions(assumptions) ==
  /\ assumption_stack' =
       assumption_stack \o [i \in DOMAIN assumptions |-> Lit(assumptions[i])]
  /\ context_size_stack' = Append(context_size_stack, Len(assumptions))
  /\ UNCHANGED <<formula, context_literal_counter, result, model, status>>

\* Mutant: one literal is removed, whatever the size of the context.
pop_one_literal ==
  /\ context_size_stack # <<>>
  /\ assumption_stack' = SubSeq(assumption_stack, 1, Len(assumption_stack) - 1)
  /\ context_size_stack' =
       SubSeq(context_size_stack, 1, Len(context_size_stack) - 1)
  /\ UNCHANGED <<formula, context_literal_counter, result, model, status>>

\* pop(): the literals of the top context; popping from the empty stack is
\* undefined, and no client does it.
pop ==
  /\ context_size_stack # <<>>
  /\ assumption_stack' =
       SubSeq(assumption_stack, 1,
              Len(assumption_stack) - Back(context_size_stack))
  /\ context_size_stack' =
       SubSeq(context_size_stack, 1, Len(context_size_stack) - 1)
  /\ UNCHANGED <<formula, context_literal_counter, result, model, status>>

\* do_prop_solve of satcheck_minisat2_baset.  Minisat clears the model when it
\* starts to search; the two early UNSAT returns, and running out of memory in
\* add_variables, leave the old model in place.
do_prop_solve(assumptions) ==
  /\ status # "ERROR"
  /\ \/ /\ Solutions(formula, assumptions) # {}
        /\ model' \in Solutions(formula, assumptions)
        /\ result' = "D_SATISFIABLE"
        /\ status' = "SAT"
     \/ /\ Solutions(formula, assumptions) = {}
        /\ model' \in {NoModel, model}
        /\ result' = "D_UNSATISFIABLE"
        /\ status' = "UNSAT"
     \/ /\ model' \in {NoModel, model}
        /\ result' = "D_ERROR"
        /\ status' = "ERROR"

\* dec_solve without an assumption: push(), solve, pop().  The context literal
\* of the push is never used again.
dec_solve ==
  /\ do_prop_solve(Append(assumption_stack, On(context_literal_counter)))
  /\ context_literal_counter' = context_literal_counter + 1
  /\ UNCHANGED <<formula, assumption_stack, context_size_stack>>

\* dec_solve(assumption): push({assumption}), solve, pop().
dec_solve_assuming(assumption) ==
  /\ do_prop_solve(Append(assumption_stack, Lit(assumption)))
  /\ UNCHANGED <<formula, assumption_stack, context_size_stack,
                 context_literal_counter>>

\* The solver call of dec_solve throws std::bad_alloc: the handler returns D_ERROR,
\* and the pop() after the call is not reached, so the context with the literal l
\* that dec_solve has pushed stays on the stack.
prop_solve_bad_alloc(l) ==
  /\ status # "ERROR"
  /\ assumption_stack' = Append(assumption_stack, l)
  /\ context_size_stack' = Append(context_size_stack, 1)
  /\ result' = "D_ERROR"
  /\ model' \in {NoModel, model}
  /\ UNCHANGED <<formula, status>>

\* dec_solve without an assumption leaves an empty context behind,
dec_solve_bad_alloc ==
  /\ prop_solve_bad_alloc(On(context_literal_counter))
  /\ context_literal_counter' = context_literal_counter + 1

\* dec_solve(assumption) a context that consists of the assumption.
dec_solve_assuming_bad_alloc(assumption) ==
  /\ prop_solve_bad_alloc(Lit(assumption))
  /\ UNCHANGED context_literal_counter

\* dec_solve when std::bad_alloc is thrown before the context is on the stack: in
\* finish_eager_conversion, or when the literal of the context is made.
dec_solve_bad_alloc_early ==
  /\ context_literal_counter' \in
       {context_literal_counter, context_literal_counter + 1}
  /\ result' = "D_ERROR"
  /\ UNCHANGED <<formula, assumption_stack, context_size_stack, model, status>>

-----------------------------------------------------------------------------
(* Clients.  In a context the clients in the repository mean to call only      *)
(* set_to_true, with no equality boolbvt propagates, and not in a context of   *)
(* assumptions.  Two of them do otherwise in a context that was left behind:   *)
(* the verifier after the fault localizer has left one of assumptions, and     *)
(* single_loop_incremental_symex_checkert, which converts the assignments of   *)
(* the next segment in the context of the assertions when it resumes with it.  *)
(* No client passes an assumption to operator() and continues after D_ERROR.   *)
(* Liberties drops these restrictions.                                         *)

InRoot == context_size_stack = <<>>

InAssumptionContext == ~InRoot /\ (Back(context_size_stack) # 1
                                   \/ Back(assumption_stack)[1] = "expr")

SetTo ==
  \E expr \in Constraints \ Equalities, value \in BOOLEAN :
    /\ ~value /\ ~InRoot => "false_in_context" \in Liberties
    /\ InAssumptionContext => "set_in_assumptions" \in Liberties
    /\ set_to(expr, value)

SetEquality ==
  \E expr \in Equalities :
    /\ ~InRoot => "equality_in_context" \in Liberties
    /\ boolbv_set_equality_to_true(expr)

Push ==
  /\ Len(context_size_stack) < MaxContexts
  /\ context_literal_counter < MaxLiterals
  /\ push

PushAssumptions ==
  /\ Len(context_size_stack) < MaxContexts
  /\ \E assumptions \in Assumptions : push_assumptions(assumptions)

Pop == pop

DecSolve ==
  /\ context_literal_counter < MaxLiterals
  /\ dec_solve

DecSolveAssuming == \E expr \in Constraints : dec_solve_assuming(expr)

DecSolveBadAlloc ==
  /\ Len(context_size_stack) < MaxContexts
  /\ context_literal_counter < MaxLiterals
  /\ dec_solve_bad_alloc

DecSolveAssumingBadAlloc ==
  /\ Len(context_size_stack) < MaxContexts
  /\ \E expr \in Constraints : dec_solve_assuming_bad_alloc(expr)

DecSolveBadAllocEarly ==
  /\ context_literal_counter < MaxLiterals
  /\ dec_solve_bad_alloc_early

Next ==
  \/ SetTo
  \/ SetEquality
  \/ Push
  \/ PushAssumptions
  \/ Pop
  \/ DecSolve
  \/ DecSolveAssuming
  \/ DecSolveBadAlloc
  \/ DecSolveAssumingBadAlloc
  \/ DecSolveBadAllocEarly

Spec == Init /\ [][Next]_vars

-----------------------------------------------------------------------------
(* Properties *)

\* The constraints added inside the context that push() gave the literal n.
ContextConstraints(n) == {e \in Expr : {Off(n), Lit(e)} \in formula}

\* Assignment m satisfies what the literal l on the assumption stack stands for:
\* an assumption, or the constraints of a context.
LitActive(l, m) ==
  IF l[1] = "expr" THEN m \in l[2]
  ELSE \A e \in ContextConstraints(l[2]) : m \in e

\* The assignments that satisfy the permanent constraints, the assumptions on
\* the stack and the constraints of the contexts on the stack.
Active ==
  {m \in Assignment :
     /\ \A e \in Expr : {Lit(e)} \in formula => m \in e
     /\ \A i \in DOMAIN assumption_stack : LitActive(assumption_stack[i], m)}

\* Every clause of f is a permanent constraint or a constraint of one context,
\* whose literal is one of the first n.
ClausesGuarded(f, n) ==
  \A c \in f : \E e \in Expr :
    c = {Lit(e)} \/ \E k \in 0 .. n - 1 : c = {Off(k), Lit(e)}

\* Every assumption of s is an expression or one of the first n context literals,
\* and no two contexts share a literal.
ContextsDistinct(s, n) ==
  \A i \in DOMAIN s :
    \/ \E e \in Expr : s[i] = Lit(e)
    \/ \E k \in 0 .. n - 1 :
         s[i] = On(k) /\ \A j \in DOMAIN s : s[j] = On(k) => j = i

\* f[i] is the number of literals of the first i contexts, where sizes are the
\* sizes of the contexts and total the length of the assumption stack.
IsSegmentation(f, sizes, total) ==
  /\ f \in [0 .. Len(sizes) -> 0 .. total]
  /\ f[0] = 0
  /\ f[Len(sizes)] = total
  /\ \A i \in 1 .. Len(sizes) : f[i] = f[i - 1] + sizes[i]
  /\ \A i, j \in 0 .. Len(sizes) : i <= j => f[i] <= f[j]

Segmented(sizes, total) ==
  \E f \in [0 .. Len(sizes) -> 0 .. total] : IsSegmentation(f, sizes, total)

\* Every literal on the assumption stack belongs to exactly one context, so the
\* resize in pop() takes away what one push added.
SegmentsCoverStack == Segmented(context_size_stack, Len(assumption_stack))

\* The clauses and the two stacks fit together, for clients that keep to the
\* restrictions: context literals are fresh (context_literal_counter++ in push),
\* guards of constraints are negated context literals (set_to), and the sizes on
\* context_size_stack cut assumption_stack into the contexts (push, pop).
WellFormed ==
  /\ ClausesGuarded(formula, context_literal_counter)
  /\ ContextsDistinct(assumption_stack, context_literal_counter)
  /\ SegmentsCoverStack

\* What the solver call in dec_solve decides is exactly the conjunction of the
\* contexts on the stack: the clauses of popped contexts, which stay in the SAT
\* solver for ever, never change an answer.
SolvesActiveContexts == Solutions(formula, assumption_stack) = Active

\* "added inside a context: we can remove it later" (stack_decision_procedure.h):
\* a call of set_to inside a context leaves the formula without that context as
\* it was.
RemovableInContext ==
  [][~InRoot => Solutions(formula', <<>>) = Solutions(formula, <<>>)]_vars

SegmentEnd ==
  CHOOSE f \in [0 .. Len(context_size_stack) -> 0 .. Len(assumption_stack)] :
    IsSegmentation(f, context_size_stack, Len(assumption_stack))

\* The contexts of the client, read off the segments of assumption_stack.
Contexts ==
  [i \in 1 .. Len(context_size_stack) + 1 |->
     IF i = 1
     THEN {m \in Assignment : \A e \in Expr : {Lit(e)} \in formula => m \in e}
     ELSE {m \in Assignment :
             \A j \in SegmentEnd[i - 2] + 1 .. SegmentEnd[i - 1] :
               LitActive(assumption_stack[j], m)}]

SDP == INSTANCE StackDecisionProcedure WITH contexts <- Contexts

\* prop_conv_solvert implements the decision procedure with contexts that
\* stack_decision_procedure.h describes.
ImplementsStackDecisionProcedure == SDP!SDPSpec
=============================================================================
