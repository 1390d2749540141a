------------------------- MODULE BVRefinementProofs -------------------------
(***************************************************************************)
(* Both answers of the refinement loop are right, for all operations,      *)
(* widths, array constraints and clients.                                  *)
(***************************************************************************)
EXTENDS BVRefinement, TLAPS

USE SMTT(30), Z3T(30), ZenonT(30)

-----------------------------------------------------------------------------
(* Types *)

\* initialize gives a new approximation its type.
LEMMA InitializeType ==
  ASSUME NEW o \in Operations
  PROVE  initialize(o) \in Approximation
<1>1. Bits(o, 0, Width - 1) \in SUBSET (UNION {Bits(p, 0, Width - 1) : p \in Operations})
  OBVIOUS
<1>2. 0 \in 0..MAX_STATE
  BY DEF MAX_STATE
<1> QED
  BY <1>1, <1>2 DEF initialize, Approximation

\* `a.over_state++` and the like change one component of an approximation.
LEMMA SetOverState ==
  ASSUME NEW a \in Approximation, NEW v \in 0..MAX_STATE
  PROVE  /\ [a EXCEPT !.over_state = v] \in Approximation
         /\ [a EXCEPT !.over_state = v].over_state = v
BY DEF Approximation

\* check_UNSAT changes the assumptions and the state of an approximation.
LEMMA SetUnder ==
  ASSUME NEW a \in Approximation, NEW n \in Nat,
         NEW bits \in SUBSET (UNION {Bits(p, 0, Width - 1) : p \in Operations})
  PROVE  /\ [a EXCEPT !.under_assumptions = bits, !.under_state = n] \in Approximation
         /\ [a EXCEPT !.under_assumptions = bits, !.under_state = n].over_state = a.over_state
BY Zenon DEF Approximation

\* Convert keeps the types (convert_mult and the like, add_approximation).
LEMMA ConvertType ==
  ASSUME TypeOK, NEW c \in client.constraints, Convert(c)
  PROVE  /\ formula' \in Expr
         /\ array_constraints' \subseteq Expr
         /\ DOMAIN approximations' \subseteq Operations
         /\ \A o \in DOMAIN approximations' : approximations'[o] \in Approximation
<1>1. c.holds \in Expr /\ c.operations \subseteq Operations /\ c.arrays \subseteq Expr
  BY BVRefinementAssumption DEF TypeOK
<1>2. formula' \in Expr /\ array_constraints' \subseteq Expr
  BY <1>1 DEF TypeOK, Convert, Expr
<1>3. DOMAIN approximations' \subseteq Operations
  BY <1>1 DEF TypeOK, Convert
<1>4. \A o \in DOMAIN approximations' : approximations'[o] \in Approximation
  BY <1>1, InitializeType DEF TypeOK, Convert
<1> QED
  BY <1>2, <1>3, <1>4

\* MAX_STATE is a positive number.
LEMMA MaxState == MAX_STATE \in Nat /\ 0 < MAX_STATE
BY DEF MAX_STATE

\* MAX_STATE is not exceeded by an increment of a smaller over_state.
LEMMA Incremented ==
  ASSUME NEW x \in 0..MAX_STATE, NEW n \in 0..(MAX_STATE - 1), x < n \/ ~(x > 0)
  PROVE  x + 1 \in 0..MAX_STATE
<1>1. MAX_STATE \in Nat /\ 0 < MAX_STATE
  BY MaxState
<1>2. x \in Int /\ 0 <= x /\ n \in Int /\ n <= MAX_STATE - 1
  BY <1>1
<1>3. x + 1 \in Int /\ 0 <= x + 1 /\ x + 1 <= MAX_STATE
  BY <1>1, <1>2
<1> QED
  BY <1>1, <1>3

\* Fewer refinements than max_node_refinement do not make a full interpretation.
LEMMA BelowMaxState ==
  ASSUME NEW x \in 0..MAX_STATE, NEW n \in 0..(MAX_STATE - 1), x < n
  PROVE  x + 1 # MAX_STATE
BY MaxState

\* A spurious approximation has not reached MAX_STATE.
LEMMA OverStateType ==
  ASSUME TypeOK, NEW o \in Spurious
  PROVE  OverState(o) \in 0..MAX_STATE
<1>1. approximations[o].over_state \in 0..MAX_STATE
  BY DEF Spurious, TypeOK, Approximation
<1>2. max_node_refinement \in 0..(MAX_STATE - 1)
  BY BVRefinementAssumption
<1>3. CASE o.id = "floatbv" /\ ~PointOnly(o)
  <2>1. OverState(o) = MAX_STATE
    BY <1>3 DEF OverState
  <2>2. MAX_STATE \in 0..MAX_STATE
    BY DEF MAX_STATE
  <2> QED
    BY <2>1, <2>2
<1>4. CASE o.id # "floatbv" \/ PointOnly(o)
  <2>1. OverState(o) = approximations[o].over_state + 1
    BY <1>4 DEF OverState
  <2>2. approximations[o].over_state < max_node_refinement \/ ~(approximations[o].over_state > 0)
    BY <1>4 DEF PointOnly, Spurious, Interpreted
  <2>3. approximations[o].over_state + 1 \in 0..MAX_STATE
    BY <1>1, <1>2, <2>2, Incremented
  <2> QED
    BY <2>1, <2>3
<1> QED
  BY <1>3, <1>4

\* The type invariant, which the code maintains for over_state with
\* `if(a.over_state<MAX_STATE) a.over_state++`.
THEOREM TypeCorrect == Spec => []TypeOK
<1>1. Init => TypeOK
  <2> SUFFICES ASSUME Init PROVE TypeOK
    OBVIOUS
  <2>1. contexts \in Seq(Expr) /\ contexts # <<>>
    BY DEF Init, Expr
  <2>2. DOMAIN approximations = {}
    BY DEF Init
  <2> QED
    BY <2>1, <2>2 DEF Init, TypeOK, Expr
<1>2. TypeOK /\ [Next]_vars => TypeOK'
  <2> SUFFICES ASSUME TypeOK, [Next]_vars PROVE TypeOK'
    OBVIOUS
  <2>1. CASE SetTo
    <3>1. PICK c \in client.constraints :
            /\ contexts' = [contexts EXCEPT ![Len(contexts)] = @ \cap c.holds]
            /\ Convert(c)
      BY <2>1, Zenon DEF SetTo
    <3>2. contexts' \in Seq(Expr) /\ contexts' # <<>>
      BY <3>1 DEF TypeOK, Expr
    <3> QED
      BY <2>1, <3>1, <3>2, ConvertType DEF SetTo, TypeOK
  <2>2. CASE Push
    <3>1. ASSUME contexts' = Append(contexts, Assignment),
                 UNCHANGED <<formula, approximations, array_constraints>>
          PROVE  TypeOK'
      <4>1. contexts' \in Seq(Expr) /\ contexts' # <<>>
        BY <3>1 DEF TypeOK, Expr
      <4> QED
        BY <2>2, <3>1, <4>1 DEF Push, TypeOK
    <3>2. ASSUME NEW c \in client.constraints,
                 contexts' = Append(contexts, c.holds), Convert(c)
          PROVE  TypeOK'
      <4>1. c.holds \in Expr
        BY BVRefinementAssumption DEF TypeOK
      <4>2. contexts' \in Seq(Expr) /\ contexts' # <<>>
        BY <3>2, <4>1 DEF TypeOK
      <4> QED
        BY <2>2, <3>2, <4>2, ConvertType DEF Push, TypeOK
    <3> QED
      BY <2>2, <3>1, <3>2 DEF Push
  <2>3. CASE Pop
    <3>1. /\ contexts \in Seq(Expr) /\ Len(contexts) > 1
          /\ contexts' = SubSeq(contexts, 1, Len(contexts) - 1)
      BY <2>3 DEF Pop, TypeOK
    <3>2. \A i \in 1..(Len(contexts) - 1) : contexts[i] \in Expr
      BY <3>1
    <3>3. Len(contexts) - 1 \in Int /\ 1 <= Len(contexts) - 1
      BY <3>1
    <3>4. contexts' \in Seq(Expr) /\ Len(contexts') # 0
      BY <3>1, <3>2, <3>3
    <3>5. contexts' # <<>>
      BY <3>4
    <3> QED
      BY <2>3, <3>4, <3>5 DEF Pop, TypeOK
  <2>4. CASE DecSolve
    <3>1. formula' \in Expr /\ lazy_array_constraints' \subseteq Expr
      BY <2>4 DEF DecSolve, TypeOK, Expr
    <3> QED
      BY <2>4, <3>1 DEF DecSolve, clientVars, TypeOK
  <2>5. CASE prop_solve
    <3>1. Solutions \subseteq Assignment
      BY DEF Solutions, Conjunction
    <3>2. /\ pc' \in {"client", "check_SAT", "check_UNSAT"}
          /\ result' \in {"none", "D_SATISFIABLE", "D_UNSATISFIABLE", "D_ERROR"}
          /\ sat_model' \in Assignment \cup {NoModel}
          /\ pc' = "check_SAT" => sat_model' \in Assignment
      BY <2>5, <3>1 DEF prop_solve, Return, TypeOK
    <3> QED
      BY <2>5, <3>2 DEF prop_solve, clientVars, TypeOK
  <2>6. CASE check_SAT
    <3>1. formula' \in Expr /\ lazy_array_constraints' \subseteq Expr
      BY <2>6 DEF check_SAT, TypeOK, Expr
    <3>2. \A o \in DOMAIN approximations : Refined[o] \in Approximation
      BY OverStateType, SetOverState DEF Refined, TypeOK, Spurious
    <3>3. /\ DOMAIN approximations' = DOMAIN approximations
          /\ \A o \in DOMAIN approximations' : approximations'[o] \in Approximation
      BY <2>6, <3>2 DEF check_SAT, Refined
    <3> QED
      BY <2>6, <3>1, <3>3 DEF check_SAT, ReturnOrRepeat, Return, clientVars, TypeOK
  <2>7. CASE check_UNSAT
    <3>1. ASSUME NEW o \in DOMAIN approximations
          PROVE  approximations'[o] \in Approximation
      <4>1. approximations[o].under_state \in Nat /\ o \in Operations
        BY DEF TypeOK, Approximation
      <4>2. Weaker(o, approximations[o].under_state) \subseteq Bits(o, 0, Width - 1)
        BY <4>1, BVRefinementAssumption DEF Weaker, Bits
      <4>3. Weaker(o, approximations[o].under_state)
              \in SUBSET (UNION {Bits(p, 0, Width - 1) : p \in Operations})
        BY <4>1, <4>2
      <4>4. approximations[o] \in Approximation /\ approximations[o].under_state + 1 \in Nat
        BY <4>1 DEF TypeOK
      <4>5. [approximations[o] EXCEPT !.under_assumptions = Weaker(o, approximations[o].under_state),
                                      !.under_state = @ + 1] \in Approximation
        BY <4>3, <4>4, SetUnder, ZenonT(30)
      <4> QED
        BY <2>7, <4>4, <4>5, Zenon DEF check_UNSAT
    <3>2. DOMAIN approximations' = DOMAIN approximations
      BY <2>7, Zenon DEF check_UNSAT
    <3> QED
      BY <2>7, <3>1, <3>2, ZenonT(30) DEF check_UNSAT, ReturnOrRepeat, Return, clientVars,
         TypeOK
  <2>8. CASE UNCHANGED vars
    BY <2>8 DEF vars, TypeOK
  <2> QED
    BY <2>1, <2>2, <2>3, <2>4, <2>5, <2>6, <2>7, <2>8 DEF Next, Loop
<1> QED
  BY <1>1, <1>2, PTL DEF Spec

-----------------------------------------------------------------------------
(* Both answers *)

\* Clauses only exclude what is not meant, and what has been interpreted fully or
\* taken off the list of lazy constraints is excluded by the clauses.  Inside the
\* loop the model satisfies the clauses, and the conflict is one of assumptions.
RefinementInv ==
  /\ \A m \in Assignment :
       /\ \A o \in DOMAIN approximations : Correct(o, m)
       /\ \A e \in array_constraints : m \in e
       => m \in formula
  /\ \A o \in DOMAIN approximations : Interpreted(o) => \A m \in formula : Correct(o, m)
  /\ pc # "client" =>
       \A e \in array_constraints : e \in lazy_array_constraints \/ formula \subseteq e
  /\ lazy_array_constraints \subseteq array_constraints
  /\ pc = "check_SAT" => sat_model \in Solutions
  /\ pc = "check_UNSAT" =>
       /\ conflict \subseteq UnderAssumptions
       /\ \A m \in Solutions : ~AllZero(m, conflict)

\* The facts about zero and one that convert_mult adds follow from multiplication.
LEMMA CorrectIsPartial ==
  ASSUME NEW o \in Operations, NEW m \in Assignment, Correct(o, m)
  PROVE  PartiallyCorrect(o, m)
<1> SUFFICES ASSUME o.id = "mult" PROVE PartiallyCorrect(o, m)
  BY DEF PartiallyCorrect
<1> DEFINE k == 2 ^ Width
           x == m[o.op0]
           y == m[o.op1]
           r == m[o.result]
<1>1. k \in Int /\ x \in 0..(k - 1) /\ y \in 0..(k - 1)
  <2>1. Width \in Nat
    BY BVRefinementAssumption
  <2>2. k \in Int
    BY <2>1
  <2> QED
    BY <2>2, BVRefinementAssumption DEF Value
<1>2. r = (x * y) % k
  BY DEF Correct, IsResult
<1>3. PartiallyCorrect(o, m) <=> /\ x = 0 \/ y = 0 => r = 0
                                 /\ x = 1 => r = y
                                 /\ y = 1 => r = x
  BY DEF PartiallyCorrect
<1> HIDE DEF k, x, y, r
<1>4. k \in Nat /\ k > 0 /\ x \in Int /\ y \in Int
  BY <1>1
<1>5. 0 % k = 0 /\ x % k = x /\ y % k = y
  BY <1>1, <1>4
<1>6. x = 0 \/ y = 0 => x * y = 0
  BY <1>4
<1>7. x = 1 => x * y = y
  BY <1>4
<1>8. y = 1 => x * y = x
  BY <1>4
<1> QED
  BY <1>2, <1>3, <1>5, <1>6, <1>7, <1>8

\* What a client sets keeps the clauses right: only new operations and arrays are added.
LEMMA ConvertInv ==
  ASSUME TypeOK, RefinementInv, pc = "client", UNCHANGED <<pc, lazy_array_constraints>>,
         NEW c \in client.constraints, Convert(c)
  PROVE  RefinementInv'
<1>1. c.operations \subseteq Operations /\ DOMAIN approximations \subseteq Operations
  BY BVRefinementAssumption DEF TypeOK
<1>2. DOMAIN approximations' = DOMAIN approximations \cup c.operations
  BY DEF Convert
<1>3. ASSUME NEW m \in Assignment,
             \A o \in DOMAIN approximations' : Correct(o, m),
             \A e \in array_constraints' : m \in e
      PROVE  m \in formula'
  <2>1. m \in formula
    BY <1>2, <1>3 DEF RefinementInv, Convert
  <2>2. \A o \in c.operations : PartiallyCorrect(o, m)
    BY <1>1, <1>2, <1>3, CorrectIsPartial
  <2> QED
    BY <2>1, <2>2 DEF Convert
<1>4. ASSUME NEW o \in DOMAIN approximations', Interpreted(o)'
      PROVE  \A m \in formula' : Correct(o, m)
  <2>1. CASE o \in DOMAIN approximations
    <3>1. approximations'[o] = approximations[o]
      BY <1>2, <2>1 DEF Convert
    <3>2. Interpreted(o)
      BY <1>4, <3>1 DEF Interpreted
    <3> QED
      BY <2>1, <3>2 DEF RefinementInv, Convert
  <2>2. CASE o \notin DOMAIN approximations
    <3>1. approximations'[o] = initialize(o)
      BY <1>2, <2>2 DEF Convert
    <3>2. approximations'[o].over_state = 0
      BY <3>1 DEF initialize
    <3>3. 0 # MAX_STATE /\ ~(0 > 0)
      BY MaxState
    <3> QED
      BY <1>4, <3>2, <3>3 DEF Interpreted
  <2> QED
    BY <2>1, <2>2
<1>5. lazy_array_constraints' \subseteq array_constraints'
  BY DEF RefinementInv, Convert
<1> QED
  BY <1>3, <1>4, <1>5 DEF RefinementInv, Correct

\* A refinement says no more about an operation than what it means, and everything
\* unless it is about one point only.
LEMMA RefinementMeaning ==
  ASSUME NEW o \in Operations, NEW m \in Assignment, sat_model \in Assignment
  PROVE  /\ Correct(o, m) => SatisfiesRefinement(o, m)
         /\ SatisfiesRefinement(o, m) /\ ~PointOnly(o) => Correct(o, m)
<1>1. m["rounding_mode"] = sat_model["rounding_mode"]
  BY RoundingModeAssumption
<1> QED
  BY <1>1 DEF Correct, SatisfiesRefinement

\* An operation that a refinement interprets fully has not been refined at a point.
LEMMA FullyRefined ==
  ASSUME TypeOK, NEW o \in Spurious, check_SAT, Interpreted(o)'
  PROVE  ~PointOnly(o)
<1> SUFFICES ASSUME PointOnly(o) PROVE FALSE
  OBVIOUS
<1>1. /\ o \in DOMAIN approximations /\ approximations[o] \in Approximation
  BY DEF Spurious, TypeOK
<1>2. approximations'[o].over_state = OverState(o)
  <2>1. approximations'[o] = [approximations[o] EXCEPT !.over_state = OverState(o)]
    BY <1>1 DEF check_SAT, Refined
  <2> QED
    BY <1>1, <2>1, OverStateType, SetOverState
<1>3. OverState(o) = MAX_STATE
  BY <1>2 DEF Interpreted, PointOnly
<1>4. OverState(o) = approximations[o].over_state + 1
  BY DEF OverState
<1>5. approximations[o].over_state < max_node_refinement
  BY DEF PointOnly
<1>6. max_node_refinement \in 0..(MAX_STATE - 1) /\ approximations[o].over_state \in 0..MAX_STATE
  BY <1>1, BVRefinementAssumption DEF Approximation
<1> QED
  BY <1>3, <1>4, <1>5, <1>6, BelowMaxState

\* check_SAT() keeps the clauses right.
LEMMA CheckSatInv ==
  ASSUME TypeOK, RefinementInv, check_SAT
  PROVE  RefinementInv'
<1>1. /\ DOMAIN approximations' = DOMAIN approximations
      /\ DOMAIN approximations \subseteq Operations
      /\ formula' \subseteq formula /\ formula \subseteq Assignment
      /\ sat_model \in Assignment
      /\ array_constraints' = array_constraints
      /\ lazy_array_constraints' = lazy_array_constraints \ Violated
      /\ pc' \in {"prop_solve", "client"}
  BY DEF TypeOK, Expr, check_SAT, Refined, ReturnOrRepeat, Return, clientVars
<1>2. formula' = {m \in formula : /\ \A e \in Violated : m \in e
                                  /\ \A o \in Spurious : SatisfiesRefinement(o, m)}
  BY DEF check_SAT
<1>3. Spurious \subseteq DOMAIN approximations /\ Violated \subseteq lazy_array_constraints
  BY DEF Spurious, Violated
<1>4. ASSUME NEW m \in Assignment,
             \A o \in DOMAIN approximations' : Correct(o, m),
             \A e \in array_constraints' : m \in e
      PROVE  m \in formula'
  <2>1. m \in formula
    BY <1>1, <1>4 DEF RefinementInv
  <2>2. \A e \in Violated : m \in e
    BY <1>1, <1>3, <1>4 DEF RefinementInv
  <2>3. \A o \in Spurious : SatisfiesRefinement(o, m)
    BY <1>1, <1>3, <1>4, RefinementMeaning
  <2> QED
    BY <1>2, <2>1, <2>2, <2>3
<1>5. ASSUME NEW o \in DOMAIN approximations', Interpreted(o)'
      PROVE  \A m \in formula' : Correct(o, m)
  <2>1. CASE o \in Spurious
    <3>1. ~PointOnly(o)
      BY <1>5, <2>1, FullyRefined
    <3>2. \A m \in formula' : m \in Assignment /\ SatisfiesRefinement(o, m)
      BY <1>1, <1>2, <2>1
    <3> QED
      BY <1>1, <3>1, <3>2, RefinementMeaning
  <2>2. CASE o \notin Spurious
    <3>1. approximations'[o] = approximations[o]
      BY <1>1, <2>2 DEF check_SAT, Refined
    <3>2. Interpreted(o)
      BY <1>5, <3>1 DEF Interpreted
    <3> QED
      BY <1>1, <3>2 DEF RefinementInv
  <2> QED
    BY <2>1, <2>2
<1>6. \A e \in array_constraints' : e \in lazy_array_constraints' \/ formula' \subseteq e
  <2> SUFFICES ASSUME NEW e \in array_constraints, e \notin lazy_array_constraints'
               PROVE  formula' \subseteq e
    BY <1>1
  <2>1. CASE e \in Violated
    BY <1>2, <2>1
  <2>2. CASE e \notin lazy_array_constraints
    <3>1. pc # "client"
      BY DEF check_SAT
    <3> QED
      BY <1>1, <2>2, <3>1 DEF RefinementInv
  <2> QED
    BY <1>1, <2>1, <2>2
<1>7. lazy_array_constraints' \subseteq array_constraints'
  BY <1>1 DEF RefinementInv
<1> QED
  BY <1>1, <1>4, <1>5, <1>6, <1>7 DEF RefinementInv, Correct

\* check_UNSAT() changes assumptions only.
LEMMA CheckUnsatInv ==
  ASSUME TypeOK, RefinementInv, check_UNSAT
  PROVE  RefinementInv'
<1>1. /\ DOMAIN approximations' = DOMAIN approximations
      /\ UNCHANGED <<formula, array_constraints, lazy_array_constraints>>
      /\ pc # "client" /\ pc' \in {"prop_solve", "client"}
  BY ZenonT(30) DEF check_UNSAT, ReturnOrRepeat, Return, clientVars
<1>2. ASSUME NEW o \in DOMAIN approximations
      PROVE  approximations'[o].over_state = approximations[o].over_state
  <2>1. /\ approximations[o] \in Approximation /\ o \in Operations
        /\ approximations[o].under_state \in Nat
    BY DEF TypeOK, Approximation
  <2>2. [approximations[o] EXCEPT !.under_assumptions = Weaker(o, approximations[o].under_state),
                                  !.under_state = @ + 1].over_state = approximations[o].over_state
    <3>1. \A a \in Approximation : \A bits, n :
            [a EXCEPT !.under_assumptions = bits, !.under_state = n].over_state = a.over_state
      BY DEF Approximation
    <3> QED
      BY <2>1, <3>1
  <2> QED
    BY <2>2, Zenon DEF check_UNSAT
<1>3. ASSUME NEW o \in DOMAIN approximations', Interpreted(o)'
      PROVE  \A m \in formula' : Correct(o, m)
  <2>1. Interpreted(o)
    BY <1>1, <1>2, <1>3 DEF Interpreted
  <2> QED
    BY <1>1, <2>1 DEF RefinementInv
<1> QED
  BY <1>1, <1>3 DEF RefinementInv, Correct

\* RefinementInv is an invariant of the procedure.
THEOREM RefinementInvariant == Spec => []RefinementInv
<1>1. Init => RefinementInv
  <2> SUFFICES ASSUME Init PROVE RefinementInv
    OBVIOUS
  <2>1. DOMAIN approximations = {}
    BY DEF Init
  <2> QED
    BY <2>1 DEF Init, RefinementInv
<1>2. TypeOK /\ RefinementInv /\ [Next]_vars => RefinementInv'
  <2> SUFFICES ASSUME TypeOK, RefinementInv, [Next]_vars PROVE RefinementInv'
    OBVIOUS
  <2>1. ASSUME pc = "client", UNCHANGED <<pc, formula, approximations, array_constraints,
                                          lazy_array_constraints>>
        PROVE  RefinementInv'
    BY <2>1 DEF RefinementInv, Interpreted, Correct
  <2>2. CASE SetTo
    BY <2>2, ConvertInv DEF SetTo
  <2>3. CASE Push
    BY <2>1, <2>3, ConvertInv DEF Push
  <2>4. CASE Pop
    BY <2>1, <2>4 DEF Pop
  <2>5. CASE DecSolve
    <3>1. /\ pc' = "prop_solve" /\ UNCHANGED <<approximations, array_constraints>>
          /\ formula' \subseteq formula
      BY <2>5 DEF DecSolve, clientVars
    <3>2. /\ lazy_array_constraints' \subseteq array_constraints
          /\ \A e \in array_constraints : e \in lazy_array_constraints' \/ formula' \subseteq e
      BY <2>5 DEF DecSolve, RefinementInv
    <3>3. ASSUME NEW m \in Assignment,
                 \A o \in DOMAIN approximations : Correct(o, m),
                 \A e \in array_constraints : m \in e
          PROVE  m \in formula'
      BY <2>5, <3>3 DEF DecSolve, RefinementInv
    <3>4. ASSUME NEW o \in DOMAIN approximations, Interpreted(o)'
          PROVE  \A m \in formula' : Correct(o, m)
      BY <3>1, <3>4 DEF RefinementInv, Interpreted
    <3> QED
      BY <3>1, <3>2, <3>3, <3>4 DEF RefinementInv, Correct
  <2>6. CASE prop_solve
    <3>1. /\ UNCHANGED <<contexts, formula, approximations, array_constraints,
                         lazy_array_constraints>>
          /\ pc # "client"
      BY <2>6 DEF prop_solve, clientVars
    <3>2. Solutions' = Solutions /\ UnderAssumptions' = UnderAssumptions
      BY <3>1 DEF Solutions, Conjunction, UnderAssumptions
    <3>3. pc' = "check_SAT" => sat_model' \in Solutions
      BY <2>6 DEF prop_solve, Return
    <3>4. pc' = "check_UNSAT" => /\ conflict' \subseteq UnderAssumptions
                                 /\ \A m \in Solutions : ~AllZero(m, conflict')
      BY <2>6 DEF prop_solve, Return
    <3>5. pc' = "check_UNSAT" => /\ conflict' \subseteq UnderAssumptions'
                                 /\ \A m \in Solutions' : ~AllZero(m, conflict)'
      BY <3>2, <3>4 DEF AllZero
    <3>6. \A o \in DOMAIN approximations : Interpreted(o)' => \A m \in formula : Correct(o, m)
      BY <3>1 DEF RefinementInv, Interpreted
    <3> QED
      BY <3>1, <3>2, <3>3, <3>5, <3>6 DEF RefinementInv, Correct
  <2>7. CASE check_SAT
    BY <2>7, CheckSatInv
  <2>8. CASE check_UNSAT
    BY <2>8, CheckUnsatInv
  <2>9. CASE UNCHANGED vars
    <3>1. Solutions' = Solutions /\ UnderAssumptions' = UnderAssumptions
      BY <2>9 DEF vars, Solutions, Conjunction, UnderAssumptions
    <3> QED
      BY <2>9, <3>1 DEF vars, RefinementInv, Interpreted, Correct, AllZero
  <2> QED
    BY <2>2, <2>3, <2>4, <2>5, <2>6, <2>7, <2>8, <2>9 DEF Next, Loop
<1> QED
  BY <1>1, <1>2, TypeCorrect, PTL DEF Spec

\* A model that is returned satisfies the contexts and all operations and arrays
\* (check_SAT).
THEOREM SatisfiableAnswers == Spec => SatisfiableIsReal
<1>1. ASSUME TypeOK, RefinementInv, [Next]_vars,
             pc # "client", pc' = "client", result' = "D_SATISFIABLE"
      PROVE  sat_model \in Meaning
  <2>1. check_SAT /\ Violated = {} /\ Spurious = {}
    BY <1>1 DEF Next, Loop, vars, SetTo, Push, Pop, DecSolve, prop_solve, check_SAT,
                check_UNSAT, ReturnOrRepeat, Return
  <2>2. sat_model \in Conjunction(contexts) /\ sat_model \in formula
    BY <1>1, <2>1 DEF RefinementInv, check_SAT, Solutions
  <2>3. \A o \in DOMAIN approximations : Correct(o, sat_model)
    BY <1>1, <2>1, <2>2 DEF RefinementInv, Spurious
  <2>4. \A e \in array_constraints : sat_model \in e
    BY <1>1, <2>1, <2>2 DEF RefinementInv, Violated
  <2> QED
    BY <2>2, <2>3, <2>4 DEF Meaning
<1>2. TypeOK /\ RefinementInv /\ [Next]_vars =>
        [pc # "client" /\ pc' = "client" /\ result' = "D_SATISFIABLE" => sat_model \in Meaning]_vars
  BY <1>1
<1> QED
  BY <1>2, TypeCorrect, RefinementInvariant, PTL DEF Spec, SatisfiableIsReal

\* D_UNSATISFIABLE is returned only if nothing satisfies the contexts and all
\* operations and arrays (check_UNSAT).
THEOREM UnsatisfiableAnswers == Spec => UnsatisfiableIsReal
<1>1. ASSUME TypeOK, RefinementInv, [Next]_vars,
             pc # "client", pc' = "client", result' = "D_UNSATISFIABLE"
      PROVE  Meaning = {}
  <2>1. check_UNSAT /\ ~\E o \in DOMAIN approximations : conflicts_with(o)
    BY <1>1, ZenonT(30) DEF Next, Loop, vars, SetTo, Push, Pop, DecSolve, prop_solve,
       check_SAT, check_UNSAT, ReturnOrRepeat, Return
  <2>2. conflict \subseteq UnderAssumptions /\ \A m \in Solutions : ~AllZero(m, conflict)
    BY <1>1, <2>1, Zenon DEF RefinementInv, check_UNSAT
  <2>3. conflict = {}
    BY <2>1, <2>2 DEF conflicts_with, UnderAssumptions
  <2>4. Solutions = {}
    BY <2>2, <2>3 DEF AllZero
  <2>5. Meaning \subseteq Solutions
    BY <1>1 DEF Meaning, Solutions, Conjunction, RefinementInv
  <2> QED
    BY <2>4, <2>5
<1>2. TypeOK /\ RefinementInv /\ [Next]_vars =>
        [pc # "client" /\ pc' = "client" /\ result' = "D_UNSATISFIABLE" => Meaning = {}]_vars
  BY <1>1
<1> QED
  BY <1>2, TypeCorrect, RefinementInvariant, PTL DEF Spec, UnsatisfiableIsReal
=============================================================================
