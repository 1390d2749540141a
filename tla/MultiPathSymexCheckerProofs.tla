--------------------- MODULE MultiPathSymexCheckerProofs --------------------
(***************************************************************************)
(* Proofs about the multi-path checker and the verifiers that drive it, for *)
(* every equation, any number of properties and every set of valuations:   *)
(* what they report about a property is true of the executions the         *)
(* equation describes.                                                     *)
(***************************************************************************)
EXTENDS MultiPathSymexChecker, BuildGotoTraceProofs

USE SMT, ZenonT(20), SMTT(60), ZenonT(60) DEF Expr

-----------------------------------------------------------------------------
(* The contexts of the decision procedure *)

\* The steps of the decision procedure, as far as the checker can tell.
LEMMA SolverSteps ==
  ASSUME ContextStack(contexts)
  PROVE  /\ \A e \in Expr : SDP!SetTo(e, TRUE) =>
              /\ ContextStack(contexts') /\ Len(contexts') = Len(contexts)
              /\ contexts'[1] \subseteq contexts[1]
              /\ Len(contexts) = 1 => contexts'[1] = contexts[1] \cap e
              /\ AllContexts(contexts') = AllContexts(contexts) \cap e
         /\ SDP!Solve(Assignment) =>
              /\ ContextStack(contexts') /\ contexts'[1] = contexts[1]
              /\ AllContexts(contexts') = AllContexts(contexts)
              /\ result' = "D_SATISFIABLE" => model' \in AllContexts(contexts)
              /\ result' = "D_UNSATISFIABLE" => AllContexts(contexts) = {}
         /\ \A a : SDP!PushAssumptions(a) =>
              ContextStack(contexts') /\ contexts'[1] = contexts[1]
         /\ SDP!Pop => ContextStack(contexts') /\ contexts'[1] = contexts[1]
<1>1. ASSUME NEW e \in Expr, SDP!SetTo(e, TRUE)
      PROVE  /\ ContextStack(contexts') /\ Len(contexts') = Len(contexts)
             /\ contexts'[1] \subseteq contexts[1]
             /\ Len(contexts) = 1 => contexts'[1] = contexts[1] \cap e
             /\ AllContexts(contexts') = AllContexts(contexts) \cap e
  <2>1. contexts' = [contexts EXCEPT ![Len(contexts)] = @ \cap e]
    BY <1>1 DEF SDP!SetTo, SDP!Valued
  <2>. QED
    BY <2>1, ConstrainTop, Zenon
<1>2. ASSUME SDP!Solve(Assignment)
      PROVE  /\ ContextStack(contexts') /\ contexts'[1] = contexts[1]
             /\ AllContexts(contexts') = AllContexts(contexts)
             /\ result' = "D_SATISFIABLE" => model' \in AllContexts(contexts)
             /\ result' = "D_UNSATISFIABLE" => AllContexts(contexts) = {}
  <2>1. AllContexts(contexts) \cap Assignment = AllContexts(contexts)
    BY DEF AllContexts
  <2>2. Assignment \in Expr
    OBVIOUS
  <2>3. CASE contexts' = contexts
    BY <1>2, <2>1, <2>3 DEF SDP!Solve, SDP!Conjunction, AllContexts
  <2>4. CASE contexts' = Append(contexts, Assignment) /\ result' = "D_ERROR"
    BY <2>1, <2>2, <2>4, AddContext, Zenon
  <2>. QED
    BY <1>2, <2>3, <2>4 DEF SDP!Solve
<1>3. ASSUME NEW a, SDP!PushAssumptions(a)
      PROVE  ContextStack(contexts') /\ contexts'[1] = contexts[1]
  <2>1. contexts' = Append(contexts, AllContexts(a)) /\ AllContexts(a) \in Expr
    BY <1>3 DEF SDP!PushAssumptions, SDP!Conjunction, AllContexts
  <2>. QED
    BY <2>1, AddContext
<1>4. ASSUME SDP!Pop PROVE ContextStack(contexts') /\ contexts'[1] = contexts[1]
  BY <1>4, RemoveContext DEF SDP!Pop
<1>. QED
  BY <1>1, <1>2, <1>3, <1>4, Zenon

-----------------------------------------------------------------------------
(* Failures are real.  Before the equation is converted no property FAILs; after *)
(* that, only violations falsify a handle, for all valuations the root context   *)
(* admits.  What the fault localizer pushes and pops is above the root context.  *)

Converting == {"convert", "convert_assertions", "convert_goals"}

\* The first call of the checker has not begun.
NotCalled ==
  /\ pc = "call" /\ ~called_again
  /\ Len(contexts) = 1 /\ contexts[1] = Assignment
  /\ \A p \in DOMAIN properties : properties[p] = "NOT_CHECKED"

ToConvert ==
  /\ pc = "convert"
  /\ Len(contexts) = 1 /\ contexts[1] = Assignment
  /\ \A i \in DOMAIN equation : ~equation[i].converted

ToConvertAssertions ==
  /\ pc = "convert_assertions"
  /\ Len(contexts) = 1
  /\ \A v \in Assignment : v \in contexts[1] <=> Execution(equation, v)
  /\ AssumptionHandles(equation)
  /\ \A i \in Asserts(equation) : ~equation[i].converted

\* All properties were decided before the equation was converted, so it never is.
DecidedEarly ==
  /\ pc \in {"call", "report", "done", "aborted", "localize", "check"}
  /\ pc = "call" => called_again
  /\ pc \in {"localize", "check"} => verifier \in StopOnFail
  /\ ~has_properties_to_check(properties)
  /\ PropertyIds(equation) \subseteq DOMAIN properties

GoalsAreViolations ==
  \A p \in DOMAIN goal_map : \A v \in goal_map[p] :
    \E i \in Asserts(equation) :
      equation[i].property_id = p /\ v \notin equation[i].cond_handle

CheckerInv ==
  /\ equation \in Seq(Step)
  /\ ContextStack(contexts)
  /\ FailuresAreReal
  /\ ~equation_generated =>
       /\ \A p \in DOMAIN properties : properties[p] # "FAIL"
       /\ \/ NotCalled
          \/ ToConvert
          \/ ToConvertAssertions
          \/ pc = "convert_goals" /\ SoundHandles(equation, contexts[1])
          \/ DecidedEarly
  /\ equation_generated =>
       /\ pc \notin Converting
       /\ SoundHandles(equation, contexts[1])
       /\ GoalsAreViolations

\* Steps that leave the verdicts and the checker alone and do not weaken the root.
LEMMA GeneratedFrame ==
  ASSUME CheckerInv, equation_generated, UNCHANGED <<checker, properties>>,
         ContextStack(contexts'), contexts'[1] \subseteq contexts[1],
         pc' \notin Converting
  PROVE  CheckerInv'
<1>1. /\ equation' = equation /\ equation_generated' /\ goal_map' = goal_map
      /\ properties' = properties
  BY DEF checker
<1>2. SoundHandles(equation, contexts'[1])
  BY DEF CheckerInv, SoundHandles
<1>. QED
  BY <1>1, <1>2 DEF CheckerInv, FailuresAreReal, GoalsAreViolations

\* The same when everything was decided before the conversion.
LEMMA DecidedFrame ==
  ASSUME CheckerInv, ~equation_generated, DecidedEarly,
         UNCHANGED <<checker, properties, verifier>>, ContextStack(contexts'),
         pc' \in {"call", "report", "done", "aborted", "localize", "check"},
         pc' = "call" => called_again',
         pc' \in {"localize", "check"} => verifier \in StopOnFail
  PROVE  CheckerInv'
<1>1. /\ equation' = equation /\ ~equation_generated'
      /\ properties' = properties /\ verifier' = verifier
  BY DEF checker
<1>2. DecidedEarly'
  BY <1>1 DEF DecidedEarly
<1>. QED
  BY <1>1, <1>2 DEF CheckerInv, FailuresAreReal

\* A state without converted equation that is not at one of its calls.
LEMMA EarlyPc ==
  ASSUME CheckerInv, ~equation_generated, pc \notin Converting \cup {"call"}
  PROVE  DecidedEarly
BY DEF CheckerInv, NotCalled, ToConvert, ToConvertAssertions, Converting

\* Initially the checker has not been called.
LEMMA InitChecker == Init => CheckerInv
<1>. SUFFICES ASSUME Init PROVE CheckerInv
  OBVIOUS
<1>1. contexts = <<Assignment>>
  BY DEF Init, SDP!SDPInit
<1>2. ContextStack(contexts) /\ Len(contexts) = 1 /\ contexts[1] = Assignment
  BY <1>1 DEF ContextStack
<1>3. equation \in Seq(Step)
  BY DEF Init
<1>4. \A p \in DOMAIN properties : properties[p] = "NOT_CHECKED"
  BY DEF Init
<1>5. NotCalled /\ ~equation_generated
  BY <1>2, <1>4 DEF NotCalled, Init
<1>. QED
  BY <1>2, <1>3, <1>4, <1>5 DEF CheckerInv, FailuresAreReal

\* What generate_equation does to the statuses.
LEMMA GeneratedStatus ==
  ASSUME NEW eq
  PROVE  /\ DOMAIN PropertiesOf(eq) = DOMAIN properties \cup PropertyIds(eq)
         /\ \A p \in DOMAIN properties \cup PropertyIds(eq) :
              PropertiesOf(eq)[p] =
                IF p \in PropertyIds(eq)
                THEN IF p \in DOMAIN properties
                     THEN StatusOr(properties[p], "UNKNOWN") ELSE "UNKNOWN"
                ELSE IF properties[p] = "NOT_CHECKED" THEN "PASS" ELSE properties[p]
BY DEF PropertiesOf, update_status_of_not_checked_properties, Replace, StatusOr,
       update_properties_status_from_symex_target_equation

\* The calls of the checker and the conversion of the equation.
LEMMA GenerateEquationChecker == ASSUME CheckerInv, GenerateEquation PROVE CheckerInv'
<1>1. PICK eq \in IF called_again THEN {equation} ELSE Equations :
        equation' = eq /\ properties' = PropertiesOf(eq)
  BY DEF GenerateEquation
<1>2. /\ pc = "call" /\ ~equation_generated /\ ~equation_generated'
      /\ contexts' = contexts /\ verifier' = verifier /\ called_again' = called_again
      /\ IF has_properties_to_check(properties') THEN pc' = "convert" ELSE pc' = "report"
  BY DEF GenerateEquation, solver
<1>3. /\ DOMAIN properties' = DOMAIN properties \cup PropertyIds(eq)
      /\ \A p \in DOMAIN properties' :
           properties'[p] =
             IF p \in PropertyIds(eq)
             THEN IF p \in DOMAIN properties
                  THEN StatusOr(properties[p], "UNKNOWN") ELSE "UNKNOWN"
             ELSE IF properties[p] = "NOT_CHECKED" THEN "PASS" ELSE properties[p]
  BY <1>1, GeneratedStatus, Zenon
<1>4. \A p \in DOMAIN properties : properties[p] # "FAIL"
  BY <1>2 DEF CheckerInv
<1>5. \A p \in DOMAIN properties' : properties'[p] # "FAIL"
  BY <1>3, <1>4 DEF StatusOr
<1>6. equation' \in Seq(Step)
  BY <1>1, CheckerAssumption DEF CheckerInv
<1>7. CASE NotCalled
  <2>1. eq \in Equations
    BY <1>1, <1>7 DEF NotCalled
  <2>2. \A i \in DOMAIN eq : ~eq[i].converted
    BY <2>1, CheckerAssumption
  <2>3. CASE pc' = "convert"
    <3>1. ToConvert'
      BY <1>1, <1>2, <1>7, <2>2, <2>3 DEF NotCalled, ToConvert
    <3>. QED
      BY <1>2, <1>5, <1>6, <3>1 DEF CheckerInv, FailuresAreReal
  <2>4. CASE pc' = "report"
    <3>1. DecidedEarly'
      BY <1>1, <1>2, <1>3, <2>4 DEF DecidedEarly
    <3>. QED
      BY <1>2, <1>5, <1>6, <3>1 DEF CheckerInv, FailuresAreReal
  <2>. QED
    BY <1>2, <2>3, <2>4
<1>8. CASE DecidedEarly
  <2>1. eq = equation
    BY <1>1, <1>2, <1>8 DEF DecidedEarly
  <2>2. ~has_properties_to_check(properties')
    BY <1>3, <1>8, <2>1
    DEF DecidedEarly, has_properties_to_check, is_property_to_check, StatusOr
  <2>3. DecidedEarly'
    BY <1>1, <1>2, <1>3, <2>2 DEF DecidedEarly
  <2>. QED
    BY <1>2, <1>5, <1>6, <2>3 DEF CheckerInv, FailuresAreReal
<1>. QED
  BY <1>2, <1>7, <1>8 DEF CheckerInv, ToConvert, ToConvertAssertions

\* The root context becomes the set of executions.
LEMMA ConvertWithoutAssertionsChecker ==
  ASSUME CheckerInv, ConvertWithoutAssertions PROVE CheckerInv'
<1>. DEFINE e == AssignmentsConstraint(equation)
            d == convert_without_assertions(equation)
<1>1. /\ pc = "convert" /\ pc' = "convert_assertions" /\ equation' = d
      /\ SDP!SetTo(e, TRUE) /\ properties' = properties
      /\ equation_generated' = equation_generated
  BY Zenon DEF ConvertWithoutAssertions
<1>2. ~equation_generated /\ ToConvert /\ equation \in Seq(Step)
  BY <1>1 DEF CheckerInv, Converting, NotCalled, ToConvertAssertions, DecidedEarly
<1>3. e \in Expr
  BY DEF AssignmentsConstraint, AllOf
<1>4. SameSteps(equation, d) /\ AssumptionHandles(d)
      /\ \A i \in Asserts(equation) : d[i] = equation[i]
  BY <1>2, ConvertedWithoutAssertions
<1>5. /\ d \in Seq(Step) /\ Asserts(d) = Asserts(equation)
      /\ \A v : Execution(d, v) <=> Execution(equation, v)
  BY <1>2, <1>4, SameMeaning DEF SameSteps
<1>6. \A v \in Assignment : v \in e <=> Execution(equation, v)
  BY <1>2, AssignmentsConstraintIs DEF ToConvert
<1>. HIDE DEF e, d
<1>7. ContextStack(contexts') /\ Len(contexts') = 1 /\ contexts'[1] = Assignment \cap e
  BY <1>1, <1>2, <1>3, SolverSteps, Zenon DEF CheckerInv, ToConvert
<1>8. \A i \in Asserts(d) : ~d[i].converted
  BY <1>2, <1>4, <1>5 DEF ToConvert, Asserts
<1>9. ToConvertAssertions'
  BY <1>1, <1>4, <1>5, <1>6, <1>7, <1>8 DEF ToConvertAssertions
<1>. QED
  BY <1>1, <1>2, <1>5, <1>7, <1>9 DEF CheckerInv, FailuresAreReal

\* From here on violations are told from the handles.
LEMMA ConvertAssertionsChecker ==
  ASSUME CheckerInv, ConvertAssertions PROVE CheckerInv'
<1>. DEFINE e == AssertionsConstraint(equation, TRUE)
            d == convert_assertions(equation, TRUE)
<1>1. /\ pc = "convert_assertions" /\ pc' = "convert_goals" /\ equation' = d
      /\ SDP!SetTo(e, TRUE) /\ properties' = properties
      /\ equation_generated' = equation_generated
  BY Zenon DEF ConvertAssertions
<1>2. ~equation_generated /\ ToConvertAssertions /\ equation \in Seq(Step)
  BY <1>1 DEF CheckerInv, Converting, NotCalled, ToConvert, DecidedEarly
<1>3. e \in Expr
  BY Zenon DEF AssertionsConstraint
<1>4. contexts[1] \in SUBSET Assignment /\ \A v \in contexts[1] : Execution(equation, v)
  BY <1>2, ConjunctionInRoot DEF CheckerInv, ToConvertAssertions
<1>5. SameSteps(equation, d) /\ SoundHandles(d, contexts[1] \cap e)
  BY <1>2, <1>4, ConvertedAssertions, Zenon DEF ToConvertAssertions
<1>. HIDE DEF e, d
<1>6. ContextStack(contexts') /\ contexts'[1] = contexts[1] \cap e
  BY <1>1, <1>2, <1>3, SolverSteps, Zenon DEF CheckerInv, ToConvertAssertions
<1>7. d \in Seq(Step) /\ SoundHandles(equation', contexts'[1])
  BY <1>1, <1>5, <1>6 DEF SameSteps
<1>. QED
  BY <1>1, <1>2, <1>6, <1>7 DEF CheckerInv, FailuresAreReal

\* The goals are met by violations only.
LEMMA ConvertGoalsChecker == ASSUME CheckerInv, ConvertGoals PROVE CheckerInv'
<1>1. /\ pc = "convert_goals" /\ pc' = "run" /\ equation' = equation
      /\ contexts' = contexts /\ equation_generated'
      /\ properties' = PropertiesWithGoals(properties, equation)
      /\ goal_map' = Goals(properties, equation)
  BY DEF ConvertGoals, solver
<1>2. ~equation_generated /\ SoundHandles(equation, contexts[1])
  BY <1>1 DEF CheckerInv, Converting, NotCalled, ToConvert, ToConvertAssertions,
              DecidedEarly
<1>3. \A p \in DOMAIN properties' : properties'[p] # "FAIL"
  BY <1>1, <1>2 DEF CheckerInv, PropertiesWithGoals, StatusOr
<1>4. GoalsAreViolations'
  BY <1>1 DEF GoalsAreViolations, Goals
<1>. QED
  BY <1>1, <1>2, <1>3, <1>4 DEF CheckerInv, FailuresAreReal, Converting

\* run_property_decider: a property FAILs only if the model violates it.
LEMMA RunPropertyDeciderChecker ==
  ASSUME CheckerInv, RunPropertyDecider PROVE CheckerInv'
<1>1. /\ pc = "solve" /\ SDP!Solve(Assignment) /\ UNCHANGED checker
      /\ pc' \in {"found", "report", "aborted"}
      /\ properties' = update_properties_status_from_goals(
                          properties, goal_map, result', model', TRUE)
  BY DEF RunPropertyDecider, Decide
<1>2. /\ equation_generated /\ SoundHandles(equation, contexts[1])
      /\ GoalsAreViolations /\ ContextStack(contexts) /\ FailuresAreReal
  BY <1>1 DEF CheckerInv, NotCalled, ToConvert, ToConvertAssertions, DecidedEarly
<1>3. /\ ContextStack(contexts') /\ contexts'[1] = contexts[1]
      /\ result' = "D_SATISFIABLE" => model' \in AllContexts(contexts)
  BY <1>1, <1>2, SolverSteps
<1>4. ASSUME NEW p \in DOMAIN goal_map, result' = "D_SATISFIABLE",
             IsTrue(goal_map[p], model')
      PROVE  Violable(equation, p)
  <2>1. model' \in contexts[1] /\ model' \in Assignment
    BY <1>2, <1>3, <1>4, ConjunctionInRoot DEF AllContexts
  <2>2. model' \in goal_map[p]
    BY <1>4, <2>1 DEF IsTrue
  <2>3. PICK i \in Asserts(equation) :
          equation[i].property_id = p /\ model' \notin equation[i].cond_handle
    BY <1>2, <2>2 DEF GoalsAreViolations
  <2>4. Violates(equation, model', i)
    BY <1>2, <2>1, <2>3 DEF SoundHandles
  <2>. QED
    BY <2>1, <2>3, <2>4 DEF Violable
<1>5. ASSUME NEW p \in DOMAIN properties', properties'[p] = "FAIL"
      PROVE  Violable(equation, p)
  <2>1. CASE result' = "D_SATISFIABLE"
    <3>1. /\ p \in DOMAIN properties
          /\ properties'[p] = IF p \in NewlyFailed(properties, goal_map, model')
                              THEN StatusOr(properties[p], "FAIL") ELSE properties[p]
      BY <1>1, <1>5, <2>1 DEF update_properties_status_from_goals
    <3>2. CASE p \in NewlyFailed(properties, goal_map, model')
      BY <1>4, <2>1, <3>2 DEF NewlyFailed
    <3>3. CASE p \notin NewlyFailed(properties, goal_map, model')
      BY <1>2, <1>5, <3>1, <3>3 DEF FailuresAreReal
    <3>. QED
      BY <3>2, <3>3
  <2>2. CASE result' # "D_SATISFIABLE"
    <3>1. p \in DOMAIN properties /\ properties[p] = "FAIL"
      BY <1>1, <1>5, <2>2 DEF update_properties_status_from_goals, Replace
    <3>. QED
      BY <1>2, <3>1 DEF FailuresAreReal
  <2>. QED
    BY <2>1, <2>2
<1>6. /\ equation' = equation /\ equation_generated' /\ goal_map' = goal_map
      /\ pc' \notin Converting
  BY <1>1, <1>2 DEF checker, Converting
<1>7. FailuresAreReal' /\ GoalsAreViolations' /\ SoundHandles(equation', contexts'[1])
  BY <1>2, <1>3, <1>5, <1>6 DEF FailuresAreReal, GoalsAreViolations
<1>. QED
  BY <1>3, <1>6, <1>7 DEF CheckerInv

\* propagate_fatal_assertions takes back passes, because of a failure.
LEMMA PropagatedStatus ==
  ASSUME PropagateFatalAssertions
  PROVE  /\ pc = "report" /\ pc' = "done" /\ progress' = progress
         /\ verifier = "all_properties_with_trace_storage"
         /\ UNCHANGED <<checker, solver, verifier, called_again, traces>>
         /\ DOMAIN properties' = DOMAIN properties
         /\ properties' = [p \in DOMAIN properties' |-> properties'[p]]
         /\ \A p \in DOMAIN properties :
              \/ properties'[p] = properties[p]
              \/ /\ properties[p] = "PASS" /\ properties'[p] = "UNKNOWN"
                 /\ \E f \in DOMAIN properties, reach \in FatalReach :
                      properties[f] = "FAIL" /\ p \in reach[f]
BY Zenon DEF PropagateFatalAssertions, propagate_fatal_to_proven

\* Without a converted equation nothing has failed, and it takes back nothing.
LEMMA PropagateFatalAssertionsChecker ==
  ASSUME CheckerInv, PropagateFatalAssertions PROVE CheckerInv'
<1>1. /\ pc = "report" /\ pc' = "done"
      /\ equation' = equation /\ equation_generated' = equation_generated
      /\ goal_map' = goal_map /\ contexts' = contexts /\ verifier' = verifier
      /\ DOMAIN properties' = DOMAIN properties
  BY PropagatedStatus DEF checker, solver
<1>2. FailuresAreReal'
  BY <1>1, PropagatedStatus DEF CheckerInv, FailuresAreReal
<1>3. CASE equation_generated
  BY <1>1, <1>2, <1>3 DEF CheckerInv, Converting, GoalsAreViolations
<1>4. CASE ~equation_generated
  <2>1. DecidedEarly /\ \A p \in DOMAIN properties : properties[p] # "FAIL"
    BY <1>1, <1>4, EarlyPc DEF Converting, CheckerInv
  <2>2. \A p \in DOMAIN properties : properties'[p] = properties[p]
    BY <2>1, PropagatedStatus
  <2>3. DecidedEarly' /\ \A p \in DOMAIN properties' : properties'[p] # "FAIL"
    BY <1>1, <2>1, <2>2 DEF DecidedEarly, has_properties_to_check
  <2>. QED
    BY <1>1, <1>2, <1>4, <2>3 DEF CheckerInv
<1>. QED
  BY <1>3, <1>4

\* The other steps of the checker, of the fault localizer and of the verifiers
\* change neither the verdicts nor the goals.
LEMMA OtherStepsChecker ==
  ASSUME CheckerInv, Next,
         ~GenerateEquation, ~ConvertWithoutAssertions, ~ConvertAssertions,
         ~ConvertGoals, ~RunPropertyDecider
  PROVE  CheckerInv'
<1>0. ContextStack(contexts) /\ contexts[1] \subseteq contexts[1]
  BY DEF CheckerInv
<1>1. CASE Call
  <2>1. /\ equation_generated /\ pc' \in {"run", "report"}
        /\ UNCHANGED <<checker, properties, contexts>>
    BY <1>1 DEF Call, solver
  <2>. QED
    BY <1>0, <2>1, GeneratedFrame DEF Converting
<1>2. CASE AddConstraintFromGoals
  <2>. DEFINE e == ConstraintFromGoals(goal_map, properties)
  <2>1. /\ pc = "run" /\ pc' = "solve" /\ UNCHANGED <<checker, properties>>
        /\ SDP!SetTo(e, TRUE)
    BY <1>2, Zenon DEF AddConstraintFromGoals
  <2>2. equation_generated
    BY <2>1 DEF CheckerInv, NotCalled, ToConvert, ToConvertAssertions, DecidedEarly
  <2>3. e \in Expr
    BY DEF ConstraintFromGoals
  <2>. HIDE DEF e
  <2>4. ContextStack(contexts') /\ contexts'[1] \subseteq contexts[1]
    BY <1>0, <2>1, <2>3, SolverSteps, Zenon
  <2>. QED
    BY <2>1, <2>2, <2>4, GeneratedFrame DEF Converting
<1>a. ASSUME pc \notin Converting \cup {"call"},
             UNCHANGED <<checker, properties, verifier>>,
             ContextStack(contexts'), contexts'[1] = contexts[1],
             pc' \notin Converting,
             DecidedEarly =>
               /\ pc' \in {"call", "report", "done", "aborted", "localize", "check"}
               /\ pc' = "call" => called_again'
               /\ pc' \in {"localize", "check"} => verifier \in StopOnFail
      PROVE  CheckerInv'
  <2>1. CASE equation_generated
    BY <1>0, <1>a, <2>1, GeneratedFrame
  <2>2. CASE ~equation_generated
    BY <1>a, <2>2, DecidedFrame, EarlyPc
  <2>. QED
    BY <2>1, <2>2
<1>3. CASE PushCheck
  <2>1. PICK a : SDP!PushAssumptions(a)
    BY <1>3 DEF PushCheck
  <2>2. ContextStack(contexts') /\ contexts'[1] = contexts[1]
    BY <1>0, <2>1, SolverSteps
  <2>3. pc = "localize" /\ pc' = "check" /\ UNCHANGED <<checker, properties, verifier>>
    BY <1>3 DEF PushCheck
  <2>. QED
    BY <1>a, <2>2, <2>3 DEF Converting, DecidedEarly
<1>4. CASE Check
  <2>1. /\ pc = "check" /\ pc' \in {"localize", "aborted"}
        /\ SDP!Solve(Assignment) /\ UNCHANGED <<checker, properties, verifier>>
    BY <1>4 DEF Check, Decide
  <2>2. ContextStack(contexts') /\ contexts'[1] = contexts[1]
    BY <1>0, <2>1, SolverSteps
  <2>. QED
    BY <1>a, <2>1, <2>2 DEF Converting, DecidedEarly
<1>5. CASE ClearAssumptions
  <2>1. /\ pc = "localize" /\ pc' = AfterLocalization
        /\ SDP!Pop /\ UNCHANGED <<checker, properties, verifier>>
    BY <1>5 DEF ClearAssumptions
  <2>2. ContextStack(contexts') /\ contexts'[1] = contexts[1]
    BY <1>0, <2>1, SolverSteps
  <2>. QED
    BY <1>a, <2>1, <2>2 DEF Converting, DecidedEarly, AfterLocalization
<1>6. CASE FoundStopOnFail \/ FoundAllProperties \/ FoundAllPropertiesWithTraceStorage
             \/ FoundCoverGoals \/ FoundAllPropertiesWithFaultLocalization
  <2>1. /\ pc = "found" /\ pc' \in {"report", "call", "aborted", "store"}
        /\ UNCHANGED <<checker, properties, verifier, contexts>>
    BY <1>6 DEF FoundStopOnFail, FoundAllProperties, FoundCoverGoals, solver,
                FoundAllPropertiesWithTraceStorage,
                FoundAllPropertiesWithFaultLocalization
  <2>2. ~DecidedEarly
    BY <2>1 DEF DecidedEarly
  <2>. QED
    BY <1>0, <1>a, <2>1, <2>2 DEF Converting
<1>7. CASE StoreAndLocalize
  <2>1. /\ pc = "store" /\ UNCHANGED <<checker, properties, verifier, contexts>>
        /\ pc' \in {"call", "aborted", AfterLocalization, "localize"}
    BY <1>7, Zenon DEF StoreAndLocalize, StartLocalization, solver
  <2>2. ~DecidedEarly
    BY <2>1 DEF DecidedEarly
  <2>. QED
    BY <1>0, <1>a, <2>1, <2>2 DEF Converting, AfterLocalization
<1>8. CASE Report
  <2>1. /\ pc = "report" /\ UNCHANGED <<checker, properties, verifier, contexts>>
        /\ \/ pc' \in {"done", "aborted"}
           \/ pc' \in {AfterLocalization, "localize"} /\ verifier \in StopOnFail
    BY <1>8 DEF Report, StartLocalization, solver
  <2>. QED
    BY <1>0, <1>a, <2>1 DEF Converting, AfterLocalization
<1>9. CASE CallAgain
  <2>1. /\ pc = "report" /\ UNCHANGED <<checker, properties, verifier, contexts>>
        /\ pc' = "call" /\ called_again'
    BY <1>9 DEF CallAgain, solver
  <2>. QED
    BY <1>0, <1>a, <2>1 DEF Converting
<1>10. CASE Finished
  <2>1. /\ pc \in {"done", "aborted"} /\ pc' = pc
        /\ UNCHANGED <<checker, properties, verifier, contexts>>
    BY <1>10 DEF Finished, vars, solver
  <2>. QED
    BY <1>0, <1>a, <2>1 DEF Converting
<1>. QED
  BY <1>1, <1>2, <1>3, <1>4, <1>5, <1>6, <1>7, <1>8, <1>9, <1>10,
     PropagateFatalAssertionsChecker DEF Next, Verify

\* A stuttering step changes nothing.
LEMMA StutterChecker == ASSUME CheckerInv, UNCHANGED vars PROVE CheckerInv'
BY DEF vars, checker, solver, CheckerInv, FailuresAreReal, NotCalled, ToConvert,
       ToConvertAssertions, DecidedEarly, GoalsAreViolations

\* Every step preserves the invariant.
LEMMA CheckerStep == CheckerInv /\ [Next]_vars => CheckerInv'
BY GenerateEquationChecker, ConvertWithoutAssertionsChecker,
   ConvertAssertionsChecker, ConvertGoalsChecker, RunPropertyDeciderChecker,
   OtherStepsChecker, StutterChecker

(***************************************************************************)
(* A property a verifier reports as FAIL is violated by an execution of the *)
(* program, with every verifier, also when the fault localizer leaves       *)
(* contexts behind and the solver gives up on the way.                     *)
(***************************************************************************)
THEOREM FailuresProved == Spec => []FailuresAreReal
<1>1. CheckerInv => FailuresAreReal
  BY DEF CheckerInv
<1>. QED
  BY <1>1, CheckerStep, InitChecker, PTL DEF Spec

-----------------------------------------------------------------------------
(* Passes are justified.  A violation of a property that is still open stays    *)
(* among the solutions of the decision procedure, and meets the goal of the     *)
(* property; when there are no solutions left, no open property can be violated. *)
(* Contexts the fault localizer leaves behind exclude solutions, and after that *)
(* no answer counts any more if the verifier stops.                             *)

PassesAreJustified ==
  \A p \in DOMAIN properties : properties[p] = "PASS" => ~Violable(equation, p)

\* Every violation is among the solutions and falsifies the handle.
ViolationsAreConsidered ==
  /\ CompleteHandles(equation)
  /\ \A k \in Asserts(equation), v \in Assignment :
       Violates(equation, v, k) => v \in AllContexts(contexts)

NoneUnknown == \A p \in DOMAIN properties : properties[p] # "UNKNOWN"

OpenViolationsAreGoals ==
  \A p \in DOMAIN properties : properties[p] = "UNKNOWN" =>
    \A k \in Asserts(equation), v \in Assignment :
      equation[k].property_id = p /\ Violates(equation, v, k) =>
        /\ v \in AllContexts(contexts)
        /\ p \in DOMAIN goal_map /\ v \in goal_map[p]

\* The first call of the checker has not returned.
FirstCall ==
  \/ pc \in Converting
  \/ pc = "call" /\ ~called_again /\ ~equation_generated

\* The verifier stops without another call of the checker.
Stopping ==
  /\ verifier \in StopOnFail /\ progress # "DONE"
  /\ pc \in {"localize", "check", "done", "aborted"}

PassInv ==
  /\ CheckerInv
  /\ verifier \in Verifiers
  /\ pc # "store"
  /\ pc \in {"localize", "check"} => verifier \in StopOnFail
  /\ PassesAreJustified
  /\ FirstCall => progress = "none"
  /\ pc = "convert_goals" => ViolationsAreConsidered
  /\ equation_generated =>
       /\ progress = "DONE" /\ pc # "done" => NoneUnknown
       /\ OpenViolationsAreGoals \/ Stopping

\* Initially nothing has passed.
LEMMA InitPass == Init => PassInv
BY InitChecker DEF Init, PassInv, FirstCall, Converting, PassesAreJustified

\* generate_equation when all properties were decided before: nothing changes.
LEMMA GenerateAgain ==
  ASSUME CheckerInv, GenerateEquation, DecidedEarly
  PROVE  /\ equation' = equation /\ pc' = "report"
         /\ DOMAIN properties' = DOMAIN properties
         /\ \A p \in DOMAIN properties : properties'[p] = properties[p]
<1>1. called_again
  BY DEF GenerateEquation, DecidedEarly
<1>2. equation' = equation /\ properties' = PropertiesOf(equation)
  BY <1>1 DEF GenerateEquation
<1>3. \A p \in DOMAIN properties : properties[p] \notin {"NOT_CHECKED", "UNKNOWN"}
  BY DEF DecidedEarly, has_properties_to_check, is_property_to_check
<1>4. /\ DOMAIN properties' = DOMAIN properties
      /\ \A p \in DOMAIN properties : properties'[p] = properties[p]
  BY <1>2, <1>3, GeneratedStatus, Zenon DEF DecidedEarly, StatusOr
<1>5. ~has_properties_to_check(properties')
  BY <1>3, <1>4 DEF has_properties_to_check, is_property_to_check
<1>6. pc' = "report"
  BY <1>5 DEF GenerateEquation
<1>. QED
  BY <1>2, <1>4, <1>6

\* Calls of the checker and the conversion of the equation.
LEMMA GenerateEquationPass == ASSUME PassInv, GenerateEquation PROVE PassInv'
<1>1. CheckerInv'
  BY GenerateEquationChecker DEF PassInv
<1>2. /\ pc = "call" /\ ~equation_generated /\ ~equation_generated'
      /\ verifier' = verifier
      /\ \/ pc' = "convert" /\ progress' = progress
         \/ pc' = "report"
  BY DEF GenerateEquation
<1>3. /\ FirstCall' => progress' = "none"
      /\ PassesAreJustified'
  <2>1. CASE NotCalled
    <3>1. FirstCall /\ ~called_again
      BY <1>2, <2>1 DEF FirstCall, NotCalled
    <3>2. FirstCall' => progress' = "none"
      BY <1>2, <3>1 DEF PassInv, FirstCall, Converting
    <3>3. properties' = PropertiesOf(equation')
      BY DEF GenerateEquation
    <3>4. ASSUME NEW p \in DOMAIN properties', properties'[p] = "PASS"
          PROVE  ~Violable(equation', p)
      <4>. DEFINE eq == equation'
      <4>1. properties' = PropertiesOf(eq)
        BY <3>3
      <4>. HIDE DEF eq
      <4>2. p \notin PropertyIds(eq)
        BY <2>1, <3>4, <4>1, GeneratedStatus, Zenon DEF NotCalled, StatusOr
      <4>3. ~Violable(eq, p)
        BY <4>2 DEF Violable, PropertyIds
      <4>. QED
        BY <4>3 DEF eq
    <3>. QED
      BY <3>2, <3>4 DEF PassesAreJustified
  <2>2. CASE DecidedEarly
    <3>1. /\ equation' = equation /\ pc' = "report"
          /\ DOMAIN properties' = DOMAIN properties
          /\ \A p \in DOMAIN properties : properties'[p] = properties[p]
      BY <2>2, GenerateAgain DEF PassInv
    <3>. QED
      BY <3>1 DEF PassInv, PassesAreJustified, FirstCall, Converting
  <2>. QED
    BY <1>2, <2>1, <2>2 DEF PassInv, CheckerInv, ToConvert, ToConvertAssertions
<1>. QED
  BY <1>1, <1>2, <1>3 DEF PassInv

\* convert_without_assertions leaves the meaning of the equation.
LEMMA ConvertWithoutAssertionsPass ==
  ASSUME PassInv, ConvertWithoutAssertions PROVE PassInv'
<1>1. CheckerInv'
  BY ConvertWithoutAssertionsChecker DEF PassInv
<1>2. /\ pc = "convert" /\ pc' = "convert_assertions" /\ progress' = progress
      /\ equation' = convert_without_assertions(equation)
      /\ properties' = properties /\ verifier' = verifier
      /\ equation_generated' = equation_generated
  BY DEF ConvertWithoutAssertions
<1>3. ~equation_generated /\ equation \in Seq(Step) /\ progress = "none"
  BY <1>2 DEF PassInv, CheckerInv, Converting, FirstCall
<1>4. SameSteps(equation, equation')
  BY <1>2, <1>3, ConvertedWithoutAssertions
<1>5. \A p : Violable(equation', p) <=> Violable(equation, p)
  BY <1>3, <1>4, SameMeaning
<1>6. PassesAreJustified'
  BY <1>2, <1>5 DEF PassInv, PassesAreJustified
<1>. QED
  BY <1>1, <1>2, <1>3, <1>6 DEF PassInv

\* After convert_assertions every violation is considered.
LEMMA ConvertAssertionsPass ==
  ASSUME PassInv, ConvertAssertions PROVE PassInv'
<1>. DEFINE e == AssertionsConstraint(equation, TRUE)
            d == convert_assertions(equation, TRUE)
<1>1. CheckerInv'
  BY ConvertAssertionsChecker DEF PassInv
<1>2. /\ pc = "convert_assertions" /\ pc' = "convert_goals" /\ equation' = d
      /\ SDP!SetTo(e, TRUE) /\ properties' = properties /\ progress' = progress
      /\ verifier' = verifier /\ equation_generated' = equation_generated
  BY Zenon DEF ConvertAssertions
<1>3. /\ ~equation_generated /\ ToConvertAssertions /\ equation \in Seq(Step)
      /\ ContextStack(contexts) /\ progress = "none"
  BY <1>2 DEF PassInv, CheckerInv, Converting, NotCalled, ToConvert, DecidedEarly,
              FirstCall
<1>4. e \in Expr
  BY Zenon DEF AssertionsConstraint
<1>5. contexts[1] \in SUBSET Assignment /\ \A v \in contexts[1] : Execution(equation, v)
  BY <1>3, ConjunctionInRoot DEF ToConvertAssertions
<1>6. /\ SameSteps(equation, d) /\ CompleteHandles(d)
      /\ \A k \in Asserts(equation), v \in Assignment :
           Violates(equation, v, k) => v \in e
  BY <1>3, <1>5, ConvertedAssertions, Zenon DEF ToConvertAssertions
<1>7. /\ Asserts(d) = Asserts(equation)
      /\ \A v, k : k \in Asserts(equation) =>
           (Violates(d, v, k) <=> Violates(equation, v, k))
      /\ \A p : Violable(d, p) <=> Violable(equation, p)
  BY <1>3, <1>6, SameMeaning, Zenon DEF Asserts
<1>. HIDE DEF e, d
<1>8. AllContexts(contexts') = contexts[1] \cap e
  BY <1>2, <1>3, <1>4, SolverSteps, ConjunctionInRoot, Zenon DEF ToConvertAssertions
<1>9. ASSUME NEW k \in Asserts(d), NEW v \in Assignment, Violates(d, v, k)
      PROVE  v \in AllContexts(contexts')
  <2>1. Violates(equation, v, k) /\ v \in e
    BY <1>6, <1>7, <1>9
  <2>2. v \in contexts[1]
    BY <1>3, <2>1 DEF ToConvertAssertions, Violates
  <2>. QED
    BY <1>8, <2>1, <2>2
<1>10. ViolationsAreConsidered'
  BY <1>2, <1>6, <1>9 DEF ViolationsAreConsidered
<1>11. PassesAreJustified'
  BY <1>2, <1>7 DEF PassInv, PassesAreJustified
<1>. QED
  BY <1>1, <1>2, <1>3, <1>10, <1>11 DEF PassInv

\* The violations of the properties that are open meet their goals.
LEMMA ConvertGoalsPass == ASSUME PassInv, ConvertGoals PROVE PassInv'
<1>1. CheckerInv'
  BY ConvertGoalsChecker DEF PassInv
<1>2. /\ pc = "convert_goals" /\ pc' = "run" /\ equation' = equation
      /\ contexts' = contexts /\ progress' = progress /\ verifier' = verifier
      /\ properties' = PropertiesWithGoals(properties, equation)
      /\ goal_map' = Goals(properties, equation)
  BY DEF ConvertGoals, solver
<1>3. ViolationsAreConsidered /\ progress = "none"
  BY <1>2 DEF PassInv, FirstCall, Converting
<1>4. PassesAreJustified'
  BY <1>2 DEF PassInv, PassesAreJustified, PropertiesWithGoals, StatusOr
<1>5. ASSUME NEW p \in DOMAIN properties', properties'[p] = "UNKNOWN",
             NEW k \in Asserts(equation), NEW v \in Assignment,
             equation[k].property_id = p, Violates(equation, v, k)
      PROVE  /\ v \in AllContexts(contexts)
             /\ p \in DOMAIN goal_map' /\ v \in goal_map'[p]
  <2>1. v \in AllContexts(contexts) /\ v \notin equation[k].cond_handle
    BY <1>3, <1>5 DEF ViolationsAreConsidered, CompleteHandles
  <2>2. p \in PropertyIds(equation) /\ p \in DOMAIN properties
    BY <1>2, <1>5 DEF PropertyIds, PropertiesWithGoals
  <2>3. is_property_to_check(properties[p])
    BY <1>2, <1>5, <2>2
    DEF PropertiesWithGoals, GoalIds, is_property_to_check, StatusOr
  <2>4. p \in GoalIds(properties, equation)
    BY <2>2, <2>3 DEF GoalIds
  <2>. QED
    BY <1>2, <1>5, <2>1, <2>4 DEF Goals
<1>6. OpenViolationsAreGoals'
  BY <1>2, <1>5 DEF OpenViolationsAreGoals
<1>. QED
  BY <1>1, <1>2, <1>3, <1>4, <1>6 DEF PassInv, FirstCall, Converting

\* run_property_decider: D_UNSATISFIABLE says that no open property is violated.
LEMMA RunPropertyDeciderPass ==
  ASSUME PassInv, RunPropertyDecider PROVE PassInv'
<1>1. CheckerInv'
  BY RunPropertyDeciderChecker DEF PassInv
<1>2. /\ pc = "solve" /\ SDP!Solve(Assignment) /\ UNCHANGED checker
      /\ pc' \in {"found", "report", "aborted"} /\ verifier' = verifier
      /\ properties' = update_properties_status_from_goals(
                          properties, goal_map, result', model', TRUE)
      /\ progress' = IF result' = "D_SATISFIABLE" THEN "FOUND_FAIL" ELSE "DONE"
  BY DEF RunPropertyDecider, Decide
<1>3. /\ equation_generated /\ ContextStack(contexts)
      /\ OpenViolationsAreGoals /\ PassesAreJustified
  BY <1>2 DEF PassInv, CheckerInv, NotCalled, ToConvert, ToConvertAssertions,
              DecidedEarly, Stopping
<1>4. /\ AllContexts(contexts') = AllContexts(contexts)
      /\ result' = "D_UNSATISFIABLE" => AllContexts(contexts) = {}
      /\ result' \in {"D_SATISFIABLE", "D_UNSATISFIABLE", "D_ERROR"}
  BY <1>2, <1>3, SolverSteps DEF SDP!Solve
<1>5. equation' = equation /\ equation_generated' /\ goal_map' = goal_map
  BY <1>2, <1>3 DEF checker
<1>6. /\ DOMAIN properties' = DOMAIN properties
      /\ \A p \in DOMAIN properties :
           /\ properties'[p] = "PASS" =>
                \/ properties[p] = "PASS"
                \/ properties[p] = "UNKNOWN" /\ result' = "D_UNSATISFIABLE"
           /\ properties'[p] = "UNKNOWN" =>
                properties[p] = "UNKNOWN" /\ result' = "D_SATISFIABLE"
  BY <1>2, <1>4 DEF update_properties_status_from_goals, Replace, StatusOr
<1>7. ASSUME NEW p \in DOMAIN properties', properties'[p] = "PASS"
      PROVE  ~Violable(equation, p)
  <2>1. CASE properties[p] = "PASS"
    BY <1>3, <1>6, <2>1 DEF PassesAreJustified
  <2>2. CASE properties[p] = "UNKNOWN" /\ result' = "D_UNSATISFIABLE"
    BY <1>3, <1>4, <1>6, <2>2 DEF OpenViolationsAreGoals, Violable
  <2>. QED
    BY <1>6, <1>7, <2>1, <2>2
<1>8. PassesAreJustified'
  BY <1>5, <1>7 DEF PassesAreJustified
<1>9. progress' = "DONE" => NoneUnknown'
  BY <1>2, <1>6, Zenon DEF NoneUnknown
<1>10. OpenViolationsAreGoals'
  BY <1>3, <1>4, <1>5, <1>6 DEF OpenViolationsAreGoals
<1>. QED
  BY <1>1, <1>2, <1>5, <1>8, <1>9, <1>10 DEF PassInv, FirstCall, Converting

\* The new constraint excludes no violation of an open property.
LEMMA AddConstraintFromGoalsPass ==
  ASSUME PassInv, AddConstraintFromGoals, CheckerInv' PROVE PassInv'
<1>. DEFINE e == ConstraintFromGoals(goal_map, properties)
<1>1. /\ pc = "run" /\ pc' = "solve" /\ UNCHANGED <<checker, properties>>
      /\ SDP!SetTo(e, TRUE) /\ verifier' = verifier /\ progress' = progress
  BY Zenon DEF AddConstraintFromGoals
<1>2. /\ equation_generated /\ ContextStack(contexts)
      /\ OpenViolationsAreGoals /\ PassesAreJustified
      /\ progress = "DONE" => NoneUnknown
  BY <1>1 DEF PassInv, CheckerInv, NotCalled, ToConvert, ToConvertAssertions,
              DecidedEarly, Stopping
<1>3. e \in Expr
  BY DEF ConstraintFromGoals
<1>4. \A p \in DOMAIN goal_map, v \in Assignment :
        properties[p] = "UNKNOWN" /\ v \in goal_map[p] => v \in e
  BY DEF ConstraintFromGoals, is_property_to_check
<1>. HIDE DEF e
<1>5. AllContexts(contexts') = AllContexts(contexts) \cap e
  BY <1>1, <1>2, <1>3, SolverSteps, Zenon
<1>6. /\ equation' = equation /\ equation_generated' /\ goal_map' = goal_map
      /\ properties' = properties
  BY <1>1, <1>2 DEF checker
<1>7. OpenViolationsAreGoals'
  BY <1>2, <1>4, <1>5, <1>6 DEF OpenViolationsAreGoals
<1>8. PassesAreJustified' /\ (progress' = "DONE" => NoneUnknown')
  BY <1>1, <1>2, <1>6 DEF PassesAreJustified, NoneUnknown
<1>. QED
  BY <1>1, <1>6, <1>7, <1>8 DEF PassInv, FirstCall, Converting

\* Steps that leave the verdicts, the goals and the equation alone.
LEMMA PassFrame ==
  ASSUME PassInv, CheckerInv', UNCHANGED <<checker, properties, verifier>>,
         pc' \notin Converting \cup {"store"},
         pc' = "call" => called_again' \/ equation_generated,
         pc' \in {"localize", "check"} => verifier \in StopOnFail,
         pc = "done" => pc' = "done",
         equation_generated =>
           /\ progress' # progress => NoneUnknown
           /\ \/ contexts' = contexts /\ OpenViolationsAreGoals
              \/ NoneUnknown
              \/ Stopping'
  PROVE  PassInv'
<1>1. /\ equation' = equation /\ equation_generated' = equation_generated
      /\ goal_map' = goal_map /\ properties' = properties /\ verifier' = verifier
  BY DEF checker
<1>2. PassesAreJustified' /\ NoneUnknown' = NoneUnknown
  BY <1>1 DEF PassInv, PassesAreJustified, NoneUnknown
<1>3. ~FirstCall' /\ pc' # "convert_goals" /\ pc' # "store"
  BY <1>1 DEF FirstCall, Converting
<1>4. ASSUME equation_generated
      PROVE  /\ progress' = "DONE" /\ pc' # "done" => NoneUnknown'
             /\ OpenViolationsAreGoals' \/ Stopping'
  <2>1. progress' = "DONE" /\ pc' # "done" => NoneUnknown'
    BY <1>2, <1>4 DEF PassInv
  <2>2. CASE contexts' = contexts /\ OpenViolationsAreGoals
    BY <1>1, <2>1, <2>2 DEF OpenViolationsAreGoals
  <2>3. CASE NoneUnknown
    BY <1>1, <2>1, <2>3 DEF OpenViolationsAreGoals, NoneUnknown
  <2>. QED
    BY <1>4, <2>1, <2>2, <2>3
<1>. QED
  BY <1>1, <1>2, <1>3, <1>4 DEF PassInv

\* A pass that is taken back was justified, so there is no violation to miss.
LEMMA PropagateFatalAssertionsPass ==
  ASSUME PassInv, CheckerInv', PropagateFatalAssertions PROVE PassInv'
<1>1. /\ pc = "report" /\ pc' = "done"
      /\ equation' = equation /\ equation_generated' = equation_generated
      /\ goal_map' = goal_map /\ contexts' = contexts /\ verifier' = verifier
      /\ DOMAIN properties' = DOMAIN properties
      /\ \A p \in DOMAIN properties :
           \/ properties'[p] = properties[p]
           \/ properties[p] = "PASS" /\ properties'[p] = "UNKNOWN"
  BY PropagatedStatus DEF checker, solver
<1>2. PassesAreJustified'
  BY <1>1 DEF PassInv, PassesAreJustified
<1>3. equation_generated => OpenViolationsAreGoals'
  <2>. SUFFICES ASSUME equation_generated,
                       NEW p \in DOMAIN properties, properties'[p] = "UNKNOWN",
                       NEW k \in Asserts(equation), NEW v \in Assignment,
                       equation[k].property_id = p, Violates(equation, v, k)
                PROVE  /\ v \in AllContexts(contexts)
                       /\ p \in DOMAIN goal_map /\ v \in goal_map[p]
    BY <1>1 DEF OpenViolationsAreGoals
  <2>1. Violable(equation, p)
    BY DEF Violable
  <2>2. properties[p] = "UNKNOWN"
    BY <1>1, <2>1 DEF PassInv, PassesAreJustified
  <2>. QED
    BY <1>1, <2>2 DEF PassInv, Stopping, OpenViolationsAreGoals
<1>. QED
  BY <1>1, <1>2, <1>3 DEF PassInv, FirstCall, Converting

\* The other steps: only the localizer touches the contexts, and only in a
\* verifier that is about to stop.
LEMMA OtherStepsPass ==
  ASSUME PassInv, "all_properties_with_fault_localization" \notin Verifiers,
         Next, CheckerInv',
         ~GenerateEquation, ~ConvertWithoutAssertions, ~ConvertAssertions,
         ~ConvertGoals, ~RunPropertyDecider, ~AddConstraintFromGoals
  PROVE  PassInv'
<1>1. CASE Call
  <2>1. /\ pc = "call" /\ equation_generated /\ pc' \in {"run", "report"}
        /\ UNCHANGED <<checker, properties, verifier, contexts>>
        /\ progress' # progress => ~has_properties_to_check(properties)
    BY <1>1 DEF Call, solver
  <2>2. progress' # progress => NoneUnknown
    BY <2>1 DEF has_properties_to_check, is_property_to_check, NoneUnknown
  <2>3. OpenViolationsAreGoals
    BY <2>1 DEF PassInv, Stopping
  <2>. QED
    BY <2>1, <2>2, <2>3, PassFrame DEF Converting
<1>2. CASE PushCheck \/ Check \/ ClearAssumptions
  <2>1. /\ pc \in {"localize", "check"} /\ progress' = progress
        /\ pc' \in {"localize", "check", "aborted", AfterLocalization}
        /\ UNCHANGED <<checker, properties, verifier>>
    BY <1>2 DEF PushCheck, Check, Decide, ClearAssumptions
  <2>2. verifier \in StopOnFail /\ verifier' = verifier
    BY <2>1 DEF PassInv
  <2>3. pc' \in {"localize", "check", "aborted", "done"}
    BY <2>1, <2>2 DEF AfterLocalization
  <2>4. equation_generated => NoneUnknown \/ Stopping'
    BY <2>1, <2>2, <2>3 DEF PassInv, Stopping
  <2>. QED
    BY <2>1, <2>2, <2>3, <2>4, PassFrame DEF Converting
<1>3. CASE FoundStopOnFail \/ FoundAllProperties \/ FoundAllPropertiesWithTraceStorage
             \/ FoundCoverGoals
  <2>1. /\ pc = "found" /\ pc' \in {"report", "call", "aborted"}
        /\ UNCHANGED <<checker, properties, verifier, contexts, progress>>
    BY <1>3 DEF FoundStopOnFail, FoundAllProperties, FoundCoverGoals, solver,
                FoundAllPropertiesWithTraceStorage
  <2>2. equation_generated
    BY <2>1 DEF PassInv, CheckerInv, NotCalled, ToConvert, ToConvertAssertions,
                DecidedEarly
  <2>3. OpenViolationsAreGoals
    BY <2>1, <2>2 DEF PassInv, Stopping
  <2>. QED
    BY <2>1, <2>2, <2>3, PassFrame DEF Converting
<1>4. CASE FoundAllPropertiesWithFaultLocalization \/ StoreAndLocalize
  BY <1>4 DEF FoundAllPropertiesWithFaultLocalization, StoreAndLocalize, PassInv
<1>5. CASE Report
  <2>1. /\ pc = "report"
        /\ UNCHANGED <<checker, properties, verifier, contexts, progress>>
        /\ \/ pc' \in {"done", "aborted"}
           \/ pc' \in {AfterLocalization, "localize"} /\ verifier \in StopOnFail
    BY <1>5 DEF Report, StartLocalization, solver
  <2>2. equation_generated => OpenViolationsAreGoals
    BY <2>1 DEF PassInv, Stopping
  <2>. QED
    BY <2>1, <2>2, PassFrame DEF Converting, AfterLocalization
<1>6. CASE CallAgain
  <2>1. /\ pc = "report" /\ progress = "DONE" /\ pc' = "call" /\ called_again'
        /\ UNCHANGED <<checker, properties, verifier, contexts, progress>>
    BY <1>6 DEF CallAgain, solver
  <2>2. equation_generated => NoneUnknown
    BY <2>1 DEF PassInv
  <2>. QED
    BY <2>1, <2>2, PassFrame DEF Converting
<1>7. CASE Finished
  <2>1. /\ pc \in {"done", "aborted"} /\ pc' = pc
        /\ UNCHANGED <<checker, properties, verifier, contexts, progress>>
    BY <1>7 DEF Finished, vars, solver
  <2>2. equation_generated => OpenViolationsAreGoals \/ Stopping'
    BY <2>1 DEF PassInv, Stopping
  <2>. QED
    BY <2>1, <2>2, PassFrame DEF Converting
<1>. QED
  BY <1>1, <1>2, <1>3, <1>4, <1>5, <1>6, <1>7, PropagateFatalAssertionsPass
     DEF Next, Verify

\* A stuttering step changes nothing.
LEMMA StutterPass == ASSUME PassInv, CheckerInv', UNCHANGED vars PROVE PassInv'
BY DEF vars, checker, solver, PassInv, PassesAreJustified, FirstCall, NoneUnknown,
       ViolationsAreConsidered, OpenViolationsAreGoals, Stopping

\* Every step preserves the invariant.
LEMMA PassStep ==
  ASSUME "all_properties_with_fault_localization" \notin Verifiers
  PROVE  PassInv /\ [Next]_vars => PassInv'
<1>1. PassInv => CheckerInv
  BY DEF PassInv
<1>. QED
  BY <1>1, CheckerStep, GenerateEquationPass, ConvertWithoutAssertionsPass,
     ConvertAssertionsPass, ConvertGoalsPass, RunPropertyDeciderPass,
     AddConstraintFromGoalsPass, OtherStepsPass, StutterPass

(***************************************************************************)
(* A property that is PASS is not violated by any execution, and one that   *)
(* is FAIL is, with every verifier except the one that localizes the fault  *)
(* of each property and then looks for more failures                       *)
(* (all_properties_verifier_with_fault_localizationt): the contexts its     *)
(* localizer leaves behind make the decision procedure miss violations.     *)
(***************************************************************************)
THEOREM VerdictsProved ==
  "all_properties_with_fault_localization" \notin Verifiers =>
    (Spec => []VerdictsCorrect)
<1>. SUFFICES ASSUME "all_properties_with_fault_localization" \notin Verifiers
              PROVE  Spec => []VerdictsCorrect
  OBVIOUS
<1>1. PassInv /\ [Next]_vars => PassInv'
  BY PassStep
<1>2. PassInv => VerdictsCorrect
  BY DEF PassInv, CheckerInv, VerdictsCorrect, PassesAreJustified
<1>. QED
  BY <1>1, <1>2, InitPass, PTL DEF Spec

(***************************************************************************)
(* No step of a verifier, of the checker or of the fault localizer revises  *)
(* a decided status, because every update of the properties goes through    *)
(* |= or replaces NOT_CHECKED or UNKNOWN, except for the passes that        *)
(* propagate_fatal_assertions takes back when there is a failure.           *)
(***************************************************************************)
THEOREM DecidedForGoodProved == Spec => DecidedForGood
<1>. DEFINE Kept == \A p \in DOMAIN properties :
                      properties[p] \in Decided =>
                        \/ properties'[p] = properties[p]
                        \/ /\ pc = "report" /\ verifier = "all_properties_with_trace_storage"
                           /\ properties[p] = "PASS" /\ properties'[p] = "UNKNOWN"
                           /\ SomeProperty(properties, "FAIL")
<1>1. Next => Kept
  <2>1. ASSUME GenerateEquation PROVE Kept
    <3>1. properties' = PropertiesOf(equation')
      BY <2>1 DEF GenerateEquation
    <3>. DEFINE eq == equation'
    <3>2. properties' = PropertiesOf(eq)
      BY <3>1
    <3>. HIDE DEF eq
    <3>. QED
      BY <3>2, GeneratedStatus, Zenon DEF Decided, StatusOr
  <2>2. ASSUME ConvertGoals PROVE Kept
    BY <2>2 DEF ConvertGoals, PropertiesWithGoals, StatusOr, Decided
  <2>3. ASSUME RunPropertyDecider PROVE Kept
    <3>1. properties' = update_properties_status_from_goals(
                          properties, goal_map, result', model', TRUE)
      BY <2>3 DEF RunPropertyDecider
    <3>. QED
      BY <3>1 DEF update_properties_status_from_goals, Replace, StatusOr, Decided
  <2>5. ASSUME PropagateFatalAssertions PROVE Kept
    BY <2>5, PropagatedStatus DEF SomeProperty
  <2>4. ASSUME Next, ~GenerateEquation, ~ConvertGoals, ~RunPropertyDecider,
               ~PropagateFatalAssertions
        PROVE  properties' = properties
    BY <2>4, Zenon DEF Next, Verify, ConvertWithoutAssertions, ConvertAssertions, Call,
       AddConstraintFromGoals, PushCheck, Check, ClearAssumptions, FoundStopOnFail,
       FoundAllProperties, FoundAllPropertiesWithTraceStorage, FoundCoverGoals,
       FoundAllPropertiesWithFaultLocalization, StoreAndLocalize, Report, CallAgain, Finished,
       vars
  <2>. QED
    BY <2>1, <2>2, <2>3, <2>4, <2>5
<1>. QED
  BY <1>1, PTL DEF Spec, DecidedForGood

-----------------------------------------------------------------------------
(* Calls after DONE.  When the checker returns DONE no property is left to     *)
(* check, and this is what a further call looks at first.                      *)

NoneNotChecked == \A p \in DOMAIN properties : properties[p] # "NOT_CHECKED"

PropertiesAreAMap == properties = [p \in DOMAIN properties |-> properties[p]]

\* Where a verifier can be after the checker has returned DONE.
AfterDone ==
  \/ pc \in {"report", "done", "aborted"}
  \/ pc = "call" /\ called_again
  \/ pc \in {"localize", "check"} /\ verifier \in StopOnFail

DoneInv ==
  /\ CheckerInv
  /\ PropertiesAreAMap
  /\ pc # "call" \/ called_again \/ equation_generated => NoneNotChecked
  /\ called_again => progress = "DONE"
  /\ progress = "DONE" =>
       AfterDone /\ (pc # "done" => ~has_properties_to_check(properties))

\* Initially the checker has not been called.
LEMMA InitDone == Init => DoneInv
BY InitChecker DEF Init, DoneInv, PropertiesAreAMap

\* The steps that change properties.
LEMMA GenerateEquationDone ==
  ASSUME DoneInv, GenerateEquation
  PROVE  /\ DoneInv'
         /\ called_again => properties' = properties /\ progress' = "DONE"
<1>1. CheckerInv'
  BY GenerateEquationChecker DEF DoneInv
<1>2. /\ pc = "call" /\ called_again' = called_again /\ ~equation_generated
      /\ \/ pc' = "convert" /\ progress' = progress
         \/ /\ pc' = "report" /\ progress' = "DONE"
            /\ ~has_properties_to_check(properties')
  BY DEF GenerateEquation
<1>3. NoneNotChecked'
  <2>. DEFINE eq == equation'
  <2>1. properties' = PropertiesOf(eq)
    BY DEF GenerateEquation
  <2>. HIDE DEF eq
  <2>. QED
    BY <2>1, GeneratedStatus, Zenon DEF NoneNotChecked, StatusOr
<1>4. PropertiesAreAMap'
  BY DEF GenerateEquation, PropertiesOf, update_status_of_not_checked_properties, Replace,
         PropertiesAreAMap
<1>5. CASE called_again
  <2>1. DecidedEarly
    BY <1>2, <1>5 DEF DoneInv, CheckerInv, NotCalled, ToConvert, ToConvertAssertions
  <2>2. /\ pc' = "report" /\ DOMAIN properties' = DOMAIN properties
        /\ \A p \in DOMAIN properties : properties'[p] = properties[p]
    BY <2>1, GenerateAgain DEF DoneInv
  <2>3. properties' = properties
    BY <1>4, <2>2 DEF DoneInv, PropertiesAreAMap
  <2>. QED
    BY <1>1, <1>2, <1>3, <1>4, <2>2, <2>3 DEF DoneInv, AfterDone
<1>6. CASE ~called_again
  <2>1. progress # "DONE"
    BY <1>2, <1>6 DEF DoneInv, AfterDone
  <2>. QED
    BY <1>1, <1>2, <1>3, <1>4, <1>6, <2>1 DEF DoneInv, AfterDone
<1>. QED
  BY <1>5, <1>6

\* The first call goes on.
LEMMA ConvertGoalsDone == ASSUME DoneInv, ConvertGoals PROVE DoneInv' /\ ~called_again
<1>1. CheckerInv'
  BY ConvertGoalsChecker DEF DoneInv
<1>2. /\ pc = "convert_goals" /\ pc' = "run" /\ progress' = progress
      /\ properties' = PropertiesWithGoals(properties, equation)
      /\ called_again' = called_again
  BY DEF ConvertGoals
<1>3. NoneNotChecked /\ progress # "DONE" /\ ~called_again
  BY <1>2 DEF DoneInv, AfterDone
<1>4. NoneNotChecked' /\ PropertiesAreAMap'
  BY <1>2, <1>3 DEF NoneNotChecked, PropertiesWithGoals, StatusOr, PropertiesAreAMap
<1>. QED
  BY <1>1, <1>2, <1>3, <1>4 DEF DoneInv

\* No property is UNKNOWN when run_property_decider returns DONE.
LEMMA RunPropertyDeciderDone ==
  ASSUME DoneInv, RunPropertyDecider PROVE DoneInv' /\ ~called_again
<1>1. CheckerInv'
  BY RunPropertyDeciderChecker DEF DoneInv
<1>2. /\ pc = "solve" /\ SDP!Solve(Assignment) /\ called_again' = called_again
      /\ pc' \in {"found", "report", "aborted"}
      /\ pc' = "found" => result' = "D_SATISFIABLE"
      /\ properties' = update_properties_status_from_goals(
                          properties, goal_map, result', model', TRUE)
      /\ progress' = IF result' = "D_SATISFIABLE" THEN "FOUND_FAIL" ELSE "DONE"
  BY DEF RunPropertyDecider, Decide
<1>3. NoneNotChecked /\ ~called_again
  BY <1>2 DEF DoneInv, AfterDone
<1>4. result' \in {"D_SATISFIABLE", "D_UNSATISFIABLE", "D_ERROR"}
  BY <1>2 DEF SDP!Solve
<1>5. /\ NoneNotChecked' /\ PropertiesAreAMap'
      /\ result' # "D_SATISFIABLE" => NoneUnknown'
  BY <1>2, <1>3, <1>4 DEF NoneNotChecked, NoneUnknown, Replace, StatusOr, PropertiesAreAMap,
                          update_properties_status_from_goals
<1>6. result' # "D_SATISFIABLE" => ~has_properties_to_check(properties')
  BY <1>5 DEF has_properties_to_check, is_property_to_check, NoneNotChecked,
              NoneUnknown
<1>. QED
  BY <1>1, <1>2, <1>3, <1>5, <1>6, Zenon DEF DoneInv, AfterDone

\* The verifier is done after the passes are taken back.
LEMMA PropagateFatalAssertionsDone ==
  ASSUME DoneInv, PropagateFatalAssertions PROVE DoneInv'
<1>1. CheckerInv'
  BY PropagateFatalAssertionsChecker DEF DoneInv
<1>2. NoneNotChecked' /\ PropertiesAreAMap'
  BY PropagatedStatus DEF DoneInv, NoneNotChecked, PropertiesAreAMap
<1>. QED
  BY <1>1, <1>2, PropagatedStatus DEF DoneInv, AfterDone

\* The other steps leave the properties alone, and progress when it is DONE.
LEMMA OtherStepsDone ==
  ASSUME DoneInv, Next, CheckerInv',
         ~GenerateEquation, ~ConvertGoals, ~RunPropertyDecider, ~PropagateFatalAssertions
  PROVE  /\ DoneInv' /\ properties' = properties
         /\ progress = "DONE" => progress' = "DONE"
<1>a. ASSUME properties' = properties, verifier' = verifier, progress' = progress,
             equation_generated' = equation_generated,
             pc # "call" \/ called_again \/ equation_generated,
             called_again' => progress = "DONE",
             progress = "DONE" => AfterDone',
             pc = "done" => pc' = "done"
      PROVE  DoneInv'
  BY <1>a DEF DoneInv, NoneNotChecked, PropertiesAreAMap
<1>1. CASE Call
  <2>1. /\ pc = "call" /\ equation_generated /\ equation_generated'
        /\ properties' = properties
        /\ called_again' = called_again
        /\ IF has_properties_to_check(properties)
           THEN pc' = "run" /\ progress' = progress
           ELSE pc' = "report" /\ progress' = "DONE"
    BY <1>1 DEF Call, checker
  <2>2. NoneNotChecked'
    BY <2>1 DEF DoneInv, NoneNotChecked
  <2>. QED
    BY <2>1, <2>2 DEF DoneInv, AfterDone, PropertiesAreAMap
<1>2. CASE PushCheck \/ Check \/ ClearAssumptions
  <2>1. /\ pc \in {"localize", "check"} /\ progress' = progress
        /\ pc' \in {"localize", "check", "aborted", AfterLocalization}
        /\ UNCHANGED <<checker, properties, verifier, called_again>>
    BY <1>2 DEF PushCheck, Check, Decide, ClearAssumptions
  <2>2. progress = "DONE" => verifier \in StopOnFail
    BY <2>1 DEF DoneInv, AfterDone
  <2>. QED
    BY <1>a, <2>1, <2>2 DEF DoneInv, AfterDone, AfterLocalization, checker
<1>3. CASE Report
  <2>1. /\ pc = "report"
        /\ UNCHANGED <<checker, properties, verifier, called_again, progress>>
        /\ \/ pc' \in {"done", "aborted"}
           \/ pc' \in {AfterLocalization, "localize"} /\ verifier \in StopOnFail
    BY <1>3 DEF Report, StartLocalization
  <2>. QED
    BY <1>a, <2>1 DEF DoneInv, AfterDone, AfterLocalization, checker
<1>4. CASE CallAgain
  <2>1. /\ pc = "report" /\ progress = "DONE" /\ pc' = "call" /\ called_again'
        /\ UNCHANGED <<checker, properties, verifier, progress>>
    BY <1>4 DEF CallAgain
  <2>. QED
    BY <1>a, <2>1 DEF AfterDone, checker
<1>5. CASE Finished
  <2>1. /\ pc \in {"done", "aborted"} /\ pc' = pc
        /\ UNCHANGED <<checker, properties, verifier, progress, called_again>>
    BY <1>5 DEF Finished, vars
  <2>. QED
    BY <1>a, <2>1 DEF DoneInv, AfterDone, checker
<1>6. CASE \/ ConvertWithoutAssertions \/ ConvertAssertions \/ AddConstraintFromGoals
           \/ FoundStopOnFail \/ FoundAllProperties
           \/ FoundAllPropertiesWithTraceStorage \/ FoundCoverGoals
           \/ FoundAllPropertiesWithFaultLocalization \/ StoreAndLocalize
  <2>1. /\ pc \in {"convert", "convert_assertions", "run", "found", "store"}
        /\ UNCHANGED <<equation_generated, properties, verifier, progress, called_again>>
    BY <1>6, Zenon DEF ConvertWithoutAssertions, ConvertAssertions, AddConstraintFromGoals,
       FoundStopOnFail, FoundAllProperties, FoundAllPropertiesWithTraceStorage,
       FoundCoverGoals, FoundAllPropertiesWithFaultLocalization, StoreAndLocalize, checker
  <2>2. progress # "DONE" /\ ~called_again
    BY <2>1 DEF DoneInv, AfterDone
  <2>. QED
    BY <1>a, <2>1, <2>2
<1>. QED
  BY <1>1, <1>2, <1>3, <1>4, <1>5, <1>6 DEF Next, Verify

\* Every step preserves the invariant, and after DONE nothing changes until the
\* second call has returned.
LEMMA DoneStep ==
  /\ DoneInv /\ [Next]_vars => DoneInv'
  /\ DoneInv /\ Next /\ called_again /\ pc # "report" =>
       properties' = properties /\ progress' = "DONE"
<1>1. ASSUME DoneInv, Next
      PROVE  /\ DoneInv'
             /\ called_again /\ pc # "report" =>
                  properties' = properties /\ progress' = "DONE"
  <2>1. CheckerInv'
    BY <1>1, CheckerStep DEF DoneInv
  <2>2. called_again => progress = "DONE"
    BY <1>1 DEF DoneInv
  <2>. QED
    BY <1>1, <2>1, <2>2, GenerateEquationDone, ConvertGoalsDone,
       RunPropertyDeciderDone, OtherStepsDone, PropagateFatalAssertionsDone,
       PropagatedStatus
<1>2. ASSUME DoneInv, UNCHANGED vars PROVE DoneInv'
  <2>1. CheckerInv'
    BY <1>2, StutterChecker DEF DoneInv
  <2>. QED
    BY <1>2, <2>1 DEF DoneInv, AfterDone, PropertiesAreAMap, NoneNotChecked, vars, checker
<1>. QED
  BY <1>1, <1>2

(***************************************************************************)
(* "After returning DONE, another call to operator() with the same          *)
(* properties will return DONE and leave the properties' status unchanged"  *)
(* (incremental_goto_checker.h), with every verifier, also when the         *)
(* equation was never converted and is generated again.                    *)
(***************************************************************************)
THEOREM DoneIsStableProved == Spec => DoneIsStable
BY DoneStep, InitDone, PTL DEF Spec, DoneIsStable
-----------------------------------------------------------------------------
(* The overall result.  A verifier gets to its report only with an answer of the *)
(* checker: DONE, and then nothing is left open, or else, for a verifier that    *)
(* stops, FOUND_FAIL, and then a property that was still open is FAIL now,       *)
(* because the last constraint of the decision procedure asks for one.  What    *)
(* propagate_fatal_assertions opens again cannot be violated, and something else *)
(* has FAILed.                                                                   *)

Returned == {"found", "localize", "check", "report", "done"}

ResultInv ==
  /\ DOMAIN properties \subseteq PropertyId
  /\ \A p \in DOMAIN properties : properties[p] \in Status \ {"NOT_REACHABLE"}
  /\ DOMAIN goal_map \subseteq DOMAIN properties
  /\ progress \in {"none", "FOUND_FAIL", "DONE"}
  /\ pc \in Returned => progress # "none"
  /\ pc \in {"report", "done"} /\ verifier \notin StopOnFail => progress = "DONE"
  /\ pc = "solve" =>
       AllContexts(contexts) \subseteq ConstraintFromGoals(goal_map, properties)
  /\ progress = "FOUND_FAIL" => SomeProperty(properties, "FAIL")

OpenWasProven ==
  pc = "done" /\ progress = "DONE" =>
    \A p \in DOMAIN properties :
      is_property_to_check(properties[p]) =>
        /\ verifier = "all_properties_with_trace_storage"
        /\ p \in GotoModelProperties /\ ~Violable(equation, p)
        /\ SomeProperty(properties, "FAIL")

\* Initially the properties of the goto model are NOT_CHECKED.
LEMMA InitResult == Init => ResultInv
<1>. SUFFICES ASSUME Init PROVE ResultInv
  OBVIOUS
<1>1. /\ DOMAIN properties = GotoModelProperties /\ GotoModelProperties \subseteq PropertyId
      /\ \A p \in DOMAIN properties : properties[p] = "NOT_CHECKED"
      /\ DOMAIN goal_map = {} /\ progress = "none" /\ pc = "call"
  BY CheckerAssumption DEF Init
<1>. QED
  BY <1>1 DEF ResultInv, Returned, Status

\* Steps after which the statuses are what they were and the program is not at "solve".
LEMMA ResultFrame ==
  ASSUME ResultInv, UNCHANGED <<properties, goal_map, verifier, progress>>,
         pc' # "solve",
         pc' \in Returned => pc \in Returned,
         pc' \in {"report", "done"} =>
           pc \in {"report", "done"} \/ verifier \in StopOnFail
  PROVE  ResultInv'
BY DEF ResultInv

\* generate_equation adds properties, which are UNKNOWN.
LEMMA GenerateEquationResult ==
  ASSUME ResultInv, CheckerInv, GenerateEquation PROVE ResultInv'
<1>1. PICK eq \in IF called_again THEN {equation} ELSE Equations :
        properties' = PropertiesOf(eq)
  BY DEF GenerateEquation
<1>2. eq \in Seq(Step)
  BY <1>1, CheckerAssumption DEF CheckerInv
<1>3. PropertyIds(eq) \subseteq PropertyId
  <2>1. \A i \in DOMAIN eq : eq[i] \in Step
    BY <1>2
  <2>2. \A i \in DOMAIN eq : eq[i].property_id \in PropertyId
    BY <2>1 DEF Step
  <2>. QED
    BY <2>2 DEF PropertyIds, Asserts
<1>4. /\ DOMAIN properties' = DOMAIN properties \cup PropertyIds(eq)
      /\ \A p \in DOMAIN properties \cup PropertyIds(eq) :
           properties'[p] =
             IF p \in PropertyIds(eq)
             THEN IF p \in DOMAIN properties
                  THEN StatusOr(properties[p], "UNKNOWN") ELSE "UNKNOWN"
             ELSE IF properties[p] = "NOT_CHECKED" THEN "PASS" ELSE properties[p]
  BY <1>1, GeneratedStatus
<1>5. /\ pc = "call" /\ goal_map' = goal_map /\ verifier' = verifier
      /\ \/ pc' = "convert" /\ progress' = progress
         \/ pc' = "report" /\ progress' = "DONE"
  BY DEF GenerateEquation
<1>6. /\ DOMAIN properties' \subseteq PropertyId
      /\ DOMAIN properties \subseteq DOMAIN properties'
  BY <1>3, <1>4 DEF ResultInv
<1>7. \A p \in DOMAIN properties' : properties'[p] \in Status \ {"NOT_REACHABLE"}
  BY <1>4 DEF ResultInv, StatusOr, Status
<1>8. SomeProperty(properties, "FAIL") => SomeProperty(properties', "FAIL")
  BY <1>4 DEF SomeProperty, StatusOr
<1>. QED
  BY <1>5, <1>6, <1>7, <1>8 DEF ResultInv, Returned

\* The goals are those of known properties.
LEMMA ConvertGoalsResult == ASSUME ResultInv, ConvertGoals PROVE ResultInv'
<1>1. /\ properties' = PropertiesWithGoals(properties, equation)
      /\ goal_map' = Goals(properties, equation)
      /\ verifier' = verifier /\ progress' = progress /\ pc' = "run"
  BY DEF ConvertGoals
<1>2. /\ DOMAIN properties' = DOMAIN properties
      /\ \A p \in DOMAIN properties :
           properties'[p] \in {properties[p], StatusOr(properties[p], "UNKNOWN")}
      /\ DOMAIN goal_map' \subseteq DOMAIN properties
  BY <1>1 DEF PropertiesWithGoals, Goals, GoalIds
<1>3. \A p \in DOMAIN properties' : properties'[p] \in Status \ {"NOT_REACHABLE"}
  BY <1>2 DEF ResultInv, StatusOr, Status
<1>4. SomeProperty(properties, "FAIL") => SomeProperty(properties', "FAIL")
  BY <1>2 DEF SomeProperty, StatusOr
<1>. QED
  BY <1>1, <1>2, <1>3, <1>4 DEF ResultInv, Returned

\* The constraint from the goals is among the contexts when the solver is called.
LEMMA AddConstraintFromGoalsResult ==
  ASSUME ResultInv, CheckerInv, AddConstraintFromGoals PROVE ResultInv'
<1>. DEFINE e == ConstraintFromGoals(goal_map, properties)
<1>1. /\ pc' = "solve" /\ goal_map' = goal_map /\ properties' = properties
      /\ SDP!SetTo(e, TRUE) /\ verifier' = verifier /\ progress' = progress
  BY Zenon DEF AddConstraintFromGoals, checker
<1>2. e \in Expr
  BY DEF ConstraintFromGoals
<1>3. AllContexts(contexts') = AllContexts(contexts) \cap e
  <2>. HIDE DEF e
  <2>. QED
    BY <1>1, <1>2, SolverSteps, Zenon DEF CheckerInv
<1>4. AllContexts(contexts') \subseteq ConstraintFromGoals(goal_map', properties')
  <2>1. ConstraintFromGoals(goal_map', properties') = e
    BY <1>1
  <2>. HIDE DEF e
  <2>. QED
    BY <1>3, <2>1
<1>. QED
  BY <1>1, <1>4 DEF ResultInv, Returned

\* A model meets the goal of an open property.
LEMMA RunPropertyDeciderResult ==
  ASSUME ResultInv, CheckerInv, RunPropertyDecider PROVE ResultInv'
<1>1. /\ pc = "solve" /\ SDP!Solve(Assignment) /\ goal_map' = goal_map
      /\ verifier' = verifier
      /\ pc' \in {"found", "report", "aborted"}
      /\ pc' = "report" => result' # "D_SATISFIABLE"
      /\ properties' = update_properties_status_from_goals(
                          properties, goal_map, result', model', TRUE)
      /\ progress' = IF result' = "D_SATISFIABLE" THEN "FOUND_FAIL" ELSE "DONE"
  BY DEF RunPropertyDecider, Decide, checker
<1>2. result' = "D_SATISFIABLE" => model' \in AllContexts(contexts)
  BY <1>1, SolverSteps DEF CheckerInv
<1>3. /\ DOMAIN properties' = DOMAIN properties
      /\ \A p \in DOMAIN properties :
           properties'[p] \in {properties[p], "PASS", "ERROR", "FAIL"}
  BY <1>1 DEF update_properties_status_from_goals, Replace, StatusOr
<1>4. ASSUME result' = "D_SATISFIABLE" PROVE SomeProperty(properties', "FAIL")
  <2>1. PICK p \in DOMAIN goal_map :
          is_property_to_check(properties[p]) /\ model' \in goal_map[p]
    BY <1>1, <1>2, <1>4 DEF ResultInv, ConstraintFromGoals
  <2>2. model' # NoModel
    BY <1>2, <1>4, CheckerAssumption DEF AllContexts
  <2>3. p \in NewlyFailed(properties, goal_map, model') /\ p \in DOMAIN properties
    BY <2>1, <2>2 DEF NewlyFailed, IsTrue, is_property_to_check, ResultInv
  <2>4. properties'[p] = "FAIL"
    BY <1>1, <1>4, <2>1, <2>3 DEF update_properties_status_from_goals, StatusOr,
                                  is_property_to_check
  <2>. QED
    BY <1>3, <2>3, <2>4 DEF SomeProperty
<1>5. \A p \in DOMAIN properties' : properties'[p] \in Status \ {"NOT_REACHABLE"}
  BY <1>3 DEF ResultInv, Status
<1>. QED
  BY <1>1, <1>3, <1>4, <1>5, Zenon DEF ResultInv

\* The other steps.
LEMMA OtherStepsResult ==
  ASSUME ResultInv, PassInv, DoneInv, Next,
         "all_properties_with_fault_localization" \notin Verifiers,
         ~GenerateEquation, ~ConvertGoals, ~AddConstraintFromGoals, ~RunPropertyDecider
  PROVE  ResultInv'
<1>1. verifier \in Verifiers /\ pc # "store"
      /\ (pc \in {"localize", "check"} => verifier \in StopOnFail)
  BY DEF PassInv
<1>2. CASE Call
  <2>1. /\ pc = "call" /\ UNCHANGED <<properties, goal_map, verifier>>
        /\ \/ pc' = "run" /\ progress' = progress
           \/ pc' = "report" /\ progress' = "DONE"
    BY <1>2 DEF Call, checker
  <2>. QED
    BY <2>1 DEF ResultInv, Returned
<1>3. CASE PushCheck \/ Check \/ ClearAssumptions
  <2>1. /\ pc \in {"localize", "check"}
        /\ pc' \in {"localize", "check", "aborted", AfterLocalization}
        /\ UNCHANGED <<properties, goal_map, verifier, progress>>
    BY <1>3 DEF PushCheck, Check, Decide, ClearAssumptions, checker
  <2>2. pc' \in {"localize", "check", "aborted", "done"}
    BY <1>1, <2>1 DEF AfterLocalization
  <2>. QED
    BY <1>1, <2>1, <2>2, ResultFrame DEF Returned
<1>4. CASE Report
  <2>1. /\ pc = "report"
        /\ UNCHANGED <<properties, goal_map, verifier, progress>>
        /\ \/ pc' \in {"done", "aborted"}
           \/ pc' \in {AfterLocalization, "localize"} /\ verifier \in StopOnFail
    BY <1>4 DEF Report, StartLocalization, checker
  <2>2. pc' \in {"localize", "aborted", "done"}
    BY <2>1 DEF AfterLocalization
  <2>. QED
    BY <2>1, <2>2, ResultFrame DEF Returned
<1>5. CASE \/ FoundAllProperties \/ FoundAllPropertiesWithTraceStorage
           \/ FoundCoverGoals \/ CallAgain
  <2>1. /\ UNCHANGED <<properties, goal_map, verifier, progress>>
        /\ pc' \in {"call", "aborted"}
    BY <1>5 DEF FoundAllProperties, FoundAllPropertiesWithTraceStorage,
                FoundCoverGoals, CallAgain, checker
  <2>. QED
    BY <2>1, ResultFrame DEF Returned
<1>6. CASE FoundStopOnFail
  <2>1. /\ pc = "found" /\ verifier \in StopOnFail /\ pc' = "report"
        /\ UNCHANGED <<properties, goal_map, verifier, progress>>
    BY <1>6 DEF FoundStopOnFail, checker
  <2>. QED
    BY <2>1, ResultFrame DEF Returned
<1>7. CASE ConvertWithoutAssertions \/ ConvertAssertions
  <2>1. /\ pc' \in {"convert_assertions", "convert_goals"}
        /\ UNCHANGED <<properties, goal_map, verifier, progress>>
    BY <1>7, Zenon DEF ConvertWithoutAssertions, ConvertAssertions
  <2>. QED
    BY <2>1, ResultFrame DEF Returned
<1>8. CASE Finished
  <2>1. pc \in {"done", "aborted"} /\ pc' = pc
        /\ UNCHANGED <<properties, goal_map, verifier, progress>>
    BY <1>8 DEF Finished, vars, checker
  <2>. QED
    BY <2>1, ResultFrame DEF Returned
<1>10. CASE PropagateFatalAssertions
  <2>1. /\ pc = "report" /\ pc' = "done" /\ DOMAIN properties' = DOMAIN properties
        /\ UNCHANGED <<goal_map, verifier, progress>>
    BY <1>10, PropagatedStatus DEF checker
  <2>2. \A p \in DOMAIN properties' : properties'[p] \in Status \ {"NOT_REACHABLE"}
    BY <1>10, PropagatedStatus DEF ResultInv, Status
  <2>3. SomeProperty(properties, "FAIL") => SomeProperty(properties', "FAIL")
    BY <1>10, PropagatedStatus DEF SomeProperty
  <2>. QED
    BY <2>1, <2>2, <2>3 DEF ResultInv, Returned
<1>9. ~FoundAllPropertiesWithFaultLocalization /\ ~StoreAndLocalize
  BY <1>1 DEF FoundAllPropertiesWithFaultLocalization, StoreAndLocalize
<1>. QED
  BY <1>2, <1>3, <1>4, <1>5, <1>6, <1>7, <1>8, <1>9, <1>10 DEF Next, Verify

\* Every step preserves the invariant.
LEMMA ResultStep ==
  ASSUME "all_properties_with_fault_localization" \notin Verifiers
  PROVE  ResultInv /\ PassInv /\ DoneInv /\ [Next]_vars => ResultInv'
<1>1. ASSUME ResultInv, UNCHANGED vars PROVE ResultInv'
  <2>1. /\ UNCHANGED <<properties, goal_map, verifier, progress, pc>>
        /\ contexts' = contexts
    BY <1>1 DEF vars, checker, solver
  <2>. QED
    BY <1>1, <2>1 DEF ResultInv
<1>2. DoneInv => CheckerInv
  BY DEF DoneInv
<1>. QED
  BY <1>1, <1>2, GenerateEquationResult, ConvertGoalsResult, OtherStepsResult,
     AddConstraintFromGoalsResult, RunPropertyDeciderResult

\* When a verifier gets done nothing is open but what was proven.
LEMMA OpenStep ==
  ResultInv /\ PassInv /\ DoneInv /\ OpenWasProven /\ [Next]_vars => OpenWasProven'
<1>. SUFFICES ASSUME ResultInv, PassInv, DoneInv, OpenWasProven, [Next]_vars,
                     pc' = "done", progress' = "DONE"
              PROVE  OpenWasProven'
  BY DEF OpenWasProven
<1>1. CASE PropagateFatalAssertions
  <2>1. /\ pc = "report" /\ progress = "DONE" /\ DOMAIN properties' = DOMAIN properties
        /\ verifier' = "all_properties_with_trace_storage" /\ equation' = equation
    BY <1>1, PropagatedStatus DEF checker
  <2>2. ~has_properties_to_check(properties)
    BY <2>1 DEF DoneInv
  <2>3. ASSUME NEW p \in DOMAIN properties, is_property_to_check(properties'[p])
        PROVE  /\ p \in GotoModelProperties /\ ~Violable(equation, p)
               /\ SomeProperty(properties', "FAIL")
    <3>1. properties'[p] # properties[p]
      BY <2>2, <2>3 DEF has_properties_to_check
    <3>2. properties[p] = "PASS"
      BY <1>1, <3>1, PropagatedStatus
    <3>3. PICK f \in DOMAIN properties, reach \in FatalReach :
            properties[f] = "FAIL" /\ p \in reach[f]
      BY <1>1, <3>1, PropagatedStatus
    <3>4. f \in PropertyId /\ reach \in [PropertyId -> SUBSET GotoModelProperties]
      BY <3>3, CheckerAssumption DEF ResultInv
    <3>5. p \in GotoModelProperties
      BY <3>3, <3>4
    <3>6. properties'[f] = "FAIL"
      BY <1>1, <3>3, PropagatedStatus
    <3>. QED
      BY <2>1, <3>2, <3>3, <3>5, <3>6 DEF PassInv, PassesAreJustified, SomeProperty
  <2>. QED
    BY <2>1, <2>3 DEF OpenWasProven
<1>2. CASE Finished \/ UNCHANGED vars
  BY <1>2 DEF Finished, vars, checker, OpenWasProven
<1>3. CASE Report \/ ClearAssumptions \/ StoreAndLocalize
  <2>1. /\ pc # "done" /\ progress = "DONE" /\ properties' = properties
    BY <1>3, Zenon DEF Report, ClearAssumptions, StoreAndLocalize
  <2>2. ~has_properties_to_check(properties)
    BY <2>1 DEF DoneInv
  <2>. QED
    BY <2>1, <2>2 DEF OpenWasProven, has_properties_to_check
<1>4. CASE \/ GenerateEquation \/ ConvertWithoutAssertions \/ ConvertAssertions
           \/ ConvertGoals \/ Call \/ AddConstraintFromGoals \/ RunPropertyDecider
           \/ PushCheck \/ Check \/ FoundStopOnFail \/ FoundAllProperties
           \/ FoundAllPropertiesWithTraceStorage \/ FoundCoverGoals
           \/ FoundAllPropertiesWithFaultLocalization \/ CallAgain
  <2>1. pc' # "done"
    BY <1>4, Zenon DEF GenerateEquation, ConvertWithoutAssertions, ConvertAssertions,
       ConvertGoals, Call, AddConstraintFromGoals, RunPropertyDecider, PushCheck, Check,
       Decide, FoundStopOnFail, FoundAllProperties, FoundAllPropertiesWithTraceStorage,
       FoundCoverGoals, FoundAllPropertiesWithFaultLocalization, CallAgain
  <2>. QED
    BY <2>1
<1>. QED
  BY <1>1, <1>2, <1>3, <1>4 DEF Next, Verify

\* What the report says.
LEMMA ReportedResult ==
  ASSUME IsFiniteSet(PropertyId), ResultInv, PassInv, OpenWasProven
  PROVE  OverallResultCorrect
<1>. SUFFICES ASSUME pc = "done"
              PROVE  /\ verifier \notin StopOnFail =>
                          \A p \in DOMAIN properties :
                            is_property_to_check(properties[p]) =>
                              /\ verifier = "all_properties_with_trace_storage"
                              /\ p \in GotoModelProperties /\ ~Violable(equation, p)
                              /\ SomeProperty(properties, "FAIL")
                     /\ determine_result(properties) = "PASS" <=>
                          \A p \in DOMAIN properties :
                            properties[p] # "ERROR" /\ ~Violable(equation, p)
  BY DEF OverallResultCorrect
<1>1. progress \in {"FOUND_FAIL", "DONE"} /\ (verifier \notin StopOnFail => progress = "DONE")
  BY DEF ResultInv, Returned
<1>2. progress = "DONE" =>
        \A p \in DOMAIN properties :
          is_property_to_check(properties[p]) =>
            /\ verifier = "all_properties_with_trace_storage"
            /\ p \in GotoModelProperties /\ ~Violable(equation, p)
            /\ SomeProperty(properties, "FAIL")
  BY DEF OpenWasProven
<1>3. IsFiniteSet(DOMAIN properties)
  BY FiniteSubset DEF ResultInv
<1>4. /\ \A p \in DOMAIN properties : properties[p] \in Status \ {"NOT_REACHABLE"}
      /\ progress = "FOUND_FAIL" => SomeProperty(properties, "FAIL")
  BY DEF ResultInv
<1>5. \A p \in DOMAIN properties : /\ properties[p] = "FAIL" => Violable(equation, p)
                                   /\ properties[p] = "PASS" => ~Violable(equation, p)
  BY DEF PassInv, CheckerInv, FailuresAreReal, PassesAreJustified
<1>6. determine_result(properties) = "PASS" <=>
        \A p \in DOMAIN properties : properties[p] \in {"PASS", "NOT_REACHABLE"}
  BY <1>3, <1>4, DetermineResult
<1>7. determine_result(properties) = "PASS" <=>
        \A p \in DOMAIN properties : properties[p] = "PASS"
  BY <1>4, <1>6
<1>8. ASSUME \A p \in DOMAIN properties : properties[p] # "ERROR" /\ ~Violable(equation, p)
      PROVE  \A p \in DOMAIN properties : properties[p] = "PASS"
  <2>1. \A p \in DOMAIN properties : properties[p] \notin {"FAIL", "ERROR"}
    BY <1>5, <1>8
  <2>2. progress = "DONE"
    BY <1>1, <1>4, <2>1 DEF SomeProperty
  <2>. QED
    BY <1>2, <1>4, <2>1, <2>2 DEF is_property_to_check, SomeProperty, Status
<1>9. ASSUME \A p \in DOMAIN properties : properties[p] = "PASS"
      PROVE  \A p \in DOMAIN properties : properties[p] # "ERROR" /\ ~Violable(equation, p)
  BY <1>5, <1>9
<1>. QED
  BY <1>1, <1>2, <1>7, <1>8, <1>9

(***************************************************************************)
(* When a verifier is done, the overall result determine_result computes is *)
(* PASS exactly if no property is in ERROR and no assertion of the equation *)
(* can be violated, and the verifiers that look for all failing properties  *)
(* leave none open except those propagate_fatal_assertions has marked,      *)
(* which cannot be violated, for any number of properties.  The verifier    *)
(* that localizes the fault of each property is excepted, as for            *)
(* VerdictsProved.                                                         *)
(***************************************************************************)
THEOREM OverallResultProved ==
  IsFiniteSet(PropertyId) /\ "all_properties_with_fault_localization" \notin Verifiers =>
    (Spec => []OverallResultCorrect)
<1>. SUFFICES ASSUME IsFiniteSet(PropertyId),
                     "all_properties_with_fault_localization" \notin Verifiers
              PROVE  Spec => []OverallResultCorrect
  OBVIOUS
<1>1. PassInv /\ [Next]_vars => PassInv'
  BY PassStep
<1>2. ResultInv /\ PassInv /\ DoneInv /\ [Next]_vars => ResultInv'
  BY ResultStep
<1>3. ResultInv /\ PassInv /\ OpenWasProven => OverallResultCorrect
  BY ReportedResult
<1>4. Init => OpenWasProven
  BY DEF Init, OpenWasProven
<1>. QED
  BY <1>1, <1>2, <1>3, <1>4, InitResult, InitPass, InitDone, DoneStep, OpenStep,
     PTL DEF Spec
=============================================================================
