----------------- MODULE SingleLoopIncrementalSymexChecker ------------------
(***************************************************************************)
(* A verifier and the checker that unwinds one loop step by step           *)
(* (goto-checker/single_loop_incremental_symex_checker.cpp).               *)
(*                                                                         *)
(* Symbolic execution pauses at each iteration of the loop.  The equation  *)
(* so far is converted and its new assertions are checked in a context of  *)
(* their own, which is popped before symbolic execution resumes.           *)
(***************************************************************************)
EXTENDS BuildGotoTrace

CONSTANTS Programs,              \* the programs for each verifier
          GotoModelProperties,   \* the properties of the goto model
          FatalReach,            \* what may be reached from its fatal assertions
          Verifiers,             \* the verifiers that are considered
          SolverErrors           \* whether the decision procedure may give up

\* The steps of the first n segments.
StepsUpTo(program, n) ==
  UNION {{program[a][i] : i \in DOMAIN program[a]} : a \in 1 .. n}

\* An assignment defines a symbol that does not occur before it (SSA form): every
\* execution of the first segments can be continued.
Continues(program, n) ==
  \A v \in Assignment :
    (\A s \in StepsUpTo(program, n) : is_assignment(s) => v \in s.cond_expr)
    => \E w \in Assignment :
         /\ \A s \in StepsUpTo(program, n + 1) :
              is_assignment(s) => w \in s.cond_expr
         /\ \A s \in StepsUpTo(program, n) :
              /\ v \in s.guard <=> w \in s.guard
              /\ v \in s.cond_expr <=> w \in s.cond_expr

ASSUME IncrementalAssumption ==
  /\ NoModel \notin Assignment
  /\ \A v \in Verifiers : \A program \in Programs[v] :
       /\ program # <<>>
       /\ \A n \in 0 .. Len(program) - 1 : Continues(program, n)
  /\ GotoModelProperties \subseteq PropertyId
  /\ FatalReach \subseteq [PropertyId -> SUBSET GotoModelProperties]
  /\ FatalReach # {}
  /\ Verifiers \subseteq {"stop_on_fail", "all_properties_with_trace_storage"}
  /\ SolverErrors \in BOOLEAN

VARIABLES
  verifier,                     \* the verifier that runs
  pc,                           \* where it is
  progress,                     \* result.progress of the call of the checker
  properties,                   \* propertiest
  updated_properties,           \* those that FAILed in the call
  traces,                       \* the trace of a property
  unexplored,                   \* what symbolic execution has not reached yet
  equation,                     \* the equation so far
  initial_equation_generated,
  current_equation_converted,
  goal_map,                     \* the goals of the property decider
  contexts, result, model       \* the decision procedure

solver == <<contexts, result, model>>
verification == <<verifier, traces>>
vars == <<verification, pc, progress, properties, updated_properties,
          unexplored, equation, initial_equation_generated,
          current_equation_converted, goal_map, solver>>

SDP == INSTANCE StackDecisionProcedure WITH Assumptions <- {}

\* Symbolic execution did not pause.
full_equation_generated == unexplored = <<>>

TypeOK ==
  /\ verifier \in Verifiers
  /\ pc \in {"call", "loop", "convert_goals", "push", "convert_assertions", "run",
             "solve", "pop", "resume", "found", "report", "done", "aborted"}
  /\ progress \in {"FOUND_FAIL", "DONE"}
  /\ DOMAIN properties \subseteq PropertyId
  /\ \A p \in DOMAIN properties : properties[p] \in Status
  /\ updated_properties \subseteq DOMAIN properties
  /\ DOMAIN traces \subseteq DOMAIN properties
  /\ unexplored \in Seq(Seq(Step))
  /\ equation \in Seq(Step)
  /\ initial_equation_generated \in BOOLEAN
  /\ current_equation_converted \in BOOLEAN
  /\ DOMAIN goal_map \subseteq DOMAIN properties
  /\ \A p \in DOMAIN goal_map : goal_map[p] \in Expr
  /\ SDP!SDPTypeOK

Init ==
  /\ verifier \in Verifiers
  /\ pc = "call"
  /\ progress = "DONE"
  /\ properties = [p \in GotoModelProperties |-> "NOT_CHECKED"]
  /\ updated_properties = {}
  /\ traces = [p \in {} |-> 0]
  /\ unexplored \in Programs[verifier]
  /\ equation = <<>>
  /\ initial_equation_generated = FALSE
  /\ current_equation_converted = FALSE
  /\ goal_map = [p \in {} |-> {}]
  /\ SDP!SDPInit

-----------------------------------------------------------------------------
(* The checker: single_loop_incremental_symex_checkert::operator() *)

\* symex.from_entry_point_of or symex.resume: the equation grows by a segment,
\* which may have new properties.
Symex ==
  /\ equation' = equation \o Head(unexplored)
  /\ unexplored' = Tail(unexplored)
  /\ properties' = update_properties_status_from_symex_target_equation(
                     properties, PropertyIds(equation'))

\* The first call starts symbolic execution.
CallFirst ==
  /\ pc = "call" /\ ~initial_equation_generated
  /\ Symex
  /\ initial_equation_generated' = TRUE
  /\ progress' = "DONE"
  /\ updated_properties' = {}
  /\ pc' = "loop"
  /\ UNCHANGED <<verification, current_equation_converted, goal_map, solver>>

CallNext ==
  /\ pc = "call" /\ initial_equation_generated
  /\ progress' = "DONE"
  /\ updated_properties' = {}
  /\ pc' = "loop"
  /\ UNCHANGED <<verification, properties, unexplored, equation,
                 initial_equation_generated, current_equation_converted,
                 goal_map, solver>>

\* The head of the loop: return, check the UNKNOWN properties (after a conversion
\* of what is new in the equation), or resume symbolic execution.
Loop ==
  /\ pc = "loop"
  /\ pc' = IF ~has_properties_to_check(properties) THEN "report"
           ELSE IF ~SomeProperty(properties, "UNKNOWN") THEN "resume"
           ELSE IF current_equation_converted THEN "run" ELSE "convert_goals"
  /\ IF pc' = "convert_goals"
     THEN /\ SDP!SetTo(AssignmentsConstraint(equation), TRUE)
          /\ equation' = convert_without_assertions(equation)
     ELSE UNCHANGED <<equation, solver>>
  /\ UNCHANGED <<verification, progress, properties, updated_properties,
                 unexplored, initial_equation_generated,
                 current_equation_converted, goal_map>>

\* "We convert the assertions in a new context."
PushContext ==
  /\ pc = "convert_goals"
  /\ properties' = PropertiesWithGoals(properties, equation)
  /\ SDP!Push
  /\ pc' = "push"
  /\ UNCHANGED <<verification, progress, updated_properties, unexplored,
                 equation, initial_equation_generated,
                 current_equation_converted, goal_map>>

ConvertAssertions ==
  /\ pc = "push"
  /\ SDP!SetTo(AssertionsConstraint(equation, FALSE), TRUE)
  /\ equation' = convert_assertions(equation, FALSE)
  /\ pc' = "convert_assertions"
  /\ UNCHANGED <<verification, progress, properties, updated_properties,
                 unexplored, initial_equation_generated,
                 current_equation_converted, goal_map>>

ConvertGoals ==
  /\ pc = "convert_assertions"
  /\ goal_map' = Goals(properties, equation)
  /\ current_equation_converted' = TRUE
  /\ pc' = "run"
  /\ UNCHANGED <<verification, progress, properties, updated_properties,
                 unexplored, equation, initial_equation_generated, solver>>

AddConstraintFromGoals ==
  /\ pc = "run"
  /\ SDP!SetTo(ConstraintFromGoals(goal_map, properties), TRUE)
  /\ pc' = "solve"
  /\ UNCHANGED <<verification, progress, properties, updated_properties,
                 unexplored, equation, initial_equation_generated,
                 current_equation_converted, goal_map>>

\* A call of operator() of the decision procedure, after which the program is at
\* `next`.  If the SAT solver has given up before, its PRECONDITION may fail; the
\* variables of the aborted program no longer matter.
Decide(next) ==
  /\ SDP!Solve(Assignment) /\ (result' = "D_ERROR" => SolverErrors)
  /\ pc' \in {next} \cup (IF result = "D_ERROR" THEN {"aborted"} ELSE {})

\* The update of the properties; without a counterexample it continues at `unsat`.
Run(unsat) ==
  /\ \E next \in {"found", "aborted", unsat} :
       /\ Decide(next)
       /\ updated_properties' =
            IF result' = "D_SATISFIABLE"
            THEN NewlyFailed(properties, goal_map, model') ELSE {}
       /\ next = IF \E p \in updated_properties' : ~OrDefined(properties[p], "FAIL")
                 THEN "aborted"
                 ELSE IF result' = "D_SATISFIABLE" THEN "found" ELSE unsat
  /\ properties' = update_properties_status_from_goals(
                     properties, goal_map, result', model', FALSE)
  /\ progress' = IF result' = "D_SATISFIABLE" THEN "FOUND_FAIL" ELSE "DONE"
  /\ UNCHANGED <<verification, unexplored, equation,
                 initial_equation_generated, current_equation_converted,
                 goal_map>>

\* Mutant: the context of the assertions is not popped.
RunPropertyDeciderNoPop == pc = "solve" /\ Run("resume")

\* Mutant: the loop starts over before it resumes symbolic execution.
RunPropertyDeciderForever == pc = "solve" /\ Run("loop")

\* The call of the decision procedure.  UNSAT does not decide a property yet: the
\* rest of the program may violate it.
RunPropertyDecider == pc = "solve" /\ Run("pop")

\* "Nothing else to do with the current set of assertions.  Let's pop them."
PopContext ==
  /\ pc = "pop"
  /\ SDP!Pop
  /\ pc' = "resume"
  /\ UNCHANGED <<verification, progress, properties, updated_properties,
                 unexplored, equation, initial_equation_generated,
                 current_equation_converted, goal_map>>

\* Mutant: done as soon as there is nothing to check in the equation.
FinishEarly ==
  /\ pc = "resume"
  /\ properties' = update_status_of_not_checked_properties(
                     update_status_of_unknown_properties(properties))
  /\ pc' = "report"
  /\ UNCHANGED <<verification, progress, updated_properties, unexplored,
                 equation, initial_equation_generated,
                 current_equation_converted, goal_map, solver>>

\* "Now we are finally done": what was not found to be violated is PASS.
Finish ==
  /\ pc = "resume" /\ full_equation_generated
  /\ properties' = update_status_of_not_checked_properties(
                     update_status_of_unknown_properties(properties))
  /\ pc' = "report"
  /\ UNCHANGED <<verification, progress, updated_properties, unexplored,
                 equation, initial_equation_generated,
                 current_equation_converted, goal_map, solver>>

\* "We continue symbolic execution"
Resume ==
  /\ pc = "resume" /\ ~full_equation_generated
  /\ Symex
  /\ current_equation_converted' = FALSE
  /\ pc' = "loop"
  /\ UNCHANGED <<verification, progress, updated_properties,
                 initial_equation_generated, goal_map, solver>>

-----------------------------------------------------------------------------
(* The verifiers *)

\* stop_on_fail_verifiert::operator() returns after the first call.
FoundStopOnFail ==
  /\ pc = "found" /\ verifier = "stop_on_fail"
  /\ pc' = "report"
  /\ UNCHANGED <<verification, progress, properties, updated_properties,
                 unexplored, equation, initial_equation_generated,
                 current_equation_converted, goal_map, solver>>

\* all_properties_verifier_with_trace_storaget stores the traces and calls the
\* checker again.
FoundAllProperties ==
  /\ pc = "found" /\ verifier = "all_properties_with_trace_storage"
  /\ IF InsertDefined(traces, equation, model, updated_properties)
     THEN /\ traces' = insert(traces, equation, model, updated_properties)
          /\ pc' = "call"
     ELSE pc' = "aborted" /\ UNCHANGED traces
  /\ UNCHANGED <<verifier, progress, properties, updated_properties, unexplored,
                 equation, initial_equation_generated,
                 current_equation_converted, goal_map, solver>>

\* The end of all_properties_verifier_with_trace_storaget::operator().
PropagateFatalAssertions ==
  /\ pc = "report" /\ verifier = "all_properties_with_trace_storage"
  /\ \E reach \in FatalReach :
       properties' = propagate_fatal_to_proven(properties, reach)
  /\ pc' = "done"
  /\ UNCHANGED <<verification, progress, updated_properties, unexplored,
                 equation, initial_equation_generated,
                 current_equation_converted, goal_map, solver>>

\* report(): stop_on_fail_verifiert builds the shortest trace now.
Report ==
  /\ pc = "report" /\ verifier = "stop_on_fail"
  /\ IF determine_result(properties) # "FAIL"
     THEN pc' = "done" /\ UNCHANGED traces
     ELSE LET candidates == FailedAssertionSteps(equation, model)
              failed == equation[LastStepToKeep(equation, candidates)].property_id
          IN  IF LastStepWasKept(equation, model, candidates)
              THEN /\ traces' = [p \in {failed} |->
                                 Trace(equation, model, candidates)]
                   /\ pc' = "done"
              ELSE pc' = "aborted" /\ UNCHANGED traces
  /\ UNCHANGED <<verifier, progress, properties, updated_properties, unexplored,
                 equation, initial_equation_generated,
                 current_equation_converted, goal_map, solver>>

Finished ==
  /\ pc \in {"done", "aborted"}
  /\ UNCHANGED vars

Verify ==
  \/ CallFirst
  \/ CallNext
  \/ Loop
  \/ PushContext
  \/ ConvertAssertions
  \/ ConvertGoals
  \/ AddConstraintFromGoals
  \/ RunPropertyDecider
  \/ PopContext
  \/ Finish
  \/ Resume
  \/ FoundStopOnFail
  \/ FoundAllProperties
  \/ PropagateFatalAssertions
  \/ Report

Next == Verify \/ Finished

Spec == Init /\ [][Next]_vars /\ WF_vars(Verify)

-----------------------------------------------------------------------------
(* Properties *)

\* A property that is FAIL is violated by some execution: the contexts only ever
\* restrict the executions that are considered
\* (update_properties_status_from_goals).
FailuresAreReal ==
  \A p \in DOMAIN properties : properties[p] = "FAIL" => Violable(equation, p)

\* Moreover, a property that is PASS is violated by none: what was undecided at
\* each pause is decided by the end of symbolic execution
\* (update_status_of_unknown_properties).
VerdictsCorrect ==
  /\ FailuresAreReal
  /\ \A p \in DOMAIN properties :
       properties[p] = "PASS" => ~Violable(equation, p)

\* The overall result is PASS only after symbolic execution has reached the end
\* of the program and no property can be violated there (operator(),
\* determine_result).
PassIsComplete ==
  pc = "done" /\ determine_result(properties) = "PASS" =>
    /\ GotoModelProperties = {} \/ full_equation_generated
    /\ \A p \in DOMAIN properties : ~Violable(equation, p)

\* The assertions are converted and checked in a context of their own, and this
\* context is gone when symbolic execution resumes: what it adds is converted in
\* the root context, permanently (push() and pop() in operator()).
AssertionsInTheirContext ==
  /\ pc \in {"push", "convert_assertions", "run", "solve", "found"} =>
       Len(contexts) = 2
  /\ pc \in {"convert_goals", "resume"} => Len(contexts) = 1

\* Every trace ends in an assertion of its property that its model violates, and
\* the model satisfies the assumptions before it, also those of earlier segments.
TracesAreCounterexamples ==
  \A p \in DOMAIN traces :
    \E k \in traces[p].steps :
      /\ CounterexampleAt(equation, traces[p], p, k)
      /\ \A i \in traces[p].steps : i <= k

\* No PRECONDITION or INVARIANT of the code fails.
InvariantsHold == pc # "aborted"

\* Every verifier terminates.
Terminates == <>(pc = "done")
=============================================================================
