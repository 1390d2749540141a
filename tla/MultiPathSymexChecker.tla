----------------------- MODULE MultiPathSymexChecker ------------------------
(***************************************************************************)
(* A verifier and the multi-path checker it drives                         *)
(* (goto-checker/multi_path_symex_checker.cpp, bmc_util.cpp, the           *)
(* *_verifier*.h and goto_symex_fault_localizer.cpp).                      *)
(*                                                                         *)
(* The checker generates one equation for the whole program, converts it,  *)
(* and asks the decision procedure again and again for an execution that   *)
(* violates one of the properties that are still open.  The verifiers      *)
(* differ in what they do with each counterexample.  The decision          *)
(* procedure is the one StackDecisionProcedure specifies.                  *)
(***************************************************************************)
EXTENDS BuildGotoTrace, FiniteSets

CONSTANTS Equations,       \* the equations symbolic execution may produce
          GotoModelProperties,   \* the properties of the goto model
          FatalReach,      \* what may be reached from its fatal assertions
          Verifiers,       \* the verifiers that are considered
          SolverErrors     \* whether the decision procedure may give up

StopOnFail == {"stop_on_fail", "stop_on_fail_with_fault_localization"}

ASSUME CheckerAssumption ==
  /\ NoModel \notin Assignment
  /\ Equations \subseteq Seq(Step)
  /\ \A eq \in Equations : \A i \in DOMAIN eq :
       /\ ~eq[i].converted
       /\ is_assert(eq[i]) => Assignment \ eq[i].guard \subseteq eq[i].cond_expr
  /\ Verifiers \subseteq
       StopOnFail \cup {"all_properties", "all_properties_with_trace_storage",
                        "all_properties_with_fault_localization",
                        "cover_goals_with_trace_storage"}
  /\ GotoModelProperties \subseteq PropertyId
  /\ FatalReach \subseteq [PropertyId -> SUBSET GotoModelProperties]
  /\ FatalReach # {}
  /\ SolverErrors \in BOOLEAN

VARIABLES
  verifier,             \* the verifier that runs
  pc,                   \* where it is
  progress,             \* the progress the last call of the checker returned
  called_again,         \* the checker was called again after it returned DONE
  properties,           \* propertiest
  updated_properties,   \* the FAILed ones whose trace is not stored yet
  traces,               \* goto_trace_storaget: the trace of a property
  equation,             \* the equation of the checker
  equation_generated,   \* it has been converted
  goal_map,             \* the goals of the property decider
  localization,         \* the state of the fault localizer
  contexts, result, model   \* the decision procedure

solver == <<contexts, result, model>>
checker == <<equation, equation_generated, goal_map>>
vars == <<verifier, pc, progress, called_again, properties, updated_properties,
          traces, localization, checker, solver>>

SDP == INSTANCE StackDecisionProcedure WITH Assumptions <- {}

NoTraces == [p \in {} |-> 0]
NoLocalization == [failed_step |-> 0, todo |-> <<>>]

TypeOK ==
  /\ verifier \in Verifiers
  /\ pc \in {"call", "convert", "convert_assertions", "convert_goals", "run",
             "solve", "found", "store", "localize", "check", "report", "done",
             "aborted"}
  /\ progress \in {"none", "FOUND_FAIL", "DONE"}
  /\ called_again \in BOOLEAN
  /\ DOMAIN properties \subseteq PropertyId
  /\ \A p \in DOMAIN properties : properties[p] \in Status
  /\ updated_properties \subseteq DOMAIN properties
  /\ DOMAIN traces \subseteq DOMAIN properties
  /\ equation \in Seq(Step)
  /\ equation_generated \in BOOLEAN
  /\ DOMAIN goal_map \subseteq DOMAIN properties
  /\ \A p \in DOMAIN goal_map : goal_map[p] \in Expr
  /\ SDP!SDPTypeOK

\* The properties of the goto model are known and NOT_CHECKED.  Symbolic execution
\* adds others, such as unwinding assertions.
Init ==
  /\ verifier \in Verifiers
  /\ pc = "call"
  /\ progress = "none"
  /\ called_again = FALSE
  /\ properties = [p \in GotoModelProperties |-> "NOT_CHECKED"]
  /\ updated_properties = {}
  /\ traces = NoTraces
  /\ equation = <<>>
  /\ equation_generated = FALSE
  /\ goal_map = [p \in {} |-> {}]
  /\ localization = NoLocalization
  /\ SDP!SDPInit

-----------------------------------------------------------------------------
(* The checker: multi_path_symex_checkert::operator() *)

\* generate_equation and update_properties: the properties that do not occur in
\* the equation are PASS.
PropertiesOf(eq) ==
  update_status_of_not_checked_properties(
    update_properties_status_from_symex_target_equation(
      properties, PropertyIds(eq)))

\* The first call generates the equation.  If all properties are decided
\* already it returns DONE, and the next call will generate the equation again:
\* symbolic execution of the same program appends the same steps, among which
\* there is no assertion.
GenerateEquation ==
  /\ pc = "call" /\ ~equation_generated
  /\ \E eq \in IF called_again THEN {equation} ELSE Equations :
       /\ equation' = eq
       /\ properties' = PropertiesOf(eq)
  /\ IF has_properties_to_check(properties')
     THEN pc' = "convert" /\ UNCHANGED progress
     ELSE pc' = "report" /\ progress' = "DONE"
  /\ UNCHANGED <<verifier, called_again, updated_properties, traces,
                 equation_generated, goal_map, localization, solver>>

\* prepare_property_decider, symex_target_equationt::convert.
ConvertWithoutAssertions ==
  /\ pc = "convert"
  /\ equation' = convert_without_assertions(equation)
  /\ SDP!SetTo(AssignmentsConstraint(equation), TRUE)
  /\ pc' = "convert_assertions"
  /\ UNCHANGED <<verifier, progress, called_again, properties, goal_map,
                 equation_generated, updated_properties, traces, localization>>

ConvertAssertions ==
  /\ pc = "convert_assertions"
  /\ equation' = convert_assertions(equation, TRUE)
  /\ SDP!SetTo(AssertionsConstraint(equation, TRUE), TRUE)
  /\ pc' = "convert_goals"
  /\ UNCHANGED <<verifier, progress, called_again, properties, goal_map,
                 equation_generated, updated_properties, traces, localization>>

\* prepare_property_decider, the goals.
ConvertGoals ==
  /\ pc = "convert_goals"
  /\ properties' = PropertiesWithGoals(properties, equation)
  /\ goal_map' = Goals(properties, equation)
  /\ equation_generated' = TRUE
  /\ pc' = "run"
  /\ UNCHANGED <<verifier, progress, called_again, equation,
                 updated_properties, traces, localization, solver>>

\* A later call.
Call ==
  /\ pc = "call" /\ equation_generated
  /\ IF has_properties_to_check(properties)
     THEN pc' = "run" /\ UNCHANGED progress
     ELSE pc' = "report" /\ progress' = "DONE"
  /\ UNCHANGED <<verifier, called_again, properties, updated_properties, traces,
                 localization, checker, solver>>

\* run_property_decider, up to the call of the decision procedure.
AddConstraintFromGoals ==
  /\ pc = "run"
  /\ SDP!SetTo(ConstraintFromGoals(goal_map, properties), TRUE)
  /\ pc' = "solve"
  /\ UNCHANGED <<verifier, progress, called_again, properties,
                 updated_properties, traces, localization, checker>>

\* A call of operator() of the decision procedure, after which the program is at
\* `next`.  If the SAT solver has given up before, its PRECONDITION may fail; the
\* variables of the aborted program no longer matter.
Decide(next) ==
  /\ SDP!Solve(Assignment) /\ (result' = "D_ERROR" => SolverErrors)
  /\ pc' \in {next} \cup (IF result = "D_ERROR" THEN {"aborted"} ELSE {})

\* run_property_decider, the call of the decision procedure and the update of
\* the properties.
RunPropertyDecider ==
  /\ pc = "solve"
  /\ \E next \in {"found", "report", "aborted"} :
       /\ Decide(next)
       /\ updated_properties' =
            IF result' = "D_SATISFIABLE"
            THEN NewlyFailed(properties, goal_map, model') ELSE {}
       /\ next = IF \E p \in updated_properties' : ~OrDefined(properties[p], "FAIL")
                 THEN "aborted"
                 ELSE IF result' = "D_SATISFIABLE" THEN "found" ELSE "report"
  /\ properties' = update_properties_status_from_goals(
                     properties, goal_map, result', model', TRUE)
  /\ progress' = IF result' = "D_SATISFIABLE" THEN "FOUND_FAIL" ELSE "DONE"
  /\ UNCHANGED <<verifier, called_again, traces, localization, checker>>

-----------------------------------------------------------------------------
(* The fault localizer: goto_symex_fault_localizert::operator() *)

\* collect_guards: the first assertion of the property, and the guards of the
\* assignments before it that are not constant.
FailedStep(id) ==
  CHOOSE k \in Asserts(equation) :
    /\ equation[k].property_id = id
    /\ \A j \in Asserts(equation) : equation[j].property_id = id => k <= j

LocalizationPoints(k) ==
  {equation[i].guard : i \in {j \in 1 .. k - 1 : is_assignment(equation[j])}}
    \ {Assignment}

\* localize_linear tries each point with the value true, then with false.
BothValues(points) ==
  {[i \in 1 .. 2 * Cardinality(points) |->
      IF i % 2 = 1 THEN order[(i + 1) \div 2]
      ELSE Assignment \ order[i \div 2]] :
   order \in {f \in [1 .. Cardinality(points) -> points] :
                 \A p \in points : \E i \in DOMAIN f : f[i] = p}}

\* Where the verifier continues after the localizer.
AfterLocalization == IF verifier \in StopOnFail THEN "done" ELSE "store"

\* localize_fault(id), up to the first check.
StartLocalization(id) ==
  IF LocalizationPoints(FailedStep(id)) = {}
  THEN pc' = AfterLocalization /\ UNCHANGED localization
  ELSE /\ \E todo \in BothValues(LocalizationPoints(FailedStep(id))) :
            localization' = [failed_step |-> FailedStep(id), todo |-> todo]
       /\ pc' = "localize"

\* check: pushes the value of the point and the failed assertion.
PushCheck ==
  /\ pc = "localize" /\ localization.todo # <<>>
  /\ SDP!PushAssumptions(
       <<Head(localization.todo),
         Assignment \ equation[localization.failed_step].cond_handle>>)
  /\ pc' = "check"
  /\ UNCHANGED <<verifier, progress, called_again, properties,
                 updated_properties, traces, localization, checker>>

\* Mutant: the point is tried again and again.
CheckForever ==
  /\ pc = "check"
  /\ Decide("check") /\ result' # "D_ERROR"
  /\ UNCHANGED <<verifier, progress, called_again, properties, localization,
                 updated_properties, traces, checker>>

\* check: solves.  The scores update_scores computes are only reported.
Check ==
  /\ pc = "check"
  /\ Decide("localize")
  /\ localization' = [localization EXCEPT !.todo = Tail(@)]
  /\ UNCHANGED <<verifier, progress, called_again, properties,
                 updated_properties, traces, checker>>

\* The end of localize_linear: "clear assumptions".
ClearAssumptions ==
  /\ pc = "localize" /\ localization.todo = <<>>
  /\ SDP!Pop
  /\ localization' = NoLocalization
  /\ pc' = AfterLocalization
  /\ UNCHANGED <<verifier, progress, called_again, properties,
                 updated_properties, traces, checker>>

-----------------------------------------------------------------------------
(* The verifiers *)

\* stop_on_fail_verifiert::operator() returns after the first call.
FoundStopOnFail ==
  /\ pc = "found" /\ verifier \in StopOnFail
  /\ pc' = "report"
  /\ UNCHANGED <<verifier, progress, called_again, properties,
                 updated_properties, traces, localization, checker, solver>>

\* all_properties_verifiert::operator() calls the checker again.
FoundAllProperties ==
  /\ pc = "found" /\ verifier = "all_properties"
  /\ pc' = "call"
  /\ UNCHANGED <<verifier, progress, called_again, properties,
                 updated_properties, traces, localization, checker, solver>>

\* all_properties_verifier_with_trace_storaget::operator() stores the traces of
\* all properties that have just FAILed (with the option trace; without it the
\* loop is the one of all_properties_verifiert).
FoundAllPropertiesWithTraceStorage ==
  /\ pc = "found" /\ verifier = "all_properties_with_trace_storage"
  /\ IF InsertDefined(traces, equation, model, updated_properties)
     THEN /\ traces' = insert(traces, equation, model, updated_properties)
          /\ pc' = "call"
     ELSE pc' = "aborted" /\ UNCHANGED traces
  /\ updated_properties' = {}
  /\ UNCHANGED <<verifier, progress, called_again, properties, localization,
                 checker, solver>>

\* cover_goals_verifier_with_trace_storaget::operator() stores one full trace
\* for all properties it violates.
FoundCoverGoals ==
  /\ pc = "found" /\ verifier = "cover_goals_with_trace_storage"
  /\ LET trace == Trace(equation, model, {})
         ids == get_failed_property_ids(equation, model, trace.steps)
     IN  IF ids # {}
         THEN /\ traces' = insert_all(traces, [p \in ids |-> trace])
              /\ pc' = "call"
         ELSE pc' = "aborted" /\ UNCHANGED traces
  /\ updated_properties' = {}
  /\ UNCHANGED <<verifier, progress, called_again, properties, localization,
                 checker, solver>>

\* all_properties_verifier_with_fault_localizationt::operator() stores the trace
\* of each of them and localizes the fault, one property after the other.
FoundAllPropertiesWithFaultLocalization ==
  /\ pc = "found" /\ verifier = "all_properties_with_fault_localization"
  /\ pc' = "store"
  /\ UNCHANGED <<verifier, progress, called_again, properties,
                 updated_properties, traces, localization, checker, solver>>

StoreAndLocalize ==
  /\ pc = "store"
  /\ \/ /\ updated_properties = {}
        /\ pc' = "call"
        /\ UNCHANGED <<updated_properties, traces, localization>>
     \/ \E p \in updated_properties :
          /\ updated_properties' = updated_properties \ {p}
          /\ IF InsertDefined(traces, equation, model, {p})
             THEN /\ traces' = insert(traces, equation, model, {p})
                  /\ StartLocalization(p)
             ELSE pc' = "aborted" /\ UNCHANGED <<traces, localization>>
  /\ UNCHANGED <<verifier, progress, called_again, properties, checker, solver>>

\* The end of all_properties_verifier_with_trace_storaget::operator().  The goto
\* functions are not looked at before, so the choice among them is made here.
PropagateFatalAssertions ==
  /\ pc = "report" /\ verifier = "all_properties_with_trace_storage"
  /\ \E reach \in FatalReach :
       properties' = propagate_fatal_to_proven(properties, reach)
  /\ pc' = "done"
  /\ UNCHANGED <<verifier, progress, called_again, updated_properties, traces,
                 localization, checker, solver>>

\* The end of the other verifiers.  In report() one that stops builds its trace.
Report ==
  /\ pc = "report" /\ verifier # "all_properties_with_trace_storage"
  /\ IF verifier \notin StopOnFail \/ determine_result(properties) # "FAIL"
     THEN pc' = "done" /\ UNCHANGED <<updated_properties, traces, localization>>
     ELSE LET candidates == FailedAssertionSteps(equation, model)
              failed == equation[LastStepToKeep(equation, candidates)].property_id
          IN  IF LastStepWasKept(equation, model, candidates)
              THEN /\ traces' = [p \in {failed} |->
                                 Trace(equation, model, candidates)]
                   /\ updated_properties' = {}
                   /\ IF verifier = "stop_on_fail"
                      THEN pc' = "done" /\ UNCHANGED localization
                      ELSE StartLocalization(failed)
              ELSE /\ pc' = "aborted"
                   /\ UNCHANGED <<updated_properties, traces, localization>>
  /\ UNCHANGED <<verifier, progress, called_again, properties, checker, solver>>

\* A client may call the checker again after DONE; no verifier does.
CallAgain ==
  /\ pc = "report" /\ progress = "DONE" /\ ~called_again
  /\ called_again' = TRUE
  /\ pc' = "call"
  /\ UNCHANGED <<verifier, progress, properties, updated_properties, traces,
                 localization, checker, solver>>

Finished ==
  /\ pc \in {"done", "aborted"}
  /\ UNCHANGED vars

Verify ==
  \/ GenerateEquation
  \/ ConvertWithoutAssertions
  \/ ConvertAssertions
  \/ ConvertGoals
  \/ Call
  \/ AddConstraintFromGoals
  \/ RunPropertyDecider
  \/ PushCheck
  \/ Check
  \/ ClearAssumptions
  \/ FoundStopOnFail
  \/ FoundAllProperties
  \/ FoundAllPropertiesWithTraceStorage
  \/ FoundCoverGoals
  \/ FoundAllPropertiesWithFaultLocalization
  \/ StoreAndLocalize
  \/ PropagateFatalAssertions
  \/ Report

Next == Verify \/ CallAgain \/ Finished

Spec == Init /\ [][Next]_vars /\ WF_vars(Verify)

-----------------------------------------------------------------------------
(* Properties *)

\* A property that is FAIL is violated by an execution that satisfies the
\* assumptions before the assertion: contexts and constraints, also those the
\* fault localizer leaves behind, only restrict the executions that are considered
\* (update_properties_status_from_goals).
FailuresAreReal ==
  \A p \in DOMAIN properties : properties[p] = "FAIL" => Violable(equation, p)

\* The verdicts mean what they say: moreover, a property that is PASS is not
\* violated by any execution.
VerdictsCorrect ==
  /\ FailuresAreReal
  /\ \A p \in DOMAIN properties :
       properties[p] = "PASS" => ~Violable(equation, p)

\* When a verifier that looks for all failing properties is done, the only ones
\* left open are properties of the goto model that cannot be violated and that
\* propagate_fatal_assertions has marked because of a failure; and the overall
\* result is PASS exactly if no assertion can be violated (determine_result).
OverallResultCorrect ==
  pc = "done" =>
    /\ verifier \notin StopOnFail =>
         \A p \in DOMAIN properties :
           is_property_to_check(properties[p]) =>
             /\ verifier = "all_properties_with_trace_storage"
             /\ p \in GotoModelProperties /\ ~Violable(equation, p)
             /\ SomeProperty(properties, "FAIL")
    /\ determine_result(properties) = "PASS" <=>
         \A p \in DOMAIN properties :
           properties[p] # "ERROR" /\ ~Violable(equation, p)

\* Every trace in the storage is a counterexample for its property: it ends with
\* (or for full traces contains) an assertion of the property that its model
\* violates, and the model is an execution that satisfies the assumptions before
\* (build_goto_trace, goto_trace_storaget::insert).
TracesAreCounterexamples ==
  \A p \in DOMAIN traces :
    \E k \in traces[p].steps :
      /\ CounterexampleAt(equation, traces[p], p, k)
      /\ verifier # "cover_goals_with_trace_storage" =>
           \A i \in traces[p].steps : i <= k

\* Every property that FAILed has a trace when a verifier that stores traces is
\* done, so report() finds it (goto_trace_storaget::operator[]).
FailuresHaveTraces ==
  pc = "done" /\ verifier \notin StopOnFail \cup {"all_properties"} =>
    \A p \in DOMAIN properties :
      properties[p] = "FAIL" <=> p \in DOMAIN traces

\* No PRECONDITION or INVARIANT of the code fails: |= is only used monotonically,
\* the last step of a trace is kept and is an assertion, no property gets two
\* traces, and the SAT solver is not called after it has given up.
InvariantsHold == pc # "aborted"

\* A decided status is never revised, with one exception: after the last call of
\* the checker, propagate_fatal_assertions may take back a PASS when there is a
\* FAIL.  No FAIL and no ERROR is ever revised.
DecidedForGood ==
  [][\A p \in DOMAIN properties :
       properties[p] \in Decided =>
         \/ properties'[p] = properties[p]
         \/ /\ pc = "report" /\ verifier = "all_properties_with_trace_storage"
            /\ properties[p] = "PASS" /\ properties'[p] = "UNKNOWN"
            /\ SomeProperty(properties, "FAIL")]_vars

\* "After returning DONE, another call to operator() with the same properties will
\* return DONE and leave the properties' status unchanged"
\* (incremental_goto_checker.h): so it is in every step until the call returns.
DoneIsStable ==
  [][called_again /\ pc # "report"
       => properties' = properties /\ progress' = "DONE"]_vars

\* "repeated calls to operator() shall return when the next FAILed property has
\* been found until eventually it does not find any failing properties any more"
\* (incremental_goto_checker.h): every verifier terminates, normally unless an
\* INVARIANT fails (InvariantsHold).
Terminates == <>(pc \in {"done", "aborted"})
=============================================================================
