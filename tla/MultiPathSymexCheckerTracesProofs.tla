------------------ MODULE MultiPathSymexCheckerTracesProofs -----------------
(***************************************************************************)
(* Proofs about the traces of the verifiers without fault localization:     *)
(* they never fail an INVARIANT of the code, the traces they build are       *)
(* counterexamples, and when a verifier that stores traces is done, exactly  *)
(* the properties that FAILed have one.                                     *)
(***************************************************************************)
EXTENDS MultiPathSymexCheckerProofs

USE SMT, ZenonT(20), SMTT(60), ZenonT(60) DEF Expr

-----------------------------------------------------------------------------
(* The invariant *)

\* The verifiers considered here do not localize faults.
WithoutFaultLocalization ==
  Verifiers \cap {"stop_on_fail_with_fault_localization",
                  "all_properties_with_fault_localization"} = {}

\* Those of them that store traces.
Storing == {"all_properties_with_trace_storage", "cover_goals_with_trace_storage"}

\* A goal is met by the models that falsify its property.
GoalsAreExact ==
  /\ DOMAIN goal_map = PropertyIds(equation)
  /\ DOMAIN goal_map \subseteq DOMAIN properties
  /\ \A p \in DOMAIN goal_map, v \in Assignment :
       v \in goal_map[p] <=> Falsifies(equation, v, p)

\* The traces that are not stored yet are those of the properties that have just
\* FAILed, of which there is one.
Unstored == IF pc = "found" THEN updated_properties ELSE {}

JustFailed ==
  /\ updated_properties # {}
  /\ model \in contexts[1]
  /\ \A p \in updated_properties : p \in DOMAIN goal_map /\ model \in goal_map[p]
  /\ \A p \in DOMAIN goal_map : model \in goal_map[p] => properties[p] = "FAIL"

\* The model that the verifier that stops reads when it builds its trace.
ModelFails ==
  /\ model \in contexts[1]
  /\ \E p \in DOMAIN goal_map : model \in goal_map[p]

\* For the verifier that stops, a property is FAIL only once the checker has
\* returned FOUND_FAIL, after which nothing is solved any more.
StopInv ==
  verifier \in StopOnFail =>
    /\ SomeProperty(properties, "FAIL") =>
         progress # "DONE" /\ pc \in {"found", "report", "done"}
    /\ pc = "report" /\ progress # "DONE" => ModelFails

TraceInv ==
  /\ DoneInv
  /\ StopInv
  /\ verifier \in Verifiers
  /\ pc \notin {"store", "localize", "check", "aborted"}
  /\ GuardedAssertions(equation)
  /\ ~equation_generated => DOMAIN traces = {} /\ result = "none"
  /\ pc \in Converting =>
       \A p \in PropertyIds(equation) :
         p \in DOMAIN properties /\ properties[p] = "UNKNOWN"
  /\ equation_generated => GoalsAreExact
  /\ equation_generated /\ progress # "DONE" =>
       /\ result # "D_ERROR"
       /\ \A p \in DOMAIN goal_map : properties[p] \in {"UNKNOWN", "FAIL"}
  /\ pc = "solve" =>
       AllContexts(contexts) \subseteq ConstraintFromGoals(goal_map, properties)
  /\ pc = "found" => JustFailed
  /\ verifier \in Storing =>
       \A p \in DOMAIN properties :
         /\ properties[p] = "FAIL" <=> p \in DOMAIN traces \cup Unstored
         /\ p \in Unstored => p \notin DOMAIN traces
  /\ TracesAreCounterexamples

\* Initially there are neither goals nor traces.
LEMMA InitTrace == Init => TraceInv
<1>. SUFFICES ASSUME Init PROVE TraceInv
  OBVIOUS
<1>1. DoneInv
  BY InitDone
<1>2. DOMAIN traces = {} /\ Asserts(equation) = {} /\ result = "none"
  BY DEF Init, NoTraces, Asserts, SDP!SDPInit
<1>3. \A p \in DOMAIN properties : properties[p] = "NOT_CHECKED"
  BY DEF Init
<1>. QED
  BY <1>1, <1>2, <1>3 DEF Init, TraceInv, GuardedAssertions, Converting, Unstored,
                          TracesAreCounterexamples, StopInv, SomeProperty

\* Steps that leave the goals, the verdicts and the traces alone.
LEMMA TraceFrame ==
  ASSUME TraceInv, DoneInv', StopInv',
         UNCHANGED <<checker, properties, verifier, traces, result>>,
         progress = "DONE" => progress' = "DONE",
         pc = "found" => verifier \notin Storing,
         pc' \notin {"store", "localize", "check", "aborted", "found"} \cup Converting,
         pc' = "solve" => AllContexts(contexts')
                            \subseteq ConstraintFromGoals(goal_map, properties)
  PROVE  TraceInv'
<1>1. /\ equation' = equation /\ equation_generated' = equation_generated
      /\ goal_map' = goal_map /\ properties' = properties /\ verifier' = verifier
      /\ traces' = traces /\ result' = result
  BY DEF checker
<1>2. GoalsAreExact' = GoalsAreExact /\ TracesAreCounterexamples'
  BY <1>1 DEF GoalsAreExact, TraceInv, TracesAreCounterexamples
<1>3. Unstored' = {} /\ (verifier \in Storing => Unstored = {})
  BY DEF Unstored
<1>. QED
  BY <1>1, <1>2, <1>3 DEF TraceInv

\* The equation is one that symbolic execution produces; its properties are UNKNOWN.
LEMMA GenerateEquationTrace ==
  ASSUME TraceInv, DoneInv', GenerateEquation PROVE TraceInv'
<1>1. /\ pc = "call" /\ ~equation_generated /\ ~equation_generated'
      /\ verifier' = verifier /\ traces' = traces /\ result' = result
      /\ pc' \in {"convert", "report"} /\ (pc' = "report" => progress' = "DONE")
  BY DEF GenerateEquation, solver
<1>2. DOMAIN traces' = {} /\ result' = "none" /\ TracesAreCounterexamples'
  BY <1>1 DEF TraceInv, TracesAreCounterexamples
<1>3. Unstored' = {} /\ \A p \in DOMAIN properties' : properties'[p] # "FAIL"
  BY <1>1 DEF Unstored, DoneInv, CheckerInv
<1>4. /\ GuardedAssertions(equation')
      /\ pc' = "convert" =>
           \A p \in PropertyIds(equation') :
             p \in DOMAIN properties' /\ properties'[p] = "UNKNOWN"
  <2>1. CASE NotCalled
    <3>1. PICK eq \in Equations : equation' = eq /\ properties' = PropertiesOf(eq)
      BY <2>1 DEF GenerateEquation, NotCalled
    <3>2. GuardedAssertions(eq)
      BY CheckerAssumption DEF GuardedAssertions, Asserts
    <3>3. \A p \in PropertyIds(eq) :
            p \in DOMAIN properties' /\ properties'[p] = "UNKNOWN"
      BY <2>1, <3>1, GeneratedStatus, Zenon DEF NotCalled, StatusOr
    <3>. QED
      BY <3>1, <3>2, <3>3
  <2>2. CASE DecidedEarly
    BY <2>2, GenerateAgain DEF TraceInv, DoneInv
  <2>. QED
    BY <1>1, <2>1, <2>2 DEF TraceInv, DoneInv, CheckerInv, ToConvert, ToConvertAssertions
<1>5. StopInv'
  BY <1>1, <1>3 DEF StopInv, SomeProperty
<1>. QED
  BY <1>1, <1>2, <1>3, <1>4, <1>5 DEF TraceInv, Converting

\* Conversion leaves the guards and the properties of the equation.
LEMMA ConvertTrace ==
  ASSUME TraceInv, DoneInv', ConvertWithoutAssertions \/ ConvertAssertions
  PROVE  TraceInv'
<1>1. /\ pc \in {"convert", "convert_assertions"}
      /\ pc' \in {"convert_assertions", "convert_goals"}
      /\ verifier' = verifier /\ traces' = traces /\ result' = result
      /\ properties' = properties /\ equation_generated' = equation_generated
  BY Zenon DEF ConvertWithoutAssertions, ConvertAssertions, SDP!SetTo
<1>2. ~equation_generated /\ equation \in Seq(Step)
  BY <1>1 DEF TraceInv, DoneInv, CheckerInv, Converting
<1>3. SameSteps(equation, equation')
  <2>1. CASE ConvertWithoutAssertions
    BY <1>2, <2>1, ConvertedWithoutAssertions DEF ConvertWithoutAssertions
  <2>2. CASE ConvertAssertions
    <3>1. ToConvertAssertions
      BY <1>2, <2>2 DEF ConvertAssertions, TraceInv, DoneInv, CheckerInv, NotCalled,
                        ToConvert, DecidedEarly
    <3>2. {} \in SUBSET Assignment /\ \A v \in {} : Execution(equation, v)
      OBVIOUS
    <3>3. SameSteps(equation, convert_assertions(equation, TRUE))
      BY <1>2, <3>1, <3>2, ConvertedAssertions, Zenon DEF ToConvertAssertions
    <3>. QED
      BY <2>2, <3>3, Zenon DEF ConvertAssertions
  <2>. QED
    BY <2>1, <2>2
<1>4. Asserts(equation') = Asserts(equation) /\ PropertyIds(equation') = PropertyIds(equation)
  BY <1>2, <1>3, SameMeaning
<1>5. GuardedAssertions(equation')
  BY <1>3, <1>4 DEF TraceInv, GuardedAssertions, SameSteps, Asserts
<1>6. \A p \in PropertyIds(equation') :
        p \in DOMAIN properties' /\ properties'[p] = "UNKNOWN"
  BY <1>1, <1>4 DEF TraceInv, Converting
<1>7. Unstored' = {} /\ Unstored = {} /\ TracesAreCounterexamples'
  BY <1>1, <1>2 DEF Unstored, TraceInv, TracesAreCounterexamples
<1>8. StopInv'
  BY <1>1, <1>2 DEF TraceInv, DoneInv, CheckerInv, StopInv, SomeProperty
<1>. QED
  BY <1>1, <1>2, <1>5, <1>6, <1>7, <1>8 DEF TraceInv

\* Every property of the equation gets a goal.
LEMMA ConvertGoalsTrace == ASSUME TraceInv, DoneInv', ConvertGoals PROVE TraceInv'
<1>1. /\ pc = "convert_goals" /\ pc' = "run" /\ equation' = equation
      /\ equation_generated' /\ verifier' = verifier /\ traces' = traces /\ result' = result
      /\ properties' = PropertiesWithGoals(properties, equation)
      /\ goal_map' = Goals(properties, equation)
  BY DEF ConvertGoals, solver
<1>2. ~equation_generated
  BY <1>1 DEF TraceInv, DoneInv, CheckerInv, Converting
<1>3. \A p \in PropertyIds(equation) :
        p \in DOMAIN properties /\ properties[p] = "UNKNOWN"
  BY <1>1 DEF TraceInv, Converting
<1>4. GoalIds(properties, equation) = PropertyIds(equation)
  BY <1>3 DEF GoalIds, is_property_to_check
<1>5. /\ GoalsAreExact'
      /\ \A p \in DOMAIN goal_map' : properties'[p] \in {"UNKNOWN", "FAIL"}
  BY <1>1, <1>3, <1>4
  DEF GoalsAreExact, Goals, Falsifies, PropertiesWithGoals, StatusOr
<1>6. /\ DOMAIN traces' = {} /\ result' # "D_ERROR" /\ TracesAreCounterexamples'
      /\ Unstored' = {}
  BY <1>1, <1>2 DEF TraceInv, TracesAreCounterexamples, Unstored
<1>7. \A p \in DOMAIN properties' : properties'[p] # "FAIL"
  BY <1>1, <1>2 DEF TraceInv, DoneInv, CheckerInv, PropertiesWithGoals, StatusOr
<1>8. StopInv'
  BY <1>1, <1>7 DEF StopInv, SomeProperty
<1>. QED
  BY <1>1, <1>5, <1>6, <1>7, <1>8 DEF TraceInv, Converting

\* A run of the decision procedure: what FAILs now is what the model falsifies.
LEMMA RunPropertyDeciderTrace ==
  ASSUME TraceInv, DoneInv', RunPropertyDecider PROVE TraceInv'
<1>. DEFINE new == NewlyFailed(properties, goal_map, model')
<1>1. /\ pc = "solve" /\ SDP!Solve(Assignment) /\ UNCHANGED checker
      /\ verifier' = verifier /\ traces' = traces
      /\ properties' = update_properties_status_from_goals(
                          properties, goal_map, result', model', TRUE)
      /\ progress' = IF result' = "D_SATISFIABLE" THEN "FOUND_FAIL" ELSE "DONE"
      /\ updated_properties' = IF result' = "D_SATISFIABLE" THEN new ELSE {}
  BY DEF RunPropertyDecider, Decide
<1>2. /\ equation_generated /\ progress # "DONE" /\ ContextStack(contexts)
      /\ GoalsAreExact /\ Unstored = {}
      /\ result # "D_ERROR"
      /\ \A p \in DOMAIN goal_map : properties[p] \in {"UNKNOWN", "FAIL"}
  BY <1>1 DEF TraceInv, DoneInv, CheckerInv, NotCalled, ToConvert,
              ToConvertAssertions, DecidedEarly, AfterDone, Unstored
<1>3. /\ equation' = equation /\ equation_generated' /\ goal_map' = goal_map
  BY <1>1, <1>2 DEF checker
<1>4. \A p \in new : p \in DOMAIN goal_map /\ properties[p] = "UNKNOWN"
  BY <1>2 DEF NewlyFailed
<1>5. pc' = IF result' = "D_SATISFIABLE" THEN "found" ELSE "report"
  <2>1. \A p \in updated_properties' : OrDefined(properties[p], "FAIL")
    BY <1>1, <1>4 DEF OrDefined
  <2>. QED
    BY <1>2, <2>1 DEF RunPropertyDecider, Decide
<1>6. TracesAreCounterexamples'
  BY <1>1, <1>3 DEF TraceInv, TracesAreCounterexamples
<1>7. CASE result' = "D_SATISFIABLE"
  <2>. HIDE DEF new
  <2>1. /\ model' \in AllContexts(contexts) /\ contexts'[1] = contexts[1]
    BY <1>1, <1>2, <1>7, SolverSteps
  <2>2. model' \in contexts'[1] /\ model' \in Assignment /\ model' # NoModel
    BY <1>2, <2>1, ConjunctionInRoot, CheckerAssumption
  <2>3. \A p : p \in new <=>
           p \in DOMAIN goal_map /\ model' \in goal_map[p] /\ properties[p] # "FAIL"
    BY <2>2 DEF new, NewlyFailed, IsTrue
  <2>4. new # {}
    <3>1. model' \in ConstraintFromGoals(goal_map, properties)
      BY <1>1, <2>1 DEF TraceInv
    <3>. QED
      BY <2>3, <3>1 DEF ConstraintFromGoals, is_property_to_check
  <2>5. /\ DOMAIN properties' = DOMAIN properties
        /\ \A p \in DOMAIN properties :
             properties'[p] = IF p \in new THEN StatusOr(properties[p], "FAIL")
                              ELSE properties[p]
    BY <1>1, <1>7 DEF update_properties_status_from_goals, new
  <2>6. \A p \in DOMAIN properties :
          /\ p \in new => properties'[p] = "FAIL"
          /\ p \notin new => properties'[p] = properties[p]
    BY <1>4, <2>5 DEF StatusOr
  <2>7. GoalsAreExact'
    BY <1>2, <1>3, <2>5 DEF GoalsAreExact
  <2>8. \A p \in DOMAIN goal_map : properties'[p] \in {"UNKNOWN", "FAIL"}
    BY <1>2, <2>6 DEF GoalsAreExact
  <2>9. JustFailed'
    <3>1. ASSUME NEW p \in DOMAIN goal_map, model' \in goal_map[p]
          PROVE  properties'[p] = "FAIL"
      BY <1>2, <2>3, <2>6, <3>1 DEF GoalsAreExact
    <3>. QED
      BY <1>1, <1>3, <1>7, <2>2, <2>3, <2>4, <3>1, Zenon DEF JustFailed
  <2>10. Unstored' = new
    BY <1>1, <1>5, <1>7 DEF Unstored
  <2>11. ASSUME verifier \in Storing, NEW p \in DOMAIN properties'
         PROVE  /\ properties'[p] = "FAIL" <=> p \in DOMAIN traces' \cup Unstored'
                /\ p \in Unstored' => p \notin DOMAIN traces'
    <3>1. properties[p] = "FAIL" <=> p \in DOMAIN traces
      BY <1>2, <2>5, <2>11 DEF TraceInv
    <3>. QED
      BY <1>1, <2>3, <2>5, <2>6, <2>10, <3>1, Zenon
  <2>12. StopInv'
    BY <1>1, <1>5, <1>7 DEF StopInv
  <2>. QED
    BY <1>1, <1>2, <1>3, <1>5, <1>6, <1>7, <2>7, <2>8, <2>9, <2>11, <2>12, Zenon DEF TraceInv,
       Converting
<1>8. CASE result' # "D_SATISFIABLE"
  <2>1. /\ DOMAIN properties' = DOMAIN properties
        /\ \A p \in DOMAIN properties : properties'[p] = "FAIL" <=> properties[p] = "FAIL"
    BY <1>1, <1>8 DEF update_properties_status_from_goals, Replace
  <2>2. GoalsAreExact' /\ Unstored' = {} /\ progress' = "DONE"
    BY <1>1, <1>2, <1>3, <1>5, <1>8, <2>1, Zenon DEF GoalsAreExact, Unstored
  <2>3. StopInv'
    BY <1>1, <2>1, <2>2, Zenon DEF TraceInv, StopInv, SomeProperty
  <2>. QED
    BY <1>1, <1>2, <1>3, <1>5, <1>6, <1>8, <2>1, <2>2, <2>3, Zenon DEF TraceInv, Converting
<1>. QED
  BY <1>7, <1>8

\* The model the verifier reads tells violations from the handles.
LEMMA ModelIsGood ==
  ASSUME TraceInv, equation_generated, model \in contexts[1]
  PROVE  GoodModel(equation, model)
<1>1. /\ SoundHandles(equation, contexts[1]) /\ equation \in Seq(Step)
      /\ GuardedAssertions(equation) /\ ContextStack(contexts)
  BY DEF TraceInv, DoneInv, CheckerInv
<1>2. model \in Assignment
  BY <1>1, ConjunctionInRoot
<1>. QED
  BY <1>1, <1>2, CheckerAssumption DEF GoodModel, SoundHandles

\* When a failure is found, it is the model of properties that have just FAILed.
LEMMA FoundModel ==
  ASSUME TraceInv, pc = "found"
  PROVE  /\ equation_generated /\ GoalsAreExact /\ JustFailed
         /\ GoodModel(equation, model)
         /\ progress # "DONE"
<1>1. equation_generated /\ progress # "DONE"
  BY DEF TraceInv, DoneInv, CheckerInv, NotCalled, ToConvert,
         ToConvertAssertions, DecidedEarly, AfterDone
<1>2. GoalsAreExact /\ JustFailed
  BY <1>1 DEF TraceInv
<1>. QED
  BY <1>1, <1>2, ModelIsGood DEF JustFailed

\* After the traces are stored, with what the new traces must satisfy.
LEMMA StoredFrame ==
  ASSUME TraceInv, DoneInv', pc = "found", pc' = "call", verifier \notin StopOnFail,
         UNCHANGED <<checker, properties, verifier, progress, result>>,
         verifier \in Storing =>
           \A p \in DOMAIN properties : properties[p] = "FAIL" <=> p \in DOMAIN traces',
         TracesAreCounterexamples'
  PROVE  TraceInv'
<1>1. /\ equation' = equation /\ equation_generated' = equation_generated
      /\ goal_map' = goal_map /\ properties' = properties /\ verifier' = verifier
      /\ result' = result /\ progress' = progress
  BY DEF checker
<1>2. equation_generated /\ GoalsAreExact /\ GoalsAreExact' /\ Unstored' = {}
  BY <1>1, FoundModel DEF GoalsAreExact, Unstored
<1>3. StopInv'
  BY <1>1 DEF StopInv
<1>. QED
  BY <1>1, <1>2, <1>3 DEF TraceInv, Converting

\* all_properties_verifier_with_trace_storaget
LEMMA FoundWithTraceStorageTrace ==
  ASSUME TraceInv, DoneInv', FoundAllPropertiesWithTraceStorage PROVE TraceInv'
<1>1. /\ pc = "found" /\ verifier = "all_properties_with_trace_storage"
      /\ UNCHANGED <<checker, properties, verifier, progress, result>>
      /\ InsertDefined(traces, equation, model, updated_properties) =>
           /\ traces' = insert(traces, equation, model, updated_properties)
           /\ pc' = "call"
  BY DEF FoundAllPropertiesWithTraceStorage, solver
<1>2. GoalsAreExact /\ JustFailed /\ GoodModel(equation, model)
  BY <1>1, FoundModel
<1>3. verifier \in Storing \ StopOnFail /\ Unstored = updated_properties
  BY <1>1 DEF Storing, StopOnFail, Unstored
<1>4. \A p \in DOMAIN properties :
        /\ properties[p] = "FAIL" <=> p \in DOMAIN traces \cup updated_properties
        /\ p \in updated_properties => p \notin DOMAIN traces
  BY <1>3 DEF TraceInv
<1>5. \A p \in updated_properties :
        Falsifies(equation, model, p) /\ p \notin DOMAIN traces
  BY <1>2, <1>4 DEF GoalsAreExact, JustFailed, GoodModel
<1>6. Counterexamples(equation, traces, FALSE)
  BY <1>1 DEF TraceInv, TracesAreCounterexamples, Counterexamples
<1>7. /\ pc' = "call"
      /\ DOMAIN traces' = DOMAIN traces \cup updated_properties
      /\ Counterexamples(equation, traces', FALSE)
  <2>1. /\ InsertDefined(traces, equation, model, updated_properties)
        /\ DOMAIN insert(traces, equation, model, updated_properties)
             = DOMAIN traces \cup updated_properties
        /\ Counterexamples(equation,
             insert(traces, equation, model, updated_properties), FALSE)
        /\ TracesAdded(insert(traces, equation, model, updated_properties), traces,
             equation, model, updated_properties)
    BY <1>2, <1>5, <1>6, Inserted, Zenon
  <2>. QED
    BY <1>1, <2>1, Zenon
<1>8. TracesAreCounterexamples'
  <2>1. equation' = equation /\ verifier' = verifier
    BY <1>1 DEF checker
  <2>. QED
    BY <1>7, <2>1 DEF TracesAreCounterexamples, Counterexamples
<1>. QED
  BY <1>1, <1>3, <1>4, <1>7, <1>8, StoredFrame

\* cover_goals_verifier_with_trace_storaget
LEMMA FoundCoverGoalsTrace ==
  ASSUME TraceInv, DoneInv', FoundCoverGoals PROVE TraceInv'
<1>. DEFINE t == Trace(equation, model, {})
            ids == get_failed_property_ids(equation, model, t.steps)
            new == [p \in ids |-> t]
<1>1. /\ pc = "found" /\ verifier = "cover_goals_with_trace_storage"
      /\ UNCHANGED <<checker, properties, verifier, progress, result>>
      /\ ids # {} => traces' = insert_all(traces, new) /\ pc' = "call"
  BY DEF FoundCoverGoals, solver
<1>2. GoalsAreExact /\ JustFailed /\ GoodModel(equation, model)
  BY <1>1, FoundModel
<1>3. verifier \in Storing \ StopOnFail /\ Unstored = updated_properties
  BY <1>1 DEF Storing, StopOnFail, Unstored
<1>4. \A p \in DOMAIN properties :
        properties[p] = "FAIL" <=> p \in DOMAIN traces \cup updated_properties
  BY <1>3 DEF TraceInv
<1>5. /\ \A p : p \in ids <=> Falsifies(equation, model, p)
      /\ \A p \in ids : \E k \in t.steps : CounterexampleAt(equation, t, p, k)
  BY <1>2, FullTrace
<1>. HIDE DEF t, ids
<1>6. updated_properties \subseteq ids /\ ids # {}
  BY <1>2, <1>5 DEF GoalsAreExact, JustFailed, GoodModel
<1>7. ASSUME NEW p \in ids PROVE p \in DOMAIN properties /\ properties[p] = "FAIL"
  <2>1. p \in DOMAIN goal_map
    BY <1>2, <1>5 DEF GoalsAreExact, Falsifies, PropertyIds
  <2>2. model \in goal_map[p]
    BY <1>2, <1>5, <2>1 DEF GoalsAreExact, GoodModel
  <2>. QED
    BY <1>2, <2>1, <2>2 DEF GoalsAreExact, JustFailed
<1>8. /\ pc' = "call" /\ DOMAIN traces' = DOMAIN traces \cup ids
      /\ \A p \in DOMAIN traces : traces'[p] = traces[p]
      /\ \A p \in ids : p \notin DOMAIN traces => traces'[p] = t
  BY <1>1, <1>6 DEF insert_all
<1>9. \A p \in DOMAIN properties : properties[p] = "FAIL" <=> p \in DOMAIN traces'
  BY <1>4, <1>6, <1>7, <1>8
<1>10. TracesAreCounterexamples'
  <2>1. equation' = equation /\ verifier' = "cover_goals_with_trace_storage"
    BY <1>1 DEF checker
  <2>2. \A p \in DOMAIN traces :
          \E k \in traces[p].steps : CounterexampleAt(equation, traces[p], p, k)
    BY DEF TraceInv, TracesAreCounterexamples
  <2>. QED
    BY <1>5, <1>8, <2>1, <2>2 DEF TracesAreCounterexamples
<1>. QED
  BY <1>1, <1>3, <1>8, <1>9, <1>10, StoredFrame

\* stop_on_fail_verifiert::report builds one trace, which ends with the first
\* assertion that the model of the checker's only answer violates.
LEMMA ReportStopTrace ==
  ASSUME TraceInv, ResultInv, DoneInv', Report, IsFiniteSet(PropertyId),
         verifier = "stop_on_fail", determine_result(properties) = "FAIL"
  PROVE  TraceInv'
<1>. DEFINE F == FailedAssertionSteps(equation, model)
            k == LastStepToKeep(equation, F)
            t == Trace(equation, model, F)
<1>1. pc = "report" /\ UNCHANGED <<checker, properties, verifier, progress, solver>>
  BY DEF Report
<1>2. SomeProperty(properties, "FAIL")
  <2>1. IsFiniteSet(DOMAIN properties) /\ \A p \in DOMAIN properties : properties[p] \in Status
    BY FiniteSubset DEF ResultInv
  <2>. QED
    BY <2>1, DetermineResult DEF SomeProperty
<1>3. equation_generated /\ progress # "DONE" /\ ModelFails
  BY <1>1, <1>2 DEF TraceInv, StopInv, StopOnFail, SomeProperty, DoneInv, CheckerInv
<1>4. GoodModel(equation, model) /\ GoalsAreExact
  BY <1>3, ModelIsGood DEF ModelFails, TraceInv
<1>5. PICK p \in DOMAIN goal_map : model \in goal_map[p]
  BY <1>3 DEF ModelFails
<1>6. Falsifies(equation, model, p)
  BY <1>4, <1>5 DEF GoalsAreExact, GoodModel
<1>7. /\ LastStepWasKept(equation, model, F)
      /\ t.steps \subseteq Nat /\ k \in t.steps /\ \A i \in t.steps : i <= k
      /\ CounterexampleAt(equation, t, equation[k].property_id, k)
      /\ t.model = model
  BY <1>4, <1>6, FirstFailure
<1>8. traces' = [id \in {equation[k].property_id} |-> t] /\ pc' = "done"
  BY <1>1, <1>7 DEF Report, StopOnFail
<1>. HIDE DEF F, k, t
<1>9. /\ equation' = equation /\ equation_generated' = equation_generated
      /\ goal_map' = goal_map /\ properties' = properties /\ verifier' = verifier
      /\ result' = result /\ progress' = progress
  BY <1>1 DEF checker, solver
<1>10. TracesAreCounterexamples'
  <2>1. DOMAIN traces' = {equation[k].property_id} /\ traces'[equation[k].property_id] = t
    BY <1>8
  <2>. QED
    BY <1>7, <1>9, <2>1 DEF TracesAreCounterexamples
<1>11. GoalsAreExact' /\ StopInv' /\ verifier' \notin Storing
  BY <1>3, <1>4, <1>8, <1>9 DEF GoalsAreExact, StopInv, Storing
<1>. QED
  BY <1>3, <1>8, <1>9, <1>10, <1>11 DEF TraceInv, Converting

\* The other steps.  The fault localizer does not run.
LEMMA OtherStepsTrace ==
  ASSUME TraceInv, ResultInv, DoneInv', Next,
         WithoutFaultLocalization, IsFiniteSet(PropertyId),
         ~GenerateEquation, ~ConvertWithoutAssertions, ~ConvertAssertions,
         ~ConvertGoals, ~RunPropertyDecider, ~FoundAllPropertiesWithTraceStorage,
         ~FoundCoverGoals
  PROVE  TraceInv'
<1>0. verifier \in StopOnFail => verifier = "stop_on_fail"
  BY DEF TraceInv, WithoutFaultLocalization, StopOnFail
<1>1. CASE Call
  <2>1. /\ pc = "call" /\ pc' \in {"run", "report"} /\ progress' \in {progress, "DONE"}
        /\ UNCHANGED <<checker, properties, verifier, traces, result>>
    BY <1>1 DEF Call, solver
  <2>2. pc' = "report" => progress' = "DONE"
    BY <1>1 DEF Call
  <2>3. StopInv'
    BY <2>1, <2>2 DEF TraceInv, StopInv, SomeProperty
  <2>. QED
    BY <2>1, <2>3, TraceFrame DEF Converting
<1>2. CASE AddConstraintFromGoals
  <2>. DEFINE e == ConstraintFromGoals(goal_map, properties)
  <2>1. /\ pc = "run" /\ pc' = "solve" /\ SDP!SetTo(e, TRUE) /\ progress' = progress
        /\ UNCHANGED <<checker, properties, verifier, traces>>
    BY <1>2, Zenon DEF AddConstraintFromGoals
  <2>2. result' = result
    BY <2>1 DEF SDP!SetTo
  <2>3. e \in Expr /\ ContextStack(contexts)
    BY DEF ConstraintFromGoals, TraceInv, DoneInv, CheckerInv
  <2>. HIDE DEF e
  <2>4. AllContexts(contexts') \subseteq e
    BY <2>1, <2>3, SolverSteps, Zenon
  <2>5. StopInv'
    BY <2>1 DEF TraceInv, StopInv, SomeProperty
  <2>. QED
    BY <2>1, <2>2, <2>4, <2>5, TraceFrame DEF Converting, e
<1>3. CASE PushCheck \/ Check \/ ClearAssumptions \/ StoreAndLocalize
  BY <1>3 DEF PushCheck, Check, ClearAssumptions, StoreAndLocalize, TraceInv
<1>4. CASE FoundAllPropertiesWithFaultLocalization
  BY <1>4 DEF FoundAllPropertiesWithFaultLocalization, TraceInv, WithoutFaultLocalization
<1>9. CASE FoundStopOnFail
  <2>1. /\ pc = "found" /\ pc' = "report" /\ verifier \in StopOnFail
        /\ progress' = progress /\ model' = model /\ contexts' = contexts
        /\ UNCHANGED <<checker, properties, verifier, traces, result>>
    BY <1>9 DEF FoundStopOnFail, solver
  <2>2. progress # "DONE" /\ JustFailed
    BY <2>1, FoundModel
  <2>3. ModelFails'
    BY <2>1, <2>2 DEF ModelFails, JustFailed, checker
  <2>4. StopInv' /\ verifier \notin Storing
    BY <2>1, <2>2, <2>3 DEF StopInv, StopOnFail, Storing
  <2>. QED
    BY <2>1, <2>4, TraceFrame DEF Converting
<1>5. CASE FoundAllProperties
  <2>1. /\ pc' = "call" /\ verifier \notin Storing /\ progress' = progress
        /\ UNCHANGED <<checker, properties, verifier, traces, result>>
    BY <1>5 DEF FoundAllProperties, Storing, solver
  <2>2. StopInv'
    BY <1>5 DEF FoundAllProperties, StopInv, StopOnFail
  <2>. QED
    BY <2>1, <2>2, TraceFrame DEF Converting
<1>6. CASE /\ Report
           /\ verifier \notin StopOnFail \/ determine_result(properties) # "FAIL"
  <2>1. /\ pc = "report" /\ pc' = "done" /\ progress' = progress
        /\ UNCHANGED <<checker, properties, verifier, traces, result>>
    BY <1>6 DEF Report, solver
  <2>2. StopInv'
    BY <2>1 DEF TraceInv, StopInv, SomeProperty
  <2>. QED
    BY <2>1, <2>2, TraceFrame DEF Converting
<1>10. CASE /\ Report
            /\ verifier \in StopOnFail /\ determine_result(properties) = "FAIL"
  BY <1>0, <1>10, ReportStopTrace
<1>7. CASE CallAgain
  <2>1. /\ pc = "report" /\ pc' = "call" /\ progress' = progress
        /\ UNCHANGED <<checker, properties, verifier, traces, result>>
    BY <1>7 DEF CallAgain, solver
  <2>2. StopInv'
    BY <1>7, <2>1 DEF CallAgain, TraceInv, StopInv, SomeProperty
  <2>. QED
    BY <2>1, <2>2, TraceFrame DEF Converting
<1>8. CASE Finished
  <2>1. /\ pc \in {"done", "aborted"} /\ pc' = pc /\ progress' = progress
        /\ UNCHANGED <<checker, properties, verifier, traces, result>>
    BY <1>8 DEF Finished, vars, solver
  <2>2. pc' = "done"
    BY <2>1 DEF TraceInv
  <2>3. StopInv'
    BY <2>1, <2>2 DEF TraceInv, StopInv, SomeProperty
  <2>. QED
    BY <2>1, <2>2, <2>3, TraceFrame DEF Converting
<1>11. CASE PropagateFatalAssertions
  <2>1. /\ pc = "report" /\ pc' = "done" /\ DOMAIN properties' = DOMAIN properties
        /\ verifier = "all_properties_with_trace_storage"
        /\ UNCHANGED <<checker, verifier, traces, progress, result>>
    BY <1>11, PropagatedStatus DEF solver
  <2>2. progress = "DONE"
    BY <2>1 DEF ResultInv, StopOnFail
  <2>3. \A p \in DOMAIN properties : properties'[p] = "FAIL" <=> properties[p] = "FAIL"
    BY <1>11, PropagatedStatus
  <2>4. equation_generated => GoalsAreExact'
    BY <2>1 DEF TraceInv, GoalsAreExact, checker
  <2>5. StopInv' /\ TracesAreCounterexamples'
    BY <2>1 DEF StopInv, StopOnFail, TraceInv, TracesAreCounterexamples, checker
  <2>. QED
    BY <2>1, <2>2, <2>3, <2>4, <2>5 DEF TraceInv, Unstored, Converting, checker
<1>. QED
  BY <1>1, <1>2, <1>3, <1>4, <1>5, <1>6, <1>7, <1>8, <1>9, <1>10, <1>11 DEF Next, Verify

\* A stuttering step changes nothing.
LEMMA StutterTrace == ASSUME TraceInv, DoneInv', UNCHANGED vars PROVE TraceInv'
<1>1. UNCHANGED <<checker, properties, verifier, traces, progress, pc,
                  updated_properties, result, model, contexts>>
  BY DEF vars, solver
<1>2. StopInv'
  BY <1>1 DEF TraceInv, StopInv, SomeProperty, ModelFails, checker
<1>. QED
  BY <1>1, <1>2 DEF checker, TraceInv, GoalsAreExact, JustFailed, Unstored,
                    TracesAreCounterexamples

\* The invariant holds for these verifiers.
LEMMA TraceInvariant ==
  IsFiniteSet(PropertyId) /\ WithoutFaultLocalization => (Spec => []TraceInv)
<1>. SUFFICES ASSUME IsFiniteSet(PropertyId), WithoutFaultLocalization
              PROVE  Spec => []TraceInv
  OBVIOUS
<1>0. "all_properties_with_fault_localization" \notin Verifiers
  BY DEF WithoutFaultLocalization
<1>1. TraceInv /\ ResultInv /\ [Next]_vars => TraceInv'
  <2>1. TraceInv => DoneInv
    BY DEF TraceInv
  <2>. QED
    BY <2>1, DoneStep, GenerateEquationTrace, ConvertTrace, ConvertGoalsTrace,
       RunPropertyDeciderTrace, FoundWithTraceStorageTrace, FoundCoverGoalsTrace,
       OtherStepsTrace, StutterTrace
<1>2. PassInv /\ [Next]_vars => PassInv'
  BY <1>0, PassStep
<1>3. ResultInv /\ PassInv /\ DoneInv /\ [Next]_vars => ResultInv'
  BY <1>0, ResultStep
<1>. QED
  BY <1>1, <1>2, <1>3, InitTrace, InitResult, InitPass, InitDone, DoneStep, PTL DEF Spec

(***************************************************************************)
(* No PRECONDITION and no INVARIANT of the code fails in a verifier without  *)
(* fault localization, also when the SAT solver gives up: |=                 *)
(* is used monotonically, the last step of a trace is kept and is an         *)
(* assertion, no property gets two traces, and the solver is not called      *)
(* after it has given up.                                                  *)
(***************************************************************************)
THEOREM InvariantsProved ==
  IsFiniteSet(PropertyId) /\ WithoutFaultLocalization => (Spec => []InvariantsHold)
<1>1. TraceInv => InvariantsHold
  BY DEF TraceInv, InvariantsHold
<1>. QED
  BY <1>1, TraceInvariant, PTL

(***************************************************************************)
(* Every trace such a verifier builds is a counterexample for its property   *)
(* (build_goto_trace, goto_trace_storaget::insert and insert_all, and        *)
(* stop_on_fail_verifiert::report).                                         *)
(***************************************************************************)
THEOREM TracesProved ==
  IsFiniteSet(PropertyId) /\ WithoutFaultLocalization => (Spec => []TracesAreCounterexamples)
<1>1. TraceInv => TracesAreCounterexamples
  BY DEF TraceInv
<1>. QED
  BY <1>1, TraceInvariant, PTL

(***************************************************************************)
(* When such a verifier that stores traces is done, exactly the properties   *)
(* that FAILed have a trace, so report() finds it                           *)
(* (goto_trace_storaget::operator[]).                                       *)
(***************************************************************************)
THEOREM FailuresHaveTracesProved ==
  IsFiniteSet(PropertyId) /\ WithoutFaultLocalization => (Spec => []FailuresHaveTraces)
<1>. SUFFICES ASSUME IsFiniteSet(PropertyId), WithoutFaultLocalization
              PROVE  Spec => []FailuresHaveTraces
  OBVIOUS
<1>1. TraceInv => FailuresHaveTraces
  <2>. SUFFICES ASSUME TraceInv PROVE FailuresHaveTraces
    OBVIOUS
  <2>1. verifier \notin StopOnFail \cup {"all_properties"} => verifier \in Storing
    BY CheckerAssumption DEF TraceInv, Storing, StopOnFail, WithoutFaultLocalization
  <2>. QED
    BY <2>1 DEF TraceInv, FailuresHaveTraces, Unstored
<1>. QED
  BY <1>1, TraceInvariant, PTL
=============================================================================
