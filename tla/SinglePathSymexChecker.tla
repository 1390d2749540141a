----------------------- MODULE SinglePathSymexChecker -----------------------
(***************************************************************************)
(* The checker that explores one path after the other                      *)
(* (goto-checker/single_path_symex_checker.cpp), with the storage of the   *)
(* paths that are still to be explored (goto-symex/path_storage.cpp) and   *)
(* the two verifiers that drive it.                                        *)
(*                                                                         *)
(* The program is a binary tree of branches.  A node is the sequence of    *)
(* the branches taken to get there, and program[n] is the sequence of the  *)
(* steps between the branch in front of node n and the one behind it.      *)
(* Symbolic execution of a path stops at the next branch and stores a path *)
(* for both directions; each of them starts with a copy of the equation.   *)
(* Every path is decided by a decision procedure of its own.               *)
(***************************************************************************)
EXTENDS BuildGotoTrace

CONSTANTS Programs,        \* the programs, as trees of steps
          GotoModelProperties,   \* the properties of the goto model
          FatalReach,      \* what may be reached from its fatal assertions
          Verifiers,       \* the verifiers that are considered
          Strategies,      \* the values of --exploration-strategy
          SolverErrors     \* whether a decision procedure may give up

Direction == {"next", "jump"}

\* The node in front of the last branch on the way to node n.
Parent(n) == SubSeq(n, 1, Len(n) - 1)

\* Node m is on the path to node n.
Begins(m, n) == Len(m) <= Len(n) /\ SubSeq(n, 1, Len(m)) = m

ASSUME SinglePathAssumption ==
  /\ NoModel \notin Assignment
  /\ \A program \in Programs :
       /\ <<>> \in DOMAIN program
       /\ \A n \in DOMAIN program :
            /\ n \in Seq(Direction)
            /\ program[n] \in Seq(Step)
            /\ \A i \in DOMAIN program[n] :
                 LET step == program[n][i]
                 IN  /\ ~step.converted
                     /\ is_assert(step) =>
                          Assignment \ step.guard \subseteq step.cond_expr
            /\ n # <<>> => /\ Parent(n) \in DOMAIN program
                           /\ \A d \in Direction :
                                Append(Parent(n), d) \in DOMAIN program
  /\ GotoModelProperties \subseteq PropertyId
  /\ FatalReach \subseteq [PropertyId -> SUBSET GotoModelProperties]
  /\ FatalReach # {}
  /\ Verifiers \subseteq {"stop_on_fail", "all_properties_with_trace_storage"}
  /\ Strategies \subseteq {"lifo", "fifo"}
  /\ SolverErrors \in BOOLEAN

VARIABLES
  program,             \* the program
  options,             \* verifier, exploration-strategy, paths-symex-explore-all
  pc,                  \* where the verifier is
  properties,          \* propertiest
  updated_properties,  \* the FAILed ones whose trace is not stored yet
  traces,              \* the trace of a property, with the path it belongs to
  worklist,            \* the paths, each with its node and its equation
  last_peeked,         \* path_lifot: the place of the path, 0 for paths.end()
  symex_initialized,   \* the worklist has been initialised
  property_decider,    \* the path it refers to, and its goals
  explored,            \* the nodes that have been executed, in this order
  contexts, result, model   \* the decision procedure of the property decider

solver == <<contexts, result, model>>
storage == <<worklist, last_peeked>>
vars == <<program, options, pc, properties, updated_properties, traces, storage,
          symex_initialized, property_decider, explored, solver>>

SDP == INSTANCE StackDecisionProcedure WITH Assumptions <- {}

NoDecider == [node |-> <<"none">>, equation |-> <<>>, goal_map |-> <<>>]
Path(node, equation) == [node |-> node, equation |-> equation]

\* Types; last_peeked is a position of the worklist or none (peek, pop).
TypeOK ==
  /\ options \in [verifier : Verifiers, strategy : Strategies,
                  explore_all : BOOLEAN]
  /\ pc \in {"call", "resolve", "pop", "explore", "convert", "goals", "solve",
             "continue", "found", "return", "done", "aborted"}
  /\ DOMAIN properties \subseteq PropertyId
  /\ \A p \in DOMAIN properties : properties[p] \in Status
  /\ updated_properties \subseteq DOMAIN properties
  /\ DOMAIN traces \subseteq DOMAIN properties
  /\ \A i \in DOMAIN worklist : /\ worklist[i].node \in DOMAIN program
                                /\ worklist[i].equation \in Seq(Step)
  /\ last_peeked \in 0 .. Len(worklist)
  /\ symex_initialized \in BOOLEAN
  /\ property_decider # NoDecider => property_decider.node \in DOMAIN program
  /\ \A i \in DOMAIN explored : explored[i] \in DOMAIN program
  /\ SDP!SDPTypeOK

Init ==
  /\ program \in Programs
  /\ options \in [verifier : Verifiers, strategy : Strategies,
                  explore_all : BOOLEAN]
  /\ pc = "call"
  /\ properties = [p \in GotoModelProperties |-> "NOT_CHECKED"]
  /\ updated_properties = {}
  /\ traces = [p \in {} |-> 0]
  /\ worklist = <<>>
  /\ last_peeked = 0
  /\ symex_initialized = FALSE
  /\ property_decider = NoDecider
  /\ explored = <<>>
  /\ SDP!SDPInit

-----------------------------------------------------------------------------
(* path_lifot and path_fifot *)

\* private_peek(): the place of the path that is explored next.
Peek == IF options.strategy = "lifo" THEN Len(worklist) ELSE 1

\* private_pop(): path_lifot removes the path that peek() returned, which need no
\* longer be the last one.
Pop ==
  IF options.strategy = "lifo"
  THEN /\ last_peeked # 0
       /\ worklist' = SubSeq(worklist, 1, last_peeked - 1)
                         \o SubSeq(worklist, last_peeked + 1, Len(worklist))
       /\ last_peeked' = 0
  ELSE worklist' = Tail(worklist) /\ UNCHANGED last_peeked

\* The PRECONDITIONs of pop() and of path_lifot::private_pop().
PopDefined ==
  worklist # <<>> /\ (options.strategy = "lifo" => last_peeked # 0)

-----------------------------------------------------------------------------
(* Symbolic execution of one path *)

IsBranch(node) == Append(node, "next") \in DOMAIN program

\* Mutant: the goto target is pushed before the next instruction.
SavedJumpFirst(node, equation) ==
  IF IsBranch(node)
  THEN <<Path(Append(node, "jump"), equation), Path(Append(node, "next"), equation)>>
  ELSE <<>>

\* symex_goto: at a branch, the next instruction is pushed before the goto target.
SavedPaths(node, equation) ==
  IF IsBranch(node)
  THEN <<Path(Append(node, "next"), equation), Path(Append(node, "jump"), equation)>>
  ELSE <<>>

\* resume_symex_from_saved_state, up to the next branch or the end.
Resumed(path) == path.equation \o program[path.node]

\* is_ready_to_decide: get_remaining_vccs() > 0.
IsReadyToDecide(equation) == Asserts(equation) # {}

-----------------------------------------------------------------------------
(* single_path_symex_checkert::operator() *)

has_finished_exploration ==
  \/ worklist = <<>>
  \/ ~options.explore_all /\ ~has_properties_to_check(properties)

\* Mutant: properties that are open are left open.
final_update_not_checked_only == update_status_of_not_checked_properties(properties)

final_update_properties ==
  update_status_of_unknown_properties(
    update_status_of_not_checked_properties(properties))

\* "There might be more solutions from the previous equation."
CallAgain ==
  /\ pc = "call" /\ property_decider # NoDecider
  /\ SDP!SetTo(ConstraintFromGoals(property_decider.goal_map, properties), TRUE)
  /\ pc' = "resolve"
  /\ UNCHANGED <<program, options, properties, updated_properties, traces, storage,
                 symex_initialized, property_decider, explored>>

\* The first call: initialize_worklist.
CallFirst ==
  /\ pc = "call" /\ ~symex_initialized
  /\ symex_initialized' = TRUE
  /\ worklist' = <<Path(<<>>, <<>>)>>
  /\ pc' = "explore"
  /\ UNCHANGED <<program, options, properties, updated_properties, traces,
                 last_peeked, property_decider, explored, solver>>

\* run_property_decider, after which the checker returns or continues at `next`.
\* It passes set_pass = false: other paths may still violate the property.
RunPropertyDecider(next) ==
  /\ SDP!Solve(Assignment) /\ (result' = "D_ERROR" => SolverErrors)
  /\ LET goal_map == property_decider.goal_map
     IN  /\ properties' = update_properties_status_from_goals(
                            properties, goal_map, result', model', FALSE)
         /\ updated_properties' =
              IF result' = "D_SATISFIABLE"
              THEN NewlyFailed(properties, goal_map, model') ELSE {}
  /\ pc' = IF \/ result = "D_ERROR"
              \/ \E p \in updated_properties' : ~OrDefined(properties[p], "FAIL")
           THEN "aborted"
           ELSE IF result' = "D_SATISFIABLE" THEN "found" ELSE next
  /\ UNCHANGED <<program, options, traces, storage, symex_initialized,
                 property_decider, explored>>

Resolve == pc = "resolve" /\ RunPropertyDecider("pop")

\* "We pop the item processed in the previous iteration."
PopProcessed ==
  /\ pc = "pop"
  /\ IF PopDefined THEN Pop /\ pc' = "explore"
     ELSE pc' = "aborted" /\ UNCHANGED storage
  /\ UNCHANGED <<program, options, properties, updated_properties, traces,
                 symex_initialized, property_decider, explored, solver>>

\* update_properties, the new property decider, which refers to the equation of
\* the path, and the first half of symex_target_equationt::convert.
NewPropertyDecider(node, eq) ==
  /\ properties' = update_properties_status_from_symex_target_equation(
                     properties, PropertyIds(eq))
  /\ property_decider' =
       [node |-> node, equation |-> convert_without_assertions(eq),
        goal_map |-> <<>>]
  /\ contexts' = <<AssignmentsConstraint(eq)>>
  /\ result' = "none" /\ model' = NoModel

\* One iteration of the loop, up to the conversion of the equation.
ResumePath ==
  /\ pc = "explore" /\ ~has_finished_exploration
  /\ LET path == worklist[Peek]
         equation == Resumed(path)
     IN  /\ explored' = Append(explored, path.node)
         /\ last_peeked' = IF options.strategy = "lifo" THEN Peek ELSE last_peeked
         /\ worklist' = [worklist EXCEPT ![Peek].equation = equation]
                          \o SavedPaths(path.node, equation)
         /\ IF IsReadyToDecide(equation)
            THEN NewPropertyDecider(path.node, equation) /\ pc' = "convert"
            ELSE /\ pc' = "continue"
                 /\ UNCHANGED <<properties, property_decider, solver>>
  /\ UNCHANGED <<program, options, updated_properties, traces, symex_initialized>>

\* prepare_property_decider: the assertions.
ConvertAssertions ==
  /\ pc = "convert"
  /\ SDP!SetTo(AssertionsConstraint(property_decider.equation, TRUE), TRUE)
  /\ property_decider' = [property_decider EXCEPT
                            !.equation = convert_assertions(@, TRUE)]
  /\ pc' = "goals"
  /\ UNCHANGED <<program, options, properties, updated_properties, traces, storage,
                 symex_initialized, explored>>

\* prepare_property_decider and run_property_decider: the goals.
ConvertGoals ==
  /\ pc = "goals"
  /\ LET equation == property_decider.equation
         goal_map == Goals(properties, equation)
     IN  /\ properties' = PropertiesWithGoals(properties, equation)
         /\ property_decider' = [property_decider EXCEPT !.goal_map = goal_map]
         /\ SDP!SetTo(ConstraintFromGoals(goal_map, properties), TRUE)
  /\ pc' = "solve"
  /\ UNCHANGED <<program, options, updated_properties, traces, storage,
                 symex_initialized, explored>>

\* Mutant: the path is popped when the decision procedure has answered.
SolvePathAndPop ==
  /\ pc = "solve"
  /\ SDP!Solve(Assignment) /\ (result' = "D_ERROR" => SolverErrors)
  /\ LET goal_map == property_decider.goal_map
     IN  /\ properties' = update_properties_status_from_goals(
                            properties, goal_map, result', model', FALSE)
         /\ updated_properties' =
              IF result' = "D_SATISFIABLE"
              THEN NewlyFailed(properties, goal_map, model') ELSE {}
  /\ IF result' = "D_SATISFIABLE" THEN pc' = "found" /\ Pop
     ELSE pc' = "continue" /\ UNCHANGED storage
  /\ UNCHANGED <<program, options, traces, symex_initialized, property_decider,
                 explored>>

SolvePath == pc = "solve" /\ RunPropertyDecider("continue")

\* The end of the iteration: "leave the last worklist item in place".
Continue ==
  /\ pc = "continue" /\ Len(worklist) > 1
  /\ IF PopDefined THEN Pop /\ pc' = "explore"
     ELSE pc' = "aborted" /\ UNCHANGED storage
  /\ UNCHANGED <<program, options, properties, updated_properties, traces,
                 symex_initialized, property_decider, explored, solver>>

\* final_update_properties: the checker returns DONE.
Finish ==
  /\ \/ pc = "explore" /\ has_finished_exploration
     \/ pc = "continue" /\ Len(worklist) = 1
  /\ properties' = final_update_properties
  /\ pc' = "return"
  /\ UNCHANGED <<program, options, updated_properties, traces, storage,
                 symex_initialized, property_decider, explored, solver>>

-----------------------------------------------------------------------------
(* The verifiers *)

\* A trace and the path it is about.
TraceOf(trace) == [node |-> property_decider.node,
                   model |-> trace.model, steps |-> trace.steps]

\* all_properties_verifier_with_trace_storaget::operator() stores the traces of
\* all properties that have just FAILed, and calls the checker again.
StoreTraces ==
  /\ pc = "found" /\ options.verifier = "all_properties_with_trace_storage"
  /\ LET equation == property_decider.equation
         new == insert([p \in {} |-> 0], equation, model, updated_properties)
     IN  IF InsertDefined(traces, equation, model, updated_properties)
         THEN /\ traces' =
                   insert_all(traces, [p \in DOMAIN new |-> TraceOf(new[p])])
              /\ pc' = "call"
         ELSE pc' = "aborted" /\ UNCHANGED traces
  /\ updated_properties' = {}
  /\ UNCHANGED <<program, options, properties, storage, symex_initialized,
                 property_decider, explored, solver>>

\* stop_on_fail_verifiert::operator() returns, and report() builds the trace.
StopOnFail ==
  /\ pc = "found" /\ options.verifier = "stop_on_fail"
  /\ LET equation == property_decider.equation
         failed == FailedAssertionSteps(equation, model)
     IN  IF LastStepWasKept(equation, model, failed)
         THEN /\ traces' = [p \in {equation[LastStepToKeep(equation, failed)]
                                      .property_id} |->
                              TraceOf(Trace(equation, model, failed))]
              /\ pc' = "done"
         ELSE pc' = "aborted" /\ UNCHANGED traces
  /\ updated_properties' = {}
  /\ UNCHANGED <<program, options, properties, storage, symex_initialized,
                 property_decider, explored, solver>>

\* The end of all_properties_verifier_with_trace_storaget::operator(): what was
\* proven after a refuted fatal assertion becomes UNKNOWN.
PropagateFatalAssertions ==
  /\ pc = "return" /\ options.verifier = "all_properties_with_trace_storage"
  /\ \E reach \in FatalReach :
       properties' = propagate_fatal_to_proven(properties, reach)
  /\ pc' = "done"
  /\ UNCHANGED <<program, options, updated_properties, traces, storage,
                 symex_initialized, property_decider, explored, solver>>

\* stop_on_fail_verifiert has nothing to report when the checker found nothing.
ReturnDone ==
  /\ pc = "return" /\ options.verifier = "stop_on_fail"
  /\ pc' = "done"
  /\ UNCHANGED <<program, options, properties, updated_properties, traces, storage,
                 symex_initialized, property_decider, explored, solver>>

Finished == pc \in {"done", "aborted"} /\ UNCHANGED vars

Verify ==
  \/ CallAgain
  \/ CallFirst
  \/ Resolve
  \/ PopProcessed
  \/ ResumePath
  \/ ConvertAssertions
  \/ ConvertGoals
  \/ SolvePath
  \/ Continue
  \/ Finish
  \/ StoreTraces
  \/ StopOnFail
  \/ PropagateFatalAssertions
  \/ ReturnDone

Next == Verify \/ Finished

Spec == Init /\ [][Next]_vars /\ WF_vars(Verify)

-----------------------------------------------------------------------------
(* Properties *)

\* The equation of the path to node n, built without pausing.
PathEquation[n \in DOMAIN program] ==
  IF n = <<>> THEN program[n] ELSE PathEquation[Parent(n)] \o program[n]

\* Some path of the program violates property id.
ViolableOnSomePath(id) ==
  \E n \in DOMAIN program : Violable(PathEquation[n], id)

\* A property is FAIL only if some path violates it, and PASS only if no path
\* does, also those that have not been explored (set_pass,
\* final_update_properties).
VerdictsCorrect ==
  \A p \in DOMAIN properties :
    /\ properties[p] = "FAIL" => ViolableOnSomePath(p)
    /\ properties[p] = "PASS" => ~ViolableOnSomePath(p)

\* When the verifier is done, the overall result is PASS only if no assertion on
\* any path can be violated, also none that symbolic execution has not met; and
\* the verifier for all properties leaves none open but those of the goto model
\* that no path violates and that propagate_fatal_assertions has marked because of
\* a failure (determine_result).
OverallResultCorrect ==
  pc = "done" =>
    /\ options.verifier # "stop_on_fail" =>
         \A p \in DOMAIN properties :
           is_property_to_check(properties[p]) =>
             /\ p \in GotoModelProperties /\ ~ViolableOnSomePath(p)
             /\ SomeProperty(properties, "FAIL")
    /\ determine_result(properties) = "PASS" <=>
         /\ ~SomeProperty(properties, "ERROR")
         /\ \A p \in PropertyId : ~ViolableOnSomePath(p)

\* Every trace ends with an assertion of its property that its model violates on
\* the path the trace is about, and when the verifier for all properties is done,
\* exactly the FAILed properties have a trace (build_trace, report).
TracesAreCounterexamples ==
  /\ \A p \in DOMAIN traces :
       LET eq == PathEquation[traces[p].node]
       IN  traces[p].steps # {}
           /\ CounterexampleAt(eq, traces[p], p, get_last_step(traces[p].steps))
  /\ pc = "done" /\ options.verifier # "stop_on_fail" =>
       DOMAIN traces = {p \in DOMAIN properties : properties[p] = "FAIL"}

\* A trace is built from the equation the property decider refers to.  That
\* equation belongs to a path of the worklist, so the path must not have been
\* popped (build_trace, build_shortest_trace).
ReadsLiveEquation ==
  pc = "found" =>
    \E i \in DOMAIN worklist : worklist[i].node = property_decider.node

\* Nodes m and n part at their first i branches, where m goes in direction d.
PartAt(m, n, d) ==
  \E i \in DOMAIN m \cap DOMAIN n :
    /\ SubSeq(m, 1, i - 1) = SubSeq(n, 1, i - 1)
    /\ m[i] = d /\ n[i] # d

\* lifo "explores the program tree depth-first", taking the jump first; fifo
\* "breadth-first" (the help text in path_storage.cpp).  In both cases no path is
\* executed twice, although a path stays in the storage while it is executed.
ExplorationOrder ==
  \A j \in DOMAIN explored : \A i \in 1 .. j - 1 :
    LET m == explored[i]
        n == explored[j]
    IN  IF options.strategy = "lifo"
        THEN (m # n /\ Begins(m, n)) \/ PartAt(m, n, "jump")
        ELSE Len(m) < Len(n) \/ (Len(m) = Len(n) /\ PartAt(m, n, "next"))

\* No PRECONDITION or INVARIANT fails: a path is popped only after it was peeked,
\* a decision procedure that has given up is not asked again, no property gets two
\* traces, and the last step of a trace is kept.
InvariantsHold == pc # "aborted"

\* The exploration ends: the verifier gets an answer (operator() and the loops of
\* the verifiers).
Terminates == <>(pc \in {"done", "aborted"})
=============================================================================
