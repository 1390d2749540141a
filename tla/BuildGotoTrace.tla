--------------------------- MODULE BuildGotoTrace ---------------------------
(***************************************************************************)
(* Error traces (goto-symex/build_goto_trace.cpp, goto-checker/bmc_util    *)
(* .cpp, goto-programs/goto_trace.cpp), for programs without threads: the  *)
(* steps whose guard the model makes true, in the order of the equation,   *)
(* up to the last step to keep.                                            *)
(***************************************************************************)
EXTENDS GotoSymexPropertyDecider

\* ssa_step_matches_failing_property(id)
MatchesFailingProperty(eq, model, id) ==
  {i \in Asserts(eq) : /\ eq[i].property_id = id
                       /\ IsFalse(eq[i].cond_handle, model)}

\* is_failed_assertion_step
FailedAssertionSteps(eq, model) ==
  {i \in Asserts(eq) : IsFalse(eq[i].cond_handle, model)}

\* The first step of `candidates` is the last one to keep.  If there is none,
\* all steps are kept.
LastStepToKeep(eq, candidates) ==
  IF candidates = {} THEN Len(eq) + 1
  ELSE CHOOSE i \in candidates : \A j \in candidates : i <= j

\* Mutant: the last step to keep is cut off.
build_goto_trace_short(eq, model, candidates) ==
  {i \in DOMAIN eq : /\ i < LastStepToKeep(eq, candidates)
                     /\ IsTrue(eq[i].guard, model)}

\* build_goto_trace: the steps in the trace.
build_goto_trace(eq, model, candidates) ==
  {i \in DOMAIN eq : /\ i <= LastStepToKeep(eq, candidates)
                     /\ IsTrue(eq[i].guard, model)}

\* The INVARIANT of build_goto_trace: the last step to keep is not filtered out.
LastStepWasKept(eq, model, candidates) ==
  candidates # {} => IsTrue(eq[LastStepToKeep(eq, candidates)].guard, model)

\* get_last_step
get_last_step(steps) == CHOOSE i \in steps : \A j \in steps : j <= i

\* The DATA_INVARIANT of goto_trace_storaget::insert.
LastStepIsAssert(eq, steps) ==
  steps # {} /\ is_assert(eq[get_last_step(steps)])

\* Mutant: only the first failed assertion counts.
get_first_failed_property_id(eq, model, steps) ==
  LET failed == {j \in steps : /\ is_assert(eq[j])
                               /\ ~IsTrue(eq[j].cond_handle, model)}
  IN  {eq[i].property_id : i \in {j \in failed : \A k \in failed : j <= k}}

\* get_failed_property_ids
get_failed_property_ids(eq, model, steps) ==
  {eq[i].property_id : i \in {j \in steps : /\ is_assert(eq[j])
                                            /\ ~IsTrue(eq[j].cond_handle, model)}}

-----------------------------------------------------------------------------
(* goto_trace_storaget, as a function from a property to its trace *)

\* The trace build_goto_trace builds.
Trace(eq, model, candidates) ==
  [model |-> model, steps |-> build_goto_trace(eq, model, candidates)]

\* build_trace(id)
build_trace(eq, model, id) ==
  Trace(eq, model, MatchesFailingProperty(eq, model, id))

\* insert() stores a trace for the property of its last step.
PropertyOfTrace(eq, trace) == eq[get_last_step(trace.steps)].property_id

\* insert(build_trace(id)) for all id in ids passes the INVARIANTs on its way:
\* each trace ends in an assertion, whose property has no trace yet.
InsertDefined(traces, eq, model, ids) ==
  /\ \A id \in ids :
       LET trace == build_trace(eq, model, id)
       IN  /\ LastStepWasKept(eq, model, MatchesFailingProperty(eq, model, id))
           /\ LastStepIsAssert(eq, trace.steps)
           /\ PropertyOfTrace(eq, trace) \notin DOMAIN traces
  /\ \A id1, id2 \in ids :
       PropertyOfTrace(eq, build_trace(eq, model, id1))
         = PropertyOfTrace(eq, build_trace(eq, model, id2)) => id1 = id2

\* insert_all: the traces `new` are added for properties that have none.
insert_all(traces, new) ==
  [p \in DOMAIN traces \cup DOMAIN new |->
     IF p \in DOMAIN traces THEN traces[p] ELSE new[p]]

\* insert(build_trace(id)) for all id in ids.
insert(traces, eq, model, ids) ==
  LET new == {build_trace(eq, model, id) : id \in ids}
  IN  insert_all(traces,
                 [p \in {PropertyOfTrace(eq, t) : t \in new} |->
                    CHOOSE t \in new : PropertyOfTrace(eq, t) = p])

\* Step k of the trace is an assertion of the property id, and the model of the
\* trace is an execution that satisfies the assumptions before k and violates k.
CounterexampleAt(eq, trace, id, k) ==
  /\ is_assert(eq[k])
  /\ eq[k].property_id = id
  /\ Violates(eq, trace.model, k)
=============================================================================
