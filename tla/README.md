# CBMC in TLA+

CBMC checks the assertions of a program by bounded model checking.  Symbolic
execution turns the program into an equation in single static assignment form, a
decision procedure is asked for an execution that violates an assertion, and a
verifier turns the answers into a verdict for every property.  This project
models the parts that have to get a *sequence* right: the verifiers, the checkers
they drive again and again, the incremental decision procedures under them, the
encoding of threads as partial orders, and the initialisation of Java classes by
several threads.

## 1. Inventory

| Part | State | Operations | Hard behaviours |
| --- | --- | --- | --- |
| `solvers/prop/prop_conv_solver.cpp` | clauses, `assumption_stack`, `context_size_stack`, `context_literal_counter` | `set_to`, `push()`, `push(assumptions)`, `pop`, `dec_solve` | clauses are never removed; contexts of size 0, 1, n; resource limits; `bad_alloc` between push and pop |
| `solvers/sat/satcheck_minisat2.cpp` | status, model | `do_prop_solve`, `l_get` | stale model after an early UNSAT; no call is allowed after an error |
| `goto-checker/properties.cpp`, `bmc_util.cpp` | `propertiest` | `\|=`, `&=`, `determine_result`, updates from the equation | order of updates, order of the fold |
| `goto-symex/symex_target_equation.cpp` | `SSA_steps` with `converted`, `cond_handle` | `convert_*` | assumptions before and after an assertion; the encoding for one assertion; repeated conversion |
| `goto-checker/goto_symex_property_decider.cpp` | `goal_map` | `convert_goals`, `add_constraint_from_goals`, `update_properties_status_from_goals` | one model violates several properties |
| `goto-symex/build_goto_trace.cpp`, `goto-checker/goto_trace_storage.cpp` | traces by property | `build_goto_trace`, `insert`, `insert_all` | the model is read after the call that produced it |
| `goto-checker/multi_path_symex_checker.cpp` | `equation_generated` | `operator()` | repeated calls, calls after DONE |
| the `*_verifier*.h` | properties, traces | `operator()`, `report()` | termination, fault localization between two calls |
| `goto-checker/goto_symex_fault_localizer.cpp` | contexts of the solver | `operator()` | contexts left behind, solver errors |
| `goto-checker/single_loop_incremental_symex_checker.cpp` | `initial_equation_generated`, `current_equation_converted`, `full_equation_generated` | `operator()` | early return with a context on the stack, resumption |
| `goto-checker/single_path_symex_checker.cpp`, `goto-symex/path_storage.cpp` | worklist of paths, `last_peeked`, a property decider per path | `operator()`, `push`, `peek`, `pop` | order of paths, statuses over many equations, a reference into the worklist |
| `goto-checker/fatal_assertions.cpp` | frontier and fixpoint of locations | `reachable_fixpoint`, `propagate_fatal_to_proven` | loops, recursion, function returns |
| `goto-symex/memory_model*.cpp`, `partial_order_concurrency.cpp` | events, clocks, choices of reads | `program_order`, `read_from`, `from_read`, `write_serialization_external` | relaxed orders, barriers, atomic sections, width of clocks |
| `solvers/refinement` | approximations with two states, lazy array constraints | `dec_solve`, `check_SAT`, `check_UNSAT` | answers from approximations, incremental use, termination |
| `jbmc/.../java_static_initializers.cpp` | state of each class, per thread and global | the body of the clinit wrapper | two threads, cycles of classes |
| `goto-symex/` (execution, slicers) | states, guards | path merging, unwinding | size of the state |
| `solvers/strings`, `solvers/smt2_incremental`, `solvers/bdd` | lazily added constraints, caches | refinement loops | termination, stale caches |
| `analyses/`, `goto-instrument/`, `pointer-analysis/`, `util/` | fixpoint states, write sets, sharing maps | | worklists, sharing |
| other front ends and tools | | parsing, type checking, options | |

`PROJECT.json` lists all of them, also those that are not modelled and why, and
the hazards at the lines where they bite.

How they interact: a verifier calls `operator()` of a checker until it returns
DONE.  The checker owns an equation and a property decider, which owns a decision
procedure.  Each call adds a constraint ("one of the open properties is
violated"), solves, and updates the statuses of the properties.  After FOUND_FAIL
the verifier reads traces out of the decision procedure, so the order of solver
calls and of reads matters.

## 2. Plan

Done, in this order:

1. `StackDecisionProcedure` (contract), `PropConvSolver` (implementation),
   with proofs of type correctness, of the correctness of contexts and of the
   refinement;
2. `Properties`, `SymexTargetEquation`, `GotoSymexPropertyDecider`,
   `BuildGotoTrace`: the operators the checkers share;
3. `MultiPathSymexChecker`: the verifiers, the multi-path checker and the fault
   localizer, on top of the contract of the decision procedure, with proofs of the
   verdicts and of the traces;
4. `SingleLoopIncrementalSymexChecker`;
5. `SinglePathSymexChecker` with the path storages, with proofs about the worklist;
6. `FatalAssertions`, with proofs;
7. `ClassInitialization` (contract) and `ClinitWrapper` (implementation), with proofs
   of the refinement and of the safety invariants;
8. `MemoryModel`: the encodings of sc, tso and pso against a machine;
9. `BVRefinement`, with proofs that both answers are right.

What could follow: proofs of the verdicts of the other two checkers, along the
lines of those of the multi-path checker; the minimisation of `prop_minimize`; the
refinement loop for strings.

## 3. Modules

**Data.**  An *assignment* (or valuation) gives a value to all symbols of a
formula.  An expression is the set of the assignments that satisfy it, and the
literal or handle that the solver returns for an expression stands for that set.
So bit-blasting is abstracted away; which constraint is added when, in which
context, and which model is read when, is kept.

**`StackDecisionProcedure`** is the contract of `decision_procedure.h` and
`stack_decision_procedure.h`: a stack of contexts, each a set of assignments, and a
`Solve` that answers for their conjunction.  The headers
do not say in which context the client is after D_ERROR.  When memory runs out,
`dec_solve` leaves the context it has pushed on the stack, empty or with the
assumption of the call, so the contract allows both; and only D_SATISFIABLE promises
a model.  A model that is read after another answer may therefore be a stale one,
which the checkers on top have to avoid (`TracesAreCounterexamples`).

**`PropConvSolver`** is `prop_conv_solvert` on Minisat.  `formula` is the set of
clauses, which only grows.  `push` creates the context literal `On(n)`, `set_to`
adds the clause `{Off(n), e}`.  One action per operation; `dec_solve` has further
actions for `std::bad_alloc` inside the solver call, without and with an assumption,
and before it.  (A `bad_alloc` between the two `push_back`s of one `push` is left
out.)  What clients do not mean to do (set something to false in a context, set
something in a context of assumptions, set an equality in a context) is behind the
constant `Liberties`.  Two clients do it all the same, in a context that was left
behind: the verifier after fault localization, and the single-loop checker when it
resumes.  They are the subject of `fault_localization_verdicts` and
`single_loop_verdicts`, which use the contract, where every constraint belongs to the
current context.

**`Properties`** has `property_statust`, `|=` (`StatusOr`, with its PRECONDITION
`OrDefined`), `&=` (`StatusAnd`), `determine_result`, the updates of
`bmc_util.cpp` and `propagate_fatal_to_proven`.  The status of an assertion in an
equation is UNKNOWN: the case `cond_expr == true` of `bmc_util.cpp:231` cannot occur,
since `goto_symext::vcc` drops such assertions (`symex_main.cpp:189`).

**`SymexTargetEquation`** has steps of the kinds ASSIGNMENT, ASSUME and ASSERT with
`converted` and `cond_handle`.  `convert_without_assertions` and
`convert_assertions` change the steps; `AssignmentsConstraint` and
`AssertionsConstraint` are what they add to the decision procedure.  `Violates` and
`Violable` say what the equation means, independently of the conversion.  Declarations, gotos,
calls and I/O put no constraint on the assignments and are left out.  The equation
is the one that is left after `postprocess_equation`, so slicing is left out.

**`GotoSymexPropertyDecider`** and **`BuildGotoTrace`** are the operators of the
property decider and of the traces.  `IsTrue` and `IsFalse` model `get`: without a
model a non-constant handle is neither.

**`MultiPathSymexChecker`** composes these with the contract of the decision
procedure.  `pc` is where the verifier is; there is one action for each part of an
operation between two calls into the solver.  `Verifiers` selects which verifiers
run, and `SolverErrors` whether the solver may give up.  `FatalReach` is what may be
reachable from the fatal assertions of the goto model; at the end of
`all_properties_verifier_with_trace_storaget` a property that was proven after a
refuted fatal assertion becomes UNKNOWN (`PropagateFatalAssertions`).  The option
`trace` is on for this verifier; without it its loop is the one of
`all_properties_verifiert`.  A second generation of the equation, after a call that
found nothing to check, appends the same steps again; as there is no assertion among
them the model keeps the equation.  An INVARIANT or
PRECONDITION that fails leads to `pc = "aborted"`; the other variables no longer
matter then.

**`SingleLoopIncrementalSymexChecker`** is the checker for `--incremental-loop`.
The program is a sequence of segments; symbolic execution appends one and pauses.
The end of the verifiers is as above.
An assignment defines a new symbol, so the executions of a prefix must have
continuations (`Continues`, assumed of all programs).

**`SinglePathSymexChecker`** is the checker for `--paths`.  The program is a binary
tree of branches.  A run of symbolic execution stops at a branch and saves both
successors, each with a copy of the equation.  `Peek` and `Pop` are those of
`path_lifot` and `path_fifot`, with `last_peeked`.  Every path has a property
decider of its own, which refers to the equation of a path on the worklist.  The end
of the verifiers is as above.

**`FatalAssertions`** is `propagate_fatal_to_proven`.  A goto program is a function
from names to bodies.  The frontier is a stack that is filled from a hash table;
in the model it is a set from which any location may be taken, so all orders are
covered.  The checkers have the result of the fixpoint as the constant `FatalReach`.

**`ClassInitialization`** is what the JVM specification promises about static
initialisation.  **`ClinitWrapper`** is the code that
`java_static_initializers.cpp` generates, run by threads: `stack` has a frame for
each call of a wrapper, and each atomic section is one action.  The initialiser of
a class uses other classes through their wrappers, possibly in a cycle.

**`MemoryModel`** has the constraints of `memory_model_sct`, `_tsot` and `_psot` as
predicates on clocks and on the choices of reads.  `address_bits` and the clocks
keep their width.  The machine next to it (sequential, or with a store buffer per
thread) is not part of the code; it says what the models mean.  The outcome of an
execution is the write that each read takes its value from.

**`BVRefinement`** is `bv_refinementt`.  `formula` is what satisfies the clauses
that operations and arrays have given rise to.  `approximations` has
`under_assumptions` (bits that are assumed to be zero), `under_state` and
`over_state`.  The SAT solver may return any model, any conflict that is one, or an
error.  The client sets constraints, pushes and pops between calls, so
approximations are reused.

The modules whose names end in `Proofs` hold the theorems of section 5; each extends
the module it is about.  `BuildGotoTraceProofs` has the lemmas about equations,
handles, contexts and traces that the proofs about the checkers share.

Definitions whose comment starts with "Mutant:" are small faults.  Each is put in
place of the definition that follows it, one at a time, to show that the
properties notice.

## 4. Runs

| Run | Shows |
| --- | --- |
| `prop_conv_solver` | contexts are well-formed (also when memory runs out), every solver call decides the contexts on the stack, what is set in a context is removable, and the solver refines the contract |
| `multi_path` | verdicts, overall result, traces, INVARIANTs, stability of DONE and termination for four verifiers, with solver errors and fatal assertions |
| `fault_localization` | localization after or between calls of the checker, with solver errors: no false FAIL, termination |
| `fault_localization_verdicts` | ... but it produces a false PASS: contexts are not popped |
| `single_loop` | incremental unwinding with the verifier that stops at the first failure, and with the one for all properties if every property of the goto model occurs in the first segment |
| `single_loop_verdicts` | without this condition there is a false PASS: symbolic execution resumes with the context of an old assertion on the stack |
| `single_path` | verdicts and traces over many equations, the overall result, the order of exploration for both storages, reads of live equations only, INVARIANTs and termination, with solver errors and fatal assertions |
| `fatal_assertions` | the fixpoint is the least one, only PASS becomes UNKNOWN, termination |
| `fatal_assertions_return` | ... but what is executed after the return from the function of the fatal assertion stays PASS |
| `clinit_wrapper` | the wrappers refine the contract, bases come first, no thread waits for itself, and all threads finish if classes do not need each other in a cycle |
| `memory_model` | the encodings have all executions of the machine and no others, and nothing gets into an atomic section |
| `bv_refinement` | both answers are right, and the loop ends |

Five more configurations are kept for reference and are not among the listed runs.
TLC finds a violation with each of them:

| Configuration (module) | Violated | What the code does |
| --- | --- | --- |
| `PropConvSolverSetFalse.cfg` (`MCPropConvSolver`) | `RemovableInContext` | `set_to(expr, false)` in a context makes the context literal and `!expr` permanent (`prop_conv_solver.cpp:545`), while `prop_conv_solver.h:64` says "otherwise add 'current_context => not expr'" |
| `PropConvSolverEquality.cfg` (`MCPropConvSolver`) | `RemovableInContext` | an equality that is set in a context maps its symbol for ever (`boolbv.cpp:529`), while `stack_decision_procedure.h:28` says "we can remove it later" |
| `FaultLocalizationTraces.cfg` (`MCMultiPathSymexChecker`) | `TracesAreCounterexamples` | fault localization replaces the model before the second trace is read (`all_properties_verifier_with_fault_localization.h:56`; compare `incremental_goto_checker.h:73`) |
| `FaultLocalizationAbort.cfg` (`MCMultiPathSymexChecker`) | `InvariantsHold` | the fault localizer calls the solver again after an error (`goto_symex_fault_localizer.cpp:102`), which `satcheck_minisat2.cpp:209` forbids |
| `SingleLoopIncrementalAbort.cfg` (`MCSingleLoopIncrementalSymexChecker`) | `InvariantsHold` | the single-loop checker calls the solver again after an error (`single_loop_incremental_symex_checker.cpp:147`), which `satcheck_minisat2.cpp:209` forbids |

`OverallResultCorrect` and `DecidedForGood` say what `propagate_fatal_assertions` may
do to the verdicts: it takes back a PASS of the goto model, only when another property
is FAIL, and no property that can be violated is left open by it.

The `single_loop` run holds because its programs for all properties have every
property of the goto model in the first segment; `single_loop_verdicts` shows what
happens otherwise.  `fault_localization` says that the verifier ends; that it may end
in a failed PRECONDITION is what `FaultLocalizationAbort.cfg` shows.

More observations, which have no run:

- `set_to` in a context that `push(assumptions)` opened with an empty vector is
  permanent.
- The comment of `determine_result` (`properties.cpp:259`) counts NOT_CHECKED as
  PASS, while the code returns UNKNOWN.
- `add_init_writes` gives the initial write of an address the thread of its first
  access (`partial_order_concurrency.cpp:56`).  If thread 1 reads an uninitialised
  address and thread 2 writes and then reads it, thread 2 can read the initial
  value after its own write.  The run has uninitialised addresses with two threads
  only.
- A barrier with the flags RR, RW and WW but not WR also orders a write before a
  read in tso (`memory_model_tso.cpp:117-128`).  The run has full barriers and
  barriers for writes.
- With a symbolic rounding mode, float operations are refined with the rounding
  mode of the model at hand, for all rounding modes
  (`refine_arithmetic.cpp:227`, `:254`).  `RoundingModeAssumption` excludes this;
  without it `SatisfiableIsReal` is violated.
- With `max_node_refinement` of 10000 or more, `over_state` can be incremented to
  MAX_STATE, which stands for a full interpretation.  `BVRefinementAssumption`
  excludes this.
- `check_SAT()` is to "get values before modifying the formula", but
  `arrays_overapproximated()` has already added clauses; some SAT solvers forbid
  reads after that (`refine_arrays.cpp:44`).

**Bounds.**  `PropConvSolver`: two assignments (they tell apart an expression, its
negation, true and false), at most two open contexts and three context literals
over the whole run, which is enough to pop a context, open another one and see
whether the old clauses come back.

`MultiPathSymexChecker`: three assignments, three properties of which one is
discovered by symbolic execution and two are in the goto model (a failing fatal
assertion and a proven one after it), and all equations of up to three steps out of
fifteen kinds; this has two properties violated by one model, by different models,
an assumption before, between and after assertions, a single assertion, and
assertions and assignments on a branch.  The runs of fault localization have two
properties.

`SingleLoopIncrementalSymexChecker`: two assignments, three properties and programs
of at most two segments of at most two steps out of nine kinds, for the verifier of
all properties with one more assertion in front; two segments are enough for a pause,
and a property can have instances in one or in both.

`SinglePathSymexChecker`: trees with no branch, one branch and two branches one
below the other, with one of four kinds of steps at each node.  Two branches make
the two storages differ, and leave a path on the worklist while others are pushed.
A third property is in the goto model only, so no path meets it.

`FatalAssertions`: all programs of two functions with three and two instructions
besides the last, of six and seven kinds: loops, recursion, threads, calls through
pointers and all instructions without a successor.

`ClinitWrapper`: two threads with up to two and one uses of classes, and three
classes, which are enough for a cycle through a base and an initialiser.  Two
threads may wait for each other if classes need each other in a cycle, as Java
allows; so deadlock is not checked, and `ThreadsFinish` is about the other programs.

`MemoryModel`: two addresses; two threads with all bodies of two accesses, selected
bodies of three, with barriers, guards and atomic sections, and three threads with
a write in one of them.  These include the usual litmus tests (store buffering,
message passing, load buffering, coherence).

`BVRefinement`: two bits, four clients that use all four kinds of operations and
arrays, both lazily and eagerly, one context besides the first, and one refinement
of floats at a point before full interpretation.

**Fairness.**  The verifiers are sequential programs: weak fairness of their next
step (`WF_vars(Verify)`) says that the program keeps running and every solver call
returns.  `Terminates` needs no more.  The same holds for the fixpoint
(`WF_vars(Propagate)`) and for the refinement loop (`WF_vars(Loop)`; the client is
under no obligation).  Java threads each have weak fairness: a thread that can go on
eventually does, which is what `ThreadsFinish` says of a complete execution.
`PropConvSolver` and `MemoryModel` have no liveness property.

## 5. Proofs

`PropConvSolverProofs` proves for every set of assignments, every set of
constraints and any number of contexts:

- `TypeCorrect`: the types, and that the sizes on `context_size_stack` cut
  `assumption_stack` into contexts (`SegmentsCoverStack`).  Types alone are not
  inductive, since `pop` subtracts a size it finds on the other stack; the
  invariant says that there is a non-decreasing function from the number of
  contexts to the number of their literals.  It holds for all clients, with all
  liberties.
- `ContextsAreSolved`: for clients without liberties, `WellFormed` is inductive
  (every clause is permanent or guarded by the negation of one context literal that
  has been created; no two contexts on the stack share a literal), and it implies
  `SolvesActiveContexts`: a solution of the active contexts extends to one of all
  clauses by making exactly the literals on the stack true.  `StacksFit` is the part
  about the stacks.
- `ContextsAreRemovable`: from the same invariant, no step inside a context changes
  the solutions without it: a clause that is added there has the negation of a
  context literal, which a solution can make true.
- `ContextsAreImplemented`: the refinement of `StackDecisionProcedure`, with
  `Contexts` as the refinement mapping.  It cuts `assumption_stack` at the ends of the
  segments; the lemmas say how it changes when a segment is added (`ContextsGrow`), when
  the last one is removed, and when a clause is added to the innermost context.  A
  fresh literal is an empty context because no clause mentions it, which is again
  `WellFormed`.  The cases of `dec_solve` with and without memory map to `Solve`.  That
  there is only one way of cutting the stack into segments of the given sizes, and that
  the segments cover it, goes by the first position where something is wrong
  (`FirstMember`, from the well-foundedness of `<`, in place of an induction).

The assumption is `PropConvAssumption` (types of the constants).  The bounds
`MaxContexts` and `MaxLiterals` are arbitrary numbers in the proofs.

`MultiPathSymexCheckerProofs` proves for every equation, any number of properties
and every set of valuations:

- `FailuresProved`: with all six verifiers a property that is FAIL is violated by
  an execution.  The inductive invariant `CheckerInv` follows the conversion of the
  equation: before it no property FAILs; the root context becomes the set of
  executions; after `convert_assertions`, in either encoding, a valuation that the
  root context admits falsifies the handle of an assertion only if it violates the
  assertion (`SoundHandles`); and a goal is met by such valuations only.  What the
  fault localizer pushes and pops is above the root context.
- `VerdictsProved`: moreover a property that is PASS is not violated, with every
  verifier except `all_properties_verifier_with_fault_localizationt`, for which
  `fault_localization_verdicts` refutes it.  `PassInv` says that a violation of an
  open property is a solution of all contexts and meets its goal, until a verifier
  localizes a fault; after that the verifiers that stop ask no more questions that
  count.
- `DecidedForGoodProved`: no step revises a decided status, except that
  `propagate_fatal_assertions` takes back a PASS at the end, only when there is a FAIL.
- `DoneIsStableProved`: a call after DONE returns DONE and changes no status, as
  `incremental_goto_checker.h` promises.  `DoneInv` says that nothing is left to
  check after DONE.
- `OverallResultProved`: for finitely many properties and the verifiers of
  `VerdictsProved`, the overall result is PASS exactly if no property is in ERROR and
  none can be violated.  `ResultInv` says that a verifier reports only after an answer
  of the checker, and that FOUND_FAIL comes with a FAIL, since the constraint of the
  call asks for one; `OpenWasProven`, that what is open again at the end had been
  proven.  What the fold of `determine_result` computes is the lemma
  `CombinedStatusIs`; the fold over a finite set is a recursion on the rank of its
  subsets (`FiniteRank`).

`MultiPathSymexCheckerTracesProofs` proves about the verifiers without fault
localization (`WithoutFaultLocalization`), for finitely many properties, with solver
errors:

- `InvariantsProved`: no PRECONDITION or INVARIANT of the code fails.
- `TracesProved`: every trace is a counterexample for its property.
- `FailuresHaveTracesProved`: when a verifier that stores traces is done, exactly the
  properties that FAILed have one.

The invariant `TraceInv` says that a goal is met by exactly the models that falsify
its property, that goals are UNKNOWN or FAIL until DONE, that the next model meets
an open goal, and that the FAILed properties are those with a trace and those
whose trace is about to be stored.  That an assertion is kept in the trace follows
from its condition being guarded.  For the verifier that stops, `StopInv` says that
nothing is solved after a FAIL, so the model it reads is the one that failed.

The assumption is `CheckerAssumption` (types; steps are fresh, and the condition of
an assertion holds where its guard does not, as `vcc` generates it).

`PathStorageProofs` proves about the single-path checker, for trees of any depth, both
storages and both verifiers:

- `LiveEquationProved`: a trace is built only from the equation of a path that is on
  the worklist.  The invariant `StorageInv` says which entry of the worklist the peeked
  path is and that its equation is complete, while the equations of the other paths
  lack the steps of their node.
- `ExplorationOrderProved`: `path_lifot` explores depth-first, jump first, and
  `path_fifot` breadth-first, and no path is executed twice.  `OrderInv` says that the
  worklist is in order and comes after all that was explored; for `path_fifot` its
  nodes differ by at most one level, and then the deeper one is behind an earlier
  branch.

`FatalAssertionsProofs` proves for all goto programs and statuses (`FatalAssumption`:
bodies end with END_FUNCTION and jumps stay inside the body):

- `LeastFixpoint`: at the end the fixpoint is the least set that contains the
  refuted fatal assertions and is closed under successors and calls, in whatever
  order locations are visited.  The inductive invariant `Saturating` says that the
  successors of what has been visited have been visited or are on the frontier,
  and that both are in every closed set that contains the fatal assertions.
- `MarksProven`: exactly the PASS of those properties become UNKNOWN that have an
  assertion there.
- `TypeCorrect`: the fixpoint stays inside the program.

`BVRefinementProofs` proves for all widths, operations, float semantics, array
constraints and clients, and any number of contexts:

- `SatisfiableAnswers` and `UnsatisfiableAnswers`: what is returned is right with
  respect to the contexts and the meaning of all operations and arrays.  The
  inductive invariant `RefinementInv` says that the clauses exclude only what is
  not meant; that an operation that counts as interpreted is interpreted by the
  clauses; that an array constraint is on the lazy list or follows from the
  clauses; that the model satisfies the clauses; and that no solution makes all
  bits of the conflict zero.  `CorrectIsPartial` shows that the facts about zero and
  one that `convert_mult` adds follow from multiplication modulo 2^Width.  The
  first answer needs that a point refinement never makes `over_state` MAX_STATE
  (`FullyRefined`).
- `TypeCorrect`: in particular `over_state` never exceeds MAX_STATE.

The assumptions are `BVRefinementAssumption` (types, `max_node_refinement` below
MAX_STATE) and `RoundingModeAssumption` (the rounding mode is a constant of the
program).  The runs check both on their instance.

`ClinitWrapperProofs` proves for any number of threads and classes, every hierarchy,
every set of initialisers and programs, with and without `java-threading`:

- `ClassInitializationImplemented`: `ClinitWrapper` refines `ClassInitialization`.
- `SelfDeadlockFree`: no thread waits for a class that it is initialising itself.
- `BasesFirstProved`: `<clinit>` runs after the bases are ready.

The inductive invariant `WrapperInv` says that each frame below the top waits for the
call it made (`CallInv`); that one frame of all threads initialises a class
(`OneFrameInv`), for which the state of the class is IN_PROGRESS and the thread-local
state is set; that a thread whose local state is set has the class ready, is
initialising it or is about to claim it (`GlobalsInv`); and that the bases of a class
that is being initialised are ready or still to be called (`BasesInv`).  Each step is
one of six kinds (`StepShapes`), and a class gets an owner, loses it, or neither
(`NewOwner`, `NoOwner`, `SameOwners`).  The assumption is `ClinitAssumption` (types
and distinct values).

Only model-checked: everything about the single-loop checker and the memory models, the
verdicts, the overall result and the traces of the single-path checker, and liveness
(which is out of reach of the prover, like ENABLED and induction over data).
The type invariants document the types; those of `PropConvSolver`, `FatalAssertions` and
`BVRefinement` are proved, and none is among the properties of the runs.

## 6. What is not modelled

- Symbolic execution itself (merging, renaming, unwinding), slicing and pointer
  analysis: they are about the structure of expressions and symbolic states, which
  the models abstract to sets of assignments.
- The encodings of expressions into bits, and the constraints of arrays and
  functions that `prop_conv_solvert` postpones (with `post_processing_done`).
- The branch of `update_properties` for lazily loaded functions, and the `bad_alloc`
  that `prepare_property_decider` rethrows (it ends the program).
- For tso and pso, the comparison of atomic sections with a machine: a section
  only ties the clocks of accesses to the same address there.
- The pthread functions of the C library: they are C code for the program that is
  verified, each one atomic section.
- String refinement, the SMT2 back ends, BDDs, abstract interpretation,
  instrumentation, linking, utilities, front ends other than the static
  initialisers, scores of the fault localizer, reports and options.

`PROJECT.json` gives the reason for each part.
