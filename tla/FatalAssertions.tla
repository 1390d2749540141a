--------------------------- MODULE FatalAssertions --------------------------
(***************************************************************************)
(* propagate_fatal_assertions (goto-checker/fatal_assertions.cpp), which   *)
(* the verifier for all properties calls when the checker is done.  A      *)
(* fatal assertion guards undefined behaviour: once it has been refuted,   *)
(* nothing that may be executed after it counts as proven.                 *)
(*                                                                         *)
(* A goto program is a function from the names of its functions to their   *)
(* bodies, and a location is a function and a position in its body.  The   *)
(* frontier of the fixpoint is a stack whose initial order is unspecified  *)
(* (it is filled from an unordered_set), and it may hold a location twice; *)
(* here it is a set from which any location may be taken.                  *)
(***************************************************************************)
EXTENDS Naturals, Sequences, Properties

CONSTANTS Function,     \* the names of functions
          NoFunction,   \* a call through a pointer names no function
          PropertyId,   \* the identifiers of properties
          Programs,     \* the goto programs
          Statuses      \* the statuses of the properties the checker leaves

\* instructiont: what get_successors and the fixpoint look at.
Instruction ==
  [type : {"ASSERT", "GOTO", "START_THREAD", "END_THREAD", "THROW", "ASSUME",
           "FUNCTION_CALL", "END_FUNCTION"},
   targets : SUBSET Nat,                        \* GOTO, START_THREAD
   constant : BOOLEAN,                          \* GOTO: true, ASSUME: false
   callee : Function \cup {NoFunction},         \* FUNCTION_CALL
   fatal : BOOLEAN, property_id : PropertyId]   \* ASSERT

\* A body ends with END_FUNCTION, and jumps stay in the body.  Every function that
\* is called has a body.
ASSUME FatalAssumption ==
  /\ NoFunction \notin Function
  /\ \A program \in Programs :
       /\ program \in [Function -> Seq(Instruction)]
       /\ \A f \in Function :
            /\ program[f] # <<>>
            /\ \A i \in DOMAIN program[f] :
                 /\ program[f][i].targets \subseteq DOMAIN program[f]
                 /\ program[f][i].type = "END_FUNCTION" <=> i = Len(program[f])
  /\ Statuses \subseteq [PropertyId -> Status]

VARIABLES
  program,      \* goto_functions
  pc,           \* "collect", "saturate", "done"
  checked,      \* the properties as the checker leaves them
  properties,   \* propertiest
  working,      \* the frontier
  fixpoint      \* the locations that have been visited

vars == <<program, pc, checked, properties, working, fixpoint>>

\* The locations of a program, and the instruction at one of them.
Locations(prog) == UNION {{<<f, i>> : i \in DOMAIN prog[f]} : f \in Function}
At(prog, l) == prog[l[1]][l[2]]

Init ==
  /\ program \in Programs
  /\ pc = "collect"
  /\ checked \in Statuses
  /\ properties = checked
  /\ working = {}
  /\ fixpoint = {}

-----------------------------------------------------------------------------
(* The program *)

\* The location after l, if there is one.
NextOf(prog, l) == {m \in {<<l[1], l[2] + 1>>} : m[2] \in DOMAIN prog[l[1]]}

TargetsOf(prog, l) == {<<l[1], i>> : i \in At(prog, l).targets}

\* goto_programt::get_successors
get_successors(prog, l) ==
  LET i == At(prog, l)
  IN  IF i.type = "GOTO"
      THEN TargetsOf(prog, l) \cup (IF i.constant THEN {} ELSE NextOf(prog, l))
      ELSE IF i.type = "START_THREAD"
      THEN TargetsOf(prog, l) \cup NextOf(prog, l)
      ELSE IF i.type \in {"END_THREAD", "THROW"} THEN {}
      ELSE IF i.type = "ASSUME" /\ i.constant THEN {}
      ELSE NextOf(prog, l)

\* What reachable_fixpoint adds to the frontier for a location: the beginning of
\* the callee and the next location, or the successors.
Successors(prog, l) ==
  IF At(prog, l).type = "FUNCTION_CALL"
  THEN {<<f, 1>> : f \in {At(prog, l).callee} \ {NoFunction}} \cup NextOf(prog, l)
  ELSE get_successors(prog, l)

\* The fatal assertions that have been refuted.
FatalLocs(prog, props) ==
  {l \in Locations(prog) :
     /\ At(prog, l).type = "ASSERT" /\ At(prog, l).fatal
     /\ props[At(prog, l).property_id] = "FAIL"}

-----------------------------------------------------------------------------
(* propagate_fatal_to_proven *)

Collect ==
  /\ pc = "collect"
  /\ working' = FatalLocs(program, properties)
  /\ pc' = "saturate"
  /\ UNCHANGED <<program, checked, properties, fixpoint>>

\* Mutant: a location that was seen before is visited again.
VisitAgain(l) ==
  /\ fixpoint' = fixpoint \cup {l}
  /\ working' = (working \ {l}) \cup Successors(program, l)

\* Mutant: the successors count as seen before they are visited.
VisitSeenTooEarly(l) ==
  /\ fixpoint' = fixpoint \cup {l} \cup Successors(program, l)
  /\ working' = (working \ {l}) \cup (IF l \in fixpoint THEN {}
                                      ELSE Successors(program, l))

\* An iteration of reachable_fixpoint for location l.
Visit(l) ==
  /\ fixpoint' = fixpoint \cup {l}
  /\ working' = (working \ {l}) \cup (IF l \in fixpoint THEN {}
                                      ELSE Successors(program, l))

Saturate ==
  /\ pc = "saturate"
  /\ \E l \in working : Visit(l)
  /\ UNCHANGED <<program, pc, checked, properties>>

\* The properties with an assertion at one of the locations.
AssertedAt(prog, locs) ==
  {At(prog, l).property_id : l \in {m \in locs : At(prog, m).type = "ASSERT"}}

\* Mutant: every property after a fatal assertion is marked.
Marked(prog, props, locs) ==
  [p \in DOMAIN props |->
     IF p \in AssertedAt(prog, locs) THEN "UNKNOWN" ELSE props[p]]

\* PASS becomes UNKNOWN.
MarkedUnknown(prog, props, locs) ==
  [p \in DOMAIN props |->
     IF p \in AssertedAt(prog, locs) /\ props[p] = "PASS" THEN "UNKNOWN"
     ELSE props[p]]

Mark ==
  /\ pc = "saturate" /\ working = {}
  /\ properties' = MarkedUnknown(program, properties, fixpoint)
  /\ pc' = "done"
  /\ UNCHANGED <<program, checked, working, fixpoint>>

Finished == pc = "done" /\ UNCHANGED vars

Propagate == Collect \/ Saturate \/ Mark

Next == Propagate \/ Finished

Spec == Init /\ [][Next]_vars /\ WF_vars(Propagate)

-----------------------------------------------------------------------------
(* Properties *)

\* Types; the fixpoint and its frontier consist of locations of the program
\* (reachable_fixpoint).
TypeOK ==
  /\ pc \in {"collect", "saturate", "done"}
  /\ properties \in [PropertyId -> Status]
  /\ working \subseteq Locations(program)
  /\ fixpoint \subseteq Locations(program)

\* A set of locations that no step leaves.
Closed(prog, step(_, _), locs) == \A l \in locs : step(prog, l) \subseteq locs

\* The least set of locations that contains `from` and that no step leaves.
ReachableBy(prog, step(_, _), from) ==
  {l \in Locations(prog) :
     \A locs \in SUBSET Locations(prog) :
       from \subseteq locs /\ Closed(prog, step, locs) => l \in locs}

\* When the fixpoint has been computed it is the least one: exactly what can be
\* executed after a refuted fatal assertion before its function returns
\* (reachable_fixpoint).
FixpointIsLeast ==
  pc = "done" =>
    fixpoint = ReachableBy(program, Successors, FatalLocs(program, checked))

\* A property stays PASS if and only if it was and no refuted fatal assertion leads
\* to it before its function returns; everything else stays as the checker left
\* it, and no FAIL is lost (propagate_fatal_to_proven).
OnlyProvenAreMarked ==
  pc = "done" =>
    \A p \in PropertyId :
      properties[p] =
        IF /\ checked[p] = "PASS"
           /\ \E l \in ReachableBy(program, Successors,
                                   FatalLocs(program, checked)) :
                At(program, l).type = "ASSERT" /\ At(program, l).property_id = p
        THEN "UNKNOWN" ELSE checked[p]

\* The steps of an execution: a function may also return to where it was called.
ExecutionSteps(prog, l) ==
  Successors(prog, l) \cup
  IF At(prog, l).type # "END_FUNCTION" THEN {}
  ELSE UNION {NextOf(prog, c) :
                c \in {m \in Locations(prog) : /\ At(prog, m).type = "FUNCTION_CALL"
                                               /\ At(prog, m).callee = l[1]}}

\* "Proven assertions after refuted fatal assertions are marked as UNKNOWN."
\* (fatal_assertions.cpp).
ProvenAfterFatalAreUnknown ==
  pc = "done" =>
    \A l \in ReachableBy(program, ExecutionSteps, FatalLocs(program, checked)) :
      At(program, l).type = "ASSERT"
        => properties[At(program, l).property_id] # "PASS"

\* The fixpoint is reached, also with loops and recursive functions
\* (reachable_fixpoint).
Terminates == <>(pc = "done")
=============================================================================
