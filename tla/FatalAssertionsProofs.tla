----------------------- MODULE FatalAssertionsProofs ------------------------
(***************************************************************************)
(* The fixpoint of propagate_fatal_assertions is the least one, for every  *)
(* goto program.                                                           *)
(***************************************************************************)
EXTENDS FatalAssertions, TLAPS

\* A step of the fixpoint stays in the program (get_successors, call_function).
LEMMA SuccessorsInProgram ==
  ASSUME NEW prog \in Programs, NEW l \in Locations(prog)
  PROVE  Successors(prog, l) \subseteq Locations(prog)
<1>0. PICK f \in Function : \E i \in DOMAIN prog[f] : l = <<f, i>>
  BY DEF Locations
<1>1. PICK i \in DOMAIN prog[f] : l = <<f, i>>
  BY <1>0
<1>2. /\ prog \in [Function -> Seq(Instruction)]
      /\ \A g \in Function : prog[g] # <<>>
      /\ prog[f][i].targets \subseteq DOMAIN prog[f]
  BY FatalAssumption, <1>1
<1>3. At(prog, l) \in Instruction
  BY <1>1, <1>2 DEF At
<1>4. NextOf(prog, l) \subseteq Locations(prog)
  BY <1>1 DEF NextOf, Locations
<1>5. TargetsOf(prog, l) \subseteq Locations(prog)
  BY <1>1, <1>2 DEF TargetsOf, Locations, At
<1>6. \A g \in Function : <<g, 1>> \in Locations(prog)
  <2>1. \A g \in Function : 1 \in DOMAIN prog[g]
    BY <1>2
  <2> QED
    BY <2>1 DEF Locations
<1>7. get_successors(prog, l) \subseteq Locations(prog)
  BY <1>4, <1>5 DEF get_successors
<1>8. At(prog, l).callee \in Function \cup {NoFunction}
  BY <1>3 DEF Instruction
<1> QED
  BY <1>4, <1>6, <1>7, <1>8 DEF Successors

\* What has been visited or is in the frontier is in every closed set that contains
\* the refuted fatal assertions, and every step from a visited location has been
\* taken or is in the frontier.
Saturating ==
  /\ program \in Programs
  /\ checked \in Statuses
  /\ pc \in {"collect", "saturate", "done"}
  /\ pc = "collect" => fixpoint = {} /\ working = {}
  /\ pc # "collect" => FatalLocs(program, checked) \subseteq fixpoint \cup working
  /\ pc = "done" => working = {}
  /\ \A l \in fixpoint : Successors(program, l) \subseteq fixpoint \cup working
  /\ \A locs \in SUBSET Locations(program) :
       FatalLocs(program, checked) \subseteq locs /\ Closed(program, Successors, locs)
         => fixpoint \cup working \subseteq locs
  /\ pc # "done" => properties = checked
  /\ pc = "done" => properties = MarkedUnknown(program, checked, fixpoint)

\* The refuted fatal assertions are locations of the program.
LEMMA FatalLocsInProgram ==
  ASSUME NEW prog \in Programs, NEW props
  PROVE  FatalLocs(prog, props) \subseteq Locations(prog)
BY DEF FatalLocs

\* Nothing has been visited in the beginning.
LEMMA SaturatingInit == Init => Saturating
BY DEF Init, Saturating

\* Every step of propagate_fatal_to_proven keeps the invariant.
LEMMA SaturatingStep == Saturating /\ [Next]_vars => Saturating'
<1> SUFFICES ASSUME Saturating, [Next]_vars PROVE Saturating'
  OBVIOUS
<1>1. CASE Collect
  BY <1>1 DEF Collect, Saturating, Closed
<1>2. CASE Saturate
  <2>1. PICK l \in working : Visit(l)
    BY <1>2 DEF Saturate
  <2>2. /\ UNCHANGED <<program, pc, checked, properties>>
        /\ pc = "saturate"
    BY <1>2 DEF Saturate
  <2>3. /\ fixpoint' = fixpoint \cup {l}
        /\ fixpoint' \cup working' = fixpoint \cup working \cup
             (IF l \in fixpoint THEN {} ELSE Successors(program, l))
    BY <2>1 DEF Visit
  <2>4. \A m \in fixpoint' :
          Successors(program, m) \subseteq fixpoint' \cup working'
    <3> SUFFICES ASSUME NEW m \in fixpoint'
                 PROVE  Successors(program, m) \subseteq fixpoint' \cup working'
      OBVIOUS
    <3>1. CASE m \in fixpoint
      BY <3>1, <2>3 DEF Saturating
    <3>2. CASE m \notin fixpoint
      BY <3>2, <2>3
    <3> QED BY <3>1, <3>2
  <2>5. \A locs \in SUBSET Locations(program) :
          FatalLocs(program, checked) \subseteq locs
            /\ Closed(program, Successors, locs)
          => fixpoint' \cup working' \subseteq locs
    <3> SUFFICES ASSUME NEW locs \in SUBSET Locations(program),
                        FatalLocs(program, checked) \subseteq locs,
                        Closed(program, Successors, locs)
                 PROVE  fixpoint' \cup working' \subseteq locs
      OBVIOUS
    <3>1. fixpoint \cup working \subseteq locs
      BY DEF Saturating
    <3>2. Successors(program, l) \subseteq locs
      BY <3>1, <2>1 DEF Closed
    <3> QED BY <3>1, <3>2, <2>3
  <2> QED
    BY <2>2, <2>3, <2>4, <2>5 DEF Saturating
<1>3. CASE Mark
  BY <1>3 DEF Mark, Saturating
<1>4. CASE UNCHANGED vars
  BY <1>4 DEF vars, Saturating
<1> QED
  BY <1>1, <1>2, <1>3, <1>4 DEF Next, Propagate, Finished

\* The visited locations and the frontier are locations of the program.
LEMMA SaturatingInProgram ==
  Saturating => fixpoint \cup working \subseteq Locations(program)
<1> SUFFICES ASSUME Saturating
             PROVE  fixpoint \cup working \subseteq Locations(program)
  OBVIOUS
<1>1. Closed(program, Successors, Locations(program))
  BY SuccessorsInProgram DEF Closed, Saturating
<1> QED
  BY <1>1, FatalLocsInProgram DEF Saturating

\* When the frontier is empty, the visited locations are a closed set, and the
\* least one.
LEMMA SaturatingIsLeast == Saturating => FixpointIsLeast
<1> SUFFICES ASSUME Saturating, pc = "done"
             PROVE  fixpoint = ReachableBy(program, Successors,
                                           FatalLocs(program, checked))
  BY DEF FixpointIsLeast
<1>1. fixpoint \in SUBSET Locations(program)
  BY SaturatingInProgram
<1>2. FatalLocs(program, checked) \subseteq fixpoint
  BY DEF Saturating
<1>3. Closed(program, Successors, fixpoint)
  BY DEF Saturating, Closed
<1>4. ASSUME NEW l \in fixpoint
      PROVE  l \in ReachableBy(program, Successors, FatalLocs(program, checked))
  BY <1>1 DEF Saturating, ReachableBy
<1>5. ASSUME NEW l \in ReachableBy(program, Successors,
                                   FatalLocs(program, checked))
      PROVE  l \in fixpoint
  BY <1>1, <1>2, <1>3 DEF ReachableBy
<1> QED
  BY <1>4, <1>5

\* For every program and every outcome of the checker, the fixpoint is the least
\* set of locations that contains the refuted fatal assertions and is closed under
\* the steps of reachable_fixpoint.
THEOREM LeastFixpoint == Spec => []FixpointIsLeast
BY SaturatingInit, SaturatingStep, SaturatingIsLeast, PTL DEF Spec

\* For every program, propagate_fatal_to_proven turns exactly those PASS into
\* UNKNOWN that have an assertion in the fixpoint.
THEOREM MarksProven == Spec => []OnlyProvenAreMarked
<1>1. Saturating => OnlyProvenAreMarked
  <2> SUFFICES ASSUME Saturating, pc = "done", NEW p \in PropertyId
               PROVE  properties[p] =
                 IF /\ checked[p] = "PASS"
                    /\ \E l \in ReachableBy(program, Successors,
                                            FatalLocs(program, checked)) :
                         /\ At(program, l).type = "ASSERT"
                         /\ At(program, l).property_id = p
                 THEN "UNKNOWN" ELSE checked[p]
    BY DEF OnlyProvenAreMarked
  <2>1. fixpoint = ReachableBy(program, Successors, FatalLocs(program, checked))
    BY SaturatingIsLeast DEF FixpointIsLeast
  <2>2. properties = MarkedUnknown(program, checked, fixpoint)
    BY DEF Saturating
  <2>3. DOMAIN checked = PropertyId
    BY FatalAssumption DEF Saturating
  <2> QED
    BY <2>1, <2>2, <2>3 DEF MarkedUnknown, AssertedAt
<1> QED
  BY <1>1, SaturatingInit, SaturatingStep, PTL DEF Spec

\* The frontier and the fixpoint stay in the program and the statuses are statuses.
THEOREM TypeCorrect == Spec => []TypeOK
<1>1. Saturating => TypeOK
  <2> SUFFICES ASSUME Saturating PROVE TypeOK
    OBVIOUS
  <2>1. checked \in [PropertyId -> Status]
    BY FatalAssumption DEF Saturating
  <2>2. properties \in [PropertyId -> Status]
    BY <2>1 DEF Saturating, MarkedUnknown, Status
  <2> QED
    BY <2>2, SaturatingInProgram DEF TypeOK, Saturating
<1> QED
  BY <1>1, SaturatingInit, SaturatingStep, PTL DEF Spec
=============================================================================
