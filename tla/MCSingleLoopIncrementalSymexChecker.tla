---------------- MODULE MCSingleLoopIncrementalSymexChecker -----------------
(***************************************************************************)
(* Small instances of SingleLoopIncrementalSymexChecker: all programs of   *)
(* up to MaxSegments segments of at most MaxSteps steps.                   *)
(***************************************************************************)
EXTENDS SingleLoopIncrementalSymexChecker, SequencesExt

CONSTANTS m1, m2,        \* valuations
          p1, p2, p3,    \* properties
          MaxSegments,   \* bound on the number of segments
          MaxSteps       \* bound on the number of steps of a segment

MCSteps ==
  {FreshStep("ASSIGNMENT", Assignment, {m1}, p1),
   FreshStep("ASSUME", Assignment, {m2}, p1),
   FreshStep("ASSUME", {m1}, {}, p1)}
  \cup {FreshStep("ASSERT", Assignment, c, p) :
          c \in {{}, {m1}}, p \in {p1, p2}}
  \cup {FreshStep("ASSERT", {m1}, {}, p) : p \in {p1, p2}}

MCSegments == BoundedSeq(MCSteps, MaxSteps)

IsProgram(program) ==
  program # <<>> /\ \A n \in 0 .. Len(program) - 1 : Continues(program, n)

MCPrograms == {program \in BoundedSeq(MCSegments, MaxSegments) : IsProgram(program)}

\* For the verifier that looks for all failing properties the first segment has
\* an instance of p1, after one of p3: no property of the goto model is
\* NOT_CHECKED when symbolic execution pauses.
MCProgramsWithAll ==
  {[program EXCEPT ![1] = <<FreshStep("ASSERT", Assignment, c, p3)>> \o @] :
     c \in {{}, {m2}},
     program \in {q \in MCPrograms : p1 \in PropertyIds(q[1])}}

MCProgramsByVerifier ==
  [v \in Verifiers |->
     IF v = "stop_on_fail" THEN MCPrograms
     ELSE {program \in MCProgramsWithAll : IsProgram(program)}]

\* Without this restriction.
MCAllPrograms == [v \in Verifiers |-> MCPrograms]

\* Each property of the goto model may have fatal assertions, from which its own
\* and any other assertions may be reached.
MCFatalReach ==
  {reach \in [PropertyId -> SUBSET GotoModelProperties] :
     \A p \in PropertyId : reach[p] # {} => p \in reach[p]}
=============================================================================
