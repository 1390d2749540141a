---------------------- MODULE MCMultiPathSymexChecker -----------------------
(***************************************************************************)
(* Small instances of MultiPathSymexChecker: all equations of bounded      *)
(* length that are made of a few kinds of steps over three valuations.     *)
(***************************************************************************)
EXTENDS MultiPathSymexChecker, SequencesExt

CONSTANTS m1, m2, m3,   \* valuations
          p1, p2, p3,   \* properties; p2 is not known before the equation is
          MaxSteps      \* bound on the number of steps of an equation

\* The branch that the valuations m1 and m2 take.
Branch == {m1, m2}

\* The assignment on the branch is a point for the fault localizer; the other
\* one excludes the valuation m3.  Assumptions and assertions exclude each of the
\* valuations, or all of them.
MCSteps ==
  {FreshStep("ASSIGNMENT", Assignment, {m1, m2}, p1),
   FreshStep("ASSIGNMENT", Branch, Assignment, p1)}
  \cup {FreshStep("ASSUME", Assignment, c, p1) :
          c \in {{}} \cup {Assignment \ {m} : m \in Assignment}}
  \cup {FreshStep("ASSERT", Assignment, c, p) :
          c \in {{}, {m2, m3}, {m1, m3}}, p \in {p1, p2}}
  \cup {FreshStep("ASSERT", Branch, {m2}, p) : p \in {p1, p2}}
  \cup {FreshStep("ASSERT", Assignment, {m2, m3}, p) : p \in PropertyId \ {p1, p2}}

MCEquations == BoundedSeq(MCSteps, MaxSteps)

\* Each property of the goto model may have fatal assertions, from which its own
\* and any other assertions may be reached.
MCFatalReach ==
  {reach \in [PropertyId -> SUBSET GotoModelProperties] :
     \A p \in PropertyId : reach[p] # {} => p \in reach[p]}
=============================================================================
