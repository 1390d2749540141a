---------------------- MODULE MCSinglePathSymexChecker ----------------------
(***************************************************************************)
(* Small instances of SinglePathSymexChecker: programs with up to two      *)
(* branches, one below the other, over three valuations.                   *)
(***************************************************************************)
EXTENDS SinglePathSymexChecker

CONSTANTS m1, m2, m3,   \* valuations
          p1, p2, p3    \* properties; p2 is not known before symbolic execution,
                        \* and p3 has no assertion that it meets

\* The valuations that get to a node: m1 and m2 take the first jump, m1 the
\* second one.
Guard(n) ==
  CASE n = <<>> -> Assignment
    [] n = <<"jump">> -> {m1, m2}
    [] n = <<"next">> -> {m3}
    [] n = <<"jump", "jump">> -> {m1}
    [] n = <<"jump", "next">> -> {m2}

\* At a node there is nothing, an assumption, an assertion of p1 that only m1
\* violates, or this one after an assertion of p2 that all valuations violate.
Kinds == {"NONE", "ASSUME", "ASSERT", "ASSERT2"}

StepsOf(n, kind) ==
  CASE kind = "NONE" -> <<>>
    [] kind = "ASSUME" -> <<FreshStep("ASSUME", Guard(n), {m2, m3}, p1)>>
    [] kind = "ASSERT" -> <<FreshStep("ASSERT", Guard(n), {m2, m3}, p1)>>
    [] kind = "ASSERT2" -> <<FreshStep("ASSERT", Guard(n), {}, p2),
                             FreshStep("ASSERT", Guard(n), {m2, m3}, p1)>>

Trees == {{<<>>},
          {<<>>, <<"jump">>, <<"next">>},
          {<<>>, <<"jump">>, <<"next">>, <<"jump", "jump">>, <<"jump", "next">>}}

\* There is something behind the second branch.
MCPrograms ==
  UNION {{[n \in tree |-> StepsOf(n, kinds[n])] :
            kinds \in {k \in [tree -> Kinds] :
                        \A n \in tree : Len(n) = 2 => k[n] # "NONE"}} :
           tree \in Trees}

\* Each property of the goto model may have fatal assertions, from which its own
\* and any other assertions may be reached.
MCFatalReach ==
  {reach \in [PropertyId -> SUBSET GotoModelProperties] :
     \A p \in PropertyId : reach[p] # {} => p \in reach[p]}
=============================================================================
