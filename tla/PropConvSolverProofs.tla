------------------------ MODULE PropConvSolverProofs ------------------------
(***************************************************************************)
(* Proofs about prop_conv_solvert for every set of assignments, of         *)
(* constraints and of assumption vectors, and any number of contexts.      *)
(***************************************************************************)
EXTENDS PropConvSolver, WellFoundedInduction, TLAPS

USE SMT, ZenonT(20), SMTT(60), ZenonT(60) DEF Expr

-----------------------------------------------------------------------------
(* Sequences *)

\* A function on the first numbers is a sequence.
LEMMA FunctionIsSeq ==
  ASSUME NEW S, NEW n \in Nat, NEW f \in [1 .. n -> S]
  PROVE  f \in Seq(S) /\ Len(f) = n
OBVIOUS

\* A sequence that is not empty has a last element.
LEMMA LastIs ==
  ASSUME NEW S, NEW s \in Seq(S), s # <<>>
  PROVE  \E t \in Seq(S), e \in S : s = Append(t, e)
<1>. DEFINE n == Len(s)
            t == SubSeq(s, 1, n - 1)
<1>1. n \in Nat \ {0} /\ s[n] \in S
  OBVIOUS
<1>2. t \in Seq(S) /\ Append(t, s[n]) = s
  BY <1>1
<1>. QED
  BY <1>1, <1>2, Zenon

-----------------------------------------------------------------------------
(* Least members stand in for inductions over positions: the first context, *)
(* the first failing assertion.                                            *)

\* Every set of natural numbers that is not empty has a least member.
LEMMA LeastMember ==
  ASSUME NEW T \in SUBSET Nat, T # {}
  PROVE  \E i \in T : \A j \in T : i <= j
<1>1. PICK i \in T : \A j \in T : <<j, i>> \notin OpToRel(<, Nat)
  BY NatLessThanWellFounded, WFMin, Zenon
<1>2. ASSUME NEW j \in T PROVE i <= j
  <2>1. ~(j < i)
    BY <1>1, Zenon DEF OpToRel
  <2>. QED
    BY <2>1
<1>. QED
  BY <1>2

\* So a set of positive numbers has a member whose predecessor is no member.
LEMMA FirstMember ==
  ASSUME NEW n \in Nat, NEW T \in SUBSET (1 .. n), T # {}
  PROVE  \E i \in T : i - 1 \notin T
<1>1. T \in SUBSET Nat
  OBVIOUS
<1>2. PICK i \in T : \A j \in T : i <= j
  BY <1>1, LeastMember
<1>. QED
  BY <1>1, <1>2

-----------------------------------------------------------------------------
(* Literals, segments and types *)

\* convert() yields literals: of expressions and of contexts.
LEMMA LiteralType ==
  /\ \A e \in Expr : Lit(e) \in Literal
  /\ \A n \in Nat : On(n) \in Literal /\ Off(n) \in Literal
  /\ \A l \in Literal : Not(l) \in Literal
<1>1. /\ \A e \in Expr : Lit(e) \in Literal
      /\ \A n \in Nat : On(n) \in Literal /\ Off(n) \in Literal
  BY DEF Literal, Lit, On, Off
<1>2. ASSUME NEW l \in Literal PROVE Not(l) \in Literal
  BY DEF Literal, Not, Lit, On, Off
<1>. QED
  BY <1>1, <1>2

\* Literals are different when they are made from different things.
LEMMA LiteralsDiffer ==
  /\ \A e, n : Lit(e) # On(n) /\ Lit(e) # Off(n)
  /\ \A n, k : On(n) # Off(k) /\ (On(n) = On(k) => n = k) /\ (Off(n) = Off(k) => n = k)
  /\ \A d, e : Lit(d) = Lit(e) => d = e
BY DEF Lit, On, Off

\* push(assumptions) appends a literal for every assumption.
LEMMA PushAssumptionsType ==
  ASSUME NEW a \in Seq(Expr)
  PROVE  [i \in DOMAIN a |-> Lit(a[i])] \in Seq(Literal)
<1>1. \A i \in 1 .. Len(a) : Lit(a[i]) \in Literal
  BY LiteralType
<1>. QED
  BY <1>1

\* Opening a context of k literals adds a segment of length k.
LEMMA SegmentsGrow ==
  ASSUME NEW sizes \in Seq(Nat), NEW total \in Nat, NEW k \in Nat,
         Segmented(sizes, total)
  PROVE  Segmented(Append(sizes, k), total + k)
<1>. DEFINE n == Len(sizes)
            t == Append(sizes, k)
<1>1. n \in Nat
  OBVIOUS
<1>2. PICK f \in [0 .. n -> 0 .. total] : IsSegmentation(f, sizes, total)
  BY DEF Segmented
<1>3. Len(t) = n + 1 /\ (\A i \in 1 .. n : t[i] = sizes[i]) /\ t[n + 1] = k
  OBVIOUS
<1>. DEFINE g == [i \in 0 .. n + 1 |-> IF i = n + 1 THEN total + k ELSE f[i]]
<1>4. \A i \in 0 .. n : f[i] \in 0 .. total /\ g[i] = f[i]
  BY <1>1, <1>2
<1>5. g \in [0 .. n + 1 -> 0 .. total + k]
  BY <1>1, <1>4
<1>6. f[0] = 0 /\ f[n] = total
  BY <1>2 DEF IsSegmentation
<1>7. g[0] = 0 /\ g[n + 1] = total + k
  BY <1>1, <1>6
<1>8. ASSUME NEW i \in 1 .. n + 1
      PROVE  g[i] = g[i - 1] + t[i]
  <2>1. CASE i = n + 1
    BY <1>1, <1>3, <1>4, <1>6, <1>7, <2>1
  <2>2. CASE i \in 1 .. n
    <3>1. f[i] = f[i - 1] + sizes[i]
      BY <1>2, <2>2 DEF IsSegmentation
    <3>2. i \in 0 .. n /\ i - 1 \in 0 .. n
      BY <1>1, <2>2
    <3>. QED
      BY <1>3, <1>4, <2>2, <3>1, <3>2
  <2>. QED
    BY <1>1, <2>1, <2>2
<1>9. ASSUME NEW i \in 0 .. n + 1, NEW j \in 0 .. n + 1, i <= j
      PROVE  g[i] <= g[j]
  <2>1. CASE j = n + 1
    BY <1>1, <1>5, <1>7, <2>1
  <2>2. CASE j \in 0 .. n
    <3>1. i \in 0 .. n
      BY <1>1, <1>9, <2>2
    <3>2. f[i] <= f[j]
      BY <1>2, <1>9, <2>2, <3>1 DEF IsSegmentation
    <3>. QED
      BY <1>4, <2>2, <3>1, <3>2
  <2>. QED
    BY <1>1, <2>1, <2>2
<1>. HIDE DEF g, t
<1>10. IsSegmentation(g, t, total + k)
  BY <1>3, <1>5, <1>7, <1>8, <1>9 DEF IsSegmentation
<1>. QED
  BY <1>3, <1>5, <1>10 DEF Segmented, t

\* Without the last context, the segments of the others are what they were.
LEMMA SegmentationShrinks ==
  ASSUME NEW sizes \in Seq(Nat), NEW total \in Nat, sizes # <<>>,
         NEW f, IsSegmentation(f, sizes, total)
  PROVE  LET n == Len(sizes) IN
         /\ total - sizes[n] = f[n - 1]
         /\ f[n - 1] \in 0 .. total
         /\ IsSegmentation([i \in 0 .. n - 1 |-> f[i]],
                           SubSeq(sizes, 1, n - 1), total - sizes[n])
<1>. DEFINE n == Len(sizes)
            t == SubSeq(sizes, 1, n - 1)
<1>1. n \in Nat \ {0} /\ sizes[n] \in Nat
  OBVIOUS
<1>2. f \in [0 .. n -> 0 .. total] /\ IsSegmentation(f, sizes, total)
  BY DEF IsSegmentation
<1>3. Len(t) = n - 1 /\ \A i \in 1 .. n - 1 : t[i] = sizes[i]
  <2>1. \A i \in 1 .. n - 1 : sizes[i] \in Nat
    BY <1>1
  <2>2. /\ Len(t) = IF 1 <= n - 1 THEN (n - 1) - 1 + 1 ELSE 0
        /\ \A i \in 1 .. (n - 1) - 1 + 1 : t[i] = sizes[1 + i - 1]
    BY <1>1, <2>1
  <2>3. (n - 1) - 1 + 1 = n - 1 /\ \A i \in 1 .. n - 1 : 1 + i - 1 = i
    BY <1>1
  <2>. HIDE DEF t, n
  <2>. QED
    BY <1>1, <2>2, <2>3
<1>4. n \in 1 .. n /\ n - 1 \in 0 .. n /\ n \in 0 .. n
  BY <1>1
<1>5. total = f[n - 1] + sizes[n] /\ f[n - 1] \in 0 .. total
  BY <1>2, <1>4 DEF IsSegmentation
<1>6. total - sizes[n] = f[n - 1]
  BY <1>1, <1>5
<1>. DEFINE g == [i \in 0 .. n - 1 |-> f[i]]
<1>7. g \in [0 .. n - 1 -> 0 .. f[n - 1]]
  <2>1. ASSUME NEW i \in 0 .. n - 1 PROVE f[i] \in 0 .. f[n - 1]
    <3>1. i \in 0 .. n /\ i <= n - 1
      BY <1>1
    <3>2. f[i] <= f[n - 1] /\ f[i] \in 0 .. total
      BY <1>2, <1>4, <3>1 DEF IsSegmentation
    <3>. QED
      BY <1>5, <3>2
  <2>. QED
    BY <2>1
<1>8. g[0] = 0 /\ g[n - 1] = f[n - 1]
  BY <1>1, <1>2 DEF IsSegmentation
<1>9. \A i \in 1 .. n - 1 : g[i] = g[i - 1] + t[i]
  <2>1. ASSUME NEW i \in 1 .. n - 1 PROVE g[i] = g[i - 1] + t[i]
    <3>1. i \in 1 .. n /\ i \in 0 .. n - 1 /\ i - 1 \in 0 .. n - 1
      BY <1>1
    <3>2. f[i] = f[i - 1] + sizes[i]
      BY <1>2, <3>1 DEF IsSegmentation
    <3>. QED
      BY <1>3, <3>1, <3>2
  <2>. QED
    BY <2>1, Zenon
<1>10. \A i, j \in 0 .. n - 1 : i <= j => g[i] <= g[j]
  <2>1. ASSUME NEW i \in 0 .. n - 1, NEW j \in 0 .. n - 1, i <= j
        PROVE  g[i] <= g[j]
    <3>1. i \in 0 .. n /\ j \in 0 .. n
      BY <1>1
    <3>. QED
      BY <1>2, <2>1, <3>1 DEF IsSegmentation
  <2>. QED
    BY <2>1
<1>. HIDE DEF g, t
<1>11. IsSegmentation(g, t, f[n - 1])
  BY <1>3, <1>7, <1>8, <1>9, <1>10 DEF IsSegmentation
<1>. QED
  BY <1>5, <1>6, <1>11 DEF g, t

\* Closing a context removes the last segment.
LEMMA SegmentsShrink ==
  ASSUME NEW sizes \in Seq(Nat), NEW total \in Nat, sizes # <<>>,
         Segmented(sizes, total)
  PROVE  LET n == Len(sizes) IN
         /\ total - sizes[n] \in 0 .. total
         /\ Segmented(SubSeq(sizes, 1, n - 1), total - sizes[n])
<1>1. PICK f : IsSegmentation(f, sizes, total)
  BY DEF Segmented
<1>. DEFINE n == Len(sizes)
            g == [i \in 0 .. n - 1 |-> f[i]]
            t == SubSeq(sizes, 1, n - 1)
<1>2. /\ total - sizes[n] \in 0 .. total
      /\ IsSegmentation(g, t, total - sizes[n])
  BY <1>1, SegmentationShrinks
<1>. HIDE DEF g, t
<1>3. Segmented(t, total - sizes[n])
  BY <1>2, Zenon DEF Segmented, IsSegmentation
<1>. QED
  BY <1>2, <1>3 DEF t

(***************************************************************************)
(* Type correctness: the assignments of every operation of prop_conv_solvert*)
(* keep the types of the members, even for clients that take liberties,     *)
(* provided the stacks are segmented as pop() expects.                      *)
(***************************************************************************)
LEMMA TypeInvariant == TypeOK /\ SegmentsCoverStack /\ [Next]_vars => TypeOK'
<1>. SUFFICES ASSUME TypeOK, SegmentsCoverStack, [Next]_vars PROVE TypeOK'
  OBVIOUS
<1>. USE PropConvAssumption
<1>1. CASE SetTo
  <2>1. PICK expr \in Constraints, value \in BOOLEAN : set_to(expr, value)
    BY <1>1 DEF SetTo
  <2>2. ASSUME NEW ls \in SUBSET Literal, add_constraints_to_prop(ls, value)
        PROVE  formula' \subseteq SUBSET Literal
    BY <2>2, LiteralType DEF add_constraints_to_prop, TypeOK
  <2>3. Lit(expr) \in Literal
    BY LiteralType
  <2>4. assumption_stack # <<>> => Not(Back(assumption_stack)) \in Literal
    BY LiteralType DEF TypeOK, Back
  <2>5. formula' \subseteq SUBSET Literal
    <3>1. CASE assumption_stack = <<>>
      BY <2>1, <2>2, <2>3, <3>1 DEF set_to
    <3>2. CASE assumption_stack # <<>>
      BY <2>1, <2>2, <2>3, <2>4, <3>2 DEF set_to
    <3>. QED
      BY <3>1, <3>2
  <2>. QED
    BY <2>1, <2>5 DEF set_to, TypeOK
<1>2. CASE SetEquality
  BY <1>2, LiteralType DEF SetEquality, boolbv_set_equality_to_true, TypeOK
<1>a. /\ Append(assumption_stack, On(context_literal_counter)) \in Seq(Literal)
      /\ Append(context_size_stack, 1) \in Seq(Nat)
  <2>1. On(context_literal_counter) \in Literal
    BY LiteralType DEF TypeOK
  <2>. QED
    BY <2>1 DEF TypeOK
<1>3. CASE Push
  BY <1>3, <1>a DEF Push, push, TypeOK
<1>4. CASE PushAssumptions
  <2>1. PICK a \in Assumptions : push_assumptions(a)
    BY <1>4 DEF PushAssumptions
  <2>2. a \in Seq(Expr) /\ Len(a) \in Nat
    OBVIOUS
  <2>3. assumption_stack' \in Seq(Literal)
    BY <2>1, <2>2, PushAssumptionsType DEF push_assumptions, TypeOK
  <2>. QED
    BY <2>1, <2>2, <2>3 DEF push_assumptions, TypeOK
<1>5. CASE Pop
  <2>1. Len(context_size_stack) \in Nat \ {0} /\ Back(context_size_stack) \in Nat
    BY <1>5 DEF Pop, pop, TypeOK, Back
  <2>2. Len(assumption_stack) \in Nat
        /\ Len(assumption_stack) - Back(context_size_stack) \in 0 .. Len(assumption_stack)
    BY <1>5, <2>1, SegmentsShrink
    DEF TypeOK, SegmentsCoverStack, Pop, pop, Back
  <2>3. SubSeq(assumption_stack, 1, Len(assumption_stack) - Back(context_size_stack))
          \in Seq(Literal)
    BY <2>2 DEF TypeOK
  <2>4. SubSeq(context_size_stack, 1, Len(context_size_stack) - 1) \in Seq(Nat)
    BY <2>1 DEF TypeOK
  <2>. QED
    BY <1>5, <2>3, <2>4 DEF Pop, pop, TypeOK
<1>6. CASE DecSolve
  BY <1>6 DEF DecSolve, dec_solve, do_prop_solve, Solutions, TypeOK, Results
<1>7. CASE DecSolveAssuming
  BY <1>7 DEF DecSolveAssuming, dec_solve_assuming, do_prop_solve, Solutions,
              TypeOK, Results
<1>8. CASE DecSolveBadAlloc
  BY <1>8, <1>a DEF DecSolveBadAlloc, dec_solve_bad_alloc, prop_solve_bad_alloc,
                    TypeOK, Results
<1>9. CASE DecSolveAssumingBadAlloc
  <2>1. PICK e \in Expr : dec_solve_assuming_bad_alloc(e)
    BY <1>9 DEF DecSolveAssumingBadAlloc
  <2>2. Append(assumption_stack, Lit(e)) \in Seq(Literal)
    BY LiteralType DEF TypeOK
  <2>. QED
    BY <1>a, <2>1, <2>2 DEF dec_solve_assuming_bad_alloc, prop_solve_bad_alloc,
                            TypeOK, Results
<1>10. CASE DecSolveBadAllocEarly
  BY <1>10 DEF DecSolveBadAllocEarly, dec_solve_bad_alloc_early, TypeOK, Results
<1>11. CASE UNCHANGED vars
  BY <1>11 DEF TypeOK, vars
<1>. QED
  BY <1>1, <1>2, <1>3, <1>4, <1>5, <1>6, <1>7, <1>8, <1>9, <1>10, <1>11 DEF Next

\* push(), push(assumptions), pop() and the leak in dec_solve keep the sizes on
\* context_size_stack in step with assumption_stack.
LEMMA SegmentsInvariant ==
  TypeOK /\ SegmentsCoverStack /\ [Next]_vars => SegmentsCoverStack'
<1>. SUFFICES ASSUME TypeOK, SegmentsCoverStack, [Next]_vars
              PROVE  SegmentsCoverStack'
  OBVIOUS
<1>. USE PropConvAssumption
<1>1. Len(assumption_stack) \in Nat /\ context_size_stack \in Seq(Nat)
  BY DEF TypeOK
<1>2. ASSUME NEW l \in Literal,
             assumption_stack' = Append(assumption_stack, l),
             context_size_stack' = Append(context_size_stack, 1)
      PROVE  SegmentsCoverStack'
  <2>1. Len(assumption_stack') = Len(assumption_stack) + 1
    BY <1>2 DEF TypeOK
  <2>. QED
    BY <1>1, <1>2, <2>1, SegmentsGrow DEF SegmentsCoverStack
<1>a. On(context_literal_counter) \in Literal
  BY LiteralType DEF TypeOK
<1>3. CASE SetTo
  BY <1>3 DEF SetTo, set_to, SegmentsCoverStack
<1>4. CASE SetEquality
  BY <1>4 DEF SetEquality, boolbv_set_equality_to_true, SegmentsCoverStack
<1>5. CASE Push
  BY <1>2, <1>5, <1>a DEF Push, push
<1>6. CASE PushAssumptions
  <2>1. PICK a \in Assumptions : push_assumptions(a)
    BY <1>6 DEF PushAssumptions
  <2>2. a \in Seq(Expr) /\ Len(a) \in Nat /\ DOMAIN a = 1 .. Len(a)
    OBVIOUS
  <2>. DEFINE b == [i \in DOMAIN a |-> Lit(a[i])]
  <2>3. b \in Seq(Literal)
    BY <2>2, PushAssumptionsType, Zenon
  <2>4. Len(b) = Len(a)
    BY <2>2, <2>3
  <2>5. Len(assumption_stack \o b) = Len(assumption_stack) + Len(b)
    BY <2>3 DEF TypeOK
  <2>6. Len(assumption_stack') = Len(assumption_stack) + Len(a)
    BY <2>1, <2>4, <2>5 DEF push_assumptions
  <2>. QED
    BY <1>1, <2>1, <2>2, <2>6, SegmentsGrow DEF SegmentsCoverStack, push_assumptions
<1>7. CASE Pop
  <2>. DEFINE n == Len(context_size_stack)
              k == Len(assumption_stack) - context_size_stack[n]
  <2>1. k \in 0 .. Len(assumption_stack)
        /\ Segmented(SubSeq(context_size_stack, 1, n - 1), k)
    BY <1>1, <1>7, SegmentsShrink DEF SegmentsCoverStack, Pop, pop
  <2>2. Len(SubSeq(assumption_stack, 1, k)) = k
    BY <1>1, <2>1 DEF TypeOK
  <2>. QED
    BY <1>7, <2>1, <2>2 DEF SegmentsCoverStack, Pop, pop, Back
<1>8. CASE DecSolve
  BY <1>8 DEF DecSolve, dec_solve, SegmentsCoverStack
<1>9. CASE DecSolveAssuming
  BY <1>9 DEF DecSolveAssuming, dec_solve_assuming, SegmentsCoverStack
<1>10. CASE DecSolveBadAlloc
  BY <1>2, <1>10, <1>a
  DEF DecSolveBadAlloc, dec_solve_bad_alloc, prop_solve_bad_alloc
<1>11. CASE DecSolveAssumingBadAlloc
  <2>1. PICK e \in Expr : dec_solve_assuming_bad_alloc(e)
    BY <1>11 DEF DecSolveAssumingBadAlloc
  <2>2. Lit(e) \in Literal
    BY LiteralType
  <2>. QED
    BY <1>2, <2>1, <2>2 DEF dec_solve_assuming_bad_alloc, prop_solve_bad_alloc
<1>12. CASE DecSolveBadAllocEarly
  BY <1>12 DEF DecSolveBadAllocEarly, dec_solve_bad_alloc_early, SegmentsCoverStack
<1>13. CASE UNCHANGED vars
  BY <1>13 DEF vars, SegmentsCoverStack
<1>. QED
  BY <1>3, <1>4, <1>5, <1>6, <1>7, <1>8, <1>9, <1>10, <1>11, <1>12, <1>13 DEF Next

\* The initial state is typed and has no contexts.
LEMMA InitSegments == Init => TypeOK /\ SegmentsCoverStack
<1>. SUFFICES ASSUME Init PROVE TypeOK /\ SegmentsCoverStack
  OBVIOUS
<1>1. TypeOK
  BY DEF Init, TypeOK, Results
<1>. DEFINE f == [i \in 0 .. 0 |-> 0]
<1>2. Len(<<>>) = 0
  OBVIOUS
<1>3. IsSegmentation(f, <<>>, 0) /\ f \in [0 .. 0 -> 0 .. 0]
  BY <1>2 DEF IsSegmentation
<1>4. SegmentsCoverStack
  BY <1>2, <1>3 DEF SegmentsCoverStack, Segmented, Init
<1>. QED
  BY <1>1, <1>4

(***************************************************************************)
(* Every reachable state of prop_conv_solvert is typed, and pop() always   *)
(* removes a whole context, whatever the clients do.                       *)
(***************************************************************************)
THEOREM TypeCorrect == Spec => [](TypeOK /\ SegmentsCoverStack)
<1>1. Init => TypeOK /\ SegmentsCoverStack
  BY InitSegments
<1>2. TypeOK /\ SegmentsCoverStack /\ [Next]_vars => (TypeOK /\ SegmentsCoverStack)'
  BY TypeInvariant, SegmentsInvariant
<1>. QED
  BY <1>1, <1>2, PTL DEF Spec

-----------------------------------------------------------------------------
(* The inductive invariant of the clients that take no liberties.            *)

IInv == TypeOK /\ WellFormed

\* Adding a permanent constraint, a constraint of a context, or a context literal
\* keeps every clause guarded.
LEMMA ClausesGrow ==
  ASSUME NEW f, NEW n \in Nat, ClausesGuarded(f, n)
  PROVE  /\ ClausesGuarded(f, n + 1)
         /\ \A e \in Expr : ClausesGuarded(f \cup {{Lit(e)}}, n)
         /\ \A e \in Expr, k \in 0 .. n - 1 :
              ClausesGuarded(f \cup {{Off(k), Lit(e)}}, n)
<1>1. 0 .. n - 1 \subseteq 0 .. (n + 1) - 1
  OBVIOUS
<1>2. ClausesGuarded(f, n + 1)
  BY <1>1 DEF ClausesGuarded
<1>3. ASSUME NEW e \in Expr PROVE ClausesGuarded(f \cup {{Lit(e)}}, n)
  BY DEF ClausesGuarded
<1>4. ASSUME NEW e \in Expr, NEW k \in 0 .. n - 1
      PROVE  ClausesGuarded(f \cup {{Off(k), Lit(e)}}, n)
  BY DEF ClausesGuarded
<1>. QED
  BY <1>2, <1>3, <1>4, Zenon

\* A fresh context literal on top of the stack is distinct from the others.
LEMMA ContextsPush ==
  ASSUME NEW s \in Seq(Literal), NEW n \in Nat, ContextsDistinct(s, n)
  PROVE  ContextsDistinct(s, n + 1) /\ ContextsDistinct(Append(s, On(n)), n + 1)
<1>. DEFINE N == Len(s)
            t == Append(s, On(n))
<1>1. N \in Nat /\ DOMAIN s = 1 .. N /\ 0 .. n - 1 \subseteq 0 .. (n + 1) - 1
  OBVIOUS
<1>2. ContextsDistinct(s, n + 1)
  BY <1>1 DEF ContextsDistinct
<1>3. /\ DOMAIN t = 1 .. N + 1
      /\ \A i \in 1 .. N : t[i] = s[i]
      /\ t[N + 1] = On(n)
  BY <1>1, LiteralType
<1>. HIDE DEF t
<1>4. ASSUME NEW i \in 1 .. N PROVE s[i] # On(n)
  <2>1. n \notin 0 .. n - 1
    OBVIOUS
  <2>. QED
    BY <1>1, <2>1, LiteralsDiffer DEF ContextsDistinct
<1>5. ASSUME NEW i \in DOMAIN t
      PROVE  \/ \E e \in Expr : t[i] = Lit(e)
             \/ \E k \in 0 .. (n + 1) - 1 :
                  t[i] = On(k) /\ \A j \in DOMAIN t : t[j] = On(k) => j = i
  <2>1. CASE i = N + 1
    <3>1. n \in 0 .. (n + 1) - 1
      OBVIOUS
    <3>2. \A j \in 1 .. N + 1 : j \in 1 .. N \/ j = N + 1
      BY <1>1
    <3>3. t[i] = On(n) /\ \A j \in DOMAIN t : t[j] = On(n) => j = i
      BY <1>3, <1>4, <2>1, <3>2
    <3>. QED
      BY <3>1, <3>3
  <2>2. CASE i \in 1 .. N /\ \E e \in Expr : s[i] = Lit(e)
    BY <1>3, <2>2
  <2>3. ASSUME i \in 1 .. N, NEW k \in 0 .. n - 1, s[i] = On(k),
               \A j \in 1 .. N : s[j] = On(k) => j = i
        PROVE  \E l \in 0 .. (n + 1) - 1 :
                  t[i] = On(l) /\ \A j \in DOMAIN t : t[j] = On(l) => j = i
    <3>1. On(n) # On(k)
      BY LiteralsDiffer
    <3>2. \A j \in 1 .. N + 1 : j \in 1 .. N \/ j = N + 1
      BY <1>1
    <3>3. \A j \in DOMAIN t : t[j] = On(k) => j = i
      BY <1>3, <2>3, <3>1, <3>2
    <3>. QED
      BY <1>1, <1>3, <2>3, <3>3
  <2>4. CASE i \in 1 .. N
    BY <1>1, <2>2, <2>3, <2>4 DEF ContextsDistinct
  <2>. QED
    BY <1>1, <1>3, <2>1, <2>4
<1>6. ContextsDistinct(t, n + 1)
  BY <1>5 DEF ContextsDistinct
<1>. QED
  BY <1>2, <1>6 DEF t

\* Assumptions on top of the stack are no context literals.
LEMMA ContextsAssume ==
  ASSUME NEW s \in Seq(Literal), NEW n \in Nat, ContextsDistinct(s, n),
         NEW a \in Seq(Expr)
  PROVE  ContextsDistinct(s \o [i \in DOMAIN a |-> Lit(a[i])], n)
<1>. DEFINE N == Len(s)
            b == [i \in DOMAIN a |-> Lit(a[i])]
            t == s \o b
<1>1. /\ N \in Nat /\ DOMAIN s = 1 .. N
      /\ Len(a) \in Nat /\ DOMAIN a = 1 .. Len(a)
  OBVIOUS
<1>2. b \in Seq(Literal)
  BY PushAssumptionsType
<1>3. Len(b) = Len(a)
  BY <1>1, <1>2
<1>4. \A i \in 1 .. Len(a) : b[i] = Lit(a[i]) /\ a[i] \in Expr
  BY <1>1
<1>. HIDE DEF b
<1>5. /\ Len(t) = N + Len(a)
      /\ \A i \in 1 .. N + Len(a) : t[i] = IF i <= N THEN s[i] ELSE b[i - N]
  <2>1. /\ Len(s \o b) = Len(s) + Len(b)
        /\ \A i \in 1 .. Len(s) + Len(b) :
             (s \o b)[i] = IF i <= Len(s) THEN s[i] ELSE b[i - Len(s)]
    BY <1>2
  <2>. QED
    BY <1>3, <2>1
<1>6. DOMAIN t = 1 .. N + Len(a)
  BY <1>2, <1>5
<1>. HIDE DEF t
<1>7. ASSUME NEW i \in DOMAIN t, i \notin 1 .. N
      PROVE  \E e \in Expr : t[i] = Lit(e)
  <2>1. i - N \in 1 .. Len(a) /\ ~(i <= N)
    BY <1>1, <1>6, <1>7
  <2>. QED
    BY <1>4, <1>5, <1>6, <2>1
<1>8. ASSUME NEW i \in 1 .. N PROVE i \in DOMAIN t /\ t[i] = s[i]
  BY <1>1, <1>5, <1>6
<1>9. ASSUME NEW i \in DOMAIN t
      PROVE  \/ \E e \in Expr : t[i] = Lit(e)
             \/ \E k \in 0 .. n - 1 :
                  t[i] = On(k) /\ \A j \in DOMAIN t : t[j] = On(k) => j = i
  <2>1. ASSUME i \in 1 .. N, NEW k \in 0 .. n - 1, s[i] = On(k),
               \A j \in 1 .. N : s[j] = On(k) => j = i
        PROVE  t[i] = On(k) /\ \A j \in DOMAIN t : t[j] = On(k) => j = i
    BY <1>7, <1>8, <2>1, LiteralsDiffer, Zenon
  <2>2. CASE i \in 1 .. N
    BY <1>1, <1>8, <2>1, <2>2 DEF ContextsDistinct
  <2>. QED
    BY <1>7, <2>2
<1>. QED
  BY <1>9, Zenon DEF ContextsDistinct, t, b

\* The same for the one assumption that dec_solve leaves on the stack.
LEMMA ContextsAssumeOne ==
  ASSUME NEW s \in Seq(Literal), NEW n \in Nat, ContextsDistinct(s, n), NEW e \in Expr
  PROVE  ContextsDistinct(Append(s, Lit(e)), n)
<1>. DEFINE N == Len(s)
            t == Append(s, Lit(e))
<1>1. N \in Nat /\ DOMAIN s = 1 .. N
  OBVIOUS
<1>2. /\ DOMAIN t = 1 .. N + 1
      /\ \A i \in 1 .. N : t[i] = s[i]
      /\ t[N + 1] = Lit(e)
  BY <1>1, LiteralType
<1>. HIDE DEF t
<1>3. \A i \in 1 .. N + 1 : i \in 1 .. N \/ i = N + 1
  BY <1>1
<1>4. ASSUME NEW i \in DOMAIN t
      PROVE  \/ \E d \in Expr : t[i] = Lit(d)
             \/ \E k \in 0 .. n - 1 :
                  t[i] = On(k) /\ \A j \in DOMAIN t : t[j] = On(k) => j = i
  <2>1. CASE i = N + 1
    BY <1>2, <2>1
  <2>2. ASSUME i \in 1 .. N, NEW k \in 0 .. n - 1, s[i] = On(k),
               \A j \in 1 .. N : s[j] = On(k) => j = i
        PROVE  t[i] = On(k) /\ \A j \in DOMAIN t : t[j] = On(k) => j = i
    BY <1>2, <1>3, <2>2, LiteralsDiffer, Zenon
  <2>3. CASE i \in 1 .. N
    BY <1>1, <1>2, <2>2, <2>3 DEF ContextsDistinct
  <2>. QED
    BY <1>2, <1>3, <2>1, <2>3
<1>. QED
  BY <1>4, Zenon DEF ContextsDistinct, t

\* A prefix of the stack keeps the form.
LEMMA ContextsPop ==
  ASSUME NEW s \in Seq(Literal), NEW n \in Nat, ContextsDistinct(s, n),
         NEW k \in 0 .. Len(s)
  PROVE  ContextsDistinct(SubSeq(s, 1, k), n)
<1>. DEFINE t == SubSeq(s, 1, k)
<1>1. Len(s) \in Nat /\ DOMAIN s = 1 .. Len(s) /\ 1 .. k \subseteq 1 .. Len(s)
  OBVIOUS
<1>2. t \in Seq(Literal) /\ Len(t) = k /\ \A i \in 1 .. k : t[i] = s[i]
  BY <1>1
<1>3. DOMAIN t = 1 .. k
  BY <1>2
<1>. HIDE DEF t
<1>. QED
  BY <1>1, <1>2, <1>3 DEF ContextsDistinct, t

\* Outside the root context, and outside the contexts of assumptions, the top of
\* the assumption stack is a context literal, so set_to guards with its negation.
LEMMA TopOfContext ==
  ASSUME IInv, assumption_stack # <<>>
  PROVE  /\ ~InRoot
         /\ ~InAssumptionContext =>
              \E n \in 0 .. context_literal_counter - 1 :
                Back(assumption_stack) = On(n)
<1>. DEFINE N == Len(assumption_stack)
<1>1. N \in Nat \ {0} /\ DOMAIN assumption_stack = 1 .. N
  BY DEF IInv, TypeOK
<1>2. ~InRoot
  <2>1. SUFFICES ASSUME InRoot PROVE FALSE
    OBVIOUS
  <2>2. Len(context_size_stack) = 0
    BY <2>1 DEF InRoot
  <2>3. N = 0
    BY <2>2 DEF IInv, WellFormed, SegmentsCoverStack, Segmented, IsSegmentation
  <2>. QED
    BY <1>1, <2>3
<1>3. ASSUME ~InAssumptionContext
      PROVE  \E n \in 0 .. context_literal_counter - 1 : Back(assumption_stack) = On(n)
  <2>1. Back(assumption_stack)[1] # "expr"
    BY <1>2, <1>3 DEF InAssumptionContext
  <2>2. N \in DOMAIN assumption_stack
    BY <1>1
  <2>. QED
    BY <2>1, <2>2 DEF IInv, WellFormed, ContextsDistinct, Back, Lit
<1>. QED
  BY <1>2, <1>3

\* Every operation keeps the clauses guarded and the contexts distinct, when the
\* clients take no liberties.
LEMMA WellFormedInvariant ==
  ASSUME Liberties = {}, IInv, [Next]_vars
  PROVE  WellFormed'
<1>. DEFINE f == formula
            s == assumption_stack
            n == context_literal_counter
<1>0. /\ s \in Seq(Literal) /\ n \in Nat /\ SegmentsCoverStack
      /\ ClausesGuarded(f, n) /\ ContextsDistinct(s, n)
  BY DEF IInv, WellFormed, TypeOK
<1>. SUFFICES ClausesGuarded(f', n') /\ ContextsDistinct(s', n')
  BY SegmentsInvariant DEF IInv, WellFormed
<1>1. CASE SetTo
  <2>1. PICK expr \in Expr, value \in BOOLEAN :
          /\ ~value => InRoot
          /\ ~InAssumptionContext
          /\ set_to(expr, value)
    BY <1>1, PropConvAssumption DEF SetTo
  <2>2. n' = n /\ s' = s
    BY <2>1 DEF set_to
  <2>3. CASE s = <<>> /\ value
    <3>1. f' = f \cup {{Lit(expr)}}
      BY <2>1, <2>3 DEF set_to, add_constraints_to_prop
    <3>. QED
      BY <1>0, <2>2, <3>1, ClausesGrow, Zenon
  <2>4. CASE s = <<>> /\ ~value
    <3>1. {{Not(l)} : l \in {Lit(expr)}} = {{Lit(Assignment \ expr)}}
      BY DEF Not, Lit
    <3>2. f' = f \cup {{Lit(Assignment \ expr)}}
      BY <2>1, <2>4, <3>1, Zenon DEF set_to, add_constraints_to_prop
    <3>3. Assignment \ expr \in Expr
      OBVIOUS
    <3>. QED
      BY <1>0, <2>2, <3>2, <3>3, ClausesGrow, Zenon
  <2>5. CASE s # <<>>
    <3>1. value
      BY <2>1, <2>5, TopOfContext
    <3>2. PICK k \in 0 .. n - 1 : Back(s) = On(k)
      BY <2>1, <2>5, TopOfContext
    <3>3. Not(Back(s)) = Off(k)
      BY <3>2 DEF Not, On
    <3>4. f' = f \cup {{Off(k), Lit(expr)}}
      BY <2>1, <2>5, <3>1, <3>3 DEF set_to, add_constraints_to_prop
    <3>. QED
      BY <1>0, <2>2, <3>4, ClausesGrow, Zenon
  <2>. QED
    BY <2>3, <2>4, <2>5
<1>2. CASE SetEquality
  <2>1. PICK e \in Expr : boolbv_set_equality_to_true(e)
    BY <1>2, PropConvAssumption DEF SetEquality
  <2>2. f' = f \cup {{Lit(e)}} /\ n' = n /\ s' = s
    BY <2>1 DEF boolbv_set_equality_to_true
  <2>. QED
    BY <1>0, <2>2, ClausesGrow, Zenon
<1>3. CASE Push
  BY <1>0, <1>3, ClausesGrow, ContextsPush DEF Push, push
<1>4. CASE PushAssumptions
  <2>1. PICK a \in Seq(Expr) : push_assumptions(a)
    BY <1>4, PropConvAssumption DEF PushAssumptions
  <2>. QED
    BY <1>0, <2>1, ContextsAssume, Zenon DEF push_assumptions
<1>5. CASE Pop
  <2>1. Len(s) - Back(context_size_stack) \in 0 .. Len(s)
    BY <1>0, <1>5, SegmentsShrink
    DEF Pop, pop, Back, IInv, TypeOK, SegmentsCoverStack
  <2>. QED
    BY <1>0, <1>5, <2>1, ContextsPop DEF Pop, pop
<1>6. CASE DecSolve
  BY <1>0, <1>6, ClausesGrow, ContextsPush DEF DecSolve, dec_solve
<1>7. CASE DecSolveAssuming
  BY <1>0, <1>7 DEF DecSolveAssuming, dec_solve_assuming
<1>8. CASE DecSolveBadAlloc
  BY <1>0, <1>8, ClausesGrow, ContextsPush
  DEF DecSolveBadAlloc, dec_solve_bad_alloc, prop_solve_bad_alloc
<1>9. CASE DecSolveAssumingBadAlloc
  <2>1. PICK e \in Expr : dec_solve_assuming_bad_alloc(e)
    BY <1>9, PropConvAssumption DEF DecSolveAssumingBadAlloc
  <2>. QED
    BY <1>0, <2>1, ContextsAssumeOne
    DEF dec_solve_assuming_bad_alloc, prop_solve_bad_alloc
<1>10. CASE DecSolveBadAllocEarly
  BY <1>0, <1>10, ClausesGrow, ContextsPush
  DEF DecSolveBadAllocEarly, dec_solve_bad_alloc_early
<1>11. CASE UNCHANGED vars
  BY <1>0, <1>11 DEF vars
<1>. QED
  BY <1>1, <1>2, <1>3, <1>4, <1>5, <1>6, <1>7, <1>8, <1>9, <1>10, <1>11 DEF Next

\* With guarded clauses and distinct contexts, choosing exactly the literals of the
\* contexts on the stack to be true satisfies the clauses of all other contexts.
LEMMA ActiveIsSolved == ASSUME IInv PROVE SolvesActiveContexts
<1>. DEFINE n == context_literal_counter
            s == assumption_stack
<1>0. n \in Nat /\ ClausesGuarded(formula, n) /\ ContextsDistinct(s, n)
  BY DEF IInv, WellFormed, TypeOK
<1>1. /\ \A m, on, e : LitHolds(Lit(e), m, on) <=> m \in e
      /\ \A m, on, k : LitHolds(On(k), m, on) <=> k \in on
      /\ \A m, on, k : LitHolds(Off(k), m, on) <=> k \notin on
      /\ \A m, e : LitActive(Lit(e), m) <=> m \in e
      /\ \A m, k : LitActive(On(k), m) <=> \A d \in ContextConstraints(k) : m \in d
  BY DEF LitHolds, LitActive, Lit, On, Off
<1>2. ASSUME NEW m \in Solutions(formula, s) PROVE m \in Active
  <2>1. PICK on \in SUBSET (0 .. n) : Satisfies(formula, s, m, on)
    BY DEF Solutions
  <2>2. m \in Assignment
    BY DEF Solutions
  <2>3. ASSUME NEW e \in Expr, {Lit(e)} \in formula PROVE m \in e
    BY <1>1, <2>1, <2>2, <2>3 DEF Satisfies
  <2>4. ASSUME NEW i \in DOMAIN s PROVE LitActive(s[i], m)
    <3>1. LitHolds(s[i], m, on)
      BY <2>1 DEF Satisfies
    <3>2. ASSUME NEW k, s[i] = On(k), NEW e \in ContextConstraints(k) PROVE m \in e
      <4>1. {Off(k), Lit(e)} \in formula
        BY <3>2 DEF ContextConstraints
      <4>2. LitHolds(Off(k), m, on) \/ LitHolds(Lit(e), m, on)
        BY <2>1, <4>1 DEF Satisfies
      <4>. QED
        BY <1>1, <2>2, <3>1, <3>2, <4>2
    <3>3. CASE \E e \in Expr : s[i] = Lit(e)
      BY <1>1, <2>2, <3>1, <3>3
    <3>4. CASE \E k \in 0 .. n - 1 : s[i] = On(k)
      BY <1>1, <2>2, <3>2, <3>4
    <3>. QED
      BY <1>0, <3>3, <3>4 DEF ContextsDistinct
  <2>. QED
    BY <2>2, <2>3, <2>4 DEF Active
<1>3. ASSUME NEW m \in Active PROVE m \in Solutions(formula, s)
  <2>. DEFINE on == {k \in 0 .. n - 1 : \E i \in DOMAIN s : s[i] = On(k)}
  <2>1. on \in SUBSET (0 .. n) /\ m \in Assignment
    BY <1>0 DEF Active
  <2>2. ASSUME NEW c \in formula PROVE \E l \in c : LitHolds(l, m, on)
    <3>1. ASSUME NEW e \in Expr, c = {Lit(e)} PROVE LitHolds(Lit(e), m, on)
      BY <1>1, <2>1, <3>1 DEF Active
    <3>2. ASSUME NEW e \in Expr, NEW k \in 0 .. n - 1, c = {Off(k), Lit(e)}, k \in on
          PROVE  LitHolds(Lit(e), m, on)
      <4>1. PICK i \in DOMAIN s : s[i] = On(k)
        BY <3>2
      <4>2. LitActive(On(k), m)
        BY <4>1 DEF Active
      <4>3. e \in ContextConstraints(k)
        BY <3>2 DEF ContextConstraints
      <4>. QED
        BY <1>1, <2>1, <4>2, <4>3
    <3>3. ASSUME NEW e \in Expr, NEW k \in 0 .. n - 1, c = {Off(k), Lit(e)}, k \notin on
          PROVE  LitHolds(Off(k), m, on)
      BY <1>1, <2>1, <3>3
    <3>. HIDE DEF on
    <3>. QED
      BY <1>0, <3>1, <3>2, <3>3 DEF ClausesGuarded
  <2>3. ASSUME NEW i \in DOMAIN s PROVE LitHolds(s[i], m, on)
    <3>1. LitActive(s[i], m)
      BY DEF Active
    <3>2. CASE \E e \in Expr : s[i] = Lit(e)
      BY <1>1, <2>1, <3>1, <3>2
    <3>3. ASSUME NEW k \in 0 .. n - 1, s[i] = On(k) PROVE LitHolds(s[i], m, on)
      <4>1. k \in on
        BY <3>3
      <4>. QED
        BY <1>1, <2>1, <3>3, <4>1
    <3>. QED
      BY <1>0, <3>2, <3>3 DEF ContextsDistinct
  <2>4. Satisfies(formula, s, m, on)
    BY <2>2, <2>3, Zenon DEF Satisfies
  <2>. HIDE DEF on
  <2>. QED
    BY <2>1, <2>4 DEF Solutions
<1>. QED
  BY <1>2, <1>3 DEF SolvesActiveContexts, Active, Solutions

\* The initial state satisfies the inductive invariant.
LEMMA InitInvariant == Init => IInv
<1>1. Init => ClausesGuarded(formula, context_literal_counter)
  BY DEF Init, ClausesGuarded
<1>2. Init => ContextsDistinct(assumption_stack, context_literal_counter)
  BY DEF Init, ContextsDistinct
<1>. QED
  BY <1>1, <1>2, InitSegments DEF IInv, WellFormed

\* Without assumptions, guarded clauses constrain nothing but through the permanent
\* constraints among them: all context literals can be false.
LEMMA PermanentSolutions ==
  ASSUME TypeOK, NEW f, ClausesGuarded(f, context_literal_counter)
  PROVE  Solutions(f, <<>>) =
           {m \in Assignment : \A e \in Expr : {Lit(e)} \in f => m \in e}
<1>. DEFINE n == context_literal_counter
<1>1. /\ \A m, on, e : LitHolds(Lit(e), m, on) <=> m \in e
      /\ \A m, on, k : LitHolds(Off(k), m, on) <=> k \notin on
  BY DEF LitHolds, Lit, Off
<1>2. ASSUME NEW m \in Solutions(f, <<>>), NEW e \in Expr, {Lit(e)} \in f
      PROVE  m \in e
  <2>1. PICK on \in SUBSET (0 .. n) : Satisfies(f, <<>>, m, on)
    BY DEF Solutions
  <2>2. LitHolds(Lit(e), m, on)
    BY <1>2, <2>1 DEF Satisfies
  <2>. QED
    BY <1>1, <2>2
<1>3. ASSUME NEW m \in Assignment, \A e \in Expr : {Lit(e)} \in f => m \in e
      PROVE  m \in Solutions(f, <<>>)
  <2>1. ASSUME NEW c \in f PROVE \E l \in c : LitHolds(l, m, {})
    <3>1. PICK e \in Expr : c = {Lit(e)} \/ \E k \in 0 .. n - 1 : c = {Off(k), Lit(e)}
      BY DEF ClausesGuarded
    <3>2. CASE c = {Lit(e)}
      BY <1>1, <1>3, <3>2
    <3>3. CASE \E k \in 0 .. n - 1 : c = {Off(k), Lit(e)}
      BY <1>1, <3>3
    <3>. QED
      BY <3>1, <3>2, <3>3
  <2>2. DOMAIN <<>> = {}
    OBVIOUS
  <2>3. Satisfies(f, <<>>, m, {})
    BY <2>1, <2>2 DEF Satisfies
  <2>4. {} \in SUBSET (0 .. n)
    OBVIOUS
  <2>. QED
    BY <2>3, <2>4 DEF Solutions
<1>. QED
  BY <1>2, <1>3, Zenon DEF Solutions

\* In a context push() opened, the assumption stack is not empty.
LEMMA ContextHasLiteral ==
  ASSUME IInv, ~InRoot, ~InAssumptionContext
  PROVE  assumption_stack # <<>>
<1>. DEFINE n == Len(context_size_stack)
            N == Len(assumption_stack)
<1>1. N \in Nat /\ context_size_stack \in Seq(Nat) /\ context_size_stack # <<>>
  BY DEF IInv, TypeOK, InRoot
<1>2. context_size_stack[n] = 1
  BY DEF InAssumptionContext, Back
<1>3. N - context_size_stack[n] \in 0 .. N
  BY <1>1, SegmentsShrink DEF IInv, WellFormed, SegmentsCoverStack
<1>4. N # 0
  BY <1>1, <1>2, <1>3
<1>. QED
  BY <1>4

\* A call inside a context adds no permanent constraint, when the clients take no
\* liberties: set_to guards what it adds by the literal of the context.
LEMMA ContextAddsGuarded ==
  ASSUME Liberties = {}, IInv, [Next]_vars, ~InRoot
  PROVE  /\ ClausesGuarded(formula', context_literal_counter)
         /\ \A e \in Expr : {Lit(e)} \in formula' <=> {Lit(e)} \in formula
<1>. DEFINE n == context_literal_counter
<1>0. n \in Nat /\ ClausesGuarded(formula, n)
  BY DEF IInv, WellFormed, TypeOK
<1>1. CASE SetTo
  <2>1. PICK expr \in Expr, value \in BOOLEAN :
          value /\ ~InAssumptionContext /\ set_to(expr, value)
    BY <1>1, PropConvAssumption DEF SetTo
  <2>2. assumption_stack # <<>>
    BY <2>1, ContextHasLiteral
  <2>3. PICK k \in 0 .. n - 1 : Back(assumption_stack) = On(k)
    BY <2>1, <2>2, TopOfContext
  <2>4. Not(Back(assumption_stack)) = Off(k)
    BY <2>3 DEF Not, On
  <2>5. formula' = formula \cup {{Off(k), Lit(expr)}}
    BY <2>1, <2>2, <2>4 DEF set_to, add_constraints_to_prop
  <2>6. ASSUME NEW e PROVE {Lit(e)} # {Off(k), Lit(expr)}
    BY LiteralsDiffer
  <2>. QED
    BY <1>0, <2>5, <2>6, ClausesGrow
<1>2. CASE SetEquality
  BY <1>2 DEF SetEquality
<1>3. CASE UNCHANGED formula
  BY <1>0, <1>3
<1>. QED
  BY <1>1, <1>2, <1>3, Zenon DEF Next, vars, Push, push, PushAssumptions, push_assumptions,
     Pop, pop, DecSolve, dec_solve, DecSolveAssuming, dec_solve_assuming, DecSolveBadAlloc,
     dec_solve_bad_alloc, DecSolveAssumingBadAlloc, dec_solve_assuming_bad_alloc,
     prop_solve_bad_alloc, DecSolveBadAllocEarly, dec_solve_bad_alloc_early

(***************************************************************************)
(* For clients that take no liberties, every solver call of                *)
(* prop_conv_solvert decides exactly the conjunction of the contexts on the *)
(* stack, however many contexts were opened and closed before it.          *)
(***************************************************************************)
THEOREM ContextsAreSolved ==
  Liberties = {} => (Spec => [](WellFormed /\ SolvesActiveContexts))
<1>. SUFFICES ASSUME Liberties = {}
              PROVE  Spec => [](WellFormed /\ SolvesActiveContexts)
  OBVIOUS
<1>1. Init => IInv
  BY InitInvariant
<1>2. IInv /\ [Next]_vars => IInv'
  BY TypeInvariant, WellFormedInvariant DEF IInv, WellFormed
<1>3. IInv => WellFormed /\ SolvesActiveContexts
  BY ActiveIsSolved DEF IInv
<1>. QED
  BY <1>1, <1>2, <1>3, PTL DEF Spec

(***************************************************************************)
(* For these clients the clauses and the two stacks fit together after      *)
(* every sequence of calls: context literals are fresh, every constraint of *)
(* a context is guarded by its literal, and the sizes on context_size_stack *)
(* cut assumption_stack into the contexts.                                 *)
(***************************************************************************)
THEOREM StacksFit == Liberties = {} => (Spec => []WellFormed)
<1>. SUFFICES ASSUME Liberties = {} PROVE Spec => []WellFormed
  OBVIOUS
<1>1. Spec => [](WellFormed /\ SolvesActiveContexts)
  BY ContextsAreSolved
<1>. QED
  BY <1>1, PTL

(***************************************************************************)
(* For clients that take no liberties, what set_to adds inside a context    *)
(* can be removed later: without assumptions the SAT solver has the same    *)
(* solutions as before the call.                                           *)
(***************************************************************************)
THEOREM ContextsAreRemovable == Liberties = {} => (Spec => RemovableInContext)
<1>. SUFFICES ASSUME Liberties = {} PROVE Spec => RemovableInContext
  OBVIOUS
<1>1. IInv /\ [Next]_vars => IInv'
  BY TypeInvariant, WellFormedInvariant DEF IInv, WellFormed
<1>2. IInv /\ [Next]_vars =>
        [~InRoot => Solutions(formula', <<>>) = Solutions(formula, <<>>)]_vars
  <2>. SUFFICES ASSUME IInv, [Next]_vars, ~InRoot
                PROVE  Solutions(formula', <<>>) = Solutions(formula, <<>>)
    OBVIOUS
  <2>1. /\ ClausesGuarded(formula, context_literal_counter)
        /\ ClausesGuarded(formula', context_literal_counter)
        /\ \A e \in Expr : {Lit(e)} \in formula' <=> {Lit(e)} \in formula
    BY ContextAddsGuarded DEF IInv, WellFormed
  <2>. QED
    BY <2>1, PermanentSolutions, Zenon DEF IInv
<1>. QED
  BY <1>1, <1>2, InitInvariant, PTL DEF Spec, RemovableInContext

-----------------------------------------------------------------------------
(* prop_conv_solvert implements the decision procedure with contexts, for  *)
(* clients that take no liberties.  The refinement mapping reads the       *)
(* contexts off the segments of assumption_stack, so most of the work is   *)
(* in showing that there is only one way of cutting the stack into         *)
(* segments, and that the segments together are the whole stack.           *)

\* The sizes of the contexts determine the segments.
LEMMA SegmentationUnique ==
  ASSUME NEW sizes \in Seq(Nat), NEW total \in Nat,
         NEW f, IsSegmentation(f, sizes, total),
         NEW g, IsSegmentation(g, sizes, total)
  PROVE  f = g
<1>. DEFINE n == Len(sizes)
            D == {i \in 0 .. n : f[i] # g[i]}
<1>1. /\ n \in Nat
      /\ f \in [0 .. n -> 0 .. total] /\ g \in [0 .. n -> 0 .. total]
      /\ f[0] = 0 /\ g[0] = 0
      /\ \A i \in 1 .. n : f[i] = f[i - 1] + sizes[i] /\ g[i] = g[i - 1] + sizes[i]
  BY DEF IsSegmentation
<1>. HIDE DEF n
<1>2. D \in SUBSET (1 .. n)
  BY <1>1
<1>3. ASSUME NEW i \in D PROVE i - 1 \in D
  <2>1. i \in 1 .. n /\ i - 1 \in 0 .. n
    BY <1>1, <1>2
  <2>. QED
    BY <1>1, <2>1
<1>4. D = {}
  <2>. HIDE DEF D
  <2>. QED
    BY <1>1, <1>2, <1>3, FirstMember, Zenon
<1>5. \A i \in 0 .. n : f[i] = g[i]
  BY <1>4
<1>6. f = [i \in 0 .. n |-> f[i]] /\ g = [i \in 0 .. n |-> g[i]]
  BY <1>1
<1>. QED
  BY <1>5, <1>6

\* Every literal on the assumption stack is in a segment.
LEMMA SegmentationCovers ==
  ASSUME NEW sizes \in Seq(Nat), NEW total \in Nat,
         NEW f, IsSegmentation(f, sizes, total), NEW j \in 1 .. total
  PROVE  \E i \in 1 .. Len(sizes) : j \in f[i - 1] + 1 .. f[i]
<1>. DEFINE n == Len(sizes)
            T == {i \in 1 .. n : j <= f[i]}
<1>1. /\ n \in Nat
      /\ f \in [0 .. n -> 0 .. total]
      /\ f[0] = 0 /\ f[n] = total
  BY DEF IsSegmentation
<1>. HIDE DEF n
<1>2. n \in T /\ T \in SUBSET (1 .. n)
  BY <1>1
<1>3. PICK i \in T : i - 1 \notin T
  <2>. HIDE DEF T
  <2>. QED
    BY <1>1, <1>2, FirstMember, Zenon
<1>4. i \in 1 .. n /\ j <= f[i] /\ f[i] \in 0 .. total
  BY <1>1
<1>5. f[i - 1] \in 0 .. total /\ f[i - 1] < j
  <2>1. CASE i = 1
    BY <1>1, <2>1
  <2>2. CASE i # 1
    <3>1. i - 1 \in 1 .. n
      BY <1>1, <1>4, <2>2
    <3>. QED
      BY <1>1, <1>3, <3>1
  <2>. QED
    BY <2>1, <2>2
<1>6. j \in f[i - 1] + 1 .. f[i]
  BY <1>4, <1>5
<1>. QED
  BY <1>4, <1>6 DEF n

\* pop() undoes push().
LEMMA AppendSubSeq ==
  ASSUME NEW S, NEW s \in Seq(S), NEW e \in S
  PROVE  SubSeq(Append(s, e), 1, Len(s)) = s
<1>. DEFINE n == Len(s)
            t == Append(s, e)
            u == SubSeq(t, 1, n)
<1>1. n \in Nat
  OBVIOUS
<1>2. \A i \in 1 .. n : t[i] = s[i] /\ s[i] \in S
  OBVIOUS
<1>3. /\ u \in Seq(S) /\ Len(u) = IF 1 <= n THEN n - 1 + 1 ELSE 0
      /\ \A i \in 1 .. n - 1 + 1 : u[i] = t[1 + i - 1]
  <2>. HIDE DEF t
  <2>. QED
    BY <1>1, <1>2
<1>. HIDE DEF n, t, u
<1>4. n - 1 + 1 = n /\ \A i \in 1 .. n : 1 + i - 1 = i
  BY <1>1
<1>5. Len(u) = n /\ \A i \in 1 .. n : u[i] = s[i]
  BY <1>1, <1>2, <1>3, <1>4
<1>6. u = s
  BY <1>3, <1>5 DEF n
<1>. QED
  BY <1>6 DEF u, t, n

-----------------------------------------------------------------------------
(* The refinement mapping, with the state as parameters. *)

EndOf(sizes, total) ==
  CHOOSE f \in [0 .. Len(sizes) -> 0 .. total] : IsSegmentation(f, sizes, total)

Permanent(f) == {m \in Assignment : \A e \in Expr : {Lit(e)} \in f => m \in e}

ActiveIn(f, l, m) ==
  IF l[1] = "expr" THEN m \in l[2]
  ELSE \A e \in Expr : {Off(l[2]), Lit(e)} \in f => m \in e

Segment(f, s, lo, hi) ==
  {m \in Assignment : \A j \in lo + 1 .. hi : ActiveIn(f, s[j], m)}

ContextsOf(f, s, sizes) ==
  [i \in 1 .. Len(sizes) + 1 |->
     IF i = 1 THEN Permanent(f)
     ELSE Segment(f, s, EndOf(sizes, Len(s))[i - 2], EndOf(sizes, Len(s))[i - 1])]

\* The mapping of PropConvSolver is the one with parameters.
LEMMA ContextsAre ==
  /\ Contexts = ContextsOf(formula, assumption_stack, context_size_stack)
  /\ Contexts' = ContextsOf(formula', assumption_stack', context_size_stack')
<1>1. \A l, m : LitActive(l, m) <=> ActiveIn(formula, l, m)
  BY DEF LitActive, ActiveIn, ContextConstraints
<1>2. \A l, m : LitActive(l, m)' <=> ActiveIn(formula', l, m)
  BY DEF LitActive, ActiveIn, ContextConstraints
<1>3. /\ SegmentEnd = EndOf(context_size_stack, Len(assumption_stack))
      /\ SegmentEnd' = EndOf(context_size_stack', Len(assumption_stack'))
  BY DEF SegmentEnd, EndOf
<1>4. Contexts = ContextsOf(formula, assumption_stack, context_size_stack)
  BY <1>1, <1>3, Zenon DEF Contexts, ContextsOf, Permanent, Segment
<1>5. Contexts' = ContextsOf(formula', assumption_stack', context_size_stack')
  BY <1>2, <1>3, Zenon DEF Contexts, ContextsOf, Permanent, Segment
<1>. QED
  BY <1>4, <1>5

\* EndOf is a segmentation.
LEMMA EndOfSegments ==
  ASSUME NEW sizes \in Seq(Nat), NEW total \in Nat, Segmented(sizes, total)
  PROVE  IsSegmentation(EndOf(sizes, total), sizes, total)
BY DEF Segmented, EndOf

\* A new context leaves the segments of the others as they were.
LEMMA EndOfAppend ==
  ASSUME NEW sizes \in Seq(Nat), NEW total \in Nat, NEW k \in Nat,
         Segmented(sizes, total)
  PROVE  LET n == Len(sizes)
             h == EndOf(Append(sizes, k), total + k) IN
         /\ \A i \in 0 .. n : h[i] = EndOf(sizes, total)[i]
         /\ h[n + 1] = total + k
<1>. DEFINE n == Len(sizes)
            t == Append(sizes, k)
            h == EndOf(t, total + k)
            g == [i \in 0 .. n |-> h[i]]
<1>1. n \in Nat /\ t \in Seq(Nat) /\ Len(t) = n + 1 /\ t[n + 1] = k /\ t # <<>>
  OBVIOUS
<1>2. IsSegmentation(h, t, total + k)
  <2>1. Segmented(t, total + k) /\ total + k \in Nat
    BY SegmentsGrow
  <2>. HIDE DEF t
  <2>. QED
    BY <1>1, <2>1, EndOfSegments
<1>3. SubSeq(t, 1, n) = sizes
  BY AppendSubSeq
<1>4. IsSegmentation(g, sizes, total)
  <2>1. (n + 1) - 1 = n /\ (total + k) - k = total
    BY <1>1
  <2>. HIDE DEF h, t, n
  <2>2. total + k \in Nat
    OBVIOUS
  <2>3. IsSegmentation([i \in 0 .. Len(t) - 1 |-> h[i]],
                       SubSeq(t, 1, Len(t) - 1), (total + k) - t[Len(t)])
    BY <1>1, <1>2, <2>2, SegmentationShrinks, Zenon
  <2>. QED
    BY <1>1, <1>3, <2>1, <2>3, Zenon
<1>5. g = EndOf(sizes, total)
  BY <1>4, EndOfSegments, SegmentationUnique
<1>6. h[n + 1] = total + k
  BY <1>1, <1>2 DEF IsSegmentation
<1>. HIDE DEF h
<1>7. \A i \in 0 .. n : h[i] = EndOf(sizes, total)[i]
  BY <1>5
<1>. QED
  BY <1>6, <1>7 DEF h

\* The contexts are expressions: one for the root and one for every size.
LEMMA ContextsOfType ==
  ASSUME NEW f, NEW s, NEW sizes \in Seq(Nat)
  PROVE  /\ ContextsOf(f, s, sizes) \in Seq(Expr)
         /\ Len(ContextsOf(f, s, sizes)) = Len(sizes) + 1
<1>. DEFINE c == ContextsOf(f, s, sizes)
            n == Len(sizes)
<1>1. n \in Nat
  OBVIOUS
<1>2. /\ DOMAIN c = 1 .. n + 1
      /\ c = [i \in 1 .. n + 1 |-> c[i]]
  BY DEF ContextsOf
<1>3. ASSUME NEW i \in 1 .. n + 1 PROVE c[i] \in Expr
  BY DEF ContextsOf, Permanent, Segment
<1>. HIDE DEF c, n
<1>4. c \in Seq(Expr)
  <2>1. c \in [1 .. n + 1 -> Expr] /\ n + 1 \in Nat
    BY <1>1, <1>2, <1>3
  <2>. QED
    BY <2>1, FunctionIsSeq
<1>5. Len(c) = n + 1
  BY <1>1, <1>2, <1>4
<1>. QED
  BY <1>4, <1>5 DEF c, n

\* The contexts of a stack with one context more: those of the shorter stack, and
\* what the literals on top stand for.  push() and pop() are steps between the two.
LEMMA ContextsGrow ==
  ASSUME NEW f, NEW s \in Seq(Literal), NEW sizes \in Seq(Nat),
         Segmented(sizes, Len(s)), NEW k \in Nat,
         NEW t \in Seq(Literal), Len(t) = Len(s) + k,
         \A j \in 1 .. Len(s) : t[j] = s[j]
  PROVE  ContextsOf(f, t, Append(sizes, k)) =
           Append(ContextsOf(f, s, sizes), Segment(f, t, Len(s), Len(t)))
<1>. DEFINE n == Len(sizes)
            z == Append(sizes, k)
            h == EndOf(z, Len(t))
            g == EndOf(sizes, Len(s))
            c == ContextsOf(f, s, sizes)
            d == ContextsOf(f, t, z)
            x == Segment(f, t, Len(s), Len(t))
<1>1. n \in Nat /\ Len(s) \in Nat /\ z \in Seq(Nat) /\ Len(z) = n + 1
  OBVIOUS
<1>2. (\A i \in 0 .. n : h[i] = g[i]) /\ h[n + 1] = Len(t)
  <2>1. /\ \A i \in 0 .. n : EndOf(z, Len(s) + k)[i] = g[i]
        /\ EndOf(z, Len(s) + k)[n + 1] = Len(s) + k
    BY <1>1, EndOfAppend, ZenonT(30)
  <2>. QED
    BY <2>1
<1>3. g \in [0 .. n -> 0 .. Len(s)] /\ g[n] = Len(s)
  BY <1>1, EndOfSegments DEF IsSegmentation
<1>4. c \in Seq(Expr) /\ Len(c) = n + 1 /\ d \in Seq(Expr) /\ Len(d) = n + 2
  <2>1. c \in Seq(Expr) /\ Len(c) = n + 1
    BY ContextsOfType
  <2>. HIDE DEF z
  <2>2. d \in Seq(Expr) /\ Len(d) = (n + 1) + 1
    BY <1>1, ContextsOfType
  <2>. QED
    BY <1>1, <2>1, <2>2
<1>5. x \in Expr
  BY DEF Segment
<1>6. /\ \A i \in 1 .. n + 1 :
           c[i] = IF i = 1 THEN Permanent(f) ELSE Segment(f, s, g[i - 2], g[i - 1])
      /\ \A i \in 1 .. n + 2 :
           d[i] = IF i = 1 THEN Permanent(f) ELSE Segment(f, t, h[i - 2], h[i - 1])
  <2>1. \A i \in 1 .. n + 1 :
           c[i] = IF i = 1 THEN Permanent(f) ELSE Segment(f, s, g[i - 2], g[i - 1])
    BY DEF ContextsOf
  <2>. HIDE DEF z
  <2>2. \A i \in 1 .. (n + 1) + 1 :
           d[i] = IF i = 1 THEN Permanent(f) ELSE Segment(f, t, h[i - 2], h[i - 1])
    BY <1>1 DEF ContextsOf
  <2>. QED
    BY <1>1, <2>1, <2>2
<1>. HIDE DEF n, z, h, g, c, d, x
<1>7. ASSUME NEW i \in 2 .. n + 1
      PROVE  Segment(f, s, g[i - 2], g[i - 1]) = Segment(f, t, g[i - 2], g[i - 1])
  <2>1. g[i - 2] \in 0 .. Len(s) /\ g[i - 1] \in 0 .. Len(s)
    BY <1>1, <1>3
  <2>2. ASSUME NEW a \in 0 .. Len(s), NEW b \in 0 .. Len(s), NEW j \in a + 1 .. b
        PROVE  j \in 1 .. Len(s)
    BY <1>1
  <2>3. \A j \in g[i - 2] + 1 .. g[i - 1] : j \in 1 .. Len(s)
    BY <2>1, <2>2
  <2>. QED
    BY <2>3 DEF Segment
<1>8. ASSUME NEW i \in 1 .. n + 1 PROVE d[i] = c[i]
  <2>1. CASE i = 1
    <3>1. i \in 1 .. n + 2
      BY <1>1
    <3>. QED
      BY <1>6, <2>1, <3>1
  <2>2. CASE i # 1
    <3>1. i \in 2 .. n + 1 /\ i - 2 \in 0 .. n /\ i - 1 \in 0 .. n /\ i \in 1 .. n + 2
      BY <1>1, <2>2
    <3>2. h[i - 2] = g[i - 2] /\ h[i - 1] = g[i - 1]
      BY <1>2, <3>1
    <3>3. c[i] = Segment(f, s, g[i - 2], g[i - 1])
      BY <1>6, <2>2
    <3>4. d[i] = Segment(f, t, h[i - 2], h[i - 1])
      BY <1>6, <2>2, <3>1
    <3>. QED
      BY <1>7, <3>1, <3>2, <3>3, <3>4
  <2>. QED
    BY <2>1, <2>2
<1>9. d[n + 2] = x
  <2>1. n + 2 \in 1 .. n + 2 /\ n + 2 # 1 /\ (n + 2) - 2 = n /\ (n + 2) - 1 = n + 1
    BY <1>1
  <2>2. n \in 0 .. n
    BY <1>1
  <2>. QED
    BY <1>2, <1>3, <1>6, <2>1, <2>2 DEF x
<1>10. /\ Append(c, x) \in Seq(Expr) /\ Len(Append(c, x)) = n + 2
       /\ \A i \in 1 .. n + 1 : Append(c, x)[i] = c[i]
       /\ Append(c, x)[n + 2] = x
  <2>1. /\ Append(c, x) \in Seq(Expr) /\ Len(Append(c, x)) = (n + 1) + 1
        /\ \A i \in 1 .. n + 1 : Append(c, x)[i] = c[i]
        /\ Append(c, x)[(n + 1) + 1] = x
    BY <1>4, <1>5
  <2>2. (n + 1) + 1 = n + 2
    BY <1>1
  <2>. QED
    BY <2>1, <2>2, Zenon
<1>11. \A i \in 1 .. n + 2 : d[i] = Append(c, x)[i]
  <2>1. \A i \in 1 .. n + 2 : i \in 1 .. n + 1 \/ i = n + 2
    BY <1>1
  <2>. QED
    BY <1>8, <1>9, <1>10, <2>1
<1>12. d = Append(c, x)
  BY <1>4, <1>10, <1>11
<1>. QED
  BY <1>12 DEF d, c, x, z

\* The conjunction of the contexts is what the solver call decides.
LEMMA ConjunctionIsActive == ASSUME IInv PROVE SDP!Conjunction(Contexts) = Active
<1>. DEFINE n == Len(context_size_stack)
            N == Len(assumption_stack)
            E == SegmentEnd
<1>1. /\ n \in Nat /\ N \in Nat /\ DOMAIN assumption_stack = 1 .. N
      /\ context_size_stack \in Seq(Nat)
  BY DEF IInv, TypeOK
<1>2. IsSegmentation(E, context_size_stack, N)
  BY <1>1, EndOfSegments DEF IInv, WellFormed, SegmentsCoverStack, SegmentEnd, EndOf
<1>3. E \in [0 .. n -> 0 .. N]
  BY <1>2 DEF IsSegmentation
<1>4. /\ DOMAIN Contexts = 1 .. n + 1
      /\ \A i \in 1 .. n + 1 :
           Contexts[i] =
             IF i = 1
             THEN {m \in Assignment : \A e \in Expr : {Lit(e)} \in formula => m \in e}
             ELSE {m \in Assignment :
                     \A j \in E[i - 2] + 1 .. E[i - 1] :
                       LitActive(assumption_stack[j], m)}
  BY DEF Contexts
<1>. HIDE DEF n, N, E
<1>5. ASSUME NEW m \in SDP!Conjunction(Contexts) PROVE m \in Active
  <2>1. m \in Assignment /\ \A i \in 1 .. n + 1 : m \in Contexts[i]
    BY <1>4 DEF SDP!Conjunction
  <2>2. ASSUME NEW e \in Expr, {Lit(e)} \in formula PROVE m \in e
    <3>1. 1 \in 1 .. n + 1
      BY <1>1
    <3>2. Contexts[1] =
            {p \in Assignment : \A d \in Expr : {Lit(d)} \in formula => p \in d}
      BY <1>4, <3>1
    <3>. QED
      BY <2>1, <2>2, <3>1, <3>2
  <2>3. ASSUME NEW j \in DOMAIN assumption_stack
        PROVE  LitActive(assumption_stack[j], m)
    <3>1. PICK i \in 1 .. n : j \in E[i - 1] + 1 .. E[i]
      BY <1>1, <1>2, SegmentationCovers, Zenon DEF n
    <3>2. i + 1 \in 1 .. n + 1 /\ i + 1 # 1 /\ (i + 1) - 2 = i - 1 /\ (i + 1) - 1 = i
      BY <1>1
    <3>3. Contexts[i + 1] =
            {p \in Assignment :
               \A l \in E[(i + 1) - 2] + 1 .. E[(i + 1) - 1] :
                 LitActive(assumption_stack[l], p)}
      BY <1>4, <3>2
    <3>4. Contexts[i + 1] =
            {p \in Assignment :
               \A l \in E[i - 1] + 1 .. E[i] : LitActive(assumption_stack[l], p)}
      BY <3>2, <3>3
    <3>5. m \in Contexts[i + 1]
      BY <2>1, <3>2
    <3>. QED
      BY <3>1, <3>4, <3>5
  <2>. QED
    BY <2>1, <2>2, <2>3 DEF Active
<1>6. ASSUME NEW m \in Active PROVE m \in SDP!Conjunction(Contexts)
  <2>1. m \in Assignment /\ \A j \in 1 .. N : LitActive(assumption_stack[j], m)
    BY <1>1 DEF Active
  <2>2. ASSUME NEW i \in 1 .. n + 1 PROVE m \in Contexts[i]
    <3>1. CASE i = 1
      BY <1>4, <2>1, <3>1 DEF Active
    <3>2. CASE i # 1
      <4>1. E[i - 2] \in 0 .. N /\ E[i - 1] \in 0 .. N
        <5>1. i - 2 \in 0 .. n /\ i - 1 \in 0 .. n
          BY <1>1, <3>2
        <5>. QED
          BY <1>3, <5>1
      <4>2. ASSUME NEW a \in 0 .. N, NEW b \in 0 .. N, NEW j \in a + 1 .. b
            PROVE  j \in 1 .. N
        BY <1>1
      <4>3. \A j \in E[i - 2] + 1 .. E[i - 1] : LitActive(assumption_stack[j], m)
        BY <2>1, <4>1, <4>2
      <4>. QED
        BY <1>4, <2>1, <3>2, <4>3
    <3>. QED
      BY <3>1, <3>2
  <2>. QED
    BY <1>4, <2>1, <2>2 DEF SDP!Conjunction
<1>. QED
  BY <1>5, <1>6 DEF SDP!Conjunction, Active

\* What dec_solve decides, with an assumption and without: the context literal of
\* the push() without an assumption is fresh, so it constrains nothing.
LEMMA SolvesAssuming ==
  ASSUME IInv
  PROVE  /\ \A e \in Expr :
              Solutions(formula, Append(assumption_stack, Lit(e))) = Active \cap e
         /\ Solutions(formula, Append(assumption_stack, On(context_literal_counter)))
              = Active
<1>. DEFINE n == context_literal_counter
            s == assumption_stack
<1>1. /\ n \in Nat /\ s \in Seq(Literal) /\ DOMAIN s = 1 .. Len(s) /\ Len(s) \in Nat
      /\ ClausesGuarded(formula, n) /\ ContextsDistinct(s, n)
  BY DEF IInv, WellFormed, TypeOK
<1>2. Solutions(formula, s) = Active
  BY ActiveIsSolved DEF SolvesActiveContexts
<1>3. /\ \A m, on, e : LitHolds(Lit(e), m, on) <=> m \in e
      /\ \A m, on, k : LitHolds(On(k), m, on) <=> k \in on
      /\ \A m, on, k : LitHolds(Off(k), m, on) <=> k \notin on
  BY DEF LitHolds, Lit, On, Off
<1>4. ASSUME NEW l \in Literal, NEW m, NEW on
      PROVE  Satisfies(formula, Append(s, l), m, on)
               <=> Satisfies(formula, s, m, on) /\ LitHolds(l, m, on)
  <2>. DEFINE t == Append(s, l)
  <2>1. /\ DOMAIN t = 1 .. Len(s) + 1
        /\ \A i \in 1 .. Len(s) : t[i] = s[i]
        /\ t[Len(s) + 1] = l
    BY <1>1
  <2>2. \A i : i \in 1 .. Len(s) + 1 <=> i \in 1 .. Len(s) \/ i = Len(s) + 1
    BY <1>1
  <2>. HIDE DEF t
  <2>3. (\A i \in DOMAIN t : LitHolds(t[i], m, on))
          <=> (\A i \in DOMAIN s : LitHolds(s[i], m, on)) /\ LitHolds(l, m, on)
    BY <1>1, <2>1, <2>2
  <2>. QED
    BY <2>3 DEF Satisfies, t
<1>5. ASSUME NEW e \in Expr
      PROVE  Solutions(formula, Append(s, Lit(e))) = Active \cap e
  <2>1. \A m, on : Satisfies(formula, Append(s, Lit(e)), m, on)
                     <=> Satisfies(formula, s, m, on) /\ m \in e
    BY <1>3, <1>4, LiteralType
  <2>2. Solutions(formula, Append(s, Lit(e))) = Solutions(formula, s) \cap e
    BY <2>1 DEF Solutions
  <2>. QED
    BY <1>2, <2>2
<1>6. \A m, on : Satisfies(formula, Append(s, On(n)), m, on)
                   <=> Satisfies(formula, s, m, on) /\ n \in on
  BY <1>1, <1>3, <1>4, LiteralType
<1>7. ASSUME NEW m, NEW on \in SUBSET (0 .. n), Satisfies(formula, s, m, on)
      PROVE  Satisfies(formula, s, m, on \cup {n})
  <2>1. \A k \in 0 .. n - 1 : k # n
    BY <1>1
  <2>2. ASSUME NEW c \in formula PROVE \E l \in c : LitHolds(l, m, on \cup {n})
    <3>1. PICK e \in Expr : c = {Lit(e)} \/ \E k \in 0 .. n - 1 : c = {Off(k), Lit(e)}
      BY <1>1 DEF ClausesGuarded
    <3>2. PICK l \in c : LitHolds(l, m, on)
      BY <1>7 DEF Satisfies
    <3>3. CASE l = Lit(e)
      BY <1>3, <3>2, <3>3
    <3>4. CASE \E k \in 0 .. n - 1 : l = Off(k)
      BY <1>3, <2>1, <3>2, <3>4
    <3>. QED
      BY <3>1, <3>2, <3>3, <3>4
  <2>3. ASSUME NEW i \in DOMAIN s PROVE LitHolds(s[i], m, on \cup {n})
    <3>1. LitHolds(s[i], m, on)
      BY <1>7 DEF Satisfies
    <3>2. CASE \E e \in Expr : s[i] = Lit(e)
      BY <1>3, <3>1, <3>2
    <3>3. CASE \E k \in 0 .. n - 1 : s[i] = On(k)
      BY <1>3, <3>1, <3>3
    <3>. QED
      BY <1>1, <3>2, <3>3 DEF ContextsDistinct
  <2>. QED
    BY <2>2, <2>3, Zenon DEF Satisfies
<1>8. Solutions(formula, Append(s, On(n))) = Solutions(formula, s)
  <2>1. ASSUME NEW m \in Assignment
        PROVE  (\E on \in SUBSET (0 .. n) : Satisfies(formula, Append(s, On(n)), m, on))
                 <=> \E on \in SUBSET (0 .. n) : Satisfies(formula, s, m, on)
    <3>1. ASSUME NEW on \in SUBSET (0 .. n), Satisfies(formula, s, m, on)
          PROVE  /\ on \cup {n} \in SUBSET (0 .. n)
                 /\ Satisfies(formula, Append(s, On(n)), m, on \cup {n})
      BY <1>1, <1>6, <1>7, <3>1
    <3>. QED
      BY <1>6, <3>1, Zenon
  <2>. QED
    BY <2>1 DEF Solutions
<1>. QED
  BY <1>2, <1>5, <1>8

\* A permanent constraint is added to the root context.
LEMMA ConstrainRoot ==
  ASSUME IInv, InRoot, NEW e \in Expr
  PROVE  LET c == ContextsOf(formula, assumption_stack, context_size_stack) IN
         ContextsOf(formula \cup {{Lit(e)}}, assumption_stack, context_size_stack)
           = [c EXCEPT ![Len(c)] = @ \cap e]
<1>. DEFINE f == formula
            s == assumption_stack
            sizes == context_size_stack
            g == f \cup {{Lit(e)}}
            c == ContextsOf(f, s, sizes)
            d == ContextsOf(g, s, sizes)
<1>1. Permanent(g) = Permanent(f) \cap e
  <2>1. \A b : {Lit(b)} = {Lit(e)} <=> b = e
    BY LiteralsDiffer
  <2>. QED
    BY <2>1, ZenonT(30) DEF Permanent
<1>2. sizes \in Seq(Nat) /\ Len(sizes) = 0
  BY DEF IInv, TypeOK, InRoot
<1>. HIDE DEF g, f, s, sizes
<1>3. Len(c) = Len(sizes) + 1
  BY <1>2, ContextsOfType, Zenon
<1>4. Len(sizes) + 1 = 1 /\ \A i \in 1 .. 1 : i = 1
  BY <1>2
<1>5. ASSUME NEW a PROVE ContextsOf(a, s, sizes) = [i \in 1 .. 1 |-> Permanent(a)]
  <2>1. DOMAIN ContextsOf(a, s, sizes) = 1 .. 1
    BY <1>4 DEF ContextsOf
  <2>2. \A i \in 1 .. 1 : ContextsOf(a, s, sizes)[i] = Permanent(a)
    BY <1>4 DEF ContextsOf
  <2>3. ContextsOf(a, s, sizes) = [i \in 1 .. 1 |-> ContextsOf(a, s, sizes)[i]]
    BY <1>4 DEF ContextsOf
  <2>. QED
    BY <2>2, <2>3
<1>6. /\ c = [i \in 1 .. 1 |-> Permanent(f)]
      /\ d = [i \in 1 .. 1 |-> Permanent(f) \cap e]
  BY <1>1, <1>5
<1>. HIDE DEF c, d
<1>7. d = [c EXCEPT ![1] = @ \cap e]
  <2>1. 1 \in 1 .. 1
    OBVIOUS
  <2>2. [c EXCEPT ![1] = @ \cap e] = [i \in 1 .. 1 |-> Permanent(f) \cap e]
    BY <1>4, <1>6, <2>1, ZenonT(30)
  <2>. QED
    BY <1>6, <2>2
<1>. QED
  BY <1>3, <1>4, <1>7, Zenon DEF c, d, g, f, s, sizes

\* A constraint guarded by the literal of the top context is added to that context,
\* and to no other.
LEMMA ConstrainContext ==
  ASSUME IInv, context_size_stack # <<>>, Back(context_size_stack) = 1,
         NEW k \in 0 .. context_literal_counter - 1, Back(assumption_stack) = On(k),
         NEW e \in Expr
  PROVE  LET c == ContextsOf(formula, assumption_stack, context_size_stack) IN
         ContextsOf(formula \cup {{Off(k), Lit(e)}}, assumption_stack,
                    context_size_stack) = [c EXCEPT ![Len(c)] = @ \cap e]
<1>. DEFINE n == Len(context_size_stack)
            N == Len(assumption_stack)
            s == assumption_stack
            f == formula
            g == f \cup {{Off(k), Lit(e)}}
            E == EndOf(context_size_stack, N)
            c == ContextsOf(f, s, context_size_stack)
            d == ContextsOf(g, s, context_size_stack)
<1>1. /\ n \in Nat \ {0} /\ N \in Nat /\ context_size_stack \in Seq(Nat)
      /\ context_size_stack[n] = 1 /\ s[N] = On(k) /\ DOMAIN s = 1 .. N
  BY DEF IInv, TypeOK, Back
<1>2. IsSegmentation(E, context_size_stack, N)
  BY <1>1, EndOfSegments DEF IInv, WellFormed, SegmentsCoverStack
<1>3. /\ E \in [0 .. n -> 0 .. N] /\ E[n] = N /\ E[n - 1] = N - 1 /\ N >= 1
      /\ \A i \in 0 .. n - 1 : E[i] <= N - 1
  <2>1. E \in [0 .. n -> 0 .. N] /\ E[n] = N
    BY <1>2 DEF IsSegmentation
  <2>2. n \in 1 .. n /\ n - 1 \in 0 .. n
    BY <1>1
  <2>3. E[n] = E[n - 1] + 1 /\ E[n - 1] \in 0 .. N
    BY <1>1, <1>2, <2>1, <2>2, Zenon DEF IsSegmentation
  <2>4. E[n - 1] = N - 1 /\ N >= 1
    BY <1>1, <2>1, <2>3
  <2>5. ASSUME NEW i \in 0 .. n - 1 PROVE E[i] <= N - 1
    <3>1. i \in 0 .. n /\ i <= n - 1
      BY <1>1
    <3>2. E[i] <= E[n - 1]
      BY <1>2, <2>2, <3>1 DEF IsSegmentation
    <3>. QED
      BY <2>4, <3>2
  <2>. QED
    BY <2>1, <2>4, <2>5
<1>4. /\ c \in Seq(Expr) /\ Len(c) = n + 1 /\ d \in Seq(Expr) /\ Len(d) = n + 1
      /\ DOMAIN c = 1 .. n + 1 /\ DOMAIN d = 1 .. n + 1
  BY <1>1, ContextsOfType
<1>5. /\ \A i \in 1 .. n + 1 :
           c[i] = IF i = 1 THEN Permanent(f) ELSE Segment(f, s, E[i - 2], E[i - 1])
      /\ \A i \in 1 .. n + 1 :
           d[i] = IF i = 1 THEN Permanent(g) ELSE Segment(g, s, E[i - 2], E[i - 1])
  BY DEF ContextsOf
<1>6. Permanent(g) = Permanent(f)
  <2>1. \A b : {Lit(b)} # {Off(k), Lit(e)}
    BY LiteralsDiffer
  <2>. QED
    BY <2>1 DEF Permanent
<1>7. \A b, l : {Off(l), Lit(b)} = {Off(k), Lit(e)} <=> l = k /\ b = e
  <2>1. ASSUME NEW b, NEW l, {Off(l), Lit(b)} = {Off(k), Lit(e)} PROVE l = k /\ b = e
    <3>1. Off(l) = Off(k) \/ Off(l) = Lit(e)
      BY <2>1
    <3>2. Lit(b) = Lit(e) \/ Lit(b) = Off(k)
      BY <2>1
    <3>. QED
      BY <3>1, <3>2, LiteralsDiffer
  <2>. QED
    BY <2>1, Zenon
<1>8. ASSUME NEW j \in 1 .. N - 1, NEW m PROVE ActiveIn(g, s[j], m) <=> ActiveIn(f, s[j], m)
  <2>1. j \in DOMAIN s /\ N \in DOMAIN s /\ j # N
    <3>1. N \in Nat /\ N >= 1 /\ DOMAIN s = 1 .. N
      BY <1>1, <1>3
    <3>. HIDE DEF N, s
    <3>. QED
      BY <3>1
  <2>2. ASSUME NEW b, s[j] = Lit(b) PROVE ActiveIn(g, s[j], m) <=> ActiveIn(f, s[j], m)
    BY <2>2 DEF ActiveIn, Lit
  <2>3. ASSUME NEW l, s[j] = On(l), l # k
        PROVE  ActiveIn(g, s[j], m) <=> ActiveIn(f, s[j], m)
    <3>1. s[j][1] # "expr" /\ s[j][2] = l
      BY <2>3 DEF On
    <3>2. \A b : {Off(l), Lit(b)} \in g <=> {Off(l), Lit(b)} \in f
      BY <1>7, <2>3, Zenon
    <3>. HIDE DEF g, f
    <3>. QED
      BY <3>1, <3>2, Zenon DEF ActiveIn
  <2>4. \/ \E b \in Expr : s[j] = Lit(b)
        \/ \E l : s[j] = On(l) /\ l # k
    BY <1>1, <2>1 DEF IInv, WellFormed, ContextsDistinct
  <2>. QED
    BY <2>2, <2>3, <2>4, Zenon
<1>9. \A m : ActiveIn(g, s[N], m) <=> ActiveIn(f, s[N], m) /\ m \in e
  <2>1. s[N][1] # "expr" /\ s[N][2] = k
    BY <1>1 DEF On
  <2>2. \A b : {Off(k), Lit(b)} \in g <=> {Off(k), Lit(b)} \in f \/ b = e
    BY <1>7
  <2>. HIDE DEF g, f
  <2>. QED
    BY <2>1, <2>2, ZenonT(30) DEF ActiveIn
<1>. HIDE DEF n, N, s, f, g, E, c, d
<1>10. ASSUME NEW i \in 1 .. n PROVE d[i] = c[i]
  <2>0. i \in 1 .. n + 1
    BY <1>1
  <2>1. CASE i = 1
    BY <1>5, <1>6, <2>0, <2>1
  <2>2. CASE i # 1
    <3>1. i - 2 \in 0 .. n /\ i - 1 \in 0 .. n - 1 /\ i - 1 \in 0 .. n
      BY <1>1, <2>2
    <3>2. E[i - 2] \in 0 .. N /\ E[i - 1] \in 0 .. N /\ E[i - 1] <= N - 1
      BY <1>3, <3>1
    <3>3. ASSUME NEW a \in 0 .. N, NEW b \in 0 .. N, b <= N - 1, NEW j \in a + 1 .. b
          PROVE  j \in 1 .. N - 1
      BY <1>1, <3>3
    <3>4. \A j \in E[i - 2] + 1 .. E[i - 1] : j \in 1 .. N - 1
      BY <3>2, <3>3
    <3>5. Segment(g, s, E[i - 2], E[i - 1]) = Segment(f, s, E[i - 2], E[i - 1])
      BY <1>8, <3>4, ZenonT(30) DEF Segment
    <3>. QED
      BY <1>5, <2>0, <2>2, <3>5
  <2>. QED
    BY <2>1, <2>2
<1>11. d[n + 1] = c[n + 1] \cap e
  <2>1. n + 1 \in 1 .. n + 1 /\ n + 1 # 1 /\ (n + 1) - 2 = n - 1 /\ (n + 1) - 1 = n
    BY <1>1
  <2>2. /\ c[n + 1] = Segment(f, s, E[(n + 1) - 2], E[(n + 1) - 1])
        /\ d[n + 1] = Segment(g, s, E[(n + 1) - 2], E[(n + 1) - 1])
    BY <1>5, <2>1
  <2>3. c[n + 1] = Segment(f, s, N - 1, N) /\ d[n + 1] = Segment(g, s, N - 1, N)
    BY <1>3, <2>1, <2>2
  <2>4. \A j : j \in (N - 1) + 1 .. N <=> j = N
    BY <1>1, <1>3
  <2>. QED
    BY <1>9, <2>3, <2>4 DEF Segment
<1>12. d = [c EXCEPT ![n + 1] = @ \cap e]
  <2>1. d = [i \in 1 .. n + 1 |-> d[i]]
    BY <1>4
  <2>2. [c EXCEPT ![n + 1] = @ \cap e] =
          [i \in 1 .. n + 1 |-> IF i = n + 1 THEN c[n + 1] \cap e ELSE c[i]]
    BY <1>4, Zenon
  <2>3. \A i \in 1 .. n + 1 : i \in 1 .. n \/ i = n + 1
    BY <1>1
  <2>4. \A i \in 1 .. n + 1 : d[i] = IF i = n + 1 THEN c[n + 1] \cap e ELSE c[i]
    BY <1>10, <1>11, <2>3, Zenon
  <2>. QED
    BY <2>1, <2>2, <2>4, Zenon
<1>. QED
  BY <1>4, <1>12 DEF c, d, f, g, s

-----------------------------------------------------------------------------
(* Every step of prop_conv_solvert is a step of the decision procedure. *)

\* In the beginning there is the root context only, without constraints.
LEMMA InitRefines == Init => SDP!SDPInit
<1>. SUFFICES ASSUME Init PROVE Contexts = <<Assignment>>
  BY DEF Init, SDP!SDPInit
<1>1. Len(context_size_stack) + 1 = 1
  BY DEF Init
<1>2. \A i \in 1 .. 1 : i = 1
  OBVIOUS
<1>3. {m \in Assignment : \A e \in Expr : {Lit(e)} \in formula => m \in e} = Assignment
  BY DEF Init
<1>4. /\ Contexts = [i \in 1 .. 1 |-> Contexts[i]]
      /\ \A i \in 1 .. 1 : Contexts[i] = Assignment
  BY <1>1, <1>2, <1>3 DEF Contexts
<1>5. Contexts = [i \in 1 .. 1 |-> Assignment]
  BY <1>4
<1>6. <<Assignment>> = [i \in 1 .. 1 |-> Assignment]
  OBVIOUS
<1>. QED
  BY <1>5, <1>6

\* set_to adds a constraint to the current context.
LEMMA SetToRefines ==
  ASSUME Liberties = {}, IInv, SetTo
  PROVE  \E expr \in Expr, value \in BOOLEAN : SDP!SetTo(expr, value)
<1>. DEFINE c == ContextsOf(formula, assumption_stack, context_size_stack)
<1>1. PICK expr \in Expr, value \in BOOLEAN :
        /\ ~value => InRoot
        /\ ~InAssumptionContext
        /\ set_to(expr, value)
  BY PropConvAssumption DEF SetTo
<1>2. /\ assumption_stack' = assumption_stack
      /\ context_size_stack' = context_size_stack
      /\ result' = result /\ model' = model
  BY <1>1 DEF set_to
<1>3. CASE InRoot
  <2>. DEFINE e == SDP!Valued(expr, value)
  <2>1. e \in Expr
    BY DEF SDP!Valued
  <2>2. assumption_stack = <<>>
    BY <1>3, TopOfContext
  <2>3. formula' = formula \cup {{Lit(e)}}
    <3>1. CASE value
      BY <1>1, <2>2, <3>1 DEF set_to, add_constraints_to_prop, SDP!Valued
    <3>2. CASE ~value
      <4>1. {{Not(l)} : l \in {Lit(expr)}} = {{Lit(Assignment \ expr)}}
        BY DEF Not, Lit
      <4>. QED
        BY <1>1, <2>2, <3>2, <4>1, Zenon DEF set_to, add_constraints_to_prop, SDP!Valued
    <3>. QED
      BY <3>1, <3>2
  <2>. HIDE DEF e
  <2>4. Contexts' = [Contexts EXCEPT ![Len(Contexts)] = @ \cap e]
    <3>1. ContextsOf(formula \cup {{Lit(e)}}, assumption_stack, context_size_stack)
            = [c EXCEPT ![Len(c)] = @ \cap e]
      BY <1>3, <2>1, ConstrainRoot, Zenon
    <3>2. Contexts = c
      BY ContextsAre
    <3>3. Contexts' = ContextsOf(formula \cup {{Lit(e)}}, assumption_stack,
                                 context_size_stack)
      BY <1>2, <2>3, ContextsAre
    <3>. HIDE DEF c
    <3>. QED
      BY <3>1, <3>2, <3>3
  <2>. QED
    BY <1>2, <2>4, Zenon DEF SDP!SetTo, e
<1>4. CASE ~InRoot
  <2>1. value /\ context_size_stack # <<>> /\ Back(context_size_stack) = 1
    BY <1>1, <1>4 DEF InRoot, InAssumptionContext
  <2>2. assumption_stack # <<>>
    BY <1>1, <1>4, ContextHasLiteral
  <2>3. PICK k \in 0 .. context_literal_counter - 1 : Back(assumption_stack) = On(k)
    BY <1>1, <2>2, TopOfContext
  <2>4. Not(Back(assumption_stack)) = Off(k)
    BY <2>3 DEF Not, On
  <2>5. formula' = formula \cup {{Off(k), Lit(expr)}}
    BY <1>1, <2>1, <2>2, <2>4 DEF set_to, add_constraints_to_prop
  <2>6. Contexts' = [Contexts EXCEPT ![Len(Contexts)] = @ \cap expr]
    BY <1>2, <2>1, <2>3, <2>5, ConstrainContext, ContextsAre, Zenon
  <2>. QED
    BY <1>2, <2>1, <2>6, ZenonT(30) DEF SDP!SetTo, SDP!Valued
<1>. QED
  BY <1>3, <1>4

\* An equality boolbvt propagates is a constraint of the root context.
LEMMA SetEqualityRefines ==
  ASSUME Liberties = {}, IInv, SetEquality
  PROVE  \E expr \in Expr, value \in BOOLEAN : SDP!SetTo(expr, value)
<1>1. PICK e \in Expr : InRoot /\ boolbv_set_equality_to_true(e)
  BY PropConvAssumption DEF SetEquality
<1>2. /\ formula' = formula \cup {{Lit(e)}}
      /\ assumption_stack' = assumption_stack
      /\ context_size_stack' = context_size_stack
      /\ result' = result /\ model' = model
  BY <1>1 DEF boolbv_set_equality_to_true
<1>3. Contexts' = [Contexts EXCEPT ![Len(Contexts)] = @ \cap e]
  <2>. DEFINE c == ContextsOf(formula, assumption_stack, context_size_stack)
  <2>1. ContextsOf(formula \cup {{Lit(e)}}, assumption_stack, context_size_stack)
          = [c EXCEPT ![Len(c)] = @ \cap e]
    BY <1>1, ConstrainRoot, ZenonT(30)
  <2>2. Contexts = c
    BY ContextsAre
  <2>3. Contexts' = ContextsOf(formula \cup {{Lit(e)}}, assumption_stack,
                               context_size_stack)
    BY <1>2, ContextsAre
  <2>. HIDE DEF c
  <2>. QED
    BY <2>1, <2>2, <2>3
<1>4. SDP!SetTo(e, TRUE)
  BY <1>2, <1>3 DEF SDP!SetTo, SDP!Valued
<1>. QED
  BY <1>4, Zenon

\* A literal on top of the stack, in a context of its own, is a context that
\* consists of what the literal stands for.
LEMMA ContextOfLiteral ==
  ASSUME IInv, formula' = formula, NEW l \in Literal, NEW x \in Expr,
         \A m \in Assignment : ActiveIn(formula, l, m) <=> m \in x,
         assumption_stack' = Append(assumption_stack, l),
         context_size_stack' = Append(context_size_stack, 1)
  PROVE  Contexts' = Append(Contexts, x)
<1>. DEFINE s == assumption_stack
            t == Append(s, l)
            N == Len(s)
<1>1. /\ s \in Seq(Literal) /\ N \in Nat
      /\ context_size_stack \in Seq(Nat) /\ Segmented(context_size_stack, N)
  BY DEF IInv, TypeOK, WellFormed, SegmentsCoverStack
<1>2. /\ t \in Seq(Literal) /\ Len(t) = N + 1
      /\ (\A j \in 1 .. N : t[j] = s[j]) /\ t[N + 1] = l
  BY <1>1
<1>. HIDE DEF t, N, s
<1>3. Segment(formula, t, N, Len(t)) = x
  <2>1. \A j \in N + 1 .. N + 1 : j = N + 1
    BY <1>1
  <2>2. N + 1 \in N + 1 .. N + 1
    BY <1>1
  <2>. QED
    BY <1>2, <2>1, <2>2 DEF Segment
<1>4. ContextsOf(formula, t, Append(context_size_stack, 1))
        = Append(ContextsOf(formula, s, context_size_stack), x)
  <2>. DEFINE k == 1
  <2>1. /\ Segmented(context_size_stack, Len(s)) /\ k \in Nat /\ Len(t) = Len(s) + k
        /\ \A j \in 1 .. Len(s) : t[j] = s[j]
    BY <1>1, <1>2 DEF N
  <2>. HIDE DEF k
  <2>2. ContextsOf(formula, t, Append(context_size_stack, k))
          = Append(ContextsOf(formula, s, context_size_stack),
                   Segment(formula, t, Len(s), Len(t)))
    BY <1>1, <1>2, <2>1, ContextsGrow, ZenonT(30)
  <2>. QED
    BY <1>3, <2>2 DEF N, k
<1>. QED
  BY <1>4, ContextsAre DEF t, s

\* A new context with a fresh literal has no constraints: none of its clauses can
\* be left from an earlier context.
LEMMA FreshContext ==
  ASSUME IInv, formula' = formula,
         assumption_stack' = Append(assumption_stack, On(context_literal_counter)),
         context_size_stack' = Append(context_size_stack, 1)
  PROVE  Contexts' = Append(Contexts, Assignment)
<1>. DEFINE n == context_literal_counter
<1>1. n \in Nat /\ On(n) \in Literal /\ ClausesGuarded(formula, n)
  BY LiteralType DEF IInv, TypeOK, WellFormed
<1>2. \A e \in Expr : {Off(n), Lit(e)} \notin formula
  <2>1. SUFFICES ASSUME NEW e \in Expr, {Off(n), Lit(e)} \in formula PROVE FALSE
    OBVIOUS
  <2>2. PICK b \in Expr : \/ {Off(n), Lit(e)} = {Lit(b)}
                          \/ \E k \in 0 .. n - 1 : {Off(n), Lit(e)} = {Off(k), Lit(b)}
    BY <1>1, <2>1, Zenon DEF ClausesGuarded
  <2>3. \A k \in 0 .. n - 1 : k # n
    BY <1>1
  <2>. QED
    BY <2>2, <2>3, LiteralsDiffer, Zenon
<1>3. \A m : ActiveIn(formula, On(n), m)
  BY <1>2, Zenon DEF ActiveIn, On
<1>4. Assignment \in Expr
  OBVIOUS
<1>. QED
  BY <1>1, <1>3, <1>4, ContextOfLiteral, Zenon

\* push(assumptions) opens a context that consists of the assumptions.
LEMMA PushAssumptionsRefines ==
  ASSUME IInv, PushAssumptions
  PROVE  \E assumptions \in Assumptions : SDP!PushAssumptions(assumptions)
<1>1. PICK a \in Assumptions : push_assumptions(a)
  BY DEF PushAssumptions
<1>. DEFINE s == assumption_stack
            N == Len(s)
            b == [i \in DOMAIN a |-> Lit(a[i])]
            t == s \o b
            k == Len(a)
<1>2. /\ s \in Seq(Literal) /\ N \in Nat
      /\ context_size_stack \in Seq(Nat) /\ Segmented(context_size_stack, N)
  BY DEF IInv, TypeOK, WellFormed, SegmentsCoverStack
<1>3. a \in Seq(Expr) /\ k \in Nat /\ DOMAIN a = 1 .. k
  BY PropConvAssumption
<1>4. b \in Seq(Literal)
  BY <1>3, PushAssumptionsType, Zenon
<1>5. Len(b) = k /\ \A i \in 1 .. k : b[i] = Lit(a[i])
  BY <1>3, <1>4
<1>. HIDE DEF b
<1>6. /\ t \in Seq(Literal) /\ Len(t) = N + k
      /\ \A j \in 1 .. N + k : t[j] = IF j <= N THEN s[j] ELSE b[j - N]
  <2>1. /\ s \o b \in Seq(Literal) /\ Len(s \o b) = Len(s) + Len(b)
        /\ \A j \in 1 .. Len(s) + Len(b) :
             (s \o b)[j] = IF j <= Len(s) THEN s[j] ELSE b[j - Len(s)]
    BY <1>2, <1>4
  <2>. QED
    BY <1>5, <2>1
<1>7. /\ formula' = formula /\ result' = result /\ model' = model
      /\ assumption_stack' = t /\ context_size_stack' = Append(context_size_stack, k)
  BY <1>1 DEF push_assumptions, b
<1>. HIDE DEF t, k
<1>8. ContextsOf(formula, t, Append(context_size_stack, k))
        = Append(ContextsOf(formula, s, context_size_stack),
                 Segment(formula, t, Len(s), Len(t)))
  <2>1. /\ Segmented(context_size_stack, Len(s)) /\ Len(t) = Len(s) + k
        /\ \A j \in 1 .. Len(s) : t[j] = s[j]
    BY <1>2, <1>3, <1>6
  <2>. QED
    BY <1>2, <1>3, <1>6, <2>1, ContextsGrow, ZenonT(30)
<1>. HIDE DEF s, N
<1>9. Segment(formula, t, N, N + k) = SDP!Conjunction(a)
  <2>1. \A m, e : ActiveIn(formula, Lit(e), m) <=> m \in e
    BY DEF ActiveIn, Lit
  <2>2. ASSUME NEW i \in 1 .. k PROVE N + i \in N + 1 .. N + k /\ t[N + i] = Lit(a[i])
    <3>1. N + i \in N + 1 .. N + k /\ N + i \in 1 .. N + k /\ ~(N + i <= N) /\ (N + i) - N = i
      BY <1>2, <1>3
    <3>. QED
      BY <1>5, <1>6, <3>1
  <2>3. ASSUME NEW j \in N + 1 .. N + k PROVE \E i \in 1 .. k : j = N + i
    <3>1. j - N \in 1 .. k /\ j = N + (j - N)
      BY <1>2, <1>3
    <3>. QED
      BY <3>1
  <2>4. ASSUME NEW m
        PROVE  (\A j \in N + 1 .. N + k : ActiveIn(formula, t[j], m))
                 <=> \A i \in 1 .. k : m \in a[i]
    <3>1. ASSUME \A j \in N + 1 .. N + k : ActiveIn(formula, t[j], m), NEW i \in 1 .. k
          PROVE  m \in a[i]
      BY <2>1, <2>2, <3>1
    <3>2. ASSUME \A i \in 1 .. k : m \in a[i], NEW j \in N + 1 .. N + k
          PROVE  ActiveIn(formula, t[j], m)
      BY <2>1, <2>2, <2>3, <3>2
    <3>. QED
      BY <3>1, <3>2
  <2>. QED
    BY <1>3, <2>4, Zenon DEF Segment, SDP!Conjunction
<1>10. Contexts' = Append(Contexts, SDP!Conjunction(a))
  <2>1. Contexts = ContextsOf(formula, s, context_size_stack)
    BY ContextsAre DEF s
  <2>2. Contexts' = ContextsOf(formula, t, Append(context_size_stack, k))
    BY <1>7, ContextsAre
  <2>3. Len(s) = N /\ Len(t) = N + k
    BY <1>6 DEF N
  <2>. QED
    BY <1>8, <1>9, <2>1, <2>2, <2>3
<1>. QED
  BY <1>7, <1>10 DEF SDP!PushAssumptions

\* pop() removes the top context and no other.
LEMMA PopRefines == ASSUME IInv, Pop PROVE SDP!Pop
<1>. DEFINE t == assumption_stack
            z == context_size_stack
            n == Len(z)
            k == z[n]
            s == SubSeq(t, 1, Len(t) - k)
            sizes == SubSeq(z, 1, n - 1)
            x == Segment(formula, t, Len(s), Len(t))
<1>1. /\ t \in Seq(Literal) /\ Len(t) \in Nat /\ z \in Seq(Nat) /\ z # <<>>
      /\ Segmented(z, Len(t))
  BY DEF IInv, TypeOK, WellFormed, SegmentsCoverStack, Pop, pop
<1>2. n \in Nat \ {0} /\ k \in Nat
  BY <1>1
<1>3. Len(t) - k \in 0 .. Len(t) /\ Segmented(sizes, Len(t) - k)
  BY <1>1, SegmentsShrink
<1>4. /\ formula' = formula /\ result' = result /\ model' = model
      /\ assumption_stack' = s /\ context_size_stack' = sizes
  BY DEF Pop, pop, Back
<1>5. s \in Seq(Literal) /\ Len(s) = Len(t) - k /\ \A j \in 1 .. Len(s) : t[j] = s[j]
  <2>. DEFINE l == Len(t) - k
  <2>1. l \in Nat /\ \A i \in 1 .. l : t[i] \in Literal
    BY <1>1, <1>3
  <2>. HIDE DEF l
  <2>2. /\ SubSeq(t, 1, l) \in Seq(Literal)
        /\ Len(SubSeq(t, 1, l)) = IF 1 <= l THEN l - 1 + 1 ELSE 0
        /\ \A i \in 1 .. l - 1 + 1 : SubSeq(t, 1, l)[i] = t[1 + i - 1]
    BY <2>1
  <2>3. l - 1 + 1 = l /\ \A i \in 1 .. l : 1 + i - 1 = i
    BY <2>1
  <2>4. Len(SubSeq(t, 1, l)) = l /\ \A i \in 1 .. l : SubSeq(t, 1, l)[i] = t[i]
    BY <2>1, <2>2, <2>3
  <2>. QED
    BY <2>2, <2>4 DEF l
<1>6. sizes \in Seq(Nat) /\ z = Append(sizes, k)
  <2>1. PICK y \in Seq(Nat), e \in Nat : z = Append(y, e)
    BY <1>1, LastIs, Zenon
  <2>2. n = Len(y) + 1 /\ k = e /\ Len(y) \in Nat
    BY <2>1
  <2>3. n - 1 = Len(y)
    BY <2>2
  <2>4. sizes = y
    BY <2>1, <2>3, AppendSubSeq
  <2>. QED
    BY <2>1, <2>2, <2>4
<1>. HIDE DEF s, sizes, z, t, k, n
<1>7. ContextsOf(formula, t, Append(sizes, k))
        = Append(ContextsOf(formula, s, sizes), Segment(formula, t, Len(s), Len(t)))
  <2>1. Segmented(sizes, Len(s)) /\ Len(t) = Len(s) + k
    BY <1>1, <1>2, <1>3, <1>5
  <2>2. /\ s \in Seq(Literal) /\ t \in Seq(Literal) /\ sizes \in Seq(Nat) /\ k \in Nat
        /\ \A j \in 1 .. Len(s) : t[j] = s[j]
    BY <1>1, <1>2, <1>5, <1>6
  <2>. QED
    BY <2>1, <2>2, ContextsGrow, Zenon
<1>8. Contexts = Append(Contexts', x)
  <2>1. Contexts = ContextsOf(formula, t, z)
    BY ContextsAre DEF t, z
  <2>2. Contexts' = ContextsOf(formula, s, sizes)
    BY <1>4, ContextsAre
  <2>. QED
    BY <1>6, <1>7, <2>1, <2>2
<1>9. Contexts' \in Seq(Expr) /\ Len(Contexts') = Len(sizes) + 1
  <2>1. Contexts' = ContextsOf(formula, s, sizes)
    BY <1>4, ContextsAre
  <2>. QED
    BY <1>6, <2>1, ContextsOfType
<1>10. x \in Expr
  BY DEF Segment
<1>. HIDE DEF x
<1>11. /\ SubSeq(Contexts, 1, Len(Contexts')) = Contexts'
       /\ Len(Contexts) = Len(Contexts') + 1
  BY <1>8, <1>9, <1>10, AppendSubSeq
<1>12. Len(sizes) \in Nat
  BY <1>6
<1>13. Len(Contexts) > 1 /\ Len(Contexts) - 1 = Len(Contexts')
  BY <1>9, <1>11, <1>12
<1>14. Contexts' = SubSeq(Contexts, 1, Len(Contexts) - 1)
  BY <1>11, <1>13
<1>. QED
  BY <1>4, <1>13, <1>14 DEF SDP!Pop

\* A solver call answers for the conjunction of the contexts and the assumption.
LEMMA SolveRefines ==
  ASSUME IInv, DecSolve \/ DecSolveAssuming \/ DecSolveBadAlloc
               \/ DecSolveAssumingBadAlloc \/ DecSolveBadAllocEarly
  PROVE  \E assumption \in Expr : SDP!Solve(assumption)
<1>1. SDP!Conjunction(Contexts) = Active
  BY ConjunctionIsActive
<1>2. ASSUME formula' = formula, assumption_stack' = assumption_stack,
             context_size_stack' = context_size_stack
      PROVE  Contexts' = Contexts
  BY <1>2, ContextsAre
<1>3. ASSUME NEW ls, NEW e \in Expr, Solutions(formula, ls) = Active \cap e,
             do_prop_solve(ls), Contexts' = Contexts
      PROVE  SDP!Solve(e)
  BY <1>1, <1>3 DEF do_prop_solve, SDP!Solve
<1>4. CASE DecSolve
  <2>1. Active \cap Assignment = Active
    BY DEF Active
  <2>. DEFINE ls == Append(assumption_stack, On(context_literal_counter))
  <2>2. Solutions(formula, ls) = Active \cap Assignment
    BY <2>1, SolvesAssuming
  <2>3. do_prop_solve(ls) /\ Contexts' = Contexts
    BY <1>2, <1>4 DEF DecSolve, dec_solve
  <2>. HIDE DEF ls
  <2>. QED
    BY <1>3, <2>2, <2>3
<1>5. CASE DecSolveAssuming
  <2>1. PICK e \in Expr : dec_solve_assuming(e)
    BY <1>5, PropConvAssumption DEF DecSolveAssuming
  <2>. DEFINE ls == Append(assumption_stack, Lit(e))
  <2>2. Solutions(formula, ls) = Active \cap e
    BY SolvesAssuming
  <2>3. do_prop_solve(ls) /\ Contexts' = Contexts
    BY <1>2, <2>1 DEF dec_solve_assuming
  <2>. HIDE DEF ls
  <2>. QED
    BY <1>3, <2>2, <2>3
<1>6. CASE DecSolveBadAlloc
  <2>1. Contexts' = Append(Contexts, Assignment)
    BY <1>6, FreshContext DEF DecSolveBadAlloc, dec_solve_bad_alloc,
                              prop_solve_bad_alloc
  <2>2. SDP!Solve(Assignment)
    BY <1>6, <2>1 DEF DecSolveBadAlloc, dec_solve_bad_alloc, prop_solve_bad_alloc,
                      SDP!Solve
  <2>. QED
    BY <2>2
<1>7. CASE DecSolveAssumingBadAlloc
  <2>1. PICK e \in Expr : dec_solve_assuming_bad_alloc(e)
    BY <1>7, PropConvAssumption DEF DecSolveAssumingBadAlloc
  <2>2. Lit(e) \in Literal /\ \A m : ActiveIn(formula, Lit(e), m) <=> m \in e
    BY LiteralType DEF ActiveIn, Lit
  <2>3. Contexts' = Append(Contexts, e)
    BY <2>1, <2>2, ContextOfLiteral
    DEF dec_solve_assuming_bad_alloc, prop_solve_bad_alloc
  <2>4. SDP!Solve(e)
    BY <2>1, <2>3 DEF dec_solve_assuming_bad_alloc, prop_solve_bad_alloc, SDP!Solve
  <2>. QED
    BY <2>4
<1>8. CASE DecSolveBadAllocEarly
  <2>1. Contexts' = Contexts
    BY <1>2, <1>8 DEF DecSolveBadAllocEarly, dec_solve_bad_alloc_early
  <2>2. SDP!Solve(Assignment)
    BY <1>8, <2>1 DEF DecSolveBadAllocEarly, dec_solve_bad_alloc_early, SDP!Solve
  <2>. QED
    BY <2>2
<1>. QED
  BY <1>4, <1>5, <1>6, <1>7, <1>8

(***************************************************************************)
(* prop_conv_solvert, used by clients that take no liberties, is a decision *)
(* procedure with contexts: guarding clauses with literals that are never   *)
(* used again cannot be told apart from removing them.                     *)
(***************************************************************************)
THEOREM ContextsAreImplemented ==
  Liberties = {} => (Spec => ImplementsStackDecisionProcedure)
<1>. SUFFICES ASSUME Liberties = {}
              PROVE  Spec => ImplementsStackDecisionProcedure
  OBVIOUS
<1>1. IInv /\ [Next]_vars => IInv'
  BY TypeInvariant, WellFormedInvariant DEF IInv, WellFormed
<1>2. IInv /\ [Next]_vars => [SDP!SDPNext]_(SDP!sdpVars)
  <2>. SUFFICES ASSUME IInv, [Next]_vars PROVE [SDP!SDPNext]_(SDP!sdpVars)
    OBVIOUS
  <2>1. CASE SetTo
    BY <2>1, SetToRefines DEF SDP!SDPNext, SDP!Expr
  <2>2. CASE SetEquality
    BY <2>2, SetEqualityRefines DEF SDP!SDPNext, SDP!Expr
  <2>3. CASE Push
    <3>1. Contexts' = Append(Contexts, Assignment)
      BY <2>3, FreshContext DEF Push, push
    <3>2. SDP!Push
      BY <2>3, <3>1 DEF Push, push, SDP!Push
    <3>. QED
      BY <3>2 DEF SDP!SDPNext
  <2>4. CASE PushAssumptions
    BY <2>4, PushAssumptionsRefines DEF SDP!SDPNext
  <2>5. CASE Pop
    BY <2>5, PopRefines DEF SDP!SDPNext
  <2>6. CASE DecSolve \/ DecSolveAssuming \/ DecSolveBadAlloc
             \/ DecSolveAssumingBadAlloc \/ DecSolveBadAllocEarly
    BY <2>6, SolveRefines DEF SDP!SDPNext, SDP!Expr
  <2>7. CASE UNCHANGED vars
    BY <2>7, ContextsAre DEF vars, SDP!sdpVars
  <2>. QED
    BY <2>1, <2>2, <2>3, <2>4, <2>5, <2>6, <2>7 DEF Next
<1>. QED
  BY <1>1, <1>2, InitInvariant, InitRefines, PTL
  DEF Spec, ImplementsStackDecisionProcedure, SDP!SDPSpec
=============================================================================
