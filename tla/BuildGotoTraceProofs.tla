------------------------ MODULE BuildGotoTraceProofs ------------------------
(***************************************************************************)
(* Facts the proofs about the checkers share, for every equation: what the *)
(* conversion of an equation preserves, what the handles of its assertions *)
(* say about executions, what a stack of contexts admits, and that the     *)
(* traces built from a model are counterexamples.                          *)
(***************************************************************************)
EXTENDS BuildGotoTrace, Properties, FiniteSets, WellFoundedInduction, TLAPS

USE SMT, ZenonT(20), SMTT(60), ZenonT(60) DEF Expr

\* Every set of natural numbers that is not empty has a least member.
LEMMA LeastMember ==
  ASSUME NEW T \in SUBSET Nat, T # {}
  PROVE  \E i \in T : \A j \in T : i <= j
<1>1. PICK i \in T : \A j \in T : <<j, i>> \notin OpToRel(<, Nat)
  BY NatLessThanWellFounded, WFMin, Zenon
<1>2. ASSUME NEW j \in T PROVE i <= j
  <2>1. ~(j < i)
    BY <1>1 DEF OpToRel
  <2>. QED
    BY <2>1
<1>. QED
  BY <1>2

\* A set is finite if a sequence lists it, so every part of a finite set is finite.
LEMMA FiniteSubset ==
  ASSUME NEW S, IsFiniteSet(S), NEW T \in SUBSET S
  PROVE  IsFiniteSet(T)
<1>1. PICK seq \in Seq(S) : \A s \in S : \E n \in 1 .. Len(seq) : seq[n] = s
  BY DEF IsFiniteSet
<1>2. CASE T = {}
  <2>1. << >> \in Seq(T)
    OBVIOUS
  <2>. QED
    BY <1>2, <2>1 DEF IsFiniteSet
<1>3. CASE T # {}
  <2>1. PICK t : t \in T
    BY <1>3
  <2>. DEFINE part == [n \in 1 .. Len(seq) |-> IF seq[n] \in T THEN seq[n] ELSE t]
  <2>2. part \in Seq(T) /\ Len(part) = Len(seq)
    BY <2>1
  <2>3. \A s \in T : \E n \in 1 .. Len(seq) : part[n] = s
    BY <1>1
  <2>. HIDE DEF part
  <2>. QED
    BY <2>2, <2>3 DEF IsFiniteSet
<1>. QED
  BY <1>2, <1>3

\* The parts of a finite set have a rank, the least length of a list of the part, that
\* falls with every element taken out.
LEMMA FiniteRank ==
  ASSUME NEW S, IsFiniteSet(S)
  PROVE  \E rank \in [SUBSET S -> Nat] : \A T \in SUBSET S :
           (rank[T] = 0 <=> T = {}) /\ \A x \in T : rank[T \ {x}] < rank[T]
<1>. DEFINE Lists(T, n) == \E f : \A x \in T : \E i \in 1 .. n : f[i] = x
            Lengths(T) == {n \in Nat : Lists(T, n)}
            Least(T, n) == n \in Lengths(T) /\ \A m \in Lengths(T) : n <= m
<1>1. ASSUME NEW T \in SUBSET S PROVE \E n \in Nat : Least(T, n)
  <2>1. PICK seq \in Seq(S) : \A s \in S : \E n \in 1 .. Len(seq) : seq[n] = s
    BY DEF IsFiniteSet
  <2>2. Len(seq) \in Lengths(T)
    BY <2>1
  <2>3. Lengths(T) \in SUBSET Nat
    OBVIOUS
  <2>. HIDE DEF Lengths
  <2>. QED
    BY <2>2, <2>3, LeastMember
<1>2. ASSUME NEW T \in SUBSET S, NEW x \in T, NEW n \in Nat, Lists(T, n)
      PROVE  n # 0 /\ n - 1 \in Lengths(T \ {x})
  <2>1. PICK f : \A y \in T : \E i \in 1 .. n : f[i] = y
    BY <1>2
  <2>2. PICK i \in 1 .. n : f[i] = x
    BY <2>1
  <2>. DEFINE g == [j \in 1 .. n - 1 |-> IF j < i THEN f[j] ELSE f[j + 1]]
  <2>3. ASSUME NEW y \in T \ {x} PROVE \E j \in 1 .. n - 1 : g[j] = y
    <3>1. PICK k \in 1 .. n : f[k] = y
      BY <2>1
    <3>2. k # i
      BY <2>2, <3>1
    <3>3. CASE k < i
      <4>1. k \in 1 .. n - 1 /\ g[k] = y
        BY <3>1, <3>3
      <4>. QED
        BY <4>1
    <3>4. CASE k > i
      <4>1. k - 1 \in 1 .. n - 1 /\ g[k - 1] = y
        BY <3>1, <3>4
      <4>. QED
        BY <4>1
    <3>. QED
      BY <3>2, <3>3, <3>4
  <2>. HIDE DEF g
  <2>. QED
    BY <2>2, <2>3
<1>3. Lists({}, 0)
  OBVIOUS
<1>. DEFINE rank == [T \in SUBSET S |-> CHOOSE n \in Nat : Least(T, n)]
<1>4. ASSUME NEW T \in SUBSET S PROVE rank[T] \in Nat /\ Least(T, rank[T])
  <2>. HIDE DEF Least
  <2>. QED
    BY <1>1
<1>5. rank \in [SUBSET S -> Nat]
  <2>. HIDE DEF Least
  <2>. QED
    BY <1>4
<1>. HIDE DEF rank, Lists
<1>6. ASSUME NEW T \in SUBSET S, NEW x \in T PROVE rank[T] # 0 /\ rank[T \ {x}] < rank[T]
  <2>1. rank[T] # 0 /\ rank[T] - 1 \in Lengths(T \ {x})
    BY <1>2, <1>4
  <2>2. rank[T \ {x}] \in Nat /\ rank[T \ {x}] <= rank[T] - 1
    BY <1>4, <2>1
  <2>. QED
    BY <1>4, <2>1, <2>2
<1>7. rank[{}] = 0
  BY <1>3, <1>4
<1>. QED
  BY <1>5, <1>6, <1>7

-----------------------------------------------------------------------------
(* Recursion: functions on a set D whose value for n is given by that for pred[n], *)
(* which has a lower rank.                                                        *)

Ranked(D, rank, pred) ==
  /\ rank \in [D -> Nat]
  /\ \A n \in D : rank[n] # 0 => pred[n] \in D /\ rank[pred[n]] < rank[n]

\* What holds for rank 0, and for n if it does for pred[n], holds for all of D.
LEMMA Induction ==
  ASSUME NEW D, NEW rank, NEW pred, Ranked(D, rank, pred), NEW G,
         \A n \in D : rank[n] = 0 \/ pred[n] \in G => n \in G
  PROVE  \A n \in D : n \in G
<1>. DEFINE Bad == {rank[n] : n \in D \ G}
<1>. SUFFICES ASSUME Bad # {} PROVE FALSE
  OBVIOUS
<1>1. PICK j \in Bad : \A i \in Bad : j <= i
  <2>1. Bad \in SUBSET Nat
    BY DEF Ranked
  <2>. HIDE DEF Bad
  <2>. QED
    BY <2>1, LeastMember
<1>2. PICK n \in D \ G : j = rank[n]
  BY <1>1
<1>3. rank[n] # 0 /\ pred[n] \in D \ G
  BY <1>2 DEF Ranked
<1>4. rank[pred[n]] \in Bad /\ rank[pred[n]] < j /\ j \in Nat /\ rank[pred[n]] \in Nat
  BY <1>2, <1>3 DEF Ranked
<1>. HIDE DEF Bad
<1>. QED
  BY <1>1, <1>4

\* The values are in V: base[n] for rank 0, and else H[n] of the value for pred[n].
Recursive(D, rank, V, base, H) ==
  \A n \in D : /\ rank[n] = 0 => base[n] \in V
               /\ \A v \in V : H[n][v] \in V

\* The function exists: for elements of rank up to k it does, for every k, and these
\* functions agree on the elements they share.
LEMMA Recursion ==
  ASSUME NEW D, NEW rank, NEW pred, Ranked(D, rank, pred),
         NEW V, NEW base, NEW H, Recursive(D, rank, V, base, H)
  PROVE  \E f \in [D -> V] :
           \A n \in D : f[n] = IF rank[n] = 0 THEN base[n] ELSE H[n][f[pred[n]]]
<1>. DEFINE Upto(k) == {n \in D : rank[n] <= k}
            Good(f, k) ==
              /\ f \in [Upto(k) -> V]
              /\ \A n \in Upto(k) :
                   f[n] = IF rank[n] = 0 THEN base[n] ELSE H[n][f[pred[n]]]
<1>1. \A n \in D : /\ rank[n] \in Nat
                   /\ rank[n] # 0 => /\ pred[n] \in D /\ rank[pred[n]] \in Nat
                                     /\ rank[pred[n]] < rank[n]
  BY DEF Ranked
<1>. USE DEF Recursive
<1>2. ASSUME NEW k \in Nat PROVE \E f : Good(f, k)
  <2>. DEFINE Bad == {j \in Nat : ~\E f : Good(f, j)}
  <2>. SUFFICES ASSUME Bad # {} PROVE FALSE
    OBVIOUS
  <2>1. PICK j \in Bad : \A i \in Bad : j <= i
    <3>1. Bad \in SUBSET Nat
      OBVIOUS
    <3>. HIDE DEF Bad
    <3>. QED
      BY <3>1, LeastMember
  <2>2. CASE j = 0
    <3>. DEFINE g == [n \in Upto(0) |-> base[n]]
    <3>1. \A n \in Upto(0) : rank[n] = 0 /\ base[n] \in V
      BY <1>1
    <3>2. Good(g, 0)
      BY <3>1
    <3>. QED
      BY <2>1, <2>2, <3>2
  <2>3. CASE j # 0
    <3>1. j \in Nat /\ j - 1 \in Nat /\ j - 1 \notin Bad
      <4>1. j \in Nat
        BY <2>1
      <4>. HIDE DEF Bad
      <4>. QED
        BY <2>1, <2>3, <4>1
    <3>2. PICK f : Good(f, j - 1)
      BY <3>1
    <3>. DEFINE g == [n \in Upto(j) |-> IF rank[n] <= j - 1 THEN f[n]
                                        ELSE H[n][f[pred[n]]]]
    <3>3. ASSUME NEW n \in Upto(j), rank[n] # 0
          PROVE  pred[n] \in Upto(j - 1) /\ pred[n] \in Upto(j)
      BY <1>1, <3>1, <3>3
    <3>4. \A n \in Upto(j - 1) : n \in Upto(j) /\ g[n] = f[n] /\ g[n] \in V
      BY <1>1, <3>1, <3>2
    <3>5. ASSUME NEW n \in Upto(j)
          PROVE  /\ g[n] = IF rank[n] = 0 THEN base[n] ELSE H[n][g[pred[n]]]
                 /\ g[n] \in V
      <4>1. CASE n \in Upto(j - 1)
        <5>1. g[n] = f[n] /\ g[n] \in V
          BY <3>4, <4>1
        <5>2. f[n] = IF rank[n] = 0 THEN base[n] ELSE H[n][f[pred[n]]]
          BY <3>2, <4>1
        <5>3. rank[n] # 0 => g[pred[n]] = f[pred[n]]
          BY <3>3, <3>4
        <5>. HIDE DEF g
        <5>. QED
          BY <5>1, <5>2, <5>3
      <4>2. CASE n \notin Upto(j - 1)
        <5>1. rank[n] # 0 /\ g[n] = H[n][f[pred[n]]]
          BY <1>1, <3>1, <4>2
        <5>2. g[pred[n]] = f[pred[n]] /\ g[pred[n]] \in V
          BY <3>3, <3>4, <5>1
        <5>. HIDE DEF g
        <5>. QED
          BY <5>1, <5>2
      <4>. QED
        BY <4>1, <4>2
    <3>6. Good(g, j)
      <4>1. g = [n \in Upto(j) |-> g[n]]
        OBVIOUS
      <4>. HIDE DEF g
      <4>. QED
        BY <3>5, <4>1
    <3>. QED
      BY <2>1, <3>6
  <2>. QED
    BY <2>2, <2>3
<1>3. ASSUME NEW k \in Nat, NEW l \in Nat, NEW f, NEW g, Good(f, k), Good(g, l), k <= l
      PROVE  \A n \in Upto(k) : f[n] = g[n]
  <2>. DEFINE G == {n \in D : n \in Upto(k) => f[n] = g[n]}
  <2>1. ASSUME NEW n \in D, rank[n] = 0 \/ pred[n] \in G PROVE n \in G
    <3>. SUFFICES ASSUME n \in Upto(k) PROVE f[n] = g[n]
      OBVIOUS
    <3>1. n \in Upto(l)
      BY <1>1, <1>3
    <3>2. rank[n] # 0 => pred[n] \in Upto(k)
      BY <1>1
    <3>. QED
      BY <1>3, <2>1, <3>1, <3>2
  <2>. HIDE DEF G
  <2>2. \A n \in D : n \in G
    BY <2>1, Induction
  <2>. QED
    BY <2>2 DEF G
<1>. DEFINE Of(k) == CHOOSE f : Good(f, k)
            F == [n \in D |-> Of(rank[n])[n]]
<1>4. \A k \in Nat : Good(Of(k), k)
  <2>. HIDE DEF Good
  <2>. QED
    BY <1>2
<1>. HIDE DEF Of
<1>5. ASSUME NEW n \in D
      PROVE  /\ F[n] \in V
             /\ F[n] = IF rank[n] = 0 THEN base[n] ELSE H[n][F[pred[n]]]
  <2>1. rank[n] \in Nat /\ n \in Upto(rank[n]) /\ F[n] = Of(rank[n])[n]
    BY <1>1
  <2>2. /\ F[n] \in V
        /\ F[n] = IF rank[n] = 0 THEN base[n] ELSE H[n][Of(rank[n])[pred[n]]]
    BY <1>4, <2>1
  <2>3. ASSUME rank[n] # 0 PROVE F[pred[n]] = Of(rank[n])[pred[n]]
    <3>. DEFINE k == rank[pred[n]]
    <3>1. pred[n] \in D /\ k \in Nat /\ k <= rank[n] /\ pred[n] \in Upto(k)
      BY <1>1, <2>3
    <3>2. F[pred[n]] = Of(k)[pred[n]]
      BY <3>1
    <3>3. Good(Of(k), k) /\ Good(Of(rank[n]), rank[n])
      BY <1>4, <2>1, <3>1
    <3>. HIDE DEF k, Good, F, Upto
    <3>. QED
      BY <1>3, <2>1, <3>1, <3>2, <3>3
  <2>. HIDE DEF F
  <2>. QED
    BY <2>2, <2>3
<1>6. F = [n \in D |-> F[n]]
  OBVIOUS
<1>. HIDE DEF F
<1>. QED
  BY <1>5, <1>6

-----------------------------------------------------------------------------
(* Conversion changes handles and marks, and leaves the meaning of the steps. *)

SameSteps(eq, d) ==
  /\ d \in Seq(Step)
  /\ DOMAIN d = DOMAIN eq
  /\ \A i \in DOMAIN eq :
       /\ d[i].type = eq[i].type
       /\ d[i].guard = eq[i].guard
       /\ d[i].cond_expr = eq[i].cond_expr
       /\ d[i].property_id = eq[i].property_id

\* Equations with the same steps have the same properties and executions.
LEMMA SameMeaning ==
  ASSUME NEW eq \in Seq(Step), NEW d, SameSteps(eq, d)
  PROVE  /\ Asserts(d) = Asserts(eq)
         /\ PropertyIds(d) = PropertyIds(eq)
         /\ \A k \in DOMAIN eq : AssumptionsBefore(d, k) = AssumptionsBefore(eq, k)
         /\ \A v : Execution(d, v) <=> Execution(eq, v)
         /\ \A v, k : k \in DOMAIN eq => (Violates(d, v, k) <=> Violates(eq, v, k))
         /\ \A id : Violable(d, id) <=> Violable(eq, id)
<1>1. Asserts(d) = Asserts(eq)
  BY DEF SameSteps, Asserts, is_assert
<1>2. PropertyIds(d) = PropertyIds(eq)
  BY <1>1 DEF SameSteps, PropertyIds, Asserts
<1>3. ASSUME NEW k \in DOMAIN eq, NEW i \in 1 .. k - 1 PROVE i \in DOMAIN eq
  <2>1. DOMAIN eq = 1 .. Len(eq) /\ Len(eq) \in Nat
    OBVIOUS
  <2>. QED
    BY <2>1
<1>4. ASSUME NEW k \in DOMAIN eq
      PROVE  AssumptionsBefore(d, k) = AssumptionsBefore(eq, k)
  BY <1>3 DEF SameSteps, AssumptionsBefore, is_assume
<1>5. ASSUME NEW v PROVE Execution(d, v) <=> Execution(eq, v)
  BY DEF SameSteps, Execution, is_assignment
<1>6. ASSUME NEW v, NEW k \in DOMAIN eq
      PROVE  Violates(d, v, k) <=> Violates(eq, v, k)
  <2>1. \A i \in AssumptionsBefore(eq, k) : d[i].cond_expr = eq[i].cond_expr
    BY <1>3 DEF SameSteps, AssumptionsBefore
  <2>2. d[k].cond_expr = eq[k].cond_expr
    BY DEF SameSteps
  <2>. QED
    BY <1>4, <1>5, <2>1, <2>2 DEF Violates
<1>7. ASSUME NEW id PROVE Violable(d, id) <=> Violable(eq, id)
  <2>1. \A k \in Asserts(eq) : k \in DOMAIN eq /\ d[k].property_id = eq[k].property_id
    BY DEF Asserts, SameSteps
  <2>. QED
    BY <1>1, <1>6, <2>1 DEF Violable
<1>. QED
  BY <1>1, <1>2, <1>4, <1>5, <1>6, <1>7

\* A function on the positions of an equation whose values are steps is an equation.
LEMMA EquationType ==
  ASSUME NEW eq \in Seq(Step), NEW d, DOMAIN d = DOMAIN eq,
         d = [i \in DOMAIN eq |-> d[i]], \A i \in DOMAIN eq : d[i] \in Step
  PROVE  d \in Seq(Step)
<1>1. DOMAIN eq = 1 .. Len(eq) /\ Len(eq) \in Nat
  OBVIOUS
<1>2. [i \in 1 .. Len(eq) |-> d[i]] \in Seq(Step)
  BY <1>1
<1>. QED
  BY <1>1, <1>2

\* convert_without_assertions gives assumptions the handle of their condition and
\* leaves the assertions alone.
AssumptionHandles(eq) ==
  \A i \in DOMAIN eq : is_assume(eq[i]) => eq[i].cond_handle = eq[i].cond_expr

\* The equation after convert_without_assertions.
LEMMA ConvertedWithoutAssertions ==
  ASSUME NEW eq \in Seq(Step)
  PROVE  LET d == convert_without_assertions(eq) IN
         /\ SameSteps(eq, d)
         /\ AssumptionHandles(d)
         /\ \A i \in Asserts(eq) : d[i] = eq[i]
<1>. DEFINE d == convert_without_assertions(eq)
<1>1. /\ DOMAIN d = DOMAIN eq /\ d = [i \in DOMAIN eq |-> d[i]]
      /\ \A i \in DOMAIN eq :
           d[i] = IF is_assignment(eq[i]) THEN [eq[i] EXCEPT !.converted = TRUE]
                  ELSE IF is_assume(eq[i])
                  THEN [eq[i] EXCEPT !.cond_handle = eq[i].cond_expr]
                  ELSE eq[i]
  BY DEF convert_without_assertions
<1>. HIDE DEF d
<1>2. ASSUME NEW i \in DOMAIN eq
      PROVE  /\ d[i] \in Step /\ d[i].type = eq[i].type /\ d[i].guard = eq[i].guard
             /\ d[i].cond_expr = eq[i].cond_expr
             /\ d[i].property_id = eq[i].property_id
             /\ is_assume(eq[i]) => d[i].cond_handle = eq[i].cond_expr
             /\ is_assert(eq[i]) => d[i] = eq[i]
  <2>. DEFINE r == eq[i]
  <2>1. r \in Step
    OBVIOUS
  <2>2. r.cond_expr \in Expr
    BY <2>1 DEF Step
  <2>3. d[i] = IF is_assignment(r) THEN [r EXCEPT !.converted = TRUE]
               ELSE IF is_assume(r) THEN [r EXCEPT !.cond_handle = r.cond_expr]
               ELSE r
    BY <1>1
  <2>. HIDE DEF r
  <2>4. /\ d[i] \in Step /\ d[i].type = r.type /\ d[i].guard = r.guard
        /\ d[i].cond_expr = r.cond_expr
        /\ d[i].property_id = r.property_id
        /\ is_assume(r) => d[i].cond_handle = r.cond_expr
        /\ is_assert(r) => d[i] = r
    <3>1. CASE is_assignment(r)
      <4>1. d[i] = [r EXCEPT !.converted = TRUE] /\ ~is_assume(r) /\ ~is_assert(r)
        BY <2>3, <3>1 DEF is_assignment, is_assume, is_assert
      <4>. QED
        BY <2>1, <2>2, <4>1 DEF Step
    <3>2. CASE is_assume(r)
      <4>1. d[i] = [r EXCEPT !.cond_handle = r.cond_expr] /\ ~is_assert(r)
        BY <2>3, <3>2 DEF is_assignment, is_assume, is_assert
      <4>. QED
        BY <2>1, <2>2, <4>1 DEF Step
    <3>3. CASE ~is_assignment(r) /\ ~is_assume(r)
      BY <2>1, <2>3, <3>3
    <3>. QED
      BY <3>1, <3>2, <3>3
  <2>. QED
    BY <2>4 DEF r
<1>3. d \in Seq(Step)
  BY <1>1, <1>2, EquationType
<1>4. SameSteps(eq, d)
  BY <1>1, <1>2, <1>3 DEF SameSteps
<1>5. AssumptionHandles(d)
  BY <1>1, <1>2 DEF AssumptionHandles, is_assume
<1>6. \A i \in Asserts(eq) : d[i] = eq[i]
  BY <1>2 DEF Asserts
<1>. QED
  BY <1>4, <1>5, <1>6 DEF d

\* The constraint of convert_without_assertions: the executions.
LEMMA AssignmentsConstraintIs ==
  ASSUME NEW eq \in Seq(Step), \A i \in DOMAIN eq : ~eq[i].converted,
         NEW v \in Assignment
  PROVE  v \in AssignmentsConstraint(eq) <=> Execution(eq, v)
BY DEF AssignmentsConstraint, AllOf, Execution

\* Violations are told from the handles of the assertions: for valuations in C only
\* violations falsify a handle, and every violation does.
SoundHandles(eq, C) ==
  \A k \in Asserts(eq), v \in C : v \notin eq[k].cond_handle => Violates(eq, v, k)

CompleteHandles(eq) ==
  \A k \in Asserts(eq), v \in Assignment :
    Violates(eq, v, k) => v \notin eq[k].cond_handle

\* convert_assertions, in both encodings.
LEMMA ConvertedAssertions ==
  ASSUME NEW eq \in Seq(Step), AssumptionHandles(eq),
         \A i \in Asserts(eq) : ~eq[i].converted,
         NEW C \in SUBSET Assignment, \A v \in C : Execution(eq, v)
  PROVE  LET d == convert_assertions(eq, TRUE)
             K == AssertionsConstraint(eq, TRUE) IN
         /\ SameSteps(eq, d)
         /\ SoundHandles(d, C \cap K)
         /\ CompleteHandles(d)
         /\ \A k \in Asserts(eq), v \in Assignment : Violates(eq, v, k) => v \in K
<1>. DEFINE d == convert_assertions(eq, TRUE)
            K == AssertionsConstraint(eq, TRUE)
            H(k) == AssertionHandle(eq, k, TRUE)
<1>1. DOMAIN eq = 1 .. Len(eq) /\ Len(eq) \in Nat
  OBVIOUS
<1>2. Unconverted(eq) = Asserts(eq)
  BY DEF Unconverted
<1>3. \A k : H(k) \in Expr
  BY DEF AssertionHandle
<1>4. /\ DOMAIN d = DOMAIN eq /\ d = [i \in DOMAIN eq |-> d[i]]
      /\ \A i \in DOMAIN eq :
           d[i] = IF i \in Asserts(eq)
                  THEN [eq[i] EXCEPT !.converted = TRUE, !.cond_handle = H(i)]
                  ELSE eq[i]
  BY <1>2 DEF convert_assertions
<1>. HIDE DEF d, H
<1>5. ASSUME NEW i \in DOMAIN eq
      PROVE  /\ d[i] \in Step /\ d[i].type = eq[i].type /\ d[i].guard = eq[i].guard
             /\ d[i].cond_expr = eq[i].cond_expr
             /\ d[i].property_id = eq[i].property_id
             /\ i \in Asserts(eq) => d[i].cond_handle = H(i)
  <2>. DEFINE r == eq[i]
              h == H(i)
  <2>1. r \in Step /\ h \in Expr
    BY <1>3
  <2>2. d[i] = IF i \in Asserts(eq)
               THEN [r EXCEPT !.converted = TRUE, !.cond_handle = h] ELSE r
    BY <1>4
  <2>. HIDE DEF r, h
  <2>3. /\ d[i] \in Step /\ d[i].type = r.type /\ d[i].guard = r.guard
        /\ d[i].cond_expr = r.cond_expr
        /\ d[i].property_id = r.property_id
        /\ i \in Asserts(eq) => d[i].cond_handle = h
    BY <2>1, <2>2 DEF Step
  <2>. QED
    BY <2>3 DEF r, h
<1>6. d \in Seq(Step)
  BY <1>4, <1>5, EquationType
<1>7. SameSteps(eq, d)
  BY <1>4, <1>5, <1>6 DEF SameSteps
<1>8. /\ Asserts(d) = Asserts(eq)
      /\ \A v : \A k \in Asserts(eq) : Violates(d, v, k) <=> Violates(eq, v, k)
  BY <1>7, SameMeaning DEF Asserts
<1>9. \A k \in Asserts(eq) : k \in DOMAIN eq /\ d[k].cond_handle = H(k)
  BY <1>5 DEF Asserts
<1>10. ASSUME NEW k \in Asserts(eq), NEW v
       PROVE  (\A i \in AssumptionsBefore(eq, k) : v \in eq[i].cond_handle)
                <=> \A i \in AssumptionsBefore(eq, k) : v \in eq[i].cond_expr
  <2>1. \A i \in AssumptionsBefore(eq, k) : i \in DOMAIN eq /\ is_assume(eq[i])
    BY <1>1 DEF AssumptionsBefore, Asserts
  <2>. QED
    BY <2>1 DEF AssumptionHandles
<1>11. CASE Single(eq, TRUE)
  <2>1. PICK k0 : Asserts(eq) = {k0}
    BY <1>2, <1>11 DEF Single
  <2>2. \A k : H(k) = {}
    BY <1>11 DEF AssertionHandle, H
  <2>3. K = {v \in Assignment :
               /\ v \notin eq[k0].cond_expr
               /\ \A i \in AssumptionsBefore(eq, k0) : v \in eq[i].cond_expr}
    BY <1>2, <1>11, <2>1 DEF AssertionsConstraint
  <2>4. SoundHandles(d, C \cap K)
    <3>1. ASSUME NEW v \in C \cap K PROVE Violates(eq, v, k0)
      BY <2>3 DEF Violates
    <3>. QED
      BY <1>8, <2>1, <3>1 DEF SoundHandles
  <2>5. CompleteHandles(d)
    BY <1>8, <1>9, <2>2 DEF CompleteHandles
  <2>6. \A k \in Asserts(eq), v \in Assignment : Violates(eq, v, k) => v \in K
    BY <2>1, <2>3 DEF Violates
  <2>. QED
    BY <1>7, <2>4, <2>5, <2>6 DEF d
<1>12. CASE ~Single(eq, TRUE)
  <2>1. ASSUME NEW k \in Asserts(eq), NEW v \in Assignment
        PROVE  v \notin H(k) <=>
                 /\ \A i \in AssumptionsBefore(eq, k) : v \in eq[i].cond_expr
                 /\ v \notin eq[k].cond_expr
    BY <1>10, <1>12 DEF AssertionHandle, H
  <2>2. \A k : AssertionHandle(eq, k, FALSE) = H(k)
    BY <1>12 DEF AssertionHandle, H, Single
  <2>3. \A k \in Asserts(eq), v \in Assignment : v \notin H(k) => v \in K
    BY <1>2, <1>12, <2>2 DEF AssertionsConstraint
  <2>4. SoundHandles(d, C \cap K)
    BY <1>8, <1>9, <2>1 DEF SoundHandles, Violates
  <2>5. CompleteHandles(d)
    BY <1>8, <1>9, <2>1 DEF CompleteHandles, Violates
  <2>6. \A k \in Asserts(eq), v \in Assignment : Violates(eq, v, k) => v \in K
    BY <2>1, <2>3 DEF Violates
  <2>. QED
    BY <1>7, <2>4, <2>5, <2>6 DEF d
<1>. QED
  BY <1>11, <1>12

-----------------------------------------------------------------------------
(* The contexts of the decision procedure *)

\* The valuations that satisfy every context on the stack.
AllContexts(c) == {m \in Assignment : \A i \in DOMAIN c : m \in c[i]}

ContextStack(c) == c \in Seq(Expr) /\ Len(c) >= 1

\* The solutions are among those of the root context.
LEMMA ConjunctionInRoot ==
  ASSUME NEW c, ContextStack(c)
  PROVE  /\ AllContexts(c) \subseteq c[1]
         /\ c[1] \in Expr
         /\ Len(c) = 1 => AllContexts(c) = c[1]
<1>1. DOMAIN c = 1 .. Len(c) /\ Len(c) \in Nat /\ 1 \in 1 .. Len(c) /\ c[1] \in Expr
  BY DEF ContextStack
<1>2. Len(c) = 1 => \A i \in 1 .. Len(c) : i = 1
  BY <1>1
<1>. QED
  BY <1>1, <1>2 DEF AllContexts

\* set_to adds to the context on top.
LEMMA ConstrainTop ==
  ASSUME NEW c, ContextStack(c), NEW e \in Expr
  PROVE  LET d == [c EXCEPT ![Len(c)] = @ \cap e] IN
         /\ ContextStack(d) /\ Len(d) = Len(c)
         /\ d[1] \subseteq c[1]
         /\ Len(c) = 1 => d[1] = c[1] \cap e
         /\ AllContexts(d) = AllContexts(c) \cap e
<1>. DEFINE n == Len(c)
            d == [c EXCEPT ![n] = @ \cap e]
<1>1. /\ n \in Nat /\ DOMAIN c = 1 .. n /\ n \in 1 .. n /\ 1 \in 1 .. n
      /\ c \in Seq(Expr) /\ c \in [1 .. n -> Expr]
  BY DEF ContextStack
<1>. HIDE DEF n
<1>2. /\ DOMAIN d = 1 .. n /\ d[n] = c[n] \cap e
      /\ \A i \in 1 .. n : i # n => d[i] = c[i]
  BY <1>1
<1>3. d \in [1 .. n -> Expr]
  BY <1>1
<1>. HIDE DEF d
<1>4. d \in Seq(Expr) /\ Len(d) = n
  <2>1. [i \in 1 .. n |-> d[i]] \in Seq(Expr)
    BY <1>1, <1>3
  <2>2. d \in Seq(Expr)
    BY <1>3, <2>1
  <2>. QED
    BY <1>1, <1>2, <2>2
<1>5. ContextStack(d)
  BY <1>1, <1>4 DEF ContextStack
<1>6. d[1] \subseteq c[1] /\ (n = 1 => d[1] = c[1] \cap e)
  BY <1>1, <1>2
<1>7. AllContexts(d) = AllContexts(c) \cap e
  <2>1. \A m : (\A i \in 1 .. n : m \in d[i])
                 <=> (\A i \in 1 .. n : m \in c[i]) /\ m \in e
    BY <1>1, <1>2
  <2>. QED
    BY <1>1, <1>2, <2>1 DEF AllContexts
<1>. QED
  BY <1>4, <1>5, <1>6, <1>7 DEF d, n

\* A new context leaves the root alone.
LEMMA AddContext ==
  ASSUME NEW c, ContextStack(c), NEW e \in Expr
  PROVE  LET d == Append(c, e) IN
         /\ ContextStack(d) /\ d[1] = c[1]
         /\ AllContexts(d) = AllContexts(c) \cap e
<1>. DEFINE n == Len(c)
            d == Append(c, e)
<1>1. n \in Nat /\ n >= 1 /\ DOMAIN c = 1 .. n /\ 1 \in 1 .. n
  BY DEF ContextStack
<1>2. /\ d \in Seq(Expr) /\ Len(d) = n + 1 /\ DOMAIN d = 1 .. n + 1
      /\ (\A i \in 1 .. n : d[i] = c[i]) /\ d[n + 1] = e
  BY DEF ContextStack
<1>. HIDE DEF n, d
<1>3. ContextStack(d) /\ d[1] = c[1]
  BY <1>1, <1>2 DEF ContextStack
<1>4. \A i : i \in 1 .. n + 1 <=> i \in 1 .. n \/ i = n + 1
  BY <1>1
<1>5. \A m : (\A i \in 1 .. n + 1 : m \in d[i])
               <=> (\A i \in 1 .. n : m \in c[i]) /\ m \in e
  BY <1>2, <1>4
<1>6. AllContexts(d) = AllContexts(c) \cap e
  BY <1>1, <1>2, <1>5 DEF AllContexts
<1>. QED
  BY <1>3, <1>6 DEF d

\* pop() leaves the root alone.
LEMMA RemoveContext ==
  ASSUME NEW c, ContextStack(c), Len(c) > 1
  PROVE  LET d == SubSeq(c, 1, Len(c) - 1) IN ContextStack(d) /\ d[1] = c[1]
<1>. DEFINE n == Len(c) - 1
            d == SubSeq(c, 1, n)
<1>1. n \in Nat /\ n >= 1 /\ Len(c) \in Nat
  BY DEF ContextStack
<1>2. \A i \in 1 .. n : c[i] \in Expr
  BY <1>1 DEF ContextStack
<1>. HIDE DEF n
<1>3. /\ d \in Seq(Expr) /\ Len(d) = IF 1 <= n THEN n - 1 + 1 ELSE 0
      /\ \A i \in 1 .. n - 1 + 1 : d[i] = c[1 + i - 1]
  BY <1>1, <1>2
<1>. HIDE DEF d
<1>4. Len(d) = n /\ d[1] = c[1]
  <2>1. 1 \in 1 .. n - 1 + 1 /\ 1 + 1 - 1 = 1 /\ n - 1 + 1 = n
    BY <1>1
  <2>. QED
    BY <1>1, <1>3, <2>1
<1>. QED
  BY <1>1, <1>3, <1>4 DEF ContextStack, d, n

-----------------------------------------------------------------------------
(* One trace *)

\* The condition of an assertion holds where its guard does not (vcc).
GuardedAssertions(eq) ==
  \A i \in Asserts(eq) : Assignment \ eq[i].guard \subseteq eq[i].cond_expr

\* Model m falsifies the handle of an assertion of property id.
Falsifies(eq, m, id) ==
  \E i \in Asserts(eq) : eq[i].property_id = id /\ m \notin eq[i].cond_handle

\* A model in which handles tell violations.
GoodModel(eq, m) ==
  /\ eq \in Seq(Step) /\ GuardedAssertions(eq)
  /\ m \in Assignment /\ m # NoModel
  /\ \A k \in Asserts(eq) : m \notin eq[k].cond_handle => Violates(eq, m, k)

\* A falsified assertion is a step of the trace.
LEMMA FalsifiedIsKept ==
  ASSUME NEW eq, NEW m, GoodModel(eq, m),
         NEW k \in Asserts(eq), m \notin eq[k].cond_handle
  PROVE  IsTrue(eq[k].guard, m) /\ Violates(eq, m, k) /\ k \in DOMAIN eq
<1>1. m \in Assignment /\ m # NoModel /\ Violates(eq, m, k) /\ GuardedAssertions(eq)
  BY DEF GoodModel
<1>2. m \in eq[k].guard
  BY <1>1 DEF Violates, GuardedAssertions
<1>. QED
  BY <1>1, <1>2 DEF IsTrue, Asserts

\* build_trace ends with the first falsified assertion of the property.
LEMMA BuiltTrace ==
  ASSUME NEW eq, NEW m, NEW id, GoodModel(eq, m), Falsifies(eq, m, id)
  PROVE  LET t == build_trace(eq, m, id) IN
         /\ LastStepWasKept(eq, m, MatchesFailingProperty(eq, m, id))
         /\ LastStepIsAssert(eq, t.steps)
         /\ PropertyOfTrace(eq, t) = id
         /\ \E k \in t.steps : /\ CounterexampleAt(eq, t, id, k)
                               /\ \A i \in t.steps : i <= k
<1>. DEFINE M == MatchesFailingProperty(eq, m, id)
            k == LastStepToKeep(eq, M)
            S == build_goto_trace(eq, m, M)
            t == build_trace(eq, m, id)
<1>1. /\ eq \in Seq(Step) /\ m \in Assignment /\ m # NoModel
      /\ DOMAIN eq = 1 .. Len(eq) /\ Len(eq) \in Nat
  BY DEF GoodModel
<1>2. M = {i \in Asserts(eq) : eq[i].property_id = id /\ m \notin eq[i].cond_handle}
  BY <1>1 DEF MatchesFailingProperty, IsFalse
<1>3. M # {} /\ M \in SUBSET (1 .. Len(eq))
  BY <1>1, <1>2 DEF Falsifies, Asserts
<1>4. \E i \in M : \A j \in M : i <= j
  <2>. HIDE DEF M
  <2>1. M \in SUBSET Nat
    BY <1>1, <1>3
  <2>. QED
    BY <1>3, <2>1, LeastMember
<1>5. k \in M /\ \A j \in M : k <= j
  <2>. HIDE DEF M
  <2>. QED
    BY <1>3, <1>4 DEF LastStepToKeep
<1>6. k \in Asserts(eq) /\ eq[k].property_id = id /\ m \notin eq[k].cond_handle
  BY <1>2, <1>5
<1>7. IsTrue(eq[k].guard, m) /\ Violates(eq, m, k) /\ k \in DOMAIN eq
  BY <1>6, FalsifiedIsKept
<1>8. S = {i \in DOMAIN eq : i <= k /\ IsTrue(eq[i].guard, m)}
  BY DEF build_goto_trace
<1>9. t.model = m /\ t.steps = S
  BY DEF build_trace, Trace
<1>. HIDE DEF M, k, S, t
<1>10. k \in S /\ (\A i \in S : i <= k) /\ S \in SUBSET Nat
  BY <1>1, <1>7, <1>8
<1>11. get_last_step(S) = k
  <2>1. \A i \in S : (\A j \in S : j <= i) <=> i = k
    BY <1>10
  <2>2. get_last_step(S) \in S /\ \A j \in S : j <= get_last_step(S)
    BY <1>10 DEF get_last_step
  <2>. QED
    BY <2>1, <2>2
<1>12. LastStepWasKept(eq, m, M)
  BY <1>7 DEF LastStepWasKept, k
<1>13. LastStepIsAssert(eq, t.steps)
  BY <1>6, <1>9, <1>10, <1>11 DEF LastStepIsAssert, Asserts
<1>14. PropertyOfTrace(eq, t) = id
  BY <1>6, <1>9, <1>11 DEF PropertyOfTrace
<1>15. CounterexampleAt(eq, t, id, k)
  BY <1>6, <1>7, <1>9 DEF CounterexampleAt, Asserts
<1>. QED
  BY <1>9, <1>10, <1>12, <1>13, <1>14, <1>15 DEF t, M

\* The traces in `ts` are counterexamples that end with the violated assertion.
Counterexamples(eq, ts, full) ==
  \A p \in DOMAIN ts :
    \E k \in ts[p].steps :
      CounterexampleAt(eq, ts[p], p, k) /\ (~full => \A i \in ts[p].steps : i <= k)

\* The storage `all` has the traces in `ts` and those built for `ids`.
TracesAdded(all, ts, eq, m, ids) ==
  /\ DOMAIN all = DOMAIN ts \cup ids
  /\ \A id \in ids : all[id] = build_trace(eq, m, id)

\* Storing the traces of properties without one: those that were there stay.
LEMMA Stored ==
  ASSUME NEW eq, NEW m, GoodModel(eq, m), NEW ids, NEW ts,
         \A id \in ids : Falsifies(eq, m, id) /\ id \notin DOMAIN ts
  PROVE  LET all == insert(ts, eq, m, ids) IN
         /\ InsertDefined(ts, eq, m, ids)
         /\ TracesAdded(all, ts, eq, m, ids)
         /\ \A p \in DOMAIN ts : all[p] = ts[p]
<1>. DEFINE B(id) == build_trace(eq, m, id)
            P(t) == PropertyOfTrace(eq, t)
            N == {B(id) : id \in ids}
            f == [p \in {P(t) : t \in N} |-> CHOOSE t \in N : P(t) = p]
<1>1. ASSUME NEW id \in ids
      PROVE  /\ LastStepWasKept(eq, m, MatchesFailingProperty(eq, m, id))
             /\ LastStepIsAssert(eq, B(id).steps)
             /\ P(B(id)) = id
  BY BuiltTrace
<1>2. InsertDefined(ts, eq, m, ids)
  BY <1>1 DEF InsertDefined
<1>3. insert(ts, eq, m, ids) = insert_all(ts, f)
  BY DEF insert
<1>. HIDE DEF B, P
<1>4. DOMAIN f = ids
  <2>1. \A p : (\E t \in N : P(t) = p) <=> p \in ids
    BY <1>1
  <2>. QED
    BY <2>1
<1>5. ASSUME NEW p \in ids PROVE f[p] = B(p)
  <2>1. \A t \in N : P(t) = p <=> t = B(p)
    BY <1>1
  <2>2. B(p) \in N
    OBVIOUS
  <2>3. f[p] = CHOOSE t \in N : P(t) = p
    BY <1>4
  <2>. HIDE DEF N, f
  <2>. QED
    BY <2>1, <2>2, <2>3
<1>. HIDE DEF N, f
<1>6. /\ DOMAIN insert_all(ts, f) = DOMAIN ts \cup ids
      /\ \A p \in DOMAIN ts : insert_all(ts, f)[p] = ts[p]
      /\ \A p \in ids : insert_all(ts, f)[p] = B(p)
  BY <1>4, <1>5 DEF insert_all
<1>. QED
  BY <1>2, <1>3, <1>6 DEF B, TracesAdded

\* They are counterexamples if those that were there are.
LEMMA Inserted ==
  ASSUME NEW eq, NEW m, GoodModel(eq, m), NEW ids, NEW ts,
         \A id \in ids : Falsifies(eq, m, id) /\ id \notin DOMAIN ts,
         Counterexamples(eq, ts, FALSE)
  PROVE  /\ InsertDefined(ts, eq, m, ids)
         /\ DOMAIN insert(ts, eq, m, ids) = DOMAIN ts \cup ids
         /\ Counterexamples(eq, insert(ts, eq, m, ids), FALSE)
         /\ TracesAdded(insert(ts, eq, m, ids), ts, eq, m, ids)
<1>. DEFINE all == insert(ts, eq, m, ids)
<1>1. /\ InsertDefined(ts, eq, m, ids)
      /\ TracesAdded(all, ts, eq, m, ids)
      /\ \A p \in DOMAIN ts : all[p] = ts[p]
  BY Stored
<1>2. ASSUME NEW id \in ids
      PROVE  \E k \in build_trace(eq, m, id).steps :
               /\ CounterexampleAt(eq, build_trace(eq, m, id), id, k)
               /\ \A i \in build_trace(eq, m, id).steps : i <= k
  BY BuiltTrace
<1>. HIDE DEF all
<1>3. Counterexamples(eq, all, FALSE)
  BY <1>1, <1>2 DEF Counterexamples, TracesAdded
<1>. QED
  BY <1>1, <1>3 DEF TracesAdded, all

\* The trace that stop_on_fail_verifiert builds ends with the first violation.
LEMMA FirstFailure ==
  ASSUME NEW eq, NEW m, GoodModel(eq, m), NEW id, Falsifies(eq, m, id)
  PROVE  LET F == FailedAssertionSteps(eq, m)
             k == LastStepToKeep(eq, F)
             t == Trace(eq, m, F) IN
         /\ LastStepWasKept(eq, m, F)
         /\ t.steps \subseteq Nat /\ k \in t.steps /\ \A i \in t.steps : i <= k
         /\ CounterexampleAt(eq, t, eq[k].property_id, k)
         /\ t.model = m
<1>. DEFINE F == FailedAssertionSteps(eq, m)
            k == LastStepToKeep(eq, F)
            S == build_goto_trace(eq, m, F)
            t == Trace(eq, m, F)
<1>1. /\ eq \in Seq(Step) /\ m \in Assignment /\ m # NoModel
      /\ DOMAIN eq = 1 .. Len(eq) /\ Len(eq) \in Nat
  BY DEF GoodModel
<1>2. F = {i \in Asserts(eq) : m \notin eq[i].cond_handle}
  BY <1>1 DEF FailedAssertionSteps, IsFalse
<1>3. F # {} /\ F \in SUBSET (1 .. Len(eq))
  BY <1>1, <1>2 DEF Falsifies, Asserts
<1>4. \E i \in F : \A j \in F : i <= j
  <2>. HIDE DEF F
  <2>1. F \in SUBSET Nat
    BY <1>1, <1>3
  <2>. QED
    BY <1>3, <2>1, LeastMember
<1>5. k \in F
  <2>. HIDE DEF F
  <2>. QED
    BY <1>3, <1>4 DEF LastStepToKeep
<1>6. k \in Asserts(eq) /\ m \notin eq[k].cond_handle
  BY <1>2, <1>5
<1>7. IsTrue(eq[k].guard, m) /\ Violates(eq, m, k) /\ k \in DOMAIN eq
  BY <1>6, FalsifiedIsKept
<1>8. S = {i \in DOMAIN eq : i <= k /\ IsTrue(eq[i].guard, m)}
  BY DEF build_goto_trace
<1>9. t.model = m /\ t.steps = S
  BY DEF Trace
<1>10. LastStepWasKept(eq, m, F)
  BY <1>7 DEF LastStepWasKept
<1>. HIDE DEF F, k, S, t
<1>11. S \subseteq Nat /\ k \in S /\ \A i \in S : i <= k
  BY <1>1, <1>7, <1>8
<1>12. CounterexampleAt(eq, t, eq[k].property_id, k)
  BY <1>6, <1>7, <1>9 DEF CounterexampleAt, Asserts
<1>. QED
  BY <1>9, <1>10, <1>11, <1>12 DEF t, k, F

\* The full trace of cover_goals_verifier_with_trace_storaget violates exactly the
\* falsified properties.
LEMMA FullTrace ==
  ASSUME NEW eq, NEW m, GoodModel(eq, m)
  PROVE  LET t == Trace(eq, m, {})
             ids == get_failed_property_ids(eq, m, t.steps) IN
         /\ \A id : id \in ids <=> Falsifies(eq, m, id)
         /\ \A id \in ids : \E k \in t.steps : CounterexampleAt(eq, t, id, k)
<1>. DEFINE t == Trace(eq, m, {})
            ids == get_failed_property_ids(eq, m, t.steps)
<1>1. /\ eq \in Seq(Step) /\ m \in Assignment /\ m # NoModel
      /\ DOMAIN eq = 1 .. Len(eq) /\ Len(eq) \in Nat
  BY DEF GoodModel
<1>2. t.model = m /\ t.steps = {i \in DOMAIN eq : IsTrue(eq[i].guard, m)}
  BY <1>1 DEF Trace, build_goto_trace, LastStepToKeep
<1>. HIDE DEF t
<1>3. \A k : k \in t.steps /\ is_assert(eq[k]) /\ ~IsTrue(eq[k].cond_handle, m)
              <=> k \in Asserts(eq) /\ m \notin eq[k].cond_handle
  <2>1. \A k \in Asserts(eq) : IsTrue(eq[k].cond_handle, m) <=> m \in eq[k].cond_handle
    BY <1>1 DEF IsTrue
  <2>. QED
    BY <1>2, <2>1, FalsifiedIsKept DEF Asserts
<1>4. \A id : id \in ids <=>
               \E k : /\ k \in t.steps /\ is_assert(eq[k])
                     /\ ~IsTrue(eq[k].cond_handle, m) /\ eq[k].property_id = id
  BY DEF get_failed_property_ids
<1>. HIDE DEF ids
<1>5. \A id : id \in ids <=> Falsifies(eq, m, id)
  BY <1>3, <1>4 DEF Falsifies
<1>6. ASSUME NEW id \in ids PROVE \E k \in t.steps : CounterexampleAt(eq, t, id, k)
  <2>1. PICK k : /\ k \in t.steps /\ is_assert(eq[k])
                 /\ ~IsTrue(eq[k].cond_handle, m) /\ eq[k].property_id = id
    BY <1>4
  <2>2. Violates(eq, m, k)
    BY <1>3, <2>1, FalsifiedIsKept
  <2>. QED
    BY <1>2, <2>1, <2>2 DEF CounterexampleAt
<1>. QED
  BY <1>5, <1>6 DEF t, ids
-----------------------------------------------------------------------------
(* The overall result *)

\* What the combined status of some properties says about them.
Summarises(status, properties, ids) ==
  LET some(S) == \E p \in ids : properties[p] \in S
  IN  /\ status \in Status
      /\ status = "ERROR" <=> some({"ERROR"})
      /\ status = "FAIL" <=> ~some({"ERROR"}) /\ some({"FAIL"})
      /\ status \in {"NOT_CHECKED", "UNKNOWN"} <=>
           ~some({"ERROR", "FAIL"}) /\ some({"NOT_CHECKED", "UNKNOWN"})

\* Combining the status of one more property (operator&=).
LEMMA StatusAndSummarises ==
  ASSUME NEW properties, NEW ids, NEW p \in ids, NEW status,
         \A q \in ids : properties[q] \in Status,
         Summarises(status, properties, ids \ {p})
  PROVE  Summarises(StatusAnd(status, properties[p]), properties, ids)
<1>. DEFINE some(S, is) == \E q \in is : properties[q] \in S
<1>1. ASSUME NEW S PROVE some(S, ids) <=> some(S, ids \ {p}) \/ properties[p] \in S
  OBVIOUS
<1>. HIDE DEF some
<1>2. /\ status \in Status
      /\ status = "ERROR" <=> some({"ERROR"}, ids \ {p})
      /\ status = "FAIL" <=> ~some({"ERROR"}, ids \ {p}) /\ some({"FAIL"}, ids \ {p})
      /\ status \in {"NOT_CHECKED", "UNKNOWN"} <=>
           ~some({"ERROR", "FAIL"}, ids \ {p}) /\ some({"NOT_CHECKED", "UNKNOWN"}, ids \ {p})
  BY DEF Summarises, some
<1>3. some({"ERROR", "FAIL"}, ids \ {p}) <=> some({"ERROR"}, ids \ {p}) \/ some({"FAIL"}, ids \ {p})
  BY DEF some
<1>4. LET a == StatusAnd(status, properties[p])
      IN  /\ a \in Status
          /\ a = "ERROR" <=> some({"ERROR"}, ids)
          /\ a = "FAIL" <=> ~some({"ERROR"}, ids) /\ some({"FAIL"}, ids)
          /\ a \in {"NOT_CHECKED", "UNKNOWN"} <=>
               ~some({"ERROR", "FAIL"}, ids) /\ some({"NOT_CHECKED", "UNKNOWN"}, ids)
  BY <1>1, <1>2, <1>3 DEF StatusAnd, Status
<1>. QED
  BY <1>4 DEF Summarises, some

\* The combined status does not depend on the order of the properties in the map.
LEMMA CombinedStatusIs ==
  ASSUME NEW properties, IsFiniteSet(DOMAIN properties),
         \A p \in DOMAIN properties : properties[p] \in Status
  PROVE  Summarises(CombinedStatus(properties), properties, DOMAIN properties)
<1>. DEFINE D == SUBSET DOMAIN properties
            last(ids) == CHOOSE p \in ids : TRUE
            pred == [ids \in D |-> ids \ {last(ids)}]
            base == [ids \in D |-> "PASS"]
            H == [ids \in D |-> [v \in Status |-> StatusAnd(v, properties[last(ids)])]]
            Is(f) == f = [ids \in D |-> IF ids = {} THEN "PASS"
                                        ELSE StatusAnd(f[ids \ {last(ids)}], properties[last(ids)])]
<1>1. \A ids \in D : ids # {} => last(ids) \in ids /\ ids \ {last(ids)} \in D
  OBVIOUS
<1>. HIDE DEF last
<1>2. PICK rank \in [D -> Nat] : \A ids \in D :
        (rank[ids] = 0 <=> ids = {}) /\ \A p \in ids : rank[ids \ {p}] < rank[ids]
  BY FiniteRank
<1>14. Ranked(D, rank, pred)
  <2>1. ASSUME NEW ids \in D, rank[ids] # 0
        PROVE  pred[ids] \in D /\ rank[pred[ids]] < rank[ids]
    <3>1. ids # {} /\ pred[ids] = ids \ {last(ids)} /\ pred[ids] \in D
      BY <1>1, <1>2, <2>1
    <3>. QED
      BY <1>1, <1>2, <3>1
  <2>. HIDE DEF pred, D
  <2>. QED
    BY <1>2, <2>1 DEF Ranked
<1>3. \A ids \in D : (rank[ids] = 0 <=> ids = {}) /\ pred[ids] = ids \ {last(ids)} /\ base[ids] = "PASS"
  BY <1>2
<1>4. \A ids \in D : \A v \in Status : H[ids][v] = StatusAnd(v, properties[last(ids)])
  OBVIOUS
<1>5. \A a, b \in Status : StatusAnd(a, b) \in Status
  BY DEF StatusAnd, Status
<1>6. \A ids \in D : ids # {} => properties[last(ids)] \in Status
  BY <1>1
<1>7. \E f : Is(f)
  <2>. DEFINE G == [ids \in D |-> IF ids = {} THEN [v \in Status |-> v] ELSE H[ids]]
  <2>1. /\ \A ids \in D : \A v \in Status : G[ids][v] \in Status
        /\ \A ids \in D : \A v \in Status :
             ids # {} => G[ids][v] = StatusAnd(v, properties[last(ids)])
    BY <1>4, <1>5, <1>6
  <2>2. "PASS" \in Status
    BY DEF Status
  <2>. HIDE DEF G, H, pred, base
  <2>3. Recursive(D, rank, Status, base, G)
    <3>1. \A ids \in D : base[ids] \in Status
      BY <1>3, <2>2
    <3>2. \A ids \in D : \A v \in Status : G[ids][v] \in Status
      BY <2>1
    <3>. HIDE DEF D
    <3>. QED
      BY <3>1, <3>2 DEF Recursive
  <2>4. PICK f \in [D -> Status] :
          \A ids \in D : f[ids] = IF rank[ids] = 0 THEN base[ids] ELSE G[ids][f[pred[ids]]]
    <3>. HIDE DEF D
    <3>. QED
      BY <1>14, <2>3, Recursion
  <2>5. ASSUME NEW ids \in D
        PROVE  f[ids] = IF ids = {} THEN "PASS"
                        ELSE StatusAnd(f[ids \ {last(ids)}], properties[last(ids)])
    <3>1. CASE ids = {}
      BY <1>3, <2>4, <3>1
    <3>2. CASE ids # {}
      <4>1. f[ids] = G[ids][f[pred[ids]]] /\ pred[ids] = ids \ {last(ids)} /\ pred[ids] \in D
        BY <1>1, <1>3, <2>4, <3>2
      <4>. QED
        BY <2>1, <2>4, <3>2, <4>1
    <3>. QED
      BY <3>1, <3>2
  <2>6. Is(f)
    BY <2>4, <2>5
  <2>. QED
    BY <2>6
<1>8. CombinedStatus(properties) = (CHOOSE f : Is(f))[DOMAIN properties]
  BY Zenon DEF CombinedStatus, last
<1>9. PICK f : Is(f) /\ CombinedStatus(properties) = f[DOMAIN properties]
  <2>. HIDE DEF Is
  <2>. QED
    BY <1>7, <1>8
<1>10. \A ids \in D : f[ids] = IF ids = {} THEN "PASS"
                              ELSE StatusAnd(f[ids \ {last(ids)}], properties[last(ids)])
  BY <1>9
<1>11. ASSUME NEW ids \in D, ids = {} \/ Summarises(f[ids \ {last(ids)}], properties, ids \ {last(ids)})
       PROVE  Summarises(f[ids], properties, ids)
  <2>1. CASE ids = {}
    BY <1>10, <2>1 DEF Summarises, Status
  <2>2. CASE ids # {}
    <3>1. f[ids] = StatusAnd(f[ids \ {last(ids)}], properties[last(ids)])
      BY <1>10, <2>2
    <3>2. last(ids) \in ids /\ \A q \in ids : properties[q] \in Status
      BY <1>1, <2>2
    <3>. HIDE DEF D
    <3>. QED
      BY <1>11, <2>2, <3>1, <3>2, StatusAndSummarises
  <2>. QED
    BY <2>1, <2>2
<1>12. DOMAIN properties \in D
  OBVIOUS
<1>13. \A ids \in D : Summarises(f[ids], properties, ids)
  <2>. DEFINE G == {ids \in D : Summarises(f[ids], properties, ids)}
  <2>1. ASSUME NEW ids \in D, rank[ids] = 0 \/ pred[ids] \in G PROVE ids \in G
    <3>1. ids = {} \/ Summarises(f[ids \ {last(ids)}], properties, ids \ {last(ids)})
      <4>1. (rank[ids] = 0 <=> ids = {}) /\ pred[ids] = ids \ {last(ids)}
        BY <1>3
      <4>. HIDE DEF pred, D
      <4>. QED
        BY <2>1, <4>1
    <3>. QED
      BY <1>11, <3>1
  <2>. HIDE DEF G, D, pred
  <2>2. \A ids \in D : ids \in G
    BY <1>14, <2>1, Induction
  <2>. QED
    BY <2>2 DEF G
<1>. QED
  BY <1>9, <1>12, <1>13

\* determine_result: ERROR if there is an ERROR, else FAIL if there is a FAIL, and PASS
\* if every property is PASS or NOT_REACHABLE, for any number of properties.
LEMMA DetermineResult ==
  ASSUME NEW properties, IsFiniteSet(DOMAIN properties),
         \A p \in DOMAIN properties : properties[p] \in Status
  PROVE  LET some(S) == \E p \in DOMAIN properties : properties[p] \in S
             result == determine_result(properties)
         IN  /\ result \in Verdict
             /\ result = "ERROR" <=> some({"ERROR"})
             /\ result = "FAIL" <=> ~some({"ERROR"}) /\ some({"FAIL"})
             /\ result = "PASS" <=> ~some(Status \ {"PASS", "NOT_REACHABLE"})
<1>. DEFINE some(S) == \E p \in DOMAIN properties : properties[p] \in S
            status == CombinedStatus(properties)
<1>1. /\ status \in Status
      /\ status = "ERROR" <=> some({"ERROR"})
      /\ status = "FAIL" <=> ~some({"ERROR"}) /\ some({"FAIL"})
      /\ status \in {"NOT_CHECKED", "UNKNOWN"} <=>
           ~some({"ERROR", "FAIL"}) /\ some({"NOT_CHECKED", "UNKNOWN"})
  BY CombinedStatusIs DEF Summarises
<1>2. /\ some({"ERROR", "FAIL"}) <=> some({"ERROR"}) \/ some({"FAIL"})
      /\ some(Status \ {"PASS", "NOT_REACHABLE"}) <=>
           some({"ERROR", "FAIL"}) \/ some({"NOT_CHECKED", "UNKNOWN"})
  BY DEF Status
<1>. HIDE DEF status, some
<1>3. LET result == IF status \in {"NOT_CHECKED", "UNKNOWN"} THEN "UNKNOWN"
                    ELSE IF status = "NOT_REACHABLE" THEN "PASS"
                    ELSE status
      IN  /\ result \in Verdict
          /\ result = "ERROR" <=> some({"ERROR"})
          /\ result = "FAIL" <=> ~some({"ERROR"}) /\ some({"FAIL"})
          /\ result = "PASS" <=> ~some(Status \ {"PASS", "NOT_REACHABLE"})
  BY <1>1, <1>2 DEF Status, Verdict
<1>. QED
  BY <1>3, Zenon DEF determine_result, status, some
=============================================================================
