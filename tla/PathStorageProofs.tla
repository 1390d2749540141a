-------------------------- MODULE PathStorageProofs -------------------------
(***************************************************************************)
(* Proofs about the worklist of the single-path checker, for every tree of *)
(* branches: the equation that is read is the one of a path on the         *)
(* worklist, and the paths are explored in the order of the strategy.      *)
(***************************************************************************)
EXTENDS SinglePathSymexChecker, BuildGotoTraceProofs

USE SMT, ZenonT(20), SMTT(60), ZenonT(60) DEF Expr

-----------------------------------------------------------------------------
(* The tree of branches and the equations of its paths *)

\* What is assumed of a program.
LEMMA Tree ==
  ASSUME program \in Programs
  PROVE  /\ <<>> \in DOMAIN program
         /\ \A n \in DOMAIN program :
              /\ n \in Seq(Direction) /\ program[n] \in Seq(Step)
              /\ \A i \in DOMAIN program[n] :
                   /\ ~program[n][i].converted
                   /\ is_assert(program[n][i]) => Assignment \ program[n][i].guard
                                                    \subseteq program[n][i].cond_expr
              /\ n # <<>> => /\ Parent(n) \in DOMAIN program
                             /\ Len(n) \in Nat \ {0}
                             /\ Len(Parent(n)) = Len(n) - 1
                             /\ \A d \in Direction :
                                  Append(Parent(n), d) \in DOMAIN program
<1>1. /\ <<>> \in DOMAIN program
      /\ \A n \in DOMAIN program :
           /\ n \in Seq(Direction) /\ program[n] \in Seq(Step)
           /\ \A i \in DOMAIN program[n] :
                /\ ~program[n][i].converted
                /\ is_assert(program[n][i]) => Assignment \ program[n][i].guard
                                                 \subseteq program[n][i].cond_expr
           /\ n # <<>> => /\ Parent(n) \in DOMAIN program
                          /\ \A d \in Direction :
                               Append(Parent(n), d) \in DOMAIN program
  BY SinglePathAssumption, Zenon
<1>2. ASSUME NEW n \in Seq(Direction), n # <<>>
      PROVE  Len(n) \in Nat \ {0} /\ Len(Parent(n)) = Len(n) - 1
  <2>. DEFINE l == Len(n)
  <2>1. l \in Nat \ {0} /\ \A i \in 1 .. l - 1 : n[i] \in Direction
    BY <1>2
  <2>. HIDE DEF l
  <2>2. Len(SubSeq(n, 1, l - 1)) = l - 1
    BY <2>1
  <2>. QED
    BY <2>1, <2>2 DEF Parent, l
<1>. QED
  BY <1>1, <1>2

\* The number of branches on the way to a node is its rank.
LEMMA TreeIsRanked ==
  ASSUME program \in Programs
  PROVE  LET D == DOMAIN program
         IN  Ranked(D, [n \in D |-> Len(n)], [n \in D |-> Parent(n)])
<1>1. \A n \in DOMAIN program :
        Len(n) \in Nat /\ (n # <<>> => Len(Parent(n)) = Len(n) - 1)
                       /\ (n # <<>> => Parent(n) \in DOMAIN program)
                       /\ (n = <<>> => Len(n) = 0)
  BY Tree
<1>. QED
  BY <1>1 DEF Ranked

\* The equation of a path is that of the path to the last branch, and then the steps
\* behind it.
LEMMA PathEquationIs ==
  ASSUME program \in Programs
  PROVE  /\ PathEquation \in [DOMAIN program -> Seq(Step)]
         /\ \A n \in DOMAIN program :
              PathEquation[n] = IF n = <<>> THEN program[n]
                                ELSE PathEquation[Parent(n)] \o program[n]
<1>. DEFINE D == DOMAIN program
            rank == [n \in D |-> Len(n)]
            pred == [n \in D |-> Parent(n)]
            H == [n \in D |-> [v \in Seq(Step) |-> v \o program[n]]]
            Is(f) == f = [n \in D |-> IF n = <<>> THEN program[n]
                                      ELSE f[Parent(n)] \o program[n]]
<1>1. /\ Ranked(D, rank, pred)
      /\ \A n \in D : /\ program[n] \in Seq(Step) /\ (rank[n] = 0 <=> n = <<>>)
                      /\ n # <<>> => Parent(n) \in D
                      /\ pred[n] = Parent(n)
  BY Tree, TreeIsRanked
<1>2. \A n \in D : \A v \in Seq(Step) : H[n][v] = v \o program[n] /\ H[n][v] \in Seq(Step)
  BY <1>1
<1>3. \E f : Is(f)
  <2>1. Recursive(D, rank, Seq(Step), program, H)
    BY <1>1, <1>2 DEF Recursive
  <2>. HIDE DEF H, rank, pred, D
  <2>2. PICK f \in [D -> Seq(Step)] :
          \A n \in D : f[n] = IF rank[n] = 0 THEN program[n] ELSE H[n][f[pred[n]]]
    BY <1>1, <2>1, Recursion
  <2>3. ASSUME NEW n \in D
        PROVE  f[n] = IF n = <<>> THEN program[n] ELSE f[Parent(n)] \o program[n]
    <3>1. CASE n = <<>>
      BY <1>1, <2>2, <3>1
    <3>2. CASE n # <<>>
      <4>1. f[n] = H[n][f[Parent(n)]] /\ f[Parent(n)] \in Seq(Step)
        BY <1>1, <2>2, <3>2
      <4>. QED
        BY <1>2, <3>2, <4>1, Zenon
    <3>. QED
      BY <3>1, <3>2, Zenon
  <2>4. Is(f)
    BY <2>2, <2>3, Zenon
  <2>. QED
    BY <2>4, Zenon
<1>4. PathEquation = CHOOSE f : Is(f)
  BY Zenon DEF PathEquation
<1>5. Is(PathEquation)
  <2>. HIDE DEF Is
  <2>. QED
    BY <1>3, <1>4
<1>6. \A n \in D : PathEquation[n] = IF n = <<>> THEN program[n]
                                     ELSE PathEquation[Parent(n)] \o program[n]
  BY <1>5, Zenon
<1>7. \A n \in D : PathEquation[n] \in Seq(Step)
  <2>. DEFINE G == {n \in D : PathEquation[n] \in Seq(Step)}
  <2>1. ASSUME NEW n \in D, rank[n] = 0 \/ pred[n] \in G PROVE n \in G
    <3>1. program[n] \in Seq(Step)
      BY <1>1
    <3>2. CASE n = <<>>
      BY <1>6, <3>1, <3>2
    <3>3. CASE n # <<>>
      <4>1. PathEquation[Parent(n)] \in Seq(Step)
        BY <1>1, <2>1, <3>3
      <4>2. PathEquation[n] = PathEquation[Parent(n)] \o program[n]
        BY <1>6, <3>3, Zenon
      <4>3. PathEquation[n] \in Seq(Step)
        <5>. HIDE DEF G, D, rank, pred, H, Is
        <5>. QED
          BY <3>1, <4>1, <4>2
      <4>. QED
        BY <4>3
    <3>. QED
      BY <3>2, <3>3
  <2>. HIDE DEF G, D, rank, pred
  <2>2. \A n \in D : n \in G
    BY <1>1, <2>1, Induction
  <2>. QED
    BY <2>2 DEF G
<1>8. PathEquation \in [D -> Seq(Step)]
  BY <1>5, <1>7
<1>. QED
  BY <1>6, <1>8

\* The steps of a path are fresh.
LEMMA PathIsFresh ==
  ASSUME program \in Programs, NEW n \in DOMAIN program
  PROVE  /\ GuardedAssertions(PathEquation[n])
         /\ \A i \in DOMAIN PathEquation[n] : ~PathEquation[n][i].converted
<1>. DEFINE D == DOMAIN program
            rank == [m \in D |-> Len(m)]
            pred == [m \in D |-> Parent(m)]
            Fresh(eq) ==
              \A i \in DOMAIN eq :
                /\ ~eq[i].converted
                /\ is_assert(eq[i]) => Assignment \ eq[i].guard \subseteq eq[i].cond_expr
            G == {m \in D : Fresh(PathEquation[m])}
<1>1. Ranked(D, rank, pred) /\ \A m \in D : (rank[m] = 0 <=> m = <<>>) /\ pred[m] = Parent(m)
  BY Tree, TreeIsRanked
<1>2. ASSUME NEW m \in D, rank[m] = 0 \/ pred[m] \in G PROVE m \in G
  <2>1. Fresh(program[m]) /\ program[m] \in Seq(Step)
    BY Tree
  <2>2. CASE m = <<>>
    BY <2>1, <2>2, PathEquationIs
  <2>3. CASE m # <<>>
    <3>. DEFINE a == PathEquation[Parent(m)]
                b == program[m]
    <3>1. Fresh(a) /\ a \in Seq(Step) /\ PathEquation[m] = a \o b
      BY <1>1, <1>2, <2>3, PathEquationIs, Tree, Zenon
    <3>. HIDE DEF a, b
    <3>2. ASSUME NEW i \in DOMAIN (a \o b)
          PROVE  \/ i \in DOMAIN a /\ (a \o b)[i] = a[i]
                 \/ \E j \in DOMAIN b : (a \o b)[i] = b[j]
      <4>1. a \in Seq(Step) /\ b \in Seq(Step)
        BY <2>1, <3>1 DEF b
      <4>2. CASE i <= Len(a)
        BY <4>1, <4>2
      <4>3. CASE i > Len(a)
        <5>1. i - Len(a) \in DOMAIN b /\ (a \o b)[i] = b[i - Len(a)]
          BY <4>1, <4>3
        <5>. QED
          BY <5>1
      <4>. QED
        BY <4>1, <4>2, <4>3
    <3>3. Fresh(a \o b)
      BY <2>1, <3>1, <3>2 DEF b
    <3>. QED
      BY <3>1, <3>3, Zenon
  <2>. QED
    BY <2>2, <2>3
<1>. HIDE DEF G, D, rank, pred
<1>3. \A m \in D : m \in G
  BY <1>1, <1>2, Induction
<1>4. Fresh(PathEquation[n])
  BY <1>3 DEF G, D
<1>. QED
  BY <1>4 DEF GuardedAssertions, Asserts

\* Every node on the path to a node of the tree is one.
LEMMA PrefixInTree ==
  ASSUME program \in Programs, NEW n \in DOMAIN program, NEW l \in 0 .. Len(n)
  PROVE  SubSeq(n, 1, l) \in DOMAIN program
<1>. DEFINE D == DOMAIN program
            rank == [m \in D |-> Len(m)]
            pred == [m \in D |-> Parent(m)]
            G == {m \in D : \A k \in 0 .. Len(m) : SubSeq(m, 1, k) \in D}
<1>1. Ranked(D, rank, pred) /\ \A m \in D : (rank[m] = 0 <=> m = <<>>) /\ pred[m] = Parent(m)
  BY Tree, TreeIsRanked
<1>2. ASSUME NEW m \in D, rank[m] = 0 \/ pred[m] \in G, NEW k \in 0 .. Len(m)
      PROVE  SubSeq(m, 1, k) \in D
  <2>1. m \in Seq(Direction)
    BY Tree
  <2>2. CASE k = Len(m)
    <3>1. SubSeq(m, 1, k) = m
      BY <2>1, <2>2
    <3>. QED
      BY <3>1, Zenon
  <2>3. CASE k # Len(m)
    <3>1. m # <<>> /\ Parent(m) \in G /\ Len(m) \in Nat
      BY <1>1, <1>2, <2>1, <2>3
    <3>2. Len(Parent(m)) = Len(m) - 1
      BY <3>1, Tree
    <3>3. k \in 0 .. Len(Parent(m))
      BY <2>3, <3>1, <3>2
    <3>4. SubSeq(Parent(m), 1, k) = SubSeq(m, 1, k)
      BY <2>1, <3>2, <3>3 DEF Parent
    <3>. QED
      BY <3>1, <3>3, <3>4, Zenon
  <2>. QED
    BY <2>2, <2>3
<1>3. \A m \in D : rank[m] = 0 \/ pred[m] \in G => m \in G
  BY <1>2
<1>. HIDE DEF G, D, rank, pred
<1>4. \A m \in D : m \in G
  BY <1>1, <1>3, Induction
<1>. QED
  BY <1>4 DEF G, D

-----------------------------------------------------------------------------
(* The invariants *)

Running == pc \notin {"return", "done", "aborted"}

\* The property decider refers to a path that is not decided yet.
Deciding ==
  \/ pc \in {"convert", "goals", "solve", "found", "resolve"}
  \/ pc = "call" /\ symex_initialized

\* A path that has been executed is still on the worklist.
Busy == Deciding \/ pc \in {"pop", "continue"}

\* The place of this path, and the places of the paths that are to be executed.
Current == IF ~Busy THEN 0
           ELSE IF options.strategy = "lifo" THEN last_peeked ELSE 1
Pending == DOMAIN worklist \ {Current}

Entry == [node : DOMAIN program, equation : Seq(Step)]

DeciderIsRecord ==
  property_decider = [node |-> property_decider.node,
                      equation |-> property_decider.equation,
                      goal_map |-> property_decider.goal_map]

\* The worklist has the path that is processed, with its whole equation, and paths
\* that still lack the steps of their node.
StorageInv ==
  /\ program \in Programs
  /\ options \in [verifier : Verifiers, strategy : Strategies,
                  explore_all : BOOLEAN]
  /\ symex_initialized \in BOOLEAN
  /\ worklist \in Seq(Entry)
  /\ Running /\ pc # "call" => symex_initialized
  /\ pc = "call" /\ property_decider # NoDecider => symex_initialized
  /\ Busy => /\ Current \in DOMAIN worklist
             /\ worklist[Current].equation = PathEquation[worklist[Current].node]
  /\ Deciding => /\ property_decider.node = worklist[Current].node
                 /\ DeciderIsRecord
  /\ Running => \A i \in Pending :
       Resumed(worklist[i]) = PathEquation[worklist[i].node]

-----------------------------------------------------------------------------
(* The worklist *)

\* The program does not change, so its paths stay what they are.
LEMMA SamePaths ==
  ASSUME program' = program
  PROVE  /\ PathEquation' = PathEquation
         /\ \A p : ViolableOnSomePath(p)' <=> ViolableOnSomePath(p)
<1>1. PathEquation' = PathEquation
  BY DEF PathEquation
<1>. QED
  BY <1>1 DEF ViolableOnSomePath

\* A node behind a branch.
LEMMA BranchIs ==
  ASSUME program \in Programs, NEW n \in DOMAIN program, NEW d \in Direction
  PROVE  /\ Append(n, d) \in Seq(Direction) /\ Append(n, d) # <<>>
         /\ Parent(Append(n, d)) = n
         /\ IsBranch(n) => Append(n, d) \in DOMAIN program
         /\ Append(n, d) \in DOMAIN program =>
              /\ IsBranch(n)
              /\ PathEquation[Append(n, d)] = PathEquation[n] \o program[Append(n, d)]
<1>1. n \in Seq(Direction)
  BY Tree
<1>2. \A e \in Direction : /\ Append(n, e) \in Seq(Direction) /\ Append(n, e) # <<>>
                           /\ Parent(Append(n, e)) = n
  BY <1>1 DEF Parent
<1>3. "next" \in Direction
  BY DEF Direction
<1>4. \A e \in Direction : Append(n, e) \in DOMAIN program =>
        \A f \in Direction : Append(n, f) \in DOMAIN program
  BY <1>2, Tree, Zenon
<1>. QED
  BY <1>2, <1>3, <1>4, PathEquationIs, Zenon DEF IsBranch

\* One sequence after another.
LEMMA ConcatIs ==
  ASSUME NEW S, NEW s \in Seq(S), NEW t \in Seq(S)
  PROVE  /\ s \o t \in Seq(S)
         /\ Len(s \o t) = Len(s) + Len(t)
         /\ DOMAIN (s \o t) = 1 .. Len(s) + Len(t)
         /\ \A i \in 1 .. Len(s) + Len(t) :
              (s \o t)[i] = IF i <= Len(s) THEN s[i] ELSE t[i - Len(s)]
OBVIOUS

\* A sequence without its c-th element.
LEMMA Without ==
  ASSUME NEW S, NEW w \in Seq(S), NEW c \in DOMAIN w
  PROVE  LET u == SubSeq(w, 1, c - 1) \o SubSeq(w, c + 1, Len(w))
         IN  /\ u \in Seq(S) /\ Len(u) = Len(w) - 1
             /\ \A i \in DOMAIN u : i \in 1 .. Len(w) - 1
                                    /\ u[i] = w[IF i < c THEN i ELSE i + 1]
<1>. DEFINE n == Len(w)
            a == SubSeq(w, 1, c - 1)
            b == SubSeq(w, c + 1, n)
<1>1. n \in Nat /\ c \in 1 .. n /\ \A i \in 1 .. n : w[i] \in S
  OBVIOUS
<1>. HIDE DEF n
<1>2. a \in Seq(S) /\ Len(a) = c - 1 /\ \A i \in 1 .. c - 1 : a[i] = w[i]
  BY <1>1
<1>3. b \in Seq(S) /\ Len(b) = n - c /\ \A i \in 1 .. n - c : b[i] = w[c + i]
  BY <1>1
<1>. HIDE DEF a, b
<1>4. /\ a \o b \in Seq(S) /\ Len(a \o b) = n - 1 /\ DOMAIN (a \o b) = 1 .. n - 1
      /\ \A i \in 1 .. n - 1 : (a \o b)[i] = IF i <= c - 1 THEN a[i] ELSE b[i - (c - 1)]
  <2>1. Len(a) + Len(b) = n - 1
    BY <1>1, <1>2, <1>3
  <2>. QED
    <3>1. /\ a \o b \in Seq(S) /\ Len(a \o b) = Len(a) + Len(b)
          /\ DOMAIN (a \o b) = 1 .. Len(a) + Len(b)
          /\ \A i \in 1 .. Len(a) + Len(b) :
               (a \o b)[i] = IF i <= Len(a) THEN a[i] ELSE b[i - Len(a)]
      BY <1>2, <1>3, ConcatIs
    <3>. QED
      BY <1>2, <2>1, <3>1
<1>5. ASSUME NEW i \in 1 .. n - 1 PROVE (a \o b)[i] = w[IF i < c THEN i ELSE i + 1]
  <2>1. CASE i < c
    BY <1>1, <1>2, <1>4, <2>1
  <2>2. CASE ~(i < c)
    <3>1. (a \o b)[i] = b[i - (c - 1)]
      BY <1>1, <1>4, <2>2
    <3>2. i - (c - 1) \in 1 .. n - c /\ c + (i - (c - 1)) = i + 1
      BY <1>1, <2>2
    <3>. QED
      BY <1>3, <2>2, <3>1, <3>2
  <2>. QED
    BY <2>1, <2>2, Zenon
<1>. QED
  BY <1>4, <1>5, Zenon DEF n, a, b

\* pop() takes away the path that was processed, and no other.
LEMMA PopIs ==
  ASSUME StorageInv, Busy, PopDefined, Pop, program' = program
  PROVE  /\ worklist' \in Seq(Entry)
         /\ \A i \in DOMAIN worklist' :
              \E j \in Pending : worklist'[i] = worklist[j]
         /\ \A j \in Pending :
              \E i \in DOMAIN worklist' : worklist'[i] = worklist[j]
         /\ Len(worklist') = Len(worklist) - 1
         /\ \A i \in DOMAIN worklist' :
              worklist'[i] = worklist[IF i < Current THEN i ELSE i + 1]
<1>. DEFINE c == Current
<1>1. worklist \in Seq(Entry) /\ c \in DOMAIN worklist /\ Pending = DOMAIN worklist \ {c}
  BY DEF StorageInv, Pending
<1>2. /\ worklist' \in Seq(Entry) /\ Len(worklist') = Len(worklist) - 1
      /\ \A i \in DOMAIN worklist' : worklist'[i] = worklist[IF i < c THEN i ELSE i + 1]
  <2>1. CASE options.strategy = "lifo"
    <3>1. /\ c = last_peeked
          /\ worklist' = SubSeq(worklist, 1, c - 1) \o SubSeq(worklist, c + 1, Len(worklist))
      BY <2>1, Zenon DEF Current, Pop
    <3>. DEFINE u == SubSeq(worklist, 1, c - 1) \o SubSeq(worklist, c + 1, Len(worklist))
    <3>2. /\ u \in Seq(Entry) /\ Len(u) = Len(worklist) - 1
          /\ \A i \in DOMAIN u : u[i] = worklist[IF i < c THEN i ELSE i + 1]
      <4>. HIDE DEF c
      <4>. QED
        BY <1>1, Without, Zenon
    <3>. HIDE DEF u, c
    <3>. QED
      BY <3>1, <3>2, Zenon DEF u
  <2>2. CASE options.strategy # "lifo"
    <3>1. c = 1 /\ worklist' = Tail(worklist)
      BY <2>2 DEF Current, Pop
    <3>. HIDE DEF c
    <3>2. /\ Tail(worklist) \in Seq(Entry) /\ Len(worklist) \in Nat
          /\ Len(Tail(worklist)) = Len(worklist) - 1
          /\ DOMAIN Tail(worklist) = 1 .. Len(worklist) - 1
          /\ \A i \in 1 .. Len(worklist) - 1 : Tail(worklist)[i] = worklist[i + 1]
      BY <1>1
    <3>3. \A i \in 1 .. Len(worklist) - 1 : ~(i < 1)
      BY <3>2
    <3>. QED
      BY <3>1, <3>2, <3>3
  <2>. QED
    BY <2>1, <2>2
<1>. HIDE DEF c
<1>3. ASSUME NEW i \in DOMAIN worklist'
      PROVE  \E j \in Pending : worklist'[i] = worklist[j]
  <2>1. (IF i < c THEN i ELSE i + 1) \in Pending
    BY <1>1, <1>2
  <2>. QED
    BY <1>2, <2>1
<1>4. ASSUME NEW j \in Pending
      PROVE  \E i \in DOMAIN worklist' : worklist'[i] = worklist[j]
  <2>1. CASE j < c
    <3>1. j \in DOMAIN worklist'
      BY <1>1, <1>2, <2>1
    <3>. QED
      BY <1>2, <2>1, <3>1
  <2>2. CASE ~(j < c)
    <3>1. j - 1 \in DOMAIN worklist' /\ ~(j - 1 < c) /\ (j - 1) + 1 = j
      BY <1>1, <1>2, <2>2
    <3>2. worklist'[j - 1] = worklist[j]
      BY <1>2, <3>1
    <3>. QED
      BY <3>1, <3>2
  <2>. QED
    BY <2>1, <2>2
<1>. QED
  BY <1>2, <1>3, <1>4 DEF c

\* What symbolic execution of a path does to the worklist: it completes the equation
\* of the path and adds the two paths behind the next branch.
LEMMA ResumeIs ==
  ASSUME StorageInv, ResumePath
  PROVE  LET k == Peek
             n == Len(worklist)
             node == worklist[k].node
             eq == PathEquation[node]
         IN  /\ n \in Nat /\ k \in 1 .. n /\ node \in DOMAIN program
             /\ Resumed(worklist[k]) = eq
             /\ worklist' \in Seq(Entry)
             /\ Len(worklist') = IF IsBranch(node) THEN n + 2 ELSE n
             /\ worklist'[k] = Path(node, eq)
             /\ \A i \in 1 .. n : i # k => worklist'[i] = worklist[i]
             /\ IsBranch(node) => /\ worklist'[n + 1] = Path(Append(node, "next"), eq)
                                  /\ worklist'[n + 2] = Path(Append(node, "jump"), eq)
             /\ Current' = k /\ Busy'
             /\ Pending = DOMAIN worklist
<1>. DEFINE k == Peek
            n == Len(worklist)
            node == worklist[k].node
            eq == PathEquation[node]
            saved == SavedPaths(node, eq)
            w == [worklist EXCEPT ![k].equation = eq]
<1>1. /\ pc = "explore" /\ worklist # <<>> /\ worklist \in Seq(Entry) /\ program \in Programs
      /\ options' = options
  BY DEF ResumePath, has_finished_exploration, StorageInv
<1>2. n \in Nat /\ n >= 1 /\ DOMAIN worklist = 1 .. n
  BY <1>1
<1>3. k \in 1 .. n
  BY <1>2 DEF Peek
<1>4. Current = 0 /\ Pending = DOMAIN worklist /\ Running
  <2>1. Current = 0
    BY <1>1 DEF Current, Busy, Deciding
  <2>. QED
    BY <1>1, <1>2, <2>1 DEF Pending, Running
<1>5. node \in DOMAIN program /\ worklist[k] \in Entry
  <2>1. worklist[k] \in Entry
    <3>. HIDE DEF k
    <3>. QED
      BY <1>1, <1>2, <1>3
  <2>. QED
    BY <2>1 DEF Entry
<1>6. Resumed(worklist[k]) = eq
  BY <1>2, <1>3, <1>4 DEF StorageInv
<1>7. worklist' = w \o saved
  BY <1>6 DEF ResumePath
<1>8. /\ Busy'
      /\ Current' = k
  <2>1. pc' \in {"convert", "continue"}
    BY DEF ResumePath
  <2>2. Busy'
    BY <2>1 DEF Busy, Deciding
  <2>3. last_peeked' = IF options.strategy = "lifo" THEN k ELSE last_peeked
    BY DEF ResumePath
  <2>. QED
    BY <1>1, <2>2, <2>3 DEF Current, Peek
<1>9. eq \in Seq(Step)
  BY <1>1, <1>5, PathEquationIs
<1>10. saved \in Seq(Entry) /\ Len(saved) = IF IsBranch(node) THEN 2 ELSE 0
  <2>1. IsBranch(node) => Path(Append(node, "next"), eq) \in Entry
                          /\ Path(Append(node, "jump"), eq) \in Entry
    BY <1>1, <1>5, <1>9, BranchIs, Zenon DEF Path, Entry, Direction
  <2>. QED
    BY <2>1 DEF SavedPaths
<1>11. /\ w \in Seq(Entry) /\ Len(w) = n /\ w[k] = Path(node, eq)
       /\ \A i \in 1 .. n : i # k => w[i] = worklist[i]
  <2>. DEFINE r == worklist[k]
  <2>1. r \in Entry /\ r.node = node
    BY <1>5
  <2>2. w = [worklist EXCEPT ![k] = [r EXCEPT !.equation = eq]]
    BY <1>2, <1>3
  <2>. HIDE DEF r, eq, w, k, node
  <2>3. [r EXCEPT !.equation = eq] = Path(node, eq) /\ Path(node, eq) \in Entry
    BY <1>9, <2>1 DEF Entry, Path
  <2>4. w = [worklist EXCEPT ![k] = Path(node, eq)]
    BY <2>2, <2>3, Zenon
  <2>. QED
    BY <1>1, <1>2, <1>3, <2>3, <2>4
<1>12. /\ worklist' \in Seq(Entry) /\ Len(worklist') = n + Len(saved)
       /\ \A i \in 1 .. n + Len(saved) :
            worklist'[i] = IF i <= n THEN w[i] ELSE saved[i - n]
  <2>. HIDE DEF w, saved, n
  <2>. QED
    BY <1>7, <1>10, <1>11, ConcatIs
<1>13. /\ worklist'[k] = Path(node, eq)
       /\ \A i \in 1 .. n : i # k => worklist'[i] = worklist[i]
  <2>. HIDE DEF w, saved, n, k, eq, node
  <2>. QED
    BY <1>2, <1>3, <1>10, <1>11, <1>12
<1>14. IsBranch(node) => /\ worklist'[n + 1] = Path(Append(node, "next"), eq)
                         /\ worklist'[n + 2] = Path(Append(node, "jump"), eq)
  <2>. HAVE IsBranch(node)
  <2>1. /\ Len(saved) = 2 /\ saved[1] = Path(Append(node, "next"), eq)
        /\ saved[2] = Path(Append(node, "jump"), eq)
    BY DEF SavedPaths
  <2>. HIDE DEF w, saved, n, k, eq, node
  <2>2. (n + 1) - n = 1 /\ (n + 2) - n = 2 /\ n + 1 \in 1 .. n + 2 /\ n + 2 \in 1 .. n + 2
        /\ ~(n + 1 <= n) /\ ~(n + 2 <= n)
    BY <1>2
  <2>. QED
    BY <1>12, <2>1, <2>2
<1>15. Len(worklist') = IF IsBranch(node) THEN n + 2 ELSE n
  BY <1>2, <1>10, <1>12
<1>. QED
  BY <1>2, <1>3, <1>4, <1>5, <1>6, <1>8, <1>12, <1>13, <1>14, <1>15

\* Steps that leave the worklist alone while a path is processed.
LEMMA StorageFrame ==
  ASSUME StorageInv, Busy, Running' => Busy',
         UNCHANGED <<program, options, storage, symex_initialized>>,
         Deciding' => /\ Deciding /\ property_decider'.node = property_decider.node
                      /\ DeciderIsRecord'
  PROVE  StorageInv'
<1>1. /\ PathEquation' = PathEquation /\ Entry' = Entry
      /\ Running /\ symex_initialized
  BY SamePaths DEF Entry, Busy, Deciding, StorageInv, Running
<1>2. Busy' => Current' = Current /\ Pending' = Pending
  BY DEF Current, Pending, storage
<1>3. \A i : Resumed(worklist[i])' = Resumed(worklist[i])
  BY DEF Resumed, storage
<1>4. Running' => \A i \in Pending' : Resumed(worklist[i])' = PathEquation'[worklist'[i].node]
  BY <1>1, <1>2, <1>3 DEF StorageInv, storage
<1>5. Busy' => /\ Current' \in DOMAIN worklist'
               /\ worklist'[Current'].equation = PathEquation'[worklist'[Current'].node]
  BY <1>1, <1>2 DEF StorageInv, storage
<1>6. Deciding' => /\ property_decider'.node = worklist'[Current'].node
                   /\ DeciderIsRecord'
  <2>1. Deciding' => Busy'
    BY DEF Busy
  <2>. QED
    BY <1>2, <2>1 DEF StorageInv, storage
<1>. QED
  BY <1>1, <1>4, <1>5, <1>6 DEF StorageInv, storage

\* The invariant of the storage is preserved.
LEMMA StorageStep == StorageInv /\ [Next]_vars => StorageInv'
<1>. SUFFICES ASSUME StorageInv, [Next]_vars PROVE StorageInv'
  OBVIOUS
<1>1. /\ program' = program /\ options' = options
      /\ PathEquation' = PathEquation /\ Entry' = Entry
  <2>1. program' = program /\ options' = options
    BY Zenon DEF Next, Verify, vars, CallAgain, CallFirst, Resolve, PopProcessed, ResumePath,
       ConvertAssertions, ConvertGoals, SolvePath, Continue, Finish, StoreTraces, StopOnFail,
       PropagateFatalAssertions, ReturnDone, RunPropertyDecider, Finished
  <2>. QED
    BY <2>1, SamePaths DEF Entry
<1>2. ASSUME ~Running', UNCHANGED <<storage, symex_initialized>> PROVE StorageInv'
  <2>1. ~Busy' /\ ~Deciding' /\ pc' # "call"
    BY <1>2 DEF Running, Busy, Deciding
  <2>. QED
    BY <1>1, <1>2, <2>1 DEF StorageInv, storage
<1>3. CASE CallAgain
  <2>1. /\ pc = "call" /\ property_decider # NoDecider /\ pc' = "resolve"
        /\ UNCHANGED <<program, options, storage, symex_initialized, property_decider>>
    BY <1>3 DEF CallAgain
  <2>2. Busy /\ Deciding /\ Busy'
    BY <2>1 DEF Busy, Deciding, StorageInv
  <2>3. DeciderIsRecord'
    BY <2>1, <2>2 DEF StorageInv, DeciderIsRecord
  <2>. QED
    BY <2>1, <2>2, <2>3, StorageFrame
<1>4. CASE CallFirst
  <2>1. /\ symex_initialized' = TRUE /\ pc' = "explore"
        /\ worklist' = <<Path(<<>>, <<>>)>>
    BY <1>4 DEF CallFirst
  <2>2. ~Busy' /\ ~Deciding' /\ Current' = 0 /\ Pending' = {1}
    <3>1. ~Busy' /\ ~Deciding' /\ Current' = 0
      BY <2>1 DEF Busy, Deciding, Current
    <3>2. DOMAIN worklist' = {1}
      BY <2>1
    <3>. QED
      BY <3>1, <3>2 DEF Pending
  <2>3. Path(<<>>, <<>>) \in Entry
    BY Tree DEF Path, Entry, StorageInv
  <2>4. worklist' \in Seq(Entry) /\ worklist'[1] = Path(<<>>, <<>>)
    BY <2>1, <2>3
  <2>5. <<>> \o program[<<>>] = PathEquation[<<>>]
    <3>1. program[<<>>] \in Seq(Step) /\ <<>> \in DOMAIN program
      BY Tree DEF StorageInv
    <3>2. <<>> \o program[<<>>] = program[<<>>]
      BY <3>1
    <3>. QED
      BY <3>1, <3>2, PathEquationIs DEF StorageInv
  <2>6. Resumed(worklist[1])' = PathEquation[worklist'[1].node]
    BY <1>1, <2>4, <2>5 DEF Resumed, Path
  <2>. QED
    BY <1>1, <2>1, <2>2, <2>4, <2>6 DEF StorageInv
<1>5. ASSUME NEW next \in {"pop", "continue"}, RunPropertyDecider(next), Deciding
      PROVE  StorageInv'
  <2>1. /\ UNCHANGED <<program, options, storage, symex_initialized, property_decider>>
        /\ pc' \in {"aborted", "found", "pop", "continue"}
    BY <1>5 DEF RunPropertyDecider
  <2>2. Busy /\ (Running' => Busy')
    BY <1>5, <2>1 DEF Running, Busy, Deciding
  <2>3. Deciding' => DeciderIsRecord'
    BY <1>5, <2>1 DEF StorageInv, DeciderIsRecord
  <2>. QED
    BY <1>5, <2>1, <2>2, <2>3, StorageFrame
<1>6. CASE Resolve
  BY <1>5, <1>6 DEF Resolve, Deciding
<1>7. CASE SolvePath
  BY <1>5, <1>7 DEF SolvePath, Deciding
<1>8. ASSUME Busy, PopDefined, Pop, pc' = "explore", symex_initialized' = symex_initialized
      PROVE  StorageInv'
  <2>1. ~Busy' /\ ~Deciding' /\ Current' = 0
    BY <1>8 DEF Busy, Deciding, Current
  <2>2. /\ worklist' \in Seq(Entry)
        /\ \A i \in DOMAIN worklist' : \E j \in Pending : worklist'[i] = worklist[j]
    BY <1>1, <1>8, PopIs
  <2>3. Running /\ symex_initialized
    BY <1>8 DEF StorageInv, Busy, Deciding, Running
  <2>4. ASSUME NEW i \in DOMAIN worklist'
        PROVE  Resumed(worklist[i])' = PathEquation[worklist'[i].node]
    <3>1. PICK j \in Pending : worklist'[i] = worklist[j]
      BY <2>2
    <3>2. Resumed(worklist[i])' = Resumed(worklist[j])
      BY <1>1, <3>1 DEF Resumed
    <3>. QED
      BY <2>3, <3>1, <3>2 DEF StorageInv
  <2>5. \A i \in Pending' : i \in DOMAIN worklist'
    BY DEF Pending
  <2>. QED
    BY <1>1, <1>8, <2>1, <2>2, <2>3, <2>4, <2>5 DEF StorageInv
<1>9. CASE PopProcessed
  <2>1. Busy /\ symex_initialized' = symex_initialized
    BY <1>9 DEF PopProcessed, Busy
  <2>2. CASE PopDefined
    BY <1>8, <1>9, <2>1, <2>2 DEF PopProcessed
  <2>3. CASE ~PopDefined
    BY <1>2, <1>9, <2>3 DEF PopProcessed, Running
  <2>. QED
    BY <2>2, <2>3
<1>10. CASE Continue
  <2>1. Busy /\ symex_initialized' = symex_initialized
    BY <1>10 DEF Continue, Busy
  <2>2. CASE PopDefined
    BY <1>8, <1>10, <2>1, <2>2 DEF Continue
  <2>3. CASE ~PopDefined
    BY <1>2, <1>10, <2>3 DEF Continue, Running
  <2>. QED
    BY <2>2, <2>3
<1>11. CASE ResumePath
  <2>. DEFINE k == Peek
              n == Len(worklist)
              node == worklist[k].node
              eq == PathEquation[node]
  <2>1. /\ n \in Nat /\ k \in 1 .. n /\ node \in DOMAIN program
        /\ worklist' \in Seq(Entry)
        /\ Len(worklist') = IF IsBranch(node) THEN n + 2 ELSE n
        /\ worklist'[k] = Path(node, eq)
        /\ \A i \in 1 .. n : i # k => worklist'[i] = worklist[i]
        /\ IsBranch(node) => /\ worklist'[n + 1] = Path(Append(node, "next"), eq)
                             /\ worklist'[n + 2] = Path(Append(node, "jump"), eq)
        /\ Current' = k /\ Busy'
        /\ Pending = DOMAIN worklist
    BY <1>11, ResumeIs
  <2>2. symex_initialized' = symex_initialized /\ symex_initialized /\ Running
    BY <1>11 DEF ResumePath, StorageInv, Running
  <2>3. \A i \in 1 .. n : Resumed(worklist[i]) = PathEquation[worklist[i].node]
    BY <2>1, <2>2 DEF StorageInv
  <2>4. Deciding' => property_decider'.node = node /\ DeciderIsRecord'
    <3>1. CASE IsReadyToDecide(Resumed(worklist[k]))
      BY <1>11, <3>1 DEF ResumePath, NewPropertyDecider, DeciderIsRecord
    <3>2. CASE ~IsReadyToDecide(Resumed(worklist[k]))
      <4>1. pc' = "continue"
        BY <1>11, <3>2 DEF ResumePath
      <4>. QED
        BY <4>1 DEF Deciding
    <3>. QED
      BY <3>1, <3>2
  <2>5. IsBranch(node) => \A d \in Direction :
          eq \o program[Append(node, d)] = PathEquation[Append(node, d)]
    BY <2>1, BranchIs, Zenon DEF StorageInv
  <2>. HIDE DEF k, n, node, eq
  <2>6. ASSUME NEW i \in DOMAIN worklist', i # k
        PROVE  Resumed(worklist[i])' = PathEquation[worklist'[i].node]
    <3>0. Resumed(worklist[i])' = worklist'[i].equation \o program[worklist'[i].node]
      BY <1>1 DEF Resumed
    <3>1. CASE i \in 1 .. n
      BY <2>1, <2>3, <2>6, <3>0, <3>1, Zenon DEF Resumed
    <3>2. CASE i \notin 1 .. n
      <4>1. IsBranch(node) /\ (i = n + 1 \/ i = n + 2)
        BY <2>1, <3>2
      <4>2. \E d \in Direction : worklist'[i] = Path(Append(node, d), eq)
        BY <2>1, <4>1 DEF Direction
      <4>. QED
        BY <2>5, <3>0, <4>1, <4>2 DEF Path
    <3>. QED
      BY <3>1, <3>2
  <2>7. \A i \in Pending' : i \in DOMAIN worklist' /\ i # k
    BY <2>1 DEF Pending
  <2>8. k \in DOMAIN worklist'
    BY <2>1
  <2>9. worklist'[k].node = node /\ worklist'[k].equation = eq /\ eq = PathEquation[node]
    BY <2>1 DEF Path, eq
  <2>10. pc' # "call"
    BY <1>11 DEF ResumePath
  <2>. QED
    BY <1>1, <2>1, <2>2, <2>4, <2>6, <2>7, <2>8, <2>9, <2>10 DEF StorageInv
<1>12. CASE ConvertAssertions
  <2>1. /\ pc = "convert" /\ pc' = "goals"
        /\ UNCHANGED <<program, options, storage, symex_initialized>>
        /\ property_decider' = [property_decider EXCEPT
                                  !.equation = convert_assertions(@, TRUE)]
    BY <1>12 DEF ConvertAssertions
  <2>2. Busy /\ Deciding /\ Busy'
    BY <2>1 DEF Busy, Deciding
  <2>3. DeciderIsRecord' /\ property_decider'.node = property_decider.node
    BY <2>1, <2>2, Zenon DEF StorageInv, DeciderIsRecord
  <2>. QED
    BY <2>1, <2>2, <2>3, StorageFrame
<1>13. CASE ConvertGoals
  <2>1. /\ pc = "goals" /\ pc' = "solve"
        /\ UNCHANGED <<program, options, storage, symex_initialized>>
        /\ property_decider' = [property_decider EXCEPT
              !.goal_map = Goals(properties, property_decider.equation)]
    BY <1>13 DEF ConvertGoals
  <2>2. Busy /\ Deciding /\ Busy'
    BY <2>1 DEF Busy, Deciding
  <2>3. DeciderIsRecord' /\ property_decider'.node = property_decider.node
    BY <2>1, <2>2 DEF StorageInv, DeciderIsRecord
  <2>. QED
    BY <2>1, <2>2, <2>3, StorageFrame
<1>14. CASE Finish \/ PropagateFatalAssertions \/ ReturnDone
  BY <1>2, <1>14 DEF Finish, PropagateFatalAssertions, ReturnDone, Running
<1>15. CASE StoreTraces
  <2>1. /\ pc = "found" /\ pc' \in {"call", "aborted"}
        /\ UNCHANGED <<program, options, storage, symex_initialized, property_decider>>
    BY <1>15 DEF StoreTraces
  <2>2. Busy /\ Deciding /\ (Running' => Busy')
    BY <2>1 DEF Busy, Deciding, StorageInv, Running
  <2>3. DeciderIsRecord'
    BY <2>1, <2>2 DEF StorageInv, DeciderIsRecord
  <2>. QED
    BY <2>1, <2>2, <2>3, StorageFrame
<1>16. CASE StopOnFail
  <2>1. ~Running' /\ UNCHANGED <<storage, symex_initialized>>
    BY <1>16 DEF StopOnFail, Running
  <2>. QED
    BY <1>2, <2>1
<1>17. CASE UNCHANGED vars
  <2>1. /\ UNCHANGED <<pc, options, symex_initialized, property_decider>>
        /\ UNCHANGED <<worklist, last_peeked>>
    BY <1>17 DEF vars, storage
  <2>2. /\ (Running' <=> Running) /\ (Busy' <=> Busy) /\ (Deciding' <=> Deciding)
        /\ Current' = Current /\ Pending' = Pending
        /\ DeciderIsRecord' <=> DeciderIsRecord
        /\ \A i : Resumed(worklist[i])' = Resumed(worklist[i])
    BY <1>1, <2>1 DEF Running, Busy, Deciding, Current, Pending, DeciderIsRecord, Resumed
  <2>. QED
    BY <1>1, <2>1, <2>2 DEF StorageInv
<1>. QED
  BY <1>3, <1>4, <1>6, <1>7, <1>9, <1>10, <1>11, <1>12, <1>13, <1>14, <1>15, <1>16, <1>17
     DEF Next, Verify, Finished

\* Initially the worklist is empty.
LEMMA InitStorage == Init => StorageInv
<1>. SUFFICES ASSUME Init PROVE StorageInv
  OBVIOUS
<1>1. ~Busy /\ ~Deciding
  BY DEF Init, Busy, Deciding
<1>2. worklist \in Seq(Entry) /\ Pending = {}
  BY DEF Init, Pending
<1>. QED
  BY <1>1, <1>2, Zenon DEF Init, StorageInv, Running, NoDecider

\* The equation of a path stays on the worklist while traces may be built from it:
\* "leave the last worklist item in place" (operator()), whatever the strategy.
THEOREM LiveEquationProved == Spec => []ReadsLiveEquation
<1>1. StorageInv => ReadsLiveEquation
  BY DEF StorageInv, ReadsLiveEquation, Busy, Deciding
<1>. QED
  BY <1>1, InitStorage, StorageStep, PTL DEF Spec

-----------------------------------------------------------------------------
(* The order of exploration *)

\* A path that is explored before another one (ExplorationOrder).
Before(m, n) ==
  IF options.strategy = "lifo"
  THEN (m # n /\ Begins(m, n)) \/ PartAt(m, n, "jump")
  ELSE Len(m) < Len(n) \/ (Len(m) = Len(n) /\ PartAt(m, n, "next"))

\* At most one level below, and then behind an earlier branch.
AtMostBelow(m, n) ==
  /\ Len(n) <= Len(m) + 1
  /\ Len(n) = Len(m) + 1 => PartAt(n, m, "next")

\* The path to node m may be in front of the path to node n on the worklist: path_lifot
\* takes the last path first, path_fifot the first one.
InOrder(m, n) ==
  IF options.strategy = "lifo" THEN PartAt(n, m, "jump")
  ELSE Before(m, n) /\ AtMostBelow(m, n) /\ AtMostBelow(n, m)

\* The paths on the worklist are in order and come after those explored before.
OrderInv ==
  /\ explored \in Seq(DOMAIN program)
  /\ ~symex_initialized => explored = <<>>
  /\ \A j \in DOMAIN explored : \A i \in 1 .. j - 1 : Before(explored[i], explored[j])
  /\ Running =>
       /\ \A j \in DOMAIN explored : \A i \in Pending :
            Before(explored[j], worklist[i].node)
       /\ \A i, k \in Pending : i < k => InOrder(worklist[i].node, worklist[k].node)

\* Nodes that part stay apart.
LEMMA PartedStayApart ==
  ASSUME NEW m \in Seq(Direction), NEW n \in Seq(Direction), NEW e,
         NEW d \in Direction, PartAt(m, n, e)
  PROVE  PartAt(Append(m, d), n, e) /\ PartAt(m, Append(n, d), e)
<1>1. PICK i \in DOMAIN m \cap DOMAIN n :
        /\ SubSeq(m, 1, i - 1) = SubSeq(n, 1, i - 1) /\ m[i] = e /\ n[i] # e
  BY DEF PartAt
<1>2. ASSUME NEW s \in Seq(Direction), i \in DOMAIN s
      PROVE  /\ i \in DOMAIN Append(s, d) /\ Append(s, d)[i] = s[i]
             /\ SubSeq(Append(s, d), 1, i - 1) = SubSeq(s, 1, i - 1)
  <2>1. i \in 1 .. Len(s) /\ Len(s) \in Nat
    BY <1>2
  <2>. DEFINE j == i - 1
  <2>2. j \in 0 .. Len(s)
    BY <2>1
  <2>. HIDE DEF j
  <2>3. SubSeq(Append(s, d), 1, j) = SubSeq(s, 1, j)
    BY <2>1, <2>2
  <2>. QED
    BY <1>2, <2>1, <2>3 DEF j
<1>. QED
  BY <1>1, <1>2, Zenon DEF PartAt

\* The two directions of a branch part there.
LEMMA BranchParts ==
  ASSUME NEW n \in Seq(Direction), NEW d \in Direction, NEW e \in Direction, d # e
  PROVE  PartAt(Append(n, d), Append(n, e), d)
<1>. DEFINE l == Len(n)
<1>1. l \in Nat
  OBVIOUS
<1>2. ASSUME NEW f \in Direction
      PROVE  /\ l + 1 \in DOMAIN Append(n, f) /\ Append(n, f)[l + 1] = f
             /\ SubSeq(Append(n, f), 1, l) = n
  BY <1>1
<1>. HIDE DEF l
<1>3. l + 1 - 1 = l
  BY <1>1
<1>. QED
  BY <1>2, <1>3 DEF PartAt

\* A path that comes before the path to a node comes before those that go on from it.
LEMMA BeforeBranch ==
  ASSUME NEW n \in Seq(Direction), NEW d \in Direction
  PROVE  /\ Before(n, Append(n, d))
         /\ \A m \in Seq(Direction) : Before(m, n) => Before(m, Append(n, d))
<1>. DEFINE c == Append(n, d)
            l == Len(n)
<1>1. /\ l \in Nat /\ c \in Seq(Direction) /\ Len(c) = l + 1 /\ n # c
      /\ \A i \in 0 .. l : SubSeq(c, 1, i) = SubSeq(n, 1, i)
      /\ SubSeq(c, 1, l) = n
  OBVIOUS
<1>. HIDE DEF c
<1>2. Before(n, c)
  <2>1. Len(n) <= Len(c) /\ Len(n) < Len(c)
    BY <1>1
  <2>. QED
    BY <1>1, <2>1, Zenon DEF Before, Begins
<1>3. ASSUME NEW m \in Seq(Direction), Before(m, n) PROVE Before(m, c)
  <2>1. Len(m) \in Nat
    OBVIOUS
  <2>2. CASE PartAt(m, n, "jump") /\ options.strategy = "lifo"
    BY <2>2, PartedStayApart DEF Before, c
  <2>3. CASE Begins(m, n) /\ options.strategy = "lifo"
    <3>1. Len(m) <= l /\ SubSeq(n, 1, Len(m)) = m
      BY <2>3 DEF Begins
    <3>2. Begins(m, c) /\ m # c
      BY <1>1, <2>1, <3>1 DEF Begins
    <3>. QED
      BY <2>3, <3>2 DEF Before
  <2>4. CASE options.strategy # "lifo"
    BY <1>1, <1>3, <2>1, <2>4 DEF Before
  <2>. QED
    BY <1>3, <2>2, <2>3, <2>4 DEF Before
<1>. QED
  BY <1>2, <1>3 DEF c

\* The path that is explored next comes before a path on the worklist, and the paths
\* that go on from it may stand behind that path.
LEMMA PeekedFirst ==
  ASSUME NEW n \in Seq(Direction), NEW m \in Seq(Direction), NEW d \in Direction,
         IF options.strategy = "lifo" THEN InOrder(m, n) ELSE InOrder(n, m)
  PROVE  Before(n, m) /\ InOrder(m, Append(n, d))
<1>. DEFINE c == Append(n, d)
<1>1. Len(n) \in Nat /\ Len(m) \in Nat /\ c \in Seq(Direction) /\ Len(c) = Len(n) + 1
  OBVIOUS
<1>2. \A e : /\ PartAt(n, m, e) => PartAt(c, m, e)
             /\ PartAt(m, n, e) => PartAt(m, c, e)
  BY PartedStayApart
<1>. HIDE DEF c
<1>3. CASE options.strategy = "lifo"
  BY <1>2, <1>3 DEF InOrder, Before, c
<1>4. CASE options.strategy # "lifo"
  <2>1. Before(n, m) /\ AtMostBelow(n, m) /\ AtMostBelow(m, n)
    BY <1>4 DEF InOrder
  <2>2. /\ Len(n) < Len(m) \/ (Len(n) = Len(m) /\ PartAt(n, m, "next"))
        /\ Len(m) <= Len(n) + 1 /\ (Len(m) = Len(n) + 1 => PartAt(m, n, "next"))
    BY <1>4, <2>1 DEF Before, AtMostBelow
  <2>3. Before(m, c)
    BY <1>1, <1>2, <1>4, <2>2 DEF Before
  <2>4. AtMostBelow(m, c)
    BY <1>1, <1>2, <2>2 DEF AtMostBelow
  <2>5. AtMostBelow(c, m)
    BY <1>1, <2>2 DEF AtMostBelow
  <2>. QED
    BY <1>4, <2>1, <2>3, <2>4, <2>5 DEF InOrder, c
<1>. QED
  BY <1>3, <1>4

\* symex_goto pushes the next instruction in front of the goto target.
LEMMA SavedInOrder ==
  ASSUME NEW n \in Seq(Direction)
  PROVE  InOrder(Append(n, "next"), Append(n, "jump"))
<1>1. "next" \in Direction /\ "jump" \in Direction
  BY DEF Direction
<1>2. /\ PartAt(Append(n, "next"), Append(n, "jump"), "next")
      /\ PartAt(Append(n, "jump"), Append(n, "next"), "jump")
  BY <1>1, BranchParts
<1>3. Len(Append(n, "next")) = Len(n) + 1 /\ Len(Append(n, "jump")) = Len(n) + 1
      /\ Len(n) \in Nat
  OBVIOUS
<1>. QED
  BY <1>2, <1>3 DEF InOrder, Before, AtMostBelow

\* Steps that execute no path and take none off the worklist.
LEMMA OrderFrame ==
  ASSUME OrderInv, UNCHANGED <<program, options, worklist, explored>>,
         symex_initialized => symex_initialized',
         Running' => Running /\ Pending' = Pending
  PROVE  OrderInv'
<1>1. \A m, n : /\ Before(m, n)' <=> Before(m, n)
                /\ InOrder(m, n)' <=> InOrder(m, n)
  BY DEF Before, InOrder
<1>. QED
  BY <1>1 DEF OrderInv

\* A path that has been processed is taken off the worklist.
LEMMA PopOrder ==
  ASSUME StorageInv, OrderInv, Busy, Running, PopDefined, Pop, pc' = "explore",
         UNCHANGED <<program, options, explored, symex_initialized>>
  PROVE  OrderInv'
<1>1. \A m, n : /\ Before(m, n)' <=> Before(m, n)
                /\ InOrder(m, n)' <=> InOrder(m, n)
  BY DEF Before, InOrder
<1>2. Pending' \subseteq DOMAIN worklist' /\ Running'
  BY DEF Pending, Running
<1>. DEFINE at(i) == IF i < Current THEN i ELSE i + 1
<1>3. /\ worklist' \in Seq(Entry) /\ Len(worklist') = Len(worklist) - 1
      /\ \A i \in DOMAIN worklist' : worklist'[i] = worklist[at(i)]
  BY PopIs
<1>4. worklist \in Seq(Entry) /\ Current \in DOMAIN worklist
  BY DEF StorageInv
<1>5. /\ \A i \in DOMAIN worklist' : at(i) \in Pending
      /\ \A i, k \in DOMAIN worklist' : i < k => at(i) < at(k)
  <2>. DEFINE l == Len(worklist)
              c == Current
  <2>1. l \in Nat /\ DOMAIN worklist = 1 .. l /\ DOMAIN worklist' = 1 .. l - 1 /\ c \in 1 .. l
    BY <1>3, <1>4
  <2>. HIDE DEF l, c
  <2>2. \A i \in 1 .. l - 1 : LET a == IF i < c THEN i ELSE i + 1
                              IN  a \in 1 .. l /\ a # c
    BY <2>1
  <2>3. \A i, k \in 1 .. l - 1 : i < k =>
          (IF i < c THEN i ELSE i + 1) < (IF k < c THEN k ELSE k + 1)
    BY <2>1
  <2>. QED
    BY <2>1, <2>2, <2>3 DEF c, Pending
<1>. HIDE DEF at
<1>6. \A j \in DOMAIN explored : \A i \in Pending' : Before(explored[j], worklist'[i].node)
  BY <1>2, <1>3, <1>5 DEF OrderInv
<1>7. \A i, k \in Pending' : i < k => InOrder(worklist'[i].node, worklist'[k].node)
  <2>. SUFFICES ASSUME NEW i \in Pending', NEW k \in Pending', i < k
                PROVE  InOrder(worklist'[i].node, worklist'[k].node)
    OBVIOUS
  <2>1. at(i) \in Pending /\ at(k) \in Pending /\ at(i) < at(k)
    BY <1>2, <1>5
  <2>2. worklist'[i] = worklist[at(i)] /\ worklist'[k] = worklist[at(k)]
    BY <1>2, <1>3
  <2>. QED
    BY <2>1, <2>2 DEF OrderInv
<1>. QED
  BY <1>1, <1>6, <1>7 DEF OrderInv

\* The path that is executed was the first one in the order.
LEMMA ResumeOrder == ASSUME StorageInv, OrderInv, ResumePath PROVE OrderInv'
<1>. DEFINE k == Peek
            l == Len(worklist)
            node == worklist[k].node
            eq == PathEquation[node]
            N(i) == worklist[i].node
            lifo == options.strategy = "lifo"
<1>1. /\ l \in Nat /\ k \in 1 .. l /\ node \in DOMAIN program
      /\ worklist' \in Seq(Entry)
      /\ Len(worklist') = IF IsBranch(node) THEN l + 2 ELSE l
      /\ \A i \in 1 .. l : i # k => worklist'[i] = worklist[i]
      /\ IsBranch(node) => /\ worklist'[l + 1] = Path(Append(node, "next"), eq)
                           /\ worklist'[l + 2] = Path(Append(node, "jump"), eq)
      /\ Current' = k /\ Pending = DOMAIN worklist
  BY ResumeIs
<1>2. /\ UNCHANGED <<program, options, symex_initialized>> /\ Running /\ symex_initialized
      /\ explored' = Append(explored, node) /\ worklist \in Seq(Entry)
  BY DEF ResumePath, StorageInv, Running
<1>3. \A m, n : /\ Before(m, n)' <=> Before(m, n)
                /\ InOrder(m, n)' <=> InOrder(m, n)
  BY <1>2 DEF Before, InOrder
<1>4. k = IF lifo THEN l ELSE 1
  BY DEF Peek
<1>. HIDE DEF k
<1>5. DOMAIN worklist = 1 .. l /\ \A i \in 1 .. l : worklist[i] \in Entry
  BY <1>1, <1>2
<1>6. \A i \in 1 .. l : N(i) \in DOMAIN program /\ N(i) \in Seq(Direction)
  <2>1. program \in Programs
    BY DEF StorageInv
  <2>2. \A i \in 1 .. l : N(i) \in DOMAIN program
    BY <1>5 DEF Entry
  <2>. QED
    BY <2>1, <2>2, Tree
<1>7. /\ \A i \in 1 .. l : \A j \in DOMAIN explored : Before(explored[j], N(i))
      /\ \A i, j \in 1 .. l : i < j => InOrder(N(i), N(j))
  BY <1>1, <1>2, <1>5, Zenon DEF OrderInv
<1>8. /\ explored \in Seq(DOMAIN program)
      /\ \A j \in DOMAIN explored : explored[j] \in Seq(Direction)
      /\ \A j \in DOMAIN explored : \A i \in 1 .. j - 1 : Before(explored[i], explored[j])
  <2>1. program \in Programs /\ explored \in Seq(DOMAIN program)
    BY DEF OrderInv, StorageInv
  <2>2. \A j \in DOMAIN explored : explored[j] \in DOMAIN program
    BY <2>1
  <2>. QED
    BY <2>1, <2>2, Tree DEF OrderInv
<1>. DEFINE x == Len(explored)
<1>9. /\ x \in Nat /\ DOMAIN explored = 1 .. x /\ DOMAIN explored' = 1 .. x + 1
      /\ explored'[x + 1] = node /\ \A j \in 1 .. x : explored'[j] = explored[j]
      /\ explored' \in Seq(DOMAIN program)
  <2>. HIDE DEF node
  <2>. QED
    BY <1>1, <1>2, <1>8
<1>. HIDE DEF x, l
<1>10. node = N(k) /\ node \in Seq(Direction)
  BY <1>1, <1>6
<1>11. ASSUME NEW i \in 1 .. l, i # k, NEW d \in Direction
       PROVE  Before(node, N(i)) /\ InOrder(N(i), Append(node, d))
  <2>1. IF lifo THEN InOrder(N(i), node) ELSE InOrder(node, N(i))
    BY <1>1, <1>4, <1>7, <1>11
  <2>2. N(i) \in Seq(Direction)
    BY <1>6
  <2>. HIDE DEF node, N
  <2>. QED
    BY <1>10, <2>1, <2>2, PeekedFirst
<1>12. "next" \in Direction /\ "jump" \in Direction
  BY DEF Direction
\* The paths that are pending now.
<1>. DEFINE n1 == Append(node, "next")
            n2 == Append(node, "jump")
            M(i) == worklist'[i].node
<1>13. ASSUME NEW i \in Pending'
       PROVE  \/ i \in 1 .. l /\ i # k /\ M(i) = N(i)
              \/ i = l + 1 /\ M(i) = n1
              \/ i = l + 2 /\ M(i) = n2
  <2>1. i \in 1 .. Len(worklist') /\ i # k
    BY <1>1 DEF Pending
  <2>2. CASE i \in 1 .. l
    BY <1>1, <2>1, <2>2
  <2>3. CASE i \notin 1 .. l
    <3>1. IsBranch(node) /\ (i = l + 1 \/ i = l + 2)
      BY <1>1, <2>1, <2>3
    <3>. QED
      BY <1>1, <3>1 DEF Path
  <2>. QED
    BY <2>2, <2>3
<1>. HIDE DEF M
<1>14. ASSUME NEW j \in 1 .. x + 1, NEW i \in 1 .. j - 1
       PROVE  Before(explored'[i], explored'[j])
  <2>1. CASE j \in 1 .. x
    <3>1. i \in 1 .. x
      BY <1>9, <2>1
    <3>. QED
      BY <1>8, <1>9, <2>1, <3>1, Zenon
  <2>2. CASE j = x + 1
    <3>1. i \in 1 .. x
      BY <1>9, <2>2
    <3>. QED
      BY <1>1, <1>7, <1>9, <1>10, <2>2, <3>1, Zenon
  <2>. QED
    BY <1>9, <2>1, <2>2
<1>15. ASSUME NEW j \in 1 .. x + 1, NEW i \in Pending'
       PROVE  Before(explored'[j], M(i))
  <2>1. \A d \in Direction : Before(node, Append(node, d))
    BY <1>10, BeforeBranch
  <2>2. \A d \in Direction : \A y \in 1 .. x : Before(explored[y], Append(node, d))
    <3>1. \A y \in 1 .. x : explored[y] \in Seq(Direction) /\ Before(explored[y], node)
      BY <1>1, <1>7, <1>8, <1>9, <1>10, Zenon
    <3>. HIDE DEF node
    <3>. QED
      BY <1>10, <3>1, BeforeBranch
  <2>3. CASE j \in 1 .. x
    BY <1>7, <1>9, <1>12, <1>13, <2>2, <2>3, Zenon
  <2>4. CASE j = x + 1
    BY <1>9, <1>11, <1>12, <1>13, <2>1, <2>4, Zenon
  <2>. QED
    BY <1>9, <2>3, <2>4
<1>16. ASSUME NEW i \in Pending', NEW j \in Pending', i < j
       PROVE  InOrder(M(i), M(j))
  <2>1. InOrder(n1, n2)
    BY <1>10, SavedInOrder
  <2>2. i \in 1 .. l \/ (i = l + 1 /\ j = l + 2)
    BY <1>1, <1>13, <1>16
  <2>3. CASE i \in 1 .. l /\ j \in 1 .. l
    <3>1. M(i) = N(i) /\ M(j) = N(j)
      BY <1>1, <1>13, <1>16, <2>3
    <3>. QED
      BY <1>7, <1>16, <2>3, <3>1
  <2>4. CASE i \in 1 .. l /\ j \notin 1 .. l
    <3>1. i # k /\ M(i) = N(i)
      BY <1>1, <1>13, <2>4
    <3>2. PICK d \in Direction : M(j) = Append(node, d)
      BY <1>12, <1>13, <2>4
    <3>. QED
      BY <1>11, <2>4, <3>1, <3>2
  <2>5. CASE i = l + 1 /\ j = l + 2
    <3>1. i \notin 1 .. l /\ j \notin 1 .. l /\ i # l + 2 /\ j # l + 1
      BY <1>1, <2>5
    <3>2. M(i) = n1 /\ M(j) = n2
      BY <1>13, <3>1
    <3>. QED
      BY <2>1, <3>2
  <2>. QED
    BY <2>2, <2>3, <2>4, <2>5
<1>. QED
  BY <1>2, <1>3, <1>9, <1>14, <1>15, <1>16 DEF OrderInv, M

\* Every step preserves the order of the explored and of the pending paths.
LEMMA OrderStep == StorageInv /\ StorageInv' /\ OrderInv /\ [Next]_vars => OrderInv'
<1>. SUFFICES ASSUME StorageInv, StorageInv', OrderInv, [Next]_vars PROVE OrderInv'
  OBVIOUS
<1>1. ASSUME Busy, Running' => Busy', UNCHANGED <<program, options, storage, explored,
                                                   symex_initialized>>
      PROVE  OrderInv'
  <2>1. Running /\ worklist' = worklist
    BY <1>1 DEF Busy, Deciding, Running, storage
  <2>2. Running' => Pending' = Pending
    BY <1>1 DEF Pending, Current, storage
  <2>. QED
    BY <1>1, <2>1, <2>2, OrderFrame
<1>2. CASE CallFirst
  <2>1. /\ UNCHANGED <<program, options, explored>> /\ explored = <<>>
        /\ Pending' \subseteq {1}
    BY <1>2 DEF CallFirst, OrderInv, Pending
  <2>2. DOMAIN explored = {} /\ explored' \in Seq(DOMAIN program')
    BY <2>1
  <2>3. \A i, k \in Pending' : ~(i < k)
    BY <2>1
  <2>. QED
    BY <2>1, <2>2, <2>3 DEF OrderInv
<1>3. CASE PopProcessed \/ Continue
  <2>1. /\ Busy /\ Running /\ UNCHANGED <<program, options, explored, symex_initialized>>
        /\ IF PopDefined THEN Pop /\ pc' = "explore"
           ELSE pc' = "aborted" /\ UNCHANGED storage
    BY <1>3 DEF PopProcessed, Continue, Busy, Running
  <2>2. CASE PopDefined
    BY <2>1, <2>2, PopOrder
  <2>3. CASE ~PopDefined
    BY <1>1, <2>1, <2>3 DEF Running
  <2>. QED
    BY <2>2, <2>3
<1>4. CASE ResumePath
  BY <1>4, ResumeOrder
<1>5. CASE CallAgain \/ Resolve \/ SolvePath \/ ConvertAssertions \/ ConvertGoals
           \/ StoreTraces \/ StopOnFail
  <2>1. UNCHANGED <<program, options, storage, explored, symex_initialized>>
    BY <1>5, Zenon DEF CallAgain, Resolve, SolvePath, ConvertAssertions, ConvertGoals,
       StoreTraces, StopOnFail, RunPropertyDecider
  <2>2. /\ \/ pc \in {"convert", "goals", "solve", "found", "resolve"}
           \/ pc = "call" /\ symex_initialized
        /\ pc' \in {"done", "aborted", "resolve", "found", "pop", "continue", "goals",
                    "solve", "call"}
    BY <1>5, Zenon DEF CallAgain, Resolve, SolvePath, ConvertAssertions, ConvertGoals,
       StoreTraces, StopOnFail, RunPropertyDecider, StorageInv
  <2>3. Busy /\ (Running' => Busy')
    <3>1. Busy /\ symex_initialized
      BY <2>2 DEF Busy, Deciding, StorageInv, Running
    <3>. QED
      BY <2>1, <2>2, <3>1 DEF Busy, Deciding, Running
  <2>. QED
    BY <1>1, <2>1, <2>3
<1>6. CASE Finish \/ PropagateFatalAssertions \/ ReturnDone
  <2>1. /\ UNCHANGED <<program, options, worklist, explored, symex_initialized>>
        /\ ~Running'
    BY <1>6 DEF Finish, PropagateFatalAssertions, ReturnDone, Running, storage
  <2>. QED
    BY <2>1, OrderFrame
<1>7. CASE UNCHANGED vars
  <2>1. UNCHANGED <<program, options, pc, worklist, last_peeked, explored,
                    symex_initialized>>
    BY <1>7 DEF vars, storage
  <2>2. (Running' <=> Running) /\ Pending' = Pending
    BY <2>1 DEF Running, Pending, Current, Busy, Deciding
  <2>. QED
    BY <2>1, <2>2, OrderFrame
<1>. QED
  BY <1>2, <1>3, <1>4, <1>5, <1>6, <1>7 DEF Next, Verify, Finished

\* path_lifot "explores the program tree depth-first", jump first, and path_fifot
\* "breadth-first" (the help text in path_storage.cpp), for trees of any depth; no path
\* is executed twice.
THEOREM ExplorationOrderProved == Spec => []ExplorationOrder
<1>1. Init => OrderInv
  <2>. SUFFICES ASSUME Init PROVE OrderInv
    OBVIOUS
  <2>1. DOMAIN explored = {} /\ explored \in Seq(DOMAIN program) /\ Pending = {}
    BY DEF Init, Pending
  <2>. QED
    BY <2>1 DEF OrderInv, Init
<1>2. OrderInv => ExplorationOrder
  BY DEF OrderInv, ExplorationOrder, Before
<1>. QED
  BY <1>1, <1>2, InitStorage, StorageStep, OrderStep, PTL DEF Spec
=============================================================================
