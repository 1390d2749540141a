--------------------------- MODULE MCClinitWrapper --------------------------
(***************************************************************************)
(* Small instances of ClinitWrapper: three classes, two threads.           *)
(***************************************************************************)
EXTENDS ClinitWrapper, SequencesExt

CONSTANTS A, B, C, t1, t2

\* B may extend A, and C extends B and maybe A (one of them an interface).
MCHierarchies ==
  {[c \in Class |-> IF c = A THEN <<>> ELSE IF c = B THEN b ELSE d] :
     b \in {<<>>, <<A>>}, d \in {<<B>>, <<A, B>>}}

\* An initialiser uses at most one class, A possibly its own, and there are cycles
\* through bases and through initialisers.
MCInitialisers ==
  {[c \in Class |-> IF c = A THEN a ELSE IF c = B THEN b ELSE d] :
     a \in BoundedSeq(Class, 1), b \in {<<>>, <<A>>, <<C>>}, d \in {<<>>, <<A>>}}

MCThreadPrograms ==
  {[t \in Thread |-> IF t = t1 THEN p ELSE q] :
     p \in BoundedSeq(Class, 2), q \in BoundedSeq(Class, 1)}
=============================================================================
