------------------------ MODULE ClassInitialization -------------------------
(***************************************************************************)
(* What the static initialisation of Java classes promises (JVM            *)
(* specification, section 5.5, which java_static_initializers.cpp cites):  *)
(* one thread initialises a class, once, and only that thread may access   *)
(* the class before it is initialised.                                     *)
(***************************************************************************)
CONSTANTS Thread, Class, NotInitialised, Initialised

VARIABLES initialisation,   \* of a class: one of the two, or the thread that runs it
          accessed          \* the accesses of threads to classes so far

civars == <<initialisation, accessed>>

CIInit ==
  /\ initialisation = [c \in Class |-> NotInitialised]
  /\ accessed = {}

Begin(t, c) ==
  /\ initialisation[c] = NotInitialised
  /\ initialisation' = [initialisation EXCEPT ![c] = t]

Complete(t, c) ==
  /\ initialisation[c] = t
  /\ initialisation' = [initialisation EXCEPT ![c] = Initialised]

\* Completing an initialisation may return to code that accesses the class.
Access(t, c) ==
  /\ initialisation'[c] \in {t, Initialised}
  /\ accessed' = accessed \cup {<<t, c>>}

CINext ==
  \E t \in Thread, c \in Class :
    \/ Begin(t, c) /\ UNCHANGED accessed
    \/ Complete(t, c) /\ (Access(t, c) \/ UNCHANGED accessed)
    \/ Access(t, c) /\ UNCHANGED initialisation

CISpec == CIInit /\ [][CINext]_civars
=============================================================================
