---------------------------- MODULE ClinitWrapper ---------------------------
(***************************************************************************)
(* The functions that initialise Java classes on first use, as             *)
(* jbmc/src/java_bytecode/java_static_initializers.cpp generates them, and *)
(* the threads that call them.  Before code uses a class it calls the      *)
(* clinit_wrapper of the class, which calls the wrappers of the base       *)
(* classes and then the static initialiser <clinit>.  <clinit> is code     *)
(* like any other and uses classes itself, possibly in a cycle.            *)
(*                                                                         *)
(* assume(e) discards the executions in which e is false; here the thread  *)
(* waits until e holds, which leaves the same complete executions.  The    *)
(* code between ATOMIC_BEGIN and ATOMIC_END is one step.                   *)
(***************************************************************************)
EXTENDS Naturals, Sequences

CONSTANTS Thread, Class, NotInitialised, Initialised,
          Hierarchies,     \* the functions from a class to its bases()
          Initialisers,    \* the functions from a class to the classes that
                           \* its <clinit> uses
          ThreadPrograms   \* the functions from a thread to the classes it uses

ASSUME ClinitAssumption ==
  /\ {NotInitialised, Initialised} \cap Thread = {}
  /\ NotInitialised # Initialised
  /\ NotInitialised \notin Class
  /\ Hierarchies \subseteq [Class -> Seq(Class)]
  /\ Initialisers \subseteq [Class -> Seq(Class)]
  /\ ThreadPrograms \subseteq [Thread -> Seq(Class)]

VARIABLES
  thread_safe,          \* the option java-threading
  bases, uses,          \* the program
  clinit_state,         \* of a class
  clinit_thread_local_state,   \* of a thread and a class
  clinit_already_run,   \* of a class; the wrapper that is not thread safe
  stack,                \* of a thread
  accessed              \* the accesses of threads to classes so far

globals == <<clinit_state, clinit_thread_local_state, clinit_already_run>>
vars == <<thread_safe, bases, uses, globals, stack, accessed>>

clinit_statest == {"NOT_INIT", "IN_PROGRESS", "INIT_COMPLETE"}

\* A frame is an activation of the wrapper of a class or, at "user", of code that
\* uses classes; todo is the rest of the calls it makes.
Frame(class, at, todo) == [class |-> class, at |-> at, todo |-> todo]

Top(t) == stack[t][Len(stack[t])]
Below(t) == SubSeq(stack[t], 1, Len(stack[t]) - 1)

\* Types; a frame that has made a call still has the class to go on with (the body
\* of the wrapper).
TypeOK ==
  /\ clinit_state \in [Class -> clinit_statest]
  /\ clinit_thread_local_state \in [Thread -> [Class -> clinit_statest]]
  /\ clinit_already_run \in [Class -> BOOLEAN]
  /\ \A t \in Thread : \A i \in DOMAIN stack[t] :
       /\ stack[t][i].at \in {"user", "entry", "atomic", "bases", "clinit"}
       /\ stack[t][i].todo \in Seq(Class)
       /\ stack[t][i].class \in Class \/ i = 1
       /\ i < Len(stack[t]) => stack[t][i].todo # <<>>
  /\ accessed \subseteq Thread \X Class

\* Without java-threading there is one thread.
Init ==
  /\ bases \in Hierarchies
  /\ uses \in Initialisers
  /\ thread_safe \in BOOLEAN
  /\ clinit_state = [c \in Class |-> "NOT_INIT"]
  /\ clinit_thread_local_state = [t \in Thread |-> [c \in Class |-> "NOT_INIT"]]
  /\ clinit_already_run = [c \in Class |-> FALSE]
  /\ \E program \in ThreadPrograms :
       /\ stack = [t \in Thread |-> <<Frame(NotInitialised, "user", program[t])>>]
       /\ ~thread_safe => \E t \in Thread : {u \in Thread : program[u] # <<>>} = {t}
  /\ accessed = {}

-----------------------------------------------------------------------------
(* Calls and returns *)

\* The next call of the top frame: the wrapper of a class.
CallWrapper(t) ==
  /\ Top(t).at \in {"user", "bases", "clinit"} /\ Top(t).todo # <<>>
  /\ stack' = [stack EXCEPT ![t] = Append(@, Frame(Head(Top(t).todo), "entry", <<>>))]
  /\ UNCHANGED <<thread_safe, bases, uses, globals, accessed>>

\* The wrapper returns; code that is no wrapper goes on to access the class.
Return(t) ==
  LET caller == Below(t)[Len(Below(t))]
  IN  /\ stack' = [stack EXCEPT
                     ![t] = [Below(t) EXCEPT ![Len(Below(t))].todo = Tail(@)]]
      /\ accessed' = IF caller.at = "bases" THEN accessed
                     ELSE accessed \cup {<<t, Top(t).class>>}

\* The top frame continues at `at` with the calls `todo`.
Continue(t, at, todo) ==
  stack' = [stack EXCEPT ![t] = Append(Below(t), Frame(Top(t).class, at, todo))]

-----------------------------------------------------------------------------
(* get_thread_safe_clinit_wrapper_body *)

\* Mutant: the thread-local state is set when the initialisation is complete.
EnterAndSetLater(t) ==
  LET c == Top(t).class
  IN  /\ thread_safe /\ Top(t).at = "entry"
      /\ IF clinit_thread_local_state[t][c] = "INIT_COMPLETE"
         THEN Return(t) ELSE Continue(t, "atomic", <<>>) /\ UNCHANGED accessed
      /\ UNCHANGED <<thread_safe, bases, uses, globals>>

\* A thread that has called the wrapper before returns.
Enter(t) ==
  LET c == Top(t).class
  IN  /\ thread_safe /\ Top(t).at = "entry"
      /\ IF clinit_thread_local_state[t][c] = "INIT_COMPLETE"
         THEN Return(t) /\ UNCHANGED clinit_thread_local_state
         ELSE /\ clinit_thread_local_state' =
                   [clinit_thread_local_state EXCEPT ![t][c] = "INIT_COMPLETE"]
              /\ Continue(t, "atomic", <<>>)
              /\ UNCHANGED accessed
      /\ UNCHANGED <<thread_safe, bases, uses, clinit_state, clinit_already_run>>

\* Mutant: a thread does not wait for another one to finish.
ClaimWithoutWaiting(t) ==
  LET c == Top(t).class
  IN  /\ Top(t).at = "atomic"
      /\ IF clinit_state[c] = "NOT_INIT"
         THEN /\ clinit_state' = [clinit_state EXCEPT ![c] = "IN_PROGRESS"]
              /\ Continue(t, "bases", bases[c])
              /\ UNCHANGED accessed
         ELSE Return(t) /\ UNCHANGED clinit_state
      /\ UNCHANGED <<thread_safe, bases, uses, clinit_thread_local_state,
                     clinit_already_run>>

\* The atomic section and the test of init_complete.
Claim(t) ==
  LET c == Top(t).class
  IN  /\ Top(t).at = "atomic"
      /\ clinit_state[c] # "IN_PROGRESS"
      /\ IF clinit_state[c] = "NOT_INIT"
         THEN /\ clinit_state' = [clinit_state EXCEPT ![c] = "IN_PROGRESS"]
              /\ Continue(t, "bases", bases[c])
              /\ UNCHANGED accessed
         ELSE Return(t) /\ UNCHANGED clinit_state
      /\ UNCHANGED <<thread_safe, bases, uses, clinit_thread_local_state,
                     clinit_already_run>>

\* Mutant: the initialiser is called before the bases are initialised.
InitialiseEarly(t) ==
  LET c == Top(t).class
  IN  /\ Top(t).at = "bases"
      /\ Continue(t, "clinit", uses[c])
      /\ UNCHANGED <<thread_safe, bases, uses, globals, accessed>>

\* clinit_wrapper_do_recursive_calls: when the wrappers of the bases have returned,
\* <clinit> is called.
CallClinit(t) ==
  LET c == Top(t).class
  IN  /\ Top(t).at = "bases" /\ Top(t).todo = <<>>
      /\ Continue(t, "clinit", uses[c])
      /\ UNCHANGED <<thread_safe, bases, uses, globals, accessed>>

\* Mutant: the state is not set to INIT_COMPLETE.
FinishSilently(t) ==
  /\ Top(t).at = "clinit" /\ Top(t).todo = <<>>
  /\ Return(t)
  /\ UNCHANGED <<thread_safe, bases, uses, globals>>

\* The end of the wrapper.
Finish(t) ==
  LET c == Top(t).class
  IN  /\ Top(t).at = "clinit" /\ Top(t).todo = <<>>
      /\ clinit_state' = IF thread_safe
                         THEN [clinit_state EXCEPT ![c] = "INIT_COMPLETE"]
                         ELSE clinit_state
      /\ Return(t)
      /\ UNCHANGED <<thread_safe, bases, uses, clinit_thread_local_state,
                     clinit_already_run>>

-----------------------------------------------------------------------------
(* get_clinit_wrapper_body *)

EnterNotThreadSafe(t) ==
  LET c == Top(t).class
  IN  /\ ~thread_safe /\ Top(t).at = "entry"
      /\ IF clinit_already_run[c]
         THEN Return(t) /\ UNCHANGED clinit_already_run
         ELSE /\ clinit_already_run' = [clinit_already_run EXCEPT ![c] = TRUE]
              /\ Continue(t, "bases", bases[c])
              /\ UNCHANGED accessed
      /\ UNCHANGED <<thread_safe, bases, uses, clinit_state,
                     clinit_thread_local_state>>

-----------------------------------------------------------------------------

Step(t) ==
  \/ CallWrapper(t)
  \/ Enter(t)
  \/ Claim(t)
  \/ CallClinit(t)
  \/ Finish(t)
  \/ EnterNotThreadSafe(t)

Next == \E t \in Thread : Step(t)

Spec == Init /\ [][Next]_vars /\ \A t \in Thread : WF_vars(Step(t))

-----------------------------------------------------------------------------
(* Properties *)

\* Thread t is initialising class c.
Initialising(t, c) ==
  \E i \in DOMAIN stack[t] :
    stack[t][i].class = c /\ stack[t][i].at \in {"bases", "clinit"}

\* What the state means: a class is initialised when a thread has claimed it and
\* none is initialising it any more.
initialisation ==
  [c \in Class |->
     IF \E t \in Thread : Initialising(t, c)
     THEN CHOOSE t \in Thread : Initialising(t, c)
     ELSE IF clinit_already_run[c] \/ clinit_state[c] # "NOT_INIT" THEN Initialised
     ELSE NotInitialised]

CI == INSTANCE ClassInitialization

\* The wrappers implement the initialisation of classes: one thread initialises a
\* class, and no other thread gets past its own call of the wrapper and accesses
\* the class before that is complete (get_thread_safe_clinit_wrapper_body,
\* get_clinit_wrapper_body).
ImplementsClassInitialization == CI!CISpec

\* When the <clinit> of a class is called, each of its bases has been initialised
\* or this thread is doing it (clinit_wrapper_do_recursive_calls).
BasesFirst ==
  \A t \in Thread, c \in Class :
    (\E i \in DOMAIN stack[t] : stack[t][i].class = c /\ stack[t][i].at = "clinit")
      => \A i \in DOMAIN bases[c] : initialisation[bases[c][i]] \in {t, Initialised}

\* A thread never waits for itself, also when the initialisers of two classes use
\* each other: its thread-local state was set before (get_thread_safe_clinit_
\* wrapper_body).
NoSelfDeadlock ==
  \A t \in Thread :
    Top(t).at = "atomic" => ~Initialising(t, Top(t).class)

\* The classes that class c needs in order to be initialised.
Needs(c) == {bases[c][i] : i \in DOMAIN bases[c]} \cup {uses[c][i] : i \in DOMAIN uses[c]}

AcyclicNeeds ==
  \A cs \in SUBSET Class : cs # {} => \E c \in cs : Needs(c) \cap cs = {}

\* If no classes need each other in a cycle, every thread gets through all its
\* calls: no thread waits for ever at the assumption.  (Java threads may deadlock
\* if there is a cycle; here these executions are discarded.)
ThreadsFinish ==
  AcyclicNeeds => <>(\A t \in Thread : Len(stack[t]) = 1 /\ Top(t).todo = <<>>)
=============================================================================
