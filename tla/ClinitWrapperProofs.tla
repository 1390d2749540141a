------------------------- MODULE ClinitWrapperProofs ------------------------
(***************************************************************************)
(* Proofs about ClinitWrapper, for any number of threads and classes, and   *)
(* every hierarchy and program.                                            *)
(***************************************************************************)
EXTENDS ClinitWrapper, TLAPS

USE SMT, ZenonT(20), SMTT(60), ZenonT(60)

Frames == [class : Class \cup {NotInitialised},
           at : {"user", "entry", "atomic", "bases", "clinit"},
           todo : Seq(Class)]

\* The types that the proofs use.
TypeInv ==
  /\ thread_safe \in BOOLEAN
  /\ bases \in [Class -> Seq(Class)]
  /\ uses \in [Class -> Seq(Class)]
  /\ clinit_state \in [Class -> clinit_statest]
  /\ clinit_thread_local_state \in [Thread -> [Class -> clinit_statest]]
  /\ clinit_already_run \in [Class -> BOOLEAN]
  /\ stack \in [Thread -> Seq(Frames)]

\* The outermost frame is user code, the others are wrappers, and each of them was
\* called for the next class that its caller has to do.
CallInv ==
  \A t \in Thread :
    /\ Len(stack[t]) >= 1
    /\ stack[t][1].at = "user"
    /\ \A i \in 2 .. Len(stack[t]) :
         stack[t][i].at # "user" /\ stack[t][i].class \in Class
    /\ \A i \in 1 .. Len(stack[t]) - 1 :
         /\ stack[t][i].at \in {"user", "bases", "clinit"}
         /\ stack[t][i].todo # <<>>
         /\ Head(stack[t][i].todo) = stack[t][i + 1].class

\* Without java-threading one thread at most does anything.
OneThreadInv ==
  ~thread_safe =>
    /\ \A t, u \in Thread :
         (\E i \in 1 .. Len(stack[t]) : i > 1 \/ stack[t][i].todo # <<>>)
         /\ (\E i \in 1 .. Len(stack[u]) : i > 1 \/ stack[u][i].todo # <<>>)
         => t = u
    /\ \A t \in Thread : \A i \in 1 .. Len(stack[t]) : stack[t][i].at # "atomic"

\* Frame i of thread t initialises class c.
Working(t, i, c) ==
  /\ i \in 1 .. Len(stack[t])
  /\ stack[t][i].class = c
  /\ stack[t][i].at \in {"bases", "clinit"}

\* At most one frame of all threads initialises a class.
OneFrameInv ==
  \A t, u \in Thread, c \in Class, i, j \in Nat :
    Working(t, i, c) /\ Working(u, j, c) => t = u /\ i = j

Busy(c) == \E t \in Thread : Initialising(t, c)
Claimed(c) == clinit_already_run[c] \/ clinit_state[c] # "NOT_INIT"

\* What the global variables say of the frames.
GlobalsInv ==
  /\ \A c \in Class, t \in Thread :
       Initialising(t, c) =>
         IF thread_safe
         THEN /\ clinit_state[c] = "IN_PROGRESS"
              /\ clinit_thread_local_state[t][c] = "INIT_COMPLETE"
         ELSE clinit_already_run[c]
  /\ \A c \in Class : IF thread_safe THEN ~clinit_already_run[c]
                                     ELSE clinit_state[c] = "NOT_INIT"
  /\ \A c \in Class, t \in Thread :
       thread_safe /\ clinit_thread_local_state[t][c] = "INIT_COMPLETE" =>
         \/ clinit_state[c] = "INIT_COMPLETE"
         \/ Initialising(t, c)
         \/ Top(t).at = "atomic" /\ Top(t).class = c
  /\ \A t \in Thread :
       Top(t).at = "atomic" =>
         clinit_thread_local_state[t][Top(t).class] = "INIT_COMPLETE"

\* Thread t may access class c.
Ready(t, c) == Initialising(t, c) \/ (Claimed(c) /\ ~Busy(c))

BaseOf(c, b) == \E j \in DOMAIN bases[c] : bases[c][j] = b

\* Frame f is of a wrapper that still has to call the one of class b.
Pending(f, b) == f.at = "bases" /\ \E k \in DOMAIN f.todo : f.todo[k] = b

\* The bases that a wrapper has called are ready.
BasesInv ==
  \A t \in Thread, b \in Class : \A i \in 1 .. Len(stack[t]) :
    stack[t][i].at \in {"bases", "clinit"} /\ BaseOf(stack[t][i].class, b)
      => Ready(t, b) \/ Pending(stack[t][i], b)

WrapperInv ==
  /\ TypeInv /\ CallInv /\ OneThreadInv
  /\ OneFrameInv /\ GlobalsInv
  /\ NoSelfDeadlock
  /\ BasesInv

-----------------------------------------------------------------------------
(* What the steps do to the stack of a thread *)

Others(t) == \A u \in Thread : u # t => stack'[u] = stack[u]

Pushes(t, f) ==
  /\ stack' \in [Thread -> Seq(Frames)] /\ Others(t)
  /\ Len(stack'[t]) = Len(stack[t]) + 1
  /\ \A i \in 1 .. Len(stack[t]) : stack'[t][i] = stack[t][i]
  /\ stack'[t][Len(stack[t]) + 1] = f

Replaces(t, f) ==
  /\ stack' \in [Thread -> Seq(Frames)] /\ Others(t)
  /\ Len(stack'[t]) = Len(stack[t])
  /\ \A i \in 1 .. Len(stack[t]) - 1 : stack'[t][i] = stack[t][i]
  /\ stack'[t][Len(stack[t])] = f

Pops(t) ==
  LET n == Len(stack[t]) - 1
  IN  /\ stack' \in [Thread -> Seq(Frames)] /\ Others(t)
      /\ Len(stack'[t]) = n
      /\ \A i \in 1 .. n - 1 : stack'[t][i] = stack[t][i]
      /\ stack'[t][n] = [stack[t][n] EXCEPT !.todo = Tail(@)]

\* CallWrapper pushes a frame.
LEMMA CallPushes ==
  ASSUME TypeInv, NEW t \in Thread, NEW f \in Frames,
         stack' = [stack EXCEPT ![t] = Append(@, f)]
  PROVE  Pushes(t, f)
<1>1. stack[t] \in Seq(Frames)
  BY DEF TypeInv
<1>2. /\ Append(stack[t], f) \in Seq(Frames)
      /\ Len(Append(stack[t], f)) = Len(stack[t]) + 1
      /\ \A i \in 1 .. Len(stack[t]) : Append(stack[t], f)[i] = stack[t][i]
      /\ Append(stack[t], f)[Len(stack[t]) + 1] = f
  BY <1>1
<1>3. stack'[t] = Append(stack[t], f) /\ Others(t) /\ stack' \in [Thread -> Seq(Frames)]
  BY <1>2 DEF TypeInv, Others
<1>. QED
  BY <1>2, <1>3 DEF Pushes

\* The frames below the top.
LEMMA BelowTop ==
  ASSUME TypeInv, NEW t \in Thread, Len(stack[t]) >= 1
  PROVE  /\ Below(t) \in Seq(Frames)
         /\ Len(Below(t)) = Len(stack[t]) - 1
         /\ \A i \in 1 .. Len(stack[t]) - 1 : Below(t)[i] = stack[t][i]
<1>1. stack[t] \in Seq(Frames) /\ Len(stack[t]) \in Nat
  BY DEF TypeInv
<1>2. \A i \in 1 .. Len(stack[t]) - 1 : stack[t][i] \in Frames
  BY <1>1
<1>. QED
  BY <1>1, <1>2 DEF Below

\* Continue replaces the top frame.
LEMMA ContinueReplaces ==
  ASSUME TypeInv, NEW t \in Thread, Len(stack[t]) >= 1,
         NEW at, NEW todo, Continue(t, at, todo),
         Frame(Top(t).class, at, todo) \in Frames
  PROVE  Replaces(t, Frame(Top(t).class, at, todo))
<1>. DEFINE f == Frame(Top(t).class, at, todo)
            s == Append(Below(t), f)
<1>1. stack[t] \in Seq(Frames) /\ Len(stack[t]) \in Nat
  BY DEF TypeInv
<1>2. /\ s \in Seq(Frames)
      /\ Len(s) = Len(stack[t])
      /\ \A i \in 1 .. Len(stack[t]) - 1 : s[i] = stack[t][i]
      /\ s[Len(stack[t])] = f
  <2>. HIDE DEF f
  <2>1. /\ s \in Seq(Frames)
        /\ Len(s) = Len(Below(t)) + 1
        /\ \A i \in 1 .. Len(Below(t)) : s[i] = Below(t)[i]
        /\ s[Len(Below(t)) + 1] = f
    BY BelowTop DEF f
  <2>2. /\ Len(Below(t)) = Len(stack[t]) - 1
        /\ \A i \in 1 .. Len(stack[t]) - 1 : Below(t)[i] = stack[t][i]
    BY BelowTop
  <2>. HIDE DEF s
  <2>. QED
    BY <1>1, <2>1, <2>2
<1>3. stack' = [stack EXCEPT ![t] = s]
  BY DEF Continue
<1>. HIDE DEF f, s
<1>4. stack'[t] = s /\ Others(t) /\ stack' \in [Thread -> Seq(Frames)]
  BY <1>2, <1>3 DEF TypeInv, Others
<1>5. Replaces(t, f)
  BY <1>2, <1>4 DEF Replaces
<1>. QED
  BY <1>5 DEF f

\* A frame with other calls to make.
LEMMA FrameWith ==
  ASSUME NEW f \in Frames, NEW s \in Seq(Class)
  PROVE  [f EXCEPT !.todo = s] \in Frames
BY DEF Frames

\* Return pops the top frame and takes the call off what the caller has to do.
LEMMA ReturnPops ==
  ASSUME TypeInv, CallInv, NEW t \in Thread, Len(stack[t]) > 1, Return(t)
  PROVE  Pops(t)
<1>. DEFINE n == Len(stack[t]) - 1
            f == [stack[t][n] EXCEPT !.todo = Tail(@)]
            s == [Below(t) EXCEPT ![n] = f]
<1>0. stack[t] \in Seq(Frames) /\ Len(stack[t]) \in Nat
  BY DEF TypeInv
<1>1. stack[t] \in Seq(Frames) /\ n \in Nat /\ n >= 1
  BY <1>0
<1>2. stack[t][n] \in Frames /\ stack[t][n].todo # <<>>
  BY <1>1 DEF CallInv
<1>3. Tail(stack[t][n].todo) \in Seq(Class)
  BY <1>2 DEF Frames
<1>4. f \in Frames
  BY <1>2, <1>3, FrameWith, Zenon
<1>5. Below(t) \in Seq(Frames) /\ Len(Below(t)) = n
      /\ \A i \in 1 .. n : Below(t)[i] = stack[t][i]
  BY <1>1, BelowTop
<1>6. Below(t) \in [1 .. n -> Frames]
  BY <1>5
<1>7. [Below(t) EXCEPT ![Len(Below(t))].todo = Tail(@)] = s
  BY <1>1, <1>5, <1>6, Zenon
<1>8. stack' = [stack EXCEPT ![t] = s]
  BY <1>7, Zenon DEF Return
<1>9. /\ s \in Seq(Frames) /\ Len(s) = n
      /\ \A i \in 1 .. n - 1 : s[i] = stack[t][i]
      /\ s[n] = f
  <2>. HIDE DEF f
  <2>1. s \in Seq(Frames) /\ Len(s) = n
    BY <1>1, <1>4, <1>5
  <2>. QED
    BY <1>1, <1>4, <1>5, <1>6, <2>1
<1>. HIDE DEF s, f
<1>10. stack'[t] = s /\ Others(t) /\ stack' \in [Thread -> Seq(Frames)]
  BY <1>8, <1>9 DEF TypeInv, Others
<1>. QED
  BY <1>9, <1>10 DEF Pops, f

-----------------------------------------------------------------------------
(* The six kinds of steps *)

Program == <<thread_safe, bases, uses>>

Calls(t) ==
  /\ Top(t).at \in {"user", "bases", "clinit"} /\ Top(t).todo # <<>>
  /\ Pushes(t, Frame(Head(Top(t).todo), "entry", <<>>))
  /\ UNCHANGED <<Program, globals, accessed>>

Enters(t) ==
  /\ thread_safe /\ Top(t).at = "entry"
  /\ clinit_thread_local_state[t][Top(t).class] # "INIT_COMPLETE"
  /\ clinit_thread_local_state' =
       [clinit_thread_local_state EXCEPT ![t][Top(t).class] = "INIT_COMPLETE"]
  /\ Replaces(t, Frame(Top(t).class, "atomic", <<>>))
  /\ UNCHANGED <<Program, clinit_state, clinit_already_run, accessed>>

Starts(t) ==
  /\ Top(t).at = IF thread_safe THEN "atomic" ELSE "entry"
  /\ ~Claimed(Top(t).class)
  /\ clinit_state' = IF thread_safe
                     THEN [clinit_state EXCEPT ![Top(t).class] = "IN_PROGRESS"]
                     ELSE clinit_state
  /\ clinit_already_run' = IF thread_safe THEN clinit_already_run
                           ELSE [clinit_already_run EXCEPT ![Top(t).class] = TRUE]
  /\ Replaces(t, Frame(Top(t).class, "bases", bases[Top(t).class]))
  /\ UNCHANGED <<Program, clinit_thread_local_state, accessed>>

RunsClinit(t) ==
  /\ Top(t).at = "bases" /\ Top(t).todo = <<>>
  /\ Replaces(t, Frame(Top(t).class, "clinit", uses[Top(t).class]))
  /\ UNCHANGED <<Program, globals, accessed>>

MayAccess(t) ==
  accessed' \in {accessed, accessed \cup {<<t, Top(t).class>>}}

Skips(t) ==
  /\ Top(t).at \in {"entry", "atomic"}
  /\ Top(t).at = "atomic" => clinit_state[Top(t).class] = "INIT_COMPLETE"
  /\ Ready(t, Top(t).class)
  /\ Pops(t) /\ MayAccess(t)
  /\ UNCHANGED <<Program, globals>>

Finishes(t) ==
  /\ Top(t).at = "clinit"
  /\ clinit_state' = IF thread_safe
                     THEN [clinit_state EXCEPT ![Top(t).class] = "INIT_COMPLETE"]
                     ELSE clinit_state
  /\ Pops(t) /\ MayAccess(t)
  /\ UNCHANGED <<Program, clinit_thread_local_state, clinit_already_run>>

\* The top frame of a thread.
LEMMA TopFrame ==
  ASSUME TypeInv, CallInv, NEW t \in Thread
  PROVE  /\ Len(stack[t]) \in Nat /\ Len(stack[t]) >= 1
         /\ DOMAIN stack[t] = 1 .. Len(stack[t])
         /\ \A i \in 1 .. Len(stack[t]) : stack[t][i] \in Frames
         /\ Top(t) = stack[t][Len(stack[t])]
         /\ Top(t) \in Frames
         /\ Top(t).at # "user" => Len(stack[t]) > 1 /\ Top(t).class \in Class
<1>1. stack[t] \in Seq(Frames) /\ Len(stack[t]) \in Nat
      /\ DOMAIN stack[t] = 1 .. Len(stack[t])
  BY DEF TypeInv
<1>2. Len(stack[t]) >= 1 /\ Top(t) = stack[t][Len(stack[t])]
  BY DEF CallInv, Top
<1>3. \A i \in 1 .. Len(stack[t]) : stack[t][i] \in Frames
  BY <1>1
<1>4. Top(t).at # "user" => Len(stack[t]) > 1
  BY <1>1, <1>2 DEF CallInv
<1>5. Top(t).at # "user" => Top(t).class \in Class
  BY <1>1, <1>2, <1>4 DEF CallInv
<1>. QED
  BY <1>1, <1>2, <1>3, <1>4, <1>5

\* A thread is initialising a class when one of its frames is.
LEMMA InitialisingIsWorking ==
  ASSUME TypeInv, NEW t \in Thread, NEW c
  PROVE  /\ Initialising(t, c) <=> \E i \in Nat : Working(t, i, c)
         /\ \A i : Working(t, i, c) => i \in Nat
<1>1. Len(stack[t]) \in Nat /\ DOMAIN stack[t] = 1 .. Len(stack[t])
  BY DEF TypeInv
<1>. QED
  BY <1>1 DEF Initialising, Working

\* Without java-threading only the running thread initialises classes.
LEMMA OnlyRunner ==
  ASSUME WrapperInv, ~thread_safe, NEW t \in Thread, Len(stack[t]) > 1,
         NEW u \in Thread, NEW c \in Class, Initialising(u, c)
  PROVE  u = t
<1>1. PICK i \in Nat : Working(u, i, c)
  BY InitialisingIsWorking DEF WrapperInv
<1>2. Len(stack[u]) \in Nat /\ Len(stack[t]) \in Nat
  BY DEF WrapperInv, TypeInv
<1>3. i > 1
  BY <1>1, <1>2 DEF Working, WrapperInv, CallInv
<1>4. i \in 1 .. Len(stack[u]) /\ Len(stack[t]) \in 1 .. Len(stack[t])
  BY <1>1, <1>2 DEF Working
<1>. QED
  BY <1>3, <1>4 DEF WrapperInv, OneThreadInv

\* Every step of a thread is of one of the six kinds; in particular a wrapper that
\* returns without initialising its class does so when the class is ready.
LEMMA StepShapes ==
  ASSUME WrapperInv, NEW t \in Thread, Step(t)
  PROVE  Calls(t) \/ Enters(t) \/ Starts(t) \/ RunsClinit(t) \/ Skips(t) \/ Finishes(t)
<1>. USE DEF WrapperInv
<1>. DEFINE c == Top(t).class
<1>1. /\ Len(stack[t]) \in Nat /\ Len(stack[t]) >= 1
      /\ Top(t) \in Frames
      /\ Top(t).at # "user" => Len(stack[t]) > 1 /\ c \in Class
  BY TopFrame
<1>2. ASSUME Return(t) PROVE MayAccess(t)
  BY <1>2 DEF Return, MayAccess
<1>3. <<>> \in Seq(Class)
  OBVIOUS
<1>4. CASE CallWrapper(t)
  <2>1. Head(Top(t).todo) \in Class
    BY <1>1, <1>4 DEF CallWrapper, Frames
  <2>2. Frame(Head(Top(t).todo), "entry", <<>>) \in Frames
    BY <1>3, <2>1 DEF Frame, Frames
  <2>3. Pushes(t, Frame(Head(Top(t).todo), "entry", <<>>))
    BY <1>4, <2>2, CallPushes, Zenon DEF CallWrapper
  <2>. QED
    BY <1>4, <2>3 DEF CallWrapper, Calls, Program
<1>5. CASE Enter(t)
  <2>1. c \in Class /\ Len(stack[t]) > 1
    BY <1>1, <1>5 DEF Enter
  <2>2. CASE clinit_thread_local_state[t][c] = "INIT_COMPLETE"
    <3>1. Return(t) /\ UNCHANGED <<Program, globals>> /\ thread_safe /\ Top(t).at = "entry"
      BY <1>5, <2>2 DEF Enter, Program, globals
    <3>2. clinit_state[c] = "INIT_COMPLETE" \/ Initialising(t, c)
      BY <2>1, <2>2, <3>1 DEF GlobalsInv
    <3>3. Ready(t, c)
      BY <2>1, <3>1, <3>2 DEF GlobalsInv, Ready, Claimed, Busy
    <3>. QED
      BY <1>2, <2>1, <3>1, <3>3, ReturnPops DEF Skips
  <2>3. CASE clinit_thread_local_state[t][c] # "INIT_COMPLETE"
    <3>1. Frame(c, "atomic", <<>>) \in Frames
      BY <1>3, <2>1 DEF Frame, Frames
    <3>2. Continue(t, "atomic", <<>>)
      BY <1>5, <2>3 DEF Enter
    <3>3. Replaces(t, Frame(c, "atomic", <<>>))
      BY <1>1, <3>1, <3>2, ContinueReplaces
    <3>. QED
      BY <1>5, <2>3, <3>3 DEF Enter, Enters, Program
  <2>. QED
    BY <2>2, <2>3
<1>6. CASE Claim(t)
  <2>1. c \in Class /\ Len(stack[t]) > 1 /\ Top(t).at = "atomic"
    BY <1>1, <1>6 DEF Claim
  <2>2. thread_safe
    BY <1>1, <2>1, TopFrame DEF OneThreadInv
  <2>3. CASE clinit_state[c] = "NOT_INIT"
    <3>1. Frame(c, "bases", bases[c]) \in Frames
      BY <2>1 DEF Frame, Frames, TypeInv
    <3>2. Continue(t, "bases", bases[c])
      BY <1>6, <2>3 DEF Claim
    <3>3. Replaces(t, Frame(c, "bases", bases[c]))
      BY <1>1, <3>1, <3>2, ContinueReplaces
    <3>4. ~Claimed(c)
      BY <2>1, <2>2, <2>3 DEF Claimed, GlobalsInv
    <3>. QED
      BY <1>6, <2>1, <2>2, <2>3, <3>3, <3>4 DEF Claim, Starts, Program
  <2>4. CASE clinit_state[c] # "NOT_INIT"
    <3>1. Return(t) /\ UNCHANGED <<Program, globals>>
      BY <1>6, <2>4 DEF Claim, Program, globals
    <3>2. clinit_state[c] = "INIT_COMPLETE"
      BY <1>6, <2>1, <2>4 DEF Claim, TypeInv, clinit_statest
    <3>3. Ready(t, c)
      BY <2>1, <2>2, <3>2 DEF GlobalsInv, Ready, Claimed, Busy
    <3>. QED
      BY <1>2, <2>1, <3>1, <3>2, <3>3, ReturnPops DEF Skips
  <2>. QED
    BY <2>3, <2>4
<1>7. CASE CallClinit(t)
  <2>1. c \in Class /\ Continue(t, "clinit", uses[c])
    BY <1>1, <1>7 DEF CallClinit
  <2>2. Frame(c, "clinit", uses[c]) \in Frames
    BY <2>1 DEF Frame, Frames, TypeInv
  <2>3. Replaces(t, Frame(c, "clinit", uses[c]))
    BY <1>1, <2>1, <2>2, ContinueReplaces
  <2>. QED
    BY <1>7, <2>3 DEF CallClinit, RunsClinit, Program
<1>8. CASE Finish(t)
  <2>1. Len(stack[t]) > 1 /\ Return(t)
    BY <1>1, <1>8 DEF Finish
  <2>. QED
    BY <1>2, <1>8, <2>1, ReturnPops DEF Finish, Finishes, Program
<1>9. CASE EnterNotThreadSafe(t)
  <2>1. c \in Class /\ Len(stack[t]) > 1 /\ Top(t).at = "entry" /\ ~thread_safe
    BY <1>1, <1>9 DEF EnterNotThreadSafe
  <2>2. CASE clinit_already_run[c]
    <3>1. Return(t) /\ UNCHANGED <<Program, globals>>
      BY <1>9, <2>2 DEF EnterNotThreadSafe, Program, globals
    <3>2. Ready(t, c)
      BY <2>1, <2>2, OnlyRunner DEF Ready, Claimed, Busy
    <3>. QED
      BY <1>2, <2>1, <3>1, <3>2, ReturnPops DEF Skips
  <2>3. CASE ~clinit_already_run[c]
    <3>1. Frame(c, "bases", bases[c]) \in Frames
      BY <2>1 DEF Frame, Frames, TypeInv
    <3>2. Continue(t, "bases", bases[c])
      BY <1>9, <2>3 DEF EnterNotThreadSafe
    <3>3. Replaces(t, Frame(c, "bases", bases[c]))
      BY <1>1, <3>1, <3>2, ContinueReplaces
    <3>4. ~Claimed(c)
      BY <2>1, <2>3 DEF Claimed, GlobalsInv
    <3>. QED
      BY <1>9, <2>1, <2>3, <3>3, <3>4 DEF EnterNotThreadSafe, Starts, Program
  <2>. QED
    BY <2>2, <2>3
<1>. QED
  BY <1>4, <1>5, <1>6, <1>7, <1>8, <1>9 DEF Step

-----------------------------------------------------------------------------
(* What the steps do to the frames that initialise a class *)

SameWork ==
  \A u \in Thread, c \in Class, i \in Nat : Working(u, i, c)' <=> Working(u, i, c)

MoreWork(t) ==
  \A u \in Thread, c \in Class, i \in Nat :
    Working(u, i, c)' <=>
      \/ Working(u, i, c)
      \/ u = t /\ i = Len(stack[t]) /\ c = Top(t).class

LessWork(t) ==
  \A u \in Thread, c \in Class, i \in Nat :
    Working(u, i, c)' <=> Working(u, i, c) /\ ~(u = t /\ i = Len(stack[t]))

\* The frames that remain are for the same class and at the same place.
LEMMA PoppedFrames ==
  ASSUME TypeInv, CallInv, NEW t \in Thread, Pops(t), Len(stack[t]) > 1
  PROVE  /\ Len(stack'[t]) = Len(stack[t]) - 1
         /\ \A i \in 1 .. Len(stack[t]) - 1 :
              /\ stack'[t][i].class = stack[t][i].class
              /\ stack'[t][i].at = stack[t][i].at
              /\ stack'[t][i].todo = IF i = Len(stack[t]) - 1
                                     THEN Tail(stack[t][i].todo)
                                     ELSE stack[t][i].todo
<1>. DEFINE n == Len(stack[t]) - 1
<1>1. n \in Nat /\ n >= 1 /\ stack[t][n] \in Frames
  BY TopFrame
<1>2. /\ stack'[t][n].class = stack[t][n].class
      /\ stack'[t][n].at = stack[t][n].at
      /\ stack'[t][n].todo = Tail(stack[t][n].todo)
  BY <1>1 DEF Pops, Frames
<1>3. Len(stack'[t]) = n /\ \A i \in 1 .. n - 1 : stack'[t][i] = stack[t][i]
  BY DEF Pops
<1>4. ASSUME NEW i \in 1 .. n
      PROVE  /\ stack'[t][i].class = stack[t][i].class
             /\ stack'[t][i].at = stack[t][i].at
             /\ stack'[t][i].todo = IF i = n THEN Tail(stack[t][i].todo)
                                    ELSE stack[t][i].todo
  <2>1. CASE i = n
    BY <1>2, <2>1
  <2>2. CASE i # n
    <3>1. i \in 1 .. n - 1
      BY <1>1, <2>2
    <3>. QED
      BY <1>3, <2>2, <3>1
  <2>. QED
    BY <2>1, <2>2
<1>. QED
  BY <1>3, <1>4

\* Calls, entering a wrapper, calling <clinit> and returning at once change nothing.
LEMMA WorkIsTheSame ==
  ASSUME TypeInv, CallInv, NEW t \in Thread,
         Calls(t) \/ Enters(t) \/ RunsClinit(t) \/ Skips(t)
  PROVE  SameWork
<1>. SUFFICES ASSUME NEW u \in Thread, NEW c \in Class, NEW i \in Nat
              PROVE  Working(u, i, c)' <=> Working(u, i, c)
  BY DEF SameWork
<1>1. CASE u # t
  BY <1>1 DEF Calls, Enters, RunsClinit, Skips, Pushes, Replaces, Pops, Others, Working
<1>2. CASE u = t
  <2>. DEFINE n == Len(stack[t])
  <2>1. n \in Nat /\ n >= 1 /\ Top(t) = stack[t][n]
    BY TopFrame
  <2>2. CASE Calls(t)
    BY <1>2, <2>1, <2>2 DEF Calls, Pushes, Frame, Working
  <2>3. CASE Enters(t) \/ RunsClinit(t)
    BY <1>2, <2>1, <2>3 DEF Enters, RunsClinit, Replaces, Frame, Working
  <2>4. CASE Skips(t)
    <3>1. n > 1 /\ Pops(t) /\ Top(t).at \notin {"bases", "clinit"}
      BY <2>4, TopFrame DEF Skips
    <3>2. /\ Len(stack'[t]) = n - 1
          /\ \A j \in 1 .. n - 1 : /\ stack'[t][j].class = stack[t][j].class
                                   /\ stack'[t][j].at = stack[t][j].at
      BY <3>1, PoppedFrames
    <3>3. CASE i \in 1 .. n - 1
      <4>1. i \in 1 .. n
        BY <2>1, <3>3
      <4>. QED
        BY <1>2, <3>2, <3>3, <4>1 DEF Working
    <3>4. CASE i \notin 1 .. n - 1
      <4>1. i \in 1 .. n => i = n
        BY <2>1, <3>4
      <4>. QED
        BY <1>2, <2>1, <3>1, <3>2, <3>4, <4>1 DEF Working
    <3>. QED
      BY <3>3, <3>4
  <2>. QED
    BY <2>2, <2>3, <2>4
<1>. QED
  BY <1>1, <1>2

\* A wrapper that claims its class starts to initialise it.
LEMMA WorkStarts ==
  ASSUME TypeInv, CallInv, NEW t \in Thread, Starts(t)
  PROVE  MoreWork(t)
<1>. SUFFICES ASSUME NEW u \in Thread, NEW c \in Class, NEW i \in Nat
              PROVE  Working(u, i, c)' <=>
                       \/ Working(u, i, c)
                       \/ u = t /\ i = Len(stack[t]) /\ c = Top(t).class
  BY DEF MoreWork
<1>1. CASE u # t
  BY <1>1 DEF Starts, Replaces, Others, Working
<1>2. CASE u = t
  <2>1. Len(stack[t]) \in Nat /\ Len(stack[t]) >= 1 /\ Top(t) = stack[t][Len(stack[t])]
    BY TopFrame
  <2>. QED
    BY <1>2, <2>1 DEF Starts, Replaces, Frame, Working
<1>. QED
  BY <1>1, <1>2

\* A wrapper that finishes stops initialising its class.
LEMMA WorkEnds ==
  ASSUME TypeInv, CallInv, NEW t \in Thread, Finishes(t)
  PROVE  LessWork(t)
<1>. SUFFICES ASSUME NEW u \in Thread, NEW c \in Class, NEW i \in Nat
              PROVE  Working(u, i, c)' <=>
                       Working(u, i, c) /\ ~(u = t /\ i = Len(stack[t]))
  BY DEF LessWork
<1>1. CASE u # t
  BY <1>1 DEF Finishes, Pops, Others, Working
<1>2. CASE u = t
  <2>. DEFINE n == Len(stack[t])
  <2>1. n \in Nat /\ n > 1 /\ Pops(t)
    BY TopFrame DEF Finishes
  <2>2. /\ Len(stack'[t]) = n - 1
        /\ \A j \in 1 .. n - 1 : /\ stack'[t][j].class = stack[t][j].class
                                 /\ stack'[t][j].at = stack[t][j].at
    BY <2>1, PoppedFrames
  <2>3. CASE i \in 1 .. n - 1
    <3>1. i \in 1 .. n /\ i # n
      BY <2>1, <2>3
    <3>. QED
      BY <1>2, <2>2, <2>3, <3>1 DEF Working
  <2>4. CASE i \notin 1 .. n - 1
    <3>1. i \in 1 .. n => i = n
      BY <2>1, <2>4
    <3>. QED
      BY <1>2, <2>2, <2>4, <3>1 DEF Working
  <2>. QED
    BY <2>3, <2>4
<1>. QED
  BY <1>1, <1>2

AnyStep(t) ==
  Calls(t) \/ Enters(t) \/ Starts(t) \/ RunsClinit(t) \/ Skips(t) \/ Finishes(t)

\* Types are preserved.
LEMMA TypeStep ==
  ASSUME TypeInv, CallInv, NEW t \in Thread, AnyStep(t)
  PROVE  TypeInv'
<1>1. stack' \in [Thread -> Seq(Frames)] /\ UNCHANGED Program
  BY DEF AnyStep, Calls, Enters, Starts, RunsClinit, Skips, Finishes,
         Pushes, Replaces, Pops
<1>2. /\ clinit_state' \in [Class -> clinit_statest]
      /\ clinit_thread_local_state' \in [Thread -> [Class -> clinit_statest]]
      /\ clinit_already_run' \in [Class -> BOOLEAN]
  <2>1. CASE Calls(t) \/ RunsClinit(t) \/ Skips(t)
    BY <2>1 DEF TypeInv, Calls, RunsClinit, Skips, globals
  <2>2. CASE Enters(t)
    BY <2>2, Zenon DEF TypeInv, Enters, clinit_statest
  <2>3. CASE Starts(t)
    BY <2>3, Zenon DEF TypeInv, Starts, clinit_statest
  <2>4. CASE Finishes(t)
    BY <2>4, Zenon DEF TypeInv, Finishes, clinit_statest
  <2>. QED
    BY <2>1, <2>2, <2>3, <2>4 DEF AnyStep
<1>. QED
  BY <1>1, <1>2 DEF TypeInv, Program

\* In the next state, too, a thread initialises a class when one of its frames does.
LEMMA InitialisingNext ==
  ASSUME TypeInv', NEW t \in Thread, NEW c \in Class
  PROVE  Initialising(t, c)' <=> \E i \in Nat : Working(t, i, c)'
<1>1. Len(stack'[t]) \in Nat /\ DOMAIN stack'[t] = 1 .. Len(stack'[t])
  BY DEF TypeInv
<1>. QED
  BY <1>1 DEF Initialising, Working

\* Which thread initialises which class, and which classes were claimed, stays.
SameOwners ==
  /\ \A u \in Thread, c \in Class : Initialising(u, c)' <=> Initialising(u, c)
  /\ \A c \in Class : Claimed(c)' <=> Claimed(c)

\* Thread t claims class d.
NewOwner(t, d) ==
  /\ ~Claimed(d) /\ ~Busy(d)
  /\ \A u \in Thread, c \in Class :
       Initialising(u, c)' <=> Initialising(u, c) \/ (u = t /\ c = d)
  /\ \A c \in Class : Claimed(c)' <=> Claimed(c) \/ c = d

\* Thread t has initialised class d.
NoOwner(t, d) ==
  /\ Initialising(t, d) /\ Claimed(d)
  /\ \A u \in Thread : Initialising(u, d) => u = t
  /\ \A u \in Thread, c \in Class :
       Initialising(u, c)' <=> Initialising(u, c) /\ ~(u = t /\ c = d)
  /\ \A c \in Class : Claimed(c)' <=> Claimed(c)

\* Steps that leave the frames at work leave the owners.
LEMMA OwnersStay ==
  ASSUME WrapperInv, NEW t \in Thread,
         Calls(t) \/ Enters(t) \/ RunsClinit(t) \/ Skips(t)
  PROVE  SameOwners
<1>. USE DEF WrapperInv
<1>1. TypeInv' /\ SameWork
  BY TypeStep, WorkIsTheSame DEF AnyStep
<1>2. \A u \in Thread, c \in Class : Initialising(u, c)' <=> Initialising(u, c)
  BY <1>1, InitialisingIsWorking, InitialisingNext DEF SameWork
<1>3. UNCHANGED <<clinit_already_run, clinit_state>>
  BY DEF Calls, Enters, RunsClinit, Skips, globals
<1>. QED
  BY <1>2, <1>3 DEF SameOwners, Claimed

\* A class that was not claimed gets an owner.
LEMMA OwnerStarts ==
  ASSUME WrapperInv, NEW t \in Thread, Starts(t)
  PROVE  NewOwner(t, Top(t).class)
<1>. USE DEF WrapperInv
<1>. DEFINE d == Top(t).class
<1>1. TypeInv' /\ MoreWork(t)
  BY TypeStep, WorkStarts DEF AnyStep
<1>2. d \in Class /\ Len(stack[t]) \in Nat
  BY TopFrame DEF Starts
<1>3. ~Claimed(d) /\ ~Busy(d)
  BY <1>2 DEF Starts, Busy, GlobalsInv, Claimed
<1>4. ASSUME NEW u \in Thread, NEW c \in Class
      PROVE  Initialising(u, c)' <=> Initialising(u, c) \/ (u = t /\ c = d)
  <2>1. Initialising(u, c)' <=> \E i \in Nat : Working(u, i, c)'
    BY <1>1, InitialisingNext
  <2>2. Initialising(u, c) <=> \E i \in Nat : Working(u, i, c)
    BY InitialisingIsWorking
  <2>. QED
    BY <1>1, <1>2, <2>1, <2>2 DEF MoreWork
<1>5. ASSUME NEW c \in Class
      PROVE  Claimed(c)' <=> Claimed(c) \/ c = d
  BY <1>2 DEF Starts, Claimed, TypeInv
<1>. QED
  BY <1>3, <1>4, <1>5 DEF NewOwner

\* The owner of a class is done.
LEMMA OwnerEnds ==
  ASSUME WrapperInv, NEW t \in Thread, Finishes(t)
  PROVE  NoOwner(t, Top(t).class)
<1>. USE DEF WrapperInv
<1>. DEFINE d == Top(t).class
            n == Len(stack[t])
<1>1. TypeInv' /\ LessWork(t)
  BY TypeStep, WorkEnds DEF AnyStep
<1>2. d \in Class /\ n \in Nat /\ n > 1 /\ Top(t) = stack[t][n]
  BY TopFrame DEF Finishes
<1>3. Working(t, n, d)
  BY <1>2 DEF Finishes, Working
<1>4. \A u \in Thread, i \in Nat : Working(u, i, d) => u = t /\ i = n
  BY <1>2, <1>3 DEF OneFrameInv
<1>5. Initialising(t, d) /\ \A u \in Thread : Initialising(u, d) => u = t
  BY <1>2, <1>3, <1>4, InitialisingIsWorking
<1>6. ASSUME NEW u \in Thread, NEW c \in Class
      PROVE  Initialising(u, c)' <=> Initialising(u, c) /\ ~(u = t /\ c = d)
  <2>1. Initialising(u, c)' <=> \E i \in Nat : Working(u, i, c)'
    BY <1>1, InitialisingNext
  <2>2. Initialising(u, c) <=> \E i \in Nat : Working(u, i, c)
    BY InitialisingIsWorking
  <2>3. \A i \in Nat : Working(u, i, c) /\ u = t /\ i = n => c = d
    BY <1>3 DEF Working
  <2>4. \A i \in Nat : Working(u, i, c)' <=> Working(u, i, c) /\ ~(u = t /\ i = n)
    BY <1>1 DEF LessWork
  <2>. QED
    BY <1>2, <1>4, <2>1, <2>2, <2>3, <2>4
<1>7. Claimed(d)
  BY <1>2, <1>5 DEF GlobalsInv, Claimed
<1>8. ASSUME NEW c \in Class PROVE Claimed(c)' <=> Claimed(c)
  BY <1>2, <1>7 DEF Finishes, Claimed, TypeInv
<1>. QED
  BY <1>5, <1>6, <1>7, <1>8 DEF NoOwner

\* A class that is ready for a thread stays ready.
LEMMA ReadyStays ==
  ASSUME WrapperInv, NEW t \in Thread, AnyStep(t),
         NEW u \in Thread, NEW c \in Class, Ready(u, c)
  PROVE  Ready(u, c)'
<1>1. CASE SameOwners
  BY <1>1 DEF SameOwners, Ready, Busy
<1>2. ASSUME NEW d, NewOwner(t, d) PROVE Ready(u, c)'
  <2>1. c # d
    BY <1>2 DEF NewOwner, Ready, Busy
  <2>. QED
    BY <1>2, <2>1 DEF NewOwner, Ready, Busy
<1>3. ASSUME NEW d, NoOwner(t, d) PROVE Ready(u, c)'
  <2>1. \A v \in Thread : Initialising(v, c)' => Initialising(v, c)
    BY <1>3 DEF NoOwner
  <2>2. CASE c = d
    BY <1>3, <2>2 DEF NoOwner, Ready, Busy
  <2>3. CASE c # d
    BY <1>3, <2>1, <2>3 DEF NoOwner, Ready, Busy
  <2>. QED
    BY <2>2, <2>3
<1>. QED
  BY <1>1, <1>2, <1>3, OwnersStay, OwnerStarts, OwnerEnds DEF AnyStep

-----------------------------------------------------------------------------
(* Every step preserves the invariant *)

\* Frames: what a frame below the top waits for is what it called.
LEMMA CallStep ==
  ASSUME TypeInv, CallInv, NEW t \in Thread, AnyStep(t)
  PROVE  CallInv'
<1>. DEFINE n == Len(stack[t])
<1>1. /\ n \in Nat /\ n >= 1
      /\ Top(t) = stack[t][n] /\ Top(t) \in Frames
      /\ Top(t).at # "user" => n > 1 /\ Top(t).class \in Class
  BY TopFrame
<1>2. /\ stack[t][1].at = "user"
      /\ \A i \in 2 .. n : stack[t][i].at # "user" /\ stack[t][i].class \in Class
      /\ \A i \in 1 .. n - 1 : /\ stack[t][i].at \in {"user", "bases", "clinit"}
                               /\ stack[t][i].todo # <<>>
                               /\ Head(stack[t][i].todo) = stack[t][i + 1].class
  BY DEF CallInv
<1>. SUFFICES ASSUME NEW u \in Thread
              PROVE  /\ Len(stack'[u]) >= 1
                     /\ stack'[u][1].at = "user"
                     /\ \A i \in 2 .. Len(stack'[u]) :
                          stack'[u][i].at # "user" /\ stack'[u][i].class \in Class
                     /\ \A i \in 1 .. Len(stack'[u]) - 1 :
                          /\ stack'[u][i].at \in {"user", "bases", "clinit"}
                          /\ stack'[u][i].todo # <<>>
                          /\ Head(stack'[u][i].todo) = stack'[u][i + 1].class
  BY Zenon DEF CallInv
<1>3. CASE u # t
  <2>1. stack'[u] = stack[u]
    BY <1>3 DEF AnyStep, Calls, Enters, Starts, RunsClinit, Skips, Finishes,
                Pushes, Replaces, Pops, Others
  <2>. QED
    BY <2>1 DEF CallInv
<1>4. CASE u = t /\ Calls(t)
  <2>1. Head(Top(t).todo) \in Class
    BY <1>1, <1>4 DEF Calls, Frames
  <2>2. /\ Len(stack'[t]) = n + 1
        /\ \A i \in 1 .. n : stack'[t][i] = stack[t][i]
        /\ stack'[t][n + 1].at = "entry"
        /\ stack'[t][n + 1].class = Head(Top(t).todo)
    BY <1>4 DEF Calls, Pushes, Frame
  <2>3. \A i \in 2 .. n + 1 : stack'[t][i].at # "user" /\ stack'[t][i].class \in Class
    <3>. TAKE i \in 2 .. n + 1
    <3>1. CASE i = n + 1
      BY <2>1, <2>2, <3>1
    <3>2. CASE i # n + 1
      <4>1. i \in 1 .. n /\ i \in 2 .. n
        BY <1>1, <3>2
      <4>2. stack'[t][i] = stack[t][i]
        BY <2>2, <4>1
      <4>3. stack[t][i].at # "user" /\ stack[t][i].class \in Class
        BY <1>2, <4>1
      <4>. QED
        BY <4>2, <4>3
    <3>. QED
      BY <3>1, <3>2
  <2>4. ASSUME NEW i \in 1 .. n
        PROVE  /\ stack'[t][i].at \in {"user", "bases", "clinit"}
               /\ stack'[t][i].todo # <<>>
               /\ Head(stack'[t][i].todo) = stack'[t][i + 1].class
    <3>1. CASE i = n
      BY <1>1, <1>4, <2>2, <3>1 DEF Calls
    <3>2. CASE i # n
      <4>1. i \in 1 .. n - 1 /\ i + 1 \in 1 .. n
        BY <1>1, <3>2
      <4>2. stack'[t][i] = stack[t][i] /\ stack'[t][i + 1] = stack[t][i + 1]
        BY <2>2, <4>1
      <4>3. /\ stack[t][i].at \in {"user", "bases", "clinit"}
            /\ stack[t][i].todo # <<>>
            /\ Head(stack[t][i].todo) = stack[t][i + 1].class
        BY <1>2, <4>1
      <4>. QED
        BY <4>2, <4>3
    <3>. QED
      BY <3>1, <3>2
  <2>. QED
    BY <1>1, <1>4, <2>2, <2>3, <2>4 DEF CallInv
<1>5. CASE u = t /\ (Enters(t) \/ Starts(t) \/ RunsClinit(t))
  <2>1. n > 1 /\ Top(t).class \in Class
    BY <1>1, <1>5 DEF Enters, Starts, RunsClinit
  <2>2. /\ Len(stack'[t]) = n
        /\ \A i \in 1 .. n - 1 : stack'[t][i] = stack[t][i]
        /\ stack'[t][n].at \in {"atomic", "bases", "clinit"}
        /\ stack'[t][n].class = Top(t).class
    BY <1>5 DEF Enters, Starts, RunsClinit, Replaces, Frame
  <2>3. \A i \in 2 .. n : stack'[t][i].at # "user" /\ stack'[t][i].class \in Class
    <3>. TAKE i \in 2 .. n
    <3>1. CASE i = n
      BY <2>1, <2>2, <3>1
    <3>2. CASE i # n
      <4>1. i \in 1 .. n - 1
        BY <1>1, <3>2
      <4>2. stack'[t][i] = stack[t][i]
        BY <2>2, <4>1
      <4>3. stack[t][i].at # "user" /\ stack[t][i].class \in Class
        BY <1>2
      <4>. QED
        BY <4>2, <4>3
    <3>. QED
      BY <3>1, <3>2
  <2>4. ASSUME NEW i \in 1 .. n - 1
        PROVE  /\ stack'[t][i].at \in {"user", "bases", "clinit"}
               /\ stack'[t][i].todo # <<>>
               /\ Head(stack'[t][i].todo) = stack'[t][i + 1].class
    <3>1. stack'[t][i] = stack[t][i] /\ stack'[t][i + 1].class = stack[t][i + 1].class
      <4>1. stack'[t][i] = stack[t][i]
        BY <2>2
      <4>2. i + 1 \in 1 .. n - 1 \/ i + 1 = n
        BY <1>1
      <4>. QED
        BY <1>1, <2>2, <4>1, <4>2
    <3>2. /\ stack[t][i].at \in {"user", "bases", "clinit"}
          /\ stack[t][i].todo # <<>>
          /\ Head(stack[t][i].todo) = stack[t][i + 1].class
      BY <1>2
    <3>. QED
      BY <3>1, <3>2
  <2>. QED
    BY <1>1, <1>5, <2>1, <2>2, <2>3, <2>4 DEF CallInv
<1>6. CASE u = t /\ (Skips(t) \/ Finishes(t))
  <2>1. n > 1 /\ Pops(t)
    BY <1>1, <1>6 DEF Skips, Finishes
  <2>2. /\ Len(stack'[t]) = n - 1
        /\ \A i \in 1 .. n - 1 : /\ stack'[t][i].class = stack[t][i].class
                                 /\ stack'[t][i].at = stack[t][i].at
    BY <2>1, PoppedFrames
  <2>3. \A i \in 1 .. n - 2 : stack'[t][i] = stack[t][i]
    BY <1>1, <2>1 DEF Pops
  <2>4. ASSUME NEW i \in 1 .. n - 2
        PROVE  /\ stack'[t][i].at \in {"user", "bases", "clinit"}
               /\ stack'[t][i].todo # <<>>
               /\ Head(stack'[t][i].todo) = stack'[t][i + 1].class
    <3>1. i \in 1 .. n - 1 /\ i + 1 \in 1 .. n - 1
      BY <1>1
    <3>2. stack'[t][i] = stack[t][i] /\ stack'[t][i + 1].class = stack[t][i + 1].class
      BY <2>2, <2>3, <3>1
    <3>3. /\ stack[t][i].at \in {"user", "bases", "clinit"}
          /\ stack[t][i].todo # <<>>
          /\ Head(stack[t][i].todo) = stack[t][i + 1].class
      BY <1>2, <3>1
    <3>. QED
      BY <3>2, <3>3
  <2>5. \A i \in 2 .. n - 1 : stack'[t][i].at # "user" /\ stack'[t][i].class \in Class
    <3>. TAKE i \in 2 .. n - 1
    <3>1. i \in 2 .. n /\ i \in 1 .. n - 1
      BY <1>1
    <3>2. stack'[t][i].at = stack[t][i].at /\ stack'[t][i].class = stack[t][i].class
      BY <2>2, <3>1
    <3>3. stack[t][i].at # "user" /\ stack[t][i].class \in Class
      BY <1>2, <3>1
    <3>. QED
      BY <3>2, <3>3
  <2>6. Len(stack'[t]) >= 1 /\ stack'[t][1].at = "user"
    <3>1. 1 \in 1 .. n - 1
      BY <1>1, <2>1
    <3>. QED
      BY <1>1, <1>2, <2>1, <2>2, <3>1
  <2>7. n - 1 - 1 = n - 2
    BY <1>1
  <2>. QED
    BY <1>6, <2>2, <2>4, <2>5, <2>6, <2>7
<1>. QED
  BY <1>3, <1>4, <1>5, <1>6 DEF AnyStep

\* The thread t has something to do or is doing it.
Active(t) == \E i \in 1 .. Len(stack[t]) : i > 1 \/ stack[t][i].todo # <<>>

\* No thread gets active.
LEMMA ActiveBefore ==
  ASSUME TypeInv, CallInv, NEW t \in Thread, AnyStep(t), NEW u \in Thread, Active(u)'
  PROVE  Active(u)
<1>. DEFINE n == Len(stack[t])
<1>1. /\ n \in Nat /\ n >= 1 /\ Top(t) = stack[t][n]
      /\ Top(t).at # "user" => n > 1
  BY TopFrame
<1>2. CASE u # t
  <2>1. stack'[u] = stack[u]
    BY <1>2 DEF AnyStep, Calls, Enters, Starts, RunsClinit, Skips, Finishes,
                Pushes, Replaces, Pops, Others
  <2>. QED
    BY <2>1 DEF Active
<1>3. CASE u = t
  <2>1. CASE Calls(t)
    BY <1>1, <1>3, <2>1 DEF Calls, Active
  <2>2. CASE ~Calls(t)
    <3>1. n > 1
      BY <1>1, <2>2 DEF AnyStep, Enters, Starts, RunsClinit, Skips, Finishes
    <3>. QED
      BY <1>1, <1>3, <3>1 DEF Active
  <2>. QED
    BY <2>1, <2>2
<1>. QED
  BY <1>2, <1>3

\* One thread without java-threading.
LEMMA OneThreadStep ==
  ASSUME WrapperInv, NEW t \in Thread, AnyStep(t)
  PROVE  OneThreadInv'
<1>. USE DEF WrapperInv
<1>. SUFFICES ASSUME ~thread_safe'
              PROVE  /\ \A u, v \in Thread : Active(u)' /\ Active(v)' => u = v
                     /\ \A u \in Thread : \A i \in 1 .. Len(stack'[u]) :
                          stack'[u][i].at # "atomic"
  BY DEF OneThreadInv, Active
<1>1. ~thread_safe
  BY DEF AnyStep, Calls, Enters, Starts, RunsClinit, Skips, Finishes, Program
<1>2. \A u, v \in Thread : Active(u)' /\ Active(v)' => u = v
  BY <1>1, ActiveBefore DEF OneThreadInv, Active
<1>3. ASSUME NEW u \in Thread, NEW i \in 1 .. Len(stack'[u])
      PROVE  stack'[u][i].at # "atomic"
  <2>. DEFINE n == Len(stack[t])
  <2>1. /\ n \in Nat /\ n >= 1 /\ Top(t) = stack[t][n]
        /\ Top(t).at # "user" => n > 1
    BY TopFrame
  <2>2. CASE u # t
    <3>1. stack'[u] = stack[u]
      BY <2>2 DEF AnyStep, Calls, Enters, Starts, RunsClinit, Skips, Finishes,
                  Pushes, Replaces, Pops, Others
    <3>. QED
      BY <1>1, <3>1 DEF OneThreadInv
  <2>3. CASE u = t /\ Calls(t)
    BY <1>1, <2>1, <2>3 DEF Calls, Pushes, Frame, OneThreadInv
  <2>4. CASE u = t /\ (Starts(t) \/ RunsClinit(t))
    BY <1>1, <2>1, <2>4 DEF Starts, RunsClinit, Replaces, Frame, OneThreadInv
  <2>5. CASE u = t /\ (Skips(t) \/ Finishes(t))
    <3>1. n > 1 /\ Pops(t)
      BY <2>1, <2>5 DEF Skips, Finishes
    <3>2. Len(stack'[t]) = n - 1 /\ \A j \in 1 .. n - 1 : stack'[t][j].at = stack[t][j].at
      BY <3>1, PoppedFrames
    <3>3. i \in 1 .. n - 1 /\ i \in 1 .. n
      BY <2>1, <2>5, <3>2
    <3>4. stack[t][i].at # "atomic"
      BY <1>1, <3>3 DEF OneThreadInv
    <3>. QED
      BY <2>5, <3>2, <3>3, <3>4
  <2>6. ~Enters(t)
    BY <1>1 DEF Enters
  <2>. QED
    BY <2>2, <2>3, <2>4, <2>5, <2>6 DEF AnyStep
<1>. QED
  BY <1>2, <1>3

\* One frame initialises a class: the one that claimed it.
LEMMA OneFrameStep ==
  ASSUME WrapperInv, NEW t \in Thread, AnyStep(t)
  PROVE  OneFrameInv'
<1>. USE DEF WrapperInv
<1>1. CASE SameWork
  BY <1>1 DEF SameWork, OneFrameInv
<1>2. CASE LessWork(t)
  BY <1>2 DEF LessWork, OneFrameInv
<1>3. CASE Starts(t)
  <2>1. MoreWork(t) /\ ~Busy(Top(t).class)
    BY <1>3, WorkStarts, OwnerStarts DEF NewOwner
  <2>2. \A u \in Thread, i \in Nat : ~Working(u, i, Top(t).class)
    BY <2>1, InitialisingIsWorking DEF Busy
  <2>. QED
    BY <2>1, <2>2 DEF MoreWork, OneFrameInv
<1>. QED
  BY <1>1, <1>2, <1>3, WorkIsTheSame, WorkEnds DEF AnyStep

\* A frame is at "atomic" on top only after Enter.
LEMMA TopNext ==
  ASSUME TypeInv, CallInv, NEW t \in Thread, AnyStep(t)
  PROVE  /\ \A u \in Thread : u # t => Top(u)' = Top(u)
         /\ Enters(t) => Top(t)'.at = "atomic" /\ Top(t)'.class = Top(t).class
         /\ ~Enters(t) => Top(t)'.at # "atomic"
<1>. DEFINE n == Len(stack[t])
<1>1. /\ n \in Nat /\ n >= 1 /\ Top(t) = stack[t][n]
      /\ Top(t).at # "user" => n > 1
  BY TopFrame
<1>2. \A u \in Thread : u # t => Top(u)' = Top(u)
  BY Zenon DEF AnyStep, Calls, Enters, Starts, RunsClinit, Skips, Finishes, Pushes, Replaces,
     Pops, Others, Top
<1>3. Top(t)' = stack'[t][Len(stack'[t])]
  BY DEF Top
<1>4. CASE Calls(t)
  BY <1>2, <1>3, <1>4 DEF Calls, Pushes, Frame, Enters
<1>5. CASE Enters(t)
  BY <1>2, <1>3, <1>5 DEF Enters, Replaces, Frame
<1>6. CASE Starts(t) \/ RunsClinit(t)
  <2>1. Top(t)'.at \in {"bases", "clinit"}
    BY <1>3, <1>6 DEF Starts, RunsClinit, Replaces, Frame
  <2>2. ~Enters(t)
    BY <1>6 DEF Starts, RunsClinit, Enters
  <2>. QED
    BY <1>2, <2>1, <2>2
<1>7. CASE Skips(t) \/ Finishes(t)
  <2>1. n > 1 /\ Pops(t)
    BY <1>1, <1>7 DEF Skips, Finishes
  <2>2. Len(stack'[t]) = n - 1 /\ stack'[t][n - 1].at = stack[t][n - 1].at
    <3>1. n - 1 \in 1 .. n - 1
      BY <1>1, <2>1
    <3>. QED
      BY <2>1, <3>1, PoppedFrames
  <2>3. Top(t)'.at \in {"user", "bases", "clinit"}
    <3>1. n - 1 \in 1 .. n - 1
      BY <1>1, <2>1
    <3>2. stack[t][n - 1].at \in {"user", "bases", "clinit"}
      BY <3>1 DEF CallInv
    <3>. QED
      BY <1>3, <2>2, <3>2
  <2>4. ~Enters(t)
    <3>1. Len(stack'[t]) # n
      BY <1>1, <2>2
    <3>. QED
      BY <3>1 DEF Enters, Replaces
  <2>. QED
    BY <1>2, <2>3, <2>4
<1>. QED
  BY <1>4, <1>5, <1>6, <1>7 DEF AnyStep

\* A thread that waits at the assumption has not claimed the class itself.
LEMMA NoSelfDeadlockStep ==
  ASSUME WrapperInv, NEW t \in Thread, AnyStep(t)
  PROVE  NoSelfDeadlock'
<1>. USE DEF WrapperInv
<1>. SUFFICES ASSUME NEW u \in Thread, Top(u)'.at = "atomic"
              PROVE  ~Initialising(u, Top(u).class)'
  BY DEF NoSelfDeadlock
<1>1. CASE u = t
  <2>1. Enters(t) /\ Top(t)'.class = Top(t).class /\ Top(t).class \in Class
    BY <1>1, TopNext, TopFrame DEF Enters
  <2>2. ~Initialising(t, Top(t).class)
    BY <2>1 DEF Enters, GlobalsInv
  <2>3. \A c \in Class : Initialising(t, c)' <=> Initialising(t, c)
    BY <2>1, OwnersStay DEF SameOwners
  <2>. QED
    BY <1>1, <2>1, <2>2, <2>3 DEF Initialising
<1>2. CASE u # t
  <2>1. Top(u)' = Top(u) /\ Top(u).class \in Class /\ ~Initialising(u, Top(u).class)
    BY <1>2, TopNext, TopFrame DEF NoSelfDeadlock
  <2>2. \A c \in Class : Initialising(u, c)' <=> Initialising(u, c)
    BY <1>2, OwnersStay, OwnerStarts, OwnerEnds
    DEF AnyStep, SameOwners, NewOwner, NoOwner
  <2>. QED
    BY <2>1, <2>2 DEF Initialising
<1>. QED
  BY <1>1, <1>2

\* The first conjunct of GlobalsInv.
LEMMA OwnersAreMarked ==
  ASSUME WrapperInv, NEW t \in Thread, AnyStep(t),
         NEW c \in Class, NEW u \in Thread, Initialising(u, c)'
  PROVE  IF thread_safe'
         THEN /\ clinit_state'[c] = "IN_PROGRESS"
              /\ clinit_thread_local_state'[u][c] = "INIT_COMPLETE"
         ELSE clinit_already_run'[c]
<1>. USE DEF WrapperInv
<1>. DEFINE d == Top(t).class
<1>1. CASE Calls(t) \/ RunsClinit(t) \/ Skips(t)
  <2>1. Initialising(u, c)
    BY <1>1, OwnersStay DEF SameOwners
  <2>. QED
    BY <1>1, <2>1 DEF Calls, RunsClinit, Skips, globals, Program, GlobalsInv
<1>2. CASE Enters(t)
  <2>1. Initialising(u, c)
    BY <1>2, OwnersStay DEF SameOwners
  <2>2. d \in Class
    BY <1>2, TopFrame DEF Enters
  <2>. QED
    BY <1>2, <2>1, <2>2 DEF Enters, Program, GlobalsInv, TypeInv
<1>3. CASE Starts(t)
  <2>1. d \in Class
    BY <1>3, TopFrame DEF Starts
  <2>2. CASE Initialising(u, c)
    <3>1. c # d
      BY <1>3, <2>2, OwnerStarts DEF NewOwner, Busy
    <3>. QED
      BY <1>3, <2>1, <2>2, <3>1 DEF Starts, Program, GlobalsInv, TypeInv
  <2>3. CASE u = t /\ c = d
    BY <1>3, <2>1, <2>3 DEF Starts, Program, GlobalsInv, TypeInv
  <2>. QED
    BY <1>3, <2>2, <2>3, OwnerStarts DEF NewOwner
<1>4. CASE Finishes(t)
  <2>1. Initialising(u, c) /\ c # d
    BY <1>4, OwnerEnds DEF NoOwner
  <2>. QED
    BY <1>4, <2>1 DEF Finishes, Program, GlobalsInv, TypeInv
<1>. QED
  BY <1>1, <1>2, <1>3, <1>4 DEF AnyStep

\* The third conjunct of GlobalsInv.
LEMMA LocalStateIsRight ==
  ASSUME WrapperInv, NEW t \in Thread, AnyStep(t),
         NEW c \in Class, NEW u \in Thread,
         thread_safe', clinit_thread_local_state'[u][c] = "INIT_COMPLETE"
  PROVE  \/ clinit_state'[c] = "INIT_COMPLETE"
         \/ Initialising(u, c)'
         \/ Top(u)'.at = "atomic" /\ Top(u)'.class = c
<1>. USE DEF WrapperInv
<1>. DEFINE d == Top(t).class
<1>0. thread_safe
  BY ZenonT(30) DEF AnyStep, Calls, Enters, Starts, RunsClinit, Skips, Finishes, Program
<1>1. \A v \in Thread : v # t => Top(v)' = Top(v)
  BY TopNext
<1>2. clinit_thread_local_state[u][c] = "INIT_COMPLETE" =>
        \/ clinit_state[c] = "INIT_COMPLETE"
        \/ Initialising(u, c)
        \/ Top(u).at = "atomic" /\ Top(u).class = c
  BY <1>0 DEF GlobalsInv
<1>3. CASE Calls(t) \/ RunsClinit(t) \/ Skips(t)
  <2>1. Initialising(u, c)' <=> Initialising(u, c)
    BY <1>3, OwnersStay DEF SameOwners
  <2>2. Top(t).at = "atomic" => clinit_state[Top(t).class] = "INIT_COMPLETE"
    BY <1>3 DEF Calls, RunsClinit, Skips
  <2>. QED
    BY <1>1, <1>2, <1>3, <2>1, <2>2, Zenon DEF Calls, RunsClinit, Skips, globals
<1>4. CASE Enters(t)
  <2>1. Initialising(u, c)' <=> Initialising(u, c)
    BY <1>4, OwnersStay DEF SameOwners
  <2>2. d \in Class /\ Top(t)'.at = "atomic" /\ Top(t)'.class = d
    BY <1>4, TopFrame, TopNext, ZenonT(30) DEF Enters
  <2>3. CASE u = t /\ c = d
    BY <2>2, <2>3
  <2>4. CASE ~(u = t /\ c = d)
    <3>1. clinit_thread_local_state[u][c] = "INIT_COMPLETE"
      BY <1>4, <2>2, <2>4 DEF Enters, TypeInv
    <3>. QED
      BY <1>1, <1>2, <1>4, <2>1, <3>1 DEF Enters
  <2>. QED
    BY <2>3, <2>4
<1>5. CASE Starts(t)
  <2>1. d \in Class /\ ~Claimed(d)
    BY <1>5, TopFrame DEF Starts
  <2>2. Initialising(u, c)' <=> Initialising(u, c) \/ (u = t /\ c = d)
    BY <1>5, OwnerStarts DEF NewOwner
  <2>3. c # d => clinit_state'[c] = clinit_state[c]
    BY <1>5, <2>1 DEF Starts, TypeInv
  <2>4. clinit_state[d] # "INIT_COMPLETE"
    BY <2>1 DEF Claimed
  <2>5. clinit_thread_local_state[u][c] = "INIT_COMPLETE"
    BY <1>5 DEF Starts
  <2>. QED
    BY <1>1, <1>2, <2>2, <2>3, <2>4, <2>5
<1>6. CASE Finishes(t)
  <2>1. d \in Class /\ Top(t).at = "clinit"
    BY <1>6, TopFrame DEF Finishes
  <2>2. clinit_state' = [clinit_state EXCEPT ![d] = "INIT_COMPLETE"]
    BY <1>0, <1>6 DEF Finishes
  <2>3. clinit_state'[d] = "INIT_COMPLETE" /\ (c # d => clinit_state'[c] = clinit_state[c])
    BY <2>1, <2>2 DEF TypeInv
  <2>4. Initialising(u, c) /\ c # d => Initialising(u, c)'
    BY <1>6, OwnerEnds DEF NoOwner
  <2>5. clinit_thread_local_state[u][c] = "INIT_COMPLETE"
    BY <1>6 DEF Finishes
  <2>. QED
    BY <1>1, <1>2, <2>1, <2>3, <2>4, <2>5
<1>. QED
  BY <1>3, <1>4, <1>5, <1>6 DEF AnyStep

\* The global variables agree with the frames.
LEMMA GlobalsStep ==
  ASSUME WrapperInv, NEW t \in Thread, AnyStep(t)
  PROVE  GlobalsInv'
<1>. USE DEF WrapperInv
<1>1. ASSUME NEW c \in Class
      PROVE  IF thread_safe' THEN ~clinit_already_run'[c]
                             ELSE clinit_state'[c] = "NOT_INIT"
  BY DEF GlobalsInv, AnyStep, Calls, Enters, Starts, RunsClinit, Skips, Finishes,
         Program, globals
<1>2. ASSUME NEW u \in Thread, Top(u)'.at = "atomic"
      PROVE  clinit_thread_local_state'[u][Top(u)'.class] = "INIT_COMPLETE"
  <2>1. CASE u = t
    <3>1. Enters(t) /\ Top(t)'.class = Top(t).class /\ Top(t).class \in Class
      BY <1>2, <2>1, TopNext, TopFrame DEF Enters
    <3>. QED
      BY <2>1, <3>1 DEF Enters, TypeInv
  <2>2. CASE u # t
    <3>1. Top(u)' = Top(u) /\ clinit_thread_local_state[u][Top(u).class] = "INIT_COMPLETE"
      BY <1>2, <2>2, TopNext DEF GlobalsInv
    <3>2. clinit_thread_local_state'[u] = clinit_thread_local_state[u]
      BY <2>2, Zenon DEF AnyStep, Calls, Enters, Starts, RunsClinit, Skips, Finishes, globals,
         TypeInv
    <3>. QED
      BY <3>1, <3>2
  <2>. QED
    BY <2>1, <2>2
<1>. QED
  BY <1>1, <1>2, OwnersAreMarked, LocalStateIsRight DEF GlobalsInv

\* When a wrapper returns, its class is ready for the thread.
LEMMA ReturnsReady ==
  ASSUME WrapperInv, NEW t \in Thread, Skips(t) \/ Finishes(t)
  PROVE  Top(t).class \in Class /\ \A d \in Class : d = Top(t).class => Ready(t, d)'
<1>. USE DEF WrapperInv
<1>1. Top(t).class \in Class
  BY TopFrame, Zenon DEF Skips, Finishes
<1>. SUFFICES ASSUME NEW d \in Class, d = Top(t).class PROVE Ready(t, d)'
  BY <1>1
<1>2. CASE Skips(t)
  BY <1>2, ReadyStays DEF Skips, AnyStep
<1>3. CASE Finishes(t)
  <2>1. NoOwner(t, d)
    BY <1>3, OwnerEnds
  <2>2. Claimed(d)' /\ \A u \in Thread : ~Initialising(u, d)'
    BY <2>1 DEF NoOwner
  <2>. QED
    BY <2>2 DEF Ready, Busy
<1>. QED
  BY <1>2, <1>3

\* The bases of a class are ready, or still to be done.
LEMMA BasesStep ==
  ASSUME WrapperInv, NEW t \in Thread, AnyStep(t)
  PROVE  BasesInv'
<1>. USE DEF WrapperInv
<1>. DEFINE n == Len(stack[t])
<1>1. /\ n \in Nat /\ n >= 1 /\ Top(t) = stack[t][n] /\ Top(t) \in Frames
      /\ Top(t).at # "user" => n > 1 /\ Top(t).class \in Class
      /\ \A i \in 1 .. n : stack[t][i] \in Frames
  BY TopFrame
<1>2. bases' = bases
  BY DEF AnyStep, Calls, Enters, Starts, RunsClinit, Skips, Finishes, Program
<1>. SUFFICES ASSUME NEW u \in Thread, NEW b \in Class,
                     NEW i \in 1 .. Len(stack'[u]),
                     stack'[u][i].at \in {"bases", "clinit"},
                     BaseOf(stack'[u][i].class, b),
                     ~Ready(u, b)'
              PROVE  Pending(stack'[u][i], b)
  BY <1>2 DEF BasesInv, BaseOf
<1>3. ~Ready(u, b)
  BY ReadyStays
<1>4. ASSUME i \in 1 .. Len(stack[u]), stack'[u][i] = stack[u][i]
      PROVE  Pending(stack'[u][i], b)
  BY <1>3, <1>4 DEF BasesInv
<1>5. CASE u # t
  <2>1. stack'[u] = stack[u]
    BY <1>5 DEF AnyStep, Calls, Enters, Starts, RunsClinit, Skips, Finishes,
                Pushes, Replaces, Pops, Others
  <2>. QED
    BY <1>4, <2>1
<1>6. CASE u = t /\ Calls(t)
  <2>1. Len(stack'[t]) = n + 1 /\ stack'[t][n + 1].at = "entry"
        /\ \A j \in 1 .. n : stack'[t][j] = stack[t][j]
    BY <1>6 DEF Calls, Pushes, Frame
  <2>2. i \in 1 .. n
    BY <1>1, <1>6, <2>1
  <2>. QED
    BY <1>4, <1>6, <2>1, <2>2
<1>7. CASE u = t /\ (Enters(t) \/ Starts(t) \/ RunsClinit(t))
  <2>1. Len(stack'[t]) = n /\ \A j \in 1 .. n - 1 : stack'[t][j] = stack[t][j]
    BY <1>7 DEF Enters, Starts, RunsClinit, Replaces
  <2>2. CASE i # n
    <3>1. i \in 1 .. n - 1 /\ i \in 1 .. n
      BY <1>1, <1>7, <2>1, <2>2
    <3>. QED
      BY <1>4, <1>7, <2>1, <3>1
  <2>3. CASE i = n /\ Starts(t)
    <3>1. /\ stack'[t][n].class = Top(t).class /\ stack'[t][n].at = "bases"
          /\ stack'[t][n].todo = bases[Top(t).class]
      BY <2>3 DEF Starts, Replaces, Frame
    <3>. QED
      BY <1>7, <2>3, <3>1 DEF BaseOf, Pending
  <2>4. CASE i = n /\ RunsClinit(t)
    <3>1. /\ stack[t][n].at = "bases" /\ stack[t][n].todo = <<>>
          /\ stack'[t][n].class = stack[t][n].class
      BY <1>1, <2>4 DEF RunsClinit, Replaces, Frame
    <3>2. n \in 1 .. Len(stack[t])
      BY <1>1
    <3>3. Pending(stack[t][n], b)
      BY <1>3, <1>7, <2>4, <3>1, <3>2 DEF BasesInv
    <3>4. DOMAIN stack[t][n].todo = {}
      BY <3>1
    <3>. QED
      BY <3>3, <3>4 DEF Pending
  <2>5. ~(i = n /\ Enters(t))
    BY <1>7 DEF Enters, Replaces, Frame
  <2>. QED
    BY <1>7, <2>2, <2>3, <2>4, <2>5
<1>8. CASE u = t /\ (Skips(t) \/ Finishes(t))
  <2>1. n > 1 /\ Pops(t) /\ Top(t).class \in Class
    BY <1>1, <1>8, ZenonT(30) DEF Skips, Finishes
  <2>2. /\ Len(stack'[t]) = n - 1
        /\ \A j \in 1 .. n - 1 : /\ stack'[t][j].class = stack[t][j].class
                                 /\ stack'[t][j].at = stack[t][j].at
                                 /\ stack'[t][j].todo = IF j = n - 1
                                                        THEN Tail(stack[t][j].todo)
                                                        ELSE stack[t][j].todo
    BY <2>1, PoppedFrames
  <2>3. i \in 1 .. n - 1 /\ i \in 1 .. n
    BY <1>1, <1>8, <2>2
  <2>4. /\ stack[t][i].at = "bases"
        /\ \E k \in DOMAIN stack[t][i].todo : stack[t][i].todo[k] = b
    <3>1. stack[t][i].at \in {"bases", "clinit"} /\ BaseOf(stack[t][i].class, b)
      BY <1>8, <2>2, <2>3
    <3>2. Pending(stack[t][i], b)
      BY <1>3, <1>8, <2>3, <3>1 DEF BasesInv
    <3>. QED
      BY <3>2 DEF Pending
  <2>5. CASE i # n - 1
    BY <1>8, <2>2, <2>3, <2>4, <2>5 DEF Pending
  <2>6. CASE i = n - 1
    <3>. DEFINE s == stack[t][i].todo
    <3>1. s \in Seq(Class) /\ s # <<>> /\ Head(s) = Top(t).class
      <4>1. stack[t][i] \in Frames /\ stack[t][i + 1] = Top(t)
        BY <1>1, <2>3, <2>6
      <4>2. stack[t][i].todo # <<>> /\ Head(stack[t][i].todo) = stack[t][i + 1].class
        BY <2>3 DEF CallInv
      <4>. QED
        BY <4>1, <4>2 DEF Frames
    <3>2. Len(s) \in Nat /\ DOMAIN s = 1 .. Len(s) /\ Head(s) = s[1]
      BY <3>1
    <3>3. /\ Tail(s) \in Seq(Class) /\ Len(Tail(s)) = Len(s) - 1
          /\ \A k \in 1 .. Len(Tail(s)) : Tail(s)[k] = s[k + 1]
      BY <3>1
    <3>4. DOMAIN Tail(s) = 1 .. Len(s) - 1
      BY <3>3
    <3>5. b # Top(t).class
      BY <1>8, ReturnsReady
    <3>6. PICK k \in 1 .. Len(s) : s[k] = b
      BY <2>4, <3>2
    <3>7. k # 1
      BY <3>1, <3>2, <3>5, <3>6
    <3>8. k - 1 \in 1 .. Len(s) - 1 /\ (k - 1) + 1 = k
      BY <3>2, <3>7
    <3>9. Tail(s)[k - 1] = b
      BY <3>3, <3>6, <3>8
    <3>10. stack'[t][i].todo = Tail(s) /\ stack'[t][i].at = "bases"
      <4>1. /\ stack'[t][i].at = stack[t][i].at
            /\ stack'[t][i].todo = IF i = n - 1 THEN Tail(s) ELSE s
        BY <2>2, <2>3
      <4>. QED
        BY <2>4, <2>6, <4>1
    <3>. QED
      BY <1>8, <3>4, <3>8, <3>9, <3>10, ZenonT(30) DEF Pending
  <2>. QED
    BY <2>5, <2>6
<1>. QED
  BY <1>5, <1>6, <1>7, <1>8 DEF AnyStep

\* The initial states satisfy the invariant.
LEMMA InitInv ==
  Init => WrapperInv
<1>. SUFFICES ASSUME Init PROVE WrapperInv
  OBVIOUS
<1>1. PICK program \in ThreadPrograms :
        /\ stack = [t \in Thread |-> <<Frame(NotInitialised, "user", program[t])>>]
        /\ ~thread_safe => \E t \in Thread : {u \in Thread : program[u] # <<>>} = {t}
  BY DEF Init
<1>2. \A t \in Thread : program[t] \in Seq(Class)
  BY ClinitAssumption
<1>3. \A t \in Thread : Frame(NotInitialised, "user", program[t]) \in Frames
  BY <1>2, ZenonT(30) DEF Frame, Frames
<1>4. ASSUME NEW t \in Thread
      PROVE  /\ stack[t] \in Seq(Frames) /\ Len(stack[t]) = 1
             /\ DOMAIN stack[t] = 1 .. 1
             /\ stack[t][1] = Frame(NotInitialised, "user", program[t])
  <2>1. stack[t] = <<Frame(NotInitialised, "user", program[t])>>
    BY <1>1
  <2>2. Frame(NotInitialised, "user", program[t]) \in Frames
    BY <1>3
  <2>. QED
    BY <2>1, <2>2
<1>5. ASSUME NEW t \in Thread
      PROVE  stack[t][1].at = "user" /\ stack[t][1].todo = program[t] /\ Top(t).at = "user"
  <2>1. Top(t) = stack[t][1]
    BY <1>4 DEF Top
  <2>2. Frame(NotInitialised, "user", program[t]).at = "user"
        /\ Frame(NotInitialised, "user", program[t]).todo = program[t]
    BY DEF Frame
  <2>. QED
    BY <1>4, <2>1, <2>2
<1>6. TypeInv
  <2>1. stack \in [Thread -> Seq(Frames)]
    BY <1>1, <1>3
  <2>2. bases \in [Class -> Seq(Class)] /\ uses \in [Class -> Seq(Class)]
    BY ClinitAssumption DEF Init
  <2>. QED
    BY <2>1, <2>2 DEF Init, TypeInv, clinit_statest
<1>7. CallInv
  <2>1. ASSUME NEW t \in Thread
        PROVE  /\ Len(stack[t]) >= 1 /\ stack[t][1].at = "user"
               /\ \A i \in 2 .. Len(stack[t]) : FALSE
               /\ \A i \in 1 .. Len(stack[t]) - 1 : FALSE
    <3>1. Len(stack[t]) = 1
      BY <1>4
    <3>2. stack[t][1].at = "user"
      BY <1>5
    <3>. QED
      BY <3>1, <3>2
  <2>2. CallInv
    <3>. SUFFICES ASSUME NEW t \in Thread
                  PROVE  /\ Len(stack[t]) >= 1
                         /\ stack[t][1].at = "user"
                         /\ \A i \in 2 .. Len(stack[t]) :
                              stack[t][i].at # "user" /\ stack[t][i].class \in Class
                         /\ \A i \in 1 .. Len(stack[t]) - 1 :
                              /\ stack[t][i].at \in {"user", "bases", "clinit"}
                              /\ stack[t][i].todo # <<>>
                              /\ Head(stack[t][i].todo) = stack[t][i + 1].class
      BY Zenon DEF CallInv
    <3>. QED
      BY <2>1, Zenon
  <2>. QED
    BY <2>2
<1>8. OneThreadInv
  <2>. SUFFICES ASSUME ~thread_safe PROVE OneThreadInv
    BY DEF OneThreadInv
  <2>2. PICK x \in Thread : {u \in Thread : program[u] # <<>>} = {x}
    BY <1>1
  <2>3. \A t \in Thread : program[t] # <<>> => t = x
    BY <2>2
  <2>4. ASSUME NEW t \in Thread, NEW i \in 1 .. Len(stack[t]) PROVE i = 1
    <3>1. Len(stack[t]) = 1
      BY <1>4
    <3>. QED
      BY <3>1
  <2>5. ASSUME NEW t \in Thread, Active(t) PROVE t = x
    BY <1>5, <2>3, <2>4, <2>5 DEF Active
  <2>6. \A t \in Thread : \A i \in 1 .. Len(stack[t]) : stack[t][i].at # "atomic"
    BY <1>5, <2>4
  <2>. QED
    BY <2>5, <2>6 DEF OneThreadInv, Active
<1>9. \A t \in Thread : \A c, i : ~Working(t, i, c)
  BY <1>4, <1>5 DEF Working
<1>10. \A t \in Thread : \A c : ~Initialising(t, c)
  BY <1>6, <1>9, InitialisingIsWorking
<1>11. OneFrameInv /\ NoSelfDeadlock
  BY <1>9, <1>10 DEF OneFrameInv, NoSelfDeadlock
<1>12. GlobalsInv
  BY <1>5, <1>10 DEF GlobalsInv, Init
<1>13. BasesInv
  BY <1>4, <1>5 DEF BasesInv
<1>. QED
  BY <1>6, <1>7, <1>8, <1>11, <1>12, <1>13 DEF WrapperInv

\* Every step preserves the invariant.
LEMMA NextInv ==
  WrapperInv /\ [Next]_vars => WrapperInv'
<1>. SUFFICES ASSUME WrapperInv, [Next]_vars PROVE WrapperInv'
  OBVIOUS
<1>1. ASSUME NEW t \in Thread, Step(t) PROVE WrapperInv'
  <2>1. AnyStep(t)
    BY <1>1, StepShapes DEF AnyStep
  <2>2. TypeInv' /\ CallInv'
    BY <2>1, TypeStep, CallStep DEF WrapperInv
  <2>. QED
    BY <2>1, <2>2, OneThreadStep, OneFrameStep, GlobalsStep, NoSelfDeadlockStep, BasesStep
    DEF WrapperInv
<1>2. CASE UNCHANGED vars
  <2>. USE <1>2 DEF vars, globals
  <2>1. TypeInv'
    BY DEF WrapperInv, TypeInv
  <2>2. CallInv'
    BY DEF WrapperInv, CallInv
  <2>3. OneThreadInv'
    BY DEF WrapperInv, OneThreadInv
  <2>4. \A t \in Thread : Top(t)' = Top(t)
    BY DEF Top
  <2>5. \A t \in Thread, c \in Class : Initialising(t, c)' <=> Initialising(t, c)
    BY DEF Initialising
  <2>6. OneFrameInv'
    BY DEF WrapperInv, OneFrameInv, Working
  <2>7. GlobalsInv'
    <3>1. ASSUME NEW c \in Class, NEW t \in Thread, Initialising(t, c)'
          PROVE  IF thread_safe'
                 THEN /\ clinit_state'[c] = "IN_PROGRESS"
                      /\ clinit_thread_local_state'[t][c] = "INIT_COMPLETE"
                 ELSE clinit_already_run'[c]
      BY <2>5, <3>1 DEF WrapperInv, GlobalsInv
    <3>2. ASSUME NEW c \in Class
          PROVE  IF thread_safe' THEN ~clinit_already_run'[c]
                                 ELSE clinit_state'[c] = "NOT_INIT"
      BY DEF WrapperInv, GlobalsInv
    <3>3. ASSUME NEW c \in Class, NEW t \in Thread,
                 thread_safe', clinit_thread_local_state'[t][c] = "INIT_COMPLETE"
          PROVE  \/ clinit_state'[c] = "INIT_COMPLETE"
                 \/ Initialising(t, c)'
                 \/ Top(t)'.at = "atomic" /\ Top(t)'.class = c
      BY <2>4, <2>5, <3>3 DEF WrapperInv, GlobalsInv
    <3>4. ASSUME NEW t \in Thread, Top(t)'.at = "atomic"
          PROVE  clinit_thread_local_state'[t][Top(t)'.class] = "INIT_COMPLETE"
      BY <2>4, <3>4 DEF WrapperInv, GlobalsInv
    <3>. QED
      BY <3>1, <3>2, <3>3, <3>4 DEF GlobalsInv
  <2>8. NoSelfDeadlock'
    BY DEF WrapperInv, NoSelfDeadlock, Initialising, Top
  <2>9. \A t \in Thread, c \in Class : Ready(t, c)' <=> Ready(t, c)
    BY <2>5 DEF Ready, Busy, Claimed
  <2>10. BasesInv'
    BY <2>9 DEF WrapperInv, BasesInv, BaseOf
  <2>. QED
    BY <2>1, <2>2, <2>3, <2>6, <2>7, <2>8, <2>10 DEF WrapperInv
<1>. QED
  BY <1>1, <1>2 DEF Next

-----------------------------------------------------------------------------
(* The refinement *)

OneOwner ==
  \A c \in Class, t, u \in Thread : Initialising(t, c) /\ Initialising(u, c) => t = u

\* What the refinement mapping says of a class.
Meaning ==
  /\ initialisation = [c \in Class |-> initialisation[c]]
  /\ \A c \in Class, t \in Thread : Initialising(t, c) => initialisation[c] = t
  /\ \A c \in Class :
       ~Busy(c) => initialisation[c] = IF Claimed(c) THEN Initialised ELSE NotInitialised

\* Every state with one owner per class is mapped like that.
LEMMA MeaningNow ==
  ASSUME OneOwner PROVE Meaning
<1>1. initialisation = [c \in Class |-> initialisation[c]]
  BY DEF initialisation
<1>2. ASSUME NEW c \in Class, NEW t \in Thread, Initialising(t, c)
      PROVE  initialisation[c] = t
  <2>1. initialisation[c] = CHOOSE u \in Thread : Initialising(u, c)
    BY <1>2 DEF initialisation
  <2>2. \A u \in Thread : Initialising(u, c) <=> u = t
    BY <1>2 DEF OneOwner
  <2>3. (CHOOSE u \in Thread : Initialising(u, c)) = t
    BY <2>2
  <2>. QED
    BY <2>1, <2>3
<1>3. ASSUME NEW c \in Class, ~Busy(c)
      PROVE  initialisation[c] = IF Claimed(c) THEN Initialised ELSE NotInitialised
  BY <1>3 DEF initialisation, Busy, Claimed
<1>. QED
  BY <1>1, <1>2, <1>3 DEF Meaning

\* The same of the next state.
LEMMA MeaningNext ==
  ASSUME OneOwner' PROVE Meaning'
<1>1. (initialisation = [c \in Class |-> initialisation[c]])'
  BY DEF initialisation
<1>2. ASSUME NEW c \in Class, NEW t \in Thread, Initialising(t, c)'
      PROVE  (initialisation[c] = t)'
  <2>1. (initialisation[c] = CHOOSE u \in Thread : Initialising(u, c))'
    BY <1>2 DEF initialisation
  <2>2. \A u \in Thread : Initialising(u, c)' <=> u = t
    BY <1>2 DEF OneOwner
  <2>3. (CHOOSE u \in Thread : Initialising(u, c)') = t
    BY <2>2
  <2>. QED
    BY <2>1, <2>3
<1>3. ASSUME NEW c \in Class, ~Busy(c)'
      PROVE  (initialisation[c] = IF Claimed(c) THEN Initialised ELSE NotInitialised)'
  BY <1>3 DEF initialisation, Busy, Claimed
<1>. QED
  BY <1>1, <1>2, <1>3 DEF Meaning

\* One frame per class, so one thread per class.
LEMMA OwnerIsUnique ==
  ASSUME WrapperInv PROVE OneOwner
<1>. SUFFICES ASSUME NEW c \in Class, NEW t \in Thread, NEW u \in Thread,
                     Initialising(t, c), Initialising(u, c)
              PROVE  t = u
  BY DEF OneOwner
<1>1. PICK i \in Nat : Working(t, i, c)
  BY InitialisingIsWorking DEF WrapperInv
<1>2. PICK j \in Nat : Working(u, j, c)
  BY InitialisingIsWorking DEF WrapperInv
<1>. QED
  BY <1>1, <1>2 DEF WrapperInv, OneFrameInv

\* The same of the next state.
LEMMA OwnerIsUniqueNext ==
  ASSUME WrapperInv' PROVE OneOwner'
<1>. SUFFICES ASSUME NEW c \in Class, NEW t \in Thread, NEW u \in Thread,
                     Initialising(t, c)', Initialising(u, c)'
              PROVE  t = u
  BY DEF OneOwner
<1>1. PICK i \in Nat : Working(t, i, c)'
  BY InitialisingNext DEF WrapperInv
<1>2. PICK j \in Nat : Working(u, j, c)'
  BY InitialisingNext DEF WrapperInv
<1>. QED
  BY <1>1, <1>2 DEF WrapperInv, OneFrameInv

\* A class that is ready may be accessed.
LEMMA ReadyNow ==
  ASSUME Meaning, NEW t \in Thread, NEW c \in Class, Ready(t, c)
  PROVE  initialisation[c] \in {t, Initialised}
<1>. QED
  BY DEF Meaning, Ready

\* The same of the next state.
LEMMA ReadyNext ==
  ASSUME Meaning', NEW t \in Thread, NEW c \in Class, Ready(t, c)'
  PROVE  initialisation'[c] \in {t, Initialised}
<1>1. CASE Initialising(t, c)'
  BY <1>1 DEF Meaning
<1>2. CASE ~Busy(c)' /\ Claimed(c)'
  BY <1>2 DEF Meaning
<1>. QED
  BY <1>1, <1>2 DEF Ready

\* If the owners stay, so does the mapped state.
LEMMA SameMeaning ==
  ASSUME Meaning, Meaning', SameOwners
  PROVE  initialisation' = initialisation
<1>1. ASSUME NEW c \in Class PROVE initialisation'[c] = initialisation[c]
  <2>1. CASE Busy(c)
    <3>1. PICK t \in Thread : Initialising(t, c)
      BY <2>1 DEF Busy
    <3>2. Initialising(t, c)'
      BY <3>1 DEF SameOwners
    <3>. QED
      BY <3>1, <3>2 DEF Meaning
  <2>2. CASE ~Busy(c)
    <3>1. ~Busy(c)' /\ (Claimed(c)' <=> Claimed(c))
      BY <2>2 DEF SameOwners, Busy
    <3>. QED
      BY <2>2, <3>1 DEF Meaning
  <2>. QED
    BY <2>1, <2>2
<1>. QED
  BY <1>1 DEF Meaning

\* Claiming a class is Begin.
LEMMA BeginRefines ==
  ASSUME Meaning, Meaning', NEW t \in Thread, NEW d \in Class, NewOwner(t, d)
  PROVE  CI!Begin(t, d)
<1>1. initialisation[d] = NotInitialised
  BY DEF NewOwner, Meaning
<1>2. initialisation'[d] = t
  <2>1. Initialising(t, d)'
    BY DEF NewOwner
  <2>. QED
    BY <2>1 DEF Meaning
<1>3. ASSUME NEW c \in Class, c # d PROVE initialisation'[c] = initialisation[c]
  <2>1. CASE Busy(c)
    <3>1. PICK u \in Thread : Initialising(u, c)
      BY <2>1 DEF Busy
    <3>2. Initialising(u, c)'
      BY <3>1 DEF NewOwner
    <3>. QED
      BY <3>1, <3>2 DEF Meaning
  <2>2. CASE ~Busy(c)
    <3>1. ~Busy(c)' /\ (Claimed(c)' <=> Claimed(c))
      BY <1>3, <2>2 DEF NewOwner, Busy
    <3>. QED
      BY <2>2, <3>1 DEF Meaning
  <2>. QED
    BY <2>1, <2>2
<1>4. initialisation' = [initialisation EXCEPT ![d] = t]
  BY <1>2, <1>3 DEF Meaning
<1>. QED
  BY <1>1, <1>4 DEF CI!Begin

\* Finishing with a class is Complete.
LEMMA CompleteRefines ==
  ASSUME Meaning, Meaning', NEW t \in Thread, NEW d \in Class, NoOwner(t, d)
  PROVE  CI!Complete(t, d)
<1>1. initialisation[d] = t
  BY DEF NoOwner, Meaning
<1>2. initialisation'[d] = Initialised
  <2>1. ~Busy(d)' /\ Claimed(d)'
    BY DEF NoOwner, Busy
  <2>. QED
    BY <2>1 DEF Meaning
<1>3. ASSUME NEW c \in Class, c # d PROVE initialisation'[c] = initialisation[c]
  <2>1. CASE Busy(c)
    <3>1. PICK u \in Thread : Initialising(u, c)
      BY <2>1 DEF Busy
    <3>2. Initialising(u, c)'
      BY <1>3, <3>1 DEF NoOwner
    <3>. QED
      BY <3>1, <3>2 DEF Meaning
  <2>2. CASE ~Busy(c)
    <3>1. ~Busy(c)' /\ (Claimed(c)' <=> Claimed(c))
      BY <2>2 DEF NoOwner, Busy
    <3>. QED
      BY <2>2, <3>1 DEF Meaning
  <2>. QED
    BY <2>1, <2>2
<1>4. initialisation' = [initialisation EXCEPT ![d] = Initialised]
  BY <1>2, <1>3 DEF Meaning
<1>. QED
  BY <1>1, <1>4 DEF CI!Complete

\* Every step is a step of the abstract specification, or none.
LEMMA StepRefines ==
  ASSUME WrapperInv, WrapperInv', [Next]_vars
  PROVE  [CI!CINext]_(CI!civars)
<1>1. Meaning /\ Meaning'
  BY OwnerIsUnique, OwnerIsUniqueNext, MeaningNow, MeaningNext
<1>2. CASE UNCHANGED vars
  <2>1. SameOwners
    BY <1>2 DEF vars, globals, SameOwners, Claimed, Initialising
  <2>. QED
    BY <1>1, <1>2, <2>1, SameMeaning DEF vars, CI!civars
<1>3. ASSUME NEW t \in Thread, Step(t) PROVE [CI!CINext]_(CI!civars)
  <2>. DEFINE d == Top(t).class
  <2>0. AnyStep(t)
    BY <1>3, StepShapes DEF AnyStep
  <2>1. CASE Calls(t) \/ Enters(t) \/ RunsClinit(t)
    <3>1. initialisation' = initialisation
      BY <1>1, <2>1, OwnersStay, SameMeaning
    <3>2. accessed' = accessed
      BY <2>1 DEF Calls, Enters, RunsClinit
    <3>. QED
      BY <3>1, <3>2 DEF CI!civars
  <2>2. CASE Starts(t)
    <3>1. d \in Class /\ accessed' = accessed
      BY <2>2, TopFrame DEF Starts, WrapperInv
    <3>2. CI!Begin(t, d)
      BY <1>1, <2>2, <3>1, OwnerStarts, BeginRefines
    <3>. QED
      BY <3>1, <3>2 DEF CI!CINext
  <2>3. CASE Skips(t) \/ Finishes(t)
    <3>1. d \in Class /\ initialisation'[d] \in {t, Initialised}
      BY <1>1, <2>3, ReturnsReady, ReadyNext
    <3>2. accessed' = accessed \/ accessed' = accessed \cup {<<t, d>>}
      BY <2>3 DEF Skips, Finishes, MayAccess
    <3>3. accessed' = accessed \/ CI!Access(t, d)
      BY <3>1, <3>2 DEF CI!Access
    <3>4. CASE Skips(t)
      <4>1. initialisation' = initialisation
        BY <1>1, <3>4, OwnersStay, SameMeaning
      <4>. QED
        BY <3>1, <3>3, <4>1 DEF CI!CINext, CI!civars
    <3>5. CASE Finishes(t)
      <4>1. CI!Complete(t, d)
        BY <1>1, <3>1, <3>5, OwnerEnds, CompleteRefines
      <4>. QED
        BY <3>1, <3>3, <4>1 DEF CI!CINext
    <3>. QED
      BY <2>3, <3>4, <3>5
  <2>. QED
    BY <2>0, <2>1, <2>2, <2>3 DEF AnyStep
<1>. QED
  BY <1>2, <1>3 DEF Next

-----------------------------------------------------------------------------
(* The theorems *)

(***************************************************************************)
(* The wrappers of java_static_initializers.cpp implement the               *)
(* initialisation of classes, with and without java-threading: one thread   *)
(* initialises a class, once, and no other accesses it before that is done. *)
(***************************************************************************)
THEOREM ClassInitializationImplemented ==
  Spec => ImplementsClassInitialization
<1>1. Init => CI!CIInit
  <2>. SUFFICES ASSUME Init PROVE CI!CIInit
    OBVIOUS
  <2>1. WrapperInv
    BY InitInv
  <2>2. Meaning
    BY <2>1, OwnerIsUnique, MeaningNow
  <2>3. \A c \in Class : ~Claimed(c) /\ ~Busy(c)
    <3>1. \A c \in Class : ~Claimed(c)
      BY DEF Init, Claimed
    <3>2. \A c \in Class, t \in Thread : Initialising(t, c) => Claimed(c)
      BY <2>1 DEF WrapperInv, GlobalsInv, Claimed
    <3>. QED
      BY <3>1, <3>2 DEF Busy
  <2>4. initialisation = [c \in Class |-> NotInitialised]
    BY <2>2, <2>3 DEF Meaning
  <2>. QED
    BY <2>4 DEF Init, CI!CIInit
<1>2. WrapperInv /\ WrapperInv' /\ [Next]_vars => [CI!CINext]_(CI!civars)
  BY StepRefines
<1>. QED
  BY <1>1, <1>2, InitInv, NextInv, PTL
  DEF Spec, ImplementsClassInitialization, CI!CISpec

(***************************************************************************)
(* A thread never waits at the assumption of get_thread_safe_clinit_        *)
(* wrapper_body for a class that it is initialising itself.                *)
(***************************************************************************)
THEOREM SelfDeadlockFree ==
  Spec => []NoSelfDeadlock
<1>1. WrapperInv => NoSelfDeadlock
  BY DEF WrapperInv
<1>. QED
  BY <1>1, InitInv, NextInv, PTL DEF Spec

(***************************************************************************)
(* <clinit> is called when each base of the class has been initialised or   *)
(* this thread is doing it (clinit_wrapper_do_recursive_calls).             *)
(***************************************************************************)
THEOREM BasesFirstProved ==
  Spec => []BasesFirst
<1>1. WrapperInv => BasesFirst
  <2>. SUFFICES ASSUME WrapperInv, NEW t \in Thread, NEW c \in Class,
                       NEW i \in DOMAIN stack[t],
                       stack[t][i].class = c, stack[t][i].at = "clinit",
                       NEW j \in DOMAIN bases[c]
                PROVE  initialisation[bases[c][j]] \in {t, Initialised}
    BY DEF BasesFirst
  <2>1. i \in 1 .. Len(stack[t])
    BY TopFrame DEF WrapperInv
  <2>2. bases[c][j] \in Class
    BY DEF WrapperInv, TypeInv
  <2>3. Ready(t, bases[c][j])
    BY <2>1, <2>2, ZenonT(30) DEF WrapperInv, BasesInv, BaseOf, Pending
  <2>. QED
    BY <2>2, <2>3, OwnerIsUnique, MeaningNow, ReadyNow
<1>. QED
  BY <1>1, InitInv, NextInv, PTL DEF Spec
=============================================================================
