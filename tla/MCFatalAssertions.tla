------------------------- MODULE MCFatalAssertions --------------------------
(***************************************************************************)
(* Small instances of FatalAssertions: two functions, the second of which  *)
(* the first may call, and which may call itself.                          *)
(***************************************************************************)
EXTENDS FatalAssertions

CONSTANTS main, f,        \* functions
          fatal, plain    \* properties

Default == [type |-> "END_FUNCTION", targets |-> {}, constant |-> FALSE,
            callee |-> NoFunction, fatal |-> FALSE, property_id |-> plain]

Assert(id) == [Default EXCEPT !.type = "ASSERT", !.fatal = (id = fatal),
                              !.property_id = id]
Call(g) == [Default EXCEPT !.type = "FUNCTION_CALL", !.callee = g]
Goto(i, always) == [Default EXCEPT !.type = "GOTO", !.targets = {i},
                                   !.constant = always]
Spawn(i) == [Default EXCEPT !.type = "START_THREAD", !.targets = {i}]
Other(type) == [Default EXCEPT !.type = type, !.constant = TRUE]

\* main has loops and calls, and f has the instructions that may have no
\* successor.  END_FUNCTION is added.
MainInstructions ==
  {Assert(fatal), Assert(plain), Call(f), Call(NoFunction), Goto(1, FALSE),
   Goto(4, TRUE)}
FInstructions ==
  {Assert(fatal), Assert(plain), Call(f), Spawn(3), Other("THROW"),
   Other("END_THREAD"), Other("ASSUME")}

Bodies(n, instructions) == {Append(b, Default) : b \in [1 .. n -> instructions]}

MCPrograms == {[g \in Function |-> IF g = main THEN b1 ELSE b2] :
                 b1 \in Bodies(3, MainInstructions),
                 b2 \in Bodies(2, FInstructions)}

\* Programs without branches, whose assertions are all executed if f is called and
\* is not recursive.
MCStraightPrograms ==
  {[g \in Function |-> IF g = main THEN b1 ELSE b2] :
     b1 \in Bodies(2, {Assert(plain), Call(f)}),
     b2 \in Bodies(1, {Assert(fatal)})}

MCStatuses == [PropertyId -> {"PASS", "FAIL"}]
=============================================================================
