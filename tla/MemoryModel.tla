----------------------------- MODULE MemoryModel ----------------------------
(***************************************************************************)
(* How CBMC encodes the executions of a program with threads               *)
(* (goto-symex/partial_order_concurrency.cpp, memory_model.cpp,            *)
(* memory_model_sc.cpp, memory_model_tso.cpp, memory_model_pso.cpp), and   *)
(* the executions themselves.                                              *)
(*                                                                         *)
(* Symbolic execution leaves a list of events.  The encoding says from     *)
(* which write each read takes its value and puts constraints on the       *)
(* clocks of the events; the solver looks for clocks.  The executions are  *)
(* those of a machine: with sequential consistency (sc) writes go to the   *)
(* memory, with tso through a queue of each thread, and with pso a write   *)
(* may also leave the queue before earlier ones to other addresses.        *)
(*                                                                         *)
(* The specification encodes one program and then runs the machine in all  *)
(* possible ways at once: `configs` are the configurations it may be in.   *)
(***************************************************************************)
EXTENDS Naturals, Sequences, FiniteSets, FiniteSetsExt, SequencesExt

CONSTANTS Address,
          Models,     \* a subset of {"sc", "tso", "pso"}
          Programs    \* lists of events, in the order of symbolic execution

\* The events of SSA_steps that have to do with threads: shared reads and writes,
\* spawns of threads and memory barriers.  A guard is 0 (true) or the read whose
\* value must not be 0.  An initial write (see below) has a nondeterministic value, so
\* addresses that need one are not read by guards.
Event ==
  [type : {"READ", "WRITE", "SPAWN", "BARRIER"},
   thread : Nat,
   address : Address,                         \* READ, WRITE
   value : Nat,                               \* WRITE
   fence : SUBSET {"RR", "RW", "WR", "WW"},   \* BARRIER
   guard : Nat,
   atomic_section_id : Nat]                   \* 0: not in an atomic section

\* Barriers are full or order writes only.  An atomic section has at most three
\* events.  The k-th spawn starts thread k.
ASSUME MemoryModelAssumption ==
  /\ Models \subseteq {"sc", "tso", "pso"}
  /\ \A p \in Programs :
       /\ p \in Seq(Event)
       /\ \A e \in DOMAIN p :
            /\ p[e].fence \in {{}, {"WW"}, {"RR", "RW", "WR", "WW"}}
            /\ p[e].guard \in 0..(e - 1)
            /\ p[e].guard # 0 => p[p[e].guard].type = "READ" /\ p[p[e].guard].guard = 0
       /\ \A s \in {p[e].atomic_section_id : e \in DOMAIN p} \ {0} :
            Cardinality({e \in DOMAIN p : p[e].atomic_section_id = s}) <= 3

VARIABLES
  model, program,
  pc,          \* "encode", "run", "done"
  events,      \* the program with its initial writes
  configs,     \* of the machine
  outcomes     \* from where the reads of complete executions read

vars == <<model, program, pc, events, configs, outcomes>>

-----------------------------------------------------------------------------
(* partial_order_concurrencyt *)

Is(p, type) == {e \in DOMAIN p : p[e].type = type}
Accesses(p) == Is(p, "READ") \cup Is(p, "WRITE")
SameAddress(p, e1, e2) == p[e1].address = p[e2].address
SameThread(p, e1, e2) == p[e1].thread = p[e2].thread
SameSection(p, e1, e2) ==
  p[e1].atomic_section_id # 0 /\ p[e1].atomic_section_id = p[e2].atomic_section_id

\* The first accesses to addresses that have no value at this point.
Uninitialised(p) ==
  {e \in Accesses(p) :
     /\ \A d \in Accesses(p) : d < e => ~SameAddress(p, d, e)
     /\ (\E d \in Is(p, "SPAWN") : d < e) \/ p[e].type = "READ" \/ p[e].guard # 0}

add_init_writes(p) ==
  LET firsts == SetToSortSeq(Uninitialised(p), <)
      init(e) == [p[e] EXCEPT !.type = "WRITE", !.guard = 0, !.atomic_section_id = 0]
      shifted(e) == [p[e] EXCEPT !.guard = IF @ = 0 THEN 0 ELSE @ + Len(firsts)]
  IN  [i \in DOMAIN firsts |-> init(firsts[i])] \o [e \in DOMAIN p |-> shifted(e)]

\* memory_model_baset::po
po(p, e1, e2) == SameThread(p, e1, e2) /\ e1 < e2

\* Mutant: one bit less.
address_bits_short(size) == Min({b \in 0..size : 2 ^ (b + 1) >= size})

\* build_clock_type
address_bits(size) == Min({b \in 1..size : 2 ^ b >= size})

\* Mutant: the events of an atomic section are ordered like all others.
HaveClocksInSections(p, constraints, axiom) ==
  \E cs \in {{c[2] : c \in {b \in constraints : b[1] = axiom}}} :
    LET ordered == DOMAIN p \ Is(p, "BARRIER")
        smaller(e) == {c[1] : c \in {d \in cs : d[2] = e}}
        below[clock \in Nat] ==
          IF clock = 0 THEN {}
          ELSE UNION {{e : e \in {d \in ordered : smaller(d) \subseteq placed}} :
                        placed \in {below[clock - 1]}}
    IN  below[2 ^ address_bits(Cardinality(ordered))] = ordered

\* before: a constraint <<axiom, <<e1, e2>>>> says that the clock of e1 for this axiom
\* is smaller than that of e2, or equal in one atomic section.  The values of
\* clock_type are enough to satisfy the constraints if every event gets one when
\* each is given the smallest that is possible.
HaveClocks(p, constraints, axiom) ==
  \E cs \in {{c[2] : c \in {b \in constraints : b[1] = axiom}}} :
    LET ordered == DOMAIN p \ Is(p, "BARRIER")
        tied(e) == {d \in ordered : d = e \/ /\ SameSection(p, d, e)
                                             /\ <<d, e>> \in cs \/ <<e, d>> \in cs}
        class(e) == IF p[e].atomic_section_id = 0 THEN {e}
                    ELSE UNION {tied(d) : d \in tied(e)}
        smaller(e) == {c[1] : c \in {d \in cs : /\ d[2] \in class(e)
                                                /\ ~SameSection(p, d[1], d[2])}}
        below[clock \in Nat] ==   \* the events whose clock is smaller than this
          IF clock = 0 THEN {}
          ELSE UNION {{e : e \in {d \in ordered : smaller(d) \subseteq placed}} :
                        placed \in {below[clock - 1]}}
    IN  below[2 ^ address_bits(Cardinality(ordered))] = ordered

-----------------------------------------------------------------------------
(* memory_model_baset, memory_model_sct, memory_model_tsot, memory_model_psot *)

\* The events whose guard is true if the reads read from rf.
Executed(p, rf) ==
  {e \in DOMAIN p : p[e].guard = 0 \/ p[rf[p[e].guard]].value # 0}

\* read_from: a read whose guard is true reads from a write whose guard is true and
\* that does not come later in the same thread; 0 if the guard is false.
ReadFroms(p) ==
  LET sources(r) == {w \in Is(p, "WRITE") : SameAddress(p, r, w) /\ ~po(p, r, w)}
      all == {rf \in [Is(p, "READ") -> DOMAIN p \cup {0}] :
                \A r \in Is(p, "READ") :
                  rf[r] \in sources(r) \cup (IF p[r].guard = 0 THEN {} ELSE {0})}
  IN  {rf \in all :
         \A r \in Is(p, "READ") :
           IF r \in Executed(p, rf) THEN rf[r] \in Executed(p, rf) ELSE rf[r] = 0}

rf_order(p, rf) ==
  {<<rf[r], r>> : r \in {q \in Is(p, "READ") : rf[q] # 0 /\ ~SameThread(p, rf[q], q)}}

\* The pairs for which write_serialization_external has a choice symbol.
ExternalWrites(p) ==
  {c \in Is(p, "WRITE") \X Is(p, "WRITE") :
     c[1] < c[2] /\ SameAddress(p, c[1], c[2]) /\ ~SameThread(p, c[1], c[2])}

\* ws are the pairs whose choice symbol is true.
write_serialization_external(p, ws) ==
  ws \cup {<<c[2], c[1]>> : c \in ExternalWrites(p) \ ws}

\* The order of the writes to one address.
CoherenceOrder(p, ws) ==
  write_serialization_external(p, ws)
  \cup {c \in Is(p, "WRITE") \X Is(p, "WRITE") :
          SameAddress(p, c[1], c[2]) /\ po(p, c[1], c[2])}

\* Mutant: only the writes of other threads are taken into account.
from_read_external(p, rf, ws) ==
  LET executed == Executed(p, rf)
      order == write_serialization_external(p, ws)
  IN  {c \in (Is(p, "READ") \cap executed) \X (Is(p, "WRITE") \cap executed) :
         <<rf[c[1]], c[2]>> \in order}

\* A read comes before the writes that come after the one it reads from.
from_read(p, rf, ws) ==
  LET executed == Executed(p, rf)
      order == CoherenceOrder(p, ws)
  IN  {c \in (Is(p, "READ") \cap executed) \X (Is(p, "WRITE") \cap executed) :
         <<rf[c[1]], c[2]>> \in order}

\* The spawn of a thread comes before all its events.
thread_spawn(p) ==
  {c \in Is(p, "SPAWN") \X (DOMAIN p \ Is(p, "BARRIER")) :
     p[c[2]].thread = Cardinality({s \in Is(p, "SPAWN") : s <= c[1]})}

\* memory_model_sct::program_order
program_order_sc(p) ==
  LET ordered == DOMAIN p \ Is(p, "BARRIER")
  IN  {c \in ordered \X ordered :
         po(p, c[1], c[2]) /\ ~\E e \in ordered : po(p, c[1], e) /\ po(p, e, c[2])}

\* memory_model_tsot, memory_model_psot
program_order_is_relaxed(m, p, e1, e2) ==
  /\ ~SameSection(p, e1, e2)
  /\ p[e1].type = "WRITE"
  /\ m = "tso" => p[e2].type = "READ"
  /\ m = "pso" => ~(p[e2].type = "WRITE" /\ SameAddress(p, e1, e2))

\* mb_guard_r, mb_guard_w: a barrier between the events restores their order.
Fenced(p, rf, e1, e2) ==
  \E b \in Is(p, "BARRIER") \cap Executed(p, rf) :
    /\ po(p, e1, b) /\ po(p, b, e2)
    /\ p[b].fence \cap (IF p[e1].type = "READ" THEN {"RR", "RW"} ELSE {"WR", "WW"}) # {}
    /\ p[b].fence \cap (IF p[e2].type = "READ" THEN {"RR", "WR"} ELSE {"RW", "WW"}) # {}

\* memory_model_tsot::program_order: pairs up to the next spawn.  A spawn is ordered
\* with the events before and after it,
SpawnOrder(p) ==
  {c \in (DOMAIN p \ Is(p, "BARRIER")) \X (DOMAIN p \ Is(p, "BARRIER")) :
     /\ po(p, c[1], c[2])
     /\ {c[1], c[2]} \cap Is(p, "SPAWN") # {}
     /\ ~\E s \in Is(p, "SPAWN") : po(p, c[1], s) /\ po(p, s, c[2])}

\* and the others are ordered in one of the two clocks.
InOrder(p) ==
  {c \in Accesses(p) \X Accesses(p) :
     po(p, c[1], c[2]) /\ ~\E s \in Is(p, "SPAWN") : po(p, c[1], s) /\ po(p, s, c[2])}

LocationOrder(p) == {c \in InOrder(p) : SameAddress(p, c[1], c[2])}

PropagationOrder(m, p, rf) ==
  {c \in InOrder(p) \ LocationOrder(p) :
     program_order_is_relaxed(m, p, c[1], c[2]) => Fenced(p, rf, c[1], c[2])}

\* operator(): the constraints if the reads read from rf and the choices for the
\* order of writes are ws.
Axioms(m) == IF m = "sc" THEN {"propagation"} ELSE {"sc_per_location", "propagation"}

Constraints(m, p, rf, ws) ==
  (Axioms(m) \X (rf_order(p, rf) \cup write_serialization_external(p, ws)
                 \cup from_read(p, rf, ws) \cup thread_spawn(p)))
  \cup IF m = "sc" THEN {"propagation"} \X program_order_sc(p)
       ELSE (Axioms(m) \X SpawnOrder(p))
            \cup ({"sc_per_location"} \X LocationOrder(p))
            \cup ({"propagation"} \X PropagationOrder(m, p, rf))

Satisfiable(m, p, rf, ws) ==
  \A axiom \in Axioms(m) : HaveClocks(p, Constraints(m, p, rf, ws), axiom)

\* A solution in which the reads read from rf.
IsSolution(m, p, rf) == \E ws \in SUBSET ExternalWrites(p) : Satisfiable(m, p, rf, ws)

-----------------------------------------------------------------------------
(* The machine *)

Threads(p) == {p[e].thread : e \in DOMAIN p}

\* Memory and queues hold writes (events), and barriers for writes are queued too.
InitialConfig(original, p) ==
  LET inits == Len(p) - Len(original)
      writes(a) == {w \in 1..inits : p[w].address = a}
  IN  [done |-> 1..inits,
       memory |-> [a \in Address |-> IF writes(a) = {} THEN 0 ELSE Max(writes(a))],
       queue |-> [t \in Threads(p) |-> <<>>],
       rf |-> [r \in Is(p, "READ") |-> 0]]

\* The next events of the threads that have been started.
NextEvents(p, c) ==
  {e \in DOMAIN p \ c.done :
     /\ \A d \in DOMAIN p : po(p, d, e) => d \in c.done
     /\ Cardinality(Is(p, "SPAWN") \cap c.done) >= p[e].thread}

\* A read sees the last write of its thread to the address that is in the queue.
Source(p, c, r) ==
  LET own == SelectSeq(c.queue[p[r].thread],
                       LAMBDA w : p[w].type = "WRITE" /\ SameAddress(p, w, r))
  IN  IF own # <<>> THEN Last(own) ELSE c.memory[p[r].address]

\* The event is executed; the result is empty if it has to wait.
Execute(m, p, c, e) ==
  LET next == [c EXCEPT !.done = @ \cup {e}]
      enqueued == [next EXCEPT !.queue[p[e].thread] = Append(@, e)]
      flushed == c.queue[p[e].thread] = <<>>
  IN  IF p[e].guard # 0 /\ p[c.rf[p[e].guard]].value = 0 THEN {next}
      ELSE CASE p[e].type = "READ" -> {[next EXCEPT !.rf[e] = Source(p, c, e)]}
             [] p[e].type = "WRITE" ->
                  {IF m = "sc" THEN [next EXCEPT !.memory[p[e].address] = e] ELSE enqueued}
             [] p[e].type = "BARRIER" /\ "WR" \notin p[e].fence ->
                  {IF m = "pso" THEN enqueued ELSE next}
             [] OTHER -> {d \in {next} : flushed}

\* An atomic section is executed at once.
ExecuteNext(m, p, c, e) ==
  LET section == SetToSortSeq({d \in DOMAIN p : d = e \/ SameSection(p, d, e)}, <)
  IN  FoldLeft(LAMBDA cs, d : UNION {Execute(m, p, b, d) : b \in cs}, {c}, section)

\* The i-th entry of a queue takes effect.
Flush(m, p, c, t, i) ==
  LET e == c.queue[t][i]
      rest == [c EXCEPT !.queue[t] = RemoveAt(@, i)]
      passes(d) == p[d].type = "WRITE" /\ p[e].type = "WRITE" /\ ~SameAddress(p, d, e)
  IN  IF i # 1 /\ ~(m = "pso" /\ \A j \in 1..(i - 1) : passes(c.queue[t][j])) THEN {}
      ELSE IF p[e].type = "BARRIER" THEN {rest}
      ELSE {[rest EXCEPT !.memory[p[e].address] = e]}

Successors(m, p, c) ==
  UNION ({ExecuteNext(m, p, c, e) : e \in NextEvents(p, c)}
         \cup {UNION {Flush(m, p, c, t, i) : i \in DOMAIN c.queue[t]} : t \in Threads(p)})

-----------------------------------------------------------------------------

Init ==
  /\ model \in Models
  /\ program \in Programs
  /\ pc = "encode"
  /\ events = <<>> /\ configs = {} /\ outcomes = {}

\* operator() of the memory model
Encode ==
  /\ pc = "encode"
  /\ events' = add_init_writes(program)
  /\ configs' = {InitialConfig(program, events')}
  /\ pc' = "run"
  /\ UNCHANGED <<model, program, outcomes>>

Run ==
  /\ pc = "run" /\ configs # {}
  /\ configs' = UNION {Successors(model, events, c) : c \in configs}
  /\ outcomes' = outcomes \cup {c.rf : c \in {d \in configs : d.done = DOMAIN events}}
  /\ UNCHANGED <<model, program, pc, events>>

Finish ==
  /\ pc = "run" /\ configs = {}
  /\ pc' = "done"
  /\ UNCHANGED <<model, program, events, configs, outcomes>>

Finished == pc = "done" /\ UNCHANGED vars

Next == Encode \/ Run \/ Finish \/ Finished

Spec == Init /\ [][Next]_vars

-----------------------------------------------------------------------------
(* Properties *)

\* Types; in particular, a read that is executed has a write to read from
\* (add_init_writes, read_from).
TypeOK ==
  /\ pc \in {"encode", "run", "done"}
  /\ \A e \in DOMAIN events : events[e] \in Event
  /\ \A c \in configs : c.done \subseteq DOMAIN events
  /\ \A rf \in outcomes :
       /\ DOMAIN rf = Is(events, "READ")
       /\ \A r \in DOMAIN rf : r \in Executed(events, rf) => rf[r] \in Is(events, "WRITE")

\* With tso and pso the machine has no atomic sections.
Comparable(m, p) == m = "sc" \/ \A e \in DOMAIN p : p[e].atomic_section_id = 0

\* No execution is missed: from where the reads of an execution read is a solution
\* (operator() of the memory models).
NoExecutionMissed ==
  pc = "done" /\ Comparable(model, events)
    => \A rf \in outcomes : IsSolution(model, events, rf)

\* No execution is invented: a solution is what some execution does, so a failing
\* assertion is real (operator() of the memory models).
NoSpuriousExecution ==
  pc = "done" /\ Comparable(model, events)
    => \A rf \in ReadFroms(events) \ outcomes : ~IsSolution(model, events, rf)

\* In all models an atomic section that reads and writes an address is not
\* interrupted by a write to the address: what it reads is the last write before
\* its own (partial_order_concurrencyt::before).
AtomicSectionsAreAtomic ==
  pc = "done" =>
    \A r \in Is(events, "READ"), w, other \in Is(events, "WRITE") :
      /\ SameSection(events, r, w) /\ SameAddress(events, r, w)
      /\ ~SameThread(events, w, other) /\ SameAddress(events, w, other)
      => \A rf \in ReadFroms(events), ws \in SUBSET ExternalWrites(events) :
           /\ {r, w, other} \subseteq Executed(events, rf)
           /\ <<rf[r], other>> \in CoherenceOrder(events, ws)
           /\ <<other, w>> \in CoherenceOrder(events, ws)
           => ~Satisfiable(model, events, rf, ws)
=============================================================================
