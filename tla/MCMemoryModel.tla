--------------------------- MODULE MCMemoryModel ----------------------------
EXTENDS MemoryModel

CONSTANTS x, y

MCAddress == {x, y}

\* Events of a thread body; the threads and guards are filled in by Program.
E0 == [type |-> "READ", thread |-> 0, address |-> x, value |-> 0, fence |-> {},
       guard |-> 0, atomic_section_id |-> 0]
Read(a) == [E0 EXCEPT !.address = a]
Write(a) == [E0 EXCEPT !.type = "WRITE", !.address = a, !.value = 1]
Zero(a) == [E0 EXCEPT !.type = "WRITE", !.address = a]
Spawn == [E0 EXCEPT !.type = "SPAWN"]
Barrier == [E0 EXCEPT !.type = "BARRIER", !.fence = {"RR", "RW", "WR", "WW"}]
WriteBarrier == [E0 EXCEPT !.type = "BARRIER", !.fence = {"WW"}]

\* The first event, a read, is the guard of event e.
If(e) == [e EXCEPT !.guard = 1]
Atomic(es) == [i \in DOMAIN es |-> [es[i] EXCEPT !.atomic_section_id = 1]]

Placed(body, t, offset) ==
  [i \in DOMAIN body |->
     [body[i] EXCEPT !.thread = t,
                     !.guard = IF @ = 0 THEN 0 ELSE @ + offset,
                     !.atomic_section_id = IF @ = 0 THEN 0 ELSE @ + 2 * t]]

\* The main thread runs a prefix, which ends with a spawn, and the first body.
Program(prefix, main, body) ==
  prefix \o Placed(main, 0, Len(prefix)) \o Placed(body, 1, Len(prefix) + Len(main))

Initialise == <<Zero(x), Zero(y), Spawn>>

Access == {Read(x), Read(y), Write(x), Write(y)}
Bodies2 == {<<a, b>> : a, b \in Access}
Bodies3 == {<<a, b, c>> : a, b, c \in Access}
BarrierBodies ==
  {<<b[1], f, b[2]>> : b \in {c \in Bodies2 : c[1].address # c[2].address},
                       f \in {Barrier, WriteBarrier}}
GuardedBodies ==
  {<<Read(a), If(b)>> : a \in MCAddress, b \in {Read(x), Write(x), Write(y)}}
  \cup {<<Read(y), Write(x), If(Barrier), Read(y)>>}
AtomicBodies ==
  {Atomic(<<Read(a), Write(a)>>) : a \in MCAddress}
  \cup {<<Write(y)>> \o Atomic(b) :
          b \in {<<Read(x), Write(x)>>, <<Read(x), Write(y)>>, <<Read(x), Read(y), Write(x)>>}}
  \cup {Atomic(<<Read(x), Write(x)>>) \o <<Read(y)>>}

\* By symmetry of the addresses, the first body starts with x.
FromX(bodies) == {b \in bodies : b[1].address = x}

\* Where an address has no value before the spawn, there are initial writes.
MCPrograms ==
  {Program(prefix, m, b) : prefix \in {Initialise, <<Spawn>>, <<Read(y), Zero(x), Spawn>>},
                           m \in FromX(Bodies2), b \in Bodies2}
  \cup {Program(Initialise, m, b) :
          m \in {<<Write(x), Write(y)>>, <<Write(x), Read(y)>>, <<Read(x), Read(x)>>},
          b \in Bodies3}
  \cup {Program(Initialise, m, b) :
          m \in FromX(BarrierBodies), b \in Bodies2 \cup BarrierBodies}
  \cup {Program(Initialise, m, b) :
          m \in FromX(GuardedBodies), b \in BarrierBodies \cup GuardedBodies}
  \cup {Program(Initialise, m, b) : m \in AtomicBodies,
                                   b \in Bodies2 \cup {Atomic(<<Read(x), Write(x)>>)}}
  \cup {<<Zero(x), Zero(y), Spawn, Spawn>> \o Placed(m, 0, 4)
          \o Placed(<<Write(x)>>, 1, 6) \o Placed(b, 2, 7) :
          m \in {c \in Bodies2 : c[1].type = "READ"}, b \in {c \in Bodies2 : c[1].type = "READ"}}
=============================================================================
