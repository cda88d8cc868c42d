------------------------------- MODULE MCDpor -------------------------------
(* Instances of Dpor for TLC.                                              *)
EXTENDS Dpor

CONSTANTS a, b, c, s

L(t, m) == Transition(t, "lock", m)
U(t, m) == Transition(t, "unlock", m)
W(t) == Transition(t, "sem_wait", s)
V(t) == Transition(t, "sem_post", s)
C(t) == Transition(0, "create", t)
J(t) == Transition(0, "join", t)

\* Runners 0, 1, 2 with the operations x, y, z.
Ops(x, y, z) == [t \in Runners |-> <<x, y, z>>[t + 1]]
FromMain(x, y, z) == [live |-> 1, restored |-> FALSE, ops |-> Ops(x, y, z)]
Restored(n, x, y, z) == [live |-> n, restored |-> TRUE, ops |-> Ops(x, y, z)]

\* Two operations of a runner on two mutexes and a semaphore.
OnShared(t) == {L(t, a), U(t, a), L(t, b), U(t, b), W(t), V(t)}
Blocks(t) ==
  {x \in [1..2 -> OnShared(t)] :
     \A i \in 1..2 : x[i].kind = "unlock" => i = 2 /\ x[1] = L(t, x[i].obj)}

\* Something private to runner 0, which sets the operations after it apart from its
\* create and from the first step of the trace.
Apart == <<L(0, c), U(0, c)>>

\* All pairs of blocks, in a program run from main and in one restored from a
\* checkpoint; longer critical sections; three runners.
FoundPrograms ==
  {FromMain(<<C(1)>> \o Apart \o x, y, <<>>) : x \in Blocks(0), y \in Blocks(1)}
    \cup
  {Restored(2, Apart \o x, y, <<>>) : x \in Blocks(0), y \in Blocks(1)}
    \cup
  { FromMain(<<C(1), L(0, a), L(0, b), U(0, b), U(0, a), J(1)>>,
             <<L(1, b), L(1, a), U(1, a), U(1, b)>>, <<>>),
    FromMain(<<C(1), C(2), J(1)>>, <<L(1, a), L(1, b)>>, <<L(2, b), L(2, a)>>),
    FromMain(<<C(1), C(2), V(0)>>, <<W(1)>>, <<W(2)>>),
    Restored(2, <<L(0, a), L(0, b), U(0, b), U(0, a)>>,
             <<L(1, b), L(1, a), U(1, a), U(1, b)>>, <<>>),
    Restored(3, <<V(0)>>, <<W(1)>>, <<W(2)>>) }

\* The race is with a step that directly follows one the other runner is ordered
\* after, or with the first step of all.
MissedPrograms ==
  { FromMain(<<C(1), L(0, a), U(0, a)>>,
             <<L(1, b), L(1, a), W(1), U(1, a), U(1, b)>>, <<>>),
    Restored(2, <<L(0, a), U(0, a)>>, <<L(1, a), W(1), U(1, a)>>, <<>>) }
=============================================================================
