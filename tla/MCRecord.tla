------------------------------ MODULE MCRecord ------------------------------
(* Instances of Record for TLC.                                            *)
EXTENDS Record

CONSTANTS main, t1, t2, mutex, sem, cond

MCThreads == {main, t1, t2}

P(a, b, d) == [t \in MCThreads |-> CASE t = main -> a [] t = t1 -> b [] t = t2 -> d]

Create(t) == Op("create", t, 0)
Join(t) == Op("join", t, 0)
Lock == Op("lock", mutex, 0)
Unlock == Op("unlock", mutex, 0)
InitM == Op("mutex_init", mutex, 0)
Post == Op("sem_post", sem, 0)
Wait == Op("sem_wait", sem, 0)
InitS(n) == Op("sem_init", sem, n)
DestroyS == Op("sem_destroy", sem, 0)
InitC == Op("cond_init", cond, 0)
DestroyC == Op("cond_destroy", cond, 0)
CWait == Op("cond_wait", cond, mutex)
Signal == Op("cond_signal", cond, 0)
Bcast == Op("cond_broadcast", cond, 0)
PExit == Op("pthread_exit", NoThread, 0)
Abort == Op("abort", NoThread, 0)

\* Contended mutex; semaphore as a lock and as a counter; condition variable with a
\* signal, with a broadcast and destroyed; every way in which a thread ends; an
\* unlock of a mutex nobody has locked.
MCPrograms == {
  P(<<InitM, Create(t1), Create(t2), Lock, Unlock, Join(t1)>>, <<Lock, Unlock>>,
    <<Lock, Unlock>>),
  P(<<InitS(1), Create(t1), Create(t2), Wait, Post, Join(t1)>>, <<Wait, Post>>,
    <<Post, Wait>>),
  P(<<Create(t1), Lock, Signal, Unlock, Join(t1), DestroyC>>, <<Lock, CWait, Unlock>>,
    <<>>),
  P(<<InitC, Create(t1), Create(t2), Lock, Bcast, Unlock>>, <<Lock, CWait, Unlock>>,
    <<Lock, CWait, Unlock>>),
  P(<<InitC, Create(t1), Wait, DestroyS, DestroyC, Create(t2), Join(t2), Abort>>, <<Post, PExit>>,
    <<Lock, Unlock>>),
  P(<<Unlock>>, <<>>, <<>>)}

\* The programs satisfy what the theorems of RecordProofs ask of a program, except
\* that the last one unlocks what it has not locked.
ASSUME MCProgramsAssumption ==
  /\ \A p \in MCPrograms : InitializedFirst(p)
  /\ Cardinality({p \in MCPrograms : LocksProperly(p)}) = Cardinality(MCPrograms) - 1
=============================================================================
