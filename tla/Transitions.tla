----------------------------- MODULE Transitions -----------------------------
(***************************************************************************)
(* McMini's model of a program: the states of its threads, mutexes and     *)
(* semaphores, and the visible operations ("transitions").  A transition   *)
(* is a partial function on states; its `modify` is given here as the set  *)
(* of states it produces, which is empty where it is disabled.  Condition  *)
(* variables have a module of their own, CondVar.                          *)
(***************************************************************************)
EXTENDS Naturals

CONSTANTS
  MaxRunners,   \* MAX_TOTAL_THREADS_IN_PROGRAM
  Mutexes,
  Semaphores,
  SemCount      \* the value the program gives to sem_init

ASSUME TransitionsAssumption ==
  /\ MaxRunners \in Nat \ {0}
  /\ SemCount \in Nat

Runners == 0..(MaxRunners - 1)
Main == 0                 \* RID_MAIN_THREAD
NoRunner == MaxRunners    \* RID_INVALID

\* A mutex is its owner: an uninitialized one behaves as an unlocked one.
States == [thr : [Runners -> {"embryo", "running", "exited"}],
           mtx : [Mutexes -> Runners \cup {NoRunner}],
           sem : [Semaphores -> Nat]]

Transition(t, kind, obj) == [by |-> t, kind |-> kind, obj |-> obj]
Start(t) == Transition(t, "start", t)

\* The transitions of the model: the object fits the operation.
Operations ==
  {tr \in [by : Runners,
           kind : {"mutex_init", "lock", "unlock", "sem_init", "sem_post", "sem_wait", "create",
                   "join", "start", "exit", "abort", "process_exit", "exit_failure"},
           obj : Runners \cup {NoRunner} \cup Mutexes \cup Semaphores] :
     /\ tr.kind \in {"mutex_init", "lock", "unlock"} => tr.obj \in Mutexes
     /\ tr.kind \in {"sem_init", "sem_post", "sem_wait"} => tr.obj \in Semaphores
     /\ tr.kind \in {"create", "join"} => tr.obj \in Runners}

Produces(guard, s) == IF guard THEN {s} ELSE {}

\* An initialization unlocks the mutex, whoever holds it.
MutexInit(s, m) == {[s EXCEPT !.mtx[m] = NoRunner]}

MutexLock(s, t, m) ==
  Produces(s.mtx[m] = NoRunner, [s EXCEPT !.mtx[m] = t])

MutexUnlock(s, t, m) ==
  Produces(s.mtx[m] = t, [s EXCEPT !.mtx[m] = NoRunner])

SemInit(s, x) == {[s EXCEPT !.sem[x] = SemCount]}

SemPost(s, x) == {[s EXCEPT !.sem[x] = @ + 1]}

SemWait(s, x) == Produces(s.sem[x] > 0, [s EXCEPT !.sem[x] = @ - 1])

ThreadCreate(s, u) == {[s EXCEPT !.thr[u] = "running"]}

ThreadStart(s, t) == Produces(s.thr[t] # "embryo", s)

ThreadJoin(s, u) == Produces(s.thr[u] = "exited", s)

\* The main thread never exits.
ThreadExit(s, t) ==
  Produces(s.thr[t] = "running" /\ t # Main, [s EXCEPT !.thr[t] = "exited"])

\* exit(3), successful or not, ends the thread that calls it.
ProcessExit(s, t) == {[s EXCEPT !.thr[t] = "exited"]}

ProcessAbort(s) == {s}

Modify(s, tr) ==
  CASE tr.kind = "mutex_init" -> MutexInit(s, tr.obj)
    [] tr.kind = "lock"       -> MutexLock(s, tr.by, tr.obj)
    [] tr.kind = "unlock"     -> MutexUnlock(s, tr.by, tr.obj)
    [] tr.kind = "sem_init"   -> SemInit(s, tr.obj)
    [] tr.kind = "sem_post"   -> SemPost(s, tr.obj)
    [] tr.kind = "sem_wait"   -> SemWait(s, tr.obj)
    [] tr.kind = "create"     -> ThreadCreate(s, tr.obj)
    [] tr.kind = "start"      -> ThreadStart(s, tr.by)
    [] tr.kind = "join"       -> ThreadJoin(s, tr.obj)
    [] tr.kind = "exit"       -> ThreadExit(s, tr.by)
    [] tr.kind = "abort"      -> ProcessAbort(s)
    [] tr.kind \in {"process_exit", "exit_failure"} -> ProcessExit(s, tr.by)

\* apply_to: whoever is not active does nothing.
ApplyTo(s, tr) == IF s.thr[tr.by] = "running" THEN Modify(s, tr) ELSE {}

\* is_enabled_in
Enabled(s, tr) == ApplyTo(s, tr) # {}
=============================================================================
