------------------------------ MODULE LockStep ------------------------------
(***************************************************************************)
(* What the mailbox protocol promises, without semaphores, futexes and     *)
(* signals: the verifier hands the turn to one thread, that thread reaches *)
(* exactly one further visible operation, the verifier learns of it and    *)
(* has the turn again.  The verifier may start over when it has the turn.  *)
(***************************************************************************)
EXTENDS Naturals

CONSTANTS Threads, Verifier

VARIABLES
  turn,     \* who may act: the verifier or one thread
  op,       \* the operation each thread is at
  pending   \* the operation the verifier believes each thread is at

lockStepVars == <<turn, op, pending>>

Start(t) == [no |-> 0, kind |-> "start", of |-> t]

Init ==
  /\ turn = Verifier
  /\ op = [t \in Threads |-> Start(t)]
  /\ pending = op

Grant(t) ==
  /\ turn = Verifier
  /\ turn' = t
  /\ UNCHANGED <<op, pending>>

\* The thread moves on by one operation, once per turn; an exiting thread has
\* no further operation.
Advance(t) ==
  /\ turn = t
  /\ op[t] = pending[t] /\ op[t].kind # "exit"
  /\ \E k \in {"op", "create", "exit"}, u \in Threads :
       op' = [op EXCEPT ![t] = [no |-> op[t].no + 1, kind |-> k, of |-> u]]
  /\ UNCHANGED <<turn, pending>>

\* The verifier takes over what the thread has reached.
Return(t) ==
  /\ turn = t
  /\ op[t] # pending[t] \/ op[t].kind = "exit"
  /\ pending' = [pending EXCEPT ![t] = op[t]]
  /\ turn' = Verifier
  /\ UNCHANGED op

\* The verifier gives the branch up for a new one, in which all starts over.
Restart ==
  /\ turn = Verifier
  /\ op' = [t \in Threads |-> Start(t)]
  /\ pending' = op'
  /\ UNCHANGED turn

Next == (\E t \in Threads : Grant(t) \/ Advance(t) \/ Return(t)) \/ Restart

Spec == Init /\ [][Next]_lockStepVars
=============================================================================
