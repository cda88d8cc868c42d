-------------------------------- MODULE Join --------------------------------
(***************************************************************************)
(* How threads end and are joined in a branch process.  A thread that has  *)
(* executed its exit in McMini's model stays alive in the process until a  *)
(* pthread_join on it is scheduled, which gives it permission to go        *)
(* (exit_permission_sem) and then waits for it: with a real join, or, if   *)
(* the thread was recreated after a restart, on its really_exited_sem.     *)
(*                                                                         *)
(* In a process restarted from a checkpoint a thread may have entered its  *)
(* first wrapper before the process became a branch (`window`); it then    *)
(* leaves the wrapper through its restart case.                            *)
(***************************************************************************)
EXTENDS Integers, Sequences

CONSTANTS
  Threads,    \* the threads of the branch
  Main,       \* its main thread
  NoThread,   \* McMini has scheduled nobody
  Joins       \* the joins of every thread, in order: a set of functions

\* Nobody is joined by two threads, or twice by one: that is undefined behaviour.
JoinedOnce(j) ==
  \A t, u \in Threads : \A i \in DOMAIN j[t], k \in DOMAIN j[u] :
    j[t][i] = j[u][k] => t = u /\ i = k

ASSUME JoinAssumption ==
  /\ Main \in Threads /\ NoThread \notin Threads
  /\ Joins \subseteq [Threads -> Seq(Threads)]
  /\ \A j \in Joins : JoinedOnce(j)

VARIABLES
  restarted,  \* the mode is TARGET_BRANCH_AFTER_RESTART, not TARGET_BRANCH
  joins,      \* the joins the program makes
  ends,       \* how a thread ends: "return" or "pthread_exit"
  origin,     \* "created" in this process, or restarted "elsewhere" or "inside"
              \* its first join or exit, or "ended" before the checkpoint
  window,     \* threads that leave their first wrapper through the restart case
  pc, tpc,    \* the operation a thread is at, and where it is in its wrapper
  mailbox, answered, \* the message, and the token on model_side_sem
  perm, really, \* exit_permission_sem and really_exited_sem
  turn, pending, thr \* McMini: the scheduled thread and the model

thread == <<pc, tpc, window>>
program == <<restarted, joins, ends, origin>>
mcmini == <<turn, pending, thr>>
vars == <<program, thread, mailbox, answered, perm, really, mcmini>>

-----------------------------------------------------------------------------
(* Operations.                                                             *)

Op(kind, target) == [kind |-> kind, target |-> target]
Operations == [kind : {"other", "join", "exit", "process_exit"}, target : Threads]

\* The operation after n others: a start or some other operation, the joins, and
\* the exit, which for the main thread is that of the process.
OpAt(t, n) ==
  CASE n = 0 -> Op("other", t)
    [] n \in DOMAIN joins[t] -> Op("join", joins[t][n])
    [] OTHER -> Op(IF t = Main THEN "process_exit" ELSE "exit", t)

Cur(t) == OpAt(t, pc[t])

\* mc_pthread_is_recreated_thread: the thread has checked in after the restart.
IsRecreated(t) == restarted /\ origin[t] \in {"elsewhere", "inside"}

Origins ==
  IF restarted THEN {"created", "elsewhere", "inside", "ended"} ELSE {"created"}

Init ==
  /\ restarted \in BOOLEAN
  /\ joins \in Joins
  /\ ends \in [Threads -> {"return", "pthread_exit"}]
  /\ origin \in [Threads -> Origins]
  /\ origin[Main] # "ended" /\ (restarted => origin[Main] # "created")
  /\ \A t \in Threads : origin[t] = "ended" =>
       \A i \in DOMAIN joins[t] : origin[joins[t][i]] = "ended"
  /\ window = {t \in Threads : origin[t] = "inside"}
  /\ pc = [t \in Threads |-> IF origin[t] = "inside" THEN 1 ELSE 0]
  /\ tpc = [t \in Threads |-> IF origin[t] = "ended" THEN "dead" ELSE "await"]
  /\ mailbox = [t \in Threads |-> Cur(t)]
  /\ answered = [t \in Threads |-> FALSE]
  /\ perm = [t \in Threads |-> 0] /\ really = [t \in Threads |-> 0]
  /\ turn = NoThread
  /\ pending = mailbox
  /\ thr = [t \in Threads |-> IF origin[t] = "ended" THEN "exited" ELSE "running"]

-----------------------------------------------------------------------------
(* McMini.                                                                 *)

EnabledIn(t) ==
  /\ thr[t] = "running"
  /\ pending[t].kind = "join" => thr[pending[t].target] = "exited"
  /\ pending[t].kind # "process_exit"

Schedule(t) ==
  /\ turn = NoThread /\ EnabledIn(t)
  /\ turn' = t
  /\ tpc' = [tpc EXCEPT ![t] = "go"]
  /\ UNCHANGED <<program, pc, window, mailbox, answered, perm, really, pending, thr>>

\* The answer: the model executes the pending transition and takes the message
\* for the next one.
Receive(t) ==
  /\ turn = t /\ answered[t]
  /\ answered' = [answered EXCEPT ![t] = FALSE]
  /\ thr' = IF pending[t].kind = "exit" THEN [thr EXCEPT ![t] = "exited"] ELSE thr
  /\ pending' = [pending EXCEPT ![t] = mailbox[t]]
  /\ turn' = NoThread
  /\ UNCHANGED <<program, thread, mailbox, perm, really>>

-----------------------------------------------------------------------------
(* The wrappers.                                                           *)

\* The wrapper returns, and the thread runs into the next one, which announces its
\* operation and waits.
Advance(t) ==
  /\ pc' = [pc EXCEPT ![t] = @ + 1]
  /\ mailbox' = [mailbox EXCEPT ![t] = OpAt(t, pc[t] + 1)]
  /\ answered' = [answered EXCEPT ![t] = TRUE]
  /\ tpc' = [tpc EXCEPT ![t] = "await"]

Goto(t, s) == tpc' = [tpc EXCEPT ![t] = s] /\ UNCHANGED pc

At(t, s, kind) == tpc[t] = s /\ Cur(t).kind = kind

\* thread_start, or any other operation
Other(t) ==
  /\ At(t, "go", "other")
  /\ Advance(t)
  /\ UNCHANGED <<program, window, perm, really, mcmini>>

\* The restart case of mc_pthread_join returns at once.
JoinInWindow(t) ==
  /\ At(t, "go", "join") /\ t \in window
  /\ Advance(t)
  /\ window' = window \ {t}
  /\ UNCHANGED <<program, perm, really, mcmini>>

\* Seeded fault: the target is not told that it may go.
GrantNothing(t) ==
  /\ At(t, "go", "join") /\ t \notin window
  /\ Goto(t, "joining")
  /\ UNCHANGED <<program, window, mailbox, answered, perm, really, mcmini>>

\* Seeded fault: permission is given twice.
GrantTwice(t) ==
  /\ At(t, "go", "join") /\ t \notin window
  /\ perm' = [perm EXCEPT ![Cur(t).target] = @ + 2]
  /\ Goto(t, "joining")
  /\ UNCHANGED <<program, window, mailbox, answered, really, mcmini>>

\* The target may go.
Grant(t) ==
  /\ At(t, "go", "join") /\ t \notin window
  /\ perm' = [perm EXCEPT ![Cur(t).target] = @ + 1]
  /\ Goto(t, "joining")
  /\ UNCHANGED <<program, window, mailbox, answered, really, mcmini>>

\* A thread created in this process is joined for real, one that ended before the
\* checkpoint not at all.
JoinForReal(t) ==
  LET target == Cur(t).target
  IN  /\ At(t, "joining", "join") /\ ~IsRecreated(target)
      /\ origin[target] = "created" => tpc[target] = "dead"
      /\ Advance(t)
      /\ UNCHANGED <<program, window, perm, really, mcmini>>

\* Seeded fault: the joiner does not wait for a thread it cannot join for real.
JoinRecreatedAtOnce(t) ==
  /\ At(t, "joining", "join") /\ IsRecreated(Cur(t).target)
  /\ Advance(t)
  /\ UNCHANGED <<program, window, perm, really, mcmini>>

JoinRecreated(t) ==
  LET target == Cur(t).target
  IN  /\ At(t, "joining", "join") /\ IsRecreated(target) /\ really[target] > 0
      /\ really' = [really EXCEPT ![target] = @ - 1]
      /\ Advance(t)
      /\ UNCHANGED <<program, window, perm, mcmini>>

\* The restart case of mc_thread_routine_wrapper: the routine has returned, the
\* thread writes its exit again and waits to be scheduled again, without an answer.
ReturnInWindow(t) ==
  /\ At(t, "go", "exit") /\ t \in window /\ ends[t] = "return"
  /\ Goto(t, "await")
  /\ window' = window \ {t}
  /\ UNCHANGED <<program, mailbox, answered, perm, really, mcmini>>

\* The restart case of mc_pthread_exit falls through into the usual one, which
\* announces the exit once more.
PthreadExitInWindow(t) ==
  /\ At(t, "go", "exit") /\ t \in window /\ ends[t] = "pthread_exit"
  /\ answered' = [answered EXCEPT ![t] = TRUE]
  /\ Goto(t, "await")
  /\ window' = window \ {t}
  /\ UNCHANGED <<program, mailbox, perm, really, mcmini>>

\* mc_exit_thread_in_child: the last round is answered without a new message, ...
ExitThread(t) ==
  /\ At(t, "go", "exit") /\ t \notin window
  /\ answered' = [answered EXCEPT ![t] = TRUE]
  /\ Goto(t, "parting")
  /\ UNCHANGED <<program, window, mailbox, perm, really, mcmini>>

\* Seeded fault: the thread ends without waiting for a joiner.
PartUnasked(t) ==
  /\ tpc[t] = "parting"
  /\ really' = [really EXCEPT ![t] = @ + 1]
  /\ Goto(t, "dead")
  /\ UNCHANGED <<program, window, mailbox, answered, perm, mcmini>>

\* ... and the thread ends once it has been joined.
Part(t) ==
  /\ tpc[t] = "parting" /\ perm[t] > 0
  /\ perm' = [perm EXCEPT ![t] = @ - 1]
  /\ really' = [really EXCEPT ![t] = @ + 1]
  /\ Goto(t, "dead")
  /\ UNCHANGED <<program, window, mailbox, answered, mcmini>>

Thread(t) ==
  \/ Other(t) \/ JoinInWindow(t) \/ Grant(t) \/ JoinForReal(t) \/ JoinRecreated(t)
  \/ ReturnInWindow(t) \/ PthreadExitInWindow(t) \/ ExitThread(t) \/ Part(t)

Next == \E t \in Threads : Schedule(t) \/ Receive(t) \/ Thread(t)

Spec == Init /\ [][Next]_vars

\* The operating system runs every thread that can go on; whom McMini schedules is
\* left open.
FairSpec == Spec /\ \A t \in Threads : WF_vars(Receive(t)) /\ WF_vars(Thread(t))

-----------------------------------------------------------------------------
(* Properties.                                                             *)

\* Types; a semaphore never holds more than the one token its only waiter takes.
TypeOK ==
  /\ pc \in [Threads -> Nat]
  /\ tpc \in [Threads -> {"await", "go", "joining", "parting", "dead"}]
  /\ window \subseteq Threads
  /\ mailbox \in [Threads -> Operations] /\ pending \in [Threads -> Operations]
  /\ answered \in [Threads -> BOOLEAN]
  /\ perm \in [Threads -> 0..1] /\ really \in [Threads -> 0..1]
  /\ turn \in Threads \cup {NoThread}
  /\ thr \in [Threads -> {"running", "exited"}]

\* The joins a thread has been through or is in the middle of.
Begun(t) ==
  {joins[t][i] : i \in {j \in DOMAIN joins[t] :
                          j < pc[t] \/ (j = pc[t] /\ tpc[t] = "joining")}}

\* A thread that exits in the branch is there, its pthread_t valid, until somebody
\* joins it, and only then ends (mc_exit_thread_in_child).
LivesUntilJoined ==
  \A t \in Threads : tpc[t] = "dead" /\ origin[t] # "ended" =>
    \E u \in Threads : t \in Begun(u)

\* Once a join has returned, the joined thread has ended, whichever of the three
\* ways of waiting was taken: the code after pthread_join never runs beside it.
\* Excepted is a join that returned through the restart case, which does not wait.
JoinWaits ==
  \A t \in Threads : \A i \in DOMAIN joins[t] :
    i < pc[t] /\ ~(i = 1 /\ origin[t] = "inside") => tpc[joins[t][i]] = "dead"

\* A thread restarted inside its exit: its routine had returned before the process
\* became a branch, or it had called pthread_exit.
ExitedInWindow(t, how) == origin[t] = "inside" /\ joins[t] = <<>> /\ ends[t] = how

\* Every round of McMini ends, except that it waits for ever (1) for the exit of a
\* thread whose routine had returned in the window, which is never answered, and
\* (2) for the join of a thread that had called pthread_exit in the window: its exit
\* is announced twice, the model never schedules the second one, and
\* really_exited_sem is never posted.
RoundsEnd ==
  <>[](turn # NoThread) =>
    <>[](\E t \in Threads :
           /\ turn = t
           /\ \/ ExitedInWindow(t, "return")
              \/ Cur(t).kind = "join" /\ ExitedInWindow(Cur(t).target, "pthread_exit"))

-----------------------------------------------------------------------------
(* The inductive invariant behind LivesUntilJoined and JoinWaits.          *)

ProgramInv ==
  /\ joins \in Joins
  /\ origin \in [Threads -> {"created", "elsewhere", "inside", "ended"}]
  /\ ~restarted => \A t \in Threads : origin[t] = "created"

\* A thread outside its wrapper's wait has the turn; the mailbox holds the operation
\* it is at, and so does the model unless an answer is on its way.  A thread that
\* has left its last wait has exited in the model, or is about to.
RoundInv ==
  \A t \in Threads :
    /\ tpc[t] \in {"go", "joining"} => turn = t /\ ~answered[t]
    /\ answered[t] => turn = t
    /\ mailbox[t] = Cur(t)
    /\ ~answered[t] => pending[t] = mailbox[t]
    /\ tpc[t] \in {"parting", "dead"} =>
         thr[t] = "exited" \/ (answered[t] /\ pending[t].kind = "exit")

WindowInv ==
  /\ \A t \in window : origin[t] = "inside" /\ pc[t] = 1 /\ tpc[t] \in {"await", "go"}
  /\ \A t \in Threads : tpc[t] = "joining" => Cur(t).kind = "join"

\* Both semaphores: permission to go comes from a join that has begun, and who has
\* really exited is no longer there.
TokenInv ==
  \A u \in Threads :
    /\ perm[u] > 0 => \E t \in Threads : u \in Begun(t)
    /\ really[u] > 0 \/ origin[u] = "ended" => tpc[u] = "dead"

IInv ==
  /\ TypeOK
  /\ ProgramInv
  /\ RoundInv
  /\ WindowInv
  /\ TokenInv
  /\ LivesUntilJoined
  /\ JoinWaits
=============================================================================
