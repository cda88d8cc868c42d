------------------------------- MODULE Mailbox -------------------------------
(***************************************************************************)
(* The lock-step protocol between the McMini process and the threads of a  *)
(* branch process.  Every thread shares one `runner_mailbox` with McMini:  *)
(* a glibc semaphore `model_side_sem` on which McMini waits, a raw futex   *)
(* word `child_side_sem` on which the thread waits, and a message          *)
(* (`type`, `cnts`) in which the thread announces its next visible         *)
(* operation.  `local_linux_process::execute_runner` lets one thread run   *)
(* up to its next visible operation; `coordinator::execute_runner` then    *)
(* reads the message and advances the model.  A SIGCHLD handler, running   *)
(* in McMini's signal thread, posts the semaphore McMini is waiting on.    *)
(* To backtrack, McMini destroys the handle of the branch, which kills it, *)
(* resets the mailboxes and starts another branch; the signal thread runs  *)
(* on meanwhile.                                                           *)
(***************************************************************************)
EXTENDS Naturals, FiniteSets

CONSTANTS
  Threads,      \* runner ids of the branch process
  Main,         \* RID_MAIN_THREAD
  NoMailbox,    \* where current_sem points before the first round: at
                \* tpt->mcmini_process_sem (fork_process_source) or nowhere;
                \* no round ever waits for a post on it
  MaxOps,       \* bound: a thread is not run past MaxOps[thread] operations
  MaxNoise,     \* bound: SIGCHLDs caused by descendants other than the branch
  MaxRestarts,  \* bound: how often McMini replaces the branch by a new one
  DirectChild,  \* is the branch a child of McMini (dmtcp_process_source) or of
                \* the template (fork_process_source)?
  Deaths        \* ways in which the branch may die under McMini's feet

ASSUME MailboxAssumption ==
  /\ Main \in Threads
  /\ NoMailbox \notin Threads
  /\ MaxOps \in [Threads -> Nat]
  /\ MaxNoise \in Nat
  /\ MaxRestarts \in Nat
  /\ DirectChild \in BOOLEAN
  /\ Deaths \subseteq {"signal", "exit0", "exitN"}

VARIABLES
  vpc,      \* where McMini's main thread is
  cur,      \* the runner execute_runner was called with
  sem,      \* signal_tracker::current_sem
  flags,    \* signal_tracker::flags[SIGCHLD]
  hpc,      \* where the SIGCHLD handler is
  hsem,     \* the semaphore the handler has loaded
  sig,      \* is a SIGCHLD pending for McMini?
  noise,    \* SIGCHLDs generated so far by other descendants
  msem,     \* value of every model_side_sem, and of current_sem's first target
  word,     \* value of every child_side_sem
  type,     \* the message in every mailbox
  tpc,      \* where every thread is
  op,       \* the visible operation every thread is really at
  pending,  \* model: next_steps
  status,   \* model: the state of every thread object
  death,    \* how the branch died, or "none"
  zombies,  \* dead descendants other than the branch, not yet waited for
  image,    \* the threads that every branch starts with
  restarts, \* how many branches were replaced
  start     \* history: what the signal thread had left over of the previous
            \* branch when this one started ("clean": nothing)

vars == <<vpc, cur, sem, flags, hpc, hsem, sig, noise, msem, word, type, tpc,
          op, pending, status, death, zombies, image, restarts, start>>
mcminiVars == <<vpc, cur, sem, pending, status>>
signalVars == <<flags, hpc, hsem, sig, noise>>
threadVars == <<word, type, tpc, op, death>>
branchVars == <<zombies, image, restarts, start>>

Sems == Threads \cup {NoMailbox}

\* A visible operation: the how-many-th of its thread, its kind and, for
\* `pthread_create`, the created thread.
Ops == [no : Nat, kind : {"start", "op", "create", "exit"}, of : Threads]
StartOp(t) == [no |-> 0, kind |-> "start", of |-> t]

\* McMini between two rounds: replacing the branch, or choosing a runner.
Replacing == {"consume", "drain", "reset"}
Between == {"idle"} \cup Replacing
Errors == {"termination_error", "nonzero_exit_code_error", "execution_error"}

TypeOK ==
  /\ vpc \in {"add", "futex_wake", "wait", "check", "waitpid", "read"}
             \cup Between \cup Errors
  /\ cur \in Threads
  /\ sem \in Sems /\ hsem \in Sems
  /\ flags \in Nat /\ noise \in 0..MaxNoise
  /\ hpc \in {"idle", "load", "post"}
  /\ sig \in BOOLEAN
  /\ msem \in [Sems -> Nat] /\ word \in [Threads -> Nat]
  /\ tpc \in [Threads -> {"embryo", "run", "finish", "post", "load", "cas",
                          "futex_wait", "sleep", "gone"}]
  /\ type \in [Threads -> Ops]
  /\ op \in [Threads -> Ops]
  /\ pending \in [Threads -> Ops]
  /\ status \in [Threads -> {"embryo", "running", "exited"}]
  /\ death \in {"none", "killed", "signal", "exit0", "exitN"}
  /\ zombies \in Nat /\ restarts \in 0..MaxRestarts
  /\ image \in SUBSET Threads
  /\ start \in {"clean", "late", "stray"}

(***************************************************************************)
(* The first branch.  Its image is the main thread at the start of main    *)
(* (program::starting_from_main) or every recorded thread, waiting in      *)
(* thread_await_scheduler at the operation it announced after the restart. *)
(* A branch forked from the template always starts like this: any count    *)
(* McMini consumes there ends in an error, so that no handler has been     *)
(* active when make_new_process finds the counter at 0 (TokenInv of module *)
(* Template), and current_sem then points at mcmini_process_sem.  A branch *)
(* restarted from the checkpoint starts like this only the first time.     *)
(***************************************************************************)
Init ==
  /\ image \in SUBSET Threads /\ Main \in image
  /\ vpc = "idle" /\ cur = Main /\ sem = NoMailbox /\ hsem = NoMailbox
  /\ flags = 0 /\ noise = 0 /\ hpc = "idle" /\ sig = FALSE
  /\ msem = [s \in Sems |-> 0] /\ word = [t \in Threads |-> 0]
  /\ tpc = [t \in Threads |-> IF t \in image THEN "load" ELSE "embryo"]
  /\ op = [t \in Threads |-> StartOp(t)]
  /\ type = op /\ pending = op
  /\ status = [t \in Threads |-> IF t \in image THEN "running" ELSE "embryo"]
  /\ death = "none" /\ zombies = 0 /\ restarts = 0 /\ start = "clean"

-----------------------------------------------------------------------------
(* McMini's main thread.                                                   *)

\* is_enabled_in: the executor is active, and the main thread never exits.
Schedulable(t) ==
  /\ status[t] = "running"
  /\ ~ (t = Main /\ pending[t].kind = "exit")

\* execute_runner is called: current_sem is pointed at t's model_side_sem.
ExecuteRunner(t) ==
  /\ vpc = "idle"
  /\ Schedulable(t)
  /\ pending[t].no < MaxOps[t] \/ pending[t].kind = "exit"
  /\ cur' = t /\ sem' = t
  /\ vpc' = "add"
  /\ UNCHANGED <<branchVars, signalVars, threadVars, msem, pending, status>>

\* mc_wake_thread: the atomic increment of child_side_sem ...
WakeThreadAdd ==
  /\ vpc = "add"
  /\ word' = [word EXCEPT ![cur] = @ + 1]
  /\ vpc' = "futex_wake"
  /\ UNCHANGED <<branchVars, signalVars, cur, sem, msem, type, tpc, op,
                 pending, status, death>>

\* ... followed by FUTEX_WAKE, which wakes the thread only if it sleeps.
WakeThreadFutex ==
  /\ vpc = "futex_wake"
  /\ tpc' = [tpc EXCEPT ![cur] = IF @ = "sleep" THEN "load" ELSE @]
  /\ vpc' = "wait"
  /\ UNCHANGED <<branchVars, signalVars, cur, sem, msem, word, type, op,
                 pending, status, death>>

\* Seeded fault: the return code of the semaphore wait is ignored.
SigSemwaitUnchecked ==
  /\ vpc = "wait"
  /\ msem' = [msem EXCEPT ![cur] = @ - 1]
  /\ vpc' = "check"
  /\ UNCHANGED <<branchVars, signalVars, threadVars, cur, sem, pending,
                 status>>

\* sig_semwait on the scheduled runner's model_side_sem.
SigSemwait ==
  /\ vpc = "wait"
  /\ msem[cur] > 0
  /\ msem' = [msem EXCEPT ![cur] = @ - 1]
  /\ vpc' = "check"
  /\ UNCHANGED <<branchVars, signalVars, threadVars, cur, sem, pending,
                 status>>

\* try_consume_signal(SIGCHLD) fails: the thread has answered.
NoSignal ==
  /\ vpc = "check"
  /\ flags = 0
  /\ vpc' = "read"
  /\ UNCHANGED <<branchVars, signalVars, threadVars, msem, cur, sem, pending,
                 status>>

\* Seeded fault: any SIGCHLD is taken for the thread's answer.
ConsumeSignalUnchecked ==
  /\ vpc = "check"
  /\ flags > 0
  /\ flags' = flags - 1
  /\ vpc' = "read"
  /\ UNCHANGED <<branchVars, threadVars, hpc, hsem, sig, noise, msem, cur, sem,
                 pending, status>>

\* try_consume_signal(SIGCHLD) succeeds: somebody died.
ConsumeSignal ==
  /\ vpc = "check"
  /\ flags > 0
  /\ flags' = flags - 1
  /\ vpc' = "waitpid"
  /\ UNCHANGED <<branchVars, threadVars, hpc, hsem, sig, noise, msem, cur, sem,
                 pending, status>>

\* What execute_runner does about the status that waitpid found.
Outcome(how) ==
  CASE how = "none"   -> "wait"
    [] how = "signal" -> "termination_error"
    [] how = "exitN"  -> "nonzero_exit_code_error"
    [] OTHER          -> "execution_error"

\* waitpid(this->pid, &status, WNOHANG): it fails with ECHILD, dead or not, when
\* the branch is the template's child.
Waitpid ==
  /\ vpc = "waitpid"
  /\ vpc' = IF DirectChild THEN Outcome(death) ELSE "execution_error"
  /\ UNCHANGED <<branchVars, signalVars, threadVars, msem, cur, sem, pending,
                 status>>

\* coordinator::execute_runner: the message becomes the runner's pending
\* transition and the transition that was pending is applied to the model.
ReadMailbox ==
  /\ vpc = "read"
  /\ LET done == pending[cur]
     IN  status' = CASE done.kind = "create" -> [status EXCEPT ![done.of] = "running"]
                     [] done.kind = "exit"   -> [status EXCEPT ![cur] = "exited"]
                     [] OTHER                -> status
  /\ pending' = [pending EXCEPT ![cur] = type[cur]]
  /\ vpc' = "idle"
  /\ UNCHANGED <<branchVars, signalVars, threadVars, msem, cur, sem>>

\* ~local_linux_process of a branch that is McMini's child: kill the branch and
\* waitpid for it.  Its death is signalled unless it was dead already.
DestroyHandle ==
  /\ DirectChild /\ vpc = "idle"
  /\ restarts < MaxRestarts
  /\ death' = "killed"
  /\ sig' = (sig \/ death = "none")
  /\ vpc' = "consume"
  /\ restarts' = restarts + 1
  /\ UNCHANGED <<zombies, image, start, cur, sem, flags, hpc, hsem, noise, msem, word,
                 type, tpc, op, pending, status>>

TryConsumeSignal == flags' = IF flags > 0 THEN flags - 1 ELSE 0

\* try_consume_signal for the SIGCHLD of that death, if the signal thread has
\* counted it yet; the handler may still be on its way to sem_post.
ConsumeExpected ==
  /\ vpc = "consume"
  /\ TryConsumeSignal
  /\ vpc' = "drain"
  /\ UNCHANGED <<branchVars, threadVars, hpc, hsem, sig, noise, msem, cur, sem,
                 pending, status>>

\* while (waitpid(-1, WNOHANG) > 0) try_consume_signal.
DrainZombies ==
  /\ vpc = "drain"
  /\ IF zombies > 0
       THEN zombies' = zombies - 1 /\ TryConsumeSignal /\ vpc' = vpc
       ELSE vpc' = "reset" /\ UNCHANGED <<zombies, flags>>
  /\ UNCHANGED <<threadVars, hpc, hsem, sig, noise, msem, cur, sem, pending,
                 status, image, restarts, start>>

\* A branch is started from the checkpoint; the signal thread's state and
\* current_sem stay as they are.  The rounds that replay the trace are rounds
\* like any other, so that the model starts over as well.
StartBranch ==
  /\ vpc = "reset"
  /\ vpc' = "idle" /\ cur' = Main
  /\ tpc' = [t \in Threads |-> IF t \in image THEN "load" ELSE "embryo"]
  /\ op' = [t \in Threads |-> StartOp(t)]
  /\ type' = op' /\ pending' = op'
  /\ status' = [t \in Threads |-> IF t \in image THEN "running" ELSE "embryo"]
  /\ death' = "none"
  /\ start' = IF hpc # "idle" /\ flags = 0 THEN "stray"
              ELSE IF hpc # "idle" \/ flags > 0 \/ sig THEN "late" ELSE "clean"
  /\ UNCHANGED <<signalVars, sem, zombies, image, restarts>>

\* Seeded fault: the new branch inherits the mailboxes of the old one.
NewBranchNoReset == StartBranch /\ UNCHANGED <<msem, word>>

\* dmtcp_process_source::make_new_process: all mailboxes are reset first.
NewBranch ==
  /\ StartBranch
  /\ msem' = [s \in Sems |-> 0] /\ word' = [t \in Threads |-> 0]

McMini ==
  \/ WakeThreadAdd \/ WakeThreadFutex \/ SigSemwait
  \/ NoSignal \/ ConsumeSignal \/ Waitpid \/ ReadMailbox
  \/ ConsumeExpected \/ DrainZombies \/ NewBranch

-----------------------------------------------------------------------------
(* McMini's signal thread: signal_tracker_sig_handler.  SIGCHLD is a       *)
(* standard signal: it is pending at most once and is blocked while its    *)
(* handler runs.                                                           *)

\* set_signal: the handler starts and counts the signal.
HandlerSetSignal ==
  /\ hpc = "idle" /\ sig
  /\ sig' = FALSE
  /\ flags' = flags + 1
  /\ hpc' = "load"
  /\ UNCHANGED <<branchVars, mcminiVars, threadVars, hsem, noise, msem>>

\* The handler reads current_sem ...
HandlerLoadSem ==
  /\ hpc = "load"
  /\ hsem' = sem
  /\ hpc' = "post"
  /\ UNCHANGED <<branchVars, mcminiVars, threadVars, flags, sig, noise, msem>>

\* Seeded fault: the handler counts the signal but wakes nobody.
HandlerNoPost ==
  /\ hpc = "post"
  /\ hpc' = "idle"
  /\ UNCHANGED <<branchVars, mcminiVars, threadVars, flags, hsem, sig, noise,
                 msem>>

\* ... and posts the semaphore it read.
HandlerPost ==
  /\ hpc = "post"
  /\ msem' = [msem EXCEPT ![hsem] = @ + 1]
  /\ hpc' = "idle" /\ hsem' = NoMailbox
  /\ UNCHANGED <<branchVars, mcminiVars, threadVars, flags, sig, noise>>

Handler == HandlerSetSignal \/ HandlerLoadSem \/ HandlerPost

\* A SIGCHLD that is not about a branch: that of an orphan of a branch, such as
\* its DMTCP coordinator, or one relayed by the template.
OtherDescendantDies ==
  /\ noise < MaxNoise
  /\ noise' = noise + 1 /\ zombies' = zombies + 1
  /\ sig' = TRUE
  /\ UNCHANGED <<image, restarts, start, mcminiVars, threadVars, flags, hpc,
                 hsem, msem>>

-----------------------------------------------------------------------------
(* Threads of the branch process.                                          *)

Alive == death = "none"

\* The thread runs up to its next visible operation, which it writes into
\* its mailbox.  A thread that was scheduled to exit has none.
Announce(t, o) ==
  /\ Alive /\ tpc[t] = "run"
  /\ op[t].kind # "exit"
  /\ op' = [op EXCEPT ![t] = o]
  /\ type' = [type EXCEPT ![t] = o]
  /\ UNCHANGED <<branchVars, mcminiVars, signalVars, msem, word, death>>

\* Seeded fault: the wrapper forgets to write the mailbox.
VisibleOpNoMessage(t, kind) ==
  /\ Alive /\ tpc[t] = "run" /\ op[t].kind # "exit"
  /\ op' = [op EXCEPT ![t] = [no |-> op[t].no + 1, kind |-> kind, of |-> t]]
  /\ tpc' = [tpc EXCEPT ![t] = "post"]
  /\ UNCHANGED <<branchVars, mcminiVars, signalVars, msem, word, type, death>>

\* A wrapper writes its type and contents and calls
\* thread_wake_scheduler_and_wait.
VisibleOp(t, kind) ==
  /\ Announce(t, [no |-> op[t].no + 1, kind |-> kind, of |-> t])
  /\ tpc' = [tpc EXCEPT ![t] = "post"]

\* mc_pthread_create: the new thread really exists, and has registered itself
\* and gone to thread_await_scheduler, before the creator announces it.
CreateThread(t, u) ==
  /\ tpc[u] = "embryo"
  /\ Announce(t, [no |-> op[t].no + 1, kind |-> "create", of |-> u])
  /\ tpc' = [tpc EXCEPT ![t] = "post", ![u] = "load"]

\* mc_exit_thread_in_child after its first round: the answer is posted without
\* a new message, and the thread never waits for the scheduler again.
FinishExit(t) ==
  /\ Alive /\ tpc[t] = "run"
  /\ op[t].kind = "exit"
  /\ tpc' = [tpc EXCEPT ![t] = "finish"]
  /\ UNCHANGED <<branchVars, mcminiVars, signalVars, msem, word, type, op,
                 death>>

\* mc_wake_scheduler.
WakeScheduler(t) ==
  /\ Alive /\ tpc[t] \in {"post", "finish"}
  /\ msem' = [msem EXCEPT ![t] = @ + 1]
  /\ tpc' = [tpc EXCEPT ![t] = IF @ = "finish" THEN "gone" ELSE "load"]
  /\ UNCHANGED <<branchVars, mcminiVars, signalVars, word, type, op, death>>

\* mc_raw_sem_wait: load the futex word; go for the CAS if it is positive.
LoadWord(t) ==
  /\ Alive /\ tpc[t] = "load"
  /\ tpc' = [tpc EXCEPT ![t] = IF word[t] > 0 THEN "cas" ELSE "futex_wait"]
  /\ UNCHANGED <<branchVars, mcminiVars, signalVars, msem, word, type, op,
                 death>>

\* The CAS that decrements the word.  Only this thread decrements it; should
\* McMini have raised it since the load, the CAS fails and the loop loads again.
CasWord(t) ==
  /\ Alive /\ tpc[t] = "cas"
  /\ word[t] > 0
  /\ word' = [word EXCEPT ![t] = @ - 1]
  /\ tpc' = [tpc EXCEPT ![t] = "run"]
  /\ UNCHANGED <<branchVars, mcminiVars, signalVars, msem, type, op, death>>

\* Seeded fault: sleep without re-checking the word, as a plain pause() would.
FutexWaitUnchecked(t) ==
  /\ Alive /\ tpc[t] = "futex_wait"
  /\ tpc' = [tpc EXCEPT ![t] = "sleep"]
  /\ UNCHANGED <<branchVars, mcminiVars, signalVars, msem, word, type, op,
                 death>>

\* FUTEX_WAIT(0): the kernel re-checks the word and fails with EAGAIN.
FutexWait(t) ==
  /\ Alive /\ tpc[t] = "futex_wait"
  /\ tpc' = [tpc EXCEPT ![t] = IF word[t] = 0 THEN "sleep" ELSE "load"]
  /\ UNCHANGED <<branchVars, mcminiVars, signalVars, msem, word, type, op,
                 death>>

\* FUTEX_WAIT returns with EINTR: the loop starts over.
FutexInterrupted(t) ==
  /\ Alive /\ tpc[t] = "sleep"
  /\ tpc' = [tpc EXCEPT ![t] = "load"]
  /\ UNCHANGED <<branchVars, mcminiVars, signalVars, msem, word, type, op,
                 death>>

\* The target program crashes or exits behind the wrappers' back.
Die(t, how) ==
  /\ Alive /\ tpc[t] = "run"
  /\ death' = how
  /\ sig' = TRUE
  /\ UNCHANGED <<branchVars, mcminiVars, flags, hpc, hsem, noise, msem, word,
                 type, tpc, op>>

\* The steps a thread always takes when it is not blocked.
ThreadStep(t) ==
  \/ \E kind \in {"op", "exit"} : VisibleOp(t, kind)
  \/ \E u \in Threads : CreateThread(t, u)
  \/ FinishExit(t) \/ WakeScheduler(t)
  \/ LoadWord(t) \/ CasWord(t) \/ FutexWait(t)

-----------------------------------------------------------------------------
Next ==
  \/ \E t \in Threads : ExecuteRunner(t)
  \/ DestroyHandle
  \/ McMini
  \/ Handler
  \/ OtherDescendantDies
  \/ \E t \in Threads : ThreadStep(t) \/ FutexInterrupted(t)
  \/ \E t \in Threads, how \in Deaths : Die(t, how)

Spec == Init /\ [][Next]_vars

\* Every thread, McMini and its signal thread are scheduled by the kernel, and
\* the code of the target between two visible operations terminates.
Fairness ==
  /\ WF_vars(McMini)
  /\ WF_vars(Handler)
  /\ \A t \in Threads : WF_vars(ThreadStep(t))

FairSpec == Spec /\ Fairness

-----------------------------------------------------------------------------
InRound == vpc \in {"add", "futex_wake", "wait", "check", "waitpid", "read"}

\* Single stepping: however SIGCHLDs, futex wake-ups and semaphore posts
\* interleave, code of the target runs only in the thread execute_runner was
\* last called with, and only after McMini released it and before McMini goes
\* on: McMini takes no post of the signal handler for a thread's answer, and
\* none that was left over by an earlier branch.  The exception is a branch
\* started while a post was under way whose count the destructor of the old
\* handle had already taken back.
SingleStep ==
  start # "stray" =>
    \A t \in Threads :
      tpc[t] \in {"cas", "run", "post", "finish"} =>
        /\ cur = t
        /\ vpc \in {"futex_wake", "wait", "check", "waitpid"} \cup Errors

\* Between two calls of execute_runner the model is a true picture of the
\* branch: each thread that is active in the model exists, has not left the
\* protocol (except the main thread, which is never scheduled after it
\* exits) and is parked at exactly the operation that is pending in the model.
\* The exception is that of SingleStep.
ModelMatchesBranch ==
  vpc = "idle" /\ start # "stray" =>
    \A t \in Threads : status[t] = "running" =>
      /\ op[t] = pending[t]
      /\ tpc[t] \in {"load", "futex_wait", "sleep"}

\* No lost wake-up: a thread asleep in FUTEX_WAIT although its word was raised
\* is about to be woken by the FUTEX_WAKE of the same mc_raw_sem_post.
NoLostWakeup ==
  \A t \in Threads :
    tpc[t] = "sleep" /\ word[t] > 0 => cur = t /\ vpc = "futex_wake"

Parked(t) == tpc[t] \in {"embryo", "load", "futex_wait", "sleep", "gone"}
Released == vpc \notin Between \cup {"add"}
Answered == Released /\ word[cur] = 0 /\ Parked(cur)

\* Every call of execute_runner returns or throws, with one exception (besides
\* that of SingleStep): the thread has answered, and its answer was taken for the
\* SIGCHLD of another descendant, or of the branch before this one, that had
\* been counted but posted to another mailbox.
RoundEnds ==
  []<> ~ InRound
    \/ <>[] \/ start = "stray"
            \/ vpc = "wait" /\ Answered /\ (noise > 0 \/ start = "late")

\* The death of the branch is always noticed, even when its SIGCHLD merges with
\* the one of another descendant or lands on another mailbox's semaphore.  The
\* exception is that of SingleStep: the branch may then die behind McMini's back.
DeathNoticed ==
  death \notin {"none", "killed"} ~> (vpc \in Errors \/ start = "stray")

\* What the handler and the destructor take for granted, that a post too many
\* does no harm and that an expected death leaves nothing behind: when
\* execute_runner returns, the thread it was called with has answered.
AnswersAreReal == vpc = "read" => Answered

-----------------------------------------------------------------------------
(* The inductive invariant behind SingleStep and the refinement.  Every    *)
(* token in a semaphore is accounted for: it stems from one SIGCHLD that   *)
(* is still counted in `flags`, or it is the answer of the scheduled       *)
(* thread.  (Counts without a token are left over when the reset wipes the *)
(* token away.)  Tokens can be on three semaphores only: the one           *)
(* execute_runner waits on, the one it waited on before, and the one that  *)
(* the handler had loaded when the branch was started.                     *)

WordInv ==
  /\ \A t \in Threads : t # cur \/ ~ Released => word[t] = 0 /\ Parked(t)
  /\ Released =>
       \/ word[cur] = 1 /\ (Parked(cur) \/ tpc[cur] = "cas")
       \/ word[cur] = 0 /\ tpc[cur] \in {"run", "post", "finish"}
       \/ Answered

MessageInv ==
  /\ type = op
  /\ \A t \in Threads : t # cur \/ ~ Released => op[t] = pending[t]
  /\ Released =>
       CASE tpc[cur] = "post"   -> op[cur].no = pending[cur].no + 1
         [] tpc[cur] = "finish" -> op[cur] = pending[cur] /\ op[cur].kind = "exit"
         [] Answered -> \/ op[cur].no = pending[cur].no + 1
                        \/ op[cur] = pending[cur] /\ op[cur].kind = "exit"
         [] OTHER -> op[cur] = pending[cur]

RoundInv ==
  /\ vpc \notin Between => sem = cur
  /\ vpc = "read" => Answered

Tokens(p, q) ==
  msem[sem] + (IF p = sem THEN 0 ELSE msem[p])
            + (IF q \in {p, sem} THEN 0 ELSE msem[q])
InHandler == IF hpc = "idle" THEN 0 ELSE 1
InHand == IF vpc \in {"check", "read"} THEN 1 ELSE 0
Answers == IF Answered THEN 1 ELSE 0

TokenInv(p, q) ==
  /\ \A s \in Sems : s \notin {p, q, sem} => msem[s] = 0
  /\ hpc = "post" => hsem \in {p, q, sem}
  /\ vpc \in {"idle", "read"} => p = sem
  /\ Tokens(p, q) + InHandler + InHand <= flags + Answers

TokensInv == vpc \notin Replacing => \E p, q \in Sems : TokenInv(p, q)

\* Life cycle: the model learns of a thread after it really exists and before
\* it leaves the protocol, and it is created once.
Creates(o, u) == o.kind = "create" /\ o.of = u

LifeInv ==
  /\ vpc \notin Between => status[cur] = "running"
  /\ \A t \in Threads :
       /\ status[t] = "embryo" => tpc[t] \in {"embryo", "load", "futex_wait", "sleep"}
       /\ tpc[t] \in {"finish", "gone"} => op[t].kind = "exit" /\ op[t] = pending[t]
       /\ tpc[t] = "gone" => status[t] = "exited" \/ (t = cur /\ Released)
  /\ \A t, u \in Threads :
       Creates(op[t], u) \/ Creates(pending[t], u) =>
         /\ tpc[u] # "embryo" /\ status[u] = "embryo"
         /\ \A s \in Threads \ {t} : ~ Creates(op[s], u) /\ ~ Creates(pending[s], u)
         /\ Creates(op[t], u) /\ Creates(pending[t], u) => op[t] = pending[t]
  /\ \A u \in Threads : tpc[u] = "embryo" => status[u] = "embryo"

\* In a branch that was not started over a stray post.
SoundInv ==
  /\ RoundInv
  /\ WordInv
  /\ MessageInv
  /\ TokensInv
  /\ LifeInv

IInv ==
  /\ TypeOK
  /\ NoLostWakeup
  /\ start # "stray" => SoundInv

-----------------------------------------------------------------------------
(* What the protocol implements: strictly alternating turns.  The turn is  *)
(* McMini's between two calls of execute_runner.  A branch started over a  *)
(* stray post does not alternate: the abstract one is then a branch of     *)
(* which nothing has been run.                                             *)
Alternates == start # "stray"
Alternation ==
  INSTANCE LockStep WITH
    turn <- IF Alternates /\ vpc \notin Between THEN cur ELSE NoMailbox,
    op <- IF Alternates THEN op ELSE [t \in Threads |-> StartOp(t)],
    pending <- IF Alternates THEN pending ELSE [t \in Threads |-> StartOp(t)],
    Verifier <- NoMailbox
LockStepSpec == Alternation!Spec
=============================================================================
