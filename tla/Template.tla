------------------------------ MODULE Template ------------------------------
(***************************************************************************)
(* How McMini gets a new branch process.  The coordinator destroys the     *)
(* handle of the old branch, which sends it SIGUSR1, and asks its process  *)
(* source for a new one:                                                   *)
(*   "fork"   a template process forks the branch on request               *)
(*            (fork_process_source, mc_template_process_loop_forever);     *)
(*   "mtf"    the template is restarted from a checkpoint image and forks  *)
(*            with all its threads (multithreaded_fork_process_source,     *)
(*            mc_template_thread_loop_forever);                            *)
(*   "dmtcp"  every branch is restarted from the image                     *)
(*            (dmtcp_process_source).                                      *)
(* McMini and the template talk through two semaphores and the field cpid  *)
(* in shared memory; a SIGCHLD makes McMini's signal thread post whatever  *)
(* semaphore current_sem points to.  McMini is no subreaper                *)
(* (prepare_mcmini_targets is never called): it only hears of the          *)
(* template's branches what the template relays.                           *)
(***************************************************************************)
EXTENDS Integers, FiniteSets

CONSTANTS
  Sources,      \* the process sources considered
  MaxBranches,  \* bound: forks and restarts attempted
  Faults        \* what may go wrong: "fork", "exec", "template", "branch"

ASSUME TemplateAssumption ==
  /\ Sources \subseteq {"fork", "mtf", "dmtcp"}
  /\ MaxBranches \in Nat
  /\ Faults \subseteq {"fork", "exec", "template", "branch"}

VARIABLES
  source,     \* the process source
  mpc,        \* where McMini's main thread is
  handle,     \* the pid in current_process_handle
  hasTpl,     \* has_template_process_alive
  sem,        \* signal_tracker::current_sem
  flags,      \* signal_tracker::flags[SIGCHLD]
  sig,        \* a SIGCHLD is pending for McMini
  hpc, hsem,  \* McMini's SIGCHLD handler, and the semaphore it has read
  psem, lsem, \* mcmini_process_sem, libmcmini_sem
  cpid,       \* the field of template_process_t
  tpc,        \* where the template process is
  child,      \* what its last fork returned
  chld,       \* a SIGCHLD is pending for the template
  csem,       \* sigchld_sem
  needs,      \* MCMINI_NEEDS_STATE, where the next branch inherits it from
  branch,     \* the state of every branch
  how,        \* how it died
  killed,     \* the branches McMini has sent SIGUSR1
  transfers,  \* the branches that send the recorded state to McMini
  tries,      \* forks and restarts attempted
  lost        \* a fork has failed in the template

mcmini == <<mpc, handle, hasTpl, sem>>
signals == <<flags, sig, hpc, hsem>>
shared == <<psem, lsem, cpid>>
template == <<tpc, child, chld, csem, lost>>
branches == <<branch, how, killed, transfers, tries>>
vars == <<source, mcmini, signals, shared, template, needs, branches>>

Pids == 1..MaxBranches
NoProcess == -1                \* what a failed fork(2) returns
TEMPLATE_FORK_FAILED == -2
NoPid == 0
TemplatePid == -3              \* any pid that is not a branch's

Forking == source \in {"fork", "mtf"}
Live == {p \in Pids : branch[p] \in {"starting", "alive"}}
Born == {p \in Pids : branch[p] # "unborn"}
Newest(p) == p \in Born /\ \A q \in Born : q <= p

Init ==
  /\ source \in Sources
  /\ mpc = "reset" /\ handle = NoPid /\ hasTpl = FALSE /\ sem = "none"
  /\ flags = 0 /\ sig = FALSE /\ hpc = "idle" /\ hsem = "none"
  /\ psem = 0 /\ lsem = 0 /\ cpid = NoPid
  /\ tpc = "none" /\ child = NoPid /\ chld = FALSE /\ csem = 0 /\ lost = FALSE
  /\ needs = (source # "fork")
  /\ branch = [p \in Pids |-> "unborn"] /\ how = [p \in Pids |-> "none"]
  /\ killed = {} /\ transfers = {} /\ tries = 0

-----------------------------------------------------------------------------
(* McMini: the life of a branch in its hands.                              *)

At(l) == mpc = l
Goto(l) == mpc' = l

\* execute_runner: current_sem moves to a mailbox.  If a SIGCHLD was counted, the
\* branch is looked at with waitpid, which knows nothing of a template's child.
ExecuteRunner ==
  /\ At("explore") /\ handle \in Pids
  /\ \/ flags = 0 /\ UNCHANGED <<mpc, flags>>
     \/ /\ flags > 0
        /\ flags' = flags - 1
        /\ Goto(IF source = "dmtcp" /\ branch[handle] # "dead" THEN "explore"
                ELSE "branch_died")
  /\ sem' = "mailbox"
  /\ UNCHANGED <<source, handle, hasTpl, sig, hpc, hsem, shared, template, needs, branches>>

\* assign_new_process_handle: the destructor of the old handle sends SIGUSR1.
DestroyHandle ==
  /\ At("explore") /\ tries < MaxBranches
  /\ killed' = killed \cup ({handle} \cap Pids)
  /\ handle' = NoPid
  /\ Goto(IF source = "dmtcp" THEN "reap" ELSE "reset")
  /\ UNCHANGED <<source, hasTpl, sem, signals, shared, template, needs, branch, how,
                 transfers, tries>>

\* should_wait: the destructor reaps the branch, ...
Reap(p) ==
  /\ At("reap") /\ branch[p] = "dead"
  /\ branch' = [branch EXCEPT ![p] = "reaped"]
  /\ Goto("consume")
  /\ UNCHANGED <<source, handle, hasTpl, sem, signals, shared, template, needs, how,
                 killed, transfers, tries>>

\* ... takes back the SIGCHLD if it has been counted by now, and finds no other
\* zombie.
ConsumeExpected ==
  /\ At("consume")
  /\ flags' = IF flags > 0 THEN flags - 1 ELSE 0
  /\ Goto("reset")
  /\ UNCHANGED <<source, handle, hasTpl, sem, sig, hpc, hsem, shared, template, needs,
                 branches>>

\* reset_binary_semaphores_for_new_branch
ResetMailboxes ==
  /\ At("reset")
  /\ Goto(IF Forking /\ hasTpl THEN "check" ELSE "launch")
  /\ UNCHANGED <<source, handle, hasTpl, sem, signals, shared, template, needs, branches>>

-----------------------------------------------------------------------------
(* McMini: making a new process.                                           *)

\* launch_dont_wait: the child reports a failed exec through a pipe.
LaunchFails ==
  /\ At("launch") /\ "exec" \in Faults
  /\ Goto("exec_failed")
  /\ UNCHANGED <<source, handle, hasTpl, sem, signals, shared, template, needs, branches>>

\* make_new_template_process; a template restarted from an image is waited for.
LaunchTemplate ==
  /\ At("launch") /\ Forking
  /\ hasTpl' = TRUE /\ tpc' = "starting"
  /\ IF source = "mtf" THEN sem' = "process" /\ Goto("stabilize")
                       ELSE UNCHANGED sem /\ Goto("check")
  /\ UNCHANGED <<source, handle, signals, shared, child, chld, csem, lost, needs, branches>>

\* Seeded fault: MCMINI_NEEDS_STATE stays set for the later restarts.
LaunchBranchNeedy(p) ==
  /\ At("launch") /\ source = "dmtcp"
  /\ tries < MaxBranches /\ p = tries + 1
  /\ tries' = tries + 1
  /\ branch' = [branch EXCEPT ![p] = "starting"]
  /\ transfers' = IF needs THEN transfers \cup {p} ELSE transfers
  /\ Goto("await")
  /\ UNCHANGED <<source, handle, hasTpl, sem, signals, shared, template, needs, how, killed>>

\* dmtcp_process_source: the branch itself is launched; only the first one finds
\* MCMINI_NEEDS_STATE in dmtcp_env.txt.
LaunchBranch(p) ==
  /\ At("launch") /\ source = "dmtcp"
  /\ tries < MaxBranches /\ p = tries + 1
  /\ tries' = tries + 1
  /\ branch' = [branch EXCEPT ![p] = "starting"]
  /\ transfers' = IF needs THEN transfers \cup {p} ELSE transfers
  /\ needs' = FALSE
  /\ Goto("await")
  /\ UNCHANGED <<source, handle, hasTpl, sem, signals, shared, template, how, killed>>

\* The loop around sem_timedwait: on a post and on every timeout McMini looks
\* whether the template is alive.
Stabilize ==
  /\ At("stabilize")
  /\ \/ psem > 0 /\ psem' = psem - 1
        /\ IF tpc = "dead" THEN hasTpl' = FALSE /\ Goto("template_died")
                           ELSE Goto("check") /\ UNCHANGED hasTpl
     \/ psem = 0 /\ tpc = "dead" /\ hasTpl' = FALSE /\ Goto("template_died")
        /\ UNCHANGED psem
  /\ UNCHANGED <<source, handle, sem, signals, lsem, cpid, template, needs, branches>>

\* try_consume_signal(SIGCHLD), before the request ("check") and after the answer
\* ("check2").
CheckSignal ==
  /\ mpc \in {"check", "check2"}
  /\ \/ /\ flags = 0
        /\ Goto(IF At("check") THEN "set_sem" ELSE "read")
        /\ UNCHANGED <<flags, hasTpl>>
     \/ /\ flags > 0
        /\ flags' = flags - 1 /\ hasTpl' = FALSE
        /\ Goto("template_died")
  /\ UNCHANGED <<source, handle, sem, sig, hpc, hsem, shared, template, needs, branches>>

SetSem ==
  /\ At("set_sem")
  /\ sem' = "process"
  /\ Goto("request")
  /\ UNCHANGED <<source, handle, hasTpl, signals, shared, template, needs, branches>>

\* Seeded fault: the request is posted twice.
RequestForkTwice ==
  /\ At("request")
  /\ lsem' = lsem + 2
  /\ Goto("await")
  /\ UNCHANGED <<source, handle, hasTpl, sem, signals, psem, cpid, template, needs, branches>>

RequestFork ==
  /\ At("request")
  /\ lsem' = lsem + 1
  /\ Goto("await")
  /\ UNCHANGED <<source, handle, hasTpl, sem, signals, psem, cpid, template, needs, branches>>

\* Seeded fault: the wait may return without a post, as after EINTR.
AwaitAnswerInterrupted ==
  /\ At("await")
  /\ IF Forking THEN Goto("check2") /\ UNCHANGED handle
                ELSE Goto("explore") /\ handle' = tries
  /\ UNCHANGED <<source, hasTpl, sem, signals, shared, template, needs, branches>>

\* sig_semwait (Forking), sem_wait ("dmtcp") on mcmini_process_sem
AwaitAnswer ==
  /\ At("await") /\ psem > 0
  /\ psem' = psem - 1
  /\ IF Forking THEN Goto("check2") /\ UNCHANGED handle
                ELSE Goto("explore") /\ handle' = tries
  /\ UNCHANGED <<source, hasTpl, sem, signals, lsem, cpid, template, needs, branches>>

ReadPid ==
  /\ At("read")
  /\ IF cpid = TEMPLATE_FORK_FAILED
     THEN Goto("fork_failed") /\ UNCHANGED handle
     ELSE Goto("explore") /\ handle' = cpid
  /\ UNCHANGED <<source, hasTpl, sem, signals, shared, template, needs, branches>>

McMini ==
  \/ \E p \in Pids : Reap(p) \/ LaunchBranch(p)
  \/ ConsumeExpected \/ ResetMailboxes \/ LaunchTemplate \/ Stabilize
  \/ CheckSignal \/ SetSem \/ RequestFork \/ AwaitAnswer \/ ReadPid

-----------------------------------------------------------------------------
(* McMini's signal thread: signal_tracker_sig_handler.                     *)

HandlerSetSignal ==
  /\ hpc = "idle" /\ sig
  /\ sig' = FALSE /\ flags' = flags + 1 /\ hpc' = "load"
  /\ UNCHANGED <<source, mcmini, hsem, shared, template, needs, branches>>

HandlerLoadSem ==
  /\ hpc = "load"
  /\ hsem' = sem /\ hpc' = "post"
  /\ UNCHANGED <<source, mcmini, flags, sig, shared, template, needs, branches>>

\* Seeded fault: the handler wakes nobody.
HandlerNoPost ==
  /\ hpc = "post"
  /\ hpc' = "idle"
  /\ UNCHANGED <<source, mcmini, flags, sig, hsem, shared, template, needs, branches>>

\* The mailboxes are not part of this module.  A post to one is dropped here; what
\* it does to the rounds of the branch, and to those of the next one when it comes
\* after ConsumeExpected and ResetMailboxes, is in module Mailbox, which has these
\* two steps as well.
HandlerPost ==
  /\ hpc = "post"
  /\ psem' = IF hsem = "process" THEN psem + 1 ELSE psem
  /\ hpc' = "idle"
  /\ UNCHANGED <<source, mcmini, flags, sig, hsem, lsem, cpid, template, needs, branches>>

Handler == HandlerSetSignal \/ HandlerLoadSem \/ HandlerPost

-----------------------------------------------------------------------------
(* The template process.                                                   *)

\* libmcmini_main up to the loop
TemplateStart ==
  /\ tpc = "starting" /\ source = "fork"
  /\ csem' = 0
  /\ tpc' = "wait"
  /\ UNCHANGED <<source, mcmini, signals, shared, child, chld, lost, needs, branches>>

\* After a restart the template thread, once its barrier is passed, publishes the
\* template's own pid and posts, ...
TemplateReady ==
  /\ tpc = "starting" /\ source = "mtf"
  /\ cpid' = TemplatePid /\ psem' = psem + 1
  /\ tpc' = "enter_loop"
  /\ UNCHANGED <<source, mcmini, signals, lsem, child, chld, csem, lost, needs, branches>>

\* ... and enters mc_template_thread_loop_forever.
TemplateThreadStart ==
  /\ tpc = "enter_loop"
  /\ csem' = 0
  /\ tpc' = "wait"
  /\ UNCHANGED <<source, mcmini, signals, shared, child, chld, lost, needs, branches>>

\* A request is taken and the process forked.
TemplateFork ==
  /\ tpc = "wait" /\ lsem > 0 /\ tries < MaxBranches
  /\ lsem' = lsem - 1 /\ tries' = tries + 1
  /\ \/ /\ child' = tries + 1
        /\ branch' = [branch EXCEPT ![tries + 1] = "alive"]
        /\ transfers' = IF needs THEN transfers \cup {tries + 1} ELSE transfers
        /\ UNCHANGED lost
     \/ /\ "fork" \in Faults
        /\ child' = NoProcess /\ lost' = TRUE
        /\ UNCHANGED <<branch, transfers>>
  /\ tpc' = "publish"
  /\ UNCHANGED <<source, mcmini, signals, psem, cpid, chld, csem, needs, how, killed>>

\* mc_template_process_loop_forever writes TEMPLATE_FORK_FAILED and overwrites it;
\* mc_template_thread_loop_forever does not.
PublishPid ==
  /\ tpc = "publish"
  /\ cpid' = IF source = "mtf" /\ child = NoProcess THEN TEMPLATE_FORK_FAILED ELSE child
  /\ tpc' = "post"
  /\ UNCHANGED <<source, mcmini, signals, psem, lsem, child, chld, csem, lost, needs,
                 branches>>

PostPid ==
  /\ tpc = "post"
  /\ psem' = psem + 1
  /\ needs' = FALSE
  /\ tpc' = "await_child"
  /\ UNCHANGED <<source, mcmini, signals, lsem, cpid, child, chld, csem, lost, branches>>

\* Seeded fault: the template takes the next request at once.
AwaitChildNot ==
  /\ tpc = "await_child"
  /\ tpc' = "wait"
  /\ UNCHANGED <<source, mcmini, signals, shared, child, chld, csem, lost, needs, branches>>

AwaitChild ==
  /\ tpc = "await_child" /\ csem > 0
  /\ csem' = csem - 1
  /\ tpc' = "wait"
  /\ UNCHANGED <<source, mcmini, signals, shared, child, chld, lost, needs, branches>>

\* Seeded fault: every death is relayed, the one McMini has asked for too.
RelayedAll(p) == TRUE

\* McMini hears of a branch that exited or was killed by a bad signal.
Relayed(p) == how[p] \in {"exit", "bad_signal"}

\* mc_template_receive_sigchld
ReceiveSigchld(p) ==
  /\ tpc \notin {"none", "dead"} /\ chld /\ branch[p] = "dead"
  /\ branch' = [branch EXCEPT ![p] = "reaped"]
  /\ chld' = FALSE
  /\ sig' = (sig \/ Relayed(p))
  /\ csem' = csem + 1
  /\ UNCHANGED <<source, mcmini, flags, hpc, hsem, shared, tpc, child, lost, needs, how,
                 killed, transfers, tries>>

TemplateProcess ==
  \/ TemplateStart \/ TemplateReady \/ TemplateThreadStart
  \/ TemplateFork \/ PublishPid \/ PostPid \/ AwaitChild
  \/ \E p \in Pids : ReceiveSigchld(p)

\* The template dies under McMini's feet, or while it is restarted.
TemplateDies ==
  /\ "template" \in Faults /\ tpc \notin {"none", "dead"}
  /\ tpc' = "dead" /\ sig' = TRUE
  /\ UNCHANGED <<source, mcmini, flags, hpc, hsem, shared, child, chld, csem, lost, needs,
                 branches>>

-----------------------------------------------------------------------------
(* The branches.                                                           *)

\* A restarted branch has passed its barrier and posts.
BranchReady(p) ==
  /\ branch[p] = "starting"
  /\ branch' = [branch EXCEPT ![p] = "alive"]
  /\ cpid' = p /\ psem' = psem + 1
  /\ UNCHANGED <<source, mcmini, signals, lsem, template, needs, how, killed, transfers,
                 tries>>

\* The parent is told: the template, or McMini.
BranchDies(p, cause) ==
  /\ p \in Live
  /\ branch' = [branch EXCEPT ![p] = "dead"]
  /\ how' = [how EXCEPT ![p] = cause]
  /\ chld' = (chld \/ Forking)
  /\ sig' = (sig \/ source = "dmtcp")
  /\ UNCHANGED <<source, mcmini, flags, hpc, hsem, shared, tpc, child, csem, lost, needs,
                 killed, transfers, tries>>

\* The signals a branch is sent: SIGUSR1 by McMini, SIGTERM when its template dies
\* (mc_prepare_new_child_process asks for it).
BranchKilled(p) ==
  \/ p \in killed /\ BranchDies(p, "SIGUSR1")
  \/ Forking /\ tpc = "dead" /\ BranchDies(p, "SIGTERM")

BranchCrashes(p) ==
  /\ "branch" \in Faults
  /\ \E cause \in {"exit", "bad_signal"} : BranchDies(p, cause)

Branch(p) == BranchReady(p) \/ BranchKilled(p)

Environment ==
  ExecuteRunner \/ DestroyHandle \/ LaunchFails \/ TemplateDies
    \/ \E p \in Pids : BranchCrashes(p)

Next == McMini \/ Handler \/ TemplateProcess \/ Environment \/ \E p \in Pids : Branch(p)

Spec == Init /\ [][Next]_vars

\* The operating system runs every process, delivers every signal, and a process
\* that was sent a fatal one dies.
FairSpec ==
  /\ Spec
  /\ WF_vars(McMini) /\ WF_vars(Handler) /\ WF_vars(TemplateProcess)
  /\ \A p \in Pids : WF_vars(Branch(p))

-----------------------------------------------------------------------------
(* Properties.                                                             *)

Failures == {"exec_failed", "template_died", "fork_failed", "branch_died"}

\* Types; in particular the semaphores never hold more than one token each: a
\* request is answered once, and a death is awaited once.
TypeOK ==
  /\ mpc \in {"explore", "reap", "consume", "reset", "launch", "stabilize", "check",
              "set_sem", "request", "await", "check2", "read"} \cup Failures
  /\ handle \in Pids \cup {NoPid, NoProcess}
  /\ hasTpl \in BOOLEAN /\ sem \in {"none", "process", "mailbox"}
  /\ flags \in Nat /\ sig \in BOOLEAN
  /\ hpc \in {"idle", "load", "post"} /\ hsem \in {"none", "process", "mailbox"}
  /\ cpid \in Pids \cup {NoPid, NoProcess, TEMPLATE_FORK_FAILED, TemplatePid}
  /\ psem \in Nat /\ lsem \in 0..1 /\ csem \in 0..1
  /\ tpc \in {"none", "starting", "enter_loop", "wait", "publish", "post", "await_child", "dead"}
  /\ child \in Pids \cup {NoPid, NoProcess}
  /\ branch \in [Pids -> {"unborn", "starting", "alive", "dead", "reaped"}]
  /\ how \in [Pids -> {"none", "exit", "bad_signal", "SIGUSR1", "SIGTERM"}]
  /\ source \in Sources /\ needs \in BOOLEAN /\ chld \in BOOLEAN /\ lost \in BOOLEAN
  /\ killed \subseteq Pids /\ transfers \subseteq Pids /\ tries \in 0..MaxBranches

\* Branches share the mailboxes, and never two of them are alive: the template
\* forks only after it has seen the previous branch die, and a restarted one is
\* reaped by the destructor of its handle (loop.c:149, local_linux_process.cpp:48).
OneBranch == Cardinality(Live) <= 1

\* The branch McMini explores with is the one forked last, which has not been told
\* to die, and whatever is alive while McMini makes a new one is either that new
\* one or has been sent SIGUSR1: no stray post of mcmini_process_sem makes McMini
\* read the pid of an earlier branch (fork_process_source.cpp:105).
HandleIsFresh ==
  /\ At("explore") /\ handle # NoProcess => Newest(handle) /\ handle \notin killed
  /\ mpc \in {"reset", "launch", "stabilize", "check", "set_sem", "request"} =>
       Live \subseteq killed

\* McMini only gives up on its template, or on a branch, if one of them did die
\* without having been asked to (fork_process_source.cpp:84, :113).
DeathIsReal ==
  mpc \in {"template_died", "branch_died"} =>
    \/ tpc = "dead"
    \/ \E p \in Pids : how[p] \in {"exit", "bad_signal"}

\* The recorded state is sent by the first branch and by no other, which would
\* block for ever in a FIFO nobody reads (loop.c:230, dmtcp_process_source.cpp:43).
StateSentOnce ==
  \A p \in Pids : p \in transfers <=> source # "fork" /\ p \in Born /\ \A q \in Born : p <= q

Creating == mpc \notin {"explore"} \cup Failures

\* Making a new process comes to an end, whoever dies meanwhile, except that McMini
\* waits for ever when (1) the template's fork had failed before: it waits for the
\* death of a child it does not have; (2) the template dies between try_consume_signal
\* and set_sem, so that the handler posts another semaphore; (3) a restarted branch
\* dies before it posts: current_sem does not point at the semaphore waited for.
CreationEnds ==
  <>[]Creating =>
    <>[](\/ lost
         \/ tpc = "dead" /\ At("await") /\ hsem # "process"
         \/ source = "dmtcp" /\ At("await") /\ branch[tries] = "dead")

-----------------------------------------------------------------------------
(* The inductive invariant.                                                *)

\* Pids are given in order; a branch dies of its own, or because McMini or, after
\* its template, the kernel has asked for it.
BirthInv ==
  /\ \A p \in Born : p <= tries
  /\ \A p \in killed : p <= tries
  /\ \A p \in Pids : branch[p] = "dead" =>
       how[p] \in {"exit", "bad_signal"} \/ p \in killed \/ Forking
  /\ \A p \in Pids : branch[p] \in {"unborn", "starting", "alive"} => how[p] = "none"

\* The first branch is still to come exactly as long as it is to send the state.
NeedsInv ==
  /\ source = "fork" => ~needs
  /\ source = "mtf" /\ tpc \in {"none", "starting", "enter_loop", "wait"} =>
       (needs <=> Born = {})
  /\ source = "mtf" /\ tpc = "await_child" => ~needs
  /\ source = "dmtcp" => (needs <=> Born = {})

\* The template's children: between a fork and the death it awaits there is
\* exactly one, whose death is counted once.
ChildInv ==
  /\ \A p \in Pids : branch[p] # "starting"
  /\ tpc \in {"none", "starting", "enter_loop", "wait"} =>
       csem = 0 /\ \A p \in Pids : branch[p] \notin {"alive", "dead"}
  /\ tpc \in {"publish", "post", "await_child", "dead"} =>
       \A p \in Pids : branch[p] \in {"alive", "dead"} => p = child
  /\ tpc \in {"publish", "post", "await_child"} =>
       /\ child \in Born \cup {NoProcess}
       /\ csem = 1 => child \in Pids /\ branch[child] = "reaped"
       /\ child \in Pids /\ branch[child] = "reaped" => csem = 1

\* What the template writes about its last fork, and when McMini may trust it.
Published == IF source = "mtf" /\ child = NoProcess THEN TEMPLATE_FORK_FAILED ELSE child
Forked == child = NoProcess \/ (child = tries /\ child \in Born /\ child \notin killed)
Answered ==
  /\ lsem = 0 /\ tpc \notin {"none", "starting", "publish", "post"}
  /\ cpid = Published /\ Forked

\* There is one template, and one request or answer under way.  A SIGCHLD that has
\* been counted may have posted mcmini_process_sem; McMini, which cannot tell, finds
\* the count before it reads the pid, and gives up.
RequestInv ==
  /\ mpc \notin {"reap", "consume"}
  /\ mpc \notin Failures => (hasTpl <=> tpc # "none")
  /\ mpc = "launch" => ~hasTpl
  /\ mpc \notin Failures \cup {"reset", "launch"} => hasTpl
  /\ tpc \in {"publish", "post"} => Forked
  /\ tpc = "post" => cpid = Published
  /\ mpc \notin Failures \cup {"await", "check2"} =>
       lsem = 0 /\ tpc \notin {"publish", "post"}
  /\ mpc = "await" /\ lsem = 1 => tpc \notin {"publish", "post"}
  /\ mpc = "read" => Answered
  /\ mpc = "explore" =>
       /\ handle = child /\ handle \in Pids \cup {NoProcess}
       /\ Forked /\ tpc \notin {"none", "starting"}

TokenInv ==
  mpc \notin Failures /\ flags = 0 =>
    /\ hpc = "idle"
    /\ mpc \notin {"stabilize", "await"} => psem = 0
    /\ mpc = "check2" => Answered
    /\ mpc = "await" => psem \in 0..1 /\ (psem = 1 => Answered)
    /\ source = "mtf" /\ tpc = "starting" => mpc = "stabilize" /\ psem = 0
    /\ mpc = "stabilize" => psem \in 0..1

\* Nobody counts or relays a SIGCHLD, with a template, for a death that was asked for.
SignalInv == sig \/ flags > 0 => tpc = "dead" \/ \E p \in Pids : how[p] \in {"exit", "bad_signal"}

\* Without a template, a branch is launched once its predecessor is reaped.
RestartInv ==
  /\ tpc = "none" /\ ~hasTpl /\ lsem = 0 /\ csem = 0
  /\ sem # "process" /\ hsem # "process"
  /\ mpc \in {"explore", "reap", "consume", "reset", "launch", "await", "exec_failed", "branch_died"}
  /\ \A p \in Pids : p < tries => branch[p] = "reaped"
  /\ tries > 0 => branch[tries] # "unborn"
  /\ \A p \in Pids : branch[p] = "starting" => mpc = "await" /\ psem = 0
  /\ mpc \in {"reset", "launch", "consume"} =>
       psem = 0 /\ \A p \in Born : branch[p] = "reaped"
  /\ mpc \in {"await", "explore", "reap"} => tries > 0 /\ branch[tries] # "reaped"
  /\ mpc = "await" => tries \notin killed /\ psem \in 0..1
  /\ mpc = "explore" => handle = tries /\ tries \notin killed /\ psem = 0
  /\ mpc = "reap" => psem = 0

IInv ==
  /\ TypeOK
  /\ BirthInv /\ NeedsInv /\ StateSentOnce
  /\ HandleIsFresh /\ DeathIsReal
  /\ Forking => ChildInv /\ RequestInv /\ TokenInv /\ SignalInv
  /\ ~Forking => RestartInv
=============================================================================
