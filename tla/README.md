# McMini: formal models, checks and proofs

McMini (*deep-debug*) is a stateless model checker for pthread programs. It
runs the target under `libmcmini.so`, whose wrappers stop every thread before
each pthread operation; the McMini process lets one thread at a time proceed,
keeps a model of the program, and explores schedules with dynamic partial order
reduction (DPOR). Branches are new processes, forked from a template process or
restarted from a DMTCP checkpoint, in which the schedule up to the branching
point is replayed.

This directory holds TLA+ modules translated from that code, the TLC
configurations that check them, and TLAPS proofs. Paths below are relative to
the root of the repository; `PROJECT.json` maps every definition to the lines it
models.

## 1. Inventory

| Part | State | Operations | Talks to |
|---|---|---|---|
| **Mailbox protocol**: `src/common/runner_mailbox.c`, `local_linux_process.cpp`, `thread_await_scheduler` and `thread_wake_scheduler_and_wait` in `src/lib/wrappers.c` | per thread: `model_side_sem` (glibc semaphore), `child_side_sem` (futex word), `type`/`cnts` (message) | `execute_runner`, `mc_wake_thread`, `mc_wake_scheduler`, the wrappers' announcements, thread creation and exit | shared memory between McMini and the branch |
| **Signal tracker**: `signal.cpp` | counter per signal, `current_sem` | SIGCHLD handler in the signal thread, `sig_semwait`, `try_consume_signal` | posts the semaphore McMini waits on |
| **Program model**: `model/program.cpp`, `state_sequence.cpp`, `transition_sequence.cpp` | object states, trace, pending transitions | `model_execution_of`, `restore_model_at_depth`, `is_in_deadlock`, `discover_object/runner` | called by the coordinator |
| **Transitions**: `include/mcmini/model/transitions/` | states of threads, mutexes, semaphores, condition variables | `modify` of each | called by the program model |
| **Condition variable policies**: `cond_var_default_policy.cpp`, `cond_var_single_grp_policy.cpp`, `cond_var_arbitrary_policy.cpp` | wait queue, wake groups, broadcast set | `receive_signal_message`, `receive_broadcast_message`, `wake_thread`, `thread_can_exit` | called by the transitions |
| **Coordinator**: `coordinator.cpp`, `model_to_system_map.hpp` | current process handle, handle ↔ object id map | `execute_runner`, `return_to_depth`, `observe_object`, `observe_runner` | process source, mailboxes, program model |
| **Classic DPOR**: `classic_dpor.cpp`, `stack_item.hpp`, `clock_vector.cpp` | stack of enabled/searched/backtrack/sleep sets, clock vectors | exploration loop, backtrack set updates | drives the coordinator |
| **Template process and process sources**: `lib/template/loop.c`, `lib/main.c`, `fork_process_source.cpp`, `dmtcp_process_source.cpp`, `target.cpp` | `template_process_t` (two semaphores, pid, errno), `MCMINI_NEEDS_STATE` | fork on request, wait for the branch, relay its death; launch from an image; destroy the old handle | shared memory, SIGCHLD, environment |
| **Thread exit and join**: `mc_pthread_join_impl`, `mc_exit_thread_in_child`, `mc_pthread_exit` in `wrappers.c` | per thread: `exit_permission_sem`, `really_exited_sem` | keep an exited thread until it is joined, join it for real or wait for its sign | mailboxes, DMTCP's recreated threads |
| **Record mode, checkpoint and restart**: `record.c`, `dmtcp-callback.c`, `Thread_queue.c`, record branches of all wrappers | mode, list of recorded objects, queues of waiters | mode changes, recording, restart barrier, transfer of the recorded states over a FIFO | DMTCP callbacks, `mcmini.cpp` |
| **Interception, TSan, logging, command line** | none of interest | – | – |

What is hard in this system, and what makes each part correct:

* *Two processes and a signal thread share the mailboxes.* The futex protocol
  must lose no wake-up; a SIGCHLD may be handled at any point of a round and its
  semaphore post must never be taken for a thread's answer, not even by the next
  branch, whose mailboxes are the same memory; at most one thread of the target may
  run; a dead branch must be noticed.
* *The model must be the process.* A model that is one operation late, or that
  kept a pending transition of an abandoned branch, makes every later verdict
  wrong. After any sequence of branches the model has to agree with the
  replayed process, and a reported deadlock has to be one.
* *Object ids and handles outlive branches.* They are discovered while exploring
  and are kept when the exploration cuts the model back.
* *The condition variable policy over-approximates wake-ups.* Overlapping wake
  groups must not lose a wake-up, wake two threads for one signal or wake a
  thread for a signal of an earlier sleep.
* *Checkpoints are taken anywhere*, also inside `pthread_cond_wait`, and between
  a libpthread call and the update of its record. The records must be what the
  process is once every thread has checked in, and all of them must check in.
* *Processes come and go.* Branches share the mailboxes, so there must not be two;
  a SIGCHLD posts the very semaphore on which the pid of a new branch is announced;
  forks fail, templates and branches die at any time, and McMini must not wait for
  the dead.
* *The reduction may drop interleavings, never outcomes.*
* *An exited thread is kept alive until it is joined*, and a thread that DMTCP has
  recreated cannot be joined for real.

`PROJECT.json` lists the hazards at their lines with the properties aimed at
them.

## 2. Modules

| Module | Models |
|---|---|
| `Mailbox` | one round of `execute_runner` after another, at the grain of single atomic operations and system calls, for McMini, the SIGCHLD handler and all threads of a branch, and how McMini kills a branch and starts the next one |
| `LockStep` | what the mailbox protocol promises: strict alternation |
| `CondVar` | one condition variable and its mutex: the policy and the transitions that use it |
| `Sleepers` | what a condition variable promises: sleeping threads and wake-ups owed |
| `Transitions` | enabledness and effect of the transitions on threads, mutexes and semaphores |
| `Coordinator` | exploration loop, coordinator, program model, and the target as a function of the schedule |
| `Dpor` | `classic_dpor` with its clock vectors, relations, backtrack and sleep sets, over the positions of a program (extends `Transitions`) |
| `Template` | how McMini gets a new branch: three process sources, the template process, the destructor of a handle, the signal thread |
| `Record` | `libmcmini.so` while recording, checkpoint and restart, the template thread's barrier, and McMini's first model |
| `Join` | how threads of a branch end and are joined |
| `MailboxProofs`, `CondVarProofs`, `CoordinatorProofs`, `DporProofs`, `TemplateProofs`, `RecordProofs`, `JoinProofs` | the theorems about the module of that name |
| `SequenceFacts` | lemmas on numbers and sequences that the proofs share |
| `MCMailbox`, `MCCondVar`, `MCCoordinator`, `MCDpor`, `MCTemplate`, `MCRecord`, `MCJoin` | instances for TLC |

An operator whose comment starts with "Seeded fault" is a deliberately wrong
variant of the definition after it. No specification uses it; each one
shows that a property notices that fault.

### Mailbox

McMini's main thread is `vpc`: `ExecuteRunner` (set `current_sem`),
`WakeThreadAdd` and `WakeThreadFutex` (the two halves of `mc_raw_sem_post`),
`SigSemwait`, `NoSignal`/`ConsumeSignal`, `Waitpid` and `ReadMailbox` (the rest
of `coordinator::execute_runner`). The handler is three steps, because it counts
the signal, reads `current_sem` and posts it separately. A thread goes through
`mc_raw_sem_wait` (`LoadWord`, `CasWord`, `FutexWait`, `FutexInterrupted`), runs
to its next operation and announces it (`VisibleOp`, `CreateThread`), or leaves
(`FinishExit`). `Die` is a crash or an exit that the wrappers do not see,
`OtherDescendantDies` a SIGCHLD that is not about the branch. SIGCHLD is pending
at most once and blocked while it is handled.

The operations themselves are abstract: a number, a kind, and for a creation the
new thread. McMini may pick any active runner, since what is enabled beyond that
is a matter of `Transitions`. `DirectChild` tells branches restarted from a
checkpoint, which McMini forks, from those the template forks; `waitpid` fails on
the latter and a crash is then reported as an internal `execution_error`
(`local_linux_process.cpp:126`; `prepare_mcmini_targets`, which would make McMini a
subreaper, is never called, and a subreaper only adopts orphans). `NoMailbox` is the
semaphore `current_sem` points at before the first round.

A branch restarted from a checkpoint is replaced in four steps: `DestroyHandle` (the
destructor kills it and waits for it), `ConsumeExpected` (takes back the count of its
SIGCHLD, if there is one yet), `DrainZombies` (reaps other descendants, taking back a
count for each) and `NewBranch` (resets the mailboxes and starts all over). The signal
thread takes its own steps all the while. `start` records what it had left
when the branch began: `"clean"`, nothing; `"late"`, a signal not yet handled or
counted but not taken back; `"stray"`, a handler on its way to its post whose count was
already taken back. McMini may replace the branch between any two rounds. Branches of the template need none of this in
`Mailbox`: a count that McMini consumes there always ends in an error, so that
none of its branches starts with a handler under way (`TokenInv` of `Template`).

### CondVar

State and actions carry the names of the policy's members and the transitions.
`pthread_cond_wait` is two transitions, `EnqueueThread` and `Wait`, announced in
a row by the wrapper. The program is arbitrary: after each transition a thread
announces any operation that its holding the mutex or not allows, except that
nobody uses the condition variable from a destroy to the next init (`Unused`,
`Usable`: anything else is undefined in POSIX). `sent`, `heard` and `lost` are
history variables for the properties. `Restored` has the
thread, if any, that a checkpoint found in the waiting room; `mcmini.cpp` restores it
into the wait queue with its enqueue still pending. `restored` says whether the
program of this behaviour is such a restored one.

### Coordinator

`CodeOf(p, h)` gives the operation that the runner scheduled last announces after
schedule `h` of program `p`: the target is a deterministic function of the
schedule, which is the assumption of stateless model checking. `HandleOf(p, h)` is the
`pthread_t` of a thread that is created; as a rule the next unused one, but the C
library may give out that of a thread that was joined (`Reused`). `Explore`,
`LimitReached`, `ReturnToDepth`, `Backtrack` and `Finish` are the branches of
`verify_using`; `ExecuteRunner` contains `coordinator::execute_runner`, the
callbacks that translate the message, `program::model_execution_of` and
`grow_stack_after_running`; `Hang` is the wait for a runner that has exited and
does not answer any more (`Gone`). Every element of `seq` carries the object ids it
knows, because `state_sequence` decides containment by counting them.

Which runners DPOR puts into a backtrack set is left open: any enabled runner
that was not searched. DPOR's choices are a subset, so what holds for `Coordinator`
holds for every choice. The one restriction kept is that depth 0 is never
backtracked to, which `Dpor` shows (`DepthZeroNeverRestored`). For that reason the
wrap-around of `(uint32_t)(n - 1)` in `restore_model_at_depth(0)` is unreachable and
not modelled.

### Dpor

A *position* is the state of the model and the next operation of every runner;
`After` runs one transition of `Transitions`. An entry of `stack` is a `stack_item`
without its statistics. `Explore` is a turn of the exploration phase
(`grow_stack_after_running`, then `dynamically_update_backtrack_sets`),
`Backtrack` a turn of the second phase. `DependencyRelation` and `CoenabledRelation`
are the registered tables together with the way `call_or` looks them up: a type with
entries is looked up among its entries only, then types with one entry for any other
type, and the fallback is TRUE. Condition variables are left out. `explored` and
`found` are history variables: the complete schedules and the final states seen.

Clock values are kept as in the code, where an entry's vector belongs to the step
that leads to it and its `out` is the step that leaves it.

### Template

`mpc` is McMini from the destruction of one handle to the next one
(`DestroyHandle`, `Reap`, `ConsumeExpected`, `ResetMailboxes`, then `LaunchBranch`, or
`LaunchTemplate`, `Stabilize`, `CheckSignal`, `SetSem`, `RequestFork`, `AwaitAnswer`,
`ReadPid`), `tpc` the template's loop, `hpc` McMini's signal thread with the three
steps of `Mailbox` (a post to a thread's mailbox is `Mailbox`'s concern and is dropped
here). The two semaphores are the ones in shared memory. Branches are
numbered as they are forked; a dead one is reaped by its parent, the template
(`ReceiveSigchld`, which relays the death to McMini only if it was an exit or a bad
signal) or McMini. `Faults` are a fork that fails, an `exec` that fails, and the
death of template or branch at any moment. A round is one step (`ExecuteRunner`).

### Record

`step[t]` is where thread `t` is inside its wrapper: `call`, after the first critical
section `real`, after the libpthread call `update`, and for a thread that met the
restart `checkin`, `await` or the loop on `template_thread_cond`. The real mutexes
and semaphores are `owner` and `tokens`, the records `rec` and `thr`. DMTCP stops the
threads at any point (`DmtcpEventPrecheckpoint`); the process then resumes, or a copy
restored from the image goes on in one of the two restart modes. A timed call that
blocks may time out whenever it is run. `Transfer` is what
`do_model_checking_from_dmtcp_ckpt_file` makes of the records. `raced` is a history
variable for `MutexesRestored`.

Two steps are coarser than the code: a wrapper's look at the mode together with its
first critical section, and the template thread's walk through the records.

### Join

`origin[t]` says where a thread comes from: created in this process; restarted from
the checkpoint, *inside* its first join or exit or *elsewhere*; or ended before the
checkpoint. A thread in `window` has entered its wrapper before the process became a
branch and leaves it through the restart case. A round is `Schedule`, the thread's
steps, and `Receive`.

## 3. Runs

| Run | Shows |
|---|---|
| `mailbox` | `SingleStep`, `ModelMatchesBranch`, `NoLostWakeup`, and that the protocol implements `LockStep`, in a first branch and in one restarted after it; every round ends (`RoundEnds`); the death of the branch is noticed, whatever SIGCHLDs merge with its own (`DeathNoticed`) |
| `mailbox_stray` | violated `AnswersAreReal` |
| `condvar` | `NoStaleWakeup`, `NoSleeperStranded`, `OthersUnharmed`, `WakeForgets`, and that the policy implements `Sleepers`, with and without a restored waiter |
| `condvar_restored` | violated `WakeRemovesAll` |
| `coordinator` | over sixteen programs and every choice of backtrack points: `ModelMatchesProcess`, `DeadlockIsReal`, `HandlesRemainValid`, `AbnormalEndReported`, `Terminates` |
| `coordinator_meet` | violated `HandlesRemainValid` |
| `coordinator_main_exit` | violated `DeadlockIsReal` |
| `dpor` | `EveryOutcomeFound`, `NoTraceTwice`, `DepthZeroNeverRestored` |
| `dpor_missed` | violated `EveryOutcomeFound` |
| `template` | `OneBranch`, `HandleIsFresh`, `DeathIsReal`, `StateSentOnce`, `CreationEnds` |
| `record` | `ThreadsRestored`, `SemaphoresRestored`, `MutexesRestored`, `NoPhantomLock`, `NoWaiterForgotten`, `BarrierPasses` |
| `join` | `LivesUntilJoined`, `JoinWaits`, `RoundsEnd` |

Every run also checks the `TypeOK` of its module.

**Bounds.**

* `mailbox` has two threads, both in the image or one created by the other: the one
  in its round and the one of the round before, whose semaphore may still get a late
  post. The main thread has two operations and the other one, which gives every thread
  a first and an exiting round and main one in between. One restart, one foreign
  SIGCHLD and the branch's own death let a round, of the first branch or of the second,
  begin with a non-zero counter or a token left behind. The invariants are proved for
  all values. `mailbox_stray` needs neither foreign signals nor crashes.
* `condvar` has four threads and three messages: three sleepers and a sender are the
  least for overlapping wake groups in which the choice of the group matters. In half
  of its behaviours one of the threads is a restored waiter, which `OthersUnharmed` is
  about. Destroys are not bounded. `condvar_restored` has two threads.
* `coordinator` has programs of up to three threads and `MaxDepth` 18, which only
  the looping program reaches. They cover contention, a thread created after main has
  contended with another, deadlock by lock order, joins, a semaphore handshake, an
  abort, a failing exit, an endless loop, mutexes with and without initialization,
  `sem_destroy` (which McMini cannot translate), a restored checkpoint, and a thread
  created after another one was joined, once with a `pthread_t` of its own and once with
  that of the joined thread. All of
  their threads are created by the main thread; section 4 says what happens otherwise.
  `coordinator_meet` has one program with four runners: three threads and
  the main thread that creates them.
* `dpor` runs all pairs of blocks of two operations on two mutexes and a semaphore,
  once in a program from main and once restored, and programs with nested critical
  sections and three runners. In the pairs something private stands between
  the creation, or the first step, and the blocks: without it the search misses
  outcomes, which is `dpor_missed`. Among the programs without it, run from
  main, an outcome is missed exactly when a lock directly follows a create or a
  `sem_post` of its thread; restored, when the race is with the first step of the trace.
* `template` has three branches: one being killed, one being made, one to follow a
  failure; all three sources and all faults.
* `record` has three threads and one object of each kind; its six programs contend
  for a mutex, use a semaphore as a lock and as a counter, signal and broadcast a
  condition variable and destroy it, end threads in every way, and unlock a mutex
  nobody has locked.
* `join` has three threads, joined by main or in a chain or not at all, of every
  combination of origins and ends.

The runs of `coordinator`, `dpor`, `record` and `join` are about these programs. For
most of their safety properties section 4 has a proof for all programs of a stated
kind; what it lists as only model-checked is claimed for these programs alone.

**Deadlock** is not checked by TLC: McMini stops after an error, programs and
searches end, and the bounds stop the rest. That somebody waits for ever is what
the liveness properties are about.

**Fairness.** `Mailbox`: McMini's main thread, the handler and each thread take a
step if they remain able to; the kernel schedules them. For a thread this
includes that the target's code between two operations terminates, which McMini
assumes too (it has no timeout). `ExecuteRunner`, `DestroyHandle`, `Die`,
`FutexInterrupted` and foreign SIGCHLDs are not forced. `Coordinator`: `verify_using` is a sequential
program that never waits for anything but a round of the mailbox protocol.
`Template`: the operating system runs McMini, its signal thread and the template,
delivers signals, and a process that was sent a fatal one dies; rounds, the wish for
a new branch and all faults are not forced. `Record`: the template thread and every
thread take a step if they remain able to, which includes the time-out of a timed
call; DMTCP's events are not forced. `Join`: every thread and McMini's reading of
the answer; scheduling is not forced.

### What the violated runs show

* **`mailbox_stray`.** McMini backtracks: the destructor kills the branch, the signal
  thread counts the SIGCHLD, the destructor takes the count back
  (`local_linux_process.cpp:65`), the mailboxes are reset, and only then the handler
  reads `current_sem` and posts it (`signal.cpp:48`, `:52`). The token lies on a
  mailbox of the next branch, or reaches it once `current_sem` has moved on; the
  counter is 0. The next round on that mailbox takes the token for the answer of the
  thread and reads the mailbox before the thread has run. From then on two threads may
  run at once and the model is one operation late. The comment in the destructor says
  the signal is consumed "so it doesn't linger"; it is the count that does not linger.
* **`condvar_restored`.** A restored waiter is enqueued twice and dequeued once,
  so it is still managed by the policy after it has woken, and a broadcast sent before
  its second entry is carried out lets it go without having heard it. That the harm is
  confined to that thread is proved (`OthersAreUnharmed`, section 4).
* **`coordinator_meet`.** Three threads, all created by main, meet at a mutex. The first wins, finds an object and ends in a deadlock, in which the two
  others find nothing. The exploration returns and lets the second win, which finds
  another object: its id is larger than that of the first object, which this branch
  does not know. On the next return `consume_into_subsequence` takes the number of
  known ids for their bound, looks up the missing one, and `.at` throws
  (`state_sequence.cpp:205`, `:268`). The proof of `HandlesStayValid` led to this
  program: with two contenders the one left over finds what it has found before.
* **`coordinator_main_exit`.** `thread_exit` is never enabled for the main
  thread, which thus never counts as exited: a program whose main thread calls
  `pthread_exit` and that terminates normally is reported as deadlocked.
* **`dpor_missed`.** `happens_before_thread` compares the depth *before* a step,
  counted from 0, with a clock value, the depth *after* a step. The test is one too
  lenient: it also holds for the step of a thread that follows an ordered one, and
  for the first step of all. The race with that step is not reversed and a
  deadlock is missed. (The same leniency keeps the search away from depth 0, where
  `restore_model_at_depth` would restore nothing.)

### What the passing runs except, and why

Where the code falls short of a property in a way that can be told exactly, the
property states the exception, and each exception does occur:

* `SingleStep`, `ModelMatchesBranch`, `DeathNoticed`, `RoundEnds` and the refinement of
  `LockStep` say nothing of a branch that started over a stray post (`start = "stray"`),
  which is what `mailbox_stray` shows. A late signal (`start = "late"`) spoils
  none of the first three: its count is there before its token.
* `RoundEnds`: the signal counter is process-wide, but the post goes to the semaphore of
  the moment. If the SIGCHLD of another descendant, or a late one of the branch before,
  is handled between two rounds, the post lands on the mailbox of the round before; the
  next round takes the thread's own answer for that signal, finds the branch alive and
  "just resumes waiting" (`local_linux_process.cpp:122-124`), for ever. (The same
  accounting is why `SingleStep` holds: counter and posts together never exceed the
  truth.)
* `ModelMatchesProcess` and `Terminates`: after a join that was a real one
  (`wrappers.c:1118`) the C library has the stack of the thread back, and the next
  thread created gets its `pthread_t`. McMini knows that handle
  (`transitions/thread.cpp:14`), so it announces no new runner: the runner that has
  exited becomes active again, with its `thread_exit` pending, while the process has
  registered the new thread under an id the model never learns of (`wrappers.c:143`).
  McMini schedules the old one and waits for ever. The exception is `Reused`; in all
  other cases an exited runner is neither active nor followed.
* `CreationEnds`: McMini waits for ever (1) after a fork has failed in the template,
  which then waits for the death of a child it does not have (and, in the process
  loop, overwrites `TEMPLATE_FORK_FAILED` with -1, so that McMini takes -1 for a pid:
  `loop.c:139`, `:146`); (2) if the template dies between `try_consume_signal` and
  `set_sem` (`fork_process_source.cpp:85`, `:98`); (3) if a branch restarted from the
  image dies before it posts (`dmtcp_process_source.cpp:49`).
* `BarrierPasses`: the template thread's count is called "exact, race-free"
  (`dmtcp-callback.c:404`), but it counts threads that called `pthread_exit`, which
  records nothing, and threads that were about to record their end; nor can a thread
  check in that needs the mutex of a thread that has. The restored properties are
  stated for the case that the count was right (`Settled`).
* `MutexesRestored`: an unlock is recorded after the real one and may overwrite the
  record of the next lock (`wrappers.c:413`), and `cond_wait` records neither release
  nor reacquisition (`wrappers.c:1302`). The error has one direction: the model may
  miss a lock that is held, but never has one that is not (`NoPhantomLock`).
* `RoundsEnd`: a thread whose routine returned while the process was checking in
  never answers its exit (`wrappers.c:707`); one that called `pthread_exit` then
  announces its exit twice, and whoever joins it hangs (`wrappers.c:597`, `:1155`).
* `JoinWaits`: a join that met the restart returns through the restart case without
  waiting.
* `NoSleeperStranded`: a condition variable may be destroyed after a broadcast, as
  POSIX allows, but the threads that have not left by then can never do so in the
  model: `has_waiters` looks only at the queue, and the new policy knows nobody.

Also visible in `Record`, though no property is about it: `sem_timedwait` reports a
timeout as -1, which `mc_sem_wait` hands to its caller as an error
(`sem-wrappers.c:207-230`); `template_thread_mut` may be held by another thread when
the process is forked, and is then never released in the branch
(`dmtcp-callback.c:345`); a thread may stop at an object nobody has recorded, which
McMini takes for a failure of the recording (`mcmini.cpp:362`); a waiter that woke
before its signaller marked it stays in the queue, and a destroy then aborts
(`wrappers.c:1626`). Read, not modelled: the branch case of `mc_sem_wait` calls
`sem_post` (`sem-wrappers.c:238`).

## 4. Proofs

TLAPS proves the theorems below for every value of the constants that meets the
assumption named with each module; TLC evaluates these assumptions on the instances
of the runs. Every invariance proof has the same shape: `Init => IInv`, one lemma per
action (or per group of actions of the same shape) for `IInv /\ [Next]_vars => IInv'`,
and `IInv => Inv`. The parts of `IInv` are at the end of the component's module.

| Module | Theorem | Statement |
|---|---|---|
| `MailboxProofs` | `TypeCorrect`, `Invariance` | `Spec => []TypeOK`, `Spec => []IInv` |
| | `SingleStepping` | `Spec => []SingleStep` |
| | `ModelFaithful` | `Spec => []ModelMatchesBranch` |
| | `WakeupsKept` | `Spec => []NoLostWakeup` |
| | `ImplementsLockStep` | `Spec => LockStepSpec` |
| `CondVarProofs` | `TypeCorrect`, `Invariance` | types, `IInv` |
| | `NoWakeupIsStale` | `Spec => []NoStaleWakeup` |
| | `SleepersAreKnown` | `Spec => []NoSleeperStranded` |
| | `OthersAreUnharmed` | `Spec => []OthersUnharmed` |
| | `WakeThreadForgets` | `Spec => WakeForgets` (an action property) |
| | `PolicyImplementsSleepers` | `Spec => SleepersSpec` |
| `CoordinatorProofs` | `TypeCorrect`, `Invariance` | types, `IInv` |
| | `ModelIsFaithful` | `Spec => []ModelMatchesProcess` |
| | `FollowsTheEnabled` | `Spec => [](err # "disabled")` |
| | `AbnormalEndsAreReported` | `Spec => []AbnormalEndReported` |
| | `DeadlocksAreReal` | `Spec => []DeadlockIsReal` |
| | `RunnersAreRecognised` | `Spec => [](err \notin {"rebind", "invalid_rid"})` |
| | `HandlesStayValid` | `Spec /\ []NoThirdContender => []HandlesRemainValid` |
| `DporProofs` | `TypeCorrect`, `Invariance` | types, `IInv` |
| | `FirstStepIsFinal` | `Spec => []DepthZeroNeverRestored` |
| | `EveryTraceIsNew` | `Spec => NoTraceTwice` (an action property) |
| `TemplateProofs` | `TypeCorrect`, `Invariance` | types, `IInv` |
| | `OneBranchAtATime` | `Spec => []OneBranch` |
| | `FreshHandle` | `Spec => []HandleIsFresh` |
| | `RealDeath` | `Spec => []DeathIsReal` |
| | `FirstBranchSends` | `Spec => []StateSentOnce` |
| `RecordProofs` | `TypeCorrect`, `Invariance` | types, `IInv` |
| | `CheckedIn` | `Spec => []ThreadsRestored` |
| | `WaitersRecorded` | `Spec => [](InitializedFirst(prog) => NoWaiterForgotten)` |
| | `SemaphoresAgree` | `Spec => [](InitializedFirst(prog) => SemaphoresRestored)` |
| | `MutexesAgree` | `Spec => [](InitializedFirst(prog) /\ LocksProperly(prog) => MutexesRestored)` |
| | `LocksAreNotInvented` | `Spec => [](InitializedFirst(prog) /\ LocksProperly(prog) => NoPhantomLock)` |
| `JoinProofs` | `TypeCorrect`, `Invariance` | types, `IInv` |
| | `ExitWaitsForJoin` | `Spec => []LivesUntilJoined` |
| | `JoinWaitsForExit` | `Spec => []JoinWaits` |

`SequenceFacts` has the lemmas about least elements, induction, and appending to and
removing from sequences that several of them need.

### Mailbox

For any set of threads, any number of operations, foreign signals and restarts, either
kind of branch and any ways of dying (`MailboxAssumption`: types of the constants, `Main` is
a thread, `NoMailbox` is not).

`SingleStep` is not inductive: that McMini does not go on too early depends on
where each semaphore token came from. `IInv` adds

* `WordInv`: only the scheduled thread's futex word can be raised, at most to 1,
  and all other threads are parked;
* `MessageInv`: how far the announced operation may be ahead of the pending one
  at each point of the round;
* `RoundInv`: `current_sem` points at the scheduled thread during a round, and
  McMini reads only an answered mailbox;
* `TokensInv`: the accounting. Tokens lie on at most three semaphores: the one
  `current_sem` points at, the one it pointed at before, and the one the handler had
  loaded when the branch was started. These tokens, the one the handler is about to
  post and the one McMini has in hand together are never more than the counted signals
  plus the thread's answer. So once McMini sees a zero counter with a token in hand, the
  thread must have answered. It is an inequality because a reset wipes away tokens
  but no counts;
* `LifeInv`: a thread is created once, is known to the model only after it
  exists, and is not scheduled after it has left the protocol.

All of them but `NoLostWakeup` are claimed of branches with `start # "stray"` only.
`NewBranch` establishes the accounting again from whatever the signal thread is at:
all semaphores are empty, and by the definition of `"stray"` a handler that has
not posted yet has left its count. `NoLostWakeup` holds in stray branches too, since
it is about the futex word alone.

The refinement maps the abstract turn to McMini exactly between two rounds:
`ExecuteRunner` is `Grant`, an announcement is `Advance`, `ReadMailbox` is
`Return`, `NewBranch` is `Restart`, everything else stutters. A stray branch is mapped to
one in which nothing has been run, and so implements nothing but that start.

### CondVar

For any finite set of threads, any number of messages, and programs with or without a
restored waiter. What is false of a restored waiter, which may be in the queue twice
(`condvar_restored`), is excepted in the properties: `NoStaleWakeup` and `WakeForgets`
leave out that thread, `SleepersSpec` is about the programs without it.

The properties depend on an order among the wake groups that the policy never states:
a signal's group is the queue at that moment, so a later group contains every
earlier one restricted to those still asleep (`GroupInv`). `QueueInv` says that a
sleeper is in the queue or told to go by a broadcast, unless a destroy has lost it, and
that only a restored waiter may be in the queue twice or while it is awake;
`DestroyedInv` says that nobody uses a destroyed condition variable. As both speak of
every thread by itself, what a restored waiter's second entry does is shown to concern
that thread alone (`OthersAreUnharmed`). The refinement maps the wake-ups owed
to the threads told to go by a broadcast plus the size of the largest set of other
threads that can be matched with wake groups of their own (`Owed`). The lemmas on
`Largest` show that a signal raises it by one as long as somebody sleeps to whom
nothing is owed, and that consuming the first possible group lowers it by exactly one,
which rests on the order of the groups.

### Coordinator

For any number of runners, any depth, any set of programs (given by `CodeOf`) and any
choice of backtrack points. `CoordinatorAssumption` types the constants; the theorems
have as hypotheses what they need of the target, in terms of the schedules it is run
with:

* `ProgramsTyped`: what a thread announces is an operation of that thread, and no
  more threads are created than the model has room for;
* `AbnormalEndsAreFinal`: a thread that has announced `abort` or a failing exit does
  nothing else;
* `MainCreatesThreads` (for the last three): threads are created by main, all of
  them before it returns, and main does not call `pthread_exit`. Without the last
  part `DeadlockIsReal` is false (`coordinator_main_exit`), without the first
  `HandlesRemainValid`: if a thread lets main go on and then creates another one, the
  new thread can be discovered on a path on which an earlier element of the state
  sequence, to which the exploration returns, does not know it; when it is created
  again, its handle is mapped but not contained, and `observe_runner` throws
  (`coordinator.cpp:155`);
* `HandlesAreFresh` (for `DeadlocksAreReal`): no thread is given the `pthread_t` of an
  earlier one;
* `FirstUsesAreStable` (for `HandlesStayValid`): if the next operation of a thread
  introduces an object, it does so too after any steps of the others.

`MCCoordinator` has TLC evaluate them for its programs on all schedules of up to four
steps (`HandlesAreFresh` for all but the one about reuse). `ModelIsFaithful` makes no
assumption on handles: as long as a process has not used one again, `StepsInv` (every
state is what the transition before it leads to) and the number of creates in the trace
show that a thread is created once, so that a runner that has exited is not active. `ModelMatchesProcess` becomes inductive with `MatchInv`, which says it of every
prefix of the trace, since a return to a depth cuts the trace and restores pending
transitions from it; `KnownInv` (who has a pending transition) and `ThreadsInv` (a
thread changes only by its own steps) justify the restoring. `StackInv` adds that the
enabled sets on the stack are those of the process. `DeadlockIsReal` needs moreover
`CreateInv` and `HandleInv`: who is alive in the model is alive in the process, and
whoever has a handle is created on some schedule, hence, before main can return, on
this one.

`HandlesRemainValid` says that three things never happen. `RunnersAreRecognised`
excludes two of them by `SearchInv`: main has the smallest id, so wherever it can go
on it is searched first, from an element that is new and thus knows every id there is;
a create is therefore never repeated from an element that has been returned to. A gap
in the ids is excluded by `SegmentInv`: where runners are left to search, the ids known
are an initial segment, and where at least two are left, none of them will find a new
object. The branch before has been run to its end; unless it
ended in a deadlock, every runner passed over has taken its step in it, and what that step
found it finds again (`FirstUsesAreStable`, `UseInv`). After a deadlock this argument
fails, so the theorem is about explorations in which deadlocks are met only where at
most two runners could go on at every depth (`NoThirdContender`), where one is left and
a new object closes no gap. `coordinator_meet` is the case it leaves out.

### Dpor

For any programs over any number of runners, mutexes and semaphores (`DporAssumption`:
a runner's operations are its own) and, since the proofs do not look into them, for
any dependency and co-enabledness relation. `IInv` describes an entry of the stack:
clocks never exceed the depth, the backtrack set is a part of what is enabled and was
not followed, the step out of an entry is among those followed, and the entry of depth
0 has nothing to come back for. The last is `DepthZeroNeverRestored` and follows from
the lenient comparison with the clocks, which are at least 0. `ExploredInv` gives
`NoTraceTwice`: a complete schedule has left the current trace at an entry, by a step
that is not taken there again.

### Template

For every process source, number of branches and set of faults
(`TemplateAssumption`). `HandleIsFresh` is about a pid read after a semaphore that
SIGCHLDs post too. `TokenInv` says why that is safe: as long as no signal is counted,
a token on `mcmini_process_sem` means an answered request, and McMini looks at the
counter before it trusts the pid. `ChildInv` (the template has one child between a
fork and the death it awaits), `RequestInv` (one request or answer under way) and, for
branches launched from an image, `RestartInv` (a branch is launched once the one
before is reaped) give `OneBranch`.

### Record

For any finite set of threads, any mutexes, semaphores and condition variables, and
any programs of the operations of `Kinds` (`RecordAssumption`: operations are on
objects of their kind, the three kinds of objects are disjoint, and every
`pthread_create` makes a new thread). The theorems about objects ask something of the
program:

* `InitializedFirst`: objects are initialized by the main thread before it creates
  others, mutexes also before they are used. (A semaphore that is initialized again
  while others post it has no value of which the record could be a copy.) Programs
  without any initialization, as with `PTHREAD_MUTEX_INITIALIZER`, satisfy it.
* `LocksProperly` (mutexes only): a thread unlocks, and waits with, what it has
  locked; anything else is undefined in POSIX.

All programs of the run satisfy the first, all but one the second
(`MCProgramsAssumption`).

The control part, `IInv`, says what a thread's place in its wrapper implies for its
record, id and mailbox (`ThreadInv`, `RidInv`, `SavedInv`), that nobody exists before
he is created and main is alone before its first create (`CreateInv`, `AloneInv`),
what mode, DMTCP and template thread have to do with each other (`ModeInv`), and that
posts received and outstanding add up to the saved threads, so that the barrier is
passed only when all counted threads have checked in. `ModelInv` says that McMini's
model agrees with the records while no thread is `Busy`, that is, could still change
one; at a settled count there is none. The many steps of the wrappers are sorted into
nine shapes first (`Shape` in `RecordProofs`), by which this part is proved.

On top of it, one invariant per kind of object relates records and reality at every
moment, the checkpoint being possible at every moment:

* `CondInv`: whoever is inside `cond_wait` is in the recorded queue;
* `SemInv`: the recorded count, plus the posts and minus the waits between call and
  update, is the real count;
* `HoldsInv`, `FreshInv`, `MutexInv`: by its program a thread owns what it holds; a
  mutex to be initialized is untouched; and, unless its record was overtaken, a mutex
  is owned by the recorded owner or by a thread about to record itself, and is free
  while recorded as locked only if its unlock is about to be recorded or the recorded
  owner sleeps in `cond_wait`.

* `PhantomInv`: overtaken or not, who is recorded as owner is the owner, is about to
  record its unlock, or sleeps in `cond_wait` with the mutex.

At a settled count nobody is between call and update, and the four become the
properties. A fork in the template loop leaves out threads that have not checked in;
where one of them was recorded as alive (`Lost`) the count was not right.

### Join

For any set of threads and any joins in which nobody is joined twice (undefined in
POSIX; `JoinAssumption`), any mixture of created, restarted and ended threads.
The two properties are inductive together with `TokenInv` (a token of
`really_exited_sem` means a thread that is gone, one of `exit_permission_sem` a join
that has begun), `WindowInv` (where a thread restarted inside its first operation can
be) and `RoundInv` (mailbox, pending transition and the thread's place agree, and only
the scheduled thread moves).

### Only model-checked

* The liveness properties: `RoundEnds`, `DeathNoticed`, `CreationEnds`,
  `BarrierPasses`, `RoundsEnd`, `Terminates`. Temporal proofs from fairness need
  `ENABLED`, which the prover does not handle.
* `EveryOutcomeFound`: what it compares with is a recursive function over all
  positions, and the property holds only for programs in which the missed races do
  not occur.

## 5. Not modelled

* Memory ownership, logging, formatting, command line, shared-memory and FIFO
  set-up, symbol interception, TSan support.
* `multithreaded_fork.c`: register and TLS manipulation, not called by the
  template loop.
* SIGINT and SIGTERM of McMini, which end it.
* The relations of condition variable transitions in DPOR. A signal and a wait on
  one condition variable are registered as never enabled together, which they can be.
* What a program does with a `pthread_t` that was used again beyond the schedule on
  which McMini hangs: a join of it finds the newest entry of `pthread_map`, whose id
  the model does not know. While recording, `wrappers.c:666` asserts that the
  `pthread_t` of a new thread has no record; one that was used again has the record of
  the joined thread. `Record` and `Join` number threads and never use a number again.
* Spurious wake-ups of the real `pthread_cond_timedwait` in `Record`; mutexes that
  are not plain; semaphore overflow.
* The order in which threads are recreated by `fast_multithreaded_fork`, and TLS.

## 6. Plan

* Composition of `Template` and `Mailbox` through the semaphore that `current_sem`
  points at, in place of the abstract round of `Template`.
* `Coordinator`: the largest class of programs with deadlocks in which handles stay
  valid; `NoThirdContender` is sufficient, not necessary.
