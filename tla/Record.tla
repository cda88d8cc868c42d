------------------------------- MODULE Record -------------------------------
(***************************************************************************)
(* libmcmini.so inside a target run under DMTCP.  While recording, every   *)
(* wrapper keeps a record of the object it works on (rec_list): one        *)
(* critical section under rec_list_lock before the libpthread call, one    *)
(* after it.  A checkpoint may hit between any two steps.  In the          *)
(* restarted process every thread goes on to its next wrapper, writes that *)
(* operation into its mailbox and checks in with the template thread; once *)
(* all threads did, the template thread sends the records to McMini, which *)
(* builds its first model from them.                                       *)
(*                                                                         *)
(* A critical section under rec_list_lock is one step, and so are a        *)
(* wrapper's look at the mode and its first critical section: nobody acts  *)
(* on a record before the threads have checked in.                         *)
(***************************************************************************)
EXTENDS Integers, FiniteSets, SequencesExt

CONSTANTS
  Threads,    \* the threads of the target
  Main,       \* its main thread
  Mutexes, Sems, Conds,
  Programs,   \* the programs considered: every thread's sequence of operations
  NoThread,   \* RID_INVALID
  NoOp        \* an untouched mailbox (INVISIBLE_OPERATION_TYPE)

Objects == Mutexes \cup Sems \cup Conds

\* What a thread may do, on which objects; thread_exit is what follows the routine.
Kinds ==
  {"mutex_init", "lock", "unlock", "sem_init", "sem_destroy", "sem_post", "sem_wait",
   "cond_init", "cond_wait", "cond_signal", "cond_broadcast", "cond_destroy",
   "create", "join", "pthread_exit", "exit", "abort"}

WellFormed(o) ==
  /\ o.kind \in {"mutex_init", "lock", "unlock"} => o.obj \in Mutexes
  /\ o.kind \in {"sem_init", "sem_destroy", "sem_post", "sem_wait"} => o.obj \in Sems
  /\ o.kind = "sem_init" => o.arg \in Nat
  /\ o.kind \in {"cond_init", "cond_wait", "cond_signal", "cond_broadcast",
                 "cond_destroy"} => o.obj \in Conds
  /\ o.kind = "cond_wait" => o.arg \in Mutexes
  /\ o.kind \in {"create", "join"} => o.obj \in Threads

Operations ==
  {o \in [kind : Kinds, obj : Objects \cup Threads \cup {NoThread}, arg : Mutexes \cup Nat] :
     WellFormed(o)}

\* Every pthread_create makes a new thread.
CreatesOnce(p) ==
  \A t, u \in Threads : \A i \in DOMAIN p[t], j \in DOMAIN p[u] :
    p[t][i].kind = "create" =>
      /\ p[t][i].obj # Main
      /\ p[u][j].kind = "create" /\ p[u][j].obj = p[t][i].obj => t = u /\ i = j

ASSUME RecordAssumption ==
  /\ IsFiniteSet(Threads) /\ Main \in Threads
  /\ NoThread \notin Threads
  /\ Mutexes \cap Sems = {} /\ Mutexes \cap Conds = {} /\ Sems \cap Conds = {}
  /\ Programs \subseteq [Threads -> Seq(Operations)]
  /\ \A p \in Programs : CreatesOnce(p)

VARIABLES
  prog,       \* the program
  mode,       \* libmcmini_mode
  suspended,  \* DMTCP has stopped the user's threads
  candidates, \* threads DMTCP created that may be its checkpoint thread
  pc, step,   \* the operation a thread is at, and how far it is in its wrapper
  owner,      \* the real mutexes
  tokens,     \* the real semaphores
  rec,        \* the records of mutexes, semaphores and condition variables
  thr, rid,   \* the records of threads, and the ids threads were registered with
  mailbox,    \* the mailboxes, by id
  saved,      \* threadInfos: the threads that have saved their context
  posts,      \* dmtcp_restart_sem
  tmut,       \* the owner of template_thread_mut
  tmpl,       \* where the template thread is
  counted, left, \* the threads it counted, and the posts it still waits for
  model,      \* the model McMini has built from the records
  ended,      \* how the process ended, or "no"
  raced       \* history: mutexes whose record was overtaken (see MutexesRestored)

real == <<owner, tokens>>
records == <<rec, thr, rid, raced>>
restart == <<saved, posts, tmut, tmpl, counted, left, model>>
system == <<mode, suspended, candidates>>
vars == <<prog, system, pc, step, real, records, mailbox, restart, ended>>

Ids == 0..(Cardinality(Threads) - 1)

-----------------------------------------------------------------------------
(* Operations, modes and records.                                          *)

Modes ==
  {"PRE_DMTCP_INIT", "PRE_CHECKPOINT_THREAD", "RECORD", "PRE_CHECKPOINT",
   "DMTCP_RESTART_INTO_BRANCH", "DMTCP_RESTART_INTO_TEMPLATE",
   "TARGET_BRANCH_AFTER_RESTART"}

Op(kind, obj, arg) == [kind |-> kind, obj |-> obj, arg |-> arg]
Exit == Op("thread_exit", NoThread, 0)

\* A thread whose routine has returned goes through the exit wrapper, the main
\* thread through that of exit().
Cur(t) ==
  IF pc[t] <= Len(prog[t]) THEN prog[t][pc[t]]
  ELSE IF t = Main THEN Op("exit", NoThread, 0) ELSE Exit

Record(status, count) ==
  [status |-> status, owner |-> NoThread, count |-> count, queue |-> <<>>]
NoRecord == Record("NONE", 0)

Recording == mode \in {"RECORD", "PRE_CHECKPOINT"}
InRestart == mode \in {"DMTCP_RESTART_INTO_BRANCH", "DMTCP_RESTART_INTO_TEMPLATE"}

At(t, s) == step[t] = s /\ ~suspended /\ ended = "no"
In(t, kind) == Cur(t).kind = kind
Goto(t, s) == step' = [step EXCEPT ![t] = s] /\ UNCHANGED pc
Return(t) == step' = [step EXCEPT ![t] = "call"] /\ pc' = [pc EXCEPT ![t] = @ + 1]

Init ==
  /\ prog \in Programs
  /\ mode = "PRE_DMTCP_INIT" /\ suspended = FALSE /\ candidates = {}
  /\ pc = [t \in Threads |-> 1]
  /\ step = [t \in Threads |-> IF t = Main THEN "call" ELSE "absent"]
  /\ owner = [m \in Mutexes |-> NoThread]
  /\ tokens = [s \in Sems |-> 0]
  /\ rec = [o \in Objects |-> NoRecord]
  /\ thr = [t \in Threads |-> "NONE"]
  /\ rid = [t \in Threads |-> -1]
  /\ mailbox = [i \in Ids |-> NoOp]
  /\ saved = {} /\ posts = 0 /\ tmut = NoThread
  /\ tmpl = "asleep" /\ counted = {} /\ left = 0
  /\ model = NoOp
  /\ ended = "no"
  /\ raced = {}

-----------------------------------------------------------------------------
(* Until the recording starts: DMTCP's events and its checkpoint thread.   *)

DmtcpEventInit ==
  /\ mode = "PRE_DMTCP_INIT"
  /\ mode' = "PRE_CHECKPOINT_THREAD"
  /\ UNCHANGED <<prog, suspended, candidates, pc, step, real, records, mailbox,
                 restart, ended>>

\* The id a thread is registered with: mc_register_this_thread counts.
NextRid == Cardinality({t \in Threads : rid[t] # -1})

\* The main thread records itself and creates DMTCP's checkpoint thread, during
\* which ThreadSanitizer may create a thread of its own.
CreateCheckpointThread ==
  /\ mode = "PRE_CHECKPOINT_THREAD" /\ thr[Main] = "NONE"
  /\ rid' = [rid EXCEPT ![Main] = NextRid]
  /\ thr' = [thr EXCEPT ![Main] = "ALIVE"]
  /\ candidates' \in {{"ckpt"}, {"ckpt", "tsan"}}
  /\ UNCHANGED <<prog, mode, suspended, pc, step, real, rec, raced, mailbox,
                 restart, ended>>

\* On its first wrapped call a candidate finds out which of the two it is.  The
\* main thread reaches its first operation once the checkpoint thread runs.
ResolveCandidate(c) ==
  /\ c \in candidates /\ ~suspended
  /\ candidates' = candidates \ {c}
  /\ mode' = IF c = "ckpt" THEN "RECORD" ELSE mode
  /\ UNCHANGED <<prog, suspended, pc, step, real, records, mailbox, restart, ended>>

DmtcpEventPrecheckpoint ==
  /\ Recording /\ ~suspended /\ ended = "no"
  /\ mode' = "PRE_CHECKPOINT" /\ suspended' = TRUE
  /\ UNCHANGED <<prog, candidates, pc, step, real, records, mailbox, restart, ended>>

DmtcpEventResume ==
  /\ suspended
  /\ suspended' = FALSE
  /\ UNCHANGED <<prog, mode, candidates, pc, step, real, records, mailbox,
                 restart, ended>>

\* The process is restored from the image.
DmtcpEventRestart(into) ==
  /\ suspended
  /\ mode' = into /\ suspended' = FALSE
  /\ tmpl' = "count"
  /\ UNCHANGED <<prog, candidates, pc, step, real, records, mailbox, saved, posts,
                 tmut, counted, left, model, ended>>

-----------------------------------------------------------------------------
(* What the wrappers share.                                                *)

\* First critical section: find the record of the object or add it.
FindOrAdd(t, new) ==
  /\ At(t, "call") /\ Recording
  /\ rec' = IF rec[Cur(t).obj] = NoRecord THEN [rec EXCEPT ![Cur(t).obj] = new]
            ELSE rec
  /\ Goto(t, "real")
  /\ UNCHANGED <<prog, system, real, thr, rid, raced, mailbox, restart, ended>>

\* The libpthread call has returned 0.
Called(t, newOwner, newTokens) ==
  /\ At(t, "real")
  /\ owner' = newOwner /\ tokens' = newTokens
  /\ Goto(t, "update")
  /\ UNCHANGED <<prog, system, rec, thr, rid, mailbox, restart, ended>>

\* Second critical section.
Update(t, new) ==
  /\ At(t, "update")
  /\ rec' = [rec EXCEPT ![Cur(t).obj] = new]
  /\ Return(t)
  /\ UNCHANGED <<prog, system, real, thr, rid, mailbox, restart, ended>>

Terminate(t, how) ==
  /\ ended' = how
  /\ UNCHANGED <<prog, system, pc, step, real, records, mailbox, restart>>

\* What McMini will read as the thread's next operation.
Announced(t) ==
  IF In(t, "cond_wait") THEN [Cur(t) EXCEPT !.kind = "cond_enqueue"] ELSE Cur(t)

\* The thread writes its operation into its mailbox and checks in.
Announce(t) ==
  /\ mailbox' = [mailbox EXCEPT ![rid[t]] = Announced(t)]
  /\ Goto(t, "checkin")
  /\ UNCHANGED <<prog, system, real, records, restart, ended>>

\* The restart branch of every wrapper, and the branch of a process under McMini.
EnterAfterRestart(t) ==
  /\ At(t, "call")
  /\ \/ InRestart /\ ~In(t, "create") /\ Announce(t)
     \/ /\ mode = "TARGET_BRANCH_AFTER_RESTART"
        /\ mailbox' = [mailbox EXCEPT ![rid[t]] = Announced(t)]
        /\ Goto(t, "await")
        /\ UNCHANGED <<prog, system, real, records, restart, ended>>

\* Seeded fault: the loop does not look at the mode.
TimedOutRetried(t) == At(t, "real") /\ UNCHANGED vars

\* A timed libpthread call gave up: only after a restart is the loop left.
TimedOut(t) == At(t, "real") /\ InRestart /\ Announce(t)

-----------------------------------------------------------------------------
(* The wrappers of mutexes.                                                *)

Unlocking(m) ==
  {t \in Threads : step[t] = "update" /\ In(t, "unlock") /\ Cur(t).obj = m}

MutexInit(t) ==
  LET m == Cur(t).obj
  IN  /\ In(t, "mutex_init")
      /\ \/ FindOrAdd(t, Record("UNINITIALIZED", 0))
         \/ Called(t, [owner EXCEPT ![m] = NoThread], tokens) /\ UNCHANGED raced
         \/ Update(t, [rec[m] EXCEPT !.status = "UNLOCKED"]) /\ UNCHANGED raced

MutexLock(t) ==
  LET m == Cur(t).obj
  IN  /\ In(t, "lock")
      /\ \/ FindOrAdd(t, Record("UNINITIALIZED", 0))
         \/ /\ owner[m] = NoThread
            /\ Called(t, [owner EXCEPT ![m] = t], tokens)
            /\ raced' = IF Unlocking(m) # {} THEN raced \cup {m} ELSE raced
         \/ owner[m] # NoThread /\ TimedOut(t)
         \/ /\ Update(t, [rec[m] EXCEPT !.status = "LOCKED", !.owner = t])
            /\ raced' = IF Unlocking(m) = {} THEN raced \ {m} ELSE raced

\* Seeded fault: the record is not reset.
UnlockedRecordKept(r) == r

UnlockedRecord(r) == [r EXCEPT !.status = "UNLOCKED", !.owner = NoThread]

MutexUnlock(t) ==
  LET m == Cur(t).obj
  IN  /\ In(t, "unlock")
      /\ \/ rec[m] # NoRecord /\ FindOrAdd(t, NoRecord)
         \/ /\ At(t, "call") /\ Recording /\ rec[m] = NoRecord
            /\ Terminate(t, "abort")
         \/ Called(t, [owner EXCEPT ![m] = NoThread], tokens) /\ UNCHANGED raced
         \/ /\ Update(t, UnlockedRecord(rec[m]))
            /\ raced' = IF owner[m] = NoThread THEN raced \ {m} ELSE raced

-----------------------------------------------------------------------------
(* The wrappers of semaphores.                                             *)

SemInit(t) ==
  LET s == Cur(t).obj
  IN  /\ In(t, "sem_init")
      /\ \/ FindOrAdd(t, Record("SEM_UNINITIALIZED", 0))
         \/ Called(t, owner, [tokens EXCEPT ![s] = Cur(t).arg]) /\ UNCHANGED raced
         \/ Update(t, Record("SEM_INITIALIZED", Cur(t).arg)) /\ UNCHANGED raced

SemDestroy(t) ==
  /\ In(t, "sem_destroy")
  /\ \/ FindOrAdd(t, Record("SEM_UNINITIALIZED", 0))
     \/ Called(t, owner, tokens) /\ UNCHANGED raced
     \/ Update(t, Record("SEM_DESTROYED", 0)) /\ UNCHANGED raced

SemPost(t) ==
  LET s == Cur(t).obj
  IN  /\ In(t, "sem_post")
      /\ \/ FindOrAdd(t, Record("SEM_INITIALIZED", tokens[s]))
         \/ Called(t, owner, [tokens EXCEPT ![s] = @ + 1]) /\ UNCHANGED raced
         \/ Update(t, [rec[s] EXCEPT !.count = @ + 1]) /\ UNCHANGED raced

\* Seeded fault: a wait that timed out is recorded like one that succeeded.
SemTimedOutCounted(t) ==
  /\ At(t, "real") /\ tokens[Cur(t).obj] = 0
  /\ Goto(t, "update")
  /\ UNCHANGED <<prog, system, real, records, mailbox, restart, ended>>

\* sem_timedwait reports a timeout as -1, which the loop takes for a true error
\* and returns to the caller.
SemTimedOut(t) ==
  /\ At(t, "real") /\ tokens[Cur(t).obj] = 0
  /\ Return(t)
  /\ UNCHANGED <<prog, system, real, records, mailbox, restart, ended>>

SemWait(t) ==
  LET s == Cur(t).obj
  IN  /\ In(t, "sem_wait")
      /\ \/ FindOrAdd(t, Record("SEM_INITIALIZED", tokens[s]))
         \/ /\ tokens[s] > 0
            /\ Called(t, owner, [tokens EXCEPT ![s] = @ - 1]) /\ UNCHANGED raced
         \/ SemTimedOut(t)
         \/ Update(t, [rec[s] EXCEPT !.count = @ - 1]) /\ UNCHANGED raced

-----------------------------------------------------------------------------
(* The wrappers of condition variables.                                    *)

Queue(c) == rec[c].queue
InQueue(q, t) == \E i \in DOMAIN q : q[i].thread = t
Waiter(t, s) == [thread |-> t, state |-> s]

\* enqueue_thread, get_thread_cv_state and remove_thread_from_queue
Enqueue(q, t, s) == Append(q, Waiter(t, s))
HasState(q, t, s) == \E i \in DOMAIN q : q[i] = Waiter(t, s)
RemoveThread(q, t) == RemoveFirstMatch(q, LAMBDA w : w.thread = t)

\* update_thread_cv_state, for the waiters in W
Mark(q, W, s) ==
  [i \in DOMAIN q |-> IF q[i].thread \in W THEN Waiter(q[i].thread, s) ELSE q[i]]

Inside(q, s) == {i \in DOMAIN q : q[i].state = s}

\* get_waiting_thread_node: the first waiter recorded as CV_WAITING
FirstWaiting(q) ==
  {q[i].thread : i \in {j \in Inside(q, "CV_WAITING") :
                           \A k \in Inside(q, "CV_WAITING") : j <= k}}

Sleeping(c) ==
  {t \in Threads : step[t] = "sleep" /\ In(t, "cond_wait") /\ Cur(t).obj = c}

CondInit(t) ==
  /\ In(t, "cond_init")
  /\ \/ FindOrAdd(t, Record("CV_UNINITIALIZED", 0))
     \/ Called(t, owner, tokens) /\ UNCHANGED raced
     \/ Update(t, Record("CV_INITIALIZED", 0)) /\ UNCHANGED raced

\* The thread enters the outer waiting room, unless it never left the queue.
EnteredRecord(r, t) ==
  [r EXCEPT !.owner = t, !.count = @ + 1,
            !.queue = IF InQueue(@, t) THEN @
                      ELSE Enqueue(@, t, "CV_PREWAITING")]

CondWaitEnter(t) ==
  LET c == Cur(t).obj
      r == IF rec[c] = NoRecord THEN Record("CV_INITIALIZED", 0) ELSE rec[c]
  IN  /\ At(t, "call") /\ Recording
      /\ rec' = [rec EXCEPT ![c] = EnteredRecord(r, t)]
      /\ Goto(t, "real")
      /\ UNCHANGED <<prog, system, real, thr, rid, raced, mailbox, restart, ended>>

\* pthread_cond_timedwait gives up the mutex and sleeps, ...
CondSleep(t) ==
  /\ At(t, "real")
  /\ owner' = [owner EXCEPT ![Cur(t).arg] = NoThread]
  /\ Goto(t, "sleep")
  /\ UNCHANGED <<prog, system, tokens, records, mailbox, restart, ended>>

\* ... until it times out; a signal moves it on to "signalled".
CondTimeout(t) ==
  /\ At(t, "sleep")
  /\ Goto(t, "timedout")
  /\ UNCHANGED <<prog, system, real, records, mailbox, restart, ended>>

\* It returns once it has the mutex again.  After a timeout it goes back to
\* sleep, or announces itself if the process was restarted.
CondRelock(t) ==
  LET m == Cur(t).arg
  IN  /\ step[t] \in {"signalled", "timedout"} /\ ~suspended /\ ended = "no"
      /\ owner[m] = NoThread
      /\ owner' = [owner EXCEPT ![m] = t]
      /\ raced' = IF rec[m].owner = t THEN raced ELSE raced \cup {m}
      /\ Goto(t, IF step[t] = "signalled" THEN "woken"
                 ELSE IF InRestart THEN "escaped" ELSE "real")
      /\ UNCHANGED <<prog, system, tokens, rec, thr, rid, mailbox, restart, ended>>

\* A waiter that was marked as signalled leaves the queue, any other is marked
\* as waiting although it returns to its caller.
WokenRecord(r, t) ==
  IF HasState(r.queue, t, "CV_SIGNALED")
  THEN [r EXCEPT !.count = @ - 1, !.queue = RemoveThread(@, t)]
  ELSE [r EXCEPT !.queue = Mark(@, {t}, "CV_WAITING")]

CondWoken(t) ==
  /\ At(t, "woken")
  /\ rec' = [rec EXCEPT ![Cur(t).obj] = WokenRecord(rec[Cur(t).obj], t)]
  /\ Return(t)
  /\ UNCHANGED <<prog, system, real, thr, rid, raced, mailbox, restart, ended>>

CondWait(t) ==
  /\ In(t, "cond_wait")
  /\ \/ CondWaitEnter(t)
     \/ CondSleep(t)
     \/ CondTimeout(t)
     \/ CondRelock(t)
     \/ At(t, "escaped") /\ Announce(t)
     \/ CondWoken(t)

\* The real signal: the kernel wakes the sleepers in W.
Wake(t, W) ==
  /\ At(t, "real")
  /\ step' = [u \in Threads |-> IF u = t THEN "update"
                                ELSE IF u \in W THEN "signalled" ELSE step[u]]
  /\ UNCHANGED <<prog, system, pc, real, records, mailbox, restart, ended>>

\* Seeded fault: the waiter is taken out of the queue when it is signalled.
SignalRecordPops(r) ==
  [r EXCEPT !.queue = SelectSeq(@, LAMBDA w : w # Head(r.queue))]

SignalRecord(r) == [r EXCEPT !.queue = Mark(@, FirstWaiting(@), "CV_SIGNALED")]

CondSignal(t) ==
  LET c == Cur(t).obj
  IN  /\ In(t, "cond_signal")
      /\ \/ FindOrAdd(t, Record("CV_INITIALIZED", 0))
         \/ Sleeping(c) = {} /\ Wake(t, {})
         \/ \E u \in Sleeping(c) : Wake(t, {u})
         \/ Update(t, SignalRecord(rec[c])) /\ UNCHANGED raced

BroadcastRecord(r) ==
  [r EXCEPT !.queue = Mark(@, {w.thread : w \in {@[i] : i \in Inside(@, "CV_WAITING")}},
                           "CV_SIGNALED")]

CondBroadcast(t) ==
  LET c == Cur(t).obj
  IN  /\ In(t, "cond_broadcast")
      /\ \/ FindOrAdd(t, Record("CV_INITIALIZED", 0))
         \/ Wake(t, Sleeping(c))
         \/ Update(t, BroadcastRecord(rec[c])) /\ UNCHANGED raced

CondDestroy(t) ==
  LET c == Cur(t).obj
  IN  /\ In(t, "cond_destroy")
      /\ \/ Queue(c) = <<>> /\ rec[c] # NoRecord /\ FindOrAdd(t, NoRecord)
         \/ /\ At(t, "call") /\ Recording
            /\ Queue(c) # <<>> \/ rec[c] = NoRecord
            /\ Terminate(t, "abort")
         \/ Called(t, owner, tokens) /\ UNCHANGED raced
         \/ Update(t, [rec[c] EXCEPT !.status = "CV_DESTROYED"]) /\ UNCHANGED raced

-----------------------------------------------------------------------------
(* The wrappers of threads and of the process.                             *)

\* pthread_create does not check in after a restart: it creates the thread, waits
\* until the thread has recorded itself, and returns.
ThreadCreate(t) ==
  LET child == Cur(t).obj
  IN  /\ In(t, "create")
      /\ \/ /\ At(t, "call") /\ (Recording \/ InRestart)
            /\ step' = [step EXCEPT ![t] = "creating", ![child] = "start"]
            /\ UNCHANGED pc
         \/ At(t, "creating") /\ rid[child] # -1 /\ Return(t)
      /\ UNCHANGED <<prog, system, real, records, mailbox, restart, ended>>

\* mc_thread_routine_wrapper, up to the start routine
ThreadStart(t) ==
  /\ At(t, "start")
  /\ rid' = [rid EXCEPT ![t] = NextRid]
  /\ IF Recording \/ InRestart
     THEN thr' = [thr EXCEPT ![t] = "ALIVE"] /\ Goto(t, "call")
     ELSE UNCHANGED thr /\ Goto(t, "await")
  /\ UNCHANGED <<prog, system, real, rec, raced, mailbox, restart, ended>>

\* mc_thread_routine_wrapper, after the start routine: a thread that saw RECORD
\* marks itself and ends without another look at the mode.
ThreadExit(t) ==
  /\ In(t, "thread_exit")
  /\ \/ /\ At(t, "call") /\ Recording
        /\ Goto(t, "update")
        /\ UNCHANGED thr
     \/ /\ At(t, "update")
        /\ thr' = [thr EXCEPT ![t] = "EXITED"]
        /\ Goto(t, "dead")
  /\ UNCHANGED <<prog, system, real, rec, rid, raced, mailbox, restart, ended>>

\* pthread_exit ends the thread and leaves its record as it is.
PthreadExit(t) ==
  /\ In(t, "pthread_exit") /\ At(t, "call") /\ Recording
  /\ Goto(t, "dead")
  /\ UNCHANGED <<prog, system, real, records, mailbox, restart, ended>>

ThreadJoin(t) ==
  LET target == Cur(t).obj
  IN  /\ In(t, "join")
      /\ \/ /\ \/ At(t, "call") /\ Recording /\ Goto(t, "real") /\ UNCHANGED thr
               \/ At(t, "real") /\ step[target] = "dead" /\ Goto(t, "update")
                                 /\ UNCHANGED thr
               \/ At(t, "update") /\ thr' = [thr EXCEPT ![target] = "EXITED"]
                                   /\ Return(t)
            /\ UNCHANGED <<prog, system, real, rec, rid, raced, mailbox, restart, ended>>
         \/ step[target] # "dead" /\ TimedOut(t)

\* mc_transparent_exit and mc_transparent_abort
ProcessEnd(t) ==
  /\ Cur(t).kind \in {"exit", "abort"} /\ At(t, "call") /\ Recording
  /\ Terminate(t, Cur(t).kind)

-----------------------------------------------------------------------------
(* Checking in after a restart.                                            *)

\* thread_handle_after_dmtcp_restart: save the context, tell the template thread.
\* A thread of a template process then waits for the branch.
CheckIn(t) ==
  /\ At(t, "checkin")
  /\ \/ /\ InRestart
        /\ saved' = saved \cup {t} /\ posts' = posts + 1
        /\ Goto(t, IF mode = "DMTCP_RESTART_INTO_BRANCH" THEN "await" ELSE "park")
        /\ UNCHANGED <<prog, system, real, records, mailbox, tmut, tmpl, counted,
                       left, model, ended>>
     \/ ~InRestart /\ Terminate(t, "abort")

\* The loop on template_thread_cond, until the process is a branch.
Park(t) ==
  /\ \/ At(t, "park") /\ tmut = NoThread /\ tmut' = t /\ Goto(t, "parking")
     \/ /\ At(t, "parking") /\ tmut' = NoThread
        /\ Goto(t, IF mode = "TARGET_BRANCH_AFTER_RESTART" THEN "await" ELSE "parked")
  /\ UNCHANGED <<prog, system, real, records, mailbox, saved, posts, tmpl, counted,
                 left, model, ended>>

Thread(t) ==
  \/ MutexInit(t) \/ MutexLock(t) \/ MutexUnlock(t)
  \/ SemInit(t) \/ SemDestroy(t) \/ SemPost(t) \/ SemWait(t)
  \/ CondInit(t) \/ CondWait(t) \/ CondSignal(t) \/ CondBroadcast(t) \/ CondDestroy(t)
  \/ ThreadCreate(t) \/ ThreadStart(t) \/ ThreadExit(t) \/ PthreadExit(t)
  \/ ThreadJoin(t) \/ ProcessEnd(t)
  \/ EnterAfterRestart(t) \/ CheckIn(t) \/ Park(t)

-----------------------------------------------------------------------------
(* The template thread, and McMini's first model.                          *)

Alive == {t \in Threads : thr[t] = "ALIVE"}

\* Seeded fault: the template thread waits for one thread less.
CountThreadsShort ==
  /\ tmpl = "count"
  /\ counted' = Alive /\ left' = Cardinality(Alive) - 1
  /\ tmpl' = "wait"
  /\ UNCHANGED <<prog, system, pc, step, real, records, mailbox, saved, posts, tmut,
                 model, ended>>

\* The walk through the records takes no lock; a record added meanwhile is either
\* seen or not, as if it had been added before or after the walk.
CountThreads ==
  /\ tmpl = "count"
  /\ counted' = Alive /\ left' = Cardinality(Alive)
  /\ tmpl' = "wait"
  /\ UNCHANGED <<prog, system, pc, step, real, records, mailbox, saved, posts, tmut,
                 model, ended>>

\* Seeded fault: the loop may go round once more than there are threads.
AwaitThreadOnceMore ==
  /\ tmpl = "wait" /\ posts > 0
  /\ left' = left - 1 /\ posts' = posts - 1
  /\ UNCHANGED <<prog, system, pc, step, real, records, mailbox, saved, tmut, tmpl,
                 counted, model, ended>>

AwaitThread ==
  /\ tmpl = "wait" /\ left > 0 /\ posts > 0
  /\ left' = left - 1 /\ posts' = posts - 1
  /\ UNCHANGED <<prog, system, pc, step, real, records, mailbox, saved, tmut, tmpl,
                 counted, model, ended>>

\* The barrier is passed: the process is a branch, or a template.
Publish ==
  /\ tmpl = "wait" /\ left = 0
  /\ IF mode = "DMTCP_RESTART_INTO_BRANCH"
     THEN mode' = "TARGET_BRANCH_AFTER_RESTART" /\ tmpl' = "transfer"
     ELSE UNCHANGED mode /\ tmpl' = "loop"
  /\ UNCHANGED <<prog, suspended, candidates, pc, step, real, records, mailbox, saved,
                 posts, tmut, counted, left, model, ended>>

\* fast_multithreaded_fork, followed in the child: the memory is a copy, the
\* threads that saved their context are created again and resume there.
Fork ==
  /\ tmpl = "loop"
  /\ step' = [t \in Threads |-> IF t \in saved THEN "park"
                                ELSE IF step[t] \in {"absent", "dead"} THEN step[t]
                                ELSE "gone"]
  /\ mode' = "TARGET_BRANCH_AFTER_RESTART"
  /\ tmpl' = "broadcast"
  /\ UNCHANGED <<prog, suspended, candidates, pc, real, records, mailbox, saved, posts,
                 tmut, counted, left, model, ended>>

Broadcast ==
  /\ tmpl = "broadcast" /\ tmut = NoThread
  /\ step' = [t \in Threads |-> IF step[t] = "parked" THEN "park" ELSE step[t]]
  /\ tmpl' = "transfer"
  /\ UNCHANGED <<prog, system, pc, real, records, mailbox, saved, posts, tmut, counted,
                 left, model, ended>>

\* do_model_checking_from_dmtcp_ckpt_file: the recorded runners sorted by id, and
\* the pending transition of each: its mailbox if it is alive.
Recorded == {t \in Threads : thr[t] # "NONE"}
Runners ==
  CHOOSE s \in SetToSeqs(Recorded) : \A i, j \in DOMAIN s : i < j => rid[s[i]] < rid[s[j]]
FirstTransition(t) == IF thr[t] = "ALIVE" THEN mailbox[rid[t]] ELSE Exit

\* translate_recorded_object_to_model: the enumerations agree value by value; of a
\* condition variable's waiters the signalled ones make up one wake group, the
\* others stay in the queue.
TranslatedObject(r) ==
  [status |-> r.status, owner |-> r.owner, count |-> r.count,
   queue |-> SelectSeq(r.queue, LAMBDA w : w.state # "CV_SIGNALED"),
   group |-> {r.queue[i].thread : i \in Inside(r.queue, "CV_SIGNALED")}]

\* translate_recorded_runner_to_model
TranslatedRunner(t) == IF thr[t] = "ALIVE" THEN "running" ELSE "exited"

\* A mailbox without an operation has no callback; an object that no record told
\* McMini of would be added now, which it takes for a failure of the recording.
Untranslatable(t) ==
  \/ FirstTransition(t) = NoOp
  \/ FirstTransition(t).obj \in Objects /\ rec[FirstTransition(t).obj] = NoRecord

Transfer ==
  /\ tmpl = "transfer" /\ ended = "no"
  /\ model' = [failed |-> \E t \in Recorded : Untranslatable(t),
                objs |-> [o \in Objects |-> TranslatedObject(rec[o])],
                runners |-> Runners,
                thr |-> [t \in Recorded |-> TranslatedRunner(t)],
                next |-> [t \in Recorded |-> FirstTransition(t)]]
  /\ tmpl' = "done"
  /\ UNCHANGED <<prog, system, pc, step, real, records, mailbox, saved, posts, tmut,
                 counted, left, ended>>

TemplateThread ==
  ended = "no" /\ (CountThreads \/ AwaitThread \/ Publish \/ Fork \/ Broadcast \/ Transfer)

Dmtcp ==
  \/ DmtcpEventInit \/ CreateCheckpointThread
  \/ \E c \in candidates : ResolveCandidate(c)
  \/ DmtcpEventPrecheckpoint \/ DmtcpEventResume
  \/ DmtcpEventRestart("DMTCP_RESTART_INTO_BRANCH")
  \/ DmtcpEventRestart("DMTCP_RESTART_INTO_TEMPLATE")

Next == Dmtcp \/ TemplateThread \/ \E t \in Threads : Thread(t)

Spec == Init /\ [][Next]_vars

\* The scheduler of the operating system is fair to the threads.
FairSpec == Spec /\ WF_vars(TemplateThread) /\ \A t \in Threads : WF_vars(Thread(t))

-----------------------------------------------------------------------------
(* Properties.                                                             *)

Steps == {"absent", "start", "call", "real", "update", "creating", "sleep", "signalled",
          "timedout", "woken", "escaped", "checkin", "park", "parking", "parked",
          "await", "dead", "gone"}

\* Types of the recording library's variables; only a registered thread ever has
\* a mailbox, a record or a saved context.
TypeOK ==
  /\ mode \in Modes
  /\ suspended \in BOOLEAN /\ candidates \subseteq {"ckpt", "tsan"}
  /\ step \in [Threads -> Steps]
  /\ owner \in [Mutexes -> Threads \cup {NoThread}]
  /\ tokens \in [Sems -> Nat]
  /\ thr \in [Threads -> {"NONE", "ALIVE", "EXITED"}]
  /\ rid \in [Threads -> Ids \cup {-1}]
  /\ saved \subseteq {t \in Threads : rid[t] # -1}
  /\ posts \in Nat /\ left \in Nat
  /\ counted \subseteq {t \in Threads : rid[t] # -1}
  /\ ended \in {"no", "exit", "abort"}
  /\ raced \subseteq Mutexes

\* The template thread has counted the threads that are alive at the transfer: no
\* thread was created, and none ended, after the count (dmtcp-callback.c:411).
Settled == model # NoOp /\ counted = Alive

\* McMini's runners are the recorded threads under the ids of their mailboxes;
\* every living one has checked in and its pending transition is the operation it
\* is blocked at (template_thread's barrier, translate_recorded_runner_to_model).
ThreadsRestored ==
  Settled =>
    /\ counted \subseteq saved
    /\ \A i \in DOMAIN model.runners : rid[model.runners[i]] = i - 1
    /\ \A t \in counted : model.next[t] = Announced(t)

\* The restored semaphores have the values of the real ones, wherever the
\* checkpoint hit the posts and waits (sem-wrappers.c: one update per call).
SemaphoresRestored ==
  Settled => \A s \in Sems :
    model.objs[s].status = "SEM_INITIALIZED" => model.objs[s].count = tokens[s]

\* The restored mutexes are locked, by their owners, if and only if the real ones
\* are.  Excepted are the mutexes whose record was overtaken: locked again before
\* the previous owner had recorded its unlock, or reacquired by a cond_wait, which
\* records nothing (wrappers.c:413, wrappers.c:1310).
MutexesRestored ==
  Settled => \A m \in Mutexes \ raced :
    /\ model.objs[m].status = "LOCKED" <=> owner[m] # NoThread
    /\ owner[m] # NoThread => model.objs[m].owner = owner[m]

\* Races of the records may lose a lock, but never invent one: a restored mutex that
\* McMini takes for locked is locked, by that thread, also if its record was overtaken
\* (mc_pthread_mutex_unlock resets the record, only the locker sets it).
NoPhantomLock ==
  Settled => \A m \in Mutexes :
    model.objs[m].status = "LOCKED" => owner[m] = model.objs[m].owner

\* Whoever sleeps on a condition variable is in its recorded queue, whatever
\* signals were sent and recorded meanwhile (mc_pthread_cond_wait enqueues first).
NoWaiterForgotten == \A c \in Conds : \A t \in Sleeping(c) : InQueue(Queue(c), t)

\* The template thread passes its barrier, unless a thread it counts has ended
\* (pthread_exit does not record that, and a returning thread may do so late) or
\* cannot get back a mutex whose owner has already checked in.
BarrierPasses ==
  <>[](tmpl = "wait" /\ ended = "no") =>
    <>[](\E t \in counted :
           \/ step[t] = "dead"
           \/ step[t] \in {"signalled", "timedout"} /\ owner[Cur(t).arg] \in saved)

-----------------------------------------------------------------------------
(* The inductive invariant.                                                *)

\* What some theorems ask of the program: objects are initialized by the main
\* thread before it creates others, mutexes also before they are used; ...
InitializedFirst(p) ==
  \A t \in Threads : \A i \in DOMAIN p[t] :
    p[t][i].kind \in {"mutex_init", "sem_init", "cond_init"} =>
      /\ t = Main
      /\ \A j \in 1..(i - 1) :
           /\ p[t][j].kind # "create"
           /\ p[t][i].kind = "mutex_init" => p[t][i].obj \notin {p[t][j].obj, p[t][j].arg}

\* ... a thread unlocks, and waits on a condition variable with, only a mutex that
\* it has locked.
Holds(p, t, i, m) ==
  \E j \in 1..(i - 1) :
    /\ p[t][j].kind = "lock" /\ p[t][j].obj = m
    /\ \A k \in (j + 1)..(i - 1) : ~ (p[t][k].kind = "unlock" /\ p[t][k].obj = m)

LocksProperly(p) ==
  \A t \in Threads : \A i \in DOMAIN p[t] :
    /\ p[t][i].kind = "unlock" => Holds(p, t, i, p[t][i].obj)
    /\ p[t][i].kind = "cond_wait" => Holds(p, t, i, p[t][i].arg)

Wrapped ==
  {"mutex_init", "lock", "unlock", "sem_init", "sem_destroy", "sem_post", "sem_wait",
   "cond_init", "cond_wait", "cond_signal", "cond_broadcast", "cond_destroy", "join"}

RecordSet ==
  [status : {"NONE", "UNINITIALIZED", "UNLOCKED", "LOCKED",
             "SEM_UNINITIALIZED", "SEM_INITIALIZED", "SEM_DESTROYED",
             "CV_UNINITIALIZED", "CV_INITIALIZED", "CV_DESTROYED"},
   owner : Threads \cup {NoThread}, count : Int,
   queue : Seq([thread : Threads, state : {"CV_PREWAITING", "CV_WAITING", "CV_SIGNALED"}])]

Registered == {t \in Threads : rid[t] # -1}
BeforeRecord == mode \in {"PRE_DMTCP_INIT", "PRE_CHECKPOINT_THREAD"}

DataInv ==
  /\ prog \in Programs
  /\ pc \in [Threads -> Nat \ {0}]
  /\ rec \in [Objects -> RecordSet]
  /\ \A o \in Objects : rec[o].status = "NONE" => rec[o] = NoRecord
  /\ DOMAIN mailbox = Ids

\* The mode, DMTCP's threads and the template thread go together.
ModeInv ==
  /\ suspended => mode = "PRE_CHECKPOINT"
  /\ "ckpt" \in candidates => mode = "PRE_CHECKPOINT_THREAD"
  /\ thr[Main] = "NONE" => BeforeRecord /\ candidates = {}
  /\ BeforeRecord => /\ step = [t \in Threads |-> IF t = Main THEN "call" ELSE "absent"]
                     /\ pc[Main] = 1
  /\ tmpl \in {"asleep", "count", "wait", "loop", "broadcast", "transfer", "done"}
  /\ tmpl = "asleep" => BeforeRecord \/ Recording
  /\ tmpl \in {"count", "wait"} => InRestart
  /\ tmpl = "loop" => mode = "DMTCP_RESTART_INTO_TEMPLATE"
  /\ tmpl \in {"broadcast", "transfer", "done"} => mode = "TARGET_BRANCH_AFTER_RESTART"
  /\ model # NoOp => tmpl = "done"

\* What a thread's place in its wrapper says about its operation and its record.
ThreadInv(t) ==
  /\ step[t] \in {"absent", "start"} => t # Main /\ rid[t] = -1 /\ pc[t] = 1
  /\ step[t] \notin {"absent", "start", "dead", "gone", "await"} =>
       thr[t] = "ALIVE" \/ (t = Main /\ thr[t] = "NONE")
  /\ step[t] = "dead" => thr[t] # "NONE"
  /\ thr[t] = "EXITED" => step[t] = "dead"
  /\ rid[t] = -1 => thr[t] = "NONE" /\ (step[t] \in {"absent", "start", "gone"} \/ t = Main)
  /\ thr[t] = "NONE" => \/ rid[t] = -1
                        \/ step[t] = "await" /\ mode = "TARGET_BRANCH_AFTER_RESTART"
  /\ step[t] = "real" => Cur(t).kind \in Wrapped
  /\ step[t] = "update" => Cur(t).kind \in (Wrapped \ {"cond_wait"}) \cup {"thread_exit"}
  /\ step[t] = "creating" => In(t, "create")
  /\ step[t] \in {"sleep", "signalled", "timedout", "woken", "escaped"} => In(t, "cond_wait")
  /\ step[t] \in {"real", "update", "sleep", "signalled", "timedout", "woken", "escaped"}
       /\ Cur(t).kind \in Wrapped \ {"join"} => rec[Cur(t).obj] # NoRecord
  /\ step[t] = "update" /\ In(t, "join") => step[Cur(t).obj] = "dead"

\* Nobody is there before he is created.
CreateInv ==
  \A t \in Threads : \A i \in DOMAIN prog[t] :
    /\ prog[t][i].kind = "create"
    /\ pc[t] < i \/ (pc[t] = i /\ step[t] \in {"absent", "start", "call"})
    => step[prog[t][i].obj] = "absent"

\* Ids are given out in order, those of the recorded threads first.
RidInv ==
  /\ \A t \in Registered : rid[t] < Cardinality(Registered)
  /\ \A t, u \in Registered : rid[t] = rid[u] => t = u
  /\ \A t \in Recorded : rid[t] < Cardinality(Recorded)
  /\ \A i \in 0..(Cardinality(Recorded) - 1) : \E t \in Recorded : rid[t] = i

\* A thread that has checked in stays, and its mailbox is what it waits at; the posts
\* are accounted for.
SavedInv ==
  /\ \A t \in Threads : t \in saved \/ step[t] = "checkin" =>
       thr[t] = "ALIVE" /\ mailbox[rid[t]] = Announced(t)
  /\ \A t \in saved : step[t] \in {"await", "park", "parking", "parked"}
  /\ tmpl = "asleep" => saved = {}
  /\ tmpl \in {"asleep", "count"} => counted = {} /\ left = 0
  /\ tmpl \notin {"asleep", "count", "wait"} => left = 0
  /\ left <= Cardinality(counted)
  /\ posts + (Cardinality(counted) - left) = Cardinality(saved)
  /\ counted \subseteq Recorded

\* The threads that may still change a record, and those a fork has left out.
Busy ==
  {t \in Alive \ saved : step[t] # "dead" /\ ~ (step[t] = "update" /\ In(t, "thread_exit"))}
Lost == {t \in Alive : step[t] = "gone"}

\* McMini's model is about the records as they are, while nobody changes them.
ModelInv ==
  model # NoOp =>
    /\ Busy = {} => \A o \in Objects : model.objs[o] = TranslatedObject(rec[o])
    /\ \A t \in saved : model.next[t] = Announced(t)
    /\ \A i \in DOMAIN model.runners :
         /\ model.runners[i] \in Registered
         /\ rid[model.runners[i]] = i - 1

\* Before its first create the main thread is alone.
AloneInv ==
  /\ \A j \in 1..(pc[Main] - 1) : j \in DOMAIN prog[Main] => prog[Main][j].kind # "create"
  /\ In(Main, "create") => step[Main] \notin {"creating", "gone"}
  => \A t \in Threads \ {Main} : step[t] = "absent"

IInv ==
  /\ TypeOK /\ DataInv /\ ModeInv
  /\ \A t \in Threads : ThreadInv(t)
  /\ CreateInv /\ RidInv /\ SavedInv /\ ModelInv /\ AloneInv

\* A thread is in the recorded queue as long as it is in cond_wait.
CondInv ==
  \A t \in Threads :
    step[t] \in {"real", "sleep", "signalled", "timedout", "woken", "escaped"}
      /\ In(t, "cond_wait") => InQueue(Queue(Cur(t).obj), t)

\* The recorded count and the threads between call and update make up the real count.
Between(s, kind) == {t \in Threads : step[t] = "update" /\ In(t, kind) /\ Cur(t).obj = s}

SemInv ==
  \A s \in Sems :
    /\ \A t \in Between(s, "sem_init") : tokens[s] = Cur(t).arg
    /\ rec[s].status = "SEM_INITIALIZED" /\ Lost = {} /\ Between(s, "sem_init") = {} =>
         rec[s].count + Cardinality(Between(s, "sem_post"))
                      - Cardinality(Between(s, "sem_wait")) = tokens[s]

Asleep(t, m) ==
  step[t] \in {"sleep", "signalled", "timedout"} /\ In(t, "cond_wait") /\ Cur(t).arg = m

OwnerAsleep(m) == \E t \in Threads : rec[m].owner = t /\ Asleep(t, m)

Locking(m) == Between(m, "lock")

\* From the libpthread call of a lock to that of the unlock the thread owns the mutex,
\* unless it sleeps in a cond_wait.
Held(t, m) ==
  \/ t \in Locking(m)
  \/ /\ Holds(prog, t, pc[t], m) /\ step[t] # "gone"
     /\ ~ Asleep(t, m) /\ t \notin Unlocking(m)

HoldsInv == \A t \in Threads, m \in Mutexes : Held(t, m) => owner[m] = t

FreshInv ==
  \A i \in DOMAIN prog[Main] : prog[Main][i].kind = "mutex_init" /\ pc[Main] <= i =>
    LET m == prog[Main][i].obj IN owner[m] = NoThread /\ rec[m].owner = NoThread

MutexInv ==
  \A m \in Mutexes :
    /\ rec[m].owner # NoThread => rec[m].status = "LOCKED"
    /\ rec[m].status = "LOCKED" => rec[m].owner # NoThread
    /\ m \notin raced /\ Lost = {} =>
         /\ owner[m] # NoThread =>
              \/ owner[m] \in Locking(m)
              \/ rec[m].status = "LOCKED" /\ rec[m].owner = owner[m]
         /\ owner[m] = NoThread /\ rec[m].status = "LOCKED" =>
              Unlocking(m) # {} \/ OwnerAsleep(m)
         /\ Unlocking(m) # {} => owner[m] = NoThread /\ ~ OwnerAsleep(m)

\* Overtaken or not, who is recorded as the owner is it, or is about to record its
\* unlock, or sleeps in a cond_wait with the mutex.
PhantomInv ==
  \A m \in Mutexes : rec[m].owner # NoThread /\ Lost = {} =>
    rec[m].owner \in {owner[m]} \cup Unlocking(m) \/ Asleep(rec[m].owner, m)
=============================================================================
