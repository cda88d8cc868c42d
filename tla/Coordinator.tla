----------------------------- MODULE Coordinator -----------------------------
(***************************************************************************)
(* The exploration loop of McMini: classic_dpor::verify_using drives the   *)
(* coordinator, which keeps a branch process and the model of the program  *)
(* (model::program: trace, state sequence, pending transitions) in step.   *)
(* To backtrack, the coordinator cuts the model back to an earlier depth   *)
(* and replays the remaining trace in a new branch process.                *)
(*                                                                         *)
(* The target is any program whose threads only depend on the schedule:    *)
(* CodeOf(p, h) is the operation that the runner scheduled last in h       *)
(* announces at the end of the schedule h.  Which runners DPOR puts into   *)
(* its backtrack sets is left open: any enabled runner not yet searched.   *)
(***************************************************************************)
EXTENDS Transitions, SequencesExt

CONSTANTS
  Programs,
  CodeOf(_, _),   \* see above
  HandleOf(_, _), \* the pthread_t that the C library gives to the thread created at
                  \* the end of a schedule, numbered in the order in which the
                  \* handles of the process are first used
  FirstOp(_, _),  \* the operation at which a runner alive at depth 0 is found
  LiveIn(_),      \* how many runners are alive at depth 0: one, or, restored from
                  \* a checkpoint, the recorded ones
  StaticMutexes,  \* the mutexes declared with PTHREAD_MUTEX_INITIALIZER
  NoOp,           \* no pending transition: the runner is unknown to the model
  MaxDepth        \* maximum_total_execution_depth

ASSUME CoordinatorAssumption ==
  /\ \A p \in Programs : LiveIn(p) \in 1..MaxRunners
  /\ StaticMutexes \subseteq Mutexes
  /\ Runners \cap (Mutexes \cup Semaphores) = {}
  /\ \A t, u \in Runners : NoOp \notin {Start(t), Transition(t, "create", u)}
  /\ MaxDepth \in Nat

VARIABLES
  prog,     \* the target program
  real,     \* the schedule the branch process has run
  trace,    \* program::trace
  objs,     \* the objects and runners discovered so far, in the order of their
            \* ids: visible_objects and, read backwards, system_address_mapping
  seq,      \* program::state_seq: the states, and the ids each element knows of
  next,     \* program::next_steps
  stack,    \* the DPOR stack: enabled and searched runners of every depth
  err       \* the exception that ended the exploration, or "none"

Live == 0..(LiveIn(prog) - 1)
Handles == Runners \cup Mutexes \cup Semaphores

vars == <<prog, real, trace, objs, seq, next, stack, err>>

-----------------------------------------------------------------------------
(* The branch process.                                                     *)

\* How many threads have been created: tid_next.  A thread that is created is the
\* Born-th of its process, and every branch gives the same handles to its threads.
IsCreate(p, h) == CodeOf(p, h).kind = "create"
Born(p, h) ==
  LiveIn(p) + Cardinality({i \in DOMAIN h : IsCreate(p, SubSeq(h, 1, i))})

\* A thread has been given the handle of an earlier one, whose stack the C library
\* had back after a join.
Reused(p, h) ==
  \E i \in DOMAIN h :
    LET g == SubSeq(h, 1, i)
    IN  IsCreate(p, g) /\ HandleOf(p, g) # Born(p, g) - 1

\* What the runner scheduled last writes into its mailbox.
Message(p, h) ==
  LET c == CodeOf(p, h)
  IN  IF IsCreate(p, h) THEN Transition(c.by, "create", HandleOf(p, h)) ELSE c

\* The operation at which runner t of a process that ran schedule h is.
LastRun(h, t) == SelectLastInSeq(h, LAMBDA u : u = t)
OpAfter(p, h, t) ==
  IF LastRun(h, t) > 0 THEN Message(p, SubSeq(h, 1, LastRun(h, t)))
  ELSE IF t < LiveIn(p) THEN FirstOp(p, t)
  ELSE Start(t)

\* The last step of runner t was its exit: nobody reads its mailbox any more.
Gone(p, h, t) ==
  /\ LastRun(h, t) > 0
  /\ OpAfter(p, SubSeq(h, 1, LastRun(h, t) - 1), t).kind = "exit"

-----------------------------------------------------------------------------
(* The model.                                                              *)

Known == {t \in Runners : next[t] # NoOp}
Depth == Len(trace)
Current == Last(seq)

\* get_enabled_runners
EnabledRunners(s, pending) ==
  {t \in Runners : pending[t] # NoOp /\ Enabled(s, pending[t])}

InitialState ==
  [thr |-> [t \in Runners |-> IF t \in Live THEN "running" ELSE "embryo"],
   mtx |-> [m \in Mutexes |-> NoRunner],
   sem |-> [s \in Semaphores |-> 0]]

StackItem(s, pending) == [enabled |-> EnabledRunners(s, pending), done |-> {}]

\* The objects the model starts with: the runners alive, and what a checkpoint
\* found them to use.
InitialObjects ==
  [i \in 1..LiveIn(prog) |-> i - 1]
    \o SetToSeq({FirstOp(prog, t).obj : t \in Live} \cap (Mutexes \cup Semaphores))

\* The coordinator has a first branch process, and verify_using has pushed the
\* entry for the initial state.
Init ==
  /\ prog \in Programs
  /\ real = <<>> /\ trace = <<>>
  /\ objs = InitialObjects
  /\ seq = <<[st |-> InitialState, seen |-> DOMAIN objs]>>
  /\ next = [t \in Runners |-> IF t \in Live THEN FirstOp(prog, t) ELSE NoOp]
  /\ stack = <<StackItem(InitialState, next)>>
  /\ err = "none"

-----------------------------------------------------------------------------
(* Translating a message.                                                  *)

\* get_model_of_object finds an id for every handle ever observed; whether an
\* element contains the id is decided by the number of ids it knows of.
Mapped(o) == o \in ToSet(objs)
Contained(o) ==
  \E i \in DOMAIN objs : objs[i] = o /\ i <= Cardinality(Current.seen)

\* Seeded fault: a new runner is observed without its pending transition.
DiscoverNothing(op) ==
  [objs |-> objs, seen |-> Current.seen, pending |-> next]

\* observe_object and observe_runner: a handle without an id gets the next one,
\* known to the current element, and a runner has thread_start pending.
Discover(op) ==
  IF op.kind \in {"mutex_init", "lock", "sem_init", "create"} /\ ~ Mapped(op.obj)
  THEN [objs    |-> Append(objs, op.obj),
        seen    |-> Current.seen \cup {Len(objs) + 1},
        pending |-> IF op.kind = "create"
                    THEN [next EXCEPT ![op.obj] = Start(op.obj)] ELSE next]
  ELSE [objs |-> objs, seen |-> Current.seen, pending |-> next]

\* The first operation on an object that must have been initialized before.
UninitializedMutex(op) ==
  /\ ~ Mapped(op.obj)
  /\ op.kind = "unlock" \/ (op.kind = "lock" /\ op.obj \notin StaticMutexes)

UninitializedSemaphore(op) ==
  op.kind \in {"sem_post", "sem_wait", "sem_destroy"} /\ ~ Mapped(op.obj)

\* Why the callback, or get_enabled_runners right after it, throws: an object
\* that nobody initialized; sem_destroy, which has no transition; a runner whose
\* handle has an id that the current element does not contain; a new runner whose
\* id it does not contain.
Failure(op) ==
  CASE UninitializedMutex(op) \/ UninitializedSemaphore(op) -> "undefined_behavior"
    [] op.kind = "sem_destroy" /\ Mapped(op.obj) -> "untranslated"
    [] op.kind = "create" /\ Mapped(op.obj) /\ ~ Contained(op.obj)
         -> "rebind"
    [] op.kind = "create" /\ ~ Mapped(op.obj) /\ Cardinality(Current.seen) < Len(objs)
         -> "invalid_rid"
    [] OTHER -> "none"

-----------------------------------------------------------------------------
(* Exploring.                                                              *)

\* Seeded fault: the runner is not marked as searched.
GrowStackUnmarked(t, s, pending) ==
  stack' = Append(stack, StackItem(s, pending))

\* grow_stack_after_running
GrowStack(t, s, pending) ==
  stack' = Append([stack EXCEPT ![Len(stack)].done = @ \cup {t}],
                  StackItem(s, pending))

\* Seeded fault: an abort is taken for an ordinary operation.
AfterStepUnchecked(op) == "none"

\* verify_using: is the operation that the runner has just announced going to
\* end the program abnormally?
AfterStep(op) ==
  IF op.kind \in {"abort", "exit_failure"} THEN "terminated" ELSE "none"

\* Seeded fault: the new element only knows what its predecessor knew.
SnapshotOfPrevious(found) == found.seen

\* state_sequence::element: a new element knows of every object there is, those
\* that only earlier branches have used included.
Snapshot(found) == DOMAIN found.objs

\* coordinator::execute_runner and program::model_execution_of: the process runs
\* t, its message is translated, and the transition that was pending is applied
\* and replaced.
ExecuteRunner(t, result) ==
  LET op == Message(prog, Append(real, t))
      found == Discover(op)
      pending == [found.pending EXCEPT ![t] = op]
      why == IF Failure(op) # "none" THEN Failure(op)
             ELSE IF Enabled(Current.st, next[t]) THEN result ELSE "disabled"
  IN  /\ ~ Gone(prog, real, t)
      /\ real' = Append(real, t)
      /\ UNCHANGED prog
      /\ err' = why
      /\ IF why # result
         THEN UNCHANGED <<trace, objs, seq, next, stack>>
         ELSE \E s \in ApplyTo(Current.st, next[t]) :
              /\ trace' = Append(trace, next[t])
              /\ objs' = found.objs
              /\ seq' = Append([seq EXCEPT ![Len(seq)].seen = found.seen],
                               [st |-> s, seen |-> Snapshot(found)])
              /\ next' = pending
              /\ GrowStack(t, s, pending)

Exploring == err = "none" /\ stack # <<>>
CanExplore == Exploring /\ Last(stack).done = {} /\ Last(stack).enabled # {}

\* Exploration phase: the first enabled runner is followed.
Explore ==
  /\ CanExplore
  /\ Len(stack) < MaxDepth
  /\ LET t == Min(Last(stack).enabled)
     IN  ExecuteRunner(t, AfterStep(Message(prog, Append(real, t))))

\* "Execution Limit Reached!"
LimitReached ==
  /\ CanExplore
  /\ Len(stack) >= MaxDepth
  /\ err' = "limit"
  /\ UNCHANGED <<prog, real, trace, objs, seq, next, stack>>

-----------------------------------------------------------------------------
(* Backtracking.                                                           *)

\* Seeded fault: every thread keeps its latest pending transition.
PendingNotRestored(n) == next

\* restore_model_at_depth, for n > 0: what a runner did first from depth n on is
\* what was pending for it at depth n.
PendingAt(n) ==
  LET runs(t) == {i \in (n + 1)..Depth : trace[i].by = t}
  IN  [t \in Runners |-> IF runs(t) = {} THEN next[t] ELSE trace[Min(runs(t))]]

\* consume_into_subsequence looks up every id that the element contains.
Gap(e) == \E i \in 1..Cardinality(e.seen) : i \notin e.seen

\* Seeded fault: one state too few is kept.
StatesUpToShort(n) == SubSeq(seq, 1, n)

\* The states of the first n transitions, and the initial one.
StatesUpTo(n) == SubSeq(seq, 1, n + 1)

\* The trace is complete: the stack is popped down to an entry with a runner to
\* backtrack on, and return_to_depth destroys the branch process, cuts the model
\* back and replays the trace in a new process.  No runner is ever put into the
\* backtrack set of depth 0: happens_before_thread holds for index 0.
ReturnToDepth(n) ==
  /\ Exploring
  /\ Last(stack).enabled = {}
  /\ stack[n + 1].enabled \ stack[n + 1].done # {}
  /\ stack' = SubSeq(stack, 1, n + 1)
  /\ next' = PendingAt(n)
  /\ trace' = SubSeq(trace, 1, n)
  /\ seq' = StatesUpTo(n)
  /\ real' = [i \in 1..n |-> trace[i].by]
  /\ err' = IF Gap(seq[n + 1]) THEN "out_of_range" ELSE "none"
  /\ UNCHANGED <<prog, objs>>

\* The first step after backtracking, without a look at what was announced.
Backtrack ==
  /\ Exploring
  /\ Last(stack).done # {}
  /\ \E t \in Last(stack).enabled \ Last(stack).done : ExecuteRunner(t, "none")

\* Whom the search follows next.
Followed ==
  IF Last(stack).done # {} THEN Last(stack).enabled \ Last(stack).done
  ELSE {t \in Last(stack).enabled :
          Len(stack) < MaxDepth /\ \A u \in Last(stack).enabled : t <= u}

\* Following a runner that is gone, McMini waits for its answer for ever.
Hang ==
  /\ Exploring
  /\ \E t \in Followed : Gone(prog, real, t)
  /\ err' = "hang"
  /\ UNCHANGED <<prog, real, trace, objs, seq, next, stack>>

\* No entry has a runner left to backtrack on.
Finish ==
  /\ Exploring
  /\ Last(stack).enabled = {}
  /\ stack' = <<>>
  /\ UNCHANGED <<prog, real, trace, objs, seq, next, err>>

Next ==
  \/ Explore \/ LimitReached
  \/ \E n \in 1..(Depth - 1) : ReturnToDepth(n)
  \/ Backtrack \/ Hang \/ Finish

Spec == Init /\ [][Next]_vars

\* verify_using is a sequential program.
FairSpec == Spec /\ WF_vars(Next)

-----------------------------------------------------------------------------
\* program::is_in_deadlock
IsInDeadlock ==
  /\ Known # {}
  /\ EnabledRunners(Current.st, next) = {}
  /\ \E t \in Known : Current.st.thr[t] # "exited"

Failures == {"undefined_behavior", "rebind", "invalid_rid", "disabled", "out_of_range"}

\* Types, and the invariant stated in verify_using: the stack has one entry more
\* than the trace has transitions.
TypeOK ==
  /\ prog \in Programs
  /\ real \in Seq(Runners)
  /\ trace \in Seq(Operations)
  /\ objs \in Seq(Handles)
  /\ seq \in Seq([st : States, seen : SUBSET DOMAIN objs])
  /\ DOMAIN next = Runners /\ \A t \in Known : next[t] \in Operations /\ next[t].by = t
  /\ stack \in Seq([enabled : SUBSET Runners, done : SUBSET Runners])
  /\ Len(seq) = Depth + 1
  /\ stack # <<>> => Len(stack) = Depth + 1
  /\ err \in {"none", "terminated", "limit", "hang", "untranslated"} \cup Failures

\* However often the exploration backtracks, the model is a picture of the
\* branch process: the process has run the trace, every active runner is at the
\* operation that is pending for it in the model, and none that has exited is
\* active or followed.  The exception is a process that has given the handle of a
\* thread it has joined to a new one: the model knows that handle, takes the new
\* thread for the old one, and makes the old one active again.
ModelMatchesProcess ==
  /\ err = "none" =>
       /\ real = [i \in 1..Depth |-> trace[i].by]
       /\ \A t \in Runners : Current.st.thr[t] = "running" =>
            /\ next[t] = OpAfter(prog, real, t)
            /\ Gone(prog, real, t) => Reused(prog, real)
  /\ err = "hang" => Reused(prog, real)

\* What is_in_deadlock reports at the end of a trace is a deadlock of the
\* process: none of its threads can go on with the operation it is really at, and
\* one of them has not finished and is not about to.  (A runner that the model
\* knows from an earlier branch and that this process has not created yet is no
\* deadlock.)
Unfinished == {t \in Runners : t < Born(prog, real) /\ Current.st.thr[t] = "running"}
DeadlockIsReal ==
  err = "none" /\ IsInDeadlock =>
    /\ \A t \in Unfinished : ~ Enabled(Current.st, OpAfter(prog, real, t))
    /\ \E t \in Unfinished : OpAfter(prog, real, t).kind \notin {"exit", "process_exit"}

\* "Handles are assumed to remain valid across process source invocations"
\* (model_to_system_map.hpp): what an earlier branch has discovered is recognised
\* or found anew, so neither translating a message nor cutting back the model
\* fails with an internal error.
HandlesRemainValid == err \notin Failures \ {"undefined_behavior"}

\* An abnormal end is reported before the model gets past it: a trace never goes
\* on after an abort or an exit with a failure code.
AbnormalEndReported ==
  \A i \in DOMAIN trace :
    trace[i].kind \in {"abort", "exit_failure"} => err = "terminated"

\* The exploration ends, whatever DPOR backtracks on: no runner is searched twice
\* from the same entry of the stack, and none that does not answer is followed,
\* unless a handle was used again.
Terminates ==
  <>(stack = <<>> \/ err \notin {"none", "hang"} \/ (err = "hang" /\ Reused(prog, real)))

-----------------------------------------------------------------------------
(* Assumptions on the target under which CoordinatorProofs proves the      *)
(* properties.  Each is about one schedule, whether it can happen or not.  *)

\* Every thread announces operations on objects that fit them, and the process
\* never has more threads than the model has room for.
WellTyped(p, h) ==
  /\ CodeOf(p, h) # NoOp /\ CodeOf(p, h).by = Last(h)
  /\ \/ IsCreate(p, h) /\ Born(p, h) <= MaxRunners /\ HandleOf(p, h) \in Runners
     \/ CodeOf(p, h).kind # "create" /\ CodeOf(p, h) \in Operations
     \/ CodeOf(p, h).kind = "sem_destroy" /\ CodeOf(p, h).obj \in Semaphores

\* No thread is given the handle of an earlier one.
FreshHandle(p, h) == IsCreate(p, h) => HandleOf(p, h) = Born(p, h) - 1

WellTypedFirst(p, t) ==
  /\ FirstOp(p, t) # NoOp /\ FirstOp(p, t).by = t
  /\ FirstOp(p, t) \in Operations /\ FirstOp(p, t).kind # "create"

AbnormalEnds == {"abort", "exit_failure"}

\* Nothing but its abnormal end is to be had from a thread that has announced one.
EndsForGood(p, h, t) ==
  OpAfter(p, h, t).kind \in AbnormalEnds => CodeOf(p, Append(h, t)).kind \in AbnormalEnds

\* The main thread creates all threads, and the same ones on every schedule g
\* before it returns; it never leaves with pthread_exit.
MainCreates(p, h) ==
  /\ h # <<>> /\ IsCreate(p, h) => Last(h) = Main
  /\ OpAfter(p, h, Main).kind # "exit"

CreatesBeforeReturn(p, h, g) ==
  OpAfter(p, h, Main).kind = "process_exit" => Born(p, g) <= Born(p, h)

\* What a thread uses for the first time in a schedule, and so whether the model
\* finds a new object, does not depend on what the others do before it.
Finds(op) == op.kind \in {"mutex_init", "lock", "sem_init"}
FirstUse(p, h) ==
  /\ Finds(CodeOf(p, h))
  /\ \A i \in 1..(Len(h) - 1) :
       ~ (/\ Finds(CodeOf(p, SubSeq(h, 1, i)))
          /\ CodeOf(p, SubSeq(h, 1, i)).obj = CodeOf(p, h).obj)

SameFirstUse(p, h, g, t) ==
  FirstUse(p, Append(h, t)) /\ t \notin ToSet(g) =>
    /\ Finds(CodeOf(p, Append(h \o g, t)))
    /\ CodeOf(p, Append(h \o g, t)).obj = CodeOf(p, Append(h, t)).obj

\* A deadlock is only met where at most two runners could go on at every depth.
NoThirdContender ==
  IsInDeadlock => \A i \in DOMAIN stack : Cardinality(stack[i].enabled) <= 2

-----------------------------------------------------------------------------
(* The inductive invariant.                                                *)

\* The schedule up to depth i.
Past(i) == SubSeq(real, 1, i)

\* A runner has a pending transition as soon as its handle has an id; the runners
\* of the states, of the trace and those about to be created have one.
KnownInv ==
  /\ \A t \in Runners : t \in Known <=> Mapped(t)
  /\ Live \subseteq Known
  /\ \A t \in Known : next[t].kind = "create" => next[t].obj \in Known
  /\ \A i \in DOMAIN trace :
       /\ trace[i] # NoOp /\ trace[i].by \in Known
       /\ trace[i].kind = "create" => trace[i].obj \in Known
  /\ \A i \in DOMAIN seq : \A t \in Runners :
       seq[i].st.thr[t] # "embryo" => t \in Known

\* The process has run the trace, every transition of the trace is what the
\* process announced before, and the model knows where each runner is.
MatchInv ==
  err = "none" =>
    /\ Len(real) = Depth
    /\ \A i \in DOMAIN trace :
         /\ real[i] = trace[i].by
         /\ trace[i] = OpAfter(prog, Past(i - 1), real[i])
    /\ \A t \in Known : next[t] = OpAfter(prog, real, t)

\* A thread leaves "embryo" for good, and "running" only by a step of its own.
ThreadsInv ==
  \A i, j \in DOMAIN seq : i <= j =>
    \A t \in Runners :
      /\ seq[i].st.thr[t] # "embryo" => seq[j].st.thr[t] # "embryo"
      /\ seq[i].st.thr[t] = "running" /\ (\A k \in i..(j - 1) : trace[k].by # t)
           => seq[j].st.thr[t] = "running"

\* The states are those that the transitions of the trace lead to.
StepsInv ==
  /\ seq[1].st = InitialState
  /\ \A i \in DOMAIN trace : seq[i + 1].st \in ApplyTo(seq[i].st, trace[i])

\* An entry of the stack has the runners that the process can run at its depth.
StackInv ==
  err = "none" => \A i \in DOMAIN stack :
    stack[i].enabled =
      {t \in Runners : Enabled(seq[i].st, OpAfter(prog, Past(i - 1), t))}

IInv == TypeOK /\ KnownInv /\ MatchInv /\ ThreadsInv /\ StepsInv /\ StackInv

\* A trace only ends when no abnormal end is pending, so that none is pending at
\* the depths it is cut back to.
AbnormalInv ==
  err = "none" /\ stack # <<>> /\ Last(stack).done # {} =>
    \A t \in Runners : Current.st.thr[t] = "running" => next[t].kind \notin AbnormalEnds

\* The runners alive at depth 0 have left "embryo", and what else has was created in
\* this process; a create has taken place once its thread has gone on; the main
\* thread only ends by exit(3).
CreateInv ==
  err = "none" =>
    /\ \A i \in DOMAIN seq : \A t \in Runners :
         /\ t \in Live => seq[i].st.thr[t] # "embryo"
         /\ seq[i].st.thr[t] # "embryo" => t < Born(prog, Past(i - 1))
    /\ \A k \in DOMAIN trace : \A j \in 1..(k - 1) :
         IsCreate(prog, Past(j)) /\ real[j] = real[k] =>
           seq[k + 1].st.thr[Born(prog, Past(j)) - 1] # "embryo"
    /\ \A i \in DOMAIN seq : seq[i].st.thr[Main] = "exited" =>
         \E k \in 1..(i - 1) :
           trace[k].by = Main /\ trace[k].kind \in {"process_exit", "exit_failure"}

\* The objects used in a schedule that the process has run have ids.
UseInv ==
  err = "none" => \A k \in DOMAIN trace :
    Finds(CodeOf(prog, Past(k))) => Mapped(CodeOf(prog, Past(k)).obj)

\* An element from which nothing was searched yet knows of every object; where
\* something was searched, the main thread was, if it could go on.
SearchInv ==
  err = "none" =>
    /\ \A i \in DOMAIN stack :
         /\ stack[i].done \subseteq stack[i].enabled
         /\ i < Len(stack) => stack[i].done # {}
         /\ stack[i].done # {} /\ Main \in stack[i].enabled => Main \in stack[i].done
    /\ stack # <<>> /\ Last(stack).done = {} => Current.seen = DOMAIN objs

\* Where a runner is left to search, the ids known are an initial segment; and
\* where two are left, neither will find a new object.
FindsNothing(t) ==
  Finds(CodeOf(prog, Append(real, t))) => Mapped(CodeOf(prog, Append(real, t)).obj)

SegmentInv ==
  err = "none" =>
    /\ \A i \in DOMAIN stack :
         stack[i].enabled \ stack[i].done # {} => \E k \in 0..Len(objs) : seq[i].seen = 1..k
    /\ stack # <<>> /\ Last(stack).done # {} =>
         \A t, u \in Last(stack).enabled \ Last(stack).done :
           t # u => FindsNothing(t)
=============================================================================
