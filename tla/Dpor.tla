-------------------------------- MODULE Dpor --------------------------------
(***************************************************************************)
(* classic_dpor: which schedules McMini explores.  Every entry of the DPOR *)
(* stack belongs to a state of the current trace and holds a clock vector, *)
(* the clock vectors of the runners, the enabled runners and the sets that *)
(* steer the search.  After every step the algorithm looks for races       *)
(* between the steps of the trace and the pending ones, and puts runners   *)
(* into the backtrack sets of the entries before the racing steps.         *)
(*                                                                         *)
(* The target is a fixed sequence of operations per runner.  That the      *)
(* coordinator brings model and process back to the state of an entry is   *)
(* the subject of Coordinator; here the entry keeps that state.  The       *)
(* targets use threads, mutexes and semaphores; the entries of the two     *)
(* relations for condition variables are left out.                         *)
(***************************************************************************)
EXTENDS Transitions, SequencesExt

CONSTANTS
  Programs    \* [ops |-> the operations of every runner, live |-> the number of
              \* runners alive at depth 0, restored |-> they come from a checkpoint]

\* The runners alive at depth 0 come first; an operation is one of its runner's.
ASSUME DporAssumption ==
  \A p \in Programs :
    /\ p.live \in 1..MaxRunners /\ p.restored \in BOOLEAN
    /\ p.ops \in [Runners -> Seq(Operations)]
    /\ \A t \in Runners : \A i \in 1..Len(p.ops[t]) : p.ops[t][i].by = t

VARIABLES
  prog,
  stack,      \* the DPOR stack
  known,      \* get_num_runners: runners, once discovered, stay known
  fresh,      \* the last entry is new: the exploration phase goes on
  explored,   \* history: the complete schedules
  found       \* history: the final states of the traces

vars == <<prog, stack, known, fresh, explored, found>>

-----------------------------------------------------------------------------
(* The program: a position is the state of the model and of every runner.  *)

Live == 0..(prog.live - 1)

\* The pending transition of a runner: thread_start comes first, an exit last.
Pending(pos, t) ==
  CASE pos.pc[t] = 0 -> Start(t)
    [] pos.pc[t] \in DOMAIN prog.ops[t] -> prog.ops[t][pos.pc[t]]
    [] OTHER -> Transition(t, "exit", t)

Ready(pos) == {t \in Runners : Enabled(pos.st, Pending(pos, t))}

After(pos, t) ==
  [st |-> CHOOSE s \in ApplyTo(pos.st, Pending(pos, t)) : TRUE,
   pc |-> [pos.pc EXCEPT ![t] = @ + 1]]

\* A runner restored from a checkpoint stands at an operation, any other runner at
\* its thread_start.
First ==
  [st |-> [thr |-> [t \in Runners |-> IF t \in Live THEN "running" ELSE "embryo"],
           mtx |-> [m \in Mutexes |-> NoRunner],
           sem |-> [s \in Semaphores |-> SemCount]],
   pc |-> [t \in Runners |-> IF prog.restored /\ t \in Live THEN 1 ELSE 0]]

\* A runner is discovered when its creator announces pthread_create.
KnownAfter(pos, t) ==
  LET op == Pending(pos, t)
  IN  IF op.kind = "create" /\ op.obj >= known THEN op.obj + 1 ELSE known

-----------------------------------------------------------------------------
(* The relations between transitions: default_dependencies,                *)
(* default_coenabledness, and the double dispatch table that looks them up.*)

\* register_dd_entry: an entry for two types is found in either order.
Pair(a, b, k, l) == {<<a.kind, b.kind>>, <<b.kind, a.kind>>} \cap {<<k, l>>} # {}

\* call_or: a type that has entries with other types is looked up among these and
\* nowhere else; then come the types with one entry for any other type; the
\* fallback is TRUE.
CallOr(a, b, paired, entry, general, relationAB, relationBA) ==
  IF a.kind \in paired THEN entry
  ELSE IF a.kind \in general THEN relationAB
  ELSE IF b.kind \in general THEN relationBA
  ELSE TRUE

\* Seeded fault: transitions without an entry are taken to be independent.
IndependentByDefault(a, b) ==
  a.kind = "lock" /\ b.kind = "lock" /\ a.obj = b.obj

DependencyRelation(a, b) ==
  CallOr(a, b, {"lock", "mutex_init"},
         (Pair(a, b, "lock", "lock") \/ Pair(a, b, "lock", "mutex_init")) => a.obj = b.obj,
         {"create", "join"}, a.obj = b.by, b.obj = a.by)

CoenabledRelation(a, b) ==
  CallOr(a, b, {"lock", "unlock"}, Pair(a, b, "lock", "unlock") => a.obj # b.obj,
         {"create", "join"}, a.obj # b.by, b.obj # a.by)

AreDependent(a, b) == a.by = b.by \/ DependencyRelation(a, b)
AreCoenabled(a, b) == a.by # b.by /\ CoenabledRelation(a, b)

-----------------------------------------------------------------------------
(* Clock vectors and entries of the stack.  Depths count from 0; the entry *)
(* of depth i is stk[i + 1], and its `out` the step from depth i.          *)

ZeroClock == [t \in Runners |-> 0]
MaxClock(S) == [t \in Runners |-> Max({0} \cup {c[t] : c \in S})]

NoStep == Transition(NoRunner, "none", NoRunner)

StackItem(cv, clocks, in, pos) ==
  [cv |-> cv, clocks |-> clocks, out |-> in, pos |-> pos, enabled |-> Ready(pos),
   backtrack |-> {}, sleep |-> {}, done |-> {}]

\* The operations of an entry that steer the search.
MarkSearched(item, t) == [item EXCEPT !.done = @ \cup {t}, !.backtrack = @ \ {t}]
InsertUnlessCompleted(item, S) == [item EXCEPT !.backtrack = @ \cup (S \ item.done)]
FirstEnabledRunner(item) == Min(item.enabled)
FirstBacktrackRunner(item) == Min(item.backtrack)

\* The clock vector of an entry is the one of the step that leads to it, `out` the
\* step that leaves it: only in the last entry, where `out` is still the step that
\* leads to it, do they belong together.
AccumulateMaxClockVectorAgainst(stk, tr) ==
  MaxClock({stk[i].cv : i \in {j \in DOMAIN stk :
                                stk[j].out # NoStep /\ AreDependent(stk[j].out, tr)}})

\* Seeded fault: clock values and depths compared as if both counted from 1.
HappensBeforeExactly(stk, i, p) ==
  i + 1 <= Last(stk).clocks[p][stk[i + 1].out.by]

\* A clock value is the depth after a step, i the depth before it.
HappensBeforeThread(stk, i, p) ==
  i <= Last(stk).clocks[p][stk[i + 1].out.by]

ThreadsRaceAfter(stk, i, q, p) ==
  \E j \in (i + 1)..(Len(stk) - 2) :
    stk[j + 1].out.by = q /\ HappensBeforeThread(stk, j, p)

Init ==
  /\ prog \in Programs
  /\ stack = <<StackItem(ZeroClock, [t \in Runners |-> ZeroClock], NoStep, First)>>
  /\ known = prog.live
  /\ fresh = TRUE
  /\ explored = {} /\ found = {}

\* Seeded fault: the runner stays in the backtrack set it is taken from.
GrowStackUnpopped(stk, t) ==
  LET s_n == Last(stk)
      t_n == Pending(s_n.pos, t)
      cv == [AccumulateMaxClockVectorAgainst(stk, t_n) EXCEPT ![t] = Len(stk)]
      pos == After(s_n.pos, t)
  IN  Append([stk EXCEPT ![Len(stk)] =
                [s_n EXCEPT !.out = t_n, !.sleep = @ \cup {t}, !.done = @ \cup {t}]],
             StackItem(cv, [s_n.clocks EXCEPT ![t] = cv], t_n, pos))

\* grow_stack_after_running
GrowStack(stk, t) ==
  LET s_n == Last(stk)
      t_n == Pending(s_n.pos, t)
      cv == [AccumulateMaxClockVectorAgainst(stk, t_n) EXCEPT ![t] = Len(stk)]
      pos == After(s_n.pos, t)
      asleep == {q \in s_n.sleep : ~ AreDependent(Pending(pos, q), t_n)}
  IN  Append([stk EXCEPT ![Len(stk)] =
                MarkSearched([s_n EXCEPT !.out = t_n, !.sleep = @ \cup {t}], t)],
             [StackItem(cv, [s_n.clocks EXCEPT ![t] = cv], t_n, pos)
                EXCEPT !.sleep = asleep])

HasReversibleRace(stk, i, p) ==
  LET next == Pending(Last(stk).pos, p)
  IN  /\ AreDependent(next, stk[i + 1].out)
      /\ AreCoenabled(next, stk[i + 1].out)
      /\ ~ HappensBeforeThread(stk, i, p)

\* Seeded fault: runners already followed from this entry are scheduled again.
UpdatedAtAgain(stk, i, p) ==
  LET pre == stk[i + 1]
      e == {q \in pre.enabled : q = p \/ ThreadsRaceAfter(stk, i, q, p)}
  IN  [pre EXCEPT !.backtrack = @ \cup (IF e = {} THEN pre.enabled ELSE {Min(e)}),
                  !.done = {}]

\* dynamically_update_backtrack_sets_at_index: the entry of depth i afterwards
UpdatedAt(stk, i, p) ==
  LET pre == stk[i + 1]
      e == {q \in pre.enabled \ pre.sleep : q = p \/ ThreadsRaceAfter(stk, i, q, p)}
      add == IF e = {} THEN pre.enabled \ pre.sleep
             ELSE IF e \cap pre.backtrack # {} THEN {} ELSE {Min(e)}
  IN  InsertUnlessCompleted(pre, add)

\* The entry of depth i is updated where there is a race with the pending step of p.
Update(stk, i, p) ==
  IF HasReversibleRace(stk, i, p) THEN [stk EXCEPT ![i + 1] = UpdatedAt(stk, i, p)] ELSE stk

\* The step from depth i against the pending ones of the runners below n but t, one
\* after the other.
UpdateForOthers(stk, i, t, n) ==
  LET after[k \in 0..n] ==
        IF k = 0 THEN stk
        ELSE IF k - 1 = t THEN after[k - 1] ELSE Update(after[k - 1], i, k - 1)
  IN  after[n]

\* dynamically_update_backtrack_sets: the last step against the pending ones of the
\* other runners, then the pending one of the runner that made it against the
\* earlier steps, from the latest to the first that races.
UpdateBacktrackSets(stk, t) ==
  LET top == Len(stk) - 2
      step1 == UpdateForOthers(stk, top, t, KnownAfter(Last(stk).pos, t))
      races == {i \in 0..(top - 1) : HasReversibleRace(step1, i, t)}
  IN  IF races = {} THEN step1 ELSE Update(step1, Max(races), t)

\* continue_dpor_by_expanding_trace_with
ExpandTraceWith(t) ==
  LET grown == GrowStack(stack, t)
  IN  /\ stack' = UpdateBacktrackSets(grown, t)
      /\ known' = KnownAfter(Last(grown).pos, t)
      /\ fresh' = TRUE
      /\ UNCHANGED <<prog, explored, found>>

-----------------------------------------------------------------------------
(* verify_using.                                                           *)

Explore ==
  /\ stack # <<>> /\ fresh
  /\ Last(stack).enabled # {}
  /\ ExpandTraceWith(FirstEnabledRunner(Last(stack)))

Schedule == [i \in 1..(Len(stack) - 1) |-> stack[i].out.by]

\* The trace is complete: entries with nothing to backtrack on are popped.
BacktrackTo ==
  /\ stack # <<>> /\ fresh
  /\ Last(stack).enabled = {}
  /\ stack' = SubSeq(stack, 1, Max({0} \cup {i \in DOMAIN stack : stack[i].backtrack # {}}))
  /\ fresh' = FALSE
  /\ explored' = explored \cup {Schedule}
  /\ found' = found \cup {Last(stack).pos}
  /\ UNCHANGED <<prog, known>>

Backtrack ==
  /\ stack # <<>> /\ ~fresh
  /\ ExpandTraceWith(FirstBacktrackRunner(Last(stack)))

Next == Explore \/ BacktrackTo \/ Backtrack

Spec == Init /\ [][Next]_vars

-----------------------------------------------------------------------------
(* Properties.                                                             *)

Completed == stack = <<>>

Clocks == [Runners -> Nat]

\* The stack has one entry per state of the trace, an entry follows from the one
\* before it by its out transition, and the runners it is still to be left with are
\* enabled and have not been followed yet.
TypeOK ==
  /\ prog \in Programs /\ fresh \in BOOLEAN /\ known \in prog.live..MaxRunners
  /\ \A i \in DOMAIN stack :
       /\ stack[i].cv \in Clocks /\ stack[i].clocks \in [Runners -> Clocks]
       /\ stack[i].enabled = Ready(stack[i].pos)
       /\ stack[i].done \subseteq stack[i].enabled
       /\ stack[i].backtrack \subseteq stack[i].enabled \ stack[i].done
       /\ i < Len(stack) => stack[i + 1].pos = After(stack[i].pos, stack[i].out.by)

\* happens_before_thread compares a depth that counts from 0 with a clock value that
\* counts from 1: the first step of a trace is never part of a race, so that the
\* search never returns to depth 0, where program::restore_model_at_depth would
\* restore no pending transition (its bound n - 1 wraps around).
DepthZeroNeverRestored == ~Completed => stack[1].backtrack = {}

\* classic_dpor never spends a branch process on a schedule it has run to its end
\* before, whatever races it finds in between (mark_searched, the sleep sets, and
\* backtrack_set_pop_first together).
NoTraceTwice == [][fresh /\ ~fresh' => explored' # explored]_vars

\* The positions in which no runner can go on: the deadlocks and the orderly ends.
Final ==
  LET steps == MapThenSumSet(LAMBDA t : Len(prog.ops[t]) + 2, Runners)
      reach[n \in 0..steps] ==
        IF n = 0 THEN {First}
        ELSE UNION {{After(x, t) : t \in Ready(x)} : x \in reach[n - 1]}
  IN  {x \in UNION {reach[n] : n \in 0..steps} : Ready(x) = {}}

\* When verify_using returns, trace_completed has been called in every position in
\* which the program can end or get stuck, and in no other: partial order reduction
\* drops interleavings, never outcomes.
EveryOutcomeFound == Completed => found = Final

-----------------------------------------------------------------------------
(* The inductive invariant.                                                *)

Fields == {"cv", "clocks", "out", "pos", "enabled", "backtrack", "sleep", "done"}

\* An entry of depth i - 1.  No clock has a value above its depth.
ItemOK(item, i) ==
  /\ DOMAIN item = Fields
  /\ item.cv \in [Runners -> 0..(i - 1)]
  /\ item.clocks \in [Runners -> [Runners -> 0..(i - 1)]]
  /\ item.enabled = Ready(item.pos)
  /\ item.done \subseteq item.enabled
  /\ item.backtrack \subseteq item.enabled \ item.done

\* The step that leaves an entry is one of those followed from it.
StackOK(stk) ==
  /\ stk \in Seq(Range(stk))
  /\ \A i \in 1..Len(stk) : ItemOK(stk[i], i)
  /\ \A i \in 1..(Len(stk) - 1) :
       /\ stk[i].out.by \in stk[i].done
       /\ stk[i + 1].pos = After(stk[i].pos, stk[i].out.by)
  /\ Len(stk) > 0 => stk[1].backtrack = {}

\* The search returns to an entry only where something is left to follow.
PhaseInv == ~fresh /\ ~Completed => Last(stack).backtrack # {}

\* A complete schedule left the current trace at some entry, with a step that has
\* been followed from there and is not the current one.
LeftAt(x, i) ==
  /\ \A j \in 1..(i - 1) : x[j] = stack[j].out.by
  /\ x[i] \in stack[i].done
  /\ IF i < Len(stack) THEN x[i] # stack[i].out.by ELSE ~fresh

ExploredInv ==
  ~Completed => \A x \in explored : \E i \in 1..Len(stack) : LeftAt(x, i)

IInv ==
  /\ prog \in Programs /\ fresh \in BOOLEAN /\ known \in prog.live..MaxRunners
  /\ StackOK(stack)
  /\ PhaseInv
  /\ ExploredInv
=============================================================================
