------------------------------- MODULE CondVar -------------------------------
(***************************************************************************)
(* McMini's model of one condition variable and its mutex: the transitions *)
(* condition_variable_{enqueue_thread, wait, signal, broadcast, destroy,   *)
(* init} and mutex_{lock, unlock}, and ConditionVariableArbitraryPolicy,   *)
(* which decides who may leave.  pthread_cond_wait is two transitions: the first *)
(* releases the mutex and puts the thread to sleep, the second, enabled    *)
(* when the policy lets the thread go and the mutex is free, wakes it up.  *)
(* A program does not use the condition variable from its destruction to   *)
(* its next initialization.                                                *)
(***************************************************************************)
EXTENDS Naturals, FiniteSets, SequencesExt

CONSTANTS
  Threads,
  NoThread,     \* RID_INVALID, the owner of an unlocked mutex
  Restored,     \* the thread, if any, that a checkpoint may have found inside
                \* pthread_cond_wait
  MaxSignals    \* bound: signals and broadcasts sent

ASSUME CondVarAssumption ==
  /\ IsFiniteSet(Threads) /\ NoThread \notin Threads
  /\ Restored \subseteq Threads
  /\ \A t, u \in Restored : t = u
  /\ MaxSignals \in Nat

VARIABLES
  owner,      \* the mutex: its owner, or NoThread
  assoc,      \* has the condition variable been given the mutex's location?
  destroyed,  \* condition_variable::is_destroyed
  queue,      \* policy: wait_queue
  groups,     \* policy: wake_groups, as sets
  eligible,   \* policy: broadcast_eligible_threads
  cvst,       \* policy: threads_with_states
  next,       \* the pending transition of every thread
  sent,       \* history: messages sent so far
  heard,      \* history: the threads to whom a message was sent while asleep
  lost,       \* history: the threads that a destroy has left asleep for ever
  restored    \* history: Restored, if the program was restored with its waiter

policyVars == <<queue, groups, eligible, cvst>>
history == <<sent, heard, lost, restored>>
vars == <<owner, assoc, destroyed, policyVars, next, history>>

\* What a thread that holds the mutex, or does not, may do next.
Holding == {"unlock", "enqueue", "signal", "broadcast", "destroy"}
Free == {"lock", "signal", "broadcast", "destroy"}
Kinds == Holding \cup Free \cup {"wait", "init"}

\* Types; in particular nobody owns the mutex while it waits for it.
TypeOK ==
  /\ owner \in {t \in Threads : next[t] \in Holding \cup {"init"}} \cup {NoThread}
  /\ assoc \in BOOLEAN /\ destroyed \in BOOLEAN
  /\ queue \in Seq(Threads)
  /\ groups \in Seq(SUBSET Threads)
  /\ eligible \subseteq Threads
  /\ cvst \in [Threads -> {"uninitialized", "prewaiting", "waiting"}]
  /\ next \in [Threads -> Kinds]
  /\ sent \in 0..MaxSignals
  /\ heard \subseteq Threads /\ lost \subseteq Threads
  /\ restored \in {{}, Restored}

\* A new program; or, restored from a checkpoint, one with a thread that was
\* recorded in the waiting room: it still owns the mutex, is in the queue
\* already, and its pending transition is the enqueue.
Init ==
  /\ restored \in {{}, Restored}
  /\ owner = IF restored = {} THEN NoThread ELSE CHOOSE t \in restored : TRUE
  /\ assoc = (restored # {}) /\ destroyed = FALSE
  /\ queue = IF restored = {} THEN <<>> ELSE <<owner>>
  /\ groups = <<>> /\ eligible = {}
  /\ cvst = [t \in Threads |-> IF t \in restored THEN "prewaiting"
                                                 ELSE "uninitialized"]
  /\ next \in [Threads -> {"lock", "signal", "broadcast", "destroy", "enqueue"}]
  /\ \A t \in Threads : next[t] = "enqueue" <=> t \in restored
  /\ sent = 0 /\ heard = {} /\ lost = {}

-----------------------------------------------------------------------------
(* The policy.                                                             *)

\* thread_can_exit
CanExit(t) == t \in eligible \/ \E i \in DOMAIN groups : t \in groups[i]

WithoutThread(gs, t) == [i \in DOMAIN gs |-> gs[i] \ {t}]

\* Seeded fault: the thread stays in the other wake groups.
WakeThreadKeepsGroups(t) ==
  /\ eligible' = eligible \ {t}
  /\ groups' = IF t \in eligible THEN groups
               ELSE RemoveFirstMatch(groups, LAMBDA g : t \in g)
  /\ queue' = RemoveFirst(queue, t)
  /\ UNCHANGED cvst

\* Seeded fault: the last signal the thread has heard is consumed.
WakeThreadLast(t) ==
  /\ eligible' = eligible \ {t}
  /\ groups' = WithoutThread(
                 IF t \in eligible THEN groups
                 ELSE Reverse(RemoveFirstMatch(Reverse(groups), LAMBDA g : t \in g)),
                 t)
  /\ queue' = RemoveFirst(queue, t)
  /\ UNCHANGED cvst

\* wake_thread: use up the broadcast or the FIRST signal the thread may take,
\* leave all other wake groups and, once, the queue.
WakeThread(t) ==
  /\ eligible' = eligible \ {t}
  /\ groups' = WithoutThread(
                 IF t \in eligible THEN groups
                 ELSE RemoveFirstMatch(groups, LAMBDA g : t \in g),
                 t)
  /\ queue' = RemoveFirst(queue, t)
  /\ UNCHANGED cvst

\* add_to_wake_groups, for the threads that are really waiting.
Waiting == {t \in ToSet(queue) : cvst[t] = "waiting"}
WakeGroups == IF Waiting = {} THEN groups ELSE Append(groups, Waiting)

-----------------------------------------------------------------------------
(* The transitions.  What a thread does after one is up to the program;    *)
(* the wrapper of pthread_cond_wait announces its two halves in a row.     *)

Announces(t, kinds) == \E k \in kinds : next' = [next EXCEPT ![t] = k]
Usable(kinds) == IF destroyed THEN kinds \cap {"lock", "unlock"} ELSE kinds

\* mutex_lock
Lock(t) ==
  /\ next[t] = "lock"
  /\ owner = NoThread
  /\ owner' = t
  /\ Announces(t, Usable(Holding))
  /\ UNCHANGED <<assoc, destroyed, policyVars, history>>

\* mutex_unlock
Unlock(t) ==
  /\ next[t] = "unlock"
  /\ owner = t
  /\ owner' = NoThread
  /\ Announces(t, Usable(Free))
  /\ UNCHANGED <<assoc, destroyed, policyVars, history>>

\* Seeded fault: the thread goes to sleep with the mutex.
EnqueueKeepsMutex(t) ==
  /\ next[t] = "enqueue"
  /\ owner = t
  /\ queue' = Append(queue, t)
  /\ cvst' = [cvst EXCEPT ![t] = "waiting"]
  /\ assoc' = TRUE
  /\ next' = [next EXCEPT ![t] = "wait"]
  /\ heard' = heard \ {t}
  /\ UNCHANGED <<owner, destroyed, groups, eligible, sent, lost, restored>>

\* condition_variable_enqueue_thread: the thread is added to the queue whether
\* or not it is there, and the mutex is released.
EnqueueThread(t) ==
  /\ next[t] = "enqueue"
  /\ owner = t
  /\ queue' = Append(queue, t)
  /\ cvst' = [cvst EXCEPT ![t] = "waiting"]
  /\ owner' = NoThread
  /\ assoc' = TRUE
  /\ next' = [next EXCEPT ![t] = "wait"]
  /\ heard' = heard \ {t}
  /\ UNCHANGED <<destroyed, groups, eligible, sent, lost, restored>>

\* condition_variable_wait
Wait(t) ==
  /\ next[t] = "wait" /\ ~destroyed
  /\ CanExit(t) /\ assoc /\ owner = NoThread
  /\ owner' = t
  /\ WakeThread(t)
  /\ Announces(t, Holding)
  /\ UNCHANGED <<assoc, destroyed, history>>

Asleep == {t \in Threads : next[t] = "wait"}

Message(t) ==
  /\ ~destroyed
  /\ sent < MaxSignals
  /\ sent' = sent + 1
  /\ heard' = heard \cup Asleep
  /\ Announces(t, IF owner = t THEN Holding ELSE Free)
  /\ UNCHANGED <<owner, assoc, destroyed, lost, restored>>

\* condition_variable_signal: a no-op without waiters, else one wake group.
Signal(t) ==
  /\ next[t] = "signal"
  /\ Message(t)
  /\ groups' = IF queue = <<>> THEN groups ELSE WakeGroups
  /\ UNCHANGED <<queue, eligible, cvst>>

\* condition_variable_broadcast: a no-op without waiters, else everybody in a
\* wake group or in the queue may go.
Broadcast(t) ==
  /\ next[t] = "broadcast"
  /\ Message(t)
  /\ IF queue = <<>>
     THEN UNCHANGED policyVars
     ELSE /\ eligible' = eligible \cup (UNION ToSet(WakeGroups)) \cup ToSet(queue)
          /\ groups' = <<>>
          /\ queue' = <<>>
          /\ UNCHANGED cvst

\* The policy of a condition variable that is destroyed or initialized is a new
\* one, and no mutex belongs to it.
NewPolicy ==
  /\ queue' = <<>> /\ groups' = <<>> /\ eligible' = {}
  /\ cvst' = [t \in Threads |-> "uninitialized"]
  /\ assoc' = FALSE

\* Nobody else is about to use the condition variable.
Unused(t) == \A u \in Threads \ {t} : next[u] \in {"lock", "unlock", "wait"}

\* Seeded fault: the waiters are not looked at.
DestroyUnchecked(t) ==
  /\ next[t] = "destroy" /\ Unused(t)
  /\ ~destroyed
  /\ destroyed' = TRUE
  /\ NewPolicy
  /\ next' = [next EXCEPT ![t] = "init"]
  /\ lost' = lost \cup {u \in Asleep : CanExit(u)}
  /\ UNCHANGED <<owner, sent, heard, restored>>

\* condition_variable_destroy: only without waiters, by which the policy means the
\* queue, not the threads a broadcast has told to leave.
Destroy(t) ==
  /\ next[t] = "destroy" /\ Unused(t)
  /\ ~destroyed /\ queue = <<>>
  /\ destroyed' = TRUE
  /\ NewPolicy
  /\ next' = [next EXCEPT ![t] = "init"]
  /\ lost' = lost \cup {u \in Asleep : CanExit(u)}
  /\ UNCHANGED <<owner, sent, heard, restored>>

\* condition_variable_init
Initialize(t) ==
  /\ next[t] = "init"
  /\ destroyed' = FALSE
  /\ NewPolicy
  /\ Announces(t, IF owner = t THEN Holding ELSE Free)
  /\ UNCHANGED <<owner, history>>

Next ==
  \E t \in Threads :
    \/ Lock(t) \/ Unlock(t)
    \/ EnqueueThread(t) \/ Wait(t)
    \/ Signal(t) \/ Broadcast(t)
    \/ Destroy(t) \/ Initialize(t)

Spec == Init /\ [][Next]_vars

-----------------------------------------------------------------------------
\* A thread leaves pthread_cond_wait only for a signal or a broadcast that was
\* sent while it slept: not for one it had heard in an earlier sleep, nor one
\* that was meant for threads that went to sleep before it.  A restored waiter,
\* which is queued twice, is the exception.
NoStaleWakeup == \A t \in Asleep \ restored : CanExit(t) => t \in heard

\* A thread that has just woken up is in no queue, no wake group and not among
\* the broadcast's threads; only a restored waiter may still be in the queue.
WakeForgets ==
  [][\A t \in Asleep \ Asleep' :
       (t \in ToSet(queue') => t \in restored) /\ ~ CanExit(t)']_vars

\* The same without exception, as cond_var_policy.hpp has it: "After calling
\* wakeThread() on the policy, the supplied thread is no longer managed by the
\* policy and all references to the thread are removed from the condition
\* variable".
WakeRemovesAll ==
  [][\A t \in Asleep \ Asleep' : t \notin ToSet(queue') /\ ~ CanExit(t)']_vars

\* Nobody sleeps whom the policy has forgotten: every sleeper is in the queue, for
\* the next signal, or may leave.  The exception is what has_waiters overlooks: a
\* thread that a broadcast has told to leave, and that has not done so before the
\* condition variable is destroyed, never wakes up (condition_variables_destroy.hpp:38).
NoSleeperStranded == \A t \in Asleep \ lost : t \in ToSet(queue) \/ CanExit(t)

\* The double entry of a restored waiter spoils nobody's sleep but its own: all
\* others are in the queue or let go only while they sleep, and let go only for a
\* message they have heard.
OthersUnharmed ==
  \A t \in Threads \ restored :
    /\ t \in ToSet(queue) \/ CanExit(t) => t \in Asleep
    /\ CanExit(t) => t \in heard

\* The number of threads that the policy lets go before another message is
\* sent: the broadcast's, and a largest set of others that finds a wake group
\* for each of its members.
Matchable(S) ==
  \E f \in [S -> DOMAIN groups] :
    /\ IsInjective(f)
    /\ \A t \in S : t \in groups[f[t]]
Owed ==
  Cardinality(eligible)
    + Max({Cardinality(S) : S \in {S \in SUBSET (Threads \ eligible) : Matchable(S)}})

\* The policy implements the abstract condition variable: no signal is lost as
\* long as somebody sleeps to whom no wake-up is owed, none wakes two threads,
\* and consuming the first possible wake group never costs another thread its
\* wake-up; a destroy is refused while somebody sleeps to whom none is owed.
\* A program with a restored waiter has no abstract counterpart: nothing happens
\* there.
Abstract ==
  INSTANCE Sleepers WITH
    asleep <- IF restored = {} THEN Asleep \ lost ELSE {},
    owed <- IF restored = {} THEN Owed ELSE 0
SleepersSpec == Abstract!Spec

-----------------------------------------------------------------------------
(* The inductive invariant: a sleeper is in the queue or told to go by a   *)
(* broadcast, unless it is lost, and the wake groups grow from the oldest  *)
(* signal to the latest.  Only a restored waiter may be in the queue       *)
(* twice, or while it is awake, or be let go for what it has not heard.    *)

QueueInv ==
  /\ \A i, j \in DOMAIN queue : queue[i] = queue[j] => i = j \/ queue[i] \in restored
  /\ \A t \in ToSet(queue) : cvst[t] = "waiting" \/ t \in restored
  /\ ToSet(queue) \cap eligible \subseteq restored
  /\ Asleep \ lost \subseteq ToSet(queue) \cup eligible
  /\ ToSet(queue) \cup eligible \subseteq (Asleep \cup restored) \ lost
  /\ lost \subseteq Asleep

GroupInv ==
  /\ eligible \subseteq heard \cup restored
  /\ \A i \in DOMAIN groups : groups[i] \subseteq Waiting \cap (heard \cup restored)
  /\ \A i, j \in DOMAIN groups : i <= j => groups[i] \subseteq groups[j]

\* From its destruction to its initialization, by one thread, nobody else is about
\* to use the condition variable, and who still sleeps is lost.
DestroyedInv ==
  /\ destroyed =>
       /\ \A t \in Threads : next[t] \in {"lock", "unlock", "wait", "init"}
       /\ Asleep = lost
  /\ \A t \in Threads : next[t] = "init" =>
       destroyed /\ \A u \in Threads : next[u] = "init" => t = u

IInv ==
  /\ TypeOK
  /\ QueueInv
  /\ GroupInv
  /\ DestroyedInv
=============================================================================
