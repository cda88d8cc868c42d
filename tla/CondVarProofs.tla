---------------------------- MODULE CondVarProofs ----------------------------
(***************************************************************************)
(* Proofs about the condition variable's policy, for any number of threads *)
(* and of messages, with and without a waiter restored from a checkpoint.  *)
(***************************************************************************)
EXTENDS CondVar, SequenceFacts, FiniteSetTheorems

(* wake_thread removes at most one wake group, at k, and the thread from    *)
(* the others; a thread that leaves for a broadcast uses no group up.       *)
LEMMA WakeThreadGroups ==
  ASSUME NEW t \in Threads, groups \in Seq(SUBSET Threads), WakeThread(t)
  PROVE  /\ groups' \in Seq(SUBSET Threads)
         /\ \E k \in 1..(Len(groups) + 1) :
              /\ Len(groups') = IF k = Len(groups) + 1 THEN Len(groups) ELSE Len(groups) - 1
              /\ \A i \in 1..Len(groups') :
                   groups'[i] = (IF i < k THEN groups[i] ELSE groups[i + 1]) \ {t}
              /\ k <= Len(groups) => t \notin eligible /\ t \in groups[k]
              /\ t \notin eligible => \A j \in 1..Len(groups) : j < k => t \notin groups[j]
<1> DEFINE gs == IF t \in eligible THEN groups
                 ELSE RemoveFirstMatch(groups, LAMBDA g : t \in g)
<1>1. groups' = WithoutThread(gs, t)
  BY Zenon DEF WakeThread
<1>2. ASSUME NEW hs \in Seq(SUBSET Threads), groups' = WithoutThread(hs, t)
      PROVE  /\ groups' \in Seq(SUBSET Threads)
             /\ Len(groups') = Len(hs)
             /\ \A i \in 1..Len(groups') : groups'[i] = hs[i] \ {t}
  <2>1. groups' = [i \in 1..Len(hs) |-> hs[i] \ {t}]
    BY <1>2 DEF WithoutThread
  <2> QED
    BY <2>1
<1>3. CASE t \in eligible \/ \A i \in 1..Len(groups) : t \notin groups[i]
  <2>1. gs = groups
    BY <1>3, RemoveFirstMatchProperties
  <2>2. /\ groups' \in Seq(SUBSET Threads)
        /\ Len(groups') = Len(groups)
        /\ \A i \in 1..Len(groups') : groups'[i] = groups[i] \ {t}
    BY <1>1, <1>2, <2>1
  <2>3. Len(groups) + 1 \in 1..(Len(groups) + 1)
    OBVIOUS
  <2> QED
    BY <1>3, <2>2, <2>3
<1>4. CASE t \notin eligible /\ \E i \in 1..Len(groups) : t \in groups[i]
  <2>1. PICK k \in 1..Len(groups) :
           /\ t \in groups[k]
           /\ \A j \in 1..Len(groups) : j < k => t \notin groups[j]
           /\ gs = RemoveAt(groups, k)
    BY <1>4, RemoveFirstMatchProperties
  <2> HIDE DEF gs
  <2>2. /\ gs \in Seq(SUBSET Threads)
        /\ Len(gs) = Len(groups) - 1
        /\ \A i \in 1..(Len(groups) - 1) : gs[i] = IF i < k THEN groups[i] ELSE groups[i + 1]
    BY <2>1, RemoveAtProperties
  <2>3. /\ groups' \in Seq(SUBSET Threads)
        /\ Len(groups') = Len(gs)
        /\ \A i \in 1..Len(groups') : groups'[i] = gs[i] \ {t}
    BY <1>1, <1>2, <2>2
  <2>4. k \in 1..(Len(groups) + 1) /\ k # Len(groups) + 1
    OBVIOUS
  <2> QED
    BY <1>4, <2>1, <2>2, <2>3, <2>4, SMTT(20)
<1> QED
  BY <1>3, <1>4

(* Every sleeper that the policy lets go is one the policy knows.           *)
LEMMA CanExitSet ==
  ASSUME IInv, NEW t, CanExit(t)
  PROVE  t \in ToSet(queue) \cup eligible
  BY DEF CanExit, IInv, GroupInv, Waiting

(* Without restored waiters the sleepers are in the queue, really waiting,  *)
(* or told to go, and never both.                                           *)
LEMMA NoneRestored ==
  ASSUME IInv, restored = {}
  PROVE  /\ ToSet(queue) \cap eligible = {}
         /\ Asleep \ lost = ToSet(queue) \cup eligible
         /\ Waiting = ToSet(queue)
  BY DEF IInv, QueueInv, Waiting

LEMMA InvInit ==
  ASSUME Init
  PROVE  IInv
<1>1. /\ groups = <<>> /\ eligible = {} /\ destroyed = FALSE
      /\ assoc \in BOOLEAN /\ sent = 0 /\ heard = {} /\ lost = {}
      /\ cvst \in [Threads -> {"uninitialized", "prewaiting", "waiting"}]
  BY DEF Init
<1>2. /\ next \in [Threads -> {"lock", "signal", "broadcast", "destroy", "enqueue"}]
      /\ \A t \in Threads : next[t] = "enqueue" <=> t \in restored
  BY DEF Init
<1>3. Asleep = {}
  BY <1>2 DEF Asleep
<1>a. restored \in {{}, Restored} /\ restored \subseteq Threads
  BY CondVarAssumption DEF Init, CondVarAssumption
<1>4. \/ restored = {} /\ owner = NoThread /\ queue = <<>>
      \/ owner \in restored /\ queue = <<owner>>
  BY DEF Init
<1>5. queue \in Seq(Threads) /\ ToSet(queue) \subseteq restored
      /\ \A i, j \in DOMAIN queue : i = j
  <2>1. CASE queue = <<>>
    BY <2>1 DEF ToSet
  <2>2. CASE owner \in restored /\ queue = <<owner>>
    <3>1. owner \in Threads
      BY <1>a, <2>2
    <3>2. DOMAIN queue = {1} /\ queue[1] = owner
      BY <2>2
    <3>3. ToSet(queue) \subseteq {owner} /\ \A i, j \in DOMAIN queue : i = j
      BY <3>2, Zenon DEF ToSet
    <3> QED
      BY <2>2, <3>1, <3>3
  <2> QED
    BY <1>4, <2>1, <2>2
<1>6. TypeOK
  <2>1. next \in [Threads -> Kinds]
    BY <1>2 DEF Kinds, Holding, Free
  <2>2. sent \in 0..MaxSignals
    BY <1>1, CondVarAssumption DEF CondVarAssumption
  <2>3. groups \in Seq(SUBSET Threads)
    BY <1>1
  <2>4. owner \in {t \in Threads : next[t] \in Holding \cup {"init"}} \cup {NoThread}
    BY <1>2, <1>4, <1>a DEF Holding
  <2> QED
    BY <1>1, <1>5, <1>a, <2>1, <2>2, <2>3, <2>4 DEF TypeOK
<1>7. QueueInv /\ GroupInv
  BY <1>1, <1>3, <1>5 DEF QueueInv, GroupInv
<1>8. DestroyedInv
  BY <1>1, <1>2 DEF DestroyedInv
<1> QED
  BY <1>6, <1>7, <1>8 DEF IInv

(* A thread that announces neither half of a sleep leaves the sleepers as   *)
(* they are.                                                                *)
LEMMA AnnounceAwake ==
  ASSUME next \in [Threads -> Kinds], NEW t \in Threads, NEW k,
         next' = [next EXCEPT ![t] = k], next[t] # "wait", k # "wait"
  PROVE  Asleep' = Asleep
  BY DEF Asleep

(* DestroyedInv survives what a thread that does not initialize announces.  *)
LEMMA DestroyedStep ==
  ASSUME DestroyedInv, next \in [Threads -> Kinds], NEW t \in Threads, NEW k,
         next' = [next EXCEPT ![t] = k], next[t] # "init", k # "init",
         destroyed' = destroyed,
         destroyed => k \in {"lock", "unlock", "wait"} /\ Asleep' = lost'
  PROVE  DestroyedInv'
  BY DEF DestroyedInv

LEMMA LockKeeps ==
  ASSUME IInv, NEW t \in Threads, Lock(t)
  PROVE  IInv'
<1>1. PICK k \in Usable(Holding) : next' = [next EXCEPT ![t] = k]
  BY DEF Lock, Announces
<1>2. k \in Holding /\ (destroyed => k = "unlock")
  BY <1>1 DEF Usable, Holding
<1>3. k \notin {"wait", "init"}
  BY <1>2 DEF Holding
<1>4. Asleep' = Asleep
  BY <1>1, <1>3, AnnounceAwake DEF IInv, TypeOK, Lock
<1>5. TypeOK'
  BY <1>1, <1>2 DEF IInv, TypeOK, Lock, Kinds, policyVars, history
<1>6. QueueInv' /\ GroupInv'
  BY <1>4, Zenon DEF IInv, QueueInv, GroupInv, Waiting, Lock, policyVars, history
<1>7. destroyed => Asleep' = lost'
  BY <1>4 DEF IInv, DestroyedInv, Lock, history
<1>8. DestroyedInv'
  BY <1>1, <1>2, <1>3, <1>7, DestroyedStep DEF IInv, TypeOK, Lock
<1> QED
  BY <1>5, <1>6, <1>8 DEF IInv

LEMMA UnlockKeeps ==
  ASSUME IInv, NEW t \in Threads, Unlock(t)
  PROVE  IInv'
<1>1. PICK k \in Usable(Free) : next' = [next EXCEPT ![t] = k]
  BY DEF Unlock, Announces
<1>2. k \in Free /\ (destroyed => k = "lock")
  BY <1>1 DEF Usable, Free
<1>3. k \notin {"wait", "init"}
  BY <1>2 DEF Free
<1>4. Asleep' = Asleep
  BY <1>1, <1>3, AnnounceAwake DEF IInv, TypeOK, Unlock
<1>5. TypeOK'
  BY <1>1, <1>2 DEF IInv, TypeOK, Unlock, Kinds, policyVars, history
<1>6. QueueInv' /\ GroupInv'
  BY <1>4, Zenon DEF IInv, QueueInv, GroupInv, Waiting, Unlock, policyVars, history
<1>7. destroyed => Asleep' = lost'
  BY <1>4 DEF IInv, DestroyedInv, Unlock, history
<1>8. DestroyedInv'
  BY <1>1, <1>2, <1>3, <1>7, DestroyedStep DEF IInv, TypeOK, Unlock
<1> QED
  BY <1>5, <1>6, <1>8 DEF IInv

(* Whether there was a restored waiter is settled at the start.             *)
LEMMA RestoredKept ==
  ASSUME NEW t \in Threads,
         \/ Lock(t) \/ Unlock(t) \/ EnqueueThread(t) \/ Wait(t)
         \/ Signal(t) \/ Broadcast(t) \/ Destroy(t) \/ Initialize(t)
  PROVE  restored' = restored
  BY DEF Lock, Unlock, EnqueueThread, Wait, Signal, Broadcast, Destroy, Initialize,
         Message, history

LEMMA EnqueueKeeps ==
  ASSUME IInv, NEW t \in Threads, EnqueueThread(t)
  PROVE  IInv'
<1>1. ~destroyed
  BY DEF IInv, DestroyedInv, EnqueueThread
<1>2. Asleep' = Asleep \cup {t} /\ t \notin Asleep
  BY DEF IInv, TypeOK, EnqueueThread, Asleep
<1>3. t \notin lost /\ (t \notin restored => t \notin ToSet(queue) /\ t \notin eligible)
  BY <1>2 DEF IInv, QueueInv
<1>4. TypeOK'
  BY DEF IInv, TypeOK, EnqueueThread, Kinds
<1>5. ToSet(queue') = ToSet(queue) \cup {t}
  BY AppendElement DEF IInv, TypeOK, EnqueueThread
<1>6. QueueInv'
  <2>1. \A i, j \in DOMAIN queue' : queue'[i] = queue'[j] => i = j \/ queue'[i] \in restored
    <3>1. /\ queue \in Seq(Threads) /\ queue' = Append(queue, t)
          /\ \A i, j \in DOMAIN queue : queue[i] = queue[j] => i = j \/ queue[i] \in restored
      BY DEF IInv, TypeOK, QueueInv, EnqueueThread
    <3>2. t \notin ToSet(queue) \/ t \in restored
      BY <1>3
    <3> QED
      BY <3>1, <3>2, AppendOnce
  <2>2. \A u \in ToSet(queue') : cvst'[u] = "waiting" \/ u \in restored
    <3>1. ToSet(queue) \subseteq Threads
      BY DEF IInv, TypeOK, ToSet
    <3> QED
      BY <1>5, <3>1 DEF IInv, TypeOK, QueueInv, EnqueueThread
  <2>3. ToSet(queue') \cap eligible' \subseteq restored
    BY <1>3, <1>5 DEF IInv, QueueInv, EnqueueThread
  <2>4. /\ Asleep' \ lost' \subseteq ToSet(queue') \cup eligible'
        /\ ToSet(queue') \cup eligible' \subseteq (Asleep' \cup restored) \ lost'
        /\ lost' \subseteq Asleep'
    BY <1>2, <1>3, <1>5 DEF IInv, QueueInv, EnqueueThread
  <2> QED
    BY <2>1, <2>2, <2>3, <2>4, RestoredKept DEF QueueInv
<1>7. GroupInv'
  <2>1. eligible' \subseteq heard' \cup restored
    BY <1>3 DEF IInv, GroupInv, EnqueueThread
  <2>2. \A i \in DOMAIN groups : t \in groups[i] => t \in restored
    BY <1>3 DEF IInv, GroupInv, Waiting
  <2>3. Waiting \subseteq Waiting'
    BY <1>5 DEF Waiting, EnqueueThread, IInv, TypeOK, ToSet
  <2>4. \A i \in DOMAIN groups' : groups'[i] \subseteq Waiting' \cap (heard' \cup restored)
    BY <2>2, <2>3 DEF IInv, GroupInv, EnqueueThread
  <2> QED
    BY <2>1, <2>4, Zenon DEF IInv, GroupInv, EnqueueThread
<1>8. DestroyedInv'
  BY <1>1, DestroyedStep DEF IInv, TypeOK, EnqueueThread
<1> QED
  BY <1>4, <1>6, <1>7, <1>8 DEF IInv
LEMMA WaitKeeps ==
  ASSUME IInv, NEW t \in Threads, Wait(t)
  PROVE  IInv' /\ (t \notin restored => t \notin ToSet(queue')) /\ ~ CanExit(t)'
<1>1. PICK k \in Holding : next' = [next EXCEPT ![t] = k]
  BY DEF Wait, Announces
<1>2. k \notin {"wait", "init"}
  BY <1>1 DEF Holding
<1>3. t \in Asleep /\ Asleep' = Asleep \ {t}
  BY <1>1, <1>2 DEF IInv, TypeOK, Wait, Asleep
<1>4. t \notin lost
  BY CanExitSet DEF IInv, QueueInv, Wait
<1>5. eligible' = eligible \ {t} /\ cvst' = cvst /\ WakeThread(t)
  BY DEF Wait, WakeThread
<1>6. /\ queue' \in Seq(Threads)
      /\ ToSet(queue') \subseteq ToSet(queue) /\ ToSet(queue) \ {t} \subseteq ToSet(queue')
      /\ t \notin restored => t \notin ToSet(queue')
      /\ \A i, j \in DOMAIN queue' : queue'[i] = queue'[j] => i = j \/ queue'[i] \in restored
  <2>1. /\ queue \in Seq(Threads)
        /\ \A i, j \in DOMAIN queue : queue[i] = queue[j] => i = j \/ queue[i] \in restored
    BY DEF IInv, TypeOK, QueueInv
  <2>2. queue' = RemoveFirst(queue, t)
    BY <1>5 DEF WakeThread
  <2>3. /\ RemoveFirst(queue, t) \in Seq(Threads)
        /\ ToSet(RemoveFirst(queue, t)) \subseteq ToSet(queue)
        /\ ToSet(queue) \ {t} \subseteq ToSet(RemoveFirst(queue, t))
        /\ t \notin restored => t \notin ToSet(RemoveFirst(queue, t))
        /\ \A i, j \in DOMAIN RemoveFirst(queue, t) :
             RemoveFirst(queue, t)[i] = RemoveFirst(queue, t)[j] =>
               i = j \/ RemoveFirst(queue, t)[i] \in restored
    BY <2>1, RemoveFirstOnce, Zenon
  <2> QED
    BY <2>2, <2>3
<1>7. PICK m \in 1..(Len(groups) + 1) :
        /\ Len(groups') = IF m = Len(groups) + 1 THEN Len(groups) ELSE Len(groups) - 1
        /\ \A i \in 1..Len(groups') :
             groups'[i] = (IF i < m THEN groups[i] ELSE groups[i + 1]) \ {t}
  BY <1>5, WakeThreadGroups DEF IInv, TypeOK
<1>8. groups \in Seq(SUBSET Threads) /\ groups' \in Seq(SUBSET Threads)
  BY <1>5, WakeThreadGroups DEF IInv, TypeOK
<1>9. TypeOK'
  BY <1>1, <1>5, <1>6, <1>8 DEF IInv, TypeOK, Wait, Kinds, history
<1>10. QueueInv'
  BY <1>3, <1>4, <1>5, <1>6 DEF IInv, QueueInv, Wait, history
<1> DEFINE old(i) == IF i < m THEN i ELSE i + 1
<1>11. \A i \in DOMAIN groups' : old(i) \in DOMAIN groups /\ groups'[i] = groups[old(i)] \ {t}
  BY <1>7, <1>8
<1>12. \A i, j \in DOMAIN groups' : i <= j => old(i) <= old(j)
  BY <1>8
<1> HIDE DEF old
<1>13. GroupInv'
  <2>1. Waiting \ {t} \subseteq Waiting'
    BY <1>5, <1>6 DEF Waiting
  <2>2. \A i \in DOMAIN groups' : groups'[i] \subseteq Waiting' \cap (heard' \cup restored)
    BY <1>11, <2>1 DEF IInv, GroupInv, Wait, history
  <2>3. \A i, j \in DOMAIN groups' : i <= j => groups'[i] \subseteq groups'[j]
    BY <1>11, <1>12 DEF IInv, GroupInv
  <2> QED
    BY <1>5, <2>2, <2>3 DEF IInv, GroupInv, Wait, history
<1>14. DestroyedInv'
  BY <1>1, <1>2, DestroyedStep DEF IInv, TypeOK, Wait
<1>15. ~ CanExit(t)'
  BY <1>5, <1>11 DEF CanExit
<1> QED
  BY <1>6, <1>9, <1>10, <1>13, <1>14, <1>15 DEF IInv

(* A signal's wake group are those in the queue who are really waiting.     *)
LEMMA WakeGroupsProperties ==
  ASSUME IInv
  PROVE  /\ WakeGroups = IF Waiting = {} THEN groups ELSE Append(groups, Waiting)
         /\ Waiting \in SUBSET Threads
         /\ Waiting \subseteq ToSet(queue)
         /\ ToSet(queue) \in SUBSET Threads
         /\ queue # <<>> => ToSet(queue) # {}
<1>1. ToSet(queue) \in SUBSET Threads
  BY DEF IInv, TypeOK, ToSet
<1>2. queue # <<>> => ToSet(queue) # {}
  <2>1. queue \in Seq(Threads)
    BY DEF IInv, TypeOK
  <2>2. queue # <<>> => 1 \in DOMAIN queue
    BY <2>1, EmptySeq
  <2> QED
    BY <2>1, <2>2 DEF ToSet
<1> QED
  BY <1>1, <1>2 DEF WakeGroups, Waiting

LEMMA MessageKeeps ==
  ASSUME IInv, NEW t \in Threads, Message(t), next[t] \in {"signal", "broadcast"},
         cvst' = cvst
  PROVE  /\ Asleep' = Asleep
         /\ DestroyedInv'
         /\ heard \cup Asleep \subseteq heard'
         /\ (queue' \in Seq(Threads) /\ groups' \in Seq(SUBSET Threads)
              /\ eligible' \subseteq Threads) => TypeOK'
<1>1. PICK k \in IF owner = t THEN Holding ELSE Free : next' = [next EXCEPT ![t] = k]
  BY DEF Message, Announces
<1>2. k \notin {"wait", "init"}
  BY <1>1 DEF Holding, Free
<1>3. Asleep' = Asleep
  BY <1>1, <1>2, AnnounceAwake DEF IInv, TypeOK
<1>4. DestroyedInv'
  BY <1>1, <1>2, DestroyedStep DEF IInv, TypeOK, Message
<1>5. ASSUME queue' \in Seq(Threads), groups' \in Seq(SUBSET Threads),
             eligible' \subseteq Threads
      PROVE  TypeOK'
  <2>1. next' \in [Threads -> Kinds]
    BY <1>1 DEF IInv, TypeOK, Kinds
  <2>2. owner' \in {u \in Threads : next'[u] \in Holding \cup {"init"}} \cup {NoThread}
    BY <1>1 DEF IInv, TypeOK, Message
  <2>3. sent' \in 0..MaxSignals
    BY CondVarAssumption DEF IInv, TypeOK, Message, CondVarAssumption
  <2>4. heard' \subseteq Threads /\ lost' \subseteq Threads
    BY DEF IInv, TypeOK, Message, Asleep
  <2> QED
    BY <1>5, <2>1, <2>2, <2>3, <2>4 DEF IInv, TypeOK, Message
<1> QED
  BY <1>3, <1>4, <1>5 DEF Message

LEMMA SignalKeeps ==
  ASSUME IInv, NEW t \in Threads, Signal(t)
  PROVE  IInv'
<1>1. Message(t) /\ cvst' = cvst /\ queue' = queue /\ eligible' = eligible /\ lost' = lost
  BY DEF Signal, Message
<1>2. /\ Asleep' = Asleep
      /\ DestroyedInv'
      /\ heard \cup Asleep \subseteq heard'
      /\ (queue' \in Seq(Threads) /\ groups' \in Seq(SUBSET Threads)
           /\ eligible' \subseteq Threads) => TypeOK'
  BY <1>1, MessageKeeps DEF Signal
<1>a. restored' = restored
  BY RestoredKept
<1>3. QueueInv'
  BY <1>1, <1>2, <1>a, Zenon DEF IInv, QueueInv
<1>4. groups \in Seq(SUBSET Threads)
  BY DEF IInv, TypeOK
<1>5. Waiting' = Waiting
  BY <1>1 DEF Waiting
<1>6. CASE groups' = groups
  <2>1. TypeOK'
    BY <1>1, <1>2, <1>6 DEF IInv, TypeOK
  <2>2. GroupInv'
    BY <1>1, <1>2, <1>5, <1>6, <1>a DEF IInv, GroupInv
  <2> QED
    BY <1>2, <1>3, <2>1, <2>2 DEF IInv
<1>7. CASE groups' = Append(groups, Waiting)
  <2>1. /\ groups' \in Seq(SUBSET Threads)
        /\ Len(groups') = Len(groups) + 1
        /\ \A i \in 1..Len(groups) : groups'[i] = groups[i]
        /\ groups'[Len(groups) + 1] = Waiting
    BY <1>4, <1>7, AppendElement, WakeGroupsProperties
  <2>2. TypeOK'
    BY <1>1, <1>2, <2>1 DEF IInv, TypeOK
  <2>3. \A i \in 1..Len(groups) : groups[i] \subseteq Waiting \cap (heard \cup restored)
    BY <1>4 DEF IInv, GroupInv
  <2>4. Waiting \subseteq Asleep \cup restored
    BY WakeGroupsProperties DEF IInv, QueueInv
  <2>5. \A i \in DOMAIN groups' : groups'[i] \subseteq Waiting' \cap (heard' \cup restored)
    BY <1>2, <1>4, <1>5, <2>1, <2>3, <2>4
  <2>6. \A i, j \in DOMAIN groups' : i <= j => groups'[i] \subseteq groups'[j]
    <3>1. \A i, j \in 1..Len(groups) : i <= j => groups[i] \subseteq groups[j]
      BY <1>4 DEF IInv, GroupInv
    <3> QED
      BY <1>4, <2>1, <2>3, <3>1
  <2>7. GroupInv'
    BY <1>1, <1>2, <1>a, <2>5, <2>6 DEF IInv, GroupInv
  <2> QED
    BY <1>2, <1>3, <2>2, <2>7 DEF IInv
<1> QED
  BY <1>6, <1>7, WakeGroupsProperties DEF Signal

(* A broadcast tells everybody in the queue to go.                          *)
LEMMA BroadcastEffect ==
  ASSUME IInv, NEW t \in Threads, Broadcast(t)
  PROVE  /\ ToSet(queue') = {}
         /\ queue' = <<>>
         /\ eligible' = eligible \cup ToSet(queue)
         /\ groups' = IF queue = <<>> THEN groups ELSE <<>>
         /\ cvst' = cvst
<1>1. CASE queue = <<>>
  BY <1>1 DEF Broadcast, policyVars, ToSet
<1>2. CASE queue # <<>>
  <2>1. groups \in Seq(SUBSET Threads)
    BY DEF IInv, TypeOK
  <2>2. ToSet(Append(groups, Waiting)) = ToSet(groups) \cup {Waiting}
    BY <2>1, AppendElement, WakeGroupsProperties
  <2>3. ToSet(WakeGroups) \subseteq ToSet(groups) \cup {Waiting}
    BY <2>2, WakeGroupsProperties
  <2>4. UNION ToSet(groups) \subseteq ToSet(queue)
    <3>1. \A i \in DOMAIN groups : groups[i] \subseteq ToSet(queue)
      BY DEF IInv, GroupInv, Waiting
    <3> QED
      BY <3>1 DEF ToSet
  <2>5. eligible' = eligible \cup (UNION ToSet(WakeGroups)) \cup ToSet(queue)
        /\ queue' = <<>> /\ groups' = <<>> /\ cvst' = cvst
    BY <1>2 DEF Broadcast
  <2>6. UNION ToSet(WakeGroups) \subseteq ToSet(queue)
    BY <2>3, <2>4, WakeGroupsProperties
  <2>7. eligible' = eligible \cup ToSet(queue)
    BY <2>5, <2>6
  <2>8. ToSet(queue') = {}
    BY <2>5 DEF ToSet
  <2> QED
    BY <1>2, <2>5, <2>7, <2>8
<1> QED
  BY <1>1, <1>2

LEMMA BroadcastKeeps ==
  ASSUME IInv, NEW t \in Threads, Broadcast(t)
  PROVE  IInv'
<1>1. /\ ToSet(queue') = {}
      /\ queue' = <<>>
      /\ eligible' = eligible \cup ToSet(queue)
      /\ groups' = IF queue = <<>> THEN groups ELSE <<>>
      /\ cvst' = cvst
  BY BroadcastEffect
<1>2. /\ Asleep' = Asleep
      /\ DestroyedInv'
      /\ heard \cup Asleep \subseteq heard'
      /\ (queue' \in Seq(Threads) /\ groups' \in Seq(SUBSET Threads)
           /\ eligible' \subseteq Threads) => TypeOK'
  BY <1>1, MessageKeeps DEF Broadcast
<1>3. ToSet(queue) \subseteq Threads /\ ToSet(queue) \subseteq Asleep \cup restored
  BY WakeGroupsProperties DEF IInv, QueueInv
<1>4. TypeOK'
  BY <1>1, <1>2, <1>3 DEF IInv, TypeOK
<1>5. QueueInv'
  <2>1. lost' = lost
    BY DEF Broadcast, Message
  <2> QED
    BY <1>1, <1>2, <2>1, RestoredKept DEF IInv, QueueInv
<1>6. DOMAIN groups' = {} \/ (groups' = groups /\ \A i \in DOMAIN groups : groups[i] = {})
  <2>1. CASE queue = <<>>
    <3>1. Waiting = {}
      BY <2>1 DEF Waiting, ToSet
    <3>2. \A i \in DOMAIN groups : groups[i] \subseteq Waiting
      BY DEF IInv, GroupInv
    <3> QED
      BY <1>1, <2>1, <3>1, <3>2
  <2>2. CASE queue # <<>>
    BY <1>1, <2>2
  <2> QED
    BY <2>1, <2>2
<1>7. GroupInv'
  BY <1>1, <1>2, <1>3, <1>6, RestoredKept DEF IInv, GroupInv
<1> QED
  BY <1>2, <1>4, <1>5, <1>7 DEF IInv

LEMMA NewPolicyTypes ==
  ASSUME NewPolicy
  PROVE  /\ queue' \in Seq(Threads)
         /\ groups' \in Seq(SUBSET Threads)
         /\ eligible' \subseteq Threads
         /\ cvst' \in [Threads -> {"uninitialized", "prewaiting", "waiting"}]
         /\ assoc' \in BOOLEAN
<1>1. \A S : <<>> \in Seq(S)
  BY EmptySeq
<1>2. queue' = <<>> /\ groups' = <<>>
  BY DEF NewPolicy
<1>3. queue' \in Seq(Threads) /\ groups' \in Seq(SUBSET Threads)
  BY <1>1, <1>2, Zenon
<1> QED
  BY <1>3 DEF NewPolicy

(* A new policy knows nobody.                                               *)
LEMMA NewPolicyKeeps ==
  ASSUME NewPolicy, Asleep' = lost'
  PROVE  QueueInv' /\ GroupInv'
<1>1. ToSet(queue') = {} /\ eligible' = {} /\ DOMAIN queue' = {} /\ DOMAIN groups' = {}
  BY DEF NewPolicy, ToSet
<1> QED
  BY <1>1 DEF QueueInv, GroupInv

(* A destroy is refused unless all sleepers have been told to go; those    *)
(* that have not left are lost.                                             *)
LEMMA DestroyEffect ==
  ASSUME IInv, NEW t \in Threads, Destroy(t)
  PROVE  /\ Asleep' = Asleep
         /\ lost' = Asleep
         /\ Asleep \ lost \subseteq eligible
<1>1. Asleep' = Asleep
  BY AnnounceAwake DEF IInv, TypeOK, Destroy
<1>2. Asleep \ lost \subseteq eligible /\ lost \subseteq Asleep
  BY DEF IInv, QueueInv, Destroy, ToSet
<1>3. lost' = Asleep
  BY <1>2 DEF IInv, QueueInv, Destroy, CanExit
<1> QED
  BY <1>1, <1>2, <1>3

LEMMA DestroyKeeps ==
  ASSUME IInv, NEW t \in Threads, Destroy(t)
  PROVE  IInv'
<1>1. Asleep' = Asleep /\ lost' = Asleep
  BY DestroyEffect
<1>2. TypeOK'
  <2>1. next' \in [Threads -> Kinds]
    BY DEF IInv, TypeOK, Destroy, Kinds
  <2>2. owner' \in {u \in Threads : next'[u] \in Holding \cup {"init"}} \cup {NoThread}
    BY DEF IInv, TypeOK, Destroy
  <2>3. lost' \subseteq Threads
    BY <1>1 DEF Asleep
  <2> QED
    BY <2>1, <2>2, <2>3, NewPolicyTypes DEF IInv, TypeOK, Destroy
<1>3. QueueInv' /\ GroupInv'
  BY <1>1, NewPolicyKeeps DEF Destroy
<1>4. DestroyedInv'
  <2>1. \A u \in Threads : u # t => next'[u] \in {"lock", "unlock", "wait"}
    BY DEF Destroy, Unused, IInv, TypeOK
  <2>2. next'[t] = "init" /\ destroyed'
    BY DEF Destroy, IInv, TypeOK
  <2> QED
    BY <1>1, <2>1, <2>2 DEF DestroyedInv
<1> QED
  BY <1>2, <1>3, <1>4 DEF IInv

LEMMA InitializeKeeps ==
  ASSUME IInv, NEW t \in Threads, Initialize(t)
  PROVE  IInv' /\ Asleep' = lost' /\ Asleep = lost
<1>1. PICK k \in IF owner = t THEN Holding ELSE Free : next' = [next EXCEPT ![t] = k]
  BY DEF Initialize, Announces
<1>2. k \notin {"wait", "init"}
  BY <1>1 DEF Holding, Free
<1>3. destroyed /\ Asleep = lost
  BY DEF IInv, DestroyedInv, Initialize
<1>4. Asleep' = Asleep
  BY <1>1, <1>2, AnnounceAwake DEF IInv, TypeOK, Initialize
<1>5. Asleep' = lost'
  BY <1>3, <1>4 DEF Initialize, history
<1>6. TypeOK'
  <2>1. next' \in [Threads -> Kinds]
    BY <1>1 DEF IInv, TypeOK, Kinds
  <2>2. owner' \in {u \in Threads : next'[u] \in Holding \cup {"init"}} \cup {NoThread}
    BY <1>1 DEF IInv, TypeOK, Initialize
  <2> QED
    BY <2>1, <2>2, NewPolicyTypes DEF IInv, TypeOK, Initialize, history
<1>7. QueueInv' /\ GroupInv'
  BY <1>5, NewPolicyKeeps DEF Initialize
<1>8. DestroyedInv'
  <2>1. \A u \in Threads : next'[u] # "init"
    BY <1>1, <1>2 DEF IInv, DestroyedInv, TypeOK, Initialize
  <2> QED
    BY <2>1 DEF DestroyedInv, Initialize
<1> QED
  BY <1>3, <1>5, <1>6, <1>7, <1>8 DEF IInv

LEMMA InvStutters ==
  ASSUME IInv, UNCHANGED vars
  PROVE  IInv'
<1>1. Asleep' = Asleep
  BY DEF vars, Asleep
<1> QED
  BY <1>1 DEF vars, policyVars, history, IInv, TypeOK, QueueInv, GroupInv, Waiting,
              DestroyedInv

LEMMA InvNext ==
  ASSUME IInv, [Next]_vars
  PROVE  IInv'
<1>1. CASE UNCHANGED vars
  BY <1>1, InvStutters
<1>2. CASE Next
  <2>1. PICK t \in Threads :
           \/ Lock(t) \/ Unlock(t) \/ EnqueueThread(t) \/ Wait(t)
           \/ Signal(t) \/ Broadcast(t) \/ Destroy(t) \/ Initialize(t)
    BY <1>2 DEF Next
  <2> QED
    BY <2>1, LockKeeps, UnlockKeeps, EnqueueKeeps, WaitKeeps, SignalKeeps,
       BroadcastKeeps, DestroyKeeps, InitializeKeeps
<1> QED
  BY <1>1, <1>2

(* The policy's own bookkeeping stays consistent: a sleeper is in the queue *)
(* or told to go by a broadcast, only once unless a checkpoint has found it *)
(* there, and the wake groups, oldest signal first, are an ascending chain  *)
(* of sets of waiters.                                                      *)
THEOREM Invariance ==
  Spec => []IInv
<1>1. Init => IInv
  BY InvInit
<1>2. IInv /\ [Next]_vars => IInv'
  BY InvNext
<1> QED
  BY <1>1, <1>2, PTL DEF Spec

(* Nobody owns the mutex while it waits for it, and the model's state keeps *)
(* its types.                                                               *)
THEOREM TypeCorrect ==
  Spec => []TypeOK
<1>1. IInv => TypeOK
  BY DEF IInv
<1> QED
  BY <1>1, Invariance, PTL

(* The policy forgets no sleeper, restored or not, but for those a destroy  *)
(* overlooks.                                                               *)
THEOREM SleepersAreKnown ==
  Spec => []NoSleeperStranded
<1>1. IInv => NoSleeperStranded
  BY DEF IInv, QueueInv, NoSleeperStranded, CanExit
<1> QED
  BY <1>1, Invariance, PTL

(* A restored waiter, queued twice, spoils nobody's sleep but its own: of   *)
(* all others the policy manages those who sleep, and lets them go for what *)
(* was sent to them.                                                        *)
THEOREM OthersAreUnharmed ==
  Spec => []OthersUnharmed
<1>1. ASSUME IInv
      PROVE  OthersUnharmed
  <2> SUFFICES ASSUME NEW t \in Threads \ restored
               PROVE  /\ t \in ToSet(queue) \/ CanExit(t) => t \in Asleep
                      /\ CanExit(t) => t \in heard
    BY DEF OthersUnharmed
  <2>1. t \in ToSet(queue) \/ CanExit(t) => t \in Asleep
    BY <1>1, CanExitSet DEF IInv, QueueInv
  <2>2. CanExit(t) => t \in heard
    BY <1>1 DEF IInv, GroupInv, CanExit
  <2> QED
    BY <2>1, <2>2
<1> QED
  BY <1>1, Invariance, PTL

(* A thread leaves pthread_cond_wait only for a message sent while it slept, *)
(* unless it is a restored waiter.                                           *)
THEOREM NoWakeupIsStale ==
  Spec => []NoStaleWakeup
<1>1. IInv => NoStaleWakeup
  BY DEF IInv, GroupInv, NoStaleWakeup, CanExit
<1> QED
  BY <1>1, Invariance, PTL

(* What a step of the thread t does to the others' sleep: only a thread's   *)
(* own condition_variable_wait wakes it up.                                 *)
LEMMA OnlyWaitWakes ==
  ASSUME IInv, NEW t \in Threads, NEW u \in Asleep \ Asleep',
         \/ Lock(t) \/ Unlock(t) \/ EnqueueThread(t) \/ Wait(t)
         \/ Signal(t) \/ Broadcast(t) \/ Destroy(t) \/ Initialize(t)
  PROVE  u = t /\ Wait(t)
<1>1. \E k : next' = [next EXCEPT ![t] = k]
  BY DEF Lock, Unlock, EnqueueThread, Wait, Signal, Broadcast, Destroy, Initialize,
         Message, Announces
<1>2. u = t /\ next[t] = "wait"
  BY <1>1 DEF IInv, TypeOK, Asleep
<1> QED
  BY <1>2 DEF Lock, Unlock, EnqueueThread, Signal, Broadcast, Destroy, Initialize

(* After wake_thread the policy has no reference to the thread left, but    *)
(* for the second entry of a restored waiter in the queue.                  *)
THEOREM WakeThreadForgets ==
  Spec => WakeForgets
<1> DEFINE A == \A t \in Asleep \ Asleep' :
                   (t \in ToSet(queue') => t \in restored) /\ ~ CanExit(t)'
<1>1. ASSUME IInv, [Next]_vars
      PROVE  [A]_vars
  <2>1. CASE UNCHANGED vars
    BY <2>1
  <2>2. CASE Next
    <3>1. PICK t \in Threads :
             \/ Lock(t) \/ Unlock(t) \/ EnqueueThread(t) \/ Wait(t)
             \/ Signal(t) \/ Broadcast(t) \/ Destroy(t) \/ Initialize(t)
      BY <2>2 DEF Next
    <3>2. ASSUME NEW u \in Asleep \ Asleep'
          PROVE  (u \in ToSet(queue') => u \in restored) /\ ~ CanExit(u)'
      <4>1. u = t /\ Wait(t)
        BY <1>1, <3>1, OnlyWaitWakes
      <4> QED
        BY <1>1, <4>1, WaitKeeps DEF CanExit
    <3>3. A
      BY <3>2
    <3> QED
      BY <3>3
  <2> QED
    BY <1>1, <2>1, <2>2
<1> HIDE DEF A
<1>2. Spec => [][A]_vars
  BY <1>1, Invariance, PTL DEF Spec
<1> QED
  BY <1>2, PTL DEF WakeForgets, A
-----------------------------------------------------------------------------
(* The refinement: how many threads can be matched with a wake group each. *)

MatchIn(S, gs) ==
  \E f \in [S -> DOMAIN gs] :
    /\ \A a, b \in S : f[a] = f[b] => a = b
    /\ \A t \in S : t \in gs[f[t]]
Largest(E, gs) ==
  Max({Cardinality(S) : S \in {S \in SUBSET (Threads \ E) : MatchIn(S, gs)}})

(* Owed, in these terms, now and after a step.                              *)
LEMMA OwedIsLargest ==
  /\ Owed = Cardinality(eligible) + Largest(eligible, groups)
  /\ Owed' = Cardinality(eligible') + Largest(eligible', groups')
<1>1. \A S : Matchable(S) <=> MatchIn(S, groups)
  <2> SUFFICES ASSUME NEW S PROVE Matchable(S) <=> MatchIn(S, groups)
    OBVIOUS
  <2>1. \A f \in [S -> DOMAIN groups] : DOMAIN f = S
    OBVIOUS
  <2> QED
    BY <2>1 DEF Matchable, MatchIn, IsInjective
<1>2. \A S : Matchable(S)' <=> MatchIn(S, groups')
  <2> SUFFICES ASSUME NEW CONSTANT S PROVE Matchable(S)' <=> MatchIn(S, groups')
    OBVIOUS
  <2>1. \A f \in [S -> DOMAIN groups'] : DOMAIN f = S
    OBVIOUS
  <2> QED
    BY <2>1 DEF Matchable, MatchIn, IsInjective
<1>3. {S \in SUBSET (Threads \ eligible) : Matchable(S)}
        = {S \in SUBSET (Threads \ eligible) : MatchIn(S, groups)}
  BY <1>1, Zenon
<1>4. {S \in SUBSET (Threads \ eligible') : Matchable(S)'}
        = {S \in SUBSET (Threads \ eligible') : MatchIn(S, groups')}
  BY <1>2, Zenon
<1> QED
  BY <1>3, <1>4, Zenon DEF Owed, Largest

(* The largest number of threads that can be matched is attained.           *)
LEMMA LargestAttained ==
  ASSUME NEW E, NEW gs
  PROVE  /\ Largest(E, gs) \in Nat
         /\ \E S \in SUBSET (Threads \ E) :
              MatchIn(S, gs) /\ Cardinality(S) = Largest(E, gs)
         /\ \A S \in SUBSET (Threads \ E) :
              MatchIn(S, gs) => Cardinality(S) <= Largest(E, gs)
<1> DEFINE Ms == {S \in SUBSET (Threads \ E) : MatchIn(S, gs)}
           Sizes == {Cardinality(S) : S \in Ms}
<1>1. IsFiniteSet(Threads) /\ Cardinality(Threads) \in Nat
  BY CondVarAssumption, FS_CardinalityType DEF CondVarAssumption
<1>2. \A S \in SUBSET (Threads \ E) :
        Cardinality(S) \in Nat /\ Cardinality(S) <= Cardinality(Threads)
  <2> SUFFICES ASSUME NEW S \in SUBSET (Threads \ E)
               PROVE  Cardinality(S) \in Nat /\ Cardinality(S) <= Cardinality(Threads)
    OBVIOUS
  <2>1. S \in SUBSET Threads
    OBVIOUS
  <2> QED
    BY <1>1, <2>1, FS_Subset, FS_CardinalityType
<1>3. MatchIn({}, gs)
  <2>1. [x \in {} |-> {}] \in [{} -> DOMAIN gs]
    OBVIOUS
  <2> QED
    BY <2>1 DEF MatchIn
<1>4. Sizes \subseteq Nat /\ Sizes # {} /\ \A n \in Sizes : n <= Cardinality(Threads)
  BY <1>2, <1>3
<1> HIDE DEF Sizes
<1>5. Max(Sizes) \in Sizes /\ \A n \in Sizes : Max(Sizes) >= n
  BY <1>1, <1>4, MaxOfBounded
<1>6. Largest(E, gs) = Max(Sizes)
  BY DEF Largest, Sizes
<1>7. Largest(E, gs) \in Nat /\ \A n \in Sizes : n <= Largest(E, gs)
  BY <1>4, <1>5, <1>6
<1>8. \A S \in Ms : Cardinality(S) <= Largest(E, gs)
  BY <1>7 DEF Sizes
<1>9. \E S \in Ms : Cardinality(S) = Largest(E, gs)
  BY <1>5, <1>6 DEF Sizes
<1> QED
  BY <1>7, <1>8, <1>9

(* Only threads of the groups can be matched.                               *)
LEMMA MatchedAreMembers ==
  ASSUME NEW S, NEW gs, NEW Q, MatchIn(S, gs), \A i \in DOMAIN gs : gs[i] \subseteq Q
  PROVE  S \subseteq Q
  BY DEF MatchIn

(* At most all members of the groups are matched; none without groups.      *)
LEMMA LargestBound ==
  ASSUME NEW E, NEW gs, NEW Q \in SUBSET Threads, \A i \in DOMAIN gs : gs[i] \subseteq Q
  PROVE  Largest(E, gs) <= Cardinality(Q) /\ Cardinality(Q) \in Nat
<1>1. PICK S \in SUBSET (Threads \ E) : MatchIn(S, gs) /\ Cardinality(S) = Largest(E, gs)
  BY LargestAttained
<1>2. S \in SUBSET Q
  BY <1>1, MatchedAreMembers
<1>3. IsFiniteSet(Q)
  BY CondVarAssumption, FS_Subset DEF CondVarAssumption
<1> QED
  BY <1>1, <1>2, <1>3, FS_Subset, FS_CardinalityType

LEMMA LargestZero ==
  ASSUME NEW E, NEW gs, \A i \in DOMAIN gs : gs[i] = {}
  PROVE  Largest(E, gs) = 0
<1>1. Largest(E, gs) <= Cardinality({})
  BY LargestBound
<1> QED
  BY <1>1, FS_EmptySet, LargestAttained
(* A thread that no group has does not count.                               *)
LEMMA LargestElsewhere ==
  ASSUME NEW E, NEW F, NEW gs, NEW Q, \A i \in DOMAIN gs : gs[i] \subseteq Q,
         Q \cap E = {}, Q \cap F = {}
  PROVE  Largest(E, gs) = Largest(F, gs)
<1>1. \A S : MatchIn(S, gs) => S \subseteq Q
  BY MatchedAreMembers
<1>2. {S \in SUBSET (Threads \ E) : MatchIn(S, gs)}
        = {S \in SUBSET (Threads \ F) : MatchIn(S, gs)}
  BY <1>1
<1> QED
  BY <1>2, Zenon DEF Largest

(* All members but at most one of a set of threads.                         *)
LEMMA AllButOne ==
  ASSUME NEW S \in SUBSET Threads, NEW T \in SUBSET S, \A a, b \in S \ T : a = b
  PROVE  Cardinality(S) \in Nat /\ Cardinality(T) \in Nat
         /\ Cardinality(S) <= Cardinality(T) + 1
<1>1. IsFiniteSet(S) /\ IsFiniteSet(T) /\ Cardinality(S) \in Nat /\ Cardinality(T) \in Nat
  BY CondVarAssumption, FS_Subset, FS_CardinalityType DEF CondVarAssumption
<1>2. CASE S = T
  BY <1>1, <1>2
<1>3. CASE S # T
  <2>1. PICK u \in S : u \notin T
    BY <1>3
  <2>2. S = T \cup {u}
    BY <2>1
  <2> QED
    BY <1>1, <2>1, <2>2, FS_AddElement
<1> QED
  BY <1>2, <1>3

(* A signal's group, which has everybody that any group has, is good for    *)
(* one more thread, unless all are matched.                                 *)
LEMMA LargestAppend ==
  ASSUME NEW E, NEW gs \in Seq(SUBSET Threads), NEW Q \in SUBSET Threads, Q \cap E = {},
         \A i \in DOMAIN gs : gs[i] \subseteq Q
  PROVE  Largest(E, Append(gs, Q)) =
           IF Largest(E, gs) < Cardinality(Q) THEN Largest(E, gs) + 1 ELSE Largest(E, gs)
<1> DEFINE hs == Append(gs, Q)
           n == Len(gs) + 1
<1>1. /\ hs \in Seq(SUBSET Threads) /\ DOMAIN hs = 1..n /\ DOMAIN gs = 1..Len(gs)
      /\ \A i \in DOMAIN gs : i \in DOMAIN hs /\ i # n /\ hs[i] = gs[i]
      /\ n \in DOMAIN hs /\ hs[n] = Q
      /\ DOMAIN hs = DOMAIN gs \cup {n}
  <2>1. /\ hs \in Seq(SUBSET Threads) /\ Len(hs) = n
        /\ \A i \in 1..Len(gs) : hs[i] = gs[i]
        /\ hs[n] = Q
    BY AppendElement
  <2>2. DOMAIN gs = 1..Len(gs) /\ Len(gs) \in Nat /\ DOMAIN hs = 1..n
    BY <2>1
  <2> HIDE DEF hs
  <2> QED
    BY <2>1, <2>2
<1> HIDE DEF hs, n
<1>2. \A i \in DOMAIN hs : hs[i] \subseteq Q
  BY <1>1
<1>3. ASSUME NEW S, MatchIn(S, gs)
      PROVE  MatchIn(S, hs)
  BY <1>1, <1>3 DEF MatchIn
<1>4. ASSUME NEW S, MatchIn(S, gs), NEW u \in Q \ S
      PROVE  MatchIn(S \cup {u}, hs)
  <2>1. PICK f \in [S -> DOMAIN gs] :
           /\ \A a, b \in S : f[a] = f[b] => a = b
           /\ \A t \in S : t \in gs[f[t]]
    BY <1>4 DEF MatchIn
  <2> DEFINE g == [x \in S \cup {u} |-> IF x = u THEN n ELSE f[x]]
  <2>2. g \in [S \cup {u} -> DOMAIN hs] /\ g[u] = n
        /\ \A x \in S : g[x] = f[x] /\ f[x] \in DOMAIN gs
    BY <1>1, <1>4
  <2> HIDE DEF g
  <2>3. \A a, b \in S \cup {u} : g[a] = g[b] => a = b
    BY <1>1, <2>1, <2>2
  <2>4. \A x \in S \cup {u} : x \in hs[g[x]]
    BY <1>1, <2>1, <2>2
  <2> QED
    BY <2>2, <2>3, <2>4 DEF MatchIn
<1>5. ASSUME NEW S \in SUBSET (Threads \ E), MatchIn(S, hs)
      PROVE  \E T \in SUBSET S : MatchIn(T, gs) /\ Cardinality(S) <= Cardinality(T) + 1
  <2>1. PICK f \in [S -> DOMAIN hs] :
           /\ \A a, b \in S : f[a] = f[b] => a = b
           /\ \A t \in S : t \in hs[f[t]]
    BY <1>5 DEF MatchIn
  <2> DEFINE T == {x \in S : f[x] # n}
             g == [x \in T |-> f[x]]
  <2>2. g \in [T -> DOMAIN gs] /\ \A x \in T : g[x] = f[x]
    BY <1>1, <2>1
  <2>3. MatchIn(T, gs)
    <3>1. \A a, b \in T : g[a] = g[b] => a = b
      BY <2>1, <2>2
    <3>2. \A x \in T : x \in gs[g[x]]
      BY <1>1, <2>1, <2>2
    <3> HIDE DEF g, T
    <3> QED
      BY <2>2, <3>1, <3>2 DEF MatchIn
  <2>4. T \in SUBSET S /\ \A a, b \in S \ T : a = b
    BY <2>1
  <2>5. S \in SUBSET Threads
    OBVIOUS
  <2> HIDE DEF T
  <2> QED
    BY <2>3, <2>4, <2>5, AllButOne
<1> DEFINE m == Largest(E, gs)
           l == Largest(E, hs)
<1>6. /\ m \in Nat /\ l \in Nat /\ Cardinality(Q) \in Nat
      /\ m <= Cardinality(Q) /\ l <= Cardinality(Q)
  BY <1>2, LargestAttained, LargestBound
<1>7. PICK S \in SUBSET (Threads \ E) : MatchIn(S, gs) /\ Cardinality(S) = m
  BY LargestAttained
<1>8. m <= l
  BY <1>3, <1>7, LargestAttained
<1>9. l <= m + 1
  <2>1. PICK R \in SUBSET (Threads \ E) : MatchIn(R, hs) /\ Cardinality(R) = l
    BY LargestAttained
  <2>2. PICK T \in SUBSET R : MatchIn(T, gs) /\ Cardinality(R) <= Cardinality(T) + 1
    BY <1>5, <2>1
  <2>3. T \in SUBSET (Threads \ E) /\ T \in SUBSET Threads
    OBVIOUS
  <2>4. Cardinality(T) <= m /\ Cardinality(T) \in Nat
    BY <2>2, <2>3, LargestAttained, CondVarAssumption, FS_Subset, FS_CardinalityType
    DEF CondVarAssumption
  <2> QED
    BY <1>6, <2>1, <2>2, <2>4
<1>10. ASSUME m < Cardinality(Q)
       PROVE  m + 1 <= l
  <2>1. S \subseteq Q /\ S # Q
    BY <1>6, <1>7, <1>10, MatchedAreMembers
  <2>2. PICK u \in Q : u \notin S
    BY <2>1
  <2>3. MatchIn(S \cup {u}, hs) /\ S \cup {u} \in SUBSET (Threads \ E)
    BY <1>4, <1>7, <2>2
  <2>4. IsFiniteSet(S)
    BY CondVarAssumption, FS_Subset DEF CondVarAssumption
  <2>5. Cardinality(S \cup {u}) = m + 1
    BY <1>7, <2>2, <2>4, FS_AddElement
  <2> QED
    BY <2>3, <2>5, LargestAttained
<1> HIDE DEF m, l
<1>11. l = IF m < Cardinality(Q) THEN m + 1 ELSE m
  BY <1>6, <1>8, <1>9, <1>10
<1> QED
  BY <1>11 DEF m, l, hs
(* Consuming the first group that has the thread costs one wake-up, never   *)
(* two: whoever was matched with that group can take the group the thread   *)
(* was matched with, as the groups ascend.                                  *)
LEMMA LargestConsume ==
  ASSUME NEW E, NEW gs \in Seq(SUBSET Threads), NEW hs \in Seq(SUBSET Threads),
         NEW t \in Threads \ E, NEW k \in 1..Len(gs), t \in gs[k],
         \A j \in 1..Len(gs) : j < k => t \notin gs[j],
         \A i, j \in 1..Len(gs) : i <= j => gs[i] \subseteq gs[j],
         Len(hs) = Len(gs) - 1,
         \A i \in 1..Len(hs) : hs[i] = (IF i < k THEN gs[i] ELSE gs[i + 1]) \ {t}
  PROVE  Largest(E, gs) = Largest(E, hs) + 1
<1> DEFINE D == 1..Len(gs)
           D2 == 1..Len(hs)
           old(i) == IF i < k THEN i ELSE i + 1
           new(i) == IF i < k THEN i ELSE i - 1
<1>1. DOMAIN gs = D /\ DOMAIN hs = D2 /\ Len(gs) \in Nat /\ k \in D
  OBVIOUS
<1>2. \A i \in D2 : old(i) \in D /\ old(i) # k /\ hs[i] = gs[old(i)] \ {t}
  BY <1>1
<1>3. \A i, j \in D2 : old(i) = old(j) => i = j
  BY <1>1
<1>4. \A i \in D : i # k => new(i) \in D2 /\ hs[new(i)] = gs[i] \ {t}
  BY <1>1
<1>5. \A i, j \in D : i # k /\ j # k /\ new(i) = new(j) => i = j
  BY <1>1
<1>6. \A i \in D : t \in gs[i] => gs[k] \subseteq gs[i]
  BY <1>1
<1> HIDE DEF D, D2, old, new
<1>7. ASSUME NEW S, MatchIn(S, hs)
      PROVE  t \notin S /\ MatchIn(S \cup {t}, gs)
  <2>1. PICK f \in [S -> D2] :
           /\ \A a, b \in S : f[a] = f[b] => a = b
           /\ \A x \in S : x \in hs[f[x]]
    BY <1>1, <1>7 DEF MatchIn
  <2>2. \A x \in S : x # t /\ old(f[x]) \in D /\ old(f[x]) # k /\ x \in gs[old(f[x])]
    BY <1>2, <2>1
  <2> DEFINE g == [x \in S \cup {t} |-> IF x = t THEN k ELSE old(f[x])]
  <2>3. g \in [S \cup {t} -> D] /\ g[t] = k /\ \A x \in S : g[x] = old(f[x])
    BY <1>1, <2>2
  <2> HIDE DEF g
  <2>4. \A a, b \in S \cup {t} : g[a] = g[b] => a = b
    <3>1. \A a, b \in S : g[a] = g[b] => a = b
      BY <1>3, <2>1, <2>3
    <3>2. \A a \in S : g[a] # g[t]
      BY <2>2, <2>3
    <3> QED
      BY <3>1, <3>2
  <2>5. \A x \in S \cup {t} : x \in gs[g[x]]
    BY <2>2, <2>3
  <2>6. MatchIn(S \cup {t}, gs)
    BY <1>1, <2>3, <2>4, <2>5 DEF MatchIn
  <2> QED
    BY <2>2, <2>6
<1>8. ASSUME NEW T, NEW h \in [T -> D], t \notin T,
             \A a, b \in T : h[a] = h[b] => a = b,
             \A x \in T : h[x] # k /\ x \in gs[h[x]]
      PROVE  MatchIn(T, hs)
  <2> DEFINE g == [x \in T |-> new(h[x])]
  <2>1. \A x \in T : h[x] \in D /\ new(h[x]) \in D2 /\ hs[new(h[x])] = gs[h[x]] \ {t}
    BY <1>4, <1>8
  <2>2. g \in [T -> D2] /\ \A x \in T : g[x] = new(h[x])
    BY <2>1
  <2> HIDE DEF g
  <2>3. \A a, b \in T : g[a] = g[b] => a = b
    BY <1>5, <1>8, <2>1, <2>2
  <2>4. \A x \in T : x \in hs[g[x]]
    BY <1>8, <2>1, <2>2
  <2> QED
    BY <1>1, <2>2, <2>3, <2>4 DEF MatchIn
<1>9. ASSUME NEW S \in SUBSET (Threads \ E), MatchIn(S, gs)
      PROVE  \E T \in SUBSET S : MatchIn(T, hs) /\ Cardinality(S) <= Cardinality(T) + 1
  <2>1. PICK f \in [S -> D] :
           /\ \A a, b \in S : f[a] = f[b] => a = b
           /\ \A x \in S : x \in gs[f[x]]
    BY <1>1, <1>9 DEF MatchIn
  <2>2. S \in SUBSET Threads
    OBVIOUS
  <2>3. CASE t \in S
    <3> DEFINE T == S \ {t}
               h == [x \in T |-> IF f[x] = k THEN f[t] ELSE f[x]]
    <3>1. h \in [T -> D] /\ \A x \in T : h[x] = IF f[x] = k THEN f[t] ELSE f[x]
      BY <2>1, <2>3
    <3>2. T \in SUBSET S /\ t \notin T /\ \A a, b \in S \ T : a = b
      OBVIOUS
    <3> HIDE DEF T, h
    <3>3. \A a, b \in T : h[a] = h[b] => a = b
      BY <2>1, <2>3, <3>1, <3>2
    <3>4. \A x \in T : h[x] # k
      BY <2>1, <2>3, <3>1, <3>2
    <3>5. \A x \in T : x \in gs[h[x]]
      BY <1>6, <2>1, <2>3, <3>1, <3>2
    <3>6. MatchIn(T, hs)
      BY <1>8, <3>1, <3>2, <3>3, <3>4, <3>5
    <3> QED
      BY <2>2, <3>2, <3>6, AllButOne
  <2>4. CASE t \notin S
    <3> DEFINE T == {x \in S : f[x] # k}
               h == [x \in T |-> f[x]]
    <3>1. h \in [T -> D] /\ \A x \in T : h[x] = f[x] /\ f[x] # k
      BY <2>1
    <3>2. T \in SUBSET S /\ t \notin T /\ \A a, b \in S \ T : a = b
      BY <2>1, <2>4
    <3> HIDE DEF T, h
    <3>3. \A a, b \in T : h[a] = h[b] => a = b
      BY <2>1, <3>1, <3>2
    <3>4. \A x \in T : h[x] # k /\ x \in gs[h[x]]
      BY <2>1, <3>1, <3>2
    <3>6. MatchIn(T, hs)
      BY <1>8, <3>1, <3>2, <3>3, <3>4
    <3> QED
      BY <2>2, <3>2, <3>6, AllButOne
  <2> QED
    BY <2>3, <2>4
<1> DEFINE m == Largest(E, gs)
           l == Largest(E, hs)
<1>10. m \in Nat /\ l \in Nat
  BY LargestAttained
<1>11. l + 1 <= m
  <2>1. PICK S \in SUBSET (Threads \ E) : MatchIn(S, hs) /\ Cardinality(S) = l
    BY LargestAttained
  <2>2. t \notin S /\ MatchIn(S \cup {t}, gs) /\ S \cup {t} \in SUBSET (Threads \ E)
    BY <1>7, <2>1
  <2>3. IsFiniteSet(S)
    BY CondVarAssumption, FS_Subset DEF CondVarAssumption
  <2>4. Cardinality(S \cup {t}) = l + 1
    BY <2>1, <2>2, <2>3, FS_AddElement
  <2> QED
    BY <2>2, <2>4, LargestAttained
<1>12. m <= l + 1
  <2>1. PICK S \in SUBSET (Threads \ E) : MatchIn(S, gs) /\ Cardinality(S) = m
    BY LargestAttained
  <2>2. PICK T \in SUBSET S : MatchIn(T, hs) /\ Cardinality(S) <= Cardinality(T) + 1
    BY <1>9, <2>1
  <2>3. T \in SUBSET (Threads \ E) /\ T \in SUBSET Threads
    OBVIOUS
  <2>4. Cardinality(T) <= l /\ Cardinality(T) \in Nat
    BY <2>2, <2>3, LargestAttained, CondVarAssumption, FS_Subset, FS_CardinalityType
    DEF CondVarAssumption
  <2> QED
    BY <1>10, <2>1, <2>2, <2>4
<1> QED
  BY <1>10, <1>11, <1>12
(* Everybody asleep is told to go or in the queue; wake-ups are owed to the *)
(* former, and to as many of the latter as the groups are good for.         *)
LEMMA OwedCount ==
  ASSUME IInv, restored = {}
  PROVE  /\ ToSet(queue) \in SUBSET Threads
         /\ Cardinality(eligible) \in Nat /\ Cardinality(ToSet(queue)) \in Nat
         /\ Cardinality(Asleep \ lost) = Cardinality(eligible) + Cardinality(ToSet(queue))
         /\ \A i \in DOMAIN groups : groups[i] \subseteq ToSet(queue)
         /\ Largest(eligible, groups) \in Nat
         /\ Largest(eligible, groups) <= Cardinality(ToSet(queue))
         /\ Owed = Cardinality(eligible) + Largest(eligible, groups)
<1>1. ToSet(queue) \in SUBSET Threads /\ eligible \in SUBSET Threads
  BY WakeGroupsProperties DEF IInv, TypeOK
<1>2. IsFiniteSet(ToSet(queue)) /\ IsFiniteSet(eligible)
  BY <1>1, CondVarAssumption, FS_Subset DEF CondVarAssumption
<1>3. Cardinality(eligible) \in Nat /\ Cardinality(ToSet(queue)) \in Nat
  BY <1>2, FS_CardinalityType
<1>4. Cardinality(Asleep \ lost) = Cardinality(eligible) + Cardinality(ToSet(queue))
  <2>1. Asleep \ lost = eligible \cup ToSet(queue) /\ eligible \cap ToSet(queue) = {}
    BY NoneRestored
  <2>2. Cardinality(eligible \cup ToSet(queue)) =
          Cardinality(eligible) + Cardinality(ToSet(queue))
            - Cardinality(eligible \cap ToSet(queue))
    BY <1>2, FS_Union
  <2>3. Cardinality(eligible \cap ToSet(queue)) = 0
    BY <2>1, FS_EmptySet
  <2>4. Cardinality(Asleep \ lost) = Cardinality(eligible \cup ToSet(queue))
    BY <2>1
  <2> QED
    BY <1>3, <2>2, <2>3, <2>4
<1>5. \A i \in DOMAIN groups : groups[i] \subseteq ToSet(queue)
  BY DEF IInv, GroupInv, Waiting
<1>6. Largest(eligible, groups) \in Nat
      /\ Largest(eligible, groups) <= Cardinality(ToSet(queue))
  BY <1>1, <1>5, LargestAttained, LargestBound
<1> QED
  BY <1>1, <1>3, <1>4, <1>5, <1>6, OwedIsLargest

(* With an empty queue a wake-up is owed to everybody.                      *)
LEMMA OwedAll ==
  ASSUME IInv, restored = {}, queue = <<>>
  PROVE  Owed = Cardinality(Asleep \ lost) /\ Cardinality(Asleep \ lost) \in Nat
<1>1. ToSet(queue) = {}
  BY DEF ToSet
<1>2. Cardinality(ToSet(queue)) = 0
  BY <1>1, FS_EmptySet
<1> QED
  BY <1>2, OwedCount

LEMMA OwedNew ==
  ASSUME NewPolicy
  PROVE  Owed' = 0
<1>1. eligible' = {} /\ DOMAIN groups' = {}
  BY DEF NewPolicy
<1>2. Largest(eligible', groups') = 0
  BY <1>1, LargestZero
<1> QED
  BY <1>1, <1>2, OwedIsLargest, FS_EmptySet

(* The abstract specification counts as this module does.                   *)
LEMMA SameCardinality ==
  \A S : Abstract!Cardinality(S) = Cardinality(S)
  BY DEF Abstract!Cardinality, Cardinality

LEMMA RefineInit ==
  ASSUME Init
  PROVE  Abstract!Init
<1>a. CASE restored # {}
  BY <1>a DEF Abstract!Init
<1> SUFFICES ASSUME restored = {} PROVE Abstract!Init
  BY <1>a
<1>1. IInv /\ queue = <<>> /\ lost = {} /\ Asleep = {}
  BY InvInit DEF Init, Asleep
<1>2. Owed = Cardinality(Asleep \ lost)
  BY <1>1, OwedAll
<1>3. Asleep \ lost = {}
  BY <1>1
<1> QED
  BY <1>2, <1>3, FS_EmptySet DEF Abstract!Init

(* Steps that leave sleepers, groups and the broadcast's threads alone.     *)
LEMMA RefineStutter ==
  ASSUME Asleep' = Asleep, lost' = lost, eligible' = eligible, groups' = groups,
         restored' = restored
  PROVE  UNCHANGED Abstract!sleepersVars
<1>1. Owed' = Owed
  BY OwedIsLargest
<1> QED
  BY <1>1 DEF Abstract!sleepersVars

LEMMA RefineSleep ==
  ASSUME IInv, restored = {}, NEW t \in Threads, EnqueueThread(t)
  PROVE  Abstract!Sleep(t)
<1>1. Asleep' = Asleep \cup {t} /\ t \notin Asleep
  BY DEF IInv, TypeOK, EnqueueThread, Asleep
<1>2. t \notin lost /\ lost' = lost
  BY <1>1 DEF IInv, QueueInv, EnqueueThread
<1>3. Owed' = Owed
  BY OwedIsLargest DEF EnqueueThread
<1> QED
  BY <1>1, <1>2, <1>3, RestoredKept DEF Abstract!Sleep

LEMMA RefineSignal ==
  ASSUME IInv, restored = {}, NEW t \in Threads, Signal(t)
  PROVE  Abstract!Signal
<1>1. Asleep' = Asleep /\ lost' = lost /\ eligible' = eligible
  BY MessageKeeps DEF Signal, Message
<1>2. CASE queue = <<>>
  <2>1. Owed' = Owed
    BY <1>1, <1>2, OwedIsLargest DEF Signal
  <2> QED
    BY <1>1, <1>2, <2>1, OwedAll, SameCardinality, RestoredKept DEF Abstract!Signal
<1>3. CASE queue # <<>>
  <2>1. groups' = Append(groups, ToSet(queue))
    BY <1>3, NoneRestored, WakeGroupsProperties DEF Signal
  <2>2. groups \in Seq(SUBSET Threads) /\ ToSet(queue) \cap eligible = {}
    BY NoneRestored DEF IInv, TypeOK
  <2>3. Largest(eligible, groups') =
          IF Largest(eligible, groups) < Cardinality(ToSet(queue))
          THEN Largest(eligible, groups) + 1 ELSE Largest(eligible, groups)
    BY <2>1, <2>2, OwedCount, LargestAppend
  <2>4. Owed' = Cardinality(eligible) + Largest(eligible, groups')
    BY <1>1, OwedIsLargest
  <2>5. Owed' = IF Owed < Cardinality(Asleep \ lost) THEN Owed + 1 ELSE Owed
    BY <2>3, <2>4, OwedCount
  <2> QED
    BY <1>1, <2>5, SameCardinality, RestoredKept DEF Abstract!Signal
<1> QED
  BY <1>2, <1>3

LEMMA RefineBroadcast ==
  ASSUME IInv, restored = {}, NEW t \in Threads, Broadcast(t)
  PROVE  Abstract!Broadcast
<1>1. IInv' /\ queue' = <<>>
  BY BroadcastKeeps, BroadcastEffect
<1>2. Asleep' = Asleep /\ lost' = lost
  BY MessageKeeps, BroadcastEffect DEF Broadcast, Message
<1>3. Owed' = Cardinality(Asleep' \ lost')
  <2>1. ToSet(queue') = {}
    BY BroadcastEffect
  <2>2. \A i \in DOMAIN groups' : groups'[i] = {}
    BY <1>1, <2>1 DEF IInv, GroupInv, Waiting
  <2>3. Largest(eligible', groups') = 0
    BY <2>2, LargestZero
  <2>4. Asleep' \ lost' = eligible'
    BY <1>1, <2>1, RestoredKept DEF IInv, QueueInv
  <2>5. Cardinality(eligible') \in Nat
    BY <1>1, CondVarAssumption, FS_Subset, FS_CardinalityType
    DEF IInv, TypeOK, CondVarAssumption
  <2>6. Owed' = Cardinality(eligible')
    BY <2>3, <2>5, OwedIsLargest
  <2> QED
    BY <2>4, <2>6
<1> QED
  BY <1>2, <1>3, SameCardinality, RestoredKept DEF Abstract!Broadcast

LEMMA RefineLeave ==
  ASSUME IInv, restored = {}, NEW t \in Threads, Wait(t)
  PROVE  Abstract!Leave(t)
<1>1. t \in Asleep \ lost /\ (Asleep \ lost)' = (Asleep \ lost) \ {t}
  <2>1. PICK k \in Holding : next' = [next EXCEPT ![t] = k]
    BY DEF Wait, Announces
  <2>2. k # "wait"
    BY <2>1 DEF Holding
  <2>3. t \in Asleep /\ Asleep' = Asleep \ {t}
    BY <2>1, <2>2 DEF IInv, TypeOK, Wait, Asleep
  <2>4. t \notin lost /\ lost' = lost
    BY CanExitSet DEF IInv, QueueInv, Wait, history
  <2> QED
    BY <2>3, <2>4
<1>2. groups \in Seq(SUBSET Threads) /\ eligible' = eligible \ {t} /\ CanExit(t)
  BY DEF IInv, TypeOK, Wait, WakeThread
<1>3. groups' \in Seq(SUBSET Threads)
  BY <1>2, WakeThreadGroups DEF Wait
<1>4. PICK k \in 1..(Len(groups) + 1) :
        /\ Len(groups') = IF k = Len(groups) + 1 THEN Len(groups) ELSE Len(groups) - 1
        /\ \A i \in 1..Len(groups') :
             groups'[i] = (IF i < k THEN groups[i] ELSE groups[i + 1]) \ {t}
        /\ k <= Len(groups) => t \notin eligible /\ t \in groups[k]
        /\ t \notin eligible => \A j \in 1..Len(groups) : j < k => t \notin groups[j]
  BY <1>2, WakeThreadGroups DEF Wait
<1>5. IsFiniteSet(eligible)
  BY CondVarAssumption, FS_Subset DEF CondVarAssumption, IInv, TypeOK
<1>6. Owed' = Cardinality(eligible') + Largest(eligible', groups')
  BY OwedIsLargest
<1>7. CASE t \in eligible
  <2>1. k = Len(groups) + 1 /\ Len(groups') = Len(groups)
    BY <1>2, <1>4, <1>7
  <2>2. \A i \in DOMAIN groups : t \notin groups[i]
    BY <1>7, NoneRestored, OwedCount
  <2>3. \A i \in 1..Len(groups) : groups'[i] = groups[i]
    <3> SUFFICES ASSUME NEW i \in 1..Len(groups)
                 PROVE  groups'[i] = groups[i]
      OBVIOUS
    <3>1. i \in DOMAIN groups /\ t \notin groups[i] /\ i < k
      BY <1>2, <2>1, <2>2
    <3>2. groups'[i] = groups[i] \ {t}
      BY <1>4, <2>1, <3>1
    <3> QED
      BY <3>1, <3>2
  <2>4. groups' = groups
    BY <1>2, <1>3, <2>1, <2>3, SeqEqual
  <2>5. Largest(eligible', groups') = Largest(eligible, groups)
    <3>1. ToSet(queue) \cap eligible = {} /\ ToSet(queue) \cap eligible' = {}
      BY <1>2, NoneRestored
    <3> QED
      BY <2>4, <3>1, OwedCount, LargestElsewhere
  <2>6. Cardinality(eligible') = Cardinality(eligible) - 1 /\ Cardinality(eligible) > 0
    <3>1. Cardinality(eligible) # 0
      BY <1>5, <1>7, FS_EmptySet
    <3> QED
      BY <1>2, <1>5, <1>7, <3>1, FS_RemoveElement, FS_CardinalityType
  <2>7. Owed' = Owed - 1 /\ Owed > 0
    BY <1>6, <2>5, <2>6, OwedCount
  <2> QED
    BY <1>1, <2>7, RestoredKept DEF Abstract!Leave
<1>8. CASE t \notin eligible
  <2>1. eligible' = eligible
    BY <1>2, <1>8
  <2>2. k \in 1..Len(groups)
    <3>1. PICK i \in 1..Len(groups) : t \in groups[i]
      BY <1>2, <1>8 DEF CanExit
    <3> QED
      BY <1>2, <1>4, <1>8, <3>1
  <2>3. Len(groups') = Len(groups) - 1 /\ t \in groups[k]
    BY <1>2, <1>4, <2>2
  <2>4. \A i, j \in 1..Len(groups) : i <= j => groups[i] \subseteq groups[j]
    BY <1>2 DEF IInv, GroupInv
  <2>5. Largest(eligible, groups) = Largest(eligible, groups') + 1
    BY <1>2, <1>3, <1>4, <1>8, <2>2, <2>3, <2>4, LargestConsume
  <2>6. Owed' = Owed - 1 /\ Owed > 0
    <3>1. Largest(eligible, groups') \in Nat
      BY LargestAttained
    <3> QED
      BY <1>6, <2>1, <2>5, <3>1, OwedCount
  <2> QED
    BY <1>1, <2>6, RestoredKept DEF Abstract!Leave
<1> QED
  BY <1>7, <1>8

LEMMA RefineDestroy ==
  ASSUME IInv, restored = {}, NEW t \in Threads, Destroy(t)
  PROVE  Abstract!Destroy
<1>1. Owed = Cardinality(Asleep \ lost)
  BY OwedAll DEF Destroy
<1>2. (Asleep \ lost)' = {}
  BY DestroyEffect
<1>3. Owed' = 0
  BY OwedNew DEF Destroy
<1> QED
  BY <1>1, <1>2, <1>3, SameCardinality, RestoredKept DEF Abstract!Destroy

LEMMA RefineInitialize ==
  ASSUME IInv, restored = {}, NEW t \in Threads, Initialize(t)
  PROVE  UNCHANGED Abstract!sleepersVars
<1>1. Asleep = lost /\ Asleep' = lost'
  BY InitializeKeeps
<1>2. Owed' = 0
  BY OwedNew DEF Initialize
<1>3. Owed = 0
  <2>1. Asleep \ lost = {}
    BY <1>1
  <2>2. Cardinality(Asleep \ lost) = 0
    BY <2>1, FS_EmptySet
  <2> QED
    BY <2>2, OwedCount
<1>4. (Asleep \ lost)' = Asleep \ lost
  BY <1>1
<1> QED
  BY <1>2, <1>3, <1>4, RestoredKept DEF Abstract!sleepersVars

LEMMA RefineNext ==
  ASSUME IInv, [Next]_vars
  PROVE  [Abstract!Next]_(Abstract!sleepersVars)
<1>a. restored' = restored
  BY RestoredKept DEF Next, vars, history
<1>b. CASE restored # {}
  BY <1>a, <1>b DEF Abstract!sleepersVars
<1> SUFFICES ASSUME restored = {} PROVE [Abstract!Next]_(Abstract!sleepersVars)
  BY <1>b
<1>1. CASE UNCHANGED vars
  <2>1. Asleep' = Asleep /\ lost' = lost /\ eligible' = eligible /\ groups' = groups
    BY <1>1 DEF vars, policyVars, history, Asleep
  <2> QED
    BY <1>a, <2>1, RefineStutter
<1>2. ASSUME NEW t \in Threads, Lock(t) \/ Unlock(t)
      PROVE  UNCHANGED Abstract!sleepersVars
  <2>1. \E k \in Holding \cup Free : next' = [next EXCEPT ![t] = k]
    BY <1>2 DEF Lock, Unlock, Announces, Usable
  <2>2. Asleep' = Asleep
    BY <1>2, <2>1, AnnounceAwake DEF IInv, TypeOK, Lock, Unlock, Holding, Free
  <2> QED
    BY <1>2, <1>a, <2>2, RefineStutter DEF Lock, Unlock, policyVars, history
<1>3. CASE Next
  <2>1. PICK t \in Threads :
           \/ Lock(t) \/ Unlock(t) \/ EnqueueThread(t) \/ Wait(t)
           \/ Signal(t) \/ Broadcast(t) \/ Destroy(t) \/ Initialize(t)
    BY <1>3 DEF Next
  <2>2. Abstract!Next \/ UNCHANGED Abstract!sleepersVars
    BY <1>2, <2>1, RefineSleep, RefineLeave, RefineSignal, RefineBroadcast, RefineDestroy,
       RefineInitialize DEF Abstract!Next
  <2> QED
    BY <2>2
<1> QED
  BY <1>1, <1>3

(* ConditionVariableArbitraryPolicy implements the abstract condition       *)
(* variable: no signal is lost while somebody sleeps to whom no wake-up is  *)
(* owed, none wakes two threads, consuming the first possible wake group    *)
(* costs no other thread its wake-up, and a destroy is refused while        *)
(* somebody sleeps to whom none is owed.  It says nothing of a program with *)
(* a restored waiter.                                                       *)
THEOREM PolicyImplementsSleepers ==
  Spec => SleepersSpec
<1>1. Init => Abstract!Init
  BY RefineInit
<1>2. IInv /\ [Next]_vars => [Abstract!Next]_(Abstract!sleepersVars)
  BY RefineNext
<1> QED
  BY <1>1, <1>2, Invariance, PTL DEF Spec, SleepersSpec, Abstract!Spec
=============================================================================
