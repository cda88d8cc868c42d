---------------------------- MODULE RecordProofs ----------------------------
(***************************************************************************)
(* Proofs about Record.  The wrappers' many steps are first sorted by what *)
(* they do to a thread's place in its wrapper (the shapes); the control    *)
(* part of the invariant is proved by shapes, the parts about one kind of  *)
(* object from the wrappers of that kind.                                  *)
(***************************************************************************)
EXTENDS Record, SequenceFacts, FiniteSetTheorems, TLAPS

-----------------------------------------------------------------------------
(* Operations and records.                                                 *)

(* A thread is at a well-formed operation of its program, or past its end.  *)
LEMMA CurFacts ==
  ASSUME prog \in Programs, pc \in [Threads -> Nat \ {0}], NEW t \in Threads
  PROVE  /\ Cur(t).kind \in Kinds \cup {"thread_exit"}
         /\ WellFormed(Cur(t))
         /\ Cur(t).kind \notin {"thread_exit", "exit"} => pc[t] \in DOMAIN prog[t]
         /\ pc[t] \in DOMAIN prog[t] => Cur(t) = prog[t][pc[t]]
         /\ pc[t] \in DOMAIN prog[t] => Cur(t).kind # "thread_exit"
<1>1. prog[t] \in Seq(Operations) /\ pc[t] \in Nat \ {0}
  BY RecordAssumption
<1>2. CASE pc[t] <= Len(prog[t])
  <2>1. pc[t] \in DOMAIN prog[t] /\ Cur(t) = prog[t][pc[t]]
    BY <1>1, <1>2 DEF Cur
  <2>2. prog[t][pc[t]] \in Operations
    BY <1>1, <2>1
  <2> QED
    BY <2>1, <2>2 DEF Operations, Kinds
<1>3. CASE ~ (pc[t] <= Len(prog[t]))
  <2>1. pc[t] \notin DOMAIN prog[t]
    BY <1>1, <1>3
  <2>2. Cur(t) \in {Exit, Op("exit", NoThread, 0)}
    BY <1>3 DEF Cur
  <2> QED
    BY <2>1, <2>2 DEF Exit, Op, WellFormed, Kinds
<1> QED
  BY <1>2, <1>3

(* A thread's operation depends on its own counter only.                    *)
LEMMA CurFrame ==
  ASSUME NEW t, prog' = prog, pc'[t] = pc[t]
  PROVE  /\ Cur(t)' = Cur(t)
         /\ Announced(t)' = Announced(t)
         /\ \A k : In(t, k)' = In(t, k)
<1>1. Cur(t)' = Cur(t)
  BY DEF Cur
<1> QED
  BY <1>1 DEF Announced, In

Waiters == [thread : Threads, state : {"CV_PREWAITING", "CV_WAITING", "CV_SIGNALED"}]

(* What is written into a record is a record.                               *)
LEMMA NewRecords ==
  /\ NoRecord \in RecordSet /\ NoRecord.status = "NONE"
  /\ \A n \in Int : \A s \in {"UNINITIALIZED", "SEM_UNINITIALIZED", "SEM_INITIALIZED",
                             "SEM_DESTROYED", "CV_UNINITIALIZED", "CV_INITIALIZED"} :
       Record(s, n) \in RecordSet /\ Record(s, n).status = s
       /\ Record(s, n).owner = NoThread /\ Record(s, n).count = n
<1>1. <<>> \in Seq(Waiters)
  BY EmptySeq
<1> QED
  BY <1>1 DEF NoRecord, Record, RecordSet, Waiters

LEMMA MarkedQueue ==
  ASSUME NEW q \in Seq(Waiters), NEW W,
         NEW s \in {"CV_PREWAITING", "CV_WAITING", "CV_SIGNALED"}
  PROVE  /\ Mark(q, W, s) \in Seq(Waiters)
         /\ \A t : InQueue(q, t) => InQueue(Mark(q, W, s), t)
<1> DEFINE r == Mark(q, W, s)
<1>1. r = [i \in 1..Len(q) |-> IF q[i].thread \in W THEN Waiter(q[i].thread, s) ELSE q[i]]
  BY DEF Mark
<1>2. \A i \in 1..Len(q) : q[i] \in Waiters
  OBVIOUS
<1>3. \A i \in 1..Len(q) : r[i] \in Waiters /\ r[i].thread = q[i].thread
  BY <1>1, <1>2 DEF Waiter, Waiters
<1> HIDE DEF r
<1>4. r \in Seq(Waiters) /\ DOMAIN r = DOMAIN q
  BY <1>1, <1>3
<1>5. \A t : InQueue(q, t) => InQueue(r, t)
  BY <1>3, <1>4 DEF InQueue
<1> QED
  BY <1>4, <1>5 DEF r

LEMMA RemovedQueue ==
  ASSUME NEW q \in Seq(Waiters), NEW t
  PROVE  /\ RemoveThread(q, t) \in Seq(Waiters)
         /\ \A u : u # t /\ InQueue(q, u) => InQueue(RemoveThread(q, t), u)
<1>1. CASE ~ \E i \in 1..Len(q) : q[i].thread = t
  <2>1. RemoveThread(q, t) = q
    BY <1>1, Zenon DEF RemoveThread, RemoveFirstMatch
  <2> QED
    BY <2>1
<1>2. CASE \E i \in 1..Len(q) : q[i].thread = t
  <2> DEFINE I == {i \in 1..Len(q) : q[i].thread = t}
  <2>1. I # {} /\ I \subseteq 1..Len(q) /\ Len(q) \in Nat
    BY <1>2
  <2>2. RemoveThread(q, t) = RemoveAt(q, Min(I))
    BY <1>2, <2>1, Zenon DEF RemoveThread, RemoveFirstMatch, SelectInSeq
  <2>3. Min(I) \in I
    <3> HIDE DEF I
    <3> QED
      BY <2>1, FirstIndex
  <2>4. PICK k \in 1..Len(q) : k = Min(I) /\ q[k].thread = t
    BY <2>3
  <2> DEFINE r == RemoveAt(q, k)
  <2>5. /\ r \in Seq(Waiters) /\ Len(r) = Len(q) - 1
        /\ \A i \in 1..(Len(q) - 1) : r[i] = IF i < k THEN q[i] ELSE q[i + 1]
    BY RemoveAtProperties
  <2> HIDE DEF r, I
  <2>6. ASSUME NEW u, u # t, InQueue(q, u)
        PROVE  InQueue(r, u)
    <3>1. PICK i \in 1..Len(q) : q[i].thread = u
      BY <2>6 DEF InQueue
    <3>2. i # k
      BY <2>4, <2>6, <3>1
    <3>3. CASE i < k
      <4>1. i \in DOMAIN r /\ r[i] = q[i]
        BY <2>5, <3>3
      <4> QED
        BY <3>1, <4>1 DEF InQueue
    <3>4. CASE i > k
      <4>1. i - 1 \in DOMAIN r /\ r[i - 1] = q[i]
        BY <2>5, <3>4
      <4> QED
        BY <3>1, <4>1 DEF InQueue
    <3> QED
      BY <3>2, <3>3, <3>4
  <2> QED
    BY <2>2, <2>4, <2>5, <2>6 DEF r
<1> QED
  BY <1>1, <1>2

LEMMA ChangedRecords ==
  ASSUME NEW r \in RecordSet, NEW t \in Threads
  PROVE  /\ EnteredRecord(r, t) \in RecordSet /\ EnteredRecord(r, t).status = r.status
         /\ \A u : InQueue(r.queue, u) \/ u = t => InQueue(EnteredRecord(r, t).queue, u)
         /\ WokenRecord(r, t) \in RecordSet /\ WokenRecord(r, t).status = r.status
         /\ \A u : InQueue(r.queue, u) /\ u # t => InQueue(WokenRecord(r, t).queue, u)
         /\ SignalRecord(r) \in RecordSet /\ SignalRecord(r).status = r.status
         /\ \A u : InQueue(r.queue, u) => InQueue(SignalRecord(r).queue, u)
         /\ BroadcastRecord(r) \in RecordSet /\ BroadcastRecord(r).status = r.status
         /\ \A u : InQueue(r.queue, u) => InQueue(BroadcastRecord(r).queue, u)
         /\ UnlockedRecord(r) \in RecordSet /\ UnlockedRecord(r).status = "UNLOCKED"
         /\ UnlockedRecord(r).owner = NoThread
<1> DEFINE q == r.queue
<1>1. q \in Seq(Waiters) /\ r.count \in Int
  BY DEF RecordSet, Waiters
<1>2. /\ EnteredRecord(r, t) \in RecordSet /\ EnteredRecord(r, t).status = r.status
      /\ \A u : InQueue(r.queue, u) \/ u = t => InQueue(EnteredRecord(r, t).queue, u)
  <2> DEFINE e == IF InQueue(q, t) THEN q ELSE Append(q, Waiter(t, "CV_PREWAITING"))
  <2>1. EnteredRecord(r, t) = [r EXCEPT !.owner = t, !.count = r.count + 1, !.queue = e]
    BY DEF EnteredRecord, Enqueue
  <2>2. e \in Seq(Waiters) /\ \A u : InQueue(q, u) \/ u = t => InQueue(e, u)
    <3>1. CASE InQueue(q, t)
      BY <1>1, <3>1
    <3>2. CASE ~ InQueue(q, t)
      <4>1. Waiter(t, "CV_PREWAITING") \in Waiters
        BY DEF Waiter, Waiters
      <4> DEFINE a == Append(q, Waiter(t, "CV_PREWAITING"))
      <4>2. /\ a \in Seq(Waiters) /\ Len(a) = Len(q) + 1
            /\ \A i \in 1..Len(q) : a[i] = q[i]
            /\ a[Len(q) + 1] = Waiter(t, "CV_PREWAITING")
        BY <1>1, <4>1, AppendElement
      <4>3. e = a
        BY <3>2
      <4> HIDE DEF a, e, q
      <4>4. InQueue(a, t)
        <5>1. Len(q) + 1 \in DOMAIN a /\ a[Len(q) + 1].thread = t
          BY <1>1, <4>2 DEF Waiter
        <5> QED
          BY <5>1 DEF InQueue
      <4>5. \A u : InQueue(q, u) => InQueue(a, u)
        BY <1>1, <4>2 DEF InQueue
      <4> QED
        BY <4>2, <4>3, <4>4, <4>5
    <3> QED
      BY <3>1, <3>2
  <2> HIDE DEF e
  <2>3. EnteredRecord(r, t) \in RecordSet
    <3>1. r.count + 1 \in Int
      BY <1>1
    <3> QED
      BY <2>1, <2>2, <3>1, Zenon DEF RecordSet, Waiters
  <2>4. EnteredRecord(r, t).status = r.status /\ EnteredRecord(r, t).queue = e
    BY <2>1 DEF RecordSet
  <2> QED
    BY <2>2, <2>3, <2>4
<1>3. /\ WokenRecord(r, t) \in RecordSet /\ WokenRecord(r, t).status = r.status
      /\ \A u : InQueue(r.queue, u) /\ u # t => InQueue(WokenRecord(r, t).queue, u)
  <2>1. CASE HasState(r.queue, t, "CV_SIGNALED")
    <3>1. WokenRecord(r, t) = [r EXCEPT !.count = r.count - 1, !.queue = RemoveThread(q, t)]
      BY <2>1 DEF WokenRecord
    <3>2. /\ RemoveThread(q, t) \in Seq(Waiters)
          /\ \A u : u # t /\ InQueue(q, u) => InQueue(RemoveThread(q, t), u)
      BY <1>1, RemovedQueue
    <3>3. WokenRecord(r, t) \in RecordSet
      <4>1. r.count - 1 \in Int
        BY <1>1
      <4> QED
        BY <3>1, <3>2, <4>1 DEF RecordSet, Waiters
    <3>4. WokenRecord(r, t).status = r.status /\ WokenRecord(r, t).queue = RemoveThread(q, t)
      BY <3>1 DEF RecordSet
    <3> QED
      BY <3>2, <3>3, <3>4
  <2>2. CASE ~ HasState(r.queue, t, "CV_SIGNALED")
    <3>1. WokenRecord(r, t) = [r EXCEPT !.queue = Mark(q, {t}, "CV_WAITING")]
      BY <2>2 DEF WokenRecord
    <3>2. /\ Mark(q, {t}, "CV_WAITING") \in Seq(Waiters)
          /\ \A u : InQueue(q, u) => InQueue(Mark(q, {t}, "CV_WAITING"), u)
      BY <1>1, MarkedQueue
    <3> QED
      BY <1>1, <3>1, <3>2 DEF RecordSet, Waiters
  <2> QED
    BY <2>1, <2>2
<1>4. /\ SignalRecord(r) \in RecordSet /\ SignalRecord(r).status = r.status
      /\ \A u : InQueue(r.queue, u) => InQueue(SignalRecord(r).queue, u)
  <2> DEFINE W == FirstWaiting(q)
  <2>1. SignalRecord(r) = [r EXCEPT !.queue = Mark(q, W, "CV_SIGNALED")]
    BY DEF SignalRecord
  <2>2. /\ Mark(q, W, "CV_SIGNALED") \in Seq(Waiters)
        /\ \A u : InQueue(q, u) => InQueue(Mark(q, W, "CV_SIGNALED"), u)
    BY <1>1, MarkedQueue
  <2> QED
    BY <1>1, <2>1, <2>2 DEF RecordSet, Waiters
<1>5. /\ BroadcastRecord(r) \in RecordSet /\ BroadcastRecord(r).status = r.status
      /\ \A u : InQueue(r.queue, u) => InQueue(BroadcastRecord(r).queue, u)
  <2> DEFINE W == {w.thread : w \in {q[i] : i \in Inside(q, "CV_WAITING")}}
  <2>1. BroadcastRecord(r) = [r EXCEPT !.queue = Mark(q, W, "CV_SIGNALED")]
    BY DEF BroadcastRecord
  <2>2. /\ Mark(q, W, "CV_SIGNALED") \in Seq(Waiters)
        /\ \A u : InQueue(q, u) => InQueue(Mark(q, W, "CV_SIGNALED"), u)
    BY <1>1, MarkedQueue
  <2> HIDE DEF W
  <2> QED
    BY <1>1, <2>1, <2>2 DEF RecordSet, Waiters
<1>6. /\ UnlockedRecord(r) \in RecordSet /\ UnlockedRecord(r).status = "UNLOCKED"
      /\ UnlockedRecord(r).owner = NoThread
  BY DEF UnlockedRecord, RecordSet
<1> QED
  BY <1>2, <1>3, <1>4, <1>5, <1>6

LEMMA LockedRecord ==
  ASSUME NEW r \in RecordSet, NEW t \in Threads
  PROVE  LET l == [r EXCEPT !.status = "LOCKED", !.owner = t]
         IN  l \in RecordSet /\ l.status = "LOCKED" /\ l.owner = t
BY Zenon DEF RecordSet

LEMMA RecordFields ==
  ASSUME NEW r \in RecordSet
  PROVE  /\ r.status # "NONE" => r # NoRecord
         /\ [r EXCEPT !.status = "UNLOCKED"] \in RecordSet
         /\ [r EXCEPT !.status = "UNLOCKED"].status = "UNLOCKED"
         /\ [r EXCEPT !.status = "UNLOCKED"].owner = r.owner
         /\ [r EXCEPT !.status = "CV_DESTROYED"] \in RecordSet
         /\ [r EXCEPT !.status = "CV_DESTROYED"].status = "CV_DESTROYED"
         /\ [r EXCEPT !.status = "CV_DESTROYED"].queue = r.queue
         /\ \A n \in Int : [r EXCEPT !.count = n] \in RecordSet
                           /\ [r EXCEPT !.count = n].status = r.status
                           /\ [r EXCEPT !.count = n].count = n
         /\ r.count \in Int
<1>1. r.status # "NONE" => r # NoRecord
  BY NewRecords
<1> QED
  BY <1>1 DEF RecordSet

-----------------------------------------------------------------------------
(* The shapes of a thread's steps.                                         *)

Quiet == UNCHANGED <<thr, rid, mailbox, saved, posts, ended>>

(* From one place of its wrapper to the next, for itself.                   *)
InnerStep(t) ==
  \E b \in Steps :
    /\ step' = [step EXCEPT ![t] = b] /\ pc' = pc /\ Quiet
    /\ \/ /\ step[t] = "call" /\ Recording /\ b = "real" /\ Cur(t).kind \in Wrapped
          /\ Cur(t).kind # "join" => rec'[Cur(t).obj] # NoRecord
       \/ /\ step[t] = "real" /\ b = "update" /\ Cur(t).kind \in Wrapped \ {"cond_wait"}
          /\ In(t, "join") => step[Cur(t).obj] = "dead"
       \/ step[t] = "real" /\ b = "sleep" /\ In(t, "cond_wait")
       \/ step[t] = "sleep" /\ b = "timedout" /\ In(t, "cond_wait")
       \/ step[t] \in {"signalled", "timedout"} /\ b \in {"woken", "escaped", "real"}
            /\ In(t, "cond_wait")
       \/ step[t] = "call" /\ Recording /\ b = "update" /\ In(t, "thread_exit")
       \/ step[t] = "call" /\ Recording /\ b = "dead" /\ In(t, "pthread_exit")
       \/ step[t] \in {"park", "parking"} /\ b \in {"parking", "parked", "await"}

WakeStep(t) ==
  /\ step[t] = "real" /\ Cur(t).kind \in {"cond_signal", "cond_broadcast"}
  /\ \E W \in SUBSET Threads :
       /\ \A u \in W : step[u] = "sleep" /\ In(u, "cond_wait")
       /\ step' = [u \in Threads |-> IF u = t THEN "update"
                                     ELSE IF u \in W THEN "signalled" ELSE step[u]]
  /\ pc' = pc /\ Quiet

ReturnStep(t) ==
  /\ \/ step[t] \in {"update", "woken", "real"} /\ ~ In(t, "thread_exit") /\ thr' = thr
     \/ step[t] = "creating" /\ rid[Cur(t).obj] # -1 /\ thr' = thr
     \/ step[t] = "update" /\ In(t, "join") /\ thr' = [thr EXCEPT ![Cur(t).obj] = "EXITED"]
  /\ step' = [step EXCEPT ![t] = "call"] /\ pc' = [pc EXCEPT ![t] = @ + 1]
  /\ UNCHANGED <<rid, mailbox, saved, posts, ended>>

ExitStep(t) ==
  /\ step[t] = "update" /\ In(t, "thread_exit")
  /\ step' = [step EXCEPT ![t] = "dead"] /\ thr' = [thr EXCEPT ![t] = "EXITED"]
  /\ UNCHANGED <<pc, rid, mailbox, saved, posts, ended>>

AnnounceStep(t) ==
  /\ \/ step[t] \in {"call", "real", "escaped"} /\ ~ BeforeRecord
          /\ step' = [step EXCEPT ![t] = "checkin"]
     \/ step[t] = "call" /\ mode = "TARGET_BRANCH_AFTER_RESTART"
          /\ step' = [step EXCEPT ![t] = "await"]
  /\ mailbox' = [mailbox EXCEPT ![rid[t]] = Announced(t)]
  /\ UNCHANGED <<pc, thr, rid, saved, posts, ended>>

CreateStep(t) ==
  /\ step[t] = "call" /\ In(t, "create") /\ (Recording \/ InRestart)
  /\ step' = [step EXCEPT ![t] = "creating", ![Cur(t).obj] = "start"]
  /\ pc' = pc /\ Quiet

StartStep(t) ==
  /\ step[t] = "start" /\ rid' = [rid EXCEPT ![t] = NextRid]
  /\ \/ /\ Recording \/ InRestart
        /\ thr' = [thr EXCEPT ![t] = "ALIVE"] /\ step' = [step EXCEPT ![t] = "call"]
     \/ /\ ~ (Recording \/ InRestart)
        /\ thr' = thr /\ step' = [step EXCEPT ![t] = "await"]
  /\ UNCHANGED <<pc, mailbox, saved, posts, ended>>

CheckInStep(t) ==
  /\ step[t] = "checkin" /\ InRestart
  /\ saved' = saved \cup {t} /\ posts' = posts + 1
  /\ \E b \in {"await", "park"} : step' = [step EXCEPT ![t] = b]
  /\ UNCHANGED <<pc, thr, rid, mailbox, ended>>

EndStep == ended' \in {"exit", "abort"} /\ UNCHANGED <<step, pc, thr, rid, mailbox, saved, posts>>

Shape(t) ==
  \/ InnerStep(t) \/ WakeStep(t) \/ ReturnStep(t) \/ ExitStep(t) \/ AnnounceStep(t)
  \/ CreateStep(t) \/ StartStep(t) \/ CheckInStep(t) \/ EndStep

(* What a thread may write: the record of its object.                       *)
Writes(t) ==
  /\ rec' \in [Objects -> RecordSet]
  /\ \A o \in Objects :
       \/ rec'[o] = rec[o]
       \/ /\ o = Cur(t).obj /\ rec'[o].status # "NONE" /\ rec'[o] # NoRecord
          /\ Cur(t).kind \in Wrapped \ {"join"}
          /\ step[t] \in {"call", "update", "woken"}
          /\ step'[t] \in {"real", "call"}

LEMMA FindOrAddShape ==
  ASSUME TypeOK, DataInv, NEW t \in Threads, NEW new \in RecordSet, FindOrAdd(t, new),
         Cur(t).kind \in Wrapped \ {"join"}, Cur(t).obj \in Objects,
         rec[Cur(t).obj] = NoRecord => new.status # "NONE"
  PROVE  InnerStep(t) /\ Writes(t)
<1>1. /\ step[t] = "call" /\ Recording
      /\ rec' = IF rec[Cur(t).obj] = NoRecord THEN [rec EXCEPT ![Cur(t).obj] = new] ELSE rec
      /\ step' = [step EXCEPT ![t] = "real"] /\ pc' = pc
      /\ UNCHANGED <<thr, rid, mailbox, saved, posts, ended>>
  BY DEF FindOrAdd, At, Goto, restart
<1>2. rec \in [Objects -> RecordSet] /\ step \in [Threads -> Steps]
  BY DEF DataInv, TypeOK
<1>3. new.status # "NONE" => new # NoRecord
  BY RecordFields
<1>4. rec'[Cur(t).obj] # NoRecord
  BY <1>1, <1>2, <1>3
<1>5. InnerStep(t)
  <2>1. "real" \in Steps
    BY DEF Steps
  <2> QED
    BY <1>1, <1>4, <2>1 DEF InnerStep, Quiet
<1>6. Writes(t)
  <2>1. step'[t] = "real"
    BY <1>1, <1>2
  <2>2. rec' \in [Objects -> RecordSet]
    BY <1>1, <1>2
  <2>3. \A o \in Objects : rec'[o] = rec[o] \/ (o = Cur(t).obj /\ rec'[o] = new
                                              /\ rec[Cur(t).obj] = NoRecord)
    BY <1>1, <1>2
  <2> QED
    BY <1>1, <1>3, <2>1, <2>2, <2>3 DEF Writes
<1> QED
  BY <1>5, <1>6

LEMMA SameRecords ==
  ASSUME DataInv, NEW t, rec' = rec
  PROVE  Writes(t)
BY DEF Writes, DataInv

LEMMA CalledShape ==
  ASSUME TypeOK, DataInv, NEW t \in Threads, NEW o, NEW n, Called(t, o, n),
         Cur(t).kind \in Wrapped \ {"join", "cond_wait"}
  PROVE  InnerStep(t) /\ Writes(t)
<1>1. /\ step[t] = "real" /\ step' = [step EXCEPT ![t] = "update"] /\ pc' = pc
      /\ rec' = rec
      /\ UNCHANGED <<thr, rid, mailbox, saved, posts, ended>>
  BY DEF Called, At, Goto, restart
<1>2. "update" \in Steps
  BY DEF Steps
<1>3. ~ In(t, "join")
  BY DEF In
<1>4. InnerStep(t)
  BY <1>1, <1>2, <1>3 DEF InnerStep, Quiet
<1> QED
  BY <1>1, <1>4, SameRecords

LEMMA UpdateShape ==
  ASSUME TypeOK, DataInv, NEW t \in Threads, NEW new \in RecordSet, Update(t, new),
         new.status # "NONE",
         Cur(t).kind \in Wrapped \ {"join"}, Cur(t).obj \in Objects
  PROVE  ReturnStep(t) /\ Writes(t)
<1>1. /\ step[t] = "update" /\ rec' = [rec EXCEPT ![Cur(t).obj] = new]
      /\ step' = [step EXCEPT ![t] = "call"] /\ pc' = [pc EXCEPT ![t] = @ + 1]
      /\ UNCHANGED <<thr, rid, mailbox, saved, posts, ended>>
  BY DEF Update, At, Return, restart
<1>2. rec \in [Objects -> RecordSet] /\ step \in [Threads -> Steps]
  BY DEF DataInv, TypeOK
<1>3. new # NoRecord
  BY RecordFields
<1>4. ~ In(t, "thread_exit")
  BY DEF In, Wrapped
<1>5. ReturnStep(t)
  BY <1>1, <1>4 DEF ReturnStep
<1>6. Writes(t)
  <2>1. step'[t] = "call"
    BY <1>1, <1>2
  <2>2. rec' \in [Objects -> RecordSet]
    BY <1>1, <1>2
  <2>3. \A o \in Objects : rec'[o] = rec[o] \/ (o = Cur(t).obj /\ rec'[o] = new)
    BY <1>1, <1>2
  <2> QED
    BY <1>1, <1>3, <2>1, <2>2, <2>3 DEF Writes
<1> QED
  BY <1>5, <1>6

LEMMA AnnounceShape ==
  ASSUME DataInv, NEW t \in Threads, Announce(t), ~ BeforeRecord,
         step[t] \in {"call", "real", "escaped"}
  PROVE  AnnounceStep(t) /\ Writes(t)
<1>1. /\ mailbox' = [mailbox EXCEPT ![rid[t]] = Announced(t)]
      /\ step' = [step EXCEPT ![t] = "checkin"] /\ pc' = pc /\ rec' = rec
      /\ UNCHANGED <<thr, rid, saved, posts, ended>>
  BY DEF Announce, Goto, records, restart
<1>2. AnnounceStep(t)
  BY <1>1 DEF AnnounceStep
<1> QED
  BY <1>1, <1>2, SameRecords

LEMMA TimedOutShape ==
  ASSUME DataInv, NEW t \in Threads, TimedOut(t)
  PROVE  AnnounceStep(t) /\ Writes(t)
<1>1. step[t] = "real" /\ InRestart /\ Announce(t)
  BY DEF TimedOut, At
<1>2. ~ BeforeRecord
  BY <1>1 DEF InRestart, BeforeRecord
<1> QED
  BY <1>1, <1>2, AnnounceShape

(* A thread writes or reads the record of the object of its operation.      *)
LEMMA ObjectOf ==
  ASSUME DataInv, NEW t \in Threads
  PROVE  /\ Cur(t).kind \in {"mutex_init", "lock", "unlock"} => Cur(t).obj \in Mutexes
         /\ Cur(t).kind \in {"sem_init", "sem_destroy", "sem_post", "sem_wait"} =>
              Cur(t).obj \in Sems
         /\ Cur(t).kind \in {"cond_init", "cond_wait", "cond_signal", "cond_broadcast",
                             "cond_destroy"} => Cur(t).obj \in Conds
         /\ Cur(t).kind \in Wrapped \ {"join"} =>
              Cur(t).obj \in Objects /\ rec[Cur(t).obj] \in RecordSet
         /\ Cur(t).kind \in {"create", "join"} => Cur(t).obj \in Threads
<1>1. WellFormed(Cur(t)) /\ rec \in [Objects -> RecordSet]
  BY CurFacts DEF DataInv
<1> QED
  BY <1>1 DEF WellFormed, Wrapped, Objects

(* The record of an object in use exists.                                   *)
LEMMA InUse ==
  ASSUME DataInv, NEW t \in Threads, ThreadInv(t), Cur(t).kind \in Wrapped \ {"join"},
         step[t] \in {"real", "update", "sleep", "signalled", "timedout", "woken", "escaped"}
  PROVE  rec[Cur(t).obj] \in RecordSet /\ rec[Cur(t).obj].status # "NONE"
<1>1. Cur(t).obj \in Objects /\ rec[Cur(t).obj] \in RecordSet
  BY ObjectOf
<1>2. rec[Cur(t).obj] # NoRecord
  BY DEF ThreadInv
<1> QED
  BY <1>1, <1>2 DEF DataInv

LEMMA MutexShape ==
  ASSUME TypeOK, DataInv, NEW t \in Threads, ThreadInv(t),
         MutexInit(t) \/ MutexLock(t) \/ MutexUnlock(t)
  PROVE  Shape(t) /\ Writes(t)
<1> USE DEF Shape
<1>1. CASE MutexInit(t)
  <2>1. Cur(t).kind = "mutex_init" /\ Cur(t).kind \in Wrapped \ {"join", "cond_wait"}
        /\ Cur(t).obj \in Objects
    BY <1>1, ObjectOf DEF MutexInit, In, Objects, Wrapped
  <2>2. CASE FindOrAdd(t, Record("UNINITIALIZED", 0))
    BY <2>1, <2>2, NewRecords, FindOrAddShape
  <2>3. CASE Called(t, [owner EXCEPT ![Cur(t).obj] = NoThread], tokens)
    BY <2>1, <2>3, CalledShape
  <2>4. CASE Update(t, [rec[Cur(t).obj] EXCEPT !.status = "UNLOCKED"])
    <3>1. rec[Cur(t).obj] \in RecordSet
      BY <2>1, ObjectOf
    <3> QED
      BY <2>1, <2>4, <3>1, RecordFields, UpdateShape
  <2> QED
    BY <1>1, <2>2, <2>3, <2>4 DEF MutexInit
<1>2. CASE MutexLock(t)
  <2>1. Cur(t).kind = "lock" /\ Cur(t).kind \in Wrapped \ {"join", "cond_wait"}
        /\ Cur(t).obj \in Objects
    BY <1>2, ObjectOf DEF MutexLock, In, Objects, Wrapped
  <2>2. CASE FindOrAdd(t, Record("UNINITIALIZED", 0))
    BY <2>1, <2>2, NewRecords, FindOrAddShape
  <2>3. CASE Called(t, [owner EXCEPT ![Cur(t).obj] = t], tokens)
    BY <2>1, <2>3, CalledShape
  <2>4. CASE TimedOut(t)
    BY <2>4, TimedOutShape
  <2>5. CASE Update(t, [rec[Cur(t).obj] EXCEPT !.status = "LOCKED", !.owner = t])
    <3>1. rec[Cur(t).obj] \in RecordSet
      BY <2>1, ObjectOf
    <3> QED
      BY <2>1, <2>5, <3>1, LockedRecord, UpdateShape
  <2> QED
    BY <1>2, <2>2, <2>3, <2>4, <2>5 DEF MutexLock
<1>3. CASE MutexUnlock(t)
  <2>1. Cur(t).kind = "unlock" /\ Cur(t).kind \in Wrapped \ {"join", "cond_wait"}
        /\ Cur(t).obj \in Objects
    BY <1>3, ObjectOf DEF MutexUnlock, In, Objects, Wrapped
  <2>2. CASE rec[Cur(t).obj] # NoRecord /\ FindOrAdd(t, NoRecord)
    BY <2>1, <2>2, NewRecords, FindOrAddShape
  <2>3. CASE Terminate(t, "abort")
    <3>1. EndStep /\ rec' = rec
      BY <2>3 DEF Terminate, EndStep, records, restart
    <3> QED
      BY <3>1, SameRecords
  <2>4. CASE Called(t, [owner EXCEPT ![Cur(t).obj] = NoThread], tokens)
    BY <2>1, <2>4, CalledShape
  <2>5. CASE Update(t, UnlockedRecord(rec[Cur(t).obj]))
    <3>1. rec[Cur(t).obj] \in RecordSet
      BY <2>1, ObjectOf
    <3> QED
      BY <2>1, <2>5, <3>1, ChangedRecords, UpdateShape
  <2> QED
    BY <1>3, <2>2, <2>3, <2>4, <2>5 DEF MutexUnlock
<1> QED
  BY <1>1, <1>2, <1>3

LEMMA SemShape ==
  ASSUME TypeOK, DataInv, NEW t \in Threads, ThreadInv(t),
         SemInit(t) \/ SemDestroy(t) \/ SemPost(t) \/ SemWait(t)
  PROVE  Shape(t) /\ Writes(t)
<1> USE DEF Shape
<1>a. /\ Cur(t).kind \in {"sem_init", "sem_destroy", "sem_post", "sem_wait"}
      /\ Cur(t).kind \in Wrapped \ {"join", "cond_wait"}
      /\ Cur(t).obj \in Objects /\ Cur(t).obj \in Sems /\ rec[Cur(t).obj] \in RecordSet
  <2>1. Cur(t).kind \in {"sem_init", "sem_destroy", "sem_post", "sem_wait"}
    BY DEF SemInit, SemDestroy, SemPost, SemWait, In
  <2> QED
    BY <2>1, ObjectOf DEF Wrapped
<1>b. tokens[Cur(t).obj] \in Int /\ (In(t, "sem_init") => Cur(t).arg \in Int)
  <2>1. WellFormed(Cur(t))
    BY CurFacts DEF DataInv
  <2> QED
    BY <1>a, <2>1 DEF TypeOK, WellFormed, In
<1>c. step[t] = "update" => rec[Cur(t).obj].status # "NONE"
  BY <1>a, InUse
<1>1. CASE SemInit(t)
  <2>2. CASE FindOrAdd(t, Record("SEM_UNINITIALIZED", 0))
    BY <1>a, <2>2, NewRecords, FindOrAddShape
  <2>3. CASE Called(t, owner, [tokens EXCEPT ![Cur(t).obj] = Cur(t).arg])
    BY <1>a, <2>3, CalledShape
  <2>4. CASE Update(t, Record("SEM_INITIALIZED", Cur(t).arg))
    <3>1. Cur(t).arg \in Int
      BY <1>1, <1>b DEF SemInit
    <3> QED
      BY <1>a, <3>1, <2>4, NewRecords, UpdateShape
  <2> QED
    BY <1>1, <2>2, <2>3, <2>4 DEF SemInit
<1>2. CASE SemDestroy(t)
  <2>2. CASE FindOrAdd(t, Record("SEM_UNINITIALIZED", 0))
    BY <1>a, <2>2, NewRecords, FindOrAddShape
  <2>3. CASE Called(t, owner, tokens)
    BY <1>a, <2>3, CalledShape
  <2>4. CASE Update(t, Record("SEM_DESTROYED", 0))
    BY <1>a, <2>4, NewRecords, UpdateShape
  <2> QED
    BY <1>2, <2>2, <2>3, <2>4 DEF SemDestroy
<1>3. CASE SemPost(t)
  <2>2. CASE FindOrAdd(t, Record("SEM_INITIALIZED", tokens[Cur(t).obj]))
    BY <1>a, <1>b, <2>2, NewRecords, FindOrAddShape
  <2>3. CASE Called(t, owner, [tokens EXCEPT ![Cur(t).obj] = @ + 1])
    BY <1>a, <2>3, CalledShape
  <2>4. CASE Update(t, [rec[Cur(t).obj] EXCEPT !.count = @ + 1])
    <3>0. rec[Cur(t).obj].count \in Int
      BY <1>a DEF RecordSet
    <3>1. rec[Cur(t).obj].count + 1 \in Int
      BY <3>0
    <3>2. Update(t, [rec[Cur(t).obj] EXCEPT !.count = rec[Cur(t).obj].count + 1])
      BY <2>4
    <3>3. step[t] = "update"
      BY <2>4 DEF Update, At
    <3> QED
      BY <1>a, <1>c, <3>1, <3>2, <3>3, RecordFields, UpdateShape, ZenonT(20)
  <2> QED
    BY <1>3, <2>2, <2>3, <2>4 DEF SemPost
<1>4. CASE SemWait(t)
  <2>2. CASE FindOrAdd(t, Record("SEM_INITIALIZED", tokens[Cur(t).obj]))
    BY <1>a, <1>b, <2>2, NewRecords, FindOrAddShape
  <2>3. CASE Called(t, owner, [tokens EXCEPT ![Cur(t).obj] = @ - 1])
    BY <1>a, <2>3, CalledShape
  <2>4. CASE Update(t, [rec[Cur(t).obj] EXCEPT !.count = @ - 1])
    <3>0. rec[Cur(t).obj].count \in Int
      BY <1>a DEF RecordSet
    <3>1. rec[Cur(t).obj].count - 1 \in Int
      BY <3>0
    <3>2. Update(t, [rec[Cur(t).obj] EXCEPT !.count = rec[Cur(t).obj].count - 1])
      BY <2>4
    <3>3. step[t] = "update"
      BY <2>4 DEF Update, At
    <3> QED
      BY <1>a, <1>c, <3>1, <3>2, <3>3, RecordFields, UpdateShape, ZenonT(20)
  <2>5. CASE SemTimedOut(t)
    <3>1. /\ step[t] = "real" /\ rec' = rec
          /\ step' = [step EXCEPT ![t] = "call"] /\ pc' = [pc EXCEPT ![t] = @ + 1]
          /\ UNCHANGED <<thr, rid, mailbox, saved, posts, ended>>
      BY <2>5 DEF SemTimedOut, At, Return, records, restart
    <3>2. ~ In(t, "thread_exit")
      BY <1>a DEF In
    <3>3. ReturnStep(t)
      BY <3>1, <3>2 DEF ReturnStep
    <3> QED
      BY <3>1, <3>3, SameRecords
  <2> QED
    BY <1>4, <2>2, <2>3, <2>4, <2>5 DEF SemWait
<1> QED
  BY <1>1, <1>2, <1>3, <1>4

LEMMA CondShape ==
  ASSUME TypeOK, DataInv, ModeInv, NEW t \in Threads, ThreadInv(t),
         CondInit(t) \/ CondSignal(t) \/ CondBroadcast(t) \/ CondDestroy(t)
  PROVE  Shape(t) /\ Writes(t)
<1> USE DEF Shape
<1>a. /\ Cur(t).kind \in {"cond_init", "cond_signal", "cond_broadcast", "cond_destroy"}
      /\ Cur(t).kind \in Wrapped \ {"join", "cond_wait"}
      /\ Cur(t).obj \in Objects /\ rec[Cur(t).obj] \in RecordSet
  <2>1. Cur(t).kind \in {"cond_init", "cond_signal", "cond_broadcast", "cond_destroy"}
    BY DEF CondInit, CondSignal, CondBroadcast, CondDestroy, In
  <2> QED
    BY <2>1, ObjectOf DEF Wrapped
<1>b. step[t] = "update" => rec[Cur(t).obj].status # "NONE"
  BY <1>a, InUse
<1>c. ASSUME NEW W \in SUBSET Sleeping(Cur(t).obj), Wake(t, W),
             Cur(t).kind \in {"cond_signal", "cond_broadcast"}
      PROVE  WakeStep(t) /\ Writes(t)
  <2>1. /\ step[t] = "real" /\ pc' = pc /\ rec' = rec
        /\ step' = [u \in Threads |-> IF u = t THEN "update"
                                      ELSE IF u \in W THEN "signalled" ELSE step[u]]
        /\ UNCHANGED <<thr, rid, mailbox, saved, posts, ended>>
    BY <1>c DEF Wake, At, records, restart
  <2>2. W \in SUBSET Threads /\ \A u \in W : step[u] = "sleep" /\ In(u, "cond_wait")
    BY DEF Sleeping
  <2>3. WakeStep(t)
    BY <1>c, <2>1, <2>2 DEF WakeStep, Quiet
  <2> QED
    BY <2>1, <2>3, SameRecords
<1>1. CASE CondInit(t)
  <2>2. CASE FindOrAdd(t, Record("CV_UNINITIALIZED", 0))
    BY <1>a, <2>2, NewRecords, FindOrAddShape
  <2>3. CASE Called(t, owner, tokens)
    BY <1>a, <2>3, CalledShape
  <2>4. CASE Update(t, Record("CV_INITIALIZED", 0))
    BY <1>a, <2>4, NewRecords, UpdateShape
  <2> QED
    BY <1>1, <2>2, <2>3, <2>4 DEF CondInit
<1>2. CASE CondSignal(t)
  <2>1. Cur(t).kind = "cond_signal"
    BY <1>2 DEF CondSignal, In
  <2>2. CASE FindOrAdd(t, Record("CV_INITIALIZED", 0))
    BY <1>a, <2>2, NewRecords, FindOrAddShape
  <2>3. CASE Wake(t, {})
    BY <1>c, <2>1, <2>3
  <2>4. CASE \E u \in Sleeping(Cur(t).obj) : Wake(t, {u})
    BY <1>c, <2>1, <2>4
  <2>5. CASE Update(t, SignalRecord(rec[Cur(t).obj]))
    <3>1. step[t] = "update"
      BY <2>5 DEF Update, At
    <3> QED
      BY <1>a, <1>b, <2>5, <3>1, ChangedRecords, UpdateShape
  <2> QED
    BY <1>2, <2>2, <2>3, <2>4, <2>5 DEF CondSignal
<1>3. CASE CondBroadcast(t)
  <2>1. Cur(t).kind = "cond_broadcast"
    BY <1>3 DEF CondBroadcast, In
  <2>2. CASE FindOrAdd(t, Record("CV_INITIALIZED", 0))
    BY <1>a, <2>2, NewRecords, FindOrAddShape
  <2>3. CASE Wake(t, Sleeping(Cur(t).obj))
    BY <1>c, <2>1, <2>3
  <2>5. CASE Update(t, BroadcastRecord(rec[Cur(t).obj]))
    <3>1. step[t] = "update"
      BY <2>5 DEF Update, At
    <3> QED
      BY <1>a, <1>b, <2>5, <3>1, ChangedRecords, UpdateShape
  <2> QED
    BY <1>3, <2>2, <2>3, <2>5 DEF CondBroadcast
<1>4. CASE CondDestroy(t)
  <2>2. CASE rec[Cur(t).obj] # NoRecord /\ FindOrAdd(t, NoRecord)
    BY <1>a, <2>2, NewRecords, FindOrAddShape
  <2>3. CASE Terminate(t, "abort")
    <3>1. EndStep /\ rec' = rec
      BY <2>3 DEF Terminate, EndStep, records, restart
    <3> QED
      BY <3>1, SameRecords
  <2>4. CASE Called(t, owner, tokens)
    BY <1>a, <2>4, CalledShape
  <2>5. CASE Update(t, [rec[Cur(t).obj] EXCEPT !.status = "CV_DESTROYED"])
    BY <1>a, <2>5, RecordFields, UpdateShape
  <2> QED
    BY <1>4, <2>2, <2>3, <2>4, <2>5 DEF CondDestroy
<1> QED
  BY <1>1, <1>2, <1>3, <1>4

LEMMA CondWaitShape ==
  ASSUME TypeOK, DataInv, ModeInv, NEW t \in Threads, ThreadInv(t), CondWait(t)
  PROVE  Shape(t) /\ Writes(t)
<1> USE DEF Shape
<1>a. /\ In(t, "cond_wait") /\ Cur(t).kind \in Wrapped \ {"join"}
      /\ Cur(t).obj \in Objects /\ rec[Cur(t).obj] \in RecordSet
      /\ ~ In(t, "join") /\ ~ In(t, "thread_exit")
  <2>1. Cur(t).kind = "cond_wait"
    BY DEF CondWait, In
  <2>2. Cur(t).kind \in Wrapped \ {"join"}
    BY <2>1 DEF Wrapped
  <2> QED
    BY <2>1, <2>2, ObjectOf DEF In
<1>b. rec \in [Objects -> RecordSet] /\ step \in [Threads -> Steps]
  BY DEF DataInv, TypeOK
<1>s. {"real", "sleep", "timedout", "woken", "escaped"} \subseteq Steps
  BY DEF Steps
<1>1. CASE CondWaitEnter(t)
  <2> DEFINE c == Cur(t).obj
             r == IF rec[c] = NoRecord THEN Record("CV_INITIALIZED", 0) ELSE rec[c]
             e == EnteredRecord(r, t)
  <2>1. /\ step[t] = "call" /\ Recording /\ rec' = [rec EXCEPT ![c] = e]
        /\ step' = [step EXCEPT ![t] = "real"] /\ pc' = pc
        /\ UNCHANGED <<thr, rid, mailbox, saved, posts, ended>>
    BY <1>1 DEF CondWaitEnter, At, Goto, restart
  <2>2. r \in RecordSet /\ r.status # "NONE"
    BY <1>a, NewRecords DEF DataInv
  <2>3. e \in RecordSet /\ e.status # "NONE" /\ e # NoRecord
    <3>1. e \in RecordSet /\ e.status = r.status
      <4> HIDE DEF r
      <4> QED
        BY <2>2, ChangedRecords
    <3> QED
      BY <2>2, <3>1, RecordFields, ZenonT(20)
  <2> HIDE DEF e, r
  <2>4. rec'[c] = e /\ step'[t] = "real" /\ rec' \in [Objects -> RecordSet]
        /\ \A o \in Objects : o # c => rec'[o] = rec[o]
    BY <1>a, <1>b, <2>1, <2>3
  <2>5. InnerStep(t)
    BY <1>a, <1>s, <2>1, <2>3, <2>4 DEF InnerStep, Quiet
  <2>6. Writes(t)
    BY <1>a, <2>1, <2>3, <2>4 DEF Writes
  <2> QED
    BY <2>5, <2>6
<1>2. CASE CondSleep(t)
  <2>1. /\ step[t] = "real" /\ rec' = rec
        /\ step' = [step EXCEPT ![t] = "sleep"] /\ pc' = pc
        /\ UNCHANGED <<thr, rid, mailbox, saved, posts, ended>>
    BY <1>2 DEF CondSleep, At, Goto, restart, records
  <2>2. InnerStep(t)
    BY <1>a, <1>s, <2>1 DEF InnerStep, Quiet
  <2> QED
    BY <2>1, <2>2, SameRecords
<1>3. CASE CondTimeout(t)
  <2>1. /\ step[t] = "sleep" /\ rec' = rec
        /\ step' = [step EXCEPT ![t] = "timedout"] /\ pc' = pc
        /\ UNCHANGED <<thr, rid, mailbox, saved, posts, ended>>
    BY <1>3 DEF CondTimeout, At, Goto, restart, records
  <2>2. InnerStep(t)
    BY <1>a, <1>s, <2>1 DEF InnerStep, Quiet
  <2> QED
    BY <2>1, <2>2, SameRecords
<1>4. CASE CondRelock(t)
  <2> DEFINE b == IF step[t] = "signalled" THEN "woken"
                  ELSE IF InRestart THEN "escaped" ELSE "real"
  <2>1. /\ step[t] \in {"signalled", "timedout"} /\ rec' = rec
        /\ step' = [step EXCEPT ![t] = b] /\ pc' = pc
        /\ UNCHANGED <<thr, rid, mailbox, saved, posts, ended>>
    BY <1>4 DEF CondRelock, Goto, restart
  <2>2. b \in {"woken", "escaped", "real"}
    OBVIOUS
  <2> HIDE DEF b
  <2>3. InnerStep(t)
    BY <1>a, <1>s, <2>1, <2>2 DEF InnerStep, Quiet
  <2> QED
    BY <2>1, <2>3, SameRecords
<1>5. CASE At(t, "escaped") /\ Announce(t)
  <2>1. step[t] = "escaped"
    BY <1>5 DEF At
  <2>2. ~ BeforeRecord
    BY <2>1 DEF ModeInv
  <2> QED
    BY <1>5, <2>1, <2>2, AnnounceShape
<1>6. CASE CondWoken(t)
  <2> DEFINE c == Cur(t).obj
             w == WokenRecord(rec[c], t)
  <2>1. /\ step[t] = "woken" /\ rec' = [rec EXCEPT ![c] = w]
        /\ step' = [step EXCEPT ![t] = "call"] /\ pc' = [pc EXCEPT ![t] = @ + 1]
        /\ UNCHANGED <<thr, rid, mailbox, saved, posts, ended>>
    BY <1>6 DEF CondWoken, At, Return, restart
  <2>2. rec[c].status # "NONE"
    BY <1>a, <2>1, InUse
  <2>3. w \in RecordSet /\ w.status # "NONE" /\ w # NoRecord
    <3>1. w \in RecordSet /\ w.status = rec[c].status
      BY <1>a, ChangedRecords
    <3> QED
      BY <2>2, <3>1, RecordFields
  <2> HIDE DEF w
  <2>4. rec'[c] = w /\ step'[t] = "call" /\ rec' \in [Objects -> RecordSet]
        /\ \A o \in Objects : o # c => rec'[o] = rec[o]
    BY <1>a, <1>b, <2>1, <2>3
  <2>5. ReturnStep(t)
    BY <1>a, <2>1 DEF ReturnStep
  <2>6. Writes(t)
    BY <1>a, <2>1, <2>3, <2>4 DEF Writes
  <2> QED
    BY <2>5, <2>6
<1> QED
  BY <1>1, <1>2, <1>3, <1>4, <1>5, <1>6 DEF CondWait

LEMMA ThreadsShape ==
  ASSUME TypeOK, DataInv, ModeInv, NEW t \in Threads, ThreadInv(t),
         \/ ThreadCreate(t) \/ ThreadStart(t) \/ ThreadExit(t) \/ PthreadExit(t)
         \/ ThreadJoin(t) \/ ProcessEnd(t)
  PROVE  Shape(t) /\ Writes(t)
<1> USE DEF Shape
<1>s. {"real", "update", "dead"} \subseteq Steps
  BY DEF Steps
<1>1. CASE ThreadCreate(t)
  <2>a. In(t, "create") /\ rec' = rec /\ UNCHANGED <<thr, rid, mailbox, saved, posts, ended>>
    BY <1>1 DEF ThreadCreate, records, restart
  <2>1. CASE At(t, "call") /\ (Recording \/ InRestart)
             /\ step' = [step EXCEPT ![t] = "creating", ![Cur(t).obj] = "start"] /\ pc' = pc
    <3>1. CreateStep(t)
      BY <2>a, <2>1 DEF CreateStep, Quiet, At
    <3> QED
      BY <2>a, <3>1, SameRecords
  <2>2. CASE At(t, "creating") /\ rid[Cur(t).obj] # -1 /\ Return(t)
    <3>1. ReturnStep(t)
      BY <2>a, <2>2 DEF ReturnStep, At, Return
    <3> QED
      BY <2>a, <3>1, SameRecords
  <2> QED
    BY <1>1, <2>1, <2>2 DEF ThreadCreate
<1>2. CASE ThreadStart(t)
  <2>1. StartStep(t) /\ rec' = rec
    BY <1>2 DEF ThreadStart, StartStep, At, Goto, restart
  <2> QED
    BY <2>1, SameRecords
<1>3. CASE ThreadExit(t)
  <2>1. In(t, "thread_exit") /\ rec' = rec /\ UNCHANGED <<rid, mailbox, saved, posts, ended>>
    BY <1>3 DEF ThreadExit, restart
  <2>2. CASE At(t, "call") /\ Recording /\ Goto(t, "update") /\ thr' = thr
    <3>1. InnerStep(t)
      BY <1>s, <2>1, <2>2 DEF InnerStep, Quiet, At, Goto
    <3> QED
      BY <2>1, <3>1, SameRecords
  <2>3. CASE At(t, "update") /\ thr' = [thr EXCEPT ![t] = "EXITED"] /\ Goto(t, "dead")
    <3>1. ExitStep(t)
      BY <2>1, <2>3 DEF ExitStep, At, Goto
    <3> QED
      BY <2>1, <3>1, SameRecords
  <2> QED
    BY <1>3, <2>2, <2>3 DEF ThreadExit
<1>4. CASE PthreadExit(t)
  <2>1. /\ In(t, "pthread_exit") /\ step[t] = "call" /\ Recording
        /\ step' = [step EXCEPT ![t] = "dead"] /\ pc' = pc /\ rec' = rec
        /\ UNCHANGED <<thr, rid, mailbox, saved, posts, ended>>
    BY <1>4 DEF PthreadExit, At, Goto, records, restart
  <2>2. InnerStep(t)
    BY <1>s, <2>1 DEF InnerStep, Quiet
  <2> QED
    BY <2>1, <2>2, SameRecords
<1>5. CASE ThreadJoin(t)
  <2>a. In(t, "join") /\ Cur(t).kind = "join" /\ Cur(t).kind \in Wrapped \ {"cond_wait"}
        /\ ~ In(t, "thread_exit")
    BY <1>5 DEF ThreadJoin, In, Wrapped
  <2>b. CASE TimedOut(t)
    BY <2>b, TimedOutShape
  <2>c. ASSUME rec' = rec, UNCHANGED <<rid, mailbox, saved, posts, ended>>,
               \/ At(t, "call") /\ Recording /\ Goto(t, "real") /\ UNCHANGED thr
               \/ At(t, "real") /\ step[Cur(t).obj] = "dead" /\ Goto(t, "update")
                                 /\ UNCHANGED thr
               \/ At(t, "update") /\ thr' = [thr EXCEPT ![Cur(t).obj] = "EXITED"]
                                   /\ Return(t)
        PROVE  Shape(t) /\ Writes(t)
    <3>1. CASE At(t, "call") /\ Recording /\ Goto(t, "real") /\ UNCHANGED thr
      <4>1. InnerStep(t)
        BY <1>s, <2>a, <2>c, <3>1 DEF InnerStep, Quiet, At, Goto
      <4> QED
        BY <2>c, <4>1, SameRecords
    <3>2. CASE At(t, "real") /\ step[Cur(t).obj] = "dead" /\ Goto(t, "update")
                             /\ UNCHANGED thr
      <4>1. InnerStep(t)
        BY <1>s, <2>a, <2>c, <3>2 DEF InnerStep, Quiet, At, Goto
      <4> QED
        BY <2>c, <4>1, SameRecords
    <3>3. CASE At(t, "update") /\ thr' = [thr EXCEPT ![Cur(t).obj] = "EXITED"] /\ Return(t)
      <4>1. ReturnStep(t)
        BY <2>a, <2>c, <3>3 DEF ReturnStep, At, Return
      <4> QED
        BY <2>c, <4>1, SameRecords
    <3> QED
      BY <2>c, <3>1, <3>2, <3>3
  <2> QED
    BY <1>5, <2>b, <2>c DEF ThreadJoin, restart
<1>6. CASE ProcessEnd(t)
  <2>1. EndStep /\ rec' = rec
    BY <1>6 DEF ProcessEnd, Terminate, EndStep, records, restart
  <2> QED
    BY <2>1, SameRecords
<1> QED
  BY <1>1, <1>2, <1>3, <1>4, <1>5, <1>6

LEMMA RestartShape ==
  ASSUME TypeOK, DataInv, ModeInv, NEW t \in Threads, ThreadInv(t),
         EnterAfterRestart(t) \/ CheckIn(t) \/ Park(t)
  PROVE  Shape(t) /\ Writes(t)
<1> USE DEF Shape
<1>1. CASE EnterAfterRestart(t)
  <2>1. step[t] = "call"
    BY <1>1 DEF EnterAfterRestart, At
  <2>2. CASE InRestart /\ Announce(t)
    <3>1. ~ BeforeRecord
      BY <2>2 DEF InRestart, BeforeRecord
    <3> QED
      BY <2>1, <2>2, <3>1, AnnounceShape
  <2>3. CASE /\ mode = "TARGET_BRANCH_AFTER_RESTART"
             /\ mailbox' = [mailbox EXCEPT ![rid[t]] = Announced(t)]
             /\ Goto(t, "await")
             /\ UNCHANGED <<prog, system, real, records, restart, ended>>
    <3>1. AnnounceStep(t) /\ rec' = rec
      BY <2>1, <2>3 DEF AnnounceStep, Goto, records, restart
    <3> QED
      BY <3>1, SameRecords
  <2> QED
    BY <1>1, <2>2, <2>3 DEF EnterAfterRestart
<1>2. CASE CheckIn(t)
  <2>1. CASE InRestart
    <3>1. /\ step[t] = "checkin" /\ saved' = saved \cup {t} /\ posts' = posts + 1
          /\ \E b \in {"await", "park"} : step' = [step EXCEPT ![t] = b]
          /\ rec' = rec /\ UNCHANGED <<pc, thr, rid, mailbox, ended>>
      BY <1>2, <2>1 DEF CheckIn, At, Goto, records
    <3>2. CheckInStep(t)
      BY <2>1, <3>1 DEF CheckInStep
    <3> QED
      BY <3>1, <3>2, SameRecords
  <2>2. CASE ~ InRestart
    <3>1. EndStep /\ rec' = rec
      BY <1>2, <2>2 DEF CheckIn, Terminate, EndStep, records, restart
    <3> QED
      BY <3>1, SameRecords
  <2> QED
    BY <2>1, <2>2
<1>3. CASE Park(t)
  <2>1. /\ step[t] \in {"park", "parking"} /\ pc' = pc /\ rec' = rec
        /\ \E b \in {"parking", "parked", "await"} : step' = [step EXCEPT ![t] = b]
        /\ UNCHANGED <<thr, rid, mailbox, saved, posts, ended>>
    BY <1>3 DEF Park, At, Goto, records
  <2>2. {"parking", "parked", "await"} \subseteq Steps
    BY DEF Steps
  <2>3. InnerStep(t)
    BY <2>1, <2>2 DEF InnerStep, Quiet
  <2> QED
    BY <2>1, <2>3, SameRecords
<1> QED
  BY <1>1, <1>2, <1>3

(* What all threads' steps leave alone.                                     *)
ThreadFrame ==
  /\ ~ suspended /\ ended = "no"
  /\ UNCHANGED <<prog, mode, suspended, candidates, tmpl, counted, left, model>>

LEMMA FrameOf ==
  ASSUME NEW t \in Threads, Thread(t)
  PROVE  ThreadFrame
<1> USE DEF ThreadFrame, At, system, restart, real, records
<1>1. CASE MutexInit(t) \/ MutexLock(t) \/ MutexUnlock(t)
  BY <1>1 DEF MutexInit, MutexLock, MutexUnlock, FindOrAdd, Called, Update, TimedOut,
     Announce, Terminate
<1>2. CASE SemInit(t) \/ SemDestroy(t) \/ SemPost(t) \/ SemWait(t)
  BY <1>2 DEF SemInit, SemDestroy, SemPost, SemWait, FindOrAdd, Called, Update, SemTimedOut
<1>3. CASE CondInit(t) \/ CondSignal(t) \/ CondBroadcast(t) \/ CondDestroy(t)
  BY <1>3 DEF CondInit, CondSignal, CondBroadcast, CondDestroy, FindOrAdd, Called, Update,
     Wake, Terminate
<1>4. CASE CondWait(t)
  BY <1>4 DEF CondWait, CondWaitEnter, CondSleep, CondTimeout, CondRelock, CondWoken, Announce
<1>5. CASE \/ ThreadCreate(t) \/ ThreadStart(t) \/ ThreadExit(t) \/ PthreadExit(t)
           \/ ThreadJoin(t) \/ ProcessEnd(t)
  BY <1>5 DEF ThreadCreate, ThreadStart, ThreadExit, PthreadExit, ThreadJoin, ProcessEnd,
     TimedOut, Announce, Terminate
<1>6. CASE EnterAfterRestart(t) \/ CheckIn(t) \/ Park(t)
  BY <1>6 DEF EnterAfterRestart, CheckIn, Park, Announce, Terminate
<1> QED
  BY <1>1, <1>2, <1>3, <1>4, <1>5, <1>6 DEF Thread

LEMMA ThreadShape ==
  ASSUME TypeOK, DataInv, ModeInv, NEW t \in Threads, ThreadInv(t), Thread(t)
  PROVE  Shape(t) /\ Writes(t) /\ ThreadFrame
BY FrameOf, MutexShape, SemShape, CondShape, CondWaitShape, ThreadsShape, RestartShape
   DEF Thread

-----------------------------------------------------------------------------
(* The control part of the invariant under a thread's step.                *)

(* The thread that is created has not existed before.                       *)
LEMMA CreatedIsNew ==
  ASSUME DataInv, CreateInv, NEW t \in Threads, CreateStep(t)
  PROVE  /\ Cur(t).obj \in Threads \ {t, Main} /\ step[Cur(t).obj] = "absent"
         /\ pc[t] \in DOMAIN prog[t] /\ prog[t][pc[t]] = Cur(t)
<1>1. Cur(t).kind = "create" /\ step[t] = "call"
  BY DEF CreateStep, In
<1>2. pc[t] \in DOMAIN prog[t] /\ Cur(t) = prog[t][pc[t]]
  BY <1>1, CurFacts DEF DataInv
<1>3. step[Cur(t).obj] = "absent"
  BY <1>1, <1>2 DEF CreateInv
<1>4. Cur(t).obj \in Threads
  BY <1>1, ObjectOf
<1>5. Cur(t).obj # Main
  <2>1. CreatesOnce(prog)
    BY RecordAssumption DEF DataInv
  <2> QED
    BY <1>1, <1>2, <2>1 DEF CreatesOnce
<1> QED
  BY <1>1, <1>2, <1>3, <1>4, <1>5

(* What a step of one thread is to another.                                 *)
LEMMA OtherThread ==
  ASSUME TypeOK, DataInv, CreateInv, NEW t \in Threads, Shape(t), NEW u \in Threads, u # t
  PROVE  /\ pc'[u] = pc[u] /\ rid'[u] = rid[u]
         /\ \/ step'[u] = step[u]
            \/ step[u] = "sleep" /\ step'[u] = "signalled" /\ In(u, "cond_wait")
            \/ /\ step[u] = "absent" /\ step'[u] = "start" /\ u # Main
               /\ CreateStep(t) /\ u = Cur(t).obj
         /\ \/ thr'[u] = thr[u]
            \/ thr'[u] = "EXITED" /\ step[t] = "update" /\ In(t, "join") /\ u = Cur(t).obj
         /\ u \in saved' <=> u \in saved
<1>0. step \in [Threads -> Steps] /\ pc \in [Threads -> Nat \ {0}]
      /\ rid \in [Threads -> Ids \cup {-1}]
      /\ thr \in [Threads -> {"NONE", "ALIVE", "EXITED"}]
  BY DEF TypeOK, DataInv
<1>1. CASE InnerStep(t)
  BY <1>0, <1>1 DEF InnerStep, Quiet
<1>2. CASE WakeStep(t)
  BY <1>0, <1>2 DEF WakeStep, Quiet
<1>3. CASE ReturnStep(t)
  BY <1>0, <1>3 DEF ReturnStep
<1>4. CASE ExitStep(t)
  BY <1>0, <1>4 DEF ExitStep
<1>5. CASE AnnounceStep(t)
  BY <1>0, <1>5 DEF AnnounceStep
<1>6. CASE CreateStep(t)
  <2>1. Cur(t).obj \in Threads \ {t, Main} /\ step[Cur(t).obj] = "absent"
    BY <1>6, CreatedIsNew
  <2>2. /\ step' = [step EXCEPT ![t] = "creating", ![Cur(t).obj] = "start"]
        /\ pc' = pc /\ UNCHANGED <<thr, rid, mailbox, saved, posts, ended>>
    BY <1>6 DEF CreateStep, Quiet
  <2> QED
    BY <1>0, <1>6, <2>1, <2>2
<1>7. CASE StartStep(t)
  BY <1>0, <1>7 DEF StartStep
<1>8. CASE CheckInStep(t)
  BY <1>0, <1>8 DEF CheckInStep
<1>9. CASE EndStep
  BY <1>0, <1>9 DEF EndStep
<1> QED
  BY <1>1, <1>2, <1>3, <1>4, <1>5, <1>6, <1>7, <1>8, <1>9 DEF Shape

(* What a step may turn a thread's place into.                              *)
LEMMA OwnStep ==
  ASSUME TypeOK, DataInv, CreateInv, NEW t \in Threads, Shape(t)
  PROVE  /\ step[t] \notin {"absent", "dead", "gone", "await", "parked"} \/ EndStep
         /\ step'[t] \in Steps \ {"absent", "start", "gone"} \/ EndStep
         /\ pc'[t] = pc[t] \/ (pc'[t] = pc[t] + 1 /\ ReturnStep(t))
<1>0. step \in [Threads -> Steps] /\ pc \in [Threads -> Nat \ {0}]
  BY DEF TypeOK, DataInv
<1> USE DEF Steps
<1>1. CASE InnerStep(t)
  BY <1>0, <1>1 DEF InnerStep, Quiet
<1>2. CASE WakeStep(t)
  BY <1>0, <1>2 DEF WakeStep, Quiet
<1>3. CASE ReturnStep(t)
  BY <1>0, <1>3 DEF ReturnStep
<1>4. CASE ExitStep(t)
  BY <1>0, <1>4 DEF ExitStep
<1>5. CASE AnnounceStep(t)
  BY <1>0, <1>5 DEF AnnounceStep
<1>6. CASE CreateStep(t)
  <2>1. Cur(t).obj \in Threads \ {t, Main}
    BY <1>6, CreatedIsNew
  <2> QED
    BY <1>0, <1>6, <2>1 DEF CreateStep, Quiet
<1>7. CASE StartStep(t)
  BY <1>0, <1>7 DEF StartStep
<1>8. CASE CheckInStep(t)
  BY <1>0, <1>8 DEF CheckInStep
<1>9. CASE EndStep
  BY <1>0, <1>9 DEF EndStep
<1> QED
  BY <1>1, <1>2, <1>3, <1>4, <1>5, <1>6, <1>7, <1>8, <1>9 DEF Shape

(* Registering a thread.                                                    *)
LEMMA Registration ==
  ASSUME TypeOK, NEW t \in Threads, rid[t] = -1, rid' = [rid EXCEPT ![t] = NextRid]
  PROVE  /\ Registered' = Registered \cup {t} /\ IsFiniteSet(Registered)
         /\ NextRid = Cardinality(Registered) /\ NextRid \in Ids
         /\ Cardinality(Registered') = Cardinality(Registered) + 1
<1>0. rid \in [Threads -> Ids \cup {-1}] /\ IsFiniteSet(Threads)
  BY RecordAssumption DEF TypeOK
<1>1. Registered \subseteq Threads \ {t}
  BY <1>0 DEF Registered
<1>2. /\ IsFiniteSet(Registered) /\ IsFiniteSet(Threads \ {t})
      /\ Cardinality(Registered) <= Cardinality(Threads \ {t})
  BY <1>0, <1>1, FS_Subset, FS_RemoveElement
<1>3. /\ Cardinality(Threads \ {t}) = Cardinality(Threads) - 1
      /\ Cardinality(Threads) \in Nat /\ Cardinality(Registered) \in Nat
  BY <1>0, <1>2, FS_RemoveElement, FS_CardinalityType
<1>4. NextRid = Cardinality(Registered)
  BY DEF NextRid, Registered
<1>5. NextRid \in Ids
  BY <1>2, <1>3, <1>4, FS_CardinalityType DEF Ids
<1>6. NextRid # -1
  BY <1>3, <1>4
<1>7. Registered' = Registered \cup {t}
  BY <1>0, <1>6 DEF Registered
<1>8. Cardinality(Registered \cup {t}) = Cardinality(Registered) + 1
  BY <1>1, <1>2, FS_AddElement
<1> QED
  BY <1>2, <1>4, <1>5, <1>7, <1>8

(* The real objects are changed by their own operations only.               *)
LEMMA RealFrame ==
  ASSUME NEW t \in Threads, Thread(t)
  PROVE  /\ Cur(t).kind \notin {"mutex_init", "lock", "unlock", "cond_wait"} =>
              owner' = owner /\ raced' = raced
         /\ Cur(t).kind \notin {"sem_init", "sem_post", "sem_wait"} => tokens' = tokens
<1> USE DEF real, records, In
<1>1. CASE MutexInit(t) \/ MutexLock(t) \/ MutexUnlock(t)
  BY <1>1 DEF MutexInit, MutexLock, MutexUnlock, FindOrAdd, Called, Update, TimedOut,
     Announce, Terminate
<1>2. CASE SemInit(t) \/ SemDestroy(t) \/ SemPost(t) \/ SemWait(t)
  BY <1>2 DEF SemInit, SemDestroy, SemPost, SemWait, FindOrAdd, Called, Update, SemTimedOut
<1>3. CASE CondInit(t) \/ CondSignal(t) \/ CondBroadcast(t) \/ CondDestroy(t)
  BY <1>3 DEF CondInit, CondSignal, CondBroadcast, CondDestroy, FindOrAdd, Called, Update,
     Wake, Terminate
<1>4. CASE CondWait(t)
  BY <1>4 DEF CondWait, CondWaitEnter, CondSleep, CondTimeout, CondRelock, CondWoken, Announce
<1>5. CASE \/ ThreadCreate(t) \/ ThreadStart(t) \/ ThreadExit(t) \/ PthreadExit(t)
           \/ ThreadJoin(t) \/ ProcessEnd(t)
  BY <1>5 DEF ThreadCreate, ThreadStart, ThreadExit, PthreadExit, ThreadJoin, ProcessEnd,
     TimedOut, Announce, Terminate
<1>6. CASE EnterAfterRestart(t) \/ CheckIn(t) \/ Park(t)
  BY <1>6 DEF EnterAfterRestart, CheckIn, Park, Announce, Terminate
<1> QED
  BY <1>1, <1>2, <1>3, <1>4, <1>5, <1>6 DEF Thread

(* Only a thread between its call and its return is in a wrapper of its     *)
(* operation; the other steps leave real objects and records alone.         *)
LEMMA OutsideFrame ==
  ASSUME NEW t \in Threads,
         ThreadStart(t) \/ EnterAfterRestart(t) \/ CheckIn(t) \/ Park(t)
  PROVE  UNCHANGED <<owner, tokens, rec, raced>>
BY DEF ThreadStart, EnterAfterRestart, CheckIn, Park, Announce, Terminate, real, records

LEMMA RealTypes ==
  ASSUME TypeOK, DataInv, NEW t \in Threads, Thread(t)
  PROVE  /\ owner' \in [Mutexes -> Threads \cup {NoThread}]
         /\ tokens' \in [Sems -> Nat]
         /\ raced' \subseteq Mutexes
<1>0. /\ owner \in [Mutexes -> Threads \cup {NoThread}]
      /\ tokens \in [Sems -> Nat]
      /\ raced \subseteq Mutexes
  BY DEF TypeOK
<1>w. WellFormed(Cur(t))
  BY CurFacts DEF DataInv
<1>1. CASE UNCHANGED <<owner, tokens, raced>>
  BY <1>0, <1>1
<1>2. CASE MutexInit(t) \/ MutexLock(t) \/ MutexUnlock(t)
  <2>1. Cur(t).obj \in Mutexes
    BY <1>2, <1>w DEF MutexInit, MutexLock, MutexUnlock, In, WellFormed
  <2> QED
    BY <1>0, <1>2, <2>1 DEF MutexInit, MutexLock, MutexUnlock, FindOrAdd, Called, Update,
       TimedOut, Announce, Terminate, real, records
<1>3. CASE SemInit(t) \/ SemDestroy(t) \/ SemPost(t) \/ SemWait(t)
  <2>1. Cur(t).obj \in Sems /\ (In(t, "sem_init") => Cur(t).arg \in Nat)
    BY <1>3, <1>w DEF SemInit, SemDestroy, SemPost, SemWait, In, WellFormed
  <2>2. tokens[Cur(t).obj] \in Nat
    BY <1>0, <2>1
  <2>3. owner' = owner /\ raced' = raced
    BY <1>3 DEF SemInit, SemDestroy, SemPost, SemWait, FindOrAdd, Called, Update,
       SemTimedOut, real, records
  <2>4. \/ tokens' = tokens
        \/ In(t, "sem_init") /\ tokens' = [tokens EXCEPT ![Cur(t).obj] = Cur(t).arg]
        \/ tokens' = [tokens EXCEPT ![Cur(t).obj] = tokens[Cur(t).obj] + 1]
        \/ /\ tokens[Cur(t).obj] > 0
           /\ tokens' = [tokens EXCEPT ![Cur(t).obj] = tokens[Cur(t).obj] - 1]
    BY <1>3, Zenon DEF SemInit, SemDestroy, SemPost, SemWait, FindOrAdd, Called, Update,
       SemTimedOut, real
  <2>5. /\ tokens[Cur(t).obj] + 1 \in Nat
        /\ tokens[Cur(t).obj] > 0 => tokens[Cur(t).obj] - 1 \in Nat
    BY <2>2
  <2>6. tokens' \in [Sems -> Nat]
    <3>1. CASE tokens' = tokens
      BY <1>0, <3>1
    <3>2. CASE In(t, "sem_init") /\ tokens' = [tokens EXCEPT ![Cur(t).obj] = Cur(t).arg]
      BY <1>0, <2>1, <3>2
    <3>3. CASE tokens' = [tokens EXCEPT ![Cur(t).obj] = tokens[Cur(t).obj] + 1]
      BY <1>0, <2>5, <3>3
    <3>4. CASE /\ tokens[Cur(t).obj] > 0
               /\ tokens' = [tokens EXCEPT ![Cur(t).obj] = tokens[Cur(t).obj] - 1]
      BY <1>0, <2>5, <3>4
    <3> QED
      BY <2>4, <3>1, <3>2, <3>3, <3>4
  <2> QED
    BY <1>0, <2>3, <2>6
<1>4. CASE CondWait(t)
  <2>1. Cur(t).arg \in Mutexes
    BY <1>4, <1>w DEF CondWait, In, WellFormed
  <2> QED
    BY <1>0, <1>4, <2>1 DEF CondWait, CondWaitEnter, CondSleep, CondTimeout, CondRelock,
       CondWoken, Announce, real, records
<1>5. CASE \/ CondInit(t) \/ CondSignal(t) \/ CondBroadcast(t) \/ CondDestroy(t)
           \/ ThreadCreate(t) \/ ThreadExit(t) \/ PthreadExit(t) \/ ThreadJoin(t)
           \/ ProcessEnd(t)
  <2>1. Cur(t).kind \notin {"mutex_init", "lock", "unlock", "cond_wait", "sem_init",
                            "sem_post", "sem_wait"}
    BY <1>5 DEF CondInit, CondSignal, CondBroadcast, CondDestroy, ThreadCreate, ThreadExit,
       PthreadExit, ThreadJoin, ProcessEnd, In
  <2> QED
    BY <1>1, <2>1, RealFrame
<1>6. CASE ThreadStart(t) \/ EnterAfterRestart(t) \/ CheckIn(t) \/ Park(t)
  BY <1>1, <1>6, OutsideFrame
<1> QED
  BY <1>2, <1>3, <1>4, <1>5, <1>6 DEF Thread

(* A thread at work is registered, except the main thread at first.         *)
LEMMA AtWork ==
  ASSUME TypeOK, ModeInv, NEW t \in Threads, ThreadInv(t),
         step[t] \notin {"absent", "start", "dead", "gone", "await"}, ~ BeforeRecord
  PROVE  thr[t] = "ALIVE" /\ rid[t] # -1 /\ rid[t] \in Ids
<1>1. thr[t] = "ALIVE"
  BY DEF ThreadInv, ModeInv
<1> QED
  BY <1>1 DEF ThreadInv, TypeOK

LEMMA NotBefore ==
  ASSUME TypeOK, ModeInv, NEW t \in Threads, Shape(t), ~ EndStep
  PROVE  ~ BeforeRecord
<1> SUFFICES ASSUME BeforeRecord PROVE FALSE
  OBVIOUS
<1>1. step[t] \in {"call", "absent"} /\ ~ Recording /\ ~ InRestart
      /\ mode # "TARGET_BRANCH_AFTER_RESTART"
  BY DEF ModeInv, BeforeRecord, Recording, InRestart
<1> QED
  BY <1>1 DEF Shape, InnerStep, WakeStep, ReturnStep, ExitStep, AnnounceStep, CreateStep,
     StartStep, CheckInStep

LEMMA TypesKept ==
  ASSUME TypeOK, DataInv, ModeInv, CreateInv, NEW t \in Threads, ThreadInv(t), Thread(t)
  PROVE  TypeOK' /\ DataInv'
<1>0. /\ step \in [Threads -> Steps] /\ pc \in [Threads -> Nat \ {0}]
      /\ rid \in [Threads -> Ids \cup {-1}]
      /\ thr \in [Threads -> {"NONE", "ALIVE", "EXITED"}]
      /\ saved \subseteq Registered /\ posts \in Nat /\ counted \subseteq Registered
      /\ ended \in {"no", "exit", "abort"}
  BY DEF TypeOK, DataInv, Registered
<1>1. Shape(t) /\ Writes(t) /\ ThreadFrame
  BY ThreadShape
<1>2. /\ step' \in [Threads -> Steps] /\ pc' \in [Threads -> Nat \ {0}]
      /\ rid' \in [Threads -> Ids \cup {-1}]
      /\ thr' \in [Threads -> {"NONE", "ALIVE", "EXITED"}]
      /\ saved' \subseteq Registered' /\ posts' \in Nat /\ Registered \subseteq Registered'
      /\ ended' \in {"no", "exit", "abort"}
      /\ DOMAIN mailbox' = DOMAIN mailbox
  <2> DEFINE G == /\ step' \in [Threads -> Steps] /\ pc' \in [Threads -> Nat \ {0}]
                  /\ rid' \in [Threads -> Ids \cup {-1}]
                  /\ thr' \in [Threads -> {"NONE", "ALIVE", "EXITED"}]
                  /\ saved' \subseteq Registered' /\ posts' \in Nat
                  /\ Registered \subseteq Registered'
                  /\ ended' \in {"no", "exit", "abort"}
                  /\ DOMAIN mailbox' = DOMAIN mailbox
  <2>0. rid' = rid => Registered' = Registered
    BY DEF Registered
  <2>1. CASE InnerStep(t)
    BY <1>0, <2>0, <2>1 DEF InnerStep, Quiet
  <2>2. CASE WakeStep(t)
    <3>1. step' \in [Threads -> Steps]
      BY <1>0, <2>2 DEF WakeStep, Steps
    <3> QED
      BY <1>0, <2>0, <2>2, <3>1 DEF WakeStep, Quiet
  <2>3. CASE ReturnStep(t)
    <3>1. "call" \in Steps /\ pc[t] + 1 \in Nat \ {0}
      BY <1>0 DEF Steps
    <3> QED
      BY <1>0, <2>0, <2>3, <3>1 DEF ReturnStep
  <2>4. CASE ExitStep(t)
    BY <1>0, <2>0, <2>4 DEF ExitStep, Steps
  <2>5. CASE AnnounceStep(t)
    BY <1>0, <2>0, <2>5 DEF AnnounceStep, Steps
  <2>6. CASE CreateStep(t)
    BY <1>0, <2>0, <2>6 DEF CreateStep, Quiet, Steps
  <2>7. CASE StartStep(t)
    <3>1. rid[t] = -1 /\ rid' = [rid EXCEPT ![t] = NextRid]
      BY <2>7 DEF StartStep, ThreadInv
    <3>2. Registered' = Registered \cup {t} /\ NextRid \in Ids
      BY <3>1, Registration
    <3>3. rid' \in [Threads -> Ids \cup {-1}]
      BY <1>0, <3>1, <3>2
    <3> QED
      BY <1>0, <2>7, <3>2, <3>3 DEF StartStep, Steps
  <2>8. CASE CheckInStep(t)
    <3>1. t \in Registered
      <4>1. step[t] = "checkin" /\ ~ BeforeRecord
        BY <2>8 DEF CheckInStep, InRestart, BeforeRecord
      <4> QED
        BY <4>1, AtWork DEF Registered
    <3>2. posts' \in Nat
      BY <1>0, <2>8 DEF CheckInStep
    <3> QED
      BY <1>0, <2>0, <2>8, <3>1, <3>2 DEF CheckInStep, Steps
  <2>9. CASE EndStep
    BY <1>0, <2>0, <2>9 DEF EndStep
  <2> QED
    BY <1>1, <2>1, <2>2, <2>3, <2>4, <2>5, <2>6, <2>7, <2>8, <2>9 DEF Shape
<1>3. TypeOK'
  <2>1. UNCHANGED <<mode, suspended, candidates, counted, left>>
    BY <1>1 DEF ThreadFrame
  <2>2. /\ owner' \in [Mutexes -> Threads \cup {NoThread}]
        /\ tokens' \in [Sems -> Nat]
        /\ raced' \subseteq Mutexes
    BY RealTypes
  <2> QED
    BY <1>0, <1>2, <2>1, <2>2 DEF TypeOK, Registered
<1>4. DataInv'
  <2>1. prog' = prog
    BY <1>1 DEF ThreadFrame
  <2>2. rec' \in [Objects -> RecordSet]
    BY <1>1 DEF Writes
  <2>3. \A o \in Objects : rec'[o].status = "NONE" => rec'[o] = NoRecord
    BY <1>1 DEF Writes, DataInv
  <2>4. DOMAIN mailbox' = Ids
    BY <1>2 DEF DataInv
  <2> QED
    BY <1>2, <2>1, <2>2, <2>3, <2>4 DEF DataInv
<1> QED
  BY <1>3, <1>4

(* A thread is recorded once, and for good.                                 *)
LEMMA RecordKept ==
  ASSUME TypeOK, DataInv, CreateInv, NEW t \in Threads, Shape(t), NEW u \in Threads
  PROVE  thr'[u] = "NONE" => thr[u] = "NONE"
<1>1. CASE u # t
  BY <1>1, OtherThread
<1>2. CASE u = t
  <2>1. thr \in [Threads -> {"NONE", "ALIVE", "EXITED"}]
    BY DEF TypeOK
  <2> QED
    BY <1>2, <2>1 DEF Shape, InnerStep, WakeStep, ReturnStep, ExitStep, AnnounceStep,
       CreateStep, StartStep, CheckInStep, EndStep, Quiet
<1> QED
  BY <1>1, <1>2

LEMMA ModeKept ==
  ASSUME TypeOK, DataInv, ModeInv, CreateInv, NEW t \in Threads, Shape(t), ThreadFrame
  PROVE  ModeInv'
<1>1. UNCHANGED <<mode, suspended, candidates, tmpl, model>>
  BY DEF ThreadFrame
<1>2. Main \in Threads /\ (thr'[Main] = "NONE" => thr[Main] = "NONE")
  BY RecordAssumption, RecordKept
<1>3. BeforeRecord => step' = step /\ pc' = pc
  BY NotBefore DEF EndStep
<1>4. BeforeRecord' = BeforeRecord /\ Recording' = Recording /\ InRestart' = InRestart
  BY <1>1 DEF BeforeRecord, Recording, InRestart
<1> QED
  BY <1>1, <1>2, <1>3, <1>4 DEF ModeInv

(* A record that exists continues to do so.                                 *)
LEMMA RecordsStay ==
  ASSUME NEW t \in Threads, Writes(t), NEW o \in Objects, rec[o] # NoRecord
  PROVE  rec'[o] # NoRecord
BY DEF Writes

LEMMA OtherThreadInv ==
  ASSUME TypeOK, DataInv, ModeInv, CreateInv, \A v \in Threads : ThreadInv(v),
         NEW t \in Threads, Shape(t), Writes(t), ThreadFrame, NEW u \in Threads, u # t
  PROVE  ThreadInv(u)'
<1>1. /\ pc'[u] = pc[u] /\ rid'[u] = rid[u]
      /\ \/ step'[u] = step[u]
         \/ step[u] = "sleep" /\ step'[u] = "signalled" /\ In(u, "cond_wait")
         \/ step[u] = "absent" /\ step'[u] = "start" /\ u # Main
      /\ \/ thr'[u] = thr[u]
         \/ thr'[u] = "EXITED" /\ step[u] = "dead"
  <2>1. step[t] = "update" /\ In(t, "join") => step[Cur(t).obj] = "dead"
    BY DEF ThreadInv
  <2> QED
    BY <2>1, OtherThread
<1>2. /\ Cur(u)' = Cur(u) /\ \A k : In(u, k)' = In(u, k)
  BY <1>1, CurFrame DEF ThreadFrame
<1>3. mode' = mode /\ ThreadInv(u)
  BY DEF ThreadFrame
<1>4. Cur(u).kind \in Wrapped \ {"join"} /\ rec[Cur(u).obj] # NoRecord =>
        rec'[Cur(u).obj] # NoRecord
  BY ObjectOf, RecordsStay
<1>5. In(u, "join") /\ step[Cur(u).obj] = "dead" => step'[Cur(u).obj] = "dead"
  <2> SUFFICES ASSUME In(u, "join"), step[Cur(u).obj] = "dead"
               PROVE  step'[Cur(u).obj] = "dead"
    OBVIOUS
  <2>1. Cur(u).obj \in Threads
    BY ObjectOf DEF In
  <2>2. CASE Cur(u).obj = t
    BY <2>2, OwnStep DEF EndStep
  <2>3. CASE Cur(u).obj # t
    BY <2>1, <2>3, OtherThread
  <2> QED
    BY <2>2, <2>3
<1>6. In(u, "cond_wait") => Cur(u).kind \in Wrapped \ {"join"} /\ ~ In(u, "join")
  BY DEF In, Wrapped
<1> QED
  BY <1>1, <1>2, <1>3, <1>4, <1>5, <1>6 DEF ThreadInv

LEMMA OwnThreadInv ==
  ASSUME TypeOK, DataInv, ModeInv, CreateInv, \A v \in Threads : ThreadInv(v),
         NEW t \in Threads, Shape(t), Writes(t), ThreadFrame
  PROVE  ThreadInv(t)'
<1>0. /\ step \in [Threads -> Steps] /\ pc \in [Threads -> Nat \ {0}]
      /\ rid \in [Threads -> Ids \cup {-1}]
      /\ thr \in [Threads -> {"NONE", "ALIVE", "EXITED"}]
  BY DEF TypeOK, DataInv
<1>m. mode' = mode /\ prog' = prog /\ ThreadInv(t)
  BY DEF ThreadFrame
<1>p. pc'[t] = pc[t] => Cur(t)' = Cur(t) /\ \A k : In(t, k)' = In(t, k)
  BY <1>m, CurFrame
<1>r. Cur(t).kind \in Wrapped \ {"join"} /\ rec[Cur(t).obj] # NoRecord =>
        rec'[Cur(t).obj] # NoRecord
  BY ObjectOf, RecordsStay
<1>a. ~ EndStep /\ step[t] \notin {"absent", "start", "dead", "gone", "await"} =>
        thr[t] = "ALIVE" /\ rid[t] # -1
  BY NotBefore, AtWork
<1>k. ASSUME NEW k \in {"cond_wait", "cond_signal", "cond_broadcast"}, In(t, k)
      PROVE  Cur(t).kind \in Wrapped \ {"join"}
  BY <1>k DEF In, Wrapped
<1>1. CASE InnerStep(t) /\ ~ EndStep
  <2>1. PICK b \in Steps : /\ step' = [step EXCEPT ![t] = b] /\ pc' = pc /\ Quiet
        /\ \/ /\ step[t] = "call" /\ Recording /\ b = "real" /\ Cur(t).kind \in Wrapped
              /\ Cur(t).kind # "join" => rec'[Cur(t).obj] # NoRecord
           \/ /\ step[t] = "real" /\ b = "update" /\ Cur(t).kind \in Wrapped \ {"cond_wait"}
              /\ In(t, "join") => step[Cur(t).obj] = "dead"
           \/ step[t] = "real" /\ b = "sleep" /\ In(t, "cond_wait")
           \/ step[t] = "sleep" /\ b = "timedout" /\ In(t, "cond_wait")
           \/ step[t] \in {"signalled", "timedout"} /\ b \in {"woken", "escaped", "real"}
                /\ In(t, "cond_wait")
           \/ step[t] = "call" /\ Recording /\ b = "update" /\ In(t, "thread_exit")
           \/ step[t] = "call" /\ Recording /\ b = "dead" /\ In(t, "pthread_exit")
           \/ step[t] \in {"park", "parking"} /\ b \in {"parking", "parked", "await"}
    BY <1>1 DEF InnerStep
  <2>2. step'[t] = b /\ thr'[t] = thr[t] /\ rid'[t] = rid[t] /\ thr[t] = "ALIVE" /\ rid[t] # -1
    BY <1>0, <1>1, <1>a, <2>1 DEF Quiet
  <2>3. Cur(t)' = Cur(t) /\ \A k : In(t, k)' = In(t, k)
    BY <1>p, <2>1
  <2>4. b = "update" /\ In(t, "join") => step'[Cur(t).obj] = "dead"
    <3> SUFFICES ASSUME b = "update", In(t, "join")
                 PROVE  step'[Cur(t).obj] = "dead"
      OBVIOUS
    <3>1. ~ In(t, "thread_exit")
      BY DEF In
    <3>2. step[Cur(t).obj] = "dead" /\ step[t] # "dead"
      BY <2>1, <3>1
    <3>3. Cur(t).obj \in Threads /\ Cur(t).obj # t
      BY <3>2, ObjectOf DEF In
    <3> QED
      BY <1>0, <2>1, <3>2, <3>3
  <2>5. In(t, "cond_wait") => Cur(t).kind \in Wrapped \ {"join"}
    BY DEF In, Wrapped
  <2>6. In(t, "thread_exit") => Cur(t).kind = "thread_exit" /\ Cur(t).kind \notin Wrapped
    BY DEF In, Wrapped
  <2> QED
    BY <1>m, <1>r, <2>1, <2>2, <2>3, <2>4, <2>5, <2>6 DEF ThreadInv
<1>2. CASE WakeStep(t) /\ ~ EndStep
  <2>1. /\ step[t] = "real" /\ Cur(t).kind \in {"cond_signal", "cond_broadcast"}
        /\ step'[t] = "update" /\ pc' = pc /\ thr' = thr /\ rid' = rid
    BY <1>0, <1>2 DEF WakeStep, Quiet
  <2>2. Cur(t).kind \in Wrapped \ {"join", "cond_wait"} /\ ~ In(t, "join")
    BY <2>1 DEF Wrapped, In
  <2>3. Cur(t)' = Cur(t) /\ \A k : In(t, k)' = In(t, k)
    BY <1>p, <2>1
  <2> QED
    BY <1>a, <1>m, <1>r, <1>2, <2>1, <2>2, <2>3 DEF ThreadInv
<1>3. CASE ReturnStep(t) /\ ~ EndStep
  <2>1. /\ step[t] \notin {"absent", "start", "dead", "gone", "await"}
        /\ step'[t] = "call" /\ rid'[t] = rid[t]
    BY <1>0, <1>3 DEF ReturnStep
  <2>2. thr'[t] = "ALIVE"
    <3>1. step[t] = "update" /\ In(t, "join") => Cur(t).obj # t
      BY <2>1 DEF ThreadInv
    <3> QED
      BY <1>0, <1>3, <1>a, <2>1, <3>1 DEF ReturnStep
  <2> QED
    BY <1>3, <1>a, <1>m, <2>1, <2>2 DEF ThreadInv
<1>4. CASE ExitStep(t) /\ ~ EndStep
  <2>1. step[t] = "update" /\ step'[t] = "dead" /\ thr'[t] = "EXITED" /\ rid'[t] = rid[t]
    BY <1>0, <1>4 DEF ExitStep
  <2> QED
    BY <1>4, <1>a, <1>m, <2>1 DEF ThreadInv
<1>5. CASE AnnounceStep(t) /\ ~ EndStep
  <2>1. step[t] \in {"call", "real", "escaped"} /\ step'[t] \in {"checkin", "await"}
        /\ thr' = thr /\ rid' = rid
    BY <1>0, <1>5 DEF AnnounceStep
  <2> QED
    BY <1>5, <1>a, <1>m, <2>1 DEF ThreadInv
<1>6. CASE CreateStep(t) /\ ~ EndStep
  <2>1. Cur(t).obj \in Threads \ {t, Main}
    BY <1>6, CreatedIsNew
  <2>2. step[t] = "call" /\ step'[t] = "creating" /\ thr' = thr /\ rid' = rid /\ pc' = pc
        /\ In(t, "create")
    BY <1>0, <1>6, <2>1 DEF CreateStep, Quiet
  <2>3. \A k : In(t, k)' = In(t, k)
    BY <1>p, <2>2
  <2> QED
    BY <1>6, <1>a, <1>m, <2>2, <2>3 DEF ThreadInv
<1>7. CASE StartStep(t) /\ ~ EndStep
  <2>1. step[t] = "start" /\ t # Main /\ rid[t] = -1 /\ rid' = [rid EXCEPT ![t] = NextRid]
        /\ thr[t] = "NONE"
    BY <1>7, <1>m DEF StartStep, ThreadInv
  <2>2. NextRid \in Ids /\ -1 \notin Ids
    <3>1. NextRid \in Ids
      BY <2>1, Registration
    <3>2. Cardinality(Threads) \in Nat
      BY RecordAssumption, FS_CardinalityType
    <3> QED
      BY <3>1, <3>2 DEF Ids
  <2>3. rid'[t] # -1
    BY <1>0, <2>1, <2>2
  <2>4. ~ BeforeRecord
    BY <1>7, NotBefore
  <2>5. \/ thr'[t] = "ALIVE" /\ step'[t] = "call"
        \/ /\ mode = "TARGET_BRANCH_AFTER_RESTART"
           /\ thr'[t] = "NONE" /\ step'[t] = "await"
    <3>1. mode \in Modes
      BY DEF TypeOK
    <3>2. Recording \/ InRestart \/ mode = "TARGET_BRANCH_AFTER_RESTART"
      BY <2>4, <3>1 DEF Modes, BeforeRecord, Recording, InRestart
    <3> QED
      BY <1>0, <1>7, <2>1, <3>2 DEF StartStep
  <2> QED
    BY <1>m, <2>1, <2>3, <2>5 DEF ThreadInv
<1>8. CASE CheckInStep(t) /\ ~ EndStep
  <2>1. step[t] = "checkin" /\ step'[t] \in {"await", "park"} /\ thr' = thr /\ rid' = rid
    BY <1>0, <1>8 DEF CheckInStep
  <2> QED
    BY <1>8, <1>a, <1>m, <2>1 DEF ThreadInv
<1>9. CASE EndStep
  <2>1. UNCHANGED <<step, pc, thr, rid>>
    BY <1>9 DEF EndStep
  <2>2. Cur(t)' = Cur(t) /\ \A k : In(t, k)' = In(t, k)
    BY <1>p, <2>1
  <2>3. In(t, "cond_wait") => Cur(t).kind \in Wrapped \ {"join"}
    BY DEF In, Wrapped
  <2> QED
    BY <1>m, <1>r, <2>1, <2>2, <2>3 DEF ThreadInv
<1> QED
  BY <1>1, <1>2, <1>3, <1>4, <1>5, <1>6, <1>7, <1>8, <1>9 DEF Shape

LEMMA CreateKept ==
  ASSUME TypeOK, DataInv, CreateInv, NEW t \in Threads, Shape(t), ThreadFrame
  PROVE  CreateInv'
<1>p. prog' = prog /\ pc \in [Threads -> Nat \ {0}] /\ step \in [Threads -> Steps]
  BY DEF ThreadFrame, DataInv, TypeOK
<1> SUFFICES ASSUME NEW u \in Threads, NEW i \in DOMAIN prog[u], prog[u][i].kind = "create",
                    \/ pc'[u] < i
                    \/ pc'[u] = i /\ step'[u] \in {"absent", "start", "call"}
             PROVE  step'[prog[u][i].obj] = "absent"
  BY <1>p DEF CreateInv
<1> DEFINE x == prog[u][i].obj
<1>1. pc[u] < i \/ (pc[u] = i /\ step[u] \in {"absent", "start", "call"})
  <2>0. i \in Nat /\ prog[u] \in Seq(Operations)
    BY RecordAssumption DEF DataInv
  <2>1. CASE u # t
    BY <2>1, OtherThread
  <2>2. CASE u = t
    <3>1. pc'[t] = pc[t] \/ pc'[t] = pc[t] + 1
      BY OwnStep
    <3>2. CASE pc'[t] = pc[t] + 1
      BY <1>p, <2>0, <2>2, <3>2
    <3>3. CASE pc'[t] = pc[t] /\ step'[t] \in {"absent", "start", "call"}
      <4>1. step[t] \in {"absent", "start", "call"}
        BY <1>p, <3>3 DEF Shape, InnerStep, WakeStep, ReturnStep, ExitStep, AnnounceStep,
           CreateStep, StartStep, CheckInStep, EndStep
      <4> QED
        BY <2>2, <3>3, <4>1
    <3> QED
      BY <2>2, <3>1, <3>2, <3>3
  <2> QED
    BY <2>1, <2>2
<1>2. step[x] = "absent"
  BY <1>1 DEF CreateInv
<1>3. x \in Threads
  <2>1. prog[u] \in Seq(Operations)
    BY RecordAssumption DEF DataInv
  <2>2. prog[u][i] \in Operations
    BY <2>1
  <2> QED
    BY <2>2 DEF Operations, WellFormed
<1>4. CASE x = t
  BY <1>2, <1>4, OwnStep DEF EndStep
<1>5. CASE x # t
  <2> SUFFICES ASSUME CreateStep(t), x = Cur(t).obj
               PROVE  FALSE
    BY <1>2, <1>3, <1>5, OtherThread
  <2>1. pc[t] \in DOMAIN prog[t] /\ prog[t][pc[t]] = Cur(t)
    BY CreatedIsNew
  <2>2. Cur(t).kind = "create"
    BY DEF CreateStep, In
  <2>3. CreatesOnce(prog)
    BY RecordAssumption DEF DataInv
  <2>4. u = t /\ i = pc[t]
    BY <2>1, <2>2, <2>3 DEF CreatesOnce
  <2>5. pc'[t] = i /\ step'[t] = "creating"
    <3>1. Cur(t).obj \in Threads \ {t, Main}
      BY CreatedIsNew
    <3> QED
      BY <1>p, <2>4, <3>1 DEF CreateStep
  <2>6. i \in Nat /\ ~ (i < i)
    BY <1>p, <2>4
  <2> QED
    BY <2>4, <2>5, <2>6
<1> QED
  BY <1>4, <1>5

(* Outside a branch under McMini, the registered threads are the recorded.  *)
LEMMA RegisteredIsRecorded ==
  ASSUME \A u \in Threads : ThreadInv(u)
  PROVE  /\ Recorded \subseteq Registered
         /\ mode # "TARGET_BRANCH_AFTER_RESTART" => Recorded = Registered
<1>1. \A u \in Threads : /\ rid[u] = -1 => thr[u] = "NONE"
                         /\ thr[u] = "NONE" /\ mode # "TARGET_BRANCH_AFTER_RESTART" =>
                              rid[u] = -1
  BY DEF ThreadInv
<1> QED
  BY <1>1 DEF Recorded, Registered

LEMMA FiniteRecorded ==
  IsFiniteSet(Recorded) /\ Cardinality(Recorded) \in Nat
  /\ IsFiniteSet(Registered) /\ Cardinality(Registered) \in Nat
<1>1. Recorded \subseteq Threads /\ Registered \subseteq Threads
  BY DEF Recorded, Registered
<1> QED
  BY <1>1, RecordAssumption, FS_Subset, FS_CardinalityType

(* A thread that gets the next id, and is recorded if all before it are.    *)
LEMMA RidAdded ==
  ASSUME TypeOK, RidInv, \A u \in Threads : ThreadInv(u), NEW t \in Threads, rid[t] = -1,
         rid' = [rid EXCEPT ![t] = NextRid],
         \/ Recorded' = Recorded
         \/ Recorded' = Recorded \cup {t} /\ Recorded = Registered
  PROVE  RidInv'
<1>0. rid \in [Threads -> Ids \cup {-1}]
  BY DEF TypeOK
<1>1. /\ Registered' = Registered \cup {t} /\ NextRid = Cardinality(Registered)
      /\ Cardinality(Registered') = Cardinality(Registered) + 1
      /\ Cardinality(Registered) \in Nat
  BY Registration, FiniteRecorded
<1>2. t \notin Registered /\ \A u \in Registered : u \in Threads /\ rid'[u] = rid[u]
  BY <1>0 DEF Registered
<1>3. rid'[t] = Cardinality(Registered)
  BY <1>0, <1>1
<1>i. \A u \in Registered : rid[u] \in Int
  BY <1>0 DEF Registered, Ids
<1>4. \A u \in Registered' : rid'[u] < Cardinality(Registered')
  BY <1>1, <1>2, <1>3, <1>i DEF RidInv
<1>5. \A u, v \in Registered' : rid'[u] = rid'[v] => u = v
  <2>1. \A u \in Registered : rid'[u] # rid'[t]
    BY <1>1, <1>2, <1>3, <1>i DEF RidInv
  <2> QED
    BY <1>1, <1>2, <2>1 DEF RidInv
<1>s. Recorded \subseteq Registered
  BY RegisteredIsRecorded
<1>6. CASE Recorded' = Recorded
  <2>1. /\ \A u \in Recorded' : rid'[u] < Cardinality(Recorded')
        /\ \A i \in 0..(Cardinality(Recorded') - 1) : \E u \in Recorded' : rid'[u] = i
    BY <1>2, <1>6, <1>s DEF RidInv
  <2> QED
    BY <1>4, <1>5, <2>1 DEF RidInv
<1>7. CASE Recorded' = Recorded \cup {t} /\ Recorded = Registered
  <2>1. Cardinality(Recorded') = Cardinality(Registered')
    BY <1>1, <1>7
  <2>2. \A i \in 0..(Cardinality(Recorded') - 1) : \E u \in Recorded' : rid'[u] = i
    <3> SUFFICES ASSUME NEW i \in 0..(Cardinality(Recorded') - 1)
                 PROVE  \E u \in Recorded' : rid'[u] = i
      OBVIOUS
    <3>1. CASE i = Cardinality(Registered)
      BY <1>3, <1>7, <3>1
    <3>2. CASE i # Cardinality(Registered)
      <4>1. i \in 0..(Cardinality(Recorded) - 1)
        BY <1>1, <1>7, <2>1, <3>2
      <4>2. PICK u \in Recorded : rid[u] = i
        BY <4>1 DEF RidInv
      <4> QED
        BY <1>2, <1>7, <4>2
    <3> QED
      BY <3>1, <3>2
  <2> QED
    BY <1>1, <1>4, <1>5, <1>7, <2>1, <2>2 DEF RidInv
<1> QED
  BY <1>6, <1>7

LEMMA RidKept ==
  ASSUME TypeOK, DataInv, ModeInv, CreateInv, RidInv, \A v \in Threads : ThreadInv(v),
         NEW t \in Threads, Shape(t), ThreadFrame
  PROVE  RidInv'
<1>0. thr \in [Threads -> {"NONE", "ALIVE", "EXITED"}]
  BY DEF TypeOK
<1>1. CASE StartStep(t)
  <2>1. step[t] = "start" /\ rid[t] = -1 /\ rid' = [rid EXCEPT ![t] = NextRid]
    BY <1>1 DEF StartStep, ThreadInv
  <2>2. CASE thr' = thr
    <3>1. Recorded' = Recorded
      BY <2>2 DEF Recorded
    <3> QED
      BY <2>1, <3>1, RidAdded
  <2>3. CASE thr' = [thr EXCEPT ![t] = "ALIVE"] /\ (Recording \/ InRestart)
    <3>1. Recorded' = Recorded \cup {t}
      BY <1>0, <2>3 DEF Recorded
    <3>2. Recorded = Registered
      <4>1. mode # "TARGET_BRANCH_AFTER_RESTART"
        BY <2>3 DEF Recording, InRestart
      <4> QED
        BY <4>1, RegisteredIsRecorded
    <3> QED
      BY <2>1, <3>1, <3>2, RidAdded
  <2> QED
    BY <1>1, <2>2, <2>3 DEF StartStep
<1>2. CASE ~ StartStep(t)
  <2>1. rid' = rid
    BY <1>2 DEF Shape, InnerStep, WakeStep, ReturnStep, ExitStep, AnnounceStep, CreateStep,
       CheckInStep, EndStep, Quiet
  <2>2. \A u \in Threads : thr'[u] # "NONE" => thr[u] # "NONE"
    <3>1. \/ thr' = thr
          \/ ExitStep(t) /\ thr' = [thr EXCEPT ![t] = "EXITED"]
          \/ /\ step[t] = "update" /\ In(t, "join")
             /\ thr' = [thr EXCEPT ![Cur(t).obj] = "EXITED"]
      BY <1>2 DEF Shape, InnerStep, WakeStep, ReturnStep, ExitStep, AnnounceStep,
         CreateStep, CheckInStep, EndStep, Quiet
    <3>2. CASE ExitStep(t) /\ thr' = [thr EXCEPT ![t] = "EXITED"]
      <4>1. thr[t] = "ALIVE"
        <5>1. step[t] = "update"
          BY <3>2 DEF ExitStep
        <5>2. ~ BeforeRecord
          BY <5>1 DEF ModeInv
        <5> QED
          BY <5>1, <5>2, AtWork
      <4> QED
        BY <1>0, <3>2, <4>1
    <3>3. CASE /\ step[t] = "update" /\ In(t, "join")
               /\ thr' = [thr EXCEPT ![Cur(t).obj] = "EXITED"]
      <4>1. Cur(t).obj \in Threads
        BY <3>3, ObjectOf DEF In
      <4>2. thr[Cur(t).obj] # "NONE"
        BY <3>3, <4>1 DEF ThreadInv
      <4> QED
        BY <1>0, <3>3, <4>1, <4>2
    <3> QED
      BY <3>1, <3>2, <3>3
  <2>3. Recorded' = Recorded
    BY <2>2, RecordKept DEF Recorded
  <2>4. Registered' = Registered
    BY <2>1 DEF Registered
  <2> QED
    BY <2>1, <2>3, <2>4 DEF RidInv
<1> QED
  BY <1>1, <1>2

LEMMA AloneKept ==
  ASSUME TypeOK, DataInv, CreateInv, AloneInv, NEW t \in Threads, Shape(t), ThreadFrame
  PROVE  AloneInv'
<1>p. prog' = prog /\ pc \in [Threads -> Nat \ {0}] /\ step \in [Threads -> Steps]
      /\ Main \in Threads
  BY RecordAssumption DEF ThreadFrame, DataInv, TypeOK
<1> DEFINE None(n) == \A j \in 1..(n - 1) : j \in DOMAIN prog[Main] => prog[Main][j].kind # "create"
<1> SUFFICES ASSUME None(pc'[Main]),
                    In(Main, "create")' => step'[Main] \notin {"creating", "gone"}
             PROVE  \A u \in Threads \ {Main} : step'[u] = "absent"
  BY <1>p DEF AloneInv
<1>q. pc'[Main] = pc[Main] \/ (pc'[Main] = pc[Main] + 1 /\ t = Main /\ ReturnStep(t))
  BY <1>p, OtherThread, OwnStep
<1>1. None(pc[Main])
  BY <1>p, <1>q
<1>2. In(Main, "create") => step[Main] \notin {"creating", "gone"}
  <2> SUFFICES ASSUME In(Main, "create"), step[Main] \in {"creating", "gone"}
               PROVE  FALSE
    OBVIOUS
  <2>1. pc[Main] \in DOMAIN prog[Main] /\ prog[Main][pc[Main]].kind = "create"
    BY <1>p, CurFacts DEF In, DataInv
  <2>2. CASE pc'[Main] = pc[Main] + 1
    <3>1. pc[Main] \in 1..(pc'[Main] - 1)
      BY <1>p, <2>2
    <3> QED
      BY <2>1, <3>1
  <2>3. CASE pc'[Main] = pc[Main]
    <3>1. In(Main, "create")'
      BY <1>p, <2>3, CurFrame
    <3>2. step'[Main] = step[Main]
      <4>1. CASE t = Main
        <5>1. pc'[t] # pc[t] + 1
          BY <1>p, <2>3, <4>1
        <5> QED
          BY <1>p, <4>1, <5>1 DEF Shape, InnerStep, WakeStep, ReturnStep, ExitStep,
             AnnounceStep, CreateStep, StartStep, CheckInStep, EndStep
      <4>2. CASE t # Main
        BY <1>p, <4>2, OtherThread
      <4> QED
        BY <4>1, <4>2
    <3> QED
      BY <3>1, <3>2
  <2> QED
    BY <1>q, <2>2, <2>3
<1>3. \A u \in Threads \ {Main} : step[u] = "absent"
  BY <1>1, <1>2 DEF AloneInv
<1>4. CASE EndStep
  BY <1>3, <1>4 DEF EndStep
<1>5. CASE ~ EndStep
  <2>1. t = Main
    BY <1>3, <1>5, OwnStep
  <2>2. ~ CreateStep(Main)
    <3> SUFFICES ASSUME CreateStep(Main)
                 PROVE  FALSE
      OBVIOUS
    <3>1. Cur(Main).obj \in Threads \ {Main} /\ In(Main, "create") /\ pc' = pc
          /\ step' = [step EXCEPT ![Main] = "creating", ![Cur(Main).obj] = "start"]
      BY <1>p, CreatedIsNew DEF CreateStep
    <3>2. step'[Main] = "creating"
      BY <1>p, <3>1
    <3>3. In(Main, "create")'
      BY <1>p, <3>1, CurFrame
    <3> QED
      BY <3>2, <3>3
  <2> QED
    BY <1>3, <2>1, <2>2, OtherThread
<1> QED
  BY <1>4, <1>5

LEMMA SavedKept ==
  ASSUME TypeOK, DataInv, ModeInv, CreateInv, RidInv, SavedInv,
         \A v \in Threads : ThreadInv(v), NEW t \in Threads, Shape(t), ThreadFrame
  PROVE  SavedInv'
<1>0. /\ step \in [Threads -> Steps] /\ rid \in [Threads -> Ids \cup {-1}]
      /\ thr \in [Threads -> {"NONE", "ALIVE", "EXITED"}]
      /\ DOMAIN mailbox = Ids
  BY DEF TypeOK, DataInv
<1>p. UNCHANGED <<prog, mode, tmpl, counted, left>>
  BY DEF ThreadFrame
<1>r. \A u \in Threads : thr[u] = "ALIVE" => rid[u] \in Ids /\ u \in Registered
  BY <1>0 DEF ThreadInv, Registered
<1>1. \A u \in Threads : u \in saved' \/ step'[u] = "checkin" =>
        thr'[u] = "ALIVE" /\ mailbox'[rid'[u]] = Announced(u)'
  <2> SUFFICES ASSUME NEW u \in Threads, u \in saved' \/ step'[u] = "checkin"
               PROVE  thr'[u] = "ALIVE" /\ mailbox'[rid'[u]] = Announced(u)'
    OBVIOUS
  <2>1. CASE u # t
    <3>1. u \in saved \/ step[u] = "checkin"
      BY <2>1, OtherThread
    <3>2. thr[u] = "ALIVE" /\ mailbox[rid[u]] = Announced(u) /\ step[u] # "dead"
      BY <3>1 DEF SavedInv
    <3>3. pc'[u] = pc[u] /\ rid'[u] = rid[u] /\ thr'[u] = thr[u]
      <4>1. step[t] = "update" /\ In(t, "join") => step[Cur(t).obj] = "dead"
        BY DEF ThreadInv
      <4> QED
        BY <2>1, <3>2, <4>1, OtherThread
    <3>4. Announced(u)' = Announced(u)
      BY <1>p, <3>3, CurFrame
    <3>5. mailbox'[rid[u]] = mailbox[rid[u]]
      <4>1. CASE AnnounceStep(t)
        <5>1. step[t] \in {"call", "real", "escaped"} /\ ~ BeforeRecord
              /\ mailbox' = [mailbox EXCEPT ![rid[t]] = Announced(t)]
          BY <4>1 DEF AnnounceStep, BeforeRecord
        <5>2. t \in Registered
          BY <5>1, AtWork DEF Registered
        <5>3. rid[u] # rid[t] /\ rid[u] \in Ids
          BY <1>r, <2>1, <3>2, <5>2 DEF RidInv
        <5> QED
          BY <1>0, <5>1, <5>3
      <4>2. CASE ~ AnnounceStep(t)
        BY <4>2 DEF Shape, InnerStep, WakeStep, ReturnStep, ExitStep, CreateStep,
           StartStep, CheckInStep, EndStep, Quiet
      <4> QED
        BY <4>1, <4>2
    <3> QED
      BY <3>2, <3>3, <3>4, <3>5
  <2>2. CASE u = t
    <3>1. CASE AnnounceStep(t)
      <4>1. step[t] \in {"call", "real", "escaped"} /\ ~ BeforeRecord
            /\ mailbox' = [mailbox EXCEPT ![rid[t]] = Announced(t)]
            /\ pc' = pc /\ thr' = thr /\ rid' = rid
        BY <3>1 DEF AnnounceStep, BeforeRecord
      <4>2. thr[t] = "ALIVE" /\ rid[t] \in Ids
        BY <4>1, AtWork
      <4>3. Announced(t)' = Announced(t)
        BY <1>p, <4>1, CurFrame
      <4> QED
        BY <1>0, <2>2, <4>1, <4>2, <4>3
    <3>2. CASE ~ AnnounceStep(t)
      <4>0. \/ InnerStep(t) \/ WakeStep(t) \/ ReturnStep(t) \/ ExitStep(t) \/ CreateStep(t)
            \/ StartStep(t) \/ CheckInStep(t) \/ EndStep
        BY <3>2 DEF Shape
      <4>1. t \in saved \/ step[t] = "checkin"
        <5>1. CASE t \in saved' /\ ~ CheckInStep(t)
          BY <4>0, <5>1 DEF InnerStep, WakeStep, ReturnStep, ExitStep, CreateStep,
             StartStep, EndStep, Quiet
        <5>2. CASE CheckInStep(t)
          BY <5>2 DEF CheckInStep
        <5>3. CASE step'[t] = "checkin"
          <6>1. Cur(t).obj # t \/ ~ CreateStep(t)
            BY CreatedIsNew
          <6> QED
            BY <1>0, <4>0, <5>3, <6>1 DEF InnerStep, WakeStep, ReturnStep, ExitStep,
               CreateStep, StartStep, CheckInStep, EndStep
        <5> QED
          BY <2>2, <5>1, <5>2, <5>3
      <4>2. /\ thr[t] = "ALIVE" /\ mailbox[rid[t]] = Announced(t)
            /\ step[t] \in {"checkin", "await", "park", "parking", "parked"}
        BY <4>1 DEF SavedInv
      <4>3. UNCHANGED <<pc, thr, rid, mailbox>>
        BY <4>0, <4>2 DEF InnerStep, WakeStep, ReturnStep, ExitStep, CreateStep,
           StartStep, CheckInStep, EndStep, Quiet
      <4>4. Announced(t)' = Announced(t)
        BY <1>p, <4>3, CurFrame
      <4> QED
        BY <2>2, <4>2, <4>3, <4>4
    <3> QED
      BY <3>1, <3>2
  <2> QED
    BY <2>1, <2>2
<1>2. \A u \in saved' : step'[u] \in {"await", "park", "parking", "parked"}
  <2> SUFFICES ASSUME NEW u \in saved'
               PROVE  step'[u] \in {"await", "park", "parking", "parked"}
    OBVIOUS
  <2>0. saved \subseteq Threads
    BY DEF TypeOK
  <2>1. CASE u # t
    <3>1. u \in saved /\ u \in Threads
      BY <2>0, <2>1 DEF Shape, InnerStep, WakeStep, ReturnStep, ExitStep, AnnounceStep,
         CreateStep, StartStep, CheckInStep, EndStep, Quiet
    <3> QED
      BY <2>1, <3>1, OtherThread DEF SavedInv
  <2>2. CASE u = t /\ t \in saved
    <3>1. step[t] \in {"await", "park", "parking", "parked"}
      BY <2>2 DEF SavedInv
    <3> QED
      BY <1>0, <2>2, <3>1 DEF Shape, InnerStep, WakeStep, ReturnStep, ExitStep, AnnounceStep,
         CreateStep, StartStep, CheckInStep, EndStep
  <2>3. CASE u = t /\ t \notin saved
    <3>1. CheckInStep(t)
      BY <2>3 DEF Shape, InnerStep, WakeStep, ReturnStep, ExitStep, AnnounceStep,
         CreateStep, StartStep, EndStep, Quiet
    <3> QED
      BY <1>0, <2>3, <3>1 DEF CheckInStep
  <2> QED
    BY <2>1, <2>2, <2>3
<1>3. CASE CheckInStep(t)
  <2>1. /\ step[t] = "checkin" /\ InRestart
        /\ saved' = saved \cup {t} /\ posts' = posts + 1 /\ thr' = thr
    BY <1>3 DEF CheckInStep
  <2>2. t \notin saved
    BY <2>1 DEF SavedInv
  <2>3. Cardinality(saved') = Cardinality(saved) + 1 /\ Cardinality(saved) \in Nat
    <3>1. IsFiniteSet(saved)
      BY RecordAssumption, FS_Subset DEF TypeOK
    <3> QED
      BY <2>1, <2>2, <3>1, FS_AddElement, FS_CardinalityType
  <2>4. posts' + (Cardinality(counted) - left) = Cardinality(saved')
    <3>1. posts \in Nat /\ left \in Nat /\ Cardinality(counted) \in Nat
      <4>1. IsFiniteSet(counted)
        BY RecordAssumption, FS_Subset DEF TypeOK
      <4> QED
        BY <4>1, FS_CardinalityType DEF TypeOK
    <3> QED
      BY <2>1, <2>3, <3>1 DEF SavedInv
  <2>5. tmpl # "asleep"
    BY <2>1 DEF ModeInv, InRestart, BeforeRecord, Recording
  <2>6. counted \subseteq Recorded'
    BY <2>1 DEF SavedInv, Recorded
  <2> QED
    BY <1>1, <1>2, <1>p, <2>4, <2>5, <2>6 DEF SavedInv
<1>4. CASE ~ CheckInStep(t)
  <2>1. saved' = saved /\ posts' = posts
    BY <1>4 DEF Shape, InnerStep, WakeStep, ReturnStep, ExitStep, AnnounceStep, CreateStep,
       StartStep, EndStep, Quiet
  <2>2. counted \subseteq Recorded'
    <3>1. counted \subseteq Recorded
      BY DEF SavedInv
    <3>2. \A u \in Threads : thr'[u] = "NONE" => thr[u] = "NONE"
      BY RecordKept
    <3> QED
      BY <3>1, <3>2 DEF Recorded
  <2> QED
    BY <1>1, <1>2, <1>p, <2>1, <2>2 DEF SavedInv
<1> QED
  BY <1>3, <1>4

(* Under McMini, a thread that may change a record goes on to be one, ...   *)
LEMMA BusyStays ==
  ASSUME TypeOK, DataInv, ModeInv, CreateInv, SavedInv, \A v \in Threads : ThreadInv(v),
         NEW t \in Threads, Shape(t), ThreadFrame, mode = "TARGET_BRANCH_AFTER_RESTART"
  PROVE  Busy \subseteq Busy' /\ saved' = saved
<1>0. /\ step \in [Threads -> Steps] /\ saved \subseteq Threads
      /\ thr \in [Threads -> {"NONE", "ALIVE", "EXITED"}]
      /\ ~ Recording /\ ~ InRestart /\ prog' = prog
  BY DEF TypeOK, Recording, InRestart, ThreadFrame
<1>1. saved' = saved
  BY <1>0 DEF Shape, InnerStep, WakeStep, ReturnStep, ExitStep, AnnounceStep, CreateStep,
     StartStep, CheckInStep, EndStep, Quiet
<1>2. \A u \in Threads : thr[u] = "ALIVE" /\ step[u] # "dead" /\ ~ ExitStep(t) => thr'[u] = "ALIVE"
  <2>1. step[t] = "update" /\ In(t, "join") => step[Cur(t).obj] = "dead"
    BY DEF ThreadInv
  <2>2. \A u \in Threads \ {t} : thr[u] = "ALIVE" /\ step[u] # "dead" => thr'[u] = "ALIVE"
    BY <2>1, OtherThread
  <2>3. thr[t] = "ALIVE" /\ step[t] # "dead" /\ ~ ExitStep(t) => thr'[t] = "ALIVE"
    BY <1>0, <2>1 DEF Shape, InnerStep, WakeStep, ReturnStep, AnnounceStep, CreateStep,
       StartStep, CheckInStep, EndStep, Quiet
  <2> QED
    BY <2>2, <2>3
<1> SUFFICES ASSUME NEW u \in Busy
             PROVE  u \in Busy'
  BY <1>1
<1>3. /\ u \in Threads /\ thr[u] = "ALIVE" /\ u \notin saved /\ step[u] # "dead"
      /\ ~ (step[u] = "update" /\ In(u, "thread_exit"))
  BY DEF Busy, Alive
<1>4. CASE u # t
  <2>1. step'[u] # "dead" /\ pc'[u] = pc[u] /\ (step'[u] = "update" => step[u] = "update")
    BY <1>3, <1>4, OtherThread
  <2>2. thr'[u] = "ALIVE"
    <3>1. step[t] = "update" /\ In(t, "join") => step[Cur(t).obj] = "dead"
      BY DEF ThreadInv
    <3> QED
      BY <1>3, <1>4, <3>1, OtherThread
  <2>3. In(u, "thread_exit")' = In(u, "thread_exit")
    BY <1>0, <2>1, CurFrame
  <2> QED
    BY <1>1, <1>3, <2>1, <2>2, <2>3 DEF Busy, Alive
<1>5. CASE u = t
  <2>1. ~ ExitStep(t)
    BY <1>3, <1>5 DEF ExitStep
  <2>2. Cur(t).obj # t \/ ~ CreateStep(t)
    BY CreatedIsNew
  <2>3. In(t, "thread_exit") => Cur(t).kind \notin Wrapped \cup {"cond_signal", "cond_broadcast"}
    BY DEF In, Wrapped
  <2>4. step'[t] # "dead"
    BY <1>0, <1>3, <1>5, <2>1, <2>2 DEF Shape, InnerStep, WakeStep, ReturnStep, AnnounceStep,
       CreateStep, StartStep, CheckInStep, EndStep
  <2>5. step'[t] = "update" => ~ In(t, "thread_exit") /\ pc' = pc
    BY <1>0, <1>3, <1>5, <2>1, <2>2, <2>3 DEF Shape, InnerStep, WakeStep, ReturnStep,
       AnnounceStep, CreateStep, StartStep, CheckInStep, EndStep
  <2>6. pc' = pc => In(t, "thread_exit")' = In(t, "thread_exit")
    BY <1>0, CurFrame
  <2> QED
    BY <1>1, <1>2, <1>3, <1>5, <2>1, <2>4, <2>5, <2>6 DEF Busy, Alive
<1> QED
  BY <1>4, <1>5

(* ... and nobody else changes one.                                         *)
LEMMA WriterIsBusy ==
  ASSUME TypeOK, DataInv, ModeInv, SavedInv, NEW t \in Threads, ThreadInv(t), Writes(t),
         ~ BeforeRecord, NEW o \in Objects, rec'[o] # rec[o]
  PROVE  t \in Busy
<1>1. step[t] \in {"call", "update", "woken"} /\ Cur(t).kind \in Wrapped
  BY DEF Writes
<1>2. thr[t] = "ALIVE"
  BY <1>1, AtWork
<1>3. t \notin saved
  BY <1>1 DEF SavedInv
<1>4. ~ In(t, "thread_exit")
  BY <1>1 DEF In, Wrapped
<1> QED
  BY <1>1, <1>2, <1>3, <1>4 DEF Busy, Alive

LEMMA ModelKept ==
  ASSUME TypeOK, DataInv, ModeInv, CreateInv, SavedInv, ModelInv,
         \A v \in Threads : ThreadInv(v), NEW t \in Threads, Shape(t), Writes(t), ThreadFrame
  PROVE  ModelInv'
<1>0. /\ step \in [Threads -> Steps] /\ rid \in [Threads -> Ids \cup {-1}]
      /\ saved \subseteq Threads /\ prog' = prog /\ model' = model
  BY DEF TypeOK, ThreadFrame
<1> SUFFICES ASSUME model # NoOp
             PROVE  ModelInv'
  BY <1>0 DEF ModelInv
<1>m. mode = "TARGET_BRANCH_AFTER_RESTART" /\ ~ BeforeRecord
  BY DEF ModeInv, BeforeRecord
<1>b. Busy \subseteq Busy' /\ saved' = saved
  BY <1>m, BusyStays
<1>1. Busy' = {} => \A o \in Objects : model.objs[o] = TranslatedObject(rec[o])'
  <2> SUFFICES ASSUME Busy' = {}, NEW o \in Objects
               PROVE  model.objs[o] = TranslatedObject(rec[o])'
    OBVIOUS
  <2>1. Busy = {}
    BY <1>b
  <2>2. rec'[o] = rec[o]
    BY <1>m, <2>1, WriterIsBusy
  <2>3. model.objs[o] = TranslatedObject(rec[o])
    BY <2>1 DEF ModelInv
  <2> QED
    BY <2>2, <2>3
<1>2. \A u \in saved : model.next[u] = Announced(u)'
  <2> SUFFICES ASSUME NEW u \in saved
               PROVE  model.next[u] = Announced(u)'
    OBVIOUS
  <2>1. pc'[u] = pc[u]
    <3>1. CASE u # t
      BY <1>0, <3>1, OtherThread
    <3>2. CASE u = t
      <4>1. step[t] \in {"await", "park", "parking", "parked"}
        BY <3>2 DEF SavedInv
      <4> QED
        BY <3>2, <4>1, OwnStep DEF ReturnStep
    <3> QED
      BY <3>1, <3>2
  <2>2. Announced(u)' = Announced(u)
    BY <1>0, <2>1, CurFrame
  <2> QED
    BY <2>2 DEF ModelInv
<1>3. \A u \in Registered : u \in Registered' /\ rid'[u] = rid[u]
  <2>1. rid[t] # -1 => rid'[t] = rid[t]
    <3>1. StartStep(t) => rid[t] = -1
      BY DEF StartStep, ThreadInv
    <3> QED
      BY <3>1 DEF Shape, InnerStep, WakeStep, ReturnStep, ExitStep, AnnounceStep, CreateStep,
         CheckInStep, EndStep, Quiet
  <2>2. \A u \in Threads \ {t} : rid'[u] = rid[u]
    BY OtherThread
  <2> QED
    BY <2>1, <2>2 DEF Registered
<1>4. \A i \in DOMAIN model.runners :
         model.runners[i] \in Registered' /\ rid'[model.runners[i]] = i - 1
  BY <1>3 DEF ModelInv
<1> QED
  BY <1>0, <1>1, <1>2, <1>4, <1>b DEF ModelInv

(* The control part of the invariant under every step of a thread.          *)
LEMMA ThreadKeeps ==
  ASSUME IInv, NEW t \in Threads, Thread(t)
  PROVE  IInv'
<1>1. /\ TypeOK /\ DataInv /\ ModeInv /\ CreateInv /\ RidInv /\ SavedInv /\ ModelInv
      /\ AloneInv /\ \A v \in Threads : ThreadInv(v)
  BY DEF IInv
<1>2. Shape(t) /\ Writes(t) /\ ThreadFrame
  BY <1>1, ThreadShape
<1>3. \A u \in Threads : ThreadInv(u)'
  BY <1>1, <1>2, OtherThreadInv, OwnThreadInv
<1>4. TypeOK' /\ DataInv'
  BY <1>1, TypesKept
<1>5. ModeInv' /\ CreateInv' /\ RidInv' /\ SavedInv' /\ ModelInv' /\ AloneInv'
  BY <1>1, <1>2, ModeKept, CreateKept, RidKept, SavedKept, ModelKept, AloneKept
<1> QED
  BY <1>3, <1>4, <1>5 DEF IInv

-----------------------------------------------------------------------------
(* The control part of the invariant under the steps of DMTCP and of the   *)
(* template thread.                                                        *)

(* What a step that moves no thread leaves as it is.                        *)
Still == UNCHANGED <<prog, pc, step, owner, tokens, rec, thr, rid, raced, mailbox, ended>>

LEMMA StillFrame ==
  ASSUME IInv, Still,
         mode = "TARGET_BRANCH_AFTER_RESTART" => mode' = "TARGET_BRANCH_AFTER_RESTART"
  PROVE  /\ DataInv' /\ CreateInv' /\ RidInv' /\ AloneInv'
         /\ \A t \in Threads : ThreadInv(t)' /\ Announced(t)' = Announced(t)
         /\ Alive' = Alive /\ Recorded' = Recorded /\ Registered' = Registered
<1>0. /\ DataInv /\ CreateInv /\ RidInv /\ AloneInv /\ \A t \in Threads : ThreadInv(t)
      /\ UNCHANGED <<prog, pc, step, owner, tokens, rec, thr, rid, raced, mailbox, ended>>
  BY DEF IInv, Still
<1>1. \A t : Cur(t)' = Cur(t) /\ Announced(t)' = Announced(t) /\ \A k : In(t, k)' = In(t, k)
  BY <1>0, CurFrame
<1>2. Alive' = Alive /\ Recorded' = Recorded /\ Registered' = Registered
  BY <1>0 DEF Alive, Recorded, Registered
<1>3. DataInv' /\ CreateInv'
  BY <1>0 DEF DataInv, CreateInv
<1>4. RidInv'
  BY <1>0, <1>2 DEF RidInv
<1>5. AloneInv'
  BY <1>0, <1>1 DEF AloneInv
<1>6. \A t \in Threads : ThreadInv(t)'
  BY <1>0, <1>1 DEF ThreadInv
<1> QED
  BY <1>1, <1>2, <1>3, <1>4, <1>5, <1>6

(* An event of DMTCP while McMini has no model yet.                         *)
LEMMA EventKeeps ==
  ASSUME IInv, Still, UNCHANGED <<saved, posts, counted, left, model>>,
         mode' \in Modes, suspended' \in BOOLEAN, candidates' \subseteq {"ckpt", "tsan"},
         mode = "TARGET_BRANCH_AFTER_RESTART" => mode' = mode,
         ModeInv', tmpl' = tmpl \/ (tmpl = "asleep" /\ tmpl' = "count")
  PROVE  IInv'
<1>1. /\ DataInv' /\ CreateInv' /\ RidInv' /\ AloneInv'
      /\ \A t \in Threads : ThreadInv(t)' /\ Announced(t)' = Announced(t)
      /\ Alive' = Alive /\ Recorded' = Recorded /\ Registered' = Registered
  BY StillFrame
<1>2. TypeOK'
  BY DEF IInv, TypeOK, Still
<1>3. SavedInv'
  <2>1. UNCHANGED <<step, thr, rid, mailbox>> /\ SavedInv
    BY DEF Still, IInv
  <2> QED
    BY <1>1, <2>1 DEF SavedInv
<1>4. ModelInv'
  <2>1. ModelInv /\ UNCHANGED <<rec, rid, step, thr, pc, prog>>
    BY DEF Still, IInv
  <2>2. saved \subseteq Threads
    BY DEF IInv, TypeOK
  <2>3. Busy' = Busy
    <3>1. \A t \in Threads : In(t, "thread_exit")' = In(t, "thread_exit")
      BY <2>1, CurFrame
    <3> QED
      BY <1>1, <2>1, <3>1 DEF Busy, Alive
  <2>4. \A o \in Objects : TranslatedObject(rec[o])' = TranslatedObject(rec[o])
    BY <2>1
  <2> QED
    BY <1>1, <2>1, <2>2, <2>3, <2>4 DEF ModelInv
<1> QED
  BY <1>1, <1>2, <1>3, <1>4 DEF IInv

LEMMA CheckpointThreadKeeps ==
  ASSUME IInv, CreateCheckpointThread
  PROVE  IInv'
<1>0. /\ TypeOK /\ DataInv /\ ModeInv /\ CreateInv /\ RidInv /\ SavedInv /\ ModelInv
      /\ AloneInv /\ \A v \in Threads : ThreadInv(v)
  BY DEF IInv
<1>1. /\ mode = "PRE_CHECKPOINT_THREAD" /\ thr[Main] = "NONE"
      /\ rid' = [rid EXCEPT ![Main] = NextRid]
      /\ thr' = [thr EXCEPT ![Main] = "ALIVE"]
      /\ candidates' \subseteq {"ckpt", "tsan"}
      /\ UNCHANGED <<prog, mode, suspended, pc, step, owner, tokens, rec, raced, mailbox,
                     saved, posts, tmut, tmpl, counted, left, model, ended>>
  BY DEF CreateCheckpointThread, real, restart
<1>2. /\ Main \in Threads /\ rid \in [Threads -> Ids \cup {-1}]
      /\ thr \in [Threads -> {"NONE", "ALIVE", "EXITED"}]
  BY <1>0, RecordAssumption DEF TypeOK
<1>3. rid[Main] = -1
  BY <1>0, <1>1, <1>2 DEF ThreadInv
<1>4. /\ step = [t \in Threads |-> IF t = Main THEN "call" ELSE "absent"]
      /\ tmpl = "asleep" /\ saved = {} /\ counted = {} /\ left = 0 /\ model = NoOp
  BY <1>0, <1>1 DEF ModeInv, SavedInv, BeforeRecord, InRestart
<1>5. /\ Registered' = Registered \cup {Main} /\ NextRid \in Ids
  BY <1>0, <1>1, <1>2, <1>3, Registration
<1>6. rid' \in [Threads -> Ids \cup {-1}] /\ thr' \in [Threads -> {"NONE", "ALIVE", "EXITED"}]
  BY <1>1, <1>2, <1>5
<1>7. TypeOK' /\ DataInv'
  BY <1>0, <1>1, <1>4, <1>6 DEF TypeOK, DataInv
<1>8. RidInv'
  <2>1. Recorded' = Recorded \cup {Main}
    BY <1>1, <1>2 DEF Recorded
  <2>2. Recorded = Registered
    BY <1>0, <1>1, RegisteredIsRecorded
  <2> QED
    BY <1>0, <1>1, <1>2, <1>3, <2>1, <2>2, RidAdded
<1>9. ModeInv'
  BY <1>0, <1>1, <1>2, <1>4, <1>6 DEF ModeInv, BeforeRecord, Recording, InRestart
<1>c. \A t : Cur(t)' = Cur(t) /\ \A k : In(t, k)' = In(t, k)
  BY <1>1, CurFrame
<1>10. CreateInv' /\ AloneInv'
  BY <1>0, <1>1, <1>c DEF CreateInv, AloneInv
<1>11. \A t \in Threads : ThreadInv(t)'
  <2>1. ASSUME NEW t \in Threads \ {Main} PROVE ThreadInv(t)'
    <3>1. rid'[t] = rid[t] /\ thr'[t] = thr[t]
      BY <1>1, <1>2
    <3> QED
      BY <1>0, <1>1, <1>c, <3>1 DEF ThreadInv
  <2>2. ThreadInv(Main)'
    <3>1. thr'[Main] = "ALIVE" /\ step'[Main] = "call" /\ rid'[Main] \in Ids
      BY <1>1, <1>2, <1>4, <1>5
    <3>2. -1 \notin Ids
      BY RecordAssumption, FS_CardinalityType DEF Ids
    <3> QED
      BY <3>1, <3>2 DEF ThreadInv
  <2> QED
    BY <2>1, <2>2
<1>12. SavedInv' /\ ModelInv'
  <2>1. \A t \in Threads : step'[t] # "checkin"
    BY <1>1, <1>4
  <2>2. SavedInv'
    BY <1>0, <1>1, <1>4, <2>1 DEF SavedInv
  <2> QED
    BY <1>1, <1>4, <2>2 DEF ModelInv
<1> QED
  BY <1>7, <1>8, <1>9, <1>10, <1>11, <1>12 DEF IInv

LEMMA DmtcpKeeps ==
  ASSUME IInv, Dmtcp
  PROVE  IInv'
<1>0. TypeOK /\ ModeInv
  BY DEF IInv
<1> USE DEF Still, real, records, restart
<1> USE DEF BeforeRecord, Recording, InRestart, Modes
<1>1. CASE DmtcpEventInit
  <2>1. Still /\ UNCHANGED <<saved, posts, counted, left, model, tmpl, suspended, candidates>>
        /\ mode = "PRE_DMTCP_INIT" /\ mode' = "PRE_CHECKPOINT_THREAD"
    BY <1>1 DEF DmtcpEventInit
  <2>2. ModeInv'
    BY <1>0, <2>1 DEF ModeInv
  <2> QED
    BY <1>0, <2>1, <2>2, EventKeeps DEF TypeOK
<1>2. CASE CreateCheckpointThread
  BY <1>2, CheckpointThreadKeeps
<1>3. ASSUME NEW c \in candidates, ResolveCandidate(c) PROVE IInv'
  <2>1. Still /\ UNCHANGED <<saved, posts, counted, left, model, tmpl, suspended>>
        /\ ~ suspended /\ candidates' = candidates \ {c}
        /\ mode' = IF c = "ckpt" THEN "RECORD" ELSE mode
    BY <1>3 DEF ResolveCandidate
  <2>2. ModeInv'
    BY <1>0, <2>1 DEF ModeInv
  <2>3. mode = "TARGET_BRANCH_AFTER_RESTART" => mode' = mode
    BY <1>0, <2>1 DEF ModeInv
  <2>4. mode' \in Modes /\ candidates' \subseteq {"ckpt", "tsan"} /\ suspended' \in BOOLEAN
    BY <1>0, <2>1 DEF TypeOK
  <2> QED
    BY <2>1, <2>2, <2>3, <2>4, EventKeeps
<1>4. CASE DmtcpEventPrecheckpoint
  <2>1. Still /\ UNCHANGED <<saved, posts, counted, left, model, tmpl, candidates>>
        /\ Recording /\ mode' = "PRE_CHECKPOINT" /\ suspended' = TRUE
    BY <1>4 DEF DmtcpEventPrecheckpoint
  <2>2. ModeInv'
    BY <1>0, <2>1 DEF ModeInv
  <2> QED
    BY <1>0, <2>1, <2>2, EventKeeps DEF TypeOK
<1>5. CASE DmtcpEventResume
  <2>1. Still /\ UNCHANGED <<saved, posts, counted, left, model, tmpl, candidates, mode>>
        /\ suspended' = FALSE
    BY <1>5 DEF DmtcpEventResume
  <2>2. ModeInv'
    BY <1>0, <2>1 DEF ModeInv
  <2> QED
    BY <1>0, <2>1, <2>2, EventKeeps DEF TypeOK
<1>6. ASSUME NEW into \in {"DMTCP_RESTART_INTO_BRANCH", "DMTCP_RESTART_INTO_TEMPLATE"},
             DmtcpEventRestart(into)
      PROVE  IInv'
  <2>1. Still /\ UNCHANGED <<saved, posts, counted, left, model, candidates>>
        /\ suspended /\ mode' = into /\ suspended' = FALSE /\ tmpl' = "count"
    BY <1>6 DEF DmtcpEventRestart
  <2>2. tmpl = "asleep" /\ mode = "PRE_CHECKPOINT" /\ model = NoOp
    BY <1>0, <2>1 DEF ModeInv
  <2>3. ModeInv'
    BY <1>0, <2>1, <2>2 DEF ModeInv
  <2> QED
    BY <1>0, <2>1, <2>2, <2>3, EventKeeps DEF TypeOK
<1> QED
  BY <1>1, <1>2, <1>3, <1>4, <1>5, <1>6 DEF Dmtcp

(* The template thread at its barrier.                                      *)
LEMMA BarrierKeeps ==
  ASSUME IInv, CountThreads \/ AwaitThread \/ Publish
  PROVE  IInv'
<1>0. /\ TypeOK /\ ModeInv /\ SavedInv /\ ModelInv /\ \A t \in Threads : ThreadInv(t)
      /\ saved \subseteq Threads
  BY DEF IInv, TypeOK
<1>1. Still /\ UNCHANGED <<suspended, candidates, saved, model>>
      /\ tmpl \in {"count", "wait"} /\ tmpl' \in {"wait", "transfer", "loop"}
  BY DEF CountThreads, AwaitThread, Publish, Still, system, real, records
<1>2. InRestart /\ model = NoOp
  BY <1>0, <1>1 DEF ModeInv
<1>3. /\ DataInv' /\ CreateInv' /\ RidInv' /\ AloneInv'
      /\ \A t \in Threads : ThreadInv(t)' /\ Announced(t)' = Announced(t)
      /\ Alive' = Alive /\ Recorded' = Recorded /\ Registered' = Registered
  BY <1>1, <1>2, StillFrame DEF InRestart
<1>f. /\ IsFiniteSet(Alive) /\ Cardinality(Alive) \in Nat /\ Cardinality(counted) \in Nat
      /\ Alive \subseteq Registered /\ Alive \subseteq Recorded
      /\ posts \in Nat /\ left \in Nat /\ counted \subseteq Registered
  <2>1. Alive \subseteq Threads /\ counted \subseteq Threads
    BY <1>0 DEF Alive, TypeOK
  <2>2. IsFiniteSet(Alive) /\ IsFiniteSet(counted)
    BY <2>1, RecordAssumption, FS_Subset
  <2>3. Alive \subseteq Registered /\ Alive \subseteq Recorded
    BY <1>0 DEF Alive, Registered, Recorded, ThreadInv
  <2> QED
    BY <1>0, <2>2, <2>3, FS_CardinalityType DEF TypeOK, Registered
<1>4. ModelInv'
  BY <1>1, <1>2 DEF ModelInv
<1>5. CASE CountThreads
  <2>1. /\ tmpl = "count" /\ counted' = Alive /\ left' = Cardinality(Alive)
        /\ tmpl' = "wait" /\ UNCHANGED <<mode, posts>>
    BY <1>5 DEF CountThreads, system
  <2>2. TypeOK'
    BY <1>0, <1>1, <1>3, <1>f, <2>1 DEF TypeOK, Still, Registered
  <2>3. ModeInv'
    BY <1>0, <1>1, <1>2, <2>1 DEF ModeInv, Still, BeforeRecord, Recording, InRestart
  <2>4. SavedInv'
    <3>1. counted = {} /\ left = 0 /\ posts + (Cardinality(counted) - left) = Cardinality(saved)
      BY <1>0, <2>1 DEF SavedInv
    <3>2. Cardinality(counted) = 0
      BY <3>1, FS_EmptySet
    <3>3. posts' + (Cardinality(counted') - left') = Cardinality(saved)
          /\ left' <= Cardinality(counted')
      BY <1>f, <2>1, <3>1, <3>2
    <3> QED
      BY <1>0, <1>1, <1>3, <1>f, <2>1, <3>3 DEF SavedInv, Still
  <2> QED
    BY <1>3, <1>4, <2>2, <2>3, <2>4 DEF IInv
<1>6. CASE AwaitThread
  <2>1. /\ tmpl = "wait" /\ left > 0 /\ posts > 0 /\ left' = left - 1 /\ posts' = posts - 1
        /\ UNCHANGED <<mode, counted, tmpl>>
    BY <1>6 DEF AwaitThread, system
  <2>2. left' \in Nat /\ posts' \in Nat
    BY <1>f, <2>1
  <2>3. TypeOK'
    BY <1>0, <1>1, <2>1, <2>2 DEF TypeOK, Still
  <2>4. ModeInv'
    BY <1>0, <1>1, <1>2, <2>1 DEF ModeInv, Still, BeforeRecord, Recording, InRestart
  <2>5. SavedInv'
    <3>1. posts + (Cardinality(counted) - left) = Cardinality(saved)
          /\ left <= Cardinality(counted)
      BY <1>0 DEF SavedInv
    <3>2. posts' + (Cardinality(counted) - left') = Cardinality(saved)
          /\ left' <= Cardinality(counted)
      <4>1. Cardinality(counted) \in Nat /\ posts \in Nat /\ left \in Nat
        BY <1>f
      <4> QED
        BY <2>1, <3>1, <4>1
    <3> QED
      BY <1>0, <1>1, <1>3, <2>1, <3>2 DEF SavedInv, Still
  <2> QED
    BY <1>3, <1>4, <2>3, <2>4, <2>5 DEF IInv
<1>7. CASE Publish
  <2>1. /\ tmpl = "wait" /\ left = 0 /\ UNCHANGED <<posts, counted, left>>
        /\ \/ mode' = "TARGET_BRANCH_AFTER_RESTART" /\ tmpl' = "transfer"
           \/ mode # "DMTCP_RESTART_INTO_BRANCH" /\ mode' = mode /\ tmpl' = "loop"
    BY <1>7 DEF Publish
  <2>2. TypeOK'
    BY <1>0, <1>1, <2>1 DEF TypeOK, Still, Modes
  <2>3. ModeInv'
    BY <1>0, <1>1, <1>2, <2>1 DEF ModeInv, Still, BeforeRecord, Recording, InRestart
  <2>4. SavedInv'
    BY <1>0, <1>1, <1>3, <2>1 DEF SavedInv, Still
  <2> QED
    BY <1>3, <1>4, <2>2, <2>3, <2>4 DEF IInv
<1> QED
  BY <1>5, <1>6, <1>7

(* The threads that are moved by the fork and by the broadcast.             *)
LEMMA ForkKeeps ==
  ASSUME IInv, Fork \/ Broadcast
  PROVE  IInv'
<1>0. /\ TypeOK /\ DataInv /\ ModeInv /\ CreateInv /\ RidInv /\ SavedInv
      /\ AloneInv /\ \A v \in Threads : ThreadInv(v)
      /\ step \in [Threads -> Steps] /\ Main \in Threads /\ saved \subseteq Threads
  BY RecordAssumption DEF IInv, TypeOK
<1>1. /\ UNCHANGED <<prog, suspended, candidates, pc, owner, tokens, rec, thr, rid, raced,
                     mailbox, saved, posts, counted, left, model, ended>>
      /\ tmpl \in {"loop", "broadcast"} /\ tmpl' \in {"broadcast", "transfer"}
      /\ mode' = "TARGET_BRANCH_AFTER_RESTART"
  <2>1. tmpl = "broadcast" => mode = "TARGET_BRANCH_AFTER_RESTART"
    BY <1>0 DEF ModeInv
  <2> QED
    BY <2>1 DEF Fork, Broadcast, system, real, records
<1>2. model = NoOp /\ ~ BeforeRecord /\ ~ suspended
  BY <1>0, <1>1 DEF ModeInv, BeforeRecord
<1>3. /\ step' \in [Threads -> Steps]
      /\ \A t \in Threads : \/ step'[t] = step[t]
                            \/ step'[t] = "park" /\ t \in saved
                            \/ step'[t] = "park" /\ step[t] = "parked"
                            \/ /\ step'[t] = "gone" /\ t \notin saved
                               /\ step[t] \notin {"absent", "dead"}
      /\ \A t \in Threads : step'[t] # "checkin" \/ tmpl = "broadcast"
  <2>0. {"park", "gone"} \subseteq Steps
    BY DEF Steps
  <2>1. CASE Fork
    BY <1>0, <2>0, <2>1 DEF Fork
  <2>2. CASE Broadcast
    BY <1>0, <2>0, <2>2 DEF Broadcast
  <2> QED
    BY <2>1, <2>2
<1>c. \A t : Cur(t)' = Cur(t) /\ Announced(t)' = Announced(t) /\ \A k : In(t, k)' = In(t, k)
  BY <1>1, CurFrame
<1>s. \A t \in Threads : step'[t] = "park" =>
        step[t] \in {"await", "park", "parking", "parked"} /\ thr[t] = "ALIVE"
  <2>1. \A t \in saved : step[t] \in {"await", "park", "parking", "parked"} /\ thr[t] = "ALIVE"
    BY <1>0 DEF SavedInv
  <2>2. \A t \in Threads : step[t] \in {"park", "parked"} => thr[t] = "ALIVE"
    BY <1>0, <1>2, AtWork
  <2> QED
    BY <1>3, <2>1, <2>2
<1>4. TypeOK' /\ DataInv'
  BY <1>0, <1>1, <1>3 DEF TypeOK, DataInv, Modes
<1>5. ModeInv'
  <2>1. BeforeRecord' = FALSE
    BY <1>1 DEF BeforeRecord
  <2>2. "ckpt" \notin candidates /\ thr[Main] # "NONE"
    BY <1>0, <1>1, <1>2 DEF ModeInv, BeforeRecord, InRestart
  <2> QED
    BY <1>0, <1>1, <1>2, <2>1, <2>2 DEF ModeInv
<1>6. CreateInv'
  <2> SUFFICES ASSUME NEW u \in Threads, NEW i \in DOMAIN prog[u], prog[u][i].kind = "create",
                      \/ pc[u] < i
                      \/ pc[u] = i /\ step'[u] \in {"absent", "start", "call"}
               PROVE  step'[prog[u][i].obj] = "absent"
    BY <1>1 DEF CreateInv
  <2>1. step'[u] \in {"absent", "start", "call"} => step[u] \in {"absent", "start", "call"}
    BY <1>3
  <2>2. step[prog[u][i].obj] = "absent"
    BY <1>0, <2>1 DEF CreateInv
  <2>3. prog[u][i].obj \in Threads
    <3>1. prog[u] \in Seq(Operations)
      BY <1>0, RecordAssumption DEF DataInv
    <3>2. prog[u][i] \in Operations
      BY <3>1
    <3> QED
      BY <3>2 DEF Operations, WellFormed
  <2> QED
    BY <1>3, <1>s, <2>2, <2>3
<1>7. RidInv'
  <2>1. Recorded' = Recorded /\ Registered' = Registered
    BY <1>1 DEF Recorded, Registered
  <2> QED
    BY <1>0, <1>1, <2>1 DEF RidInv
<1>8. AloneInv'
  <2>1. step'[Main] \notin {"creating", "gone"} => step[Main] \notin {"creating", "gone"}
    BY <1>0, <1>3, <1>s
  <2>2. \A t \in Threads : step[t] = "absent" => step'[t] = "absent"
    BY <1>3, <1>s
  <2> QED
    BY <1>0, <1>1, <1>c, <2>1, <2>2 DEF AloneInv
<1>9. ASSUME NEW t \in Threads PROVE ThreadInv(t)'
  <2>1. CASE step'[t] = step[t]
    <3>1. step[t] = "update" /\ In(t, "join") => step'[Cur(t).obj] = "dead"
      <4> SUFFICES ASSUME step[t] = "update", In(t, "join")
                   PROVE  step'[Cur(t).obj] = "dead"
        OBVIOUS
      <4>1. Cur(t).obj \in Threads /\ step[Cur(t).obj] = "dead"
        BY <1>0, ObjectOf DEF ThreadInv, In
      <4> QED
        BY <1>3, <1>s, <4>1
    <3> QED
      BY <1>0, <1>1, <1>c, <2>1, <3>1 DEF ThreadInv
  <2>2. CASE step'[t] = "park"
    <3>1. thr[t] = "ALIVE" /\ rid[t] # -1
      BY <1>0, <1>s, <2>2 DEF ThreadInv
    <3> QED
      BY <1>1, <2>2, <3>1 DEF ThreadInv
  <2>3. CASE step'[t] = "gone" /\ step[t] \notin {"absent", "dead"}
    <3>1. step[t] # "await" /\ thr[t] = "NONE" => rid[t] = -1
      BY <1>0 DEF ThreadInv
    <3>2. step[t] = "await" /\ thr[t] = "NONE" => rid[t] = -1 \/ mode = "TARGET_BRANCH_AFTER_RESTART"
      BY <1>0 DEF ThreadInv
    <3>3. thr[t] # "EXITED"
      BY <1>0, <2>3 DEF ThreadInv
    <3>4. thr[t] = "NONE" => rid[t] = -1
      <4>1. CASE tmpl = "loop"
        BY <1>0, <3>1, <3>2, <4>1 DEF ModeInv
      <4>2. CASE tmpl = "broadcast"
        <5>1. step'[t] = step[t]
          BY <1>0, <1>s, <2>3, <4>2 DEF Fork, Broadcast
        <5> QED
          BY <3>1, <2>3, <5>1
      <4> QED
        BY <1>1, <4>1, <4>2
    <3>5. rid[t] = -1 => thr[t] = "NONE"
      BY <1>0 DEF ThreadInv
    <3> QED
      BY <1>1, <2>3, <3>3, <3>4, <3>5 DEF ThreadInv
  <2> QED
    BY <1>3, <2>1, <2>2, <2>3
<1>10. SavedInv'
  <2>1. \A t \in Threads : t \in saved \/ step'[t] = "checkin" =>
          thr[t] = "ALIVE" /\ mailbox[rid[t]] = Announced(t)
    BY <1>0, <1>3, <1>s DEF SavedInv
  <2>2. \A t \in saved : step'[t] \in {"await", "park", "parking", "parked"}
    BY <1>0, <1>3 DEF SavedInv
  <2>3. Recorded' = Recorded
    BY <1>1 DEF Recorded
  <2> QED
    BY <1>0, <1>1, <1>c, <2>1, <2>2, <2>3 DEF SavedInv
<1>11. ModelInv'
  BY <1>1, <1>2 DEF ModelInv
<1> QED
  BY <1>4, <1>5, <1>6, <1>7, <1>8, <1>9, <1>10, <1>11 DEF IInv

(* A function that counts n numbers below n upwards has no choice.          *)
LEMMA IncreasingCount ==
  ASSUME NEW n \in Nat, NEW f, \A i \in 1..n : f[i] \in 0..(n - 1),
         \A i, j \in 1..n : i < j => f[i] < f[j]
  PROVE  \A i \in 1..n : f[i] = i - 1
<1>1. \A k \in Nat : k + 1 <= n => f[k + 1] >= k
  <2> DEFINE S == {k \in Nat : k + 1 <= n => f[k + 1] >= k}
  <2>1. 0 \in S
    <3>1. 0 + 1 <= n => 1 \in 1..n
      OBVIOUS
    <3> QED
      BY <3>1
  <2>2. \A k \in Nat : k \in S => k + 1 \in S
    <3> SUFFICES ASSUME NEW k \in Nat, k + 1 <= n => f[k + 1] >= k, k + 2 <= n
                 PROVE  f[k + 2] >= k + 1
      <4>1. \A k \in Nat : (k + 1) + 1 = k + 2
        OBVIOUS
      <4> QED
        BY <4>1
    <3>1. k + 1 \in 1..n /\ k + 2 \in 1..n /\ k + 1 < k + 2
      OBVIOUS
    <3>2. f[k + 1] \in Nat /\ f[k + 2] \in Nat /\ f[k + 1] < f[k + 2]
      BY <3>1
    <3> QED
      BY <3>1, <3>2
  <2> HIDE DEF S
  <2>3. \A k \in Nat : k \in S
    BY <2>1, <2>2, NatInd
  <2> QED
    BY <2>3 DEF S
<1>2. \A k \in Nat : k < n => f[n - k] <= n - 1 - k
  <2> DEFINE S == {k \in Nat : k < n => f[n - k] <= n - 1 - k}
  <2>1. 0 \in S
    <3>1. 0 < n => n \in 1..n /\ n - 0 = n /\ n - 1 - 0 = n - 1
      OBVIOUS
    <3> QED
      BY <3>1
  <2>2. \A k \in Nat : k \in S => k + 1 \in S
    <3> SUFFICES ASSUME NEW k \in Nat, k < n => f[n - k] <= n - 1 - k, k + 1 < n
                 PROVE  f[n - (k + 1)] <= n - 1 - (k + 1)
      OBVIOUS
    <3>1. n - (k + 1) \in 1..n /\ n - k \in 1..n /\ n - (k + 1) < n - k
      OBVIOUS
    <3>2. f[n - (k + 1)] \in Nat /\ f[n - k] \in Nat /\ f[n - (k + 1)] < f[n - k]
      BY <3>1
    <3> QED
      BY <3>1, <3>2
  <2> HIDE DEF S
  <2>3. \A k \in Nat : k \in S
    BY <2>1, <2>2, NatInd
  <2> QED
    BY <2>3 DEF S
<1> SUFFICES ASSUME NEW i \in 1..n
             PROVE  f[i] = i - 1
  OBVIOUS
<1>3. f[i] >= i - 1
  <2>1. i - 1 \in Nat /\ (i - 1) + 1 = i /\ i <= n
    OBVIOUS
  <2> QED
    BY <1>1, <2>1
<1>4. f[i] <= i - 1
  <2>1. n - i \in Nat /\ n - i < n /\ n - (n - i) = i /\ n - 1 - (n - i) = i - 1
    OBVIOUS
  <2> QED
    BY <1>2, <2>1
<1>5. f[i] \in Nat
  OBVIOUS
<1> QED
  BY <1>3, <1>4, <1>5

(* The sorted runners are the recorded threads, at the places of their ids. *)
LEMMA RunnersInOrder ==
  ASSUME TypeOK, RidInv, \A t \in Threads : ThreadInv(t)
  PROVE  \A i \in DOMAIN Runners : Runners[i] \in Recorded /\ rid[Runners[i]] = i - 1
<1> DEFINE n == Cardinality(Recorded)
           Sorted(s) == \A i, j \in DOMAIN s : i < j => rid[s[i]] < rid[s[j]]
<1>0. n \in Nat /\ \A t \in Recorded : rid[t] \in 0..(n - 1)
  <2>1. n \in Nat
    BY FiniteRecorded
  <2>2. \A t \in Recorded : rid[t] \in Ids /\ rid[t] < n
    BY RegisteredIsRecorded DEF TypeOK, RidInv, Registered
  <2>3. \A t \in Recorded : rid[t] \in Nat
    BY <2>2 DEF Ids
  <2> QED
    BY <2>1, <2>2, <2>3
<1>1. \E s \in SetToSeqs(Recorded) : Sorted(s)
  <2> DEFINE w == [i \in 1..n |-> CHOOSE t \in Recorded : rid[t] = i - 1]
  <2>1. \A i \in 1..n : w[i] \in Recorded /\ rid[w[i]] = i - 1
    <3> SUFFICES ASSUME NEW i \in 1..n
                 PROVE  w[i] \in Recorded /\ rid[w[i]] = i - 1
      OBVIOUS
    <3>1. i - 1 \in 0..(n - 1)
      BY <1>0
    <3>2. \E t \in Recorded : rid[t] = i - 1
      BY <3>1 DEF RidInv
    <3> QED
      BY <3>2
  <2>2. w \in [1..n -> Recorded] /\ DOMAIN w = 1..n
    BY <2>1
  <2> HIDE DEF w
  <2>3. \A i, j \in 1..n : i # j => w[i] # w[j]
    BY <2>1
  <2>4. w \in SetToSeqs(Recorded)
    BY <2>2, <2>3 DEF SetToSeqs
  <2>5. Sorted(w)
    <3> SUFFICES ASSUME NEW i \in 1..n, NEW j \in 1..n, i < j
                 PROVE  rid[w[i]] < rid[w[j]]
      BY <2>2
    <3> QED
      BY <2>1
  <2> QED
    BY <2>4, <2>5
<1>2. Runners \in SetToSeqs(Recorded) /\ Sorted(Runners)
  BY <1>1, Zenon DEF Runners
<1>3. Runners \in [1..n -> Recorded]
  BY <1>2 DEF SetToSeqs
<1>4. PICK r : r = Runners
  OBVIOUS
<1> DEFINE f == [i \in 1..n |-> rid[r[i]]]
<1>5. \A i \in 1..n : f[i] \in 0..(n - 1)
  BY <1>0, <1>3, <1>4
<1>6. \A i, j \in 1..n : i < j => f[i] < f[j]
  BY <1>2, <1>3, <1>4
<1>7. \A i \in 1..n : f[i] = rid[r[i]]
  OBVIOUS
<1> HIDE DEF n, f
<1>8. \A i \in 1..n : f[i] = i - 1
  BY <1>0, <1>5, <1>6, IncreasingCount
<1> QED
  BY <1>3, <1>4, <1>7, <1>8

(* McMini builds its model.                                                 *)
LEMMA TransferKeeps ==
  ASSUME IInv, Transfer
  PROVE  IInv'
<1>0. /\ TypeOK /\ ModeInv /\ SavedInv /\ RidInv /\ \A t \in Threads : ThreadInv(t)
      /\ saved \subseteq Threads
  BY DEF IInv, TypeOK
<1>1. Still /\ UNCHANGED <<mode, suspended, candidates, saved, posts, counted, left>>
      /\ tmpl = "transfer" /\ tmpl' = "done"
  BY DEF Transfer, Still, system, real, records
<1>2. /\ DataInv' /\ CreateInv' /\ RidInv' /\ AloneInv'
      /\ \A t \in Threads : ThreadInv(t)' /\ Announced(t)' = Announced(t)
      /\ Alive' = Alive /\ Recorded' = Recorded /\ Registered' = Registered
  BY <1>1, StillFrame
<1>3. TypeOK' /\ SavedInv'
  BY <1>0, <1>1, <1>2 DEF TypeOK, SavedInv, Still
<1>4. ModeInv'
  BY <1>0, <1>1 DEF ModeInv, Still, BeforeRecord, Recording, InRestart
<1>5. /\ \A o \in Objects : model'.objs[o] = TranslatedObject(rec[o])
      /\ model'.runners = Runners
      /\ \A t \in Recorded : model'.next[t] = FirstTransition(t)
  <2>1. PICK b : model' = [failed |-> b,
                objs |-> [o \in Objects |-> TranslatedObject(rec[o])],
                runners |-> Runners,
                thr |-> [t \in Recorded |-> TranslatedRunner(t)],
                next |-> [t \in Recorded |-> FirstTransition(t)]]
    BY DEF Transfer
  <2> QED
    BY <2>1
<1>6. \A t \in saved : model'.next[t] = Announced(t)
  BY <1>0, <1>5 DEF SavedInv, FirstTransition, Recorded
<1>7. \A i \in DOMAIN Runners : Runners[i] \in Registered /\ rid[Runners[i]] = i - 1
  BY <1>0, RunnersInOrder, RegisteredIsRecorded
<1>8. \A o \in Objects : TranslatedObject(rec[o])' = TranslatedObject(rec[o])
  BY <1>1 DEF Still
<1>9. ModelInv'
  BY <1>0, <1>1, <1>2, <1>5, <1>6, <1>7, <1>8 DEF ModelInv, Still
<1> QED
  BY <1>2, <1>3, <1>4, <1>9 DEF IInv

LEMMA InitIsGood ==
  ASSUME Init
  PROVE  IInv
<1>0. /\ prog \in Programs /\ mode = "PRE_DMTCP_INIT" /\ suspended = FALSE /\ candidates = {}
      /\ pc = [t \in Threads |-> 1]
      /\ step = [t \in Threads |-> IF t = Main THEN "call" ELSE "absent"]
      /\ rec = [o \in Objects |-> NoRecord]
      /\ thr = [t \in Threads |-> "NONE"] /\ rid = [t \in Threads |-> -1]
      /\ DOMAIN mailbox = Ids /\ saved = {} /\ posts = 0 /\ tmpl = "asleep" /\ counted = {}
      /\ left = 0 /\ model = NoOp /\ ended = "no" /\ raced = {}
      /\ owner = [m \in Mutexes |-> NoThread] /\ tokens = [s \in Sems |-> 0]
      /\ Main \in Threads
  BY RecordAssumption DEF Init
<1>1. TypeOK
  BY <1>0 DEF TypeOK, Modes, Steps
<1>2. DataInv
  BY <1>0, NewRecords DEF DataInv
<1>3. ModeInv
  BY <1>0 DEF ModeInv, BeforeRecord
<1>4. \A t \in Threads : ThreadInv(t)
  BY <1>0 DEF ThreadInv
<1>5. CreateInv
  <2> SUFFICES ASSUME NEW t \in Threads, NEW i \in DOMAIN prog[t], prog[t][i].kind = "create"
               PROVE  step[prog[t][i].obj] = "absent"
    BY DEF CreateInv
  <2>1. prog[t] \in Seq(Operations) /\ CreatesOnce(prog)
    BY <1>0, RecordAssumption
  <2>2. prog[t][i] \in Operations
    BY <2>1
  <2>3. prog[t][i].obj \in Threads \ {Main}
    BY <2>1, <2>2 DEF Operations, WellFormed, CreatesOnce
  <2> QED
    BY <1>0, <2>3
<1>c. Recorded = {} /\ Registered = {} /\ Cardinality({}) = 0
  BY <1>0, FS_EmptySet DEF Recorded, Registered
<1>6. RidInv
  <2>1. 0..(0 - 1) = {}
    OBVIOUS
  <2> QED
    BY <1>c, <2>1 DEF RidInv
<1>7. SavedInv
  <2>1. posts + (Cardinality(counted) - left) = Cardinality(saved) /\ left <= Cardinality(counted)
    BY <1>0, <1>c
  <2> QED
    BY <1>0, <1>c, <2>1 DEF SavedInv
<1>8. ModelInv /\ AloneInv
  BY <1>0 DEF ModelInv, AloneInv
<1> QED
  BY <1>1, <1>2, <1>3, <1>4, <1>5, <1>6, <1>7, <1>8 DEF IInv

LEMMA NextKeeps ==
  ASSUME IInv, [Next]_vars
  PROVE  IInv'
<1>1. CASE Dmtcp
  BY <1>1, DmtcpKeeps
<1>2. CASE TemplateThread
  BY <1>2, BarrierKeeps, ForkKeeps, TransferKeeps DEF TemplateThread
<1>3. ASSUME NEW t \in Threads, Thread(t) PROVE IInv'
  BY <1>3, ThreadKeeps
<1>4. CASE UNCHANGED vars
  <2>1. Still /\ UNCHANGED <<mode, suspended, candidates, saved, posts, tmpl, counted, left, model>>
    BY <1>4 DEF vars, Still, system, real, records, restart
  <2>2. ModeInv'
    BY <2>1 DEF IInv, ModeInv, Still, BeforeRecord, Recording, InRestart
  <2> QED
    BY <2>1, <2>2, EventKeeps DEF IInv, TypeOK
<1> QED
  BY <1>1, <1>2, <1>3, <1>4 DEF Next

(* The inductive invariant: who is recorded, under which id, who has checked *)
(* in, and what McMini has been told, along all of the wrappers' steps.      *)
THEOREM Invariance == Spec => []IInv
<1>1. Init => IInv
  BY InitIsGood
<1>2. IInv /\ [Next]_vars => IInv'
  BY NextKeeps
<1> QED
  BY <1>1, <1>2, PTL DEF Spec

(* Types of the recording library's variables, for any program.              *)
THEOREM TypeCorrect == Spec => []TypeOK
<1>1. IInv => TypeOK
  BY DEF IInv
<1> QED
  BY <1>1, Invariance, PTL

(* Once the model is built and the count was right, everybody has checked in. *)
LEMMA EverybodyCheckedIn ==
  ASSUME IInv, Settled
  PROVE  saved = Alive /\ counted = saved /\ Busy = {} /\ Lost = {}
<1>0. /\ TypeOK /\ ModeInv /\ SavedInv /\ model # NoOp /\ counted = Alive
      /\ posts \in Nat /\ saved \subseteq Threads
  BY DEF IInv, Settled, TypeOK
<1>1. left = 0
  BY <1>0 DEF ModeInv, SavedInv
<1>2. saved \subseteq Alive /\ \A t \in saved : step[t] # "gone"
  BY <1>0 DEF SavedInv, Alive
<1>3. IsFiniteSet(Alive)
  BY RecordAssumption, FS_Subset DEF Alive
<1>4. /\ IsFiniteSet(saved) /\ Cardinality(saved) <= Cardinality(Alive)
      /\ Cardinality(saved) = Cardinality(Alive) => saved = Alive
  BY <1>2, <1>3, FS_Subset
<1>5. posts + (Cardinality(Alive) - 0) = Cardinality(saved)
  BY <1>0, <1>1 DEF SavedInv
<1>6. Cardinality(saved) = Cardinality(Alive)
  <2>1. Cardinality(saved) \in Nat /\ Cardinality(Alive) \in Nat
    BY <1>3, <1>4, FS_CardinalityType
  <2> QED
    BY <1>0, <1>4, <1>5, <2>1
<1>7. saved = Alive
  BY <1>4, <1>6
<1> QED
  BY <1>0, <1>2, <1>7 DEF Busy, Lost

(* The barrier of template_thread does what it is for: the living threads    *)
(* have checked in, McMini has every runner under the id of its mailbox, and *)
(* each one's pending transition is what the thread is blocked at.           *)
THEOREM CheckedIn == Spec => []ThreadsRestored
<1>1. IInv => ThreadsRestored
  <2> SUFFICES ASSUME IInv, Settled
               PROVE  /\ counted \subseteq saved
                      /\ \A i \in DOMAIN model.runners : rid[model.runners[i]] = i - 1
                      /\ \A t \in counted : model.next[t] = Announced(t)
    BY DEF ThreadsRestored
  <2>1. counted = saved
    BY EverybodyCheckedIn
  <2>2. ModelInv /\ model # NoOp
    BY DEF IInv, Settled
  <2> QED
    BY <2>1, <2>2 DEF ModelInv
<1> QED
  BY <1>1, Invariance, PTL

-----------------------------------------------------------------------------
(* What the steps mean for the objects.                                    *)

(* The wrapper a thread's step belongs to.                                  *)
LEMMA WrapperOf ==
  ASSUME NEW t \in Threads, Thread(t)
  PROVE  \/ UNCHANGED <<owner, tokens, rec, raced>>
              /\ (ThreadStart(t) \/ EnterAfterRestart(t) \/ CheckIn(t) \/ Park(t))
         \/ In(t, "mutex_init") /\ MutexInit(t)
         \/ In(t, "lock") /\ MutexLock(t)
         \/ In(t, "unlock") /\ MutexUnlock(t)
         \/ In(t, "sem_init") /\ SemInit(t)
         \/ In(t, "sem_destroy") /\ SemDestroy(t)
         \/ In(t, "sem_post") /\ SemPost(t)
         \/ In(t, "sem_wait") /\ SemWait(t)
         \/ In(t, "cond_init") /\ CondInit(t)
         \/ In(t, "cond_wait") /\ CondWait(t)
         \/ In(t, "cond_signal") /\ CondSignal(t)
         \/ In(t, "cond_broadcast") /\ CondBroadcast(t)
         \/ In(t, "cond_destroy") /\ CondDestroy(t)
         \/ Cur(t).kind \notin Wrapped \ {"join"} /\ UNCHANGED <<owner, tokens, rec, raced>>
<1>1. CASE ThreadStart(t) \/ EnterAfterRestart(t) \/ CheckIn(t) \/ Park(t)
  BY <1>1, OutsideFrame
<1>2. CASE ThreadCreate(t) \/ ThreadExit(t) \/ PthreadExit(t) \/ ThreadJoin(t) \/ ProcessEnd(t)
  <2>1. Cur(t).kind \notin Wrapped \ {"join"}
    BY <1>2 DEF ThreadCreate, ThreadExit, PthreadExit, ThreadJoin, ProcessEnd, In, Wrapped
  <2>2. UNCHANGED <<owner, tokens, rec, raced>>
    BY <1>2 DEF ThreadCreate, ThreadExit, PthreadExit, ThreadJoin, ProcessEnd, TimedOut,
       Announce, Terminate, real, records
  <2> QED
    BY <2>1, <2>2
<1>3. CASE MutexInit(t) \/ MutexLock(t) \/ MutexUnlock(t)
  BY <1>3 DEF MutexInit, MutexLock, MutexUnlock
<1>4. CASE SemInit(t) \/ SemDestroy(t) \/ SemPost(t) \/ SemWait(t)
  BY <1>4 DEF SemInit, SemDestroy, SemPost, SemWait
<1>5. CASE CondInit(t) \/ CondWait(t) \/ CondSignal(t) \/ CondBroadcast(t) \/ CondDestroy(t)
  BY <1>5 DEF CondInit, CondWait, CondSignal, CondBroadcast, CondDestroy
<1> QED
  BY <1>1, <1>2, <1>3, <1>4, <1>5 DEF Thread

(* Objects are initialized by the main thread alone.                        *)
LEMMA InitAlone ==
  ASSUME DataInv, AloneInv, InitializedFirst(prog), NEW t \in Threads,
         Cur(t).kind \in {"mutex_init", "sem_init", "cond_init"}
  PROVE  t = Main /\ \A u \in Threads \ {t} : step[u] = "absent"
<1>1. pc[t] \in DOMAIN prog[t] /\ Cur(t) = prog[t][pc[t]]
  BY CurFacts DEF DataInv
<1>2. /\ t = Main
      /\ \A j \in 1..(pc[t] - 1) : prog[t][j].kind # "create"
  BY <1>1 DEF InitializedFirst
<1>3. ~ In(Main, "create")
  BY <1>2 DEF In
<1> QED
  BY <1>2, <1>3 DEF AloneInv

(* What the others' steps mean for the threads and the objects.             *)
LEMMA OtherSteps ==
  ASSUME IInv, Dmtcp \/ TemplateThread \/ UNCHANGED vars
  PROVE  /\ UNCHANGED <<prog, pc, owner, tokens, rec, raced>>
         /\ \A t \in Threads :
              /\ \/ step'[t] = step[t]
                 \/ step'[t] \in {"park", "gone"}
              /\ step[t] = "gone" => step'[t] = "gone"
              /\ step[t] \in {"await", "park", "parking", "parked"} \/ step'[t] # "park"
              /\ thr[t] = "ALIVE" => thr'[t] = "ALIVE"
         /\ Lost \subseteq Lost'
<1>0. /\ TypeOK /\ ModeInv /\ SavedInv /\ \A v \in Threads : ThreadInv(v)
      /\ step \in [Threads -> Steps] /\ saved \subseteq Threads
      /\ thr \in [Threads -> {"NONE", "ALIVE", "EXITED"}]
  BY DEF IInv, TypeOK
<1>1. UNCHANGED <<prog, pc, owner, tokens, rec, raced>>
  BY DEF Dmtcp, DmtcpEventInit, CreateCheckpointThread, ResolveCandidate,
     DmtcpEventPrecheckpoint, DmtcpEventResume, DmtcpEventRestart, TemplateThread,
     CountThreads, AwaitThread, Publish, Fork, Broadcast, Transfer, vars, system, real,
     records, restart
<1>2. \A t \in Threads : thr[t] = "ALIVE" => thr'[t] = "ALIVE"
  <2>1. thr' = thr \/ thr' = [thr EXCEPT ![Main] = "ALIVE"]
    BY DEF Dmtcp, DmtcpEventInit, CreateCheckpointThread, ResolveCandidate,
       DmtcpEventPrecheckpoint, DmtcpEventResume, DmtcpEventRestart, TemplateThread,
       CountThreads, AwaitThread, Publish, Fork, Broadcast, Transfer, vars, records
  <2> QED
    BY <1>0, <2>1
<1>3. \A t \in saved : step[t] \in {"await", "park", "parking", "parked"}
  BY <1>0 DEF SavedInv
<1>4. \A t \in Threads :
        /\ \/ step'[t] = step[t]
           \/ step'[t] \in {"park", "gone"}
        /\ step[t] = "gone" => step'[t] = "gone"
        /\ step[t] \in {"await", "park", "parking", "parked"} \/ step'[t] # "park"
  <2>1. CASE Fork
    BY <1>0, <1>3, <2>1 DEF Fork
  <2>2. CASE Broadcast
    BY <1>0, <2>2 DEF Broadcast
  <2>3. CASE step' = step
    BY <1>0, <2>3
  <2>4. Fork \/ Broadcast \/ step' = step
    BY DEF Dmtcp, DmtcpEventInit, CreateCheckpointThread, ResolveCandidate,
       DmtcpEventPrecheckpoint, DmtcpEventResume, DmtcpEventRestart, TemplateThread,
       CountThreads, AwaitThread, Publish, Transfer, vars
  <2> QED
    BY <2>1, <2>2, <2>3, <2>4
<1>5. Lost \subseteq Lost'
  BY <1>2, <1>4 DEF Lost, Alive
<1> QED
  BY <1>1, <1>2, <1>4, <1>5

-----------------------------------------------------------------------------
(* Condition variables.                                                    *)

(* The wrappers of mutexes and semaphores, and what the wrappers share,     *)
(* leave a record alone that is not of their object, or that exists.        *)
LEMMA FoundRecord ==
  ASSUME DataInv, NEW t \in Threads, NEW new, FindOrAdd(t, new), NEW o \in Objects,
         rec[o] # NoRecord
  PROVE  rec'[o] = rec[o]
<1>1. rec \in [Objects -> RecordSet]
  BY DEF DataInv
<1>2. rec' = IF rec[Cur(t).obj] = NoRecord THEN [rec EXCEPT ![Cur(t).obj] = new] ELSE rec
  BY DEF FindOrAdd
<1>3. CASE rec[Cur(t).obj] = NoRecord
  BY <1>1, <1>2, <1>3
<1>4. CASE rec[Cur(t).obj] # NoRecord
  BY <1>2, <1>4
<1> QED
  BY <1>3, <1>4

LEMMA UpdatedRecord ==
  ASSUME DataInv, NEW t \in Threads, NEW new, Update(t, new), Cur(t).obj \in Objects
  PROVE  rec'[Cur(t).obj] = new /\ step[t] = "update"
BY DEF Update, At, DataInv

(* A waiter leaves the recorded queue by its own step, or by cond_init.     *)
LEMMA QueuesKept ==
  ASSUME TypeOK, DataInv, ModeInv, NEW t \in Threads, ThreadInv(t), Thread(t),
         ~ (In(t, "cond_init") /\ step[t] = "update"),
         NEW c \in Conds, rec[c] # NoRecord, NEW u \in Threads \ {t}, InQueue(Queue(c), u)
  PROVE  InQueue(Queue(c)', u)
<1> SUFFICES ASSUME rec'[c] # rec[c]
             PROVE  InQueue(Queue(c)', u)
  BY DEF Queue
<1>0. c \in Objects /\ rec[c] \in RecordSet
  BY DEF Objects, DataInv
<1>1. c = Cur(t).obj /\ Cur(t).kind \in Wrapped \ {"join"}
  BY <1>0, ThreadShape DEF Writes
<1>2. Cur(t).kind \in {"cond_init", "cond_wait", "cond_signal", "cond_broadcast", "cond_destroy"}
  BY <1>1, ObjectOf, RecordAssumption DEF Wrapped
<1>f. \A new : ~ FindOrAdd(t, new)
  BY <1>0, FoundRecord
<1>u. \A new : Update(t, new) => rec'[c] = new /\ step[t] = "update"
  BY <1>0, <1>1, UpdatedRecord
<1>c. \A o, n : ~ Called(t, o, n)
  BY DEF Called
<1>w. \A W : ~ Wake(t, W)
  BY DEF Wake, records
<1>x. ~ Terminate(t, "abort")
  BY DEF Terminate, records
<1>3. CASE In(t, "cond_init") /\ CondInit(t)
  BY <1>3, <1>c, <1>f, <1>u DEF CondInit
<1>4. CASE In(t, "cond_signal") /\ CondSignal(t)
  <2>1. rec'[c] = SignalRecord(rec[c])
    BY <1>1, <1>4, <1>f, <1>u, <1>w DEF CondSignal
  <2> QED
    BY <1>0, <2>1, ChangedRecords DEF Queue
<1>5. CASE In(t, "cond_broadcast") /\ CondBroadcast(t)
  <2>1. rec'[c] = BroadcastRecord(rec[c])
    BY <1>1, <1>5, <1>f, <1>u, <1>w DEF CondBroadcast
  <2> QED
    BY <1>0, <2>1, ChangedRecords DEF Queue
<1>6. CASE In(t, "cond_destroy") /\ CondDestroy(t)
  <2>1. rec'[c] = [rec[c] EXCEPT !.status = "CV_DESTROYED"]
    BY <1>1, <1>6, <1>c, <1>f, <1>u, <1>x DEF CondDestroy
  <2> QED
    BY <1>0, <2>1, RecordFields DEF Queue
<1>7. CASE In(t, "cond_wait") /\ CondWait(t)
  <2>0. rec \in [Objects -> RecordSet]
    BY DEF DataInv
  <2>1. rec'[c] \in {EnteredRecord(rec[c], t), WokenRecord(rec[c], t)}
    <3>1. CASE CondWaitEnter(t)
      <4>1. rec' = [rec EXCEPT ![c] = EnteredRecord(rec[c], t)]
        BY <1>1, <3>1 DEF CondWaitEnter
      <4> QED
        BY <1>0, <2>0, <4>1
    <3>2. CASE CondWoken(t)
      <4>1. rec' = [rec EXCEPT ![c] = WokenRecord(rec[c], t)]
        BY <1>1, <3>2 DEF CondWoken
      <4> QED
        BY <1>0, <2>0, <4>1
    <3>3. ~ (CondSleep(t) \/ CondTimeout(t) \/ CondRelock(t) \/ Announce(t))
      BY DEF CondSleep, CondTimeout, CondRelock, Announce, records
    <3> QED
      BY <1>7, <3>1, <3>2, <3>3 DEF CondWait
  <2> QED
    BY <1>0, <2>1, ChangedRecords DEF Queue
<1> QED
  BY <1>2, <1>3, <1>4, <1>5, <1>6, <1>7, WrapperOf DEF In

(* A thread's own cond_wait.                                                *)
LEMMA OwnQueue ==
  ASSUME TypeOK, DataInv, ModeInv, CreateInv, NEW t \in Threads, ThreadInv(t), Thread(t),
         step'[t] \in {"real", "sleep", "signalled", "timedout", "woken", "escaped"},
         In(t, "cond_wait")',
         step[t] \in {"real", "sleep", "signalled", "timedout", "woken", "escaped"}
           /\ In(t, "cond_wait") => InQueue(Queue(Cur(t).obj), t)
  PROVE  InQueue(Queue(Cur(t).obj)', t)
<1>0. /\ Shape(t) /\ Writes(t) /\ ThreadFrame /\ step \in [Threads -> Steps]
      /\ rec \in [Objects -> RecordSet]
  BY ThreadShape DEF TypeOK, DataInv
<1>1. pc'[t] = pc[t]
  <2>1. ~ ReturnStep(t)
    BY <1>0 DEF ReturnStep
  <2> QED
    BY <1>0, <2>1, OwnStep
<1>2. Cur(t)' = Cur(t) /\ In(t, "cond_wait")
  BY <1>0, <1>1, CurFrame DEF ThreadFrame
<1>3. Cur(t).kind = "cond_wait" /\ Cur(t).obj \in Objects /\ rec[Cur(t).obj] \in RecordSet
  BY <1>2, ObjectOf DEF In, Wrapped
<1>4. CASE CondWaitEnter(t)
  <2> DEFINE c == Cur(t).obj
             r == IF rec[c] = NoRecord THEN Record("CV_INITIALIZED", 0) ELSE rec[c]
  <2>1. rec' = [rec EXCEPT ![c] = EnteredRecord(r, t)]
    BY <1>4 DEF CondWaitEnter
  <2>2. r \in RecordSet
    BY <1>3, NewRecords
  <2> HIDE DEF r
  <2>3. rec'[c] = EnteredRecord(r, t)
    BY <1>0, <1>3, <2>1
  <2> QED
    BY <1>2, <2>2, <2>3, ChangedRecords DEF Queue
<1>5. CASE ~ CondWaitEnter(t)
  <2>1. rec' = rec /\ step[t] \in {"real", "sleep", "signalled", "timedout", "woken", "escaped"}
    <3>1. ~ CondWoken(t)
      BY <1>0 DEF CondWoken, Return
    <3>2. CASE CondWait(t)
      BY <1>0, <1>5, <3>1, <3>2 DEF CondWait, CondSleep, CondTimeout, CondRelock, Announce,
         At, records
    <3>3. CASE ThreadStart(t) \/ EnterAfterRestart(t) \/ CheckIn(t) \/ Park(t)
      <4>1. UNCHANGED <<owner, tokens, rec, raced>>
        BY <3>3, OutsideFrame
      <4>2. step[t] \in {"start", "call", "checkin", "park", "parking"}
            /\ (step'[t] \in {"call", "checkin", "await", "park", "parking", "parked"} \/ step' = step)
        BY <1>0, <3>3 DEF ThreadStart, EnterAfterRestart, CheckIn, Park, Announce, Goto, At,
           Terminate
      <4> QED
        BY <4>1, <4>2
    <3> QED
      BY <1>3, <3>2, <3>3, WrapperOf DEF In, Wrapped
  <2> QED
    BY <1>2, <2>1 DEF Queue
<1> QED
  BY <1>4, <1>5

LEMMA CondKept ==
  ASSUME IInv, InitializedFirst(prog), CondInv, [Next]_vars
  PROVE  CondInv'
<1>0. /\ TypeOK /\ DataInv /\ ModeInv /\ CreateInv /\ AloneInv
      /\ \A v \in Threads : ThreadInv(v)
  BY DEF IInv
<1>1. ASSUME NEW t \in Threads, Thread(t) PROVE CondInv'
  <2>0. Shape(t) /\ ThreadFrame
    BY <1>0, <1>1, ThreadShape
  <2> SUFFICES ASSUME NEW u \in Threads, In(u, "cond_wait")',
                      step'[u] \in {"real", "sleep", "signalled", "timedout", "woken", "escaped"}
               PROVE  InQueue(Queue(Cur(u).obj)', u)
    BY DEF CondInv, Queue
  <2>1. CASE u = t
    BY <1>0, <1>1, <2>1, OwnQueue DEF CondInv
  <2>2. CASE u # t
    <3>1. /\ pc'[u] = pc[u]
          /\ step[u] \in {"real", "sleep", "signalled", "timedout", "woken", "escaped"}
      BY <1>0, <2>0, <2>2, OtherThread
    <3>2. Cur(u)' = Cur(u) /\ In(u, "cond_wait")
      BY <2>0, <3>1, CurFrame DEF ThreadFrame
    <3>3. Cur(u).kind \in Wrapped \ {"join"} /\ Cur(u).obj \in Conds
      BY <1>0, <3>2, ObjectOf DEF In, Wrapped
    <3>4. rec[Cur(u).obj] # NoRecord
      BY <1>0, <3>1, <3>3 DEF ThreadInv
    <3>5. ~ (In(t, "cond_init") /\ step[t] = "update")
      BY <1>0, <2>2, <3>1, InitAlone DEF In
    <3>6. InQueue(Queue(Cur(u).obj), u)
      BY <3>1, <3>2 DEF CondInv
    <3> QED
      BY <1>0, <1>1, <2>2, <3>2, <3>3, <3>4, <3>5, <3>6, QueuesKept DEF Queue
  <2> QED
    BY <2>1, <2>2
<1>2. CASE Dmtcp \/ TemplateThread \/ UNCHANGED vars
  <2>1. /\ UNCHANGED <<prog, pc, rec>>
        /\ \A t \in Threads : step'[t] = step[t] \/ step'[t] \in {"park", "gone"}
    BY <1>2, OtherSteps
  <2>2. \A t \in Threads : Cur(t)' = Cur(t) /\ \A k : In(t, k)' = In(t, k)
    BY <2>1, CurFrame
  <2> QED
    BY <2>1, <2>2 DEF CondInv, Queue
<1> QED
  BY <1>1, <1>2 DEF Next

(* Programs are constant.                                                   *)
LEMMA ProgramKept ==
  ASSUME IInv, [Next]_vars
  PROVE  prog' = prog
BY OtherSteps, FrameOf DEF Next, ThreadFrame

(* Nobody sleeps on a condition variable unrecorded, if condition variables  *)
(* are initialized before there are other threads.                           *)
THEOREM WaitersRecorded == Spec => [](InitializedFirst(prog) => NoWaiterForgotten)
<1> DEFINE G == InitializedFirst(prog) => CondInv
<1>1. Init => G
  <2>1. ASSUME Init, NEW t \in Threads PROVE step[t] \in {"call", "absent"}
    BY <2>1 DEF Init
  <2> QED
    BY <2>1 DEF CondInv
<1>2. IInv /\ G /\ [Next]_vars => G'
  BY CondKept, ProgramKept
<1>3. G => (InitializedFirst(prog) => NoWaiterForgotten)
  BY DEF CondInv, NoWaiterForgotten, Sleeping
<1> HIDE DEF G
<1> QED
  BY <1>1, <1>2, <1>3, Invariance, PTL DEF Spec

-----------------------------------------------------------------------------
(* Semaphores.                                                             *)

(* Who is between a call and its update, before and after a step.           *)
LEMMA BetweenStep ==
  ASSUME TypeOK, DataInv, CreateInv, NEW t \in Threads, Shape(t), ThreadFrame, NEW s, NEW k
  PROVE  Between(s, k)' = (Between(s, k) \ {t})
           \cup {u \in {t} : step'[t] = "update" /\ In(t, k) /\ Cur(t).obj = s}
<1>0. step \in [Threads -> Steps]
  BY DEF TypeOK
<1>1. ASSUME NEW u \in Threads \ {t}
      PROVE  u \in Between(s, k)' <=> u \in Between(s, k)
  <2>1. pc'[u] = pc[u] /\ (step'[u] = "update" <=> step[u] = "update")
    BY OtherThread
  <2>2. Cur(u)' = Cur(u) /\ In(u, k)' = In(u, k)
    BY <2>1, CurFrame DEF ThreadFrame
  <2> QED
    BY <2>1, <2>2 DEF Between
<1>2. t \in Between(s, k)' <=> step'[t] = "update" /\ In(t, k) /\ Cur(t).obj = s
  <2>1. step'[t] = "update" => pc'[t] = pc[t]
    BY <1>0, OwnStep DEF ReturnStep
  <2>2. pc'[t] = pc[t] => Cur(t)' = Cur(t) /\ In(t, k)' = In(t, k)
    BY CurFrame DEF ThreadFrame
  <2> QED
    BY <2>1, <2>2 DEF Between
<1>3. Between(s, k)' \subseteq Threads /\ Between(s, k) \subseteq Threads
  BY DEF Between
<1> QED
  BY <1>1, <1>2, <1>3

LEMMA LostStays ==
  ASSUME TypeOK, DataInv, CreateInv, \A v \in Threads : ThreadInv(v), NEW t \in Threads, Shape(t)
  PROVE  Lost \subseteq Lost'
<1> SUFFICES ASSUME NEW u \in Lost
             PROVE  u \in Lost'
  OBVIOUS
<1>1. u \in Threads /\ thr[u] = "ALIVE" /\ step[u] = "gone"
  BY DEF Lost, Alive
<1>2. CASE u = t
  BY <1>1, <1>2, OwnStep DEF EndStep, Lost, Alive
<1>3. CASE u # t
  <2>1. step[t] = "update" /\ In(t, "join") => step[Cur(t).obj] = "dead"
    BY DEF ThreadInv
  <2> QED
    BY <1>1, <1>3, <2>1, OtherThread DEF Lost, Alive
<1> QED
  BY <1>2, <1>3

(* The steps of a thread outside the wrapper of its operation are before or *)
(* after it.                                                                *)
LEMMA OutsideSteps ==
  ASSUME TypeOK, NEW t \in Threads,
         ThreadStart(t) \/ EnterAfterRestart(t) \/ CheckIn(t) \/ Park(t)
  PROVE  /\ step[t] \in {"start", "call", "checkin", "park", "parking"}
         /\ step'[t] \in {"call", "checkin", "await", "park", "parking", "parked"}
         /\ pc' = pc
<1>0. step \in [Threads -> Steps]
  BY DEF TypeOK
<1> QED
  BY <1>0 DEF ThreadStart, EnterAfterRestart, CheckIn, Park, Announce, Goto, At, Terminate

SemKinds == {"sem_init", "sem_destroy", "sem_post", "sem_wait"}

(* A step that is not of this semaphore.                                    *)
LEMMA SemSame ==
  ASSUME TypeOK, DataInv, ModeInv, CreateInv, NEW t \in Threads, ThreadInv(t), Thread(t),
         NEW s \in Sems,
         ~ (/\ Cur(t).kind \in SemKinds /\ Cur(t).obj = s
            /\ SemInit(t) \/ SemDestroy(t) \/ SemPost(t) \/ SemWait(t))
  PROVE  /\ tokens'[s] = tokens[s] /\ rec'[s] = rec[s]
         /\ \A k \in SemKinds : Between(s, k)' = Between(s, k)
<1>0. /\ Shape(t) /\ Writes(t) /\ ThreadFrame /\ s \in Objects
      /\ tokens \in [Sems -> Nat]
  BY ThreadShape DEF Objects, TypeOK
<1>1. CASE ThreadStart(t) \/ EnterAfterRestart(t) \/ CheckIn(t) \/ Park(t)
  <2>1. step[t] # "update" /\ step'[t] # "update" /\ tokens' = tokens /\ rec' = rec
    BY <1>1, OutsideSteps, OutsideFrame
  <2>2. \A k : t \notin Between(s, k)
    BY <2>1 DEF Between
  <2> QED
    BY <1>0, <2>1, <2>2, BetweenStep
<1>2. CASE ~ (Cur(t).kind \in SemKinds /\ Cur(t).obj = s)
  <2>1. \A k \in SemKinds : t \notin Between(s, k) /\ ~ (In(t, k) /\ Cur(t).obj = s)
    BY <1>2 DEF Between, In
  <2>2. \A k \in SemKinds : Between(s, k)' = Between(s, k)
    BY <1>0, <2>1, BetweenStep
  <2>3. rec'[s] = rec[s]
    <3> SUFFICES ASSUME rec'[s] # rec[s] PROVE FALSE
      OBVIOUS
    <3>1. s = Cur(t).obj /\ Cur(t).kind \in Wrapped \ {"join"}
      BY <1>0 DEF Writes
    <3>2. Cur(t).kind \in SemKinds
      BY <3>1, ObjectOf, RecordAssumption DEF Wrapped, SemKinds
    <3> QED
      BY <1>2, <3>1, <3>2
  <2>4. tokens'[s] = tokens[s]
    <3>1. CASE Cur(t).kind \notin SemKinds
      BY <3>1, RealFrame DEF SemKinds
    <3>2. CASE Cur(t).kind \in SemKinds /\ Cur(t).obj # s
      <4>1. CASE SemInit(t) \/ SemDestroy(t) \/ SemPost(t) \/ SemWait(t)
        BY <1>0, <3>2, <4>1 DEF SemInit, SemDestroy, SemPost, SemWait, FindOrAdd, Called,
           Update, SemTimedOut, real
      <4>2. CASE tokens' = tokens
        BY <4>2
      <4> QED
        BY <3>2, <4>1, <4>2, WrapperOf DEF SemKinds, In, Wrapped
    <3> QED
      BY <1>2, <3>1, <3>2
  <2> QED
    BY <2>2, <2>3, <2>4
<1>3. CASE Cur(t).kind \in SemKinds /\ Cur(t).obj = s
           /\ ~ (ThreadStart(t) \/ EnterAfterRestart(t) \/ CheckIn(t) \/ Park(t))
  BY <1>3, WrapperOf DEF SemKinds, In, Wrapped
<1> QED
  BY <1>1, <1>2, <1>3

(* What the invariant says of one semaphore.                                *)
SemCount(s) ==
  rec[s].status = "SEM_INITIALIZED" /\ Lost = {} /\ Between(s, "sem_init") = {} =>
    rec[s].count + Cardinality(Between(s, "sem_post"))
                 - Cardinality(Between(s, "sem_wait")) = tokens[s]

SemInvOf(s) == (\A t \in Between(s, "sem_init") : tokens[s] = Cur(t).arg) /\ SemCount(s)

LEMMA SizeOfBetween ==
  ASSUME NEW s, NEW k
  PROVE  IsFiniteSet(Between(s, k)) /\ Cardinality(Between(s, k)) \in Nat
<1>1. Between(s, k) \subseteq Threads
  BY DEF Between
<1> QED
  BY <1>1, RecordAssumption, FS_Subset, FS_CardinalityType

(* The wrappers of semaphores, on one of them.                              *)
LEMMA SemStep ==
  ASSUME IInv, InitializedFirst(prog), NEW s \in Sems, SemInvOf(s),
         NEW t \in Threads, Thread(t), Cur(t).kind \in SemKinds, Cur(t).obj = s,
         SemInit(t) \/ SemDestroy(t) \/ SemPost(t) \/ SemWait(t)
  PROVE  SemInvOf(s)'
<1>0. /\ TypeOK /\ DataInv /\ ModeInv /\ CreateInv /\ AloneInv
      /\ \A v \in Threads : ThreadInv(v)
      /\ step \in [Threads -> Steps] /\ tokens \in [Sems -> Nat] /\ tokens[s] \in Nat
      /\ rec \in [Objects -> RecordSet] /\ s \in Objects /\ rec[s] \in RecordSet
      /\ rec[s].count \in Int
  BY RecordFields DEF IInv, TypeOK, DataInv, Objects
<1>1. Shape(t) /\ Writes(t) /\ ThreadFrame
  BY <1>0, ThreadShape
<1>l. Lost' = {} => Lost = {}
  BY <1>0, <1>1, LostStays
<1>b. \A k : Between(s, k)' = (Between(s, k) \ {t})
               \cup {u \in {t} : step'[t] = "update" /\ In(t, k)}
  BY <1>0, <1>1, BetweenStep
<1>n. rec[s] = NoRecord => \A k \in SemKinds : Between(s, k) = {}
  BY <1>0 DEF Between, ThreadInv, In, SemKinds, Wrapped
<1>c. \A u \in Threads : step'[u] = "update" => Cur(u)' = Cur(u)
  <2>1. \A u \in Threads \ {t} : pc'[u] = pc[u]
    BY <1>0, <1>1, OtherThread
  <2>2. step'[t] = "update" => pc'[t] = pc[t]
    BY <1>0, <1>1, OwnStep DEF ReturnStep
  <2> QED
    BY <1>1, <2>1, <2>2, CurFrame DEF ThreadFrame
<1>i. \A u \in Between(s, "sem_init") : \A v \in Threads \ {u} : step[v] = "absent"
  <2>1. \A u \in Between(s, "sem_init") : u \in Threads /\ Cur(u).kind = "sem_init"
    BY DEF Between, In
  <2> QED
    BY <1>0, <2>1, InitAlone
<1>a. step[t] # "absent"
  BY DEF SemInit, SemDestroy, SemPost, SemWait, FindOrAdd, Called, Update, SemTimedOut, At
<1>j. \A u \in Between(s, "sem_init") : u = t
  BY <1>a, <1>i DEF Between
<1>k. /\ Cardinality(Between(s, "sem_post")) \in Nat /\ IsFiniteSet(Between(s, "sem_post"))
      /\ Cardinality(Between(s, "sem_wait")) \in Nat /\ IsFiniteSet(Between(s, "sem_wait"))
  BY SizeOfBetween
<1>2. CASE /\ rec'[s] = rec[s] \/ rec'[s].status # "SEM_INITIALIZED"
           /\ tokens'[s] = tokens[s]
           /\ \A k \in {"sem_init", "sem_post", "sem_wait"} : Between(s, k)' = Between(s, k)
  <2>1. \A u \in Between(s, "sem_init")' : tokens'[s] = Cur(u)'.arg
    <3>1. \A u \in Between(s, "sem_init")' : u \in Threads /\ step'[u] = "update"
      BY DEF Between
    <3> QED
      BY <1>2, <1>c, <3>1 DEF SemInvOf
  <2>2. SemCount(s)'
    BY <1>2, <1>l DEF SemInvOf, SemCount
  <2> QED
    BY <2>1, <2>2 DEF SemInvOf
(* The first critical section.                                              *)
<1>3. ASSUME NEW new, FindOrAdd(t, new),
             new.status # "SEM_INITIALIZED" \/ new = Record("SEM_INITIALIZED", tokens[s])
      PROVE  SemInvOf(s)'
  <2>1. /\ rec' = IF rec[s] = NoRecord THEN [rec EXCEPT ![s] = new] ELSE rec
        /\ tokens' = tokens /\ step[t] = "call" /\ step'[t] = "real"
    BY <1>0, <1>3 DEF FindOrAdd, At, Goto, real
  <2>2. \A k : Between(s, k)' = Between(s, k)
    <3>1. \A k : t \notin Between(s, k)
      BY <2>1 DEF Between
    <3> QED
      BY <1>b, <2>1, <3>1
  <2>3. rec'[s] = rec[s] \/ (rec[s] = NoRecord /\ rec'[s] = new)
    BY <1>0, <2>1
  <2>4. CASE rec'[s] = rec[s] \/ new.status # "SEM_INITIALIZED"
    BY <1>2, <2>1, <2>2, <2>3, <2>4
  <2>5. CASE rec[s] = NoRecord /\ rec'[s] = Record("SEM_INITIALIZED", tokens[s])
    <3>1. Between(s, "sem_init")' = {} /\ Between(s, "sem_post")' = {} /\ Between(s, "sem_wait")' = {}
      BY <1>n, <2>2, <2>5 DEF SemKinds
    <3>2. rec'[s].count = tokens'[s] /\ Cardinality({}) = 0
      BY <1>0, <2>1, <2>5, NewRecords, FS_EmptySet
    <3>3. rec'[s].count + 0 - 0 = tokens'[s]
      BY <1>0, <2>1, <3>2
    <3> QED
      BY <3>1, <3>2, <3>3 DEF SemInvOf, SemCount
  <2> QED
    BY <1>3, <2>3, <2>4, <2>5
(* The call, and the update.                                                *)
<1>4. ASSUME NEW o, NEW n, Called(t, o, n)
      PROVE  /\ step[t] = "real" /\ step'[t] = "update" /\ tokens' = n /\ rec' = rec
             /\ \A k : t \notin Between(s, k)
             /\ \A k : Between(s, k)' = Between(s, k) \cup {u \in {t} : In(t, k)}
  <2>1. step[t] = "real" /\ step'[t] = "update" /\ tokens' = n /\ rec' = rec
    BY <1>0, <1>4 DEF Called, At, Goto
  <2>2. \A k : t \notin Between(s, k)
    BY <2>1 DEF Between
  <2> QED
    BY <1>b, <2>1, <2>2
<1>5. ASSUME NEW new, Update(t, new)
      PROVE  /\ step[t] = "update" /\ tokens' = tokens /\ rec'[s] = new
             /\ \A k : Between(s, k)' = Between(s, k) \ {t}
             /\ \A k : t \in Between(s, k) <=> In(t, k)
  <2>1. step[t] = "update" /\ step'[t] = "call" /\ tokens' = tokens /\ rec'[s] = new
    BY <1>0, <1>5 DEF Update, At, Return, real
  <2> QED
    BY <1>b, <2>1 DEF Between
<1>6. CASE SemInit(t)
  <2>0. In(t, "sem_init") /\ ~ In(t, "sem_post") /\ ~ In(t, "sem_wait") /\ Cur(t).arg \in Nat
    BY <1>0, <1>6, CurFacts DEF SemInit, In, WellFormed, DataInv
  <2>i. \A v \in Threads \ {t} : step[v] = "absent"
    BY <1>0, <2>0, InitAlone DEF In
  <2>1. CASE FindOrAdd(t, Record("SEM_UNINITIALIZED", 0))
    BY <1>3, <2>1, NewRecords
  <2>2. CASE Called(t, owner, [tokens EXCEPT ![s] = Cur(t).arg])
    <3>1. /\ tokens'[s] = Cur(t).arg /\ step'[t] = "update"
          /\ Between(s, "sem_init")' = {t}
      <4>1. Between(s, "sem_init") = {}
        BY <1>4, <1>j, <2>2
      <4>2. tokens' = [tokens EXCEPT ![s] = Cur(t).arg] /\ step'[t] = "update"
        BY <1>4, <2>2
      <4>3. Between(s, "sem_init")' = {t}
        BY <1>4, <2>0, <2>2, <4>1
      <4> QED
        BY <1>0, <4>2, <4>3
    <3>2. Cur(t)' = Cur(t)
      BY <1>c, <3>1
    <3> QED
      BY <3>1, <3>2 DEF SemInvOf, SemCount
  <2>3. CASE Update(t, Record("SEM_INITIALIZED", Cur(t).arg))
    <3>1. /\ \A k : Between(s, k)' = {}
      <4>1. \A k : Between(s, k) \subseteq {t}
        BY <2>i DEF Between
      <4> QED
        BY <1>5, <2>3, <4>1
    <3>2. tokens[s] = Cur(t).arg
      BY <1>5, <2>0, <2>3 DEF SemInvOf
    <3>3. rec'[s].count = tokens'[s] /\ Cardinality({}) = 0
      BY <1>5, <2>0, <2>3, <3>2, NewRecords, FS_EmptySet
    <3>4. rec'[s].count + 0 - 0 = tokens'[s]
      BY <1>0, <1>5, <2>3, <3>3
    <3> QED
      BY <3>1, <3>3, <3>4 DEF SemInvOf, SemCount
  <2> QED
    BY <1>6, <2>1, <2>2, <2>3 DEF SemInit
<1>7. CASE SemDestroy(t)
  <2>0. ~ In(t, "sem_init") /\ ~ In(t, "sem_post") /\ ~ In(t, "sem_wait")
    BY <1>7 DEF SemDestroy, In
  <2>1. CASE FindOrAdd(t, Record("SEM_UNINITIALIZED", 0))
    BY <1>3, <2>1, NewRecords
  <2>2. CASE Called(t, owner, tokens)
    <3>1. \A k \in {"sem_init", "sem_post", "sem_wait"} : Between(s, k)' = Between(s, k)
      BY <1>4, <2>0, <2>2
    <3> QED
      BY <1>2, <1>4, <2>2, <3>1
  <2>3. CASE Update(t, Record("SEM_DESTROYED", 0))
    <3>1. \A k \in {"sem_init", "sem_post", "sem_wait"} : Between(s, k)' = Between(s, k)
      BY <1>5, <2>0, <2>3
    <3> QED
      BY <1>2, <1>5, <2>3, <3>1, NewRecords
  <2> QED
    BY <1>7, <2>1, <2>2, <2>3 DEF SemDestroy
<1>8. CASE SemPost(t)
  <2>0. ~ In(t, "sem_init") /\ In(t, "sem_post") /\ ~ In(t, "sem_wait")
    BY <1>8 DEF SemPost, In
  <2>j. Between(s, "sem_init") = {}
    BY <1>j, <2>0 DEF Between
  <2>1. CASE FindOrAdd(t, Record("SEM_INITIALIZED", tokens[s]))
    BY <1>3, <2>1
  <2>2. CASE Called(t, owner, [tokens EXCEPT ![s] = tokens[s] + 1])
    <3>1. /\ tokens'[s] = tokens[s] + 1 /\ rec' = rec /\ Between(s, "sem_init")' = {}
          /\ Between(s, "sem_wait")' = Between(s, "sem_wait")
          /\ Cardinality(Between(s, "sem_post")') = Cardinality(Between(s, "sem_post")) + 1
      <4>1. /\ t \notin Between(s, "sem_post")
            /\ Between(s, "sem_post")' = Between(s, "sem_post") \cup {t}
            /\ Between(s, "sem_wait")' = Between(s, "sem_wait") /\ Between(s, "sem_init")' = {}
        BY <1>4, <2>0, <2>2, <2>j
      <4>2. Cardinality(Between(s, "sem_post")') = Cardinality(Between(s, "sem_post")) + 1
        BY <1>k, <4>1, FS_AddElement
      <4>3. tokens' = [tokens EXCEPT ![s] = tokens[s] + 1] /\ rec' = rec
        BY <1>4, <2>2
      <4>4. tokens'[s] = tokens[s] + 1
        BY <1>0, <4>3
      <4> QED
        BY <4>1, <4>2, <4>3, <4>4
    <3>2. SemCount(s)'
      <4> SUFFICES ASSUME rec[s].status = "SEM_INITIALIZED", Lost = {}
                   PROVE  rec[s].count + Cardinality(Between(s, "sem_post")')
                            - Cardinality(Between(s, "sem_wait")) = tokens'[s]
        BY <1>l, <3>1 DEF SemCount
      <4>1. rec[s].count + Cardinality(Between(s, "sem_post"))
              - Cardinality(Between(s, "sem_wait")) = tokens[s]
        BY <2>j DEF SemInvOf, SemCount
      <4> QED
        BY <1>0, <1>k, <3>1, <4>1
    <3> QED
      BY <3>1, <3>2 DEF SemInvOf
  <2>3. CASE Update(t, [rec[s] EXCEPT !.count = rec[s].count + 1])
    <3>1. /\ tokens' = tokens /\ Between(s, "sem_init")' = {}
          /\ Between(s, "sem_wait")' = Between(s, "sem_wait")
          /\ Cardinality(Between(s, "sem_post")') = Cardinality(Between(s, "sem_post")) - 1
      <4>1. /\ t \in Between(s, "sem_post") /\ t \notin Between(s, "sem_wait")
            /\ Between(s, "sem_post")' = Between(s, "sem_post") \ {t}
            /\ Between(s, "sem_wait")' = Between(s, "sem_wait") \ {t}
        BY <1>5, <2>0, <2>3
      <4>2. Cardinality(Between(s, "sem_post")') = Cardinality(Between(s, "sem_post")) - 1
        BY <1>k, <4>1, FS_RemoveElement
      <4> QED
        BY <1>5, <2>3, <2>j, <4>1, <4>2
    <3>2. rec'[s].count = rec[s].count + 1 /\ rec'[s].status = rec[s].status
      <4>1. rec[s].count + 1 \in Int
        BY <1>0
      <4>2. rec'[s] = [rec[s] EXCEPT !.count = rec[s].count + 1]
        BY <1>5, <2>3, Zenon
      <4> QED
        BY <1>0, <4>1, <4>2, RecordFields
    <3>3. SemCount(s)'
      <4> SUFFICES ASSUME rec[s].status = "SEM_INITIALIZED", Lost = {}
                   PROVE  rec'[s].count + Cardinality(Between(s, "sem_post")')
                            - Cardinality(Between(s, "sem_wait")) = tokens[s]
        BY <1>l, <3>1, <3>2 DEF SemCount
      <4>1. rec[s].count + Cardinality(Between(s, "sem_post"))
              - Cardinality(Between(s, "sem_wait")) = tokens[s]
        BY <2>j DEF SemInvOf, SemCount
      <4> QED
        BY <1>0, <1>k, <3>1, <3>2, <4>1
    <3> QED
      BY <3>1, <3>3 DEF SemInvOf
  <2> QED
    BY <1>8, <2>1, <2>2, <2>3, Zenon DEF SemPost
<1>9. CASE SemWait(t)
  <2>0. ~ In(t, "sem_init") /\ In(t, "sem_wait") /\ ~ In(t, "sem_post")
    BY <1>9 DEF SemWait, In
  <2>j. Between(s, "sem_init") = {}
    BY <1>j, <2>0 DEF Between
  <2>1. CASE FindOrAdd(t, Record("SEM_INITIALIZED", tokens[s]))
    BY <1>3, <2>1
  <2>2. CASE Called(t, owner, [tokens EXCEPT ![s] = tokens[s] - 1])
    <3>1. /\ tokens'[s] = tokens[s] - 1 /\ rec' = rec /\ Between(s, "sem_init")' = {}
          /\ Between(s, "sem_post")' = Between(s, "sem_post")
          /\ Cardinality(Between(s, "sem_wait")') = Cardinality(Between(s, "sem_wait")) + 1
      <4>1. /\ t \notin Between(s, "sem_wait")
            /\ Between(s, "sem_wait")' = Between(s, "sem_wait") \cup {t}
            /\ Between(s, "sem_post")' = Between(s, "sem_post") /\ Between(s, "sem_init")' = {}
        BY <1>4, <2>0, <2>2, <2>j
      <4>2. Cardinality(Between(s, "sem_wait")') = Cardinality(Between(s, "sem_wait")) + 1
        BY <1>k, <4>1, FS_AddElement
      <4>3. tokens' = [tokens EXCEPT ![s] = tokens[s] - 1] /\ rec' = rec
        BY <1>4, <2>2
      <4>4. tokens'[s] = tokens[s] - 1
        BY <1>0, <4>3
      <4> QED
        BY <4>1, <4>2, <4>3, <4>4
    <3>2. SemCount(s)'
      <4> SUFFICES ASSUME rec[s].status = "SEM_INITIALIZED", Lost = {}
                   PROVE  rec[s].count + Cardinality(Between(s, "sem_post"))
                            - Cardinality(Between(s, "sem_wait")') = tokens'[s]
        BY <1>l, <3>1 DEF SemCount
      <4>1. rec[s].count + Cardinality(Between(s, "sem_post"))
              - Cardinality(Between(s, "sem_wait")) = tokens[s]
        BY <2>j DEF SemInvOf, SemCount
      <4> QED
        BY <1>0, <1>k, <3>1, <4>1
    <3> QED
      BY <3>1, <3>2 DEF SemInvOf
  <2>3. CASE SemTimedOut(t)
    <3>1. step[t] = "real" /\ step'[t] = "call" /\ tokens' = tokens /\ rec' = rec
      BY <1>0, <2>3 DEF SemTimedOut, At, Return, real, records
    <3>2. \A k : t \notin Between(s, k)
      BY <3>1 DEF Between
    <3>3. \A k : Between(s, k)' = Between(s, k)
      BY <1>b, <3>1, <3>2
    <3> QED
      BY <1>2, <3>1, <3>3
  <2>4. CASE Update(t, [rec[s] EXCEPT !.count = rec[s].count - 1])
    <3>1. /\ tokens' = tokens /\ Between(s, "sem_init")' = {}
          /\ Between(s, "sem_post")' = Between(s, "sem_post")
          /\ Cardinality(Between(s, "sem_wait")') = Cardinality(Between(s, "sem_wait")) - 1
      <4>1. /\ t \in Between(s, "sem_wait") /\ t \notin Between(s, "sem_post")
            /\ Between(s, "sem_wait")' = Between(s, "sem_wait") \ {t}
            /\ Between(s, "sem_post")' = Between(s, "sem_post") \ {t}
        BY <1>5, <2>0, <2>4
      <4>2. Cardinality(Between(s, "sem_wait")') = Cardinality(Between(s, "sem_wait")) - 1
        BY <1>k, <4>1, FS_RemoveElement
      <4> QED
        BY <1>5, <2>4, <2>j, <4>1, <4>2
    <3>2. rec'[s].count = rec[s].count - 1 /\ rec'[s].status = rec[s].status
      <4>1. rec[s].count - 1 \in Int
        BY <1>0
      <4>2. rec'[s] = [rec[s] EXCEPT !.count = rec[s].count - 1]
        BY <1>5, <2>4, Zenon
      <4> QED
        BY <1>0, <4>1, <4>2, RecordFields
    <3>3. SemCount(s)'
      <4> SUFFICES ASSUME rec[s].status = "SEM_INITIALIZED", Lost = {}
                   PROVE  rec'[s].count + Cardinality(Between(s, "sem_post"))
                            - Cardinality(Between(s, "sem_wait")') = tokens[s]
        BY <1>l, <3>1, <3>2 DEF SemCount
      <4>1. rec[s].count + Cardinality(Between(s, "sem_post"))
              - Cardinality(Between(s, "sem_wait")) = tokens[s]
        BY <2>j DEF SemInvOf, SemCount
      <4> QED
        BY <1>0, <1>k, <3>1, <3>2, <4>1
    <3> QED
      BY <3>1, <3>3 DEF SemInvOf
  <2> QED
    BY <1>9, <2>1, <2>2, <2>3, <2>4, Zenon DEF SemWait
<1> QED
  BY <1>6, <1>7, <1>8, <1>9

LEMMA SemKept ==
  ASSUME IInv, InitializedFirst(prog), SemInv, [Next]_vars
  PROVE  SemInv'
<1>0. /\ TypeOK /\ DataInv /\ ModeInv /\ CreateInv
      /\ \A v \in Threads : ThreadInv(v)
  BY DEF IInv
<1> SUFFICES ASSUME NEW s \in Sems, SemInvOf(s)
             PROVE  SemInvOf(s)'
  BY DEF SemInv, SemInvOf, SemCount
<1>1. ASSUME NEW t \in Threads, Thread(t) PROVE SemInvOf(s)'
  <2>0. Shape(t) /\ ThreadFrame
    BY <1>0, <1>1, ThreadShape
  <2>1. CASE /\ Cur(t).kind \in SemKinds /\ Cur(t).obj = s
             /\ SemInit(t) \/ SemDestroy(t) \/ SemPost(t) \/ SemWait(t)
    BY <1>1, <2>1, SemStep
  <2>2. CASE ~ (/\ Cur(t).kind \in SemKinds /\ Cur(t).obj = s
                /\ SemInit(t) \/ SemDestroy(t) \/ SemPost(t) \/ SemWait(t))
    <3>1. /\ tokens'[s] = tokens[s] /\ rec'[s] = rec[s]
          /\ Between(s, "sem_init")' = Between(s, "sem_init")
          /\ Between(s, "sem_post")' = Between(s, "sem_post")
          /\ Between(s, "sem_wait")' = Between(s, "sem_wait")
      BY <1>0, <1>1, <2>2, SemSame DEF SemKinds
    <3>2. Lost' = {} => Lost = {}
      BY <1>0, <2>0, LostStays
    <3>3. SemCount(s)'
      BY <3>1, <3>2 DEF SemInvOf, SemCount
    <3>4. \A u \in Between(s, "sem_init") : Cur(u)' = Cur(u)
      <4> SUFFICES ASSUME NEW u \in Between(s, "sem_init")
                   PROVE  Cur(u)' = Cur(u)
        OBVIOUS
      <4>1. u \in Threads /\ u \in Between(s, "sem_init")' /\ step'[u] = "update"
        BY <3>1 DEF Between
      <4>2. pc'[u] = pc[u]
        <5>1. CASE u = t
          <6>1. step \in [Threads -> Steps]
            BY <1>0 DEF TypeOK
          <6> QED
            BY <1>0, <2>0, <4>1, <5>1, <6>1, OwnStep DEF ReturnStep
        <5>2. CASE u # t
          BY <1>0, <2>0, <4>1, <5>2, OtherThread
        <5> QED
          BY <5>1, <5>2
      <4> QED
        BY <2>0, <4>2, CurFrame DEF ThreadFrame
    <3> QED
      BY <3>1, <3>3, <3>4 DEF SemInvOf
  <2> QED
    BY <2>1, <2>2
<1>2. CASE Dmtcp \/ TemplateThread \/ UNCHANGED vars
  <2>1. /\ UNCHANGED <<prog, pc, tokens, rec>> /\ Lost \subseteq Lost'
        /\ \A t \in Threads : /\ step'[t] = step[t] \/ step'[t] \in {"park", "gone"}
                              /\ \/ step[t] \in {"await", "park", "parking", "parked"}
                                 \/ step'[t] # "park"
                              /\ thr[t] = "ALIVE" => thr'[t] = "ALIVE"
    BY <1>2, OtherSteps
  <2>2. \A t \in Threads : Cur(t)' = Cur(t) /\ \A k : In(t, k)' = In(t, k)
    BY <2>1, CurFrame
  <2>3. \A k : Between(s, k)' \subseteq Between(s, k)
    BY <2>1, <2>2 DEF Between
  <2>4. Lost' = {} => \A k : Between(s, k)' = Between(s, k)
    <3> SUFFICES ASSUME Lost' = {}, NEW k, NEW u \in Between(s, k)
                 PROVE  u \in Between(s, k)'
      BY <2>3
    <3>1. u \in Threads /\ step[u] = "update"
      BY DEF Between
    <3>2. ~ BeforeRecord
      BY <1>0, <3>1 DEF ModeInv
    <3>3. thr[u] = "ALIVE"
      BY <1>0, <3>1, <3>2, AtWork
    <3>4. step'[u] = "update"
      BY <2>1, <3>1, <3>3 DEF Lost, Alive
    <3> QED
      BY <2>2, <3>4 DEF Between
  <2>5. SemCount(s)'
    BY <2>1, <2>4 DEF SemInvOf, SemCount
  <2>6. \A u \in Between(s, "sem_init")' : u \in Between(s, "sem_init") /\ Cur(u)' = Cur(u)
    BY <2>2, <2>3 DEF Between
  <2> QED
    BY <2>1, <2>5, <2>6 DEF SemInvOf
<1> QED
  BY <1>1, <1>2 DEF Next

(* The semaphores McMini starts from have the values of the real ones,       *)
(* wherever the checkpoint hit the posts and waits, if semaphores are        *)
(* initialized before there are other threads.                               *)
THEOREM SemaphoresAgree == Spec => [](InitializedFirst(prog) => SemaphoresRestored)
<1> DEFINE G == InitializedFirst(prog) => SemInv
<1>1. Init => G
  <2> SUFFICES ASSUME Init PROVE SemInv
    OBVIOUS
  <2>1. \A t \in Threads : step[t] # "update"
    BY DEF Init
  <2>2. \A s \in Sems : rec[s].status = "NONE"
    BY NewRecords DEF Init, Objects
  <2> QED
    BY <2>1, <2>2 DEF SemInv, Between
<1>2. IInv /\ G /\ [Next]_vars => G'
  BY SemKept, ProgramKept
<1>3. IInv /\ G => (InitializedFirst(prog) => SemaphoresRestored)
  <2> SUFFICES ASSUME IInv, SemInv, Settled, NEW s \in Sems,
                      model.objs[s].status = "SEM_INITIALIZED"
               PROVE  model.objs[s].count = tokens[s]
    BY DEF SemaphoresRestored
  <2>1. saved = Alive /\ Busy = {} /\ Lost = {}
    BY EverybodyCheckedIn
  <2>2. \A k : Between(s, k) = {}
    <3> SUFFICES ASSUME NEW k, NEW u \in Between(s, k) PROVE FALSE
      OBVIOUS
    <3>1. u \in Threads /\ step[u] = "update"
      BY DEF Between
    <3>2. ~ BeforeRecord
      BY <3>1 DEF IInv, ModeInv
    <3>3. u \in saved
      BY <2>1, <3>1, <3>2, AtWork DEF IInv, Alive
    <3> QED
      BY <3>1, <3>3 DEF IInv, SavedInv
  <2>3. model.objs[s] = TranslatedObject(rec[s])
    BY <2>1 DEF IInv, ModelInv, Settled, Objects
  <2>4. model.objs[s].status = rec[s].status /\ model.objs[s].count = rec[s].count
    BY <2>3 DEF TranslatedObject
  <2>5. rec[s].count + 0 - 0 = tokens[s]
    BY <2>1, <2>2, <2>4, FS_EmptySet DEF SemInv
  <2>6. rec[s].count \in Int
    BY RecordFields DEF IInv, DataInv, Objects
  <2> QED
    BY <2>4, <2>5, <2>6
<1> HIDE DEF G
<1> QED
  BY <1>1, <1>2, <1>3, Invariance, PTL DEF Spec

-----------------------------------------------------------------------------
(* Mutexes.                                                                *)

(* What a thread has locked and not unlocked before its next operation.     *)
LEMMA HoldsNext ==
  ASSUME NEW p, NEW t, NEW i \in Nat \ {0}, NEW m, Holds(p, t, i + 1, m)
  PROVE  \/ p[t][i].kind = "lock" /\ p[t][i].obj = m
         \/ Holds(p, t, i, m) /\ ~ (p[t][i].kind = "unlock" /\ p[t][i].obj = m)
<1>0. (i + 1) - 1 = i
  OBVIOUS
<1>1. PICK j \in 1..i : /\ p[t][j].kind = "lock" /\ p[t][j].obj = m
                        /\ \A k \in (j + 1)..i : ~ (p[t][k].kind = "unlock" /\ p[t][k].obj = m)
  BY <1>0 DEF Holds
<1>2. CASE j = i
  BY <1>1, <1>2
<1>3. CASE j # i
  <2>1. j \in 1..(i - 1) /\ i \in (j + 1)..i /\ \A k \in (j + 1)..(i - 1) : k \in (j + 1)..i
    BY <1>1, <1>3
  <2> QED
    BY <1>1, <2>1 DEF Holds
<1> QED
  BY <1>2, <1>3

LEMMA HoldsNothing ==
  ASSUME NEW p, NEW t, NEW m
  PROVE  ~ Holds(p, t, 1, m)
BY DEF Holds

MutexStep(t, m) ==
  Cur(t).obj = m /\ (MutexInit(t) \/ MutexLock(t) \/ MutexUnlock(t))

(* CondSleep and CondRelock give up and take the mutex of a cond_wait.      *)
SleepStep(t, m) == In(t, "cond_wait") /\ Cur(t).arg = m /\ (CondSleep(t) \/ CondRelock(t))

(* Who is asleep in a cond_wait changes by these two only.                  *)
LEMMA AsleepStep ==
  ASSUME TypeOK, DataInv, ModeInv, CreateInv, NEW t \in Threads, ThreadInv(t), Thread(t), NEW m
  PROVE  /\ \A u \in Threads \ {t} : Asleep(u, m)' <=> Asleep(u, m)
         /\ ~ SleepStep(t, m) => (Asleep(t, m)' <=> Asleep(t, m))
         /\ In(t, "cond_wait") /\ Cur(t).arg = m /\ CondSleep(t) => Asleep(t, m)'
<1>0. Shape(t) /\ ThreadFrame /\ step \in [Threads -> Steps]
  BY ThreadShape DEF TypeOK
<1>1. ASSUME NEW u \in Threads \ {t}
      PROVE  Asleep(u, m)' <=> Asleep(u, m)
  <2>1. /\ pc'[u] = pc[u]
        /\ \/ step'[u] = step[u]
           \/ step[u] = "sleep" /\ step'[u] = "signalled"
           \/ step[u] = "absent" /\ step'[u] = "start"
    BY <1>0, OtherThread
  <2>2. Cur(u)' = Cur(u) /\ In(u, "cond_wait")' = In(u, "cond_wait")
    BY <1>0, <2>1, CurFrame DEF ThreadFrame
  <2> QED
    BY <2>1, <2>2 DEF Asleep
<1>p. pc'[t] = pc[t] => Cur(t)' = Cur(t) /\ In(t, "cond_wait")' = In(t, "cond_wait")
  BY <1>0, CurFrame DEF ThreadFrame
<1>2. In(t, "cond_wait") /\ Cur(t).arg = m /\ CondSleep(t) => Asleep(t, m)'
  <2> SUFFICES ASSUME In(t, "cond_wait"), Cur(t).arg = m, CondSleep(t)
               PROVE  Asleep(t, m)'
    OBVIOUS
  <2>1. step'[t] = "sleep" /\ pc'[t] = pc[t]
    BY <1>0 DEF CondSleep, Goto
  <2> QED
    BY <1>p, <2>1 DEF Asleep
<1>3. ASSUME ~ SleepStep(t, m)
      PROVE  Asleep(t, m)' <=> Asleep(t, m)
  <2>1. CASE ThreadStart(t) \/ EnterAfterRestart(t) \/ CheckIn(t) \/ Park(t)
    <3>1. /\ step[t] \in {"start", "call", "checkin", "park", "parking"}
          /\ step'[t] \in {"call", "checkin", "await", "park", "parking", "parked"}
      BY <2>1, OutsideSteps
    <3> QED
      BY <3>1 DEF Asleep
  <2>2. CASE In(t, "cond_wait") /\ CondWait(t)
    <3>1. CASE CondSleep(t) \/ CondRelock(t)
      <4>1. Cur(t).arg # m
        BY <1>3, <2>2, <3>1 DEF SleepStep
      <4>2. pc'[t] = pc[t]
        BY <3>1 DEF CondSleep, CondRelock, Goto
      <4> QED
        BY <1>p, <4>1, <4>2 DEF Asleep
    <3>2. CASE CondTimeout(t)
      <4>1. step[t] = "sleep" /\ step'[t] = "timedout" /\ pc'[t] = pc[t]
        BY <1>0, <3>2 DEF CondTimeout, At, Goto
      <4> QED
        BY <1>p, <4>1 DEF Asleep
    <3>3. CASE CondWaitEnter(t) \/ (At(t, "escaped") /\ Announce(t)) \/ CondWoken(t)
      <4>1. step[t] \in {"call", "escaped", "woken"} /\ step'[t] \in {"real", "checkin", "call"}
        BY <1>0, <3>3 DEF CondWaitEnter, CondWoken, Announce, At, Goto, Return
      <4> QED
        BY <4>1 DEF Asleep
    <3> QED
      BY <2>2, <3>1, <3>2, <3>3 DEF CondWait
  <2>3. CASE ~ In(t, "cond_wait")
    <3>1. ~ Asleep(t, m)
      BY <2>3 DEF Asleep
    <3>2. ~ Asleep(t, m)'
      <4>1. CASE pc'[t] = pc[t]
        BY <1>p, <2>3, <4>1 DEF Asleep
      <4>2. CASE ReturnStep(t)
        <5>1. step'[t] = "call"
          BY <1>0, <4>2 DEF ReturnStep
        <5> QED
          BY <5>1 DEF Asleep
      <4> QED
        BY <1>0, <4>1, <4>2, OwnStep
    <3> QED
      BY <3>1, <3>2
  <2> QED
    BY <2>1, <2>2, <2>3, WrapperOf DEF In, Wrapped
<1> QED
  BY <1>1, <1>2, <1>3

(* How a step changes the real mutexes.                                     *)
LEMMA OwnerStep ==
  ASSUME TypeOK, DataInv, NEW t \in Threads, Thread(t), NEW m \in Mutexes
  PROVE  \/ owner'[m] = owner[m]
         \/ /\ Cur(t).obj = m /\ In(t, "mutex_init") /\ step[t] = "real"
            /\ owner'[m] = NoThread
         \/ /\ Cur(t).obj = m /\ In(t, "lock") /\ step[t] = "real" /\ owner[m] = NoThread
            /\ owner'[m] = t /\ step'[t] = "update"
         \/ /\ Cur(t).obj = m /\ In(t, "unlock") /\ step[t] = "real"
            /\ owner'[m] = NoThread /\ step'[t] = "update"
         \/ /\ Cur(t).arg = m /\ In(t, "cond_wait") /\ step[t] = "real" /\ CondSleep(t)
            /\ owner'[m] = NoThread /\ step'[t] = "sleep"
         \/ /\ Cur(t).arg = m /\ In(t, "cond_wait") /\ CondRelock(t) /\ owner[m] = NoThread
            /\ step[t] \in {"signalled", "timedout"} /\ owner'[m] = t
<1>0. owner \in [Mutexes -> Threads \cup {NoThread}] /\ step \in [Threads -> Steps]
  BY DEF TypeOK
<1>1. CASE owner' = owner
  BY <1>1
<1>2. CASE MutexInit(t)
  BY <1>0, <1>2 DEF MutexInit, FindOrAdd, Called, Update, At, real
<1>3. CASE MutexLock(t)
  BY <1>0, <1>3 DEF MutexLock, FindOrAdd, Called, Update, TimedOut, Announce, At, Goto, real
<1>4. CASE MutexUnlock(t)
  BY <1>0, <1>4 DEF MutexUnlock, FindOrAdd, Called, Update, Terminate, At, Goto, real
<1>5. CASE In(t, "cond_wait") /\ CondWait(t)
  <2>1. CASE CondSleep(t)
    BY <1>0, <1>5, <2>1 DEF CondSleep, At, Goto
  <2>2. CASE CondRelock(t)
    BY <1>0, <1>5, <2>2 DEF CondRelock
  <2>3. CASE ~ (CondSleep(t) \/ CondRelock(t))
    BY <1>1, <1>5, <2>3 DEF CondWait, CondWaitEnter, CondTimeout, CondWoken, Announce, real
  <2> QED
    BY <2>1, <2>2, <2>3
<1>6. CASE Cur(t).kind \notin {"mutex_init", "lock", "unlock", "cond_wait"}
  BY <1>1, <1>6, RealFrame
<1> QED
  BY <1>1, <1>2, <1>3, <1>4, <1>5, <1>6, WrapperOf DEF In, Wrapped

LEMMA MutexWrapper ==
  ASSUME NEW t \in Threads, Thread(t),
         ~ (ThreadStart(t) \/ EnterAfterRestart(t) \/ CheckIn(t) \/ Park(t))
  PROVE  /\ Cur(t).kind = "mutex_init" => In(t, "mutex_init") /\ MutexInit(t)
         /\ Cur(t).kind = "lock" => In(t, "lock") /\ MutexLock(t)
         /\ Cur(t).kind = "unlock" => In(t, "unlock") /\ MutexUnlock(t)
         /\ Cur(t).kind = "cond_wait" => In(t, "cond_wait") /\ CondWait(t)
<1>1. CASE Cur(t).kind = "mutex_init"
  BY <1>1, WrapperOf DEF In, Wrapped
<1>2. CASE Cur(t).kind = "lock"
  BY <1>2, WrapperOf DEF In, Wrapped
<1>3. CASE Cur(t).kind = "unlock"
  BY <1>3, WrapperOf DEF In, Wrapped
<1>4. CASE Cur(t).kind = "cond_wait"
  BY <1>4, WrapperOf DEF In, Wrapped
<1> QED
  BY <1>1, <1>2, <1>3, <1>4

(* A step that is not of this mutex.                                        *)
LEMMA MutexSame ==
  ASSUME TypeOK, DataInv, ModeInv, CreateInv, NEW t \in Threads, ThreadInv(t), Thread(t),
         NEW m \in Mutexes, ~ MutexStep(t, m), ~ SleepStep(t, m)
  PROVE  /\ owner'[m] = owner[m] /\ rec'[m] = rec[m] /\ (m \in raced' <=> m \in raced)
         /\ \A k \in {"lock", "unlock"} : Between(m, k)' = Between(m, k)
         /\ \A u \in Threads : Asleep(u, m)' <=> Asleep(u, m)
<1>0. /\ Shape(t) /\ Writes(t) /\ ThreadFrame /\ m \in Objects
      /\ owner \in [Mutexes -> Threads \cup {NoThread}] /\ raced \subseteq Mutexes
      /\ rec \in [Objects -> RecordSet] /\ step \in [Threads -> Steps]
  BY ThreadShape DEF Objects, TypeOK, DataInv
<1>a. \A u \in Threads : Asleep(u, m)' <=> Asleep(u, m)
  BY AsleepStep
<1>1. CASE ThreadStart(t) \/ EnterAfterRestart(t) \/ CheckIn(t) \/ Park(t)
  <2>1. step[t] # "update" /\ step'[t] # "update" /\ UNCHANGED <<owner, rec, raced>>
    BY <1>1, OutsideSteps, OutsideFrame
  <2>2. \A k : t \notin Between(m, k)
    BY <2>1 DEF Between
  <2> QED
    BY <1>0, <1>a, <2>1, <2>2, BetweenStep, SMTT(20)
<1>2. CASE /\ ~ (Cur(t).kind \in {"mutex_init", "lock", "unlock"} /\ Cur(t).obj = m)
           /\ ~ (ThreadStart(t) \/ EnterAfterRestart(t) \/ CheckIn(t) \/ Park(t))
  <2>1. \A k \in {"lock", "unlock"} : t \notin Between(m, k) /\ ~ (In(t, k) /\ Cur(t).obj = m)
    BY <1>2 DEF Between, In
  <2>2. \A k \in {"lock", "unlock"} : Between(m, k)' = Between(m, k)
    <3>1. \A k : Between(m, k)' = (Between(m, k) \ {t})
             \cup {u \in {t} : step'[t] = "update" /\ In(t, k) /\ Cur(t).obj = m}
      BY <1>0, BetweenStep
    <3> QED
      BY <2>1, <3>1
  <2>3. rec'[m] = rec[m]
    <3> SUFFICES ASSUME rec'[m] # rec[m] PROVE FALSE
      OBVIOUS
    <3>1. m = Cur(t).obj /\ Cur(t).kind \in Wrapped \ {"join"}
      BY <1>0 DEF Writes
    <3>2. Cur(t).kind \in {"mutex_init", "lock", "unlock"}
      BY <3>1, ObjectOf, RecordAssumption DEF Wrapped
    <3> QED
      BY <1>2, <3>1, <3>2
  <2>4. owner'[m] = owner[m]
    <3>1. ~ (Cur(t).obj = m /\ (In(t, "mutex_init") \/ In(t, "lock") \/ In(t, "unlock")))
      BY <1>2 DEF In
    <3>2. ~ (In(t, "cond_wait") /\ Cur(t).arg = m /\ (CondSleep(t) \/ CondRelock(t)))
      BY DEF SleepStep
    <3> QED
      BY <3>1, <3>2, OwnerStep
  <2>5. m \in raced' <=> m \in raced
    <3>1. CASE In(t, "cond_wait") /\ CondWait(t)
      BY <3>1 DEF CondWait, CondWaitEnter, CondSleep, CondTimeout, CondRelock, CondWoken,
         Announce, records, SleepStep
    <3>2. CASE MutexInit(t) \/ MutexLock(t) \/ MutexUnlock(t)
      <4>1. Cur(t).obj # m
        BY <1>2, <3>2 DEF In, MutexInit, MutexLock, MutexUnlock
      <4> QED
        BY <3>2, <4>1 DEF MutexInit, MutexLock, MutexUnlock, FindOrAdd, Called, Update,
           TimedOut, Announce, Terminate, records
    <3>3. CASE Cur(t).kind \notin {"mutex_init", "lock", "unlock", "cond_wait"}
      BY <3>3, RealFrame
    <3> QED
      BY <1>2, <3>1, <3>2, <3>3, MutexWrapper
  <2> QED
    BY <1>a, <2>2, <2>3, <2>4, <2>5
<1>3. CASE /\ Cur(t).kind \in {"mutex_init", "lock", "unlock"} /\ Cur(t).obj = m
           /\ ~ (ThreadStart(t) \/ EnterAfterRestart(t) \/ CheckIn(t) \/ Park(t))
  BY <1>3, MutexWrapper DEF MutexStep
<1> QED
  BY <1>1, <1>2, <1>3

(* A thread that is about to give up a mutex owns it.                       *)
LEMMA OwnerGivesUp ==
  ASSUME TypeOK, DataInv, LocksProperly(prog), HoldsInv, NEW t \in Threads, NEW m \in Mutexes,
         step[t] = "real",
         (In(t, "unlock") /\ Cur(t).obj = m) \/ (In(t, "cond_wait") /\ Cur(t).arg = m)
  PROVE  owner[m] = t
<1>1. pc[t] \in DOMAIN prog[t] /\ Cur(t) = prog[t][pc[t]]
  BY CurFacts DEF DataInv, In
<1>2. Holds(prog, t, pc[t], m)
  BY <1>1 DEF LocksProperly, In
<1>3. ~ Asleep(t, m) /\ t \notin Unlocking(m)
  BY DEF Asleep, Unlocking
<1> QED
  BY <1>2, <1>3 DEF HoldsInv, Held

LEMMA BetweenOther ==
  ASSUME TypeOK, DataInv, CreateInv, NEW t \in Threads, Shape(t), ThreadFrame,
         NEW u \in Threads \ {t}, NEW s
  PROVE  /\ u \in Locking(s)' <=> u \in Locking(s)
         /\ u \in Unlocking(s)' <=> u \in Unlocking(s)
<1>1. \A k : u \in Between(s, k)' <=> u \in Between(s, k)
  BY BetweenStep
<1>2. Unlocking(s) = Between(s, "unlock") /\ Unlocking(s)' = Between(s, "unlock")'
  BY DEF Unlocking, Between
<1> QED
  BY <1>1, <1>2 DEF Locking

LEMMA HeldByOther ==
  ASSUME IInv, InitializedFirst(prog), LocksProperly(prog), HoldsInv,
         NEW t \in Threads, Thread(t), NEW u \in Threads \ {t}, NEW m \in Mutexes, Held(u, m)'
  PROVE  owner'[m] = u
<1>0. /\ TypeOK /\ DataInv /\ ModeInv /\ CreateInv /\ AloneInv /\ ThreadInv(t) /\ ThreadInv(u)
  BY DEF IInv
<1>1. Shape(t) /\ ThreadFrame
  BY <1>0, ThreadShape
<1>2. Held(u, m)
  <2>1. pc'[u] = pc[u] /\ prog' = prog /\ (step[u] = "gone" => step'[u] = "gone")
    BY <1>0, <1>1, OtherThread DEF ThreadFrame
  <2>2. (u \in Locking(m)' <=> u \in Locking(m)) /\ (u \in Unlocking(m)' <=> u \in Unlocking(m))
    BY <1>0, <1>1, BetweenOther
  <2>3. Asleep(u, m)' <=> Asleep(u, m)
    BY <1>0, AsleepStep
  <2>4. Holds(prog, u, pc[u], m)' <=> Holds(prog, u, pc[u], m)
    BY <2>1 DEF Holds
  <2> QED
    BY <2>1, <2>2, <2>3, <2>4 DEF Held
<1>3. owner[m] = u /\ u # NoThread
  BY <1>2, RecordAssumption DEF HoldsInv
<1>4. CASE In(t, "mutex_init")
  <2>1. step[u] = "absent"
    BY <1>0, <1>4, InitAlone DEF In
  <2>2. pc[u] = 1
    BY <1>0, <2>1 DEF ThreadInv
  <2>3. u \notin Locking(m)
    BY <2>1 DEF Locking, Between
  <2> QED
    BY <1>2, <2>2, <2>3, HoldsNothing DEF Held
<1>5. ~ (step[t] = "real" /\ (   (In(t, "unlock") /\ Cur(t).obj = m)
                               \/ (In(t, "cond_wait") /\ Cur(t).arg = m)))
  BY <1>0, <1>3, OwnerGivesUp
<1> QED
  BY <1>0, <1>3, <1>4, <1>5, OwnerStep

(* A mutex is initialized before anybody holds it.                          *)
LEMMA InitNotHeld ==
  ASSUME TypeOK, DataInv, InitializedFirst(prog), NEW t \in Threads, In(t, "mutex_init")
  PROVE  ~ Holds(prog, t, pc[t], Cur(t).obj)
<1>1. pc[t] \in DOMAIN prog[t] /\ Cur(t) = prog[t][pc[t]]
  BY CurFacts DEF DataInv, In
<1>2. \A j \in 1..(pc[t] - 1) : prog[t][pc[t]].obj \notin {prog[t][j].obj, prog[t][j].arg}
  BY <1>1 DEF InitializedFirst, In
<1> QED
  BY <1>1, <1>2 DEF Holds

LEMMA HeldByActor ==
  ASSUME IInv, InitializedFirst(prog), LocksProperly(prog), HoldsInv,
         NEW t \in Threads, Thread(t), NEW m \in Mutexes, Held(t, m)'
  PROVE  owner'[m] = t
<1>0. /\ TypeOK /\ DataInv /\ ModeInv /\ CreateInv /\ ThreadInv(t)
      /\ step \in [Threads -> Steps] /\ pc \in [Threads -> Nat \ {0}]
      /\ owner \in [Mutexes -> Threads \cup {NoThread}]
  BY DEF IInv, TypeOK, DataInv
<1>1. Shape(t) /\ ThreadFrame /\ prog' = prog
  BY <1>0, ThreadShape DEF ThreadFrame
<1>2. \A k : t \in Between(m, k)' <=> step'[t] = "update" /\ In(t, k) /\ Cur(t).obj = m
  BY <1>0, <1>1, BetweenStep
<1>u. Unlocking(m) = Between(m, "unlock") /\ Unlocking(m)' = Between(m, "unlock")'
  BY DEF Unlocking, Between
<1>3. CASE t \in Locking(m)'
  <2>1. step'[t] = "update" /\ In(t, "lock") /\ Cur(t).obj = m
    BY <1>2, <1>3 DEF Locking
  <2>2. MutexLock(t)
    BY <1>0, <2>1, OutsideSteps, MutexWrapper DEF In
  <2> QED
    BY <1>0, <2>1, <2>2 DEF MutexLock, FindOrAdd, Called, Update, TimedOut, Announce, Goto, Return
<1>4. CASE t \notin Locking(m)'
  <2>1. /\ Holds(prog, t, pc'[t], m) /\ step'[t] # "gone"
        /\ ~ Asleep(t, m)' /\ t \notin Unlocking(m)'
    <3>1. Holds(prog, t, pc[t], m)' <=> Holds(prog, t, pc'[t], m)
      BY <1>1 DEF Holds
    <3> QED
      BY <1>4, <3>1 DEF Held
  <2>2. CASE ReturnStep(t)
    <3>1. /\ step'[t] = "call" /\ pc'[t] = pc[t] + 1
          /\ step[t] \in {"update", "woken", "real", "creating"}
      BY <1>0, <2>2 DEF ReturnStep
    <3>2. pc[t] \in DOMAIN prog[t] /\ Cur(t) = prog[t][pc[t]]
      <4>1. Cur(t).kind \notin {"thread_exit", "exit"}
        BY <1>0, <2>2 DEF ReturnStep, ThreadInv, In, Wrapped
      <4> QED
        BY <1>0, <4>1, CurFacts DEF DataInv
    <3>3. \/ In(t, "lock") /\ Cur(t).obj = m
          \/ Holds(prog, t, pc[t], m) /\ ~ (In(t, "unlock") /\ Cur(t).obj = m)
      <4>1. pc[t] \in Nat \ {0} /\ Holds(prog, t, pc[t] + 1, m)
        BY <1>0, <2>1, <3>1
      <4>2. \/ prog[t][pc[t]].kind = "lock" /\ prog[t][pc[t]].obj = m
            \/ /\ Holds(prog, t, pc[t], m)
               /\ ~ (prog[t][pc[t]].kind = "unlock" /\ prog[t][pc[t]].obj = m)
        BY <4>1, HoldsNext
      <4> QED
        BY <3>2, <4>2 DEF In
    <3>4. CASE In(t, "lock") /\ Cur(t).obj = m
      <4>1. step[t] \in {"update", "real"}
        BY <1>0, <3>1, <3>4 DEF ThreadInv, In
      <4>2. MutexLock(t)
        BY <1>0, <3>4, <4>1, OutsideSteps, MutexWrapper DEF In
      <4>3. step[t] = "update" /\ owner' = owner
        BY <1>0, <3>1, <4>2 DEF MutexLock, FindOrAdd, Called, Update, TimedOut, Announce,
           Goto, At, real
      <4> QED
        BY <3>4, <4>3 DEF HoldsInv, Held, Locking, Between
    <3>5. CASE Holds(prog, t, pc[t], m) /\ ~ (In(t, "unlock") /\ Cur(t).obj = m)
      <4>1. ~ Asleep(t, m) /\ t \notin Unlocking(m)
        BY <3>1, <3>5 DEF Asleep, Unlocking
      <4>2. owner[m] = t /\ t # NoThread
        BY <3>1, <3>5, <4>1, RecordAssumption DEF HoldsInv, Held
      <4>3. ~ (In(t, "mutex_init") /\ Cur(t).obj = m)
        BY <1>0, <3>5, InitNotHeld
      <4> QED
        BY <1>0, <3>1, <4>2, <4>3, OwnerStep
    <3> QED
      BY <3>3, <3>4, <3>5
  <2>3. CASE pc'[t] = pc[t]
    <3>1. step[t] # "gone"
      BY <1>0, <1>1, <2>1, OwnStep DEF EndStep
    <3>2. CASE Asleep(t, m)
      <4>1. In(t, "cond_wait") /\ Cur(t).arg = m /\ (CondSleep(t) \/ CondRelock(t))
        BY <1>0, <2>1, <3>2, AsleepStep DEF SleepStep
      <4>2. CondRelock(t)
        BY <1>0, <2>1, <4>1, AsleepStep
      <4> QED
        BY <1>0, <4>1, <4>2 DEF CondRelock
    <3>3. CASE t \in Unlocking(m)
      <4>1. step[t] = "update" /\ In(t, "unlock")
        BY <3>3 DEF Unlocking
      <4>2. MutexUnlock(t)
        BY <1>0, <4>1, OutsideSteps, MutexWrapper DEF In
      <4>3. pc'[t] = pc[t] + 1
        BY <1>0, <4>1, <4>2 DEF MutexUnlock, FindOrAdd, Called, Update, At, Return
      <4> QED
        BY <1>0, <2>3, <4>3
    <3>4. CASE ~ Asleep(t, m) /\ t \notin Unlocking(m)
      <4>1. owner[m] = t /\ t # NoThread
        BY <2>1, <2>3, <3>1, <3>4, RecordAssumption DEF HoldsInv, Held
      <4>2. ~ (In(t, "mutex_init") /\ Cur(t).obj = m)
        BY <1>0, <2>1, <2>3, InitNotHeld
      <4>3. ~ (Cur(t).obj = m /\ In(t, "unlock") /\ step'[t] = "update")
        BY <1>2, <1>u, <2>1
      <4>4. ~ (Cur(t).arg = m /\ In(t, "cond_wait") /\ CondSleep(t))
        BY <1>0, <2>1, AsleepStep
      <4> QED
        BY <1>0, <4>1, <4>2, <4>3, <4>4, OwnerStep
    <3> QED
      BY <3>2, <3>3, <3>4
  <2> QED
    BY <1>0, <1>1, <2>2, <2>3, OwnStep
<1> QED
  BY <1>3, <1>4

LEMMA HoldsKept ==
  ASSUME IInv, InitializedFirst(prog), LocksProperly(prog), HoldsInv, [Next]_vars
  PROVE  HoldsInv'
<1> SUFFICES ASSUME NEW u \in Threads, NEW m \in Mutexes, Held(u, m)'
             PROVE  owner'[m] = u
  BY DEF HoldsInv
<1>1. CASE \E t \in Threads : Thread(t)
  BY <1>1, HeldByOther, HeldByActor
<1>2. CASE Dmtcp \/ TemplateThread \/ UNCHANGED vars
  <2>1. /\ UNCHANGED <<prog, pc, owner>>
        /\ step'[u] = step[u] \/ step'[u] \in {"park", "gone"}
        /\ step[u] = "gone" => step'[u] = "gone"
        /\ step[u] \in {"await", "park", "parking", "parked"} \/ step'[u] # "park"
    BY <1>2, OtherSteps
  <2>2. Cur(u)' = Cur(u) /\ \A k : In(u, k)' = In(u, k)
    BY <2>1, CurFrame
  <2>3. Holds(prog, u, pc[u], m)' <=> Holds(prog, u, pc[u], m)
    BY <2>1 DEF Holds
  <2>4. CASE step'[u] = step[u]
    <3>1. (u \in Locking(m)' <=> u \in Locking(m)) /\ (u \in Unlocking(m)' <=> u \in Unlocking(m))
      BY <2>2, <2>4 DEF Locking, Between, Unlocking
    <3>2. Asleep(u, m)' <=> Asleep(u, m)
      BY <2>2, <2>4 DEF Asleep
    <3> QED
      BY <2>1, <2>3, <2>4, <3>1, <3>2 DEF HoldsInv, Held
  <2>5. CASE step'[u] \in {"park", "gone"} /\ step'[u] # step[u]
    <3>1. u \notin Locking(m)'
      BY <2>5 DEF Locking, Between
    <3>2. step'[u] = "park" /\ Holds(prog, u, pc[u], m)
      BY <2>3, <2>5, <3>1 DEF Held
    <3>3. step[u] \in {"await", "park", "parking", "parked"}
      BY <2>1, <3>2
    <3>4. ~ Asleep(u, m) /\ u \notin Unlocking(m)
      BY <3>3 DEF Asleep, Unlocking
    <3> QED
      BY <2>1, <3>2, <3>3, <3>4 DEF HoldsInv, Held
  <2> QED
    BY <2>1, <2>4, <2>5
<1> QED
  BY <1>1, <1>2 DEF Next

(* Until the main thread comes to the initialization of a mutex nobody      *)
(* touches it.                                                              *)
LEMMA FreshKept ==
  ASSUME IInv, InitializedFirst(prog), FreshInv, [Next]_vars
  PROVE  FreshInv'
<1>0. /\ TypeOK /\ DataInv /\ ModeInv /\ CreateInv /\ AloneInv
      /\ \A v \in Threads : ThreadInv(v)
      /\ prog \in Programs /\ pc \in [Threads -> Nat \ {0}] /\ rec \in [Objects -> RecordSet]
      /\ Main \in Threads
  BY RecordAssumption DEF IInv, DataInv
<1>1. ASSUME NEW t \in Threads, Thread(t) PROVE FreshInv'
  <2>0. Shape(t) /\ Writes(t) /\ ThreadFrame /\ prog' = prog
    BY <1>0, <1>1, ThreadShape DEF ThreadFrame
  <2> SUFFICES ASSUME NEW i \in DOMAIN prog[Main], prog[Main][i].kind = "mutex_init",
                      pc'[Main] <= i
               PROVE  /\ owner'[prog[Main][i].obj] = NoThread
                      /\ rec'[prog[Main][i].obj].owner = NoThread
    BY <2>0 DEF FreshInv
  <2> DEFINE m == prog[Main][i].obj
  <2>1. i \in Nat /\ DOMAIN prog[Main] = 1..Len(prog[Main]) /\ Len(prog[Main]) \in Nat
        /\ m \in Mutexes
    <3>1. prog[Main] \in Seq(Operations)
      BY <1>0, RecordAssumption
    <3>2. prog[Main][i] \in Operations
      BY <3>1
    <3> QED
      BY <3>1, <3>2 DEF Operations, WellFormed
  <2>2. pc[Main] <= i /\ pc[Main] \in Nat \ {0}
    <3>1. pc'[Main] = pc[Main] \/ pc'[Main] = pc[Main] + 1
      <4>1. CASE t = Main
        BY <1>0, <2>0, <4>1, OwnStep
      <4>2. CASE t # Main
        BY <1>0, <2>0, <4>2, OtherThread
      <4> QED
        BY <4>1, <4>2
    <3> QED
      BY <1>0, <2>1, <3>1
  <2>3. owner[m] = NoThread /\ rec[m].owner = NoThread
    BY <2>2 DEF FreshInv
  <2>4. \A j \in 1..(i - 1) : prog[Main][j].kind # "create"
                             /\ m \notin {prog[Main][j].obj, prog[Main][j].arg}
    BY <1>0 DEF InitializedFirst
  <2>5. pc[Main] \in DOMAIN prog[Main] /\ Cur(Main) = prog[Main][pc[Main]]
    <3>1. pc[Main] \in DOMAIN prog[Main]
      BY <2>1, <2>2
    <3> QED
      BY <1>0, <3>1, CurFacts
  <2>6. pc[Main] = i \/ pc[Main] \in 1..(i - 1)
    BY <2>1, <2>2
  <2>7. \A u \in Threads \ {Main} : step[u] = "absent"
    <3>1. ~ In(Main, "create")
      BY <2>4, <2>5, <2>6 DEF In
    <3>2. \A j \in 1..(pc[Main] - 1) : j \in 1..(i - 1)
      BY <2>1, <2>2
    <3> QED
      BY <1>0, <2>4, <3>1, <3>2 DEF AloneInv
  <2>8. m \in Objects
    BY <2>1 DEF Objects
  <2>9. CASE t # Main
    <3>1. step[t] = "absent"
      BY <2>7, <2>9
    <3>2. rec'[m] = rec[m]
      BY <2>0, <2>8, <3>1 DEF Writes
    <3>3. owner'[m] = owner[m]
      BY <1>0, <1>1, <2>1, <3>1, OwnerStep
    <3> QED
      BY <2>3, <3>2, <3>3
  <2>10. CASE t = Main /\ pc[Main] \in 1..(i - 1)
    <3>1. Cur(t).obj # m /\ Cur(t).arg # m
      BY <2>4, <2>5, <2>10
    <3>2. rec'[m] = rec[m]
      BY <2>0, <2>8, <3>1 DEF Writes
    <3>3. owner'[m] = owner[m]
      BY <1>0, <1>1, <2>1, <3>1, OwnerStep
    <3> QED
      BY <2>3, <3>2, <3>3
  <2>11. CASE t = Main /\ pc[Main] = i
    <3>1. Cur(t).kind = "mutex_init" /\ Cur(t).obj = m
      BY <2>5, <2>11
    <3>2. owner'[m] = NoThread
      BY <1>0, <1>1, <2>1, <2>3, <3>1, OwnerStep DEF In
    <3>3. rec'[m] = rec[m] \/ rec'[m] = Record("UNINITIALIZED", 0)
      <4>1. CASE ThreadStart(t) \/ EnterAfterRestart(t) \/ CheckIn(t) \/ Park(t)
        BY <4>1, OutsideFrame
      <4>2. CASE MutexInit(t)
        <5>1. ~ Update(t, [rec[Cur(t).obj] EXCEPT !.status = "UNLOCKED"])
          <6>1. pc'[t] # pc[t] + 1
            BY <2>1, <2>11
          <6> QED
            BY <1>0, <6>1 DEF Update, Return
        <5>2. \/ FindOrAdd(t, Record("UNINITIALIZED", 0))
              \/ Called(t, [owner EXCEPT ![Cur(t).obj] = NoThread], tokens)
          BY <4>2, <5>1 DEF MutexInit
        <5> QED
          BY <1>0, <2>8, <3>1, <5>2 DEF FindOrAdd, Called
      <4> QED
        BY <1>1, <3>1, <4>1, <4>2, MutexWrapper
    <3> QED
      BY <2>3, <3>2, <3>3, NewRecords
  <2> QED
    BY <2>6, <2>9, <2>10, <2>11
<1>2. CASE Dmtcp \/ TemplateThread \/ UNCHANGED vars
  <2>1. UNCHANGED <<prog, pc, owner, rec>>
    BY <1>2, OtherSteps
  <2> QED
    BY <2>1 DEF FreshInv
<1> QED
  BY <1>1, <1>2 DEF Next

MutexInvOf(m) ==
  /\ rec[m].owner # NoThread => rec[m].status = "LOCKED"
  /\ rec[m].status = "LOCKED" => rec[m].owner # NoThread
  /\ m \notin raced /\ Lost = {} =>
       /\ owner[m] # NoThread =>
            \/ owner[m] \in Locking(m)
            \/ rec[m].status = "LOCKED" /\ rec[m].owner = owner[m]
       /\ owner[m] = NoThread /\ rec[m].status = "LOCKED" =>
            Unlocking(m) # {} \/ OwnerAsleep(m)
       /\ Unlocking(m) # {} => owner[m] = NoThread /\ ~ OwnerAsleep(m)

(* What a step of a wrapper of this mutex leaves of the invariant's parts.  *)
LEMMA MutexParts ==
  ASSUME TypeOK, DataInv, ModeInv, CreateInv, \A v \in Threads : ThreadInv(v),
         NEW t \in Threads, Thread(t), NEW m
  PROVE  /\ Locking(m)' = (Locking(m) \ {t})
               \cup {u \in {t} : step'[t] = "update" /\ In(t, "lock") /\ Cur(t).obj = m}
         /\ Unlocking(m)' = (Unlocking(m) \ {t})
               \cup {u \in {t} : step'[t] = "update" /\ In(t, "unlock") /\ Cur(t).obj = m}
         /\ Lost' = {} => Lost = {}
         /\ rec'[m].owner = NoThread => ~ OwnerAsleep(m)'
         /\ ~ In(t, "cond_wait") /\ rec'[m].owner = rec[m].owner =>
              (OwnerAsleep(m)' <=> OwnerAsleep(m))
<1>1. Shape(t) /\ ThreadFrame
  BY ThreadShape
<1>2. Unlocking(m) = Between(m, "unlock") /\ Unlocking(m)' = Between(m, "unlock")'
  BY DEF Unlocking, Between
<1>3. /\ Locking(m)' = (Locking(m) \ {t})
               \cup {u \in {t} : step'[t] = "update" /\ In(t, "lock") /\ Cur(t).obj = m}
      /\ Unlocking(m)' = (Unlocking(m) \ {t})
               \cup {u \in {t} : step'[t] = "update" /\ In(t, "unlock") /\ Cur(t).obj = m}
  BY <1>1, <1>2, BetweenStep DEF Locking
<1>4. Lost' = {} => Lost = {}
  BY <1>1, LostStays
<1>5. rec'[m].owner = NoThread => ~ OwnerAsleep(m)'
  BY RecordAssumption DEF OwnerAsleep
<1>6. ~ In(t, "cond_wait") => \A u \in Threads : Asleep(u, m)' <=> Asleep(u, m)
  BY AsleepStep DEF SleepStep
<1>7. ~ In(t, "cond_wait") /\ rec'[m].owner = rec[m].owner =>
              (OwnerAsleep(m)' <=> OwnerAsleep(m))
  BY <1>6 DEF OwnerAsleep
<1> QED
  BY <1>3, <1>4, <1>5, <1>7

(* The three wrappers of a mutex, one step at a time.                       *)
LEMMA MutexOfStep ==
  ASSUME IInv, InitializedFirst(prog), LocksProperly(prog), HoldsInv, FreshInv,
         NEW m \in Mutexes, MutexInvOf(m), NEW t \in Threads, Thread(t), MutexStep(t, m)
  PROVE  MutexInvOf(m)'
<1>0. /\ TypeOK /\ DataInv /\ ModeInv /\ CreateInv /\ AloneInv
      /\ \A v \in Threads : ThreadInv(v)
      /\ owner \in [Mutexes -> Threads \cup {NoThread}] /\ step \in [Threads -> Steps]
      /\ rec \in [Objects -> RecordSet] /\ m \in Objects /\ rec[m] \in RecordSet
      /\ Cur(t).obj = m /\ Cur(t).kind \in {"mutex_init", "lock", "unlock"}
      /\ ~ In(t, "cond_wait") /\ t # NoThread /\ NoThread \notin Threads
  BY RecordAssumption DEF IInv, TypeOK, DataInv, Objects, MutexStep, MutexInit, MutexLock,
     MutexUnlock, In
<1>1. /\ Locking(m)' = (Locking(m) \ {t})
            \cup {u \in {t} : step'[t] = "update" /\ In(t, "lock")}
      /\ Unlocking(m)' = (Unlocking(m) \ {t})
            \cup {u \in {t} : step'[t] = "update" /\ In(t, "unlock")}
      /\ Lost' = {} => Lost = {}
      /\ rec'[m].owner = NoThread => ~ OwnerAsleep(m)'
      /\ rec'[m].owner = rec[m].owner => (OwnerAsleep(m)' <=> OwnerAsleep(m))
  BY <1>0, MutexParts
<1>2. /\ t \in Locking(m) <=> step[t] = "update" /\ In(t, "lock")
      /\ t \in Unlocking(m) <=> step[t] = "update" /\ In(t, "unlock")
  BY <1>0 DEF Locking, Between, Unlocking
<1>i. /\ owner'[m] = owner[m] /\ rec'[m] = rec[m] /\ raced' = raced
      /\ step[t] # "update" /\ step'[t] # "update"
      => MutexInvOf(m)'
  <2> SUFFICES ASSUME owner'[m] = owner[m], rec'[m] = rec[m], raced' = raced,
                      step[t] # "update", step'[t] # "update"
               PROVE  MutexInvOf(m)'
    OBVIOUS
  <2>1. Locking(m)' = Locking(m) /\ Unlocking(m)' = Unlocking(m)
    BY <1>1, <1>2
  <2> QED
    BY <1>1, <2>1 DEF MutexInvOf
<1>f. FindOrAdd(t, Record("UNINITIALIZED", 0)) => MutexInvOf(m)'
  <2> SUFFICES ASSUME FindOrAdd(t, Record("UNINITIALIZED", 0)) PROVE MutexInvOf(m)'
    OBVIOUS
  <2>1. step[t] = "call" /\ step'[t] = "real" /\ owner' = owner /\ raced' = raced
    BY <1>0 DEF FindOrAdd, At, Goto, real
  <2>2. CASE rec[m] # NoRecord
    BY <1>0, <1>i, <2>1, <2>2, FoundRecord
  <2>3. CASE rec[m] = NoRecord
    <3>1. rec'[m].owner = NoThread /\ rec'[m].status = "UNINITIALIZED"
      <4>1. rec'[m] = Record("UNINITIALIZED", 0)
        BY <1>0, <2>3 DEF FindOrAdd
      <4> QED
        BY <4>1, NewRecords
    <3>2. rec[m].status = "NONE"
      BY <2>3, NewRecords
    <3>3. Locking(m)' = Locking(m) /\ Unlocking(m)' = Unlocking(m)
      BY <1>1, <1>2, <2>1
    <3> QED
      BY <1>1, <2>1, <3>1, <3>2, <3>3 DEF MutexInvOf
  <2> QED
    BY <2>2, <2>3
<1>3. CASE MutexInit(t)
  <2>0. In(t, "mutex_init") /\ ~ In(t, "lock") /\ ~ In(t, "unlock")
    BY <1>3 DEF MutexInit, In
  <2>1. owner[m] = NoThread /\ rec[m].owner = NoThread
    <3>1. t = Main
      BY <1>0, <2>0, InitAlone DEF In
    <3>2. pc[t] \in DOMAIN prog[t] /\ Cur(t) = prog[t][pc[t]] /\ pc[t] \in Nat
      BY <1>0, <2>0, CurFacts DEF DataInv, In
    <3> QED
      BY <1>0, <2>0, <3>1, <3>2 DEF FreshInv, In
  <2>2. Locking(m)' = Locking(m) /\ Unlocking(m)' = Unlocking(m)
    BY <1>1, <1>2, <2>0
  <2>3. CASE Called(t, [owner EXCEPT ![m] = NoThread], tokens) /\ UNCHANGED raced
    <3>1. owner'[m] = NoThread /\ rec' = rec /\ raced' = raced
      BY <1>0, <2>3 DEF Called
    <3> QED
      BY <1>1, <2>1, <2>2, <3>1 DEF MutexInvOf
  <2>4. CASE Update(t, [rec[m] EXCEPT !.status = "UNLOCKED"]) /\ UNCHANGED raced
    <3>1. rec'[m].owner = NoThread /\ rec'[m].status = "UNLOCKED"
      <4>1. rec'[m] = [rec[m] EXCEPT !.status = "UNLOCKED"]
        BY <1>0, <2>4, UpdatedRecord
      <4> QED
        BY <1>0, <2>1, <4>1, RecordFields
    <3>2. owner'[m] = NoThread
      BY <2>1, <2>4 DEF Update, real
    <3> QED
      BY <1>1, <3>1, <3>2 DEF MutexInvOf
  <2> QED
    BY <1>0, <1>3, <1>f, <2>3, <2>4 DEF MutexInit
<1>4. CASE MutexLock(t)
  <2>0. In(t, "lock") /\ ~ In(t, "unlock")
    BY <1>4 DEF MutexLock, In
  <2>1. Unlocking(m)' = Unlocking(m)
    BY <1>1, <1>2, <2>0
  <2>2. CASE /\ owner[m] = NoThread
             /\ Called(t, [owner EXCEPT ![m] = t], tokens)
             /\ raced' = IF Unlocking(m) # {} THEN raced \cup {m} ELSE raced
    <3>1. owner'[m] = t /\ rec' = rec /\ step'[t] = "update"
      BY <1>0, <2>2 DEF Called, Goto
    <3>2. t \in Locking(m)'
      BY <1>1, <2>0, <3>1
    <3>3. m \notin raced' => Unlocking(m)' = {}
      BY <2>1, <2>2
    <3> QED
      BY <1>0, <3>1, <3>2, <3>3 DEF MutexInvOf
  <2>3. CASE owner[m] # NoThread /\ TimedOut(t)
    <3>1. /\ owner' = owner /\ rec' = rec /\ raced' = raced
          /\ step[t] = "real" /\ step'[t] = "checkin"
      BY <1>0, <2>3 DEF TimedOut, Announce, At, Goto, real, records
    <3> QED
      BY <1>i, <3>1
  <2>4. CASE /\ Update(t, [rec[m] EXCEPT !.status = "LOCKED", !.owner = t])
             /\ raced' = IF Unlocking(m) = {} THEN raced \ {m} ELSE raced
    <3>1. rec'[m].owner = t /\ rec'[m].status = "LOCKED"
      <4>1. rec'[m] = [rec[m] EXCEPT !.status = "LOCKED", !.owner = t]
        BY <1>0, <2>4, UpdatedRecord
      <4>2. /\ [rec[m] EXCEPT !.status = "LOCKED", !.owner = t].status = "LOCKED"
            /\ [rec[m] EXCEPT !.status = "LOCKED", !.owner = t].owner = t
        BY <1>0, LockedRecord, Zenon
      <4> QED
        BY <4>1, <4>2, Zenon
    <3>2. owner[m] = t /\ owner' = owner
      <4>1. t \in Locking(m)
        BY <1>2, <2>0, <2>4 DEF Update, At
      <4> QED
        BY <2>4, <4>1 DEF HoldsInv, Held, Update, real
    <3>3. m \notin raced' /\ Lost' = {} => Unlocking(m)' = {}
      <4> SUFFICES ASSUME m \notin raced', Lost' = {}, Unlocking(m)' # {}
                   PROVE  FALSE
        OBVIOUS
      <4>1. Unlocking(m) # {} /\ m \notin raced /\ Lost = {}
        BY <1>1, <2>1, <2>4
      <4>2. owner[m] = NoThread
        BY <4>1 DEF MutexInvOf
      <4> QED
        BY <1>0, <3>2, <4>2
    <3> QED
      BY <1>0, <3>1, <3>2, <3>3 DEF MutexInvOf
  <2> QED
    BY <1>0, <1>4, <1>f, <2>2, <2>3, <2>4 DEF MutexLock
<1>5. CASE MutexUnlock(t)
  <2>0. In(t, "unlock") /\ ~ In(t, "lock")
    BY <1>5 DEF MutexUnlock, In
  <2>1. Locking(m)' = Locking(m)
    BY <1>1, <1>2, <2>0
  <2>2. CASE rec[m] # NoRecord /\ FindOrAdd(t, NoRecord)
    <3>1. step[t] = "call" /\ step'[t] = "real" /\ owner' = owner /\ raced' = raced
      BY <1>0, <2>2 DEF FindOrAdd, At, Goto, real
    <3> QED
      BY <1>0, <1>i, <2>2, <3>1, FoundRecord
  <2>3. CASE At(t, "call") /\ Terminate(t, "abort")
    <3>1. /\ owner' = owner /\ rec' = rec /\ raced' = raced
          /\ step[t] = "call" /\ step'[t] = "call"
      BY <2>3 DEF Terminate, At, real, records
    <3> QED
      BY <1>i, <3>1
  <2>4. CASE Called(t, [owner EXCEPT ![m] = NoThread], tokens) /\ UNCHANGED raced
    <3>1. /\ owner'[m] = NoThread /\ rec' = rec /\ raced' = raced
          /\ step[t] = "real" /\ step'[t] = "update"
      BY <1>0, <2>4 DEF Called, At, Goto
    <3>2. owner[m] = t
      BY <1>0, <2>0, <3>1, OwnerGivesUp
    <3>3. t \in Unlocking(m)'
      BY <1>1, <2>0, <3>1
    <3>4. m \notin raced' /\ Lost' = {} => ~ OwnerAsleep(m)'
      <4> SUFFICES ASSUME m \notin raced, Lost' = {}
                   PROVE  ~ OwnerAsleep(m)
        BY <1>1, <3>1
      <4>1. rec[m].owner = t
        BY <1>0, <1>1, <1>2, <3>1, <3>2 DEF MutexInvOf
      <4> QED
        BY <3>1, <4>1 DEF OwnerAsleep, Asleep
    <3> QED
      BY <1>0, <3>1, <3>3, <3>4 DEF MutexInvOf
  <2>5. CASE /\ Update(t, UnlockedRecord(rec[m]))
             /\ raced' = IF owner[m] = NoThread THEN raced \ {m} ELSE raced
    <3>1. rec'[m].owner = NoThread /\ rec'[m].status = "UNLOCKED"
      <4>1. rec'[m] = UnlockedRecord(rec[m])
        BY <1>0, <2>5, UpdatedRecord
      <4> QED
        BY <1>0, <4>1, ChangedRecords
    <3>2. owner' = owner /\ t \in Unlocking(m)
      BY <1>2, <2>0, <2>5 DEF Update, At, real
    <3>3. m \notin raced' /\ Lost' = {} => owner'[m] = NoThread
      BY <1>1, <2>5, <3>2 DEF MutexInvOf
    <3> QED
      BY <1>1, <3>1, <3>3 DEF MutexInvOf
  <2> QED
    BY <1>0, <1>5, <2>2, <2>3, <2>4, <2>5 DEF MutexUnlock
<1> QED
  BY <1>3, <1>4, <1>5 DEF MutexStep

(* cond_wait gives up its mutex and takes it again.                         *)
LEMMA MutexOfSleep ==
  ASSUME IInv, LocksProperly(prog), HoldsInv,
         NEW m \in Mutexes, MutexInvOf(m), NEW t \in Threads, Thread(t), SleepStep(t, m)
  PROVE  MutexInvOf(m)'
<1>0. /\ TypeOK /\ DataInv /\ ModeInv /\ CreateInv
      /\ \A v \in Threads : ThreadInv(v)
      /\ owner \in [Mutexes -> Threads \cup {NoThread}] /\ step \in [Threads -> Steps]
      /\ Cur(t).arg = m /\ In(t, "cond_wait") /\ ~ In(t, "lock") /\ ~ In(t, "unlock")
      /\ t # NoThread
  BY RecordAssumption DEF IInv, TypeOK, SleepStep, In
<1>1. t \notin Locking(m) /\ t \notin Unlocking(m)
  BY <1>0 DEF Locking, Between, Unlocking
<1>2. /\ Locking(m)' = Locking(m) /\ Unlocking(m)' = Unlocking(m)
      /\ Lost' = {} => Lost = {}
  <2>1. /\ Locking(m)' = (Locking(m) \ {t})
              \cup {u \in {t} : step'[t] = "update" /\ In(t, "lock") /\ Cur(t).obj = m}
        /\ Unlocking(m)' = (Unlocking(m) \ {t})
              \cup {u \in {t} : step'[t] = "update" /\ In(t, "unlock") /\ Cur(t).obj = m}
        /\ Lost' = {} => Lost = {}
    BY <1>0, MutexParts
  <2> QED
    BY <1>0, <1>1, <2>1
<1>3. CASE CondSleep(t)
  <2>1. step[t] = "real" /\ owner'[m] = NoThread /\ rec' = rec /\ raced' = raced
    BY <1>0, <1>3 DEF CondSleep, At, records
  <2>2. owner[m] = t
    BY <1>0, <2>1, OwnerGivesUp
  <2>3. Asleep(t, m)'
    BY <1>0, <1>3, AsleepStep
  <2>4. m \notin raced' /\ Lost' = {} => OwnerAsleep(m)' /\ Unlocking(m)' = {}
    <3> SUFFICES ASSUME m \notin raced, Lost' = {}
                 PROVE  OwnerAsleep(m)' /\ Unlocking(m)' = {}
      BY <2>1
    <3>1. rec[m].owner = t /\ Unlocking(m) = {}
      BY <1>0, <1>1, <1>2, <2>2 DEF MutexInvOf
    <3> QED
      BY <1>2, <2>1, <2>3, <3>1 DEF OwnerAsleep
  <2> QED
    BY <2>1, <2>4 DEF MutexInvOf
<1>4. CASE CondRelock(t)
  <2>1. /\ step[t] \in {"signalled", "timedout"} /\ owner[m] = NoThread /\ owner'[m] = t
        /\ rec' = rec /\ raced' = IF rec[m].owner = t THEN raced ELSE raced \cup {m}
    BY <1>0, <1>4 DEF CondRelock
  <2>2. m \notin raced' => rec[m].owner = t /\ m \notin raced
    BY <2>1
  <2>3. Asleep(t, m)
    BY <1>0, <2>1 DEF Asleep
  <2>4. m \notin raced' /\ Lost' = {} => Unlocking(m)' = {}
    BY <1>2, <2>2, <2>3 DEF MutexInvOf, OwnerAsleep
  <2> QED
    BY <1>0, <2>1, <2>2, <2>4 DEF MutexInvOf
<1> QED
  BY <1>3, <1>4 DEF SleepStep

(* A thread at work in a wrapper stays where it is when others act, unless  *)
(* a fork loses it.                                                         *)
LEMMA WorkerStays ==
  ASSUME IInv, Dmtcp \/ TemplateThread \/ UNCHANGED vars, Lost' = {}, NEW u \in Threads,
         step[u] \in {"update", "sleep", "signalled", "timedout"}
  PROVE  step'[u] = step[u]
<1>1. ~ BeforeRecord
  BY DEF IInv, ModeInv
<1>2. thr[u] = "ALIVE"
  BY <1>1, AtWork DEF IInv
<1>3. /\ step'[u] = step[u] \/ step'[u] \in {"park", "gone"}
      /\ step[u] \in {"await", "park", "parking", "parked"} \/ step'[u] # "park"
      /\ thr'[u] = "ALIVE"
  BY <1>2, OtherSteps
<1> QED
  BY <1>3 DEF Lost, Alive

LEMMA MutexKept ==
  ASSUME IInv, InitializedFirst(prog), LocksProperly(prog), HoldsInv, FreshInv, MutexInv,
         [Next]_vars
  PROVE  MutexInv'
<1>0. /\ TypeOK /\ DataInv /\ ModeInv /\ CreateInv
      /\ \A v \in Threads : ThreadInv(v)
  BY DEF IInv
<1> SUFFICES ASSUME NEW m \in Mutexes, MutexInvOf(m)
             PROVE  MutexInvOf(m)'
  BY DEF MutexInv, MutexInvOf
<1>u. Unlocking(m) = Between(m, "unlock") /\ Unlocking(m)' = Between(m, "unlock")'
  BY DEF Unlocking, Between
<1>1. ASSUME NEW t \in Threads, Thread(t) PROVE MutexInvOf(m)'
  <2>1. CASE MutexStep(t, m)
    BY <1>1, <2>1, MutexOfStep
  <2>2. CASE SleepStep(t, m)
    BY <1>1, <2>2, MutexOfSleep
  <2>3. CASE ~ MutexStep(t, m) /\ ~ SleepStep(t, m)
    <3>1. /\ owner'[m] = owner[m] /\ rec'[m] = rec[m] /\ (m \in raced' <=> m \in raced)
          /\ Between(m, "lock")' = Between(m, "lock")
          /\ Between(m, "unlock")' = Between(m, "unlock")
          /\ \A u \in Threads : Asleep(u, m)' <=> Asleep(u, m)
      BY <1>0, <1>1, <2>3, MutexSame
    <3>2. Lost' = {} => Lost = {}
      BY <1>0, <1>1, MutexParts
    <3>3. OwnerAsleep(m)' <=> OwnerAsleep(m)
      BY <3>1 DEF OwnerAsleep
    <3>4. Locking(m)' = Locking(m) /\ Unlocking(m)' = Unlocking(m)
      BY <1>u, <3>1 DEF Locking
    <3> QED
      BY <3>1, <3>2, <3>3, <3>4 DEF MutexInvOf
  <2> QED
    BY <2>1, <2>2, <2>3
<1>2. CASE Dmtcp \/ TemplateThread \/ UNCHANGED vars
  <2>1. /\ UNCHANGED <<prog, pc, owner, rec, raced>> /\ Lost \subseteq Lost'
        /\ \A t \in Threads : step'[t] = step[t] \/ step'[t] \in {"park", "gone"}
    BY <1>2, OtherSteps
  <2>2. CASE Lost' # {}
    BY <2>1, <2>2 DEF MutexInvOf
  <2>3. CASE Lost' = {}
    <3>1. Lost = {}
      BY <2>1, <2>3
    <3>2. \A t \in Threads : Cur(t)' = Cur(t) /\ \A k : In(t, k)' = In(t, k)
      BY <2>1, CurFrame
    <3>3. \A t \in Threads : step[t] \in {"update", "sleep", "signalled", "timedout"} =>
            step'[t] = step[t]
      BY <1>2, <2>3, WorkerStays
    <3>4. \A k : Between(m, k)' = Between(m, k)
      BY <2>1, <3>2, <3>3 DEF Between
    <3>5. \A t \in Threads : Asleep(t, m)' <=> Asleep(t, m)
      BY <2>1, <3>2, <3>3 DEF Asleep
    <3>6. OwnerAsleep(m)' <=> OwnerAsleep(m)
      BY <2>1, <3>5 DEF OwnerAsleep
    <3>7. Locking(m)' = Locking(m) /\ Unlocking(m)' = Unlocking(m)
      BY <1>u, <3>4 DEF Locking
    <3> QED
      BY <2>1, <2>3, <3>1, <3>6, <3>7 DEF MutexInvOf
  <2> QED
    BY <2>2, <2>3
<1> QED
  BY <1>1, <1>2 DEF Next

LEMMA InitMutex ==
  ASSUME Init
  PROVE  HoldsInv /\ FreshInv /\ MutexInv
<1>1. /\ \A t \in Threads : pc[t] = 1 /\ step[t] \notin {"update", "sleep", "signalled", "timedout"}
      /\ \A m \in Mutexes : owner[m] = NoThread
  BY DEF Init
<1>2. \A m \in Mutexes : rec[m].status = "NONE" /\ rec[m].owner = NoThread
  BY DEF Init, Objects, NoRecord, Record
<1>3. \A t \in Threads, m \in Mutexes : ~ Held(t, m)
  BY <1>1, HoldsNothing DEF Held, Locking, Between
<1>4. \A m \in Mutexes : Unlocking(m) = {}
  BY <1>1 DEF Unlocking
<1>5. FreshInv
  <2> SUFFICES ASSUME NEW i \in DOMAIN prog[Main], prog[Main][i].kind = "mutex_init"
               PROVE  prog[Main][i].obj \in Mutexes
    BY <1>1, <1>2 DEF FreshInv
  <2>1. prog[Main] \in Seq(Operations)
    BY RecordAssumption DEF Init
  <2>2. prog[Main][i] \in Operations
    BY <2>1
  <2> QED
    BY <2>2 DEF Operations, WellFormed
<1> QED
  BY <1>1, <1>2, <1>3, <1>4, <1>5 DEF HoldsInv, MutexInv

(* When the count was right nobody is between a call and its record.        *)
LEMMA SettledMutex ==
  ASSUME IInv, Settled, NEW m \in Mutexes
  PROVE  /\ Lost = {}
         /\ model.objs[m].status = rec[m].status /\ model.objs[m].owner = rec[m].owner
         /\ Locking(m) = {} /\ Unlocking(m) = {} /\ \A t \in Threads : ~ Asleep(t, m)
<1>1. saved = Alive /\ Busy = {} /\ Lost = {}
  BY EverybodyCheckedIn
<1>2. model.objs[m] = TranslatedObject(rec[m])
  BY <1>1 DEF IInv, ModelInv, Settled, Objects
<1>3. model.objs[m].status = rec[m].status /\ model.objs[m].owner = rec[m].owner
  BY <1>2 DEF TranslatedObject
<1>4. \A t \in Threads : step[t] \notin {"update", "sleep", "signalled", "timedout"}
  <2> SUFFICES ASSUME NEW t \in Threads,
                      step[t] \in {"update", "sleep", "signalled", "timedout"}
               PROVE  FALSE
    OBVIOUS
  <2>1. ~ BeforeRecord
    BY DEF IInv, ModeInv
  <2>2. t \in saved
    BY <1>1, <2>1, AtWork DEF IInv, Alive
  <2> QED
    BY <2>2 DEF IInv, SavedInv
<1>5. Locking(m) = {} /\ Unlocking(m) = {} /\ \A t \in Threads : ~ Asleep(t, m)
  BY <1>4 DEF Locking, Between, Unlocking, Asleep
<1> QED
  BY <1>1, <1>3, <1>5

(* The mutexes McMini starts from are locked, and by the same threads, if    *)
(* and only if the real ones are, wherever the checkpoint hit the locks and  *)
(* unlocks: except those whose record was overtaken (raced), in a program    *)
(* that initializes mutexes first and gives up only what it has locked.      *)
THEOREM MutexesAgree ==
  Spec => [](InitializedFirst(prog) /\ LocksProperly(prog) => MutexesRestored)
<1> DEFINE G == InitializedFirst(prog) /\ LocksProperly(prog) =>
                  HoldsInv /\ FreshInv /\ MutexInv
<1>1. Init => G
  BY InitMutex
<1>2. IInv /\ G /\ [Next]_vars => G'
  <2> SUFFICES ASSUME IInv, G, [Next]_vars, (InitializedFirst(prog) /\ LocksProperly(prog))'
               PROVE  (HoldsInv /\ FreshInv /\ MutexInv)'
    OBVIOUS
  <2>1. prog' = prog
    BY ProgramKept
  <2>2. InitializedFirst(prog) /\ LocksProperly(prog)
    BY <2>1 DEF InitializedFirst, LocksProperly, Holds
  <2> QED
    BY <2>2, HoldsKept, FreshKept, MutexKept
<1>3. IInv /\ G => (InitializedFirst(prog) /\ LocksProperly(prog) => MutexesRestored)
  <2> SUFFICES ASSUME IInv, MutexInv, Settled, NEW m \in Mutexes \ raced
               PROVE  /\ model.objs[m].status = "LOCKED" <=> owner[m] # NoThread
                      /\ owner[m] # NoThread => model.objs[m].owner = owner[m]
    BY DEF MutexesRestored
  <2>1. /\ Lost = {} /\ model.objs[m].status = rec[m].status
        /\ model.objs[m].owner = rec[m].owner
        /\ Locking(m) = {} /\ Unlocking(m) = {} /\ \A t \in Threads : ~ Asleep(t, m)
    BY SettledMutex
  <2>2. ~ OwnerAsleep(m)
    BY <2>1 DEF OwnerAsleep
  <2> QED
    BY <2>1, <2>2 DEF MutexInv
<1> HIDE DEF G
<1> QED
  BY <1>1, <1>2, <1>3, Invariance, PTL DEF Spec

-----------------------------------------------------------------------------
(* Records of mutexes, overtaken or not.                                   *)

PhantomOf(m) ==
  rec[m].owner # NoThread /\ Lost = {} =>
    rec[m].owner \in {owner[m]} \cup Unlocking(m) \/ Asleep(rec[m].owner, m)

(* The three wrappers of a mutex: only its locker is recorded as the owner, *)
(* and only until its unlock is.                                            *)
LEMMA PhantomOfStep ==
  ASSUME IInv, InitializedFirst(prog), LocksProperly(prog), HoldsInv, FreshInv,
         NEW m \in Mutexes, PhantomOf(m), NEW t \in Threads, Thread(t), MutexStep(t, m)
  PROVE  PhantomOf(m)'
<1>0. /\ TypeOK /\ DataInv /\ ModeInv /\ CreateInv /\ AloneInv
      /\ \A v \in Threads : ThreadInv(v)
      /\ owner \in [Mutexes -> Threads \cup {NoThread}] /\ step \in [Threads -> Steps]
      /\ rec \in [Objects -> RecordSet] /\ m \in Objects /\ rec[m] \in RecordSet
      /\ Cur(t).obj = m /\ ~ In(t, "cond_wait") /\ t # NoThread
  BY RecordAssumption DEF IInv, TypeOK, DataInv, Objects, MutexStep, MutexInit, MutexLock,
     MutexUnlock, In
<1>1. /\ Unlocking(m)' = (Unlocking(m) \ {t})
            \cup {u \in {t} : step'[t] = "update" /\ In(t, "unlock")}
      /\ Lost' = {} => Lost = {}
  BY <1>0, MutexParts
<1>2. t \in Unlocking(m) <=> step[t] = "update" /\ In(t, "unlock")
  BY <1>0 DEF Unlocking
<1>3. \A u \in Threads : Asleep(u, m)' <=> Asleep(u, m)
  BY <1>0, AsleepStep DEF SleepStep
<1>4. rec[m].owner \in Threads \cup {NoThread}
  BY <1>0 DEF RecordSet
<1>i. /\ owner'[m] = owner[m] /\ rec'[m].owner = rec[m].owner /\ Unlocking(m)' = Unlocking(m)
      => PhantomOf(m)'
  BY <1>1, <1>3, <1>4 DEF PhantomOf
<1>f. /\ FindOrAdd(t, Record("UNINITIALIZED", 0)) => PhantomOf(m)'
      /\ rec[m] # NoRecord /\ FindOrAdd(t, NoRecord) => PhantomOf(m)'
  <2> SUFFICES ASSUME NEW new, FindOrAdd(t, new),
                      new = Record("UNINITIALIZED", 0) \/ rec[m] # NoRecord
               PROVE  PhantomOf(m)'
    OBVIOUS
  <2>1. step[t] = "call" /\ step'[t] = "real" /\ owner' = owner
    BY <1>0 DEF FindOrAdd, At, Goto, real
  <2>2. Unlocking(m)' = Unlocking(m)
    BY <1>1, <1>2, <2>1
  <2>3. CASE rec[m] # NoRecord
    BY <1>0, <1>i, <2>1, <2>2, <2>3, FoundRecord
  <2>4. CASE rec[m] = NoRecord
    <3>1. rec'[m] = Record("UNINITIALIZED", 0)
      BY <1>0, <2>4 DEF FindOrAdd
    <3>2. rec'[m].owner = NoThread
      BY <3>1, NewRecords
    <3> QED
      BY <3>2 DEF PhantomOf
  <2> QED
    BY <2>3, <2>4
<1>5. CASE MutexInit(t)
  <2>0. In(t, "mutex_init")
    BY <1>5 DEF MutexInit
  <2>1. rec[m].owner = NoThread
    <3>1. t = Main
      BY <1>0, <2>0, InitAlone DEF In
    <3>2. pc[t] \in DOMAIN prog[t] /\ Cur(t) = prog[t][pc[t]] /\ pc[t] \in Nat
      BY <1>0, <2>0, CurFacts DEF DataInv, In
    <3> QED
      BY <1>0, <2>0, <3>1, <3>2 DEF FreshInv, In
  <2>2. CASE Called(t, [owner EXCEPT ![m] = NoThread], tokens) /\ UNCHANGED raced
    <3>1. rec' = rec
      BY <2>2 DEF Called
    <3> QED
      BY <2>1, <3>1 DEF PhantomOf
  <2>3. CASE Update(t, [rec[m] EXCEPT !.status = "UNLOCKED"]) /\ UNCHANGED raced
    <3>1. rec'[m] = [rec[m] EXCEPT !.status = "UNLOCKED"]
      BY <1>0, <2>3, UpdatedRecord
    <3>2. rec'[m].owner = NoThread
      BY <1>0, <2>1, <3>1, RecordFields
    <3> QED
      BY <3>2 DEF PhantomOf
  <2> QED
    BY <1>0, <1>5, <1>f, <2>2, <2>3 DEF MutexInit
<1>6. CASE MutexLock(t)
  <2>0. In(t, "lock") /\ ~ In(t, "unlock")
    BY <1>6 DEF MutexLock, In
  <2>1. Unlocking(m)' = Unlocking(m)
    BY <1>1, <1>2, <2>0
  <2>2. CASE /\ owner[m] = NoThread
             /\ Called(t, [owner EXCEPT ![m] = t], tokens)
             /\ raced' = IF Unlocking(m) # {} THEN raced \cup {m} ELSE raced
    <3>1. rec' = rec
      BY <2>2 DEF Called
    <3>2. rec[m].owner # NoThread /\ Lost = {} =>
            rec[m].owner \in Unlocking(m) \/ Asleep(rec[m].owner, m)
      BY <2>2 DEF PhantomOf
    <3> QED
      BY <1>1, <1>3, <1>4, <2>1, <3>1, <3>2 DEF PhantomOf
  <2>3. CASE owner[m] # NoThread /\ TimedOut(t)
    <3>1. owner' = owner /\ rec' = rec
      BY <2>3 DEF TimedOut, Announce, real, records
    <3> QED
      BY <1>i, <2>1, <3>1
  <2>4. CASE /\ Update(t, [rec[m] EXCEPT !.status = "LOCKED", !.owner = t])
             /\ raced' = IF Unlocking(m) = {} THEN raced \ {m} ELSE raced
    <3>1. rec'[m] = [rec[m] EXCEPT !.status = "LOCKED", !.owner = t] /\ step[t] = "update"
      BY <1>0, <2>4, UpdatedRecord
    <3>2. [rec[m] EXCEPT !.status = "LOCKED", !.owner = t].owner = t
      BY <1>0, LockedRecord, Zenon
    <3>3. rec'[m].owner = t
      BY <3>1, <3>2, Zenon
    <3>4. t \in Locking(m)
      BY <1>0, <2>0, <3>1 DEF Locking, Between
    <3>5. owner'[m] = t
      BY <2>4, <3>4 DEF HoldsInv, Held, Update, real
    <3> QED
      BY <3>3, <3>5 DEF PhantomOf
  <2> QED
    BY <1>0, <1>6, <1>f, <2>2, <2>3, <2>4 DEF MutexLock
<1>7. CASE MutexUnlock(t)
  <2>0. In(t, "unlock")
    BY <1>7 DEF MutexUnlock
  <2>1. CASE At(t, "call") /\ Terminate(t, "abort")
    <3>1. owner' = owner /\ rec' = rec /\ step[t] = "call" /\ step'[t] = "call"
      BY <2>1 DEF Terminate, At, real, records
    <3>2. Unlocking(m)' = Unlocking(m)
      BY <1>1, <1>2, <3>1
    <3> QED
      BY <1>i, <3>1, <3>2
  <2>2. CASE Called(t, [owner EXCEPT ![m] = NoThread], tokens)
    <3>1. rec' = rec /\ step[t] = "real" /\ step'[t] = "update"
      BY <1>0, <2>2 DEF Called, At, Goto
    <3>2. owner[m] = t
      BY <1>0, <2>0, <3>1, OwnerGivesUp
    <3>3. t \in Unlocking(m)' /\ Unlocking(m) \subseteq Unlocking(m)'
      BY <1>1, <1>2, <2>0, <3>1
    <3> QED
      BY <1>1, <1>3, <1>4, <3>1, <3>2, <3>3 DEF PhantomOf
  <2>3. CASE Update(t, UnlockedRecord(rec[m]))
    <3>1. rec'[m] = UnlockedRecord(rec[m])
      BY <1>0, <2>3, UpdatedRecord
    <3>2. rec'[m].owner = NoThread
      BY <1>0, <3>1, ChangedRecords
    <3> QED
      BY <3>2 DEF PhantomOf
  <2> QED
    BY <1>0, <1>7, <1>f, <2>1, <2>2, <2>3 DEF MutexUnlock
<1> QED
  BY <1>5, <1>6, <1>7 DEF MutexStep

LEMMA PhantomKept ==
  ASSUME IInv, InitializedFirst(prog), LocksProperly(prog), HoldsInv, FreshInv, PhantomInv,
         [Next]_vars
  PROVE  PhantomInv'
<1>0. /\ TypeOK /\ DataInv /\ ModeInv /\ CreateInv
      /\ \A v \in Threads : ThreadInv(v)
  BY DEF IInv
<1> SUFFICES ASSUME NEW m \in Mutexes, PhantomOf(m)
             PROVE  PhantomOf(m)'
  BY DEF PhantomInv, PhantomOf
<1>u. Unlocking(m) = Between(m, "unlock") /\ Unlocking(m)' = Between(m, "unlock")'
  BY DEF Unlocking, Between
<1>o. rec[m].owner \in Threads \cup {NoThread}
  <2>1. m \in Objects
    BY DEF Objects
  <2> QED
    BY <1>0, <2>1 DEF DataInv, RecordSet
<1>1. ASSUME NEW t \in Threads, Thread(t) PROVE PhantomOf(m)'
  <2>0. Lost' = {} => Lost = {}
    BY <1>0, <1>1, MutexParts
  <2>1. CASE MutexStep(t, m)
    BY <1>1, <2>1, PhantomOfStep
  <2>2. CASE SleepStep(t, m)
    <3>0. In(t, "cond_wait") /\ Cur(t).arg = m /\ ~ In(t, "unlock")
          /\ owner \in [Mutexes -> Threads \cup {NoThread}]
      BY <1>0, <2>2 DEF SleepStep, In, TypeOK
    <3>1. rec' = rec
      BY <2>2 DEF SleepStep, CondSleep, CondRelock, records
    <3>2. Unlocking(m)' = Unlocking(m)
      <4>1. Unlocking(m)' = (Unlocking(m) \ {t})
              \cup {u \in {t} : step'[t] = "update" /\ In(t, "unlock") /\ Cur(t).obj = m}
        BY <1>0, <1>1, MutexParts
      <4>2. t \notin Unlocking(m)
        BY <3>0 DEF Unlocking
      <4> QED
        BY <3>0, <4>1, <4>2
    <3>3. /\ \A u \in Threads \ {t} : Asleep(u, m)' <=> Asleep(u, m)
          /\ CondSleep(t) => Asleep(t, m)'
      BY <1>0, <1>1, <3>0, AsleepStep
    <3>4. CASE CondSleep(t)
      <4>1. step[t] = "real"
        BY <3>4 DEF CondSleep, At
      <4>2. owner[m] = t
        BY <1>0, <3>0, <4>1, OwnerGivesUp
      <4> QED
        BY <1>o, <2>0, <3>1, <3>2, <3>3, <3>4, <4>2 DEF PhantomOf
    <3>5. CASE CondRelock(t)
      <4>1. owner[m] = NoThread /\ owner'[m] = t
        BY <3>0, <3>5 DEF CondRelock
      <4> QED
        BY <1>o, <2>0, <3>1, <3>2, <3>3, <4>1 DEF PhantomOf
    <3> QED
      BY <2>2, <3>4, <3>5 DEF SleepStep
  <2>3. CASE ~ MutexStep(t, m) /\ ~ SleepStep(t, m)
    <3>1. /\ owner'[m] = owner[m] /\ rec'[m] = rec[m]
          /\ Between(m, "unlock")' = Between(m, "unlock")
          /\ \A u \in Threads : Asleep(u, m)' <=> Asleep(u, m)
      BY <1>0, <1>1, <2>3, MutexSame
    <3> QED
      BY <1>o, <1>u, <2>0, <3>1 DEF PhantomOf
  <2> QED
    BY <2>1, <2>2, <2>3
<1>2. CASE Dmtcp \/ TemplateThread \/ UNCHANGED vars
  <2>1. /\ UNCHANGED <<prog, pc, owner, rec, raced>> /\ Lost \subseteq Lost'
        /\ \A t \in Threads : step'[t] = step[t] \/ step'[t] \in {"park", "gone"}
    BY <1>2, OtherSteps
  <2>2. CASE Lost' # {}
    BY <2>2 DEF PhantomOf
  <2>3. CASE Lost' = {}
    <3>1. Lost = {}
      BY <2>1, <2>3
    <3>2. \A t \in Threads : Cur(t)' = Cur(t) /\ \A k : In(t, k)' = In(t, k)
      BY <2>1, CurFrame
    <3>3. \A t \in Threads : step[t] \in {"update", "sleep", "signalled", "timedout"} =>
            step'[t] = step[t]
      BY <1>2, <2>3, WorkerStays
    <3>4. Unlocking(m)' = Unlocking(m)
      BY <2>1, <3>2, <3>3 DEF Unlocking
    <3>5. \A t \in Threads : Asleep(t, m)' <=> Asleep(t, m)
      BY <2>1, <3>2, <3>3 DEF Asleep
    <3> QED
      BY <1>o, <2>1, <2>3, <3>1, <3>4, <3>5 DEF PhantomOf
  <2> QED
    BY <2>2, <2>3
<1> QED
  BY <1>1, <1>2 DEF Next

(* The restored mutexes that are locked are really locked, by these threads, *)
(* also if an unlock's record came late or a cond_wait has left its own out: *)
(* a race loses a lock at most, in a program that initializes mutexes first  *)
(* and gives up only what it has locked.                                     *)
THEOREM LocksAreNotInvented ==
  Spec => [](InitializedFirst(prog) /\ LocksProperly(prog) => NoPhantomLock)
<1> DEFINE G == InitializedFirst(prog) /\ LocksProperly(prog) =>
                  HoldsInv /\ FreshInv /\ MutexInv /\ PhantomInv
<1>1. Init => G
  <2> SUFFICES ASSUME Init, InitializedFirst(prog), LocksProperly(prog)
               PROVE  HoldsInv /\ FreshInv /\ MutexInv /\ PhantomInv
    OBVIOUS
  <2>1. \A m \in Mutexes : rec[m].owner = NoThread
    BY DEF Init, Objects, NoRecord, Record
  <2> QED
    BY <2>1, InitMutex DEF PhantomInv
<1>2. IInv /\ G /\ [Next]_vars => G'
  <2> SUFFICES ASSUME IInv, G, [Next]_vars, (InitializedFirst(prog) /\ LocksProperly(prog))'
               PROVE  (HoldsInv /\ FreshInv /\ MutexInv /\ PhantomInv)'
    OBVIOUS
  <2>1. prog' = prog
    BY ProgramKept
  <2>2. InitializedFirst(prog) /\ LocksProperly(prog)
    BY <2>1 DEF InitializedFirst, LocksProperly, Holds
  <2> QED
    BY <2>2, HoldsKept, FreshKept, MutexKept, PhantomKept
<1>3. IInv /\ G => (InitializedFirst(prog) /\ LocksProperly(prog) => NoPhantomLock)
  <2> SUFFICES ASSUME IInv, MutexInv, PhantomInv, Settled, NEW m \in Mutexes,
                      model.objs[m].status = "LOCKED"
               PROVE  owner[m] = model.objs[m].owner
    BY DEF NoPhantomLock
  <2>1. /\ Lost = {} /\ model.objs[m].status = rec[m].status
        /\ model.objs[m].owner = rec[m].owner
        /\ Locking(m) = {} /\ Unlocking(m) = {} /\ \A t \in Threads : ~ Asleep(t, m)
    BY SettledMutex
  <2>2. rec[m].owner # NoThread
    BY <2>1 DEF MutexInv
  <2>3. rec[m].owner \in Threads
    <3>1. m \in Objects
      BY DEF Objects
    <3> QED
      BY <2>2, <3>1 DEF IInv, DataInv, RecordSet
  <2> QED
    BY <2>1, <2>2, <2>3 DEF PhantomInv
<1> HIDE DEF G
<1> QED
  BY <1>1, <1>2, <1>3, Invariance, PTL DEF Spec
=============================================================================
