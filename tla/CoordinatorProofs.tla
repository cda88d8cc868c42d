-------------------------- MODULE CoordinatorProofs --------------------------
(***************************************************************************)
(* Proofs about Coordinator, for any programs, depth and choice of         *)
(* backtrack points.  The hypotheses about the target, a function of the   *)
(* schedule, are named where they are first needed: ProgramsTyped,         *)
(* AbnormalEndsAreFinal, MainCreatesThreads, HandlesAreFresh,              *)
(* FirstUsesAreStable.                                                     *)
(***************************************************************************)
EXTENDS Coordinator, SequenceFacts, FiniteSetTheorems

-----------------------------------------------------------------------------
(* Transitions.                                                            *)

(* What each kind of transition does to a state.                           *)
LEMMA ModifyArms ==
  ASSUME NEW s, NEW tr
  PROVE  /\ tr.kind = "mutex_init" => Modify(s, tr) = MutexInit(s, tr.obj)
         /\ tr.kind = "lock" => Modify(s, tr) = MutexLock(s, tr.by, tr.obj)
         /\ tr.kind = "unlock" => Modify(s, tr) = MutexUnlock(s, tr.by, tr.obj)
         /\ tr.kind = "sem_init" => Modify(s, tr) = SemInit(s, tr.obj)
         /\ tr.kind = "sem_post" => Modify(s, tr) = SemPost(s, tr.obj)
         /\ tr.kind = "sem_wait" => Modify(s, tr) = SemWait(s, tr.obj)
         /\ tr.kind = "create" => Modify(s, tr) = ThreadCreate(s, tr.obj)
         /\ tr.kind = "start" => Modify(s, tr) = ThreadStart(s, tr.by)
         /\ tr.kind = "join" => Modify(s, tr) = ThreadJoin(s, tr.obj)
         /\ tr.kind = "exit" => Modify(s, tr) = ThreadExit(s, tr.by)
         /\ tr.kind = "abort" => Modify(s, tr) = ProcessAbort(s)
         /\ tr.kind \in {"process_exit", "exit_failure"} => Modify(s, tr) = ProcessExit(s, tr.by)
<1>1. tr.kind = "mutex_init" => Modify(s, tr) = MutexInit(s, tr.obj)
  BY Zenon DEF Modify
<1>2. tr.kind = "lock" => Modify(s, tr) = MutexLock(s, tr.by, tr.obj)
  BY Zenon DEF Modify
<1>3. tr.kind = "unlock" => Modify(s, tr) = MutexUnlock(s, tr.by, tr.obj)
  BY Zenon DEF Modify
<1>4. tr.kind = "sem_init" => Modify(s, tr) = SemInit(s, tr.obj)
  BY Zenon DEF Modify
<1>5. tr.kind = "sem_post" => Modify(s, tr) = SemPost(s, tr.obj)
  BY Zenon DEF Modify
<1>6. tr.kind = "sem_wait" => Modify(s, tr) = SemWait(s, tr.obj)
  BY Zenon DEF Modify
<1>7. tr.kind = "create" => Modify(s, tr) = ThreadCreate(s, tr.obj)
  BY Zenon DEF Modify
<1>8. tr.kind = "start" => Modify(s, tr) = ThreadStart(s, tr.by)
  BY Zenon DEF Modify
<1>9. tr.kind = "join" => Modify(s, tr) = ThreadJoin(s, tr.obj)
  BY Zenon DEF Modify
<1>10. tr.kind = "exit" => Modify(s, tr) = ThreadExit(s, tr.by)
  BY Zenon DEF Modify
<1>11. tr.kind = "abort" => Modify(s, tr) = ProcessAbort(s)
  BY Zenon DEF Modify
<1>12. tr.kind \in {"process_exit", "exit_failure"} => Modify(s, tr) = ProcessExit(s, tr.by)
  BY Zenon DEF Modify
<1> QED
  BY <1>1, <1>2, <1>3, <1>4, <1>5, <1>6, <1>7, <1>8, <1>9, <1>10, <1>11, <1>12

(* A transition keeps the types; only a thread's own step takes it out of  *)
(* "running", only a create takes a thread out of "embryo".                *)
LEMMA ApplyEffect ==
  ASSUME NEW s \in States, NEW tr \in Operations, NEW r \in ApplyTo(s, tr)
  PROVE  /\ r \in States
         /\ s.thr[tr.by] = "running"
         /\ \A t \in Runners :
              /\ s.thr[t] # "embryo" => r.thr[t] # "embryo"
              /\ s.thr[t] = "running" /\ t # tr.by => r.thr[t] = "running"
              /\ s.thr[t] = "embryo" /\ r.thr[t] # "embryo" =>
                   tr.kind = "create" /\ tr.obj = t
              /\ s.thr[t] = "exited" /\ r.thr[t] # "exited" =>
                   tr.kind = "create" /\ tr.obj = t
              /\ s.thr[t] # "exited" /\ r.thr[t] = "exited" =>
                   /\ t = tr.by
                   /\ tr.kind \in {"process_exit", "exit_failure"} \/ (tr.kind = "exit" /\ t # Main)
         /\ tr.kind = "create" => r.thr[tr.obj] = "running"
<1>1. s.thr[tr.by] = "running" /\ r \in Modify(s, tr)
  BY DEF ApplyTo
<1>2. tr.by \in Runners /\ tr.by # NoRunner /\ NoRunner \notin Runners
  BY TransitionsAssumption DEF Operations, Runners, NoRunner
<1>3. CASE tr.kind = "mutex_init" /\ tr.obj \in Mutexes
  BY <1>1, <1>2, <1>3, ModifyArms DEF MutexInit, States
<1>4. CASE tr.kind = "lock" /\ tr.obj \in Mutexes
  BY <1>1, <1>2, <1>4, ModifyArms DEF MutexLock, Produces, States
<1>5. CASE tr.kind = "unlock" /\ tr.obj \in Mutexes
  BY <1>1, <1>2, <1>5, ModifyArms DEF MutexUnlock, Produces, States
<1>6. CASE tr.kind = "sem_init" /\ tr.obj \in Semaphores
  BY <1>1, <1>2, <1>6, ModifyArms, TransitionsAssumption DEF SemInit, States
<1>7. CASE tr.kind = "sem_post" /\ tr.obj \in Semaphores
  BY <1>1, <1>2, <1>7, ModifyArms DEF SemPost, States
<1>8. CASE tr.kind = "sem_wait" /\ tr.obj \in Semaphores
  BY <1>1, <1>2, <1>8, ModifyArms DEF SemWait, Produces, States
<1>9. CASE tr.kind = "create" /\ tr.obj \in Runners
  BY <1>1, <1>2, <1>9, ModifyArms DEF ThreadCreate, States
<1>10. CASE tr.kind = "start"
  BY <1>1, <1>2, <1>10, ModifyArms DEF ThreadStart, Produces, States
<1>11. CASE tr.kind = "join"
  BY <1>1, <1>2, <1>11, ModifyArms DEF ThreadJoin, Produces, States
<1>12. CASE tr.kind = "exit"
  BY <1>1, <1>2, <1>12, ModifyArms DEF ThreadExit, Produces, States
<1>13. CASE tr.kind = "abort"
  BY <1>1, <1>2, <1>13, ModifyArms DEF ProcessAbort, States
<1>14. CASE tr.kind \in {"process_exit", "exit_failure"}
  BY <1>1, <1>2, <1>14, ModifyArms DEF ProcessExit, States
<1> QED
  BY <1>3, <1>4, <1>5, <1>6, <1>7, <1>8, <1>9, <1>10, <1>11, <1>12, <1>13, <1>14
     DEF Operations

(* A running thread can always abort or leave; only main cannot exit.      *)
LEMMA AlwaysEnabled ==
  ASSUME NEW s \in States, NEW tr, s.thr[tr.by] = "running",
         \/ tr.kind \in {"abort", "process_exit", "exit_failure"}
         \/ tr.kind = "exit" /\ tr.by # Main
  PROVE  Enabled(s, tr)
<1>1. CASE tr.kind = "abort"
  BY <1>1, ModifyArms DEF Enabled, ApplyTo, ProcessAbort
<1>2. CASE tr.kind \in {"process_exit", "exit_failure"}
  BY <1>2, ModifyArms DEF Enabled, ApplyTo, ProcessExit
<1>3. CASE tr.kind = "exit" /\ tr.by # Main
  BY <1>3, ModifyArms DEF Enabled, ApplyTo, ThreadExit, Produces
<1> QED
  BY <1>1, <1>2, <1>3

-----------------------------------------------------------------------------
(* Schedules.                                                              *)

(* The first n steps of a schedule.                                        *)
LEMMA PrefixProperties ==
  ASSUME NEW S, NEW h \in Seq(S), NEW n \in 0..Len(h)
  PROVE  /\ SubSeq(h, 1, n) \in Seq(S)
         /\ Len(SubSeq(h, 1, n)) = n
         /\ \A i \in 1..n : SubSeq(h, 1, n)[i] = h[i]
         /\ \A m \in 0..n : SubSeq(SubSeq(h, 1, n), 1, m) = SubSeq(h, 1, m)
         /\ SubSeq(h, 1, Len(h)) = h
<1>1. \A m \in 0..Len(h) :
        /\ SubSeq(h, 1, m) \in Seq(S)
        /\ Len(SubSeq(h, 1, m)) = m
        /\ \A i \in 1..m : SubSeq(h, 1, m)[i] = h[i]
  <2> SUFFICES ASSUME NEW m \in 0..Len(h)
               PROVE  /\ SubSeq(h, 1, m) \in Seq(S)
                      /\ Len(SubSeq(h, 1, m)) = m
                      /\ \A i \in 1..m : SubSeq(h, 1, m)[i] = h[i]
    OBVIOUS
  <2>1. Len(h) \in Nat
    BY LenProperties
  <2>2. 1 \in Int /\ m \in Int /\ \A i \in 1..m : h[i] \in S
    BY <2>1, ElementOfSeq
  <2>3. /\ SubSeq(h, 1, m) \in Seq(S)
        /\ Len(SubSeq(h, 1, m)) = IF 1 <= m THEN m - 1 + 1 ELSE 0
        /\ \A i \in 1..(m - 1 + 1) : SubSeq(h, 1, m)[i] = h[1 + i - 1]
    BY <2>2, SubSeqProperties
  <2> QED
    BY <2>1, <2>3
<1>2. Len(h) \in Nat
  BY LenProperties
<1>3. ASSUME NEW m \in 0..n
      PROVE  SubSeq(SubSeq(h, 1, n), 1, m) = SubSeq(h, 1, m)
  <2> DEFINE g == SubSeq(h, 1, n)
  <2>1. g \in Seq(S) /\ Len(g) = n /\ \A i \in 1..n : g[i] = h[i]
    BY <1>1
  <2> HIDE DEF g
  <2>2. m \in Int /\ \A i \in 1..m : g[i] \in S
    BY <1>2, <2>1, ElementOfSeq
  <2>3. /\ SubSeq(g, 1, m) \in Seq(S)
        /\ Len(SubSeq(g, 1, m)) = IF 1 <= m THEN m - 1 + 1 ELSE 0
        /\ \A i \in 1..(m - 1 + 1) : SubSeq(g, 1, m)[i] = g[1 + i - 1]
    BY <2>2, SubSeqProperties
  <2>4. Len(SubSeq(g, 1, m)) = m /\ \A i \in 1..m : SubSeq(g, 1, m)[i] = h[i]
    BY <1>2, <2>1, <2>3
  <2>5. m \in 0..Len(h)
    BY <1>2
  <2>6. /\ SubSeq(h, 1, m) \in Seq(S) /\ Len(SubSeq(h, 1, m)) = m
        /\ \A i \in 1..m : SubSeq(h, 1, m)[i] = h[i]
    BY <1>1, <2>5
  <2>7. SubSeq(g, 1, m) = SubSeq(h, 1, m)
    BY <2>3, <2>4, <2>6, SeqEqual
  <2> QED
    BY <2>7 DEF g
<1>4. SubSeq(h, 1, Len(h)) = h
  BY SubSeqFull
<1> QED
  BY <1>1, <1>3, <1>4

(* A schedule of at least one step.                                        *)
LEMMA NonemptyPrefix ==
  ASSUME NEW S, NEW h \in Seq(S), NEW n \in 1..Len(h)
  PROVE  SubSeq(h, 1, n) \in Seq(S) /\ SubSeq(h, 1, n) # <<>>
<1>1. Len(h) \in Nat
  BY LenProperties
<1>2. n \in 0..Len(h) /\ n # 0
  BY <1>1
<1>3. SubSeq(h, 1, n) \in Seq(S) /\ Len(SubSeq(h, 1, n)) = n
  BY <1>2, PrefixProperties
<1>4. Len(<<>>) = 0
  BY EmptySeq
<1> QED
  BY <1>2, <1>3, <1>4

(* One step more leaves the earlier prefixes alone.                        *)
LEMMA PrefixOfAppend ==
  ASSUME NEW S, NEW h \in Seq(S), NEW t \in S, NEW n \in 0..Len(h)
  PROVE  SubSeq(Append(h, t), 1, n) = SubSeq(h, 1, n)
<1> DEFINE g == Append(h, t)
<1>1. g \in Seq(S) /\ Len(g) = Len(h) + 1 /\ \A i \in 1..Len(h) : g[i] = h[i]
  BY AppendProperties
<1> HIDE DEF g
<1>2. Len(h) \in Nat /\ n \in 0..Len(g)
  BY <1>1, LenProperties
<1>3. SubSeq(g, 1, n) \in Seq(S) /\ Len(SubSeq(g, 1, n)) = n
      /\ \A i \in 1..n : SubSeq(g, 1, n)[i] = g[i]
  BY <1>1, <1>2, PrefixProperties
<1>4. SubSeq(h, 1, n) \in Seq(S) /\ Len(SubSeq(h, 1, n)) = n
      /\ \A i \in 1..n : SubSeq(h, 1, n)[i] = h[i]
  BY PrefixProperties
<1>5. \A i \in 1..n : SubSeq(g, 1, n)[i] = SubSeq(h, 1, n)[i]
  BY <1>1, <1>2, <1>3, <1>4
<1>6. SubSeq(g, 1, n) = SubSeq(h, 1, n)
  BY <1>3, <1>4, <1>5, SeqEqual
<1> QED
  BY <1>6 DEF g

(* The last step of t in a schedule.                                       *)
LEMMA LastRunProperties ==
  ASSUME NEW h \in Seq(Runners), NEW t
  PROVE  /\ LastRun(h, t) \in 0..Len(h)
         /\ LastRun(h, t) > 0 => h[LastRun(h, t)] = t
         /\ \A i \in 1..Len(h) : i > LastRun(h, t) => h[i] # t
<1> DEFINE I == {i \in 1..Len(h) : h[i] = t}
<1>1. Len(h) \in Nat
  BY LenProperties
<1>2. LastRun(h, t) = IF I # {} THEN Max(I) ELSE 0
  BY DEF LastRun, SelectLastInSeq
<1>3. I \subseteq Nat /\ \A x \in I : x <= Len(h)
  BY <1>1
<1>4. CASE I = {}
  BY <1>1, <1>2, <1>4
<1>5. CASE I # {}
  <2> HIDE DEF I
  <2>1. Max(I) \in I /\ \A y \in I : Max(I) >= y
    BY <1>1, <1>3, <1>5, MaxOfBounded
  <2>2. LastRun(h, t) = Max(I)
    BY <1>2, <1>5
  <2>3. Max(I) \in 1..Len(h) /\ h[Max(I)] = t
    BY <2>1 DEF I
  <2>4. ASSUME NEW i \in 1..Len(h), i > Max(I)
        PROVE  h[i] # t
    BY <1>1, <2>1, <2>3, <2>4 DEF I
  <2> QED
    BY <1>1, <2>2, <2>3, <2>4
<1> QED
  BY <1>4, <1>5

(* It is the only step with these properties.                              *)
LEMMA LastRunUnique ==
  ASSUME NEW h \in Seq(Runners), NEW t, NEW k \in 0..Len(h),
         k > 0 => h[k] = t,
         \A i \in 1..Len(h) : i > k => h[i] # t
  PROVE  LastRun(h, t) = k
<1>1. Len(h) \in Nat
  BY LenProperties
<1>2. /\ LastRun(h, t) \in 0..Len(h)
      /\ LastRun(h, t) > 0 => h[LastRun(h, t)] = t
      /\ \A i \in 1..Len(h) : i > LastRun(h, t) => h[i] # t
  BY LastRunProperties
<1> QED
  BY <1>1, <1>2

(* A thread is where it was when it ran last.                              *)
LEMMA OpAfterCut ==
  ASSUME NEW p, NEW h \in Seq(Runners), NEW n \in 0..Len(h), NEW t,
         \A i \in (n + 1)..Len(h) : h[i] # t
  PROVE  OpAfter(p, h, t) = OpAfter(p, SubSeq(h, 1, n), t)
<1> DEFINE g == SubSeq(h, 1, n)
           k == LastRun(h, t)
<1>1. Len(h) \in Nat
  BY LenProperties
<1>2. /\ k \in 0..Len(h) /\ (k > 0 => h[k] = t)
      /\ \A i \in 1..Len(h) : i > k => h[i] # t
  BY LastRunProperties
<1>3. k \in 0..n
  BY <1>1, <1>2
<1>4. /\ g \in Seq(Runners) /\ Len(g) = n
      /\ \A i \in 1..n : g[i] = h[i]
      /\ \A m \in 0..n : SubSeq(g, 1, m) = SubSeq(h, 1, m)
  BY PrefixProperties
<1> HIDE DEF g, k
<1>5. k \in 0..Len(g) /\ (k > 0 => g[k] = t)
  BY <1>1, <1>2, <1>3, <1>4
<1>6. \A i \in 1..Len(g) : i > k => g[i] # t
  BY <1>1, <1>2, <1>4
<1>7. LastRun(g, t) = k
  BY <1>4, <1>5, <1>6, LastRunUnique
<1>8. SubSeq(g, 1, k) = SubSeq(h, 1, k)
  BY <1>3, <1>4
<1> QED
  BY <1>7, <1>8 DEF OpAfter, g, k

(* After a step, the thread that made it is at what it announces; the      *)
(* others stay where they were.                                            *)
LEMMA OpAfterStep ==
  ASSUME NEW p, NEW h \in Seq(Runners), NEW t \in Runners
  PROVE  /\ OpAfter(p, Append(h, t), t) = Message(p, Append(h, t))
         /\ \A u \in Runners : u # t => OpAfter(p, Append(h, t), u) = OpAfter(p, h, u)
<1> DEFINE g == Append(h, t)
<1>1. /\ g \in Seq(Runners) /\ Len(g) = Len(h) + 1
      /\ g[Len(h) + 1] = t /\ Len(h) \in Nat
  BY AppendProperties, LenProperties
<1>2. SubSeq(g, 1, Len(h)) = h
  BY <1>1, PrefixOfAppend, PrefixProperties
<1> HIDE DEF g
<1>3. LastRun(g, t) = Len(g)
  <2>1. Len(g) \in 0..Len(g) /\ g[Len(g)] = t
    BY <1>1
  <2>2. \A i \in 1..Len(g) : i > Len(g) => g[i] # t
    BY <1>1
  <2> QED
    BY <1>1, <2>1, <2>2, LastRunUnique
<1>4. SubSeq(g, 1, Len(g)) = g /\ LastRun(g, t) > 0
  BY <1>1, <1>3, SubSeqFull
<1>5. OpAfter(p, g, t) = Message(p, g)
  BY <1>3, <1>4, Zenon DEF OpAfter
<1>6. ASSUME NEW u \in Runners, u # t
      PROVE  OpAfter(p, g, u) = OpAfter(p, h, u)
  <2>1. Len(h) \in 0..Len(g) /\ \A i \in (Len(h) + 1)..Len(g) : g[i] # u
    BY <1>1, <1>6
  <2>2. OpAfter(p, g, u) = OpAfter(p, SubSeq(g, 1, Len(h)), u)
    BY <1>1, <2>1, OpAfterCut
  <2> QED
    BY <1>2, <2>2
<1> QED
  BY <1>5, <1>6 DEF g

(* The number of threads only grows, and by at most one a step.            *)
LEMMA BornProperties ==
  ASSUME NEW p \in Programs, NEW h \in Seq(Runners)
  PROVE  /\ Born(p, h) \in Nat /\ LiveIn(p) <= Born(p, h)
         /\ \A n \in 0..Len(h) : Born(p, SubSeq(h, 1, n)) <= Born(p, h)
         /\ \A t \in Runners :
              Born(p, Append(h, t)) =
                IF IsCreate(p, Append(h, t)) THEN Born(p, h) + 1 ELSE Born(p, h)
         /\ Born(p, <<>>) = LiveIn(p)
<1> DEFINE C(g) == {i \in 1..Len(g) : IsCreate(p, SubSeq(g, 1, i))}
<1>1. \A g \in Seq(Runners) :
        /\ Born(p, g) = LiveIn(p) + Cardinality(C(g))
        /\ IsFiniteSet(C(g)) /\ Cardinality(C(g)) \in Nat
  <2> SUFFICES ASSUME NEW g \in Seq(Runners)
               PROVE  /\ Born(p, g) = LiveIn(p) + Cardinality(C(g))
                      /\ IsFiniteSet(C(g)) /\ Cardinality(C(g)) \in Nat
    OBVIOUS
  <2>1. DOMAIN g = 1..Len(g) /\ Len(g) \in Nat
    BY LenProperties
  <2>2. IsFiniteSet(1..Len(g))
    BY <2>1, FS_Interval
  <2>3. IsFiniteSet(C(g))
    BY <2>2, FS_Subset
  <2>4. Cardinality(C(g)) \in Nat
    BY <2>3, FS_CardinalityType
  <2> QED
    BY <2>1, <2>3, <2>4 DEF Born
<1>2. \A g : \A i : i \in C(g) <=> i \in 1..Len(g) /\ IsCreate(p, SubSeq(g, 1, i))
  OBVIOUS
<1>3. C(<<>>) = {}
  <2>1. Len(<<>>) = 0
    BY EmptySeq
  <2> QED
    BY <2>1
<1> HIDE DEF C
<1>4. LiveIn(p) \in Nat
  BY CoordinatorAssumption, TransitionsAssumption
<1>5. Born(p, h) \in Nat /\ LiveIn(p) <= Born(p, h)
  BY <1>1, <1>4
<1>6. ASSUME NEW n \in 0..Len(h)
      PROVE  Born(p, SubSeq(h, 1, n)) <= Born(p, h)
  <2> DEFINE g == SubSeq(h, 1, n)
  <2>1. g \in Seq(Runners) /\ Len(g) = n
        /\ \A m \in 0..n : SubSeq(g, 1, m) = SubSeq(h, 1, m)
    BY PrefixProperties
  <2>2. Len(h) \in Nat
    BY LenProperties
  <2> HIDE DEF g
  <2>3. ASSUME NEW i \in C(g)
        PROVE  i \in C(h)
    <3>1. i \in 1..Len(g) /\ IsCreate(p, SubSeq(g, 1, i))
      BY <1>2, Zenon
    <3>2. i \in 0..n /\ i \in 1..Len(h)
      BY <2>1, <2>2, <3>1
    <3>3. SubSeq(g, 1, i) = SubSeq(h, 1, i)
      BY <2>1, <3>2, Zenon
    <3> QED
      BY <1>2, <3>1, <3>2, <3>3, Zenon
  <2>4. Cardinality(C(g)) <= Cardinality(C(h))
    BY <1>1, <2>3, FS_Subset
  <2>5. Born(p, g) <= Born(p, h)
    BY <1>1, <1>4, <2>1, <2>4
  <2> QED
    BY <2>5 DEF g
<1>7. ASSUME NEW t \in Runners
      PROVE  Born(p, Append(h, t)) =
               IF IsCreate(p, Append(h, t)) THEN Born(p, h) + 1 ELSE Born(p, h)
  <2> DEFINE g == Append(h, t)
  <2>1. g \in Seq(Runners) /\ Len(g) = Len(h) + 1 /\ Len(h) \in Nat
    BY AppendProperties, LenProperties
  <2>2. \A i \in 1..Len(h) : SubSeq(g, 1, i) = SubSeq(h, 1, i)
    BY <2>1, PrefixOfAppend
  <2>3. SubSeq(g, 1, Len(h) + 1) = g
    BY <2>1, SubSeqFull
  <2> HIDE DEF g
  <2>4. ASSUME NEW i
        PROVE  i \in C(g) <=> i \in C(h) \/ (i = Len(h) + 1 /\ IsCreate(p, g))
    <3>1. i \in 1..Len(g) <=> i \in 1..Len(h) \/ i = Len(h) + 1
      BY <2>1
    <3>2. i = Len(h) + 1 => SubSeq(g, 1, i) = g
      BY <2>3, Zenon
    <3>3. i \in 1..Len(h) => SubSeq(g, 1, i) = SubSeq(h, 1, i)
      BY <2>2, Zenon
    <3> QED
      BY <1>2, <3>1, <3>2, <3>3, Zenon
  <2>5. CASE IsCreate(p, g)
    <3>1. C(g) = C(h) \cup {Len(h) + 1}
      BY <2>4, <2>5
    <3>2. Len(h) + 1 \notin C(h)
      BY <1>2, <2>1
    <3>3. Cardinality(C(g)) = Cardinality(C(h)) + 1
      BY <1>1, <3>1, <3>2, FS_AddElement
    <3>4. Born(p, g) = Born(p, h) + 1
      BY <1>1, <1>4, <2>1, <3>3
    <3> QED
      BY <2>5, <3>4 DEF g
  <2>6. CASE ~ IsCreate(p, g)
    <3>1. C(g) = C(h)
      BY <2>4, <2>6
    <3>2. Born(p, g) = Born(p, h)
      BY <1>1, <2>1, <3>1
    <3> QED
      BY <2>6, <3>2 DEF g
  <2> QED
    BY <2>5, <2>6
<1>8. Born(p, <<>>) = LiveIn(p)
  <2>1. <<>> \in Seq(Runners)
    BY EmptySeq
  <2>2. Born(p, <<>>) = LiveIn(p) + Cardinality(C(<<>>))
    BY <1>1, <2>1, Zenon
  <2>3. Cardinality(C(<<>>)) = 0
    BY <1>3, FS_EmptySet, Zenon
  <2>4. Born(p, <<>>) = LiveIn(p) + 0
    BY <2>2, <2>3, Zenon
  <2> QED
    BY <1>4, <2>4
<1> QED
  BY <1>5, <1>6, <1>7, <1>8

-----------------------------------------------------------------------------
(* One step of the process and of the model.                               *)

\* The programs are well typed, on every schedule.
ProgramsTyped ==
  \A p \in Programs :
    /\ \A t \in 0..(LiveIn(p) - 1) : WellTypedFirst(p, t)
    /\ \A h \in Seq(Runners) : h # <<>> => WellTyped(p, h)

(* What a thread announces.                                                *)
LEMMA MessageTyped ==
  ASSUME ProgramsTyped, NEW p \in Programs, NEW h \in Seq(Runners), NEW t \in Runners,
         NEW op, op = Message(p, Append(h, t))
  PROVE  /\ op # NoOp /\ op.by = t
         /\ op \in Operations \/ (op.kind = "sem_destroy" /\ op.obj \in Semaphores)
         /\ op.kind = "create" <=> IsCreate(p, Append(h, t))
         /\ op.kind # "create" => op = CodeOf(p, Append(h, t))
         /\ op.kind = "create" => op.obj = HandleOf(p, Append(h, t))
<1> DEFINE g == Append(h, t)
<1>1. g \in Seq(Runners) /\ g # <<>> /\ Last(g) = t
  BY AppendProperties, LenProperties DEF Last
<1>2. WellTyped(p, g)
  BY <1>1 DEF ProgramsTyped
<1> HIDE DEF g
<1>4. CASE IsCreate(p, g)
  <2>1. op = Transition(t, "create", HandleOf(p, g))
    BY <1>1, <1>2, <1>4 DEF Message, WellTyped, g
  <2>2. op.by = t /\ op.kind = "create" /\ op.obj = HandleOf(p, g)
    BY <2>1 DEF Transition
  <2>3. HandleOf(p, g) \in Runners
    BY <1>2, <1>4 DEF WellTyped, IsCreate
  <2>4. op.obj \in Runners
    BY <2>2, <2>3
  <2>5. op \in Operations
    BY <2>1, <2>4, <2>2 DEF Operations, Transition
  <2>6. op # NoOp
    BY <2>1, <2>2, <2>4, CoordinatorAssumption
  <2> QED
    BY <1>4, <2>2, <2>5, <2>6 DEF g
<1>5. CASE ~ IsCreate(p, g)
  <2>1. op = CodeOf(p, g)
    BY <1>5 DEF Message, g
  <2> QED
    BY <1>1, <1>2, <1>5, <2>1 DEF WellTyped, IsCreate, g
<1> QED
  BY <1>4, <1>5

(* The exceptions a message can lead to.                                   *)
LEMMA FailureValues ==
  ASSUME NEW op
  PROVE  /\ Failure(op) \in {"none", "undefined_behavior", "untranslated", "rebind", "invalid_rid"}
         /\ op.kind = "sem_destroy" => Failure(op) # "none"
<1>1. Failure(op) \in {"none", "undefined_behavior", "untranslated", "rebind", "invalid_rid"}
  BY Zenon DEF Failure
<1>2. ASSUME op.kind = "sem_destroy", ~ Mapped(op.obj)
      PROVE  Failure(op) # "none"
  <2>1. UninitializedSemaphore(op)
    BY <1>2 DEF UninitializedSemaphore
  <2>2. Failure(op) \in {"undefined_behavior", "untranslated", "rebind", "invalid_rid"}
    BY <2>1, Zenon DEF Failure
  <2> QED
    BY <2>2
<1>3. ASSUME op.kind = "sem_destroy", Mapped(op.obj)
      PROVE  Failure(op) # "none"
  <2>1. Failure(op) \in {"undefined_behavior", "untranslated", "rebind", "invalid_rid"}
    BY <1>3, Zenon DEF Failure
  <2> QED
    BY <2>1
<1> QED
  BY <1>1, <1>2, <1>3

Elements(o) == [st : States, seen : SUBSET DOMAIN o]
Items == [enabled : SUBSET Runners, done : SUBSET Runners]

(* The sequences of the model, and their lengths.                          *)
LEMMA TypeFacts ==
  ASSUME TypeOK
  PROVE  /\ prog \in Programs /\ LiveIn(prog) \in 1..MaxRunners /\ MaxRunners \in Nat \ {0}
         /\ real \in Seq(Runners) /\ Len(real) \in Nat /\ DOMAIN real = 1..Len(real)
         /\ trace \in Seq(Operations) /\ Depth = Len(trace) /\ Depth \in Nat
         /\ DOMAIN trace = 1..Depth
         /\ objs \in Seq(Handles) /\ Len(objs) \in Nat /\ DOMAIN objs = 1..Len(objs)
         /\ seq \in Seq(Elements(objs)) /\ Len(seq) = Depth + 1 /\ DOMAIN seq = 1..(Depth + 1)
         /\ stack \in Seq(Items) /\ Len(stack) \in Nat /\ DOMAIN stack = 1..Len(stack)
         /\ stack # <<>> => Len(stack) = Depth + 1
         /\ Current = seq[Depth + 1] /\ Current \in Elements(objs)
         /\ \A i \in 1..Depth : trace[i] \in Operations
         /\ \A i \in 1..(Depth + 1) : seq[i] \in Elements(objs)
<1>1. /\ prog \in Programs /\ real \in Seq(Runners) /\ trace \in Seq(Operations)
      /\ objs \in Seq(Handles) /\ seq \in Seq(Elements(objs)) /\ stack \in Seq(Items)
      /\ Len(seq) = Depth + 1 /\ Depth = Len(trace) /\ (stack # <<>> => Len(stack) = Depth + 1)
  BY DEF TypeOK, Elements, Items, Depth
<1>2. /\ Len(real) \in Nat /\ DOMAIN real = 1..Len(real)
      /\ Depth \in Nat /\ DOMAIN trace = 1..Depth
      /\ Len(objs) \in Nat /\ DOMAIN objs = 1..Len(objs)
      /\ DOMAIN seq = 1..(Depth + 1)
      /\ Len(stack) \in Nat /\ DOMAIN stack = 1..Len(stack)
  <2>1. Len(real) \in Nat /\ DOMAIN real = 1..Len(real)
    BY <1>1, LenProperties
  <2>2. Depth \in Nat /\ DOMAIN trace = 1..Depth
    BY <1>1, LenProperties
  <2>3. Len(objs) \in Nat /\ DOMAIN objs = 1..Len(objs)
    BY <1>1, LenProperties
  <2>4. DOMAIN seq = 1..(Depth + 1)
    BY <1>1, LenProperties
  <2>5. Len(stack) \in Nat /\ DOMAIN stack = 1..Len(stack)
    BY <1>1, LenProperties
  <2> QED
    BY <2>1, <2>2, <2>3, <2>4, <2>5
<1>3. \A i \in 1..Depth : trace[i] \in Operations
  BY <1>1, ElementOfSeq
<1>4. \A i \in 1..(Depth + 1) : seq[i] \in Elements(objs)
  BY <1>1, ElementOfSeq
<1>5. Current = seq[Depth + 1] /\ Current \in Elements(objs)
  <2>1. Depth + 1 \in 1..(Depth + 1)
    BY <1>2
  <2>2. Current = seq[Depth + 1]
    BY <1>1, Zenon DEF Current, Last
  <2> QED
    BY <1>4, <2>1, <2>2
<1>6. LiveIn(prog) \in 1..MaxRunners /\ MaxRunners \in Nat \ {0}
  BY <1>1, CoordinatorAssumption, TransitionsAssumption
<1> QED
  BY <1>1, <1>2, <1>3, <1>4, <1>5, <1>6

(* What translating a message finds.                                       *)
LEMMA DiscoverEffect ==
  ASSUME TypeOK, KnownInv, NEW op \in Operations, NEW found, found = Discover(op)
  PROVE  /\ found.objs \in Seq(Handles) /\ DOMAIN objs \subseteq DOMAIN found.objs
         /\ found.seen \subseteq DOMAIN found.objs
         /\ \A u \in Runners : u \in ToSet(found.objs) <=>
              u \in Known \/ (op.kind = "create" /\ u = op.obj)
         /\ DOMAIN found.pending = Runners
         /\ \A u \in Runners : found.pending[u] =
              IF op.kind = "create" /\ u = op.obj /\ u \notin Known THEN Start(u) ELSE next[u]
<1> DEFINE new == op.kind \in {"mutex_init", "lock", "sem_init", "create"} /\ ~ Mapped(op.obj)
<1>1. /\ objs \in Seq(Handles) /\ DOMAIN objs = 1..Len(objs) /\ Len(objs) \in Nat
      /\ Current.seen \subseteq DOMAIN objs /\ DOMAIN next = Runners
  BY TypeFacts DEF Elements, TypeOK
<1>2. \A u \in Runners : u \in Known <=> u \in ToSet(objs)
  BY DEF KnownInv, Mapped
<1>3. CASE new
  <2>1. op.obj \in Handles /\ (op.kind # "create" => op.obj \notin Runners)
        /\ (op.kind = "create" => op.obj \in Runners)
    BY <1>3, CoordinatorAssumption DEF Operations, Handles
  <2>2. /\ found.objs = Append(objs, op.obj)
        /\ found.seen = Current.seen \cup {Len(objs) + 1}
        /\ found.pending = IF op.kind = "create"
                           THEN [next EXCEPT ![op.obj] = Start(op.obj)] ELSE next
    BY <1>3, Zenon DEF Discover
  <2>3. /\ Append(objs, op.obj) \in Seq(Handles)
        /\ Len(Append(objs, op.obj)) = Len(objs) + 1
        /\ ToSet(Append(objs, op.obj)) = ToSet(objs) \cup {op.obj}
    BY <1>1, <2>1, AppendElement
  <2>4. DOMAIN found.objs = 1..(Len(objs) + 1)
    BY <2>2, <2>3, LenProperties
  <2>5. op.kind = "create" => op.obj \notin Known
    BY <1>2, <1>3, <2>1 DEF Mapped
  <2>6. \A u \in Runners : u \in ToSet(found.objs) <=>
              u \in Known \/ (op.kind = "create" /\ u = op.obj)
    BY <1>2, <2>1, <2>2, <2>3
  <2>7. found.seen \subseteq DOMAIN found.objs /\ DOMAIN objs \subseteq DOMAIN found.objs
    BY <1>1, <2>2, <2>4
  <2>8. DOMAIN found.pending = Runners
    BY <1>1, <2>2
  <2>9. ASSUME NEW u \in Runners
        PROVE  found.pending[u] =
                 IF op.kind = "create" /\ u = op.obj /\ u \notin Known THEN Start(u) ELSE next[u]
    BY <1>1, <2>1, <2>2, <2>5
  <2> QED
    BY <2>2, <2>3, <2>6, <2>7, <2>8, <2>9
<1>4. CASE ~ new
  <2>1. found.objs = objs /\ found.seen = Current.seen /\ found.pending = next
    BY <1>4, Zenon DEF Discover
  <2>2. op.kind = "create" => op.obj \in Known
    <3>1. op.kind = "create" => op.obj \in Runners /\ Mapped(op.obj)
      BY <1>4 DEF Operations
    <3> QED
      BY <1>2, <3>1 DEF Mapped
  <2> QED
    BY <1>1, <1>2, <2>1, <2>2
<1> QED
  BY <1>3, <1>4

\* The model has followed the process: t has run and announced op, s is new.
Advanced(t, op, s) ==
  /\ prog' = prog
  /\ real' = Append(real, t)
  /\ s \in ApplyTo(Current.st, next[t]) /\ s \in States
  /\ trace' = Append(trace, next[t])
  /\ op \in Operations
  /\ objs' \in Seq(Handles)
  /\ \A u \in Runners : u \in ToSet(objs') <=> u \in Known \/ (op.kind = "create" /\ u = op.obj)
  /\ DOMAIN next' = Runners /\ next'[t] = op
  /\ \A u \in Runners \ {t} : next'[u] =
       IF op.kind = "create" /\ u = op.obj /\ u \notin Known THEN Start(u) ELSE next[u]
  /\ seq' \in Seq(Elements(objs')) /\ Len(seq') = Len(seq) + 1
  /\ \A i \in 1..Len(seq) : seq'[i].st = seq[i].st
  /\ seq'[Len(seq) + 1].st = s
  /\ stack' \in Seq(Items) /\ Len(stack') = Len(stack) + 1
  /\ \A i \in 1..Len(stack) : stack'[i].enabled = stack[i].enabled
  /\ stack'[Len(stack) + 1].enabled = EnabledRunners(s, next')
  /\ stack'[Len(stack) + 1].done = {}

(* A step ends the exploration with an exception, or the model follows.    *)
LEMMA ExecuteEffect ==
  ASSUME ProgramsTyped, TypeOK, KnownInv, stack # <<>>, NEW t \in Known,
         NEW result \in {"none", "terminated"}, ExecuteRunner(t, result),
         NEW op, op = Message(prog, Append(real, t))
  PROVE  \/ /\ err' \in {"untranslated"} \cup Failures
            /\ Enabled(Current.st, next[t]) => err' # "disabled"
            /\ real' = Append(real, t)
            /\ UNCHANGED <<prog, trace, objs, seq, next, stack>>
         \/ err' = result /\ \E s : Advanced(t, op, s)
<1> DEFINE found == Discover(op)
           why == IF Failure(op) # "none" THEN Failure(op)
                  ELSE IF Enabled(Current.st, next[t]) THEN result ELSE "disabled"
<1>1. /\ real' = Append(real, t) /\ prog' = prog /\ err' = why
      /\ IF why # result
         THEN UNCHANGED <<trace, objs, seq, next, stack>>
         ELSE \E s \in ApplyTo(Current.st, next[t]) :
              /\ trace' = Append(trace, next[t])
              /\ objs' = found.objs
              /\ seq' = Append([seq EXCEPT ![Len(seq)].seen = found.seen],
                               [st |-> s, seen |-> DOMAIN found.objs])
              /\ next' = [found.pending EXCEPT ![t] = op]
              /\ stack' = Append([stack EXCEPT ![Len(stack)].done = @ \cup {t}],
                                 StackItem(s, next'))
  BY DEF ExecuteRunner, GrowStack, Snapshot
<1>2. /\ Failure(op) \in {"none", "undefined_behavior", "untranslated", "rebind", "invalid_rid"}
      /\ op.kind = "sem_destroy" => Failure(op) # "none"
  BY FailureValues
<1> HIDE DEF found, why
<1>3. CASE why # result
  <2>1. why \in {"untranslated"} \cup Failures
    BY <1>2, <1>3 DEF why, Failures
  <2>2. Enabled(Current.st, next[t]) => why # "disabled"
    BY <1>2, <1>3 DEF why
  <2> QED
    BY <1>1, <1>3, <2>1, <2>2
<1>4. CASE why = result
  <2>1. Failure(op) = "none" /\ op.kind # "sem_destroy"
    BY <1>2, <1>4 DEF why
  <2>2. op \in Operations /\ op.by = t /\ op # NoOp /\ t \in Runners
    <3>1. t \in Runners
      BY DEF Known
    <3> QED
      BY <2>1, <3>1, TypeFacts, MessageTyped
  <2>3. PICK s \in ApplyTo(Current.st, next[t]) :
              /\ trace' = Append(trace, next[t])
              /\ objs' = found.objs
              /\ seq' = Append([seq EXCEPT ![Len(seq)].seen = found.seen],
                               [st |-> s, seen |-> DOMAIN found.objs])
              /\ next' = [found.pending EXCEPT ![t] = op]
              /\ stack' = Append([stack EXCEPT ![Len(stack)].done = @ \cup {t}],
                                 StackItem(s, next'))
    BY <1>1, <1>4
  <2>4. next[t] \in Operations /\ Current.st \in States
    BY TypeFacts DEF TypeOK, Elements
  <2>5. s \in States
    BY <2>3, <2>4, ApplyEffect
  <2>6. /\ found.objs \in Seq(Handles) /\ DOMAIN objs \subseteq DOMAIN found.objs
        /\ found.seen \subseteq DOMAIN found.objs
        /\ \A u \in Runners : u \in ToSet(found.objs) <=>
             u \in Known \/ (op.kind = "create" /\ u = op.obj)
        /\ DOMAIN found.pending = Runners
        /\ \A u \in Runners : found.pending[u] =
             IF op.kind = "create" /\ u = op.obj /\ u \notin Known THEN Start(u) ELSE next[u]
    BY <2>2, DiscoverEffect DEF found
  <2>7. DOMAIN next' = Runners /\ next'[t] = op
        /\ \A u \in Runners \ {t} : next'[u] = found.pending[u]
    BY <2>2, <2>3, <2>6
  <2>8. /\ seq' \in Seq(Elements(objs')) /\ Len(seq') = Len(seq) + 1
        /\ \A i \in 1..Len(seq) : seq'[i].st = seq[i].st
        /\ seq'[Len(seq) + 1].st = s
    <3>1. /\ seq \in Seq(Elements(objs)) /\ Len(seq) \in Nat \ {0}
          /\ Elements(objs) \subseteq Elements(found.objs)
      BY <2>6, TypeFacts DEF Elements
    <3>2. seq \in Seq(Elements(found.objs)) /\ Len(seq) \in 1..Len(seq)
      BY <3>1, SeqMonotonic
    <3>3. seq[Len(seq)] \in Elements(found.objs)
      BY <3>2, ElementOfSeq
    <3> DEFINE e == [seq[Len(seq)] EXCEPT !.seen = found.seen]
               q == [seq EXCEPT ![Len(seq)] = e]
               f == [st |-> s, seen |-> DOMAIN found.objs]
    <3>4. e \in Elements(found.objs) /\ e.st = seq[Len(seq)].st
      BY <2>6, <3>3 DEF Elements
    <3>5. f \in Elements(found.objs) /\ f.st = s
      BY <2>5 DEF Elements
    <3>6. seq' = Append(q, f)
      BY <2>3
    <3> HIDE DEF e, f
    <3>7. /\ q \in Seq(Elements(found.objs)) /\ Len(q) = Len(seq)
          /\ \A j \in 1..Len(seq) : q[j] = IF j = Len(seq) THEN e ELSE seq[j]
      BY <3>2, <3>4, ExceptSeq
    <3> HIDE DEF q
    <3>8. /\ Append(q, f) \in Seq(Elements(found.objs)) /\ Len(Append(q, f)) = Len(q) + 1
          /\ \A i \in 1..Len(q) : Append(q, f)[i] = q[i]
          /\ Append(q, f)[Len(q) + 1] = f
      BY <3>5, <3>7, AppendProperties
    <3>9. \A i \in 1..Len(seq) : seq'[i].st = seq[i].st
      BY <3>4, <3>6, <3>7, <3>8
    <3> QED
      BY <2>3, <3>5, <3>6, <3>7, <3>8, <3>9
  <2>9. /\ stack' \in Seq(Items) /\ Len(stack') = Len(stack) + 1
        /\ \A i \in 1..Len(stack) : stack'[i].enabled = stack[i].enabled
        /\ stack'[Len(stack) + 1].enabled = EnabledRunners(s, next')
        /\ stack'[Len(stack) + 1].done = {}
    <3>1. stack \in Seq(Items) /\ Len(stack) \in 1..Len(stack) /\ Len(stack) \in Nat
      BY TypeFacts
    <3>2. stack[Len(stack)] \in Items
      BY <3>1, ElementOfSeq
    <3> DEFINE e == [stack[Len(stack)] EXCEPT !.done = @ \cup {t}]
               q == [stack EXCEPT ![Len(stack)] = e]
               f == StackItem(s, next')
    <3>3. e \in Items /\ e.enabled = stack[Len(stack)].enabled
      BY <2>2, <3>2 DEF Items
    <3>4. f \in Items /\ f.enabled = EnabledRunners(s, next') /\ f.done = {}
      BY DEF Items, StackItem, EnabledRunners
    <3>5. stack' = Append(q, f)
      BY <2>3
    <3> HIDE DEF e, f
    <3>6. /\ q \in Seq(Items) /\ Len(q) = Len(stack)
          /\ \A j \in 1..Len(stack) : q[j] = IF j = Len(stack) THEN e ELSE stack[j]
      BY <3>1, <3>3, ExceptSeq
    <3> HIDE DEF q
    <3>7. /\ Append(q, f) \in Seq(Items) /\ Len(Append(q, f)) = Len(q) + 1
          /\ \A i \in 1..Len(q) : Append(q, f)[i] = q[i]
          /\ Append(q, f)[Len(q) + 1] = f
      BY <3>4, <3>6, AppendProperties
    <3>8. \A i \in 1..Len(stack) : stack'[i].enabled = stack[i].enabled
      BY <3>3, <3>5, <3>6, <3>7
    <3> QED
      BY <3>4, <3>5, <3>6, <3>7, <3>8
  <2>10. Advanced(t, op, s)
    BY <1>1, <2>2, <2>3, <2>5, <2>6, <2>7, <2>8, <2>9 DEF Advanced
  <2> QED
    BY <1>1, <1>4, <2>10
<1> QED
  BY <1>3, <1>4

(* The runners known after a step.                                         *)
LEMMA AdvancedKnown ==
  ASSUME ProgramsTyped, TypeOK, KnownInv, NEW t \in Known,
         NEW op, op = Message(prog, Append(real, t)), NEW s, Advanced(t, op, s)
  PROVE  /\ t \in Runners /\ op.by = t /\ op # NoOp
         /\ \A u \in Runners : u \in Known' <=> u \in Known \/ (op.kind = "create" /\ u = op.obj)
         /\ \A u \in Runners \ {t} : u \in Known => next'[u] = next[u]
         /\ \A u \in Runners \ {t} : u \in Known' \ Known => next'[u] = Start(u)
<1>1. t \in Runners /\ op.by = t /\ op # NoOp
  <2>1. t \in Runners
    BY DEF Known
  <2> QED
    BY <2>1, TypeFacts, MessageTyped
<1>2. \A u \in Runners : Start(u) # NoOp
  BY CoordinatorAssumption
<1>3. \A u \in Runners : u \in Known <=> next[u] # NoOp
  BY DEF Known
<1>4. \A u \in Runners : u \in Known' <=> next'[u] # NoOp
  BY DEF Known
<1>a. /\ next'[t] = op
      /\ \A u \in Runners \ {t} : next'[u] =
           IF op.kind = "create" /\ u = op.obj /\ u \notin Known THEN Start(u) ELSE next[u]
  BY Zenon DEF Advanced
<1>5. \A u \in Runners : u \in Known' <=> u \in Known \/ (op.kind = "create" /\ u = op.obj)
  BY <1>1, <1>2, <1>3, <1>4, <1>a
<1> QED
  BY <1>1, <1>3, <1>4, <1>5 DEF Advanced

(* The model's sequences after a step, by the depth before it.             *)
LEMMA AdvancedLengths ==
  ASSUME TypeOK, stack # <<>>, NEW t, NEW op, NEW s, Advanced(t, op, s)
  PROVE  /\ seq' \in Seq(Elements(objs')) /\ Len(seq') = Depth + 2
         /\ DOMAIN seq' = 1..(Depth + 2) /\ seq'[Depth + 2].st = s
         /\ \A i \in 1..(Depth + 1) : seq'[i].st = seq[i].st
         /\ stack' \in Seq(Items) /\ Len(stack') = Depth + 2
         /\ DOMAIN stack' = 1..(Depth + 2)
         /\ stack'[Depth + 2].enabled = EnabledRunners(s, next')
         /\ \A i \in 1..(Depth + 1) : stack'[i].enabled = stack[i].enabled
<1>1. Depth \in Nat /\ Len(seq) = Depth + 1 /\ Len(stack) = Depth + 1
  BY TypeFacts
<1>2. (Depth + 1) + 1 = Depth + 2
  BY <1>1
<1>3. /\ seq' \in Seq(Elements(objs')) /\ Len(seq') = Len(seq) + 1
      /\ stack' \in Seq(Items) /\ Len(stack') = Len(stack) + 1
  BY Zenon DEF Advanced
<1>4. Len(seq') = Depth + 2 /\ Len(stack') = Depth + 2
  BY <1>1, <1>2, <1>3, Zenon
<1>5. DOMAIN seq' = 1..(Depth + 2) /\ DOMAIN stack' = 1..(Depth + 2)
  <2>1. DOMAIN seq' = 1..Len(seq')
    BY <1>3, LenProperties
  <2>2. DOMAIN stack' = 1..Len(stack')
    BY <1>3, LenProperties
  <2> QED
    BY <1>4, <2>1, <2>2, Zenon
<1>6. /\ \A i \in 1..Len(seq) : seq'[i].st = seq[i].st
      /\ seq'[Len(seq) + 1].st = s
      /\ \A i \in 1..Len(stack) : stack'[i].enabled = stack[i].enabled
      /\ stack'[Len(stack) + 1].enabled = EnabledRunners(s, next')
  BY Zenon DEF Advanced
<1>7. /\ \A i \in 1..(Depth + 1) : seq'[i].st = seq[i].st
      /\ seq'[Depth + 2].st = s
      /\ \A i \in 1..(Depth + 1) : stack'[i].enabled = stack[i].enabled
      /\ stack'[Depth + 2].enabled = EnabledRunners(s, next')
  BY <1>1, <1>2, <1>6, Zenon
<1> QED
  BY <1>3, <1>4, <1>5, <1>7, Zenon

(* A step of the model keeps the types.                                    *)
LEMMA AdvancedType ==
  ASSUME ProgramsTyped, TypeOK, KnownInv, NEW t \in Known, stack # <<>>,
         NEW op, op = Message(prog, Append(real, t)), NEW s, Advanced(t, op, s),
         err' \in {"none", "terminated"}
  PROVE  TypeOK'
<1>1. /\ t \in Runners /\ op.by = t /\ op # NoOp
      /\ \A u \in Runners : u \in Known' <=> u \in Known \/ (op.kind = "create" /\ u = op.obj)
      /\ \A u \in Runners \ {t} : u \in Known => next'[u] = next[u]
      /\ \A u \in Runners \ {t} : u \in Known' \ Known => next'[u] = Start(u)
  BY AdvancedKnown
<1>2. next[t] \in Operations
  BY DEF TypeOK
<1>3. trace' \in Seq(Operations) /\ Len(trace') = Depth + 1
  BY <1>2, TypeFacts, AppendProperties DEF Advanced
<1>4. real' \in Seq(Runners)
  BY <1>1, TypeFacts, AppendProperties DEF Advanced
<1>5. \A u \in Runners : Start(u) \in Operations /\ Start(u).by = u
  BY DEF Start, Transition, Operations
<1>6. \A u \in Known' : next'[u] \in Operations /\ next'[u].by = u
  <2> SUFFICES ASSUME NEW u \in Known'
               PROVE  next'[u] \in Operations /\ next'[u].by = u
    OBVIOUS
  <2>1. u \in Runners
    BY DEF Known
  <2>2. CASE u = t
    BY <1>1, <2>2 DEF Advanced
  <2>3. CASE u # t /\ u \in Known
    BY <1>1, <2>1, <2>3 DEF TypeOK
  <2>4. CASE u # t /\ u \notin Known
    BY <1>1, <1>5, <2>1, <2>4
  <2> QED
    BY <2>2, <2>3, <2>4
<1>7. Len(seq') = Depth' + 1 /\ Len(stack') = Depth' + 1
  BY <1>3, TypeFacts DEF Advanced, Depth
<1>8. DOMAIN next' = Runners /\ prog' \in Programs /\ objs' \in Seq(Handles)
      /\ seq' \in Seq(Elements(objs')) /\ stack' \in Seq(Items)
  BY TypeFacts DEF Advanced
<1> QED
  BY <1>3, <1>4, <1>6, <1>7, <1>8 DEF TypeOK, Elements, Items

(* The runners of the new state, trace and pending transitions are known.  *)
LEMMA AdvancedKnownInv ==
  ASSUME ProgramsTyped, TypeOK, KnownInv, NEW t \in Known, stack # <<>>,
         NEW op, op = Message(prog, Append(real, t)), NEW s, Advanced(t, op, s)
  PROVE  KnownInv'
<1>1. /\ t \in Runners /\ op.by = t /\ op # NoOp
      /\ \A u \in Runners : u \in Known' <=> u \in Known \/ (op.kind = "create" /\ u = op.obj)
      /\ \A u \in Runners \ {t} : u \in Known => next'[u] = next[u]
      /\ \A u \in Runners \ {t} : u \in Known' \ Known => next'[u] = Start(u)
  BY AdvancedKnown
<1>2. next[t] \in Operations /\ next[t] # NoOp /\ next[t].by = t
  BY DEF TypeOK, Known
<1>3. \A u : u \in Known => u \in Runners /\ u \in Known'
  BY <1>1 DEF Known
<1>4. \A u \in Runners : u \in Known' <=> Mapped(u)'
  BY <1>1 DEF Advanced, Mapped
<1>5. Live' \subseteq Known'
  BY <1>3 DEF Advanced, Live, KnownInv
<1>6. op \in Operations /\ (op.kind = "create" => op.obj \in Runners)
  BY DEF Advanced, Operations
<1>7. ASSUME NEW u \in Known', next'[u].kind = "create"
      PROVE  next'[u].obj \in Known'
  <2>1. u \in Runners
    BY DEF Known
  <2>2. CASE u = t
    BY <1>1, <1>6, <1>7, <2>2 DEF Advanced
  <2>3. CASE u # t /\ u \in Known
    BY <1>1, <1>3, <1>7, <2>1, <2>3 DEF KnownInv
  <2>4. CASE u # t /\ u \notin Known
    <3>1. next'[u] = Start(u) /\ Start(u).kind = "start"
      BY <1>1, <2>1, <2>4 DEF Start, Transition
    <3> QED
      BY <1>7, <3>1
  <2> QED
    BY <2>2, <2>3, <2>4
<1>8. ASSUME NEW i \in DOMAIN trace'
      PROVE  /\ trace'[i] # NoOp /\ trace'[i].by \in Known'
             /\ trace'[i].kind = "create" => trace'[i].obj \in Known'
  <2>1. /\ Len(trace') = Depth + 1 /\ trace'[Depth + 1] = next[t]
        /\ \A k \in 1..Depth : trace'[k] = trace[k]
        /\ trace' \in Seq(Operations)
    <3>1. trace' = Append(trace, next[t])
      BY Zenon DEF Advanced
    <3>2. trace \in Seq(Operations) /\ Len(trace) = Depth /\ Depth \in Nat
      BY TypeFacts
    <3> QED
      BY <1>2, <3>1, <3>2, AppendProperties
  <2>2. i \in 1..Depth \/ i = Depth + 1
    BY <2>1, TypeFacts, LenProperties
  <2>3. CASE i \in 1..Depth
    BY <1>3, <2>1, <2>3, TypeFacts DEF KnownInv
  <2>4. CASE i = Depth + 1
    BY <1>2, <1>3, <2>1, <2>4 DEF KnownInv
  <2> QED
    BY <2>2, <2>3, <2>4
<1>9. ASSUME NEW i \in DOMAIN seq', NEW u \in Runners, seq'[i].st.thr[u] # "embryo"
      PROVE  u \in Known'
  <2>1. DOMAIN seq' = 1..(Depth + 2)
    BY AdvancedLengths
  <2>2. i \in 1..(Depth + 1) \/ i = Depth + 2
    BY <2>1, TypeFacts
  <2>3. CASE i \in 1..(Depth + 1)
    <3>1. seq'[i].st = seq[i].st /\ i \in DOMAIN seq
      BY <2>3, TypeFacts, AdvancedLengths
    <3>2. seq[i].st.thr[u] # "embryo"
      BY <1>9, <3>1
    <3> QED
      BY <1>3, <3>1, <3>2 DEF KnownInv
  <2>4. CASE i = Depth + 2
    <3>1. s.thr[u] # "embryo"
      BY <1>9, <2>4, AdvancedLengths
    <3>2. Current.st \in States
      BY TypeFacts DEF Elements
    <3>3. Current.st.thr[u] # "embryo" \/ (next[t].kind = "create" /\ next[t].obj = u)
      BY <1>2, <3>1, <3>2, ApplyEffect DEF Advanced
    <3>4. Current.st.thr[u] # "embryo" => u \in Known
      BY TypeFacts DEF KnownInv
    <3> QED
      BY <1>3, <3>3, <3>4 DEF KnownInv
  <2> QED
    BY <2>2, <2>3, <2>4
<1> QED
  BY <1>4, <1>5, <1>7, <1>8, <1>9 DEF KnownInv

(* A thread that never ran is at its start.                                *)
LEMMA NeverRun ==
  ASSUME NEW p, NEW h \in Seq(Runners), NEW u, ~ (u < LiveIn(p)),
         \A i \in 1..Len(h) : h[i] # u
  PROVE  OpAfter(p, h, u) = Start(u)
<1>1. Len(h) \in Nat
  BY LenProperties
<1>2. 0 \in 0..Len(h) /\ ~ (0 > 0)
  BY <1>1
<1>3. LastRun(h, u) = 0
  BY <1>2, LastRunUnique
<1>4. ~ (LastRun(h, u) > 0)
  BY <1>3
<1> QED
  BY <1>4, Zenon DEF OpAfter

(* What the sequences are after a step.                                    *)
LEMMA AdvancedSequences ==
  ASSUME TypeOK, MatchInv, err = "none", NEW t \in Known, stack # <<>>,
         NEW op, NEW s, Advanced(t, op, s)
  PROVE  /\ Len(real) = Depth /\ real' \in Seq(Runners) /\ Len(real') = Depth + 1
         /\ real'[Depth + 1] = t /\ \A i \in 1..Depth : real'[i] = real[i]
         /\ \A n \in 0..Depth : SubSeq(real', 1, n) = SubSeq(real, 1, n)
         /\ SubSeq(real, 1, Depth) = real
         /\ trace' \in Seq(Operations) /\ Depth' = Depth + 1 /\ Len(trace') = Depth + 1
         /\ trace'[Depth + 1] = next[t] /\ \A i \in 1..Depth : trace'[i] = trace[i]
         /\ DOMAIN trace' = 1..(Depth + 1)
         /\ DOMAIN seq' = 1..(Depth + 2) /\ seq'[Depth + 2].st = s
         /\ \A i \in 1..(Depth + 1) : seq'[i].st = seq[i].st
         /\ DOMAIN stack' = 1..(Depth + 2) /\ Len(stack') = Depth + 2
         /\ stack'[Depth + 2].enabled = EnabledRunners(s, next')
         /\ \A i \in 1..(Depth + 1) : stack'[i].enabled = stack[i].enabled
<1>1. Len(real) = Depth
  BY DEF MatchInv
<1>2. t \in Runners /\ next[t] \in Operations
  BY DEF Known, TypeOK
<1>0. /\ real \in Seq(Runners) /\ trace \in Seq(Operations) /\ Len(trace) = Depth
      /\ Depth \in Nat
  BY TypeFacts
<1>a. real' = Append(real, t) /\ trace' = Append(trace, next[t])
  BY Zenon DEF Advanced
<1>3. /\ real' \in Seq(Runners) /\ Len(real') = Depth + 1
      /\ real'[Depth + 1] = t /\ \A i \in 1..Depth : real'[i] = real[i]
  BY <1>0, <1>1, <1>2, <1>a, AppendProperties
<1>4. \A n \in 0..Depth : SubSeq(real', 1, n) = SubSeq(real, 1, n)
  BY <1>0, <1>1, <1>2, <1>a, PrefixOfAppend
<1>5. SubSeq(real, 1, Depth) = real
  BY <1>1, TypeFacts, SubSeqFull
<1>6. /\ trace' \in Seq(Operations) /\ Len(trace') = Depth + 1
      /\ trace'[Depth + 1] = next[t] /\ \A i \in 1..Depth : trace'[i] = trace[i]
  BY <1>0, <1>2, <1>a, AppendProperties
<1>7. Depth' = Depth + 1
  BY <1>6 DEF Depth
<1>8. DOMAIN trace' = 1..(Depth + 1)
  BY <1>6, LenProperties
<1> QED
  BY <1>1, <1>3, <1>4, <1>5, <1>6, <1>7, <1>8, AdvancedLengths

(* The model still matches the process.                                    *)
LEMMA AdvancedMatch ==
  ASSUME ProgramsTyped, TypeOK, KnownInv, MatchInv, err = "none", NEW t \in Known, stack # <<>>,
         NEW op, op = Message(prog, Append(real, t)), NEW s, Advanced(t, op, s)
  PROVE  MatchInv'
<1>1. /\ t \in Runners /\ op.by = t /\ op # NoOp
      /\ \A u \in Runners : u \in Known' <=> u \in Known \/ (op.kind = "create" /\ u = op.obj)
      /\ \A u \in Runners \ {t} : u \in Known => next'[u] = next[u]
      /\ \A u \in Runners \ {t} : u \in Known' \ Known => next'[u] = Start(u)
  BY AdvancedKnown
<1>2. /\ Len(real) = Depth /\ real' \in Seq(Runners) /\ Len(real') = Depth + 1
      /\ real'[Depth + 1] = t /\ \A i \in 1..Depth : real'[i] = real[i]
      /\ \A n \in 0..Depth : SubSeq(real', 1, n) = SubSeq(real, 1, n)
      /\ SubSeq(real, 1, Depth) = real
      /\ Depth' = Depth + 1
      /\ trace'[Depth + 1] = next[t] /\ \A i \in 1..Depth : trace'[i] = trace[i]
      /\ DOMAIN trace' = 1..(Depth + 1)
  BY AdvancedSequences
<1>3. /\ \A i \in 1..Depth : real[i] = trace[i].by /\ trace[i] = OpAfter(prog, Past(i - 1), real[i])
      /\ \A u \in Known : next[u] = OpAfter(prog, real, u)
  BY TypeFacts DEF MatchInv
<1>4. /\ prog' = prog /\ Depth \in Nat /\ real \in Seq(Runners)
      /\ \A i \in 1..Depth : trace[i] \in Operations
  BY TypeFacts DEF Advanced
<1>5. ASSUME NEW i \in 1..(Depth + 1)
      PROVE  /\ real'[i] = trace'[i].by
             /\ trace'[i] = OpAfter(prog', SubSeq(real', 1, i - 1), real'[i])
  <2>1. CASE i \in 1..Depth
    <3>1. i - 1 \in 0..Depth
      BY <1>4, <2>1
    <3>2. SubSeq(real', 1, i - 1) = SubSeq(real, 1, i - 1)
      BY <1>2, <3>1
    <3>3. real[i] = trace[i].by /\ trace[i] = OpAfter(prog, SubSeq(real, 1, i - 1), real[i])
      BY <1>3, <2>1 DEF Past
    <3> QED
      BY <1>2, <1>4, <2>1, <3>2, <3>3
  <2>2. CASE i = Depth + 1
    <3>1. i - 1 = Depth /\ Depth \in 0..Depth
      BY <1>4, <2>2
    <3>2. SubSeq(real', 1, i - 1) = real
      BY <1>2, <3>1
    <3>3. next[t] = OpAfter(prog, real, t) /\ next[t].by = t
      BY <1>3 DEF TypeOK
    <3> QED
      BY <1>2, <1>4, <2>2, <3>2, <3>3
  <2> QED
    BY <1>4, <2>1, <2>2
<1>6. ASSUME NEW u \in Known'
      PROVE  next'[u] = OpAfter(prog', real', u)
  <2>1. u \in Runners
    BY DEF Known
  <2>2. /\ OpAfter(prog, Append(real, t), t) = Message(prog, Append(real, t))
        /\ u # t => OpAfter(prog, Append(real, t), u) = OpAfter(prog, real, u)
    BY <1>1, <1>4, <2>1, OpAfterStep
  <2>3. CASE u = t
    BY <1>4, <2>2, <2>3 DEF Advanced
  <2>4. CASE u # t /\ u \in Known
    BY <1>1, <1>3, <1>4, <2>1, <2>2, <2>4 DEF Advanced
  <2>5. CASE u # t /\ u \notin Known
    <3>1. ~ (u < LiveIn(prog))
      <4>1. u \notin 0..(LiveIn(prog) - 1)
        BY <2>5 DEF KnownInv, Live
      <4>2. u \in Nat /\ LiveIn(prog) \in Nat
        BY <2>1, TypeFacts DEF Runners
      <4> QED
        BY <4>1, <4>2
    <3>2. \A i \in 1..Depth : trace[i].by \in Known
      BY TypeFacts DEF KnownInv
    <3>3. \A i \in 1..Len(real) : real[i] # u
      BY <1>2, <1>3, <2>5, <3>2
    <3>4. OpAfter(prog, real, u) = Start(u)
      BY <1>4, <3>1, <3>3, NeverRun
    <3> QED
      BY <1>1, <1>4, <2>1, <2>2, <2>5, <3>4 DEF Advanced
  <2> QED
    BY <2>3, <2>4, <2>5
<1> QED
  BY <1>2, <1>5, <1>6 DEF MatchInv, Past

(* A thread's state still changes by its own steps and its creation only.  *)
LEMMA AdvancedThreads ==
  ASSUME TypeOK, MatchInv, ThreadsInv, err = "none", NEW t \in Known, stack # <<>>,
         NEW op, NEW s, Advanced(t, op, s)
  PROVE  ThreadsInv'
<1>1. /\ Depth' = Depth + 1
      /\ trace'[Depth + 1] = next[t] /\ \A i \in 1..Depth : trace'[i] = trace[i]
      /\ DOMAIN seq' = 1..(Depth + 2) /\ seq'[Depth + 2].st = s
      /\ \A i \in 1..(Depth + 1) : seq'[i].st = seq[i].st
  BY AdvancedSequences
<1>2. Depth \in Nat /\ DOMAIN seq = 1..(Depth + 1) /\ Current = seq[Depth + 1]
  BY TypeFacts
<1>3. next[t] \in Operations /\ next[t].by = t /\ Current.st \in States
  BY TypeFacts DEF TypeOK, Elements
<1>4. \A u \in Runners :
        /\ Current.st.thr[u] # "embryo" => s.thr[u] # "embryo"
        /\ Current.st.thr[u] = "running" /\ u # t => s.thr[u] = "running"
  BY <1>3, ApplyEffect DEF Advanced
<1>5. \A i, j \in 1..(Depth + 1) : i <= j =>
        \A u \in Runners :
          /\ seq[i].st.thr[u] # "embryo" => seq[j].st.thr[u] # "embryo"
          /\ seq[i].st.thr[u] = "running" /\ (\A k \in i..(j - 1) : trace[k].by # u)
               => seq[j].st.thr[u] = "running"
  BY <1>2 DEF ThreadsInv
<1>6. ASSUME NEW i \in 1..(Depth + 2), NEW j \in 1..(Depth + 2), i <= j, NEW u \in Runners
      PROVE  /\ seq'[i].st.thr[u] # "embryo" => seq'[j].st.thr[u] # "embryo"
             /\ seq'[i].st.thr[u] = "running" /\ (\A k \in i..(j - 1) : trace'[k].by # u)
                  => seq'[j].st.thr[u] = "running"
  <2>1. CASE i = j
    BY <2>1
  <2>2. CASE i < j /\ j <= Depth + 1
    <3>1. i \in 1..(Depth + 1) /\ j \in 1..(Depth + 1) /\ \A k \in i..(j - 1) : k \in 1..Depth
      BY <1>2, <2>2
    <3>2. \A k \in i..(j - 1) : trace'[k] = trace[k]
      BY <1>1, <3>1
    <3>3. seq'[i].st = seq[i].st /\ seq'[j].st = seq[j].st
      BY <1>1, <3>1
    <3> QED
      BY <1>5, <1>6, <3>1, <3>2, <3>3
  <2>3. CASE i < j /\ j = Depth + 2
    <3>1. i \in 1..(Depth + 1) /\ Depth + 1 \in 1..(Depth + 1) /\ i <= Depth + 1
          /\ (\A k \in i..((Depth + 1) - 1) : k \in 1..Depth /\ k \in i..(j - 1))
          /\ Depth + 1 \in i..(j - 1)
      BY <1>2, <2>3
    <3>2. \A k \in i..((Depth + 1) - 1) : trace'[k] = trace[k]
      BY <1>1, <3>1
    <3>3. seq'[i].st = seq[i].st /\ seq'[j].st = s
      BY <1>1, <2>3, <3>1
    <3>4. /\ seq[i].st.thr[u] # "embryo" => Current.st.thr[u] # "embryo"
          /\ seq[i].st.thr[u] = "running" /\ (\A k \in i..((Depth + 1) - 1) : trace[k].by # u)
               => Current.st.thr[u] = "running"
      BY <1>2, <1>5, <3>1
    <3>5. (\A k \in i..(j - 1) : trace'[k].by # u) =>
            u # t /\ \A k \in i..((Depth + 1) - 1) : trace[k].by # u
      BY <1>1, <1>3, <3>1, <3>2
    <3> QED
      BY <1>4, <3>3, <3>4, <3>5
  <2> QED
    BY <1>2, <1>6, <2>1, <2>2, <2>3
<1> QED
  BY <1>1, <1>6 DEF ThreadsInv

(* The new state is the one that the transition leads to.                  *)
LEMMA AdvancedSteps ==
  ASSUME TypeOK, MatchInv, StepsInv, err = "none", NEW t \in Known, stack # <<>>,
         NEW op, NEW s, Advanced(t, op, s)
  PROVE  StepsInv'
<1>1. /\ trace'[Depth + 1] = next[t] /\ \A i \in 1..Depth : trace'[i] = trace[i]
      /\ DOMAIN trace' = 1..(Depth + 1) /\ seq'[Depth + 2].st = s
      /\ \A i \in 1..(Depth + 1) : seq'[i].st = seq[i].st
  BY AdvancedSequences
<1>2. /\ Depth \in Nat /\ DOMAIN trace = 1..Depth /\ Current = seq[Depth + 1]
      /\ s \in ApplyTo(Current.st, next[t]) /\ prog' = prog
  BY TypeFacts DEF Advanced
<1>3. ASSUME NEW i \in 1..(Depth + 1)
      PROVE  seq'[i + 1].st \in ApplyTo(seq'[i].st, trace'[i])
  <2>1. CASE i \in 1..Depth
    <3>1. i \in 1..(Depth + 1) /\ i + 1 \in 1..(Depth + 1)
      BY <1>2, <2>1
    <3> QED
      BY <1>1, <1>2, <2>1, <3>1 DEF StepsInv
  <2>2. CASE i = Depth + 1
    <3>1. i + 1 = Depth + 2
      BY <1>2, <2>2
    <3> QED
      BY <1>1, <1>2, <2>2, <3>1
  <2> QED
    BY <1>2, <2>1, <2>2
<1>4. 1 \in 1..(Depth + 1) /\ InitialState' = InitialState
  BY <1>2 DEF InitialState, Live
<1> QED
  BY <1>1, <1>3, <1>4 DEF StepsInv

(* The new entry has the runners that can run next.                        *)
LEMMA AdvancedStack ==
  ASSUME ProgramsTyped, IInv, err = "none", NEW t \in Known, stack # <<>>,
         NEW op, NEW s, Advanced(t, op, s), KnownInv', MatchInv'
  PROVE  StackInv'
<1> SUFFICES ASSUME err' = "none", NEW i \in DOMAIN stack'
             PROVE  stack'[i].enabled =
                      {u \in Runners : Enabled(seq'[i].st, OpAfter(prog', Past(i - 1)', u))}
  BY DEF StackInv
<1>1. /\ TypeOK /\ KnownInv /\ MatchInv /\ StackInv
  BY DEF IInv
<1>2. /\ Len(real) = Depth /\ real' \in Seq(Runners) /\ Len(real') = Depth + 1
      /\ \A n \in 0..Depth : SubSeq(real', 1, n) = SubSeq(real, 1, n)
      /\ DOMAIN seq' = 1..(Depth + 2) /\ seq'[Depth + 2].st = s
      /\ \A j \in 1..(Depth + 1) : seq'[j].st = seq[j].st
      /\ DOMAIN stack' = 1..(Depth + 2) /\ Len(stack') = Depth + 2
      /\ stack'[Depth + 2].enabled = EnabledRunners(s, next')
      /\ \A j \in 1..(Depth + 1) : stack'[j].enabled = stack[j].enabled
  BY <1>1, AdvancedSequences
<1>3. /\ prog' = prog /\ Depth \in Nat /\ real \in Seq(Runners)
      /\ DOMAIN stack = 1..(Depth + 1)
  BY <1>1, TypeFacts DEF Advanced
<1>4. CASE i \in 1..(Depth + 1)
  <2>1. i - 1 \in 0..Depth
    BY <1>3, <1>4
  <2>2. SubSeq(real', 1, i - 1) = SubSeq(real, 1, i - 1)
    BY <1>2, <2>1
  <2>3. stack[i].enabled = {u \in Runners : Enabled(seq[i].st, OpAfter(prog, Past(i - 1), u))}
    BY <1>1, <1>3, <1>4 DEF StackInv
  <2>4. stack'[i].enabled = stack[i].enabled /\ seq'[i].st = seq[i].st
    BY <1>2, <1>4
  <2> QED
    BY <1>3, <2>2, <2>3, <2>4 DEF Past
<1>5. CASE i = Depth + 2
  <2>1. SubSeq(real', 1, i - 1) = real'
    <3>1. i - 1 = Len(real')
      BY <1>2, <1>3, <1>5
    <3> QED
      BY <1>2, <3>1, SubSeqFull
  <2>2. ASSUME NEW u \in Runners
        PROVE  (next'[u] # NoOp /\ Enabled(s, next'[u])) <=> Enabled(s, OpAfter(prog', real', u))
    <3>1. CASE u \in Known'
      <4>1. next'[u] = OpAfter(prog', real', u)
        BY <3>1 DEF MatchInv
      <4> QED
        BY <3>1, <4>1 DEF Known
    <3>2. CASE u \notin Known'
      <4>1. next'[u] = NoOp
        BY <3>2 DEF Known
      <4>2. s.thr[u] = "embryo"
        <5>1. Depth + 2 \in DOMAIN seq'
          BY <1>2, <1>3
        <5> QED
          BY <1>2, <3>2, <5>1 DEF KnownInv
      <4>3. ~ (u < LiveIn(prog'))
        <5>1. u \notin 0..(LiveIn(prog') - 1)
          BY <3>2 DEF KnownInv, Live
        <5>2. u \in Nat /\ LiveIn(prog') \in Nat
          BY <1>1, <1>3, TypeFacts DEF Runners
        <5> QED
          BY <5>1, <5>2
      <4>4. \A k \in 1..Len(real') : real'[k] # u
        <5>1. DOMAIN trace' = 1..Len(real')
          BY <1>1, <1>2, AdvancedSequences
        <5> QED
          BY <3>2, <5>1 DEF MatchInv, KnownInv
      <4>5. OpAfter(prog', real', u) = Start(u)
        BY <1>2, <4>3, <4>4, NeverRun
      <4>6. Start(u).by = u
        BY DEF Start, Transition
      <4>7. ~ Enabled(s, Start(u))
        BY <4>2, <4>6 DEF Enabled, ApplyTo
      <4> QED
        BY <4>1, <4>5, <4>7
    <3> QED
      BY <3>1, <3>2
  <2>3. EnabledRunners(s, next') = {u \in Runners : next'[u] # NoOp /\ Enabled(s, next'[u])}
    BY DEF EnabledRunners
  <2>4. stack'[i].enabled = {u \in Runners : Enabled(s, OpAfter(prog', real', u))}
    BY <1>2, <1>5, <2>2, <2>3
  <2> QED
    BY <1>2, <1>5, <2>1, <2>4 DEF Past
<1> QED
  BY <1>2, <1>3, <1>4, <1>5

-----------------------------------------------------------------------------
(* Backtracking.                                                           *)

(* What was pending at depth n.                                            *)
LEMMA PendingAtProperties ==
  ASSUME TypeOK, NEW n \in 0..Depth, NEW u \in Runners
  PROVE  /\ DOMAIN PendingAt(n) = Runners
         /\ \/ /\ \A k \in (n + 1)..Depth : trace[k].by # u
               /\ PendingAt(n)[u] = next[u]
            \/ \E k \in (n + 1)..Depth :
                 /\ trace[k].by = u /\ PendingAt(n)[u] = trace[k]
                 /\ \A j \in (n + 1)..(k - 1) : trace[j].by # u
<1> DEFINE R == {i \in (n + 1)..Depth : trace[i].by = u}
<1>1. /\ DOMAIN PendingAt(n) = Runners
      /\ PendingAt(n)[u] = IF R = {} THEN next[u] ELSE trace[Min(R)]
  BY DEF PendingAt
<1>2. CASE R = {}
  BY <1>1, <1>2
<1>3. CASE R # {}
  <2>1. R \subseteq Nat /\ Depth \in Nat
    BY TypeFacts
  <2>2. Min(R) \in R /\ \A y \in R : Min(R) <= y
    BY <1>3, <2>1, MinOfIndices
  <2>3. Min(R) \in (n + 1)..Depth /\ trace[Min(R)].by = u
    BY <2>2
  <2>4. ASSUME NEW j \in (n + 1)..(Min(R) - 1)
        PROVE  trace[j].by # u
    <3>1. j \in (n + 1)..Depth /\ ~ (Min(R) <= j)
      BY <2>1, <2>3
    <3> QED
      BY <2>2, <3>1
  <2> QED
    BY <1>1, <1>3, <2>3, <2>4
<1> QED
  BY <1>2, <1>3

(* What the variables are after the cut.                                   *)
LEMMA ReturnEffect ==
  ASSUME TypeOK, KnownInv, MatchInv, NEW n \in 1..(Depth - 1), ReturnToDepth(n)
  PROVE  /\ n \in 0..Depth /\ err = "none" /\ err' \in {"none", "out_of_range"}
         /\ prog' = prog /\ objs' = objs /\ Known' = Known
         /\ real' = SubSeq(real, 1, n) /\ real' \in Seq(Runners) /\ Len(real') = n
         /\ \A i \in 1..n : real'[i] = real[i]
         /\ \A i \in 0..n : SubSeq(real', 1, i) = SubSeq(real, 1, i)
         /\ trace' \in Seq(Operations) /\ Depth' = n /\ DOMAIN trace' = 1..n
         /\ \A i \in 1..n : trace'[i] = trace[i]
         /\ seq' \in Seq(Elements(objs)) /\ Len(seq') = n + 1 /\ DOMAIN seq' = 1..(n + 1)
         /\ \A i \in 1..(n + 1) : seq'[i] = seq[i]
         /\ stack' \in Seq(Items) /\ Len(stack') = n + 1 /\ DOMAIN stack' = 1..(n + 1)
         /\ \A i \in 1..(n + 1) : stack'[i] = stack[i]
         /\ next' = PendingAt(n)
<1>1. /\ Depth \in Nat /\ n \in 0..Depth /\ n + 1 \in 0..(Depth + 1) /\ err = "none"
      /\ stack # <<>> /\ Len(stack) = Depth + 1 /\ Len(real) = Depth
  BY TypeFacts DEF ReturnToDepth, Exploring, MatchInv
<1>2. /\ prog' = prog /\ objs' = objs /\ err' \in {"none", "out_of_range"} /\ next' = PendingAt(n)
  BY DEF ReturnToDepth
<1>3. /\ trace' \in Seq(Operations) /\ Len(trace') = n
      /\ \A i \in 1..n : trace'[i] = trace[i]
  BY <1>1, TypeFacts, PrefixProperties DEF ReturnToDepth
<1>4. Depth' = n /\ DOMAIN trace' = 1..n
  BY <1>3, LenProperties DEF Depth
<1>5. /\ seq' \in Seq(Elements(objs)) /\ Len(seq') = n + 1
      /\ \A i \in 1..(n + 1) : seq'[i] = seq[i]
  BY <1>1, TypeFacts, PrefixProperties DEF ReturnToDepth, StatesUpTo
<1>6. DOMAIN seq' = 1..(n + 1)
  BY <1>5, LenProperties
<1>7. /\ stack' \in Seq(Items) /\ Len(stack') = n + 1
      /\ \A i \in 1..(n + 1) : stack'[i] = stack[i]
  BY <1>1, TypeFacts, PrefixProperties DEF ReturnToDepth
<1>8. DOMAIN stack' = 1..(n + 1)
  BY <1>7, LenProperties
<1>9. real' = SubSeq(real, 1, n)
  <2> DEFINE a == [i \in 1..n |-> trace[i].by]
             b == SubSeq(real, 1, n)
  <2>1. b \in Seq(Runners) /\ Len(b) = n /\ \A i \in 1..n : b[i] = real[i]
    BY <1>1, TypeFacts, PrefixProperties
  <2>2. DOMAIN b = 1..n /\ b = [i \in DOMAIN b |-> b[i]]
    BY <2>1, LenProperties
  <2> HIDE DEF b
  <2>3. \A i \in 1..n : real[i] = trace[i].by
    BY <1>1, TypeFacts, SMTT(20) DEF MatchInv
  <2>4. a = b
    BY <2>1, <2>2, <2>3
  <2> QED
    BY <2>4 DEF ReturnToDepth, b
<1>10. /\ real' \in Seq(Runners) /\ Len(real') = n
       /\ \A i \in 1..n : real'[i] = real[i]
       /\ \A i \in 0..n : SubSeq(real', 1, i) = SubSeq(real, 1, i)
  BY <1>1, <1>9, TypeFacts, PrefixProperties
<1>11. Known' = Known
  <2> SUFFICES ASSUME NEW u \in Runners
               PROVE  next'[u] # NoOp <=> next[u] # NoOp
    BY DEF Known
  <2>1. CASE /\ \A k \in (n + 1)..Depth : trace[k].by # u
             /\ PendingAt(n)[u] = next[u]
    BY <1>2, <2>1
  <2>2. CASE \E k \in (n + 1)..Depth : trace[k].by = u /\ PendingAt(n)[u] = trace[k]
    <3>1. PICK k \in (n + 1)..Depth : trace[k].by = u /\ PendingAt(n)[u] = trace[k]
      BY <2>2
    <3>2. k \in DOMAIN trace
      BY <1>1, <3>1, TypeFacts
    <3>3. trace[k] # NoOp /\ u \in Known
      BY <3>1, <3>2 DEF KnownInv
    <3> QED
      BY <1>2, <3>1, <3>3 DEF Known
  <2> QED
    BY <1>1, <2>1, <2>2, PendingAtProperties
<1> QED
  BY <1>1, <1>2, <1>3, <1>4, <1>5, <1>6, <1>7, <1>8, <1>9, <1>10, <1>11

(* Cutting back keeps the types and what the model knows.                  *)
LEMMA ReturnType ==
  ASSUME TypeOK, KnownInv, MatchInv, NEW n \in 1..(Depth - 1), ReturnToDepth(n)
  PROVE  TypeOK' /\ KnownInv'
<1>1. /\ n \in 0..Depth /\ err = "none" /\ err' \in {"none", "out_of_range"}
      /\ prog' = prog /\ objs' = objs /\ Known' = Known
      /\ real' = SubSeq(real, 1, n) /\ real' \in Seq(Runners) /\ Len(real') = n
      /\ trace' \in Seq(Operations) /\ Depth' = n /\ DOMAIN trace' = 1..n
      /\ \A i \in 1..n : trace'[i] = trace[i]
      /\ seq' \in Seq(Elements(objs)) /\ Len(seq') = n + 1 /\ DOMAIN seq' = 1..(n + 1)
      /\ \A i \in 1..(n + 1) : seq'[i] = seq[i]
      /\ stack' \in Seq(Items) /\ Len(stack') = n + 1 /\ DOMAIN stack' = 1..(n + 1)
      /\ \A i \in 1..(n + 1) : stack'[i] = stack[i]
      /\ next' = PendingAt(n)
  BY ReturnEffect
<1>2. /\ Depth \in Nat /\ DOMAIN trace = 1..Depth /\ DOMAIN seq = 1..(Depth + 1)
      /\ \A i \in 1..Depth : trace[i] \in Operations
  BY TypeFacts
<1>3. DOMAIN next' = Runners
  <2>1. 0 \in Runners
    BY TransitionsAssumption DEF Runners
  <2> QED
    BY <1>1, <2>1, PendingAtProperties
<1>4. ASSUME NEW u \in Known
      PROVE  /\ next'[u] \in Operations /\ next'[u].by = u
             /\ next'[u].kind = "create" => next'[u].obj \in Known
  <2>1. u \in Runners
    BY DEF Known
  <2>2. CASE PendingAt(n)[u] = next[u]
    BY <1>1, <2>2 DEF TypeOK, KnownInv
  <2>3. CASE \E k \in (n + 1)..Depth : trace[k].by = u /\ PendingAt(n)[u] = trace[k]
    <3>1. PICK k \in (n + 1)..Depth : trace[k].by = u /\ PendingAt(n)[u] = trace[k]
      BY <2>3
    <3>2. k \in 1..Depth
      BY <1>1, <1>2, <3>1
    <3> QED
      BY <1>1, <1>2, <3>1, <3>2 DEF KnownInv
  <2> QED
    BY <1>1, <2>1, <2>2, <2>3, PendingAtProperties
<1>5. TypeOK'
  <2>1. prog' \in Programs /\ objs' \in Seq(Handles)
    BY <1>1 DEF TypeOK
  <2>2. err' \in {"none", "terminated", "limit", "untranslated"} \cup Failures
    BY <1>1 DEF Failures
  <2>3. seq' \in Seq([st : States, seen : SUBSET DOMAIN objs'])
    BY <1>1 DEF Elements
  <2> QED
    BY <1>1, <1>3, <1>4, <2>1, <2>2, <2>3 DEF TypeOK, Items
<1>6. \A u \in Runners : u \in Known' <=> Mapped(u)'
  BY <1>1 DEF KnownInv, Mapped
<1>7. Live' \subseteq Known'
  BY <1>1 DEF KnownInv, Live
<1>8. ASSUME NEW i \in 1..n
      PROVE  /\ trace'[i] # NoOp /\ trace'[i].by \in Known'
             /\ trace'[i].kind = "create" => trace'[i].obj \in Known'
  <2>1. i \in DOMAIN trace /\ trace'[i] = trace[i]
    BY <1>1, <1>2
  <2> QED
    BY <1>1, <2>1 DEF KnownInv
<1>9. ASSUME NEW i \in 1..(n + 1), NEW u \in Runners, seq'[i].st.thr[u] # "embryo"
      PROVE  u \in Known'
  <2>1. i \in DOMAIN seq /\ seq'[i] = seq[i]
    BY <1>1, <1>2
  <2> QED
    BY <1>1, <1>9, <2>1 DEF KnownInv
<1>10. KnownInv'
  BY <1>1, <1>4, <1>6, <1>7, <1>8, <1>9 DEF KnownInv
<1> QED
  BY <1>5, <1>10

(* Restored, every pending transition is where the new process is.         *)
LEMMA ReturnMatch ==
  ASSUME TypeOK, KnownInv, MatchInv, NEW n \in 1..(Depth - 1), ReturnToDepth(n)
  PROVE  MatchInv'
<1>1. /\ n \in 0..Depth /\ err = "none"
      /\ prog' = prog /\ Known' = Known
      /\ real' = SubSeq(real, 1, n) /\ real' \in Seq(Runners) /\ Len(real') = n
      /\ \A i \in 1..n : real'[i] = real[i]
      /\ \A i \in 0..n : SubSeq(real', 1, i) = SubSeq(real, 1, i)
      /\ Depth' = n /\ DOMAIN trace' = 1..n
      /\ \A i \in 1..n : trace'[i] = trace[i]
      /\ next' = PendingAt(n)
  BY ReturnEffect
<1>2. /\ Depth \in Nat /\ DOMAIN trace = 1..Depth /\ real \in Seq(Runners)
  BY TypeFacts
<1>3. /\ Len(real) = Depth
      /\ \A i \in 1..Depth : real[i] = trace[i].by
      /\ \A i \in 1..Depth : trace[i] = OpAfter(prog, SubSeq(real, 1, i - 1), real[i])
      /\ \A u \in Known : next[u] = OpAfter(prog, real, u)
  BY <1>1, <1>2 DEF MatchInv, Past
<1>4. ASSUME NEW i \in 1..n
      PROVE  /\ real'[i] = trace'[i].by
             /\ trace'[i] = OpAfter(prog', SubSeq(real', 1, i - 1), real'[i])
  <2>1. i \in 1..Depth /\ i - 1 \in 0..n
    BY <1>1, <1>2
  <2>2. SubSeq(real', 1, i - 1) = SubSeq(real, 1, i - 1)
    BY <1>1, <2>1
  <2>3. real[i] = trace[i].by /\ trace[i] = OpAfter(prog, SubSeq(real, 1, i - 1), real[i])
    BY <1>3, <2>1
  <2> QED
    BY <1>1, <2>2, <2>3
<1>5. ASSUME NEW u \in Known
      PROVE  next'[u] = OpAfter(prog', real', u)
  <2>1. u \in Runners
    BY DEF Known
  <2>2. CASE /\ \A k \in (n + 1)..Depth : trace[k].by # u
             /\ PendingAt(n)[u] = next[u]
    <3>1. ASSUME NEW k \in (n + 1)..Len(real)
          PROVE  real[k] # u
      <4>1. k \in (n + 1)..Depth /\ k \in 1..Depth
        BY <1>1, <1>2, <1>3
      <4> QED
        BY <1>3, <2>2, <4>1
    <3>2. n \in 0..Len(real)
      BY <1>1, <1>3
    <3>3. OpAfter(prog, real, u) = OpAfter(prog, SubSeq(real, 1, n), u)
      BY <1>2, <3>1, <3>2, OpAfterCut
    <3> QED
      BY <1>1, <1>3, <2>2, <3>3
  <2>3. CASE \E k \in (n + 1)..Depth :
               /\ trace[k].by = u /\ PendingAt(n)[u] = trace[k]
               /\ \A j \in (n + 1)..(k - 1) : trace[j].by # u
    <3>1. PICK k \in (n + 1)..Depth :
               /\ trace[k].by = u /\ PendingAt(n)[u] = trace[k]
               /\ \A j \in (n + 1)..(k - 1) : trace[j].by # u
      BY <2>3
    <3>2. k \in 1..Depth /\ k - 1 \in 0..Len(real) /\ n \in 0..(k - 1)
      BY <1>1, <1>2, <1>3, <3>1
    <3>3. trace[k] = OpAfter(prog, SubSeq(real, 1, k - 1), u)
      BY <1>3, <3>1, <3>2
    <3> DEFINE h == SubSeq(real, 1, k - 1)
    <3>4. /\ h \in Seq(Runners) /\ Len(h) = k - 1
          /\ \A i \in 1..(k - 1) : h[i] = real[i]
          /\ \A m \in 0..(k - 1) : SubSeq(h, 1, m) = SubSeq(real, 1, m)
      BY <1>2, <3>2, PrefixProperties
    <3> HIDE DEF h
    <3>5. ASSUME NEW j \in (n + 1)..Len(h)
          PROVE  h[j] # u
      <4>1. j \in 1..(k - 1) /\ j \in 1..Depth /\ j \in (n + 1)..(k - 1)
        BY <1>1, <1>2, <3>2, <3>4
      <4> QED
        BY <1>3, <3>1, <3>4, <4>1
    <3>6. n \in 0..Len(h)
      BY <3>2, <3>4
    <3>7. OpAfter(prog, h, u) = OpAfter(prog, SubSeq(h, 1, n), u)
      BY <3>4, <3>5, <3>6, OpAfterCut
    <3>8. SubSeq(h, 1, n) = SubSeq(real, 1, n)
      BY <3>2, <3>4
    <3>9. trace[k] = OpAfter(prog, h, u)
      BY <3>3 DEF h
    <3> QED
      BY <1>1, <3>1, <3>7, <3>8, <3>9
  <2> QED
    BY <1>1, <2>1, <2>2, <2>3, PendingAtProperties
<1> QED
  BY <1>1, <1>4, <1>5 DEF MatchInv, Past

(* The states and the entries that are left are as they were.              *)
LEMMA ReturnRest ==
  ASSUME IInv, NEW n \in 1..(Depth - 1), ReturnToDepth(n)
  PROVE  ThreadsInv' /\ StepsInv' /\ StackInv'
<1>1. TypeOK /\ KnownInv /\ MatchInv /\ ThreadsInv /\ StepsInv /\ StackInv
  BY DEF IInv
<1>2. /\ n \in 0..Depth /\ err = "none" /\ prog' = prog
      /\ \A i \in 0..n : SubSeq(real', 1, i) = SubSeq(real, 1, i)
      /\ \A i \in 1..n : trace'[i] = trace[i]
      /\ DOMAIN seq' = 1..(n + 1)
      /\ \A i \in 1..(n + 1) : seq'[i] = seq[i]
      /\ DOMAIN stack' = 1..(n + 1)
      /\ \A i \in 1..(n + 1) : stack'[i] = stack[i]
  BY <1>1, ReturnEffect
<1>9. DOMAIN trace' = 1..n
  BY <1>1, ReturnEffect
<1>3. Depth \in Nat /\ DOMAIN seq = 1..(Depth + 1) /\ DOMAIN stack = 1..(Depth + 1)
  BY <1>1, TypeFacts DEF ReturnToDepth, Exploring
<1>4. ASSUME NEW i \in 1..(n + 1), NEW j \in 1..(n + 1), i <= j, NEW u \in Runners
      PROVE  /\ seq'[i].st.thr[u] # "embryo" => seq'[j].st.thr[u] # "embryo"
             /\ seq'[i].st.thr[u] = "running" /\ (\A k \in i..(j - 1) : trace'[k].by # u)
                  => seq'[j].st.thr[u] = "running"
  <2>1. i \in DOMAIN seq /\ j \in DOMAIN seq /\ \A k \in i..(j - 1) : k \in 1..n
    BY <1>2, <1>3
  <2>2. seq'[i] = seq[i] /\ seq'[j] = seq[j] /\ \A k \in i..(j - 1) : trace'[k] = trace[k]
    BY <1>2, <2>1
  <2>3. /\ seq[i].st.thr[u] # "embryo" => seq[j].st.thr[u] # "embryo"
        /\ seq[i].st.thr[u] = "running" /\ (\A k \in i..(j - 1) : trace[k].by # u)
             => seq[j].st.thr[u] = "running"
    BY <1>1, <1>4, <2>1 DEF ThreadsInv
  <2> QED
    BY <2>2, <2>3
<1>5. ThreadsInv'
  BY <1>2, <1>4 DEF ThreadsInv
<1>6. ASSUME NEW i \in 1..(n + 1)
      PROVE  stack'[i].enabled =
               {u \in Runners : Enabled(seq'[i].st, OpAfter(prog', SubSeq(real', 1, i - 1), u))}
  <2>1. i - 1 \in 0..n /\ i \in DOMAIN stack
    BY <1>2, <1>3
  <2>2. stack[i].enabled = {u \in Runners : Enabled(seq[i].st, OpAfter(prog, Past(i - 1), u))}
    BY <1>1, <1>2, <2>1 DEF StackInv
  <2>3. SubSeq(real', 1, i - 1) = SubSeq(real, 1, i - 1)
    BY <1>2, <2>1
  <2> QED
    BY <1>2, <2>2, <2>3 DEF Past
<1>7. StackInv'
  BY <1>2, <1>6 DEF StackInv, Past
<1>8. StepsInv'
  <2>1. \A i \in 1..n : i \in DOMAIN trace /\ i \in 1..(n + 1) /\ i + 1 \in 1..(n + 1)
    BY <1>1, <1>2, <1>3, TypeFacts
  <2>2. InitialState' = InitialState /\ 1 \in 1..(n + 1)
    BY <1>2, <1>3 DEF InitialState, Live
  <2> QED
    BY <1>1, <1>2, <1>9, <2>1, <2>2 DEF StepsInv
<1> QED
  BY <1>5, <1>7, <1>8

-----------------------------------------------------------------------------
(* The invariant.                                                          *)

(* A finite set in some order.                                             *)
LEMMA SetToSeqType ==
  ASSUME NEW S, IsFiniteSet(S)
  PROVE  SetToSeq(S) \in Seq(S)
<1>1. Cardinality(S) \in Nat /\ ExistsBijection(1..Cardinality(S), S)
  BY FS_CardinalityType
<1>2. \E f \in [1..Cardinality(S) -> S] : IsInjective(f)
  BY <1>1 DEF ExistsBijection, Bijection, Injection
<1>3. SetToSeq(S) \in [1..Cardinality(S) -> S]
  BY <1>2, Zenon DEF SetToSeq
<1> QED
  BY <1>1, <1>3, SeqDef

(* The objects and runners at the start.                                   *)
LEMMA InitialObjectsProperties ==
  ASSUME prog \in Programs
  PROVE  /\ InitialObjects \in Seq(Handles)
         /\ \A u \in Runners : u \in ToSet(InitialObjects) <=> u \in Live
<1> DEFINE L == LiveIn(prog)
           F == {FirstOp(prog, t).obj : t \in Live}
           S == F \cap (Mutexes \cup Semaphores)
           a == [i \in 1..L |-> i - 1]
           b == SetToSeq(S)
<1>1. L \in 1..MaxRunners /\ MaxRunners \in Nat
  BY CoordinatorAssumption, TransitionsAssumption
<1>2. a \in Seq(Handles) /\ Len(a) = L /\ \A i \in 1..L : a[i] = i - 1
  <2>1. \A i \in 1..L : i - 1 \in Handles
    BY <1>1 DEF Handles, Runners
  <2>2. a \in [1..L -> Handles] /\ L \in Nat
    BY <1>1, <2>1
  <2>3. a \in Seq(Handles)
    BY <2>2, SeqDef
  <2>4. DOMAIN a = 1..L
    OBVIOUS
  <2>5. Len(a) = L
    BY <2>2, <2>3, <2>4, LenProperties
  <2> QED
    BY <2>3, <2>5
<1>3. IsFiniteSet(S)
  <2>1. IsFiniteSet(Live)
    BY <1>1, FS_Interval DEF Live
  <2> DEFINE f == [t \in Live |-> FirstOp(prog, t).obj]
  <2>2. f \in Surjection(Live, F)
    BY DEF Surjection
  <2>3. IsFiniteSet(F)
    BY <2>1, <2>2, FS_Surjection
  <2> QED
    BY <2>3, FS_Subset
<1>4. b \in Seq(S)
  BY <1>3, SetToSeqType
<1>5. b \in Seq(Handles)
  <2>1. S \subseteq Handles
    BY DEF Handles
  <2> HIDE DEF S, b
  <2> QED
    BY <1>4, <2>1, SeqMonotonic
<1>6. Len(b) \in Nat /\ \A i \in 1..Len(b) : b[i] \notin Runners
  <2>1. \A i \in 1..Len(b) : b[i] \in S
    BY <1>4, ElementOfSeq
  <2>2. \A x \in S : x \notin Runners
    BY CoordinatorAssumption
  <2> HIDE DEF S
  <2> QED
    BY <1>4, <2>1, <2>2, LenProperties
<1>7. InitialObjects = a \o b
  BY DEF InitialObjects
<1> HIDE DEF a, b, S, F, L
<1>8. /\ a \o b \in Seq(Handles) /\ Len(a \o b) = Len(a) + Len(b)
      /\ \A i \in 1..(Len(a) + Len(b)) : (a \o b)[i] = IF i <= Len(a) THEN a[i] ELSE b[i - Len(a)]
  BY <1>2, <1>5, ConcatProperties
<1> DEFINE c == a \o b
<1>9. DOMAIN c = 1..(L + Len(b))
  BY <1>2, <1>8, LenProperties
<1> HIDE DEF c
<1>10. ASSUME NEW u \in Live
       PROVE  u \in ToSet(c)
  <2>1. u \in 0..(L - 1)
    BY DEF Live, L
  <2>2. u + 1 \in 1..L /\ u + 1 \in DOMAIN c
    BY <1>1, <1>6, <1>9, <2>1
  <2>3. c[u + 1] = u
    BY <1>1, <1>2, <1>6, <1>8, <2>1, <2>2 DEF c
  <2> QED
    BY <2>2, <2>3 DEF ToSet
<1>11. ASSUME NEW u \in Runners, u \in ToSet(c)
       PROVE  u \in Live
  <2>1. PICK i \in DOMAIN c : c[i] = u
    BY <1>11 DEF ToSet
  <2>2. i \in 1..(L + Len(b)) /\ u = IF i <= L THEN a[i] ELSE b[i - L]
    BY <1>2, <1>8, <1>9, <2>1 DEF c
  <2>3. i <= L
    <3>1. ASSUME ~ (i <= L) PROVE FALSE
      <4>1. i - L \in 1..Len(b)
        BY <1>1, <1>6, <2>2, <3>1
      <4> QED
        BY <1>6, <2>2, <3>1, <4>1
    <3> QED
      BY <3>1
  <2>4. i \in 1..L /\ u = i - 1
    BY <1>1, <1>2, <1>6, <2>2, <2>3
  <2> QED
    BY <1>1, <2>4 DEF Live, L
<1> QED
  BY <1>7, <1>8, <1>10, <1>11 DEF c

(* The invariant holds before the first step.                              *)
LEMMA InitInvariant ==
  ASSUME ProgramsTyped, Init
  PROVE  IInv
<1>1. /\ prog \in Programs /\ real = <<>> /\ trace = <<>> /\ objs = InitialObjects
      /\ seq = <<[st |-> InitialState, seen |-> DOMAIN objs]>>
      /\ next = [t \in Runners |-> IF t \in Live THEN FirstOp(prog, t) ELSE NoOp]
      /\ stack = <<StackItem(InitialState, next)>> /\ err = "none"
  BY DEF Init
<1>2. LiveIn(prog) \in 1..MaxRunners /\ MaxRunners \in Nat \ {0}
  BY <1>1, CoordinatorAssumption, TransitionsAssumption
<1>3. Live \subseteq Runners
  BY <1>2 DEF Live, Runners
<1>4. \A t \in Live : FirstOp(prog, t) # NoOp /\ FirstOp(prog, t).by = t
                      /\ FirstOp(prog, t) \in Operations /\ FirstOp(prog, t).kind # "create"
  BY <1>1 DEF ProgramsTyped, WellTypedFirst, Live
<1>5. Known = Live
  BY <1>1, <1>3, <1>4 DEF Known
<1>6. InitialState \in States
  BY <1>2 DEF InitialState, States, NoRunner
<1>7. \A t \in Runners : InitialState.thr[t] = IF t \in Live THEN "running" ELSE "embryo"
  BY DEF InitialState
<1>8. /\ objs \in Seq(Handles)
      /\ \A u \in Runners : u \in ToSet(objs) <=> u \in Live
  BY <1>1, InitialObjectsProperties
<1>9. /\ <<>> \in Seq(Runners) /\ Len(<<>>) = 0
      /\ <<>> \in Seq(Operations)
  <2>1. \A S : <<>> \in Seq(S) /\ Len(<<>>) = 0
    BY EmptySeq
  <2> QED
    BY <2>1, Zenon
<1>10. DOMAIN trace = {} /\ DOMAIN real = {} /\ Depth = 0
  <2>1. DOMAIN <<>> = 1..0
    BY <1>9, LenProperties
  <2> QED
    BY <1>1, <1>9, <2>1 DEF Depth
<1> DEFINE e == [st |-> InitialState, seen |-> DOMAIN objs]
           f == StackItem(InitialState, next)
<1>11. e \in Elements(objs) /\ e.st = InitialState
  BY <1>6 DEF Elements
<1>12. f \in Items /\ f.enabled = EnabledRunners(InitialState, next)
  BY DEF StackItem, Items, EnabledRunners
<1> HIDE DEF e, f
<1>13. seq = <<e>> /\ stack = <<f>>
  BY <1>1 DEF e, f
<1>14. /\ seq \in Seq(Elements(objs)) /\ Len(seq) = 1 /\ DOMAIN seq = {1} /\ seq[1] = e
       /\ stack \in Seq(Items) /\ Len(stack) = 1 /\ DOMAIN stack = {1} /\ stack[1] = f
  BY <1>11, <1>12, <1>13
<1>15. TypeOK
  <2>1. \A t \in Known : next[t] \in Operations /\ next[t].by = t
    BY <1>1, <1>3, <1>4, <1>5
  <2>2. DOMAIN next = Runners
    BY <1>1
  <2>3. Len(seq) = Depth + 1 /\ Len(stack) = Depth + 1
    BY <1>10, <1>14
  <2>4. real \in Seq(Runners) /\ trace \in Seq(Operations)
    BY <1>1, <1>9
  <2> QED
    BY <1>1, <1>8, <1>14, <2>1, <2>2, <2>3, <2>4 DEF TypeOK, Elements, Items
<1>16. KnownInv
  <2>1. \A t \in Runners : t \in Known <=> Mapped(t)
    BY <1>5, <1>8 DEF Mapped
  <2>2. \A t \in Known : next[t].kind # "create"
    BY <1>1, <1>3, <1>4, <1>5
  <2>3. \A t \in Runners : seq[1].st.thr[t] # "embryo" => t \in Known
    BY <1>5, <1>7, <1>11, <1>14
  <2> QED
    BY <1>5, <1>10, <1>14, <2>1, <2>2, <2>3 DEF KnownInv
<1>17. \A t \in Runners : OpAfter(prog, real, t) = IF t \in Live THEN FirstOp(prog, t) ELSE Start(t)
  <2> SUFFICES ASSUME NEW t \in Runners
               PROVE  OpAfter(prog, real, t) = IF t \in Live THEN FirstOp(prog, t) ELSE Start(t)
    OBVIOUS
  <2>1. LastRun(real, t) \in 0..Len(real)
    BY <1>1, <1>9, LastRunProperties
  <2>2. ~ (LastRun(real, t) > 0)
    BY <1>1, <1>9, <2>1
  <2>3. t \in Live <=> t < LiveIn(prog)
    BY <1>2 DEF Live, Runners
  <2>4. OpAfter(prog, real, t) = IF t < LiveIn(prog) THEN FirstOp(prog, t) ELSE Start(t)
    BY <2>2, Zenon DEF OpAfter
  <2> QED
    BY <2>3, <2>4
<1>18. MatchInv
  <2>1. \A t \in Known : next[t] = OpAfter(prog, real, t)
    BY <1>1, <1>3, <1>5, <1>17
  <2>2. Len(real) = Depth
    BY <1>1, <1>9, <1>10
  <2> QED
    BY <1>10, <2>1, <2>2 DEF MatchInv
<1>19. ThreadsInv
  <2> SUFFICES ASSUME NEW i \in DOMAIN seq, NEW j \in DOMAIN seq, NEW u \in Runners
               PROVE  /\ seq[i].st.thr[u] # "embryo" => seq[j].st.thr[u] # "embryo"
                      /\ seq[i].st.thr[u] = "running" => seq[j].st.thr[u] = "running"
    BY DEF ThreadsInv
  <2>1. i = j
    BY <1>14
  <2> QED
    BY <2>1
<1>20. StackInv
  <2>1. Past(0) = real
    <3>1. SubSeq(real, 1, Len(real)) = real /\ Len(real) = 0
      BY <1>1, <1>9, SubSeqFull
    <3> QED
      BY <3>1 DEF Past
  <2>2. ASSUME NEW t \in Runners
        PROVE  (next[t] # NoOp /\ Enabled(InitialState, next[t]))
                 <=> Enabled(InitialState, OpAfter(prog, real, t))
    <3>1. CASE t \in Live
      BY <1>1, <1>4, <1>17, <3>1
    <3>2. CASE t \notin Live
      <4>1. OpAfter(prog, real, t) = Start(t) /\ next[t] = NoOp
        BY <1>1, <1>17, <3>2
      <4>2. Start(t).by = t
        BY DEF Start, Transition
      <4>3. ~ Enabled(InitialState, Start(t))
        BY <1>7, <3>2, <4>2 DEF Enabled, ApplyTo
      <4> QED
        BY <4>1, <4>3
    <3> QED
      BY <3>1, <3>2
  <2>3. EnabledRunners(InitialState, next) =
          {t \in Runners : next[t] # NoOp /\ Enabled(InitialState, next[t])}
    BY DEF EnabledRunners
  <2>4. stack[1].enabled = {t \in Runners : Enabled(seq[1].st, OpAfter(prog, Past(0), t))}
    BY <1>11, <1>12, <1>14, <2>1, <2>2, <2>3
  <2>5. 1 - 1 = 0
    OBVIOUS
  <2> QED
    BY <1>14, <2>4, <2>5 DEF StackInv
<1>21. StepsInv
  BY <1>10, <1>11, <1>14 DEF StepsInv
<1> QED
  BY <1>15, <1>16, <1>18, <1>19, <1>20, <1>21 DEF IInv

(* A runner of the last entry is known to the model, enabled in it, and at *)
(* the transition that is pending for it.                                  *)
LEMMA EnabledIsKnown ==
  ASSUME IInv, err = "none", stack # <<>>, NEW t \in Last(stack).enabled
  PROVE  t \in Known /\ Enabled(Current.st, next[t])
<1>1. TypeOK /\ KnownInv /\ MatchInv /\ StackInv
  BY DEF IInv
<1>2. /\ Len(stack) = Depth + 1 /\ Depth + 1 \in DOMAIN stack /\ Depth \in Nat
      /\ Current = seq[Depth + 1] /\ Depth + 1 \in DOMAIN seq /\ real \in Seq(Runners)
  BY <1>1, TypeFacts
<1>3. Last(stack).enabled =
        {u \in Runners : Enabled(Current.st, OpAfter(prog, Past((Depth + 1) - 1), u))}
  BY <1>1, <1>2 DEF StackInv, Last
<1>4. Past((Depth + 1) - 1) = real
  <2>1. (Depth + 1) - 1 = Len(real)
    BY <1>1, <1>2 DEF MatchInv
  <2> QED
    BY <1>2, <2>1, SubSeqFull DEF Past
<1>5. t \in Runners /\ Enabled(Current.st, OpAfter(prog, real, t))
  BY <1>3, <1>4
<1>6. ASSUME t \notin Known
      PROVE  FALSE
  <2>1. Current.st.thr[t] = "embryo"
    BY <1>1, <1>2, <1>5, <1>6 DEF KnownInv
  <2>2. ~ (t < LiveIn(prog))
    <3>1. t \notin 0..(LiveIn(prog) - 1)
      BY <1>1, <1>6 DEF KnownInv, Live
    <3>2. t \in Nat /\ LiveIn(prog) \in Nat
      BY <1>1, <1>5, TypeFacts DEF Runners
    <3> QED
      BY <3>1, <3>2
  <2>3. \A i \in 1..Depth : trace[i].by \in Known
    BY <1>1, TypeFacts DEF KnownInv
  <2>4. \A i \in 1..Len(real) : real[i] # t
    <3>1. \A i \in 1..Depth : real[i] = trace[i].by
      BY <1>1, TypeFacts DEF MatchInv
    <3>2. Len(real) = Depth
      BY <1>1 DEF MatchInv
    <3> QED
      BY <1>6, <2>3, <3>1, <3>2
  <2>5. OpAfter(prog, real, t) = Start(t)
    BY <1>2, <2>2, <2>4, NeverRun
  <2>6. Start(t).by = t
    BY DEF Start, Transition
  <2> QED
    BY <1>5, <2>1, <2>5, <2>6 DEF Enabled, ApplyTo
<1>7. next[t] = OpAfter(prog, real, t)
  BY <1>1, <1>6 DEF MatchInv
<1> QED
  BY <1>5, <1>6, <1>7

(* Following an enabled runner keeps the invariant, and the model never    *)
(* finds the transition disabled.                                          *)
LEMMA ExecuteInvariant ==
  ASSUME ProgramsTyped, IInv, Exploring, NEW t \in Last(stack).enabled,
         NEW result \in {"none", "terminated"}, ExecuteRunner(t, result)
  PROVE  IInv' /\ err' # "disabled"
<1> DEFINE op == Message(prog, Append(real, t))
<1>1. /\ TypeOK /\ KnownInv /\ MatchInv /\ ThreadsInv /\ StepsInv /\ StackInv
      /\ err = "none" /\ stack # <<>>
  BY DEF IInv, Exploring
<1>2. t \in Known /\ Enabled(Current.st, next[t])
  BY <1>1, EnabledIsKnown
<1> HIDE DEF op
<1>3. CASE /\ err' \in {"untranslated"} \cup Failures
           /\ err' # "disabled"
           /\ real' = Append(real, t)
           /\ UNCHANGED <<prog, trace, objs, seq, next, stack>>
  <2>1. t \in Runners
    BY <1>2 DEF Known
  <2>2. real' \in Seq(Runners)
    BY <1>1, <1>3, <2>1, TypeFacts, AppendProperties
  <2>3. TypeOK'
    BY <1>1, <1>3, <2>2 DEF TypeOK, Known, Depth
  <2>4. KnownInv'
    BY <1>1, <1>3 DEF KnownInv, Known, Mapped, Live
  <2>5. err' # "none"
    BY <1>3 DEF Failures
  <2>6. MatchInv' /\ StackInv'
    BY <2>5 DEF MatchInv, StackInv
  <2>7. ThreadsInv' /\ StepsInv'
    BY <1>1, <1>3 DEF ThreadsInv, StepsInv, InitialState, Live
  <2> QED
    BY <1>3, <2>3, <2>4, <2>6, <2>7 DEF IInv
<1>4. CASE err' = result /\ \E s : Advanced(t, op, s)
  <2>1. PICK s : Advanced(t, op, s)
    BY <1>4
  <2>2. op = Message(prog, Append(real, t)) /\ err' \in {"none", "terminated"}
    BY <1>4 DEF op
  <2>3. TypeOK'
    BY <1>1, <1>2, <2>1, <2>2, AdvancedType
  <2>4. KnownInv'
    BY <1>1, <1>2, <2>1, <2>2, AdvancedKnownInv
  <2>5. MatchInv'
    BY <1>1, <1>2, <2>1, <2>2, AdvancedMatch
  <2>6. ThreadsInv'
    BY <1>1, <1>2, <2>1, AdvancedThreads
  <2>7. StackInv'
    BY <1>1, <1>2, <2>1, <2>4, <2>5, AdvancedStack
  <2>8. StepsInv'
    BY <1>1, <1>2, <2>1, AdvancedSteps
  <2> QED
    BY <2>2, <2>3, <2>4, <2>5, <2>6, <2>7, <2>8 DEF IInv
<1>5. op = Message(prog, Append(real, t))
  BY DEF op
<1> QED
  BY <1>1, <1>2, <1>3, <1>4, <1>5, ExecuteEffect

(* Every step keeps the invariant.                                         *)
LEMMA NextInvariant ==
  ASSUME ProgramsTyped, IInv, [Next]_vars
  PROVE  IInv' /\ (err # "disabled" => err' # "disabled")
<1>1. TypeOK /\ KnownInv /\ MatchInv /\ ThreadsInv /\ StepsInv /\ StackInv
  BY DEF IInv
<1>2. CASE Explore
  <2> DEFINE t == Min(Last(stack).enabled)
             result == AfterStep(Message(prog, Append(real, t)))
  <2>1. Exploring /\ Last(stack).enabled # {} /\ ExecuteRunner(t, result)
    BY <1>2 DEF Explore, CanExplore
  <2>2. result \in {"none", "terminated"}
    BY DEF AfterStep
  <2>3. Last(stack).enabled \subseteq Nat
    <3>1. /\ stack \in Seq(Items) /\ Len(stack) \in 1..Len(stack)
      BY <1>1, <2>1, TypeFacts DEF Exploring
    <3>2. Last(stack) \in Items
      BY <3>1, ElementOfSeq DEF Last
    <3> QED
      BY <3>2 DEF Items, Runners
  <2>4. t \in Last(stack).enabled
    BY <2>1, <2>3, MinOfIndices
  <2> HIDE DEF t, result
  <2> QED
    BY <2>1, <2>2, <2>4, ExecuteInvariant
<1>3. CASE LimitReached \/ Hang
  <2>1. UNCHANGED <<prog, real, trace, objs, seq, next, stack>> /\ err' \in {"limit", "hang"}
    BY <1>3 DEF LimitReached, Hang
  <2>2. TypeOK'
    BY <1>1, <2>1 DEF TypeOK, Known, Depth
  <2>3. KnownInv' /\ ThreadsInv' /\ StepsInv'
    BY <1>1, <2>1 DEF KnownInv, Known, Mapped, Live, ThreadsInv, StepsInv, InitialState
  <2>4. MatchInv' /\ StackInv'
    BY <2>1 DEF MatchInv, StackInv
  <2> QED
    BY <2>1, <2>2, <2>3, <2>4 DEF IInv
<1>4. ASSUME NEW n \in 1..(Depth - 1), ReturnToDepth(n)
      PROVE  IInv' /\ err' # "disabled"
  <2>1. TypeOK' /\ KnownInv'
    BY <1>1, <1>4, ReturnType
  <2>2. MatchInv'
    BY <1>1, <1>4, ReturnMatch
  <2>3. ThreadsInv' /\ StepsInv' /\ StackInv'
    BY <1>4, ReturnRest
  <2>4. err' # "disabled"
    BY <1>4 DEF ReturnToDepth
  <2> QED
    BY <2>1, <2>2, <2>3, <2>4 DEF IInv
<1>5. CASE Backtrack
  <2>1. PICK t \in Last(stack).enabled : ExecuteRunner(t, "none")
    BY <1>5 DEF Backtrack
  <2>2. Exploring
    BY <1>5 DEF Backtrack
  <2> QED
    BY <2>1, <2>2, ExecuteInvariant
<1>6. CASE Finish
  <2>1. UNCHANGED <<prog, real, trace, objs, seq, next, err>> /\ stack' = <<>>
    BY <1>6 DEF Finish
  <2>2. \A S : <<>> \in Seq(S)
    BY EmptySeq
  <2>3. stack' \in Seq([enabled : SUBSET Runners, done : SUBSET Runners])
    BY <2>1, <2>2, Zenon
  <2>4. TypeOK'
    BY <1>1, <2>1, <2>3 DEF TypeOK, Known, Depth
  <2>5. KnownInv' /\ ThreadsInv' /\ StepsInv'
    BY <1>1, <2>1 DEF KnownInv, Known, Mapped, Live, ThreadsInv, StepsInv, InitialState
  <2>6. MatchInv'
    BY <1>1, <2>1 DEF MatchInv, Known, Depth, Past
  <2>7. DOMAIN stack' = {}
    <3>1. Len(<<>>) = 0 /\ <<>> \in Seq({})
      BY EmptySeq
    <3>2. DOMAIN <<>> = 1..Len(<<>>)
      BY <3>1, LenProperties
    <3> QED
      BY <2>1, <3>1, <3>2
  <2>8. StackInv'
    BY <2>7 DEF StackInv
  <2> QED
    BY <2>1, <2>4, <2>5, <2>6, <2>8 DEF IInv
<1>7. CASE UNCHANGED vars
  <2>1. UNCHANGED <<prog, real, trace, objs, seq, next, stack, err>>
    BY <1>7 DEF vars
  <2>2. TypeOK'
    BY <1>1, <2>1 DEF TypeOK, Known, Depth
  <2>3. KnownInv' /\ ThreadsInv' /\ StepsInv'
    BY <1>1, <2>1 DEF KnownInv, Known, Mapped, Live, ThreadsInv, StepsInv, InitialState
  <2>4. MatchInv'
    BY <1>1, <2>1 DEF MatchInv, Known, Depth, Past
  <2>5. StackInv'
    BY <1>1, <2>1 DEF StackInv, Past
  <2> QED
    BY <2>1, <2>2, <2>3, <2>4, <2>5 DEF IInv
<1> QED
  BY <1>2, <1>3, <1>4, <1>5, <1>6, <1>7 DEF Next

(* Of well-typed programs, the exploration keeps the invariant: what the   *)
(* model knows, how it mirrors the branch process, what the threads' states*)
(* and the entries of the stack are worth after any number of cuts.        *)
THEOREM Invariance ==
  ASSUME ProgramsTyped
  PROVE  Spec => []IInv
<1>1. Init => IInv
  BY InitInvariant
<1>2. IInv /\ [Next]_vars => IInv'
  BY NextInvariant
<1> QED
  BY <1>1, <1>2, PTL DEF Spec

(* The types, and the lengths of trace, state sequence and stack           *)
(* (verify_using's own invariant), for well-typed programs.                *)
THEOREM TypeCorrect ==
  ASSUME ProgramsTyped
  PROVE  Spec => []TypeOK
<1>1. IInv => TypeOK
  BY DEF IInv
<1> QED
  BY <1>1, Invariance, PTL

(* What the stack has kept as enabled at a depth is enabled in the model   *)
(* when the search comes back to it: model_execution_of never meets a      *)
(* disabled transition.                                                    *)
THEOREM FollowsTheEnabled ==
  ASSUME ProgramsTyped
  PROVE  Spec => [](err # "disabled")
<1>1. Init => err # "disabled"
  BY DEF Init
<1>2. IInv /\ err # "disabled" /\ [Next]_vars => (err # "disabled")'
  BY NextInvariant
<1> QED
  BY <1>1, <1>2, Invariance, PTL DEF Spec

-----------------------------------------------------------------------------
(* Handles that are used again.                                            *)

(* A thread about to create another one announced that in its last step.   *)
LEMMA OpAfterCreate ==
  ASSUME ProgramsTyped, NEW p \in Programs, NEW h \in Seq(Runners), NEW t \in Runners,
         OpAfter(p, h, t).kind = "create"
  PROVE  \E k \in 1..Len(h) :
           /\ h[k] = t /\ \A i \in 1..Len(h) : i > k => h[i] # t
           /\ IsCreate(p, SubSeq(h, 1, k))
           /\ OpAfter(p, h, t).obj = HandleOf(p, SubSeq(h, 1, k))
<1> DEFINE k == LastRun(h, t)
<1>1. /\ k \in 0..Len(h) /\ Len(h) \in Nat
      /\ k > 0 => h[k] = t
      /\ \A i \in 1..Len(h) : i > k => h[i] # t
  BY LastRunProperties, LenProperties
<1>2. k > 0
  <2> SUFFICES ASSUME ~ (k > 0)
               PROVE  FALSE
    OBVIOUS
  <2>1. OpAfter(p, h, t) = IF t < LiveIn(p) THEN FirstOp(p, t) ELSE Start(t)
    BY Zenon DEF OpAfter
  <2>2. Start(t).kind = "start"
    BY DEF Start, Transition
  <2>3. t < LiveIn(p) => FirstOp(p, t).kind # "create"
    <3>1. LiveIn(p) \in Nat /\ t \in Nat
      BY CoordinatorAssumption, TransitionsAssumption DEF Runners
    <3>2. t < LiveIn(p) => t \in 0..(LiveIn(p) - 1)
      BY <3>1
    <3> QED
      BY <3>2 DEF ProgramsTyped, WellTypedFirst
  <2> QED
    BY <2>1, <2>2, <2>3
<1> HIDE DEF k
<1>3. k \in 1..Len(h)
  BY <1>1, <1>2
<1>4. OpAfter(p, h, t) = Message(p, SubSeq(h, 1, k))
  BY <1>2, Zenon DEF OpAfter, k
<1>5. SubSeq(h, 1, k) \in Seq(Runners) /\ Len(SubSeq(h, 1, k)) = k
  BY <1>1, PrefixProperties
<1>6. SubSeq(h, 1, k) # <<>>
  <2>1. Len(<<>>) = 0
    BY EmptySeq
  <2> QED
    BY <1>3, <1>5, <2>1
<1> DEFINE g == SubSeq(h, 1, k)
<1>7. WellTyped(p, g)
  BY <1>5, <1>6 DEF ProgramsTyped
<1> HIDE DEF g
<1>8. IsCreate(p, g)
  <2> SUFFICES ASSUME ~ IsCreate(p, g)
               PROVE  FALSE
    OBVIOUS
  <2>1. Message(p, g) = CodeOf(p, g)
    BY DEF Message
  <2> QED
    BY <1>4, <2>1 DEF g, IsCreate
<1>9. Message(p, g) = Transition(CodeOf(p, g).by, "create", HandleOf(p, g))
  BY <1>8 DEF Message
<1>10. Message(p, g).obj = HandleOf(p, g)
  BY <1>9 DEF Transition
<1> QED
  BY <1>1, <1>2, <1>3, <1>4, <1>8, <1>10 DEF g

(* A create gives the process one thread more than it ever had.            *)
LEMMA BornGrows ==
  ASSUME NEW p \in Programs, NEW h \in Seq(Runners), NEW n \in 1..Len(h),
         IsCreate(p, SubSeq(h, 1, n))
  PROVE  /\ Born(p, SubSeq(h, 1, n)) \in Nat
         /\ LiveIn(p) < Born(p, SubSeq(h, 1, n))
         /\ \A m \in 0..(n - 1) :
              Born(p, SubSeq(h, 1, m)) \in Nat /\ Born(p, SubSeq(h, 1, m)) < Born(p, SubSeq(h, 1, n))
<1> DEFINE g == SubSeq(h, 1, n - 1)
           f == SubSeq(h, 1, n)
<1>1. Len(h) \in Nat /\ n \in Nat /\ n - 1 \in 0..Len(h) /\ n \in 0..Len(h)
  BY LenProperties
<1>2. g \in Seq(Runners) /\ h[n] \in Runners /\ f = Append(g, h[n])
      /\ Len(g) = n - 1 /\ \A m \in 0..(n - 1) : SubSeq(g, 1, m) = SubSeq(h, 1, m)
  <2>1. g \in Seq(Runners) /\ h[n] \in Runners
        /\ Len(g) = n - 1 /\ \A m \in 0..(n - 1) : SubSeq(g, 1, m) = SubSeq(h, 1, m)
    BY <1>1, PrefixProperties, ElementOfSeq
  <2>2. n \in 1..n /\ 1 \in 1..Len(h)
    BY <1>1
  <2>3. f = g \o <<h[n]>>
    BY <2>2, SubSeqRecursiveSecond
  <2> HIDE DEF g, f
  <2> QED
    BY <2>1, <2>3, AppendIsConcat
<1> HIDE DEF g
<1>3. Born(p, f) = Born(p, g) + 1 /\ Born(p, g) \in Nat /\ LiveIn(p) <= Born(p, g)
  BY <1>2, BornProperties
<1>4. LiveIn(p) \in Nat
  BY CoordinatorAssumption, TransitionsAssumption
<1>5. ASSUME NEW m \in 0..(n - 1)
      PROVE  Born(p, SubSeq(h, 1, m)) \in Nat /\ Born(p, SubSeq(h, 1, m)) <= Born(p, g)
  <2>1. m \in 0..Len(g) /\ m \in 0..Len(h)
    BY <1>1, <1>2
  <2>2. Born(p, SubSeq(g, 1, m)) <= Born(p, g)
    BY <1>2, <2>1, BornProperties
  <2>3. SubSeq(h, 1, m) \in Seq(Runners)
    BY <2>1, PrefixProperties
  <2> QED
    BY <1>2, <2>2, <2>3, BornProperties
<1> HIDE DEF f
<1>6. /\ Born(p, f) \in Nat /\ LiveIn(p) < Born(p, f)
      /\ \A m \in 0..(n - 1) :
           Born(p, SubSeq(h, 1, m)) \in Nat /\ Born(p, SubSeq(h, 1, m)) < Born(p, f)
  BY <1>3, <1>4, <1>5
<1> QED
  BY <1>6 DEF f

(* Where no handle was used again, a create in the trace was announced in  *)
(* its thread's step before, with the number of the new thread.            *)
LEMMA CreateAnnounced ==
  ASSUME ProgramsTyped, IInv, err = "none", ~ Reused(prog, real),
         NEW j \in 1..Depth, trace[j].kind = "create"
  PROVE  \E q \in 1..(j - 1) :
           /\ real[q] = real[j] /\ \A i \in 1..(j - 1) : i > q => real[i] # real[j]
           /\ IsCreate(prog, SubSeq(real, 1, q))
           /\ trace[j].obj = Born(prog, SubSeq(real, 1, q)) - 1
<1>1. TypeOK /\ MatchInv
  BY DEF IInv
<1>2. /\ real \in Seq(Runners) /\ DOMAIN real = 1..Depth /\ Len(real) = Depth /\ Depth \in Nat
      /\ DOMAIN trace = 1..Depth /\ prog \in Programs
  BY <1>1, TypeFacts DEF MatchInv
<1>3. j - 1 \in 0..Len(real) /\ j \in 1..Len(real)
  BY <1>2
<1> DEFINE h == SubSeq(real, 1, j - 1)
<1>4. /\ h \in Seq(Runners) /\ Len(h) = j - 1 /\ \A i \in 1..(j - 1) : h[i] = real[i]
      /\ \A m \in 0..(j - 1) : SubSeq(h, 1, m) = SubSeq(real, 1, m)
  BY <1>2, <1>3, PrefixProperties
<1>5. trace[j] = OpAfter(prog, h, real[j]) /\ real[j] \in Runners
  BY <1>1, <1>2, <1>3, ElementOfSeq DEF MatchInv, Past
<1> HIDE DEF h
<1>6. PICK q \in 1..Len(h) :
        /\ h[q] = real[j] /\ \A i \in 1..Len(h) : i > q => h[i] # real[j]
        /\ IsCreate(prog, SubSeq(h, 1, q))
        /\ OpAfter(prog, h, real[j]).obj = HandleOf(prog, SubSeq(h, 1, q))
  BY <1>2, <1>4, <1>5, OpAfterCreate
<1>7. q \in 1..(j - 1) /\ q \in DOMAIN real /\ SubSeq(h, 1, q) = SubSeq(real, 1, q)
  BY <1>2, <1>3, <1>4, <1>6
<1>8. HandleOf(prog, SubSeq(real, 1, q)) = Born(prog, SubSeq(real, 1, q)) - 1
  BY <1>6, <1>7 DEF Reused
<1>9. real[q] = real[j] /\ \A i \in 1..(j - 1) : i > q => real[i] # real[j]
  BY <1>4, <1>6, <1>7
<1> QED
  BY <1>5, <1>6, <1>7, <1>8, <1>9

(* There, no thread is created twice, nor one that was alive at depth 0.   *)
LEMMA CreatedOnce ==
  ASSUME ProgramsTyped, IInv, err = "none", ~ Reused(prog, real),
         NEW t, NEW j \in 1..Depth, trace[j].kind = "create", trace[j].obj = t
  PROVE  /\ t \notin Live
         /\ \A i \in 1..(j - 1) : ~ (trace[i].kind = "create" /\ trace[i].obj = t)
<1>1. TypeOK /\ MatchInv
  BY DEF IInv
<1>2. /\ real \in Seq(Runners) /\ Len(real) = Depth /\ Depth \in Nat /\ prog \in Programs
      /\ LiveIn(prog) \in Nat
  BY <1>1, TypeFacts DEF MatchInv
<1>3. PICK q \in 1..(j - 1) :
        /\ real[q] = real[j] /\ \A i \in 1..(j - 1) : i > q => real[i] # real[j]
        /\ IsCreate(prog, SubSeq(real, 1, q))
        /\ trace[j].obj = Born(prog, SubSeq(real, 1, q)) - 1
  BY CreateAnnounced
<1>4. q \in 1..Len(real)
  BY <1>2, <1>3
<1>5. /\ Born(prog, SubSeq(real, 1, q)) \in Nat
      /\ LiveIn(prog) < Born(prog, SubSeq(real, 1, q))
      /\ \A m \in 0..(q - 1) :
           /\ Born(prog, SubSeq(real, 1, m)) \in Nat
           /\ Born(prog, SubSeq(real, 1, m)) < Born(prog, SubSeq(real, 1, q))
  BY <1>2, <1>3, <1>4, BornGrows
<1>6. t \notin Live
  BY <1>2, <1>3, <1>5 DEF Live
<1>7. ASSUME NEW i \in 1..(j - 1), trace[i].kind = "create", trace[i].obj = t
      PROVE  FALSE
  <2>1. i \in 1..Depth
    BY <1>2
  <2>2. PICK r \in 1..(i - 1) :
          /\ real[r] = real[i] /\ \A k \in 1..(i - 1) : k > r => real[k] # real[i]
          /\ IsCreate(prog, SubSeq(real, 1, r))
          /\ trace[i].obj = Born(prog, SubSeq(real, 1, r)) - 1
    BY <1>7, <2>1, CreateAnnounced
  <2>3. r \in 1..Len(real)
    BY <1>2, <2>1, <2>2
  <2>4. /\ Born(prog, SubSeq(real, 1, r)) \in Nat
        /\ \A m \in 0..(r - 1) :
             /\ Born(prog, SubSeq(real, 1, m)) \in Nat
             /\ Born(prog, SubSeq(real, 1, m)) < Born(prog, SubSeq(real, 1, r))
    BY <1>2, <2>2, <2>3, BornGrows
  <2>5. Born(prog, SubSeq(real, 1, r)) = Born(prog, SubSeq(real, 1, q))
    BY <1>3, <1>5, <1>7, <2>2, <2>4
  <2>6. q = r
    <3>1. CASE q < r
      <4>1. q \in 0..(r - 1)
        BY <1>4, <2>3, <3>1
      <4> QED
        BY <1>5, <2>4, <2>5, <4>1
    <3>2. CASE r < q
      <4>1. r \in 0..(q - 1)
        BY <1>4, <2>3, <3>2
      <4> QED
        BY <1>5, <2>4, <2>5, <4>1
    <3> QED
      BY <1>2, <1>4, <2>3, <3>1, <3>2
  <2>7. real[i] = real[j] /\ i > q
    BY <1>2, <1>3, <2>1, <2>2, <2>6
  <2> QED
    BY <1>3, <2>7
<1> QED
  BY <1>6, <1>7

(* A thread that has exited is only active again if another one was given  *)
(* its handle.                                                             *)
LEMMA GoneIsInactive ==
  ASSUME ProgramsTyped, IInv, err = "none", NEW t \in Runners,
         Current.st.thr[t] = "running", Gone(prog, real, t)
  PROVE  Reused(prog, real)
<1> SUFFICES ASSUME ~ Reused(prog, real)
             PROVE  FALSE
  OBVIOUS
<1>1. TypeOK /\ MatchInv /\ StepsInv
  BY DEF IInv
<1>2. /\ real \in Seq(Runners) /\ Len(real) = Depth /\ Depth \in Nat
      /\ DOMAIN trace = 1..Depth /\ Current = seq[Depth + 1]
      /\ \A i \in 1..Depth : trace[i] \in Operations
      /\ \A i \in 1..(Depth + 1) : seq[i].st \in States
  BY <1>1, TypeFacts DEF MatchInv, Elements
<1>3. \A i \in 1..Depth :
        /\ real[i] = trace[i].by /\ trace[i] = OpAfter(prog, Past(i - 1), real[i])
        /\ seq[i + 1].st \in ApplyTo(seq[i].st, trace[i])
  BY <1>1, <1>2 DEF MatchInv, StepsInv
<1> DEFINE k == LastRun(real, t)
<1>4. k \in 1..Depth /\ real[k] = t /\ OpAfter(prog, Past(k - 1), t).kind = "exit"
  <2>1. k \in 0..Len(real) /\ (k > 0 => real[k] = t)
    BY <1>2, LastRunProperties
  <2>2. k > 0 /\ OpAfter(prog, Past(k - 1), t).kind = "exit"
    BY DEF Gone, Past
  <2> HIDE DEF k
  <2> QED
    BY <1>2, <2>1, <2>2
<1> HIDE DEF k
<1>5. trace[k].kind = "exit" /\ trace[k].by = t
  BY <1>3, <1>4
<1>6. seq[k].st.thr[t] = "running" /\ seq[k + 1].st.thr[t] = "exited"
  <2>1. seq[k + 1].st \in ApplyTo(seq[k].st, trace[k]) /\ seq[k].st \in States
    BY <1>2, <1>3, <1>4
  <2>2. seq[k].st.thr[t] = "running" /\ seq[k + 1].st \in Modify(seq[k].st, trace[k])
    BY <1>5, <2>1 DEF ApplyTo
  <2>3. Modify(seq[k].st, trace[k]) = ThreadExit(seq[k].st, t)
    BY <1>5, ModifyArms
  <2> QED
    BY <2>1, <2>2, <2>3 DEF ThreadExit, Produces, States
<1>7. \A i \in 1..Depth :
        /\ seq[i].st.thr[t] = "embryo" /\ seq[i + 1].st.thr[t] # "embryo" =>
             trace[i].kind = "create" /\ trace[i].obj = t
        /\ seq[i].st.thr[t] = "exited" /\ seq[i + 1].st.thr[t] # "exited" =>
             trace[i].kind = "create" /\ trace[i].obj = t
  <2> SUFFICES ASSUME NEW i \in 1..Depth
               PROVE  /\ seq[i].st.thr[t] = "embryo" /\ seq[i + 1].st.thr[t] # "embryo" =>
                           trace[i].kind = "create" /\ trace[i].obj = t
                      /\ seq[i].st.thr[t] = "exited" /\ seq[i + 1].st.thr[t] # "exited" =>
                           trace[i].kind = "create" /\ trace[i].obj = t
    OBVIOUS
  <2>1. seq[i].st \in States /\ trace[i] \in Operations
        /\ seq[i + 1].st \in ApplyTo(seq[i].st, trace[i])
    BY <1>2, <1>3
  <2> QED
    BY <2>1, ApplyEffect
<1>8. PICK j \in (k + 1)..Depth : trace[j].kind = "create" /\ trace[j].obj = t
  <2> DEFINE K == {i \in (k + 1)..(Depth + 1) : seq[i].st.thr[t] # "exited"}
  <2>1. K \subseteq Nat /\ Depth + 1 \in K
    BY <1>2, <1>4
  <2>2. PICK m \in K : \A i \in K : m <= i
    BY <2>1, NatMin
  <2>3. m - 1 \in (k + 1)..Depth /\ m - 1 \notin K /\ (m - 1) + 1 = m
    BY <1>2, <1>4, <1>6, <2>1, <2>2
  <2>4. seq[m - 1].st.thr[t] = "exited" /\ seq[m].st.thr[t] # "exited" /\ m - 1 \in 1..Depth
    BY <1>2, <1>4, <2>2, <2>3
  <2> QED
    BY <1>7, <2>3, <2>4
<1>9. j \in 1..Depth
  BY <1>2, <1>4, <1>8
<1>10. t \notin Live /\ \A i \in 1..(j - 1) : ~ (trace[i].kind = "create" /\ trace[i].obj = t)
  BY <1>8, <1>9, CreatedOnce
<1>11. \E i \in 1..(k - 1) : trace[i].kind = "create" /\ trace[i].obj = t
  <2> DEFINE K == {i \in 1..k : seq[i].st.thr[t] # "embryo"}
  <2>1. K \subseteq Nat /\ k \in K
    BY <1>2, <1>4, <1>6
  <2>2. PICK m \in K : \A i \in K : m <= i
    BY <2>1, NatMin
  <2>3. seq[1].st.thr[t] = "embryo"
    BY <1>1, <1>10 DEF StepsInv, InitialState
  <2>4. m - 1 \in 1..(k - 1) /\ m - 1 \notin K /\ (m - 1) + 1 = m
    BY <1>2, <1>4, <2>1, <2>2, <2>3
  <2>5. seq[m - 1].st.thr[t] = "embryo" /\ seq[m].st.thr[t] # "embryo" /\ m - 1 \in 1..Depth
    BY <1>2, <1>4, <2>2, <2>4
  <2> QED
    BY <1>7, <2>4, <2>5
<1> QED
  BY <1>2, <1>4, <1>8, <1>10, <1>11

(* McMini only waits in vain for a thread whose handle was used again.     *)
LEMMA NextHang ==
  ASSUME ProgramsTyped, IInv, err = "hang" => Reused(prog, real), [Next]_vars
  PROVE  (err = "hang" => Reused(prog, real))'
<1>1. TypeOK
  BY DEF IInv
<1>2. CASE Hang
  <2>1. PICK t \in Last(stack).enabled : Gone(prog, real, t)
    BY <1>2 DEF Hang, Followed
  <2>2. Exploring /\ err = "none" /\ stack # <<>> /\ prog' = prog /\ real' = real
    BY <1>2 DEF Hang, Exploring
  <2>3. t \in Known /\ Enabled(Current.st, next[t])
    BY <2>1, <2>2, EnabledIsKnown
  <2>4. t \in Runners /\ next[t].by = t
    BY <1>1, <2>3 DEF Known, TypeOK
  <2>5. Current.st.thr[t] = "running"
    BY <2>3, <2>4 DEF Enabled, ApplyTo
  <2> QED
    BY <2>1, <2>2, <2>4, <2>5, GoneIsInactive
<1>3. ASSUME NEW t, NEW result \in {"none", "terminated"}, ExecuteRunner(t, result)
      PROVE  err' # "hang"
  <2> DEFINE op == Message(prog, Append(real, t))
  <2>1. err' \in {Failure(op), result, "disabled"}
    BY <1>3 DEF ExecuteRunner
  <2> QED
    BY <2>1, FailureValues
<1>4. CASE Explore
  <2>1. AfterStep(Message(prog, Append(real, Min(Last(stack).enabled)))) \in {"none", "terminated"}
    BY DEF AfterStep
  <2> QED
    BY <1>3, <1>4, <2>1 DEF Explore
<1>5. CASE Backtrack
  BY <1>3, <1>5 DEF Backtrack
<1>6. CASE LimitReached \/ \E n \in 1..(Depth - 1) : ReturnToDepth(n)
  <2>1. err' \in {"limit", "none", "out_of_range"}
    BY <1>6 DEF LimitReached, ReturnToDepth
  <2> QED
    BY <2>1
<1>7. CASE Finish \/ UNCHANGED vars
  <2>1. err' = err /\ prog' = prog /\ real' = real
    BY <1>7 DEF Finish, vars
  <2> QED
    BY <2>1
<1> QED
  BY <1>2, <1>4, <1>5, <1>6, <1>7 DEF Next

(* However often return_to_depth cuts the model back and replays the trace,*)
(* the model is a picture of the branch process, until a thread is given   *)
(* the handle of one that was joined.                                      *)
THEOREM ModelIsFaithful ==
  ASSUME ProgramsTyped
  PROVE  Spec => []ModelMatchesProcess
<1>1. ASSUME IInv, err = "hang" => Reused(prog, real)
      PROVE  ModelMatchesProcess
  <2> SUFFICES ASSUME err = "none"
               PROVE  /\ real = [i \in 1..Depth |-> trace[i].by]
                      /\ \A t \in Runners : Current.st.thr[t] = "running" =>
                           /\ next[t] = OpAfter(prog, real, t)
                           /\ Gone(prog, real, t) => Reused(prog, real)
    BY <1>1 DEF ModelMatchesProcess
  <2>1. TypeOK /\ KnownInv /\ MatchInv
    BY <1>1 DEF IInv
  <2>2. /\ real \in Seq(Runners) /\ DOMAIN trace = 1..Depth
        /\ Current = seq[Depth + 1] /\ Depth + 1 \in DOMAIN seq
    BY <2>1, TypeFacts
  <2>3. real = [i \in 1..Depth |-> trace[i].by]
    <3>1. Len(real) = Depth /\ \A i \in 1..Depth : real[i] = trace[i].by
      BY <2>1, <2>2 DEF MatchInv
    <3>2. real = [i \in 1..Depth |-> real[i]]
      BY <2>2, <3>1, LenProperties
    <3> QED
      BY <3>1, <3>2
  <2>4. ASSUME NEW t \in Runners, Current.st.thr[t] = "running"
        PROVE  next[t] = OpAfter(prog, real, t)
    <3>1. t \in Known
      BY <2>1, <2>2, <2>4 DEF KnownInv
    <3> QED
      BY <2>1, <3>1 DEF MatchInv
  <2>5. ASSUME NEW t \in Runners, Current.st.thr[t] = "running", Gone(prog, real, t)
        PROVE  Reused(prog, real)
    BY <1>1, <2>5, GoneIsInactive
  <2> QED
    BY <2>3, <2>4, <2>5
<1>2. Init => (err = "hang" => Reused(prog, real))
  BY DEF Init
<1>3. IInv /\ (err = "hang" => Reused(prog, real)) /\ [Next]_vars
        => (err = "hang" => Reused(prog, real))'
  BY NextHang
<1> QED
  BY <1>1, <1>2, <1>3, Invariance, PTL DEF Spec

-----------------------------------------------------------------------------
(* Abnormal ends.                                                          *)

\* A thread that has announced its abnormal end does nothing else any more.
AbnormalEndsAreFinal ==
  \A p \in Programs : \A h \in Seq(Runners) : \A t \in Runners : EndsForGood(p, h, t)

(* The next message of a thread about to end abnormally says so.           *)
LEMMA AbnormalMessage ==
  ASSUME ProgramsTyped, AbnormalEndsAreFinal, IInv, err = "none", NEW t \in Known,
         next[t].kind \in AbnormalEnds
  PROVE  AfterStep(Message(prog, Append(real, t))) = "terminated"
<1> DEFINE op == Message(prog, Append(real, t))
<1>1. TypeOK /\ MatchInv /\ t \in Runners
  BY DEF IInv, Known
<1>2. prog \in Programs /\ real \in Seq(Runners) /\ next[t] = OpAfter(prog, real, t)
  BY <1>1, TypeFacts DEF MatchInv
<1>3. CodeOf(prog, Append(real, t)).kind \in AbnormalEnds
  BY <1>1, <1>2 DEF AbnormalEndsAreFinal, EndsForGood
<1>4. ~ IsCreate(prog, Append(real, t))
  BY <1>3 DEF IsCreate, AbnormalEnds
<1>5. op = CodeOf(prog, Append(real, t))
  BY <1>4 DEF Message
<1> HIDE DEF op
<1>6. AfterStep(op) = "terminated"
  BY <1>3, <1>5 DEF AfterStep, AbnormalEnds
<1> QED
  BY <1>6 DEF op

(* A step that follows a runner reports an abnormal end it runs into.      *)
LEMMA ExecuteAbnormal ==
  ASSUME ProgramsTyped, AbnormalEndsAreFinal, IInv, AbnormalEndReported, Exploring,
         NEW t \in Last(stack).enabled, NEW result \in {"none", "terminated"},
         next[t].kind \in AbnormalEnds => result = "terminated",
         ExecuteRunner(t, result)
  PROVE  AbnormalEndReported' /\ AbnormalInv'
<1> DEFINE op == Message(prog, Append(real, t))
<1>1. /\ TypeOK /\ KnownInv /\ MatchInv /\ err = "none" /\ stack # <<>>
      /\ t \in Known
  BY EnabledIsKnown DEF IInv, Exploring
<1>2. \A i \in 1..Depth : trace[i].kind \notin AbnormalEnds
  BY <1>1, TypeFacts DEF AbnormalEndReported, AbnormalEnds
<1> HIDE DEF op
<1>3. CASE /\ err' \in {"untranslated"} \cup Failures
           /\ UNCHANGED <<prog, trace, objs, seq, next, stack>>
  <2>1. err' # "none"
    BY <1>3 DEF Failures
  <2> QED
    BY <1>1, <1>2, <1>3, <2>1, TypeFacts DEF AbnormalEndReported, AbnormalInv, AbnormalEnds
<1>4. CASE err' = result /\ \E s : Advanced(t, op, s)
  <2>1. PICK s : Advanced(t, op, s)
    BY <1>4
  <2>2. /\ trace'[Depth + 1] = next[t] /\ \A i \in 1..Depth : trace'[i] = trace[i]
        /\ DOMAIN trace' = 1..(Depth + 1) /\ Depth \in Nat
    BY <1>1, <2>1, AdvancedSequences, TypeFacts
  <2>3. AbnormalEndReported'
    BY <1>2, <1>4, <2>2 DEF AbnormalEndReported, AbnormalEnds
  <2>4. Last(stack').done = {}
    BY <2>1 DEF Advanced, Last
  <2> QED
    BY <2>3, <2>4 DEF AbnormalInv
<1>5. op = Message(prog, Append(real, t))
  BY DEF op
<1> QED
  BY <1>1, <1>3, <1>4, <1>5, ExecuteEffect

(* No step leaves an abnormal end unreported.                              *)
LEMMA NextAbnormal ==
  ASSUME ProgramsTyped, AbnormalEndsAreFinal, IInv, AbnormalEndReported, AbnormalInv,
         [Next]_vars
  PROVE  AbnormalEndReported' /\ AbnormalInv'
<1>1. TypeOK /\ KnownInv /\ MatchInv /\ ThreadsInv /\ StackInv
  BY DEF IInv
<1>2. CASE Explore
  <2> DEFINE t == Min(Last(stack).enabled)
             result == AfterStep(Message(prog, Append(real, t)))
  <2>1. Exploring /\ Last(stack).enabled # {} /\ ExecuteRunner(t, result)
    BY <1>2 DEF Explore, CanExplore
  <2>2. result \in {"none", "terminated"}
    BY DEF AfterStep
  <2>3. Last(stack).enabled \subseteq Nat
    <3>1. /\ stack \in Seq(Items) /\ Len(stack) \in 1..Len(stack)
      BY <1>1, <2>1, TypeFacts DEF Exploring
    <3>2. Last(stack) \in Items
      BY <3>1, ElementOfSeq DEF Last
    <3> QED
      BY <3>2 DEF Items, Runners
  <2>4. t \in Last(stack).enabled
    BY <2>1, <2>3, MinOfIndices
  <2>5. next[t].kind \in AbnormalEnds => result = "terminated"
    BY <2>1, <2>4, AbnormalMessage, EnabledIsKnown DEF Exploring
  <2> HIDE DEF t, result
  <2> QED
    BY <2>1, <2>2, <2>4, <2>5, ExecuteAbnormal
<1>3. CASE LimitReached \/ Hang
  <2>1. trace' = trace /\ err' \in {"limit", "hang"} /\ err = "none"
    BY <1>3 DEF LimitReached, Hang, CanExplore, Exploring
  <2> QED
    BY <2>1 DEF AbnormalEndReported, AbnormalInv
<1>4. ASSUME NEW n \in 1..(Depth - 1), ReturnToDepth(n)
      PROVE  AbnormalEndReported' /\ AbnormalInv'
  <2>1. /\ n \in 0..Depth /\ err = "none" /\ Depth' = n /\ DOMAIN trace' = 1..n
        /\ \A i \in 1..n : trace'[i] = trace[i]
        /\ seq' \in Seq(Elements(objs)) /\ Len(seq') = n + 1
        /\ \A i \in 1..(n + 1) : seq'[i] = seq[i]
        /\ next' = PendingAt(n)
    BY <1>1, <1>4, ReturnEffect
  <2>2. /\ Depth \in Nat /\ DOMAIN trace = 1..Depth /\ DOMAIN seq = 1..(Depth + 1)
        /\ Current = seq[Depth + 1] /\ Current \in Elements(objs) /\ n + 1 \in 1..(n + 1)
    BY <1>1, <2>1, TypeFacts
  <2>3. \A i \in 1..Depth : trace[i].kind \notin AbnormalEnds
    BY <2>1, <2>2 DEF AbnormalEndReported, AbnormalEnds
  <2>4. AbnormalEndReported'
    BY <2>1, <2>2, <2>3 DEF AbnormalEndReported, AbnormalEnds
  <2>5. Current' = seq[n + 1]
    BY <2>1, <2>2 DEF Current, Last
  <2>6. ASSUME NEW t \in Runners, seq[n + 1].st.thr[t] = "running",
               PendingAt(n)[t].kind \in AbnormalEnds
        PROVE  FALSE
    <3>1. CASE \E k \in (n + 1)..Depth : trace[k].by = t /\ PendingAt(n)[t] = trace[k]
      <4>1. PICK k \in (n + 1)..Depth : trace[k].by = t /\ PendingAt(n)[t] = trace[k]
        BY <3>1
      <4>2. k \in 1..Depth
        BY <2>1, <2>2, <4>1
      <4> QED
        BY <2>3, <2>6, <4>1, <4>2
    <3>2. CASE /\ \A k \in (n + 1)..Depth : trace[k].by # t
               /\ PendingAt(n)[t] = next[t]
      <4>1. n + 1 \in DOMAIN seq /\ Depth + 1 \in DOMAIN seq /\ n + 1 <= Depth + 1
            /\ (Depth + 1) - 1 = Depth
        BY <2>1, <2>2
      <4>2. Current.st.thr[t] = "running"
        BY <1>1, <2>2, <2>6, <3>2, <4>1 DEF ThreadsInv
      <4>3. t \in Known
        BY <1>1, <2>2, <4>1, <4>2 DEF KnownInv
      <4>4. next[t].by = t /\ Current.st \in States /\ next[t] = OpAfter(prog, real, t)
        BY <1>1, <2>1, <2>2, <4>3 DEF TypeOK, Elements, MatchInv
      <4>5. Enabled(Current.st, next[t])
        BY <2>6, <3>2, <4>2, <4>4, AlwaysEnabled DEF AbnormalEnds
      <4>6. Past((Depth + 1) - 1) = real
        <5>1. (Depth + 1) - 1 = Len(real) /\ real \in Seq(Runners)
          BY <1>1, <2>1, <4>1, TypeFacts DEF MatchInv
        <5> QED
          BY <5>1, SubSeqFull DEF Past
      <4>7. stack # <<>> /\ Last(stack).enabled = {}
        BY <1>4 DEF ReturnToDepth, Exploring
      <4>8. Len(stack) = Depth + 1 /\ Depth + 1 \in DOMAIN stack
        BY <1>1, <4>7, TypeFacts
      <4>9. stack[Depth + 1].enabled =
              {u \in Runners : Enabled(seq[Depth + 1].st, OpAfter(prog, Past((Depth + 1) - 1), u))}
        BY <1>1, <2>1, <4>8 DEF StackInv
      <4>10. t \in stack[Depth + 1].enabled
        BY <2>2, <4>4, <4>5, <4>6, <4>9
      <4> QED
        BY <4>7, <4>8, <4>10 DEF Last
    <3> QED
      BY <1>1, <2>1, <3>1, <3>2, PendingAtProperties
  <2>7. AbnormalInv'
    BY <2>1, <2>5, <2>6 DEF AbnormalInv
  <2> QED
    BY <2>4, <2>7
<1>5. CASE Backtrack
  <2>1. PICK t \in Last(stack).enabled : ExecuteRunner(t, "none")
    BY <1>5 DEF Backtrack
  <2>2. Exploring /\ err = "none" /\ stack # <<>> /\ Last(stack).done # {}
    BY <1>5 DEF Backtrack, Exploring
  <2>3. t \in Known /\ Enabled(Current.st, next[t])
    BY <2>1, <2>2, EnabledIsKnown
  <2>4. t \in Runners /\ next[t].by = t
    BY <1>1, <2>3 DEF Known, TypeOK
  <2>5. Current.st.thr[t] = "running"
    BY <2>3, <2>4 DEF Enabled, ApplyTo
  <2>6. next[t].kind \notin AbnormalEnds
    BY <2>2, <2>4, <2>5 DEF AbnormalInv
  <2> QED
    BY <2>1, <2>2, <2>6, ExecuteAbnormal
<1>6. CASE Finish
  <2>1. trace' = trace /\ err' = err /\ stack' = <<>>
    BY <1>6 DEF Finish
  <2> QED
    BY <2>1 DEF AbnormalEndReported, AbnormalInv
<1>7. CASE UNCHANGED vars
  <2>1. UNCHANGED <<trace, seq, next, stack, err>>
    BY <1>7 DEF vars
  <2> QED
    BY <2>1 DEF AbnormalEndReported, AbnormalInv, Current
<1> QED
  BY <1>2, <1>3, <1>4, <1>5, <1>6, <1>7 DEF Next

(* An abort or an exit with a failure code is reported before the model    *)
(* gets past it, although the first step after backtracking does not look  *)
(* at what is announced.                                                   *)
THEOREM AbnormalEndsAreReported ==
  ASSUME ProgramsTyped, AbnormalEndsAreFinal
  PROVE  Spec => []AbnormalEndReported
<1>1. Init => AbnormalEndReported /\ AbnormalInv
  <2> SUFFICES ASSUME Init
               PROVE  AbnormalEndReported /\ AbnormalInv
    OBVIOUS
  <2>1. trace = <<>> /\ stack = <<StackItem(InitialState, next)>>
    BY DEF Init
  <2>2. Last(stack).done = {}
    BY <2>1 DEF Last, StackItem
  <2>3. DOMAIN trace = {}
    BY <2>1
  <2> QED
    BY <2>2, <2>3 DEF AbnormalEndReported, AbnormalInv
<1>2. IInv /\ AbnormalEndReported /\ AbnormalInv /\ [Next]_vars
        => AbnormalEndReported' /\ AbnormalInv'
  BY NextAbnormal
<1> QED
  BY <1>1, <1>2, Invariance, PTL DEF Spec

-----------------------------------------------------------------------------
(* Deadlocks.                                                              *)

\* The main thread creates all threads, the same ones on every schedule, before it
\* returns, and does not leave with pthread_exit.
MainCreatesThreads ==
  \A p \in Programs : \A h \in Seq(Runners) :
    MainCreates(p, h) /\ \A g \in Seq(Runners) : CreatesBeforeReturn(p, h, g)

\* No thread is given the handle of an earlier one.
HandlesAreFresh ==
  \A p \in Programs : \A h \in Seq(Runners) : h # <<>> => FreshHandle(p, h)

\* A handle that the model knows is the handle of a thread on some schedule.
HandleInv == \A t \in Known : \E g \in Seq(Runners) : t < Born(prog, g)

(* Every handle up to the number of threads was given out by a create.     *)
LEMMA BornStep ==
  ASSUME NEW p \in Programs, NEW h \in Seq(Runners), NEW t \in Nat,
         ~ (t < LiveIn(p)), t < Born(p, h)
  PROVE  \E j \in 1..Len(h) :
           IsCreate(p, SubSeq(h, 1, j)) /\ Born(p, SubSeq(h, 1, j)) - 1 = t
<1> DEFINE J == {j \in 0..Len(h) : t < Born(p, SubSeq(h, 1, j))}
<1>1. Len(h) \in Nat /\ SubSeq(h, 1, Len(h)) = h
  BY LenProperties, SubSeqFull
<1>2. J \subseteq Nat /\ Len(h) \in J
  <2>1. Len(h) \in 0..Len(h)
    BY <1>1
  <2>2. J \subseteq Nat
    BY <1>1
  <2>3. t < Born(p, SubSeq(h, 1, Len(h)))
    BY <1>1, Zenon
  <2> QED
    BY <2>1, <2>2, <2>3, Zenon
<1>3. PICK j \in J : \A i \in J : j <= i
  BY <1>2, NatMin
<1>4. j # 0
  <2>1. SubSeq(h, 1, 0) = <<>>
    BY SubSeqEmpty
  <2>2. Born(p, SubSeq(h, 1, 0)) = LiveIn(p)
    BY <2>1, BornProperties
  <2> QED
    BY <1>3, <2>2
<1>5. j \in 1..Len(h) /\ j - 1 \in 0..Len(h) /\ ~ (j <= j - 1)
  BY <1>1, <1>3, <1>4
<1> DEFINE g == SubSeq(h, 1, j - 1)
           f == SubSeq(h, 1, j)
<1>6. t < Born(p, f) /\ ~ (t < Born(p, g))
  BY <1>3, <1>5
<1>7. g \in Seq(Runners) /\ h[j] \in Runners /\ f = Append(g, h[j])
  <2>1. g \in Seq(Runners) /\ h[j] \in Runners
    BY <1>5, PrefixProperties, ElementOfSeq
  <2>2. j \in 1..j /\ 1 \in 1..Len(h) /\ j \in 1..Len(h)
    BY <1>1, <1>5
  <2>3. f = g \o <<h[j]>>
    BY <2>2, SubSeqRecursiveSecond
  <2> HIDE DEF g, f
  <2> QED
    BY <2>1, <2>3, AppendIsConcat
<1> HIDE DEF g, f
<1>8. /\ Born(p, f) = IF IsCreate(p, f) THEN Born(p, g) + 1 ELSE Born(p, g)
      /\ Born(p, g) \in Nat
  BY <1>7, BornProperties
<1>9. IsCreate(p, f) /\ Born(p, f) - 1 = t
  BY <1>6, <1>8
<1> QED
  BY <1>5, <1>9 DEF f

(* A step keeps the account of the threads that were created.              *)
LEMMA AdvancedCreate ==
  ASSUME ProgramsTyped, HandlesAreFresh, IInv, CreateInv, err = "none", NEW t \in Known, stack # <<>>,
         NEW op, op = Message(prog, Append(real, t)), NEW s, Advanced(t, op, s), ThreadsInv'
  PROVE  CreateInv'
<1>1. TypeOK /\ KnownInv /\ MatchInv /\ ThreadsInv
  BY DEF IInv
<1>2. /\ Len(real) = Depth /\ real' \in Seq(Runners) /\ Len(real') = Depth + 1
      /\ real'[Depth + 1] = t /\ \A i \in 1..Depth : real'[i] = real[i]
      /\ \A n \in 0..Depth : SubSeq(real', 1, n) = SubSeq(real, 1, n)
      /\ SubSeq(real, 1, Depth) = real
      /\ Depth' = Depth + 1
      /\ trace'[Depth + 1] = next[t] /\ \A i \in 1..Depth : trace'[i] = trace[i]
      /\ DOMAIN trace' = 1..(Depth + 1)
      /\ DOMAIN seq' = 1..(Depth + 2) /\ seq'[Depth + 2].st = s
      /\ \A i \in 1..(Depth + 1) : seq'[i].st = seq[i].st
  BY <1>1, AdvancedSequences
<1>3. /\ prog' = prog /\ prog \in Programs /\ Depth \in Nat /\ real \in Seq(Runners)
      /\ DOMAIN trace = 1..Depth /\ DOMAIN seq = 1..(Depth + 1) /\ Current = seq[Depth + 1]
      /\ Current.st \in States /\ Live' = Live
  BY <1>1, TypeFacts DEF Advanced, Elements, Live
<1>4. t \in Runners /\ next[t] \in Operations /\ next[t].by = t
      /\ next[t] = OpAfter(prog, real, t)
  BY <1>1 DEF Known, TypeOK, MatchInv
<1>5. /\ s \in States
      /\ \A u \in Runners :
           /\ Current.st.thr[u] # "embryo" => s.thr[u] # "embryo"
           /\ Current.st.thr[u] = "embryo" /\ s.thr[u] # "embryo" =>
                next[t].kind = "create" /\ next[t].obj = u
           /\ Current.st.thr[u] # "exited" /\ s.thr[u] = "exited" =>
                /\ u = t
                /\ \/ next[t].kind \in {"process_exit", "exit_failure"}
                   \/ next[t].kind = "exit" /\ u # Main
      /\ next[t].kind = "create" => s.thr[next[t].obj] = "running"
  BY <1>3, <1>4, ApplyEffect DEF Advanced
<1>6. /\ \A i \in 1..(Depth + 1) : \A u \in Runners :
           /\ u \in Live => seq[i].st.thr[u] # "embryo"
           /\ seq[i].st.thr[u] # "embryo" => u < Born(prog, SubSeq(real, 1, i - 1))
      /\ \A k \in 1..Depth : \A j \in 1..(k - 1) :
           IsCreate(prog, SubSeq(real, 1, j)) /\ real[j] = real[k] =>
             seq[k + 1].st.thr[Born(prog, SubSeq(real, 1, j)) - 1] # "embryo"
      /\ \A i \in 1..(Depth + 1) : seq[i].st.thr[Main] = "exited" =>
           \E k \in 1..(i - 1) :
             trace[k].by = Main /\ trace[k].kind \in {"process_exit", "exit_failure"}
  BY <1>3 DEF CreateInv, Past
<1>7. Born(prog, real) \in Nat /\ Born(prog, real') \in Nat /\ Born(prog, real) <= Born(prog, real')
  <2>1. Depth \in 0..Len(real') /\ SubSeq(real', 1, Depth) = real
    BY <1>2, <1>3
  <2> QED
    BY <1>2, <1>3, <2>1, BornProperties
<1>8. ASSUME NEW i \in 1..(Depth + 2), NEW u \in Runners
      PROVE  /\ u \in Live => seq'[i].st.thr[u] # "embryo"
             /\ seq'[i].st.thr[u] # "embryo" => u < Born(prog, SubSeq(real', 1, i - 1))
  <2>1. CASE i \in 1..(Depth + 1)
    <3>1. i - 1 \in 0..Depth
      BY <1>3, <2>1
    <3>2. SubSeq(real', 1, i - 1) = SubSeq(real, 1, i - 1) /\ seq'[i].st = seq[i].st
      BY <1>2, <2>1, <3>1
    <3> QED
      BY <1>6, <2>1, <3>2
  <2>2. CASE i = Depth + 2
    <3>1. i - 1 = Len(real') /\ SubSeq(real', 1, Len(real')) = real'
      BY <1>2, <1>3, <2>2, SubSeqFull
    <3>2. seq'[i].st = s
      BY <1>2, <2>2
    <3>3. Depth + 1 \in 1..(Depth + 1) /\ (Depth + 1) - 1 = Depth
      BY <1>3
    <3>4. /\ u \in Live => Current.st.thr[u] # "embryo"
          /\ Current.st.thr[u] # "embryo" => u < Born(prog, real)
      BY <1>2, <1>3, <1>6, <3>3, ZenonT(20)
    <3>5. next[t].kind = "create" => next[t].obj < Born(prog, real)
      <4> SUFFICES ASSUME next[t].kind = "create"
                   PROVE  next[t].obj < Born(prog, real)
        OBVIOUS
      <4>1. PICK k \in 1..Len(real) : next[t].obj = Born(prog, SubSeq(real, 1, k)) - 1
        <5>1. PICK k \in 1..Len(real) :
                /\ IsCreate(prog, SubSeq(real, 1, k))
                /\ next[t].obj = HandleOf(prog, SubSeq(real, 1, k))
          BY <1>3, <1>4, OpAfterCreate
        <5>2. SubSeq(real, 1, k) \in Seq(Runners) /\ SubSeq(real, 1, k) # <<>>
          BY <1>2, <1>3, <5>1, NonemptyPrefix
        <5> QED
          BY <1>3, <5>1, <5>2 DEF HandlesAreFresh, FreshHandle
      <4>2. k \in 0..Len(real)
        BY <1>2, <1>3, <4>1
      <4>3. SubSeq(real, 1, k) \in Seq(Runners)
        BY <1>3, <4>2, PrefixProperties
      <4>4. Born(prog, SubSeq(real, 1, k)) \in Nat
        BY <1>3, <4>3, BornProperties
      <4>5. Born(prog, SubSeq(real, 1, k)) <= Born(prog, real)
        BY <1>3, <4>2, BornProperties
      <4> HIDE DEF Past
      <4> QED
        BY <1>7, <4>1, <4>4, <4>5
    <3>6. s.thr[u] # "embryo" => u < Born(prog, real)
      BY <1>5, <3>4, <3>5
    <3>7. u < Born(prog, real) => u < Born(prog, real')
      <4>1. u \in Nat
        BY TransitionsAssumption DEF Runners
      <4> QED
        BY <1>7, <4>1
    <3> QED
      BY <1>5, <3>1, <3>2, <3>4, <3>6, <3>7
  <2> QED
    BY <1>3, <2>1, <2>2
<1>9. ASSUME NEW k \in 1..(Depth + 1), NEW j \in 1..(k - 1),
             IsCreate(prog, SubSeq(real', 1, j)), real'[j] = real'[k]
      PROVE  seq'[k + 1].st.thr[Born(prog, SubSeq(real', 1, j)) - 1] # "embryo"
  <2>1. j \in 1..Depth /\ j \in 0..Depth /\ k + 1 \in 1..(Depth + 2)
    BY <1>3
  <2>2. SubSeq(real', 1, j) = SubSeq(real, 1, j) /\ real'[j] = real[j]
    BY <1>2, <2>1
  <2> DEFINE g == SubSeq(real, 1, j)
             u == Born(prog, g) - 1
  <2>3. CASE k \in 1..Depth
    <3>1. real'[k] = real[k] /\ seq'[k + 1].st = seq[k + 1].st
      BY <1>2, <1>3, <2>3
    <3> QED
      BY <1>6, <1>9, <2>2, <2>3, <3>1
  <2>4. CASE k = Depth + 1
    <3>1. real[j] = t /\ seq'[k + 1].st = s
      <4>1. k + 1 = Depth + 2
        BY <1>3, <2>4
      <4> QED
        BY <1>2, <1>9, <2>2, <2>4, <4>1
    <3>2. u \in Runners
      <4>1. g \in Seq(Runners) /\ Len(g) = j /\ Len(<<>>) = 0
        BY <1>2, <1>3, <2>1, PrefixProperties, EmptySeq
      <4> HIDE DEF g
      <4>2. g # <<>>
        BY <2>1, <4>1
      <4>3. WellTyped(prog, g) /\ IsCreate(prog, g)
        BY <1>3, <1>9, <2>2, <4>1, <4>2 DEF ProgramsTyped, g
      <4>4. Born(prog, g) <= MaxRunners
        BY <4>3 DEF WellTyped, IsCreate
      <4>5. Born(prog, g) \in Nat /\ LiveIn(prog) <= Born(prog, g) /\ LiveIn(prog) \in Nat \ {0}
        BY <1>3, <4>1, BornProperties, CoordinatorAssumption, TransitionsAssumption
      <4> QED
        BY <4>4, <4>5, TransitionsAssumption DEF Runners
    <3>3. CASE \E i \in (j + 1)..Depth : real[i] = t
      <4>1. PICK i \in (j + 1)..Depth : real[i] = t
        BY <3>3
      <4>2. i \in 1..Depth /\ j \in 1..(i - 1) /\ i + 1 \in 1..(Depth + 1)
        BY <1>3, <2>1, <4>1
      <4>3. seq[i + 1].st.thr[u] # "embryo"
        BY <1>6, <1>9, <2>2, <3>1, <4>1, <4>2
      <4>4. Depth + 1 \in DOMAIN seq /\ i + 1 \in DOMAIN seq /\ i + 1 <= Depth + 1
        BY <1>3, <4>2
      <4>5. Current.st.thr[u] # "embryo"
        BY <1>1, <1>3, <3>2, <4>3, <4>4 DEF ThreadsInv
      <4> HIDE DEF u
      <4>6. s.thr[u] # "embryo"
        BY <1>5, <3>2, <4>5
      <4> QED
        BY <2>2, <3>1, <4>6 DEF u
    <3>4. CASE \A i \in (j + 1)..Depth : real[i] # t
      <4>1. /\ j \in 0..Len(real) /\ (j > 0 => real[j] = t)
            /\ \A i \in 1..Len(real) : i > j => real[i] # t
        BY <1>2, <1>3, <2>1, <3>1, <3>4
      <4>2. LastRun(real, t) = j
        BY <1>3, <4>1, LastRunUnique
      <4>3. j > 0
        BY <2>1
      <4>4. next[t] = Message(prog, g)
        BY <1>4, <4>2, <4>3, Zenon DEF OpAfter
      <4>5. IsCreate(prog, g)
        BY <1>9, <2>2
      <4> HIDE DEF g
      <4>9. FreshHandle(prog, g)
        <5>1. SubSeq(real, 1, j) \in Seq(Runners) /\ SubSeq(real, 1, j) # <<>>
          BY <1>2, <1>3, <2>1, NonemptyPrefix
        <5> QED
          BY <1>3, <5>1 DEF HandlesAreFresh, g
      <4>6. next[t] = Transition(CodeOf(prog, g).by, "create", u)
        BY <4>4, <4>5, <4>9 DEF Message, FreshHandle
      <4> HIDE DEF u
      <4>7. next[t].kind = "create" /\ next[t].obj = u
        BY <4>6 DEF Transition
      <4>8. s.thr[u] # "embryo"
        BY <1>5, <4>7
      <4> QED
        BY <2>2, <3>1, <4>8 DEF u, g
    <3> QED
      BY <3>3, <3>4
  <2> QED
    BY <1>3, <2>3, <2>4
<1>10. ASSUME NEW i \in 1..(Depth + 2), seq'[i].st.thr[Main] = "exited"
       PROVE  \E k \in 1..(i - 1) :
                trace'[k].by = Main /\ trace'[k].kind \in {"process_exit", "exit_failure"}
  <2>1. Main \in Runners
    BY TransitionsAssumption DEF Runners, Main
  <2>2. CASE i \in 1..(Depth + 1)
    <3>1. PICK k \in 1..(i - 1) :
            trace[k].by = Main /\ trace[k].kind \in {"process_exit", "exit_failure"}
      BY <1>2, <1>6, <1>10, <2>2
    <3>2. k \in 1..Depth
      BY <1>3, <2>2, <3>1
    <3> QED
      BY <1>2, <3>1, <3>2
  <2>3. CASE i = Depth + 2
    <3>1. s.thr[Main] = "exited" /\ Depth + 1 \in 1..(Depth + 1) /\ Depth + 1 \in 1..(i - 1)
      BY <1>2, <1>3, <1>10, <2>3
    <3>2. CASE Current.st.thr[Main] = "exited"
      <4>1. PICK k \in 1..((Depth + 1) - 1) :
              trace[k].by = Main /\ trace[k].kind \in {"process_exit", "exit_failure"}
        BY <1>3, <1>6, <3>1, <3>2
      <4>2. k \in 1..Depth /\ k \in 1..(i - 1)
        BY <1>3, <2>3, <4>1
      <4> QED
        BY <1>2, <4>1, <4>2
    <3>3. CASE Current.st.thr[Main] # "exited"
      <4>1. next[t].by = Main /\ next[t].kind \in {"process_exit", "exit_failure"}
        BY <1>4, <1>5, <2>1, <3>1, <3>3
      <4> QED
        BY <1>2, <3>1, <4>1
    <3> QED
      BY <3>2, <3>3
  <2> QED
    BY <1>3, <2>2, <2>3
<1> QED
  BY <1>2, <1>3, <1>8, <1>9, <1>10 DEF CreateInv, Past

(* Cutting back keeps it.                                                  *)
LEMMA ReturnCreate ==
  ASSUME IInv, CreateInv, NEW n \in 1..(Depth - 1), ReturnToDepth(n)
  PROVE  CreateInv'
<1>1. TypeOK /\ KnownInv /\ MatchInv
  BY DEF IInv
<1>2. /\ n \in 0..Depth /\ err = "none" /\ prog' = prog
      /\ \A i \in 1..n : real'[i] = real[i]
      /\ \A i \in 0..n : SubSeq(real', 1, i) = SubSeq(real, 1, i)
      /\ DOMAIN trace' = 1..n /\ \A i \in 1..n : trace'[i] = trace[i]
      /\ DOMAIN seq' = 1..(n + 1)
      /\ \A i \in 1..(n + 1) : seq'[i] = seq[i]
  BY <1>1, ReturnEffect
<1>3. Depth \in Nat /\ DOMAIN seq = 1..(Depth + 1) /\ DOMAIN trace = 1..Depth /\ Live' = Live
  BY <1>1, <1>2, TypeFacts DEF Live
<1>4. /\ \A i \in 1..(Depth + 1) : \A u \in Runners :
           /\ u \in Live => seq[i].st.thr[u] # "embryo"
           /\ seq[i].st.thr[u] # "embryo" => u < Born(prog, SubSeq(real, 1, i - 1))
      /\ \A k \in 1..Depth : \A j \in 1..(k - 1) :
           IsCreate(prog, SubSeq(real, 1, j)) /\ real[j] = real[k] =>
             seq[k + 1].st.thr[Born(prog, SubSeq(real, 1, j)) - 1] # "embryo"
      /\ \A i \in 1..(Depth + 1) : seq[i].st.thr[Main] = "exited" =>
           \E k \in 1..(i - 1) :
             trace[k].by = Main /\ trace[k].kind \in {"process_exit", "exit_failure"}
  BY <1>2, <1>3 DEF CreateInv, Past
<1>5. ASSUME NEW i \in 1..(n + 1), NEW u \in Runners
      PROVE  /\ u \in Live => seq'[i].st.thr[u] # "embryo"
             /\ seq'[i].st.thr[u] # "embryo" => u < Born(prog, SubSeq(real', 1, i - 1))
  <2>1. i - 1 \in 0..n /\ i \in 1..(Depth + 1)
    BY <1>2, <1>3
  <2>2. SubSeq(real', 1, i - 1) = SubSeq(real, 1, i - 1) /\ seq'[i] = seq[i]
    BY <1>2, <2>1
  <2> QED
    BY <1>4, <2>1, <2>2
<1>6. ASSUME NEW k \in 1..n, NEW j \in 1..(k - 1),
             IsCreate(prog, SubSeq(real', 1, j)), real'[j] = real'[k]
      PROVE  seq'[k + 1].st.thr[Born(prog, SubSeq(real', 1, j)) - 1] # "embryo"
  <2>1. j \in 0..n /\ j \in 1..n /\ k + 1 \in 1..(n + 1) /\ k \in 1..Depth
    BY <1>2, <1>3
  <2>2. /\ SubSeq(real', 1, j) = SubSeq(real, 1, j) /\ real'[j] = real[j] /\ real'[k] = real[k]
        /\ seq'[k + 1] = seq[k + 1]
    BY <1>2, <2>1
  <2> QED
    BY <1>4, <1>6, <2>1, <2>2
<1>7. ASSUME NEW i \in 1..(n + 1), seq'[i].st.thr[Main] = "exited"
      PROVE  \E k \in 1..(i - 1) :
               trace'[k].by = Main /\ trace'[k].kind \in {"process_exit", "exit_failure"}
  <2>1. seq'[i] = seq[i] /\ i \in 1..(Depth + 1)
    BY <1>2, <1>3
  <2>2. PICK k \in 1..(i - 1) :
          trace[k].by = Main /\ trace[k].kind \in {"process_exit", "exit_failure"}
    BY <1>4, <1>7, <2>1
  <2>3. k \in 1..n
    BY <1>2, <1>3, <2>2
  <2> QED
    BY <1>2, <2>2, <2>3
<1> QED
  BY <1>2, <1>3, <1>5, <1>6, <1>7 DEF CreateInv, Past

(* A step that follows a runner keeps the account and the handles.         *)
LEMMA ExecuteCreate ==
  ASSUME ProgramsTyped, HandlesAreFresh, IInv, CreateInv, HandleInv, Exploring,
         NEW t \in Last(stack).enabled, NEW result \in {"none", "terminated"}, ExecuteRunner(t, result)
  PROVE  CreateInv' /\ HandleInv'
<1> DEFINE op == Message(prog, Append(real, t))
<1>1. /\ TypeOK /\ KnownInv /\ MatchInv /\ ThreadsInv /\ err = "none" /\ stack # <<>>
      /\ t \in Known
  BY EnabledIsKnown DEF IInv, Exploring
<1> HIDE DEF op
<1>2. CASE /\ err' \in {"untranslated"} \cup Failures
           /\ UNCHANGED <<prog, trace, objs, seq, next, stack>>
  <2>1. err' # "none"
    BY <1>2 DEF Failures
  <2> QED
    BY <1>2, <2>1 DEF CreateInv, HandleInv, Known
<1>3. CASE err' = result /\ \E s : Advanced(t, op, s)
  <2>1. PICK s : Advanced(t, op, s)
    BY <1>3
  <2>2. op = Message(prog, Append(real, t))
    BY DEF op
  <2>3. ThreadsInv'
    BY <1>1, <2>1, AdvancedThreads
  <2>4. CreateInv'
    BY <1>1, <2>1, <2>2, <2>3, AdvancedCreate
  <2>5. /\ \A u \in Runners : u \in Known' <=> u \in Known \/ (op.kind = "create" /\ u = op.obj)
        /\ t \in Runners
    BY <1>1, <2>1, <2>2, AdvancedKnown
  <2>6. /\ prog' = prog /\ prog \in Programs /\ real \in Seq(Runners)
        /\ Append(real, t) \in Seq(Runners)
    BY <1>1, <2>1, <2>5, TypeFacts, AppendProperties DEF Advanced
  <2>7. ASSUME NEW u \in Known'
        PROVE  \E g \in Seq(Runners) : u < Born(prog', g)
    <3>1. u \in Runners
      BY DEF Known
    <3>2. CASE u \in Known
      BY <2>6, <3>2 DEF HandleInv
    <3>3. CASE op.kind = "create" /\ u = op.obj
      <4>1. u = Born(prog, Append(real, t)) - 1 /\ Born(prog, Append(real, t)) \in Nat
        <5>1. op.obj = HandleOf(prog, Append(real, t)) /\ IsCreate(prog, Append(real, t))
          BY <2>2, <2>5, <2>6, <3>3, MessageTyped
        <5>2. Append(real, t) # <<>>
          BY <2>5, <2>6, AppendProperties, EmptySeq, LenProperties
        <5> QED
          BY <2>6, <3>3, <5>1, <5>2, BornProperties DEF HandlesAreFresh, FreshHandle
      <4>2. u < Born(prog, Append(real, t))
        BY <4>1
      <4> QED
        BY <2>6, <4>2
    <3> QED
      BY <2>5, <3>1, <3>2, <3>3
  <2>8. HandleInv'
    BY <2>7 DEF HandleInv
  <2> QED
    BY <2>4, <2>8
<1>4. op = Message(prog, Append(real, t))
  BY DEF op
<1> QED
  BY <1>1, <1>2, <1>3, <1>4, ExecuteEffect

(* Every step does.                                                        *)
LEMMA NextCreate ==
  ASSUME ProgramsTyped, HandlesAreFresh, IInv, CreateInv, HandleInv, [Next]_vars
  PROVE  CreateInv' /\ HandleInv'
<1>1. TypeOK /\ KnownInv /\ MatchInv
  BY DEF IInv
<1>2. CASE Explore
  <2> DEFINE t == Min(Last(stack).enabled)
             result == AfterStep(Message(prog, Append(real, t)))
  <2>1. Exploring /\ Last(stack).enabled # {} /\ ExecuteRunner(t, result)
    BY <1>2 DEF Explore, CanExplore
  <2>2. result \in {"none", "terminated"}
    BY DEF AfterStep
  <2>3. Last(stack).enabled \subseteq Nat
    <3>1. /\ stack \in Seq(Items) /\ Len(stack) \in 1..Len(stack)
      BY <1>1, <2>1, TypeFacts DEF Exploring
    <3>2. Last(stack) \in Items
      BY <3>1, ElementOfSeq DEF Last
    <3> QED
      BY <3>2 DEF Items, Runners
  <2>4. t \in Last(stack).enabled
    BY <2>1, <2>3, MinOfIndices
  <2> HIDE DEF t, result
  <2> QED
    BY <2>1, <2>2, <2>4, ExecuteCreate
<1>3. CASE LimitReached \/ Hang
  <2>1. err' \in {"limit", "hang"} /\ prog' = prog /\ next' = next
    BY <1>3 DEF LimitReached, Hang
  <2> QED
    BY <2>1 DEF CreateInv, HandleInv, Known
<1>4. ASSUME NEW n \in 1..(Depth - 1), ReturnToDepth(n)
      PROVE  CreateInv' /\ HandleInv'
  <2>1. Known' = Known /\ prog' = prog
    BY <1>1, <1>4, ReturnEffect
  <2> QED
    BY <1>4, <2>1, ReturnCreate DEF HandleInv
<1>5. CASE Backtrack
  <2>1. PICK t \in Last(stack).enabled : ExecuteRunner(t, "none")
    BY <1>5 DEF Backtrack
  <2>2. Exploring
    BY <1>5 DEF Backtrack
  <2> QED
    BY <2>1, <2>2, ExecuteCreate
<1>6. CASE UNCHANGED <<prog, real, trace, seq, next, err>>
  BY <1>6 DEF CreateInv, HandleInv, Known, Past, Live
<1> QED
  BY <1>2, <1>3, <1>4, <1>5, <1>6 DEF Next, Finish, vars

(* At the start, the runners alive are the ones the process has.           *)
LEMMA InitCreate ==
  ASSUME ProgramsTyped, Init
  PROVE  CreateInv /\ HandleInv
<1>1. IInv
  BY InitInvariant
<1>2. /\ prog \in Programs /\ real = <<>> /\ trace = <<>>
      /\ seq = <<[st |-> InitialState, seen |-> DOMAIN objs]>>
      /\ next = [t \in Runners |-> IF t \in Live THEN FirstOp(prog, t) ELSE NoOp]
  BY DEF Init
<1>3. LiveIn(prog) \in 1..MaxRunners /\ MaxRunners \in Nat \ {0}
  BY <1>2, CoordinatorAssumption, TransitionsAssumption
<1>4. \A t \in Runners : t \in Live <=> t < LiveIn(prog)
  BY <1>3 DEF Live, Runners
<1>5. Past(0) = <<>> /\ <<>> \in Seq(Runners)
  BY <1>2, SubSeqEmpty, EmptySeq DEF Past
<1>6. Born(prog, <<>>) = LiveIn(prog)
  BY <1>2, <1>5, BornProperties
<1> DEFINE e == [st |-> InitialState, seen |-> DOMAIN objs]
<1>7. e.st = InitialState
  OBVIOUS
<1> HIDE DEF e
<1>8. seq = <<e>>
  BY <1>2 DEF e
<1>9. DOMAIN seq = {1} /\ seq[1] = e
  BY <1>8
<1>10. \A t \in Runners : seq[1].st.thr[t] = IF t \in Live THEN "running" ELSE "embryo"
  BY <1>7, <1>9 DEF InitialState
<1>11. DOMAIN trace = {}
  BY <1>2
<1>12. Main \in Runners
  BY <1>3 DEF Runners, Main
<1>13. CreateInv
  <2>1. 1 - 1 = 0
    OBVIOUS
  <2>2. \A t \in Runners : seq[1].st.thr[t] # "embryo" => t < Born(prog, Past(1 - 1))
    BY <1>4, <1>5, <1>6, <1>10, <2>1
  <2>3. seq[1].st.thr[Main] # "exited"
    BY <1>10, <1>12
  <2> QED
    BY <1>9, <1>10, <1>11, <2>2, <2>3 DEF CreateInv
<1>14. HandleInv
  <2>1. \A t \in Known : t \in Runners /\ t \in Live
    BY <1>2 DEF Known
  <2>2. \A t \in Known : t < Born(prog, <<>>)
    BY <1>4, <1>6, <2>1
  <2> QED
    BY <1>5, <2>2 DEF HandleInv
<1> QED
  BY <1>13, <1>14

(* A deadlock that is_in_deadlock reports is one: with the main thread     *)
(* creating all threads, no known but never created runner is taken for a  *)
(* stuck one.                                                              *)
LEMMA DeadlockCriterion ==
  ASSUME ProgramsTyped, MainCreatesThreads, IInv, CreateInv, HandleInv, AbnormalEndReported
  PROVE  DeadlockIsReal
<1> SUFFICES ASSUME err = "none", IsInDeadlock
             PROVE  /\ \A t \in Unfinished : ~ Enabled(Current.st, OpAfter(prog, real, t))
                    /\ \E t \in Unfinished :
                         OpAfter(prog, real, t).kind \notin {"exit", "process_exit"}
  BY DEF DeadlockIsReal
<1>1. TypeOK /\ KnownInv /\ MatchInv /\ ThreadsInv
  BY DEF IInv
<1>2. /\ prog \in Programs /\ real \in Seq(Runners) /\ Depth \in Nat
      /\ Depth + 1 \in DOMAIN seq /\ Current = seq[Depth + 1] /\ Current.st \in States
      /\ DOMAIN trace = 1..Depth /\ DOMAIN seq = 1..(Depth + 1)
  BY <1>1, TypeFacts DEF Elements
<1>3. \A u \in Runners : Current.st.thr[u] # "embryo" =>
        /\ u \in Known /\ next[u] = OpAfter(prog, real, u) /\ next[u].by = u
        /\ next[u] # NoOp
  BY <1>1, <1>2 DEF KnownInv, MatchInv, TypeOK, Known
<1>4. \A u \in Runners : next[u] # NoOp => ~ Enabled(Current.st, next[u])
  BY DEF IsInDeadlock, EnabledRunners
<1>5. \A t \in Unfinished : ~ Enabled(Current.st, OpAfter(prog, real, t))
  BY <1>3, <1>4 DEF Unfinished
<1>6. Len(real) = Depth /\ \A i \in 1..Depth :
        real[i] = trace[i].by /\ trace[i] = OpAfter(prog, SubSeq(real, 1, i - 1), real[i])
  BY <1>1, <1>2 DEF MatchInv, Past
<1>7. Past((Depth + 1) - 1) = real
  <2>1. (Depth + 1) - 1 = Len(real)
    BY <1>2, <1>6
  <2> QED
    BY <1>2, <2>1, SubSeqFull DEF Past
<1>8. CASE \E u \in Runners : Current.st.thr[u] = "running"
  <2>1. PICK u \in Runners : Current.st.thr[u] = "running"
    BY <1>8
  <2>2. u < Born(prog, real)
    BY <1>2, <1>7, <2>1 DEF CreateInv
  <2>3. u \in Unfinished
    BY <2>1, <2>2 DEF Unfinished
  <2>4. ~ Enabled(Current.st, next[u]) /\ next[u].by = u /\ next[u] = OpAfter(prog, real, u)
    BY <1>3, <1>4, <2>1
  <2>5. next[u].kind # "process_exit" /\ (next[u].kind = "exit" => u = Main)
    BY <1>2, <2>1, <2>4, AlwaysEnabled
  <2>6. OpAfter(prog, real, Main).kind # "exit"
    BY <1>2 DEF MainCreatesThreads, MainCreates
  <2> QED
    BY <1>5, <2>3, <2>4, <2>5, <2>6
<1>9. CASE \A u \in Runners : Current.st.thr[u] # "running"
  <2>1. PICK t \in Known : Current.st.thr[t] # "exited"
    BY DEF IsInDeadlock
  <2>2. t \in Runners
    BY <2>1 DEF Known
  <2>3. Current.st.thr[t] = "embryo"
    BY <1>2, <1>9, <2>1, <2>2 DEF States
  <2>4. Main \in Runners /\ Main \in Live
    BY <1>1, TypeFacts DEF Runners, Main, Live
  <2>5. Current.st.thr[Main] # "embryo"
    BY <1>2, <2>4 DEF CreateInv
  <2>6. Current.st.thr[Main] = "exited"
    BY <1>2, <1>9, <2>4, <2>5 DEF States
  <2>7. PICK k \in 1..((Depth + 1) - 1) :
          trace[k].by = Main /\ trace[k].kind \in {"process_exit", "exit_failure"}
    BY <1>2, <2>6 DEF CreateInv
  <2>8. k \in 1..Depth /\ k - 1 \in 0..Len(real)
    BY <1>2, <1>6, <2>7
  <2>9. trace[k].kind # "exit_failure"
    BY <1>2, <2>8 DEF AbnormalEndReported
  <2> DEFINE h == SubSeq(real, 1, k - 1)
  <2>10. /\ h \in Seq(Runners) /\ Len(h) = k - 1
         /\ \A m \in 0..(k - 1) : SubSeq(h, 1, m) = SubSeq(real, 1, m)
    BY <1>2, <2>8, PrefixProperties
  <2>11. real[k] = Main /\ OpAfter(prog, h, Main).kind = "process_exit"
    BY <1>6, <2>7, <2>8, <2>9
  <2> HIDE DEF h
  <2>12. PICK g \in Seq(Runners) : t < Born(prog, g)
    BY <2>1 DEF HandleInv
  <2>13. Born(prog, g) <= Born(prog, h)
    BY <1>2, <2>10, <2>11, <2>12 DEF MainCreatesThreads, CreatesBeforeReturn
  <2>14. t \in Nat /\ t < Born(prog, h)
    <3>1. t \in Nat /\ Born(prog, g) \in Nat /\ Born(prog, h) \in Nat
      BY <1>2, <2>2, <2>10, <2>12, BornProperties DEF Runners
    <3> QED
      BY <2>12, <2>13, <3>1
  <2>15. ~ (t < LiveIn(prog))
    <3>1. t \notin Live
      BY <1>2, <2>2, <2>3 DEF CreateInv
    <3>2. LiveIn(prog) \in Nat
      BY <1>1, TypeFacts
    <3> QED
      BY <2>14, <3>1, <3>2 DEF Live
  <2>16. PICK j \in 1..Len(h) :
           IsCreate(prog, SubSeq(h, 1, j)) /\ Born(prog, SubSeq(h, 1, j)) - 1 = t
    BY <1>2, <2>10, <2>14, <2>15, BornStep
  <2>17. j \in 1..(k - 1) /\ j \in 0..(k - 1) /\ j \in 1..Depth /\ j \in 0..Len(real)
    BY <1>2, <1>6, <2>8, <2>10, <2>16
  <2>18. IsCreate(prog, Past(j)) /\ Born(prog, Past(j)) - 1 = t
    <3>1. SubSeq(h, 1, j) = SubSeq(real, 1, j)
      BY <2>10, <2>17
    <3> QED
      BY <2>16, <3>1 DEF Past
  <2>19. real[j] = Main
    <3>1. Past(j) \in Seq(Runners) /\ Len(Past(j)) = j /\ Past(j)[j] = real[j]
      BY <1>2, <2>17, PrefixProperties DEF Past
    <3>2. Len(<<>>) = 0 /\ j # 0
      BY <2>17, EmptySeq
    <3>3. Past(j) # <<>>
      BY <3>1, <3>2
    <3>4. Last(Past(j)) = Main
      BY <1>2, <2>18, <3>1, <3>3 DEF MainCreatesThreads, MainCreates
    <3> QED
      BY <3>1, <3>4 DEF Last
  <2>20. seq[k + 1].st.thr[t] # "embryo"
    BY <1>2, <2>8, <2>11, <2>17, <2>18, <2>19 DEF CreateInv
  <2>21. k + 1 \in DOMAIN seq /\ k + 1 <= Depth + 1
    BY <1>2, <2>8
  <2>22. Current.st.thr[t] # "embryo"
    BY <1>1, <1>2, <2>2, <2>20, <2>21 DEF ThreadsInv
  <2> QED
    BY <2>3, <2>22
<1> QED
  BY <1>8, <1>9

(* Of programs whose main thread creates the threads, is_in_deadlock       *)
(* reports real deadlocks only.                                            *)
THEOREM DeadlocksAreReal ==
  ASSUME ProgramsTyped, AbnormalEndsAreFinal, MainCreatesThreads, HandlesAreFresh
  PROVE  Spec => []DeadlockIsReal
<1>1. Init => CreateInv /\ HandleInv
  BY InitCreate
<1>2. IInv /\ CreateInv /\ HandleInv /\ [Next]_vars => CreateInv' /\ HandleInv'
  BY NextCreate
<1>3. IInv /\ CreateInv /\ HandleInv /\ AbnormalEndReported => DeadlockIsReal
  BY DeadlockCriterion
<1> QED
  BY <1>1, <1>2, <1>3, Invariance, AbnormalEndsAreReported, PTL DEF Spec

-----------------------------------------------------------------------------
(* Handles.                                                                *)

\* What a thread uses first does not depend on the steps of the others before it.
FirstUsesAreStable ==
  \A p \in Programs : \A h, g \in Seq(Runners) : \A t \in Runners : SameFirstUse(p, h, g, t)

(* What a step leaves in the ids and in the entries of the stack.          *)
LEMMA ExecuteIds ==
  ASSUME ProgramsTyped, TypeOK, KnownInv, stack # <<>>, NEW t \in Known,
         NEW result \in {"none", "terminated"}, ExecuteRunner(t, result), err' = result,
         NEW op, op = Message(prog, Append(real, t))
  PROVE  /\ objs' = Discover(op).objs
         /\ \A i \in 1..Len(seq) :
              seq'[i].seen = IF i = Len(seq) THEN Discover(op).seen ELSE seq[i].seen
         /\ seq'[Len(seq) + 1].seen = DOMAIN objs'
         /\ \A i \in 1..Len(stack) :
              stack'[i].done = IF i = Len(stack) THEN stack[i].done \cup {t} ELSE stack[i].done
<1> DEFINE found == Discover(op)
           why == IF Failure(op) # "none" THEN Failure(op)
                  ELSE IF Enabled(Current.st, next[t]) THEN result ELSE "disabled"
<1>1. /\ err' = why
      /\ IF why # result
         THEN UNCHANGED <<trace, objs, seq, next, stack>>
         ELSE \E s \in ApplyTo(Current.st, next[t]) :
              /\ objs' = found.objs
              /\ seq' = Append([seq EXCEPT ![Len(seq)].seen = found.seen],
                               [st |-> s, seen |-> DOMAIN found.objs])
              /\ stack' = Append([stack EXCEPT ![Len(stack)].done = @ \cup {t}],
                                 StackItem(s, next'))
  BY DEF ExecuteRunner, GrowStack, Snapshot
<1> HIDE DEF found, why
<1>2. PICK s \in ApplyTo(Current.st, next[t]) :
              /\ objs' = found.objs
              /\ seq' = Append([seq EXCEPT ![Len(seq)].seen = found.seen],
                               [st |-> s, seen |-> DOMAIN found.objs])
              /\ stack' = Append([stack EXCEPT ![Len(stack)].done = @ \cup {t}],
                                 StackItem(s, next'))
  BY <1>1
<1>3. /\ seq \in Seq(Elements(objs)) /\ Len(seq) \in Nat \ {0} /\ DOMAIN seq = 1..Len(seq)
      /\ \A i \in 1..Len(seq) : seq[i] \in Elements(objs)
  BY TypeFacts
<1>4. /\ \A i \in 1..Len(seq) :
           seq'[i].seen = IF i = Len(seq) THEN found.seen ELSE seq[i].seen
      /\ seq'[Len(seq) + 1].seen = DOMAIN found.objs
  <2> DEFINE e == [seq[Len(seq)] EXCEPT !.seen = found.seen]
             q == [seq EXCEPT ![Len(seq)] = e]
             f == [st |-> s, seen |-> DOMAIN found.objs]
             D == Elements(objs) \cup {e, f}
  <2>1. seq[Len(seq)] \in Elements(objs)
    BY <1>3
  <2>2. e.seen = found.seen
    BY <2>1 DEF Elements
  <2>3. f.seen = DOMAIN found.objs
    OBVIOUS
  <2>4. seq' = Append(q, f)
    BY <1>2
  <2>5. e \in D /\ f \in D /\ Elements(objs) \subseteq D
    OBVIOUS
  <2> HIDE DEF e, f, D
  <2>6. seq \in Seq(D) /\ Len(seq) \in 1..Len(seq)
    BY <1>3, <2>5, SeqMonotonic
  <2>7. /\ q \in Seq(D) /\ Len(q) = Len(seq)
        /\ \A j \in 1..Len(seq) : q[j] = IF j = Len(seq) THEN e ELSE seq[j]
    BY <2>5, <2>6, ExceptSeq
  <2> HIDE DEF q
  <2>8. /\ \A i \in 1..Len(q) : Append(q, f)[i] = q[i]
        /\ Append(q, f)[Len(q) + 1] = f
    BY <2>5, <2>7, AppendProperties
  <2> QED
    BY <2>2, <2>3, <2>4, <2>7, <2>8
<1>5. \A i \in 1..Len(stack) :
        stack'[i].done = IF i = Len(stack) THEN stack[i].done \cup {t} ELSE stack[i].done
  <2>1. stack \in Seq(Items) /\ Len(stack) \in 1..Len(stack) /\ Len(stack) \in Nat
    BY TypeFacts
  <2>2. stack[Len(stack)] \in Items
    BY <2>1, ElementOfSeq
  <2> DEFINE e == [stack[Len(stack)] EXCEPT !.done = @ \cup {t}]
             q == [stack EXCEPT ![Len(stack)] = e]
             f == StackItem(s, next')
             D == Items \cup {e, f}
  <2>3. e.done = stack[Len(stack)].done \cup {t}
    BY <2>2 DEF Items
  <2>4. stack' = Append(q, f)
    BY <1>2
  <2>5. e \in D /\ f \in D /\ Items \subseteq D
    OBVIOUS
  <2> HIDE DEF e, f, D
  <2>6. stack \in Seq(D)
    BY <2>1, <2>5, SeqMonotonic
  <2>7. /\ q \in Seq(D) /\ Len(q) = Len(stack)
        /\ \A j \in 1..Len(stack) : q[j] = IF j = Len(stack) THEN e ELSE stack[j]
    BY <2>1, <2>5, <2>6, ExceptSeq
  <2> HIDE DEF q
  <2>8. \A i \in 1..Len(q) : Append(q, f)[i] = q[i]
    BY <2>5, <2>7, AppendProperties
  <2> QED
    BY <2>3, <2>4, <2>7, <2>8
<1> QED
  BY <1>2, <1>4, <1>5 DEF found

(* A handle that an operation can introduce has an id afterwards, and ids  *)
(* are kept; where every id was known, the known ones stay a segment.      *)
LEMMA DiscoverIds ==
  ASSUME TypeOK, NEW op \in Operations, NEW found, found = Discover(op)
  PROVE  /\ ToSet(objs) \subseteq ToSet(found.objs)
         /\ Finds(op) => op.obj \in ToSet(found.objs)
         /\ Len(found.objs) \in Nat /\ Len(objs) <= Len(found.objs)
         /\ DOMAIN found.objs = 1..Len(found.objs)
         /\ Current.seen = DOMAIN objs => found.seen = DOMAIN found.objs
         /\ op.kind # "create" /\ (Finds(op) => Mapped(op.obj)) =>
              found.objs = objs /\ found.seen = Current.seen
<1> DEFINE new == op.kind \in {"mutex_init", "lock", "sem_init", "create"} /\ ~ Mapped(op.obj)
<1>1. objs \in Seq(Handles) /\ DOMAIN objs = 1..Len(objs) /\ Len(objs) \in Nat
  BY TypeFacts
<1>2. op.kind # "create" /\ (Finds(op) => Mapped(op.obj)) => ~ new
  BY DEF Finds
<1>3. CASE new
  <2>1. op.obj \in Handles
    BY <1>3 DEF Operations, Handles
  <2>2. found.objs = Append(objs, op.obj) /\ found.seen = Current.seen \cup {Len(objs) + 1}
    BY <1>3, Zenon DEF Discover
  <2>3. /\ Append(objs, op.obj) \in Seq(Handles)
        /\ Len(Append(objs, op.obj)) = Len(objs) + 1
        /\ ToSet(Append(objs, op.obj)) = ToSet(objs) \cup {op.obj}
    BY <1>1, <2>1, AppendElement
  <2>4. DOMAIN found.objs = 1..(Len(objs) + 1) /\ Len(found.objs) = Len(objs) + 1
    BY <2>2, <2>3, LenProperties
  <2>5. Current.seen = DOMAIN objs => found.seen = DOMAIN found.objs
    BY <1>1, <2>2, <2>4
  <2>6. ToSet(objs) \subseteq ToSet(found.objs) /\ op.obj \in ToSet(found.objs)
    BY <2>2, <2>3
  <2>7. ~ (op.kind # "create" /\ (Finds(op) => Mapped(op.obj)))
    BY <1>2, <1>3
  <2>8. Len(found.objs) \in Nat /\ Len(objs) <= Len(found.objs)
        /\ DOMAIN found.objs = 1..Len(found.objs)
    BY <1>1, <2>4
  <2> QED
    BY <2>5, <2>6, <2>7, <2>8
<1>4. CASE ~ new
  <2>1. found.objs = objs /\ found.seen = Current.seen
    BY <1>4, Zenon DEF Discover
  <2>2. Finds(op) => op.obj \in ToSet(objs)
    BY <1>4 DEF Finds, Mapped
  <2> QED
    BY <1>1, <2>1, <2>2
<1> QED
  BY <1>3, <1>4

(* Only a create can be refused for its ids, and not where all are known.  *)
LEMMA CreateFits ==
  ASSUME TypeOK, NEW op,
         op.kind = "create" => Current.seen = DOMAIN objs
  PROVE  Failure(op) \notin {"rebind", "invalid_rid"}
<1>1. /\ objs \in Seq(Handles) /\ DOMAIN objs = 1..Len(objs) /\ Len(objs) \in Nat
  BY TypeFacts
<1>2. Cardinality(1..Len(objs)) = Len(objs)
  BY <1>1, FS_Interval
<1>3. ASSUME op.kind = "create", Mapped(op.obj)
      PROVE  Contained(op.obj)
  <2>1. PICK i \in DOMAIN objs : objs[i] = op.obj
    BY <1>3 DEF Mapped, ToSet
  <2>2. i <= Cardinality(Current.seen)
    BY <1>1, <1>2, <1>3, <2>1
  <2> QED
    BY <2>1, <2>2 DEF Contained
<1>4. ASSUME op.kind = "create"
      PROVE  ~ (Cardinality(Current.seen) < Len(objs))
  BY <1>1, <1>2, <1>4
<1>5. ~ (op.kind = "create" /\ Mapped(op.obj) /\ ~ Contained(op.obj))
  BY <1>3
<1>6. ~ (op.kind = "create" /\ ~ Mapped(op.obj) /\ Cardinality(Current.seen) < Len(objs))
  BY <1>4
<1>7. Failure(op) \in {"undefined_behavior", "untranslated", "none"}
  BY <1>5, <1>6, Zenon DEF Failure
<1> QED
  BY <1>7

(* The first enabled runner is main, if main is enabled.                   *)
LEMMA FirstIsMain ==
  ASSUME TypeOK, stack # <<>>, Last(stack).enabled # {}
  PROVE  /\ Min(Last(stack).enabled) \in Last(stack).enabled
         /\ Main \in Last(stack).enabled => Min(Last(stack).enabled) = Main
<1> DEFINE t == Min(Last(stack).enabled)
<1>1. /\ stack \in Seq(Items) /\ Len(stack) \in 1..Len(stack)
  BY TypeFacts
<1>2. Last(stack) \in Items
  BY <1>1, ElementOfSeq DEF Last
<1>3. Last(stack).enabled \subseteq Nat
  BY <1>2 DEF Items, Runners
<1>4. t \in Last(stack).enabled /\ \A u \in Last(stack).enabled : t <= u
  BY <1>3, MinOfIndices
<1> HIDE DEF t
<1>5. t \in Nat /\ (Main \in Last(stack).enabled => t <= 0)
  BY <1>3, <1>4 DEF Main
<1>6. Main \in Last(stack).enabled => t = Main
  BY <1>5 DEF Main
<1> QED
  BY <1>4, <1>6 DEF t

(* A step of a runner chosen the way verify_using does: the first enabled  *)
(* one, or one that was not searched yet.  Only the first can be main.     *)
LEMMA ExecuteSearch ==
  ASSUME ProgramsTyped, MainCreatesThreads, IInv, SearchInv, Exploring,
         NEW t \in Last(stack).enabled, NEW result \in {"none", "terminated"},
         ExecuteRunner(t, result),
         \/ Last(stack).done = {} /\ (Main \in Last(stack).enabled => t = Main)
         \/ Last(stack).done # {} /\ t \notin Last(stack).done
  PROVE  /\ SearchInv' /\ err' \notin {"rebind", "invalid_rid", "out_of_range"}
         /\ Message(prog, Append(real, t)).kind = "create" => Last(stack).done = {}
<1> DEFINE op == Message(prog, Append(real, t))
<1>1. /\ TypeOK /\ KnownInv /\ MatchInv /\ err = "none" /\ stack # <<>>
      /\ t \in Known /\ t \in Runners
  BY EnabledIsKnown DEF IInv, Exploring, Known
<1>2. /\ Len(stack) = Depth + 1 /\ Len(seq) = Depth + 1 /\ Depth \in Nat
      /\ DOMAIN stack = 1..(Depth + 1) /\ Last(stack) = stack[Depth + 1]
      /\ prog \in Programs /\ real \in Seq(Runners)
  BY <1>1, TypeFacts DEF Last
<1>3. /\ \A i \in 1..(Depth + 1) :
           /\ stack[i].done \subseteq stack[i].enabled
           /\ i < Depth + 1 => stack[i].done # {}
           /\ stack[i].done # {} /\ Main \in stack[i].enabled => Main \in stack[i].done
      /\ Last(stack).done = {} => Current.seen = DOMAIN objs
  BY <1>1, <1>2 DEF SearchInv
<1>4. /\ Append(real, t) \in Seq(Runners) /\ Len(Append(real, t)) = Len(real) + 1
      /\ Append(real, t)[Len(real) + 1] = t /\ Len(real) = Depth
  BY <1>1, <1>2, AppendProperties DEF MatchInv
<1>5. op.kind = "create" => t = Main
  <2> SUFFICES ASSUME op.kind = "create"
               PROVE  t = Main
    OBVIOUS
  <2>1. IsCreate(prog, Append(real, t))
    BY DEF Message, IsCreate
  <2>2. Append(real, t) # <<>>
    <3>1. Len(<<>>) = 0
      BY EmptySeq
    <3> QED
      BY <1>2, <1>4, <3>1
  <2>3. Last(Append(real, t)) = Main
    BY <1>2, <1>4, <2>1, <2>2 DEF MainCreatesThreads, MainCreates
  <2> QED
    BY <1>4, <2>3 DEF Last
<1>6. op.kind = "create" => Last(stack).done = {}
  <2>1. Depth + 1 \in 1..(Depth + 1)
    BY <1>2
  <2> QED
    BY <1>2, <1>3, <1>5, <2>1
<1>7. Failure(op) \notin {"rebind", "invalid_rid"}
  BY <1>1, <1>3, <1>6, CreateFits
<1>8. op = Message(prog, Append(real, t))
  OBVIOUS
<1>9. err' \in {Failure(op), result, "disabled"}
  BY DEF ExecuteRunner
<1>10. err' \notin {"rebind", "invalid_rid", "out_of_range"}
  BY <1>7, <1>9, FailureValues
<1> HIDE DEF op
<1>11. CASE /\ err' \in {"untranslated"} \cup Failures
            /\ UNCHANGED <<prog, trace, objs, seq, next, stack>>
  <2>1. err' # "none"
    BY <1>11 DEF Failures
  <2> QED
    BY <1>6, <1>10, <2>1 DEF SearchInv, op
<1>12. CASE err' = result /\ \E s : Advanced(t, op, s)
  <2>1. PICK s : Advanced(t, op, s)
    BY <1>12
  <2>2. /\ seq'[(Depth + 1) + 1].seen = DOMAIN objs'
        /\ \A i \in 1..(Depth + 1) :
             stack'[i].done = IF i = Depth + 1 THEN stack[i].done \cup {t} ELSE stack[i].done
    BY <1>1, <1>2, <1>8, <1>12, ExecuteIds
  <2>3. /\ DOMAIN stack' = 1..(Depth + 2) /\ Len(stack') = Depth + 2
        /\ \A i \in 1..(Depth + 1) : stack'[i].enabled = stack[i].enabled
        /\ stack'[Depth + 2].done = {} /\ (Depth + 1) + 1 = Depth + 2
    <3>1. stack'[Len(stack) + 1].done = {}
      BY <2>1 DEF Advanced
    <3>2. (Depth + 1) + 1 = Depth + 2
      BY <1>2
    <3> QED
      BY <1>1, <1>2, <2>1, <3>1, <3>2, AdvancedSequences
  <2>4. Last(stack') = stack'[Depth + 2] /\ Current' = seq'[Depth + 2]
    <3>1. Len(seq') = Depth + 2
      BY <1>2, <2>1 DEF Advanced
    <3> QED
      BY <2>3, <3>1 DEF Last, Current
  <2>5. Last(stack').done = {} /\ Current'.seen = DOMAIN objs'
    BY <2>2, <2>3, <2>4
  <2>6. ASSUME NEW i \in 1..(Depth + 2)
        PROVE  /\ stack'[i].done \subseteq stack'[i].enabled
               /\ i < Depth + 2 => stack'[i].done # {}
               /\ stack'[i].done # {} /\ Main \in stack'[i].enabled => Main \in stack'[i].done
    <3>1. i \in 1..Depth \/ i = Depth + 1 \/ i = Depth + 2
      BY <1>2
    <3>2. CASE i \in 1..Depth
      <4>1. i \in 1..(Depth + 1) /\ i # Depth + 1 /\ i < Depth + 1
        BY <1>2, <3>2
      <4>2. stack'[i].enabled = stack[i].enabled /\ stack'[i].done = stack[i].done
        BY <2>2, <2>3, <4>1
      <4> QED
        BY <1>3, <4>1, <4>2
    <3>3. CASE i = Depth + 1
      <4>1. Depth + 1 \in 1..(Depth + 1)
        BY <1>2
      <4>2. /\ stack'[i].done = stack[Depth + 1].done \cup {t}
            /\ stack'[i].enabled = stack[Depth + 1].enabled
        BY <2>2, <2>3, <3>3, <4>1
      <4> QED
        BY <1>2, <1>3, <4>1, <4>2
    <3>4. CASE i = Depth + 2
      <4>1. ~ (i < Depth + 2) /\ stack'[i].done = {}
        BY <1>2, <2>3, <3>4
      <4> QED
        BY <4>1
    <3> QED
      BY <3>1, <3>2, <3>3, <3>4
  <2>7. SearchInv'
    BY <2>3, <2>5, <2>6 DEF SearchInv
  <2> QED
    BY <1>6, <1>10, <2>7 DEF op
<1> QED
  BY <1>1, <1>8, <1>11, <1>12, ExecuteEffect

(* Of programs whose main thread creates the threads, every step but a cut *)
(* keeps the search in order and knows the runners that are announced.     *)
LEMMA NextSearch ==
  ASSUME ProgramsTyped, MainCreatesThreads, IInv, SearchInv, [Next]_vars
  PROVE  /\ SearchInv'
         /\ err' \in {"rebind", "invalid_rid"} => err' = err
<1>1. TypeOK /\ KnownInv /\ MatchInv
  BY DEF IInv
<1>2. CASE Explore
  <2> DEFINE t == Min(Last(stack).enabled)
             result == AfterStep(Message(prog, Append(real, t)))
  <2>1. /\ Exploring /\ Last(stack).enabled # {} /\ ExecuteRunner(t, result)
        /\ Last(stack).done = {}
    BY <1>2 DEF Explore, CanExplore
  <2>2. result \in {"none", "terminated"}
    BY DEF AfterStep
  <2>3. t \in Last(stack).enabled /\ (Main \in Last(stack).enabled => t = Main)
    BY <1>1, <2>1, FirstIsMain DEF Exploring
  <2> HIDE DEF t, result
  <2> QED
    BY <2>1, <2>2, <2>3, ExecuteSearch
<1>3. CASE LimitReached \/ Hang
  <2>1. err' \in {"limit", "hang"}
    BY <1>3 DEF LimitReached, Hang
  <2> QED
    BY <2>1 DEF SearchInv
<1>4. ASSUME NEW n \in 1..(Depth - 1), ReturnToDepth(n)
      PROVE  SearchInv' /\ err' \in {"none", "out_of_range"}
  <2>1. /\ n \in 0..Depth /\ err = "none" /\ err' \in {"none", "out_of_range"}
        /\ Len(stack') = n + 1 /\ DOMAIN stack' = 1..(n + 1)
        /\ \A i \in 1..(n + 1) : stack'[i] = stack[i]
    BY <1>1, <1>4, ReturnEffect
  <2>2. /\ Depth \in Nat /\ n \in Nat /\ Len(stack) = Depth + 1 /\ DOMAIN stack = 1..(Depth + 1)
        /\ n + 1 < Depth + 1 /\ n + 1 \in 1..(n + 1)
    BY <1>1, <1>4, <2>1, TypeFacts DEF ReturnToDepth, Exploring
  <2>3. ASSUME NEW i \in 1..(n + 1)
        PROVE  /\ stack'[i].done \subseteq stack'[i].enabled /\ stack'[i].done # {}
               /\ stack'[i].done # {} /\ Main \in stack'[i].enabled => Main \in stack'[i].done
    <3>1. i \in 1..(Depth + 1) /\ i < Depth + 1
      BY <2>2
    <3> QED
      BY <2>1, <2>2, <3>1 DEF SearchInv
  <2>4. Last(stack').done # {}
    BY <2>1, <2>2, <2>3 DEF Last
  <2> QED
    BY <2>1, <2>3, <2>4 DEF SearchInv
<1>5. CASE Backtrack
  <2>1. PICK t \in Last(stack).enabled \ Last(stack).done : ExecuteRunner(t, "none")
    BY <1>5 DEF Backtrack
  <2>2. Exploring /\ Last(stack).done # {}
    BY <1>5 DEF Backtrack
  <2> QED
    BY <2>1, <2>2, ExecuteSearch
<1>6. CASE Finish
  <2>1. UNCHANGED <<objs, seq, err>> /\ stack' = <<>>
    BY <1>6 DEF Finish
  <2>2. DOMAIN stack' = {}
    BY <2>1
  <2> QED
    BY <2>1, <2>2 DEF SearchInv
<1>7. CASE UNCHANGED vars
  <2>1. UNCHANGED <<prog, real, trace, objs, seq, next, stack, err>>
    BY <1>7 DEF vars
  <2> QED
    BY <2>1 DEF SearchInv, Current
<1> QED
  BY <1>2, <1>3, <1>4, <1>5, <1>6, <1>7 DEF Next

(* At the start nothing was searched and every id is known.                *)
LEMMA InitSearch ==
  ASSUME ProgramsTyped, Init
  PROVE  UseInv /\ SearchInv /\ SegmentInv /\ HandlesRemainValid
<1>1. TypeOK
  BY InitInvariant DEF IInv
<1>2. /\ trace = <<>> /\ stack = <<StackItem(InitialState, next)>> /\ err = "none"
      /\ seq = <<[st |-> InitialState, seen |-> DOMAIN objs]>>
  BY DEF Init
<1>3. DOMAIN objs = 1..Len(objs) /\ Len(objs) \in Nat
  BY <1>1, TypeFacts
<1> DEFINE i0 == StackItem(InitialState, next)
           e0 == [st |-> InitialState, seen |-> DOMAIN objs]
<1>4. i0.done = {} /\ e0.seen = DOMAIN objs
  BY DEF StackItem
<1> HIDE DEF i0, e0
<1>5. stack = <<i0>> /\ seq = <<e0>>
  BY <1>2 DEF i0, e0
<1>6. /\ DOMAIN stack = {1} /\ Len(stack) = 1 /\ stack[1] = i0 /\ Last(stack) = i0
      /\ seq[1] = e0 /\ Current = e0
  BY <1>5 DEF Last, Current
<1>7. \E k \in 0..Len(objs) : seq[1].seen = 1..k
  BY <1>3, <1>4, <1>6
<1>8. SearchInv /\ SegmentInv
  BY <1>4, <1>6, <1>7 DEF SearchInv, SegmentInv
<1>9. UseInv
  BY <1>2 DEF UseInv
<1> QED
  BY <1>2, <1>8, <1>9 DEF HandlesRemainValid, Failures

(* A thread that the main thread creates is recognised by its handle if an *)
(* earlier branch has seen it, and gets an id that the element knows of if *)
(* not: whatever the branches before have found, and with or without       *)
(* deadlocks.                                                              *)
THEOREM RunnersAreRecognised ==
  ASSUME ProgramsTyped, MainCreatesThreads
  PROVE  Spec => [](err \notin {"rebind", "invalid_rid"})
<1> DEFINE G == err \notin {"rebind", "invalid_rid"}
<1>1. Init => SearchInv /\ G
  BY InitSearch DEF Init
<1>2. IInv /\ SearchInv /\ G /\ [Next]_vars => SearchInv' /\ G'
  BY NextSearch
<1> HIDE DEF G
<1>3. Spec => []G
  BY <1>1, <1>2, Invariance, PTL DEF Spec
<1> QED
  BY <1>3 DEF G

(* A step of a runner leaves no gap where there is a runner left to search.*)
LEMMA ExecuteSegments ==
  ASSUME ProgramsTyped, MainCreatesThreads, IInv, SearchInv, UseInv, SegmentInv, Exploring,
         NEW t \in Last(stack).enabled, NEW result \in {"none", "terminated"},
         ExecuteRunner(t, result),
         \/ Last(stack).done = {} /\ (Main \in Last(stack).enabled => t = Main)
         \/ Last(stack).done # {} /\ t \notin Last(stack).done
  PROVE  UseInv' /\ SegmentInv'
<1> DEFINE op == Message(prog, Append(real, t))
           found == Discover(op)
<1>1. /\ TypeOK /\ KnownInv /\ MatchInv /\ err = "none" /\ stack # <<>>
      /\ t \in Known /\ t \in Runners
  BY EnabledIsKnown DEF IInv, Exploring, Known
<1>2. /\ Len(stack) = Depth + 1 /\ Len(seq) = Depth + 1 /\ Depth \in Nat
      /\ DOMAIN stack = 1..(Depth + 1) /\ Current = seq[Depth + 1]
      /\ Last(stack) = stack[Depth + 1]
      /\ DOMAIN trace = 1..Depth /\ DOMAIN objs = 1..Len(objs) /\ Len(objs) \in Nat
  BY <1>1, TypeFacts DEF Last
<1>3. /\ \A i \in 1..(Depth + 1) : stack[i].enabled \ stack[i].done # {} =>
           \E k \in 0..Len(objs) : seq[i].seen = 1..k
      /\ Last(stack).done = {} => Current.seen = DOMAIN objs
      /\ Last(stack).done # {} =>
           \A v, u \in Last(stack).enabled \ Last(stack).done : v # u => FindsNothing(v)
  BY <1>1, <1>2 DEF SearchInv, SegmentInv
<1>4. op.kind = "create" => Last(stack).done = {}
  BY ExecuteSearch
<1>5. Finds(op) => op = CodeOf(prog, Append(real, t))
  BY DEF Finds, Message, Transition
<1>6. op = Message(prog, Append(real, t))
  OBVIOUS
<1> HIDE DEF op
<1>7. CASE /\ err' \in {"untranslated"} \cup Failures
           /\ UNCHANGED <<prog, trace, objs, seq, next, stack>>
  <2>1. err' # "none"
    BY <1>7 DEF Failures
  <2> QED
    BY <2>1 DEF UseInv, SegmentInv
<1>8. CASE err' = result /\ \E s : Advanced(t, op, s)
  <2>1. PICK s : Advanced(t, op, s)
    BY <1>8
  <2>2. /\ objs' = found.objs
        /\ \A i \in 1..(Depth + 1) :
             seq'[i].seen = IF i = Depth + 1 THEN found.seen ELSE seq[i].seen
        /\ seq'[(Depth + 1) + 1].seen = DOMAIN objs'
        /\ \A i \in 1..(Depth + 1) :
             stack'[i].done = IF i = Depth + 1 THEN stack[i].done \cup {t} ELSE stack[i].done
    BY <1>1, <1>2, <1>6, <1>8, ExecuteIds
  <2>3. /\ ToSet(objs) \subseteq ToSet(found.objs)
        /\ Finds(op) => op.obj \in ToSet(found.objs)
        /\ Len(found.objs) \in Nat /\ Len(objs) <= Len(found.objs)
        /\ DOMAIN found.objs = 1..Len(found.objs)
        /\ Current.seen = DOMAIN objs => found.seen = DOMAIN found.objs
        /\ op.kind # "create" /\ (Finds(op) => Mapped(op.obj)) =>
             found.objs = objs /\ found.seen = Current.seen
    <3>1. op \in Operations
      BY <2>1 DEF Advanced
    <3> QED
      BY <1>1, <3>1, DiscoverIds
  <2> HIDE DEF found
  <2>4. /\ Len(real) = Depth /\ real' = Append(real, t) /\ prog' = prog
        /\ \A n \in 0..Depth : SubSeq(real', 1, n) = SubSeq(real, 1, n)
        /\ Len(real') = Depth + 1 /\ real' \in Seq(Runners)
        /\ DOMAIN trace' = 1..(Depth + 1)
        /\ DOMAIN stack' = 1..(Depth + 2) /\ Len(stack') = Depth + 2
        /\ \A i \in 1..(Depth + 1) : stack'[i].enabled = stack[i].enabled
        /\ stack'[Depth + 2].done = {} /\ (Depth + 1) + 1 = Depth + 2
    <3>1. stack'[Len(stack) + 1].done = {} /\ real' = Append(real, t) /\ prog' = prog
      BY <2>1 DEF Advanced
    <3>2. (Depth + 1) + 1 = Depth + 2
      BY <1>2
    <3> QED
      BY <1>1, <1>2, <2>1, <3>1, <3>2, AdvancedSequences
  <2>5. UseInv'
    <3> SUFFICES ASSUME NEW k \in 1..(Depth + 1), Finds(CodeOf(prog, SubSeq(real', 1, k)))
                 PROVE  CodeOf(prog, SubSeq(real', 1, k)).obj \in ToSet(objs')
      BY <2>4 DEF UseInv, Past, Mapped
    <3>1. CASE k \in 1..Depth
      <4>1. SubSeq(real', 1, k) = SubSeq(real, 1, k)
        BY <2>4, <3>1
      <4>2. CodeOf(prog, SubSeq(real, 1, k)).obj \in ToSet(objs)
        BY <1>1, <1>2, <3>1, <4>1 DEF UseInv, Past, Mapped
      <4> QED
        BY <2>2, <2>3, <4>1, <4>2
    <3>2. CASE k = Depth + 1
      <4>1. SubSeq(real', 1, k) = Append(real, t)
        BY <2>4, <3>2, SubSeqFull
      <4>2. ~ IsCreate(prog, Append(real, t))
        BY <4>1 DEF Finds, IsCreate
      <4>3. op = CodeOf(prog, Append(real, t))
        BY <1>6, <4>2 DEF Message
      <4> QED
        BY <2>2, <2>3, <4>1, <4>3
    <3> QED
      BY <1>2, <3>1, <3>2
  <2>6. ASSUME NEW i \in 1..Depth, stack'[i].enabled \ stack'[i].done # {}
        PROVE  \E k \in 0..Len(objs') : seq'[i].seen = 1..k
    <3>1. i \in 1..(Depth + 1) /\ i # Depth + 1
      BY <1>2
    <3>2. /\ stack'[i].enabled = stack[i].enabled /\ stack'[i].done = stack[i].done
          /\ seq'[i].seen = seq[i].seen
      BY <2>2, <2>4, <3>1
    <3>3. \A k \in 0..Len(objs) : k \in 0..Len(objs')
      BY <1>2, <2>2, <2>3
    <3> QED
      BY <1>3, <2>6, <3>1, <3>2, <3>3
  <2>7. /\ stack'[Depth + 1].done = stack[Depth + 1].done \cup {t}
        /\ stack'[Depth + 1].enabled = stack[Depth + 1].enabled
        /\ seq'[Depth + 1].seen = found.seen
        /\ Depth + 1 \in 1..(Depth + 1)
    <3>1. Depth + 1 \in 1..(Depth + 1)
      BY <1>2
    <3> QED
      BY <2>2, <2>4, <3>1
  <2>8. ASSUME stack'[Depth + 1].enabled \ stack'[Depth + 1].done # {}
        PROVE  \E k \in 0..Len(objs') : seq'[Depth + 1].seen = 1..k
    <3>1. CASE Last(stack).done = {}
      <4>1. seq'[Depth + 1].seen = 1..Len(objs') /\ Len(objs') \in 0..Len(objs')
        BY <1>3, <2>2, <2>3, <2>7, <3>1
      <4> QED
        BY <4>1
    <3>2. CASE Last(stack).done # {} /\ t \notin Last(stack).done
      <4>1. PICK u \in Last(stack).enabled \ Last(stack).done : t # u
        BY <1>2, <2>7, <2>8
      <4>2. FindsNothing(t)
        BY <1>3, <3>2, <4>1
      <4>3. Finds(op) => Mapped(op.obj)
        BY <1>5, <4>2 DEF FindsNothing
      <4>4. objs' = objs /\ found.seen = Current.seen
        BY <1>4, <2>2, <2>3, <3>2, <4>3
      <4>5. stack[Depth + 1].enabled \ stack[Depth + 1].done # {}
        BY <1>2, <4>1
      <4>6. \E k \in 0..Len(objs) : seq[Depth + 1].seen = 1..k
        BY <1>3, <2>7, <4>5
      <4> QED
        BY <1>2, <2>7, <4>4, <4>6
    <3> QED
      BY <3>1, <3>2
  <2>9. \E k \in 0..Len(objs') : seq'[Depth + 2].seen = 1..k
    <3>1. seq'[Depth + 2].seen = 1..Len(objs') /\ Len(objs') \in 0..Len(objs')
      BY <2>2, <2>3, <2>4
    <3> QED
      BY <3>1
  <2>10. \A i \in 1..(Depth + 2) : stack'[i].enabled \ stack'[i].done # {} =>
           \E k \in 0..Len(objs') : seq'[i].seen = 1..k
    <3>1. \A i \in 1..(Depth + 2) : i \in 1..Depth \/ i = Depth + 1 \/ i = Depth + 2
      BY <1>2
    <3> QED
      BY <2>6, <2>8, <2>9, <3>1
  <2>11. Last(stack').done = {}
    BY <2>4 DEF Last
  <2>12. SegmentInv'
    BY <2>4, <2>10, <2>11 DEF SegmentInv
  <2> QED
    BY <2>5, <2>12
<1> QED
  BY <1>1, <1>6, <1>7, <1>8, ExecuteEffect

(* Three members of a set.                                                 *)
LEMMA ThreeMembers ==
  ASSUME NEW S, IsFiniteSet(S), NEW a \in S, NEW b \in S, NEW c \in S,
         a # b, b # c, a # c
  PROVE  ~ (Cardinality(S) <= 2)
<1>1. IsFiniteSet({}) /\ Cardinality({}) = 0
  BY FS_EmptySet
<1>2. IsFiniteSet({a}) /\ Cardinality({a}) = 1
  BY FS_Singleton
<1>3. IsFiniteSet({a} \cup {b}) /\ Cardinality({a} \cup {b}) = 2
  <2> DEFINE A == {a}
  <2>1. b \notin A /\ IsFiniteSet(A) /\ Cardinality(A) = 1
    BY <1>2
  <2> HIDE DEF A
  <2>2. IsFiniteSet(A \cup {b}) /\ Cardinality(A \cup {b}) = Cardinality(A) + 1
    BY <2>1, FS_AddElement
  <2> QED
    BY <2>1, <2>2 DEF A
<1> DEFINE D == {a} \cup {b}
           E == D \cup {c}
<1>4. c \notin D /\ E \subseteq S
  OBVIOUS
<1> HIDE DEF D
<1>5. Cardinality(E) = Cardinality(D) + 1 /\ Cardinality(D) = 2
  BY <1>3, <1>4, FS_AddElement DEF D
<1> HIDE DEF E
<1>6. Cardinality(E) <= Cardinality(S) /\ Cardinality(S) \in Nat
  BY <1>4, FS_Subset, FS_CardinalityType
<1> QED
  BY <1>5, <1>6

(* The operation a thread is at is its own.                                *)
LEMMA OpAfterBy ==
  ASSUME ProgramsTyped, NEW p \in Programs, NEW h \in Seq(Runners), NEW t \in Runners
  PROVE  OpAfter(p, h, t).by = t
<1> DEFINE k == LastRun(h, t)
           g == SubSeq(h, 1, k)
<1>1. k \in 0..Len(h) /\ Len(h) \in Nat /\ (k > 0 => h[k] = t)
  BY LastRunProperties, LenProperties
<1> HIDE DEF k
<1>2. CASE k > 0
  <2>1. k \in 1..Len(h) /\ h[k] = t
    BY <1>1, <1>2
  <2>2. g \in Seq(Runners) /\ Len(g) = k /\ g[k] = h[k]
    BY <2>1, PrefixProperties
  <2>3. g # <<>> /\ Last(g) = t
    <3>1. Len(<<>>) = 0
      BY EmptySeq
    <3> QED
      BY <1>2, <2>1, <2>2, <3>1 DEF Last
  <2>4. WellTyped(p, g)
    BY <2>2, <2>3 DEF ProgramsTyped
  <2>5. OpAfter(p, h, t) = Message(p, g)
    BY <1>2, Zenon DEF OpAfter, k
  <2> HIDE DEF g
  <2>6. CodeOf(p, g).by = t
    BY <2>3, <2>4 DEF WellTyped
  <2>7. Message(p, g).by = CodeOf(p, g).by
    BY DEF Message, Transition
  <2> QED
    BY <2>5, <2>6, <2>7
<1>3. CASE ~ (k > 0)
  <2>1. OpAfter(p, h, t) = IF t < LiveIn(p) THEN FirstOp(p, t) ELSE Start(t)
    BY <1>3, Zenon DEF OpAfter, k
  <2>2. Start(t).by = t
    BY DEF Start, Transition
  <2>3. t < LiveIn(p) => FirstOp(p, t).by = t
    <3>1. LiveIn(p) \in Nat /\ t \in Nat
      BY CoordinatorAssumption, TransitionsAssumption DEF Runners
    <3>2. t < LiveIn(p) => t \in 0..(LiveIn(p) - 1)
      BY <3>1
    <3> QED
      BY <3>2 DEF ProgramsTyped, WellTypedFirst
  <2> QED
    BY <2>1, <2>2, <2>3
<1> QED
  BY <1>2, <1>3

(* At the end of a trace without a deadlock, a runner that was enabled at  *)
(* depth n has run since.                                                  *)
LEMMA EnabledHasRun ==
  ASSUME ProgramsTyped, IInv, err = "none", stack # <<>>, Last(stack).enabled = {}, ~ IsInDeadlock,
         NEW n \in 0..Depth, NEW t \in stack[n + 1].enabled
  PROVE  \E k \in (n + 1)..Depth :
           real[k] = t /\ \A j \in (n + 1)..(k - 1) : real[j] # t
<1>1. TypeOK /\ KnownInv /\ MatchInv /\ ThreadsInv /\ StackInv
  BY DEF IInv
<1>2. /\ Len(stack) = Depth + 1 /\ Depth \in Nat /\ DOMAIN stack = 1..(Depth + 1)
      /\ Current = seq[Depth + 1] /\ DOMAIN seq = 1..(Depth + 1) /\ real \in Seq(Runners)
      /\ DOMAIN trace = 1..Depth /\ stack \in Seq(Items) /\ n + 1 \in 1..(Depth + 1)
      /\ \A i \in 1..Depth : trace[i] \in Operations
      /\ \A i \in 1..(Depth + 1) : seq[i] \in Elements(objs)
  BY <1>1, TypeFacts
<1>3. t \in Runners /\ Enabled(seq[n + 1].st, OpAfter(prog, Past((n + 1) - 1), t))
  BY <1>1, <1>2 DEF StackInv
<1>4. \A i \in 1..Depth : real[i] = trace[i].by
  BY <1>1, <1>2 DEF MatchInv
<1>5. \E k \in (n + 1)..Depth : trace[k].by = t
  <2> SUFFICES ASSUME \A k \in (n + 1)..Depth : trace[k].by # t
               PROVE  FALSE
    OBVIOUS
  <2>1. EnabledRunners(Current.st, next) = {}
    <3> SUFFICES ASSUME NEW u \in Runners, next[u] # NoOp, Enabled(Current.st, next[u])
                 PROVE  FALSE
      BY DEF EnabledRunners
    <3>1. u \in Known
      BY DEF Known
    <3>2. next[u] = OpAfter(prog, real, u)
      BY <1>1, <3>1 DEF MatchInv
    <3>3. Past((Depth + 1) - 1) = real
      <4>1. (Depth + 1) - 1 = Len(real)
        BY <1>1, <1>2 DEF MatchInv
      <4> QED
        BY <1>2, <4>1, SubSeqFull DEF Past
    <3>4. Depth + 1 \in DOMAIN stack
      BY <1>2
    <3>5. stack[Depth + 1].enabled =
            {v \in Runners : Enabled(seq[Depth + 1].st, OpAfter(prog, Past((Depth + 1) - 1), v))}
      BY <1>1, <3>4 DEF StackInv
    <3>6. u \in stack[Depth + 1].enabled
      BY <1>2, <3>2, <3>3, <3>5
    <3> QED
      BY <1>2, <3>6 DEF Last
  <2>2. OpAfter(prog, Past((n + 1) - 1), t).by = t /\ seq[n + 1].st.thr[t] = "running"
    <3>1. seq[n + 1].st.thr[OpAfter(prog, Past((n + 1) - 1), t).by] = "running"
      BY <1>3 DEF Enabled, ApplyTo
    <3>2. prog \in Programs /\ Past((n + 1) - 1) \in Seq(Runners)
      <4>1. (n + 1) - 1 \in 0..Len(real)
        BY <1>1, <1>2 DEF MatchInv
      <4> QED
        BY <1>1, <1>2, <4>1, TypeFacts, PrefixProperties DEF Past
    <3>3. OpAfter(prog, Past((n + 1) - 1), t).by = t
      BY <1>3, <3>2, OpAfterBy
    <3> QED
      BY <3>1, <3>3
  <2>3. Current.st.thr[t] = "running"
    <3>1. n + 1 \in DOMAIN seq /\ Depth + 1 \in DOMAIN seq /\ n + 1 <= Depth + 1
          /\ (Depth + 1) - 1 = Depth
      BY <1>2
    <3> QED
      BY <1>1, <1>2, <1>3, <2>2, <3>1 DEF ThreadsInv
  <2>4. t \in Known
    <3>1. Depth + 1 \in DOMAIN seq
      BY <1>2
    <3> QED
      BY <1>1, <1>2, <1>3, <2>3, <3>1 DEF KnownInv
  <2> QED
    BY <2>1, <2>3, <2>4 DEF IsInDeadlock
<1> DEFINE R == {k \in (n + 1)..Depth : trace[k].by = t}
<1>6. R \subseteq Nat /\ R # {}
  BY <1>2, <1>5
<1>7. Min(R) \in R /\ \A y \in R : Min(R) <= y
  BY <1>6, MinOfIndices
<1>8. Min(R) \in (n + 1)..Depth /\ real[Min(R)] = t
  <2>1. Min(R) \in (n + 1)..Depth /\ trace[Min(R)].by = t /\ Min(R) \in 1..Depth
    BY <1>2, <1>7
  <2> QED
    BY <1>4, <2>1
<1>9. ASSUME NEW j \in (n + 1)..(Min(R) - 1)
      PROVE  real[j] # t
  <2>1. j \in (n + 1)..Depth /\ ~ (Min(R) <= j) /\ j \in 1..Depth
    BY <1>2, <1>8
  <2> QED
    BY <1>4, <1>7, <2>1
<1> QED
  BY <1>8, <1>9

(* A schedule that continues another one, up to a step of t.               *)
LEMMA ContinuedSchedule ==
  ASSUME NEW h \in Seq(Runners), NEW n \in 0..Len(h), NEW k \in (n + 1)..Len(h)
  PROVE  \E g \in Seq(Runners) :
           /\ SubSeq(h, 1, k) = Append(SubSeq(h, 1, n) \o g, h[k])
           /\ \A u \in ToSet(g) : \E j \in (n + 1)..(k - 1) : u = h[j]
<1>1. Len(h) \in Nat /\ k \in 1..Len(h) /\ k - 1 \in 0..Len(h) /\ k \in 0..Len(h)
  BY LenProperties
<1> DEFINE g == SubSeq(h, n + 1, k - 1)
           a == SubSeq(h, 1, n)
           b == a \o g
           c == Append(b, h[k])
           d == SubSeq(h, 1, k)
<1>2. a \in Seq(Runners) /\ Len(a) = n /\ \A i \in 1..n : a[i] = h[i]
  BY PrefixProperties
<1>3. d \in Seq(Runners) /\ Len(d) = k /\ \A i \in 1..k : d[i] = h[i]
  BY <1>1, PrefixProperties
<1>4. /\ g \in Seq(Runners) /\ Len(g) = (k - 1) - n
      /\ \A i \in 1..((k - 1) - n) : g[i] = h[n + i]
  BY <1>1, SubSeqProperties
<1> HIDE DEF g, a, d
<1>5. /\ b \in Seq(Runners) /\ Len(b) = k - 1
      /\ \A i \in 1..(k - 1) : b[i] = h[i]
  <2>1. /\ b \in Seq(Runners) /\ Len(b) = n + ((k - 1) - n)
        /\ \A i \in 1..(n + ((k - 1) - n)) : b[i] = IF i <= n THEN a[i] ELSE g[i - n]
    BY <1>2, <1>4, ConcatProperties
  <2> HIDE DEF b
  <2>2. n + ((k - 1) - n) = k - 1 /\ n \in Nat /\ k \in Nat
    BY <1>1
  <2>3. ASSUME NEW i \in 1..(k - 1)
        PROVE  b[i] = h[i]
    <3>1. CASE i <= n
      BY <1>2, <2>1, <2>2, <3>1
    <3>2. CASE ~ (i <= n)
      <4>1. i - n \in 1..((k - 1) - n) /\ n + (i - n) = i
        BY <2>2, <3>2
      <4>2. b[i] = g[i - n]
        BY <2>1, <2>2, <3>2
      <4> QED
        BY <1>4, <4>1, <4>2
    <3> QED
      BY <3>1, <3>2
  <2> QED
    BY <2>1, <2>2, <2>3
<1> HIDE DEF b
<1>6. h[k] \in Runners
  BY <1>1, ElementOfSeq
<1>7. c \in Seq(Runners) /\ Len(c) = k /\ \A i \in 1..k : c[i] = h[i]
  BY <1>1, <1>5, <1>6, AppendProperties
<1> HIDE DEF c
<1>8. c = d
  BY <1>3, <1>7, SeqEqual
<1>9. \A u \in ToSet(g) : \E j \in (n + 1)..(k - 1) : u = h[j]
  <2> SUFFICES ASSUME NEW u \in ToSet(g)
               PROVE  \E j \in (n + 1)..(k - 1) : u = h[j]
    OBVIOUS
  <2>1. PICK i \in DOMAIN g : u = g[i]
    BY DEF ToSet
  <2>2. DOMAIN g = 1..((k - 1) - n)
    BY <1>4, LenProperties
  <2>3. n + i \in (n + 1)..(k - 1) /\ u = h[n + i]
    BY <1>1, <1>4, <2>1, <2>2
  <2> QED
    BY <2>3
<1> QED
  BY <1>4, <1>8, <1>9 DEF a, b, c, d

(* Cutting back: there is no gap where a runner is left to search, and if  *)
(* two are left, what they will announce was found in the branch before.   *)
LEMMA ReturnSegments ==
  ASSUME ProgramsTyped, FirstUsesAreStable, IInv, UseInv, SearchInv, SegmentInv,
         NoThirdContender, NEW n \in 1..(Depth - 1), ReturnToDepth(n)
  PROVE  UseInv' /\ SegmentInv' /\ err' = "none"
<1>1. TypeOK /\ KnownInv /\ MatchInv
  BY DEF IInv
<1>2. /\ n \in 0..Depth /\ err = "none" /\ err' \in {"none", "out_of_range"}
      /\ prog' = prog /\ objs' = objs
      /\ real' = SubSeq(real, 1, n) /\ real' \in Seq(Runners) /\ Len(real') = n
      /\ \A i \in 0..n : SubSeq(real', 1, i) = SubSeq(real, 1, i)
      /\ DOMAIN trace' = 1..n
      /\ Len(seq') = n + 1 /\ \A i \in 1..(n + 1) : seq'[i] = seq[i]
      /\ Len(stack') = n + 1 /\ DOMAIN stack' = 1..(n + 1)
      /\ \A i \in 1..(n + 1) : stack'[i] = stack[i]
  BY <1>1, ReturnEffect
<1>3. /\ stack # <<>> /\ Last(stack).enabled = {}
      /\ stack[n + 1].enabled \ stack[n + 1].done # {}
      /\ err' = IF Gap(seq[n + 1]) THEN "out_of_range" ELSE "none"
  BY DEF ReturnToDepth, Exploring
<1>4. /\ Depth \in Nat /\ n \in Nat /\ Len(stack) = Depth + 1 /\ DOMAIN stack = 1..(Depth + 1)
      /\ n + 1 \in 1..(Depth + 1) /\ n + 1 < Depth + 1 /\ prog \in Programs
      /\ real \in Seq(Runners) /\ Len(real) = Depth /\ DOMAIN trace = 1..Depth
      /\ stack \in Seq(Items) /\ Len(objs) \in Nat
  BY <1>1, <1>2, <1>3, TypeFacts DEF MatchInv
<1>5. \A i \in 1..(Depth + 1) :
        /\ stack[i].done \subseteq stack[i].enabled
        /\ i < Depth + 1 => stack[i].done # {}
        /\ stack[i].enabled \ stack[i].done # {} => \E k \in 0..Len(objs) : seq[i].seen = 1..k
  BY <1>2, <1>4 DEF SearchInv, SegmentInv
<1>6. ~ Gap(seq[n + 1])
  <2>1. PICK k \in 0..Len(objs) : seq[n + 1].seen = 1..k
    BY <1>3, <1>4, <1>5
  <2>2. k \in Nat
    BY <1>4, <2>1
  <2>3. Cardinality(1..k) = k
    BY <2>2, FS_Interval
  <2> QED
    BY <2>1, <2>3 DEF Gap
<1>7. err' = "none"
  BY <1>3, <1>6
<1>8. \A k \in 1..Depth : Finds(CodeOf(prog, SubSeq(real, 1, k))) =>
        CodeOf(prog, SubSeq(real, 1, k)).obj \in ToSet(objs)
  BY <1>2, <1>4 DEF UseInv, Past, Mapped
<1>9. UseInv'
  <2> SUFFICES ASSUME NEW k \in 1..n, Finds(CodeOf(prog, SubSeq(real', 1, k)))
               PROVE  CodeOf(prog, SubSeq(real', 1, k)).obj \in ToSet(objs')
    BY <1>2 DEF UseInv, Past, Mapped
  <2>1. k \in 0..n /\ k \in 1..Depth
    BY <1>4
  <2> QED
    BY <1>2, <1>8, <2>1
<1>10. Last(stack') = stack[n + 1]
  <2>1. n + 1 \in 1..(n + 1)
    BY <1>4
  <2> QED
    BY <1>2, <2>1 DEF Last
<1>11. ASSUME NEW t \in stack[n + 1].enabled \ stack[n + 1].done,
              NEW u \in stack[n + 1].enabled \ stack[n + 1].done, t # u,
              Finds(CodeOf(prog, Append(real', t)))
       PROVE  CodeOf(prog, Append(real', t)).obj \in ToSet(objs)
  <2>1. stack[n + 1] \in Items
    BY <1>4, ElementOfSeq
  <2>2. t \in Runners
    BY <2>1 DEF Items
  <2>3. ~ IsInDeadlock
    <3> SUFFICES ASSUME IsInDeadlock
                 PROVE  FALSE
      OBVIOUS
    <3>1. PICK d \in stack[n + 1].done : TRUE
      BY <1>4, <1>5
    <3>2. d \in stack[n + 1].enabled /\ d # t /\ d # u
      BY <1>4, <1>5, <3>1
    <3>3. IsFiniteSet(stack[n + 1].enabled)
      <4>1. IsFiniteSet(Runners)
        BY TransitionsAssumption, FS_Interval DEF Runners
      <4>2. stack[n + 1].enabled \subseteq Runners
        BY <2>1 DEF Items
      <4> QED
        BY <4>1, <4>2, FS_Subset
    <3>4. ~ (Cardinality(stack[n + 1].enabled) <= 2)
      BY <1>11, <3>2, <3>3, ThreeMembers
    <3> QED
      BY <1>4, <3>4 DEF NoThirdContender
  <2>4. PICK k \in (n + 1)..Depth :
          real[k] = t /\ \A j \in (n + 1)..(k - 1) : real[j] # t
    BY <1>2, <1>3, <2>3, EnabledHasRun
  <2>5. k \in (n + 1)..Len(real) /\ n \in 0..Len(real) /\ k \in 1..Depth
    BY <1>2, <1>4, <2>4
  <2>6. PICK g \in Seq(Runners) :
           /\ SubSeq(real, 1, k) = Append(SubSeq(real, 1, n) \o g, real[k])
           /\ \A v \in ToSet(g) : \E j \in (n + 1)..(k - 1) : v = real[j]
    BY <1>4, <2>5, ContinuedSchedule
  <2>7. t \notin ToSet(g) /\ SubSeq(real, 1, k) = Append(real' \o g, t)
    BY <1>2, <2>4, <2>6
  <2>8. CASE FirstUse(prog, Append(real', t))
    <3>1. /\ Finds(CodeOf(prog, Append(real' \o g, t)))
          /\ CodeOf(prog, Append(real' \o g, t)).obj = CodeOf(prog, Append(real', t)).obj
      <4>1. SameFirstUse(prog, real', g, t)
        BY <1>2, <1>4, <2>2, <2>6, Zenon DEF FirstUsesAreStable
      <4> QED
        BY <2>7, <2>8, <4>1, Zenon DEF SameFirstUse
    <3> QED
      BY <1>8, <2>5, <2>7, <3>1
  <2>9. CASE ~ FirstUse(prog, Append(real', t))
    <3> DEFINE h == Append(real', t)
    <3>1. Len(h) = n + 1 /\ \A i \in 0..n : SubSeq(h, 1, i) = SubSeq(real', 1, i)
      BY <1>2, <2>2, AppendProperties, PrefixOfAppend
    <3> HIDE DEF h
    <3>2. PICK i \in 1..(Len(h) - 1) :
            /\ Finds(CodeOf(prog, SubSeq(h, 1, i)))
            /\ CodeOf(prog, SubSeq(h, 1, i)).obj = CodeOf(prog, h).obj
      BY <1>11, <2>9 DEF FirstUse, h
    <3>3. i \in 0..n /\ i \in 1..Depth
      BY <1>4, <3>1, <3>2
    <3>4. SubSeq(h, 1, i) = SubSeq(real, 1, i)
      BY <1>2, <3>1, <3>3
    <3> QED
      BY <1>8, <3>2, <3>3, <3>4 DEF h
  <2> QED
    BY <2>8, <2>9
<1>12. ASSUME NEW i \in 1..(n + 1), stack'[i].enabled \ stack'[i].done # {}
       PROVE  \E k \in 0..Len(objs') : seq'[i].seen = 1..k
  <2>1. i \in 1..(Depth + 1)
    BY <1>4
  <2> QED
    BY <1>2, <1>5, <1>12, <2>1
<1>13. SegmentInv'
  BY <1>2, <1>10, <1>11, <1>12 DEF SegmentInv, FindsNothing, Mapped
<1> QED
  BY <1>7, <1>9, <1>13

(* No step fails with an internal error, unless a deadlock has left three  *)
(* contenders behind.                                                      *)
LEMMA NextSegments ==
  ASSUME ProgramsTyped, MainCreatesThreads, FirstUsesAreStable, IInv, UseInv, SearchInv,
         SegmentInv, HandlesRemainValid, NoThirdContender, [Next]_vars
  PROVE  UseInv' /\ SegmentInv' /\ HandlesRemainValid'
<1>1. TypeOK
  BY DEF IInv
<1>2. err # "disabled" /\ err' # "disabled"
  BY NextInvariant DEF HandlesRemainValid, Failures
<1>3. err \notin {"rebind", "invalid_rid", "out_of_range"}
  BY DEF HandlesRemainValid, Failures
<1>4. SUFFICES UseInv' /\ SegmentInv' /\ err' \notin {"rebind", "invalid_rid", "out_of_range"}
  BY <1>2 DEF HandlesRemainValid, Failures
<1>5. CASE Explore
  <2> DEFINE t == Min(Last(stack).enabled)
             result == AfterStep(Message(prog, Append(real, t)))
  <2>1. /\ Exploring /\ Last(stack).enabled # {} /\ ExecuteRunner(t, result)
        /\ Last(stack).done = {}
    BY <1>5 DEF Explore, CanExplore
  <2>2. result \in {"none", "terminated"}
    BY DEF AfterStep
  <2>3. t \in Last(stack).enabled /\ (Main \in Last(stack).enabled => t = Main)
    BY <1>1, <2>1, FirstIsMain DEF Exploring
  <2> HIDE DEF t, result
  <2> QED
    BY <2>1, <2>2, <2>3, ExecuteSearch, ExecuteSegments
<1>6. CASE LimitReached \/ Hang
  <2>1. err' \in {"limit", "hang"}
    BY <1>6 DEF LimitReached, Hang
  <2> QED
    BY <2>1 DEF UseInv, SegmentInv
<1>7. ASSUME NEW n \in 1..(Depth - 1), ReturnToDepth(n)
      PROVE  UseInv' /\ SegmentInv' /\ err' = "none"
  BY <1>7, ReturnSegments
<1>8. CASE Backtrack
  <2>1. PICK t \in Last(stack).enabled \ Last(stack).done : ExecuteRunner(t, "none")
    BY <1>8 DEF Backtrack
  <2>2. Exploring /\ Last(stack).done # {}
    BY <1>8 DEF Backtrack
  <2> QED
    BY <2>1, <2>2, ExecuteSearch, ExecuteSegments
<1>9. CASE Finish
  <2>1. UNCHANGED <<prog, real, trace, objs, seq, next, err>> /\ stack' = <<>>
    BY <1>9 DEF Finish
  <2>2. DOMAIN stack' = {}
    BY <2>1
  <2>3. UseInv'
    BY <2>1 DEF UseInv, Past, Mapped
  <2>4. SegmentInv'
    BY <2>1, <2>2 DEF SegmentInv
  <2> QED
    BY <1>3, <2>1, <2>3, <2>4
<1>10. CASE UNCHANGED vars
  <2>1. UNCHANGED <<prog, real, trace, objs, seq, next, stack, err>>
    BY <1>10 DEF vars
  <2>2. UseInv'
    BY <2>1 DEF UseInv, Past, Mapped
  <2>3. SegmentInv'
    BY <2>1 DEF SegmentInv, FindsNothing, Mapped
  <2> QED
    BY <1>3, <2>1, <2>2, <2>3
<1> QED
  BY <1>5, <1>6, <1>7, <1>8, <1>9, <1>10 DEF Next

(* The handles of earlier branches stay valid: of programs whose main      *)
(* thread creates the threads, and whose threads find the same objects on  *)
(* all schedules, neither translating a message nor cutting back the model *)
(* fails, as long as no deadlock is met in which three threads contend.    *)
THEOREM HandlesStayValid ==
  ASSUME ProgramsTyped, MainCreatesThreads, FirstUsesAreStable
  PROVE  Spec /\ []NoThirdContender => []HandlesRemainValid
<1>1. Init => UseInv /\ SearchInv /\ SegmentInv /\ HandlesRemainValid
  BY InitSearch
<1>2. IInv /\ SearchInv /\ [Next]_vars => SearchInv'
  BY NextSearch
<1>3. IInv /\ UseInv /\ SearchInv /\ SegmentInv /\ HandlesRemainValid /\ NoThirdContender
        /\ [Next]_vars
        => UseInv' /\ SegmentInv' /\ HandlesRemainValid'
  BY NextSegments
<1> QED
  BY <1>1, <1>2, <1>3, Invariance, PTL DEF Spec
=============================================================================
