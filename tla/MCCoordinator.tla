---------------------------- MODULE MCCoordinator ----------------------------
(* Instances of Coordinator for TLC: small target programs.  A thread's    *)
(* code is the sequence of operations it announces; it starts over after   *)
(* the last one, unless that one ends the thread.                          *)
EXTENDS Coordinator

CONSTANTS m1, m2, m3, s1, s2   \* m3: without a static initializer

Op(kind, obj) == [kind |-> kind, obj |-> obj]
Exit == Op("exit", NoRunner)
Create == Op("create", NoRunner)
Return == Op("process_exit", NoRunner)
Critical(m) == <<Op("lock", m), Op("unlock", m)>>

Ends == {"exit", "process_exit", "exit_failure", "abort"}
Nth(code, k) ==
  IF k <= Len(code) THEN code[k]
  ELSE IF Last(code).kind \in Ends THEN Last(code)
  ELSE code[((k - 1) % Len(code)) + 1]

\* A program that starts from main, or from a checkpoint with `live` threads at
\* their first operations.
FromMain(code) == [live |-> 1, restored |-> 0, reuse |-> FALSE, code |-> code]
FromCheckpoint(live, code) ==
  [live |-> live, restored |-> 1, reuse |-> FALSE, code |-> code]

\* A program whose threads have stacks of the same size: one that is created when
\* another one has been joined gets its handle.
Reusing(code) == [FromMain(code) EXCEPT !.reuse = TRUE]

MCLiveIn(p) == p.live
MCFirstOp(p, t) ==
  IF p.restored = 0 THEN Start(t)
  ELSE Transition(t, p.code[t + 1][1].kind, p.code[t + 1][1].obj)
Announced(p, h) ==
  LET t == Last(h)
      runs == Cardinality({i \in DOMAIN h : h[i] = t})
      code == IF t < Len(p.code) THEN p.code[t + 1] ELSE <<Exit>>
      o == Nth(code, runs + IF t < p.live THEN p.restored ELSE 0)
  IN  Transition(t, o.kind, o.obj)

\* (TLC evaluates the schedule once.)
MCCodeOf(p, h) == CHOOSE op \in {Announced(p, g) : g \in {h}} : TRUE

MCHandleOf(p, h) ==
  LET t == Last(h)
      runs == Cardinality({i \in DOMAIN h : h[i] = t})
      joined == {p.code[t + 1][i].obj :
                   i \in {i \in 1..(runs - 1) : p.code[t + 1][i].kind = "join"}}
  IN  IF p.reuse /\ joined # {} THEN Min(joined) ELSE Born(p, h) - 1

\* Main creates all threads.
MutualExclusion ==
  << <<Create>> \o Critical(m1) \o <<Op("join", 1), Return>>,
     Critical(m1) \o <<Exit>> >>
Handshake ==
  << <<Op("sem_init", s1), Create, Op("sem_wait", s1), Return>>,
     <<Op("sem_post", s1), Exit>> >>
LockOrder ==
  << <<Create, Op("lock", m1), Op("lock", m2), Op("unlock", m2), Op("unlock", m1), Return>>,
     <<Op("lock", m2), Op("lock", m1), Op("unlock", m1), Op("unlock", m2), Exit>> >>
ThreeThreads ==
  << <<Create, Create, Op("join", 1), Op("join", 2), Return>>,
     Critical(m1) \o <<Exit>>,
     Critical(m1) \o <<Exit>> >>
CreatesLate ==
  << <<Create>> \o Critical(m1) \o <<Create, Return>>,
     Critical(m1) \o <<Exit>>,
     <<Exit>> >>
Contention ==
  << <<Create, Create>> \o Critical(m1) \o <<Return>>,
     <<Op("lock", m2), Op("lock", m1), Exit>>,
     <<Op("lock", m2), Exit>> >>
Aborts ==
  << <<Create>> \o Critical(m1) \o <<Return>>,
     <<Op("lock", m1), Op("abort", NoRunner)>> >>
Fails ==
  << <<Create, Op("sem_init", s1), Op("sem_wait", s1), Op("exit_failure", NoRunner)>>,
     <<Op("lock", m1), Exit>> >>
Loops == << <<Create, Return>>, Critical(m1) >>
Initializes ==
  << <<Op("mutex_init", m3), Create>> \o Critical(m3) \o <<Return>>,
     Critical(m3) \o <<Exit>> >>
LocksGarbage == << <<Create, Return>>, <<Op("lock", m3), Exit>> >>
Destroys ==
  << <<Op("sem_init", s1), Create, Op("sem_destroy", s1), Return>>,
     <<Op("sem_post", s1), Exit>> >>
UnlocksFirst == << <<Create, Return>>, <<Op("unlock", m1), Exit>> >>

\* Two threads, one after the other.
OneByOne ==
  << <<Create, Op("join", 1), Create>> \o Critical(m1) \o <<Return>>,
     Critical(m1) \o <<Exit>>,
     Critical(m1) \o <<Exit>> >>

\* Two threads that a checkpoint found at a lock, a third one to be created.
Restored ==
  << Critical(m1) \o <<Create, Return>>,
     Critical(m1) \o <<Exit>>,
     <<Exit>> >>

MainCreatesAll ==
  {FromMain(c) : c \in {MutualExclusion, Handshake, LockOrder, ThreeThreads,
                        CreatesLate, Contention, Aborts, Fails, Loops,
                        Initializes, LocksGarbage, Destroys, UnlocksFirst, OneByOne}}
    \cup {FromCheckpoint(2, Restored), Reusing(OneByOne)}

\* They meet the assumptions of the proofs.
Schedules == BoundedSeq(Runners, 4)
ASSUME ProgramsWellTyped ==
  \A p \in MainCreatesAll :
    /\ \A t \in 0..(MCLiveIn(p) - 1) : WellTypedFirst(p, t)
    /\ \A h \in Schedules :
         /\ h # <<>> => WellTyped(p, h) /\ (p.reuse \/ FreshHandle(p, h))
         /\ \A t \in Runners : EndsForGood(p, h, t)
         /\ MainCreates(p, h)
         /\ \A g \in Schedules :
              /\ CreatesBeforeReturn(p, h, g)
              /\ \A t \in Runners : SameFirstUse(p, h, g, t)

\* Three threads meet at a mutex.  The first to get it finds a new mutex and
\* deadlocks, the second finds another one.
Meet ==
  { FromMain(<< <<Op("sem_init", s1), Op("sem_init", s2), Create, Create, Create,
                  Op("join", 1), Return>>,
                <<Op("sem_wait", s1), Op("lock", m1), Op("sem_post", s1),
                  Op("lock", m2), Op("lock", m1), Exit>>,
                <<Op("sem_wait", s2), Op("sem_post", s1), Op("lock", m1),
                  Op("mutex_init", m3), Exit>>,
                <<Op("sem_post", s2), Op("lock", m1), Exit>> >>) }

\* Main leaves with pthread_exit.
MainExits == { FromMain(<< <<Create, Exit>>, Critical(m1) \o <<Exit>> >>) }
=============================================================================
