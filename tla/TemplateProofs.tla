--------------------------- MODULE TemplateProofs ---------------------------
(***************************************************************************)
(* Proofs about the making of branch processes, for every process source,  *)
(* number of branches and set of faults.  One lemma per action shows that  *)
(* it preserves the inductive invariant.                                   *)
(***************************************************************************)
EXTENDS Template, FiniteSetTheorems, TLAPS

USE TemplateAssumption DEF TemplateAssumption, Pids, NoProcess, NoPid, TEMPLATE_FORK_FAILED,
    TemplatePid, Failures, At, Goto, Forking, mcmini, signals, shared, template, branches

(* The destructor of a restarted branch's handle reaps the last branch.     *)
LEMMA ReapKeeps ==
  ASSUME IInv, NEW p \in Pids, Reap(p)
  PROVE  IInv'
<1>1. TypeOK'
  BY DEF IInv, TypeOK, Reap
<1>2. (Forking => SignalInv')
  BY DEF IInv, SignalInv, Reap
<1>3. BirthInv'
  BY DEF IInv, TypeOK, BirthInv, RequestInv, RestartInv, Forked, Born, Reap
<1>4. NeedsInv'
  BY DEF IInv, TypeOK, NeedsInv, ChildInv, BirthInv, RestartInv, RequestInv, Born,
       Reap
<1>5. StateSentOnce'
  BY DEF IInv, TypeOK, StateSentOnce, BirthInv, NeedsInv, RestartInv, Born, Reap
<1>6. HandleIsFresh'
  BY DEF IInv, TypeOK, HandleIsFresh, BirthInv, RequestInv, RestartInv, ChildInv,
       Answered, Forked, Published, Live, Newest, Born, Reap
<1>7. DeathIsReal'
  BY DEF IInv, TypeOK, DeathIsReal, BirthInv, SignalInv, RestartInv, Reap
<1>8. Forking => ChildInv'
  BY DEF IInv, TypeOK, ChildInv, BirthInv, RequestInv, Born, Reap
<1>9. Forking => RequestInv'
  BY DEF IInv, TypeOK, RequestInv, BirthInv, ChildInv, TokenInv, Answered, Forked,
       Published, Born, Reap
<1>10. Forking => TokenInv'
  BY DEF IInv, TypeOK, TokenInv, BirthInv, RequestInv, ChildInv, Answered, Forked,
       Published, Born, Reap
<1>11. ~Forking => RestartInv'
  BY DEF IInv, TypeOK, RestartInv, BirthInv, Born, Reap
<1> QED
  BY <1>1, <1>2, <1>3, <1>4, <1>5, <1>6, <1>7, <1>8, <1>9, <1>10, <1>11 DEF IInv,
       Reap

(* A restarted branch is the only one that is not reaped, and the first of  *)
(* them takes MCMINI_NEEDS_STATE with it.                                   *)
LEMMA LaunchBranchKeeps ==
  ASSUME IInv, NEW p \in Pids, LaunchBranch(p)
  PROVE  IInv'
<1>1. TypeOK'
  <2>1. branch' \in [Pids -> {"unborn", "starting", "alive", "dead", "reaped"}]
    BY DEF IInv, TypeOK, LaunchBranch
  <2>2. tries' \in 0..MaxBranches
    BY DEF IInv, TypeOK, LaunchBranch
  <2>3. transfers' \subseteq Pids /\ needs' \in BOOLEAN
    BY DEF IInv, TypeOK, LaunchBranch
  <2> QED
    BY <2>1, <2>2, <2>3 DEF IInv, TypeOK, LaunchBranch
<1>2. (Forking => SignalInv')
  BY DEF IInv, SignalInv, LaunchBranch
<1>3. BirthInv'
  BY DEF IInv, TypeOK, BirthInv, RequestInv, RestartInv, Forked, Born, LaunchBranch
<1>4. NeedsInv'
  BY DEF IInv, TypeOK, NeedsInv, ChildInv, BirthInv, RestartInv, RequestInv, Born,
       LaunchBranch
<1>5. StateSentOnce'
  BY DEF IInv, TypeOK, StateSentOnce, BirthInv, NeedsInv, RestartInv, Born,
       LaunchBranch
<1>6. HandleIsFresh'
  BY DEF IInv, TypeOK, HandleIsFresh, BirthInv, RequestInv, RestartInv, ChildInv,
       Answered, Forked, Published, Live, Newest, Born, LaunchBranch
<1>7. DeathIsReal'
  BY DEF IInv, TypeOK, DeathIsReal, BirthInv, SignalInv, RestartInv, LaunchBranch
<1>8. Forking => ChildInv'
  BY DEF IInv, TypeOK, ChildInv, BirthInv, RequestInv, Born, LaunchBranch
<1>9. Forking => RequestInv'
  BY DEF IInv, TypeOK, RequestInv, BirthInv, ChildInv, TokenInv, Answered, Forked,
       Published, Born, LaunchBranch
<1>10. Forking => TokenInv'
  BY DEF IInv, TypeOK, TokenInv, BirthInv, RequestInv, ChildInv, Answered, Forked,
       Published, Born, LaunchBranch
<1>11. ~Forking => RestartInv'
  BY DEF IInv, TypeOK, RestartInv, BirthInv, Born, LaunchBranch
<1> QED
  BY <1>1, <1>2, <1>3, <1>4, <1>5, <1>6, <1>7, <1>8, <1>9, <1>10, <1>11 DEF IInv,
       LaunchBranch

(* Without a template a count of SIGCHLD proves nothing, and none is needed.*)
LEMMA ConsumeExpectedKeeps ==
  ASSUME IInv, ConsumeExpected
  PROVE  IInv'
<1>1. TypeOK'
  BY DEF IInv, TypeOK, ConsumeExpected
<1>2. BirthInv' /\ NeedsInv' /\ StateSentOnce'
      /\ (Forking => ChildInv')
  BY DEF IInv, BirthInv, NeedsInv, StateSentOnce, ChildInv, Born, ConsumeExpected
<1>3. HandleIsFresh'
  BY DEF IInv, TypeOK, HandleIsFresh, BirthInv, RequestInv, RestartInv, ChildInv,
       Answered, Forked, Published, Live, Newest, Born, ConsumeExpected
<1>4. DeathIsReal'
  BY DEF IInv, TypeOK, DeathIsReal, BirthInv, SignalInv, RestartInv, ConsumeExpected
<1>5. Forking => RequestInv'
  BY DEF IInv, TypeOK, RequestInv, BirthInv, ChildInv, TokenInv, Answered, Forked,
       Published, Born, ConsumeExpected
<1>6. Forking => TokenInv'
  BY DEF IInv, TypeOK, TokenInv, BirthInv, RequestInv, ChildInv, Answered, Forked,
       Published, Born, ConsumeExpected
<1>7. Forking => SignalInv'
  BY DEF IInv, TypeOK, SignalInv, BirthInv, ChildInv, RequestInv, ConsumeExpected
<1>8. ~Forking => RestartInv'
  BY DEF IInv, TypeOK, RestartInv, BirthInv, Born, ConsumeExpected
<1> QED
  BY <1>1, <1>2, <1>3, <1>4, <1>5, <1>6, <1>7, <1>8 DEF IInv, ConsumeExpected

(* A new branch is forked from the template, if there is one.               *)
LEMMA ResetMailboxesKeeps ==
  ASSUME IInv, ResetMailboxes
  PROVE  IInv'
<1>1. TypeOK'
  BY DEF IInv, TypeOK, ResetMailboxes
<1>2. BirthInv' /\ NeedsInv' /\ StateSentOnce'
      /\ (Forking => ChildInv' /\ SignalInv')
  BY DEF IInv, BirthInv, NeedsInv, StateSentOnce, ChildInv, SignalInv, Born,
       ResetMailboxes
<1>3. HandleIsFresh'
  BY DEF IInv, TypeOK, HandleIsFresh, BirthInv, RequestInv, RestartInv, ChildInv,
       Answered, Forked, Published, Live, Newest, Born, ResetMailboxes
<1>4. DeathIsReal'
  BY DEF IInv, TypeOK, DeathIsReal, BirthInv, SignalInv, RestartInv, ResetMailboxes
<1>5. Forking => RequestInv'
  BY DEF IInv, TypeOK, RequestInv, BirthInv, ChildInv, TokenInv, Answered, Forked,
       Published, Born, ResetMailboxes
<1>6. Forking => TokenInv'
  BY DEF IInv, TypeOK, TokenInv, BirthInv, RequestInv, ChildInv, Answered, Forked,
       Published, Born, ResetMailboxes
<1>7. ~Forking => RestartInv'
  BY DEF IInv, TypeOK, RestartInv, BirthInv, Born, ResetMailboxes
<1> QED
  BY <1>1, <1>2, <1>3, <1>4, <1>5, <1>6, <1>7 DEF IInv, ResetMailboxes

(* The template is launched once: McMini gives up when it has lost one.     *)
LEMMA LaunchTemplateKeeps ==
  ASSUME IInv, LaunchTemplate
  PROVE  IInv'
<1>1. TypeOK'
  BY DEF IInv, TypeOK, LaunchTemplate
<1>2. BirthInv' /\ StateSentOnce'
  BY DEF IInv, BirthInv, StateSentOnce, Born, LaunchTemplate
<1>3. NeedsInv'
  BY DEF IInv, TypeOK, NeedsInv, ChildInv, BirthInv, RestartInv, RequestInv, Born,
       LaunchTemplate
<1>4. HandleIsFresh'
  BY DEF IInv, TypeOK, HandleIsFresh, BirthInv, RequestInv, RestartInv, ChildInv,
       Answered, Forked, Published, Live, Newest, Born, LaunchTemplate
<1>5. DeathIsReal'
  BY DEF IInv, TypeOK, DeathIsReal, BirthInv, SignalInv, RestartInv, LaunchTemplate
<1>6. Forking => ChildInv'
  BY DEF IInv, TypeOK, ChildInv, BirthInv, RequestInv, Born, LaunchTemplate
<1>7. Forking => RequestInv'
  BY DEF IInv, TypeOK, RequestInv, BirthInv, ChildInv, TokenInv, Answered, Forked,
       Published, Born, LaunchTemplate
<1>8. Forking => TokenInv'
  BY DEF IInv, TypeOK, TokenInv, BirthInv, RequestInv, ChildInv, Answered, Forked,
       Published, Born, LaunchTemplate
<1>9. Forking => SignalInv'
  BY DEF IInv, TypeOK, SignalInv, BirthInv, ChildInv, RequestInv, LaunchTemplate
<1>10. ~Forking => RestartInv'
  BY DEF IInv, TypeOK, RestartInv, BirthInv, Born, LaunchTemplate
<1> QED
  BY <1>1, <1>2, <1>3, <1>4, <1>5, <1>6, <1>7, <1>8, <1>9, <1>10 DEF IInv,
       LaunchTemplate

(* A post that was not the template's was preceded by a count of SIGCHLD,   *)
(* which the next check finds.                                              *)
LEMMA StabilizeKeeps ==
  ASSUME IInv, Stabilize
  PROVE  IInv'
<1>1. TypeOK'
  <2>1. mpc' \in {"check", "set_sem", "read", "template_died"}
    BY DEF IInv, TypeOK, Stabilize
  <2>2. hasTpl' \in BOOLEAN
    BY DEF IInv, TypeOK, Stabilize
  <2>3. psem' \in Nat
    BY DEF IInv, TypeOK, Stabilize
  <2> QED
    BY <2>1, <2>2, <2>3 DEF IInv, TypeOK, Stabilize
<1>2. BirthInv' /\ NeedsInv' /\ StateSentOnce'
      /\ (Forking => ChildInv' /\ SignalInv')
  BY DEF IInv, BirthInv, NeedsInv, StateSentOnce, ChildInv, SignalInv, Born,
       Stabilize
<1>3. HandleIsFresh'
  BY DEF IInv, TypeOK, HandleIsFresh, BirthInv, RequestInv, RestartInv, ChildInv,
       Answered, Forked, Published, Live, Newest, Born, Stabilize
<1>4. DeathIsReal'
  BY DEF IInv, TypeOK, DeathIsReal, BirthInv, SignalInv, RestartInv, Stabilize
<1>5. Forking => RequestInv'
  BY DEF IInv, TypeOK, RequestInv, BirthInv, ChildInv, TokenInv, Answered, Forked,
       Published, Born, Stabilize
<1>6. Forking => TokenInv'
  BY DEF IInv, TypeOK, TokenInv, BirthInv, RequestInv, ChildInv, Answered, Forked,
       Published, Born, Stabilize
<1>7. ~Forking => RestartInv'
  BY DEF IInv, TypeOK, RestartInv, BirthInv, Born, Stabilize
<1> QED
  BY <1>1, <1>2, <1>3, <1>4, <1>5, <1>6, <1>7 DEF IInv, Stabilize

(* With no SIGCHLD counted, the post McMini has taken was the answer.       *)
LEMMA CheckSignalKeeps ==
  ASSUME IInv, CheckSignal
  PROVE  IInv'
<1>1. TypeOK'
  <2>1. mpc' \in {"check", "set_sem", "read", "template_died"}
    BY DEF IInv, TypeOK, CheckSignal
  <2>2. hasTpl' \in BOOLEAN
    BY DEF IInv, TypeOK, CheckSignal
  <2>3. flags' \in Nat
    BY DEF IInv, TypeOK, CheckSignal
  <2> QED
    BY <2>1, <2>2, <2>3 DEF IInv, TypeOK, CheckSignal
<1>2. BirthInv' /\ NeedsInv' /\ StateSentOnce'
      /\ (Forking => ChildInv')
  BY DEF IInv, BirthInv, NeedsInv, StateSentOnce, ChildInv, Born, CheckSignal
<1>3. HandleIsFresh'
  BY DEF IInv, TypeOK, HandleIsFresh, BirthInv, RequestInv, RestartInv, ChildInv,
       Answered, Forked, Published, Live, Newest, Born, CheckSignal
<1>4. DeathIsReal'
  BY DEF IInv, TypeOK, DeathIsReal, BirthInv, SignalInv, RestartInv, CheckSignal
<1>5. Forking => RequestInv'
  BY DEF IInv, TypeOK, RequestInv, BirthInv, ChildInv, TokenInv, Answered, Forked,
       Published, Born, CheckSignal
<1>6. Forking => TokenInv'
  BY DEF IInv, TypeOK, TokenInv, BirthInv, RequestInv, ChildInv, Answered, Forked,
       Published, Born, CheckSignal
<1>7. Forking => SignalInv'
  BY DEF IInv, TypeOK, SignalInv, BirthInv, ChildInv, RequestInv, CheckSignal
<1>8. ~Forking => RestartInv'
  BY DEF IInv, TypeOK, RestartInv, BirthInv, Born, CheckSignal
<1> QED
  BY <1>1, <1>2, <1>3, <1>4, <1>5, <1>6, <1>7, <1>8 DEF IInv, CheckSignal

(* From here on a SIGCHLD is posted where McMini waits.                     *)
LEMMA SetSemKeeps ==
  ASSUME IInv, SetSem
  PROVE  IInv'
<1>1. TypeOK'
  BY DEF IInv, TypeOK, SetSem
<1>2. BirthInv' /\ NeedsInv' /\ StateSentOnce'
      /\ (Forking => ChildInv' /\ SignalInv')
  BY DEF IInv, BirthInv, NeedsInv, StateSentOnce, ChildInv, SignalInv, Born, SetSem
<1>3. HandleIsFresh'
  BY DEF IInv, TypeOK, HandleIsFresh, BirthInv, RequestInv, RestartInv, ChildInv,
       Answered, Forked, Published, Live, Newest, Born, SetSem
<1>4. DeathIsReal'
  BY DEF IInv, TypeOK, DeathIsReal, BirthInv, SignalInv, RestartInv, SetSem
<1>5. Forking => RequestInv'
  BY DEF IInv, TypeOK, RequestInv, BirthInv, ChildInv, TokenInv, Answered, Forked,
       Published, Born, SetSem
<1>6. Forking => TokenInv'
  BY DEF IInv, TypeOK, TokenInv, BirthInv, RequestInv, ChildInv, Answered, Forked,
       Published, Born, SetSem
<1>7. ~Forking => RestartInv'
  BY DEF IInv, TypeOK, RestartInv, BirthInv, Born, SetSem
<1> QED
  BY <1>1, <1>2, <1>3, <1>4, <1>5, <1>6, <1>7 DEF IInv, SetSem

(* A request finds the previous one answered.                               *)
LEMMA RequestForkKeeps ==
  ASSUME IInv, RequestFork
  PROVE  IInv'
<1>1. TypeOK'
  BY DEF IInv, TypeOK, RequestFork, ChildInv, RequestInv, RestartInv
<1>2. BirthInv' /\ NeedsInv' /\ StateSentOnce'
      /\ (Forking => ChildInv' /\ SignalInv')
  BY DEF IInv, BirthInv, NeedsInv, StateSentOnce, ChildInv, SignalInv, Born,
       RequestFork
<1>3. HandleIsFresh'
  BY DEF IInv, TypeOK, HandleIsFresh, BirthInv, RequestInv, RestartInv, ChildInv,
       Answered, Forked, Published, Live, Newest, Born, RequestFork
<1>4. DeathIsReal'
  BY DEF IInv, TypeOK, DeathIsReal, BirthInv, SignalInv, RestartInv, RequestFork
<1>5. Forking => RequestInv'
  BY DEF IInv, TypeOK, RequestInv, BirthInv, ChildInv, TokenInv, Answered, Forked,
       Published, Born, RequestFork
<1>6. Forking => TokenInv'
  BY DEF IInv, TypeOK, TokenInv, BirthInv, RequestInv, ChildInv, Answered, Forked,
       Published, Born, RequestFork
<1>7. ~Forking => RestartInv'
  BY DEF IInv, TypeOK, RestartInv, BirthInv, Born, RequestFork
<1> QED
  BY <1>1, <1>2, <1>3, <1>4, <1>5, <1>6, <1>7 DEF IInv, RequestFork

(* One token is taken: the answer, unless a SIGCHLD has been counted.       *)
LEMMA AwaitAnswerKeeps ==
  ASSUME IInv, AwaitAnswer
  PROVE  IInv'
<1>1. TypeOK'
  BY DEF IInv, TypeOK, AwaitAnswer, RestartInv
<1>2. BirthInv' /\ NeedsInv' /\ StateSentOnce'
      /\ (Forking => ChildInv' /\ SignalInv')
  BY DEF IInv, BirthInv, NeedsInv, StateSentOnce, ChildInv, SignalInv, Born,
       AwaitAnswer
<1>3. HandleIsFresh'
  BY DEF IInv, TypeOK, HandleIsFresh, BirthInv, RequestInv, RestartInv, ChildInv,
       Answered, Forked, Published, Live, Newest, Born, AwaitAnswer
<1>4. DeathIsReal'
  BY DEF IInv, TypeOK, DeathIsReal, BirthInv, SignalInv, RestartInv, AwaitAnswer
<1>5. Forking => RequestInv'
  BY DEF IInv, TypeOK, RequestInv, BirthInv, ChildInv, TokenInv, Answered, Forked,
       Published, Born, AwaitAnswer
<1>6. Forking => TokenInv'
  BY DEF IInv, TypeOK, TokenInv, BirthInv, RequestInv, ChildInv, Answered, Forked,
       Published, Born, AwaitAnswer
<1>7. ~Forking => RestartInv'
  BY DEF IInv, TypeOK, RestartInv, BirthInv, Born, AwaitAnswer
<1> QED
  BY <1>1, <1>2, <1>3, <1>4, <1>5, <1>6, <1>7 DEF IInv, AwaitAnswer

(* The pid read is that of the last fork.                                   *)
LEMMA ReadPidKeeps ==
  ASSUME IInv, ReadPid
  PROVE  IInv'
<1>1. TypeOK'
  <2>1. mpc' \in {"fork_failed", "explore"}
    BY DEF IInv, TypeOK, ReadPid
  <2>2. handle' \in Pids \cup {NoPid, NoProcess}
    BY DEF IInv, TypeOK, ReadPid, RequestInv, RestartInv, Answered, Forked, Published, Born
  <2> QED
    BY <2>1, <2>2 DEF IInv, TypeOK, ReadPid
<1>2. BirthInv' /\ NeedsInv' /\ StateSentOnce'
      /\ (Forking => ChildInv' /\ SignalInv')
  BY DEF IInv, BirthInv, NeedsInv, StateSentOnce, ChildInv, SignalInv, Born, ReadPid
<1>3. HandleIsFresh'
  BY DEF IInv, TypeOK, HandleIsFresh, BirthInv, RequestInv, RestartInv, ChildInv,
       Answered, Forked, Published, Live, Newest, Born, ReadPid
<1>4. DeathIsReal'
  BY DEF IInv, TypeOK, DeathIsReal, BirthInv, SignalInv, RestartInv, ReadPid
<1>5. Forking => RequestInv'
  BY DEF IInv, TypeOK, RequestInv, BirthInv, ChildInv, TokenInv, Answered, Forked,
       Published, Born, ReadPid
<1>6. Forking => TokenInv'
  BY DEF IInv, TypeOK, TokenInv, BirthInv, RequestInv, ChildInv, Answered, Forked,
       Published, Born, ReadPid
<1>7. ~Forking => RestartInv'
  BY DEF IInv, TypeOK, RestartInv, BirthInv, Born, ReadPid
<1> QED
  BY <1>1, <1>2, <1>3, <1>4, <1>5, <1>6, <1>7 DEF IInv, ReadPid

(* The count comes before the post.                                         *)
LEMMA HandlerSetSignalKeeps ==
  ASSUME IInv, HandlerSetSignal
  PROVE  IInv'
<1>1. TypeOK'
  <2>1. flags' \in Nat
    BY DEF IInv, TypeOK, HandlerSetSignal
  <2>2. sig' \in BOOLEAN /\ hpc' = "load"
    BY DEF IInv, TypeOK, HandlerSetSignal
  <2> QED
    BY <2>1, <2>2 DEF IInv, TypeOK, HandlerSetSignal
<1>2. BirthInv' /\ NeedsInv' /\ StateSentOnce' /\ HandleIsFresh' /\ DeathIsReal'
      /\ (Forking => ChildInv' /\ RequestInv')
      /\ (~Forking => RestartInv')
  BY DEF IInv, BirthInv, NeedsInv, StateSentOnce, HandleIsFresh, DeathIsReal,
       ChildInv, RequestInv, RestartInv, Born, Live, Newest, Answered, Forked,
       Published, HandlerSetSignal
<1>3. Forking => TokenInv'
  BY DEF IInv, TypeOK, TokenInv, BirthInv, RequestInv, ChildInv, Answered, Forked,
       Published, Born, HandlerSetSignal
<1>4. Forking => SignalInv'
  BY DEF IInv, TypeOK, SignalInv, BirthInv, ChildInv, RequestInv, HandlerSetSignal
<1> QED
  BY <1>1, <1>2, <1>3, <1>4 DEF IInv, HandlerSetSignal

(* The handler reads current_sem after it has counted the signal.           *)
LEMMA HandlerLoadSemKeeps ==
  ASSUME IInv, HandlerLoadSem
  PROVE  IInv'
<1>1. TypeOK'
  BY DEF IInv, TypeOK, HandlerLoadSem
<1>2. BirthInv' /\ NeedsInv' /\ StateSentOnce' /\ HandleIsFresh' /\ DeathIsReal'
      /\ (Forking => ChildInv' /\ RequestInv' /\ SignalInv')
  BY DEF IInv, BirthInv, NeedsInv, StateSentOnce, HandleIsFresh, DeathIsReal,
       ChildInv, RequestInv, SignalInv, Born, Live, Newest, Answered, Forked,
       Published, HandlerLoadSem
<1>3. Forking => TokenInv'
  BY DEF IInv, TypeOK, TokenInv, BirthInv, RequestInv, ChildInv, Answered, Forked,
       Published, Born, HandlerLoadSem
<1>4. ~Forking => RestartInv'
  BY DEF IInv, TypeOK, RestartInv, BirthInv, Born, HandlerLoadSem
<1> QED
  BY <1>1, <1>2, <1>3, <1>4 DEF IInv, HandlerLoadSem

(* The handler's post is possible only after a count, which has not been    *)
(* taken back.                                                              *)
LEMMA HandlerPostKeeps ==
  ASSUME IInv, HandlerPost
  PROVE  IInv'
<1>1. TypeOK'
  BY DEF IInv, TypeOK, HandlerPost
<1>2. BirthInv' /\ NeedsInv' /\ StateSentOnce' /\ HandleIsFresh' /\ DeathIsReal'
      /\ (Forking => ChildInv' /\ RequestInv' /\ SignalInv')
  BY DEF IInv, BirthInv, NeedsInv, StateSentOnce, HandleIsFresh, DeathIsReal,
       ChildInv, RequestInv, SignalInv, Born, Live, Newest, Answered, Forked,
       Published, HandlerPost
<1>3. Forking => TokenInv'
  BY DEF IInv, TypeOK, TokenInv, BirthInv, RequestInv, ChildInv, Answered, Forked,
       Published, Born, HandlerPost
<1>4. ~Forking => RestartInv'
  BY DEF IInv, TypeOK, RestartInv, BirthInv, Born, HandlerPost
<1> QED
  BY <1>1, <1>2, <1>3, <1>4 DEF IInv, HandlerPost

(* The loop starts with no death to await.                                  *)
LEMMA TemplateStartKeeps ==
  ASSUME IInv, TemplateStart
  PROVE  IInv'
<1>1. TypeOK'
  BY DEF IInv, TypeOK, TemplateStart
<1>2. BirthInv' /\ StateSentOnce' /\ HandleIsFresh'
  BY DEF IInv, BirthInv, StateSentOnce, HandleIsFresh, Born, Live, Newest,
       TemplateStart
<1>3. NeedsInv'
  BY DEF IInv, TypeOK, NeedsInv, ChildInv, BirthInv, RestartInv, RequestInv, Born,
       TemplateStart
<1>4. DeathIsReal'
  BY DEF IInv, TypeOK, DeathIsReal, BirthInv, SignalInv, RestartInv, TemplateStart
<1>5. Forking => ChildInv'
  BY DEF IInv, TypeOK, ChildInv, BirthInv, RequestInv, Born, TemplateStart
<1>6. Forking => RequestInv'
  BY DEF IInv, TypeOK, RequestInv, BirthInv, ChildInv, TokenInv, Answered, Forked,
       Published, Born, TemplateStart
<1>7. Forking => TokenInv'
  BY DEF IInv, TypeOK, TokenInv, BirthInv, RequestInv, ChildInv, Answered, Forked,
       Published, Born, TemplateStart
<1>8. Forking => SignalInv'
  BY DEF IInv, TypeOK, SignalInv, BirthInv, ChildInv, RequestInv, TemplateStart
<1>9. ~Forking => RestartInv'
  BY DEF IInv, TypeOK, RestartInv, BirthInv, Born, TemplateStart
<1> QED
  BY <1>1, <1>2, <1>3, <1>4, <1>5, <1>6, <1>7, <1>8, <1>9 DEF IInv, TemplateStart

(* A restarted template posts while McMini waits for it to be stable.       *)
LEMMA TemplateReadyKeeps ==
  ASSUME IInv, TemplateReady
  PROVE  IInv'
<1>1. TypeOK'
  BY DEF IInv, TypeOK, TemplateReady
<1>2. BirthInv' /\ StateSentOnce' /\ HandleIsFresh'
  BY DEF IInv, BirthInv, StateSentOnce, HandleIsFresh, Born, Live, Newest,
       TemplateReady
<1>3. NeedsInv'
  BY DEF IInv, TypeOK, NeedsInv, ChildInv, BirthInv, RestartInv, RequestInv, Born,
       TemplateReady
<1>4. DeathIsReal'
  BY DEF IInv, TypeOK, DeathIsReal, BirthInv, SignalInv, RestartInv, TemplateReady
<1>5. Forking => ChildInv'
  BY DEF IInv, TypeOK, ChildInv, BirthInv, RequestInv, Born, TemplateReady
<1>6. Forking => RequestInv'
  BY DEF IInv, TypeOK, RequestInv, BirthInv, ChildInv, TokenInv, Answered, Forked,
       Published, Born, TemplateReady
<1>7. Forking => TokenInv'
  BY DEF IInv, TypeOK, TokenInv, BirthInv, RequestInv, ChildInv, Answered, Forked,
       Published, Born, TemplateReady
<1>8. Forking => SignalInv'
  BY DEF IInv, TypeOK, SignalInv, BirthInv, ChildInv, RequestInv, TemplateReady
<1>9. ~Forking => RestartInv'
  BY DEF IInv, TypeOK, RestartInv, BirthInv, Born, TemplateReady
<1> QED
  BY <1>1, <1>2, <1>3, <1>4, <1>5, <1>6, <1>7, <1>8, <1>9 DEF IInv, TemplateReady

(* So does the one in a restarted template.                                 *)
LEMMA TemplateThreadStartKeeps ==
  ASSUME IInv, TemplateThreadStart
  PROVE  IInv'
<1>1. TypeOK'
  BY DEF IInv, TypeOK, TemplateThreadStart
<1>2. BirthInv' /\ StateSentOnce' /\ HandleIsFresh'
  BY DEF IInv, BirthInv, StateSentOnce, HandleIsFresh, Born, Live, Newest,
       TemplateThreadStart
<1>3. NeedsInv'
  BY DEF IInv, TypeOK, NeedsInv, ChildInv, BirthInv, RestartInv, RequestInv, Born,
       TemplateThreadStart
<1>4. DeathIsReal'
  BY DEF IInv, TypeOK, DeathIsReal, BirthInv, SignalInv, RestartInv,
       TemplateThreadStart
<1>5. Forking => ChildInv'
  BY DEF IInv, TypeOK, ChildInv, BirthInv, RequestInv, Born, TemplateThreadStart
<1>6. Forking => RequestInv'
  BY DEF IInv, TypeOK, RequestInv, BirthInv, ChildInv, TokenInv, Answered, Forked,
       Published, Born, TemplateThreadStart
<1>7. Forking => TokenInv'
  BY DEF IInv, TypeOK, TokenInv, BirthInv, RequestInv, ChildInv, Answered, Forked,
       Published, Born, TemplateThreadStart
<1>8. Forking => SignalInv'
  BY DEF IInv, TypeOK, SignalInv, BirthInv, ChildInv, RequestInv,
       TemplateThreadStart
<1>9. ~Forking => RestartInv'
  BY DEF IInv, TypeOK, RestartInv, BirthInv, Born, TemplateThreadStart
<1> QED
  BY <1>1, <1>2, <1>3, <1>4, <1>5, <1>6, <1>7, <1>8, <1>9 DEF IInv,
       TemplateThreadStart

(* The template forks when its previous child is reaped, and one request,   *)
(* the last, is under way.                                                  *)
LEMMA TemplateForkKeeps ==
  ASSUME IInv, TemplateFork
  PROVE  IInv'
<1>1. TypeOK'
  <2>1. branch' \in [Pids -> {"unborn", "starting", "alive", "dead", "reaped"}]
    BY DEF IInv, TypeOK, TemplateFork
  <2>2. tries' \in 0..MaxBranches /\ lsem' \in 0..1 /\ tries + 1 \in Pids
    BY DEF IInv, TypeOK, TemplateFork
  <2>3. transfers' = transfers \/ transfers' = transfers \cup {tries + 1}
    BY Zenon DEF TemplateFork
  <2>4. transfers' \subseteq Pids
    BY <2>2, <2>3 DEF IInv, TypeOK
  <2>5. lost' \in BOOLEAN
    BY DEF IInv, TypeOK, TemplateFork
  <2>6. child' \in Pids \cup {NoPid, NoProcess}
    BY DEF IInv, TypeOK, TemplateFork
  <2> QED
    BY <2>1, <2>2, <2>4, <2>5, <2>6 DEF IInv, TypeOK, TemplateFork
<1>2. BirthInv'
  BY DEF IInv, TypeOK, BirthInv, RequestInv, RestartInv, Forked, Born, TemplateFork
<1>3. NeedsInv'
  BY DEF IInv, TypeOK, NeedsInv, ChildInv, BirthInv, RestartInv, RequestInv, Born,
       TemplateFork
<1>4. StateSentOnce'
  BY DEF IInv, TypeOK, StateSentOnce, BirthInv, NeedsInv, RestartInv, Born,
       TemplateFork
<1>5. HandleIsFresh'
  BY DEF IInv, TypeOK, HandleIsFresh, BirthInv, RequestInv, RestartInv, ChildInv,
       Answered, Forked, Published, Live, Newest, Born, TemplateFork
<1>6. DeathIsReal'
  BY DEF IInv, TypeOK, DeathIsReal, BirthInv, SignalInv, RestartInv, TemplateFork
<1>7. Forking => ChildInv'
  BY DEF IInv, TypeOK, ChildInv, BirthInv, RequestInv, Born, TemplateFork
<1>8. Forking => RequestInv'
  BY DEF IInv, TypeOK, RequestInv, BirthInv, ChildInv, TokenInv, Answered, Forked,
       Published, Born, TemplateFork
<1>9. Forking => TokenInv'
  BY DEF IInv, TypeOK, TokenInv, BirthInv, RequestInv, ChildInv, Answered, Forked,
       Published, Born, TemplateFork
<1>10. Forking => SignalInv'
  BY DEF IInv, TypeOK, SignalInv, BirthInv, ChildInv, RequestInv, TemplateFork
<1>11. ~Forking => RestartInv'
  BY DEF IInv, TypeOK, RestartInv, BirthInv, Born, TemplateFork
<1> QED
  BY <1>1, <1>2, <1>3, <1>4, <1>5, <1>6, <1>7, <1>8, <1>9, <1>10, <1>11 DEF IInv,
       TemplateFork

(* The pid published is that of the last fork.                              *)
LEMMA PublishPidKeeps ==
  ASSUME IInv, PublishPid
  PROVE  IInv'
<1>1. TypeOK'
  BY DEF IInv, TypeOK, PublishPid
<1>2. BirthInv' /\ StateSentOnce' /\ HandleIsFresh'
  BY DEF IInv, BirthInv, StateSentOnce, HandleIsFresh, Born, Live, Newest,
       PublishPid
<1>3. NeedsInv'
  BY DEF IInv, TypeOK, NeedsInv, ChildInv, BirthInv, RestartInv, RequestInv, Born,
       PublishPid
<1>4. DeathIsReal'
  BY DEF IInv, TypeOK, DeathIsReal, BirthInv, SignalInv, RestartInv, PublishPid
<1>5. Forking => ChildInv'
  BY DEF IInv, TypeOK, ChildInv, BirthInv, RequestInv, Born, PublishPid
<1>6. Forking => RequestInv'
  BY DEF IInv, TypeOK, RequestInv, BirthInv, ChildInv, TokenInv, Answered, Forked,
       Published, Born, PublishPid
<1>7. Forking => TokenInv'
  BY DEF IInv, TypeOK, TokenInv, BirthInv, RequestInv, ChildInv, Answered, Forked,
       Published, Born, PublishPid
<1>8. Forking => SignalInv'
  BY DEF IInv, TypeOK, SignalInv, BirthInv, ChildInv, RequestInv, PublishPid
<1>9. ~Forking => RestartInv'
  BY DEF IInv, TypeOK, RestartInv, BirthInv, Born, PublishPid
<1> QED
  BY <1>1, <1>2, <1>3, <1>4, <1>5, <1>6, <1>7, <1>8, <1>9 DEF IInv, PublishPid

(* The answer of the template.                                              *)
LEMMA PostPidKeeps ==
  ASSUME IInv, PostPid
  PROVE  IInv'
<1>1. TypeOK'
  <2>1. psem' \in Nat
    BY DEF IInv, TypeOK, PostPid
  <2>2. needs' \in BOOLEAN /\ tpc' = "await_child"
    BY DEF IInv, TypeOK, PostPid
  <2> QED
    BY <2>1, <2>2 DEF IInv, TypeOK, PostPid
<1>2. BirthInv' /\ StateSentOnce' /\ HandleIsFresh'
  BY DEF IInv, BirthInv, StateSentOnce, HandleIsFresh, Born, Live, Newest, PostPid
<1>3. NeedsInv'
  BY DEF IInv, TypeOK, NeedsInv, ChildInv, BirthInv, RestartInv, RequestInv, Born,
       PostPid
<1>4. DeathIsReal'
  BY DEF IInv, TypeOK, DeathIsReal, BirthInv, SignalInv, RestartInv, PostPid
<1>5. Forking => ChildInv'
  BY DEF IInv, TypeOK, ChildInv, BirthInv, RequestInv, Born, PostPid
<1>6. Forking => RequestInv'
  BY DEF IInv, TypeOK, RequestInv, BirthInv, ChildInv, TokenInv, Answered, Forked,
       Published, Born, PostPid
<1>7. Forking => TokenInv'
  BY DEF IInv, TypeOK, TokenInv, BirthInv, RequestInv, ChildInv, Answered, Forked,
       Published, Born, PostPid
<1>8. Forking => SignalInv'
  BY DEF IInv, TypeOK, SignalInv, BirthInv, ChildInv, RequestInv, PostPid
<1>9. ~Forking => RestartInv'
  BY DEF IInv, TypeOK, RestartInv, BirthInv, Born, PostPid
<1> QED
  BY <1>1, <1>2, <1>3, <1>4, <1>5, <1>6, <1>7, <1>8, <1>9 DEF IInv, PostPid

(* The death awaited is that of the only child.                             *)
LEMMA AwaitChildKeeps ==
  ASSUME IInv, AwaitChild
  PROVE  IInv'
<1>1. TypeOK'
  BY DEF IInv, TypeOK, AwaitChild
<1>2. BirthInv' /\ StateSentOnce' /\ HandleIsFresh'
  BY DEF IInv, BirthInv, StateSentOnce, HandleIsFresh, Born, Live, Newest,
       AwaitChild
<1>3. NeedsInv'
  BY DEF IInv, TypeOK, NeedsInv, ChildInv, BirthInv, RestartInv, RequestInv, Born,
       AwaitChild
<1>4. DeathIsReal'
  BY DEF IInv, TypeOK, DeathIsReal, BirthInv, SignalInv, RestartInv, AwaitChild
<1>5. Forking => ChildInv'
  BY DEF IInv, TypeOK, ChildInv, BirthInv, RequestInv, Born, AwaitChild
<1>6. Forking => RequestInv'
  BY DEF IInv, TypeOK, RequestInv, BirthInv, ChildInv, TokenInv, Answered, Forked,
       Published, Born, AwaitChild
<1>7. Forking => TokenInv'
  BY DEF IInv, TypeOK, TokenInv, BirthInv, RequestInv, ChildInv, Answered, Forked,
       Published, Born, AwaitChild
<1>8. Forking => SignalInv'
  BY DEF IInv, TypeOK, SignalInv, BirthInv, ChildInv, RequestInv, AwaitChild
<1>9. ~Forking => RestartInv'
  BY DEF IInv, TypeOK, RestartInv, BirthInv, Born, AwaitChild
<1> QED
  BY <1>1, <1>2, <1>3, <1>4, <1>5, <1>6, <1>7, <1>8, <1>9 DEF IInv, AwaitChild

(* Only the template's last child can be dead and not reaped; McMini hears of*)
(* a death nobody has asked for.                                            *)
LEMMA ReceiveSigchldKeeps ==
  ASSUME IInv, NEW p \in Pids, ReceiveSigchld(p)
  PROVE  IInv'
<1>1. TypeOK'
  <2>1. branch' \in [Pids -> {"unborn", "starting", "alive", "dead", "reaped"}]
    BY DEF IInv, TypeOK, ReceiveSigchld
  <2>2. csem' \in 0..1
    BY DEF IInv, TypeOK, ReceiveSigchld, ChildInv, RestartInv
  <2>3. chld' \in BOOLEAN /\ sig' \in BOOLEAN
    BY DEF IInv, TypeOK, ReceiveSigchld
  <2> QED
    BY <2>1, <2>2, <2>3 DEF IInv, TypeOK, ReceiveSigchld
<1>2. DeathIsReal'
  BY DEF IInv, DeathIsReal, ReceiveSigchld
<1>3. BirthInv'
  BY DEF IInv, TypeOK, BirthInv, RequestInv, RestartInv, Forked, Born,
       ReceiveSigchld, Relayed
<1>4. NeedsInv'
  BY DEF IInv, TypeOK, NeedsInv, ChildInv, BirthInv, RestartInv, RequestInv, Born,
       ReceiveSigchld, Relayed
<1>5. StateSentOnce'
  BY DEF IInv, TypeOK, StateSentOnce, BirthInv, NeedsInv, RestartInv, Born,
       ReceiveSigchld, Relayed
<1>6. HandleIsFresh'
  BY DEF IInv, TypeOK, HandleIsFresh, BirthInv, RequestInv, RestartInv, ChildInv,
       Answered, Forked, Published, Live, Newest, Born, ReceiveSigchld, Relayed
<1>7. Forking => ChildInv'
  BY DEF IInv, TypeOK, ChildInv, BirthInv, RequestInv, Born, ReceiveSigchld, Relayed
<1>8. Forking => RequestInv'
  BY DEF IInv, TypeOK, RequestInv, BirthInv, ChildInv, TokenInv, Answered, Forked,
       Published, Born, ReceiveSigchld, Relayed
<1>9. Forking => TokenInv'
  BY DEF IInv, TypeOK, TokenInv, BirthInv, RequestInv, ChildInv, Answered, Forked,
       Published, Born, ReceiveSigchld, Relayed
<1>10. Forking => SignalInv'
  BY DEF IInv, TypeOK, SignalInv, BirthInv, ChildInv, RequestInv, ReceiveSigchld,
       Relayed
<1>11. ~Forking => RestartInv'
  BY DEF IInv, TypeOK, RestartInv, BirthInv, Born, ReceiveSigchld, Relayed
<1> QED
  BY <1>1, <1>2, <1>3, <1>4, <1>5, <1>6, <1>7, <1>8, <1>9, <1>10, <1>11 DEF IInv,
       ReceiveSigchld

(* McMini gives a branch up only if it died of its own.                     *)
LEMMA ExecuteRunnerKeeps ==
  ASSUME IInv, ExecuteRunner
  PROVE  IInv'
<1>1. TypeOK'
  BY DEF IInv, TypeOK, ExecuteRunner
<1>2. BirthInv' /\ NeedsInv' /\ StateSentOnce'
      /\ (Forking => ChildInv')
  BY DEF IInv, BirthInv, NeedsInv, StateSentOnce, ChildInv, Born, ExecuteRunner
<1>3. HandleIsFresh'
  BY DEF IInv, TypeOK, HandleIsFresh, BirthInv, RequestInv, RestartInv, ChildInv,
       Answered, Forked, Published, Live, Newest, Born, ExecuteRunner
<1>4. DeathIsReal'
  BY DEF IInv, TypeOK, DeathIsReal, BirthInv, SignalInv, RestartInv, ExecuteRunner
<1>5. Forking => RequestInv'
  BY DEF IInv, TypeOK, RequestInv, BirthInv, ChildInv, TokenInv, Answered, Forked,
       Published, Born, ExecuteRunner
<1>6. Forking => TokenInv'
  BY DEF IInv, TypeOK, TokenInv, BirthInv, RequestInv, ChildInv, Answered, Forked,
       Published, Born, ExecuteRunner
<1>7. Forking => SignalInv'
  BY DEF IInv, TypeOK, SignalInv, BirthInv, ChildInv, RequestInv, ExecuteRunner
<1>8. ~Forking => RestartInv'
  BY DEF IInv, TypeOK, RestartInv, BirthInv, Born, ExecuteRunner
<1> QED
  BY <1>1, <1>2, <1>3, <1>4, <1>5, <1>6, <1>7, <1>8 DEF IInv, ExecuteRunner

(* The handle destroyed is that of the only live branch.                    *)
LEMMA DestroyHandleKeeps ==
  ASSUME IInv, DestroyHandle
  PROVE  IInv'
<1>1. TypeOK'
  BY DEF IInv, TypeOK, DestroyHandle
<1>2. NeedsInv' /\ StateSentOnce'
      /\ (Forking => ChildInv' /\ SignalInv')
  BY DEF IInv, NeedsInv, StateSentOnce, ChildInv, SignalInv, Born, DestroyHandle
<1>3. BirthInv'
  BY DEF IInv, TypeOK, BirthInv, RequestInv, RestartInv, Forked, Born, DestroyHandle
<1>4. HandleIsFresh'
  BY DEF IInv, TypeOK, HandleIsFresh, BirthInv, RequestInv, RestartInv, ChildInv,
       Answered, Forked, Published, Live, Newest, Born, DestroyHandle
<1>5. DeathIsReal'
  BY DEF IInv, TypeOK, DeathIsReal, BirthInv, SignalInv, RestartInv, DestroyHandle
<1>6. Forking => RequestInv'
  BY DEF IInv, TypeOK, RequestInv, BirthInv, ChildInv, TokenInv, Answered, Forked,
       Published, Born, DestroyHandle
<1>7. Forking => TokenInv'
  BY DEF IInv, TypeOK, TokenInv, BirthInv, RequestInv, ChildInv, Answered, Forked,
       Published, Born, DestroyHandle
<1>8. ~Forking => RestartInv'
  BY DEF IInv, TypeOK, RestartInv, BirthInv, Born, DestroyHandle
<1> QED
  BY <1>1, <1>2, <1>3, <1>4, <1>5, <1>6, <1>7, <1>8 DEF IInv, DestroyHandle

(* A failed exec ends the exploration.                                      *)
LEMMA LaunchFailsKeeps ==
  ASSUME IInv, LaunchFails
  PROVE  IInv'
<1>1. TypeOK'
  BY DEF IInv, TypeOK, LaunchFails
<1>2. BirthInv' /\ NeedsInv' /\ StateSentOnce'
      /\ (Forking => ChildInv' /\ SignalInv')
  BY DEF IInv, BirthInv, NeedsInv, StateSentOnce, ChildInv, SignalInv, Born,
       LaunchFails
<1>3. HandleIsFresh'
  BY DEF IInv, TypeOK, HandleIsFresh, BirthInv, RequestInv, RestartInv, ChildInv,
       Answered, Forked, Published, Live, Newest, Born, LaunchFails
<1>4. DeathIsReal'
  BY DEF IInv, TypeOK, DeathIsReal, BirthInv, SignalInv, RestartInv, LaunchFails
<1>5. Forking => RequestInv'
  BY DEF IInv, TypeOK, RequestInv, BirthInv, ChildInv, TokenInv, Answered, Forked,
       Published, Born, LaunchFails
<1>6. Forking => TokenInv'
  BY DEF IInv, TypeOK, TokenInv, BirthInv, RequestInv, ChildInv, Answered, Forked,
       Published, Born, LaunchFails
<1>7. ~Forking => RestartInv'
  BY DEF IInv, TypeOK, RestartInv, BirthInv, Born, LaunchFails
<1> QED
  BY <1>1, <1>2, <1>3, <1>4, <1>5, <1>6, <1>7 DEF IInv, LaunchFails

(* Whatever the template was about to do is never done.                     *)
LEMMA TemplateDiesKeeps ==
  ASSUME IInv, TemplateDies
  PROVE  IInv'
<1>1. TypeOK'
  BY DEF IInv, TypeOK, TemplateDies
<1>2. BirthInv' /\ StateSentOnce' /\ HandleIsFresh'
  BY DEF IInv, BirthInv, StateSentOnce, HandleIsFresh, Born, Live, Newest,
       TemplateDies
<1>3. NeedsInv'
  BY DEF IInv, TypeOK, NeedsInv, ChildInv, BirthInv, RestartInv, RequestInv, Born,
       TemplateDies
<1>4. DeathIsReal'
  BY DEF IInv, TypeOK, DeathIsReal, BirthInv, SignalInv, RestartInv, TemplateDies
<1>5. Forking => ChildInv'
  BY DEF IInv, TypeOK, ChildInv, BirthInv, RequestInv, Born, TemplateDies
<1>6. Forking => RequestInv'
  BY DEF IInv, TypeOK, RequestInv, BirthInv, ChildInv, TokenInv, Answered, Forked,
       Published, Born, TemplateDies
<1>7. Forking => TokenInv'
  BY DEF IInv, TypeOK, TokenInv, BirthInv, RequestInv, ChildInv, Answered, Forked,
       Published, Born, TemplateDies
<1>8. Forking => SignalInv'
  BY DEF IInv, TypeOK, SignalInv, BirthInv, ChildInv, RequestInv, TemplateDies
<1>9. ~Forking => RestartInv'
  BY DEF IInv, TypeOK, RestartInv, BirthInv, Born, TemplateDies
<1> QED
  BY <1>1, <1>2, <1>3, <1>4, <1>5, <1>6, <1>7, <1>8, <1>9 DEF IInv, TemplateDies

(* A branch restarted from the image posts once.                            *)
LEMMA BranchReadyKeeps ==
  ASSUME IInv, NEW p \in Pids, BranchReady(p)
  PROVE  IInv'
<1>1. TypeOK'
  BY DEF IInv, TypeOK, BranchReady
<1>2. DeathIsReal'
      /\ (Forking => SignalInv')
  BY DEF IInv, DeathIsReal, SignalInv, BranchReady
<1>3. BirthInv'
  BY DEF IInv, TypeOK, BirthInv, RequestInv, RestartInv, Forked, Born, BranchReady
<1>4. NeedsInv'
  BY DEF IInv, TypeOK, NeedsInv, ChildInv, BirthInv, RestartInv, RequestInv, Born,
       BranchReady
<1>5. StateSentOnce'
  BY DEF IInv, TypeOK, StateSentOnce, BirthInv, NeedsInv, RestartInv, Born,
       BranchReady
<1>6. HandleIsFresh'
  BY DEF IInv, TypeOK, HandleIsFresh, BirthInv, RequestInv, RestartInv, ChildInv,
       Answered, Forked, Published, Live, Newest, Born, BranchReady
<1>7. Forking => ChildInv'
  BY DEF IInv, TypeOK, ChildInv, BirthInv, RequestInv, Born, BranchReady
<1>8. Forking => RequestInv'
  BY DEF IInv, TypeOK, RequestInv, BirthInv, ChildInv, TokenInv, Answered, Forked,
       Published, Born, BranchReady
<1>9. Forking => TokenInv'
  BY DEF IInv, TypeOK, TokenInv, BirthInv, RequestInv, ChildInv, Answered, Forked,
       Published, Born, BranchReady
<1>10. ~Forking => RestartInv'
  BY DEF IInv, TypeOK, RestartInv, BirthInv, Born, BranchReady
<1> QED
  BY <1>1, <1>2, <1>3, <1>4, <1>5, <1>6, <1>7, <1>8, <1>9, <1>10 DEF IInv,
       BranchReady

(* A branch that dies stays the only one not reaped.                        *)
LEMMA BranchDiesKeeps ==
  ASSUME IInv, NEW p \in Pids, NEW cause \in {"exit", "bad_signal", "SIGUSR1", "SIGTERM"},
         BranchDies(p, cause), cause = "SIGUSR1" => p \in killed, cause = "SIGTERM" => Forking
  PROVE  IInv'
<1>1. TypeOK'
  BY DEF IInv, TypeOK, BranchDies, Live
<1>2. BirthInv'
  BY DEF IInv, TypeOK, BirthInv, RequestInv, RestartInv, Forked, Born, BranchDies,
       Live
<1>3. NeedsInv'
  BY DEF IInv, TypeOK, NeedsInv, ChildInv, BirthInv, RestartInv, RequestInv, Born,
       BranchDies, Live
<1>4. StateSentOnce'
  BY DEF IInv, TypeOK, StateSentOnce, BirthInv, NeedsInv, RestartInv, Born,
       BranchDies, Live
<1>5. HandleIsFresh'
  BY DEF IInv, TypeOK, HandleIsFresh, BirthInv, RequestInv, RestartInv, ChildInv,
       Answered, Forked, Published, Live, Newest, Born, BranchDies
<1>6. DeathIsReal'
  BY DEF IInv, TypeOK, DeathIsReal, BirthInv, SignalInv, RestartInv, BranchDies,
       Live
<1>7. Forking => ChildInv'
  BY DEF IInv, TypeOK, ChildInv, BirthInv, RequestInv, Born, BranchDies, Live
<1>8. Forking => RequestInv'
  BY DEF IInv, TypeOK, RequestInv, BirthInv, ChildInv, TokenInv, Answered, Forked,
       Published, Born, BranchDies, Live
<1>9. Forking => TokenInv'
  BY DEF IInv, TypeOK, TokenInv, BirthInv, RequestInv, ChildInv, Answered, Forked,
       Published, Born, BranchDies, Live
<1>10. Forking => SignalInv'
  BY DEF IInv, TypeOK, SignalInv, BirthInv, ChildInv, RequestInv, BranchDies, Live
<1>11. ~Forking => RestartInv'
  BY DEF IInv, TypeOK, RestartInv, BirthInv, Born, BranchDies, Live
<1> QED
  BY <1>1, <1>2, <1>3, <1>4, <1>5, <1>6, <1>7, <1>8, <1>9, <1>10, <1>11 DEF IInv,
       BranchDies

LEMMA BranchCrashesKeeps ==
  ASSUME IInv, NEW p \in Pids, BranchCrashes(p)
  PROVE  IInv'
<1>1. PICK cause \in {"exit", "bad_signal"} : BranchDies(p, cause)
  BY DEF BranchCrashes
<1> QED
  BY <1>1, BranchDiesKeeps

LEMMA BranchKilledKeeps ==
  ASSUME IInv, NEW p \in Pids, BranchKilled(p)
  PROVE  IInv'
<1>1. CASE p \in killed /\ BranchDies(p, "SIGUSR1")
  BY <1>1, BranchDiesKeeps
<1>2. CASE Forking /\ tpc = "dead" /\ BranchDies(p, "SIGTERM")
  BY <1>2, BranchDiesKeeps
<1> QED
  BY <1>1, <1>2 DEF BranchKilled

LEMMA StutterKeeps ==
  ASSUME IInv, UNCHANGED vars
  PROVE  IInv'
  BY DEF vars, IInv, TypeOK, BirthInv, NeedsInv, StateSentOnce, HandleIsFresh, DeathIsReal,
         ChildInv, RequestInv, TokenInv, SignalInv, RestartInv, Answered, Forked, Published,
         Live, Born, Newest

LEMMA InvInit ==
  ASSUME Init
  PROVE  IInv
<1>1. TypeOK
  <2>1. needs \in BOOLEAN
    BY DEF Init
  <2>2. branch \in [Pids -> {"unborn", "starting", "alive", "dead", "reaped"}]
        /\ how \in [Pids -> {"none", "exit", "bad_signal", "SIGUSR1", "SIGTERM"}]
    BY DEF Init
  <2>3. flags \in Nat /\ psem \in Nat /\ lsem \in 0..1 /\ csem \in 0..1 /\ tries \in 0..MaxBranches
    BY DEF Init
  <2> QED
    BY <2>1, <2>2, <2>3 DEF Init, TypeOK
<1>2. Born = {} /\ Live = {}
  BY DEF Init, Born, Live
<1>3. BirthInv /\ NeedsInv /\ StateSentOnce
  BY <1>2 DEF Init, BirthInv, NeedsInv, StateSentOnce
<1>4. HandleIsFresh /\ DeathIsReal
  BY <1>2 DEF Init, HandleIsFresh, DeathIsReal
<1>5. ChildInv /\ RequestInv /\ TokenInv /\ SignalInv
  BY DEF Init, ChildInv, RequestInv, TokenInv, SignalInv, Answered
<1>6. ~Forking => RestartInv
  BY <1>2 DEF Init, RestartInv
<1> QED
  BY <1>1, <1>3, <1>4, <1>5, <1>6 DEF IInv

LEMMA InvNext ==
  ASSUME IInv, [Next]_vars
  PROVE  IInv'
<1>1. CASE UNCHANGED vars
  BY <1>1, StutterKeeps
<1>2. CASE McMini
  BY <1>2, ReapKeeps, LaunchBranchKeeps, ConsumeExpectedKeeps, ResetMailboxesKeeps,
     LaunchTemplateKeeps, StabilizeKeeps, CheckSignalKeeps, SetSemKeeps, RequestForkKeeps,
     AwaitAnswerKeeps, ReadPidKeeps DEF McMini
<1>3. CASE Handler
  BY <1>3, HandlerSetSignalKeeps, HandlerLoadSemKeeps, HandlerPostKeeps DEF Handler
<1>4. CASE TemplateProcess
  BY <1>4, TemplateStartKeeps, TemplateReadyKeeps, TemplateThreadStartKeeps,
     TemplateForkKeeps, PublishPidKeeps, PostPidKeeps, AwaitChildKeeps,
     ReceiveSigchldKeeps DEF TemplateProcess
<1>5. CASE Environment
  BY <1>5, ExecuteRunnerKeeps, DestroyHandleKeeps, LaunchFailsKeeps, TemplateDiesKeeps,
     BranchCrashesKeeps DEF Environment
<1>6. CASE \E p \in Pids : Branch(p)
  BY <1>6, BranchReadyKeeps, BranchKilledKeeps DEF Branch
<1> QED
  BY <1>1, <1>2, <1>3, <1>4, <1>5, <1>6 DEF Next

-----------------------------------------------------------------------------
(* The inductive invariant: with a template, one request or answer is under *)
(* way and one child is not reaped; a SIGCHLD counted with a template is of *)
(* a death nobody asked for, and every post of the signal handler follows   *)
(* its count.                                                               *)
THEOREM Invariance == Spec => []IInv
<1>1. Init => IInv
  BY InvInit
<1>2. IInv /\ [Next]_vars => IInv'
  BY InvNext
<1> QED
  BY <1>1, <1>2, PTL DEF Spec

(* In particular libmcmini_sem and sigchld_sem never hold two tokens.       *)
THEOREM TypeCorrect == Spec => []TypeOK
<1>1. IInv => TypeOK
  BY DEF IInv
<1> QED
  BY <1>1, Invariance, PTL

(* Never are two branches alive that would share the mailboxes.             *)
THEOREM OneBranchAtATime == Spec => []OneBranch
<1>1. IInv => OneBranch
  <2> SUFFICES ASSUME IInv PROVE OneBranch
    OBVIOUS
  <2>1. \A p, q \in Live : p = q
    <3>1. CASE Forking
      BY <3>1 DEF IInv, TypeOK, ChildInv, Live
    <3>2. CASE ~Forking
      BY <3>2 DEF IInv, TypeOK, BirthInv, RestartInv, Live, Born
    <3> QED
      BY <3>1, <3>2
  <2>2. CASE Live = {}
    BY <2>2, FS_EmptySet DEF OneBranch
  <2>3. CASE Live # {}
    <3>1. PICK p \in Live : TRUE
      BY <2>3
    <3>2. Live = {p}
      BY <2>1
    <3>3. Cardinality(Live) = 1
      BY <3>2, FS_Singleton
    <3> QED
      BY <3>3 DEF OneBranch
  <2> QED
    BY <2>2, <2>3
<1> QED
  BY <1>1, Invariance, PTL

(* McMini explores with the branch forked last, whoever posted the          *)
(* semaphore it waited for.                                                 *)
THEOREM FreshHandle == Spec => []HandleIsFresh
<1>1. IInv => HandleIsFresh
  BY DEF IInv
<1> QED
  BY <1>1, Invariance, PTL

(* McMini does not give up for a death it has asked for.                    *)
THEOREM RealDeath == Spec => []DeathIsReal
<1>1. IInv => DeathIsReal
  BY DEF IInv
<1> QED
  BY <1>1, Invariance, PTL

(* The recorded state is sent by the first branch and by no other.          *)
THEOREM FirstBranchSends == Spec => []StateSentOnce
<1>1. IInv => StateSentOnce
  BY DEF IInv
<1> QED
  BY <1>1, Invariance, PTL
=============================================================================
