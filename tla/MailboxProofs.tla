---------------------------- MODULE MailboxProofs ----------------------------
(***************************************************************************)
(* Proofs about the mailbox protocol, for any number of threads, of        *)
(* operations, of branches and of foreign SIGCHLDs.                        *)
(***************************************************************************)
EXTENDS Mailbox, TLAPS

USE MailboxAssumption DEF MailboxAssumption

(* A new branch starts well typed.                                         *)
LEMMA TypeInit == Init => TypeOK
<1> SUFFICES ASSUME Init PROVE TypeOK
  OBVIOUS
<1>1. \A t \in Threads : StartOp(t) \in Ops
  BY DEF StartOp, Ops
<1>2. op \in [Threads -> Ops] /\ type = op /\ pending = op
  BY <1>1 DEF Init
<1>3. sig \in BOOLEAN
  BY Zenon DEF Init
<1> QED
  BY <1>2, <1>3 DEF Init, TypeOK, Sems, Between, Replacing

(* Type correctness is inductive by itself: SigSemwait and CasWord, the    *)
(* only decrements besides try_consume_signal, test for a positive value.  *)
LEMMA TypeStep == TypeOK /\ [Next]_vars => TypeOK'
<1> SUFFICES ASSUME TypeOK, [Next]_vars PROVE TypeOK'
  OBVIOUS
<1> USE DEF TypeOK, Sems, mcminiVars, signalVars, threadVars, branchVars,
          Between, Replacing
<1>1. ASSUME NEW t \in Threads, ExecuteRunner(t) PROVE TypeOK'
  BY <1>1 DEF ExecuteRunner
<1>2. CASE WakeThreadAdd
  BY <1>2 DEF WakeThreadAdd
<1>3. CASE WakeThreadFutex
  BY <1>3 DEF WakeThreadFutex
<1>4. CASE SigSemwait
  BY <1>4 DEF SigSemwait
<1>5. CASE NoSignal
  BY <1>5 DEF NoSignal
<1>6. CASE ConsumeSignal
  BY <1>6 DEF ConsumeSignal
<1>7. CASE Waitpid
  BY <1>7 DEF Waitpid, Outcome, Errors
<1>8. CASE ReadMailbox
  <2>1. \A t \in Threads : pending[t].of \in Threads
    BY DEF Ops
  <2>2. status' \in [Threads -> {"embryo", "running", "exited"}]
    BY <1>8, <2>1 DEF ReadMailbox
  <2>3. pending' \in [Threads -> Ops]
    BY <1>8 DEF ReadMailbox
  <2> QED
    BY <1>8, <2>2, <2>3 DEF ReadMailbox
<1>9. CASE HandlerSetSignal
  <2>1. sig' \in BOOLEAN
    BY <1>9, Zenon DEF HandlerSetSignal
  <2> QED
    BY <1>9, <2>1 DEF HandlerSetSignal
<1>10. CASE HandlerLoadSem
  BY <1>10 DEF HandlerLoadSem
<1>11. CASE HandlerPost
  BY <1>11 DEF HandlerPost
<1>12. CASE OtherDescendantDies
  BY <1>12 DEF OtherDescendantDies
<1>13. ASSUME NEW t \in Threads, NEW kind \in {"op", "exit"}, VisibleOp(t, kind)
       PROVE  TypeOK'
  <2>1. [no |-> op[t].no + 1, kind |-> kind, of |-> t] \in Ops
    BY DEF Ops
  <2> QED
    BY <1>13, <2>1 DEF VisibleOp, Announce
<1>14. ASSUME NEW t \in Threads, NEW u \in Threads, CreateThread(t, u)
       PROVE  TypeOK'
  <2>1. [no |-> op[t].no + 1, kind |-> "create", of |-> u] \in Ops
    BY DEF Ops
  <2> QED
    BY <1>14, <2>1 DEF CreateThread, Announce
<1>15. ASSUME NEW t \in Threads, FinishExit(t) PROVE TypeOK'
  BY <1>15 DEF FinishExit
<1>16. ASSUME NEW t \in Threads, WakeScheduler(t) PROVE TypeOK'
  BY <1>16 DEF WakeScheduler
<1>17. ASSUME NEW t \in Threads, LoadWord(t) PROVE TypeOK'
  BY <1>17 DEF LoadWord
<1>18. ASSUME NEW t \in Threads, CasWord(t) PROVE TypeOK'
  BY <1>18 DEF CasWord
<1>19. ASSUME NEW t \in Threads, FutexWait(t) PROVE TypeOK'
  BY <1>19 DEF FutexWait
<1>20. ASSUME NEW t \in Threads, FutexInterrupted(t) PROVE TypeOK'
  BY <1>20 DEF FutexInterrupted
<1>21. ASSUME NEW t \in Threads, NEW how \in Deaths, Die(t, how) PROVE TypeOK'
  BY <1>21 DEF Die
<1>22. CASE UNCHANGED vars
  BY <1>22 DEF vars
<1>23. CASE DestroyHandle
  <2>1. sig' \in BOOLEAN
    BY <1>23, Zenon DEF DestroyHandle
  <2> QED
    BY <1>23, <2>1 DEF DestroyHandle
<1>24. CASE ConsumeExpected
  BY <1>24 DEF ConsumeExpected, TryConsumeSignal
<1>25. CASE DrainZombies
  BY <1>25 DEF DrainZombies, TryConsumeSignal
<1>26. CASE NewBranch
  <2>1. \A t \in Threads : StartOp(t) \in Ops
    BY DEF StartOp, Ops
  <2>2. op' \in [Threads -> Ops] /\ type' = op' /\ pending' = op'
    BY <1>26, <2>1 DEF NewBranch, StartBranch
  <2>3. start' \in {"clean", "late", "stray"}
    BY <1>26 DEF NewBranch, StartBranch
  <2>4. restarts' \in 0..MaxRestarts
    BY <1>26 DEF NewBranch, StartBranch
  <2> QED
    BY <1>26, <2>2, <2>3, <2>4 DEF NewBranch, StartBranch
<1> QED
  BY <1>1, <1>2, <1>3, <1>4, <1>5, <1>6, <1>7, <1>8, <1>9, <1>10, <1>11, <1>12,
     <1>13, <1>14, <1>15, <1>16, <1>17, <1>18, <1>19, <1>20, <1>21, <1>22,
     <1>23, <1>24, <1>25, <1>26
  DEF Next, McMini, Handler, ThreadStep

(* Every variable of the protocol keeps its type: in particular no         *)
(* semaphore and no futex word is ever decremented below zero.             *)
THEOREM TypeCorrect == Spec => []TypeOK
  BY TypeInit, TypeStep, PTL DEF Spec

(* No wake-up is lost, in whatever state the rest of the protocol is.      *)
LEMMA WakeupStep ==
  TypeOK /\ NoLostWakeup /\ [Next]_vars => NoLostWakeup'
<1> SUFFICES ASSUME TypeOK /\ NoLostWakeup, [Next]_vars
             PROVE  NoLostWakeup'
  OBVIOUS
<1> USE DEF TypeOK, NoLostWakeup, mcminiVars, signalVars, threadVars, branchVars
<1>1. ASSUME NEW t \in Threads, ExecuteRunner(t) PROVE NoLostWakeup'
  BY <1>1 DEF ExecuteRunner
<1>2. CASE WakeThreadAdd
  BY <1>2 DEF WakeThreadAdd
<1>3. CASE WakeThreadFutex
  BY <1>3 DEF WakeThreadFutex
<1>4. CASE SigSemwait
  BY <1>4 DEF SigSemwait
<1>5. CASE NoSignal
  BY <1>5 DEF NoSignal
<1>6. CASE ConsumeSignal
  BY <1>6 DEF ConsumeSignal
<1>7. CASE Waitpid
  <2>1. vpc' \in {"wait", "termination_error", "nonzero_exit_code_error", "execution_error"}
    BY <1>7 DEF Waitpid, Outcome
  <2> QED
    BY <1>7, <2>1 DEF Waitpid
<1>8. CASE ReadMailbox
  BY <1>8 DEF ReadMailbox
<1>9. CASE HandlerSetSignal
  BY <1>9 DEF HandlerSetSignal
<1>10. CASE HandlerLoadSem
  BY <1>10 DEF HandlerLoadSem
<1>11. CASE HandlerPost
  BY <1>11 DEF HandlerPost
<1>12. CASE OtherDescendantDies
  BY <1>12 DEF OtherDescendantDies
<1>13. ASSUME NEW t \in Threads, NEW kind \in {"op", "exit"}, VisibleOp(t, kind)
       PROVE  NoLostWakeup'
  BY <1>13 DEF VisibleOp, Announce
<1>14. ASSUME NEW t \in Threads, NEW u \in Threads, CreateThread(t, u)
       PROVE  NoLostWakeup'
  BY <1>14 DEF CreateThread, Announce
<1>15. ASSUME NEW t \in Threads, FinishExit(t) PROVE NoLostWakeup'
  BY <1>15 DEF FinishExit
<1>16. ASSUME NEW t \in Threads, WakeScheduler(t) PROVE NoLostWakeup'
  BY <1>16 DEF WakeScheduler
<1>17. ASSUME NEW t \in Threads, LoadWord(t) PROVE NoLostWakeup'
  BY <1>17 DEF LoadWord
<1>18. ASSUME NEW t \in Threads, CasWord(t) PROVE NoLostWakeup'
  BY <1>18 DEF CasWord
<1>19. ASSUME NEW t \in Threads, FutexWait(t) PROVE NoLostWakeup'
  BY <1>19 DEF FutexWait
<1>20. ASSUME NEW t \in Threads, FutexInterrupted(t) PROVE NoLostWakeup'
  BY <1>20 DEF FutexInterrupted
<1>21. ASSUME NEW t \in Threads, NEW how \in Deaths, Die(t, how)
       PROVE  NoLostWakeup'
  BY <1>21 DEF Die
<1>22. CASE UNCHANGED vars
  BY <1>22 DEF vars
<1>23. CASE DestroyHandle
  BY <1>23 DEF DestroyHandle
<1>24. CASE ConsumeExpected
  BY <1>24 DEF ConsumeExpected, TryConsumeSignal
<1>25. CASE DrainZombies
  BY <1>25 DEF DrainZombies, TryConsumeSignal
<1>26. CASE NewBranch
  BY <1>26 DEF NewBranch, StartBranch
<1> QED
  BY <1>1, <1>2, <1>3, <1>4, <1>5, <1>6, <1>7, <1>8, <1>9, <1>10, <1>11, <1>12,
     <1>13, <1>14, <1>15, <1>16, <1>17, <1>18, <1>19, <1>20, <1>21, <1>22,
     <1>23, <1>24, <1>25, <1>26
  DEF Next, McMini, Handler, ThreadStep

(* The futex words: only the scheduled thread's word is ever raised, once.  *)
LEMMA WordStep ==
  TypeOK /\ RoundInv /\ WordInv /\ [Next]_vars /\ ~ NewBranch
    => WordInv'
<1> SUFFICES ASSUME TypeOK /\ RoundInv /\ WordInv ,
                    [Next]_vars, ~ NewBranch
             PROVE  WordInv'
  OBVIOUS
<1> USE DEF TypeOK, RoundInv, WordInv, Parked, Released, Answered, Errors,
          mcminiVars, signalVars, threadVars, branchVars,
          Between, Replacing
<1>1. ASSUME NEW t \in Threads, ExecuteRunner(t) PROVE WordInv'
  BY <1>1 DEF ExecuteRunner
<1>2. CASE WakeThreadAdd
  BY <1>2 DEF WakeThreadAdd
<1>3. CASE WakeThreadFutex
  BY <1>3 DEF WakeThreadFutex
<1>4. CASE SigSemwait
  BY <1>4 DEF SigSemwait
<1>5. CASE NoSignal
  BY <1>5 DEF NoSignal
<1>6. CASE ConsumeSignal
  BY <1>6 DEF ConsumeSignal
<1>7. CASE Waitpid
  <2>1. vpc' \in {"wait", "termination_error", "nonzero_exit_code_error", "execution_error"}
    BY <1>7 DEF Waitpid, Outcome
  <2> QED
    BY <1>7, <2>1 DEF Waitpid
<1>8. CASE ReadMailbox
  BY <1>8 DEF ReadMailbox
<1>9. CASE HandlerSetSignal
  BY <1>9 DEF HandlerSetSignal
<1>10. CASE HandlerLoadSem
  BY <1>10 DEF HandlerLoadSem
<1>11. CASE HandlerPost
  BY <1>11 DEF HandlerPost
<1>12. CASE OtherDescendantDies
  BY <1>12 DEF OtherDescendantDies
<1>13. ASSUME NEW t \in Threads, NEW kind \in {"op", "exit"}, VisibleOp(t, kind)
       PROVE  WordInv'
  BY <1>13 DEF VisibleOp, Announce
<1>14. ASSUME NEW t \in Threads, NEW u \in Threads, CreateThread(t, u)
       PROVE  WordInv'
  BY <1>14 DEF CreateThread, Announce
<1>15. ASSUME NEW t \in Threads, FinishExit(t) PROVE WordInv'
  BY <1>15 DEF FinishExit
<1>16. ASSUME NEW t \in Threads, WakeScheduler(t) PROVE WordInv'
  BY <1>16 DEF WakeScheduler
<1>17. ASSUME NEW t \in Threads, LoadWord(t) PROVE WordInv'
  BY <1>17 DEF LoadWord
<1>18. ASSUME NEW t \in Threads, CasWord(t) PROVE WordInv'
  BY <1>18 DEF CasWord
<1>19. ASSUME NEW t \in Threads, FutexWait(t) PROVE WordInv'
  BY <1>19 DEF FutexWait
<1>20. ASSUME NEW t \in Threads, FutexInterrupted(t) PROVE WordInv'
  BY <1>20 DEF FutexInterrupted
<1>21. ASSUME NEW t \in Threads, NEW how \in Deaths, Die(t, how)
       PROVE  WordInv'
  BY <1>21 DEF Die
<1>22. CASE UNCHANGED vars
  BY <1>22 DEF vars
<1>23. CASE DestroyHandle
  BY <1>23 DEF DestroyHandle
<1>24. CASE ConsumeExpected
  BY <1>24 DEF ConsumeExpected, TryConsumeSignal
<1>25. CASE DrainZombies
  BY <1>25 DEF DrainZombies, TryConsumeSignal
<1> QED
  BY <1>1, <1>2, <1>3, <1>4, <1>5, <1>6, <1>7, <1>8, <1>9, <1>10, <1>11, <1>12,
     <1>13, <1>14, <1>15, <1>16, <1>17, <1>18, <1>19, <1>20, <1>21, <1>22,
     <1>23, <1>24, <1>25
  DEF Next, McMini, Handler, ThreadStep

(* The messages: a mailbox holds the operation its thread is at, and that   *)
(* operation is the pending one or, in the scheduled thread, the next.      *)
LEMMA MessageStep ==
  TypeOK /\ WordInv /\ RoundInv /\ MessageInv /\ [Next]_vars /\ ~ NewBranch
    => MessageInv'
<1> SUFFICES ASSUME TypeOK /\ WordInv /\ RoundInv /\ MessageInv,
                    [Next]_vars, ~ NewBranch
             PROVE  MessageInv'
  OBVIOUS
<1> USE DEF TypeOK, WordInv, RoundInv, MessageInv, Parked, Released, Answered, Errors,
          mcminiVars, signalVars, threadVars, branchVars,
          Between, Replacing
<1>1. ASSUME NEW t \in Threads, ExecuteRunner(t) PROVE MessageInv'
  BY <1>1 DEF ExecuteRunner
<1>2. CASE WakeThreadAdd
  BY <1>2 DEF WakeThreadAdd
<1>3. CASE WakeThreadFutex
  BY <1>3 DEF WakeThreadFutex
<1>4. CASE SigSemwait
  BY <1>4 DEF SigSemwait
<1>5. CASE NoSignal
  BY <1>5 DEF NoSignal
<1>6. CASE ConsumeSignal
  BY <1>6 DEF ConsumeSignal
<1>7. CASE Waitpid
  <2>1. vpc' \in {"wait", "termination_error", "nonzero_exit_code_error", "execution_error"}
    BY <1>7 DEF Waitpid, Outcome
  <2> QED
    BY <1>7, <2>1 DEF Waitpid
<1>8. CASE ReadMailbox
  BY <1>8 DEF ReadMailbox
<1>9. CASE HandlerSetSignal
  BY <1>9 DEF HandlerSetSignal
<1>10. CASE HandlerLoadSem
  BY <1>10 DEF HandlerLoadSem
<1>11. CASE HandlerPost
  BY <1>11 DEF HandlerPost
<1>12. CASE OtherDescendantDies
  BY <1>12 DEF OtherDescendantDies
<1>13. ASSUME NEW t \in Threads, NEW kind \in {"op", "exit"}, VisibleOp(t, kind)
       PROVE  MessageInv'
  BY <1>13 DEF VisibleOp, Announce
<1>14. ASSUME NEW t \in Threads, NEW u \in Threads, CreateThread(t, u)
       PROVE  MessageInv'
  BY <1>14 DEF CreateThread, Announce
<1>15. ASSUME NEW t \in Threads, FinishExit(t) PROVE MessageInv'
  BY <1>15 DEF FinishExit
<1>16. ASSUME NEW t \in Threads, WakeScheduler(t) PROVE MessageInv'
  BY <1>16 DEF WakeScheduler
<1>17. ASSUME NEW t \in Threads, LoadWord(t) PROVE MessageInv'
  BY <1>17 DEF LoadWord
<1>18. ASSUME NEW t \in Threads, CasWord(t) PROVE MessageInv'
  BY <1>18 DEF CasWord
<1>19. ASSUME NEW t \in Threads, FutexWait(t) PROVE MessageInv'
  BY <1>19 DEF FutexWait
<1>20. ASSUME NEW t \in Threads, FutexInterrupted(t) PROVE MessageInv'
  BY <1>20 DEF FutexInterrupted
<1>21. ASSUME NEW t \in Threads, NEW how \in Deaths, Die(t, how)
       PROVE  MessageInv'
  BY <1>21 DEF Die
<1>22. CASE UNCHANGED vars
  BY <1>22 DEF vars
<1>23. CASE DestroyHandle
  BY <1>23 DEF DestroyHandle
<1>24. CASE ConsumeExpected
  BY <1>24 DEF ConsumeExpected, TryConsumeSignal
<1>25. CASE DrainZombies
  BY <1>25 DEF DrainZombies, TryConsumeSignal
<1> QED
  BY <1>1, <1>2, <1>3, <1>4, <1>5, <1>6, <1>7, <1>8, <1>9, <1>10, <1>11, <1>12,
     <1>13, <1>14, <1>15, <1>16, <1>17, <1>18, <1>19, <1>20, <1>21, <1>22,
     <1>23, <1>24, <1>25
  DEF Next, McMini, Handler, ThreadStep

(* While a branch is being replaced, only NewBranch ends that.             *)
LEMMA ReplacingStep ==
  vpc \in Replacing /\ [Next]_vars /\ ~ NewBranch => vpc' \in Replacing
  BY DEF Replacing, Next, vars, mcminiVars, McMini, Handler, ThreadStep, ExecuteRunner,
         DestroyHandle, WakeThreadAdd, WakeThreadFutex, SigSemwait, NoSignal,
         ConsumeSignal, Waitpid, ReadMailbox, ConsumeExpected, DrainZombies,
         HandlerSetSignal, HandlerLoadSem, HandlerPost, OtherDescendantDies,
         VisibleOp, CreateThread, Announce, FinishExit, WakeScheduler, LoadWord,
         CasWord, FutexWait, FutexInterrupted, Die

(* The tokens: the step that decides that the thread has answered finds no  *)
(* token of a SIGCHLD left.                                                 *)
LEMMA TokenStep ==
  TypeOK /\ RoundInv /\ WordInv /\ TokensInv /\ [Next]_vars /\ ~ NewBranch
    => RoundInv' /\ TokensInv'
<1> SUFFICES ASSUME TypeOK /\ RoundInv /\ WordInv /\ TokensInv,
                    [Next]_vars, ~ NewBranch
             PROVE  RoundInv' /\ TokensInv'
  OBVIOUS
<1>a. CASE vpc \in Replacing
  BY <1>a, ReplacingStep DEF RoundInv, TokensInv, Between, Replacing
<1> SUFFICES ASSUME vpc \notin Replacing PROVE RoundInv' /\ TokensInv'
  BY <1>a
<1> PICK p \in Sems, q \in Sems : TokenInv(p, q)
  BY DEF TokensInv
<1> USE DEF TypeOK, RoundInv, WordInv, TokensInv, TokenInv, Tokens, InHandler, InHand, Answers,
          Parked, Released, Answered, Errors, Sems,
          mcminiVars, signalVars, threadVars, branchVars,
          Between, Replacing
<1>1. ASSUME NEW t \in Threads, ExecuteRunner(t) PROVE RoundInv' /\ TokensInv'
  <2>1. PICK r \in Sems : r = sem
    OBVIOUS
  <2>2. TokenInv(r, q)'
    BY <1>1, <2>1 DEF ExecuteRunner
  <2> QED
    BY <1>1, <2>2 DEF ExecuteRunner
<1>2. CASE WakeThreadAdd
  <2>1. TokenInv(p, q)'
    BY <1>2 DEF WakeThreadAdd
  <2> QED
    BY <1>2, <2>1 DEF WakeThreadAdd
<1>3. CASE WakeThreadFutex
  <2>1. TokenInv(p, q)'
    BY <1>3 DEF WakeThreadFutex
  <2> QED
    BY <1>3, <2>1 DEF WakeThreadFutex
<1>4. CASE SigSemwait
  <2>1. TokenInv(p, q)'
    BY <1>4 DEF SigSemwait
  <2> QED
    BY <1>4, <2>1 DEF SigSemwait
<1>5. CASE NoSignal
  <2>1. Answered /\ hpc = "idle" /\ \A s \in Sems : msem[s] = 0
    BY <1>5 DEF NoSignal
  <2>2. TokenInv(sem, sem)'
    BY <1>5, <2>1 DEF NoSignal
  <2> QED
    BY <1>5, <2>1, <2>2 DEF NoSignal
<1>6. CASE ConsumeSignal
  <2>1. TokenInv(p, q)'
    BY <1>6 DEF ConsumeSignal
  <2> QED
    BY <1>6, <2>1 DEF ConsumeSignal
<1>7. CASE Waitpid
  <2>1. vpc' \in {"wait", "termination_error", "nonzero_exit_code_error", "execution_error"}
    BY <1>7 DEF Waitpid, Outcome
  <2>2. TokenInv(p, q)'
    BY <1>7, <2>1 DEF Waitpid
  <2> QED
    BY <1>7, <2>1, <2>2 DEF Waitpid
<1>8. CASE ReadMailbox
  <2>1. TokenInv(p, q)'
    BY <1>8 DEF ReadMailbox
  <2> QED
    BY <1>8, <2>1 DEF ReadMailbox
<1>9. CASE HandlerSetSignal
  <2>1. TokenInv(p, q)'
    BY <1>9 DEF HandlerSetSignal
  <2> QED
    BY <1>9, <2>1 DEF HandlerSetSignal
<1>10. CASE HandlerLoadSem
  <2>1. TokenInv(p, q)'
    BY <1>10 DEF HandlerLoadSem
  <2> QED
    BY <1>10, <2>1 DEF HandlerLoadSem
<1>11. CASE HandlerPost
  <2>1. TokenInv(p, q)'
    BY <1>11 DEF HandlerPost
  <2> QED
    BY <1>11, <2>1 DEF HandlerPost
<1>12. CASE OtherDescendantDies
  <2>1. TokenInv(p, q)'
    BY <1>12 DEF OtherDescendantDies
  <2> QED
    BY <1>12, <2>1 DEF OtherDescendantDies
<1>13. ASSUME NEW t \in Threads, NEW kind \in {"op", "exit"}, VisibleOp(t, kind)
       PROVE  RoundInv' /\ TokensInv'
  <2>1. TokenInv(p, q)'
    BY <1>13 DEF VisibleOp, Announce
  <2> QED
    BY <1>13, <2>1 DEF VisibleOp, Announce
<1>14. ASSUME NEW t \in Threads, NEW u \in Threads, CreateThread(t, u)
       PROVE  RoundInv' /\ TokensInv'
  <2>1. TokenInv(p, q)'
    BY <1>14 DEF CreateThread, Announce
  <2> QED
    BY <1>14, <2>1 DEF CreateThread, Announce
<1>15. ASSUME NEW t \in Threads, FinishExit(t) PROVE RoundInv' /\ TokensInv'
  <2>1. TokenInv(p, q)'
    BY <1>15 DEF FinishExit
  <2> QED
    BY <1>15, <2>1 DEF FinishExit
<1>16. ASSUME NEW t \in Threads, WakeScheduler(t) PROVE RoundInv' /\ TokensInv'
  <2>1. TokenInv(p, q)'
    BY <1>16 DEF WakeScheduler
  <2> QED
    BY <1>16, <2>1 DEF WakeScheduler
<1>17. ASSUME NEW t \in Threads, LoadWord(t) PROVE RoundInv' /\ TokensInv'
  <2>1. TokenInv(p, q)'
    BY <1>17 DEF LoadWord
  <2> QED
    BY <1>17, <2>1 DEF LoadWord
<1>18. ASSUME NEW t \in Threads, CasWord(t) PROVE RoundInv' /\ TokensInv'
  <2>1. TokenInv(p, q)'
    BY <1>18 DEF CasWord
  <2> QED
    BY <1>18, <2>1 DEF CasWord
<1>19. ASSUME NEW t \in Threads, FutexWait(t) PROVE RoundInv' /\ TokensInv'
  <2>1. TokenInv(p, q)'
    BY <1>19 DEF FutexWait
  <2> QED
    BY <1>19, <2>1 DEF FutexWait
<1>20. ASSUME NEW t \in Threads, FutexInterrupted(t) PROVE RoundInv' /\ TokensInv'
  <2>1. TokenInv(p, q)'
    BY <1>20 DEF FutexInterrupted
  <2> QED
    BY <1>20, <2>1 DEF FutexInterrupted
<1>21. ASSUME NEW t \in Threads, NEW how \in Deaths, Die(t, how)
       PROVE  RoundInv' /\ TokensInv'
  <2>1. TokenInv(p, q)'
    BY <1>21 DEF Die
  <2> QED
    BY <1>21, <2>1 DEF Die
<1>22. CASE UNCHANGED vars
  BY <1>22 DEF vars
<1>23. CASE DestroyHandle
  BY <1>23 DEF DestroyHandle
<1>24. CASE ConsumeExpected
  BY <1>24 DEF ConsumeExpected, TryConsumeSignal
<1>25. CASE DrainZombies
  BY <1>25 DEF DrainZombies, TryConsumeSignal
<1> QED
  BY <1>1, <1>2, <1>3, <1>4, <1>5, <1>6, <1>7, <1>8, <1>9, <1>10, <1>11, <1>12,
     <1>13, <1>14, <1>15, <1>16, <1>17, <1>18, <1>19, <1>20, <1>21, <1>22,
     <1>23, <1>24, <1>25
  DEF Next, McMini, Handler, ThreadStep

(* The life cycle of threads in the model and in the branch.               *)
LEMMA LifeStep ==
  TypeOK /\ RoundInv /\ WordInv /\ MessageInv /\ LifeInv /\ [Next]_vars /\ ~ NewBranch
    => LifeInv'
<1> SUFFICES ASSUME TypeOK /\ RoundInv /\ WordInv /\ MessageInv /\ LifeInv,
                    [Next]_vars, ~ NewBranch
             PROVE  LifeInv'
  OBVIOUS
<1> USE DEF TypeOK, RoundInv, WordInv, MessageInv, LifeInv, Creates, Parked, Released,
          Answered, Errors, mcminiVars, signalVars, threadVars, branchVars,
          Between, Replacing
<1>1. ASSUME NEW t \in Threads, ExecuteRunner(t) PROVE LifeInv'
  BY <1>1 DEF ExecuteRunner, Schedulable
<1>2. CASE WakeThreadAdd
  BY <1>2 DEF WakeThreadAdd
<1>3. CASE WakeThreadFutex
  BY <1>3 DEF WakeThreadFutex
<1>4. CASE SigSemwait
  BY <1>4 DEF SigSemwait
<1>5. CASE NoSignal
  BY <1>5 DEF NoSignal
<1>6. CASE ConsumeSignal
  BY <1>6 DEF ConsumeSignal
<1>7. CASE Waitpid
  <2>1. vpc' \in {"wait", "termination_error", "nonzero_exit_code_error", "execution_error"}
    BY <1>7 DEF Waitpid, Outcome
  <2> QED
    BY <1>7, <2>1 DEF Waitpid
<1>8. CASE ReadMailbox
  <2>1. /\ Answered /\ type[cur] = op[cur] /\ vpc' = "idle"
        /\ pending' = [pending EXCEPT ![cur] = op[cur]]
        /\ UNCHANGED <<tpc, op, cur>>
    BY <1>8 DEF ReadMailbox
  <2>2. CASE pending[cur].kind = "create"
    <3>1. status' = [status EXCEPT ![pending[cur].of] = "running"]
      BY <1>8, <2>2 DEF ReadMailbox
    <3>2. /\ pending[cur].of \in Threads
          /\ op[cur] # pending[cur]
          /\ ~ Creates(op[cur], pending[cur].of)
      BY <2>1, <2>2 DEF Ops
    <3> QED
      BY <2>1, <2>2, <3>1, <3>2
  <2>3. CASE pending[cur].kind = "exit"
    <3>1. status' = [status EXCEPT ![cur] = "exited"]
      BY <1>8, <2>3 DEF ReadMailbox
    <3>2. \A t \in Threads : ~ Creates(op[t], cur) /\ ~ Creates(pending[t], cur)
      BY <1>8 DEF ReadMailbox
    <3> QED
      BY <2>1, <2>3, <3>1, <3>2
  <2>4. CASE pending[cur].kind \notin {"create", "exit"}
    <3>1. status' = status
      BY <1>8, <2>4 DEF ReadMailbox
    <3> QED
      BY <2>1, <2>4, <3>1
  <2> QED
    BY <2>2, <2>3, <2>4
<1>9. CASE HandlerSetSignal
  BY <1>9 DEF HandlerSetSignal
<1>10. CASE HandlerLoadSem
  BY <1>10 DEF HandlerLoadSem
<1>11. CASE HandlerPost
  BY <1>11 DEF HandlerPost
<1>12. CASE OtherDescendantDies
  BY <1>12 DEF OtherDescendantDies
<1>13. ASSUME NEW t \in Threads, NEW kind \in {"op", "exit"}, VisibleOp(t, kind)
       PROVE  LifeInv'
  BY <1>13 DEF VisibleOp, Announce
<1>14. ASSUME NEW t \in Threads, NEW u \in Threads, CreateThread(t, u)
       PROVE  LifeInv'
  BY <1>14 DEF CreateThread, Announce
<1>15. ASSUME NEW t \in Threads, FinishExit(t) PROVE LifeInv'
  BY <1>15 DEF FinishExit
<1>16. ASSUME NEW t \in Threads, WakeScheduler(t) PROVE LifeInv'
  BY <1>16 DEF WakeScheduler
<1>17. ASSUME NEW t \in Threads, LoadWord(t) PROVE LifeInv'
  BY <1>17 DEF LoadWord
<1>18. ASSUME NEW t \in Threads, CasWord(t) PROVE LifeInv'
  BY <1>18 DEF CasWord
<1>19. ASSUME NEW t \in Threads, FutexWait(t) PROVE LifeInv'
  BY <1>19 DEF FutexWait
<1>20. ASSUME NEW t \in Threads, FutexInterrupted(t) PROVE LifeInv'
  BY <1>20 DEF FutexInterrupted
<1>21. ASSUME NEW t \in Threads, NEW how \in Deaths, Die(t, how)
       PROVE  LifeInv'
  BY <1>21 DEF Die
<1>22. CASE UNCHANGED vars
  BY <1>22 DEF vars
<1>23. CASE DestroyHandle
  BY <1>23 DEF DestroyHandle
<1>24. CASE ConsumeExpected
  BY <1>24 DEF ConsumeExpected, TryConsumeSignal
<1>25. CASE DrainZombies
  BY <1>25 DEF DrainZombies, TryConsumeSignal
<1> QED
  BY <1>1, <1>2, <1>3, <1>4, <1>5, <1>6, <1>7, <1>8, <1>9, <1>10, <1>11, <1>12,
     <1>13, <1>14, <1>15, <1>16, <1>17, <1>18, <1>19, <1>20, <1>21, <1>22,
     <1>23, <1>24, <1>25
  DEF Next, McMini, Handler, ThreadStep

-----------------------------------------------------------------------------
(* The first branch satisfies the invariant: there is no token anywhere.   *)
LEMMA InvInit == Init => IInv
<1> SUFFICES ASSUME Init PROVE IInv
  OBVIOUS
<1>1. TypeOK
  BY TypeInit
<1>2. sem \in Sems /\ msem[sem] = 0
  BY <1>1 DEF Init, TypeOK, Sems
<1>3. TokenInv(sem, sem)
  BY <1>2 DEF Init, TokenInv, Tokens, InHandler, InHand, Answers, Answered, Released,
              Between
<1>4. \A t \in Threads : op[t] = StartOp(t) /\ pending[t] = op[t]
  BY DEF Init
<1>5. LifeInv
  BY <1>4 DEF Init, LifeInv, Creates, StartOp, Between
<1>6. RoundInv /\ WordInv /\ MessageInv /\ NoLostWakeup
  BY DEF Init, RoundInv, WordInv, MessageInv, NoLostWakeup, Parked, Released, Between
<1> QED
  BY <1>1, <1>2, <1>3, <1>5, <1>6 DEF IInv, SoundInv, TokensInv

(* So does every later branch, whatever happened in the one before it,     *)
(* unless it is started over a post whose count has been taken back: the   *)
(* reset leaves no token, and a post that is still under way is counted.   *)
LEMMA NewBranchSound ==
  TypeOK /\ NewBranch /\ start' # "stray" => SoundInv'
<1> SUFFICES ASSUME TypeOK, NewBranch, start' # "stray" PROVE SoundInv'
  OBVIOUS
<1> USE DEF NewBranch, StartBranch, signalVars
<1>1. sem \in Sems /\ hsem \in Sems /\ \A s \in Sems : msem'[s] = 0
  BY DEF TypeOK
<1>2. hpc = "idle" \/ flags > 0
  <2>1. ~ (hpc # "idle" /\ flags = 0)
    BY Zenon
  <2> QED
    BY <2>1 DEF TypeOK
<1>3. vpc' = "idle" /\ Tokens(sem, hsem)' = 0
  BY <1>1 DEF Tokens
<1>4. InHandler' <= flags' /\ InHand' = 0 /\ Answers' = 0
  BY <1>2, <1>3 DEF TypeOK, InHandler, InHand, Answers, Answered, Released, Between
<1>5. TokenInv(sem, hsem)'
  <2>1. flags' \in Nat /\ InHandler' \in Nat
    BY DEF TypeOK, InHandler
  <2>2. ASSUME NEW k \in Nat, NEW n \in Nat, k <= n PROVE 0 + k + 0 <= n + 0
    BY <2>2
  <2>3. Tokens(sem, hsem)' + InHandler' + InHand' <= flags' + Answers'
    BY <1>3, <1>4, <2>1, <2>2, Zenon
  <2> QED
    BY <1>1, <1>3, <2>3 DEF TokenInv
<1>6. TokensInv'
  BY <1>1, <1>5 DEF TokensInv, Sems
<1>7. \A t \in Threads : op'[t] = StartOp(t) /\ pending'[t] = op'[t]
  OBVIOUS
<1>8. LifeInv'
  BY <1>7 DEF LifeInv, Creates, StartOp, Between
<1>9. RoundInv' /\ WordInv' /\ MessageInv'
  BY DEF RoundInv, WordInv, MessageInv, Parked, Released, Between
<1> QED
  BY <1>6, <1>8, <1>9 DEF SoundInv

(* Nothing else changes what the branch was started over.                  *)
LEMMA StartKept == [Next]_vars /\ ~ NewBranch => start' = start
  BY DEF Next, vars, branchVars, McMini, Handler, ThreadStep, ExecuteRunner,
         DestroyHandle, WakeThreadAdd, WakeThreadFutex, SigSemwait, NoSignal,
         ConsumeSignal, Waitpid, ReadMailbox, ConsumeExpected, DrainZombies,
         HandlerSetSignal, HandlerLoadSem, HandlerPost, OtherDescendantDies,
         VisibleOp, CreateThread, Announce, FinishExit, WakeScheduler, LoadWord,
         CasWord, FutexWait, FutexInterrupted, Die

(* Every step of McMini, its signal thread or a thread of the branch       *)
(* preserves the invariant.                                                *)
LEMMA InvStep == IInv /\ [Next]_vars => IInv'
<1> SUFFICES ASSUME IInv, [Next]_vars PROVE IInv'
  OBVIOUS
<1>1. TypeOK' /\ NoLostWakeup'
  BY TypeStep, WakeupStep DEF IInv
<1>2. CASE NewBranch
  BY <1>1, <1>2, NewBranchSound DEF IInv
<1>3. CASE ~ NewBranch
  BY <1>1, <1>3, StartKept, WordStep, MessageStep, TokenStep, LifeStep DEF IInv, SoundInv
<1> QED
  BY <1>2, <1>3

(* The inductive invariant, over any number of branches: every semaphore   *)
(* token is accounted for, every mailbox holds the operation its thread is *)
(* at, and the model's life cycle of a thread is within the real one; the  *)
(* exception is a branch started over a post whose count was taken back.   *)
THEOREM Invariance == Spec => []IInv
  BY InvInit, InvStep, PTL DEF Spec

(* Single stepping holds for any number of threads, branches and foreign   *)
(* SIGCHLDs: execute_runner never takes a post of the signal handler for   *)
(* the answer of the thread, unless the branch was started over a post     *)
(* whose count the destructor had taken back.                              *)
THEOREM SingleStepping == Spec => []SingleStep
<1>1. IInv => SingleStep
  BY DEF IInv, SoundInv, SingleStep, TypeOK, WordInv, RoundInv, Answered, Released,
         Parked, Between, Replacing
<1> QED
  BY <1>1, Invariance, PTL

(* Whenever the scheduler chooses the next runner, the model's pending     *)
(* operations are those at which the threads of the branch are parked,     *)
(* with the same exception.                                                *)
THEOREM ModelFaithful == Spec => []ModelMatchesBranch
<1>1. IInv => ModelMatchesBranch
  BY DEF IInv, SoundInv, ModelMatchesBranch, TypeOK, WordInv, MessageInv, LifeInv,
         Released, Parked, Between
<1> QED
  BY <1>1, Invariance, PTL

(* mc_raw_sem_wait and mc_raw_sem_post lose no wake-up.                    *)
THEOREM WakeupsKept == Spec => []NoLostWakeup
  BY Invariance, PTL DEF IInv

-----------------------------------------------------------------------------
(* The refinement, initial states: McMini has the turn in a new branch.    *)
LEMMA LockStepInit == Init => Alternation!Init
  BY DEF Init, Alternation!Init, Alternation!Start, StartOp, Alternates, Between

(* A new branch is a restart, whatever it is started over.                 *)
LEMMA LockStepRestart == NewBranch => Alternation!Restart
  BY DEF NewBranch, StartBranch, Alternation!Restart, Alternation!Start, StartOp,
         Alternates, Between, Replacing

(* Step simulation: the invariant makes every step of the protocol one of  *)
(* LockStep, or a stuttering one.                                          *)
LEMMA LockStepStep ==
  IInv /\ [Next]_vars => [Alternation!Next]_(Alternation!lockStepVars)
<1> DEFINE Turn == IF vpc \notin Between THEN cur ELSE NoMailbox
           Stutter == UNCHANGED <<Turn, op, pending>>
<1>a. CASE NewBranch
  BY <1>a, LockStepRestart DEF Alternation!Next
<1>b. ASSUME [Next]_vars, ~ NewBranch, ~ Alternates
      PROVE  UNCHANGED Alternation!lockStepVars
  BY <1>b, StartKept DEF Alternates, Alternation!lockStepVars
<1> SUFFICES ASSUME IInv, [Next]_vars, ~ NewBranch, Alternates
             PROVE  [Alternation!Next]_(Alternation!lockStepVars)
  BY <1>a, <1>b
<1>c. Alternates' /\ SoundInv
  BY StartKept DEF Alternates, IInv
<1>d. Stutter => UNCHANGED Alternation!lockStepVars
  BY <1>c DEF Alternation!lockStepVars
<1> SUFFICES Alternation!Next \/ Stutter
  BY <1>d
<1> USE <1>c DEF IInv, SoundInv, TypeOK, mcminiVars, signalVars, threadVars, Between,
                 Replacing
<1>1. ASSUME NEW t \in Threads, ExecuteRunner(t)
      PROVE  Alternation!Grant(t)
  BY <1>1 DEF ExecuteRunner, Alternation!Grant
<1>2. ASSUME NEW t \in Threads, tpc[t] = "run", op[t].kind # "exit"
      PROVE  Turn = t /\ op[t] = pending[t] /\ vpc \notin Between
  BY <1>2 DEF WordInv, MessageInv, Parked, Released, Answered
<1>3. ASSUME NEW t \in Threads, NEW kind \in {"op", "exit"}, VisibleOp(t, kind)
      PROVE  Alternation!Advance(t)
  BY <1>2, <1>3 DEF VisibleOp, Announce, Alternation!Advance
<1>4. ASSUME NEW t \in Threads, NEW u \in Threads, CreateThread(t, u)
      PROVE  Alternation!Advance(t)
  BY <1>2, <1>4 DEF CreateThread, Announce, Alternation!Advance
<1>5. ASSUME ReadMailbox PROVE Alternation!Return(cur)
  <2>1. type[cur] = op[cur]
    BY DEF MessageInv
  <2>2. op[cur] # pending[cur] \/ op[cur].kind = "exit"
    BY <1>5 DEF ReadMailbox, RoundInv, MessageInv, Released, Answered, Ops, Parked
  <2> QED
    BY <1>5, <2>1, <2>2 DEF ReadMailbox, Alternation!Return
<1>6. ASSUME WakeThreadAdd \/ WakeThreadFutex \/ SigSemwait \/ NoSignal \/ ConsumeSignal
      PROVE  Stutter
  BY <1>6 DEF WakeThreadAdd, WakeThreadFutex, SigSemwait, NoSignal, ConsumeSignal
<1>7. ASSUME Waitpid PROVE Stutter
  <2>1. vpc' \in {"wait", "termination_error", "nonzero_exit_code_error", "execution_error"}
    BY <1>7 DEF Waitpid, Outcome
  <2> QED
    BY <1>7, <2>1 DEF Waitpid
<1>8. ASSUME Handler \/ OtherDescendantDies PROVE Stutter
  BY <1>8 DEF Handler, HandlerSetSignal, HandlerLoadSem, HandlerPost, OtherDescendantDies
<1>9. ASSUME NEW t \in Threads,
             \/ FinishExit(t) \/ WakeScheduler(t) \/ LoadWord(t) \/ CasWord(t)
             \/ FutexWait(t) \/ FutexInterrupted(t)
             \/ \E how \in Deaths : Die(t, how)
      PROVE  Stutter
  BY <1>9 DEF FinishExit, WakeScheduler, LoadWord, CasWord, FutexWait,
              FutexInterrupted, Die
<1>10. ASSUME UNCHANGED vars PROVE Stutter
  BY <1>10 DEF vars
<1>11. ASSUME DestroyHandle \/ ConsumeExpected \/ DrainZombies PROVE Stutter
  BY <1>11 DEF DestroyHandle, ConsumeExpected, DrainZombies
<1> QED
  BY <1>1, <1>3, <1>4, <1>5, <1>6, <1>7, <1>8, <1>9, <1>10, <1>11
  DEF Next, McMini, ThreadStep, Alternation!Next

(* The mailbox protocol implements strict alternation of turns in which a  *)
(* thread moves by exactly one operation and the verifier learns it, in    *)
(* every branch but those started over a post whose count was taken back.  *)
THEOREM ImplementsLockStep == Spec => LockStepSpec
  BY LockStepInit, LockStepStep, Invariance, PTL
  DEF Spec, LockStepSpec, Alternation!Spec
=============================================================================
