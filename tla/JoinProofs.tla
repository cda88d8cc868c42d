----------------------------- MODULE JoinProofs -----------------------------
(***************************************************************************)
(* Proofs about thread exit and join, for any number of threads and any    *)
(* program in which no thread is joined twice.                             *)
(***************************************************************************)
EXTENDS Join, TLAPS

(* The joins of a thread are a sequence of threads.                        *)
LEMMA JoinsType ==
  ASSUME ProgramInv, NEW t \in Threads
  PROVE  joins[t] \in Seq(Threads)
  BY JoinAssumption DEF JoinAssumption, ProgramInv

(* The target of a join is the thread the program names at that place.     *)
LEMMA JoinOp ==
  ASSUME ProgramInv, NEW t \in Threads, pc[t] \in Nat, Cur(t).kind = "join"
  PROVE  /\ pc[t] \in DOMAIN joins[t]
         /\ Cur(t).target = joins[t][pc[t]]
         /\ Cur(t).target \in Threads
<1>1. joins[t] \in Seq(Threads)
  BY JoinsType
<1>2. pc[t] \in DOMAIN joins[t] /\ Cur(t).target = joins[t][pc[t]]
  BY DEF Cur, OpAt, Op
<1> QED
  BY <1>1, <1>2

(* A join that has begun is the program's i-th one of its thread.          *)
LEMMA BegunElem ==
  ASSUME NEW t, NEW u
  PROVE  u \in Begun(t) <=>
           \E i \in DOMAIN joins[t] :
             u = joins[t][i] /\ (i < pc[t] \/ (i = pc[t] /\ tpc[t] = "joining"))
  BY DEF Begun

(* Every operation of the program is well typed.                            *)
LEMMA OpAtType ==
  ASSUME ProgramInv, NEW t \in Threads, NEW n \in Nat
  PROVE  OpAt(t, n) \in Operations
<1>1. joins[t] \in Seq(Threads)
  BY JoinsType
<1>2. CASE n = 0
  <2>1. n \notin DOMAIN joins[t]
    BY <1>1, <1>2
  <2>2. OpAt(t, n) = Op("other", t)
    BY <1>2, <2>1, Zenon DEF OpAt
  <2> QED
    BY <2>2 DEF Op, Operations
<1>3. CASE n # 0 /\ n \in DOMAIN joins[t]
  <2>1. OpAt(t, n) = Op("join", joins[t][n])
    BY <1>3, Zenon DEF OpAt
  <2> QED
    BY <1>1, <1>3, <2>1 DEF Op, Operations
<1>4. CASE n # 0 /\ n \notin DOMAIN joins[t]
  <2>1. OpAt(t, n) = Op(IF t = Main THEN "process_exit" ELSE "exit", t)
    BY <1>4, Zenon DEF OpAt
  <2> QED
    BY <2>1 DEF Op, Operations
<1> QED
  BY <1>2, <1>3, <1>4

(* Within the joins of its program a thread is at a join.                  *)
LEMMA JoinAtDomain ==
  ASSUME ProgramInv, NEW t \in Threads, pc[t] \in DOMAIN joins[t]
  PROVE  Cur(t).kind = "join"
<1>1. joins[t] \in Seq(Threads)
  BY JoinsType
<1>2. pc[t] # 0
  BY <1>1
<1>3. Cur(t) = Op("join", joins[t][pc[t]])
  BY <1>2, Zenon DEF Cur, OpAt
<1> QED
  BY <1>3 DEF Op

(* A thread restarted inside its first join or exit is not at any other     *)
(* operation.                                                               *)
LEMMA FirstOpNotOther ==
  ASSUME NEW t \in Threads, pc[t] = 1
  PROVE  Cur(t).kind # "other"
<1>1. CASE 1 \in DOMAIN joins[t]
  <2>1. Cur(t) = Op("join", joins[t][1])
    BY <1>1, 1 # 0, Zenon DEF Cur, OpAt
  <2> QED
    BY <2>1 DEF Op
<1>2. CASE 1 \notin DOMAIN joins[t]
  <2>1. Cur(t) = Op(IF t = Main THEN "process_exit" ELSE "exit", t)
    BY <1>2, 1 # 0, Zenon DEF Cur, OpAt
  <2> QED
    BY <2>1 DEF Op
<1> QED
  BY <1>1, <1>2

(* In the initial state nobody has been joined and no round has begun.     *)
LEMMA InvInit == Init => IInv
<1> SUFFICES ASSUME Init PROVE IInv
  OBVIOUS
<1> USE DEF Init
<1>2. ProgramInv
  BY DEF ProgramInv, Origins
<1>1. TypeOK
  <2>1. \A t \in Threads : Cur(t) \in Operations
    BY <1>2, OpAtType DEF Cur
  <2> QED
    BY <2>1 DEF TypeOK
<1>3. RoundInv
  BY DEF RoundInv
<1>4. WindowInv /\ TokenInv
  BY DEF WindowInv, TokenInv
<1>5. LivesUntilJoined
  BY DEF LivesUntilJoined
<1>6. JoinWaits
  <2> SUFFICES ASSUME NEW t \in Threads, NEW i \in DOMAIN joins[t], i < pc[t]
               PROVE  FALSE
    BY DEF JoinWaits
  <2>1. joins[t] \in Seq(Threads)
    BY <1>2, JoinsType
  <2> QED
    BY <2>1
<1> QED
  BY <1>1, <1>2, <1>3, <1>4, <1>5, <1>6 DEF IInv

(* The program of an operation does not depend on the state.               *)
LEMMA OpAtFixed ==
  ASSUME UNCHANGED program, NEW t, NEW n
  PROVE  OpAt(t, n)' = OpAt(t, n)
  BY DEF OpAt, Op, program

(* Rounds, one lemma for the four invariants that any action may touch.    *)
LEMMA RoundStep ==
  IInv /\ [Next]_vars => ProgramInv' /\ RoundInv' /\ WindowInv'
<1> SUFFICES ASSUME IInv, [Next]_vars
             PROVE  ProgramInv' /\ RoundInv' /\ WindowInv'
  OBVIOUS
<1> USE DEF IInv, TypeOK, RoundInv, WindowInv
<1>1. UNCHANGED program
  BY DEF Next, Thread, Schedule, Receive, Other, JoinInWindow, Grant, JoinForReal,
         JoinRecreated, ReturnInWindow, PthreadExitInWindow, ExitThread, Part, vars
<1>2. ProgramInv'
  BY <1>1 DEF ProgramInv, program
<1>3. \A t, n : OpAt(t, n)' = OpAt(t, n)
  BY <1>1, OpAtFixed
<1>4. \A t \in Threads : pc'[t] = pc[t] => Cur(t)' = Cur(t)
  BY <1>3 DEF Cur
<1> USE DEF At, Goto, Advance, thread, program, mcmini
<1>5. ASSUME NEW t \in Threads, Schedule(t) PROVE RoundInv' /\ WindowInv'
  BY <1>5, <1>4, JoinAssumption DEF JoinAssumption, Schedule, EnabledIn
<1>6. ASSUME NEW t \in Threads, Receive(t) PROVE RoundInv' /\ WindowInv'
  BY <1>6, <1>4 DEF Receive
<1>7. ASSUME NEW t \in Threads, Advance(t), tpc[t] \in {"go", "joining"},
             UNCHANGED <<mcmini>>, window' \in {window, window \ {t}},
             t \notin window'
      PROVE  RoundInv' /\ WindowInv'
  <2>1. \A u \in Threads \ {t} : Cur(u)' = Cur(u)
    BY <1>7, <1>4
  <2>2. Cur(t)' = OpAt(t, pc[t] + 1)
    BY <1>7, <1>3 DEF Cur
  <2> QED
    BY <1>1, <1>7, <2>1, <2>2
<1>8. ASSUME NEW t \in Threads,
             Other(t) \/ JoinInWindow(t) \/ JoinForReal(t) \/ JoinRecreated(t)
      PROVE  RoundInv' /\ WindowInv'
  <2>1. Other(t) => t \notin window
    BY FirstOpNotOther DEF Other
  <2> QED
    BY <1>7, <1>8, <2>1 DEF Other, JoinInWindow, JoinForReal, JoinRecreated
<1>9. ASSUME NEW t \in Threads, Grant(t) PROVE RoundInv' /\ WindowInv'
  BY <1>9, <1>4 DEF Grant
<1>10. ASSUME NEW t \in Threads, ReturnInWindow(t) PROVE RoundInv' /\ WindowInv'
  BY <1>10, <1>4 DEF ReturnInWindow
<1>11. ASSUME NEW t \in Threads, PthreadExitInWindow(t) PROVE RoundInv' /\ WindowInv'
  BY <1>11, <1>4 DEF PthreadExitInWindow
<1>12. ASSUME NEW t \in Threads, ExitThread(t) PROVE RoundInv' /\ WindowInv'
  BY <1>12, <1>4 DEF ExitThread
<1>13. ASSUME NEW t \in Threads, Part(t) PROVE RoundInv' /\ WindowInv'
  BY <1>13, <1>4 DEF Part
<1>14. CASE UNCHANGED vars
  BY <1>2, <1>14, <1>4 DEF vars
<1> QED
  BY <1>2, <1>5, <1>6, <1>8, <1>9, <1>10, <1>11, <1>12, <1>13, <1>14 DEF Next, Thread

(* Types and tokens: a second token would need a second join of the same   *)
(* thread, or a thread that ends twice.                                    *)
LEMMA TokenStep ==
  IInv /\ [Next]_vars => TypeOK' /\ TokenInv' /\ LivesUntilJoined' /\ JoinWaits'
<1> SUFFICES ASSUME IInv, [Next]_vars
             PROVE  TypeOK' /\ TokenInv' /\ LivesUntilJoined' /\ JoinWaits'
  OBVIOUS
<1> DEFINE Goal == TypeOK' /\ TokenInv' /\ LivesUntilJoined' /\ JoinWaits'
<1>1. UNCHANGED program
  BY DEF Next, Thread, Schedule, Receive, Other, JoinInWindow, Grant, JoinForReal,
         JoinRecreated, ReturnInWindow, PthreadExitInWindow, ExitThread, Part, vars
<1> USE <1>1 DEF IInv, TypeOK, program, At, Goto, thread, mcmini


\* What each kind of step has to respect: joins go forward, permission comes from a
\* join that has begun, a thread ends with permission and stays ended, and a join
\* that waits is left only when its target has ended.
<1> DEFINE
      Forward == \A t \in Threads :
        /\ pc'[t] \in Nat /\ pc'[t] >= pc[t]
        /\ tpc[t] = "joining" => pc'[t] > pc[t] \/ (pc'[t] = pc[t] /\ tpc'[t] = "joining")
      Tokens == \A u \in Threads :
        /\ perm'[u] > 0 => perm[u] > 0 \/ \E t \in Threads : u \in Begun(t)'
        /\ really'[u] > 0 => really[u] > 0 \/ tpc'[u] = "dead"
      Deaths == \A u \in Threads :
        /\ tpc[u] = "dead" => tpc'[u] = "dead"
        /\ tpc'[u] = "dead" => tpc[u] = "dead" \/ perm[u] > 0
      Waits == \A t \in Threads : \A i \in DOMAIN joins[t] :
        i < pc'[t] => \/ i < pc[t]
                      \/ tpc'[joins[t][i]] = "dead"
                      \/ i = 1 /\ origin[t] = "inside"
<1> HIDE DEF Forward, Tokens, Deaths, Waits
<1>2. ASSUME Forward, Tokens, Deaths, Waits
      PROVE  TokenInv' /\ LivesUntilJoined' /\ JoinWaits'
  <2>1. \A t \in Threads : joins[t] \in Seq(Threads)
    BY JoinsType
  <2>2. ASSUME NEW u, NEW t \in Threads, u \in Begun(t) PROVE u \in Begun(t)'
    <3>1. PICK i \in DOMAIN joins[t] :
                 u = joins[t][i] /\ (i < pc[t] \/ (i = pc[t] /\ tpc[t] = "joining"))
      BY <2>2, BegunElem
    <3>2. i < pc'[t] \/ (i = pc'[t] /\ tpc'[t] = "joining")
      BY <1>2, <2>1, <3>1 DEF Forward
    <3> QED
      BY <3>1, <3>2 DEF Begun
  <2>3. TokenInv'
    BY <1>2, <2>2 DEF TokenInv, Tokens, Deaths
  <2>4. LivesUntilJoined'
    BY <1>2, <2>2 DEF TokenInv, LivesUntilJoined, Deaths
  <2>5. JoinWaits'
    BY <1>2, <2>1 DEF JoinWaits, Waits, Deaths
  <2> QED
    BY <2>3, <2>4, <2>5
<1>3. ASSUME NEW t \in Threads, Schedule(t) PROVE Goal
  <2>1. tpc[t] # "dead" /\ tpc[t] # "joining"
    BY <1>3, JoinAssumption DEF JoinAssumption, Schedule, EnabledIn, RoundInv
  <2>2. Forward /\ Tokens /\ Deaths /\ Waits
    BY <1>3, <2>1 DEF Schedule, Forward, Tokens, Deaths, Waits
  <2>3. TypeOK'
    BY <1>3 DEF Schedule
  <2> QED
    BY <1>2, <2>2, <2>3
<1>4. ASSUME NEW t \in Threads, Receive(t) PROVE Goal
  <2>1. TypeOK'
    BY <1>4 DEF Receive
  <2>2. Forward /\ Tokens /\ Deaths /\ Waits
    BY <1>4 DEF Receive, Forward, Tokens, Deaths, Waits
  <2> QED
    BY <1>2, <2>1, <2>2
<1>5. ASSUME NEW t \in Threads, Advance(t), tpc[t] \in {"go", "joining"},
             UNCHANGED perm, UNCHANGED mcmini, window' \subseteq window,
             really' \in [Threads -> 0..1], Tokens, Waits
      PROVE  Goal
  <2>1. OpAt(t, pc[t] + 1) \in Operations
    BY OpAtType
  <2>2. TypeOK'
    BY <1>5, <2>1 DEF Advance
  <2>3. Forward
    BY <1>5 DEF Advance, Forward
  <2>4. Deaths
    BY <1>5 DEF Advance, Deaths
  <2> QED
    BY <1>2, <1>5, <2>2, <2>3, <2>4
<1>6. ASSUME NEW t \in Threads, Other(t) PROVE Goal
  <2>1. Cur(t).kind = "other"
    BY <1>6 DEF Other
  <2>2. \A i \in DOMAIN joins[t] : i # pc[t]
    BY <2>1, JoinAtDomain
  <2>3. Waits
    BY JoinsType, <1>6, <2>2 DEF Other, Advance, Waits
  <2>4. Tokens
    BY <1>6 DEF Other, Tokens
  <2> QED
    BY <1>5, <1>6, <2>3, <2>4 DEF Other
<1>7. ASSUME NEW t \in Threads, JoinInWindow(t) PROVE Goal
  <2>1. Waits
    BY JoinsType, <1>7 DEF JoinInWindow, Advance, WindowInv, Waits
  <2>2. Tokens
    BY <1>7 DEF JoinInWindow, Tokens
  <2> QED
    BY <1>5, <1>7, <2>1, <2>2 DEF JoinInWindow
<1>8. ASSUME NEW t \in Threads, Grant(t) PROVE Goal
  <2> PICK target : target = Cur(t).target
    OBVIOUS
  <2>1. /\ pc[t] \in DOMAIN joins[t] /\ target = joins[t][pc[t]] /\ target \in Threads
        /\ joins[t] \in Seq(Threads)
    BY <1>8, JoinOp, JoinsType DEF Grant
  <2>2. perm[target] = 0
    <3>1. SUFFICES ASSUME perm[target] # 0 PROVE FALSE
      OBVIOUS
    <3>2. PICK u \in Threads : target \in Begun(u)
      <4>1. perm[target] > 0
        BY <2>1, <3>1
      <4> QED
        BY <2>1, <4>1 DEF TokenInv
    <3>3. PICK i \in DOMAIN joins[u] :
                 target = joins[u][i] /\ (i < pc[u] \/ (i = pc[u] /\ tpc[u] = "joining"))
      BY <3>2, BegunElem
    <3>4. u = t /\ i = pc[t]
      <4>1. JoinedOnce(joins)
        BY JoinAssumption DEF JoinAssumption, ProgramInv
      <4>2. \A k \in DOMAIN joins[t] : joins[u][i] = joins[t][k] => u = t /\ i = k
        BY <4>1, ZenonT(20) DEF JoinedOnce
      <4> QED
        BY <2>1, <3>3, <4>2
    <3> QED
      BY <1>8, <2>1, <3>3, <3>4 DEF Grant
  <2>3. TypeOK'
    BY <1>8, <2>1, <2>2 DEF Grant
  <2>4. target \in Begun(t)'
    BY <1>8, <2>1 DEF Grant, Begun
  <2>5. Forward /\ Tokens /\ Deaths /\ Waits
    BY <1>8, <2>1, <2>4 DEF Grant, Forward, Tokens, Deaths, Waits
  <2> QED
    BY <1>2, <2>3, <2>5
<1>9. ASSUME NEW t \in Threads, JoinForReal(t) PROVE Goal
  <2> PICK target : target = Cur(t).target
    OBVIOUS
  <2>1. target = joins[t][pc[t]] /\ target \in Threads
    BY <1>9, JoinOp DEF JoinForReal
  <2>2. tpc[target] = "dead" /\ target # t
    BY <1>9, <2>1 DEF JoinForReal, IsRecreated, TokenInv, ProgramInv
  <2>3. Waits
    BY JoinsType, <1>9, <2>1, <2>2 DEF JoinForReal, Advance, Waits
  <2>4. Tokens
    BY <1>9 DEF JoinForReal, Tokens
  <2> QED
    BY <1>5, <1>9, <2>3, <2>4 DEF JoinForReal
<1>10. ASSUME NEW t \in Threads, JoinRecreated(t) PROVE Goal
  <2> PICK target : target = Cur(t).target
    OBVIOUS
  <2>1. target = joins[t][pc[t]] /\ target \in Threads
    BY <1>10, JoinOp DEF JoinRecreated
  <2>2. tpc[target] = "dead" /\ target # t
    BY <1>10, <2>1 DEF JoinRecreated, TokenInv
  <2>3. Waits
    BY JoinsType, <1>10, <2>1, <2>2 DEF JoinRecreated, Advance, Waits
  <2>4. really' \in [Threads -> 0..1] /\ Tokens
    BY <1>10, <2>1 DEF JoinRecreated, Tokens
  <2> QED
    BY <1>5, <1>10, <2>3, <2>4 DEF JoinRecreated
<1>11. ASSUME NEW t \in Threads, ReturnInWindow(t) PROVE Goal
  <2>1. TypeOK' /\ Forward /\ Tokens /\ Deaths /\ Waits
    BY <1>11 DEF ReturnInWindow, Forward, Tokens, Deaths, Waits
  <2> QED
    BY <1>2, <2>1
<1>12. ASSUME NEW t \in Threads, PthreadExitInWindow(t) \/ ExitThread(t) PROVE Goal
  <2>1. TypeOK'
    BY <1>12 DEF PthreadExitInWindow, ExitThread
  <2>2. Forward
    BY <1>12 DEF PthreadExitInWindow, ExitThread, Forward
  <2>3. Tokens
    BY <1>12 DEF PthreadExitInWindow, ExitThread, Tokens
  <2>4. Deaths /\ Waits
    BY <1>12 DEF PthreadExitInWindow, ExitThread, Deaths, Waits
  <2> QED
    BY <1>2, <2>1, <2>2, <2>3, <2>4
<1>13. ASSUME NEW t \in Threads, Part(t) PROVE Goal
  <2>1. really[t] = 0
    BY <1>13 DEF Part, TokenInv
  <2>2. TypeOK' /\ Forward /\ Tokens /\ Deaths /\ Waits
    BY <1>13, <2>1 DEF Part, Forward, Tokens, Deaths, Waits
  <2> QED
    BY <1>2, <2>2
<1>14. CASE UNCHANGED vars
  <2>1. TypeOK' /\ Forward /\ Tokens /\ Deaths /\ Waits
    BY <1>14 DEF vars, Forward, Tokens, Deaths, Waits
  <2> QED
    BY <1>2, <2>1
<1> QED
  BY <1>3, <1>4, <1>6, <1>7, <1>8, <1>9, <1>10, <1>11, <1>12, <1>13, <1>14
  DEF Next, Thread

(* The inductive invariant.                                                *)
THEOREM Invariance == Spec => []IInv
<1>1. IInv /\ [Next]_vars => IInv'
  BY RoundStep, TokenStep DEF IInv
<1> QED
  BY InvInit, <1>1, PTL DEF Spec

(* Every variable keeps its type; neither exit_permission_sem nor          *)
(* really_exited_sem ever holds more than one token.                       *)
THEOREM TypeCorrect == Spec => []TypeOK
  BY Invariance, PTL DEF IInv

(* For any program: a thread that exits in the branch stays until somebody *)
(* has begun to join it.                                                   *)
THEOREM ExitWaitsForJoin == Spec => []LivesUntilJoined
  BY Invariance, PTL DEF IInv

(* For any program and any mixture of created and recreated threads: a     *)
(* join that did not meet the restart returns after its target has ended.  *)
THEOREM JoinWaitsForExit == Spec => []JoinWaits
  BY Invariance, PTL DEF IInv

=============================================================================
