----------------------------- MODULE DporProofs -----------------------------
(***************************************************************************)
(* Proofs about Dpor, for any programs and whatever transitions the        *)
(* dependency and co-enabledness relations relate.                         *)
(***************************************************************************)
EXTENDS Dpor, SequenceFacts

-----------------------------------------------------------------------------
(* The program.                                                            *)

(* The pending transition of a runner is one of its own; what it creates   *)
(* is a runner.                                                            *)
LEMMA PendingProperties ==
  ASSUME prog \in Programs, NEW pos, NEW t \in Runners
  PROVE  /\ Pending(pos, t).by = t
         /\ Pending(pos, t).kind = "create" => Pending(pos, t).obj \in Runners
<1>1. /\ prog.ops \in [Runners -> Seq(Operations)]
      /\ \A u \in Runners : \A i \in 1..Len(prog.ops[u]) : prog.ops[u][i].by = u
  BY DporAssumption
<1>2. CASE pos.pc[t] = 0
  <2>1. pos.pc[t] \notin DOMAIN prog.ops[t]
    BY <1>1, <1>2
  <2>2. Pending(pos, t) = Start(t)
    BY <1>2, <2>1, Zenon DEF Pending
  <2> QED
    BY <2>2 DEF Start, Transition
<1>3. CASE pos.pc[t] # 0 /\ pos.pc[t] \in DOMAIN prog.ops[t]
  <2>1. Pending(pos, t) = prog.ops[t][pos.pc[t]]
    BY <1>3, Zenon DEF Pending
  <2>2. prog.ops[t] \in Seq(Operations) /\ pos.pc[t] \in 1..Len(prog.ops[t])
    BY <1>1, <1>3
  <2>3. prog.ops[t][pos.pc[t]] \in Operations /\ prog.ops[t][pos.pc[t]].by = t
    BY <1>1, <2>2
  <2> QED
    BY <2>1, <2>3 DEF Operations
<1>4. CASE pos.pc[t] # 0 /\ pos.pc[t] \notin DOMAIN prog.ops[t]
  <2>1. Pending(pos, t) = Transition(t, "exit", t)
    BY <1>4, Zenon DEF Pending
  <2> QED
    BY <2>1 DEF Transition
<1> QED
  BY <1>2, <1>3, <1>4

(* The runners that can be known are runners.                              *)
LEMMA KnownProperties ==
  ASSUME prog \in Programs, known \in prog.live..MaxRunners, NEW pos, NEW t \in Runners
  PROVE  KnownAfter(pos, t) \in prog.live..MaxRunners
<1>1. prog.live \in 1..MaxRunners /\ MaxRunners \in Nat
  BY DporAssumption, TransitionsAssumption
<1>2. Pending(pos, t).kind = "create" => Pending(pos, t).obj \in 0..(MaxRunners - 1)
  BY PendingProperties DEF Runners
<1> QED
  BY <1>1, <1>2 DEF KnownAfter

(* The program does not change.                                            *)
LEMMA ProgramIsFixed ==
  ASSUME prog' = prog
  PROVE  /\ \A x : Ready(x)' = Ready(x)
         /\ \A x, t : After(x, t)' = After(x, t)
<1>1. \A x, t : Pending(x, t)' = Pending(x, t)
  BY Zenon DEF Pending
<1>2. \A x : Ready(x)' = Ready(x)
  <2> SUFFICES ASSUME NEW x
               PROVE  Ready(x)' = Ready(x)
    OBVIOUS
  <2>1. \A t : Pending(x, t)' = Pending(x, t)
    BY <1>1
  <2> QED
    BY <2>1 DEF Ready
<1>3. \A x, t : After(x, t)' = After(x, t)
  BY <1>1 DEF After
<1> QED
  BY <1>2, <1>3

-----------------------------------------------------------------------------
(* Sequences and clocks.                                                   *)

(* The largest of clock values up to a bound.                              *)
LEMMA MaxClockProperties ==
  ASSUME NEW n \in Nat, NEW S, \A c \in S : c \in [Runners -> 0..n]
  PROVE  MaxClock(S) \in [Runners -> 0..n]
<1> SUFFICES ASSUME NEW t \in Runners
             PROVE  Max({0} \cup {c[t] : c \in S}) \in 0..n
  BY DEF MaxClock
<1> DEFINE T == {0} \cup {c[t] : c \in S}
<1>1. \A c \in S : c[t] \in 0..n
  OBVIOUS
<1>2. T \subseteq Nat /\ T # {} /\ \A x \in T : x <= n
  BY <1>1
<1> HIDE DEF T
<1>3. Max(T) \in T
  BY <1>2, MaxOfBounded
<1>4. Max(T) \in 0..n
  <2>1. \A x \in T : x \in 0..n
    BY <1>2
  <2> QED
    BY <1>3, <2>1, Zenon
<1> QED
  BY <1>4 DEF T

LEMMA AccumulateProperties ==
  ASSUME NEW stk, StackOK(stk), stk # <<>>, NEW tr
  PROVE  AccumulateMaxClockVectorAgainst(stk, tr) \in [Runners -> 0..(Len(stk) - 1)]
<1>1. stk \in Seq(Range(stk)) /\ Len(stk) \in Nat /\ DOMAIN stk = 1..Len(stk)
  BY DEF StackOK
<1>2. Len(stk) - 1 \in Nat
  BY <1>1
<1> DEFINE J == {j \in DOMAIN stk : stk[j].out # NoStep /\ AreDependent(stk[j].out, tr)}
           S == {stk[i].cv : i \in J}
<1>3. \A i \in 1..Len(stk) : stk[i].cv \in [Runners -> 0..(Len(stk) - 1)]
  <2> SUFFICES ASSUME NEW i \in 1..Len(stk)
               PROVE  stk[i].cv \in [Runners -> 0..(Len(stk) - 1)]
    OBVIOUS
  <2>1. stk[i].cv \in [Runners -> 0..(i - 1)]
    BY DEF StackOK, ItemOK
  <2>2. 0..(i - 1) \subseteq 0..(Len(stk) - 1)
    BY <1>1
  <2> QED
    BY <2>1, <2>2
<1>4. \A c \in S : c \in [Runners -> 0..(Len(stk) - 1)]
  BY <1>1, <1>3
<1> HIDE DEF J, S
<1>5. MaxClock(S) \in [Runners -> 0..(Len(stk) - 1)]
  BY <1>2, <1>4, MaxClockProperties
<1> QED
  BY <1>5 DEF S, J, AccumulateMaxClockVectorAgainst

-----------------------------------------------------------------------------
(* Growing the stack.                                                      *)

(* One more entry: the step t leaves the last entry and leads to the new    *)
(* one, whose search has not begun.                                         *)
LEMMA GrowStackEffect ==
  ASSUME prog \in Programs, NEW stk, StackOK(stk), stk # <<>>,
         NEW t, t \in Last(stk).enabled
  PROVE  LET g == GrowStack(stk, t) IN
         /\ StackOK(g)
         /\ Len(g) = Len(stk) + 1
         /\ g[Len(g)].done = {} /\ g[Len(g)].backtrack = {}
         /\ \A i \in 1..(Len(stk) - 1) : g[i] = stk[i]
         /\ g[Len(stk)].out.by = t
         /\ g[Len(stk)].done = stk[Len(stk)].done \cup {t}
<1>0. PICK n : n = Len(stk)
  OBVIOUS
<1> DEFINE s_n == Last(stk)
           t_n == Pending(s_n.pos, t)
           cv == [AccumulateMaxClockVectorAgainst(stk, t_n) EXCEPT ![t] = n]
           pos == After(s_n.pos, t)
           asleep == {q \in s_n.sleep : ~ AreDependent(Pending(pos, q), t_n)}
           clocks == [s_n.clocks EXCEPT ![t] = cv]
           old == MarkSearched([s_n EXCEPT !.out = t_n, !.sleep = @ \cup {t}], t)
           new == [StackItem(cv, clocks, t_n, pos) EXCEPT !.sleep = asleep]
           g == Append([stk EXCEPT ![n] = old], new)
<1>1. /\ stk \in Seq(Range(stk)) /\ n \in Nat /\ n > 0 /\ DOMAIN stk = 1..n
      /\ s_n = stk[n] /\ n \in 1..n
  BY <1>0 DEF StackOK, Last
<1>2. ItemOK(s_n, n) /\ t \in Runners
  BY <1>0, <1>1 DEF StackOK, ItemOK, Ready
<1>3. t_n.by = t
  BY <1>2, PendingProperties
<1>4. GrowStack(stk, t) = g
  BY <1>0, Zenon DEF GrowStack
<1>5. cv \in [Runners -> 0..n]
  <2>1. AccumulateMaxClockVectorAgainst(stk, t_n) \in [Runners -> 0..(n - 1)]
    BY <1>0, AccumulateProperties
  <2>2. 0..(n - 1) \subseteq 0..n /\ n \in 0..n
    BY <1>1
  <2>3. AccumulateMaxClockVectorAgainst(stk, t_n) \in [Runners -> 0..n]
    BY <2>1, <2>2
  <2> QED
    BY <1>2, <2>2, <2>3
<1> HIDE DEF cv
<1>6. clocks \in [Runners -> [Runners -> 0..n]]
  <2>1. s_n.clocks \in [Runners -> [Runners -> 0..(n - 1)]]
    BY <1>2 DEF ItemOK
  <2>2. 0..(n - 1) \subseteq 0..n
    BY <1>1
  <2>3. s_n.clocks \in [Runners -> [Runners -> 0..n]]
    BY <2>1, <2>2
  <2> QED
    BY <1>2, <1>5, <2>3
<1> HIDE DEF clocks, asleep, pos, t_n, s_n
<1>7. /\ DOMAIN old = Fields /\ old.out = t_n /\ old.done = s_n.done \cup {t}
      /\ old.backtrack = s_n.backtrack \ {t}
      /\ old.cv = s_n.cv /\ old.clocks = s_n.clocks /\ old.pos = s_n.pos
      /\ old.enabled = s_n.enabled
  BY <1>2 DEF MarkSearched, ItemOK, Fields
<1>8. /\ DOMAIN new = Fields /\ new.cv = cv /\ new.clocks = clocks /\ new.pos = pos
      /\ new.enabled = Ready(pos) /\ new.done = {} /\ new.backtrack = {}
  BY DEF StackItem, Fields
<1> HIDE DEF old, new
<1>9. ItemOK(old, n)
  BY <1>2, <1>7 DEF ItemOK, s_n
<1>10. ItemOK(new, n + 1)
  <2>1. (n + 1) - 1 = n
    BY <1>1
  <2> QED
    BY <1>5, <1>6, <1>8, <2>1 DEF ItemOK
<1>11. /\ g \in Seq(Range(stk) \cup {old, new}) /\ Len(g) = n + 1
       /\ \A i \in 1..(n - 1) : g[i] = stk[i]
       /\ g[n] = old /\ g[n + 1] = new
  <2> DEFINE h == [stk EXCEPT ![n] = old]
             S == Range(stk) \cup {old, new}
  <2>1. Range(stk) \subseteq S /\ old \in S /\ new \in S
    OBVIOUS
  <2> HIDE DEF S
  <2>2. stk \in Seq(S)
    BY <1>1, <2>1
  <2>3. /\ h \in Seq(S) /\ Len(h) = n
        /\ \A i \in 1..(n - 1) : h[i] = stk[i]
        /\ h[n] = old
    BY <1>0, <1>1, <2>1, <2>2
  <2> HIDE DEF h
  <2>4. /\ Append(h, new) \in Seq(S) /\ Len(Append(h, new)) = n + 1
        /\ \A i \in 1..n : Append(h, new)[i] = h[i]
        /\ Append(h, new)[n + 1] = new
    BY <1>1, <2>1, <2>3
  <2>5. g = Append(h, new)
    BY DEF h
  <2> QED
    BY <1>1, <2>3, <2>4, <2>5 DEF S
<1>12. g \in Seq(Range(g))
  BY <1>11, SeqOfRange
<1> HIDE DEF g
<1>13. \A i \in 1..Len(g) : ItemOK(g[i], i)
  <2> SUFFICES ASSUME NEW i \in 1..(n + 1)
               PROVE  ItemOK(g[i], i)
    BY <1>11
  <2>1. CASE i \in 1..(n - 1)
    BY <1>0, <1>1, <1>11, <2>1 DEF StackOK
  <2>2. CASE i = n
    BY <1>9, <1>11, <2>2
  <2>3. CASE i = n + 1
    BY <1>10, <1>11, <2>3
  <2>4. i \in 1..(n - 1) \/ i = n \/ i = n + 1
    BY <1>1
  <2> QED
    BY <2>1, <2>2, <2>3, <2>4
<1>14. \A i \in 1..(Len(g) - 1) :
         /\ g[i].out.by \in g[i].done
         /\ g[i + 1].pos = After(g[i].pos, g[i].out.by)
  <2> SUFFICES ASSUME NEW i \in 1..n
               PROVE  /\ g[i].out.by \in g[i].done
                      /\ g[i + 1].pos = After(g[i].pos, g[i].out.by)
    BY <1>1, <1>11
  <2>1. CASE i \in 1..(n - 2)
    <3>1. i \in 1..(n - 1) /\ i + 1 \in 1..(n - 1)
      BY <1>1, <2>1
    <3> QED
      BY <1>0, <1>1, <1>11, <3>1 DEF StackOK
  <2>2. CASE i = n - 1
    <3>1. i \in 1..(n - 1) /\ i + 1 = n
      BY <1>1, <2>2
    <3>2. stk[i].out.by \in stk[i].done /\ stk[n].pos = After(stk[i].pos, stk[i].out.by)
      BY <1>0, <1>1, <3>1 DEF StackOK
    <3> QED
      BY <1>1, <1>7, <1>11, <3>1, <3>2 DEF s_n
  <2>3. CASE i = n
    BY <1>3, <1>7, <1>8, <1>11, <2>3 DEF pos, s_n
  <2>4. i \in 1..(n - 2) \/ i = n - 1 \/ i = n
    BY <1>1
  <2> QED
    BY <2>1, <2>2, <2>3, <2>4
<1>15. g[1].backtrack = {}
  <2>1. stk[1].backtrack = {}
    BY <1>0, <1>1 DEF StackOK
  <2>2. CASE n = 1
    BY <1>1, <1>7, <1>11, <2>1, <2>2
  <2>3. CASE n > 1
    BY <1>1, <1>11, <2>1, <2>3
  <2> QED
    BY <1>1, <2>2, <2>3
<1>16. StackOK(g)
  BY <1>12, <1>13, <1>14, <1>15 DEF StackOK
<1> QED
  BY <1>0, <1>1, <1>3, <1>4, <1>7, <1>8, <1>11, <1>16

-----------------------------------------------------------------------------
(* Updating the backtrack sets.                                            *)

(* Only the backtrack sets differ, and not the one of the last entry.      *)
Same(a, b) ==
  /\ Len(b) = Len(a)
  /\ b[Len(a)] = a[Len(a)]
  /\ \A j \in 1..Len(a) : b[j].out = a[j].out /\ b[j].done = a[j].done

(* The first step happens before every pending one.                        *)
LEMMA NoRaceAtDepthZero ==
  ASSUME prog \in Programs, NEW stk, StackOK(stk), Len(stk) >= 2, NEW p \in Runners
  PROVE  ~ HasReversibleRace(stk, 0, p)
<1>0. PICK n : n = Len(stk)
  OBVIOUS
<1>1. n \in Nat /\ n >= 2 /\ n \in 1..n /\ 1 \in 1..n /\ 1 \in 1..(n - 1) /\ 0 + 1 = 1
  BY <1>0 DEF StackOK
<1>2. Last(stk).clocks \in [Runners -> [Runners -> 0..(n - 1)]]
  BY <1>0, <1>1 DEF StackOK, ItemOK, Last
<1>3. stk[1].out.by \in Runners
  BY <1>0, <1>1 DEF StackOK, ItemOK, Ready
<1>4. Last(stk).clocks[p][stk[1].out.by] \in 0..(n - 1)
  BY <1>2, <1>3
<1>5. HappensBeforeThread(stk, 0, p)
  BY <1>1, <1>4 DEF HappensBeforeThread
<1> QED
  BY <1>5, Zenon DEF HasReversibleRace

(* An update adds to one backtrack set, not to the one of depth 0.         *)
LEMMA UpdateEffect ==
  ASSUME prog \in Programs, NEW stk, StackOK(stk),
         NEW i \in 0..(Len(stk) - 2), NEW p \in Runners
  PROVE  StackOK(Update(stk, i, p)) /\ Same(stk, Update(stk, i, p))
<1>0. PICK n : n = Len(stk)
  OBVIOUS
<1>1. stk \in Seq(Range(stk)) /\ n \in Nat /\ n >= 2 /\ DOMAIN stk = 1..n
  BY <1>0 DEF StackOK
<1>2. CASE ~ HasReversibleRace(stk, i, p)
  <2>1. Update(stk, i, p) = stk
    BY <1>2 DEF Update
  <2> QED
    BY <2>1 DEF Same
<1>3. CASE HasReversibleRace(stk, i, p)
  <2>1. i # 0 /\ i + 1 \in 1..(n - 1) /\ i + 1 \in 1..n /\ i + 1 # 1 /\ i + 1 # n
    <3>1. i # 0
      BY <1>0, <1>1, <1>3, NoRaceAtDepthZero
    <3> QED
      BY <1>0, <1>1, <3>1
  <2> DEFINE pre == stk[i + 1]
             e == {q \in pre.enabled \ pre.sleep : q = p \/ ThreadsRaceAfter(stk, i, q, p)}
             add == IF e = {} THEN pre.enabled \ pre.sleep
                    ELSE IF e \cap pre.backtrack # {} THEN {} ELSE {Min(e)}
             item == InsertUnlessCompleted(pre, add)
             u == [stk EXCEPT ![i + 1] = item]
  <2>2. ItemOK(pre, i + 1)
    BY <1>0, <2>1 DEF StackOK
  <2>3. add \subseteq pre.enabled
    <3>1. e \subseteq pre.enabled /\ pre.enabled \subseteq Nat
      BY <2>2, TransitionsAssumption, SMTT(20) DEF ItemOK, Ready, Runners
    <3> HIDE DEF e, pre
    <3>2. e # {} => Min(e) \in e
      BY <3>1, MinOfIndices
    <3> QED
      BY <3>1, <3>2
  <2> HIDE DEF add
  <2>4. /\ DOMAIN item = Fields
        /\ item.backtrack = pre.backtrack \cup (add \ pre.done)
        /\ item.cv = pre.cv /\ item.clocks = pre.clocks /\ item.pos = pre.pos
        /\ item.enabled = pre.enabled /\ item.done = pre.done /\ item.out = pre.out
    BY <2>2 DEF InsertUnlessCompleted, ItemOK, Fields
  <2> HIDE DEF item
  <2>5. ItemOK(item, i + 1)
    BY <2>2, <2>3, <2>4 DEF ItemOK
  <2>6. Update(stk, i, p) = u
    BY <1>3, Zenon DEF Update, UpdatedAt, item, add
  <2>7. /\ u \in Seq(Range(stk) \cup {item}) /\ Len(u) = n
        /\ \A j \in 1..n : j # i + 1 => u[j] = stk[j]
        /\ u[i + 1] = item
    BY <1>0, <1>1, <2>1
  <2>8. u \in Seq(Range(u))
    BY <2>7, SeqOfRange
  <2> HIDE DEF u
  <2>9. \A j \in 1..n :
          /\ u[j].out = stk[j].out /\ u[j].done = stk[j].done /\ u[j].pos = stk[j].pos
          /\ ItemOK(u[j], j)
    BY <1>0, <2>4, <2>5, <2>7 DEF StackOK
  <2>10. \A j \in 1..(n - 1) :
           /\ u[j].out.by \in u[j].done
           /\ u[j + 1].pos = After(u[j].pos, u[j].out.by)
    <3> SUFFICES ASSUME NEW j \in 1..(n - 1)
                 PROVE  /\ u[j].out.by \in u[j].done
                        /\ u[j + 1].pos = After(u[j].pos, u[j].out.by)
      OBVIOUS
    <3>1. j \in 1..n /\ j + 1 \in 1..n
      BY <1>1
    <3>2. stk[j].out.by \in stk[j].done /\ stk[j + 1].pos = After(stk[j].pos, stk[j].out.by)
      BY <1>0 DEF StackOK
    <3> QED
      BY <2>9, <3>1, <3>2
  <2>11. u[1].backtrack = {}
    <3>1. stk[1].backtrack = {} /\ 1 \in 1..n
      BY <1>0, <1>1 DEF StackOK
    <3> QED
      BY <2>1, <2>7, <3>1
  <2>12. StackOK(u)
    BY <2>7, <2>8, <2>9, <2>10, <2>11 DEF StackOK
  <2>13. Same(stk, u)
    <3>1. n \in 1..n /\ n # i + 1
      BY <1>1, <2>1
    <3> QED
      BY <1>0, <2>7, <2>9, <3>1 DEF Same
  <2> QED
    BY <2>6, <2>12, <2>13
<1> QED
  BY <1>2, <1>3

LEMMA SameTransitive ==
  ASSUME NEW a, NEW b, NEW c, Same(a, b), Same(b, c)
  PROVE  Same(a, c)
BY DEF Same

(* The updates for the other runners, one after the other.                 *)
LEMMA UpdateForOthersEffect ==
  ASSUME prog \in Programs, NEW stk, StackOK(stk),
         NEW i \in 0..(Len(stk) - 2), NEW t, NEW n \in 0..MaxRunners
  PROVE  StackOK(UpdateForOthers(stk, i, t, n)) /\ Same(stk, UpdateForOthers(stk, i, t, n))
<1> DEFINE D(s, k) == IF k - 1 = t THEN s ELSE Update(s, i, k - 1)
           F(m) == CHOOSE f : f = [k \in 0..m |-> IF k = 0 THEN stk ELSE D(f[k - 1], k)]
           Defined == {m \in Nat : \E f : f = [k \in 0..m |-> IF k = 0 THEN stk ELSE D(f[k - 1], k)]}
<1>1. UpdateForOthers(stk, i, t, n) = F(n)[n]
  BY DEF UpdateForOthers
<1>2. \A s, k : StackOK(s) /\ Same(stk, s) /\ k \in 1..n => StackOK(D(s, k)) /\ Same(stk, D(s, k))
  <2> SUFFICES ASSUME NEW s, NEW k \in 1..n, StackOK(s), Same(stk, s)
               PROVE  StackOK(D(s, k)) /\ Same(stk, D(s, k))
    OBVIOUS
  <2>1. CASE k - 1 = t
    BY <2>1
  <2>2. CASE k - 1 # t
    <3>1. k - 1 \in Runners
      BY TransitionsAssumption DEF Runners
    <3>2. i \in 0..(Len(s) - 2)
      BY DEF Same
    <3>3. StackOK(Update(s, i, k - 1)) /\ Same(s, Update(s, i, k - 1))
      BY <3>1, <3>2, UpdateEffect
    <3>4. Same(stk, Update(s, i, k - 1))
      BY <3>3, SameTransitive
    <3> QED
      BY <2>2, <3>3, <3>4
  <2> QED
    BY <2>1, <2>2
<1> HIDE DEF D
<1>3. \A m \in Nat : m \in Defined
  <2>1. 0 \in Defined
    <3>1. [k \in 0..0 |-> stk] = [k \in 0..0 |-> IF k = 0 THEN stk ELSE D([j \in 0..0 |-> stk][k - 1], k)]
      OBVIOUS
    <3> QED
      BY <3>1
  <2>2. ASSUME NEW m \in Nat, m \in Defined
        PROVE  m + 1 \in Defined
    <3>1. PICK f : f = [k \in 0..m |-> IF k = 0 THEN stk ELSE D(f[k - 1], k)]
      BY <2>2
    <3> DEFINE g == [k \in 0..(m + 1) |-> IF k = m + 1 THEN D(f[m], k) ELSE f[k]]
    <3>2. g = [k \in 0..(m + 1) |-> IF k = 0 THEN stk ELSE D(g[k - 1], k)]
      <4> SUFFICES ASSUME NEW k \in 0..(m + 1)
                   PROVE  g[k] = IF k = 0 THEN stk ELSE D(g[k - 1], k)
        OBVIOUS
      <4>1. CASE k = m + 1
        <5>1. k # 0 /\ k - 1 = m /\ m \in 0..(m + 1) /\ m # m + 1
          BY <4>1
        <5>2. g[k - 1] = f[m]
          BY <5>1
        <5>3. g[k] = D(f[m], k)
          BY <4>1
        <5> QED
          BY <5>1, <5>2, <5>3
      <4>2. CASE k \in 0..m
        <5>1. k # m + 1
          BY <4>2
        <5>2. g[k] = f[k]
          BY <5>1
        <5>3. f[k] = IF k = 0 THEN stk ELSE D(f[k - 1], k)
          BY <3>1, <4>2
        <5>4. k # 0 => g[k - 1] = f[k - 1]
          <6> SUFFICES ASSUME k # 0
                       PROVE  g[k - 1] = f[k - 1]
            OBVIOUS
          <6>1. k - 1 \in 0..(m + 1) /\ k - 1 # m + 1
            BY <4>2
          <6> QED
            BY <6>1
        <5> QED
          BY <5>2, <5>3, <5>4
      <4> QED
        BY <4>1, <4>2
    <3> HIDE DEF g
    <3>3. \E h : h = [k \in 0..(m + 1) |-> IF k = 0 THEN stk ELSE D(h[k - 1], k)]
      BY <3>2
    <3> QED
      BY <3>3
  <2> HIDE DEF Defined
  <2> QED
    BY <2>1, <2>2, NatInd
<1>4. n \in Nat
  OBVIOUS
<1>5. PICK f : f = F(n)
  OBVIOUS
<1>6. f = [k \in 0..n |-> IF k = 0 THEN stk ELSE D(f[k - 1], k)]
  <2>1. \E h : h = [k \in 0..n |-> IF k = 0 THEN stk ELSE D(h[k - 1], k)]
    BY <1>3, <1>4
  <2> QED
    BY <1>5, <2>1, Zenon
<1> HIDE DEF F
<1> DEFINE Good == {m \in Nat : m <= n => StackOK(f[m]) /\ Same(stk, f[m])}
<1>7. \A m \in Nat : m \in Good
  <2>1. 0 \in Good
    <3>1. f[0] = stk
      BY <1>4, <1>6
    <3> QED
      BY <3>1 DEF Same
  <2>2. ASSUME NEW m \in Nat, m \in Good
        PROVE  m + 1 \in Good
    <3> SUFFICES ASSUME m + 1 <= n
                 PROVE  StackOK(f[m + 1]) /\ Same(stk, f[m + 1])
      OBVIOUS
    <3>1. m <= n /\ m + 1 \in 0..n /\ m + 1 # 0 /\ (m + 1) - 1 = m /\ m + 1 \in 1..n
      BY <1>4
    <3>2. f[m + 1] = D(f[m], m + 1)
      BY <1>6, <3>1
    <3>3. StackOK(f[m]) /\ Same(stk, f[m])
      BY <2>2, <3>1
    <3> QED
      BY <1>2, <3>1, <3>2, <3>3
  <2> HIDE DEF Good
  <2> QED
    BY <2>1, <2>2, NatInd
<1>8. n <= n
  BY <1>4
<1>9. StackOK(f[n]) /\ Same(stk, f[n])
  BY <1>4, <1>7, <1>8
<1> QED
  BY <1>1, <1>5, <1>9

(* All of dynamically_update_backtrack_sets.                               *)
LEMMA UpdateBacktrackSetsEffect ==
  ASSUME prog \in Programs, known \in prog.live..MaxRunners, NEW stk, StackOK(stk),
         Len(stk) >= 2, NEW t \in Runners
  PROVE  StackOK(UpdateBacktrackSets(stk, t)) /\ Same(stk, UpdateBacktrackSets(stk, t))
<1> DEFINE top == Len(stk) - 2
           num == KnownAfter(Last(stk).pos, t)
           step1 == UpdateForOthers(stk, top, t, num)
           races == {i \in 0..(top - 1) : HasReversibleRace(step1, i, t)}
<1>1. Len(stk) \in Nat /\ top \in 0..(Len(stk) - 2)
  BY DEF StackOK
<1>2. num \in 0..MaxRunners
  <2>1. num \in prog.live..MaxRunners
    BY KnownProperties
  <2>2. prog.live \in 1..MaxRunners
    BY DporAssumption
  <2> HIDE DEF num
  <2> QED
    BY <2>1, <2>2, TransitionsAssumption
<1> HIDE DEF num
<1>3. StackOK(step1) /\ Same(stk, step1)
  BY <1>1, <1>2, UpdateForOthersEffect
<1> HIDE DEF step1
<1>4. UpdateBacktrackSets(stk, t) = IF races = {} THEN step1 ELSE Update(step1, Max(races), t)
  BY Zenon DEF UpdateBacktrackSets, step1, num
<1>5. CASE races = {}
  BY <1>3, <1>4, <1>5
<1>6. CASE races # {}
  <2>1. races \subseteq Nat /\ races \subseteq 0..(Len(stk) - 2) /\ \A x \in races : x <= Len(stk)
    BY <1>1
  <2> HIDE DEF races
  <2>2. Max(races) \in races
    BY <1>1, <1>6, <2>1, MaxOfBounded
  <2>3. Max(races) \in 0..(Len(step1) - 2)
    BY <1>3, <2>1, <2>2 DEF Same
  <2>4. StackOK(Update(step1, Max(races), t)) /\ Same(step1, Update(step1, Max(races), t))
    BY <1>3, <2>3, UpdateEffect
  <2>5. Same(stk, Update(step1, Max(races), t))
    BY <1>3, <2>4, SameTransitive
  <2> QED
    BY <1>4, <1>6, <2>4, <2>5
<1> QED
  BY <1>5, <1>6

-----------------------------------------------------------------------------
(* The invariant.                                                          *)

LEMMA StackOKNext ==
  ASSUME prog' = prog, NEW g, StackOK(g), stack' = g
  PROVE  StackOK(stack)'
<1>1. /\ \A x : Ready(x)' = Ready(x)
      /\ \A x, t : After(x, t)' = After(x, t)
  BY ProgramIsFixed
<1> QED
  BY <1>1 DEF StackOK, ItemOK

LEMMA InitInvariant ==
  ASSUME Init
  PROVE  IInv
<1> DEFINE item == StackItem(ZeroClock, [t \in Runners |-> ZeroClock], NoStep, First)
<1>1. stack = <<item>>
  BY Zenon DEF Init
<1>2. /\ DOMAIN item = Fields /\ item.cv = ZeroClock
      /\ item.clocks = [t \in Runners |-> ZeroClock]
      /\ item.enabled = Ready(item.pos) /\ item.done = {} /\ item.backtrack = {}
  BY DEF StackItem, Fields
<1> HIDE DEF item
<1>3. ZeroClock \in [Runners -> 0..0] /\ 1 - 1 = 0
  BY DEF ZeroClock
<1>4. ItemOK(item, 1)
  BY <1>2, <1>3 DEF ItemOK
<1>5. stack \in Seq({item}) /\ Len(stack) = 1 /\ stack[1] = item
  BY <1>1
<1>6. stack \in Seq(Range(stack))
  BY <1>5, SeqOfRange
<1>7. StackOK(stack)
  <2>1. \A i \in 1..Len(stack) : ItemOK(stack[i], i)
    BY <1>4, <1>5
  <2>2. \A i \in 1..(Len(stack) - 1) : FALSE
    BY <1>5
  <2> QED
    BY <1>2, <1>5, <1>6, <2>1, <2>2 DEF StackOK
<1>8. prog \in Programs /\ fresh \in BOOLEAN /\ known \in prog.live..MaxRunners
  <2>1. prog \in Programs /\ fresh = TRUE /\ known = prog.live
    BY DEF Init
  <2>2. prog.live \in 1..MaxRunners
    BY <2>1, DporAssumption
  <2> QED
    BY <2>1, <2>2, TransitionsAssumption
<1>9. PhaseInv /\ ExploredInv
  BY DEF Init, PhaseInv, ExploredInv
<1> QED
  BY <1>7, <1>8, <1>9 DEF IInv

(* A step of the trace: exploration goes on, or sets out on a new branch.  *)
LEMMA ExpandInvariant ==
  ASSUME IInv, stack # <<>>, NEW t, t \in Last(stack).enabled,
         ~fresh => t \notin Last(stack).done, ExpandTraceWith(t)
  PROVE  IInv'
<1>0. PICK n : n = Len(stack)
  OBVIOUS
<1>1. /\ prog \in Programs /\ known \in prog.live..MaxRunners /\ StackOK(stack)
      /\ fresh \in BOOLEAN
  BY DEF IInv
<1>2. n \in Nat /\ n > 0 /\ Last(stack) = stack[n] /\ n \in 1..n
  BY <1>0, <1>1 DEF StackOK, Last
<1>3. t \in Runners
  BY <1>0, <1>1, <1>2 DEF StackOK, ItemOK, Ready
<1>4. PICK g : g = GrowStack(stack, t)
  OBVIOUS
<1>5. /\ StackOK(g)
      /\ Len(g) = n + 1
      /\ g[Len(g)].done = {} /\ g[Len(g)].backtrack = {}
      /\ \A i \in 1..(n - 1) : g[i] = stack[i]
      /\ g[n].out.by = t
      /\ g[n].done = stack[n].done \cup {t}
  BY <1>0, <1>1, <1>4, GrowStackEffect
<1>6. /\ stack' = UpdateBacktrackSets(g, t)
      /\ known' = KnownAfter(Last(g).pos, t)
      /\ fresh' = TRUE /\ prog' = prog /\ explored' = explored
  BY <1>4 DEF ExpandTraceWith
<1>7. StackOK(UpdateBacktrackSets(g, t)) /\ Same(g, UpdateBacktrackSets(g, t))
  <2>1. Len(g) >= 2
    BY <1>2, <1>5
  <2> QED
    BY <1>1, <1>3, <1>5, <2>1, UpdateBacktrackSetsEffect
<1>8. StackOK(stack)'
  <2>1. PICK h : h = UpdateBacktrackSets(g, t)
    OBVIOUS
  <2> QED
    BY <1>6, <1>7, <2>1, StackOKNext
<1>9. /\ Len(stack') = n + 1
      /\ \A j \in 1..(n + 1) : stack'[j].out = g[j].out /\ stack'[j].done = g[j].done
  BY <1>5, <1>6, <1>7 DEF Same
<1>10. known' \in prog'.live..MaxRunners
  BY <1>1, <1>3, <1>6, KnownProperties
<1>11. PhaseInv'
  BY <1>6 DEF PhaseInv
<1>12. ExploredInv'
  <2> SUFFICES ASSUME NEW x \in explored
               PROVE  \E i \in 1..Len(stack') : LeftAt(x, i)'
    BY <1>6 DEF ExploredInv
  <2>1. PICK i \in 1..n : LeftAt(x, i)
    BY <1>0 DEF IInv, ExploredInv, Completed
  <2>2. i \in 1..(n + 1) /\ i < n + 1
    BY <1>2
  <2>3. \A j \in 1..(i - 1) : x[j] = stack'[j].out.by
    <3> SUFFICES ASSUME NEW j \in 1..(i - 1)
                 PROVE  x[j] = stack'[j].out.by
      OBVIOUS
    <3>1. j \in 1..(n - 1) /\ j \in 1..(n + 1)
      BY <1>2
    <3>2. x[j] = stack[j].out.by
      BY <2>1 DEF LeftAt
    <3> QED
      BY <1>5, <1>9, <3>1, <3>2
  <2>4. x[i] \in stack'[i].done /\ x[i] # stack'[i].out.by
    <3>1. CASE i < n
      <4>1. i \in 1..(n - 1)
        BY <1>2, <3>1
      <4>2. x[i] \in stack[i].done /\ x[i] # stack[i].out.by
        BY <1>0, <2>1, <3>1 DEF LeftAt
      <4> QED
        BY <1>5, <1>9, <2>2, <4>1, <4>2
    <3>2. CASE i = n
      <4>1. ~ (n < n)
        BY <1>2
      <4>2. x[n] \in stack[n].done /\ ~fresh
        BY <1>0, <2>1, <3>2, <4>1 DEF LeftAt
      <4>3. x[n] # t
        BY <1>2, <4>2
      <4> QED
        BY <1>5, <1>9, <2>2, <3>2, <4>2, <4>3
    <3> QED
      BY <1>2, <3>1, <3>2
  <2>5. LeftAt(x, i)'
    BY <1>9, <2>2, <2>3, <2>4 DEF LeftAt
  <2> QED
    BY <1>9, <2>2, <2>5
<1> QED
  BY <1>1, <1>6, <1>8, <1>10, <1>11, <1>12 DEF IInv

LEMMA ExploreInvariant ==
  ASSUME IInv, Explore
  PROVE  IInv'
<1>1. stack # <<>> /\ Last(stack).enabled # {} /\ fresh
      /\ ExpandTraceWith(FirstEnabledRunner(Last(stack)))
  BY DEF Explore
<1>2. Last(stack).enabled \subseteq Nat
  <2>1. Len(stack) \in 1..Len(stack) /\ Last(stack) = stack[Len(stack)]
    BY <1>1 DEF IInv, StackOK, Last
  <2> QED
    BY <2>1, TransitionsAssumption DEF IInv, StackOK, ItemOK, Ready, Runners
<1>3. FirstEnabledRunner(Last(stack)) \in Last(stack).enabled
  BY <1>1, <1>2, MinOfIndices DEF FirstEnabledRunner
<1> QED
  BY <1>1, <1>3, ExpandInvariant

LEMMA BacktrackInvariant ==
  ASSUME IInv, Backtrack
  PROVE  IInv'
<1>1. stack # <<>> /\ ~fresh /\ ExpandTraceWith(FirstBacktrackRunner(Last(stack)))
  BY DEF Backtrack
<1>2. /\ Last(stack).backtrack \subseteq Last(stack).enabled \ Last(stack).done
      /\ Last(stack).enabled \subseteq Nat
  <2>1. Len(stack) \in 1..Len(stack) /\ Last(stack) = stack[Len(stack)]
    BY <1>1 DEF IInv, StackOK, Last
  <2> QED
    BY <2>1, TransitionsAssumption DEF IInv, StackOK, ItemOK, Ready, Runners
<1>3. Last(stack).backtrack # {}
  BY <1>1 DEF IInv, PhaseInv, Completed
<1>4. FirstBacktrackRunner(Last(stack)) \in Last(stack).backtrack
  BY <1>2, <1>3, MinOfIndices DEF FirstBacktrackRunner
<1> QED
  BY <1>1, <1>2, <1>4, ExpandInvariant

(* The trace is complete; no schedule explored before is the same.         *)
LEMMA ScheduleIsNew ==
  ASSUME IInv, stack # <<>>, fresh
  PROVE  Schedule \notin explored
<1> SUFFICES ASSUME Schedule \in explored
             PROVE  FALSE
  OBVIOUS
<1>1. PICK i \in 1..Len(stack) : LeftAt(Schedule, i)
  BY DEF IInv, ExploredInv, Completed
<1>2. i < Len(stack) /\ Schedule[i] # stack[i].out.by
  BY <1>1 DEF LeftAt
<1>3. Len(stack) \in Nat /\ i \in 1..(Len(stack) - 1)
  BY <1>2 DEF IInv, StackOK
<1> QED
  BY <1>2, <1>3 DEF Schedule

LEMMA BacktrackToInvariant ==
  ASSUME IInv, BacktrackTo
  PROVE  IInv'
<1>0. PICK n : n = Len(stack)
  OBVIOUS
<1>1. /\ prog \in Programs /\ known \in prog.live..MaxRunners /\ StackOK(stack)
      /\ stack # <<>> /\ fresh /\ Last(stack).enabled = {}
  BY DEF IInv, BacktrackTo
<1>2. n \in Nat /\ n > 0 /\ Last(stack) = stack[n] /\ n \in 1..n /\ DOMAIN stack = 1..n
  BY <1>0, <1>1 DEF StackOK, Last
<1> DEFINE T == {0} \cup {i \in DOMAIN stack : stack[i].backtrack # {}}
<1>3. PICK k : k = Max(T)
  OBVIOUS
<1>4. k \in T
  <2>1. T \subseteq Nat /\ T # {} /\ \A x \in T : x <= n
    BY <1>2
  <2> HIDE DEF T
  <2> QED
    BY <1>2, <1>3, <2>1, MaxOfBounded
<1>5. k \in 0..n /\ (k # 0 => stack[k].backtrack # {})
  BY <1>2, <1>4
<1>6. k # n
  <2>1. stack[n].backtrack = {}
    BY <1>0, <1>1, <1>2 DEF StackOK, ItemOK
  <2> QED
    BY <1>2, <1>5, <2>1
<1>7. k \in 0..(n - 1)
  BY <1>2, <1>5, <1>6
<1>8. /\ stack' = SubSeq(stack, 1, k) /\ fresh' = FALSE /\ prog' = prog /\ known' = known
      /\ explored' = explored \cup {Schedule}
  BY <1>3, Zenon DEF BacktrackTo
<1>9. PICK g : g = SubSeq(stack, 1, k)
  OBVIOUS
<1>10. g \in Seq(Range(stack)) /\ Len(g) = k /\ \A i \in 1..k : g[i] = stack[i]
  BY <1>0, <1>1, <1>2, <1>7, <1>9 DEF StackOK
<1>11. g \in Seq(Range(g))
  BY <1>10, SeqOfRange
<1>12. StackOK(g)
  <2>1. \A i \in 1..k : ItemOK(g[i], i)
    <3>1. \A i \in 1..k : i \in 1..n
      BY <1>2, <1>7
    <3> QED
      BY <1>0, <1>1, <1>10, <3>1 DEF StackOK
  <2>2. \A i \in 1..(k - 1) :
          /\ g[i].out.by \in g[i].done
          /\ g[i + 1].pos = After(g[i].pos, g[i].out.by)
    <3> SUFFICES ASSUME NEW i \in 1..(k - 1)
                 PROVE  /\ g[i].out.by \in g[i].done
                        /\ g[i + 1].pos = After(g[i].pos, g[i].out.by)
      OBVIOUS
    <3>1. i \in 1..(n - 1) /\ i \in 1..k /\ i + 1 \in 1..k
      BY <1>2, <1>7
    <3> QED
      BY <1>0, <1>1, <1>10, <3>1 DEF StackOK
  <2>3. k > 0 => g[1].backtrack = {}
    <3> SUFFICES ASSUME k > 0
                 PROVE  g[1].backtrack = {}
      OBVIOUS
    <3>1. 1 \in 1..k /\ n > 0
      BY <1>2, <1>7
    <3>2. stack[1].backtrack = {}
      BY <1>0, <1>1, <3>1 DEF StackOK
    <3> QED
      BY <1>10, <3>1, <3>2
  <2> QED
    BY <1>10, <1>11, <2>1, <2>2, <2>3 DEF StackOK
<1>13. StackOK(stack)'
  BY <1>8, <1>9, <1>12, StackOKNext
<1>14. stack' = g /\ Len(stack') = k
  BY <1>8, <1>9, <1>10
<1>15. k = 0 => stack' = <<>>
  BY <1>10, <1>14
<1>16. PhaseInv'
  <2> SUFFICES ASSUME stack' # <<>>
               PROVE  Last(stack').backtrack # {}
    BY DEF PhaseInv, Completed
  <2>1. k # 0 /\ k \in 1..k
    BY <1>7, <1>15
  <2>2. Last(stack') = stack[k]
    BY <1>10, <1>14, <2>1 DEF Last
  <2> QED
    BY <1>5, <2>1, <2>2
<1>17. ExploredInv'
  <2> SUFFICES ASSUME stack' # <<>>, NEW x \in explored'
               PROVE  \E i \in 1..Len(stack') : LeftAt(x, i)'
    BY DEF ExploredInv, Completed
  <2>1. k # 0 /\ k \in 1..k /\ k \in 1..(n - 1) /\ k \in 1..n
    BY <1>2, <1>7, <1>15
  <2>2. stack[k].out.by \in stack[k].done
    BY <1>0, <1>1, <2>1 DEF StackOK
  <2>3. ASSUME \A j \in 1..k : x[j] = stack[j].out.by
        PROVE  LeftAt(x, k)'
    <3>1. \A j \in 1..(k - 1) : j \in 1..k
      BY <2>1
    <3>2. \A j \in 1..(k - 1) : x[j] = stack'[j].out.by
      BY <1>10, <1>14, <2>3, <3>1
    <3>3. x[k] \in stack'[k].done
      BY <1>10, <1>14, <2>1, <2>2, <2>3
    <3>4. ~ (k < Len(stack'))
      BY <1>14, <2>1
    <3> QED
      BY <1>8, <3>2, <3>3, <3>4 DEF LeftAt
  <2>4. CASE x = Schedule
    <3>1. \A j \in 1..k : j \in 1..(n - 1)
      BY <1>2, <2>1
    <3>2. \A j \in 1..k : x[j] = stack[j].out.by
      BY <1>0, <2>4, <3>1 DEF Schedule
    <3> QED
      BY <1>14, <2>1, <2>3, <3>2
  <2>5. CASE x \in explored
    <3>1. PICK i \in 1..n : LeftAt(x, i)
      BY <1>0, <1>1, <2>5 DEF IInv, ExploredInv, Completed
    <3>2. CASE k < i
      <4>1. \A j \in 1..k : j \in 1..(i - 1)
        BY <2>1, <3>2
      <4>2. \A j \in 1..k : x[j] = stack[j].out.by
        BY <3>1, <4>1 DEF LeftAt
      <4> QED
        BY <1>14, <2>1, <2>3, <4>2
    <3>3. CASE i <= k
      <4>1. i \in 1..k /\ i < n /\ \A j \in 1..(i - 1) : j \in 1..k
        BY <1>2, <2>1, <3>3
      <4>2. /\ \A j \in 1..(i - 1) : x[j] = stack[j].out.by
            /\ x[i] \in stack[i].done
            /\ x[i] # stack[i].out.by
        BY <1>0, <3>1, <4>1 DEF LeftAt
      <4>3. /\ \A j \in 1..(i - 1) : x[j] = stack'[j].out.by
            /\ x[i] \in stack'[i].done
            /\ x[i] # stack'[i].out.by
        BY <1>10, <1>14, <4>1, <4>2
      <4>4. LeftAt(x, i)'
        BY <1>8, <4>3 DEF LeftAt
      <4> QED
        BY <1>14, <4>1, <4>4
    <3> QED
      BY <1>2, <2>1, <3>2, <3>3
  <2> QED
    BY <1>8, <2>4, <2>5
<1> QED
  BY <1>1, <1>8, <1>13, <1>16, <1>17 DEF IInv

LEMMA StutterInvariant ==
  ASSUME IInv, UNCHANGED vars
  PROVE  IInv'
<1>1. stack' = stack /\ prog' = prog /\ known' = known /\ fresh' = fresh /\ explored' = explored
  BY DEF vars
<1>2. PICK g : g = stack
  OBVIOUS
<1>3. StackOK(stack)'
  BY <1>1, <1>2, StackOKNext DEF IInv
<1>4. PhaseInv' /\ ExploredInv'
  BY <1>1 DEF IInv, PhaseInv, ExploredInv, Completed, LeftAt
<1> QED
  BY <1>1, <1>3, <1>4 DEF IInv

LEMMA NextInvariant ==
  ASSUME IInv, [Next]_vars
  PROVE  IInv'
<1>1. CASE Explore
  BY <1>1, ExploreInvariant
<1>2. CASE BacktrackTo
  BY <1>2, BacktrackToInvariant
<1>3. CASE Backtrack
  BY <1>3, BacktrackInvariant
<1>4. CASE UNCHANGED vars
  BY <1>4, StutterInvariant
<1> QED
  BY <1>1, <1>2, <1>3, <1>4 DEF Next

-----------------------------------------------------------------------------
(* The theorems.                                                           *)

(* The invariant holds throughout verify_using, whatever races are found.  *)
THEOREM Invariance == Spec => []IInv
<1>1. Init => IInv
  BY InitInvariant
<1>2. IInv /\ [Next]_vars => IInv'
  BY NextInvariant
<1> QED
  BY <1>1, <1>2, PTL DEF Spec

(* The DPOR stack mirrors the trace, and what an entry is still to be left  *)
(* with is enabled there and has not been followed.                         *)
THEOREM TypeCorrect == Spec => []TypeOK
<1>1. IInv => TypeOK
  <2> SUFFICES ASSUME IInv
               PROVE  TypeOK
    OBVIOUS
  <2>0. PICK n : n = Len(stack)
    OBVIOUS
  <2>1. StackOK(stack) /\ n \in Nat /\ DOMAIN stack = 1..n
    BY <2>0 DEF IInv, StackOK
  <2> SUFFICES ASSUME NEW i \in 1..n
               PROVE  /\ stack[i].cv \in Clocks /\ stack[i].clocks \in [Runners -> Clocks]
                      /\ stack[i].enabled = Ready(stack[i].pos)
                      /\ stack[i].done \subseteq stack[i].enabled
                      /\ stack[i].backtrack \subseteq stack[i].enabled \ stack[i].done
                      /\ i < n => stack[i + 1].pos = After(stack[i].pos, stack[i].out.by)
    BY <2>0, <2>1 DEF IInv, TypeOK
  <2>2. ItemOK(stack[i], i)
    BY <2>0, <2>1 DEF StackOK
  <2>3. 0..(i - 1) \subseteq Nat
    BY <2>1
  <2>4. [Runners -> 0..(i - 1)] \subseteq Clocks
    BY <2>3 DEF Clocks
  <2>5. stack[i].cv \in Clocks /\ stack[i].clocks \in [Runners -> Clocks]
    BY <2>2, <2>4 DEF ItemOK
  <2>6. i < n => stack[i + 1].pos = After(stack[i].pos, stack[i].out.by)
    <3>1. i < n => i \in 1..(n - 1)
      BY <2>1
    <3> QED
      BY <2>0, <2>1, <3>1 DEF StackOK
  <2> QED
    BY <2>2, <2>5, <2>6 DEF ItemOK
<1> QED
  BY <1>1, Invariance, PTL

(* The first step of a trace never races with a pending one, so the search *)
(* never asks program::restore_model_at_depth for depth 0.                 *)
THEOREM FirstStepIsFinal == Spec => []DepthZeroNeverRestored
<1>1. IInv => DepthZeroNeverRestored
  <2> SUFFICES ASSUME IInv, stack # <<>>
               PROVE  stack[1].backtrack = {}
    BY DEF DepthZeroNeverRestored, Completed
  <2>1. Len(stack) > 0
    BY DEF IInv, StackOK
  <2> QED
    BY <2>1 DEF IInv, StackOK
<1> QED
  BY <1>1, Invariance, PTL

(* Every complete trace is one that has not been run before.               *)
THEOREM EveryTraceIsNew == Spec => NoTraceTwice
<1> DEFINE A == fresh /\ ~fresh' => explored' # explored
<1>1. IInv /\ [Next]_vars => [A]_vars
  <2> SUFFICES ASSUME IInv, Next, fresh, ~fresh'
               PROVE  explored' # explored
    OBVIOUS
  <2>1. BacktrackTo
    BY DEF Next, Explore, Backtrack, ExpandTraceWith
  <2>2. Schedule \notin explored
    BY <2>1, ScheduleIsNew DEF BacktrackTo
  <2> QED
    BY <2>1, <2>2 DEF BacktrackTo
<1> HIDE DEF A
<1>2. Spec => [][A]_vars
  BY <1>1, Invariance, PTL DEF Spec
<1> QED
  BY <1>2 DEF NoTraceTwice, A
=============================================================================
