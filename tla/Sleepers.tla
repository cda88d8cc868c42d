------------------------------ MODULE Sleepers ------------------------------
(***************************************************************************)
(* What a condition variable promises, without queues and wake groups: a   *)
(* set of sleeping threads and the number of wake-ups owed to them.  A     *)
(* signal owes one more wake-up unless everybody is already owed one, a    *)
(* broadcast owes one to each, and a thread leaves by taking one.  Once    *)
(* each is owed one, the condition variable may be destroyed and all of    *)
(* them be given up.                                                       *)
(***************************************************************************)
EXTENDS Naturals, FiniteSets

CONSTANT Threads

VARIABLES asleep, owed

sleepersVars == <<asleep, owed>>

Init ==
  /\ asleep = {}
  /\ owed = 0

Sleep(t) ==
  /\ t \notin asleep
  /\ asleep' = asleep \cup {t}
  /\ UNCHANGED owed

Signal ==
  /\ owed' = IF owed < Cardinality(asleep) THEN owed + 1 ELSE owed
  /\ UNCHANGED asleep

Broadcast ==
  /\ owed' = Cardinality(asleep)
  /\ UNCHANGED asleep

Leave(t) ==
  /\ t \in asleep
  /\ owed > 0
  /\ asleep' = asleep \ {t}
  /\ owed' = owed - 1

Destroy ==
  /\ owed = Cardinality(asleep)
  /\ asleep' = {}
  /\ owed' = 0

Next ==
  \/ Signal
  \/ Broadcast
  \/ Destroy
  \/ \E t \in Threads : Sleep(t) \/ Leave(t)

Spec == Init /\ [][Next]_sleepersVars
=============================================================================
