---------------------------- MODULE SequenceFacts ----------------------------
(***************************************************************************)
(* Facts about numbers and sequences that the proofs share.                *)
(***************************************************************************)
EXTENDS Integers, FiniteSets, SequencesExt, SequenceTheorems,
        WellFoundedInduction, TLAPS

(* Every nonempty set of natural numbers has a least element.              *)
LEMMA NatMin ==
  ASSUME NEW T, T \subseteq Nat, T # {}
  PROVE  \E x \in T : \A y \in T : x <= y
<1> DEFINE R == {ss \in Nat \X Nat : ss[1] < ss[2]}
<1>1. IsWellFoundedOn(R, Nat)
  BY NatLessThanWellFounded DEF OpToRel
<1>2. \A x, y \in Nat : y < x => <<y, x>> \in R
  OBVIOUS
<1> HIDE DEF R
<1>3. PICK x \in T : \A y \in T : ~ (<<y, x>> \in R)
  BY <1>1, WFMin
<1>4. \A y \in T : x <= y
  <2> SUFFICES ASSUME NEW y \in T
               PROVE  x <= y
    OBVIOUS
  <2>1. x \in Nat /\ y \in Nat
    OBVIOUS
  <2>2. ~ (y < x)
    BY <1>2, <1>3, <2>1
  <2> QED
    BY <2>1, <2>2
<1> QED
  BY <1>4

(* Induction: a set with zero and closed under successor has every number. *)
LEMMA NatInd ==
  ASSUME NEW S, 0 \in S, \A n \in Nat : n \in S => n + 1 \in S
  PROVE  \A n \in Nat : n \in S
<1> SUFFICES ASSUME NEW m \in Nat, m \notin S
             PROVE  FALSE
  OBVIOUS
<1>1. PICK x \in Nat \ S : \A y \in Nat \ S : x <= y
  <2>1. Nat \ S \subseteq Nat /\ Nat \ S # {}
    OBVIOUS
  <2> QED
    BY <2>1, NatMin
<1>2. x # 0 /\ x - 1 \in Nat
  BY <1>1
<1>3. x - 1 \in S
  BY <1>1, <1>2
<1>4. (x - 1) + 1 \in S
  BY <1>2, <1>3
<1> QED
  BY <1>1, <1>4

(* A nonempty set of numbers with an upper bound has a largest one, which   *)
(* is its Max.                                                              *)
LEMMA MaxOfBounded ==
  ASSUME NEW T, T \subseteq Nat, T # {}, NEW b \in Nat, \A x \in T : x <= b
  PROVE  /\ Max(T) \in T
         /\ \A y \in T : Max(T) >= y
<1> DEFINE D == {b - x : x \in T}
<1>1. D \subseteq Nat /\ D # {}
  <2>1. \A x \in T : b - x \in Nat
    OBVIOUS
  <2> QED
    BY <2>1
<1>2. PICK d \in D : \A e \in D : d <= e
  BY <1>1, NatMin
<1>3. PICK x \in T : d = b - x
  BY <1>2
<1>4. \A y \in T : x >= y
  <2> SUFFICES ASSUME NEW y \in T PROVE x >= y
    OBVIOUS
  <2>1. b - y \in D
    OBVIOUS
  <2>2. b - x <= b - y
    BY <1>2, <1>3, <2>1
  <2> QED
    BY <2>2
<1>5. \E z \in T : \A y \in T : z >= y
  BY <1>4
<1> QED
  BY <1>5, Zenon DEF Max

(* The least index of a nonempty set of indices is its Min.                 *)
LEMMA MinOfIndices ==
  ASSUME NEW T, T \subseteq Nat, T # {}
  PROVE  /\ Min(T) \in T
         /\ \A y \in T : Min(T) <= y
<1>1. \E x \in T : \A y \in T : x <= y
  BY NatMin
<1> QED
  BY <1>1, Zenon DEF Min

(* RemoveAt closes the gap.                                                 *)
LEMMA RemoveAtProperties ==
  ASSUME NEW S, NEW s \in Seq(S), NEW k \in 1..Len(s)
  PROVE  /\ RemoveAt(s, k) \in Seq(S)
         /\ Len(RemoveAt(s, k)) = Len(s) - 1
         /\ \A i \in 1..(Len(s) - 1) :
              RemoveAt(s, k)[i] = IF i < k THEN s[i] ELSE s[i + 1]
<1> DEFINE a == SubSeq(s, 1, k - 1)
           b == SubSeq(s, k + 1, Len(s))
<1>1. a \in Seq(S) /\ Len(a) = k - 1 /\ \A i \in 1..(k - 1) : a[i] = s[i]
  OBVIOUS
<1>2. b \in Seq(S) /\ Len(b) = Len(s) - k /\ \A i \in 1..(Len(s) - k) : b[i] = s[k + i]
  OBVIOUS
<1>3. RemoveAt(s, k) = a \o b
  BY DEF RemoveAt
<1> HIDE DEF a, b
<1>4. a \o b \in Seq(S) /\ Len(a \o b) = Len(s) - 1
  <2>1. a \o b \in Seq(S) /\ Len(a \o b) = Len(a) + Len(b)
    BY <1>1, <1>2, ConcatProperties
  <2> QED
    BY <1>1, <1>2, <2>1
<1>5. \A i \in 1..(Len(s) - 1) : (a \o b)[i] = IF i < k THEN s[i] ELSE s[i + 1]
  <2> SUFFICES ASSUME NEW i \in 1..(Len(s) - 1)
               PROVE  (a \o b)[i] = IF i < k THEN s[i] ELSE s[i + 1]
    OBVIOUS
  <2>1. (a \o b)[i] = IF i <= Len(a) THEN a[i] ELSE b[i - Len(a)]
    BY <1>1, <1>2, ConcatProperties
  <2> QED
    BY <1>1, <1>2, <2>1
<1> QED
  BY <1>3, <1>4, <1>5

(* The first index with a property, as SelectInSeq finds it.                *)
LEMMA FirstIndex ==
  ASSUME NEW n \in Nat, NEW I, I \subseteq 1..n, I # {}
  PROVE  /\ Min(I) \in I
         /\ \A j \in 1..n : j < Min(I) => j \notin I
<1>1. I \subseteq Nat
  OBVIOUS
<1>2. Min(I) \in I /\ \A y \in I : Min(I) <= y
  BY <1>1, MinOfIndices
<1>3. \A j \in 1..n : j < Min(I) => j \notin I
  <2> SUFFICES ASSUME NEW j \in 1..n, j < Min(I), j \in I
               PROVE  FALSE
    OBVIOUS
  <2>1. Min(I) \in Nat /\ j \in Nat /\ Min(I) <= j
    BY <1>1, <1>2
  <2> QED
    BY <2>1
<1> QED
  BY <1>2, <1>3

(* RemoveFirst removes the first occurrence, if there is one.               *)
LEMMA RemoveFirstProperties ==
  ASSUME NEW S, NEW s \in Seq(S), NEW e
  PROVE  /\ e \notin ToSet(s) => RemoveFirst(s, e) = s
         /\ e \in ToSet(s) =>
              \E k \in 1..Len(s) : /\ s[k] = e
                                   /\ \A j \in 1..Len(s) : j < k => s[j] # e
                                   /\ RemoveFirst(s, e) = RemoveAt(s, k)
<1>1. ASSUME e \notin ToSet(s)
      PROVE  RemoveFirst(s, e) = s
  BY <1>1 DEF RemoveFirst, ToSet
<1>2. ASSUME e \in ToSet(s)
      PROVE  \E k \in 1..Len(s) : /\ s[k] = e
                                  /\ \A j \in 1..Len(s) : j < k => s[j] # e
                                  /\ RemoveFirst(s, e) = RemoveAt(s, k)
  <2> DEFINE I == {i \in 1..Len(s) : s[i] = e}
  <2>1. I # {} /\ \E i \in 1..Len(s) : s[i] = e
    BY <1>2 DEF ToSet
  <2>2. RemoveFirst(s, e) = RemoveAt(s, Min(I))
    BY <2>1, Zenon DEF RemoveFirst, SelectInSeq
  <2>3. Len(s) \in Nat /\ I \subseteq 1..Len(s)
    OBVIOUS
  <2>4. Min(I) \in I /\ \A j \in 1..Len(s) : j < Min(I) => j \notin I
    <3> HIDE DEF I
    <3> QED
      BY <2>1, <2>3, FirstIndex
  <2>5. Min(I) \in 1..Len(s) /\ s[Min(I)] = e
        /\ \A j \in 1..Len(s) : j < Min(I) => s[j] # e
    BY <2>4, Zenon
  <2> QED
    BY <2>2, <2>5, Zenon
<1> QED
  BY <1>1, <1>2

(* So does RemoveFirstMatch with the first set that has the element.        *)
LEMMA RemoveFirstMatchProperties ==
  ASSUME NEW S, NEW s \in Seq(S), NEW e
  PROVE  /\ (\A i \in 1..Len(s) : e \notin s[i]) =>
              RemoveFirstMatch(s, LAMBDA g : e \in g) = s
         /\ (\E i \in 1..Len(s) : e \in s[i]) =>
              \E k \in 1..Len(s) :
                /\ e \in s[k]
                /\ \A j \in 1..Len(s) : j < k => e \notin s[j]
                /\ RemoveFirstMatch(s, LAMBDA g : e \in g) = RemoveAt(s, k)
<1>1. ASSUME \A i \in 1..Len(s) : e \notin s[i]
      PROVE  RemoveFirstMatch(s, LAMBDA g : e \in g) = s
  BY <1>1, Zenon DEF RemoveFirstMatch
<1>2. ASSUME \E i \in 1..Len(s) : e \in s[i]
      PROVE  \E k \in 1..Len(s) :
                /\ e \in s[k]
                /\ \A j \in 1..Len(s) : j < k => e \notin s[j]
                /\ RemoveFirstMatch(s, LAMBDA g : e \in g) = RemoveAt(s, k)
  <2> DEFINE I == {i \in 1..Len(s) : e \in s[i]}
  <2>1. I # {}
    BY <1>2
  <2>2. RemoveFirstMatch(s, LAMBDA g : e \in g) = RemoveAt(s, Min(I))
    BY <1>2, <2>1, Zenon DEF RemoveFirstMatch, SelectInSeq
  <2>3. Len(s) \in Nat /\ I \subseteq 1..Len(s)
    OBVIOUS
  <2>4. Min(I) \in I /\ \A j \in 1..Len(s) : j < Min(I) => j \notin I
    <3> HIDE DEF I
    <3> QED
      BY <2>1, <2>3, FirstIndex
  <2>5. Min(I) \in 1..Len(s) /\ e \in s[Min(I)]
        /\ \A j \in 1..Len(s) : j < Min(I) => e \notin s[j]
    BY <2>4, Zenon
  <2> QED
    BY <2>2, <2>5, Zenon
<1> QED
  BY <1>1, <1>2, Zenon

(* A sequence in which only members of R are repeated loses nothing but the *)
(* element, has it no more unless it is in R, and stays like that.          *)
LEMMA RemoveFirstOnce ==
  ASSUME NEW S, NEW s \in Seq(S), NEW e, NEW R,
         \A i, j \in DOMAIN s : s[i] = s[j] => i = j \/ s[i] \in R
  PROVE  /\ RemoveFirst(s, e) \in Seq(S)
         /\ ToSet(RemoveFirst(s, e)) \subseteq ToSet(s)
         /\ ToSet(s) \ {e} \subseteq ToSet(RemoveFirst(s, e))
         /\ e \notin R => e \notin ToSet(RemoveFirst(s, e))
         /\ \A i, j \in DOMAIN RemoveFirst(s, e) :
              RemoveFirst(s, e)[i] = RemoveFirst(s, e)[j] =>
                i = j \/ RemoveFirst(s, e)[i] \in R
<1>1. CASE e \notin ToSet(s)
  BY <1>1, RemoveFirstProperties
<1>2. CASE e \in ToSet(s)
  <2>1. PICK k \in 1..Len(s) : s[k] = e /\ RemoveFirst(s, e) = RemoveAt(s, k)
    BY <1>2, RemoveFirstProperties
  <2> DEFINE r == RemoveAt(s, k)
  <2>2. /\ r \in Seq(S)
        /\ Len(r) = Len(s) - 1
        /\ \A i \in 1..(Len(s) - 1) : r[i] = IF i < k THEN s[i] ELSE s[i + 1]
    BY RemoveAtProperties
  <2> HIDE DEF r
  <2>3. ToSet(r) \subseteq ToSet(s) /\ (e \notin R => e \notin ToSet(r))
    <3> DEFINE old(i) == IF i < k THEN i ELSE i + 1
    <3>1. \A i \in DOMAIN r : old(i) \in DOMAIN s /\ old(i) # k /\ r[i] = s[old(i)]
      BY <2>2
    <3>2. k \in DOMAIN s
      OBVIOUS
    <3> HIDE DEF old
    <3>3. e \notin R => \A i \in DOMAIN r : r[i] # e
      BY <2>1, <3>1, <3>2
    <3> QED
      BY <3>1, <3>3 DEF ToSet
  <2>4. \A i \in DOMAIN s : s[i] # e => \E j \in DOMAIN r : r[j] = s[i]
    <3> SUFFICES ASSUME NEW i \in DOMAIN s, s[i] # e
                 PROVE  \E j \in DOMAIN r : r[j] = s[i]
      OBVIOUS
    <3>1. CASE i < k
      BY <2>2, <3>1
    <3>2. CASE i > k
      <4>1. i - 1 \in DOMAIN r /\ r[i - 1] = s[i]
        BY <2>2, <3>2
      <4> QED
        BY <4>1
    <3> QED
      BY <2>1, <3>1, <3>2
  <2>5. ToSet(s) \ {e} \subseteq ToSet(r)
    BY <2>4 DEF ToSet
  <2>6. \A i, j \in DOMAIN r : r[i] = r[j] => i = j \/ r[i] \in R
    <3> DEFINE old(i) == IF i < k THEN i ELSE i + 1
    <3>1. \A i \in DOMAIN r : i \in Nat /\ old(i) \in DOMAIN s /\ r[i] = s[old(i)]
      BY <2>2
    <3>2. \A i, j \in Nat : old(i) = old(j) => i = j
      OBVIOUS
    <3> HIDE DEF old
    <3> QED
      BY <3>1, <3>2
  <2> QED
    BY <2>1, <2>2, <2>3, <2>5, <2>6 DEF r
<1> QED
  BY <1>1, <1>2
(* Append adds the element, as the last one.                                *)
LEMMA AppendElement ==
  ASSUME NEW S, NEW s \in Seq(S), NEW e \in S
  PROVE  /\ Append(s, e) \in Seq(S)
         /\ Len(Append(s, e)) = Len(s) + 1
         /\ \A i \in 1..Len(s) : Append(s, e)[i] = s[i]
         /\ Append(s, e)[Len(s) + 1] = e
         /\ ToSet(Append(s, e)) = ToSet(s) \cup {e}
<1>1. /\ Append(s, e) \in Seq(S)
      /\ Len(Append(s, e)) = Len(s) + 1
      /\ \A i \in 1..Len(s) : Append(s, e)[i] = s[i]
      /\ Append(s, e)[Len(s) + 1] = e
  OBVIOUS
<1> DEFINE r == Append(s, e)
<1> HIDE DEF r
<1>2. DOMAIN s = 1..Len(s) /\ DOMAIN r = 1..(Len(s) + 1) /\ Len(s) \in Nat
  BY <1>1 DEF r
<1>3. ToSet(r) \subseteq ToSet(s) \cup {e}
  BY <1>1, <1>2 DEF ToSet, r
<1>4. ToSet(s) \cup {e} \subseteq ToSet(r)
  <2>1. \A i \in DOMAIN s : i \in DOMAIN r /\ r[i] = s[i]
    BY <1>1, <1>2 DEF r
  <2>2. Len(s) + 1 \in DOMAIN r /\ r[Len(s) + 1] = e
    BY <1>1, <1>2 DEF r
  <2> QED
    BY <2>1, <2>2 DEF ToSet
<1> QED
  BY <1>1, <1>3, <1>4 DEF r

(* Appending a new element, or one of R, repeats only members of R.         *)
LEMMA AppendOnce ==
  ASSUME NEW S, NEW s \in Seq(S), NEW R, NEW e \in S, e \notin ToSet(s) \/ e \in R,
         \A i, j \in DOMAIN s : s[i] = s[j] => i = j \/ s[i] \in R
  PROVE  \A i, j \in DOMAIN Append(s, e) :
           Append(s, e)[i] = Append(s, e)[j] => i = j \/ Append(s, e)[i] \in R
<1> DEFINE r == Append(s, e)
<1>1. r \in Seq(S) /\ Len(r) = Len(s) + 1 /\ r[Len(s) + 1] = e
      /\ \A i \in 1..Len(s) : r[i] = s[i]
  BY AppendElement
<1>2. \A i \in 1..Len(s) : s[i] # e \/ e \in R
  BY DEF ToSet
<1> HIDE DEF r
<1>3. \A i, j \in DOMAIN r : r[i] = r[j] => i = j \/ r[i] \in R
  BY <1>1, <1>2
<1> QED
  BY <1>3 DEF r
=============================================================================
