-------------------------- MODULE InductionLemmas ---------------------------
(***************************************************************************)
(* Induction over data, as facts about sets: what holds for a set of       *)
(* naturals that contains 0 and the successor of each of its members, and  *)
(* what follows for ordered enumerations of finite sets.                   *)
(***************************************************************************)
EXTENDS Integers, Sequences, FiniteSets, FiniteSetTheorems, FunctionTheorems, SequenceTheorems,
        WellFoundedInduction, TLAPS

(* Every set of naturals has a least element.                              *)
LEMMA LeastNat == ASSUME NEW T \in SUBSET Nat, T # {} PROVE \E x \in T : \A y \in T : x <= y
<1> DEFINE R == {ss \in Nat \X Nat : ss[1] < ss[2]}
<1>1. PICK x \in T : \A y \in T : ~(<<y, x>> \in R)
  <2>1. IsWellFoundedOn(R, Nat) BY NatLessThanWellFounded DEF OpToRel
  <2> HIDE DEF R
  <2> QED BY <2>1, WFMin
<1>2. \A y \in T : ~(y < x) BY <1>1
<1> QED BY <1>2

(* Induction: a set with 0 and every successor holds all naturals.         *)
LEMMA InductiveSet ==
  ASSUME NEW S, 0 \in S, \A n \in Nat : n \in S => n + 1 \in S PROVE \A n \in Nat : n \in S
<1> DEFINE T == {n \in Nat : n \notin S}
<1> SUFFICES ASSUME T # {} PROVE FALSE OBVIOUS
<1>1. PICK x \in T : \A y \in T : x <= y
  <2> HIDE DEF T
  <2>1. T \in SUBSET Nat BY DEF T
  <2> QED BY <2>1, LeastNat
<1>2. x # 0 OBVIOUS
<1>3. x - 1 \in Nat /\ x - 1 \notin T BY <1>1, <1>2
<1> QED BY <1>3

-----------------------------------------------------------------------------
(* s enumerates the numbers of S in increasing order.                      *)
Enumerates(s, S) ==
  /\ s \in [1 .. Cardinality(S) -> S]
  /\ \A i, j \in 1 .. Cardinality(S) : i < j => s[i] < s[j]

(* Every finite set of naturals has such an enumeration.                   *)
LEMMA EnumerationExists ==
  ASSUME NEW S \in SUBSET Nat, IsFiniteSet(S) PROVE \E s : Enumerates(s, S)
<1> DEFINE P == {n \in Nat : \A T \in SUBSET Nat : IsFiniteSet(T) /\ Cardinality(T) = n => \E s : Enumerates(s, T)}
<1>1. 0 \in P
  <2> SUFFICES ASSUME NEW T \in SUBSET Nat, IsFiniteSet(T), Cardinality(T) = 0 PROVE \E s : Enumerates(s, T) OBVIOUS
  <2>1. T = {} BY FS_EmptySet
  <2>2. [i \in 1 .. 0 |-> 0] \in [1 .. 0 -> T] OBVIOUS
  <2>3. Enumerates([i \in 1 .. 0 |-> 0], T) BY <2>2 DEF Enumerates
  <2> QED BY <2>3
<1>2. ASSUME NEW n \in Nat, n \in P PROVE n + 1 \in P
  <2> SUFFICES ASSUME NEW T \in SUBSET Nat, IsFiniteSet(T), Cardinality(T) = n + 1 PROVE \E s : Enumerates(s, T) OBVIOUS
  <2>1. T # {} BY FS_EmptySet
  <2>2. PICK x \in T : \A y \in T : x <= y BY <2>1, LeastNat
  <2> DEFINE U == T \ {x}
  <2>3. IsFiniteSet(U) /\ Cardinality(U) = n
    <3>1. IsFiniteSet(U) /\ Cardinality(U) = Cardinality(T) - 1 BY <2>2, FS_RemoveElement
    <3> QED BY <3>1
  <2>4. PICK s : Enumerates(s, U) BY <1>2, <2>3
  <2> DEFINE t == [i \in 1 .. n + 1 |-> IF i = 1 THEN x ELSE s[i - 1]]
  <2>5. s \in [1 .. n -> U] /\ \A i, j \in 1 .. n : i < j => s[i] < s[j] BY <2>3, <2>4 DEF Enumerates
  <2>6. \A i \in 1 .. n + 1 : i # 1 => i - 1 \in 1 .. n /\ s[i - 1] \in U BY <2>5
  <2>7. t \in [1 .. n + 1 -> T] BY <2>6
  <2>8. ASSUME NEW i \in 1 .. n + 1, NEW j \in 1 .. n + 1, i < j PROVE t[i] < t[j]
    <3>1. j # 1 /\ t[j] = s[j - 1] /\ s[j - 1] \in U BY <2>6, <2>8
    <3>2. CASE i = 1
      <4>1. x \in Nat /\ s[j - 1] \in Nat /\ x <= s[j - 1] /\ x # s[j - 1] BY <2>2, <3>1
      <4>2. t[i] = x BY <3>2
      <4> HIDE DEF t
      <4> QED BY <3>1, <4>1, <4>2
    <3>3. CASE i # 1
      <4>1. t[i] = s[i - 1] /\ i - 1 \in 1 .. n /\ j - 1 \in 1 .. n BY <2>6, <3>1, <3>3
      <4>2. i - 1 < j - 1 BY <2>8
      <4> QED BY <2>5, <3>1, <4>1, <4>2
    <3> QED BY <3>2, <3>3
  <2>9. Enumerates(t, T)
    <3> HIDE DEF t
    <3> QED BY <2>7, <2>8 DEF Enumerates
  <2> QED BY <2>9
<1> HIDE DEF P
<1>3. \A n \in Nat : n \in P BY <1>1, <1>2, InductiveSet
<1>4. Cardinality(S) \in Nat BY FS_CardinalityType
<1>5. Cardinality(S) \in P BY <1>3, <1>4
<1> QED BY <1>5 DEF P

(* It has every member of S, once.                                         *)
LEMMA EnumerationOnto ==
  ASSUME NEW S \in SUBSET Nat, IsFiniteSet(S), NEW s, Enumerates(s, S)
  PROVE  /\ \A x \in S : \E i \in 1 .. Cardinality(S) : s[i] = x
         /\ \A i, j \in 1 .. Cardinality(S) : s[i] = s[j] => i = j
         /\ Cardinality(S) \in Nat
<1> DEFINE c == Cardinality(S)
<1>1. c \in Nat BY FS_CardinalityType
<1>2. s \in [1 .. c -> S] /\ \A i, j \in 1 .. c : i < j => s[i] < s[j] BY DEF Enumerates
<1> HIDE DEF c
<1>3. ASSUME NEW i \in 1 .. c, NEW j \in 1 .. c, s[i] = s[j] PROVE i = j
  <2>1. s[i] \in Nat BY <1>2
  <2>2. ~(i < j) /\ ~(j < i) BY <1>2, <1>3, <2>1
  <2> QED BY <1>1, <2>2
<1>4. s \in Injection(1 .. c, S) BY <1>2, <1>3 DEF Injection, IsInjective
<1>5. Cardinality(1 .. c) = c /\ IsFiniteSet(1 .. c)
  <2>1. 1 \in Int /\ c \in Int BY <1>1
  <2> QED BY <1>1, <2>1, FS_Interval
<1>6. s \in Surjection(1 .. c, S) BY <1>4, <1>5, FS_Injection DEF c
<1> QED BY <1>1, <1>3, <1>6 DEF Surjection, c

(* So it is a sequence of the members of S.                                *)
LEMMA EnumerationSeq ==
  ASSUME NEW S \in SUBSET Nat, IsFiniteSet(S), NEW m, Enumerates(m, S)
  PROVE  /\ m \in Seq(Nat) /\ Len(m) = Cardinality(S)
         /\ {m[i] : i \in DOMAIN m} = S /\ (m = << >> <=> S = {})
<1> DEFINE c == Cardinality(S)
<1>1. (\A x \in S : \E i \in 1 .. c : m[i] = x) /\ c \in Nat BY EnumerationOnto
<1>2. m \in [1 .. c -> S] BY DEF Enumerates
<1>3. m \in Seq(Nat) /\ Len(m) = c
  <2> HIDE DEF c
  <2>1. m \in [1 .. c -> Nat] BY <1>2
  <2> QED BY <1>1, <2>1
<1>4. DOMAIN m = 1 .. c BY <1>2
<1>5. {m[i] : i \in DOMAIN m} = S BY <1>1, <1>2, <1>4
<1>6. m = << >> <=> c = 0
  <2> HIDE DEF c
  <2>1. Len(<< >>) = 0 OBVIOUS
  <2> QED BY <1>3, <2>1, EmptySeq
<1>7. c = 0 <=> S = {} BY FS_EmptySet
<1> QED BY <1>3, <1>5, <1>6, <1>7

(* The increasing order that the models choose is such an enumeration.     *)
LEMMA ChosenOrder ==
  ASSUME NEW S \in SUBSET Nat, IsFiniteSet(S)
  PROVE  Enumerates(CHOOSE s \in [1 .. Cardinality(S) -> S] :
                      \A i, j \in 1 .. Cardinality(S) : i < j => s[i] < s[j], S)
<1>1. \E s : Enumerates(s, S) BY EnumerationExists
<1> QED BY <1>1 DEF Enumerates

=============================================================================
