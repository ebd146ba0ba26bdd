------------------------------- MODULE Extremes -------------------------------
(* The least and the greatest of a set of numbers: what makes a CHOOSE of the  *)
(* latest run, the latest event or the latest count mean something.            *)
EXTENDS Naturals, WellFoundedInduction, TLAPS

\* A set of natural numbers that is not empty has a least member.
LEMMA LeastOf ==
  ASSUME NEW T, T \subseteq Nat, T # {}
  PROVE  \E n \in T : \A m \in T : n <= m
<1> DEFINE R == OpToRel(<, Nat)
<1>1. IsWellFoundedOn(R, Nat)
  BY NatLessThanWellFounded, Zenon
<1>2. \A m, n \in Nat : <<m, n>> \in R <=> m < n
  BY DEF OpToRel
<1> HIDE DEF R
<1>3. PICK n \in T : \A m \in T : ~ (<<m, n>> \in R)
  BY <1>1, WFMin
<1>4. ASSUME NEW m \in T PROVE n <= m
  <2>1. m \in Nat /\ n \in Nat
    OBVIOUS
  <2>2. ~(m < n)
    BY <1>2, <1>3, <2>1
  <2> QED
    BY <2>1, <2>2
<1> QED
  BY <1>4

\* One that is bounded as well has a greatest member.
LEMMA GreatestOf ==
  ASSUME NEW T, T \subseteq Nat, T # {}, NEW top \in Nat, \A n \in T : n <= top
  PROVE  \E n \in T : \A m \in T : m <= n
<1> DEFINE U == {u \in Nat : \E n \in T : u = top - n}
<1>1. \A n \in T : top - n \in U
  <2> SUFFICES ASSUME NEW n \in T PROVE top - n \in Nat
    OBVIOUS
  <2>1. n \in Nat /\ n <= top
    OBVIOUS
  <2> QED
    BY <2>1
<1>2. U \subseteq Nat /\ U # {}
  BY <1>1
<1>3. PICK u \in U : \A v \in U : u <= v
  BY <1>2, LeastOf
<1>4. PICK n \in T : u = top - n
  OBVIOUS
<1>5. ASSUME NEW m \in T PROVE m <= n
  <2>1. u <= top - m
    BY <1>1, <1>3
  <2>2. m \in Nat /\ n \in Nat
    OBVIOUS
  <2> QED
    BY <1>4, <2>1, <2>2
<1> QED
  BY <1>5
================================================================================
