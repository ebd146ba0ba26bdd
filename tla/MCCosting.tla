-------------------------------- MODULE MCCosting --------------------------------
(* Instances of Costing for TLC. *)
EXTENDS Costing, TLC

CONSTANTS r1, r2, r3, k1, k2, k3, o1, o2, s1

Save(k, o, entered) == [key |-> k, order |-> o, scope |-> {s1}, entered |-> entered]

\* 0.00400: rounds to nothing, three of them to a cent.
Crumb == 400
\* 0.66830: three of them are 2.00490, which four digits make 2.005.
Long == 66830
\* 1.00000: three of them are more than the column holds.
Big == 100000

\* Two saves of one order under two keys, retries with another payload, a blank,
\* a malformed amount, one too large once the quantity is three, a key sent with
\* another order, a caller out of scope.
MixedCalls ==
  {Save(k1, o1, Crumb), Save(k2, o1, None), Save(k2, o1, Long), Save(k2, o1, Malformed),
   Save(k2, o1, Big), Save(k1, o2, Crumb), [Save(k1, o1, Crumb) EXCEPT !.scope = {}]}

One   == [quantity |-> 1, currency |-> "USD"]
Three == [quantity |-> 3, currency |-> "CAD"]
TwoFigures == {One, Three}
\* One order is there, an import may refresh it or bring the other.
FirstOrder == {[o \in Orders |-> IF o = o1 THEN One ELSE None]}
OrdersSent == {[order |-> o1, figures |-> Three], [order |-> o2, figures |-> One]}
OneStore == [o \in Orders |-> s1]

Symmetry == Permutations(Requests)

--------------------------------------------------------------------------------
(* What the laws of the arithmetic are looked at for. *)

BothSigns == -2100 .. 2100
SmallSums == {[amount |-> n, currency |-> c] :
                n \in {-7, -3, -1, 0, 2, 6, 8}, c \in {"USD", "CAD"}}
================================================================================
