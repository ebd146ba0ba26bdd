----------------------------- MODULE MCOrderImport -----------------------------
(* Instances of OrderImport for TLC. *)
EXTENDS OrderImport, TLC

CONSTANTS r1, r2, r3, k1, k2, k3, s1, s2, o1, o2, a, b

L(order, sku, placed, flaw) ==
  [order |-> order, sku |-> sku, placed |-> placed, flaw |-> flaw]

\* An instant that is day 0 in a zone west of UTC and day 1 in UTC.
Evening == 25

TwoOrders   == [store |-> s1, lines |-> <<L(o1, a, Evening, "none"), L(o2, a, Evening, "none")>>]
Opposite    == [store |-> s1, lines |-> <<L(o2, b, Evening, "none"), L(o1, b, Evening, "none")>>]
MixedBatch  == [store |-> s1, lines |-> <<L(o1, a, Evening, "none"), L(o2, a, Evening, "none"),
                                          L(o2, b, Evening, "none")>>]
AllRejected == [store |-> s1, lines |-> <<L(o1, a, Evening, "none"), L(o1, a, Evening, "none")>>]
OneOrder    == [store |-> s1, lines |-> <<L(o1, b, Evening, "none")>>]
Unsound     == [store |-> s1, lines |-> <<L(o1, b, Evening, "none"), L(o2, b, Evening, "not_finite")>>]
NoOffset    == [store |-> s1, lines |-> <<L(o2, b, Evening, "no_offset")>>]
OtherStore  == [store |-> s2, lines |-> <<L(o1, b, Evening, "none")>>]

RaceBodies    == {TwoOrders, Opposite}
OutcomeBodies == {MixedBatch, AllRejected, OneOrder, Unsound, NoOffset}
TwoStoreBodies == {TwoOrders, Opposite, OtherStore}
OneBody == {OneOrder}

WholeScope == {{s1}}
AllScope == {{s1, s2}}
SomeOrNone == {{s1}, {}}
ZonesUsed == {-5, 0}
UtcOnly == {0}
FirstDay == {1}
FirstDayOrNever == {1, NoDate}

Ready == [is_active |-> TRUE, timezone |-> 0, managed_from |-> 1]
ReadyStores == {Ready}
AnyStores == {Ready, [Ready EXCEPT !.is_active = FALSE], [Ready EXCEPT !.managed_from = None],
              [Ready EXCEPT !.timezone = None, !.managed_from = NoDate]}

\* Settings change once at most, and a caller without the store sends one body:
\* nothing of a body but its store is looked at before the scope.
OneChange ==
  /\ Cardinality({k \in Keys : ledger[k] # None /\ ~IsImport(k)}) <= 1
  /\ \A r \in Requests : call[r] # None /\ call[r].scope = {} => call[r].body = OneOrder

CallSymmetry == Permutations(Requests) \cup Permutations(Keys)
================================================================================
