----------------------------- MODULE MCOrdersScreen -----------------------------
(* An instance of OrdersScreen for TLC: two stores whose callers share keys. *)
EXTENDS OrdersScreen

CONSTANTS r1, r2, k1, k2, s1, s2, o1, o2, a, b, v1

Lined(s, sku, first, second) ==
  [store |-> s, lines |-> <<[order |-> first, sku |-> sku, placed |-> 25, flaw |-> "none"],
                            [order |-> second, sku |-> sku, placed |-> 25, flaw |-> "none"]>>]

\* Two imports of one store that can deadlock, a key sent to another store,
\* and a run that is rejected whole.
ScreenBodies == {Lined(s1, a, o1, o2), Lined(s1, b, o2, o1), Lined(s2, b, o1, o1)}
AllScope == {{s1, s2}}
UtcOnly == {0}
FirstDay == {1}
OneStore == {s1}
ReadyStores == {[is_active |-> TRUE, timezone |-> 0, managed_from |-> 1]}

\* Requests are named in the order they are sent, the first under k1, and no
\* store is reconfigured.
SentInOrder ==
  /\ call[r2] # None => call[r1] # None
  /\ call[r1] # None => call[r1].key = k1
  /\ \A k \in Keys : ledger[k] # None => IsImport(k)
================================================================================
