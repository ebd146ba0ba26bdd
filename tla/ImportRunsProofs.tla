--------------------------- MODULE ImportRunsProofs ---------------------------
(* What an import leaves behind, and what the orders screen shows of it, for  *)
(* every value of the constants: the books of a run balance, its rows and its *)
(* event appear together, and every row names the run that wrote it.          *)
EXTENDS OrderImportProofs, OrdersScreen, Extremes

--------------------------------------------------------------------------------
(* The invariant of an open import *)

Imported(t) == {m.order : m \in t.results}
Rejected(t) == {e.order : e \in t.errors}
OnePerOrder(S) == \A m, n \in S : m.order = n.order => m = n

\* The groups worked off and the groups left make up the submitted batch.
BooksAgree(t, lines) ==
  /\ t.todo \subseteq FirstSeen(lines)
  /\ \A i \in t.todo : lines[i].order \notin Imported(t) \cup Rejected(t)
  /\ Imported(t) \cap Rejected(t) = {}
  /\ OnePerOrder(t.results) /\ OnePerOrder(t.errors)
  /\ Cardinality(t.todo) + Cardinality(t.results) + Cardinality(t.errors)
       = Cardinality(FirstSeen(lines))

\* What finish_import_batch wrote.
BooksClosed(t, clock) ==
  /\ t.todo = {}
  /\ t.batch.status = RunOutcome(t.results, t.errors)
  /\ t.batch.finished_at \in Nat
  /\ t.batch.started_at <= t.batch.finished_at /\ t.batch.finished_at <= clock
  /\ t.batch.success_count = Cardinality(t.results)
  /\ t.batch.error_count = Cardinality(t.errors)
  /\ t.batch.row_count = t.batch.success_count + t.batch.error_count

\* row carries what the only line for o says.
RowIsFrom(lines, o, row) ==
  \E i \in DOMAIN lines :
    /\ Group(lines, i) = {i} /\ lines[i].order = o
    /\ lines[i].sku = row.sku /\ lines[i].placed = row.placed

\* The uncommitted rows are those the results name, beside the committed ones.
RowsAgree(t, lines, committed, clock) ==
  /\ \A o \in OrderIds : t.rows[o] # None =>
       /\ o \in Imported(t)
       /\ RowIsFrom(lines, o, t.rows[o])
       /\ t.batch.started_at <= t.rows[o].last_imported_at
       /\ t.rows[o].last_imported_at <= clock
  /\ \A m \in t.results :
       /\ t.rows[m.order] # None /\ t.rows[m.order].id = m.id
       /\ m.created <=> committed[m.order] = None

Closed(r) == pc[r] \in {"record", "commit"}

\* What a request has at hand beside its books.
AtHand(r) ==
  /\ pc[r] = "unsent" => call[r] = None
  /\ pc[r] \in {"opened", "lookup", "create"} =>
       txn[r].results = {} /\ txn[r].errors = {}
  /\ pc[r] = "create" => txn[r].stamp <= now
  /\ Writing(r) => txn[r].batch.started_at <= now
  /\ pc[r] = "upsert" =>
       /\ txn[r].batch.started_at <= txn[r].stamp /\ txn[r].stamp <= now
       /\ \A i \in txn[r].todo : IsNext(r, i) => Group(Lines(r), i) = {i}

OpenRun(r) ==
  /\ AtHand(r)
  /\ Writing(r) => /\ BooksAgree(txn[r], Lines(r))
                   /\ RowsAgree(txn[r], Lines(r), orders[StoreOf(r)], now)
  /\ Closed(r) =>
       /\ BooksClosed(txn[r], now)
       /\ \A o \in OrderIds : txn[r].rows[o] # None =>
            txn[r].rows[o].last_imported_at <= txn[r].batch.finished_at

OpenInv == \A r \in Requests : OpenRun(r)

LEMMA InitOpen == Init => OpenInv
  BY DEF Init, OpenInv, OpenRun, AtHand, Writing, Closed, NoTxn

\* A single group taken off todo, with one entry for it in the results or in
\* the errors, leaves books that agree.
LEMMA BooksMoveOn ==
  ASSUME NEW t, NEW u, NEW lines, BooksAgree(t, lines),
         IsFiniteSet(t.todo), IsFiniteSet(t.results), IsFiniteSet(t.errors),
         DOMAIN lines \subseteq Nat, NEW i \in t.todo, NEW e, e.order = lines[i].order,
         u.todo = t.todo \ {i},
         \/ u.results = t.results \cup {e} /\ u.errors = t.errors
         \/ u.results = t.results /\ u.errors = t.errors \cup {e}
  PROVE  BooksAgree(u, lines)
<1>1. \A j \in t.todo : lines[j].order = lines[i].order => j = i
  <2> SUFFICES ASSUME NEW j \in t.todo, lines[j].order = lines[i].order PROVE j = i
    OBVIOUS
  <2>1. i \in FirstSeen(lines) /\ j \in FirstSeen(lines)
    BY DEF BooksAgree
  <2>2. i \in Nat /\ j \in Nat /\ i <= j /\ j <= i
    BY <2>1 DEF FirstSeen, Group
  <2> QED
    BY <2>2
<1>2. e \notin t.results /\ e \notin t.errors
  BY DEF BooksAgree, Imported, Rejected
<1>3. Cardinality(u.todo) + Cardinality(u.results) + Cardinality(u.errors)
        = Cardinality(FirstSeen(lines))
  <2>1. /\ Cardinality(t.todo) \in Nat /\ Cardinality(t.results) \in Nat
        /\ Cardinality(t.errors) \in Nat
    BY FS_CardinalityType
  <2>2. Cardinality(u.todo) = Cardinality(t.todo) - 1
    BY FS_RemoveElement
  <2>3. /\ Cardinality(t.results \cup {e}) = Cardinality(t.results) + 1
        /\ Cardinality(t.errors \cup {e}) = Cardinality(t.errors) + 1
    BY <1>2, FS_AddElement
  <2>4. \/ /\ Cardinality(u.results) = Cardinality(t.results) + 1
           /\ Cardinality(u.errors) = Cardinality(t.errors)
        \/ /\ Cardinality(u.results) = Cardinality(t.results)
           /\ Cardinality(u.errors) = Cardinality(t.errors) + 1
    BY <2>3, Zenon
  <2>6. Cardinality(t.todo) + Cardinality(t.results) + Cardinality(t.errors)
          = Cardinality(FirstSeen(lines))
    BY DEF BooksAgree
  <2> QED
    BY <2>1, <2>2, <2>4, <2>6
<1>4. CASE u.results = t.results \cup {e} /\ u.errors = t.errors
  <2>1. Imported(u) = Imported(t) \cup {lines[i].order} /\ Rejected(u) = Rejected(t)
    BY <1>4 DEF Imported, Rejected
  <2>2. OnePerOrder(u.results) /\ OnePerOrder(u.errors)
    BY <1>4 DEF BooksAgree, OnePerOrder, Imported
  <2> QED
    BY <1>1, <1>3, <2>1, <2>2 DEF BooksAgree
<1>5. CASE u.results = t.results /\ u.errors = t.errors \cup {e}
  <2>1. Rejected(u) = Rejected(t) \cup {lines[i].order} /\ Imported(u) = Imported(t)
    BY <1>5 DEF Imported, Rejected
  <2>2. OnePerOrder(u.results) /\ OnePerOrder(u.errors)
    BY <1>5 DEF BooksAgree, OnePerOrder, Rejected
  <2> QED
    BY <1>1, <1>3, <2>1, <2>2 DEF BooksAgree
<1> QED
  BY <1>4, <1>5

\* A line still to do is a line of the body.
LEMMA LineShape ==
  ASSUME LocalInv, NEW r \in Requests, pc[r] # "unsent", NEW i \in txn[r].todo
  PROVE  /\ i \in DOMAIN Lines(r) /\ Lines(r)[i] \in Line
         /\ Lines(r)[i].order \in OrderIds /\ StoreOf(r) \in Stores
         /\ DOMAIN Lines(r) \subseteq Nat
<1>1. call[r] \in Call /\ i \in DOMAIN Lines(r)
  BY DEF LocalInv, Progress
<1>2. call[r].body \in Bodies
  BY <1>1 DEF Call
<1>3. Lines(r)[i] \in Line /\ StoreOf(r) \in Stores /\ DOMAIN Lines(r) \subseteq Nat
  BY <1>1, <1>2, BodyShape DEF Lines, StoreOf
<1> QED
  BY <1>1, <1>3 DEF Line

\* What RejectGroup does to the transaction of r.
LEMMA RejectEffect ==
  ASSUME LocalInv, NEW r \in Requests, RejectGroup(r)
  PROVE  \E i \in txn[r].todo : \E e \in Rejection :
           /\ e.order = Lines(r)[i].order
           /\ txn'[r].todo = txn[r].todo \ {i}
           /\ txn'[r].errors = txn[r].errors \cup {e}
           /\ txn'[r].results = txn[r].results /\ txn'[r].rows = txn[r].rows
           /\ txn'[r].batch = txn[r].batch
<1>1. txn \in [Requests -> Txn]
  BY DEF LocalInv, TypeOK
<1>2. PICK i \in txn[r].todo :
        txn' = [txn EXCEPT
          ![r].todo = @ \ {i},
          ![r].errors = @ \cup
            {[order |-> Lines(r)[i].order,
              code |-> IF \A a, b \in SkusOf(Lines(r), i) : a = b
                       THEN "DUPLICATE_ORDER_LINE"
                       ELSE "MULTIPLE_SKUS_FOR_ORDER"]}]
  BY DEF RejectGroup
<1> DEFINE e == [order |-> Lines(r)[i].order,
                 code |-> IF \A a, b \in SkusOf(Lines(r), i) : a = b
                          THEN "DUPLICATE_ORDER_LINE"
                          ELSE "MULTIPLE_SKUS_FOR_ORDER"]
<1>3. e.order = Lines(r)[i].order
  OBVIOUS
<1>6. e \in Rejection
  <2>1. Lines(r)[i].order \in OrderIds
    BY LineShape DEF RejectGroup
  <2> QED
    BY <2>1 DEF Rejection, ErrorCode
<1> HIDE DEF e
<1>4. txn' = [txn EXCEPT ![r] = [txn[r] EXCEPT !.todo = @ \ {i}, !.errors = @ \cup {e}]]
  BY <1>1, <1>2 DEF e
<1>5. /\ txn'[r].todo = txn[r].todo \ {i} /\ txn'[r].errors = txn[r].errors \cup {e}
      /\ txn'[r].results = txn[r].results /\ txn'[r].rows = txn[r].rows
      /\ txn'[r].batch = txn[r].batch
  BY <1>1, <1>4 DEF Txn
<1> QED
  BY <1>3, <1>5, <1>6

\* What UpsertOrder does to the transaction of r.
LEMMA UpsertEffect ==
  ASSUME LocalInv, NEW r \in Requests, UpsertOrder(r)
  PROVE  \E i \in txn[r].todo : \E m \in Summary, row \in OrderRow :
           /\ IsNext(r, i)
           /\ Lines(r)[i].order \in OrderIds
           /\ m.order = Lines(r)[i].order
           /\ m.created <=> orders[StoreOf(r)][m.order] = None
           /\ row.id = m.id
           /\ row.sku = Lines(r)[i].sku /\ row.placed = Lines(r)[i].placed
           /\ row.last_imported_at = txn[r].stamp
           /\ txn'[r].todo = txn[r].todo \ {i}
           /\ txn'[r].results = txn[r].results \cup {m}
           /\ txn'[r].rows = [txn[r].rows EXCEPT ![m.order] = row]
           /\ txn'[r].errors = txn[r].errors
           /\ txn'[r].batch = txn[r].batch
<1>1. /\ txn \in [Requests -> Txn] /\ pc[r] = "upsert"
      /\ txn[r].store \in Config /\ txn[r].batch \in BatchRow
      /\ txn[r].store.timezone # None
      /\ orders \in [Stores -> [OrderIds -> OrderRow \cup {None}]]
  BY DEF LocalInv, TypeOK, Progress, UpsertOrder, Writing
<1>2. PICK i \in txn[r].todo :
        /\ IsNext(r, i)
        /\ LET line == Lines(r)[i]
               old  == orders[StoreOf(r)][line.order]
               date == OrderDate(txn[r].store, line.placed)
               status == ScopeStatusFor(txn[r].store, date)
               id   == RowId(r, old)
           IN  txn' = [txn EXCEPT
                 ![r].todo = @ \ {i},
                 ![r].rows[line.order] =
                   [id |-> id, sku |-> line.sku, placed |-> line.placed,
                    order_date |-> date, scope_status |-> status,
                    posting_status |-> PostingStatusFor(status),
                    last_imported_at |-> StampOf(r, old)],
                 ![r].results = @ \cup
                   {[order |-> line.order, id |-> id, created |-> old = None]}]
  BY DEF UpsertOrder
<1> DEFINE o == Lines(r)[i].order
           old == orders[StoreOf(r)][o]
           date == OrderDate(txn[r].store, Lines(r)[i].placed)
           status == ScopeStatusFor(txn[r].store, date)
           row == [id |-> RowId(r, old), sku |-> Lines(r)[i].sku,
                   placed |-> Lines(r)[i].placed,
                   order_date |-> date, scope_status |-> status,
                   posting_status |-> PostingStatusFor(status),
                   last_imported_at |-> StampOf(r, old)]
           m == [order |-> o, id |-> RowId(r, old), created |-> old = None]
           t == [txn[r] EXCEPT !.todo = @ \ {i}, !.rows[o] = row,
                               !.results = @ \cup {m}]
<1>3. /\ o \in OrderIds /\ Lines(r)[i] \in Line /\ StoreOf(r) \in Stores
  BY <1>1, LineShape
<1>4. txn' = [txn EXCEPT ![r] = t]
  BY <1>1, <1>2
<1>5. /\ row.id = m.id /\ row.sku = Lines(r)[i].sku /\ row.placed = Lines(r)[i].placed
      /\ row.last_imported_at = txn[r].stamp
  BY DEF StampOf
<1>6. m.order = o
  OBVIOUS
<1>7. m.created <=> orders[StoreOf(r)][o] = None
  BY Zenon
<1>10. RowId(r, old) \in Nat
  BY <1>1, <1>3 DEF RowId, OrderRow, BatchRow
<1>11. row \in OrderRow /\ m \in Summary
  <2>1. /\ date \in Int /\ status \in ScopeStatus
        /\ PostingStatusFor(status) \in PostingStatus
    BY <1>1, <1>3, ResolvedTypes DEF Line
  <2>2. Lines(r)[i].sku \in Skus /\ Lines(r)[i].placed \in Int /\ txn[r].stamp \in Nat
    BY <1>1, <1>3 DEF Line, Txn
  <2>3. m \in Summary
    <3> HIDE DEF o, old
    <3> QED
      BY <1>3, <1>10 DEF Summary, o
  <2> HIDE DEF date, status, o, old
  <2> QED
    BY <1>10, <2>1, <2>2, <2>3 DEF OrderRow, StampOf
<1> HIDE DEF row, m
<1>8. /\ t.todo = txn[r].todo \ {i} /\ t.results = txn[r].results \cup {m}
      /\ t.rows = [txn[r].rows EXCEPT ![o] = row]
      /\ t.errors = txn[r].errors /\ t.batch = txn[r].batch
  BY <1>1 DEF Txn
<1> HIDE DEF t
<1>9. txn'[r] = t
  BY <1>1, <1>4
<1>12. IsNext(r, i)
  BY <1>2
<1>13. /\ m.order = Lines(r)[i].order /\ Lines(r)[i].order \in OrderIds
       /\ m.created <=> orders[StoreOf(r)][m.order] = None
       /\ txn'[r].rows = [txn[r].rows EXCEPT ![m.order] = row]
  BY <1>3, <1>6, <1>7, <1>8, <1>9, Zenon
<1>14. /\ txn'[r].todo = txn[r].todo \ {i} /\ txn'[r].results = txn[r].results \cup {m}
       /\ txn'[r].errors = txn[r].errors /\ txn'[r].batch = txn[r].batch
  BY <1>8, <1>9
<1> QED
  BY <1>5, <1>11, <1>12, <1>13, <1>14, Zenon

\* The run of q is as it was when q does not move, the clock does not go back,
\* and no committed row changes under a row that q holds.
LEMMA OpenRunStays ==
  ASSUME LocalInv, NEW q \in Requests, OpenRun(q), now' \in Nat, now <= now',
         pc'[q] = pc[q], txn'[q] = txn[q], call'[q] = call[q],
         \A o \in OrderIds : txn[q].rows[o] # None =>
           (orders'[StoreOf(q)][o] = None <=> orders[StoreOf(q)][o] = None)
  PROVE  OpenRun(q)'
<1>1. /\ Lines(q)' = Lines(q) /\ StoreOf(q)' = StoreOf(q) /\ Writing(q)' = Writing(q)
      /\ Closed(q)' = Closed(q) /\ \A i : IsNext(q, i)' = IsNext(q, i)
  BY DEF Lines, StoreOf, Writing, Closed, IsNext
<1>2. /\ now \in Nat /\ txn[q] \in Txn
  BY DEF LocalInv, TypeOK
<1>3. Writing(q) => txn[q].batch \in BatchRow /\ txn[q].batch.started_at \in Nat
  BY DEF LocalInv, Progress, BatchRow
<1>7. \A n \in Nat : n <= now => n <= now'
  BY <1>2
<1>8. txn[q].stamp \in Nat /\ txn[q].results \subseteq Summary
      /\ \A o \in OrderIds : txn[q].rows[o] # None => txn[q].rows[o].last_imported_at \in Nat
  BY <1>2 DEF Txn, OrderRow
<1>4. AtHand(q)'
  <2>1. AtHand(q)
    BY DEF OpenRun
  <2>2. Writing(q) => txn[q].batch.started_at <= now'
    BY <1>3, <1>7, <2>1 DEF AtHand
  <2>3. txn[q].stamp <= now => txn[q].stamp <= now'
    BY <1>7, <1>8
  <2> QED
    BY <1>1, <2>1, <2>2, <2>3 DEF AtHand
<1>5. ASSUME Writing(q)
      PROVE  /\ BooksAgree(txn'[q], Lines(q)')
             /\ RowsAgree(txn'[q], Lines(q)', orders'[StoreOf(q)], now')
  <2>1. /\ BooksAgree(txn[q], Lines(q))
        /\ RowsAgree(txn[q], Lines(q), orders[StoreOf(q)], now)
    BY <1>5 DEF OpenRun
  <2>2. ASSUME NEW o \in OrderIds, txn[q].rows[o] # None
        PROVE  txn[q].rows[o].last_imported_at <= now'
    <3>1. txn[q].rows[o].last_imported_at <= now
      BY <2>1, <2>2 DEF RowsAgree
    <3> QED
      BY <1>7, <1>8, <2>2, <3>1
  <2>3. ASSUME NEW m \in txn[q].results
        PROVE  m.created <=> orders'[StoreOf(q)][m.order] = None
    <3>1. m.order \in OrderIds
      BY <1>8 DEF Summary
    <3>2. /\ txn[q].rows[m.order] # None
          /\ m.created <=> orders[StoreOf(q)][m.order] = None
      BY <2>1 DEF RowsAgree
    <3> QED
      BY <3>1, <3>2
  <2> QED
    BY <1>1, <2>1, <2>2, <2>3 DEF RowsAgree
<1>6. ASSUME Closed(q)
      PROVE  /\ BooksClosed(txn'[q], now')
             /\ \A o \in OrderIds : txn'[q].rows[o] # None =>
                  txn'[q].rows[o].last_imported_at <= txn'[q].batch.finished_at
  <2>1. /\ BooksClosed(txn[q], now)
        /\ \A o \in OrderIds : txn[q].rows[o] # None =>
             txn[q].rows[o].last_imported_at <= txn[q].batch.finished_at
    BY <1>6 DEF OpenRun
  <2>2. txn[q].batch.finished_at <= now'
    BY <1>7, <2>1 DEF BooksClosed
  <2> QED
    BY <2>1, <2>2 DEF BooksClosed
<1> QED
  BY <1>1, <1>4, <1>5, <1>6 DEF OpenRun

\* The one line UpsertOrder works on is the one ResolveLine found alone.
LEMMA NextIsOne ==
  ASSUME LocalInv, NEW r \in Requests, pc[r] # "unsent",
         NEW i \in txn[r].todo, NEW j \in txn[r].todo, IsNext(r, i), IsNext(r, j)
  PROVE  i = j
<1>1. i \in Nat /\ j \in Nat
  BY LineShape
<1>2. i <= j /\ j <= i
  BY DEF IsNext
<1> QED
  BY <1>1, <1>2

\* The first position of each order, with no result and no error yet, makes
\* books that agree.
LEMMA BooksOpen ==
  ASSUME NEW t, NEW lines, t.todo = FirstSeen(lines), t.results = {}, t.errors = {},
         IsFiniteSet(DOMAIN lines)
  PROVE  BooksAgree(t, lines)
<1>1. IsFiniteSet(FirstSeen(lines))
  <2>1. FirstSeen(lines) \in SUBSET DOMAIN lines
    BY DEF FirstSeen
  <2> QED
    BY <2>1, FS_Subset
<1>2. Cardinality(FirstSeen(lines)) \in Nat /\ Cardinality({}) = 0
  BY <1>1, FS_CardinalityType, FS_EmptySet
<1>3. Imported(t) = {} /\ Rejected(t) = {}
  BY DEF Imported, Rejected
<1>4. OnePerOrder({})
  BY DEF OnePerOrder
<1> QED
  BY <1>2, <1>3, <1>4 DEF BooksAgree

\* The steps before the run is opened, and the one that opens it.
LEMMA OpeningStep ==
  ASSUME AllInv, OpenInv, NEW r \in Requests,
         GetStore(r) \/ FindByOperation(r) \/ CreateImportBatch(r), GoesOn(r)
  PROVE  OpenRun(r)'
<1>1. /\ txn \in [Requests -> Txn] /\ pc \in [Requests -> Labels] /\ now \in Nat
      /\ OpenRun(r)
  BY DEF AllInv, LocalInv, TypeOK, OpenInv
<1>2. CASE GetStore(r)
  <2>1. pc[r] = "opened" /\ pc'[r] = "lookup" /\ txn' = [txn EXCEPT ![r].store = stores[StoreOf(r)]]
    BY <1>1, <1>2 DEF GetStore, Reply, Goto, GoesOn
  <2>2. txn'[r].results = {} /\ txn'[r].errors = {}
    BY <1>1, <2>1 DEF Txn, OpenRun, AtHand
  <2> QED
    BY <2>1, <2>2 DEF OpenRun, AtHand, Writing, Closed
<1>3. CASE FindByOperation(r)
  <2>1. /\ pc[r] = "lookup" /\ pc'[r] = "create" /\ txn' = [txn EXCEPT ![r].stamp = now]
        /\ now' = now
    BY <1>1, <1>3 DEF FindByOperation, Reply, Goto, GoesOn
  <2>2. txn'[r].results = {} /\ txn'[r].errors = {} /\ txn'[r].stamp <= now'
    BY <1>1, <2>1 DEF Txn, OpenRun, AtHand
  <2> QED
    BY <2>1, <2>2 DEF OpenRun, AtHand, Writing, Closed
<1>4. CASE CreateImportBatch(r)
  <2>1. /\ pc[r] = "create" /\ pc'[r] = "groups" /\ UNCHANGED <<call, now>>
        /\ txn'[r].results = {} /\ txn'[r].errors = {} /\ txn'[r].rows = txn[r].rows
        /\ txn'[r].todo = FirstSeen(Lines(r))
        /\ txn'[r].batch.started_at = txn[r].stamp
    BY <1>1, <1>4 DEF CreateImportBatch, Goto, Txn, OpenRun, AtHand, tables
  <2>2. \A o \in OrderIds : txn'[r].rows[o] = None
    BY <2>1 DEF AllInv, RowsInv, RowsAreLocked, Writing
  <2>3. call[r] \in Call
    BY <2>1 DEF AllInv, LocalInv, Progress
  <2>4. IsFiniteSet(DOMAIN Lines(r)) /\ Lines(r)' = Lines(r)
    BY <2>1, <2>3, BodyShape DEF Call, Lines
  <2>5. BooksAgree(txn'[r], Lines(r)')
    BY <2>1, <2>4, BooksOpen
  <2>6. RowsAgree(txn'[r], Lines(r)', orders'[StoreOf(r)'], now')
    BY <2>1, <2>2 DEF RowsAgree
  <2>7. AtHand(r)'
    BY <1>1, <2>1 DEF OpenRun, AtHand, Writing
  <2> QED
    BY <2>1, <2>5, <2>6, <2>7 DEF OpenRun, Writing, Closed, StoreOf, Lines
<1> QED
  BY <1>2, <1>3, <1>4

\* The loop over the groups.
LEMMA GroupStep ==
  ASSUME AllInv, OpenInv, NEW r \in Requests,
         RejectGroup(r) \/ ResolveLine(r) \/ UpsertOrder(r), GoesOn(r)
  PROVE  OpenRun(r)'
<1>1. /\ txn \in [Requests -> Txn] /\ pc \in [Requests -> Labels] /\ now \in Nat
      /\ AtHand(r) /\ OpenRun(r) /\ LocalInv
  BY DEF AllInv, LocalInv, TypeOK, OpenInv, OpenRun
<1>2. /\ Writing(r) /\ pc[r] # "unsent" /\ pc[r] \in {"groups", "upsert"}
      /\ UNCHANGED <<now, call, orders>>
  BY DEF RejectGroup, ResolveLine, UpsertOrder, Writing, tables
<1>3. /\ BooksAgree(txn[r], Lines(r))
      /\ RowsAgree(txn[r], Lines(r), orders[StoreOf(r)], now)
      /\ txn[r].batch \in BatchRow /\ txn[r].batch.started_at <= now
      /\ txn[r].batch.started_at \in Nat
  BY <1>1, <1>2 DEF OpenRun, AtHand, Progress, LocalInv, BatchRow
<1>4. /\ IsFiniteSet(txn[r].results) /\ IsFiniteSet(txn[r].errors)
      /\ DOMAIN Lines(r) \subseteq Nat /\ IsFiniteSet(txn[r].todo)
      /\ StoreOf(r) \in Stores
  <2>1. call[r] \in Call /\ txn[r].todo \in SUBSET DOMAIN Lines(r)
    BY <1>1, <1>2 DEF LocalInv, Progress
  <2>2. IsFiniteSet(DOMAIN Lines(r)) /\ DOMAIN Lines(r) \subseteq Nat /\ StoreOf(r) \in Stores
    BY <2>1, BodyShape DEF Call, Lines, StoreOf
  <2> QED
    BY <1>1, <2>1, <2>2, FS_Subset DEF LocalInv, Progress
<1>5. Lines(r)' = Lines(r) /\ StoreOf(r)' = StoreOf(r)
  BY <1>2 DEF Lines, StoreOf
<1>6. ASSUME pc'[r] = "groups", txn'[r].batch = txn[r].batch,
             BooksAgree(txn'[r], Lines(r)),
             RowsAgree(txn'[r], Lines(r), orders[StoreOf(r)], now)
      PROVE  OpenRun(r)'
  <2>1. AtHand(r)'
    BY <1>2, <1>3, <1>6 DEF AtHand
  <2> QED
    BY <1>2, <1>5, <1>6, <2>1 DEF OpenRun, Closed
<1>7. CASE RejectGroup(r)
  <2>1. PICK i \in txn[r].todo : \E e \in Rejection :
           /\ e.order = Lines(r)[i].order
           /\ txn'[r].todo = txn[r].todo \ {i}
           /\ txn'[r].errors = txn[r].errors \cup {e}
           /\ txn'[r].results = txn[r].results /\ txn'[r].rows = txn[r].rows
           /\ txn'[r].batch = txn[r].batch
    BY <1>1, <1>7, RejectEffect
  <2>2. PICK e \in Rejection :
           /\ e.order = Lines(r)[i].order
           /\ txn'[r].todo = txn[r].todo \ {i}
           /\ txn'[r].errors = txn[r].errors \cup {e}
           /\ txn'[r].results = txn[r].results /\ txn'[r].rows = txn[r].rows
           /\ txn'[r].batch = txn[r].batch
    BY <2>1
  <2>3. BooksAgree(txn'[r], Lines(r))
    BY <1>3, <1>4, <2>2, BooksMoveOn
  <2>4. RowsAgree(txn'[r], Lines(r), orders[StoreOf(r)], now)
    BY <1>3, <2>2 DEF RowsAgree, Imported
  <2>5. pc'[r] = "groups"
    BY <1>7 DEF RejectGroup
  <2> QED
    BY <1>6, <2>2, <2>3, <2>4, <2>5
<1>8. CASE ResolveLine(r)
  <2>1. PICK i \in txn[r].todo :
          /\ IsNext(r, i) /\ Group(Lines(r), i) = {i}
          /\ Goto(r, "upsert") /\ txn' = [txn EXCEPT ![r].stamp = now]
    BY <1>1, <1>8 DEF ResolveLine, GoesOn, Reply, Goto
  <2>2. /\ pc'[r] = "upsert" /\ txn'[r].stamp = now /\ txn'[r].batch = txn[r].batch
        /\ txn'[r].todo = txn[r].todo /\ txn'[r].results = txn[r].results
        /\ txn'[r].errors = txn[r].errors /\ txn'[r].rows = txn[r].rows
    BY <1>1, <2>1 DEF Goto, Txn
  <2>3. BooksAgree(txn'[r], Lines(r))
    BY <1>3, <2>2 DEF BooksAgree, Imported, Rejected
  <2>4. RowsAgree(txn'[r], Lines(r), orders[StoreOf(r)], now)
    BY <1>3, <2>2 DEF RowsAgree, Imported
  <2>5. \A j \in txn'[r].todo : IsNext(r, j)' => Group(Lines(r), j) = {j}
    <3> SUFFICES ASSUME NEW j \in txn[r].todo, IsNext(r, j) PROVE Group(Lines(r), j) = {j}
      BY <2>2 DEF IsNext
    <3>1. i = j
      BY <1>1, <1>2, <2>1, NextIsOne
    <3> QED
      BY <2>1, <3>1
  <2>6. AtHand(r)'
    BY <1>1, <1>2, <1>3, <1>5, <2>2, <2>5 DEF AtHand
  <2> QED
    BY <1>2, <1>5, <2>2, <2>3, <2>4, <2>6 DEF OpenRun, Closed
<1>9. CASE UpsertOrder(r)
  <2>1. PICK i \in txn[r].todo : \E m \in Summary, row \in OrderRow :
           /\ IsNext(r, i)
           /\ Lines(r)[i].order \in OrderIds
           /\ m.order = Lines(r)[i].order
           /\ m.created <=> orders[StoreOf(r)][m.order] = None
           /\ row.id = m.id
           /\ row.sku = Lines(r)[i].sku /\ row.placed = Lines(r)[i].placed
           /\ row.last_imported_at = txn[r].stamp
           /\ txn'[r].todo = txn[r].todo \ {i}
           /\ txn'[r].results = txn[r].results \cup {m}
           /\ txn'[r].rows = [txn[r].rows EXCEPT ![m.order] = row]
           /\ txn'[r].errors = txn[r].errors
           /\ txn'[r].batch = txn[r].batch
    BY <1>1, <1>9, UpsertEffect
  <2>2. PICK m \in Summary, row \in OrderRow :
           /\ m.order = Lines(r)[i].order /\ m.order \in OrderIds
           /\ m.created <=> orders[StoreOf(r)][m.order] = None
           /\ row.id = m.id
           /\ row.sku = Lines(r)[i].sku /\ row.placed = Lines(r)[i].placed
           /\ row.last_imported_at = txn[r].stamp
           /\ txn'[r].todo = txn[r].todo \ {i}
           /\ txn'[r].results = txn[r].results \cup {m}
           /\ txn'[r].rows = [txn[r].rows EXCEPT ![m.order] = row]
           /\ txn'[r].errors = txn[r].errors
           /\ txn'[r].batch = txn[r].batch
    BY <2>1
  <2>3. BooksAgree(txn'[r], Lines(r))
    BY <1>3, <1>4, <2>2, BooksMoveOn
  <2>4. /\ DOMAIN txn[r].rows = OrderIds /\ row # None
        /\ txn'[r].rows[m.order] = row
        /\ \A o \in OrderIds : o # m.order => txn'[r].rows[o] = txn[r].rows[o]
    <3>1. DOMAIN txn[r].rows = OrderIds
      BY <1>1 DEF Txn
    <3>2. row # None
      BY NoneIsNoRow
    <3> QED
      BY <2>2, <3>1, <3>2
  <2>5. Group(Lines(r), i) = {i}
    BY <1>1, <1>9, <2>1 DEF AtHand, UpsertOrder
  <2>6. RowIsFrom(Lines(r), m.order, row)
    <3>1. i \in DOMAIN Lines(r)
      BY <1>1, <1>2, LineShape
    <3> QED
      BY <2>2, <2>5, <3>1 DEF RowIsFrom
  <2>7. txn[r].batch.started_at <= txn[r].stamp /\ txn[r].stamp <= now
    BY <1>1, <1>9 DEF AtHand, UpsertOrder
  <2>8. Imported(txn'[r]) = Imported(txn[r]) \cup {m.order}
    BY <2>2 DEF Imported
  <2>9. ASSUME NEW o \in OrderIds, txn'[r].rows[o] # None
        PROVE  /\ o \in Imported(txn'[r])
               /\ RowIsFrom(Lines(r), o, txn'[r].rows[o])
               /\ txn'[r].batch.started_at <= txn'[r].rows[o].last_imported_at
               /\ txn'[r].rows[o].last_imported_at <= now
    <3>1. CASE o = m.order
      BY <2>2, <2>4, <2>6, <2>7, <2>8, <3>1
    <3>2. CASE o # m.order
      <4>1. txn'[r].rows[o] = txn[r].rows[o] /\ txn[r].rows[o] # None
        BY <2>4, <2>9, <3>2
      <4> QED
        BY <1>3, <2>2, <2>8, <2>9, <4>1 DEF RowsAgree
    <3> QED
      BY <3>1, <3>2
  <2>10. ASSUME NEW n \in txn'[r].results
         PROVE  /\ txn'[r].rows[n.order] # None /\ txn'[r].rows[n.order].id = n.id
                /\ n.created <=> orders[StoreOf(r)][n.order] = None
    <3>1. CASE n = m
      BY <2>2, <2>4, <3>1
    <3>2. CASE n # m
      <4>1. n \in txn[r].results /\ n \in Summary
        BY <1>1, <2>2, <3>2 DEF Txn
      <4>2. n.order \in Imported(txn[r]) /\ m.order \notin Imported(txn[r]) /\ n.order \in OrderIds
        BY <1>3, <2>2, <4>1 DEF BooksAgree, Imported, Summary
      <4>3. txn'[r].rows[n.order] = txn[r].rows[n.order]
        BY <2>4, <4>2
      <4> QED
        BY <1>3, <4>1, <4>3 DEF RowsAgree
    <3> QED
      BY <3>1, <3>2
  <2>11. RowsAgree(txn'[r], Lines(r), orders[StoreOf(r)], now)
    BY <2>9, <2>10 DEF RowsAgree
  <2>12. pc'[r] = "groups"
    BY <1>1, <1>9 DEF UpsertOrder, Goto
  <2> QED
    BY <1>6, <2>2, <2>3, <2>11, <2>12
<1> QED
  BY <1>7, <1>8, <1>9

\* The run is closed, and its operation_id inserted.
LEMMA ClosingStep ==
  ASSUME AllInv, OpenInv, NEW r \in Requests,
         FinishImportBatch(r) \/ RecordOperation(r), GoesOn(r)
  PROVE  OpenRun(r)'
<1>1. /\ txn \in [Requests -> Txn] /\ pc \in [Requests -> Labels] /\ now \in Nat
      /\ AtHand(r) /\ OpenRun(r) /\ LocalInv
  BY DEF AllInv, LocalInv, TypeOK, OpenInv, OpenRun
<1>2. /\ Writing(r) /\ UNCHANGED <<now, call, orders>>
  BY DEF FinishImportBatch, RecordOperation, Writing, tables
<1>3. /\ BooksAgree(txn[r], Lines(r))
      /\ RowsAgree(txn[r], Lines(r), orders[StoreOf(r)], now)
      /\ txn[r].batch \in BatchRow /\ txn[r].batch.started_at <= now
      /\ IsFiniteSet(txn[r].results) /\ IsFiniteSet(txn[r].errors)
  BY <1>1, <1>2 DEF OpenRun, AtHand, Progress, LocalInv
<1>4. Lines(r)' = Lines(r) /\ StoreOf(r)' = StoreOf(r)
  BY <1>2 DEF Lines, StoreOf
<1>5. CASE FinishImportBatch(r)
  <2> DEFINE b == [txn[r].batch EXCEPT
                    !.status = RunOutcome(txn[r].results, txn[r].errors),
                    !.finished_at = now,
                    !.row_count = Cardinality(FirstSeen(Lines(r))),
                    !.success_count = Cardinality(txn[r].results),
                    !.error_count = Cardinality(txn[r].errors)]
  <2>1. txn' = [txn EXCEPT ![r].batch = b] /\ txn[r].todo = {} /\ pc'[r] = "record"
    BY <1>1, <1>5 DEF FinishImportBatch, Goto
  <2>2. /\ b.status = RunOutcome(txn[r].results, txn[r].errors)
        /\ b.finished_at = now /\ b.started_at = txn[r].batch.started_at
        /\ b.row_count = Cardinality(FirstSeen(Lines(r)))
        /\ b.success_count = Cardinality(txn[r].results)
        /\ b.error_count = Cardinality(txn[r].errors)
    BY <1>3 DEF BatchRow
  <2> HIDE DEF b
  <2>3. /\ txn'[r].batch = b /\ txn'[r].todo = {}
        /\ txn'[r].results = txn[r].results /\ txn'[r].errors = txn[r].errors
        /\ txn'[r].rows = txn[r].rows
    BY <1>1, <2>1 DEF Txn
  <2>4. b.row_count = b.success_count + b.error_count
    <3>1. Cardinality(txn[r].results) \in Nat /\ Cardinality(txn[r].errors) \in Nat
      BY <1>3, FS_CardinalityType
    <3>2. Cardinality(txn[r].todo) = 0
      BY <2>1, FS_EmptySet
    <3>3. Cardinality(txn[r].todo) + Cardinality(txn[r].results) + Cardinality(txn[r].errors)
            = Cardinality(FirstSeen(Lines(r)))
      BY <1>3 DEF BooksAgree
    <3> QED
      BY <2>2, <3>1, <3>2, <3>3
  <2>5. BooksClosed(txn'[r], now)
    BY <1>1, <1>3, <2>2, <2>3, <2>4 DEF BooksClosed
  <2>6. BooksAgree(txn'[r], Lines(r))
    BY <1>3, <2>1, <2>3 DEF BooksAgree, Imported, Rejected
  <2>7. RowsAgree(txn'[r], Lines(r), orders[StoreOf(r)], now)
    BY <1>3, <2>2, <2>3 DEF RowsAgree, Imported
  <2>8. AtHand(r)'
    BY <1>2, <1>3, <2>1, <2>2, <2>3 DEF AtHand
  <2>9. \A o \in OrderIds : txn'[r].rows[o] # None =>
          txn'[r].rows[o].last_imported_at <= txn'[r].batch.finished_at
    BY <1>3, <2>2, <2>3 DEF RowsAgree
  <2> QED
    BY <1>2, <1>4, <2>5, <2>6, <2>7, <2>8, <2>9 DEF OpenRun
<1>6. CASE RecordOperation(r)
  <2>1. pc[r] = "record" /\ pc'[r] = "commit" /\ txn' = txn
    BY <1>1, <1>6 DEF RecordOperation, Reply, Goto, GoesOn
  <2>2. Closed(r) /\ Closed(r)' /\ Writing(r)'
    BY <2>1 DEF Closed, Writing
  <2>3. AtHand(r)'
    BY <1>1, <1>2, <2>1, <2>2 DEF AtHand
  <2> QED
    BY <1>1, <1>2, <1>4, <2>1, <2>2, <2>3 DEF OpenRun
<1> QED
  BY <1>5, <1>6

\* A request that has left import_orders has no open run to account for.
LEMMA GoneIsClosed ==
  ASSUME NEW r \in Requests, pc'[r] \in {"replying", "answered", "lost"}
  PROVE  OpenRun(r)'
  BY DEF OpenRun, AtHand, Writing, Closed

\* Requests that do not commit.
LEMMA ServeOpen ==
  ASSUME AllInv, OpenInv, NEW r \in Requests, Serve(r), ~Commit(r)
  PROVE  OpenInv'
<1>1. OnlyMoves(r) /\ (Leaves(r) \/ GoesOn(r) \/ IsDelivered(r))
  BY Shapes DEF Serve, AllInv
<1>2. UNCHANGED now
  BY DEF Serve, GetStore, FindByOperation, CreateImportBatch, RejectGroup, ResolveLine,
         UpsertOrder, AbortDeadlock, FinishImportBatch, RecordOperation, Deliver
<1>3. /\ txn \in [Requests -> Txn] /\ pc \in [Requests -> Labels] /\ now \in Nat /\ LocalInv
  BY DEF AllInv, LocalInv, TypeOK
<1>4. ASSUME NEW q \in Requests \ {r} PROVE OpenRun(q)'
  <2>1. /\ pc'[q] = pc[q] /\ txn'[q] = txn[q] /\ call'[q] = call[q] /\ orders' = orders
        /\ OpenRun(q) /\ now <= now' /\ now' \in Nat
    BY <1>1, <1>2, <1>3 DEF OnlyMoves, OpenInv
  <2> QED
    BY <1>3, <2>1, OpenRunStays
<1>5. OpenRun(r)'
  <2>1. CASE Leaves(r) \/ IsDelivered(r)
    BY <2>1, GoneIsClosed DEF Leaves, IsDelivered
  <2>2. CASE GoesOn(r)
    <3>1. ~AbortDeadlock(r) /\ ~Deliver(r)
      BY <1>3, <2>2 DEF GoesOn, AbortDeadlock, Reply, Deliver, Goto
    <3> QED
      BY <2>2, <3>1, OpeningStep, GroupStep, ClosingStep DEF Serve
  <2> QED
    BY <1>1, <2>1, <2>2
<1> QED
  BY <1>4, <1>5 DEF OpenInv

\* A commit leaves the rows that other open imports hold alone.
LEMMA CommitOpen ==
  ASSUME AllInv, OpenInv, NEW r \in Requests, Commit(r)
  PROVE  OpenInv'
<1>1. /\ txn \in [Requests -> Txn] /\ pc \in [Requests -> Labels] /\ now \in Nat
      /\ orders \in [Stores -> [OrderIds -> OrderRow \cup {None}]] /\ LocalInv
  BY DEF AllInv, LocalInv, TypeOK
<1>2. /\ pc' = [pc EXCEPT ![r] = "replying"] /\ call' = call /\ now' = now
      /\ \A q \in Requests \ {r} : txn'[q] = txn[q]
      /\ StoreOf(r) \in Stores
      /\ orders' = [orders EXCEPT ![StoreOf(r)] =
           [o \in OrderIds |-> IF txn[r].rows[o] = None THEN @[o] ELSE txn[r].rows[o]]]
  BY CommitFacts DEF AllInv, Commit, Publish
<1>3. ASSUME NEW q \in Requests \ {r} PROVE OpenRun(q)'
  <2>1. /\ pc'[q] = pc[q] /\ txn'[q] = txn[q] /\ call'[q] = call[q]
        /\ OpenRun(q) /\ now <= now' /\ now' \in Nat
    BY <1>1, <1>2 DEF OpenInv
  <2>2. ASSUME NEW o \in OrderIds, txn[q].rows[o] # None
        PROVE  orders'[StoreOf(q)][o] = orders[StoreOf(q)][o]
    <3>1. Writing(q)
      BY <2>2 DEF AllInv, RowsInv, RowsAreLocked
    <3>2. call[q] \in Call
      BY <1>1, <3>1 DEF LocalInv, Progress, Writing
    <3>3. StoreOf(q) \in Stores
      BY <3>2, BodyShape DEF Call, StoreOf
    <3>4. StoreOf(q) = StoreOf(r) => txn[r].rows[o] = None
      BY <2>2, <3>3 DEF AllInv, RowsInv, RowsAreLocked, Holds
    <3> QED
      BY <1>1, <1>2, <3>3, <3>4
  <2> QED
    BY <1>1, <2>1, <2>2, OpenRunStays
<1>4. OpenRun(r)'
  <2>1. pc'[r] = "replying"
    BY <1>1, <1>2
  <2> QED
    BY <2>1, GoneIsClosed
<1> QED
  BY <1>3, <1>4 DEF OpenInv

\* Clients, whoever changes a store, and the clock.
LEMMA WorldOpen ==
  ASSUME AllInv, OpenInv,
         \/ \E r \in Requests :
              Cut(r) \/ \E k \in Keys, b \in Bodies, scope \in Scopes : Send(r, k, b, scope)
         \/ \E k \in Keys, s \in Stores, fields \in SUBSET {"timezone", "managed_from"},
               zone \in TimeZones, boundary \in Boundaries :
              UpdateStoreIdentity(k, s, fields, zone, boundary)
         \/ Tick
         \/ UNCHANGED vars
  PROVE  OpenInv'
<1>1. /\ txn \in [Requests -> Txn] /\ pc \in [Requests -> Labels] /\ now \in Nat
      /\ call \in [Requests -> Call \cup {None}] /\ LocalInv
      /\ \A q \in Requests : OpenRun(q)
  BY DEF AllInv, LocalInv, TypeOK, OpenInv
<1>2. ASSUME NEW q \in Requests, now' \in Nat, now <= now', orders' = orders,
             pc'[q] = pc[q], txn'[q] = txn[q], call'[q] = call[q]
      PROVE  OpenRun(q)'
  BY <1>1, <1>2, OpenRunStays
<1>3. ASSUME NEW r \in Requests, Cut(r) PROVE OpenInv'
  <2>1. /\ pc'[r] = "lost" /\ UNCHANGED <<now, orders, call>>
        /\ \A q \in Requests \ {r} : pc'[q] = pc[q] /\ txn'[q] = txn[q]
    BY <1>1, <1>3 DEF Cut, Goto, tables
  <2>2. OpenRun(r)'
    BY <2>1, GoneIsClosed
  <2>3. \A q \in Requests \ {r} : OpenRun(q)'
    BY <1>1, <1>2, <2>1
  <2> QED
    BY <2>2, <2>3 DEF OpenInv
<1>4. ASSUME NEW r \in Requests, NEW k \in Keys, NEW b \in Bodies, NEW scope \in Scopes,
             Send(r, k, b, scope)
      PROVE  OpenInv'
  <2>1. /\ pc[r] = "unsent" /\ pc'[r] = "opened" /\ UNCHANGED <<now, orders, txn>>
        /\ \A q \in Requests \ {r} : pc'[q] = pc[q] /\ call'[q] = call[q]
    BY <1>1, <1>4 DEF Send, Goto, tables
  <2>2. txn[r] = NoTxn
    BY <2>1 DEF AllInv, RowsInv, NothingBeforeSend
  <2>3. OpenRun(r)'
    BY <2>1, <2>2 DEF OpenRun, AtHand, Writing, Closed, NoTxn
  <2>4. \A q \in Requests \ {r} : OpenRun(q)'
    BY <1>1, <1>2, <2>1
  <2> QED
    BY <2>3, <2>4 DEF OpenInv
<1>5. ASSUME \/ \E k \in Keys, s \in Stores, fields \in SUBSET {"timezone", "managed_from"},
                  zone \in TimeZones, boundary \in Boundaries :
                 UpdateStoreIdentity(k, s, fields, zone, boundary)
             \/ Tick \/ UNCHANGED vars
      PROVE  OpenInv'
  <2>1. (now' = now \/ now' = now + 1) /\ UNCHANGED <<orders, pc, call, txn>>
    BY <1>5 DEF UpdateStoreIdentity, Tick, vars, tables
  <2>2. now' \in Nat /\ now <= now'
    BY <1>1, <2>1
  <2> QED
    BY <1>2, <2>1, <2>2 DEF OpenInv
<1> QED
  BY <1>3, <1>4, <1>5

LEMMA StepOpen == AllInv /\ OpenInv /\ [Next]_vars => OpenInv'
<1> SUFFICES ASSUME AllInv, OpenInv, [Next]_vars PROVE OpenInv'
  OBVIOUS
<1>1. ASSUME NEW r \in Requests, Serve(r) PROVE OpenInv'
  BY <1>1, ServeOpen, CommitOpen
<1>2. ~(\E r \in Requests : Serve(r)) => OpenInv'
  BY WorldOpen DEF Next
<1> QED
  BY <1>1, <1>2

--------------------------------------------------------------------------------
(* One import, one step *)

\* What becomes visible when r commits.
LEMMA CommitPublishes ==
  ASSUME AllInv, OpenInv, NEW r \in Requests, Commit(r)
  PROVE  /\ call[r].key \in Keys /\ StoreOf(r) \in Stores /\ ledger[call[r].key] = None
         /\ ledger' = [ledger EXCEPT ![call[r].key] = ledger'[call[r].key]]
         /\ ledger'[call[r].key] # None
         /\ ledger'[call[r].key].type = "orders_imported"
         /\ ledger'[call[r].key].store = StoreOf(r)
         /\ ledger'[call[r].key].after.batch = txn[r].batch.seq
         /\ ledger'[call[r].key].after.status = txn[r].batch.status
         /\ ledger'[call[r].key].after.orders = txn[r].results
         /\ ledger'[call[r].key].after.errors = txn[r].errors
         /\ batches' = batches \cup {txn[r].batch} /\ txn[r].batch \in BatchRow
         /\ \A b \in batches : b.seq # txn[r].batch.seq
         /\ importErrors' = importErrors \cup
              {[batch |-> txn[r].batch.seq, order |-> e.order, code |-> e.code] :
                 e \in txn[r].errors}
         /\ \A s \in Stores, o \in OrderIds :
              orders'[s][o] = IF s = StoreOf(r) /\ txn[r].rows[o] # None
                              THEN txn[r].rows[o] ELSE orders[s][o]
<1>1. /\ txn \in [Requests -> Txn] /\ ledger \in [Keys -> Event \cup {None}]
      /\ orders \in [Stores -> [OrderIds -> OrderRow \cup {None}]]
  BY DEF AllInv, LocalInv, TypeOK
<1> DEFINE event == [type |-> "orders_imported", store |-> StoreOf(r),
                     after |-> OutcomeOf(txn[r])]
<1>2. /\ call[r].key \in Keys /\ StoreOf(r) \in Stores /\ ledger[call[r].key] = None
      /\ ledger' = [ledger EXCEPT ![call[r].key] = event]
      /\ ledger'[call[r].key] \in Event
      /\ batches' = batches \cup {txn[r].batch} /\ txn[r].batch \in BatchRow
      /\ pc[r] = "commit"
  BY CommitFacts DEF AllInv
<1>3. /\ event.type = "orders_imported" /\ event.store = StoreOf(r)
      /\ event.after.batch = txn[r].batch.seq /\ event.after.status = txn[r].batch.status
      /\ event.after.orders = txn[r].results /\ event.after.errors = txn[r].errors
  BY DEF OutcomeOf
<1> HIDE DEF event
<1>4. ledger'[call[r].key] = event /\ ledger'[call[r].key] # None
  BY <1>1, <1>2, NoneIsNoRow
<1>5. \A b \in batches : b.seq # txn[r].batch.seq
  BY <1>2 DEF AllInv, LedgerInv, RunsAreFresh, Writing
<1>6. /\ importErrors' = importErrors \cup
            {[batch |-> txn[r].batch.seq, order |-> e.order, code |-> e.code] :
               e \in txn[r].errors}
      /\ orders' = [orders EXCEPT ![StoreOf(r)] =
           [o \in OrderIds |-> IF txn[r].rows[o] = None THEN @[o] ELSE txn[r].rows[o]]]
  BY DEF Commit, Publish
<1>7. \A s \in Stores, o \in OrderIds :
        orders'[s][o] = IF s = StoreOf(r) /\ txn[r].rows[o] # None
                        THEN txn[r].rows[o] ELSE orders[s][o]
  BY <1>1, <1>2, <1>6
<1> QED
  BY <1>2, <1>3, <1>4, <1>5, <1>6, <1>7

\* The books of a run about to be published: every order it imported has its
\* row, as created or as the row that was there, and nothing else has one.
LEMMA CommitBooks ==
  ASSUME AllInv, OpenInv, NEW r \in Requests, pc[r] = "commit"
  PROVE  /\ BooksAgree(txn[r], Lines(r)) /\ BooksClosed(txn[r], now)
         /\ RowsAgree(txn[r], Lines(r), orders[StoreOf(r)], now)
         /\ \A o \in OrderIds : txn[r].rows[o] # None =>
              txn[r].rows[o].last_imported_at <= txn[r].batch.finished_at
         /\ txn[r].results \subseteq Summary /\ txn[r].errors \subseteq Rejection
         /\ IsFiniteSet(txn[r].results) /\ IsFiniteSet(txn[r].errors)
<1>1. Writing(r) /\ Closed(r) /\ OpenRun(r) /\ txn[r] \in Txn
  BY DEF Writing, Closed, OpenInv, AllInv, LocalInv, TypeOK
<1>2. /\ txn[r].results \subseteq Summary /\ txn[r].errors \subseteq Rejection
      /\ IsFiniteSet(txn[r].results) /\ IsFiniteSet(txn[r].errors)
  BY <1>1 DEF Txn, AllInv, LocalInv, Progress
<1> QED
  BY <1>1, <1>2 DEF OpenRun

--------------------------------------------------------------------------------
(* The archive: what is committed stays in balance *)

ErrorsHaveRuns == \A f \in importErrors : \E b \in batches : b.seq = f.batch
RunsAreFinished == \A b \in batches : b.finished_at \in Nat /\ b.finished_at <= now
OrdersNamedOnce == \A k \in Keys : IsImport(k) => OnePerOrder(ledger[k].after.orders)
Archive == ErrorsHaveRuns /\ RunsAreFinished /\ OrdersNamedOnce /\ RunsBalance

\* What RunsBalance says of one run.
RunBalances(run, rows, runs) ==
  LET imported == {m.order : m \in run.orders}
      rejected == {e.order : e \in run.errors}
  IN  /\ imported \cap rejected = {}
      /\ (run.status = "failed") <=> (imported = {})
      /\ (run.status = "completed") <=> (rejected = {})
      /\ {<<e.order, e.code>> : e \in {f \in rows : f.batch = run.batch}}
           = {<<e.order, e.code>> : e \in run.errors}
      /\ \A b \in runs : b.seq = run.batch =>
           /\ b.started_at <= b.finished_at
           /\ b.row_count = b.success_count + b.error_count
           /\ b.success_count = Cardinality(imported)
           /\ b.error_count = Cardinality(rejected)

LEMMA InitArchive == Init => Archive
  BY DEF Init, Archive, ErrorsHaveRuns, RunsAreFinished, OrdersNamedOnce, RunsBalance, IsImport

\* The status of a closed run tells whether anything was imported or rejected:
\* a body has at least one line, so not both are empty.
LEMMA StatusTells ==
  ASSUME AllInv, OpenInv, NEW r \in Requests, pc[r] = "commit"
  PROVE  /\ (txn[r].batch.status = "failed") <=> (Imported(txn[r]) = {})
         /\ (txn[r].batch.status = "completed") <=> (Rejected(txn[r]) = {})
<1> DEFINE t == txn[r]
<1>1. BooksAgree(t, Lines(r)) /\ BooksClosed(t, now)
  BY CommitBooks
<1>2. /\ (Imported(t) = {}) <=> (t.results = {})
      /\ (Rejected(t) = {}) <=> (t.errors = {})
  BY DEF Imported, Rejected
<1>3. ~(t.results = {} /\ t.errors = {})
  <2>1. SUFFICES ASSUME t.results = {}, t.errors = {} PROVE FALSE
    OBVIOUS
  <2>2. call[r].body \in Bodies
    BY DEF AllInv, LocalInv, Progress, Call
  <2>3. /\ DOMAIN Lines(r) = 1 .. Len(Lines(r)) /\ Lines(r) \in Seq(Line) /\ Lines(r) # <<>>
        /\ IsFiniteSet(DOMAIN Lines(r)) /\ DOMAIN Lines(r) \subseteq Nat
    BY <2>2, BodyShape, BodiesAreValid DEF Lines
  <2>4. 1 \in DOMAIN Lines(r)
    BY <2>3
  <2>5. 1 \in FirstSeen(Lines(r))
    <3>1. \A j \in Group(Lines(r), 1) : j \in 1 .. Len(Lines(r))
      BY <2>3 DEF Group
    <3>2. \A j \in Group(Lines(r), 1) : 1 <= j
      BY <2>3, <3>1
    <3> QED
      BY <2>4, <3>2 DEF FirstSeen
  <2>6. FirstSeen(Lines(r)) \in SUBSET DOMAIN Lines(r)
    BY DEF FirstSeen
  <2>7. Cardinality(FirstSeen(Lines(r))) # 0
    BY <2>3, <2>5, <2>6, FS_Subset, FS_EmptySet
  <2>8. Cardinality(t.todo) = 0 /\ Cardinality(t.results) = 0 /\ Cardinality(t.errors) = 0
    BY <1>1, <2>1, FS_EmptySet DEF BooksClosed
  <2>9. Cardinality(FirstSeen(Lines(r))) = 0 + 0 + 0
    BY <1>1, <2>8 DEF BooksAgree
  <2> QED
    BY <2>7, <2>9
<1>4. t.batch.status = RunOutcome(t.results, t.errors)
  BY <1>1 DEF BooksClosed
<1> HIDE DEF t
<1>5. /\ (t.batch.status = "failed") <=> (t.results = {})
      /\ (t.batch.status = "completed") <=> (t.errors = {})
  BY <1>3, <1>4 DEF RunOutcome
<1> QED
  BY <1>2, <1>5 DEF t

\* Where no order is named twice there are as many entries as orders.
LEMMA OneEntryPerOrder ==
  ASSUME NEW S, IsFiniteSet(S), OnePerOrder(S)
  PROVE  Cardinality({m.order : m \in S}) = Cardinality(S)
<1> DEFINE T == {m.order : m \in S}
           f == [m \in S |-> m.order]
<1>1. f \in Bijection(S, T)
  BY DEF Bijection, Injection, Surjection, IsInjective, OnePerOrder
<1>2. ExistsBijection(S, T)
  BY <1>1 DEF ExistsBijection
<1> QED
  BY <1>2, FS_Bijection

\* A commit publishes a run in balance, and leaves the others so: their runs
\* have other numbers than the one published.
LEMMA CommitBalances ==
  ASSUME AllInv, OpenInv, Archive, NEW r \in Requests, Commit(r)
  PROVE  RunsBalance'
<1> DEFINE n == txn[r].batch.seq
           rows == {[batch |-> n, order |-> e.order, code |-> e.code] : e \in txn[r].errors}
           CodesOf(errors) == {<<e.order, e.code>> : e \in errors}
<1>1. /\ ledger \in [Keys -> Event \cup {None}] /\ pc[r] = "commit"
      /\ importErrors \subseteq ErrorRow
  BY DEF AllInv, LocalInv, TypeOK, Commit
<1>2. PICK k0 \in Keys :
        /\ k0 = call[r].key /\ ledger[k0] = None
        /\ \A k \in Keys \ {k0} : ledger'[k] = ledger[k]
        /\ ledger'[k0].after.batch = n /\ ledger'[k0].after.status = txn[r].batch.status
        /\ ledger'[k0].after.orders = txn[r].results
        /\ ledger'[k0].after.errors = txn[r].errors
        /\ batches' = batches \cup {txn[r].batch}
        /\ \A b \in batches : b.seq # n
        /\ importErrors' = importErrors \cup rows
  <2>1. /\ call[r].key \in Keys /\ ledger[call[r].key] = None
        /\ ledger' = [ledger EXCEPT ![call[r].key] = ledger'[call[r].key]]
        /\ ledger'[call[r].key].after.batch = txn[r].batch.seq
        /\ ledger'[call[r].key].after.status = txn[r].batch.status
        /\ ledger'[call[r].key].after.orders = txn[r].results
        /\ ledger'[call[r].key].after.errors = txn[r].errors
        /\ batches' = batches \cup {txn[r].batch}
        /\ \A b \in batches : b.seq # txn[r].batch.seq
        /\ importErrors' = importErrors \cup rows
    BY CommitPublishes
  <2>2. \A k \in Keys \ {call[r].key} : ledger'[k] = ledger[k]
    BY <1>1, <2>1
  <2> HIDE DEF n, rows
  <2> QED
    BY <2>1, <2>2 DEF n
<1>3. /\ BooksAgree(txn[r], Lines(r)) /\ BooksClosed(txn[r], now)
      /\ IsFiniteSet(txn[r].results) /\ IsFiniteSet(txn[r].errors)
  BY <1>1, CommitBooks
<1> SUFFICES ASSUME NEW k \in Keys, IsImport(k)'
             PROVE  RunBalances(ledger'[k].after, importErrors', batches')
  BY DEF RunsBalance, RunBalances, IsImport
<1>4. CASE k = k0
  <2>1. /\ Imported(txn[r]) \cap Rejected(txn[r]) = {}
        /\ (txn[r].batch.status = "failed") <=> (Imported(txn[r]) = {})
        /\ (txn[r].batch.status = "completed") <=> (Rejected(txn[r]) = {})
    BY <1>1, <1>3, StatusTells DEF BooksAgree
  <2>2. /\ Cardinality(Imported(txn[r])) = Cardinality(txn[r].results)
        /\ Cardinality(Rejected(txn[r])) = Cardinality(txn[r].errors)
    BY <1>3, OneEntryPerOrder DEF BooksAgree, Imported, Rejected
  <2>3. {f \in importErrors' : f.batch = n} = rows
    <3>1. \A f \in importErrors : f.batch # n
      BY <1>2 DEF Archive, ErrorsHaveRuns
    <3>2. \A f \in rows : f.batch = n
      OBVIOUS
    <3> HIDE DEF rows, n
    <3> QED
      BY <1>2, <3>1, <3>2
  <2>4. CodesOf(rows) = CodesOf(txn[r].errors)
    <3>1. ASSUME NEW c \in CodesOf(txn[r].errors) PROVE c \in CodesOf(rows)
      <4>1. PICK e \in txn[r].errors : c = <<e.order, e.code>>
        OBVIOUS
      <4> DEFINE f == [batch |-> n, order |-> e.order, code |-> e.code]
      <4>2. f \in rows /\ c = <<f.order, f.code>>
        BY <4>1
      <4> QED
        BY <4>2
    <3>2. ASSUME NEW c \in CodesOf(rows) PROVE c \in CodesOf(txn[r].errors)
      <4>1. PICK f \in rows : c = <<f.order, f.code>>
        OBVIOUS
      <4>2. PICK e \in txn[r].errors : f = [batch |-> n, order |-> e.order, code |-> e.code]
        OBVIOUS
      <4> QED
        BY <4>1, <4>2
    <3> QED
      BY <3>1, <3>2, Zenon
  <2>5. \A b \in batches' : b.seq = n => b = txn[r].batch
    BY <1>2
  <2> HIDE DEF n, rows
  <2>6. {<<e.order, e.code>> : e \in {f \in importErrors' : f.batch = ledger'[k].after.batch}}
          = {<<e.order, e.code>> : e \in ledger'[k].after.errors}
    BY <1>2, <1>4, <2>3, <2>4
  <2>7. \A b \in batches' : b.seq = n =>
          /\ b.started_at <= b.finished_at
          /\ b.row_count = b.success_count + b.error_count
          /\ b.success_count = Cardinality(Imported(txn[r]))
          /\ b.error_count = Cardinality(Rejected(txn[r]))
    BY <1>3, <2>2, <2>5 DEF BooksClosed
  <2> QED
    BY <1>2, <1>4, <2>1, <2>6, <2>7 DEF Imported, Rejected, RunBalances
<1>5. CASE k # k0
  <2>1. ledger'[k] = ledger[k] /\ IsImport(k)
    BY <1>2, <1>5 DEF IsImport
  <2>2. PICK a \in batches : a.seq = ledger[k].after.batch
    BY <2>1 DEF AllInv, LedgerInv, RunsMatchLedger
  <2>3. ledger[k].after.batch # n
    BY <1>2, <2>2
  <2>4. {f \in importErrors' : f.batch = ledger[k].after.batch}
          = {f \in importErrors : f.batch = ledger[k].after.batch}
    <3>1. \A f \in rows : f.batch = n
      OBVIOUS
    <3> HIDE DEF rows, n
    <3> QED
      BY <1>2, <2>3, <3>1
  <2>5. \A b \in batches' : b.seq = ledger[k].after.batch => b \in batches
    BY <1>2, <2>3
  <2> HIDE DEF n, rows
  <2>6. RunBalances(ledger[k].after, importErrors, batches)
    BY <2>1 DEF Archive, RunsBalance, RunBalances
  <2> QED
    BY <2>1, <2>4, <2>5, <2>6 DEF RunBalances
<1> QED
  BY <1>4, <1>5

LEMMA CommitArchive ==
  ASSUME AllInv, OpenInv, Archive, NEW r \in Requests, Commit(r)
  PROVE  Archive'
<1>1. /\ ledger \in [Keys -> Event \cup {None}] /\ pc[r] = "commit" /\ now' = now
  BY DEF AllInv, LocalInv, TypeOK, Commit
<1>2. BooksAgree(txn[r], Lines(r)) /\ BooksClosed(txn[r], now)
  BY <1>1, CommitBooks
<1>3. ErrorsHaveRuns'
  <2>1. /\ batches' = batches \cup {txn[r].batch}
        /\ importErrors' = importErrors \cup
              {[batch |-> txn[r].batch.seq, order |-> e.order, code |-> e.code] :
                 e \in txn[r].errors}
    BY CommitPublishes
  <2> QED
    BY <2>1 DEF Archive, ErrorsHaveRuns
<1>4. RunsAreFinished'
  <2>1. batches' = batches \cup {txn[r].batch}
    BY CommitPublishes
  <2> QED
    BY <1>1, <1>2, <2>1 DEF Archive, RunsAreFinished, BooksClosed
<1>5. OrdersNamedOnce'
  <2> SUFFICES ASSUME NEW k \in Keys, IsImport(k)' PROVE OnePerOrder(ledger'[k].after.orders)
    BY DEF OrdersNamedOnce, IsImport
  <2>1. CASE k = call[r].key
    BY <1>2, <2>1, CommitPublishes DEF BooksAgree
  <2>2. CASE k # call[r].key
    <3>1. ledger' = [ledger EXCEPT ![call[r].key] = ledger'[call[r].key]]
      BY CommitPublishes
    <3>2. ledger'[k] = ledger[k] /\ IsImport(k)
      BY <1>1, <2>2, <3>1 DEF IsImport
    <3> QED
      BY <3>2 DEF Archive, OrdersNamedOnce
  <2> QED
    BY <2>1, <2>2
<1>6. RunsBalance'
  BY CommitBalances
<1> QED
  BY <1>3, <1>4, <1>5, <1>6 DEF Archive

\* Every other step leaves the archive alone; a settings change adds an entry
\* to the ledger that is no import.
LEMMA OtherSteps ==
  ASSUME AllInv, [Next]_vars, \A r \in Requests : ~Commit(r)
  PROVE  /\ UNCHANGED <<orders, batches, importErrors>>
         /\ now' \in Nat /\ now <= now'
         /\ \A k \in Keys : IsImport(k)' <=> IsImport(k)
         /\ \A k \in Keys : IsImport(k) => ledger'[k] = ledger[k]
         /\ \A r \in Requests : pc[r] # "unsent" => call'[r] = call[r]
<1>1. /\ ledger \in [Keys -> Event \cup {None}] /\ now \in Nat
      /\ call \in [Requests -> Call \cup {None}]
  BY DEF AllInv, LocalInv, TypeOK
<1>2. ASSUME UNCHANGED <<orders, batches, importErrors, ledger, now, call>>
      PROVE  /\ UNCHANGED <<orders, batches, importErrors>>
             /\ now' \in Nat /\ now <= now'
             /\ \A k \in Keys : IsImport(k)' <=> IsImport(k)
             /\ \A k \in Keys : IsImport(k) => ledger'[k] = ledger[k]
             /\ \A r \in Requests : pc[r] # "unsent" => call'[r] = call[r]
  BY <1>1, <1>2 DEF IsImport
<1>3. ASSUME NEW r \in Requests, Serve(r)
      PROVE  UNCHANGED <<orders, batches, importErrors, ledger, now, call>>
  <2>1. UNCHANGED <<orders, batches, importErrors, ledger, call>>
    BY <1>3, Shapes DEF Serve, AllInv, OnlyMoves
  <2>2. UNCHANGED now
    BY <1>3 DEF Serve, GetStore, FindByOperation, CreateImportBatch, RejectGroup, ResolveLine,
         UpsertOrder, AbortDeadlock, FinishImportBatch, RecordOperation, Deliver
  <2> QED
    BY <2>1, <2>2
<1>4. CASE \E r \in Requests : Serve(r)
  BY <1>2, <1>3, <1>4
<1>5. CASE (\E r \in Requests : Cut(r)) \/ UNCHANGED vars
  BY <1>2, <1>5 DEF Cut, vars, tables
<1>6. CASE \E r \in Requests, k \in Keys, b \in Bodies, scope \in Scopes : Send(r, k, b, scope)
  <2>1. PICK r \in Requests : \E k \in Keys, b \in Bodies, scope \in Scopes : Send(r, k, b, scope)
    BY <1>6
  <2>2. /\ UNCHANGED <<orders, batches, importErrors, ledger, now>> /\ pc[r] = "unsent"
        /\ \A q \in Requests \ {r} : call'[q] = call[q]
    BY <1>1, <2>1 DEF Send, tables
  <2> QED
    BY <1>1, <2>2 DEF IsImport
<1>7. CASE Tick
  BY <1>1, <1>7 DEF Tick, tables, IsImport
<1>8. CASE \E k \in Keys, s \in Stores, fields \in SUBSET {"timezone", "managed_from"},
             zone \in TimeZones, boundary \in Boundaries :
            UpdateStoreIdentity(k, s, fields, zone, boundary)
  <2>1. PICK k \in Keys :
          /\ ledger[k] = None
          /\ \E event : /\ ledger' = [ledger EXCEPT ![k] = event]
                        /\ event.type \in {"store_timezone_changed", "store_settings_updated"}
          /\ UNCHANGED <<orders, batches, importErrors, now, call>>
    <3>1. PICK k \in Keys, s \in Stores, fields \in SUBSET {"timezone", "managed_from"},
               zone \in TimeZones, boundary \in Boundaries :
            UpdateStoreIdentity(k, s, fields, zone, boundary)
      BY <1>8
    <3> DEFINE event == [type |-> IF "timezone" \in fields THEN "store_timezone_changed"
                                  ELSE "store_settings_updated",
                         store |-> s, after |-> None]
    <3>2. event.type \in {"store_timezone_changed", "store_settings_updated"}
      OBVIOUS
    <3>3. /\ ledger[k] = None /\ ledger' = [ledger EXCEPT ![k] = event]
          /\ UNCHANGED <<orders, batches, importErrors, now, call>>
      BY <3>1 DEF UpdateStoreIdentity
    <3> HIDE DEF event
    <3> QED
      BY <3>2, <3>3
  <2>2. /\ ~IsImport(k) /\ ~IsImport(k)'
        /\ \A j \in Keys \ {k} : ledger'[j] = ledger[j]
    <3>1. PICK event : /\ ledger' = [ledger EXCEPT ![k] = event]
                       /\ event.type \in {"store_timezone_changed", "store_settings_updated"}
      BY <2>1
    <3> QED
      BY <1>1, <2>1, <3>1 DEF IsImport
  <2> QED
    BY <1>1, <2>1, <2>2 DEF IsImport
<1> QED
  BY <1>4, <1>5, <1>6, <1>7, <1>8 DEF Next

LEMMA StepArchive == AllInv /\ OpenInv /\ Archive /\ [Next]_vars => Archive'
<1> SUFFICES ASSUME AllInv, OpenInv, Archive, [Next]_vars, \A r \in Requests : ~Commit(r)
             PROVE  Archive'
  BY CommitArchive
<1>1. /\ UNCHANGED <<batches, importErrors>> /\ now' \in Nat /\ now <= now' /\ now \in Nat
      /\ \A k \in Keys : IsImport(k)' <=> IsImport(k)
      /\ \A k \in Keys : IsImport(k) => ledger'[k] = ledger[k]
  BY OtherSteps DEF AllInv, LocalInv, TypeOK
<1>2. ErrorsHaveRuns' /\ OrdersNamedOnce'
  BY <1>1 DEF Archive, ErrorsHaveRuns, OrdersNamedOnce
<1>3. RunsAreFinished'
  BY <1>1 DEF Archive, RunsAreFinished
<1>4. RunsBalance'
  <2>1. \A k \in Keys : IsImport(k) => RunBalances(ledger[k].after, importErrors, batches)
    BY DEF Archive, RunsBalance, RunBalances
  <2>2. \A k \in Keys : IsImport(k)' => RunBalances(ledger'[k].after, importErrors', batches')
    BY <1>1, <2>1
  <2> QED
    BY <2>2 DEF RunsBalance, RunBalances, IsImport
<1> QED
  BY <1>2, <1>3, <1>4 DEF Archive

--------------------------------------------------------------------------------
(* The chronicle: who wrote a row, and when *)

\* The ledger L tells that the import under k left order m in store s.
Lists(L, k, s, m) ==
  /\ L[k] # None /\ L[k].type = "orders_imported"
  /\ L[k].store = s /\ m \in L[k].after.orders

\* The row of (s, o) was created by one run, is known to all that name it by
\* the id it has, and was last written by one that was open at its stamp.
RowHistory(row, L, s, o, runs, calls) ==
  /\ row = None => \A k \in Keys, m \in Summary : Lists(L, k, s, m) => m.order # o
  /\ row # None =>
       /\ \A k \in Keys, m \in Summary : Lists(L, k, s, m) /\ m.order = o => m.id = row.id
       /\ \E k \in Keys, m \in Summary :
            /\ Lists(L, k, s, m) /\ m.order = o /\ m.created
            /\ \A j \in Keys, n \in Summary :
                 Lists(L, j, s, n) /\ n.order = o /\ n.created => j = k
       /\ \E k \in Keys, m \in Summary, b \in runs, r \in Requests :
            /\ Lists(L, k, s, m) /\ m.order = o /\ b.seq = L[k].after.batch
            /\ b.started_at <= row.last_imported_at /\ row.last_imported_at <= b.finished_at
            /\ calls[r] # None /\ calls[r].key = k
            /\ RowIsFrom(calls[r].body.lines, o, row)

RowsHaveHistory ==
  \A s \in Stores, o \in OrderIds :
    RowHistory(orders[s][o], ledger, s, o, batches, call)

\* r has closed its run: whatever else named an order whose row it holds had
\* finished by then, for r waited for the row.
FinishedBefore ==
  \A r \in Requests, k \in Keys, m \in Summary, b \in batches :
    /\ Closed(r) /\ Lists(ledger, k, StoreOf(r), m) /\ txn[r].rows[m.order] # None
    /\ b.seq = ledger[k].after.batch
    => b.finished_at <= txn[r].batch.finished_at

\* The stamp of a row is not older than the start of a run that names it,
\* unless that run had company.
StampCovers(row, b, s, runs) ==
  \/ row # None /\ b.started_at <= row.last_imported_at
  \/ \E a \in runs \ {b} : a.store = s /\ Overlap(a, b)

StampsCover ==
  \A s \in Stores, k \in Keys, m \in Summary, b \in batches :
    Lists(ledger, k, s, m) /\ b.seq = ledger[k].after.batch =>
      StampCovers(orders[s][m.order], b, s, batches)

Chronicle == RowsHaveHistory /\ FinishedBefore /\ StampsCover
RunsInv == AllInv /\ OpenInv /\ Archive /\ Chronicle

LEMMA InitChronicle == Init => Chronicle
<1> SUFFICES ASSUME Init PROVE Chronicle
  OBVIOUS
<1>1. \A k \in Keys, s \in Stores, m \in Summary : ~Lists(ledger, k, s, m)
  BY DEF Init, Lists
<1>2. \A s \in Stores, o \in OrderIds : orders[s][o] = None
  BY DEF Init, NoRows
<1>3. RowsHaveHistory
  BY <1>1, <1>2 DEF RowsHaveHistory, RowHistory
<1>4. FinishedBefore /\ StampsCover
  BY DEF Init, FinishedBefore, StampsCover
<1> QED
  BY <1>3, <1>4 DEF Chronicle

\* What the ledger lists after r has committed.
LEMMA CommitLists ==
  ASSUME AllInv, OpenInv, NEW r \in Requests, Commit(r), NEW k \in Keys, NEW s, NEW m
  PROVE  /\ Lists(ledger', k, s, m) <=>
              \/ Lists(ledger, k, s, m)
              \/ k = call[r].key /\ s = StoreOf(r) /\ m \in txn[r].results
         /\ k = call[r].key => ~Lists(ledger, k, s, m)
         /\ k # call[r].key => ledger'[k] = ledger[k]
         /\ k = call[r].key => ledger'[k].after.batch = txn[r].batch.seq
<1>1. /\ ledger \in [Keys -> Event \cup {None}]
  BY DEF AllInv, LocalInv, TypeOK
<1>2. /\ call[r].key \in Keys /\ ledger[call[r].key] = None
      /\ ledger' = [ledger EXCEPT ![call[r].key] = ledger'[call[r].key]]
      /\ ledger'[call[r].key] # None
      /\ ledger'[call[r].key].type = "orders_imported"
      /\ ledger'[call[r].key].store = StoreOf(r)
      /\ ledger'[call[r].key].after.orders = txn[r].results
      /\ ledger'[call[r].key].after.batch = txn[r].batch.seq
  BY CommitPublishes
<1>3. CASE k = call[r].key
  <2>1. ~Lists(ledger, k, s, m)
    BY <1>2, <1>3 DEF Lists
  <2>2. Lists(ledger', k, s, m) <=> s = StoreOf(r) /\ m \in txn[r].results
    BY <1>2, <1>3 DEF Lists
  <2> QED
    BY <1>2, <1>3, <2>1, <2>2
<1>4. CASE k # call[r].key
  <2>1. ledger'[k] = ledger[k]
    BY <1>1, <1>2, <1>4
  <2> QED
    BY <1>4, <2>1 DEF Lists
<1> QED
  BY <1>3, <1>4

\* A run is not visible before it is finished, and a committed row that is
\* overwritten keeps its id.
LEMMA CommitHistory ==
  ASSUME AllInv, OpenInv, RowsHaveHistory, NEW r \in Requests, Commit(r)
  PROVE  RowsHaveHistory'
<1>1. /\ txn \in [Requests -> Txn] /\ pc[r] = "commit" /\ call' = call
      /\ orders \in [Stores -> [OrderIds -> OrderRow \cup {None}]]
      /\ call[r] \in Call
  BY CommitFacts DEF AllInv, LocalInv, TypeOK, Progress
<1>2. /\ call[r].key \in Keys /\ StoreOf(r) \in Stores
      /\ batches' = batches \cup {txn[r].batch}
      /\ \A s \in Stores, o \in OrderIds :
           orders'[s][o] = IF s = StoreOf(r) /\ txn[r].rows[o] # None
                           THEN txn[r].rows[o] ELSE orders[s][o]
  BY CommitPublishes
<1>3. /\ RowsAgree(txn[r], Lines(r), orders[StoreOf(r)], now)
      /\ \A o \in OrderIds : txn[r].rows[o] # None =>
           txn[r].rows[o].last_imported_at <= txn[r].batch.finished_at
      /\ txn[r].results \subseteq Summary
  BY <1>1, CommitBooks
<1> SUFFICES ASSUME NEW s \in Stores, NEW o \in OrderIds
             PROVE  RowHistory(orders'[s][o], ledger', s, o, batches', call)
  BY <1>1 DEF RowsHaveHistory
<1>4. RowHistory(orders[s][o], ledger, s, o, batches, call)
  BY DEF RowsHaveHistory
<1> PICK k0 \in Keys : k0 = call[r].key
  BY <1>2
<1>5. \A k \in Keys, m \in Summary :
        /\ Lists(ledger', k, s, m) <=>
              \/ Lists(ledger, k, s, m)
              \/ k = k0 /\ s = StoreOf(r) /\ m \in txn[r].results
        /\ ~Lists(ledger, k0, s, m)
        /\ k # k0 => ledger'[k] = ledger[k]
        /\ k = k0 => ledger'[k].after.batch = txn[r].batch.seq
  BY CommitLists
<1>6. CASE s = StoreOf(r) /\ txn[r].rows[o] # None
  <2> DEFINE row == txn[r].rows[o]
             old == orders[s][o]
  <2>1. orders'[s][o] = row /\ row # None
    BY <1>2, <1>6
  <2>2. PICK m0 \in Summary : m0 \in txn[r].results /\ m0.order = o
    BY <1>3, <1>6 DEF RowsAgree, Imported
  <2>3. /\ row.id = m0.id /\ m0.created <=> old = None
        /\ \A m \in txn[r].results : m.order = o => m.id = row.id /\ (m.created <=> old = None)
    BY <1>3, <1>6, <2>2 DEF RowsAgree
  <2>4. old # None => row.id = old.id
    BY <1>6 DEF AllInv, RowsInv, RowsAreLocked
  <2> HIDE DEF row, old
  <2>5. ASSUME NEW k \in Keys, NEW m \in Summary, Lists(ledger', k, s, m), m.order = o
        PROVE  m.id = row.id
    <3>1. CASE Lists(ledger, k, s, m)
      <4>1. old # None /\ m.id = old.id
        BY <1>4, <2>5, <3>1 DEF RowHistory, old
      <4> QED
        BY <2>4, <4>1
    <3>2. CASE m \in txn[r].results
      BY <2>3, <2>5, <3>2
    <3> QED
      BY <1>5, <2>5, <3>1, <3>2
  <2>6. \E k \in Keys : \E m \in Summary :
            /\ Lists(ledger', k, s, m) /\ m.order = o /\ m.created
            /\ \A j \in Keys, n \in Summary :
                 Lists(ledger', j, s, n) /\ n.order = o /\ n.created => j = k
    <3>1. CASE old = None
      <4>1. Lists(ledger', k0, s, m0) /\ m0.created
        BY <1>5, <1>6, <2>2, <2>3, <3>1
      <4>2. \A j \in Keys, n \in Summary : Lists(ledger', j, s, n) /\ n.order = o => j = k0
        BY <1>4, <1>5, <3>1 DEF RowHistory, old
      <4> QED
        BY <2>2, <4>1, <4>2
    <3>2. CASE old # None
      <4>1. PICK k \in Keys, m \in Summary :
              /\ Lists(ledger, k, s, m) /\ m.order = o /\ m.created
              /\ \A j \in Keys, n \in Summary :
                   Lists(ledger, j, s, n) /\ n.order = o /\ n.created => j = k
        BY <1>4, <3>2 DEF RowHistory, old
      <4>2. \A j \in Keys, n \in Summary :
              Lists(ledger', j, s, n) /\ n.order = o /\ n.created => j = k
        <5> SUFFICES ASSUME NEW j \in Keys, NEW n \in Summary, Lists(ledger', j, s, n),
                            n.order = o, n.created
                     PROVE  j = k
          OBVIOUS
        <5>1. n \notin txn[r].results
          BY <2>3, <3>2
        <5>2. Lists(ledger, j, s, n)
          BY <1>5, <5>1
        <5> QED
          BY <4>1, <5>2
      <4>3. Lists(ledger', k, s, m)
        BY <1>5, <4>1
      <4> QED
        BY <4>1, <4>2, <4>3
    <3> QED
      BY <3>1, <3>2
  <2>7. \E k \in Keys : \E m \in Summary : \E b \in batches' : \E q \in Requests :
            /\ Lists(ledger', k, s, m) /\ m.order = o /\ b.seq = ledger'[k].after.batch
            /\ b.started_at <= row.last_imported_at /\ row.last_imported_at <= b.finished_at
            /\ call[q] # None /\ call[q].key = k
            /\ RowIsFrom(call[q].body.lines, o, row)
    <3>1. Lists(ledger', k0, s, m0) /\ txn[r].batch.seq = ledger'[k0].after.batch
      BY <1>5, <1>6, <2>2
    <3>2. call[r] # None /\ call[r].key = k0 /\ RowIsFrom(call[r].body.lines, o, row)
      BY <1>1, <1>3, <1>6, NoneIsNoRow DEF RowsAgree, Lines, row, Call
    <3>3. /\ txn[r].batch.started_at <= row.last_imported_at
          /\ row.last_imported_at <= txn[r].batch.finished_at
      BY <1>3, <1>6 DEF RowsAgree, row
    <3>4. txn[r].batch \in batches'
      BY <1>2
    <3> QED
      BY <2>2, <3>1, <3>2, <3>3, <3>4, Zenon
  <2> QED
    BY <2>1, <2>5, <2>6, <2>7, Zenon DEF RowHistory
<1>7. CASE ~(s = StoreOf(r) /\ txn[r].rows[o] # None)
  <2>1. orders'[s][o] = orders[s][o]
    BY <1>2, <1>7
  <2>2. \A k \in Keys, m \in Summary : m.order = o =>
          (Lists(ledger', k, s, m) <=> Lists(ledger, k, s, m))
    <3>1. s = StoreOf(r) => \A m \in txn[r].results : m.order # o
      BY <1>3, <1>7 DEF RowsAgree
    <3> QED
      BY <1>5, <3>1
  <2>3. \A k \in Keys, m \in Summary : Lists(ledger, k, s, m) => ledger'[k] = ledger[k]
    BY <1>5
  <2>4. batches \subseteq batches'
    BY <1>2
  <2> DEFINE row == orders[s][o]
  <2> HIDE DEF row
  <2>5. row = None => \A k \in Keys, m \in Summary : Lists(ledger', k, s, m) => m.order # o
    BY <1>4, <2>2 DEF RowHistory, row
  <2>6. ASSUME row # None
        PROVE  \A k \in Keys, m \in Summary : Lists(ledger', k, s, m) /\ m.order = o => m.id = row.id
    BY <1>4, <2>2, <2>6 DEF RowHistory, row
  <2>7. ASSUME row # None
        PROVE  \E k \in Keys, m \in Summary :
                 /\ Lists(ledger', k, s, m) /\ m.order = o /\ m.created
                 /\ \A j \in Keys, n \in Summary :
                      Lists(ledger', j, s, n) /\ n.order = o /\ n.created => j = k
    BY <1>4, <2>2, <2>7 DEF RowHistory, row
  <2>8. ASSUME row # None
        PROVE  \E k \in Keys, m \in Summary, b \in batches', q \in Requests :
            /\ Lists(ledger', k, s, m) /\ m.order = o /\ b.seq = ledger'[k].after.batch
            /\ b.started_at <= row.last_imported_at /\ row.last_imported_at <= b.finished_at
            /\ call[q] # None /\ call[q].key = k
            /\ RowIsFrom(call[q].body.lines, o, row)
    BY <1>4, <2>2, <2>3, <2>4, <2>8 DEF RowHistory, row
  <2> QED
    BY <2>1, <2>5, <2>6, <2>7, <2>8, Zenon DEF RowHistory, row
<1> QED
  BY <1>6, <1>7

\* Every visible run has begun before it finished, at instants that have passed,
\* and the ledger names it.
LEMMA RunFacts ==
  ASSUME AllInv, Archive, NEW b \in batches
  PROVE  /\ b.started_at \in Nat /\ b.finished_at \in Nat /\ b.seq \in Nat
         /\ b.started_at <= b.finished_at /\ b.finished_at <= now /\ now \in Nat
         /\ b.store \in Stores /\ b.seq < nextSeq /\ nextSeq \in Nat
         /\ \E k \in Keys :
              /\ IsImport(k) /\ ledger[k].store = b.store
              /\ ledger[k].after.batch = b.seq /\ ledger[k].after.status = b.status
              /\ RunBalances(ledger[k].after, importErrors, batches)
<1>1. /\ b \in BatchRow /\ now \in Nat /\ nextSeq \in Nat
  BY DEF AllInv, LocalInv, TypeOK
<1>2. b.finished_at \in Nat /\ b.finished_at <= now
  BY DEF Archive, RunsAreFinished
<1>3. PICK k \in Keys : /\ IsImport(k) /\ ledger[k].store = b.store
                        /\ ledger[k].after.batch = b.seq /\ ledger[k].after.status = b.status
  BY DEF AllInv, LedgerInv, RunsMatchLedger
<1>4. RunBalances(ledger[k].after, importErrors, batches)
  BY <1>3 DEF Archive, RunsBalance, RunBalances
<1>5. b.started_at <= b.finished_at
  BY <1>3, <1>4 DEF RunBalances
<1>6. b.seq < nextSeq
  BY DEF AllInv, LedgerInv, RunsAreFresh
<1> QED
  BY <1>1, <1>2, <1>3, <1>4, <1>5, <1>6 DEF BatchRow

LEMMA CommitFinished ==
  ASSUME AllInv, OpenInv, FinishedBefore, NEW r \in Requests, Commit(r)
  PROVE  FinishedBefore'
<1>1. /\ pc[r] = "commit" /\ pc' = [pc EXCEPT ![r] = "replying"] /\ call' = call
      /\ \A q \in Requests \ {r} : txn'[q] = txn[q]
      /\ pc \in [Requests -> Labels]
  BY CommitFacts DEF AllInv, LocalInv, TypeOK
<1>2. /\ call[r].key \in Keys /\ StoreOf(r) \in Stores
      /\ batches' = batches \cup {txn[r].batch}
      /\ \A b \in batches : b.seq # txn[r].batch.seq
  BY CommitPublishes
<1>3. RowsAgree(txn[r], Lines(r), orders[StoreOf(r)], now) /\ txn[r].results \subseteq Summary
  BY <1>1, CommitBooks
<1> SUFFICES ASSUME NEW q \in Requests, NEW k \in Keys, NEW m \in Summary, NEW b \in batches',
                    Closed(q)', Lists(ledger', k, StoreOf(q), m), txn'[q].rows[m.order] # None,
                    b.seq = ledger'[k].after.batch
             PROVE  b.finished_at <= txn'[q].batch.finished_at
  <2>1. \A q \in Requests : StoreOf(q)' = StoreOf(q)
    BY <1>1 DEF StoreOf
  <2> QED
    BY <2>1, Zenon DEF FinishedBefore
<1>4. q # r /\ Closed(q) /\ txn'[q] = txn[q]
  BY <1>1 DEF Closed
<1>5. ~(StoreOf(q) = StoreOf(r) /\ m \in txn[r].results)
  <2> SUFFICES ASSUME StoreOf(q) = StoreOf(r), m \in txn[r].results PROVE FALSE
    OBVIOUS
  <2>1. txn[r].rows[m.order] # None /\ m.order \in OrderIds
    BY <1>3 DEF RowsAgree, Summary
  <2>2. Holds(q, StoreOf(r), m.order) /\ Holds(r, StoreOf(r), m.order)
    BY <1>4, <2>1 DEF Holds
  <2> QED
    BY <1>2, <1>4, <2>1, <2>2 DEF AllInv, RowsInv, RowsAreLocked
<1>6. Lists(ledger, k, StoreOf(q), m) /\ ledger'[k] = ledger[k]
  BY <1>5, CommitLists
<1>7. b \in batches
  <2>1. IsImport(k)
    BY <1>6 DEF Lists, IsImport
  <2>2. PICK a \in batches : a.seq = ledger[k].after.batch
    BY <2>1 DEF AllInv, LedgerInv, RunsMatchLedger
  <2> QED
    BY <1>2, <1>6, <2>2
<1> QED
  BY <1>4, <1>6, <1>7 DEF FinishedBefore

\* The run published covers its own orders; one that named an order before
\* either started before the new stamp, or was open beside the run published.
LEMMA CommitCovers ==
  ASSUME AllInv, OpenInv, Archive, RowsHaveHistory, FinishedBefore, StampsCover,
         NEW r \in Requests, Commit(r)
  PROVE  StampsCover'
<1>1. /\ pc[r] = "commit" /\ txn \in [Requests -> Txn]
      /\ orders \in [Stores -> [OrderIds -> OrderRow \cup {None}]] /\ Closed(r)
  BY CommitFacts DEF AllInv, LocalInv, TypeOK, Closed
<1>2. /\ call[r].key \in Keys /\ StoreOf(r) \in Stores
      /\ batches' = batches \cup {txn[r].batch} /\ txn[r].batch \in BatchRow
      /\ \A b \in batches : b.seq # txn[r].batch.seq
      /\ \A s \in Stores, o \in OrderIds :
           orders'[s][o] = IF s = StoreOf(r) /\ txn[r].rows[o] # None
                           THEN txn[r].rows[o] ELSE orders[s][o]
  BY CommitPublishes
<1>3. /\ RowsAgree(txn[r], Lines(r), orders[StoreOf(r)], now) /\ BooksClosed(txn[r], now)
      /\ \A o \in OrderIds : txn[r].rows[o] # None =>
           txn[r].rows[o].last_imported_at <= txn[r].batch.finished_at
      /\ txn[r].results \subseteq Summary
  BY <1>1, CommitBooks
<1>4. txn[r].batch.store = StoreOf(r)
  BY <1>1 DEF AllInv, LocalInv, Progress, Writing
<1> SUFFICES ASSUME NEW s \in Stores, NEW k \in Keys, NEW m \in Summary, NEW b \in batches',
                    Lists(ledger', k, s, m), b.seq = ledger'[k].after.batch
             PROVE  StampCovers(orders'[s][m.order], b, s, batches')
  BY Zenon DEF StampsCover
<1>5. m.order \in OrderIds
  BY DEF Summary
<1>6. CASE k = call[r].key
  <2>1. s = StoreOf(r) /\ m \in txn[r].results /\ b.seq = txn[r].batch.seq
    BY <1>6, CommitLists
  <2>2. b = txn[r].batch
    BY <1>2, <2>1
  <2>3. txn[r].rows[m.order] # None /\ orders'[s][m.order] = txn[r].rows[m.order]
    BY <1>2, <1>3, <1>5, <2>1 DEF RowsAgree
  <2>4. txn[r].batch.started_at <= txn[r].rows[m.order].last_imported_at
    BY <1>3, <1>5, <2>3 DEF RowsAgree
  <2> QED
    BY <2>2, <2>3, <2>4 DEF StampCovers
<1>7. CASE k # call[r].key
  <2>1. Lists(ledger, k, s, m) /\ ledger'[k] = ledger[k]
    BY <1>7, CommitLists
  <2>2. b \in batches
    <3>1. IsImport(k)
      BY <2>1 DEF Lists, IsImport
    <3>2. PICK a \in batches : a.seq = ledger[k].after.batch
      BY <3>1 DEF AllInv, LedgerInv, RunsMatchLedger
    <3> QED
      BY <1>2, <2>1, <3>2
  <2>3. CASE s = StoreOf(r) /\ txn[r].rows[m.order] # None
    <3> DEFINE row == txn[r].rows[m.order]
               fresh == txn[r].batch
    <3>1. orders'[s][m.order] = row /\ row # None
      BY <1>2, <1>5, <2>3
    <3>2. /\ fresh.started_at <= row.last_imported_at /\ fresh.started_at \in Nat
          /\ fresh.finished_at \in Nat /\ row.last_imported_at \in Nat
      <4>1. row \in OrderRow
        BY <1>1, <1>5, <2>3 DEF Txn
      <4> QED
        BY <1>2, <1>3, <1>5, <2>3, <4>1 DEF RowsAgree, BooksClosed, BatchRow, OrderRow
    <3>3. b.finished_at <= fresh.finished_at
      BY <1>1, <2>1, <2>2, <2>3 DEF FinishedBefore
    <3>4. /\ b.started_at \in Nat /\ b.finished_at \in Nat /\ b.started_at <= b.finished_at
      BY <2>2, RunFacts
    <3>5. fresh \in batches' \ {b} /\ fresh.store = s
      BY <1>2, <1>4, <2>2, <2>3
    <3> HIDE DEF row, fresh
    <3>6. CASE b.started_at <= row.last_imported_at
      BY <3>1, <3>6 DEF StampCovers
    <3>7. CASE ~(b.started_at <= row.last_imported_at)
      <4>1. fresh.started_at <= b.finished_at /\ b.started_at <= fresh.finished_at
        BY <3>2, <3>3, <3>4, <3>7
      <4> QED
        BY <3>5, <4>1 DEF StampCovers, Overlap
    <3> QED
      BY <3>6, <3>7
  <2>4. CASE ~(s = StoreOf(r) /\ txn[r].rows[m.order] # None)
    <3>1. orders'[s][m.order] = orders[s][m.order]
      BY <1>2, <1>5, <2>4
    <3>2. StampCovers(orders[s][m.order], b, s, batches)
      BY <2>1, <2>2 DEF StampsCover
    <3> QED
      BY <1>2, <3>1, <3>2 DEF StampCovers
  <2> QED
    BY <2>3, <2>4
<1> QED
  BY <1>6, <1>7

\* Of the other steps only the one that closes a run matters: it reads the
\* clock after every visible run has finished.
LEMMA OthersFinished ==
  ASSUME AllInv, OpenInv, Archive, FinishedBefore, [Next]_vars, \A r \in Requests : ~Commit(r)
  PROVE  FinishedBefore'
<1>1. /\ batches' = batches
      /\ \A k \in Keys : IsImport(k)' <=> IsImport(k)
      /\ \A k \in Keys : IsImport(k) => ledger'[k] = ledger[k]
      /\ \A q \in Requests : pc[q] # "unsent" => call'[q] = call[q]
      /\ txn \in [Requests -> Txn] /\ pc \in [Requests -> Labels]
  BY OtherSteps DEF AllInv, LocalInv, TypeOK
<1>2. \A k \in Keys : \A s, m : Lists(ledger', k, s, m) => Lists(ledger, k, s, m) /\ ledger'[k] = ledger[k]
  BY <1>1 DEF Lists, IsImport
<1>3. ASSUME NEW q \in Requests, pc'[q] \in {"record", "commit"}
      PROVE  /\ pc[q] # "unsent"
             /\ \/ Closed(q) /\ txn'[q] = txn[q]
                \/ txn'[q].batch.finished_at = now
  <2>1. pc'[q] = pc[q] /\ txn'[q] = txn[q] => pc[q] # "unsent" /\ Closed(q)
    BY <1>3 DEF Closed
  <2>2. ASSUME NEW r \in Requests, Serve(r)
        PROVE  \/ pc'[q] = pc[q] /\ txn'[q] = txn[q]
               \/ Closed(q) /\ txn'[q] = txn[q]
               \/ pc[q] = "groups" /\ txn'[q].batch.finished_at = now
    <3>1. CASE q # r
      <4>1. OnlyMoves(r)
        BY <2>2, Shapes DEF Serve, AllInv
      <4> QED
        BY <1>1, <3>1, <4>1 DEF OnlyMoves
    <3>2. CASE q = r
      <4>1. \/ FinishImportBatch(r) \/ RecordOperation(r)
        <5>1. ~(GetStore(r) \/ FindByOperation(r) \/ CreateImportBatch(r) \/ RejectGroup(r))
          BY <1>1, <1>3, <3>2 DEF GetStore, FindByOperation, CreateImportBatch, RejectGroup,
                                  Reply, Goto
        <5>2. ~(ResolveLine(r) \/ UpsertOrder(r) \/ AbortDeadlock(r) \/ Deliver(r))
          BY <1>1, <1>3, <3>2 DEF ResolveLine, UpsertOrder, AbortDeadlock, Deliver, Reply, Goto
        <5> QED
          BY <2>2, <5>1, <5>2 DEF Serve
      <4>2. CASE FinishImportBatch(r)
        <5>1. pc[r] = "groups" /\ txn[r].batch \in BatchRow
          BY <4>2 DEF FinishImportBatch, AllInv, LocalInv, Progress, Writing
        <5> DEFINE b == [txn[r].batch EXCEPT
                    !.status = RunOutcome(txn[r].results, txn[r].errors),
                    !.finished_at = now,
                    !.row_count = Cardinality(FirstSeen(Lines(r))),
                    !.success_count = Cardinality(txn[r].results),
                    !.error_count = Cardinality(txn[r].errors)]
        <5>2. txn' = [txn EXCEPT ![r].batch = b]
          BY <4>2 DEF FinishImportBatch
        <5>3. b.finished_at = now
          BY <5>1 DEF BatchRow
        <5> HIDE DEF b
        <5>4. txn'[r].batch = b
          BY <1>1, <5>2 DEF Txn
        <5> QED
          BY <3>2, <5>1, <5>3, <5>4
      <4>3. CASE RecordOperation(r)
        <5>1. pc[r] = "record" /\ (txn' = txn \/ pc' = [pc EXCEPT ![r] = "replying"])
          BY <4>3 DEF RecordOperation, Reply, Goto
        <5>2. pc'[r] # "replying"
          BY <1>3, <3>2
        <5>3. txn' = txn
          BY <1>1, <5>1, <5>2
        <5> QED
          BY <3>2, <5>1, <5>3 DEF Closed
      <4> QED
        BY <4>1, <4>2, <4>3
    <3> QED
      BY <3>1, <3>2
  <2>3. ASSUME NEW r \in Requests,
               Cut(r) \/ \E k \in Keys, b \in Bodies, scope \in Scopes : Send(r, k, b, scope)
        PROVE  pc'[q] = pc[q] /\ txn'[q] = txn[q]
    <3>1. pc'[r] \in {"lost", "opened"} /\ \A p \in Requests \ {r} : pc'[p] = pc[p] /\ txn'[p] = txn[p]
      BY <1>1, <2>3 DEF Cut, Send, Goto
    <3> QED
      BY <1>3, <3>1
  <2>4. ASSUME \/ \E k \in Keys, s \in Stores, fields \in SUBSET {"timezone", "managed_from"},
                     zone \in TimeZones, boundary \in Boundaries :
                    UpdateStoreIdentity(k, s, fields, zone, boundary)
               \/ Tick \/ UNCHANGED vars
        PROVE  pc'[q] = pc[q] /\ txn'[q] = txn[q]
    BY <2>4 DEF UpdateStoreIdentity, Tick, vars
  <2>5. \/ pc'[q] = pc[q] /\ txn'[q] = txn[q]
        \/ Closed(q) /\ txn'[q] = txn[q]
        \/ pc[q] = "groups" /\ txn'[q].batch.finished_at = now
    BY <2>2, <2>3, <2>4 DEF Next
  <2> QED
    BY <2>1, <2>5 DEF Closed
<1> SUFFICES ASSUME NEW q \in Requests, NEW k \in Keys, NEW m \in Summary, NEW b \in batches,
                    Closed(q)', Lists(ledger', k, StoreOf(q)', m), txn'[q].rows[m.order] # None,
                    b.seq = ledger'[k].after.batch
             PROVE  b.finished_at <= txn'[q].batch.finished_at
  BY <1>1, Zenon DEF FinishedBefore
<1>4. pc[q] # "unsent" /\ ((Closed(q) /\ txn'[q] = txn[q]) \/ txn'[q].batch.finished_at = now)
  BY <1>3 DEF Closed
<1>5. StoreOf(q)' = StoreOf(q)
  BY <1>1, <1>4 DEF StoreOf
<1>6. CASE Closed(q) /\ txn'[q] = txn[q]
  BY <1>2, <1>5, <1>6 DEF FinishedBefore
<1>7. CASE txn'[q].batch.finished_at = now
  BY <1>7, RunFacts
<1> QED
  BY <1>4, <1>6, <1>7

LEMMA OthersChronicle ==
  ASSUME RunsInv, [Next]_vars, \A r \in Requests : ~Commit(r)
  PROVE  Chronicle'
<1>1. /\ UNCHANGED <<orders, batches, importErrors>>
      /\ \A k \in Keys : IsImport(k)' <=> IsImport(k)
      /\ \A k \in Keys : IsImport(k) => ledger'[k] = ledger[k]
      /\ \A q \in Requests : pc[q] # "unsent" => call'[q] = call[q]
  BY OtherSteps DEF RunsInv
<1>2. \A k \in Keys : \A s, m : Lists(ledger', k, s, m) <=> Lists(ledger, k, s, m)
  BY <1>1 DEF Lists, IsImport
<1>3. \A k \in Keys : \A s, m : Lists(ledger, k, s, m) => ledger'[k] = ledger[k]
  BY <1>1 DEF Lists, IsImport
<1>4. RowsHaveHistory'
  <2> SUFFICES ASSUME NEW s \in Stores, NEW o \in OrderIds
               PROVE  RowHistory(orders[s][o], ledger', s, o, batches, call')
    BY <1>1 DEF RowsHaveHistory
  <2>1. RowHistory(orders[s][o], ledger, s, o, batches, call)
    BY DEF RunsInv, Chronicle, RowsHaveHistory
  <2>2. \A q \in Requests : call[q] # None => call'[q] = call[q]
    BY <1>1 DEF RunsInv, OpenInv, OpenRun, AtHand
  <2> DEFINE row == orders[s][o]
  <2> HIDE DEF row
  <2>3. row = None => \A k \in Keys, m \in Summary : Lists(ledger', k, s, m) => m.order # o
    BY <1>2, <2>1 DEF RowHistory, row
  <2>4. row # None =>
          /\ \A k \in Keys, m \in Summary : Lists(ledger', k, s, m) /\ m.order = o => m.id = row.id
          /\ \E k \in Keys, m \in Summary :
                 /\ Lists(ledger', k, s, m) /\ m.order = o /\ m.created
                 /\ \A j \in Keys, n \in Summary :
                      Lists(ledger', j, s, n) /\ n.order = o /\ n.created => j = k
    BY <1>2, <2>1 DEF RowHistory, row
  <2>5. ASSUME row # None
        PROVE  \E k \in Keys, m \in Summary, b \in batches, q \in Requests :
            /\ Lists(ledger', k, s, m) /\ m.order = o /\ b.seq = ledger'[k].after.batch
            /\ b.started_at <= row.last_imported_at /\ row.last_imported_at <= b.finished_at
            /\ call'[q] # None /\ call'[q].key = k
            /\ RowIsFrom(call'[q].body.lines, o, row)
    <3>1. PICK k \in Keys, m \in Summary, b \in batches, q \in Requests :
            /\ Lists(ledger, k, s, m) /\ m.order = o /\ b.seq = ledger[k].after.batch
            /\ b.started_at <= row.last_imported_at /\ row.last_imported_at <= b.finished_at
            /\ call[q] # None /\ call[q].key = k
            /\ RowIsFrom(call[q].body.lines, o, row)
      BY <2>1, <2>5 DEF RowHistory, row
    <3>2. call'[q] = call[q] /\ Lists(ledger', k, s, m) /\ ledger'[k] = ledger[k]
      BY <1>2, <1>3, <2>2, <3>1
    <3> QED
      BY <3>1, <3>2
  <2> QED
    BY <2>3, <2>4, <2>5, Zenon DEF RowHistory, row
<1>5. FinishedBefore'
  BY OthersFinished DEF RunsInv, Chronicle
<1>6. StampsCover'
  <2>1. StampsCover
    BY DEF RunsInv, Chronicle
  <2> QED
    BY <1>1, <1>2, <1>3, <2>1 DEF StampsCover
<1> QED
  BY <1>4, <1>5, <1>6 DEF Chronicle

LEMMA StepRuns == RunsInv /\ [Next]_vars => RunsInv'
<1> SUFFICES ASSUME RunsInv, [Next]_vars PROVE RunsInv'
  OBVIOUS
<1>1. AllInv' /\ OpenInv' /\ Archive'
  BY StepAll, StepOpen, StepArchive DEF RunsInv
<1>2. ASSUME NEW r \in Requests, Commit(r) PROVE Chronicle'
  BY <1>2, CommitHistory, CommitFinished, CommitCovers DEF RunsInv, Chronicle
<1>3. Chronicle'
  BY <1>2, OthersChronicle
<1> QED
  BY <1>1, <1>3 DEF RunsInv

LEMMA InitRuns == Init => RunsInv
  BY InitLocal, InitLedger, InitRows, InitOpen, InitArchive, InitChronicle DEF RunsInv, AllInv

LEMMA InvarianceRuns == Spec => []RunsInv
  BY InitRuns, StepRuns, PTL DEF Spec

\* The books of a visible run balance: every order submitted was imported or
\* rejected, and the counts, the error rows and the status say so.
THEOREM BooksBalance == Spec => []RunsBalance
<1>1. RunsInv => RunsBalance
  BY DEF RunsInv, Archive
<1> QED
  BY <1>1, InvarianceRuns, PTL

--------------------------------------------------------------------------------
(* The run and its rows appear together *)

\* The step of a commit, as RunIsAtomic tells it.
LEMMA CommitIsAtomic ==
  ASSUME RunsInv, NEW r \in Requests, Commit(r)
  PROVE  \E k \in Keys :
         /\ ledger[k] = None /\ ledger'[k] # None
         /\ ledger'[k].type = "orders_imported"
         /\ LET run == ledger'[k].after
                s == ledger'[k].store
            IN  /\ \A b \in batches : b.seq # run.batch
                /\ {b.seq : b \in batches' \ batches} = {run.batch}
                /\ {e.order : e \in importErrors' \ importErrors} =
                     {e.order : e \in run.errors}
                /\ \A t \in Stores, o \in OrderIds :
                     orders'[t][o] # orders[t][o] =>
                       t = s /\ \E m \in run.orders : m.order = o
                /\ \A m \in run.orders :
                     /\ m.created <=> orders[s][m.order] = None
                     /\ orders'[s][m.order].id = m.id
<1> DEFINE n == txn[r].batch.seq
           rows == {[batch |-> n, order |-> e.order, code |-> e.code] : e \in txn[r].errors}
<1>1. PICK k \in Keys : k = call[r].key
  BY CommitPublishes DEF RunsInv
<1>2. /\ ledger[k] = None /\ ledger'[k] # None /\ ledger'[k].type = "orders_imported"
      /\ ledger'[k].store = StoreOf(r) /\ StoreOf(r) \in Stores
      /\ ledger'[k].after.batch = n /\ ledger'[k].after.orders = txn[r].results
      /\ ledger'[k].after.errors = txn[r].errors
      /\ batches' = batches \cup {txn[r].batch}
      /\ \A b \in batches : b.seq # n
      /\ importErrors' = importErrors \cup rows
      /\ \A s \in Stores, o \in OrderIds :
           orders'[s][o] = IF s = StoreOf(r) /\ txn[r].rows[o] # None
                           THEN txn[r].rows[o] ELSE orders[s][o]
  BY <1>1, CommitPublishes DEF RunsInv
<1>3. /\ RowsAgree(txn[r], Lines(r), orders[StoreOf(r)], now)
      /\ txn[r].results \subseteq Summary
  BY CommitBooks DEF RunsInv, Commit
<1>4. {b.seq : b \in batches' \ batches} = {n}
  <2>1. batches' \ batches = {txn[r].batch}
    BY <1>2
  <2> QED
    BY <2>1
<1>5. {e.order : e \in importErrors' \ importErrors} = {e.order : e \in txn[r].errors}
  <2>1. \A f \in importErrors : f.batch # n
    BY <1>2 DEF RunsInv, Archive, ErrorsHaveRuns
  <2>2. \A f \in rows : f.batch = n
    OBVIOUS
  <2>3. importErrors' \ importErrors = rows
    <3> HIDE DEF rows, n
    <3> QED
      BY <1>2, <2>1, <2>2
  <2>4. {e.order : e \in rows} = {e.order : e \in txn[r].errors}
    <3>1. ASSUME NEW e \in txn[r].errors PROVE \E f \in rows : f.order = e.order
      <4> DEFINE f == [batch |-> n, order |-> e.order, code |-> e.code]
      <4>1. f \in rows /\ f.order = e.order
        OBVIOUS
      <4> QED
        BY <4>1
    <3>2. ASSUME NEW f \in rows PROVE \E e \in txn[r].errors : f.order = e.order
      <4>1. PICK e \in txn[r].errors : f = [batch |-> n, order |-> e.order, code |-> e.code]
        OBVIOUS
      <4> QED
        BY <4>1
    <3> HIDE DEF rows
    <3> QED
      BY <3>1, <3>2
  <2> HIDE DEF rows
  <2> QED
    BY <2>3, <2>4
<1> HIDE DEF rows, n
<1>6. ASSUME NEW t \in Stores, NEW o \in OrderIds, orders'[t][o] # orders[t][o]
      PROVE  t = StoreOf(r) /\ \E m \in txn[r].results : m.order = o
  BY <1>2, <1>3, <1>6 DEF RowsAgree, Imported
<1>7. ASSUME NEW m \in txn[r].results
      PROVE  /\ m.created <=> orders[StoreOf(r)][m.order] = None
             /\ orders'[StoreOf(r)][m.order].id = m.id
  <2>1. /\ txn[r].rows[m.order] # None /\ txn[r].rows[m.order].id = m.id
        /\ m.created <=> orders[StoreOf(r)][m.order] = None
    BY <1>3 DEF RowsAgree
  <2>2. m.order \in OrderIds
    BY <1>3 DEF Summary
  <2> QED
    BY <1>2, <2>1, <2>2
<1>8. /\ \A b \in batches : b.seq # ledger'[k].after.batch
      /\ {b.seq : b \in batches' \ batches} = {ledger'[k].after.batch}
      /\ {e.order : e \in importErrors' \ importErrors} = {e.order : e \in ledger'[k].after.errors}
  BY <1>2, <1>4, <1>5
<1>9. /\ \A t \in Stores, o \in OrderIds :
           orders'[t][o] # orders[t][o] =>
             t = ledger'[k].store /\ \E m \in ledger'[k].after.orders : m.order = o
      /\ \A m \in ledger'[k].after.orders :
           /\ m.created <=> orders[ledger'[k].store][m.order] = None
           /\ orders'[ledger'[k].store][m.order].id = m.id
  BY <1>2, <1>6, <1>7
<1> QED
  BY <1>2, <1>8, <1>9, Zenon

\* No order, run or import error appears but with the ledger entry of the run
\* that accounts for all of them.
THEOREM RunsAreAtomic == Spec => RunIsAtomic
<1>1. ASSUME RunsInv, [Next]_vars,
             <<orders, batches, importErrors>>' # <<orders, batches, importErrors>>
      PROVE  \E r \in Requests : Commit(r)
  BY <1>1, OtherSteps DEF RunsInv
<1>2. RunsInv /\ [Next]_vars =>
       [<<orders, batches, importErrors>>' # <<orders, batches, importErrors>> =>
       \E k \in Keys :
         /\ ledger[k] = None /\ ledger'[k] # None
         /\ ledger'[k].type = "orders_imported"
         /\ LET run == ledger'[k].after
                s == ledger'[k].store
            IN  /\ \A b \in batches : b.seq # run.batch
                /\ {b.seq : b \in batches' \ batches} = {run.batch}
                /\ {e.order : e \in importErrors' \ importErrors} =
                     {e.order : e \in run.errors}
                /\ \A t \in Stores, o \in OrderIds :
                     orders'[t][o] # orders[t][o] =>
                       t = s /\ \E m \in run.orders : m.order = o
                /\ \A m \in run.orders :
                     /\ m.created <=> orders[s][m.order] = None
                     /\ orders'[s][m.order].id = m.id]_vars
  BY <1>1, CommitIsAtomic, Zenon
<1> QED
  BY <1>2, InvarianceRuns, PTL DEF Spec, RunIsAtomic

--------------------------------------------------------------------------------
(* Rows and their runs *)

\* A committed row names, through the ledger, the run that created it, carries
\* the one id every run reported, and holds what a request of a run that was
\* open at its stamp had to say of the order.
THEOREM RowsHaveRuns == Spec => []RowsComeFromTheirRuns
<1>1. ASSUME RunsInv PROVE RowsComeFromTheirRuns
  <2> SUFFICES ASSUME NEW s \in Stores, NEW o \in OrderIds
               PROVE  LET naming == {k \in Keys : IsImport(k) /\ ledger[k].store = s
                                  /\ \E m \in ledger[k].after.orders : m.order = o}
                          Of(k) == CHOOSE m \in ledger[k].after.orders : m.order = o
                          row == orders[s][o]
                      IN  IF row = None THEN naming = {}
        ELSE /\ \A k \in naming : Of(k).id = row.id
             /\ Cardinality({k \in naming : Of(k).created}) = 1
             /\ \E k \in naming, b \in batches :
                  /\ b.seq = ledger[k].after.batch
                  /\ b.started_at <= row.last_imported_at
                  /\ row.last_imported_at <= b.finished_at
                  /\ \E r \in Requests : /\ call[r] # None
                                        /\ call[r].key = k
                                        /\ \E i \in DOMAIN Lines(r) :
                                             /\ Group(Lines(r), i) = {i}
                                             /\ Lines(r)[i].order = o
                                             /\ Lines(r)[i].sku = row.sku
                                             /\ Lines(r)[i].placed = row.placed
    BY DEF RowsComeFromTheirRuns
  <2> DEFINE naming == {k \in Keys : IsImport(k) /\ ledger[k].store = s
                                  /\ \E m \in ledger[k].after.orders : m.order = o}
             Of(k) == CHOOSE m \in ledger[k].after.orders : m.order = o
             row == orders[s][o]
  <2>1. RowHistory(row, ledger, s, o, batches, call)
    BY <1>1 DEF RunsInv, Chronicle, RowsHaveHistory
  <2>2. \A k \in naming : /\ Of(k) \in Summary /\ Of(k).order = o
                          /\ Lists(ledger, k, s, Of(k)) /\ k \in Keys
    <3> SUFFICES ASSUME NEW k \in naming
                 PROVE  /\ Of(k) \in Summary /\ Of(k).order = o /\ Lists(ledger, k, s, Of(k))
      OBVIOUS
    <3>1. Of(k) \in ledger[k].after.orders /\ Of(k).order = o /\ IsImport(k) /\ ledger[k].store = s
      OBVIOUS
    <3>2. ledger[k].after \in Outcome
      BY <1>1, <3>1 DEF RunsInv, AllInv, LocalInv, TypeOK, LedgerInv, ImportsCarryOutcomes,
                        IsImport, Event
    <3> HIDE DEF Of
    <3> QED
      BY <3>1, <3>2 DEF Outcome, Lists, IsImport
  <2>3. \A k \in Keys, m \in Summary : Lists(ledger, k, s, m) /\ m.order = o =>
          k \in naming /\ Of(k) = m
    <3> SUFFICES ASSUME NEW k \in Keys, NEW m \in Summary, Lists(ledger, k, s, m), m.order = o
                 PROVE  k \in naming /\ Of(k) = m
      OBVIOUS
    <3>1. k \in naming
      BY DEF Lists, IsImport
    <3>2. Of(k) \in ledger[k].after.orders /\ Of(k).order = o /\ m \in ledger[k].after.orders
      BY <3>1 DEF Lists
    <3> HIDE DEF Of
    <3> QED
      BY <1>1, <3>1, <3>2 DEF RunsInv, Archive, OrdersNamedOnce, OnePerOrder
  <2> HIDE DEF naming, Of, row
  <2>4. row = None => naming = {}
    BY <2>1, <2>2 DEF RowHistory
  <2>5. ASSUME row # None PROVE \A k \in naming : Of(k).id = row.id
    BY <2>1, <2>2, <2>5 DEF RowHistory
  <2>6. ASSUME row # None PROVE Cardinality({k \in naming : Of(k).created}) = 1
    <3>1. PICK k \in Keys, m \in Summary :
            /\ Lists(ledger, k, s, m) /\ m.order = o /\ m.created
            /\ \A j \in Keys, n \in Summary :
                 Lists(ledger, j, s, n) /\ n.order = o /\ n.created => j = k
      BY <2>1, <2>6 DEF RowHistory
    <3>2. {j \in naming : Of(j).created} = {k}
      BY <2>2, <2>3, <3>1
    <3> QED
      BY <3>2, FS_Singleton
  <2>7. ASSUME row # None
        PROVE  \E k \in naming, b \in batches :
                  /\ b.seq = ledger[k].after.batch
                  /\ b.started_at <= row.last_imported_at
                  /\ row.last_imported_at <= b.finished_at
                  /\ \E r \in Requests : /\ call[r] # None
                                        /\ call[r].key = k
                                        /\ \E i \in DOMAIN Lines(r) :
                                             /\ Group(Lines(r), i) = {i}
                                             /\ Lines(r)[i].order = o
                                             /\ Lines(r)[i].sku = row.sku
                                             /\ Lines(r)[i].placed = row.placed
    <3>1. PICK k \in Keys, m \in Summary, b \in batches, r \in Requests :
            /\ Lists(ledger, k, s, m) /\ m.order = o /\ b.seq = ledger[k].after.batch
            /\ b.started_at <= row.last_imported_at /\ row.last_imported_at <= b.finished_at
            /\ call[r] # None /\ call[r].key = k
            /\ RowIsFrom(call[r].body.lines, o, row)
      BY <2>1, <2>7 DEF RowHistory
    <3>2. k \in naming
      BY <2>3, <3>1
    <3>3. \E i \in DOMAIN Lines(r) :
            /\ Group(Lines(r), i) = {i} /\ Lines(r)[i].order = o
            /\ Lines(r)[i].sku = row.sku /\ Lines(r)[i].placed = row.placed
      BY <3>1 DEF RowIsFrom, Lines
    <3> QED
      BY <3>1, <3>2, <3>3
  <2> QED
    BY <2>4, <2>5, <2>6, <2>7 DEF naming, Of, row
<1> QED
  BY <1>1, InvarianceRuns, PTL

--------------------------------------------------------------------------------
(* The latest of a set of runs *)

\* Later is a strict total order of the visible runs, so a non-empty set of
\* them has one latest run.
LEMMA LatestIsOne ==
  ASSUME NEW runs, \A a \in runs : a.started_at \in Nat /\ a.seq \in Nat,
         NEW b \in runs, \A a \in runs \ {b} : Later(b, a)
  PROVE  LatestOf(runs) = b
<1> DEFINE c == LatestOf(runs)
<1>1. c \in runs /\ \A a \in runs \ {c} : Later(c, a)
  BY DEF LatestOf
<1> HIDE DEF c
<1>3. c # b => Later(c, b) /\ Later(b, c)
  BY <1>1
<1> QED
  BY <1>1, <1>3 DEF Later, c

LEMMA LatestIsThere ==
  ASSUME RunsInv, NEW runs, runs \subseteq batches, runs # {}
  PROVE  LatestOf(runs) \in runs
<1>1. \A a \in runs : /\ a.started_at \in Nat /\ a.seq \in Nat /\ now \in Nat /\ nextSeq \in Nat
                      /\ a.started_at <= now /\ a.seq <= nextSeq
  <2> SUFFICES ASSUME NEW a \in runs
               PROVE  /\ a.started_at \in Nat /\ a.seq \in Nat /\ now \in Nat /\ nextSeq \in Nat
                      /\ a.started_at <= now /\ a.seq <= nextSeq
    OBVIOUS
  <2>1. /\ a.started_at \in Nat /\ a.seq \in Nat /\ now \in Nat /\ nextSeq \in Nat
        /\ a.finished_at \in Nat /\ a.started_at <= a.finished_at /\ a.finished_at <= now
        /\ a.seq < nextSeq
    BY RunFacts DEF RunsInv
  <2> QED
    BY <2>1
<1>2. PICK t \in {a.started_at : a \in runs} : \A u \in {a.started_at : a \in runs} : u <= t
  <2> DEFINE T == {a.started_at : a \in runs}
  <2>1. T \subseteq Nat /\ T # {} /\ now \in Nat /\ \A n \in T : n <= now
    BY <1>1
  <2> HIDE DEF T
  <2>2. \E n \in T : \A m \in T : m <= n
    BY <2>1, GreatestOf
  <2> QED
    BY <2>2 DEF T
<1>3. PICK n \in {a.seq : a \in {c \in runs : c.started_at = t}} :
        \A u \in {a.seq : a \in {c \in runs : c.started_at = t}} : u <= n
  <2> DEFINE T == {a.seq : a \in {c \in runs : c.started_at = t}}
  <2>1. T \subseteq Nat /\ T # {} /\ nextSeq \in Nat /\ \A u \in T : u <= nextSeq
    BY <1>1
  <2> HIDE DEF T
  <2>2. \E u \in T : \A v \in T : v <= u
    BY <2>1, GreatestOf
  <2> QED
    BY <2>2 DEF T
<1>4. PICK b \in runs : b.started_at = t /\ b.seq = n
  OBVIOUS
<1>5. ASSUME NEW a \in runs \ {b} PROVE Later(b, a)
  <2>1. a.seq # b.seq
    BY DEF RunsInv, AllInv, LedgerInv, RunsMatchLedger
  <2>2. a.started_at <= b.started_at
    BY <1>2, <1>4
  <2>3. a.started_at = b.started_at => a.seq <= b.seq
    BY <1>3, <1>4
  <2>4. a.started_at \in Nat /\ b.started_at \in Nat /\ a.seq \in Nat /\ b.seq \in Nat
    BY <1>1
  <2> QED
    BY <2>1, <2>2, <2>3, <2>4 DEF Later
<1> QED
  BY <1>1, <1>5, LatestIsOne

\* A run that began after the others of its store had finished is shown as the
\* last attempt by the very step that makes it visible.
THEOREM LatestIsShown == Spec => LatestRunShows
<1>1. ASSUME RunsInv, [Next]_vars, NEW b \in batches' \ batches,
             \A a \in batches : a.store = b.store =>
                                  a.finished_at <= b.started_at /\ a.seq < b.seq
      PROVE  /\ RunState(b.store)'.last_attempt_status = b.status
             /\ RunState(b.store)'.last_attempt_finished_at = b.finished_at
  <2>1. PICK r \in Requests : Commit(r)
    BY <1>1, OtherSteps DEF RunsInv
  <2>2. batches' = batches \cup {b}
    BY <1>1, <2>1, CommitPublishes DEF RunsInv
  <2>3. RunsInv'
    BY <1>1, StepRuns
  <2> DEFINE runs == {a \in batches' : a.store = b.store}
  <2>4. \A a \in runs \ {b} : Later(b, a)
    <3> SUFFICES ASSUME NEW a \in runs \ {b} PROVE Later(b, a)
      OBVIOUS
    <3>1. a \in batches /\ a.finished_at <= b.started_at /\ a.seq < b.seq
      BY <1>1, <2>2
    <3>2. a.started_at \in Nat /\ a.finished_at \in Nat /\ a.started_at <= a.finished_at
      BY <1>1, <3>1, RunFacts DEF RunsInv
    <3>3. b.started_at \in Nat
      BY <2>2, <2>3 DEF RunsInv, AllInv, LocalInv, TypeOK, BatchRow
    <3>4. b.started_at > a.started_at \/ b.started_at = a.started_at
      BY <3>1, <3>2, <3>3
    <3>5. b.seq > a.seq
      <4>1. a.seq \in Nat /\ b.seq \in Nat
        BY <2>2, <2>3, <3>1 DEF RunsInv, AllInv, LocalInv, TypeOK, BatchRow
      <4> QED
        BY <3>1, <4>1
    <3> QED
      BY <3>4, <3>5 DEF Later
  <2>5. b \in runs /\ runs # {}
    BY <2>2
  <2>6. LatestOf(runs) = b
    <3>1. \A a \in runs : a.started_at \in Nat /\ a.seq \in Nat
      BY <2>3 DEF RunsInv, AllInv, LocalInv, TypeOK, BatchRow
    <3> QED
      BY <2>4, <2>5, <3>1, LatestIsOne
  <2> QED
    BY <2>5, <2>6 DEF RunState
<1>2. RunsInv /\ [Next]_vars =>
       [\A b \in batches' \ batches :
       (\A a \in batches : a.store = b.store =>
                             a.finished_at <= b.started_at /\ a.seq < b.seq)
       => /\ RunState(b.store)'.last_attempt_status = b.status
          /\ RunState(b.store)'.last_attempt_finished_at = b.finished_at]_vars
  BY <1>1
<1> QED
  BY <1>2, InvarianceRuns, PTL DEF Spec, LatestRunShows

\* The run-level view of a store tells whether its ledger holds an import, and
\* one that imported all it was sent.
THEOREM ViewsMatch == Spec => []ViewMatchesLedger
<1>1. ASSUME RunsInv PROVE ViewMatchesLedger
  <2> SUFFICES ASSUME NEW s \in Stores
               PROVE  LET events == {k \in Keys : IsImport(k) /\ ledger[k].store = s}
                          view == RunState(s)
                      IN  /\ view.never_imported <=> events = {}
                          /\ view.never_imported => OrderLevelFreshness(s) = None
                          /\ (view.last_success_at # None) <=>
                               \E k \in events : ledger[k].after.errors = {}
    BY DEF ViewMatchesLedger
  <2> DEFINE events == {k \in Keys : IsImport(k) /\ ledger[k].store = s}
             runs == {b \in batches : b.store = s}
             successes == {b \in runs : Succeeded(b)}
  <2>1. \A b \in runs : \E k \in events :
          ledger[k].after.status = b.status /\ RunBalances(ledger[k].after, importErrors, batches)
    BY <1>1, RunFacts DEF RunsInv
  <2>2. \A k \in events : \E b \in runs :
          ledger[k].after.status = b.status /\ RunBalances(ledger[k].after, importErrors, batches)
    <3> SUFFICES ASSUME NEW k \in events
                 PROVE  \E b \in runs : /\ ledger[k].after.status = b.status
                                        /\ RunBalances(ledger[k].after, importErrors, batches)
      OBVIOUS
    <3>1. PICK b \in batches : b.seq = ledger[k].after.batch
      BY <1>1 DEF RunsInv, AllInv, LedgerInv, RunsMatchLedger
    <3>2. PICK j \in Keys :
            /\ IsImport(j) /\ ledger[j].store = b.store
            /\ ledger[j].after.batch = b.seq /\ ledger[j].after.status = b.status
            /\ RunBalances(ledger[j].after, importErrors, batches)
      BY <1>1, RunFacts DEF RunsInv
    <3>3. j = k
      BY <1>1, <3>1, <3>2 DEF RunsInv, AllInv, LedgerInv, RunsMatchLedger
    <3> QED
      BY <3>2, <3>3
  <2>3. runs = {} <=> events = {}
    BY <2>1, <2>2
  <2>4. runs = {} => OrderLevelFreshness(s) = None
    <3> SUFFICES ASSUME runs = {} PROVE OrderLevelFreshness(s) = None
      OBVIOUS
    <3>1. \A o \in OrderIds : orders[s][o] = None
      <4> SUFFICES ASSUME NEW o \in OrderIds, orders[s][o] # None PROVE FALSE
        OBVIOUS
      <4>1. PICK k \in Keys, m \in Summary : Lists(ledger, k, s, m)
        BY <1>1 DEF RunsInv, Chronicle, RowsHaveHistory, RowHistory
      <4>2. k \in events
        BY <4>1 DEF Lists, IsImport
      <4> QED
        BY <2>3, <4>2
    <3> QED
      BY <3>1 DEF OrderLevelFreshness
  <2>5. \A k \in events : RunBalances(ledger[k].after, importErrors, batches) =>
          (ledger[k].after.status = "completed" <=> ledger[k].after.errors = {})
    BY DEF RunBalances
  <2>6. successes # {} <=> \E k \in events : ledger[k].after.errors = {}
    BY <2>1, <2>2, <2>5 DEF Succeeded
  <2>7. successes # {} => LatestOf(successes).finished_at # None
    <3> SUFFICES ASSUME successes # {} PROVE LatestOf(successes).finished_at # None
      OBVIOUS
    <3>1. LatestOf(successes) \in batches
      BY <1>1, LatestIsThere
    <3>2. LatestOf(successes).finished_at \in Nat
      BY <1>1, <3>1, RunFacts DEF RunsInv
    <3> QED
      BY <3>2, NoneIsFresh
  <2>8. /\ RunState(s).never_imported <=> runs = {}
        /\ RunState(s).last_success_at # None <=> successes # {}
    <3>1. runs = {} => successes = {}
      OBVIOUS
    <3> QED
      BY <2>7, <3>1, Zenon DEF RunState
  <2> HIDE DEF events, runs, successes
  <2> QED
    BY <2>3, <2>4, <2>6, <2>8 DEF events
<1> QED
  BY <1>1, InvarianceRuns, PTL

--------------------------------------------------------------------------------
(* The orders screen *)

\* Freshness is the stamp of some order, and no order's stamp is later; there
\* is one as soon as some run of the store imported something.
LEMMA FreshnessIsMax ==
  ASSUME RunsInv, NEW s \in Stores, NEW o \in OrderIds, orders[s][o] # None
  PROVE  /\ OrderLevelFreshness(s) \in Nat
         /\ orders[s][o].last_imported_at <= OrderLevelFreshness(s)
<1> DEFINE stamps == {orders[s][p].last_imported_at : p \in {q \in OrderIds : orders[s][q] # None}}
<1>1. \A p \in OrderIds : orders[s][p] # None =>
        orders[s][p].last_imported_at \in Nat /\ orders[s][p].last_imported_at <= now
  <2> SUFFICES ASSUME NEW p \in OrderIds, orders[s][p] # None
               PROVE  orders[s][p].last_imported_at \in Nat /\ orders[s][p].last_imported_at <= now
    OBVIOUS
  <2>1. orders[s][p].last_imported_at \in Nat
    BY DEF RunsInv, AllInv, LocalInv, TypeOK, OrderRow
  <2>2. PICK b \in batches : orders[s][p].last_imported_at <= b.finished_at
    BY DEF RunsInv, Chronicle, RowsHaveHistory, RowHistory
  <2>3. b.finished_at \in Nat /\ b.finished_at <= now /\ now \in Nat
    BY RunFacts DEF RunsInv
  <2> QED
    BY <2>1, <2>2, <2>3
<1>2. stamps \subseteq Nat /\ stamps # {} /\ now \in Nat /\ \A n \in stamps : n <= now
  BY <1>1 DEF RunsInv, AllInv, LocalInv, TypeOK
<1>3. orders[s][o].last_imported_at \in stamps
  OBVIOUS
<1>4. OrderLevelFreshness(s) = CHOOSE t \in stamps : \A u \in stamps : u <= t
  BY <1>2 DEF OrderLevelFreshness
<1> HIDE DEF stamps
<1>5. \E t \in stamps : \A u \in stamps : u <= t
  BY <1>2, GreatestOf
<1> QED
  BY <1>2, <1>3, <1>4, <1>5

\* A run that imported something named an order whose row is there.
LEMMA ImportedHasRow ==
  ASSUME RunsInv, NEW b \in batches, b.success_count > 0 \/ Succeeded(b)
  PROVE  \E k \in Keys : \E m \in Summary :
           /\ Lists(ledger, k, b.store, m) /\ b.seq = ledger[k].after.batch
           /\ m.order \in OrderIds /\ orders[b.store][m.order] # None
<1>1. PICK k \in Keys : /\ IsImport(k) /\ ledger[k].store = b.store
                        /\ ledger[k].after.batch = b.seq /\ ledger[k].after.status = b.status
                        /\ RunBalances(ledger[k].after, importErrors, batches)
  BY RunFacts DEF RunsInv
<1>2. {m.order : m \in ledger[k].after.orders} # {}
  <2>1. CASE Succeeded(b)
    BY <1>1, <2>1 DEF Succeeded, RunBalances
  <2>2. CASE b.success_count > 0
    <3>1. b.success_count = Cardinality({m.order : m \in ledger[k].after.orders})
      BY <1>1 DEF RunBalances
    <3>2. Cardinality({}) = 0
      BY FS_EmptySet
    <3> QED
      BY <2>2, <3>1, <3>2
  <2> QED
    BY <2>1, <2>2
<1>3. PICK m \in ledger[k].after.orders : TRUE
  BY <1>2
<1>4. ledger[k].after \in Outcome
  BY <1>1 DEF RunsInv, AllInv, LocalInv, TypeOK, LedgerInv, ImportsCarryOutcomes, IsImport, Event
<1>5. m \in Summary /\ m.order \in OrderIds
  BY <1>4 DEF Outcome, Summary
<1>6. Lists(ledger, k, b.store, m)
  BY <1>1 DEF Lists, IsImport
<1>7. b.store \in Stores
  BY RunFacts DEF RunsInv
<1>8. orders[b.store][m.order] # None
  BY <1>5, <1>6, <1>7 DEF RunsInv, Chronicle, RowsHaveHistory, RowHistory
<1> QED
  BY <1>1, <1>5, <1>6, <1>8

LEMMA StepScreenRuns == RunsInv /\ [ScreenNext]_screenVars => RunsInv'
<1>1. [ScreenNext]_screenVars => [Next]_vars
  BY DEF ScreenNext, screenVars, OpenPage, Read, Close, vars
<1> QED
  BY <1>1, StepRuns

LEMMA InvarianceScreenRuns == ScreenSpec => []RunsInv
  BY InitRuns, StepScreenRuns, PTL DEF ScreenSpec, ScreenInit

\* The freshness of a store covers every run that imported something, unless
\* another run was open beside it.
THEOREM FreshnessCovers == ScreenSpec => []FreshnessCoversItsRuns
<1>1. ASSUME RunsInv PROVE FreshnessCoversItsRuns
  <2> SUFFICES ASSUME NEW s \in Stores, NEW b \in RunsOf(s), b.success_count > 0,
                      \A a \in RunsOf(s) \ {b} : ~Overlap(a, b)
               PROVE  OrderLevelFreshness(s) # None /\ b.started_at <= OrderLevelFreshness(s)
    BY DEF FreshnessCoversItsRuns
  <2>1. b \in batches /\ b.store = s
    BY DEF RunsOf
  <2>2. PICK k \in Keys, m \in Summary :
           /\ Lists(ledger, k, s, m) /\ b.seq = ledger[k].after.batch
           /\ m.order \in OrderIds /\ orders[s][m.order] # None
    BY <1>1, <2>1, ImportedHasRow
  <2>3. StampCovers(orders[s][m.order], b, s, batches)
    BY <1>1, <2>1, <2>2 DEF RunsInv, Chronicle, StampsCover
  <2>4. b.started_at <= orders[s][m.order].last_imported_at
    BY <2>3 DEF StampCovers, RunsOf
  <2>5. /\ OrderLevelFreshness(s) \in Nat
        /\ orders[s][m.order].last_imported_at <= OrderLevelFreshness(s)
    BY <1>1, <2>2, FreshnessIsMax
  <2>6. b.started_at \in Nat /\ orders[s][m.order].last_imported_at \in Nat
    BY <1>1, <2>1, <2>2, RunFacts DEF RunsInv, AllInv, LocalInv, TypeOK, OrderRow
  <2> QED
    BY <2>4, <2>5, <2>6, NoneIsFresh
<1> QED
  BY <1>1, InvarianceScreenRuns, PTL

\* What a page holds after each of its reads, of the runs visible by now.  The
\* set of runs only grows, so what it says of a run that is the latest of all
\* remains true.
PageTells(page, runs) ==
  LET here == {b \in runs : b.store = page.store}
  IN  /\ page.store \in Stores /\ page.known \subseteq here
      /\ page.left \in {<<"runs", "freshness">>, <<"freshness">>, <<>>}
      /\ page.left # <<"runs", "freshness">> =>
           /\ page.runs.last_success_at # None => \E b \in here : Succeeded(b)
           /\ page.runs.never_imported => page.known = {}
           /\ \A b \in page.known :
                /\ Succeeded(b) => page.runs.last_success_at # None
                /\ (\A a \in here \ {b} : Later(b, a)) => page.runs.last_attempt_status = b.status
      /\ page.left = <<>> =>
           /\ page.runs.last_success_at # None => page.freshness # None
           /\ \A b \in page.known : b.success_count > 0 => page.freshness # None

IsPage(page) ==
  page = [store |-> page.store, known |-> page.known, left |-> page.left,
          runs |-> page.runs, freshness |-> page.freshness]

PagesTell ==
  /\ DOMAIN pages = Viewers /\ pages = [v \in Viewers |-> pages[v]]
  /\ \A v \in Viewers : pages[v] # None => IsPage(pages[v]) /\ PageTells(pages[v], batches)

\* Runs that become visible meanwhile take nothing back from a page.
LEMMA PageStays ==
  ASSUME NEW page, NEW runs, NEW more, runs \subseteq more, PageTells(page, runs)
  PROVE  PageTells(page, more)
  BY DEF PageTells

\* The first read: the runs known at the request are among those it sees.
LEMMA RunsRead ==
  ASSUME RunsInv, NEW page, NEW next, PageTells(page, batches),
         page.left = <<"runs", "freshness">>, next.left = <<"freshness">>,
         next.store = page.store, next.known = page.known, next.runs = RunState(page.store)
  PROVE  PageTells(next, batches)
<1> DEFINE here == {b \in batches : b.store = page.store}
           successes == {b \in here : Succeeded(b)}
<1>1. page.store \in Stores /\ page.known \subseteq here
  BY DEF PageTells
<1>2. \A a \in here : a.started_at \in Nat /\ a.seq \in Nat /\ a.finished_at \in Nat
  BY RunFacts DEF RunsInv
<1>3. successes # {} => LatestOf(successes).finished_at # None
  <2> SUFFICES ASSUME successes # {} PROVE LatestOf(successes).finished_at # None
    OBVIOUS
  <2>1. successes \subseteq batches
    OBVIOUS
  <2>2. LatestOf(successes) \in successes
    BY <2>1, LatestIsThere
  <2>3. LatestOf(successes).finished_at \in Nat
    BY <1>2, <2>2
  <2> QED
    BY <2>3, NoneIsFresh
<1>4. /\ next.runs.never_imported => here = {}
      /\ next.runs.last_success_at # None => successes # {}
      /\ successes # {} => next.runs.last_success_at # None
      /\ here # {} => next.runs.last_attempt_status = LatestOf(here).status
  <2>1. CASE here = {}
    <3>1. next.runs = [never_imported |-> TRUE, last_success_at |-> None,
                       last_attempt_status |-> None, last_attempt_finished_at |-> None]
      BY <2>1 DEF RunState
    <3> QED
      BY <2>1, <3>1
  <2>2. CASE here # {}
    <3>1. next.runs = [never_imported |-> FALSE,
                       last_success_at |->
                         IF successes = {} THEN None ELSE LatestOf(successes).finished_at,
                       last_attempt_status |-> LatestOf(here).status,
                       last_attempt_finished_at |-> LatestOf(here).finished_at]
      BY <2>2 DEF RunState
    <3> HIDE DEF here, successes
    <3> QED
      BY <1>3, <2>2, <3>1
  <2> QED
    BY <2>1, <2>2
<1>5. \A b \in here : (\A a \in here \ {b} : Later(b, a)) => LatestOf(here) = b
  BY <1>2, LatestIsOne
<1>6. <<"freshness">> # <<"runs", "freshness">> /\ <<"freshness">> # <<>>
  OBVIOUS
<1>7. {b \in batches : b.store = next.store} = here
  OBVIOUS
<1> HIDE DEF here, successes
<1>8. /\ next.runs.last_success_at # None => \E b \in here : Succeeded(b)
      /\ next.runs.never_imported => next.known = {}
  BY <1>1, <1>4 DEF successes
<1>9. ASSUME NEW b \in next.known
      PROVE  /\ Succeeded(b) => next.runs.last_success_at # None
             /\ (\A a \in here \ {b} : Later(b, a)) => next.runs.last_attempt_status = b.status
  BY <1>1, <1>4, <1>5, <1>9 DEF successes
<1> QED
  BY <1>1, <1>6, <1>7, <1>8, <1>9 DEF PageTells

\* The second read: there is a fresh order whenever a run imported one.
LEMMA FreshnessRead ==
  ASSUME RunsInv, NEW page, NEW next, PageTells(page, batches),
         page.left = <<"freshness">>, next.left = <<>>,
         next.store = page.store, next.known = page.known, next.runs = page.runs,
         next.freshness = OrderLevelFreshness(page.store)
  PROVE  PageTells(next, batches)
<1> DEFINE here == {b \in batches : b.store = page.store}
<1>1. page.store \in Stores /\ page.known \subseteq here
  BY DEF PageTells
<1>2. <<"freshness">> # <<"runs", "freshness">> /\ <<>> # <<"runs", "freshness">>
  OBVIOUS
<1>3. ASSUME NEW b \in here, b.success_count > 0 \/ Succeeded(b)
      PROVE  next.freshness # None
  <2>1. PICK k \in Keys, m \in Summary : m.order \in OrderIds /\ orders[page.store][m.order] # None
    BY <1>3, ImportedHasRow
  <2>2. OrderLevelFreshness(page.store) \in Nat
    BY <1>1, <2>1, FreshnessIsMax
  <2> QED
    BY <2>2, NoneIsFresh
<1>4. /\ page.runs.last_success_at # None => \E b \in here : Succeeded(b)
      /\ page.runs.never_imported => page.known = {}
      /\ \A b \in page.known :
           /\ Succeeded(b) => page.runs.last_success_at # None
           /\ (\A a \in here \ {b} : Later(b, a)) => page.runs.last_attempt_status = b.status
  BY <1>2 DEF PageTells
<1>5. {b \in batches : b.store = next.store} = here
  OBVIOUS
<1> HIDE DEF here
<1>6. /\ next.runs.last_success_at # None => next.freshness # None
      /\ \A b \in next.known : b.success_count > 0 => next.freshness # None
  BY <1>1, <1>3, <1>4
<1> QED
  BY <1>1, <1>2, <1>4, <1>5, <1>6 DEF PageTells

LEMMA StepPages ==
  ASSUME RunsInv, PagesTell, [ScreenNext]_screenVars
  PROVE  PagesTell'
<1>1. ASSUME [Next]_vars, UNCHANGED pages PROVE PagesTell'
  <2>1. batches \subseteq batches'
    BY <1>1, StepKeeps DEF RunsInv
  <2> QED
    BY <1>1, <2>1, PageStays DEF PagesTell
<1>2. ASSUME NEW v \in Viewers, NEW s \in Stores, OpenPage(v, s) PROVE PagesTell'
  <2> DEFINE page == [store |-> s, known |-> RunsOf(s), left |-> ReadOrder,
                      runs |-> None, freshness |-> None]
  <2>1. pages' = [pages EXCEPT ![v] = page] /\ batches' = batches
    BY <1>2 DEF OpenPage, vars, tables
  <2>2. IsPage(page)
    BY DEF IsPage
  <2>3. PageTells(page, batches)
    BY DEF PageTells, RunsOf, ReadOrder
  <2> HIDE DEF page
  <2> QED
    BY <2>1, <2>2, <2>3 DEF PagesTell
<1>3. ASSUME NEW v \in Viewers, Read(v) PROVE PagesTell'
  <2> DEFINE page == pages[v]
             next == [page EXCEPT
                       !.left = Tail(@),
                       !.runs = IF Head(page.left) = "runs" THEN RunState(page.store) ELSE @,
                       !.freshness = IF Head(page.left) = "freshness"
                                     THEN OrderLevelFreshness(page.store) ELSE @]
  <2>1. /\ pages' = [pages EXCEPT ![v] = next] /\ batches' = batches
        /\ page # None /\ page.left # <<>>
    BY <1>3 DEF Read, vars, tables, PagesTell
  <2>2. IsPage(page) /\ PageTells(page, batches)
    BY <2>1 DEF PagesTell
  <2> HIDE DEF page
  <2> DEFINE rs == IF Head(page.left) = "runs" THEN RunState(page.store) ELSE page.runs
             fr == IF Head(page.left) = "freshness"
                   THEN OrderLevelFreshness(page.store) ELSE page.freshness
             step == [store |-> page.store, known |-> page.known, left |-> Tail(page.left),
                      runs |-> rs, freshness |-> fr]
  <2>5. next = [page EXCEPT !.left = Tail(page.left), !.runs = rs, !.freshness = fr]
    OBVIOUS
  <2>6. next = step
    <3> HIDE DEF rs, fr, next
    <3> QED
      BY <2>2, <2>5 DEF IsPage
  <2>7. IsPage(step)
    BY DEF IsPage
  <2>3. /\ next.store = page.store /\ next.known = page.known /\ next.left = Tail(page.left)
        /\ next.runs = IF Head(page.left) = "runs" THEN RunState(page.store) ELSE page.runs
        /\ next.freshness = IF Head(page.left) = "freshness"
                            THEN OrderLevelFreshness(page.store) ELSE page.freshness
        /\ IsPage(next)
    <3> HIDE DEF next
    <3> QED
      BY <2>6, <2>7
  <2> HIDE DEF next
  <2>4. PageTells(next, batches)
    <3>1. page.left \in {<<"runs", "freshness">>, <<"freshness">>}
      BY <2>1, <2>2 DEF PageTells
    <3>2. CASE page.left = <<"runs", "freshness">>
      BY <2>2, <2>3, <3>2, RunsRead
    <3>3. CASE page.left = <<"freshness">>
      BY <2>2, <2>3, <3>3, FreshnessRead
    <3> QED
      BY <3>1, <3>2, <3>3
  <2> QED
    BY <2>1, <2>3, <2>4 DEF PagesTell
<1>4. ASSUME NEW v \in Viewers, Close(v) PROVE PagesTell'
  BY <1>4 DEF Close, PagesTell, vars, tables
<1>5. CASE UNCHANGED screenVars
  <2>1. UNCHANGED <<vars, pages>>
    BY <1>5 DEF screenVars
  <2> QED
    BY <1>1, <2>1
<1> QED
  BY <1>1, <1>2, <1>3, <1>4, <1>5 DEF ScreenNext

\* What a page shows goes together, and misses nothing that was committed when
\* it was asked for, although imports commit between its two reads.
THEOREM PagesAreCoherent == ScreenSpec => []PageIsCoherent
<1>1. ScreenInit => PagesTell
  BY DEF ScreenInit, PagesTell
<1>2. ScreenInit => RunsInv
  BY InitRuns DEF ScreenInit
<1>3. RunsInv /\ PagesTell /\ [ScreenNext]_screenVars => RunsInv' /\ PagesTell'
  BY StepScreenRuns, StepPages
<1>4. PagesTell => PageIsCoherent
  <2> SUFFICES ASSUME PagesTell, NEW v \in Viewers, Shown(v)
               PROVE  LET page == pages[v]
    IN  /\ page.runs.last_success_at # None => page.freshness # None
        /\ page.runs.never_imported => page.known = {}
        /\ \A b \in page.known :
             /\ b.success_count > 0 => page.freshness # None
             /\ Succeeded(b) => page.runs.last_success_at # None
             /\ (\A a \in RunsOf(page.store) \ {b} : Later(b, a)) =>
                  page.runs.last_attempt_status = b.status
    BY DEF PageIsCoherent
  <2>1. PageTells(pages[v], batches) /\ pages[v].left = <<>>
    BY DEF PagesTell, Shown
  <2>2. <<>> # <<"runs", "freshness">>
    OBVIOUS
  <2> QED
    BY <2>1, <2>2 DEF PageTells, RunsOf
<1> QED
  BY <1>1, <1>2, <1>3, <1>4, PTL DEF ScreenSpec

================================================================================
