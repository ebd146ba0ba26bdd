--------------------------- MODULE OrderImportProofs ---------------------------
(* Theorems about OrderImport, for every value of its constants: the ledger   *)
(* agrees with the runs, imports implement OperationLedger, keep what they     *)
(* commit, and answer nobody outside their scope.                              *)
EXTENDS OrderImport, FiniteSetTheorems, TLAPS

\* A body's lines are a sequence of lines, and each position a natural number.
LEMMA BodyShape ==
  ASSUME NEW b \in Bodies
  PROVE  /\ b.store \in Stores
         /\ b.lines \in Seq(Line)
         /\ DOMAIN b.lines = 1 .. Len(b.lines)
         /\ DOMAIN b.lines \subseteq Nat
         /\ IsFiniteSet(DOMAIN b.lines)
         /\ \A i \in DOMAIN b.lines : b.lines[i] \in Line
<1>1. b \in [store : Stores, lines : Seq(Line) \ {<<>>}]
  BY BodiesAreValid
<1>2. b.lines \in Seq(Line) /\ b.store \in Stores
  BY <1>1
<1>3. DOMAIN b.lines = 1 .. Len(b.lines) /\ Len(b.lines) \in Nat
  BY <1>2
<1>4. IsFiniteSet(1 .. Len(b.lines))
  BY <1>3, FS_Interval
<1> QED
  BY <1>2, <1>3, <1>4

\* The date of an order and its two statuses have their types on a store that
\* is configured.
LEMMA ResolvedTypes ==
  ASSUME NEW config \in Config, config.timezone # None,
         NEW instant \in Int
  PROVE  /\ OrderDate(config, instant) \in Int
         /\ ScopeStatusFor(config, OrderDate(config, instant)) \in ScopeStatus
         /\ PostingStatusFor(ScopeStatusFor(config, OrderDate(config, instant)))
              \in PostingStatus
<1>1. config.timezone \in Int
  BY NoneIsFresh DEF Config
<1>2. OrderDate(config, instant) \in Int
  BY <1>1 DEF OrderDate, HoursPerDay
<1> QED
  BY <1>2 DEF ScopeStatusFor, PostingStatusFor, ScopeStatus, PostingStatus

\* The local variables of a request that has not started, and of one that was
\* rolled back.
LEMMA NoTxnType == NoTxn \in Txn /\ IsFiniteSet(NoTxn.results) /\ IsFiniteSet(NoTxn.errors)
  BY FS_EmptySet DEF NoTxn, Txn, NoRows

LEMMA InitLocal == Init => LocalInv
<1> SUFFICES ASSUME Init PROVE LocalInv
  OBVIOUS
<1> USE DEF Init
<1>1. stores \in [Stores -> Config]
  BY SettingsAreConfigs
<1>2. orders \in [Stores -> [OrderIds -> OrderRow \cup {None}]]
  BY DEF NoRows
<1>3. txn \in [Requests -> Txn]
  BY NoTxnType
<1>4. answer \in [Requests -> Answer]
  BY DEF Refuse, Answer, AnswerKind
<1>5. TypeOK
  BY <1>1, <1>2, <1>3, <1>4 DEF TypeOK, Labels
<1>6. Progress
  BY NoTxnType DEF Progress, Writing, NoTxn
<1> QED
  BY <1>5, <1>6 DEF LocalInv

\* A request that leaves with a response keeps every variable in its type.
LEMMA ReplyLocal ==
  ASSUME LocalInv, NEW r \in Requests, NEW a \in Answer,
         pc[r] # "unsent", Reply(r, a), UNCHANGED <<tables, now, nextSeq, call>>
  PROVE  LocalInv'
<1> USE DEF LocalInv, tables
<1>1. /\ pc' = [pc EXCEPT ![r] = "replying"]
      /\ answer' = [answer EXCEPT ![r] = a]
      /\ txn' = [txn EXCEPT ![r] = NoTxn]
  BY DEF Reply, Goto
<1>2. TypeOK'
  BY <1>1, NoTxnType DEF TypeOK, Labels
<1>3. Progress'
  <2> SUFFICES ASSUME NEW q \in Requests
               PROVE  /\ (pc[q] # "unsent" => call[q] \in Call)'
                      /\ (pc[q] \in {"lookup", "create"} \/ Writing(q)
                            => txn[q].store \in Config)'
                      /\ (Writing(q) => /\ txn[q].batch \in BatchRow
                                       /\ txn[q].batch.store = StoreOf(q))'
                      /\ (pc[q] = "upsert" => /\ txn[q].store.timezone # None
                                             /\ txn[q].store.managed_from \notin {None, NoDate})'
                      /\ (txn[q].todo # {} => /\ pc[q] # "unsent"
                                             /\ txn[q].todo \subseteq DOMAIN Lines(q))'
                      /\ (IsFiniteSet(txn[q].results) /\ IsFiniteSet(txn[q].errors))'
    BY DEF Progress
  <2>1. CASE q = r
    BY <1>1, <2>1, NoTxnType DEF TypeOK, Progress, Writing, NoTxn
  <2>2. CASE q # r
    BY <1>1, <2>2 DEF TypeOK, Progress, Writing, StoreOf, Lines
  <2> QED
    BY <2>1, <2>2
<1> QED
  BY <1>2, <1>3

\* The response computed from the ledger is a response.
LEMMA ReplayType ==
  ASSUME LocalInv, ImportsCarryOutcomes, NEW r \in Requests, pc[r] # "unsent",
         ledger[call[r].key] # None
  PROVE  ReplayOf(r) \in Answer
<1>1. call[r].key \in Keys
  BY DEF LocalInv, Progress, Call
<1>2. ledger[call[r].key] \in Event
  BY <1>1 DEF LocalInv, TypeOK
<1>3. CASE ledger[call[r].key].type # "orders_imported"
           \/ ledger[call[r].key].store # StoreOf(r)
  BY <1>3 DEF ReplayOf, Refuse, Answer, AnswerKind
<1>4. CASE ledger[call[r].key].type = "orders_imported"
           /\ ledger[call[r].key].store = StoreOf(r)
  <2>1. ledger[call[r].key].after \in Outcome
    BY <1>1, <1>2, <1>4 DEF ImportsCarryOutcomes, IsImport, Event
  <2> QED
    BY <1>4, <2>1 DEF ReplayOf, Report, Answer, AnswerKind
<1> QED
  BY <1>3, <1>4

\* Two facts about a step of r that gives it the local variables t and the
\* label l and leaves the tables, the calls and the responses alone.
LEMMA LocalStep ==
  ASSUME LocalInv, NEW r \in Requests, NEW t \in Txn, NEW l \in Labels,
         pc[r] # "unsent", l # "unsent",
         pc' = [pc EXCEPT ![r] = l], txn' = [txn EXCEPT ![r] = t],
         UNCHANGED <<tables, now, call, answer>>, nextSeq' \in Nat,
         l \in {"lookup", "create", "groups", "upsert", "record", "commit"}
           => t.store \in Config,
         l \in {"groups", "upsert", "record", "commit"}
           => t.batch \in BatchRow /\ t.batch.store = StoreOf(r),
         l = "upsert" => t.store.timezone # None /\ t.store.managed_from \notin {None, NoDate},
         t.todo \subseteq DOMAIN Lines(r),
         IsFiniteSet(t.results), IsFiniteSet(t.errors)
  PROVE  LocalInv'
<1> USE DEF LocalInv, tables
<1>1. TypeOK'
  BY DEF TypeOK
<1>2. Progress'
  <2> SUFFICES ASSUME NEW q \in Requests
               PROVE  /\ (pc[q] # "unsent" => call[q] \in Call)'
                      /\ (pc[q] \in {"lookup", "create"} \/ Writing(q)
                            => txn[q].store \in Config)'
                      /\ (Writing(q) => /\ txn[q].batch \in BatchRow
                                       /\ txn[q].batch.store = StoreOf(q))'
                      /\ (pc[q] = "upsert" => /\ txn[q].store.timezone # None
                                             /\ txn[q].store.managed_from \notin {None, NoDate})'
                      /\ (txn[q].todo # {} => /\ pc[q] # "unsent"
                                             /\ txn[q].todo \subseteq DOMAIN Lines(q))'
                      /\ (IsFiniteSet(txn[q].results) /\ IsFiniteSet(txn[q].errors))'
    BY DEF Progress
  <2>1. CASE q = r
    BY <2>1 DEF TypeOK, Progress, Writing, StoreOf, Lines
  <2>2. CASE q # r
    BY <2>2 DEF TypeOK, Progress, Writing, StoreOf, Lines
  <2> QED
    BY <2>1, <2>2
<1> QED
  BY <1>1, <1>2

\* A request that starts, a run it opens, and a group it rejects.
LEMMA OpenLocal ==
  ASSUME LocalInv, ImportsCarryOutcomes, NEW r \in Requests,
         GetStore(r) \/ FindByOperation(r) \/ CreateImportBatch(r)
  PROVE  LocalInv'
<1> USE DEF LocalInv
<1>1. ASSUME GetStore(r) PROVE LocalInv'
  <2>1. pc[r] = "opened" /\ UNCHANGED <<tables, now, nextSeq, call>>
    BY <1>1 DEF GetStore
  <2>2. StoreOf(r) \in Stores
    BY <2>1, BodyShape DEF Progress, Call, StoreOf
  <2>3. ASSUME NEW a \in {"out_of_scope", "inactive"}, Reply(r, Refuse(a)) PROVE LocalInv'
    <3>1. Refuse(a) \in Answer
      BY <2>3 DEF Refuse, Answer, AnswerKind
    <3> QED
      BY <2>1, <2>3, <3>1, ReplyLocal
  <2>4. CASE UNCHANGED answer /\ Goto(r, "lookup")
             /\ txn' = [txn EXCEPT ![r].store = stores[StoreOf(r)]]
    <3> DEFINE t == [txn[r] EXCEPT !.store = stores[StoreOf(r)]]
    <3>1. t \in Txn /\ t.store \in Config /\ t.todo = txn[r].todo
          /\ t.results = txn[r].results /\ t.errors = txn[r].errors
      BY <2>2 DEF TypeOK, Txn
    <3>2. txn' = [txn EXCEPT ![r] = t]
      BY <2>4 DEF TypeOK
    <3>3. t.todo \subseteq DOMAIN Lines(r) /\ IsFiniteSet(t.results) /\ IsFiniteSet(t.errors)
      BY <2>1, <3>1 DEF Progress
    <3> HIDE DEF t
    <3> QED
      BY <2>1, <2>4, <3>1, <3>2, <3>3, LocalStep DEF Goto, Labels, TypeOK
  <2> QED
    BY <1>1, <2>3, <2>4 DEF GetStore
<1>2. ASSUME FindByOperation(r) PROVE LocalInv'
  <2>1. pc[r] = "lookup" /\ UNCHANGED <<tables, now, nextSeq, call>>
    BY <1>2 DEF FindByOperation
  <2>2. CASE ledger[call[r].key] # None
    BY <1>2, <2>1, <2>2, ReplayType, ReplyLocal DEF FindByOperation
  <2>3. CASE ledger[call[r].key] = None
    <3> DEFINE t == [txn[r] EXCEPT !.stamp = now]
    <3>1. t \in Txn /\ t.store = txn[r].store /\ t.todo = txn[r].todo
          /\ t.results = txn[r].results /\ t.errors = txn[r].errors
      BY DEF TypeOK, Txn
    <3>2. /\ txn' = [txn EXCEPT ![r] = t] /\ pc' = [pc EXCEPT ![r] = "create"]
          /\ UNCHANGED answer
      BY <1>2, <2>3 DEF TypeOK, FindByOperation, Goto
    <3>3. /\ t.todo \subseteq DOMAIN Lines(r) /\ t.store \in Config
          /\ IsFiniteSet(t.results) /\ IsFiniteSet(t.errors)
      BY <2>1, <3>1 DEF Progress
    <3> HIDE DEF t
    <3> QED
      BY <2>1, <3>1, <3>2, <3>3, LocalStep DEF Labels, TypeOK
  <2> QED
    BY <2>2, <2>3
<1>3. ASSUME CreateImportBatch(r) PROVE LocalInv'
  <2> DEFINE b == [seq |-> nextSeq, store |-> StoreOf(r), status |-> "processing",
                   started_at |-> txn[r].stamp, finished_at |-> None, row_count |-> 0,
                   success_count |-> 0, error_count |-> 0]
             t == [txn[r] EXCEPT !.batch = b, !.todo = FirstSeen(Lines(r))]
  <2>1. pc[r] = "create" /\ UNCHANGED <<tables, now, call, answer>> /\ nextSeq' = nextSeq + 1
    BY <1>3 DEF CreateImportBatch
  <2>2. StoreOf(r) \in Stores /\ DOMAIN Lines(r) \subseteq Nat
    BY <2>1, BodyShape DEF Progress, Call, StoreOf, Lines
  <2>3. b \in BatchRow /\ b.store = StoreOf(r)
    BY <2>2 DEF BatchRow, RunStatus, TypeOK, Txn
  <2>4. FirstSeen(Lines(r)) \subseteq DOMAIN Lines(r)
    BY DEF FirstSeen
  <2> HIDE DEF b
  <2>5. t \in Txn /\ t.store = txn[r].store /\ t.todo = FirstSeen(Lines(r)) /\ t.batch = b
        /\ t.results = txn[r].results /\ t.errors = txn[r].errors
    BY <2>2, <2>3, <2>4 DEF TypeOK, Txn
  <2>6. txn' = [txn EXCEPT ![r] = t] /\ pc' = [pc EXCEPT ![r] = "groups"]
    BY <1>3 DEF TypeOK, CreateImportBatch, Goto, b
  <2>7. t.store \in Config /\ IsFiniteSet(t.results) /\ IsFiniteSet(t.errors)
    BY <2>1, <2>5 DEF Progress
  <2>8. t.todo \subseteq DOMAIN Lines(r) /\ nextSeq' \in Nat
    BY <2>1, <2>4, <2>5 DEF TypeOK
  <2> HIDE DEF t
  <2> QED
    BY <2>1, <2>3, <2>5, <2>6, <2>7, <2>8, LocalStep DEF Labels
<1> QED
  BY <1>1, <1>2, <1>3

\* The groups of a batch, one after the other.
LEMMA GroupsLocal ==
  ASSUME LocalInv, NEW r \in Requests,
         RejectGroup(r) \/ ResolveLine(r) \/ UpsertOrder(r)
  PROVE  LocalInv'
<1> USE DEF LocalInv
<1>1. /\ pc[r] \in {"groups", "upsert"}
      /\ UNCHANGED <<tables, now, nextSeq, call, answer>>
         \/ (ResolveLine(r) /\ UNCHANGED <<tables, now, nextSeq, call>>)
  BY DEF RejectGroup, ResolveLine, UpsertOrder
<1>2. /\ call[r].body \in Bodies /\ StoreOf(r) \in Stores /\ txn[r].store \in Config
      /\ txn[r].batch \in BatchRow /\ txn[r].batch.store = StoreOf(r)
      /\ txn[r].todo \subseteq DOMAIN Lines(r)
      /\ IsFiniteSet(txn[r].results) /\ IsFiniteSet(txn[r].errors)
      /\ txn[r] \in Txn
  BY <1>1, BodyShape DEF Progress, Writing, Call, StoreOf, TypeOK
<1>3. \A i \in DOMAIN Lines(r) : Lines(r)[i] \in Line
  BY <1>2, BodyShape DEF Lines
<1>4. ASSUME RejectGroup(r) PROVE LocalInv'
  <2>1. PICK i \in txn[r].todo :
          txn' = [txn EXCEPT
            ![r].todo = @ \ {i},
            ![r].errors = @ \cup
              {[order |-> Lines(r)[i].order,
                code |-> IF \A a, b \in SkusOf(Lines(r), i) : a = b
                         THEN "DUPLICATE_ORDER_LINE"
                         ELSE "MULTIPLE_SKUS_FOR_ORDER"]}]
    BY <1>4 DEF RejectGroup
  <2> DEFINE e == [order |-> Lines(r)[i].order,
                   code |-> IF \A a, b \in SkusOf(Lines(r), i) : a = b
                            THEN "DUPLICATE_ORDER_LINE"
                            ELSE "MULTIPLE_SKUS_FOR_ORDER"]
             t == [txn[r] EXCEPT !.todo = @ \ {i}, !.errors = @ \cup {e}]
  <2>2. e \in Rejection
    BY <1>2, <1>3 DEF Rejection, ErrorCode, Line
  <2>3. txn' = [txn EXCEPT ![r] = t]
    BY <2>1 DEF TypeOK
  <2> HIDE DEF e
  <2>4. t \in Txn /\ t.store = txn[r].store /\ t.todo \subseteq txn[r].todo
        /\ t.batch = txn[r].batch /\ t.results = txn[r].results
        /\ t.errors = txn[r].errors \cup {e}
    BY <1>2, <2>2 DEF Txn
  <2>5. IsFiniteSet(t.errors) /\ IsFiniteSet(t.results) /\ t.todo \subseteq DOMAIN Lines(r)
    <3> HIDE DEF t
    <3>1. IsFiniteSet(txn[r].errors \cup {e})
      BY <1>2, FS_AddElement
    <3> QED
      BY <1>2, <2>4, <3>1
  <2>6. pc[r] = "groups" /\ pc' = [pc EXCEPT ![r] = "groups"]
        /\ UNCHANGED <<tables, now, nextSeq, call, answer>>
    BY <1>4 DEF RejectGroup, TypeOK
  <2> HIDE DEF t
  <2> QED
    BY <1>2, <2>3, <2>4, <2>5, <2>6, LocalStep DEF Labels, TypeOK
<1>5. ASSUME ResolveLine(r) PROVE LocalInv'
  <2>1. ASSUME NEW a \in {"not_configured", "server_error"}, Reply(r, Refuse(a))
        PROVE  LocalInv'
    <3>1. Refuse(a) \in Answer
      BY <2>1 DEF Refuse, Answer, AnswerKind
    <3> QED
      BY <1>1, <2>1, <3>1, ReplyLocal
  <2>2. CASE txn[r].store.timezone # None /\ txn[r].store.managed_from \notin {None, NoDate}
             /\ Goto(r, "upsert") /\ txn' = [txn EXCEPT ![r].stamp = now]
             /\ UNCHANGED answer
    <3> DEFINE t == [txn[r] EXCEPT !.stamp = now]
    <3>1. t \in Txn /\ t.store = txn[r].store /\ t.todo = txn[r].todo
          /\ t.batch = txn[r].batch /\ t.results = txn[r].results /\ t.errors = txn[r].errors
      BY DEF TypeOK, Txn
    <3>2. txn' = [txn EXCEPT ![r] = t] /\ pc' = [pc EXCEPT ![r] = "upsert"]
      BY <2>2 DEF TypeOK, Goto
    <3> HIDE DEF t
    <3> QED
      BY <1>1, <1>2, <2>2, <3>1, <3>2, LocalStep DEF Labels, TypeOK
  <2> QED
    BY <1>5, <2>1, <2>2 DEF ResolveLine
<1>6. ASSUME UpsertOrder(r) PROVE LocalInv'
  <2>1. PICK i \in txn[r].todo :
        LET line == Lines(r)[i]
            old  == orders[StoreOf(r)][line.order]
            date == OrderDate(txn[r].store, line.placed)
            status == ScopeStatusFor(txn[r].store, date)
            id   == RowId(r, old)
        IN  txn' = [txn EXCEPT
              ![r].todo = @ \ {i},
              ![r].rows[line.order] =
                [id |-> id, sku |-> line.sku, placed |-> line.placed,
                 order_date |-> date, scope_status |-> status,
                 posting_status |-> PostingStatusFor(status),
                 last_imported_at |-> StampOf(r, old)],
              ![r].results = @ \cup
                {[order |-> line.order, id |-> id, created |-> old = None]}]
    BY <1>6 DEF UpsertOrder
  <2> DEFINE line == Lines(r)[i]
             old  == orders[StoreOf(r)][line.order]
             date == OrderDate(txn[r].store, line.placed)
             status == ScopeStatusFor(txn[r].store, date)
             id   == RowId(r, old)
             row == [id |-> id, sku |-> line.sku, placed |-> line.placed,
                     order_date |-> date, scope_status |-> status,
                     posting_status |-> PostingStatusFor(status),
                     last_imported_at |-> StampOf(r, old)]
             s == [order |-> line.order, id |-> id, created |-> old = None]
             t == [txn[r] EXCEPT !.todo = @ \ {i}, !.rows[line.order] = row,
                                 !.results = @ \cup {s}]
  <2>2. pc[r] = "upsert" /\ pc' = [pc EXCEPT ![r] = "groups"]
        /\ UNCHANGED <<tables, now, nextSeq, call, answer>>
    BY <1>6 DEF UpsertOrder, Goto
  <2>3. line \in Line
    BY <1>2, <1>3
  <2>4. date \in Int /\ status \in ScopeStatus /\ PostingStatusFor(status) \in PostingStatus
    <3>1. line.placed \in Int
      BY <2>3 DEF Line
    <3>2. txn[r].store.timezone # None /\ txn[r].store.managed_from \notin {None, NoDate}
      BY <2>2 DEF Progress
    <3> QED
      BY <1>2, <3>1, <3>2, ResolvedTypes
  <2>5. id \in Nat
    BY <1>2, <2>3 DEF RowId, TypeOK, OrderRow, Line, BatchRow
  <2>6. txn' = [txn EXCEPT ![r] = t]
    BY <2>1 DEF TypeOK
  <2>7. row \in OrderRow
    <3> HIDE DEF date, status, id, line
    <3> QED
      BY <1>2, <2>3, <2>4, <2>5 DEF OrderRow, Line, Txn, StampOf
  <2>8. s \in Summary
    <3> HIDE DEF id, old, line
    <3> QED
      BY <2>3, <2>5 DEF Summary, Line
  <2>9. line.order \in OrderIds
    BY <2>3 DEF Line
  <2> HIDE DEF row, s, line
  <2>10. t \in Txn /\ t.store = txn[r].store /\ t.todo \subseteq txn[r].todo
         /\ t.batch = txn[r].batch /\ t.results = txn[r].results \cup {s}
         /\ t.errors = txn[r].errors
    BY <1>2, <2>7, <2>8, <2>9 DEF Txn
  <2>11. IsFiniteSet(t.errors) /\ IsFiniteSet(t.results) /\ t.todo \subseteq DOMAIN Lines(r)
    <3> HIDE DEF t
    <3>1. IsFiniteSet(txn[r].results \cup {s})
      BY <1>2, FS_AddElement
    <3> QED
      BY <1>2, <2>10, <3>1
  <2> HIDE DEF t
  <2> QED
    BY <1>2, <2>2, <2>6, <2>10, <2>11, LocalStep DEF Labels, TypeOK
<1> QED
  BY <1>4, <1>5, <1>6

\* The run is closed, and its operation_id is inserted or found spent.
LEMMA CloseLocal ==
  ASSUME LocalInv, ImportsCarryOutcomes, NEW r \in Requests,
         FinishImportBatch(r) \/ RecordOperation(r) \/ AbortDeadlock(r)
  PROVE  LocalInv'
<1> USE DEF LocalInv
<1>1. ASSUME FinishImportBatch(r) PROVE LocalInv'
  <2> DEFINE b == [txn[r].batch EXCEPT
                     !.status = RunOutcome(txn[r].results, txn[r].errors),
                     !.finished_at = now,
                     !.row_count = Cardinality(FirstSeen(Lines(r))),
                     !.success_count = Cardinality(txn[r].results),
                     !.error_count = Cardinality(txn[r].errors)]
             t == [txn[r] EXCEPT !.batch = b]
  <2>1. pc[r] = "groups" /\ UNCHANGED <<tables, now, nextSeq, call, answer>>
    BY <1>1 DEF FinishImportBatch
  <2>2. /\ call[r].body \in Bodies /\ txn[r].store \in Config
        /\ txn[r].batch \in BatchRow /\ txn[r].batch.store = StoreOf(r)
        /\ txn[r].todo \subseteq DOMAIN Lines(r)
        /\ IsFiniteSet(txn[r].results) /\ IsFiniteSet(txn[r].errors)
        /\ txn[r] \in Txn
    BY <2>1 DEF Progress, Writing, Call, TypeOK
  <2>3. Cardinality(FirstSeen(Lines(r))) \in Nat
    <3>1. FirstSeen(Lines(r)) \subseteq DOMAIN Lines(r) /\ IsFiniteSet(DOMAIN Lines(r))
      BY <2>2, BodyShape DEF FirstSeen, Lines
    <3> QED
      BY <3>1, FS_Subset, FS_CardinalityType
  <2>4. Cardinality(txn[r].results) \in Nat /\ Cardinality(txn[r].errors) \in Nat
    BY <2>2, FS_CardinalityType
  <2>5. RunOutcome(txn[r].results, txn[r].errors) \in RunStatus
    BY DEF RunOutcome, RunStatus
  <2>6. b \in BatchRow /\ b.store = StoreOf(r)
    BY <2>2, <2>3, <2>4, <2>5 DEF BatchRow, TypeOK
  <2>7. txn' = [txn EXCEPT ![r] = t] /\ pc' = [pc EXCEPT ![r] = "record"]
    BY <1>1, <2>2 DEF FinishImportBatch, Goto, TypeOK, Txn
  <2> HIDE DEF b
  <2>8. t \in Txn /\ t.store = txn[r].store /\ t.todo = txn[r].todo /\ t.batch = b
        /\ t.results = txn[r].results /\ t.errors = txn[r].errors
    BY <2>2, <2>6 DEF Txn
  <2> HIDE DEF t
  <2> QED
    BY <2>1, <2>2, <2>6, <2>7, <2>8, LocalStep DEF Labels, TypeOK
<1>2. ASSUME RecordOperation(r) PROVE LocalInv'
  <2>1. pc[r] = "record" /\ UNCHANGED <<tables, now, nextSeq, call>>
    BY <1>2 DEF RecordOperation
  <2>2. CASE ledger[call[r].key] # None
    BY <1>2, <2>1, <2>2, ReplayType, ReplyLocal DEF RecordOperation
  <2>3. CASE ledger[call[r].key] = None
    <3>1. /\ txn' = [txn EXCEPT ![r] = txn[r]] /\ pc' = [pc EXCEPT ![r] = "commit"]
          /\ UNCHANGED answer /\ txn[r] \in Txn
      BY <1>2, <2>3 DEF TypeOK, RecordOperation, Goto
    <3>2. /\ txn[r].todo \subseteq DOMAIN Lines(r) /\ txn[r].store \in Config
          /\ txn[r].batch \in BatchRow /\ txn[r].batch.store = StoreOf(r)
          /\ IsFiniteSet(txn[r].results) /\ IsFiniteSet(txn[r].errors)
      BY <2>1 DEF Progress, Writing
    <3> QED
      BY <2>1, <3>1, <3>2, LocalStep DEF Labels, TypeOK
  <2> QED
    BY <2>2, <2>3
<1>3. ASSUME AbortDeadlock(r) PROVE LocalInv'
  <2>1. pc[r] = "upsert"
    BY <1>3 DEF AbortDeadlock, InWaitCycle, WaitsFor
  <2>2. Refuse("server_error") \in Answer
    BY DEF Refuse, Answer, AnswerKind
  <2> QED
    BY <1>3, <2>1, <2>2, ReplyLocal DEF AbortDeadlock
<1> QED
  BY <1>1, <1>2, <1>3

\* What a commit publishes and answers.
LEMMA CommitLocal ==
  ASSUME LocalInv, NEW r \in Requests, Commit(r)
  PROVE  LocalInv'
<1> USE DEF LocalInv
<1>1. pc[r] = "commit" /\ UNCHANGED <<stores, now, nextSeq, call>> /\ Publish(r)
      /\ pc' = [pc EXCEPT ![r] = "replying"]
  BY DEF Commit, Goto
<1>2. /\ call[r].body \in Bodies /\ call[r].key \in Keys /\ StoreOf(r) \in Stores
      /\ txn[r].store \in Config
      /\ txn[r].batch \in BatchRow /\ txn[r].batch.store = StoreOf(r)
      /\ IsFiniteSet(txn[r].results) /\ IsFiniteSet(txn[r].errors)
      /\ txn[r] \in Txn
  BY <1>1, BodyShape DEF Progress, Writing, Call, TypeOK, StoreOf
<1>3. OutcomeOf(txn[r]) \in Outcome
  BY <1>2 DEF OutcomeOf, Outcome, Txn, BatchRow
<1>4. orders' \in [Stores -> [OrderIds -> OrderRow \cup {None}]]
  BY <1>1, <1>2 DEF Publish, TypeOK, Txn
<1>5. batches' \subseteq BatchRow
  BY <1>1, <1>2 DEF Publish, TypeOK
<1>6. importErrors' \subseteq ErrorRow
  <2>1. \A e \in txn[r].errors : e.order \in OrderIds /\ e.code \in ErrorCode
    BY <1>2 DEF Txn, Rejection
  <2>2. txn[r].batch.seq \in Nat
    BY <1>2 DEF BatchRow
  <2>3. {[batch |-> txn[r].batch.seq, order |-> e.order, code |-> e.code] :
           e \in txn[r].errors} \subseteq ErrorRow
    BY <2>1, <2>2 DEF ErrorRow
  <2> QED
    BY <1>1, <2>3 DEF Publish, TypeOK
<1>7. ledger' \in [Keys -> Event \cup {None}]
  <2>1. [type |-> "orders_imported", store |-> StoreOf(r), after |-> OutcomeOf(txn[r])]
          \in Event
    BY <1>2, <1>3 DEF Event, EventType
  <2> QED
    BY <1>1, <2>1 DEF Publish, TypeOK
<1>8. answer' \in [Requests -> Answer]
  <2>1. Report(OutcomeOf(txn[r]), FALSE) \in Answer
    BY <1>3 DEF Report, Answer, AnswerKind
  <2> QED
    BY <2>1 DEF Commit, TypeOK
<1> DEFINE t == [txn[r] EXCEPT !.rows = NoRows]
<1>9. txn' = [txn EXCEPT ![r] = t]
  BY DEF Commit, TypeOK
<1>10. t \in Txn /\ t.store = txn[r].store /\ t.todo = txn[r].todo
       /\ t.results = txn[r].results /\ t.errors = txn[r].errors
  BY <1>2 DEF Txn, NoRows
<1> HIDE DEF t
<1>11. TypeOK'
  BY <1>1, <1>4, <1>5, <1>6, <1>7, <1>8, <1>9, <1>10 DEF TypeOK, Labels
<1>12. Progress'
  <2> SUFFICES ASSUME NEW q \in Requests
               PROVE  /\ (pc[q] # "unsent" => call[q] \in Call)'
                      /\ (pc[q] \in {"lookup", "create"} \/ Writing(q)
                            => txn[q].store \in Config)'
                      /\ (Writing(q) => /\ txn[q].batch \in BatchRow
                                       /\ txn[q].batch.store = StoreOf(q))'
                      /\ (pc[q] = "upsert" => /\ txn[q].store.timezone # None
                                             /\ txn[q].store.managed_from \notin {None, NoDate})'
                      /\ (txn[q].todo # {} => /\ pc[q] # "unsent"
                                             /\ txn[q].todo \subseteq DOMAIN Lines(q))'
                      /\ (IsFiniteSet(txn[q].results) /\ IsFiniteSet(txn[q].errors))'
    BY DEF Progress
  <2>1. CASE q = r
    BY <1>1, <1>2, <1>9, <1>10, <2>1 DEF TypeOK, Progress, Writing, StoreOf, Lines
  <2>2. CASE q # r
    BY <1>1, <1>9, <2>2 DEF TypeOK, Progress, Writing, StoreOf, Lines
  <2> QED
    BY <2>1, <2>2
<1> QED
  BY <1>11, <1>12

\* Responses delivered, requests sent and cut.
LEMMA ClientLocal ==
  ASSUME LocalInv, NEW r \in Requests,
         Deliver(r) \/ Cut(r)
           \/ \E k \in Keys, b \in Bodies, scope \in Scopes : Send(r, k, b, scope)
  PROVE  LocalInv'
<1> USE DEF LocalInv, tables
<1>1. ASSUME Deliver(r) PROVE LocalInv'
  <2>1. pc[r] = "replying" /\ pc' = [pc EXCEPT ![r] = "answered"]
        /\ UNCHANGED <<tables, now, nextSeq, call, txn, answer>>
    BY <1>1 DEF Deliver, Goto
  <2>2. TypeOK'
    BY <2>1 DEF TypeOK, Labels
  <2>3. Progress'
    BY <2>1 DEF Progress, TypeOK, Writing, StoreOf, Lines
  <2> QED
    BY <2>2, <2>3
<1>2. ASSUME Cut(r) PROVE LocalInv'
  <2>1. pc[r] # "unsent" /\ pc' = [pc EXCEPT ![r] = "lost"]
        /\ UNCHANGED <<tables, now, nextSeq, call>>
    BY <1>2 DEF Cut, Goto
  <2>2. PICK t \in {txn[r], NoTxn} : txn' = [txn EXCEPT ![r] = t]
    BY <1>2 DEF Cut
  <2>3. /\ t \in Txn /\ IsFiniteSet(t.results) /\ IsFiniteSet(t.errors)
        /\ t.todo # {} => t = txn[r]
    <3>1. NoTxn.todo = {}
      BY DEF NoTxn
    <3>2. txn[r] \in Txn /\ IsFiniteSet(txn[r].results) /\ IsFiniteSet(txn[r].errors)
      BY DEF TypeOK, Progress
    <3> QED
      BY <2>2, <3>1, <3>2, NoTxnType
  <2>4. Refuse("none") \in Answer
    BY DEF Refuse, Answer, AnswerKind
  <2>5. TypeOK'
    BY <1>2, <2>1, <2>2, <2>3, <2>4 DEF TypeOK, Labels, Cut
  <2>6. Progress'
    BY <2>1, <2>2, <2>3 DEF Progress, TypeOK, Writing, StoreOf, Lines
  <2> QED
    BY <2>5, <2>6
<1>3. ASSUME NEW k \in Keys, NEW b \in Bodies, NEW scope \in Scopes, Send(r, k, b, scope)
      PROVE  LocalInv'
  <2> DEFINE c == [key |-> k, body |-> b, scope |-> scope]
  <2>1. pc[r] = "unsent" /\ pc' = [pc EXCEPT ![r] = "opened"]
        /\ call' = [call EXCEPT ![r] = c]
        /\ UNCHANGED <<tables, now, nextSeq, txn, answer>>
    BY <1>3 DEF Send, Goto
  <2>2. c \in Call
    BY DEF Call
  <2> HIDE DEF c
  <2>3. TypeOK'
    BY <2>1, <2>2 DEF TypeOK, Labels
  <2>4. Progress'
    BY <2>1, <2>2 DEF Progress, TypeOK, Writing, StoreOf, Lines
  <2> QED
    BY <2>3, <2>4
<1> QED
  BY <1>1, <1>2, <1>3

\* A store reconfigured, the clock, and a step that does nothing.
LEMMA WorldLocal ==
  ASSUME LocalInv,
         \/ \E k \in Keys, s \in Stores, fields \in SUBSET {"timezone", "managed_from"},
               zone \in TimeZones, boundary \in Boundaries :
              UpdateStoreIdentity(k, s, fields, zone, boundary)
         \/ Tick
         \/ UNCHANGED vars
  PROVE  LocalInv'
<1> USE DEF LocalInv, tables
<1>1. ASSUME NEW k \in Keys, NEW s \in Stores,
             NEW fields \in SUBSET {"timezone", "managed_from"},
             NEW zone \in TimeZones, NEW boundary \in Boundaries,
             UpdateStoreIdentity(k, s, fields, zone, boundary)
      PROVE  LocalInv'
  <2> DEFINE event == [type |-> IF "timezone" \in fields THEN "store_timezone_changed"
                                ELSE "store_settings_updated",
                       store |-> s, after |-> None]
  <2>1. stores' \in [Stores -> Config]
    BY <1>1 DEF UpdateStoreIdentity, TypeOK, Config
  <2>2. event \in Event
    BY DEF Event, EventType
  <2>3. ledger' = [ledger EXCEPT ![k] = event]
        /\ UNCHANGED <<orders, batches, importErrors, now, nextSeq, pc, call, txn, answer>>
    BY <1>1 DEF UpdateStoreIdentity
  <2> HIDE DEF event
  <2>4. TypeOK'
    BY <2>1, <2>2, <2>3 DEF TypeOK
  <2>5. Progress'
    BY <2>3 DEF Progress, Writing, StoreOf, Lines
  <2> QED
    BY <2>4, <2>5
<1>2. ASSUME Tick PROVE LocalInv'
  BY <1>2, NoneIsFresh DEF Tick, TypeOK, Progress, Writing, StoreOf, Lines
<1>3. ASSUME UNCHANGED vars PROVE LocalInv'
  BY <1>3 DEF vars, TypeOK, Progress, Writing, StoreOf, Lines
<1> QED
  BY <1>1, <1>2, <1>3

--------------------------------------------------------------------------------
(* The ledger and the runs *)

LEMMA InitLedger == Init => LedgerInv
  BY DEF Init, LedgerInv, RunsAreFresh, KeyIsHeldAlone, ImportsCarryOutcomes,
         RunsMatchLedger, AnswersAreDurable, OnlyRepliesTell, IsImport, Told, Refuse,
         Writing, NoTxn

\* What a response a owes to the ledger when it tells r an outcome.
Durable(r, a) ==
  a.kind \in {"accepted", "rejected"} =>
    /\ IsImport(call[r].key)
    /\ ledger[call[r].key].store = StoreOf(r)
    /\ ledger[call[r].key].after = a.outcome
    /\ \E b \in batches : b.seq = a.outcome.batch /\ b.status = a.outcome.status

\* A refusal tells no outcome.
LEMMA RefusalTellsNothing ==
  ASSUME NEW r \in Requests,
         NEW kind \in {"none", "out_of_scope", "inactive", "not_configured", "conflict",
                       "server_error"}
  PROVE  Durable(r, Refuse(kind)) /\ Refuse(kind).kind \notin {"accepted", "rejected"}
  BY DEF Durable, Refuse

\* A replay tells what the ledger holds, and the run it names is visible.
LEMMA ReplayIsDurable ==
  ASSUME LocalInv, LedgerInv, NEW r \in Requests, pc[r] # "unsent",
         ledger[call[r].key] # None
  PROVE  Durable(r, ReplayOf(r))
<1> DEFINE k == call[r].key
<1>1. k \in Keys
  BY DEF LocalInv, Progress, Call
<1>2. CASE ledger[k].type # "orders_imported" \/ ledger[k].store # StoreOf(r)
  BY <1>2 DEF ReplayOf, Refuse, Durable
<1>3. CASE ledger[k].type = "orders_imported" /\ ledger[k].store = StoreOf(r)
  <2>1. IsImport(k) /\ ReplayOf(r).outcome = ledger[k].after
    BY <1>3 DEF IsImport, ReplayOf, Report
  <2>2. PICK b \in batches : b.seq = ledger[k].after.batch
    BY <1>1, <2>1 DEF LedgerInv, RunsMatchLedger
  <2>3. PICK j \in Keys : /\ IsImport(j) /\ ledger[j].after.batch = b.seq
                          /\ ledger[j].after.status = b.status
    BY DEF LedgerInv, RunsMatchLedger
  <2>4. j = k
    BY <1>1, <2>1, <2>2, <2>3 DEF LedgerInv, RunsMatchLedger
  <2> QED
    BY <1>3, <2>1, <2>2, <2>3, <2>4 DEF Durable
<1> QED
  BY <1>2, <1>3

\* A step of r alone: every other request keeps its variables.
OnlyMoves(r) ==
  /\ pc' = [pc EXCEPT ![r] = pc'[r]]
  /\ txn' = [txn EXCEPT ![r] = txn'[r]]
  /\ answer' = [answer EXCEPT ![r] = answer'[r]]
  /\ UNCHANGED <<orders, batches, importErrors, ledger, call>>

\* r keeps its run, or leaves it; or it opens one.
KeepsRun(r) ==
  /\ nextSeq' = nextSeq
  /\ txn'[r].batch # None => txn[r].batch # None /\ txn'[r].batch.seq = txn[r].batch.seq
  /\ Writing(r)' => Writing(r)
OpensRun(r) ==
  nextSeq' = nextSeq + 1 /\ txn'[r].batch # None /\ txn'[r].batch.seq = nextSeq

\* A step of r that writes no table keeps the ledger and the runs in agreement,
\* provided that it draws no batch_seq already drawn, reaches its commit alone
\* with its operation_id, and tells nothing but what is durable.
LEMMA QuietStep ==
  ASSUME LocalInv, LocalInv', LedgerInv, NEW r \in Requests, OnlyMoves(r),
         KeepsRun(r) \/ OpensRun(r),
         pc'[r] = "commit" => ledger[call[r].key] = None /\ ~KeyHeld(r, call[r].key),
         Told(r)' => Durable(r, answer'[r]) /\ pc'[r] \in {"replying", "answered"}
  PROVE  LedgerInv'
<1>1. /\ nextSeq \in Nat /\ pc \in [Requests -> Labels] /\ txn \in [Requests -> Txn]
      /\ answer \in [Requests -> Answer] /\ batches \subseteq BatchRow
      /\ \A q \in Requests : Writing(q)' => txn'[q].batch # None
  BY NoneIsNoRow DEF LocalInv, TypeOK, Progress, Writing
<1>2. \A q \in Requests : txn[q].batch # None => txn[q].batch.seq \in Nat
  BY <1>1 DEF Txn, BatchRow
<1>3. \A run \in batches : run.seq \in Nat
  BY <1>1 DEF BatchRow
<1>4. RunsAreFresh'
  <2>1. CASE KeepsRun(r)
    BY <1>1, <1>2, <1>3, <2>1 DEF OnlyMoves, KeepsRun, LedgerInv, RunsAreFresh, Writing
  <2>2. CASE OpensRun(r)
    BY <1>1, <1>2, <1>3, <2>2 DEF OnlyMoves, OpensRun, LedgerInv, RunsAreFresh, Writing
  <2> QED
    BY <2>1, <2>2
<1>5. KeyIsHeldAlone'
  BY <1>1 DEF OnlyMoves, LedgerInv, KeyIsHeldAlone, KeyHeld
<1>6. ImportsCarryOutcomes' /\ RunsMatchLedger'
  BY DEF OnlyMoves, LedgerInv, ImportsCarryOutcomes, RunsMatchLedger, IsImport
<1>7. AnswersAreDurable'
  <2> SUFFICES ASSUME NEW q \in Requests, Told(q)'
               PROVE  /\ IsImport(call[q].key)'
                      /\ (ledger[call[q].key].store = StoreOf(q))'
                      /\ (ledger[call[q].key].after = answer[q].outcome)'
                      /\ (\E b \in batches : b.seq = answer[q].outcome.batch
                                              /\ b.status = answer[q].outcome.status)'
    BY DEF AnswersAreDurable
  <2>1. CASE q = r
    BY <1>1, <2>1 DEF OnlyMoves, Durable, Told, IsImport, StoreOf
  <2>2. CASE q # r
    BY <1>1, <2>2 DEF OnlyMoves, LedgerInv, AnswersAreDurable, Told, IsImport, StoreOf
  <2> QED
    BY <2>1, <2>2
<1>8. OnlyRepliesTell'
  BY <1>1 DEF OnlyMoves, LedgerInv, OnlyRepliesTell, Told
<1> QED
  BY <1>4, <1>5, <1>6, <1>7, <1>8 DEF LedgerInv

\* A request that leaves without writing, with a refusal or a replay.
LEMMA ReplyLedger ==
  ASSUME LocalInv, LocalInv', LedgerInv, NEW r \in Requests, NEW a, Reply(r, a),
         Durable(r, a),
         UNCHANGED <<orders, batches, importErrors, ledger, nextSeq, call>>
  PROVE  LedgerInv'
<1>1. pc \in [Requests -> Labels] /\ txn \in [Requests -> Txn] /\ answer \in [Requests -> Answer]
  BY DEF LocalInv, TypeOK
<1>2. /\ pc'[r] = "replying" /\ txn'[r] = NoTxn /\ answer'[r] = a
      /\ OnlyMoves(r)
  BY <1>1 DEF Reply, Goto, OnlyMoves
<1>3. KeepsRun(r)
  BY <1>2 DEF KeepsRun, NoTxn, Writing
<1> QED
  BY <1>2, <1>3, QuietStep

\* Up to its audit event, an import leaves the ledger and the runs as they are.
LEMMA ServeLedger ==
  ASSUME LocalInv, LocalInv', LedgerInv, NEW r \in Requests,
         \/ GetStore(r) \/ FindByOperation(r) \/ CreateImportBatch(r) \/ RejectGroup(r)
         \/ ResolveLine(r) \/ UpsertOrder(r) \/ AbortDeadlock(r) \/ FinishImportBatch(r)
         \/ RecordOperation(r) \/ Deliver(r)
  PROVE  LedgerInv'
<1>1. /\ pc \in [Requests -> Labels] /\ txn \in [Requests -> Txn]
      /\ answer \in [Requests -> Answer]
      /\ Durable(r, answer[r])
      /\ Told(r) => pc[r] \in {"replying", "answered"}
      /\ Writing(r) => txn[r].batch # None /\ txn[r].batch \in BatchRow
  BY NoneIsNoRow DEF LocalInv, TypeOK, LedgerInv, AnswersAreDurable, OnlyRepliesTell, Told,
                     Durable, Progress
<1>2. ASSUME NEW kind \in {"out_of_scope", "inactive", "not_configured", "server_error"},
             Reply(r, Refuse(kind)), UNCHANGED <<tables, nextSeq, call>>
      PROVE  LedgerInv'
  BY <1>2, RefusalTellsNothing, ReplyLedger DEF tables
<1>3. ASSUME pc[r] # "unsent", ledger[call[r].key] # None, Reply(r, ReplayOf(r)),
             UNCHANGED <<tables, nextSeq, call>>
      PROVE  LedgerInv'
  BY <1>3, ReplayIsDurable, ReplyLedger DEF tables
<1>4. ASSUME pc[r] \in {"opened", "lookup", "groups", "upsert"},
             Writing(r)' => Writing(r),
             NEW l \in {"lookup", "create", "groups", "upsert"}, Goto(r, l),
             OnlyMoves(r), UNCHANGED <<answer, nextSeq>>, txn'[r].batch = txn[r].batch
      PROVE  LedgerInv'
  <2>1. ~Told(r)'
    BY <1>1, <1>4 DEF Told
  <2>2. KeepsRun(r)
    BY <1>4 DEF KeepsRun
  <2>3. pc'[r] # "commit"
    BY <1>1, <1>4 DEF Goto
  <2> QED
    BY <1>4, <2>1, <2>2, <2>3, QuietStep
<1>5. ASSUME GetStore(r) PROVE LedgerInv'
  <2>1. CASE \E kind \in {"out_of_scope", "inactive"} : Reply(r, Refuse(kind))
    BY <1>5, <1>2, <2>1 DEF GetStore
  <2>2. CASE Goto(r, "lookup") /\ txn' = [txn EXCEPT ![r].store = stores[StoreOf(r)]]
             /\ UNCHANGED answer
    <3>1. OnlyMoves(r) /\ txn'[r].batch = txn[r].batch /\ UNCHANGED nextSeq
          /\ pc[r] = "opened"
      BY <1>1, <1>5, <2>2 DEF GetStore, OnlyMoves, Goto, tables, Txn
    <3>2. ~Writing(r)'
      BY <1>1, <2>2 DEF Writing, Goto
    <3> QED
      BY <1>4, <2>2, <3>1, <3>2
  <2> QED
    BY <1>5, <2>1, <2>2 DEF GetStore
<1>6. ASSUME FindByOperation(r) PROVE LedgerInv'
  <2>1. CASE ledger[call[r].key] # None
    BY <1>6, <1>3, <2>1 DEF FindByOperation
  <2>2. CASE ledger[call[r].key] = None
    <3>1. OnlyMoves(r) /\ txn'[r].batch = txn[r].batch /\ UNCHANGED <<answer, nextSeq>>
          /\ pc[r] = "lookup" /\ Goto(r, "create")
      BY <1>1, <1>6, <2>2 DEF FindByOperation, OnlyMoves, Goto, tables, Txn
    <3>2. ~Writing(r)'
      BY <1>1, <3>1 DEF Writing, Goto
    <3> QED
      BY <1>4, <3>1, <3>2
  <2> QED
    BY <2>1, <2>2
<1>7. ASSUME CreateImportBatch(r) PROVE LedgerInv'
  <2>1. /\ pc[r] = "create" /\ pc'[r] = "groups" /\ nextSeq' = nextSeq + 1
        /\ UNCHANGED answer /\ OnlyMoves(r)
    BY <1>1, <1>7 DEF CreateImportBatch, Goto, OnlyMoves, tables
  <2>2. txn'[r].batch # None
    BY <2>1, NoneIsNoRow DEF LocalInv, Progress, Writing
  <2>3. txn'[r].batch.seq = nextSeq
    BY <1>1, <1>7 DEF CreateImportBatch, Txn
  <2>4. ~Told(r)'
    BY <1>1, <2>1 DEF Told
  <2> QED
    BY <2>1, <2>2, <2>3, <2>4, QuietStep DEF OpensRun
<1>8. ASSUME RejectGroup(r) \/ UpsertOrder(r) PROVE LedgerInv'
  <2>1. /\ pc[r] \in {"groups", "upsert"} /\ Goto(r, "groups")
        /\ UNCHANGED <<tables, nextSeq, call, answer>>
    BY <1>1, <1>8 DEF RejectGroup, UpsertOrder, Goto
  <2>2. txn' = [txn EXCEPT ![r] = txn'[r]] /\ txn'[r].batch = txn[r].batch
    <3>1. CASE RejectGroup(r)
      BY <1>1, <3>1 DEF RejectGroup, Txn
    <3>2. CASE UpsertOrder(r)
      <4>1. PICK i \in txn[r].todo :
              LET line == Lines(r)[i]
                  old  == orders[StoreOf(r)][line.order]
                  date == OrderDate(txn[r].store, line.placed)
                  status == ScopeStatusFor(txn[r].store, date)
                  id   == RowId(r, old)
              IN  txn' = [txn EXCEPT
                    ![r].todo = @ \ {i},
                    ![r].rows[line.order] =
                      [id |-> id, sku |-> line.sku, placed |-> line.placed,
                       order_date |-> date, scope_status |-> status,
                       posting_status |-> PostingStatusFor(status),
                       last_imported_at |-> StampOf(r, old)],
                    ![r].results = @ \cup
                      {[order |-> line.order, id |-> id, created |-> old = None]}]
        BY <3>2 DEF UpsertOrder
      <4> DEFINE line == Lines(r)[i]
                 old  == orders[StoreOf(r)][line.order]
                 date == OrderDate(txn[r].store, line.placed)
                 status == ScopeStatusFor(txn[r].store, date)
                 row == [id |-> RowId(r, old), sku |-> line.sku, placed |-> line.placed,
                         order_date |-> date, scope_status |-> status,
                         posting_status |-> PostingStatusFor(status),
                         last_imported_at |-> StampOf(r, old)]
                 s == [order |-> line.order, id |-> RowId(r, old), created |-> old = None]
                 t == [txn[r] EXCEPT !.todo = @ \ {i}, !.rows[line.order] = row,
                                     !.results = @ \cup {s}]
      <4>2. txn' = [txn EXCEPT ![r] = t]
        BY <1>1, <4>1
      <4> HIDE DEF row, s, line
      <4>3. t.batch = txn[r].batch
        BY <1>1 DEF Txn
      <4> HIDE DEF t
      <4> QED
        BY <1>1, <4>2, <4>3
    <3> QED
      BY <1>8, <3>1, <3>2
  <2>3. OnlyMoves(r) /\ Writing(r)
    BY <1>1, <2>1, <2>2 DEF OnlyMoves, Writing, tables, Goto
  <2> QED
    BY <1>4, <2>1, <2>2, <2>3
<1>9. ASSUME ResolveLine(r) PROVE LedgerInv'
  <2>1. CASE \E kind \in {"not_configured", "server_error"} : Reply(r, Refuse(kind))
    BY <1>9, <1>2, <2>1 DEF ResolveLine
  <2>2. CASE Goto(r, "upsert") /\ txn' = [txn EXCEPT ![r].stamp = now] /\ UNCHANGED answer
    <3>1. OnlyMoves(r) /\ txn'[r].batch = txn[r].batch /\ UNCHANGED nextSeq
          /\ pc[r] = "groups"
      BY <1>1, <1>9, <2>2 DEF ResolveLine, OnlyMoves, Goto, tables, Txn
    <3>2. Writing(r)
      BY <3>1 DEF Writing
    <3> QED
      BY <1>4, <2>2, <3>1, <3>2
  <2> QED
    BY <1>9, <2>1, <2>2 DEF ResolveLine
<1>10. ASSUME AbortDeadlock(r) PROVE LedgerInv'
  BY <1>2, <1>10 DEF AbortDeadlock
<1>11. ASSUME FinishImportBatch(r) PROVE LedgerInv'
  <2>1. /\ pc[r] = "groups" /\ pc'[r] = "record"
        /\ UNCHANGED <<answer, nextSeq>> /\ OnlyMoves(r)
    BY <1>1, <1>11 DEF FinishImportBatch, Goto, OnlyMoves, tables
  <2>2. Writing(r) /\ ~Told(r)'
    BY <1>1, <2>1 DEF Writing, Told
  <2>3. txn'[r].batch.seq = txn[r].batch.seq
    BY <1>1, <1>11, <2>2 DEF FinishImportBatch, Txn, BatchRow
  <2>4. KeepsRun(r)
    BY <1>1, <2>1, <2>2, <2>3 DEF KeepsRun
  <2> QED
    BY <2>1, <2>2, <2>4, QuietStep
<1>12. ASSUME RecordOperation(r) PROVE LedgerInv'
  <2>1. CASE ledger[call[r].key] # None
    BY <1>12, <1>3, <2>1 DEF RecordOperation
  <2>2. CASE ledger[call[r].key] = None
    <3>1. /\ pc[r] = "record" /\ UNCHANGED <<txn, answer, nextSeq>> /\ OnlyMoves(r)
          /\ ~KeyHeld(r, call[r].key)
      BY <1>1, <1>12, <2>2 DEF RecordOperation, Goto, OnlyMoves, tables
    <3>2. Writing(r) /\ ~Told(r)'
      BY <1>1, <3>1 DEF Writing, Told
    <3>3. KeepsRun(r)
      BY <3>1, <3>2 DEF KeepsRun
    <3> QED
      BY <2>2, <3>1, <3>2, <3>3, QuietStep
  <2> QED
    BY <2>1, <2>2
<1>13. ASSUME Deliver(r) PROVE LedgerInv'
  <2>1. /\ pc[r] = "replying" /\ pc'[r] = "answered"
        /\ UNCHANGED <<nextSeq, txn, answer>> /\ OnlyMoves(r)
    BY <1>1, <1>13 DEF Deliver, Goto, OnlyMoves, tables
  <2>2. KeepsRun(r)
    BY <2>1 DEF KeepsRun, Writing
  <2> QED
    BY <1>1, <2>1, <2>2, QuietStep
<1> QED
  BY <1>5, <1>6, <1>7, <1>8, <1>9, <1>10, <1>11, <1>12, <1>13

\* A commit adds one run and the one event that names it.
LEMMA CommitLedger ==
  ASSUME LocalInv, LocalInv', LedgerInv, NEW r \in Requests, Commit(r)
  PROVE  LedgerInv'
<1> DEFINE k == call[r].key
           b == txn[r].batch
           event == [type |-> "orders_imported", store |-> StoreOf(r),
                     after |-> OutcomeOf(txn[r])]
<1>1. /\ pc \in [Requests -> Labels] /\ txn \in [Requests -> Txn]
      /\ answer \in [Requests -> Answer] /\ ledger \in [Keys -> Event \cup {None}]
      /\ batches \subseteq BatchRow /\ nextSeq \in Nat
  BY DEF LocalInv, TypeOK
<1>2. /\ pc[r] = "commit" /\ pc' = [pc EXCEPT ![r] = "replying"]
      /\ batches' = batches \cup {b} /\ ledger' = [ledger EXCEPT ![k] = event]
      /\ answer' = [answer EXCEPT ![r] = Report(OutcomeOf(txn[r]), FALSE)]
      /\ UNCHANGED <<nextSeq, call>>
  BY DEF Commit, Publish, Goto
<1>3. /\ k \in Keys /\ ledger[k] = None /\ b \in BatchRow /\ b.store = StoreOf(r)
      /\ b # None /\ Writing(r)
  BY <1>2, NoneIsNoRow DEF LedgerInv, KeyIsHeldAlone, LocalInv, Progress, Writing, Call
<1>4. /\ txn'[r].batch = b
      /\ \A q \in Requests : q # r => txn'[q] = txn[q]
  BY <1>1 DEF Commit, Txn
<1>5. /\ event # None /\ event.type = "orders_imported" /\ event.store = b.store
      /\ event.after.batch = b.seq /\ event.after.status = b.status
      /\ event.after = OutcomeOf(txn[r]) /\ event.after # None
  <2>1. OutcomeOf(txn[r]) \in Outcome
    BY <1>1, <1>3 DEF OutcomeOf, Outcome, Txn, BatchRow
  <2>2. StoreOf(r) \in Stores
    BY <1>3 DEF BatchRow
  <2>3. event \in Event
    BY <2>1, <2>2 DEF Event, EventType
  <2>4. OutcomeOf(txn[r]).batch = b.seq /\ OutcomeOf(txn[r]).status = b.status
    BY DEF OutcomeOf
  <2> QED
    BY <1>3, <2>1, <2>3, <2>4, NoneIsNoRow
<1> HIDE DEF event
<1>6. IsImport(k)' /\ \A j \in Keys \ {k} : ledger'[j] = ledger[j] /\ IsImport(j)' = IsImport(j)
  BY <1>1, <1>2, <1>3, <1>5 DEF IsImport
<1>7. ~IsImport(k)
  BY <1>3 DEF IsImport
<1>8. \A run \in batches : run.seq # b.seq
  BY <1>3 DEF LedgerInv, RunsAreFresh
<1>9. RunsAreFresh'
  <2>1. \A q \in Requests : Writing(q)' => Writing(q) /\ q # r /\ txn[q].batch # None
    BY <1>1, <1>2, NoneIsNoRow DEF Writing, LocalInv, Progress
  <2>2. \A q \in Requests : txn'[q].batch = txn[q].batch
    BY <1>4
  <2> QED
    BY <1>2, <1>3, <2>1, <2>2 DEF LedgerInv, RunsAreFresh
<1>10. KeyIsHeldAlone'
  <2>1. \A q \in Requests : pc'[q] = "commit" => /\ pc[q] = "commit" /\ q # r
                                                /\ call[q].key # k
    BY <1>1, <1>2, <1>3 DEF LedgerInv, KeyIsHeldAlone
  <2> QED
    BY <1>1, <1>2, <2>1 DEF LedgerInv, KeyIsHeldAlone
<1>11. ImportsCarryOutcomes'
  BY <1>1, <1>2, <1>3, <1>5, <1>6 DEF LedgerInv, ImportsCarryOutcomes
<1>12. RunsMatchLedger'
  <2>1. ledger'[k] = event
    BY <1>1, <1>2, <1>3
  <2>2. \A a \in batches' : \E j \in Keys :
          /\ IsImport(j)' /\ ledger'[j].store = a.store
          /\ ledger'[j].after.batch = a.seq /\ ledger'[j].after.status = a.status
    BY <1>2, <1>3, <1>5, <1>6, <1>7, <2>1 DEF LedgerInv, RunsMatchLedger
  <2>3. \A j \in Keys : IsImport(j)' => \E a \in batches' : a.seq = ledger'[j].after.batch
    BY <1>2, <1>3, <1>5, <1>6, <2>1 DEF LedgerInv, RunsMatchLedger
  <2>4. \A i, j \in Keys : IsImport(i)' /\ IsImport(j)'
          /\ ledger'[i].after.batch = ledger'[j].after.batch => i = j
    <3>1. \A j \in Keys \ {k} : IsImport(j) => ledger[j].after.batch # b.seq
      BY <1>8 DEF LedgerInv, RunsMatchLedger
    <3> QED
      BY <1>3, <1>5, <1>6, <2>1, <3>1 DEF LedgerInv, RunsMatchLedger
  <2>5. \A a, c \in batches' : a.seq = c.seq => a = c
    BY <1>2, <1>8 DEF LedgerInv, RunsMatchLedger
  <2> QED
    BY <2>2, <2>3, <2>4, <2>5 DEF RunsMatchLedger
<1>13. AnswersAreDurable'
  <2> SUFFICES ASSUME NEW q \in Requests, Told(q)'
               PROVE  /\ IsImport(call[q].key)'
                      /\ (ledger[call[q].key].store = StoreOf(q))'
                      /\ (ledger[call[q].key].after = answer[q].outcome)'
                      /\ (\E a \in batches : a.seq = answer[q].outcome.batch
                                              /\ a.status = answer[q].outcome.status)'
    BY DEF AnswersAreDurable
  <2>1. CASE q = r
    <3>1. answer'[r].outcome = OutcomeOf(txn[r]) /\ ledger'[k] = event /\ call' = call
      BY <1>1, <1>2, <1>3 DEF Report
    <3> QED
      BY <1>2, <1>3, <1>5, <1>6, <2>1, <3>1 DEF StoreOf
  <2>2. CASE q # r
    <3>1. Told(q) /\ answer'[q] = answer[q]
      BY <1>1, <1>2, <2>2 DEF Told
    <3>2. IsImport(call[q].key) /\ call[q].key \in Keys /\ call[q].key # k
      <4>1. pc[q] # "unsent"
        BY <3>1 DEF LedgerInv, OnlyRepliesTell
      <4> QED
        BY <1>7, <3>1, <4>1 DEF LedgerInv, AnswersAreDurable, LocalInv, Progress, Call
    <3>3. /\ ledger[call[q].key].store = StoreOf(q)
          /\ ledger[call[q].key].after = answer[q].outcome
          /\ \E a \in batches : a.seq = answer[q].outcome.batch
                               /\ a.status = answer[q].outcome.status
      BY <3>1 DEF LedgerInv, AnswersAreDurable
    <3>4. call' = call /\ batches \subseteq batches' /\ StoreOf(q)' = StoreOf(q)
          /\ ledger'[call[q].key] = ledger[call[q].key] /\ IsImport(call[q].key)'
      BY <1>2, <1>6, <3>2 DEF StoreOf
    <3> QED
      BY <3>1, <3>3, <3>4
  <2> QED
    BY <2>1, <2>2
<1>14. OnlyRepliesTell'
  BY <1>1, <1>2 DEF LedgerInv, OnlyRepliesTell, Told
<1> QED
  BY <1>9, <1>10, <1>11, <1>12, <1>13, <1>14 DEF LedgerInv

\* What clients, whoever changes a store, and the clock do to the ledger.
LEMMA WorldLedger ==
  ASSUME LocalInv, LocalInv', LedgerInv,
         \/ \E r \in Requests :
              Cut(r) \/ \E k \in Keys, b \in Bodies, scope \in Scopes : Send(r, k, b, scope)
         \/ \E k \in Keys, s \in Stores, fields \in SUBSET {"timezone", "managed_from"},
               zone \in TimeZones, boundary \in Boundaries :
              UpdateStoreIdentity(k, s, fields, zone, boundary)
         \/ Tick
         \/ UNCHANGED vars
  PROVE  LedgerInv'
<1>1. /\ pc \in [Requests -> Labels] /\ txn \in [Requests -> Txn]
      /\ answer \in [Requests -> Answer] /\ ledger \in [Keys -> Event \cup {None}]
      /\ call \in [Requests -> Call \cup {None}]
  BY DEF LocalInv, TypeOK
<1>2. ASSUME NEW r \in Requests, Cut(r) PROVE LedgerInv'
  <2>1. OnlyMoves(r) /\ UNCHANGED nextSeq /\ pc'[r] = "lost"
    BY <1>1, <1>2 DEF Cut, Goto, OnlyMoves, tables
  <2>2. txn'[r].batch = None \/ txn'[r].batch = txn[r].batch
    BY <1>1, <1>2 DEF Cut, NoTxn
  <2>3. ~Told(r)' /\ ~Writing(r)'
    BY <1>1, <1>2, <2>1 DEF Cut, Told, Refuse, Writing
  <2> QED
    BY <2>1, <2>2, <2>3, QuietStep DEF KeepsRun
<1>3. ASSUME NEW r \in Requests, NEW k \in Keys, NEW b \in Bodies, NEW scope \in Scopes,
             Send(r, k, b, scope)
      PROVE  LedgerInv'
  <2>1. /\ pc[r] = "unsent" /\ pc' = [pc EXCEPT ![r] = "opened"]
        /\ \A q \in Requests : q # r => call'[q] = call[q]
        /\ UNCHANGED <<tables, nextSeq, txn, answer>> /\ ~Told(r)
    BY <1>1, <1>3 DEF Send, Goto, LedgerInv, OnlyRepliesTell
  <2>2. RunsAreFresh' /\ KeyIsHeldAlone'
    BY <1>1, <2>1 DEF LedgerInv, RunsAreFresh, KeyIsHeldAlone, Writing, tables
  <2>3. ImportsCarryOutcomes' /\ RunsMatchLedger'
    BY <2>1 DEF LedgerInv, ImportsCarryOutcomes, RunsMatchLedger, IsImport, tables
  <2>4. AnswersAreDurable' /\ OnlyRepliesTell'
    BY <1>1, <2>1 DEF LedgerInv, AnswersAreDurable, OnlyRepliesTell, Told, IsImport,
                      StoreOf, tables
  <2> QED
    BY <2>2, <2>3, <2>4 DEF LedgerInv
<1>4. ASSUME NEW k \in Keys, NEW s \in Stores,
             NEW fields \in SUBSET {"timezone", "managed_from"},
             NEW zone \in TimeZones, NEW boundary \in Boundaries,
             UpdateStoreIdentity(k, s, fields, zone, boundary)
      PROVE  LedgerInv'
  <2> DEFINE event == [type |-> IF "timezone" \in fields THEN "store_timezone_changed"
                                ELSE "store_settings_updated",
                       store |-> s, after |-> None]
  <2>1. /\ ledger[k] = None /\ ledger' = [ledger EXCEPT ![k] = event]
        /\ \A q \in Requests : pc[q] = "commit" => call[q].key # k
        /\ UNCHANGED <<batches, nextSeq, pc, call, txn, answer>>
    BY <1>4 DEF UpdateStoreIdentity
  <2>2. event.type # "orders_imported"
    OBVIOUS
  <2> HIDE DEF event
  <2>3. /\ ~IsImport(k) /\ ~IsImport(k)'
        /\ \A j \in Keys \ {k} : ledger'[j] = ledger[j] /\ IsImport(j)' = IsImport(j)
    BY <1>1, <2>1, <2>2 DEF IsImport
  <2>4. RunsAreFresh' /\ OnlyRepliesTell'
    BY <2>1 DEF LedgerInv, RunsAreFresh, OnlyRepliesTell, Told, Writing
  <2>5. KeyIsHeldAlone'
    BY <1>1, <2>1 DEF LedgerInv, KeyIsHeldAlone
  <2>6. ImportsCarryOutcomes' /\ RunsMatchLedger'
    BY <2>1, <2>3 DEF LedgerInv, ImportsCarryOutcomes, RunsMatchLedger
  <2>7. AnswersAreDurable'
    <3> SUFFICES ASSUME NEW q \in Requests, Told(q)'
                 PROVE  /\ IsImport(call[q].key)'
                        /\ (ledger[call[q].key].store = StoreOf(q))'
                        /\ (ledger[call[q].key].after = answer[q].outcome)'
                        /\ (\E a \in batches : a.seq = answer[q].outcome.batch
                                                /\ a.status = answer[q].outcome.status)'
      BY DEF AnswersAreDurable
    <3>1. Told(q)
      BY <2>1 DEF Told
    <3>2. pc[q] # "unsent"
      BY <3>1 DEF LedgerInv, OnlyRepliesTell
    <3>3. IsImport(call[q].key) /\ call[q].key \in Keys /\ call[q].key # k
      BY <2>3, <3>1, <3>2 DEF LedgerInv, AnswersAreDurable, LocalInv, Progress, Call
    <3> QED
      BY <2>1, <2>3, <3>1, <3>3 DEF LedgerInv, AnswersAreDurable, StoreOf
  <2> QED
    BY <2>4, <2>5, <2>6, <2>7 DEF LedgerInv
<1>5. ASSUME Tick \/ UNCHANGED vars PROVE LedgerInv'
  <2>1. UNCHANGED <<tables, nextSeq, pc, call, txn, answer>>
    BY <1>5 DEF Tick, vars
  <2> QED
    BY <2>1 DEF LedgerInv, RunsAreFresh, KeyIsHeldAlone, ImportsCarryOutcomes,
                RunsMatchLedger, AnswersAreDurable, OnlyRepliesTell, IsImport, Told, StoreOf,
                Writing, tables
<1> QED
  BY <1>2, <1>3, <1>4, <1>5

--------------------------------------------------------------------------------
(* The theorems *)

\* Every step of the specification preserves the invariant.
LEMMA Step == LocalInv /\ LedgerInv /\ [Next]_vars => LocalInv' /\ LedgerInv'
<1> SUFFICES ASSUME LocalInv, LedgerInv, [Next]_vars PROVE LocalInv' /\ LedgerInv'
  OBVIOUS
<1>1. ImportsCarryOutcomes
  BY DEF LedgerInv
<1>2. ASSUME NEW r \in Requests, Serve(r) PROVE LocalInv' /\ LedgerInv'
  <2>1. LocalInv'
    BY <1>1, <1>2, OpenLocal, GroupsLocal, CloseLocal, CommitLocal, ClientLocal DEF Serve
  <2> QED
    BY <1>2, <2>1, ServeLedger, CommitLedger DEF Serve
<1>3. ASSUME NEW r \in Requests,
             Cut(r) \/ \E k \in Keys, b \in Bodies, scope \in Scopes : Send(r, k, b, scope)
      PROVE  LocalInv' /\ LedgerInv'
  <2>1. LocalInv'
    BY <1>3, ClientLocal
  <2> QED
    BY <1>3, <2>1, WorldLedger
<1>4. ASSUME \/ \E k \in Keys, s \in Stores, fields \in SUBSET {"timezone", "managed_from"},
                   zone \in TimeZones, boundary \in Boundaries :
                  UpdateStoreIdentity(k, s, fields, zone, boundary)
             \/ Tick
             \/ UNCHANGED vars
      PROVE  LocalInv' /\ LedgerInv'
  <2>1. LocalInv'
    BY <1>4, WorldLocal
  <2> QED
    BY <1>4, <2>1, WorldLedger
<1> QED
  BY <1>2, <1>3, <1>4 DEF Next

LEMMA Invariance == Spec => [](LocalInv /\ LedgerInv)
<1>1. Init => LocalInv /\ LedgerInv
  BY InitLocal, InitLedger
<1> QED
  BY <1>1, Step, PTL DEF Spec

\* The tables, the responses and the local variables of import_orders hold
\* values of their types, whatever the bodies, stores and clock.
THEOREM TypeCorrect == Spec => []TypeOK
<1>1. LocalInv /\ LedgerInv => TypeOK
  BY DEF LocalInv
<1> QED
  BY <1>1, Invariance, PTL

\* import_batches and the operation ledger of audit.py tell one story, however
\* many requests race, retry, deadlock or are cut.
THEOREM LedgerAgreesWithRuns == Spec => []RunsMatchLedger
<1>1. LocalInv /\ LedgerInv => RunsMatchLedger
  BY DEF LedgerInv
<1> QED
  BY <1>1, Invariance, PTL

\* Whatever import_orders answers a caller, a first outcome or a replay, is what
\* the ledger durably holds under the caller's key.
THEOREM ToldOutcomesAreDurable == Spec => []AnswersAreDurable
<1>1. LocalInv /\ LedgerInv => AnswersAreDurable
  BY DEF LedgerInv
<1> QED
  BY <1>1, Invariance, PTL

--------------------------------------------------------------------------------
(* What an open import holds, and the promise of the ledger *)

AllInv == LocalInv /\ LedgerInv /\ RowsInv

LEMMA InitRows == Init => RowsInv
  BY DEF Init, RowsInv, RefusedAtOnce, RowsAreLocked, RunsHaveOwners, NothingBeforeSend,
         Writing, NoTxn, NoRows, Holds

--------------------------------------------------------------------------------
(* The steps of one request, by what they do to its variables *)

\* It leaves without having written, and forgets its transaction.
Leaves(r) ==
  /\ pc[r] \in {"opened", "lookup", "groups", "upsert", "record"}
  /\ pc'[r] = "replying" /\ txn'[r] = NoTxn
  /\ pc[r] = "opened" /\ StoreOf(r) \notin call[r].scope => answer'[r] = Refuse("out_of_scope")

\* It goes on; only CreateImportBatch gives it a run, with a fresh batch_seq.
GoesOn(r) ==
  /\ pc[r] \in {"opened", "lookup", "create", "groups", "upsert", "record"}
  /\ pc'[r] \in {"lookup", "create", "groups", "upsert", "record", "commit"}
  /\ answer'[r] = answer[r]
  /\ pc[r] = "opened" => StoreOf(r) \in call[r].scope
  /\ pc'[r] \in {"lookup", "create"} =>
       pc[r] \in {"opened", "lookup"} /\ txn'[r].batch = txn[r].batch
  /\ Writing(r) => Writing(r)'

\* Its response reaches the client.
IsDelivered(r) == pc[r] = "replying" /\ pc'[r] = "answered" /\ UNCHANGED <<txn, answer>>

\* A request that does not commit moves alone, and leaves, goes on, or is done.
\* Only its upserts touch its rows.
LEMMA Shapes ==
  ASSUME LocalInv, NEW r \in Requests,
         \/ GetStore(r) \/ FindByOperation(r) \/ CreateImportBatch(r) \/ RejectGroup(r)
         \/ ResolveLine(r) \/ UpsertOrder(r) \/ AbortDeadlock(r) \/ FinishImportBatch(r)
         \/ RecordOperation(r) \/ Deliver(r)
  PROVE  /\ OnlyMoves(r)
         /\ Leaves(r) \/ GoesOn(r) \/ IsDelivered(r)
         /\ GoesOn(r) /\ ~UpsertOrder(r) => txn'[r].rows = txn[r].rows
<1>1. /\ pc \in [Requests -> Labels] /\ txn \in [Requests -> Txn]
      /\ answer \in [Requests -> Answer]
  BY DEF LocalInv, TypeOK
<1>2. ASSUME NEW a, Reply(r, a), UNCHANGED <<tables, call>>,
             pc[r] \in {"opened", "lookup", "groups", "upsert", "record"},
             pc[r] = "opened" /\ StoreOf(r) \notin call[r].scope => a = Refuse("out_of_scope")
      PROVE  OnlyMoves(r) /\ Leaves(r) /\ ~GoesOn(r)
  BY <1>1, <1>2 DEF Reply, Goto, OnlyMoves, Leaves, GoesOn, tables
<1>3. ASSUME GetStore(r) PROVE OnlyMoves(r) /\ (Leaves(r) \/ (GoesOn(r) /\ txn'[r].rows = txn[r].rows))
  <2>1. CASE StoreOf(r) \notin call[r].scope
    BY <1>2, <1>3, <2>1 DEF GetStore
  <2>2. CASE StoreOf(r) \in call[r].scope /\ Reply(r, Refuse("inactive"))
    BY <1>2, <1>3, <2>2 DEF GetStore, tables
  <2>3. CASE /\ StoreOf(r) \in call[r].scope /\ Goto(r, "lookup") /\ UNCHANGED answer
             /\ txn' = [txn EXCEPT ![r].store = stores[StoreOf(r)]]
    BY <1>1, <1>3, <2>3 DEF GetStore, OnlyMoves, GoesOn, Goto, Writing, tables, Txn
  <2> QED
    BY <1>3, <2>1, <2>2, <2>3 DEF GetStore
<1>4. ASSUME FindByOperation(r)
      PROVE  OnlyMoves(r) /\ (Leaves(r) \/ (GoesOn(r) /\ txn'[r].rows = txn[r].rows))
  <2>1. CASE Reply(r, ReplayOf(r))
    BY <1>2, <1>4, <2>1 DEF FindByOperation
  <2>2. CASE Goto(r, "create") /\ txn' = [txn EXCEPT ![r].stamp = now] /\ UNCHANGED answer
    BY <1>1, <1>4, <2>2 DEF FindByOperation, OnlyMoves, GoesOn, Goto, Writing, tables, Txn
  <2> QED
    BY <1>4, <2>1, <2>2 DEF FindByOperation
<1>5. ASSUME CreateImportBatch(r)
      PROVE  OnlyMoves(r) /\ GoesOn(r) /\ txn'[r].rows = txn[r].rows
  BY <1>1, <1>5 DEF CreateImportBatch, OnlyMoves, GoesOn, Goto, Writing, tables, Txn
<1>6. ASSUME RejectGroup(r)
      PROVE  OnlyMoves(r) /\ GoesOn(r) /\ txn'[r].rows = txn[r].rows
  <2>1. txn' = [txn EXCEPT ![r] = txn'[r]] /\ txn'[r].rows = txn[r].rows
    BY <1>1, <1>6 DEF RejectGroup, Txn
  <2> QED
    BY <1>1, <1>6, <2>1 DEF RejectGroup, OnlyMoves, GoesOn, Goto, Writing, tables
<1>7. ASSUME ResolveLine(r)
      PROVE  OnlyMoves(r) /\ (Leaves(r) \/ (GoesOn(r) /\ txn'[r].rows = txn[r].rows))
  <2>1. CASE \E kind \in {"not_configured", "server_error"} : Reply(r, Refuse(kind))
    BY <1>2, <1>7, <2>1 DEF ResolveLine
  <2>2. CASE Goto(r, "upsert") /\ txn' = [txn EXCEPT ![r].stamp = now] /\ UNCHANGED answer
    BY <1>1, <1>7, <2>2 DEF ResolveLine, OnlyMoves, GoesOn, Goto, Writing, tables, Txn
  <2> QED
    BY <1>7, <2>1, <2>2 DEF ResolveLine
<1>8. ASSUME UpsertOrder(r) PROVE OnlyMoves(r) /\ GoesOn(r)
  <2>1. txn' = [txn EXCEPT ![r] = txn'[r]]
    BY <1>1, <1>8 DEF UpsertOrder
  <2> QED
    BY <1>1, <1>8, <2>1 DEF UpsertOrder, OnlyMoves, GoesOn, Goto, Writing, tables
<1>9. ASSUME AbortDeadlock(r) PROVE OnlyMoves(r) /\ Leaves(r)
  <2>1. pc[r] = "upsert"
    BY <1>9 DEF AbortDeadlock, InWaitCycle, WaitsFor
  <2> QED
    BY <1>2, <1>9, <2>1 DEF AbortDeadlock
<1>10. ASSUME FinishImportBatch(r)
       PROVE  OnlyMoves(r) /\ GoesOn(r) /\ txn'[r].rows = txn[r].rows
  BY <1>1, <1>10 DEF FinishImportBatch, OnlyMoves, GoesOn, Goto, Writing, tables, Txn
<1>11. ASSUME RecordOperation(r)
       PROVE  OnlyMoves(r) /\ (Leaves(r) \/ (GoesOn(r) /\ txn'[r].rows = txn[r].rows))
  <2>1. CASE Reply(r, ReplayOf(r))
    BY <1>2, <1>11, <2>1 DEF RecordOperation
  <2>2. CASE Goto(r, "commit") /\ UNCHANGED <<txn, answer>>
    BY <1>1, <1>11, <2>2 DEF RecordOperation, OnlyMoves, GoesOn, Goto, Writing, tables
  <2> QED
    BY <1>11, <2>1, <2>2 DEF RecordOperation
<1>12. ASSUME Deliver(r) PROVE OnlyMoves(r) /\ IsDelivered(r)
  BY <1>1, <1>12 DEF Deliver, Goto, OnlyMoves, IsDelivered, tables
<1>13. ~(Leaves(r) /\ GoesOn(r)) /\ ~(IsDelivered(r) /\ GoesOn(r))
  BY DEF Leaves, GoesOn, IsDelivered
<1> QED
  BY <1>3, <1>4, <1>5, <1>6, <1>7, <1>8, <1>9, <1>10, <1>11, <1>12, <1>13
--------------------------------------------------------------------------------
(* The second invariant *)

\* What an upsert does to the rows of its transaction: one row, free until
\* then, gets the id of the committed row if there is one.
LEMMA UpsertTakesOneRow ==
  ASSUME LocalInv, NEW r \in Requests, UpsertOrder(r)
  PROVE  \E o \in OrderIds :
           /\ \A p \in OrderIds \ {o} : txn'[r].rows[p] = txn[r].rows[p]
           /\ \A q \in Requests \ {r} : ~Holds(q, StoreOf(r), o)
           /\ orders[StoreOf(r)][o] # None =>
                txn'[r].rows[o].id = orders[StoreOf(r)][o].id
<1>1. txn \in [Requests -> Txn] /\ pc[r] = "upsert" /\ txn[r].todo \subseteq DOMAIN Lines(r)
  BY DEF LocalInv, TypeOK, Progress, UpsertOrder
<1>2. PICK i \in txn[r].todo :
        /\ IsNext(r, i)
        /\ LET line == Lines(r)[i]
               old  == orders[StoreOf(r)][line.order]
               date == OrderDate(txn[r].store, line.placed)
               status == ScopeStatusFor(txn[r].store, date)
               id   == RowId(r, old)
           IN  txn' = [txn EXCEPT
                 ![r].todo = @ \ {i},
                 ![r].rows[line.order] =
                   [id |-> id, sku |-> line.sku, placed |-> line.placed,
                    order_date |-> date, scope_status |-> status,
                    posting_status |-> PostingStatusFor(status),
                    last_imported_at |-> StampOf(r, old)],
                 ![r].results = @ \cup
                   {[order |-> line.order, id |-> id, created |-> old = None]}]
  BY DEF UpsertOrder
<1> DEFINE o == Lines(r)[i].order
           old == orders[StoreOf(r)][o]
           date == OrderDate(txn[r].store, Lines(r)[i].placed)
           status == ScopeStatusFor(txn[r].store, date)
           row == [id |-> RowId(r, old), sku |-> Lines(r)[i].sku,
                   placed |-> Lines(r)[i].placed,
                   order_date |-> date, scope_status |-> status,
                   posting_status |-> PostingStatusFor(status),
                   last_imported_at |-> StampOf(r, old)]
           s == [order |-> o, id |-> RowId(r, old), created |-> old = None]
           t == [txn[r] EXCEPT !.todo = @ \ {i}, !.rows[o] = row,
                               !.results = @ \cup {s}]
<1>3. o \in OrderIds
  <2>1. call[r] \in Call
    BY <1>1 DEF LocalInv, Progress
  <2>2. Lines(r)[i] \in Line
    BY <1>1, <2>1, BodyShape DEF Call, Lines
  <2> QED
    BY <2>2 DEF Line
<1>4. txn' = [txn EXCEPT ![r] = t]
  BY <1>1, <1>2
<1>5. row.id = RowId(r, old)
  OBVIOUS
<1> HIDE DEF row, s
<1>6. t.rows = [txn[r].rows EXCEPT ![o] = row]
  BY <1>1 DEF Txn
<1> HIDE DEF t
<1>7. txn'[r].rows = [txn[r].rows EXCEPT ![o] = row] /\ DOMAIN txn[r].rows = OrderIds
  BY <1>1, <1>4, <1>6 DEF Txn
<1>8. \A q \in Requests \ {r} : ~Holds(q, StoreOf(r), o)
  BY <1>1, <1>2 DEF UpsertOrder, WaitsFor
<1>9. old # None => txn'[r].rows[o].id = old.id
  BY <1>3, <1>5, <1>7 DEF RowId
<1> HIDE DEF o, old
<1>10. \A p \in OrderIds \ {o} : txn'[r].rows[p] = txn[r].rows[p]
  BY <1>7
<1> QED
  BY <1>3, <1>8, <1>9, <1>10 DEF old

\* A request that does not commit.
LEMMA ServeRows ==
  ASSUME AllInv, NEW r \in Requests,
         \/ GetStore(r) \/ FindByOperation(r) \/ CreateImportBatch(r) \/ RejectGroup(r)
         \/ ResolveLine(r) \/ UpsertOrder(r) \/ AbortDeadlock(r) \/ FinishImportBatch(r)
         \/ RecordOperation(r) \/ Deliver(r)
  PROVE  RowsInv'
<1>1. /\ pc \in [Requests -> Labels] /\ txn \in [Requests -> Txn]
      /\ answer \in [Requests -> Answer]
  BY DEF AllInv, LocalInv, TypeOK
<1>2. OnlyMoves(r) /\ (Leaves(r) \/ GoesOn(r) \/ IsDelivered(r))
  BY Shapes DEF AllInv
<1>3. \A q \in Requests \ {r} : /\ pc'[q] = pc[q] /\ txn'[q] = txn[q]
                                /\ answer'[q] = answer[q]
  BY <1>1, <1>2 DEF OnlyMoves
<1>4. UNCHANGED <<orders, ledger, call>>
  BY <1>2 DEF OnlyMoves
<1>5. /\ NoTxn.batch = None /\ \A o \in OrderIds : NoTxn.rows[o] = None
      /\ \A o \in OrderIds : txn'[r].rows[o] # None => txn'[r] # NoTxn
  BY DEF NoTxn, NoRows
<1>6. RefusedAtOnce'
  <2> SUFFICES ASSUME NEW q \in Requests, call[q] # None, StoreOf(q) \notin call[q].scope
               PROVE  /\ pc'[q] \in {"opened", "replying", "answered", "lost"}
                      /\ txn'[q] = NoTxn
                      /\ answer'[q].kind \in {"none", "out_of_scope"}
    BY <1>4 DEF RefusedAtOnce, StoreOf
  <2>1. /\ pc[q] \in {"opened", "replying", "answered", "lost"} /\ txn[q] = NoTxn
        /\ answer[q].kind \in {"none", "out_of_scope"}
    BY DEF AllInv, RowsInv, RefusedAtOnce
  <2>2. CASE q = r
    <3>1. CASE Leaves(r)
      BY <2>1, <2>2, <3>1 DEF Leaves, Refuse
    <3>2. CASE IsDelivered(r)
      BY <2>1, <2>2, <3>2 DEF IsDelivered
    <3>3. ~GoesOn(r)
      BY <2>1, <2>2 DEF GoesOn
    <3> QED
      BY <1>2, <3>1, <3>2, <3>3
  <2> QED
    BY <1>3, <2>1, <2>2
<1>7. RowsAreLocked'
  <2>1. ASSUME NEW q \in Requests \ {r}, NEW s \in Stores, NEW o \in OrderIds
        PROVE  Holds(q, s, o)' = Holds(q, s, o)
    BY <1>3, <1>4 DEF Holds, StoreOf
  <2>2. CASE txn'[r].rows = txn[r].rows /\ (Writing(r) => Writing(r)')
    <3>1. ASSUME NEW q \in Requests, NEW s \in Stores, NEW o \in OrderIds
          PROVE  Holds(q, s, o)' = Holds(q, s, o)
      BY <1>4, <2>1, <2>2 DEF Holds, StoreOf
    <3>2. \A q \in Requests : txn'[q].rows = txn[q].rows /\ (Writing(q) => Writing(q)')
      BY <1>3, <2>2 DEF Writing
    <3> QED
      BY <1>4, <3>1, <3>2 DEF AllInv, RowsInv, RowsAreLocked, StoreOf
  <2>3. CASE Leaves(r)
    <3>1. \A s \in Stores, o \in OrderIds : ~Holds(r, s, o)' /\ txn'[r].rows[o] = None
      BY <1>5, <2>3 DEF Leaves, Holds
    <3>2. \A q \in Requests \ {r} : txn'[q].rows = txn[q].rows /\ Writing(q)' = Writing(q)
      BY <1>3 DEF Writing
    <3>3. ASSUME NEW q \in Requests, NEW o \in OrderIds, txn'[q].rows[o] # None
          PROVE  /\ Writing(q)'
                 /\ orders[StoreOf(q)][o] # None =>
                      txn'[q].rows[o].id = orders[StoreOf(q)][o].id
      <4>1. q # r
        BY <1>5, <2>3, <3>3 DEF Leaves
      <4> QED
        BY <3>2, <3>3, <4>1 DEF AllInv, RowsInv, RowsAreLocked
    <3>4. ASSUME NEW s \in Stores, NEW o \in OrderIds, NEW q1 \in Requests,
                 NEW q2 \in Requests, Holds(q1, s, o)', Holds(q2, s, o)'
          PROVE  q1 = q2
      BY <2>1, <3>1, <3>4 DEF AllInv, RowsInv, RowsAreLocked
    <3> QED
      BY <1>4, <3>3, <3>4 DEF RowsAreLocked, StoreOf
  <2>4. CASE IsDelivered(r)
    <3>1. ~Writing(r) /\ txn'[r].rows = txn[r].rows
      BY <2>4 DEF IsDelivered, Writing
    <3> QED
      BY <2>2, <3>1
  <2>5. CASE GoesOn(r) /\ ~UpsertOrder(r)
    <3>1. txn'[r].rows = txn[r].rows
      BY <2>5, Shapes DEF AllInv
    <3> QED
      BY <2>2, <2>5, <3>1 DEF GoesOn
  <2>6. CASE UpsertOrder(r)
    <3>1. PICK o \in OrderIds :
           /\ \A p \in OrderIds \ {o} : txn'[r].rows[p] = txn[r].rows[p]
           /\ \A q \in Requests \ {r} : ~Holds(q, StoreOf(r), o)
           /\ orders[StoreOf(r)][o] # None =>
                txn'[r].rows[o].id = orders[StoreOf(r)][o].id
      BY <2>6, UpsertTakesOneRow DEF AllInv
    <3>2. Writing(r) /\ Writing(r)' /\ StoreOf(r)' = StoreOf(r)
      BY <1>1, <1>4, <2>6 DEF UpsertOrder, Goto, Writing, StoreOf
    <3>3. ASSUME NEW q \in Requests, NEW p \in OrderIds, txn'[q].rows[p] # None
          PROVE  /\ Writing(q)'
                 /\ orders[StoreOf(q)][p] # None =>
                      txn'[q].rows[p].id = orders[StoreOf(q)][p].id
      <4>1. CASE q = r
        BY <3>1, <3>2, <3>3, <4>1 DEF AllInv, RowsInv, RowsAreLocked
      <4>2. CASE q # r
        BY <1>3, <3>3, <4>2 DEF AllInv, RowsInv, RowsAreLocked, Writing
      <4> QED
        BY <4>1, <4>2
    <3>4. ASSUME NEW s \in Stores, NEW p \in OrderIds, NEW q \in Requests \ {r},
                 Holds(r, s, p)', Holds(q, s, p)
          PROVE  FALSE
      <4>1. s = StoreOf(r)
        BY <3>2, <3>4 DEF Holds
      <4>2. CASE p = o
        BY <3>1, <3>4, <4>1, <4>2
      <4>3. CASE p # o
        <5>1. Holds(r, s, p)
          BY <3>1, <3>2, <3>4, <4>1, <4>3 DEF Holds
        <5> QED
          BY <3>4, <5>1 DEF AllInv, RowsInv, RowsAreLocked
      <4> QED
        BY <4>2, <4>3
    <3>5. ASSUME NEW s \in Stores, NEW p \in OrderIds, NEW q1 \in Requests,
                 NEW q2 \in Requests, Holds(q1, s, p)', Holds(q2, s, p)'
          PROVE  q1 = q2
      BY <2>1, <3>4, <3>5 DEF AllInv, RowsInv, RowsAreLocked
    <3>6. UNCHANGED <<orders, call>>
      BY <1>4
    <3> QED
      BY <3>3, <3>5, <3>6 DEF RowsAreLocked, StoreOf
  <2> QED
    BY <1>2, <2>3, <2>4, <2>5, <2>6
<1>8. RunsHaveOwners'
  <2> SUFFICES ASSUME NEW q \in Requests, txn'[q].batch # None, ~Writing(q)'
               PROVE  /\ pc'[q] \in {"replying", "answered", "lost"}
                      /\ IsImport(call[q].key)
                      /\ ledger[call[q].key].after.batch = txn'[q].batch.seq
    BY <1>4 DEF RunsHaveOwners, IsImport
  <2>1. CASE q = r /\ Leaves(r)
    BY <1>5, <2>1 DEF Leaves
  <2>2. CASE q = r /\ IsDelivered(r)
    BY <2>2 DEF AllInv, RowsInv, RunsHaveOwners, IsDelivered, Writing
  <2>3. CASE q = r /\ GoesOn(r)
    <3>1. /\ pc'[r] \in {"lookup", "create"} /\ pc[r] \in {"opened", "lookup"}
          /\ txn'[r].batch = txn[r].batch
      BY <2>3 DEF GoesOn, Writing
    <3> QED
      BY <2>3, <3>1 DEF AllInv, RowsInv, RunsHaveOwners, Writing
  <2>4. CASE q # r
    BY <1>3, <2>4 DEF AllInv, RowsInv, RunsHaveOwners, Writing
  <2> QED
    BY <1>2, <2>1, <2>2, <2>3, <2>4
<1>9. NothingBeforeSend'
  <2>1. pc'[r] # "unsent"
    BY <1>2 DEF Leaves, GoesOn, IsDelivered
  <2> QED
    BY <1>3, <2>1 DEF AllInv, RowsInv, NothingBeforeSend
<1> QED
  BY <1>6, <1>7, <1>8, <1>9 DEF RowsInv

\* What a commit writes, seen from the outside.
LEMMA CommitFacts ==
  ASSUME LocalInv, LedgerInv, NEW r \in Requests, Commit(r)
  PROVE  /\ pc[r] = "commit" /\ pc' = [pc EXCEPT ![r] = "replying"] /\ call' = call
         /\ call[r].key \in Keys /\ StoreOf(r) \in Stores /\ ledger[call[r].key] = None
         /\ ledger' = [ledger EXCEPT ![call[r].key] =
              [type |-> "orders_imported", store |-> StoreOf(r), after |-> OutcomeOf(txn[r])]]
         /\ IsImport(call[r].key)'
         /\ ledger'[call[r].key].after.batch = txn[r].batch.seq
         /\ ledger'[call[r].key] \in Event
         /\ batches' = batches \cup {txn[r].batch}
         /\ txn[r].batch \in BatchRow /\ txn[r].batch # None
         /\ txn'[r].batch = txn[r].batch
         /\ \A o \in OrderIds : txn'[r].rows[o] = None
         /\ \A q \in Requests \ {r} : txn'[q] = txn[q] /\ answer'[q] = answer[q]
<1>1. /\ pc \in [Requests -> Labels] /\ txn \in [Requests -> Txn]
      /\ answer \in [Requests -> Answer] /\ ledger \in [Keys -> Event \cup {None}]
  BY DEF LocalInv, TypeOK
<1>2. pc[r] = "commit" /\ Writing(r) /\ call[r] \in Call
  BY DEF Commit, Writing, LocalInv, Progress
<1>3. /\ call[r].key \in Keys /\ StoreOf(r) \in Stores
      /\ txn[r].batch \in BatchRow /\ txn[r].batch # None
  BY <1>2, NoneIsNoRow DEF LocalInv, Progress, Call, BatchRow
<1>4. ledger[call[r].key] = None
  BY <1>2 DEF LedgerInv, KeyIsHeldAlone
<1> DEFINE event == [type |-> "orders_imported", store |-> StoreOf(r),
                     after |-> OutcomeOf(txn[r])]
<1>5. event \in Event /\ event.type = "orders_imported"
      /\ event.after.batch = txn[r].batch.seq
  <2>1. OutcomeOf(txn[r]) \in Outcome /\ OutcomeOf(txn[r]).batch = txn[r].batch.seq
    BY <1>1, <1>3 DEF OutcomeOf, Outcome, Txn, BatchRow
  <2> QED
    BY <1>3, <2>1 DEF Event, EventType
<1>6. /\ pc' = [pc EXCEPT ![r] = "replying"] /\ call' = call
      /\ ledger' = [ledger EXCEPT ![call[r].key] = event]
      /\ batches' = batches \cup {txn[r].batch}
  BY DEF Commit, Publish, Goto
<1>7. /\ txn'[r].batch = txn[r].batch
      /\ \A o \in OrderIds : txn'[r].rows[o] = None
      /\ \A q \in Requests \ {r} : txn'[q] = txn[q] /\ answer'[q] = answer[q]
  BY <1>1 DEF Commit, Txn, NoRows
<1> HIDE DEF event
<1>8. ledger'[call[r].key] = event /\ IsImport(call[r].key)'
  BY <1>1, <1>3, <1>5, <1>6, NoneIsNoRow DEF IsImport
<1> QED
  BY <1>2, <1>3, <1>4, <1>5, <1>6, <1>7, <1>8 DEF event

LEMMA CommitRows ==
  ASSUME AllInv, NEW r \in Requests, Commit(r)
  PROVE  RowsInv'
<1>1. /\ pc \in [Requests -> Labels] /\ txn \in [Requests -> Txn]
      /\ ledger \in [Keys -> Event \cup {None}]
      /\ orders \in [Stores -> [OrderIds -> OrderRow \cup {None}]]
  BY DEF AllInv, LocalInv, TypeOK
<1>2. /\ pc[r] = "commit" /\ pc' = [pc EXCEPT ![r] = "replying"] /\ call' = call
      /\ call[r].key \in Keys /\ StoreOf(r) \in Stores /\ ledger[call[r].key] = None
      /\ \A j \in Keys \ {call[r].key} : ledger'[j] = ledger[j]
      /\ IsImport(call[r].key)' /\ ledger'[call[r].key].after.batch = txn[r].batch.seq
      /\ txn'[r].batch = txn[r].batch
      /\ \A o \in OrderIds : txn'[r].rows[o] = None
      /\ \A q \in Requests \ {r} : txn'[q] = txn[q] /\ answer'[q] = answer[q]
  BY <1>1, CommitFacts DEF AllInv
<1>3. \A q \in Requests \ {r} : pc'[q] = pc[q] /\ Writing(q)' = Writing(q)
  BY <1>1, <1>2 DEF Writing
<1>4. \A q \in Requests : pc[q] # "unsent" => call[q].key \in Keys /\ StoreOf(q) \in Stores
  <2> SUFFICES ASSUME NEW q \in Requests, pc[q] # "unsent"
               PROVE  call[q].key \in Keys /\ StoreOf(q) \in Stores
    OBVIOUS
  <2>1. call[q] \in Call
    BY DEF AllInv, LocalInv, Progress
  <2> QED
    BY <2>1, BodyShape DEF Call, StoreOf
<1>5. RefusedAtOnce'
  BY <1>2, <1>3 DEF AllInv, RowsInv, RefusedAtOnce, StoreOf
<1>6. RowsAreLocked'
  <2>1. ASSUME NEW q \in Requests, NEW o \in OrderIds, txn'[q].rows[o] # None
        PROVE  /\ Writing(q)'
               /\ orders'[StoreOf(q)][o] # None =>
                    txn'[q].rows[o].id = orders'[StoreOf(q)][o].id
    <3>1. /\ q # r /\ txn[q].rows[o] # None /\ Writing(q) /\ txn'[q] = txn[q]
          /\ orders[StoreOf(q)][o] # None => txn[q].rows[o].id = orders[StoreOf(q)][o].id
      BY <1>2, <2>1 DEF AllInv, RowsInv, RowsAreLocked
    <3>2. StoreOf(q) \in Stores
      BY <1>4, <3>1 DEF Writing
    <3>3. StoreOf(q) = StoreOf(r) => txn[r].rows[o] = None
      BY <3>1, <3>2 DEF AllInv, RowsInv, RowsAreLocked, Holds
    <3>4. orders' = [orders EXCEPT ![StoreOf(r)] =
            [p \in OrderIds |-> IF txn[r].rows[p] = None THEN @[p] ELSE txn[r].rows[p]]]
      BY DEF Commit, Publish
    <3>5. orders'[StoreOf(q)][o] = orders[StoreOf(q)][o]
      BY <1>1, <3>2, <3>3, <3>4
    <3> QED
      BY <1>3, <3>1, <3>5
  <2>2. ASSUME NEW s \in Stores, NEW o \in OrderIds, NEW q1 \in Requests,
               NEW q2 \in Requests, Holds(q1, s, o)', Holds(q2, s, o)'
        PROVE  q1 = q2
    <3>1. q1 # r /\ q2 # r
      BY <1>2, <2>2 DEF Holds
    <3>2. Holds(q1, s, o) /\ Holds(q2, s, o)
      BY <1>2, <2>2, <3>1 DEF Holds, StoreOf
    <3> QED
      BY <3>2 DEF AllInv, RowsInv, RowsAreLocked
  <2> QED
    BY <1>2, <2>1, <2>2 DEF RowsAreLocked, StoreOf
<1>7. RunsHaveOwners'
  <2> SUFFICES ASSUME NEW q \in Requests, txn'[q].batch # None, ~Writing(q)'
               PROVE  /\ pc'[q] \in {"replying", "answered", "lost"}
                      /\ IsImport(call[q].key)'
                      /\ ledger'[call[q].key].after.batch = txn'[q].batch.seq
    BY <1>2 DEF RunsHaveOwners, IsImport
  <2>1. CASE q = r
    BY <1>1, <1>2, <2>1 DEF IsImport
  <2>2. CASE q # r
    <3>1. /\ pc[q] \in {"replying", "answered", "lost"} /\ IsImport(call[q].key)
          /\ ledger[call[q].key].after.batch = txn[q].batch.seq
      BY <1>2, <1>3, <2>2 DEF AllInv, RowsInv, RunsHaveOwners
    <3>2. call[q].key \in Keys /\ call[q].key # call[r].key
      BY <1>2, <1>4, <3>1 DEF IsImport
    <3> QED
      BY <1>2, <1>3, <2>2, <3>1, <3>2 DEF IsImport
  <2> QED
    BY <2>1, <2>2
<1>8. NothingBeforeSend'
  BY <1>1, <1>2, <1>3 DEF AllInv, RowsInv, NothingBeforeSend
<1> QED
  BY <1>5, <1>6, <1>7, <1>8 DEF RowsInv

\* Clients, whoever changes a store, and the clock.
LEMMA WorldRows ==
  ASSUME AllInv,
         \/ \E r \in Requests :
              Cut(r) \/ \E k \in Keys, b \in Bodies, scope \in Scopes : Send(r, k, b, scope)
         \/ \E k \in Keys, s \in Stores, fields \in SUBSET {"timezone", "managed_from"},
               zone \in TimeZones, boundary \in Boundaries :
              UpdateStoreIdentity(k, s, fields, zone, boundary)
         \/ Tick
         \/ UNCHANGED vars
  PROVE  RowsInv'
<1>1. /\ pc \in [Requests -> Labels] /\ txn \in [Requests -> Txn]
      /\ answer \in [Requests -> Answer] /\ ledger \in [Keys -> Event \cup {None}]
      /\ call \in [Requests -> Call \cup {None}]
      /\ RefusedAtOnce /\ RowsAreLocked /\ RunsHaveOwners /\ NothingBeforeSend
  BY DEF AllInv, RowsInv, LocalInv, TypeOK
<1>2. NoTxn.batch = None /\ \A o \in OrderIds : NoTxn.rows[o] = None
  BY DEF NoTxn, NoRows
<1>3. ASSUME NEW r \in Requests, Cut(r) PROVE RowsInv'
  <2>1. /\ pc[r] \notin {"unsent", "answered", "lost"} /\ pc'[r] = "lost"
        /\ answer'[r] = Refuse("none")
        /\ txn'[r] = IF pc[r] = "replying" THEN txn[r] ELSE NoTxn
        /\ \A q \in Requests \ {r} : /\ pc'[q] = pc[q] /\ txn'[q] = txn[q]
                                     /\ answer'[q] = answer[q] /\ Writing(q)' = Writing(q)
        /\ UNCHANGED <<orders, ledger, call>>
    BY <1>1, <1>3 DEF Cut, Goto, tables, Writing
  <2>2. \A o \in OrderIds : txn'[r].rows[o] = None
    BY <1>1, <1>2, <2>1 DEF RowsAreLocked, Writing
  <2>3. RefusedAtOnce'
    BY <1>1, <2>1 DEF RefusedAtOnce, Refuse, StoreOf
  <2>4. RowsAreLocked'
    <3>1. ASSUME NEW q \in Requests, NEW o \in OrderIds, txn'[q].rows[o] # None
          PROVE  /\ Writing(q)'
                 /\ orders[StoreOf(q)][o] # None =>
                      txn'[q].rows[o].id = orders[StoreOf(q)][o].id
      BY <1>1, <2>1, <2>2, <3>1 DEF RowsAreLocked
    <3>2. ASSUME NEW s \in Stores, NEW o \in OrderIds, NEW q1 \in Requests,
                 NEW q2 \in Requests, Holds(q1, s, o)', Holds(q2, s, o)'
          PROVE  q1 = q2
      <4>1. q1 # r /\ q2 # r
        BY <2>2, <3>2 DEF Holds
      <4>2. Holds(q1, s, o) /\ Holds(q2, s, o)
        BY <2>1, <3>2, <4>1 DEF Holds, StoreOf
      <4> QED
        BY <1>1, <4>2 DEF RowsAreLocked
    <3> QED
      BY <2>1, <3>1, <3>2 DEF RowsAreLocked, StoreOf
  <2>5. RunsHaveOwners'
    <3>1. pc[r] = "replying" => ~Writing(r)
      BY DEF Writing
    <3> QED
      BY <1>1, <1>2, <2>1, <3>1 DEF RunsHaveOwners, IsImport, Writing
  <2>6. NothingBeforeSend'
    BY <1>1, <2>1 DEF NothingBeforeSend
  <2> QED
    BY <2>3, <2>4, <2>5, <2>6 DEF RowsInv
<1>4. ASSUME NEW r \in Requests, NEW k \in Keys, NEW b \in Bodies, NEW scope \in Scopes,
             Send(r, k, b, scope)
      PROVE  RowsInv'
  <2>1. /\ pc[r] = "unsent" /\ pc'[r] = "opened"
        /\ \A q \in Requests \ {r} : /\ pc'[q] = pc[q] /\ call'[q] = call[q]
                                     /\ Writing(q)' = Writing(q)
        /\ UNCHANGED <<orders, ledger, txn, answer>>
        /\ txn[r] = NoTxn /\ answer[r] = Refuse("none")
    BY <1>1, <1>4 DEF Send, Goto, tables, Writing, NothingBeforeSend
  <2>2. \A o \in OrderIds : txn[r].rows[o] = None
    BY <1>2, <2>1
  <2>3. RefusedAtOnce'
    BY <1>1, <2>1 DEF RefusedAtOnce, Refuse, StoreOf
  <2>4. RowsAreLocked'
    <3>1. ASSUME NEW q \in Requests, NEW o \in OrderIds, txn[q].rows[o] # None
          PROVE  /\ Writing(q)'
                 /\ orders[StoreOf(q)'][o] # None =>
                      txn[q].rows[o].id = orders[StoreOf(q)'][o].id
      BY <1>1, <2>1, <2>2, <3>1 DEF RowsAreLocked, StoreOf
    <3>2. ASSUME NEW s \in Stores, NEW o \in OrderIds, NEW q1 \in Requests,
                 NEW q2 \in Requests, Holds(q1, s, o)', Holds(q2, s, o)'
          PROVE  q1 = q2
      <4>1. q1 # r /\ q2 # r
        BY <2>1, <2>2, <3>2 DEF Holds
      <4>2. Holds(q1, s, o) /\ Holds(q2, s, o)
        BY <2>1, <3>2, <4>1 DEF Holds, StoreOf
      <4> QED
        BY <1>1, <4>2 DEF RowsAreLocked
    <3> QED
      BY <2>1, <3>1, <3>2 DEF RowsAreLocked, StoreOf
  <2>5. RunsHaveOwners' /\ NothingBeforeSend'
    BY <1>1, <1>2, <2>1 DEF RunsHaveOwners, NothingBeforeSend, IsImport
  <2> QED
    BY <2>3, <2>4, <2>5 DEF RowsInv
<1>5. ASSUME NEW k \in Keys, NEW s \in Stores,
             NEW fields \in SUBSET {"timezone", "managed_from"},
             NEW zone \in TimeZones, NEW boundary \in Boundaries,
             UpdateStoreIdentity(k, s, fields, zone, boundary)
      PROVE  RowsInv'
  <2>1. /\ UNCHANGED <<orders, pc, call, txn, answer>> /\ ledger[k] = None
        /\ \A j \in Keys \ {k} : ledger'[j] = ledger[j]
    BY <1>1, <1>5 DEF UpdateStoreIdentity
  <2>2. RefusedAtOnce' /\ RowsAreLocked' /\ NothingBeforeSend'
    BY <1>1, <2>1 DEF RefusedAtOnce, RowsAreLocked, NothingBeforeSend, StoreOf, Holds, Writing
  <2>3. RunsHaveOwners'
    <3> SUFFICES ASSUME NEW q \in Requests, txn[q].batch # None, ~Writing(q)
                 PROVE  /\ pc[q] \in {"replying", "answered", "lost"}
                        /\ IsImport(call[q].key)'
                        /\ ledger'[call[q].key].after.batch = txn[q].batch.seq
      BY <2>1 DEF RunsHaveOwners, Writing, IsImport
    <3>1. /\ pc[q] \in {"replying", "answered", "lost"} /\ IsImport(call[q].key)
          /\ ledger[call[q].key].after.batch = txn[q].batch.seq
      BY <1>1 DEF RunsHaveOwners
    <3>2. call[q] \in Call
      BY <3>1 DEF AllInv, LocalInv, Progress
    <3>3. call[q].key \in Keys /\ call[q].key # k
      BY <2>1, <3>1, <3>2 DEF Call, IsImport
    <3> QED
      BY <2>1, <3>1, <3>3 DEF IsImport
  <2> QED
    BY <2>2, <2>3 DEF RowsInv
<1>6. ASSUME Tick \/ UNCHANGED vars PROVE RowsInv'
  <2>1. UNCHANGED <<orders, ledger, pc, call, txn, answer>>
    BY <1>6 DEF Tick, vars, tables
  <2> QED
    BY <1>1, <2>1 DEF RowsInv, RefusedAtOnce, RowsAreLocked, RunsHaveOwners,
                      NothingBeforeSend, StoreOf, Holds, Writing, IsImport
<1> QED
  BY <1>3, <1>4, <1>5, <1>6

LEMMA StepAll == AllInv /\ [Next]_vars => AllInv'
<1> SUFFICES ASSUME AllInv, [Next]_vars PROVE AllInv'
  OBVIOUS
<1>1. LocalInv' /\ LedgerInv'
  BY Step DEF AllInv
<1>2. ASSUME NEW r \in Requests, Serve(r) PROVE RowsInv'
  BY <1>2, ServeRows, CommitRows DEF Serve
<1>3. ~(\E r \in Requests : Serve(r)) => RowsInv'
  BY WorldRows DEF Next
<1> QED
  BY <1>1, <1>2, <1>3 DEF AllInv

LEMMA InvarianceAll == Spec => []AllInv
<1>1. Init => AllInv
  BY InitLocal, InitLedger, InitRows DEF AllInv
<1> QED
  BY <1>1, StepAll, PTL DEF Spec

\* No request reads, writes or reports anything of a store outside its scope,
\* whatever was recorded under the key it carries.
THEOREM ScopeIsRespected == Spec => []OutOfScopeIsNotFound
<1>1. AllInv => OutOfScopeIsNotFound
  BY DEF AllInv, RowsInv, RefusedAtOnce, OutOfScopeIsNotFound
<1> QED
  BY <1>1, InvarianceAll, PTL

--------------------------------------------------------------------------------
(* What is committed stays *)

LEMMA StepKeeps ==
  ASSUME AllInv, [Next]_vars
  PROVE  /\ batches \subseteq batches' /\ importErrors \subseteq importErrors'
         /\ \A k \in Keys : ledger[k] # None => ledger'[k] = ledger[k]
         /\ \A s \in Stores, o \in OrderIds : orders[s][o] # None =>
              orders'[s][o] # None /\ orders'[s][o].id = orders[s][o].id
<1>1. /\ ledger \in [Keys -> Event \cup {None}]
      /\ orders \in [Stores -> [OrderIds -> OrderRow \cup {None}]]
  BY DEF AllInv, LocalInv, TypeOK
<1>2. ASSUME UNCHANGED <<orders, batches, importErrors, ledger>>
      PROVE  /\ batches \subseteq batches' /\ importErrors \subseteq importErrors'
             /\ \A k \in Keys : ledger[k] # None => ledger'[k] = ledger[k]
             /\ \A s \in Stores, o \in OrderIds : orders[s][o] # None =>
                  orders'[s][o] # None /\ orders'[s][o].id = orders[s][o].id
  BY <1>2
<1>3. ASSUME NEW r \in Requests, Serve(r), ~Commit(r)
      PROVE  UNCHANGED <<orders, batches, importErrors, ledger>>
  BY <1>3, Shapes DEF Serve, AllInv, OnlyMoves
<1>4. ASSUME NEW r \in Requests, Commit(r)
      PROVE  /\ batches \subseteq batches' /\ importErrors \subseteq importErrors'
             /\ \A k \in Keys : ledger[k] # None => ledger'[k] = ledger[k]
             /\ \A s \in Stores, o \in OrderIds : orders[s][o] # None =>
                  orders'[s][o] # None /\ orders'[s][o].id = orders[s][o].id
  <2>1. batches \subseteq batches' /\ importErrors \subseteq importErrors'
    BY <1>4 DEF Commit, Publish
  <2>2. \A k \in Keys : ledger[k] # None => ledger'[k] = ledger[k]
    BY <1>1, <1>4, CommitFacts DEF AllInv
  <2>3. orders' = [orders EXCEPT ![StoreOf(r)] =
          [p \in OrderIds |-> IF txn[r].rows[p] = None THEN @[p] ELSE txn[r].rows[p]]]
    BY <1>4 DEF Commit, Publish
  <2>4. ASSUME NEW s \in Stores, NEW o \in OrderIds, orders[s][o] # None
        PROVE  orders'[s][o] # None /\ orders'[s][o].id = orders[s][o].id
    <3>1. CASE s = StoreOf(r) /\ txn[r].rows[o] # None
      BY <1>1, <2>3, <2>4, <3>1 DEF AllInv, RowsInv, RowsAreLocked
    <3>2. CASE s # StoreOf(r) \/ txn[r].rows[o] = None
      BY <1>1, <2>3, <2>4, <3>2
    <3> QED
      BY <3>1, <3>2
  <2> QED
    BY <2>1, <2>2, <2>4
<1>5. ASSUME NEW k \in Keys, NEW s \in Stores,
             NEW fields \in SUBSET {"timezone", "managed_from"},
             NEW zone \in TimeZones, NEW boundary \in Boundaries,
             UpdateStoreIdentity(k, s, fields, zone, boundary)
      PROVE  /\ UNCHANGED <<orders, batches, importErrors>>
             /\ \A j \in Keys : ledger[j] # None => ledger'[j] = ledger[j]
  BY <1>1, <1>5 DEF UpdateStoreIdentity
<1>6. ASSUME \/ \E r \in Requests : Cut(r)
             \/ \E r \in Requests, k \in Keys, b \in Bodies, scope \in Scopes :
                  Send(r, k, b, scope)
             \/ Tick \/ UNCHANGED vars
      PROVE  UNCHANGED <<orders, batches, importErrors, ledger>>
  BY <1>6 DEF Cut, Send, Tick, vars, tables
<1>7. CASE \E r \in Requests : Serve(r)
  BY <1>2, <1>3, <1>4, <1>7
<1>8. CASE \E k \in Keys, s \in Stores, fields \in SUBSET {"timezone", "managed_from"},
             zone \in TimeZones, boundary \in Boundaries :
            UpdateStoreIdentity(k, s, fields, zone, boundary)
  BY <1>5, <1>8
<1> QED
  BY <1>2, <1>6, <1>7, <1>8 DEF Next

\* No import ever alters or withdraws a ledger entry, a run or an import error,
\* and a refresh keeps the row it finds and its id, however many transactions
\* wait for that row.
THEOREM CommittedStays == Spec => CommittedIsKept
<1>1. AllInv /\ [Next]_vars =>
        [/\ batches \subseteq batches' /\ importErrors \subseteq importErrors'
         /\ \A k \in Keys : ledger[k] # None => ledger'[k] = ledger[k]
         /\ \A s \in Stores, o \in OrderIds : orders[s][o] # None =>
              orders'[s][o] # None /\ orders'[s][o].id = orders[s][o].id]_vars
  BY StepKeeps
<1> QED
  BY <1>1, InvarianceAll, PTL DEF Spec, CommittedIsKept

--------------------------------------------------------------------------------
(* The refinement *)

\* Some request sent under k opened run n.
HasRun(k, n) ==
  \E r \in Requests : /\ call[r] # None /\ call[r].key = k
                      /\ txn[r].batch # None /\ txn[r].batch.seq = n

\* Under each key the one visible run is the one its ledger entry names.
LEMMA OneRunPerKey ==
  ASSUME LedgerInv, RowsInv, NEW k \in Keys, NEW n \in RunsUnder[k]
  PROVE  IsImport(k) /\ n = ledger[k].after.batch
<1>1. PICK b \in batches : b.seq = n /\ HasRun(k, b.seq)
  BY DEF RunsUnder, HasRun
<1>2. PICK r \in Requests : call[r].key = k /\ txn[r].batch # None /\ txn[r].batch.seq = n
  BY <1>1 DEF HasRun
<1>3. ~Writing(r)
  BY <1>1, <1>2 DEF LedgerInv, RunsAreFresh
<1> QED
  BY <1>2, <1>3 DEF RowsInv, RunsHaveOwners

LEMMA RunsUnderSame ==
  ASSUME batches' = batches,
         \A k \in Keys : \A b \in batches : HasRun(k, b.seq)' = HasRun(k, b.seq)
  PROVE  RunsUnder' = RunsUnder
<1>1. RunsUnder = [k \in Keys |-> {b.seq : b \in {c \in batches : HasRun(k, c.seq)}}]
  BY DEF RunsUnder, HasRun
<1>2. RunsUnder' = [k \in Keys |-> {b.seq : b \in {c \in batches' : HasRun(k, c.seq)'}}]
  BY DEF RunsUnder, HasRun
<1>3. \A k \in Keys : {c \in batches' : HasRun(k, c.seq)'} = {c \in batches : HasRun(k, c.seq)}
  OBVIOUS
<1> QED
  BY <1>1, <1>2, <1>3

LEMMA PromiseInit == Init => Promise!Init
  BY DEF Init, Promise!Init, RunsUnder, ToldTo

\* A request that leaves, goes on, or is cut changes nothing the promise sees.
LEMMA QuietForPromise ==
  ASSUME AllInv, AllInv', NEW r \in Requests, UNCHANGED <<ledger, batches, call>>,
         \A q \in Requests \ {r} : /\ pc'[q] = pc[q] /\ txn'[q] = txn[q]
                                 /\ answer'[q] = answer[q],
         pc[r] # "answered", pc'[r] # "answered",
         \/ Leaves(r) \/ GoesOn(r)
         \/ txn'[r] = NoTxn /\ pc[r] \notin {"replying", "lost"}
         \/ txn'[r] = txn[r]
  PROVE  UNCHANGED <<ledger, RunsUnder, ToldTo>>
<1>1. UNCHANGED ToldTo
  <2>1. ToldTo = [q \in Requests |->
          IF pc[q] = "answered" /\ Told(q)
          THEN [key |-> call[q].key,
                outcome |-> [type |-> "orders_imported", store |-> StoreOf(q),
                             after |-> answer[q].outcome]]
          ELSE None]
    BY DEF ToldTo
  <2>2. ToldTo' = [q \in Requests |->
          IF pc'[q] = "answered" /\ Told(q)'
          THEN [key |-> call[q].key,
                outcome |-> [type |-> "orders_imported", store |-> StoreOf(q),
                             after |-> answer'[q].outcome]]
          ELSE None]
    BY DEF ToldTo, StoreOf
  <2> QED
    BY <2>1, <2>2 DEF Told
<1>2. UNCHANGED RunsUnder
  <2> SUFFICES ASSUME NEW k \in Keys, NEW b \in batches
               PROVE  HasRun(k, b.seq)' = HasRun(k, b.seq)
    BY RunsUnderSame
  <2>1. CASE txn'[r] = txn[r]
    BY <2>1 DEF HasRun
  <2>2. CASE txn'[r] # txn[r]
    <3>1. txn[r].batch # None /\ pc[r] # "replying" => txn[r].batch.seq # b.seq
      <4>1. CASE Writing(r)
        BY <4>1 DEF AllInv, LedgerInv, RunsAreFresh
      <4>2. CASE ~Writing(r) /\ pc[r] \notin {"replying", "answered", "lost"}
        BY <4>2 DEF AllInv, RowsInv, RunsHaveOwners
      <4>3. pc[r] # "lost"
        BY <2>2 DEF Leaves, GoesOn
      <4> QED
        BY <4>1, <4>2, <4>3
    <3>2. pc[r] # "replying"
      BY <2>2 DEF Leaves, GoesOn
    <3>3. txn'[r].batch # None => txn'[r].batch.seq # b.seq
      <4>1. CASE Writing(r)'
        BY <4>1 DEF AllInv, LedgerInv, RunsAreFresh
      <4>2. CASE ~Writing(r)'
        BY <2>2, <4>2, <3>1, <3>2 DEF Leaves, GoesOn, NoTxn, Writing
      <4> QED
        BY <4>1, <4>2
    <3> QED
      BY <3>1, <3>2, <3>3 DEF HasRun
  <2> QED
    BY <2>1, <2>2
<1> QED
  BY <1>1, <1>2

\* A commit performs the operation of its key.
LEMMA CommitPerforms ==
  ASSUME AllInv, AllInv', NEW r \in Requests, Commit(r)
  PROVE  Promise!Next
<1> PICK k \in Keys, n \in Nat : k = call[r].key /\ n = txn[r].batch.seq
  BY CommitFacts DEF AllInv, BatchRow
<1>1. /\ ledger \in [Keys -> Event \cup {None}] /\ pc \in [Requests -> Labels]
      /\ batches \subseteq BatchRow
  BY DEF AllInv, LocalInv, TypeOK
<1>2. /\ pc[r] = "commit" /\ pc' = [pc EXCEPT ![r] = "replying"] /\ call' = call
      /\ k \in Keys /\ ledger[k] = None /\ ledger'[k] \in Event
      /\ ledger' = [ledger EXCEPT ![k] =
              [type |-> "orders_imported", store |-> StoreOf(r), after |-> OutcomeOf(txn[r])]]
      /\ batches' = batches \cup {txn[r].batch} /\ txn[r].batch \in BatchRow
      /\ txn'[r].batch = txn[r].batch
      /\ \A q \in Requests \ {r} : txn'[q] = txn[q] /\ answer'[q] = answer[q]
  BY CommitFacts DEF AllInv
<1>3. ledger' = [ledger EXCEPT ![k] = ledger'[k]]
  BY <1>1, <1>2
<1>4. UNCHANGED ToldTo
  BY <1>1, <1>2 DEF ToldTo, Told, StoreOf
<1>5. \A j \in Keys : \A m : HasRun(j, m)' = HasRun(j, m)
  BY <1>2 DEF HasRun
<1>6. \A j \in Keys : RunsUnder[j] = {b.seq : b \in {c \in batches : HasRun(j, c.seq)}}
  BY DEF RunsUnder, HasRun
<1>7. \A j \in Keys : RunsUnder'[j] = {b.seq : b \in {c \in batches' : HasRun(j, c.seq)'}}
  BY DEF RunsUnder, HasRun
<1>8. \A j \in Keys \ {k} : RunsUnder'[j] = RunsUnder[j]
  <2> SUFFICES ASSUME NEW j \in Keys \ {k}
               PROVE  {c \in batches' : HasRun(j, c.seq)'} = {c \in batches : HasRun(j, c.seq)}
    BY <1>6, <1>7
  <2>1. ASSUME NEW q \in Requests, txn[q].batch # None, txn[q].batch.seq = n PROVE q = r
    <3>1. txn[r].batch # None
      BY <1>2, NoneIsNoRow
    <3> QED
      BY <2>1, <3>1 DEF AllInv, LedgerInv, RunsAreFresh
  <2>2. ~HasRun(j, n)
    BY <2>1 DEF HasRun
  <2>3. ~HasRun(j, txn[r].batch.seq)'
    BY <1>2, <1>5, <2>2
  <2> QED
    BY <1>2, <1>5, <2>3
<1>9. \A m \in RunsUnder'[k] : m \in Nat /\ m = ledger'[k].after.batch
  <2>1. LedgerInv' /\ RowsInv' /\ batches' \subseteq BatchRow
    BY <1>1, <1>2 DEF AllInv
  <2>2. ASSUME NEW m \in RunsUnder'[k] PROVE m = ledger'[k].after.batch
    <3>1. PICK b \in batches' : b.seq = m /\ HasRun(k, b.seq)'
      BY <1>2, <1>7
    <3>2. PICK q \in Requests : /\ call'[q].key = k /\ txn'[q].batch # None
                               /\ txn'[q].batch.seq = m
      BY <3>1 DEF HasRun
    <3>3. ~Writing(q)'
      BY <2>1, <3>1, <3>2 DEF LedgerInv, RunsAreFresh
    <3> QED
      BY <2>1, <3>2, <3>3 DEF RowsInv, RunsHaveOwners
  <2>3. \A m \in RunsUnder'[k] : m \in Nat
    BY <1>2, <1>7, <2>1 DEF BatchRow
  <2> QED
    BY <2>2, <2>3
<1>10. RunsUnder' = [RunsUnder EXCEPT ![k] = RunsUnder'[k]]
  <2>1. RunsUnder' = [j \in Keys |-> RunsUnder'[j]] /\ RunsUnder = [j \in Keys |-> RunsUnder[j]]
    BY DEF RunsUnder
  <2> QED
    BY <1>8, <2>1
<1>11. Promise!Perform(k)
  BY <1>2, <1>3, <1>4, <1>9, <1>10 DEF Promise!Perform
<1> QED
  BY <1>2, <1>11 DEF Promise!Next

\* A response that reaches its client tells what is recorded, or nothing.
LEMMA DeliverTells ==
  ASSUME AllInv, NEW r \in Requests, Deliver(r)
  PROVE  Promise!Next \/ UNCHANGED <<ledger, RunsUnder, ToldTo>>
<1> DEFINE k == call[r].key
           note == [key |-> k,
                    outcome |-> [type |-> "orders_imported", store |-> StoreOf(r),
                                 after |-> answer[r].outcome]]
<1>1. /\ pc[r] = "replying" /\ pc' = [pc EXCEPT ![r] = "answered"]
      /\ UNCHANGED <<ledger, batches, call, txn, answer>> /\ pc \in [Requests -> Labels]
      /\ ledger \in [Keys -> Event \cup {None}]
  BY DEF Deliver, Goto, tables, AllInv, LocalInv, TypeOK
<1>2. UNCHANGED RunsUnder
  BY <1>1, RunsUnderSame DEF HasRun
<1>3. CASE ~Told(r)
  <2>1. UNCHANGED ToldTo
    BY <1>1, <1>3 DEF ToldTo, Told, StoreOf
  <2> QED
    BY <1>1, <1>2, <2>1
<1>4. CASE Told(r)
  <2>1. ToldTo[r] = None /\ ToldTo' = [ToldTo EXCEPT ![r] = note]
    BY <1>1, <1>4 DEF ToldTo, Told, StoreOf
  <2>2. /\ IsImport(k) /\ ledger[k].store = StoreOf(r)
        /\ ledger[k].after = answer[r].outcome
    BY <1>4 DEF AllInv, LedgerInv, AnswersAreDurable
  <2>3. k \in Keys
    BY <1>1 DEF AllInv, LocalInv, Progress, Call
  <2>4. ledger[k] \in Event /\ ledger[k].type = "orders_imported" /\ ledger[k] # None
    BY <1>1, <2>2, <2>3 DEF IsImport
  <2>5. ledger[k] = note.outcome
    BY <2>2, <2>4 DEF Event
  <2> HIDE DEF k
  <2>6. Promise!Tell(r, k)
    BY <1>1, <1>2, <2>1, <2>4, <2>5 DEF Promise!Tell
  <2> QED
    BY <2>3, <2>6 DEF Promise!Next
<1> QED
  BY <1>3, <1>4

\* A settings change spends its key without leaving a run.
LEMMA UpdatePerforms ==
  ASSUME AllInv, NEW k \in Keys, NEW s \in Stores,
         NEW fields \in SUBSET {"timezone", "managed_from"},
         NEW zone \in TimeZones, NEW boundary \in Boundaries,
         UpdateStoreIdentity(k, s, fields, zone, boundary)
  PROVE  Promise!Next
<1> DEFINE event == [type |-> IF "timezone" \in fields THEN "store_timezone_changed"
                              ELSE "store_settings_updated",
                     store |-> s, after |-> None]
<1>1. /\ ledger[k] = None /\ ledger' = [ledger EXCEPT ![k] = event] /\ event \in Event
      /\ UNCHANGED <<batches, pc, call, txn, answer>>
      /\ ledger \in [Keys -> Event \cup {None}]
  BY DEF UpdateStoreIdentity, AllInv, LocalInv, TypeOK, Event, EventType
<1> HIDE DEF event
<1>2. UNCHANGED RunsUnder /\ UNCHANGED ToldTo
  BY <1>1, RunsUnderSame DEF HasRun, ToldTo, Told, StoreOf
<1>3. RunsUnder[k] = {}
  BY <1>1, OneRunPerKey DEF AllInv, IsImport
<1>4. RunsUnder' = [RunsUnder EXCEPT ![k] = RunsUnder'[k]]
  BY <1>2 DEF RunsUnder
<1>5. Promise!Perform(k)
  BY <1>1, <1>2, <1>3, <1>4 DEF Promise!Perform
<1> QED
  BY <1>5 DEF Promise!Next

LEMMA PromiseStep ==
  ASSUME AllInv, AllInv', [Next]_vars
  PROVE  Promise!Next \/ UNCHANGED <<ledger, RunsUnder, ToldTo>>
<1>1. /\ pc \in [Requests -> Labels] /\ txn \in [Requests -> Txn]
      /\ answer \in [Requests -> Answer] /\ call \in [Requests -> Call \cup {None}]
  BY DEF AllInv, LocalInv, TypeOK
<1>2. ASSUME NEW r \in Requests, Serve(r), ~Commit(r), ~Deliver(r)
      PROVE  UNCHANGED <<ledger, RunsUnder, ToldTo>>
  <2>1. OnlyMoves(r) /\ (Leaves(r) \/ GoesOn(r) \/ IsDelivered(r))
    BY <1>2, Shapes DEF Serve, AllInv
  <2>2. /\ UNCHANGED <<ledger, batches, call>>
        /\ \A q \in Requests \ {r} : /\ pc'[q] = pc[q] /\ txn'[q] = txn[q]
                                    /\ answer'[q] = answer[q]
    BY <1>1, <2>1 DEF OnlyMoves
  <2>3. pc[r] # "replying"
    BY <1>2 DEF Serve, GetStore, FindByOperation, CreateImportBatch, RejectGroup, ResolveLine,
                UpsertOrder, AbortDeadlock, InWaitCycle, WaitsFor, FinishImportBatch,
                RecordOperation
  <2>4. Leaves(r) \/ GoesOn(r)
    BY <2>1, <2>3 DEF IsDelivered
  <2>5. pc[r] # "answered" /\ pc'[r] # "answered"
    BY <2>4 DEF Leaves, GoesOn
  <2> QED
    BY <2>2, <2>4, <2>5, QuietForPromise
<1>3. ASSUME NEW r \in Requests, Cut(r) PROVE UNCHANGED <<ledger, RunsUnder, ToldTo>>
  <2>1. /\ UNCHANGED <<ledger, batches, call>>
        /\ \A q \in Requests \ {r} : /\ pc'[q] = pc[q] /\ txn'[q] = txn[q]
                                    /\ answer'[q] = answer[q]
        /\ pc[r] \notin {"answered", "lost"} /\ pc'[r] = "lost"
        /\ txn'[r] = IF pc[r] = "replying" THEN txn[r] ELSE NoTxn
    BY <1>1, <1>3 DEF Cut, Goto, tables
  <2> QED
    BY <2>1, QuietForPromise
<1>4. ASSUME NEW r \in Requests, NEW k \in Keys, NEW b \in Bodies, NEW scope \in Scopes,
             Send(r, k, b, scope)
      PROVE  UNCHANGED <<ledger, RunsUnder, ToldTo>>
  <2>1. /\ pc[r] = "unsent" /\ pc'[r] = "opened" /\ txn[r].batch = None
        /\ \A q \in Requests \ {r} : pc'[q] = pc[q] /\ call'[q] = call[q]
        /\ UNCHANGED <<ledger, batches, txn, answer>>
    BY <1>1, <1>4 DEF Send, Goto, tables, AllInv, RowsInv, NothingBeforeSend, NoTxn
  <2>2. UNCHANGED ToldTo
    BY <2>1 DEF ToldTo, Told, StoreOf
  <2>3. UNCHANGED RunsUnder
    BY <2>1, RunsUnderSame DEF HasRun
  <2> QED
    BY <2>1, <2>2, <2>3
<1>5. ASSUME Tick \/ UNCHANGED vars PROVE UNCHANGED <<ledger, RunsUnder, ToldTo>>
  <2>1. UNCHANGED <<ledger, batches, pc, call, txn, answer>>
    BY <1>5 DEF Tick, vars, tables
  <2> QED
    BY <2>1, RunsUnderSame DEF HasRun, ToldTo, Told, StoreOf
<1>6. CASE \E r \in Requests : Serve(r)
  BY <1>2, <1>6, CommitPerforms, DeliverTells
<1>7. CASE \E k \in Keys, s \in Stores, fields \in SUBSET {"timezone", "managed_from"},
             zone \in TimeZones, boundary \in Boundaries :
            UpdateStoreIdentity(k, s, fields, zone, boundary)
  BY <1>7, UpdatePerforms
<1> QED
  BY <1>3, <1>4, <1>5, <1>6, <1>7 DEF Next

\* Imports keep what audit.py promises of operation_id: under each key at most
\* one run takes effect, in the step that records its outcome, and every caller
\* that is told an outcome, by the first response or by any replay, is told
\* that one.
THEOREM ImportsKeepThePromise == Spec => EffectOnce
<1>1. AllInv /\ AllInv' /\ [Next]_vars => [Promise!Next]_(Promise!ledgerVars)
  BY PromiseStep DEF Promise!ledgerVars
<1> QED
  BY <1>1, PromiseInit, InvarianceAll, PTL DEF Spec, EffectOnce, Promise!Spec
===============================================================================
