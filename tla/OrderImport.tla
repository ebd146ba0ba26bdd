------------------------------ MODULE OrderImport ------------------------------
(***************************************************************************)
(* POST /imports/orders: the service import_orders, the statements it runs *)
(* through orders/repository.py, and the operation ledger of audit.py.     *)
(*                                                                         *)
(* A request runs inside one READ COMMITTED transaction of a pooled        *)
(* connection.  Every statement is a step of its own, so other requests    *)
(* commit between two statements of the same import.  What a transaction   *)
(* has written and not committed lives in txn[r] and nobody else reads it; *)
(* a row it has upserted and an operation_id it has inserted stay locked   *)
(* until it ends.  A request may be cut at any step; its client may send   *)
(* the same body under the same Idempotency-Key again, at once or later,   *)
(* as another member of Requests.                                          *)
(***************************************************************************)
EXTENDS Integers, Sequences, FiniteSets

CONSTANTS
  Requests,       \* HTTP calls, each retry being a call of its own
  Keys,           \* Idempotency-Key values
  Stores,
  OrderIds,       \* walmart_order_id values
  Skus,           \* stands for every field an upsert copies from the line
  Bodies,         \* request bodies that pass validation
  Scopes,         \* store scopes request_scope may resolve
  TimeZones,      \* UTC offsets in hours
  Boundaries,     \* managed_from months, each as the day it starts
  NoDate,         \* a managed_from whose year date() refuses
  Settings,       \* configurations a store may start with
  MaxNow,         \* bound on the clock
  None            \* SQL NULL, Python None

ASSUME NoneIsFresh ==
  /\ \A s \in Scopes : s \subseteq Stores
  /\ TimeZones \subseteq Int /\ Boundaries \subseteq Int \cup {NoDate}
  /\ None \notin Int \cup {NoDate} /\ MaxNow \in Nat

\* A line may pass validation and still make import_orders raise: its instant
\* carries no offset, or its amount is not finite.
Flaw == {"none", "no_offset", "not_finite"}
Line == [order : OrderIds, sku : Skus, placed : Int, flaw : Flaw]

ASSUME BodiesAreValid ==
  Bodies \subseteq [store : Stores, lines : Seq(Line) \ {<<>>}]

Config == [is_active : BOOLEAN, timezone : TimeZones \cup {None},
           managed_from : Boundaries \cup {None}]

ASSUME SettingsAreConfigs == Settings \subseteq Config

VARIABLES
  stores,         \* table stores: configuration of each store
  orders,         \* table orders, keyed by (store_id, walmart_order_id)
  batches,        \* table import_batches
  importErrors,   \* table import_errors
  ledger,         \* table audit_events, keyed by operation_id
  now,            \* clock.utc_now()
  nextSeq,        \* import_batches.batch_seq, an identity column
  pc,             \* where each request stands
  call,           \* what each request was sent with
  txn,            \* local variables and uncommitted writes of each request
  answer          \* the response each request computed

tables == <<stores, orders, batches, importErrors, ledger>>
vars == <<tables, now, nextSeq, pc, call, txn, answer>>

--------------------------------------------------------------------------------
(* Rows, events and responses *)

ScopeStatus == {"managed", "pre_onboarding"}
PostingStatus == {"out_of_scope", "unpostable_no_period"}

OrderRow == [id : Nat, sku : Skus, placed : Int, order_date : Int,
             scope_status : ScopeStatus, posting_status : PostingStatus,
             last_imported_at : Nat]

RunStatus == {"processing", "completed", "partial", "failed"}

BatchRow == [seq : Nat, store : Stores, status : RunStatus, started_at : Nat,
             finished_at : Nat \cup {None}, row_count : Nat,
             success_count : Nat, error_count : Nat]

ErrorCode == {"MULTIPLE_SKUS_FOR_ORDER", "DUPLICATE_ORDER_LINE"}
Rejection == [order : OrderIds, code : ErrorCode]
Summary == [order : OrderIds, id : Nat, created : BOOLEAN]
ErrorRow == [batch : Nat, order : OrderIds, code : ErrorCode]

Outcome == [batch : Nat, status : RunStatus, orders : SUBSET Summary,
            errors : SUBSET Rejection]

EventType == {"orders_imported", "store_settings_updated", "store_timezone_changed"}
Event == [type : EventType, store : Stores, after : Outcome \cup {None}]

AnswerKind == {"none", "accepted", "rejected", "out_of_scope", "inactive",
               "not_configured", "conflict", "server_error"}
Answer == [kind : AnswerKind, outcome : Outcome \cup {None}, replayed : BOOLEAN]

Call == [key : Keys, body : Bodies, scope : Scopes]

ASSUME NoneIsNoRow ==
  /\ None \notin OrderRow /\ None \notin BatchRow /\ None \notin Event
  /\ None \notin Outcome /\ None \notin Call

NoRows == [o \in OrderIds |-> None]
Txn == [store : Config \cup {None}, todo : SUBSET Nat, batch : BatchRow \cup {None},
        rows : [OrderIds -> OrderRow \cup {None}], results : SUBSET Summary,
        errors : SUBSET Rejection, stamp : Nat]
NoTxn == [store |-> None, todo |-> {}, batch |-> None, rows |-> NoRows,
          results |-> {}, errors |-> {}, stamp |-> 0]

Refuse(kind) == [kind |-> kind, outcome |-> None, replayed |-> FALSE]
Report(outcome, replayed) ==
  [kind |-> IF outcome.status = "failed" THEN "rejected" ELSE "accepted",
   outcome |-> outcome, replayed |-> replayed]

--------------------------------------------------------------------------------
(* What import_orders computes from its arguments *)

Lines(r) == call[r].body.lines
StoreOf(r) == call[r].body.store

\* The lines of the submitted batch that carry the order id of line i.
Group(lines, i) == {j \in DOMAIN lines : lines[j].order = lines[i].order}
SkusOf(lines, i) == {lines[j].sku : j \in Group(lines, i)}
\* One position per distinct order id, where it is first seen.
EveryLine(lines) == DOMAIN lines    \* fault: groups counted per line
FirstSeen(lines) == {i \in DOMAIN lines : \A j \in Group(lines, i) : i <= j}

\* The group the loop is at: groups are visited in first-seen order.
IsNext(r, i) == i \in txn[r].todo /\ \A j \in txn[r].todo : i <= j

HoursPerDay == 24
OrderDate(config, instant) == (instant + config.timezone) \div HoursPerDay
ScopeStatusFor(config, date) ==
  IF date >= config.managed_from THEN "managed" ELSE "pre_onboarding"
ScopeAsPosting(status) == status    \* fault: the two status columns swapped
PostingStatusFor(status) ==
  IF status = "pre_onboarding" THEN "out_of_scope" ELSE "unpostable_no_period"

RunOutcome(results, errors) ==
  IF results = {} /\ errors # {} THEN "failed"
  ELSE IF errors = {} THEN "completed" ELSE "partial"

OutcomeOf(t) == [batch |-> t.batch.seq, status |-> t.batch.status,
                 orders |-> t.results, errors |-> t.errors]

\* Fault: the store the key was spent on is not compared.
ReplayOfAnyStore(r) ==
  LET event == ledger[call[r].key]
  IN  IF event.type # "orders_imported" THEN Refuse("conflict")
      ELSE Report(event.after, TRUE)

\* The response of a request whose operation_id the ledger already holds:
\* a conflict when it was spent on another write, the original outcome
\* (a failure included) when it was this import.
ReplayOf(r) ==
  LET event == ledger[call[r].key]
  IN  IF event.type # "orders_imported" \/ event.store # StoreOf(r)
      THEN Refuse("conflict")
      ELSE Report(event.after, TRUE)

--------------------------------------------------------------------------------
(* Row locks and the unique index on operation_id *)

\* q has written the orders row of (s, o) and has not ended.
Holds(q, s, o) == txn[q].rows[o] # None /\ StoreOf(q) = s

NeverWaits(r, q) == FALSE    \* fault: check, then insert, without the unique index

\* r waits for q: q holds the row r is about to upsert.
WaitsFor(r, q) ==
  /\ pc[r] = "upsert"
  /\ q # r
  /\ \E i \in txn[r].todo : IsNext(r, i) /\ Holds(q, StoreOf(r), Lines(r)[i].order)

NotDetected(r) == FALSE    \* fault: nobody looks for deadlocks

\* A cycle of waits through r, the condition Postgres' deadlock detector
\* looks for on behalf of r.
InWaitCycle(r) ==
  \E cycle \in SUBSET Requests :
    /\ r \in cycle
    /\ \A p \in cycle : \E q \in cycle : WaitsFor(p, q)
    /\ \A q \in cycle : \E p \in cycle : WaitsFor(p, q)

KeyNeverHeld(r, k) == FALSE    \* fault: operation_id has no unique index
KeyHeld(r, k) == \E q \in Requests \ {r} : pc[q] = "commit" /\ call[q].key = k

--------------------------------------------------------------------------------
Init ==
  /\ stores \in [Stores -> Settings]
  /\ orders = [s \in Stores |-> NoRows]
  /\ batches = {}
  /\ importErrors = {}
  /\ ledger = [k \in Keys |-> None]
  /\ now = 0
  /\ nextSeq = 1
  /\ pc = [r \in Requests |-> "unsent"]
  /\ call = [r \in Requests |-> None]
  /\ txn = [r \in Requests |-> NoTxn]
  /\ answer = [r \in Requests |-> Refuse("none")]

Goto(r, label) == pc' = [pc EXCEPT ![r] = label]

\* The request leaves import_orders with a response and whatever it wrote
\* is rolled back.
Reply(r, a) ==
  /\ Goto(r, "replying")
  /\ answer' = [answer EXCEPT ![r] = a]
  /\ txn' = [txn EXCEPT ![r] = NoTxn]

\* A client sends a body under a key: a first attempt, a retry while the
\* first is still running, a later retry, or a key spent before.  Its scope
\* was resolved by request_scope in an earlier transaction.
Send(r, k, b, scope) ==
  /\ pc[r] = "unsent"
  /\ Goto(r, "opened")
  /\ call' = [call EXCEPT ![r] = [key |-> k, body |-> b, scope |-> scope]]
  /\ UNCHANGED <<tables, now, nextSeq, txn, answer>>

\* Fault: the store is read without the caller's scope.
GetStoreUnscoped(r) ==
  /\ pc[r] = "opened"
  /\ IF ~stores[StoreOf(r)].is_active THEN Reply(r, Refuse("inactive"))
     ELSE /\ Goto(r, "lookup")
          /\ txn' = [txn EXCEPT ![r].store = stores[StoreOf(r)]]
          /\ UNCHANGED answer
  /\ UNCHANGED <<tables, now, nextSeq, call>>

\* get_store under the caller's scope, then the is_active check.
GetStore(r) ==
  /\ pc[r] = "opened"
  /\ IF StoreOf(r) \notin call[r].scope THEN Reply(r, Refuse("out_of_scope"))
     ELSE IF ~stores[StoreOf(r)].is_active THEN Reply(r, Refuse("inactive"))
     ELSE /\ Goto(r, "lookup")
          /\ txn' = [txn EXCEPT ![r].store = stores[StoreOf(r)]]
          /\ UNCHANGED answer
  /\ UNCHANGED <<tables, now, nextSeq, call>>

\* find_by_operation before any write.  A fresh key goes on to open a run,
\* whose started_at is read from the clock before the INSERT is sent.
FindByOperation(r) ==
  /\ pc[r] = "lookup"
  /\ IF ledger[call[r].key] # None THEN Reply(r, ReplayOf(r))
     ELSE /\ Goto(r, "create")
          /\ txn' = [txn EXCEPT ![r].stamp = now]
          /\ UNCHANGED answer
  /\ UNCHANGED <<tables, now, nextSeq, call>>

\* The batch row opens as "processing".  Its batch_seq is drawn from the
\* identity column and stays spent when the transaction rolls back.
CreateImportBatch(r) ==
  /\ pc[r] = "create"
  /\ Goto(r, "groups")
  /\ txn' = [txn EXCEPT
       ![r].batch = [seq |-> nextSeq, store |-> StoreOf(r), status |-> "processing",
                     started_at |-> txn[r].stamp, finished_at |-> None, row_count |-> 0,
                     success_count |-> 0, error_count |-> 0],
       ![r].todo = FirstSeen(Lines(r))]
  /\ nextSeq' = nextSeq + 1
  /\ UNCHANGED <<tables, now, call, answer>>

\* An order submitted on several lines is rejected whole, under one of two
\* error codes.
RejectGroup(r) ==
  /\ pc[r] = "groups"
  /\ \E i \in txn[r].todo :
       /\ IsNext(r, i)
       /\ Group(Lines(r), i) # {i}
       /\ txn' = [txn EXCEPT
            ![r].todo = @ \ {i},
            ![r].errors = @ \cup
              {[order |-> Lines(r)[i].order,
                code |-> IF \A a, b \in SkusOf(Lines(r), i) : a = b
                         THEN "DUPLICATE_ORDER_LINE"
                         ELSE "MULTIPLE_SKUS_FOR_ORDER"]}]
  /\ UNCHANGED <<tables, now, nextSeq, pc, call, answer>>

\* A single line: its date, scope status and amount are resolved in turn from
\* the store read at the start, and its arguments are stamped now.  Only a
\* store without a timezone or a managed_from month raises an error the
\* endpoint knows, StoreNotConfiguredForImport.  Whatever raises, the
\* transaction rolls back with the batch row and earlier orders in it.
ResolveLine(r) ==
  /\ pc[r] = "groups"
  /\ \E i \in txn[r].todo :
       /\ IsNext(r, i)
       /\ Group(Lines(r), i) = {i}
       /\ IF Lines(r)[i].flaw = "no_offset" THEN Reply(r, Refuse("server_error"))
          ELSE IF txn[r].store.timezone = None \/ txn[r].store.managed_from = None
          THEN Reply(r, Refuse("not_configured"))
          ELSE IF txn[r].store.managed_from = NoDate \/ Lines(r)[i].flaw = "not_finite"
          THEN Reply(r, Refuse("server_error"))
          ELSE /\ Goto(r, "upsert")
               /\ txn' = [txn EXCEPT ![r].stamp = now]
               /\ UNCHANGED answer
  /\ UNCHANGED <<tables, now, nextSeq, call>>

NewRowId(r, old) == txn[r].batch.seq    \* fault: delete, then insert

\* The id of the row an upsert leaves: a fresh one for an insert (a request
\* inserts an order once, so its batch_seq is fresh), the old one for an update.
RowId(r, old) == IF old = None THEN txn[r].batch.seq ELSE old.id

\* Fault: an update leaves last_imported_at as it was.
StampKept(r, old) == IF old = None THEN txn[r].stamp ELSE old.last_imported_at

\* last_imported_at: what the request read from the clock before it waited.
StampOf(r, old) == txn[r].stamp

\* INSERT ... ON CONFLICT (store_id, walmart_order_id) DO UPDATE.  It waits
\* while another open transaction holds the row, then sees what that one
\* committed: the id survives, every other column is overwritten.
UpsertOrder(r) ==
  /\ pc[r] = "upsert"
  /\ \A q \in Requests : ~WaitsFor(r, q)
  /\ \E i \in txn[r].todo :
       /\ IsNext(r, i)
       /\ LET line == Lines(r)[i]
              old  == orders[StoreOf(r)][line.order]
              date == OrderDate(txn[r].store, line.placed)
              status == ScopeStatusFor(txn[r].store, date)
              id   == RowId(r, old)
          IN  txn' = [txn EXCEPT
                ![r].todo = @ \ {i},
                ![r].rows[line.order] =
                  [id |-> id, sku |-> line.sku, placed |-> line.placed,
                   order_date |-> date, scope_status |-> status,
                   posting_status |-> PostingStatusFor(status),
                   last_imported_at |-> StampOf(r, old)],
                ![r].results = @ \cup
                  {[order |-> line.order, id |-> id, created |-> old = None]}]
  /\ Goto(r, "groups")
  /\ UNCHANGED <<tables, now, nextSeq, call, answer>>

\* Postgres cancels one statement of a cycle of waits; nothing catches it,
\* so the connection rolls back and the caller sees a 500.
AbortDeadlock(r) ==
  /\ InWaitCycle(r)
  /\ Reply(r, Refuse("server_error"))
  /\ UNCHANGED <<tables, now, nextSeq, call>>

\* The outcome is classified, the batch row gets its terminal status and
\* counts, and one import_errors row is inserted per rejected order.
FinishImportBatch(r) ==
  /\ pc[r] = "groups"
  /\ txn[r].todo = {}
  /\ Goto(r, "record")
  /\ txn' = [txn EXCEPT ![r].batch =
       [@ EXCEPT !.status = RunOutcome(txn[r].results, txn[r].errors),
                 !.finished_at = now,
                 !.row_count = Cardinality(FirstSeen(Lines(r))),
                 !.success_count = Cardinality(txn[r].results),
                 !.error_count = Cardinality(txn[r].errors)]]
  /\ UNCHANGED <<tables, now, nextSeq, call, answer>>

\* Fault: the ledger is written without looking at what it holds.
RecordBlindly(r) ==
  /\ pc[r] = "record"
  /\ ~KeyHeld(r, call[r].key)
  /\ Goto(r, "commit")
  /\ UNCHANGED <<tables, now, nextSeq, call, txn, answer>>

\* audit.record: the insert waits for an open transaction that holds the
\* same operation_id.  When that one has committed, the unique index raises
\* DuplicateOperation, the savepoint takes every write of this import back,
\* and the original outcome is returned.
RecordOperation(r) ==
  /\ pc[r] = "record"
  /\ ~KeyHeld(r, call[r].key)
  /\ IF ledger[call[r].key] # None THEN Reply(r, ReplayOf(r))
     ELSE Goto(r, "commit") /\ UNCHANGED <<txn, answer>>
  /\ UNCHANGED <<tables, now, nextSeq, call>>

\* Fault: the audit event is written, its run is not.
PublishWithoutRun(r) ==
  /\ orders' = [orders EXCEPT ![StoreOf(r)] =
       [o \in OrderIds |-> IF txn[r].rows[o] = None THEN @[o] ELSE txn[r].rows[o]]]
  /\ ledger' = [ledger EXCEPT ![call[r].key] =
       [type |-> "orders_imported", store |-> StoreOf(r), after |-> OutcomeOf(txn[r])]]
  /\ UNCHANGED <<batches, importErrors>>

\* What an import's transaction makes visible, all at once.
Publish(r) ==
  /\ orders' = [orders EXCEPT ![StoreOf(r)] =
       [o \in OrderIds |-> IF txn[r].rows[o] = None THEN @[o] ELSE txn[r].rows[o]]]
  /\ batches' = batches \cup {txn[r].batch}
  /\ importErrors' = importErrors \cup
       {[batch |-> txn[r].batch.seq, order |-> e.order, code |-> e.code] :
          e \in txn[r].errors}
  /\ ledger' = [ledger EXCEPT ![call[r].key] =
       [type |-> "orders_imported", store |-> StoreOf(r), after |-> OutcomeOf(txn[r])]]

\* Fault: no commit by hand before the run is reported as rejected.
CommitUnlessRejected(r) ==
  /\ pc[r] = "commit"
  /\ IF txn[r].batch.status = "failed" THEN UNCHANGED <<orders, batches, importErrors, ledger>>
     ELSE Publish(r)
  /\ Goto(r, "replying")
  /\ txn' = [txn EXCEPT ![r].rows = NoRows]
  /\ answer' = [answer EXCEPT ![r] = Report(OutcomeOf(txn[r]), FALSE)]
  /\ UNCHANGED <<stores, now, nextSeq, call>>

\* The with-block of the endpoint commits on its clean exit; a run in which
\* every order was rejected commits by hand and then raises.
Commit(r) ==
  /\ pc[r] = "commit"
  /\ Publish(r)
  /\ Goto(r, "replying")
  /\ txn' = [txn EXCEPT ![r].rows = NoRows]
  /\ answer' = [answer EXCEPT ![r] = Report(OutcomeOf(txn[r]), FALSE)]
  /\ UNCHANGED <<stores, now, nextSeq, call>>

\* The client receives the response.
Deliver(r) ==
  /\ pc[r] = "replying"
  /\ Goto(r, "answered")
  /\ UNCHANGED <<tables, now, nextSeq, call, txn, answer>>

\* The server process, the connection or the client's wait ends.  An open
\* transaction rolls back; a response that was not delivered never is, and
\* its client does not know whether the import took effect.
Cut(r) ==
  /\ pc[r] \notin {"unsent", "answered", "lost"}
  /\ Goto(r, "lost")
  /\ txn' = [txn EXCEPT ![r] = IF pc[r] = "replying" THEN @ ELSE NoTxn]
  /\ answer' = [answer EXCEPT ![r] = Refuse("none")]
  /\ UNCHANGED <<tables, now, nextSeq, call>>

\* PATCH /stores/{id} by an actor whose role allows it, under a key nobody
\* has spent, in one transaction: update_store_identity.  No field is ever
\* cleared, and a key already in the ledger changes nothing.
UpdateStoreIdentity(k, s, fields, zone, boundary) ==
  /\ ledger[k] = None
  /\ \A q \in Requests : pc[q] = "commit" => call[q].key # k
  /\ fields # {}
  /\ stores' = [stores EXCEPT
       ![s].timezone = IF "timezone" \in fields THEN zone ELSE @,
       ![s].managed_from = IF "managed_from" \in fields THEN boundary ELSE @]
  /\ ledger' = [ledger EXCEPT ![k] =
       [type |-> IF "timezone" \in fields THEN "store_timezone_changed"
                 ELSE "store_settings_updated",
        store |-> s, after |-> None]]
  /\ UNCHANGED <<orders, batches, importErrors, now, nextSeq, pc, call, txn, answer>>

Tick ==
  /\ now < MaxNow
  /\ now' = now + 1
  /\ UNCHANGED <<tables, nextSeq, pc, call, txn, answer>>

\* The steps the server takes for one request.
Serve(r) ==
  \/ GetStore(r)
  \/ FindByOperation(r)
  \/ CreateImportBatch(r)
  \/ RejectGroup(r)
  \/ ResolveLine(r)
  \/ UpsertOrder(r)
  \/ AbortDeadlock(r)
  \/ FinishImportBatch(r)
  \/ RecordOperation(r)
  \/ Commit(r)
  \/ Deliver(r)

Next ==
  \/ \E r \in Requests, k \in Keys, b \in Bodies, scope \in Scopes : Send(r, k, b, scope)
  \/ \E r \in Requests : Serve(r) \/ Cut(r)
  \/ \E k \in Keys, s \in Stores, fields \in SUBSET {"timezone", "managed_from"},
        zone \in TimeZones, boundary \in Boundaries :
       UpdateStoreIdentity(k, s, fields, zone, boundary)
  \/ Tick

Spec == Init /\ [][Next]_vars

\* A request that runs keeps running: the worker thread is scheduled and
\* Postgres' deadlock detector fires.  Nothing is assumed of clients, of the
\* clock, or of whoever changes a store.
FairSpec == Spec /\ \A r \in Requests : WF_vars(Serve(r))

--------------------------------------------------------------------------------
(* The reads of the orders screen *)

IsImport(k) == ledger[k] # None /\ ledger[k].type = "orders_imported"

\* Fault: ties on started_at broken against the insertion order.
LaterOldestFirst(a, b) == a.started_at > b.started_at
                          \/ (a.started_at = b.started_at /\ a.seq < b.seq)
\* order by started_at desc, batch_seq desc
Later(a, b) == a.started_at > b.started_at
               \/ (a.started_at = b.started_at /\ a.seq > b.seq)
LatestOf(runs) == CHOOSE a \in runs : \A b \in runs \ {a} : Later(a, b)

NotFailed(run) == run.status # "failed"    \* fault: a partial run passes for a success
Succeeded(run) == run.status = "completed"

\* get_import_run_state, for a store in the caller's scope
RunState(s) ==
  LET runs == {b \in batches : b.store = s}
      successes == {b \in runs : Succeeded(b)}
  IN  IF runs = {}
      THEN [never_imported |-> TRUE, last_success_at |-> None,
            last_attempt_status |-> None, last_attempt_finished_at |-> None]
      ELSE [never_imported |-> FALSE,
            last_success_at |->
              IF successes = {} THEN None ELSE LatestOf(successes).finished_at,
            last_attempt_status |-> LatestOf(runs).status,
            last_attempt_finished_at |-> LatestOf(runs).finished_at]

\* get_order_level_freshness: the largest last_imported_at, or NULL
OrderLevelFreshness(s) ==
  LET stamps == {orders[s][o].last_imported_at : o \in {p \in OrderIds : orders[s][p] # None}}
  IN  IF stamps = {} THEN None
      ELSE CHOOSE t \in stamps : \A u \in stamps : u <= t

--------------------------------------------------------------------------------
(* Properties *)

Labels == {"unsent", "opened", "lookup", "create", "groups", "upsert", "record",
           "commit", "replying", "answered", "lost"}

\* Every table, response and local variable holds values of its type.
TypeOK ==
  /\ stores \in [Stores -> Config]
  /\ orders \in [Stores -> [OrderIds -> OrderRow \cup {None}]]
  /\ batches \subseteq BatchRow
  /\ importErrors \subseteq ErrorRow
  /\ ledger \in [Keys -> Event \cup {None}]
  /\ now \in Nat /\ nextSeq \in Nat
  /\ pc \in [Requests -> Labels]
  /\ call \in [Requests -> Call \cup {None}]
  /\ txn \in [Requests -> Txn]
  /\ answer \in [Requests -> Answer]

\* import_batches and the operation ledger tell one story: each visible run
\* is named by exactly one orders_imported event, of the same store and
\* outcome, and each such event names a visible run.  A retry that raced the
\* first attempt, or came after a lost response, has left no second run.
RunsMatchLedger ==
  /\ \A b \in batches : \E k \in Keys :
       /\ IsImport(k) /\ ledger[k].store = b.store
       /\ ledger[k].after.batch = b.seq /\ ledger[k].after.status = b.status
  /\ \A k \in Keys : IsImport(k) =>
       \E b \in batches : b.seq = ledger[k].after.batch
  /\ \A j, k \in Keys :
       IsImport(j) /\ IsImport(k) /\ ledger[j].after.batch = ledger[k].after.batch => j = k
  /\ \A a, b \in batches : a.seq = b.seq => a = b

\* A visible run is closed and its books balance: every distinct order
\* submitted was imported or rejected, never both; there is one import_errors
\* row per rejected order; "failed" means that no order was imported.
RunsBalance ==
  \A k \in Keys : IsImport(k) =>
    LET run == ledger[k].after
        imported == {m.order : m \in run.orders}
        rejected == {e.order : e \in run.errors}
    IN  /\ imported \cap rejected = {}
        /\ (run.status = "failed") <=> (imported = {})
        /\ (run.status = "completed") <=> (rejected = {})
        /\ {<<e.order, e.code>> : e \in {f \in importErrors : f.batch = run.batch}}
             = {<<e.order, e.code>> : e \in run.errors}
        /\ \A b \in batches : b.seq = run.batch =>
             /\ b.started_at <= b.finished_at
             /\ b.row_count = b.success_count + b.error_count
             /\ b.success_count = Cardinality(imported)
             /\ b.error_count = Cardinality(rejected)

\* An order row was written by a run that says it imported it, from a request
\* that carried exactly one line for that order, while that run was open; and
\* exactly one run says it created the row.  Two imports of a new order that
\* run side by side do not both report it created, and every run reports the
\* id the row still has.
RowsComeFromTheirRuns ==
  \A s \in Stores, o \in OrderIds :
    LET naming == {k \in Keys : IsImport(k) /\ ledger[k].store = s
                                  /\ \E m \in ledger[k].after.orders : m.order = o}
        Of(k) == CHOOSE m \in ledger[k].after.orders : m.order = o
        row == orders[s][o]
    IN  IF row = None THEN naming = {}
        ELSE /\ \A k \in naming : Of(k).id = row.id
             /\ Cardinality({k \in naming : Of(k).created}) = 1
             /\ \E k \in naming, b \in batches :
                  /\ b.seq = ledger[k].after.batch
                  /\ b.started_at <= row.last_imported_at
                  /\ row.last_imported_at <= b.finished_at
                  /\ \E r \in Requests : /\ call[r] # None
                                        /\ call[r].key = k
                                        /\ \E i \in DOMAIN Lines(r) :
                                             /\ Group(Lines(r), i) = {i}
                                             /\ Lines(r)[i].order = o
                                             /\ Lines(r)[i].sku = row.sku
                                             /\ Lines(r)[i].placed = row.placed

Told(r) == answer[r].kind \in {"accepted", "rejected"}

\* A caller that is told the outcome of its import, the 422 of a wholly
\* rejected batch included, is told what the ledger durably holds under its
\* key: the first response, its replays and the loser of a race agree.
AnswersAreDurable ==
  \A r \in Requests : Told(r) =>
    /\ IsImport(call[r].key)
    /\ ledger[call[r].key].store = StoreOf(r)
    /\ ledger[call[r].key].after = answer[r].outcome
    /\ \E b \in batches : b.seq = answer[r].outcome.batch
                           /\ b.status = answer[r].outcome.status

\* Nothing is read or answered from a store outside the caller's scope: such a
\* request opens no run, and no replay reports another store's outcome to it.
OutOfScopeIsNotFound ==
  \A r \in Requests : call[r] # None /\ StoreOf(r) \notin call[r].scope =>
    /\ txn[r] = NoTxn
    /\ answer[r].kind \in {"none", "out_of_scope"}

\* The run-level view of a store agrees with its ledger: "never imported"
\* means no run and no order, and a last success exists exactly when some run
\* imported everything it was sent.
ViewMatchesLedger ==
  \A s \in Stores :
    LET events == {k \in Keys : IsImport(k) /\ ledger[k].store = s}
        view == RunState(s)
    IN  /\ view.never_imported <=> events = {}
        /\ view.never_imported => OrderLevelFreshness(s) = None
        /\ (view.last_success_at # None) <=>
             \E k \in events : ledger[k].after.errors = {}

\* Orders, import_errors and import_batches move only together, in the step
\* that records a fresh operation_id: exactly one run appears, only the
\* orders it lists change, and "created" says whether the row was absent at
\* that very moment.
RunIsAtomic ==
  [][<<orders, batches, importErrors>>' # <<orders, batches, importErrors>> =>
       \E k \in Keys :
         /\ ledger[k] = None /\ ledger'[k] # None
         /\ ledger'[k].type = "orders_imported"
         /\ LET run == ledger'[k].after
                s == ledger'[k].store
            IN  /\ \A b \in batches : b.seq # run.batch
                /\ {b.seq : b \in batches' \ batches} = {run.batch}
                /\ {e.order : e \in importErrors' \ importErrors} =
                     {e.order : e \in run.errors}
                /\ \A t \in Stores, o \in OrderIds :
                     orders'[t][o] # orders[t][o] =>
                       t = s /\ \E m \in run.orders : m.order = o
                /\ \A m \in run.orders :
                     /\ m.created <=> orders[s][m.order] = None
                     /\ orders'[s][m.order].id = m.id]_vars

\* What is committed stays: no ledger entry, run or import error is altered
\* or withdrawn, and a refresh keeps the row and its id.
CommittedIsKept ==
  [][/\ batches \subseteq batches' /\ importErrors \subseteq importErrors'
     /\ \A k \in Keys : ledger[k] # None => ledger'[k] = ledger[k]
     /\ \A s \in Stores, o \in OrderIds : orders[s][o] # None =>
          orders'[s][o] # None /\ orders'[s][o].id = orders[s][o].id]_vars

\* A run that began after every visible run of its store had finished is the
\* one the screen shows as the last attempt once it commits, also when its
\* started_at is the very instant another run started.
LatestRunShows ==
  [][\A b \in batches' \ batches :
       (\A a \in batches : a.store = b.store =>
                             a.finished_at <= b.started_at /\ a.seq < b.seq)
       => /\ RunState(b.store)'.last_attempt_status = b.status
          /\ RunState(b.store)'.last_attempt_finished_at = b.finished_at]_vars

\* walmart-user-stories.md:139, "Changing a store's timezone applies
\* prospectively only. Existing orders keep their assigned dates.": a refresh
\* that carries the same instant leaves the order's date alone.
DatesStayAssigned ==
  [][\A s \in Stores, o \in OrderIds :
       orders[s][o] # None /\ orders'[s][o].placed = orders[s][o].placed =>
         orders'[s][o].order_date = orders[s][o].order_date]_vars

\* walmart-user-stories.md:791, "Given a failed refresh, when viewing the list,
\* then the last successful update and failure are visible": a caller told
\* that its import failed finds a run on the screen of that store.
FailedRefreshIsVisible ==
  \A r \in Requests :
    pc[r] = "answered" /\ answer[r].kind \in {"rejected", "not_configured"} =>
      ~RunState(StoreOf(r)).never_imported

\* Every request that is sent is answered or cut: imports that wait for each
\* other's rows, or for each other's operation_id, do not wait forever.
EveryCallEnds ==
  \A r \in Requests : pc[r] = "opened" ~> pc[r] \in {"answered", "lost"}

--------------------------------------------------------------------------------
(* Why the ledger and the runs agree: an invariant that every step preserves *)

\* The transaction of r is open and holds an import_batches row.
Writing(r) == pc[r] \in {"groups", "upsert", "record", "commit"}

\* What the local variables of import_orders hold at each line.
Progress ==
  \A r \in Requests :
    /\ pc[r] # "unsent" => call[r] \in Call
    /\ pc[r] \in {"lookup", "create"} \/ Writing(r) => txn[r].store \in Config
    /\ Writing(r) => txn[r].batch \in BatchRow /\ txn[r].batch.store = StoreOf(r)
    /\ pc[r] = "upsert" => /\ txn[r].store.timezone # None
                          /\ txn[r].store.managed_from \notin {None, NoDate}
    /\ txn[r].todo # {} => pc[r] # "unsent" /\ txn[r].todo \subseteq DOMAIN Lines(r)
    /\ IsFiniteSet(txn[r].results) /\ IsFiniteSet(txn[r].errors)

\* No two runs share a batch_seq, and a run that is not visible has one that
\* no visible run has.
RunsAreFresh ==
  /\ \A run \in batches : run.seq < nextSeq
  /\ \A r \in Requests : txn[r].batch # None => txn[r].batch.seq < nextSeq
  /\ \A p, q \in Requests :
       txn[p].batch # None /\ txn[q].batch # None /\ txn[p].batch.seq = txn[q].batch.seq
         => p = q
  /\ \A r \in Requests : Writing(r) => \A run \in batches : run.seq # txn[r].batch.seq

\* A request about to commit is alone with its operation_id.
KeyIsHeldAlone ==
  \A r \in Requests : pc[r] = "commit" =>
    /\ ledger[call[r].key] = None
    /\ \A q \in Requests : pc[q] = "commit" /\ call[q].key = call[r].key => q = r

ImportsCarryOutcomes == \A k \in Keys : IsImport(k) => ledger[k].after # None

\* Nothing is told before the request leaves import_orders.
OnlyRepliesTell == \A r \in Requests : Told(r) => pc[r] \in {"replying", "answered"}

LocalInv == TypeOK /\ Progress
LedgerInv == /\ RunsAreFresh /\ KeyIsHeldAlone /\ ImportsCarryOutcomes
             /\ RunsMatchLedger /\ AnswersAreDurable /\ OnlyRepliesTell

\* A request outside its scope goes no further than the first read.
RefusedAtOnce ==
  \A r \in Requests : call[r] # None /\ StoreOf(r) \notin call[r].scope =>
    /\ pc[r] \in {"opened", "replying", "answered", "lost"}
    /\ txn[r] = NoTxn
    /\ answer[r].kind \in {"none", "out_of_scope"}

\* Uncommitted rows belong to open transactions, one transaction per row, and
\* a row that refreshes a committed one carries its id.
RowsAreLocked ==
  /\ \A r \in Requests, o \in OrderIds : txn[r].rows[o] # None =>
       /\ Writing(r)
       /\ orders[StoreOf(r)][o] # None => txn[r].rows[o].id = orders[StoreOf(r)][o].id
  /\ \A p, q \in Requests, s \in Stores, o \in OrderIds :
       Holds(p, s, o) /\ Holds(q, s, o) => p = q

\* A request that has its run behind it finds that run under its own key.
RunsHaveOwners ==
  \A r \in Requests : txn[r].batch # None /\ ~Writing(r) =>
    /\ pc[r] \in {"replying", "answered", "lost"}
    /\ IsImport(call[r].key) /\ ledger[call[r].key].after.batch = txn[r].batch.seq

\* A request not yet sent has done nothing.
NothingBeforeSend ==
  \A r \in Requests : pc[r] = "unsent" => txn[r] = NoTxn /\ answer[r] = Refuse("none")

RowsInv == RefusedAtOnce /\ RowsAreLocked /\ RunsHaveOwners /\ NothingBeforeSend

--------------------------------------------------------------------------------
(* What the import owes to its callers: OperationLedger *)

\* The visible runs opened by the requests sent under each key: batch is a
\* local variable of import_orders, so a request knows its own.
RunsUnder == [k \in Keys |->
  {b.seq : b \in {c \in batches :
     \E r \in Requests : /\ call[r] # None /\ call[r].key = k
                         /\ txn[r].batch # None /\ txn[r].batch.seq = c.seq}}]

\* What a caller learned, once the response reached it.
ToldTo == [r \in Requests |->
  IF pc[r] = "answered" /\ Told(r)
  THEN [key |-> call[r].key,
        outcome |-> [type |-> "orders_imported", store |-> StoreOf(r),
                     after |-> answer[r].outcome]]
  ELSE None]

Promise == INSTANCE OperationLedger
  WITH Callers <- Requests, Outcomes <- Event, Effects <- Nat,
       recorded <- ledger, effects <- RunsUnder, told <- ToldTo

\* Imports implement the ledger's promise: under each key one run at most, in
\* the step that records its outcome, and every caller that is told an
\* outcome is told that one.
EffectOnce == Promise!Spec

================================================================================
