# Lucrum in TLA+

Lucrum is the back office of a Walmart seller: it registers stores, imports
their orders, keeps what an order cost, and says who may see which store. It is
a FastAPI process in front of PostgreSQL, without background jobs: everything
that happens is an HTTP request, most of them one database transaction, and
everything that is hard about it is what several requests, retries and cut
connections do to the same rows. This directory models the write paths
statement by statement, checks them with TLC, and proves with TLAPS, for every
value of the constants, all their safety properties but the bounded arithmetic
laws of one run. The one thing that is not a request, the migration runner of a
deploy, is modelled the same way.

Paths below are relative to the repository (`src/...` is its Python package).

## 1. Inventory

| Component | State it keeps | Operations that change it | Correct when |
|---|---|---|---|
| Order import (`src/orders`) | `orders`, `import_batches`, `import_errors` | `import_orders` | a key takes effect once; a run, its orders, its rejections and its audit event appear together; the run balances; an answer is what the tables hold; the orders screen tells the truth |
| Operation ledger (`src/audit.py`) | `audit_events`, unique on `operation_id` | `record` (in a savepoint); reads `find_by_operation`, `check_replay_target` | an `Idempotency-Key` names one outcome for good, and a replay reports that outcome or a conflict |
| Team (`src/team`) | `user_store_assignments` | `grant_manager`, `revoke_manager` | the audit trail explains who reaches which store |
| Store registry (`src/stores`, the note endpoint of `src/main.py`) | `stores` | `create_store`, `update_store_identity`, `add_store_note` | one store per `walmart_store_key`; each store is its creation event with its patches laid over it in order |
| Access (`src/access`) | `users` (failed count, lock), `sessions` | `sign_in`, `authenticate` (moves `last_seen_at`), `sign_out`; `resolve_scope` reads | a session ends for good; the failed count and the lock agree with the policy |
| Costing (`src/costing`) | `order_cost_profiles` | `save_buying_cost`; `get_cost_completeness` reads | a total belongs to the quantity and currency stored beside it; blank stays unknown |
| Money (`src/money.py`), dates (`src/clock.py`), scope (`src/scoping.py`) | none | pure | half-up rounding once; a store's date; membership |
| Request pipeline (`src/main.py`) | none of its own | resolves the actor in one transaction, calls a service in another, turns exceptions into responses | a response is sent after its transaction ended |
| Web screens (`src/web/routes.py`) | a cookie | sign-in form, orders list | the list shows facts that were true together |
| Connections (`src/db/connection.py`) | a pool of ten | commit on a clean exit, rollback on an exception | no partial writes |
| Migration runner (`src/db/migrate.py`) | `schema_migrations` | `migrate` | each file once, in order, with its tracking row |
| Schema (`src/db/migrations/*.sql`) | the tables and constraints | | |
| Configuration, guardrail scripts, templates | none at run time | | |

How they meet. A request is authenticated and its scope resolved in a first
transaction; the endpoint opens a second one, hands the connection to a
service, and the service calls its repository and `audit.record`. Services do
not call each other: they meet in shared rows. An import reads the store that
a PATCH changes; Team writes the assignments that scope resolution reads;
Costing reads the quantity an import overwrites; all of them spend
operation_ids in one ledger.

What is hard:

* **Interleaving.** READ COMMITTED: each statement sees what was committed when
  it began, waits for rows and unique keys of open transactions, and then goes
  on with what those committed. Every check-then-write in the services runs in
  that world.
* **Retries.** A client whose answer was lost sends the same key again, perhaps
  while the first attempt still runs. The ledger is looked up before and the
  unique index decides after.
* **Partial failure.** Savepoints take some writes back, an exception takes all
  of them back, and one path (the 422 of a wholly rejected batch) must commit
  and then raise.
* **Deadlock.** Two imports upsert the same orders in opposite orders; two
  migration runners, one of them without a file the other has, hold the tables
  each other's next foreign key needs.
* **Stale reads.** The store's timezone, the scope, `before_state`, an order's
  quantity are read early and used late; a page is put together from several
  reads; a replay answers what is there by now.
* **Time.** Two runs may share `started_at`; locks and sessions expire.

`PROJECT.json` lists each hazard at the line where it bites, with the property
that covers it.

## 2. Modules

| Module | Models | Extended by |
|---|---|---|
| `OrderImport` | `import_orders` with every SQL statement it sends, the settings changes it overlaps with, the two read models of the orders screen | `MCOrderImport`, `OrderImportProofs` |
| `OperationLedger` | what `audit.py` promises of an operation_id, abstractly | instantiated in `OrderImport` (`Promise`) |
| `Team` | `grant_manager`, `revoke_manager` | `MCTeam` |
| `TeamBook` | what the two promise, abstractly: each request carried out in one step | instantiated in `Team` (`Book`) |
| `StoreRegistry` | `create_store`, `update_store_identity`, `add_store_note` | `MCStoreRegistry` |
| `StoreBook` | what the three promise, abstractly: each request carried out in one step | instantiated in `StoreRegistry` (`Book`) |
| `OrdersScreen` | `orders_list` as a request of several reads, composed with the imports it reports on | `MCOrdersScreen` |
| `Access` | `sign_in`, `authenticate`, `resolve_scope`, `sign_out`, from the API and from the pages | `MCAccess` |
| `Money` | the arithmetic of `money.py`, with the decimal context | `Costing` |
| `Costing` | `save_buying_cost`, `get_cost_profile`, `get_cost_completeness`, beside imports | `MCCosting` |
| `Migrations` | `migrate` and `main` of the migration runner | `MCMigrations` |
| `OrderImportProofs`, `ImportRunsProofs`, `TeamProofs`, `StoreRegistryProofs`, `CostingProofs`, `AccessProofs`, `MigrationsProofs` | the theorems about `OrderImport` and `OrdersScreen`, `Team`, `StoreRegistry`, `Costing` and `Money`, `Access`, `Migrations` | |
| `Extremes` | two lemmas about sets of natural numbers: the least and the greatest member | the proof modules that need them |

An `MC...` module extends what it instantiates and defines the values its `.cfg`
files give to the constants, nothing of the system.

### The shape the modules share

A member of `Requests` is one HTTP call; a retry is another member that is sent
with the same key. `pc[r]` is the statement it is at, `call[r]` what it was sent
with, `answer[r]` the response it has computed. The tables are what is
committed. What an open transaction has written lives in the request's own
variables (`txn[r]`, `wrote[r]`, `row[r]`) and no other request reads it, except
to wait for it:

* a row that an open transaction has upserted, inserted, updated or deleted
  makes a writer of that row wait (`WaitsFor`, `PairHeld`, `Holding`);
* an operation_id it has inserted makes `audit.record` under the same id wait
  (`KeyHeld`).

`Reply(r, a)` is every way out that writes nothing: what the request wrote is
discarded. `Commit(r)` publishes it in one step. `Cut(r)` ends the process,
the connection or the client's patience at any point. The savepoint of
`audit.record` is part of the action that records: when the key is taken, the
service's outer savepoint takes the row back and the replay is checked in the
same step, since nothing can be seen in between.

`OrderImport` in particular:

| Code (`src/orders/service.py`) | Action |
|---|---|
| `get_store`, `is_active` check | `GetStore` |
| `find_by_operation`, `_replay_import_outcome` | `FindByOperation`, `ReplayOf` |
| `create_import_batch` with `batch_seq` | `CreateImportBatch` |
| the loop, an order on several lines | `RejectGroup` |
| the loop, dates and status of a single line, `StoreNotConfiguredForImport` | `ResolveLine` |
| `upsert_order` (`on conflict do update`) | `UpsertOrder`, `AbortDeadlock` |
| `finish_import_batch`, `insert_import_error` | `FinishImportBatch` |
| `audit.record`, `DuplicateOperation` | `RecordOperation` |
| the clean exit; `conn.commit()` and then `WholeBatchImportRejected` | `Commit` |
| `PATCH /stores/{id}` | `UpdateStoreIdentity`, one step |

`txn[r].todo` is the set of line positions still to do and `IsNext` picks the
first: the order of the lines matters for deadlocks. `Skus` stands for every
column an upsert copies. A day is `HoursPerDay` hours and a timezone an offset
in hours, enough to move an order across midnight and across `managed_from`.

In `Team`, a row of `user_store_assignments` is told from a later row of the
same pair by the operation that inserted it, because a DELETE that has begun
removes the row it found and not one inserted since.

`TeamBook` and `StoreBook` have four variables each: the rows, the ledger, what
every caller asked for and what it was told. A request is one step there, between
its arrival (`Ask`) and its answer: told no (`SayNo`), told what was done before
(`Repeat`), or carried out, recorded under a fresh operation_id and told yes
together (`Perform`). `Lose` is an answer that nobody receives, of a request that
was carried out in full or not at all. The detailed modules map to them by `call`
and `ToldTo`, and `StoreRegistry` maps its ledger without the `before_state`
(`Recorded`). The books also say where the code falls short of the plain ideal: a
request that is a retry may be told that the pair is assigned, or the
`walmart_store_key` taken, by its own first attempt (finding 3), and a revocation
may be recorded that removes nothing (finding 4), but only when another recorded
revocation of the same pair came first (`RevokeOvertaken`). `Costing` has no such
book: a save computes with the quantity and currency as they were when it read the
order, and is recorded later, so there is no one moment it belongs to.

In `StoreRegistry`, an identity has three fields, the ones whose rules differ
(anybody allowed may rename, a timezone has its own event type, `managed_from`
is the owner's). An UPDATE changes the given columns of whatever was committed
when it got the row (`Merged`), while `before_state` is taken from the row as
`GetStore` read it (`Before`), one statement earlier: of two patches that overlap
the later may record as "before" what the earlier has replaced. `trail` keeps the
order in which events became visible, so that `IdentityAfter(s, n)` is the store
as the first n events tell it; `BeforeWasReal` and `AnswersMatchLedger` are
stated with it. A replayed create or update reads its store once more
(`Reread`), under the scope of whoever sends the replay.

`OrdersScreen` extends `OrderImport` with one variable: what each viewer has
asked for and has read so far. `ReadOrder` is the order of the two statements of
`orders_list`. `known` is not a variable of the code; it remembers which runs
were visible when the page was asked for, and only `PageIsCoherent` reads it.

In `Money`, an amount is a whole number of hundred-thousandths, finer than both
precisions, so the rounding of `Money.quantize` is integer arithmetic. The
decimal context is part of each operation: a result longer than `ContextDigits`
is rounded half-even there, as Python does with its 28 digits, before `quantize`
rounds half-up.

In `Costing`, quantity and currency are read with the order (`GetOrder`) and used
when the row is written (`SaveFields`), and an import in between changes them.
The import is one step (`ImportOrder`): it shares nothing with a save but the
operation_id, and its own statements are in `OrderImport`. `NextRevision` counts
from the row the upsert finds, not from one it read. An amount the column cannot
hold is the answer `server_error`, with nothing kept.

In `Migrations`, a file is a name, a text and its line endings, and `Script` gives
a text its statements, executed one at a time: each makes objects, takes tables
for itself and uses tables beside others that use them. A `create table` with a
foreign key makes its table and then takes the one it refers to
(`004_import_tracking.sql:27` and `:31`), an `alter table` takes its table and makes
the column (`005_import_batch_seq.sql:49`), an insert uses its table. A statement
fails at once over a table it does not see, waits for whoever has made its object
or holds its table, and fails over an object that is there when it goes on; a
circle of waits costs one runner its run (`AbortDeadlock`). What a runner has made,
taken and used is read off the files and statements behind it (`did`, `at`). The
connection is in a transaction from the first SELECT of `applied`, so each
`conn.transaction()` is a savepoint inside it, nothing is released at its end, and
the whole run commits in `Finish`, or not at all (`End`). That is more than the
docstring claims, which promises each file its own transaction: no file of a run
that fails at a later file stays. A file with a lower number than those applied is
applied late and out of order, which the code accepts and so does the model.

In `Access`, a session is named by the request that opened it, which stands for
its token; `Known` keeps clients from using a token before it was delivered.
`txn[r].seen` is the row a request read, and the lock and the timeouts are
judged by it; `Current` is the row its UPDATE finds. A failed sign-in ends in
`Conclude`, not in `Reply`: `create_session` and `sign_in_submit` commit before
the exception leaves, so its events and its count are kept. A page catches
`SessionInvalid` inside its connection and commits, the API rolls back, and the
orders page rolls back when its store is out of scope (`ResolveScope`).
`trail` holds the audit events of sign-in in the order they became visible.
`SetActive` stands for whoever deactivates a user: no code of the repository
does. `after_sign_out` in a call remembers that its session had ended when it
was sent; only `SignOutIsFinal` reads it.

## 3. Runs

| Run | Instance | Shows |
|---|---|---|
| `import_race` | 3 requests, 2 keys, two batches that list the same two orders in opposite orders | `RunsMatchLedger`, `RowsComeFromTheirRuns`, `RunIsAtomic`, and that imports implement the abstract ledger (`EffectOnce`) |
| `import_outcomes` | 2 requests, 2 keys, batches that are complete, partial, wholly rejected or unsound; stores ready, inactive, without timezone, without `managed_from`; a clock that ticks; callers with and without the store | `TypeOK`, `RunsBalance`, `OutOfScopeIsNotFound`, `ViewMatchesLedger`, `CommittedIsKept`, `LatestRunShows` |
| `screen` | 2 imports, 2 stores, 2 keys and a viewer who asks for pages for ever, under fairness | `AnswersAreDurable` (a key reused across stores included), `PageIsCoherent`, `FreshnessCoversItsRuns`, `EveryCallEnds` |
| `import_dates` | an order, a timezone change, a refresh | finding 1 |
| `import_visible` | a store without a timezone | finding 2 |
| `team_race` | 3 requests, 3 keys, 2 users and 2 stores of which one each exists, 2 roles | `TypeOK`, `AccessIsRecorded`, `AnswersMatchLedger`, and that the service implements `TeamBook` (`AccessIsAtomic`) |
| `team_retry` | one grant sent twice under one key | finding 3 |
| `team_revoke` | two revocations of one assignment | finding 4 |
| `store_race` | 3 requests, 2 keys, one store there and two to come, 2 Walmart keys, 3 kinds of caller | `TypeOK`, `StoresAreRecorded`, `BeforeWasReal`, `AnswersMatchLedger`, and that the endpoints implement `StoreBook` (`RegistryIsAtomic`) |
| `access` | 3 requests: either attempts on an account with a second factor (wrong password, each code, an unknown email; 2 failures lock for one tick), or a sign-in, visits and sign-outs of an account without one (idle timeout 3, absolute timeout 4); a user who is deactivated and reactivated | `TrailTellsTheCount`, `AnswersAreOnTheTrail`, `TypeOK`, `SignOutIsFinal`, `SessionsLiveByActivity` |
| `costing` | 3 saves, 3 keys, 2 orders of which one is there, imports that change quantity and currency, amounts that round to nothing, overflow the column or are malformed | `TypeOK`, `ProfileIsLastSave`, `FiguresBelongTogether`, `AnswersMatchLedger`, `CostsMoveWithTheirEvents`, and the laws of `Money` over bounded amounts (`MoneyLaws`) |
| `migrations` | 3 runners, each with any of five checkouts of three files: a first release, the last one with CRLF line endings, the same with a file left out, one without its first file, an edited file before one that controls its transaction | `TypeOK`, `EffectsMatchTracking`, `DoneMeansCurrent`, `RefusedForCause`, `RunIsAtomic`, `EveryRunnerEnds` |

Each property of a passing run is paired with a fault of the code that breaks
it (the operators commented "Fault"): a missing index, a skipped check, a
dropped commit, an old value written back.

**Bounds.** Two requests under one key are a first attempt and its retry; two
under different keys are a race; a third lets a race and a retry happen at
once, or an outsider commit while two wait for each other. The waits relate one
row, one pair or one key, so a cycle of two is the shortest deadlock and the
third request is there to see its remains. Two orders are the fewest that can be
listed in opposite orders; three lines are the fewest that give a batch one
import and one rejection. `MaxNow = 1` gives runs that share `started_at` and
runs that do not. In `store_race` and `costing` `Calls` is a chosen set and not
every combination: each kind of call, each refusal, and two competing values of
each thing that can compete. Three sign-ins let two failures impose a lock that a
third has judged before or judges after it has expired. Three session requests
are one to open it and two to overlap: a visit that slides the session forward
while a sign-out ends it, or two visits of which the second lives by the
activity of the first; an idle timeout of 3 and an absolute one of 4 is the
smallest pair for which a session can be alive by activity and over all the
same. In `costing` the decimal context keeps 4 digits and the column refuses from
3.00 on, so that small amounts and a quantity of 3 meet both limits;
`MostDigits` bounds the search for the length of a number and is never reached.
Three runners are one that finishes, one that overlaps it and one that comes
after, or one that leaves the first release behind and two that deadlock over its
table; three files are the fewest of which one is missing between two. The texts
of `migrations` are the shapes of the repository's files: 001 makes `stores`, 003
and 004 each make a table that refers to it, and one changes its rows.

Three runs leave states out by a CONSTRAINT, each said beside its definition:
`import_outcomes` lets settings change once and an outsider send one body
(nothing of a body but its store is looked at before the scope), `access`
separates attempts on the first account from sessions of the second, which share
no row, and `screen` names its requests in the order they are sent and leaves the
settings alone. In runs that use `SYMMETRY` the requests (in Team and the import
also the keys) are interchangeable in `Init`, `Next` and every property; the runs
with a liveness property use none.

**Deadlock checking** is off: all requests may have been answered, which is an
end and not a deadlock. Waiting forever is what `EveryCallEnds` and
`EveryRunnerEnds` exclude.

**Fairness.** `FairScreenSpec` assumes `WF_vars(Serve(r))` for each import: its
worker thread is scheduled, and PostgreSQL's deadlock detector cancels somebody
in a cycle of waits (`AbortDeadlock` is part of `Serve`). Weak fairness suffices,
because a request that waits for a row or a key that stays held waits for a
request that can move. Nothing is assumed of clients, who may never send or
retry, of viewers, of the clock, or of whoever changes a store. `Migrations`
assumes `WF_vars(Step(r))` of each runner that has been started, and nothing of
who starts or kills one; `AbortDeadlock` is part of `Step`, and a wait in no circle
is for a runner that can move.

### What the checks say against the documents

1. `import_dates`: a refresh after a timezone change moves the date of an order
   already stored (`src/orders/repository.py:112`); the user stories
   (`docs/walmart-user-stories.md:139`) keep assigned dates.
2. `import_visible`: an import that fails because the store has no timezone or
   no `managed_from` rolls its `import_batches` row back
   (`src/orders/service.py:270`), so the failed refresh is not visible
   (`docs/walmart-user-stories.md:791`).
3. `team_retry`: a retry of a grant beside its first attempt meets the primary
   key of the assignment before the ledger and is answered 409
   (`src/team/service.py:218`, comment at line 33).
4. `team_revoke`: a revocation whose DELETE removed nothing is recorded all the
   same (`src/team/service.py:295`, comment at line 287).

Five more sentences say less or more than the code does, in ways a property
states exactly: the docstring of `src/db/migrate.py` gives a file a transaction, and
the whole run is one (`RunIsAtomic`); `src/audit.py:44` speaks of returning the
original outcome, and a replayed store change or cost save answers what is there
by now, never anything older than its own write (`AnswersMatchLedger` of
`StoreRegistry` and `Costing`); `before_state` was true at some moment before,
not always at the last one (`BeforeWasReal`); `src/costing/service.py:23`
gives a known zero a total of zero, and `:205` gives the total a single half-up
rounding, while an entered 0.004 is flagged a known zero and three of it make a total
of 0.01, and a product longer than the decimal context is rounded there first
(`FiguresBelongTogether` says how far either goes); order-level freshness advances with
each import unless two of them overlap (`FreshnessCoversItsRuns`).

## 4. Proofs

For any sets of requests, keys, users, stores, orders and bodies:

| Module | Theorem | Statement |
|---|---|---|
| `OrderImportProofs` | `TypeCorrect` | `Spec => []TypeOK` |
| | `LedgerAgreesWithRuns` | `Spec => []RunsMatchLedger` |
| | `ToldOutcomesAreDurable` | `Spec => []AnswersAreDurable` |
| | `ScopeIsRespected` | `Spec => []OutOfScopeIsNotFound` |
| | `CommittedStays` | `Spec => CommittedIsKept` |
| | `ImportsKeepThePromise` | `Spec => EffectOnce`: imports implement `OperationLedger` |
| `ImportRunsProofs` | `BooksBalance` | `Spec => []RunsBalance` |
| | `RunsAreAtomic` | `Spec => RunIsAtomic` |
| | `RowsHaveRuns` | `Spec => []RowsComeFromTheirRuns` |
| | `LatestIsShown` | `Spec => LatestRunShows` |
| | `ViewsMatch` | `Spec => []ViewMatchesLedger` |
| | `FreshnessCovers` | `ScreenSpec => []FreshnessCoversItsRuns` |
| | `PagesAreCoherent` | `ScreenSpec => []PageIsCoherent` |
| `TeamProofs` | `TeamTypeCorrect` | `Spec => []TypeOK` |
| | `AccessIsExplained` | `Spec => []AccessIsRecorded` |
| | `TeamAnswersAgree` | `Spec => []AnswersMatchLedger` |
| | `AccessMovesWithEvents` | `Spec => ChangesAreRecorded`: an assignment moves only with a fresh operation_id that says so |
| | `AccessIsABook` | `Spec => AccessIsAtomic`: the service implements `TeamBook` |
| `StoreRegistryProofs` | `StoreTypeCorrect` | `Spec => []TypeOK` |
| | `StoresAreExplained` | `Spec => []StoresAreRecorded` |
| | `WritesAreExplained` | `Spec => WritesAreRecorded`: the stores move only as a fresh event says |
| | `RegistryIsABook` | `Spec => RegistryIsAtomic`: the endpoints implement `StoreBook` |
| | `BeforesAreReal` | `Spec => []BeforeWasReal` |
| | `StoreAnswersAgree` | `Spec => []AnswersMatchLedger` |
| `CostingProofs` | `CostTypeCorrect` | `Spec => []TypeOK` |
| | `CostsAreExplained` | `Spec => []ProfileIsLastSave` |
| | `CostAnswersAgree` | `Spec => []AnswersMatchLedger` |
| | `CostsMoveWithEvents` | `Spec => CostsMoveWithTheirEvents` |
| | `StoredFiguresBelong` | `Spec => []FiguresBelongTogether` |
| | `MoneyKeepsItsLaws` | `Spec => []MoneyLaws` |
| | `RoundsToNearest` | every amount and every ratio is rounded to the nearest, half away from zero |
| | `TotalsAreSums` | every total is the sum of its items, in one currency or not at all |
| `AccessProofs` | `AccessTypeCorrect` | `Spec => []TypeOK` |
| | `SignOutsAreFinal` | `Spec => []SignOutIsFinal` |
| | `SessionsAreKeptAlive` | `Spec => []SessionsLiveByActivity` |
| | `AnswersAreKept` | `Spec => []AnswersAreOnTheTrail` |
| | `CountsAreTold` | `Spec => []TrailTellsTheCount` |
| `MigrationsProofs` | `TypeCorrect` | `Spec => []TypeOK` |
| | `FilesAreAppliedOnce` | `Spec => []EffectsMatchTracking` |
| | `DoneIsCurrent` | `Spec => []DoneMeansCurrent` |
| | `RefusalsHaveTheirCause` | `Spec => []RefusedForCause` |
| | `RunsAreAtomic` | `Spec => RunIsAtomic` |
| | `ReleasesTakeTurns` | `Spec => []NobodyIsStuck`: runners of one history never wait in a circle |

**Assumptions.** Each module names what it asks of its constants, and TLC evaluates
it in every run. `OrderImport`: scopes are sets of stores, offsets and days are
integers, `None` is none of them (`NoneIsFresh`) and no row, event, outcome or call
(`NoneIsNoRow`); a body names a store and a non-empty sequence of lines, as the
request model validates (`BodiesAreValid`); stores start with a configuration the
table allows (`SettingsAreConfigs`). `Team` and `StoreRegistry`: the users and
stores that exist are among the ids a caller may send, `None` is no id, no row and
no call (`NoneIsNoEvent`, `NoneIsNoCall`), so that a request that has arrived is told
from one that has not.
`Money`: the context keeps at least one digit and an amount may have as many
(`DigitsArePositive`), and powers of ten are whole and multiply (`PowersOfTen`), a
fact of arithmetic that TLC evaluates and the provers, who know nothing of `^`,
cannot. `Costing`: `None` is no call, order, row or event (`NoneIsNoRow`), and
`MostDigits` is enough for every product of an amount sent and a quantity
(`ProductsAreAmounts`); `Amounts` and `Sums`, of which `MoneyLaws` is stated, are any
integers and any money values.
`Access`: the timeouts are positive, the requests finitely many, so that a count
of failures is bounded (`PolicyIsSet`), and `None` is no row and no call
(`NoneIsNoRow`). `Migrations`: filenames are finitely many numbers, in the order `sorted` gives
them, a checkout names some of them, a text is a sequence of statements
(`MigrationsConstants`), and an object is made by one statement of the files of one
name (`ObjectsHaveTheirFile`), as in the repository's six files.

**Order import.** The inductive invariant is `LocalInv /\ LedgerInv`.

* `LocalInv` is `TypeOK` and `Progress`, what the local variables of
  `import_orders` hold at each line: a type alone does not say that a request
  about to commit has a batch row of its own store, or that one about to upsert
  has a timezone.
* `RunsMatchLedger` and `AnswersAreDurable` are not inductive. A commit adds one
  run and one event: that the run is named once needs `RunsAreFresh` (an open
  run's `batch_seq` is below the sequence, shared with no other open run and
  with no visible one); that the event is not overwritten needs
  `KeyIsHeldAlone` (a request past `audit.record` has a key that is free in the
  ledger and that no other request past it holds, which is the unique index);
  that a replay has an outcome to report needs `ImportsCarryOutcomes` (a
  settings event has none); that a rollback tells nothing needs
  `OnlyRepliesTell`.

The proof goes by action. The steps that change no table share `QuietStep`; the
three ways out of a request share `ReplyLedger`; `CommitLedger` is where the
strengthenings meet; `WorldLedger` covers the client, the clock and settings
changes. `Step` puts them together and `Invariance` is the temporal step.

**The promise.** That an import alters no committed row needs to know what its
uncommitted rows are: `RowsInv` says that a row of an order is held by one open
transaction and keeps the id of the committed row it refreshes (`RowsAreLocked`),
that a request knows its own run (`RunsHaveOwners`), and that one outside its scope
has nothing (`RefusedAtOnce`). `AllInv` adds it to the invariant above. The refinement maps the ledger of `OrderImport`, with the answers told, to
the variables of `OperationLedger`: initial states to initial states, a commit to
the performance of a fresh operation, a reply with an outcome to the telling of
one already performed, and every other step to a stutter.

**Runs and screens.** The properties about the books of an import and about the
orders screen count and select: as many errors as rejected orders, the run that
started last, the newest stamp. `RunsInv` is `AllInv` with three parts more.

* `OpenInv`: what a request has counted so far. Of the lines of its body, each
  group is to do, imported or rejected, and only one of them (`BooksAgree`); the
  rows it holds are those its results name, each from the only line of its order
  (`RowsAgree`); what `finish_import_batch` wrote is what was counted
  (`BooksClosed`). A commit can publish balanced books only if they balanced
  while nobody could see them.
* `Archive`: `RunsBalance` with what keeps it: every error has a run, every run
  has finished, and an event names an order once.
* `Chronicle`: who wrote a committed row, and when. One run created it, every run
  that names it knows it by the same id, and one that was open at its stamp sent
  the line it carries (`RowHistory`); a run that has waited for a row finishes no
  earlier than whoever held it before (`FinishedBefore`); so the stamp of a row is
  older than a run that names it only when that run had company (`StampsCover`).

`RunIsAtomic` and `LatestRunShows` follow from one step and this invariant. For
`OrdersScreen`, whose imports take the same steps, `PagesTell` adds what a page
holds after each of its reads, said so that runs which become visible meanwhile
cannot take it back (`PageStays`): of the runs known when the page was asked for,
and of the latest run only while it is the latest of all. `Extremes` gives every
set of numbers that is bounded its greatest member, from the library's theorem
that `<` on the naturals is well founded, so that each `CHOOSE` of a latest run
or stamp has something to choose.

**Team.** `TeamInv` adds to the properties: what a request has written is there
to be written (`WritesHold`), a pair and an operation_id are held by one
transaction each (`PairIsHeldAlone`, `KeyIsHeldAlone`), only a request that has
left the service tells anything (`OnlyRepliesTell`), and the spent operation_ids
are finitely many, so that grants and revocations can be counted.

That `Team` implements `TeamBook` needs `BookInv`: `Due` says of the statement a
request has reached what makes its later answer true. The moment that counts is the
commit for a request that is carried out, and the statement that decides for one
that is refused or replayed. A revocation that has passed `assignment_exists` still
has a row to remove or was overtaken (`Overtaken`); what keeps this while others
commit is that only a revocation of the very pair can take its row away, and its
commit records the event that overtakes (`CommitOvertakes`). `BookStep` maps each
action: `BookCommits` to `Grant`, `Revoke` or `RevokeOvertaken`, `BookReplays` to
`Repeat` or a conflict, the others to a refusal or a stutter.

**Store registry.** `RegistryInv` says of each request what the statement it has
reached implies (`Standing`: a creation holds an id and a `walmart_store_key` that
are free, an update holds the committed row with its columns laid over it), of
each two what they cannot both hold (`Apart`), and of the tables that keys are
unique and that each store has its one creation (`CreatedOnce`). `OwnStep` serves
every step that changes no table; `CommitShape` says once what a commit changes.

`BeforeWasReal` and `AnswersMatchLedger` speak of the store as the first n events
of the trail tell it. `HistoryInv` states them with the ledger and the trail as
parameters (`Tells`), so that what a prefix tells is the same before and after a
commit that adds an event to the end. Its parts: the trail lists each spent
operation_id once (`TrailLists`); each store is what the whole trail tells of it
(`StoresTold`), which is what makes a row that a request reads a moment of that
history; the columns an open update keeps as "before" are of one such moment
(`Reading`); a recorded "before" is of a moment earlier than its event
(`BeforesTold`); what was told is of a moment no earlier than its own event
(`Told`), and one caller of a key is told it was first (`First`).

The refinement of `StoreBook` adds `Due` to that: who has passed the role check was
permitted, who is past the empty patch has something to change, and who rereads a
store has it in scope. A commit performs its operation in one step because the row
it publishes is the committed row with its columns laid over it (`Standing`), which
is `Patched` of the store at that moment, whatever the request had read before; a
reread is the moment of a replay (`BookRereads`).

**Costing.** `CostInv` says of each request what the statement it has reached
implies (`Standing`: the row a save holds is one revision above the committed
one, whoever commits has a free operation_id, whoever reads the profile has one
that is spent on its order) and what it was told (`Told`); of two, that they hold
different rows and keys (`Apart`) and that one of a key was told it is first
(`OneFirst`); of the trail, that it lists each spent operation_id once and that
the saves of an order have a last one (`TrailInv`, which makes the `CHOOSE` of
`Last` meaningful). `OwnStep` serves the steps that record nothing; a save that
commits and an import share the lemmas about `Records`: a step that spends a
fresh operation_id adds one position to the trail, after all others.

`FiguresBelongTogether` relates a stored row to the request that computed it.
`FiguresInv` carries that: a row that waits for its commit is computed from what
its request read (`Computed`), and every recorded save has a request, still known,
and one reading of the order from which it was computed (`Recorded`). What is left
is arithmetic on one call and one reading (`ComputedBelongs`): rounding half up
moves an amount by half a unit at most (`HalfUpIsNearest`), the context by half of
its last digit (`ContextIsNear`, where `LeastOf` makes the `CHOOSE` of the number of
digits meaningful), and a unit cost that rounds to nothing is half a cent at most
(`ZeroIsSmall`). `RoundsToNearest` and `TotalsAreSums` are the laws of the arithmetic
for every amount; `MoneyKeepsItsLaws` draws `MoneyLaws` from them, for whatever
`Amounts` and `Sums` it is stated of. The recursion of `total` is met without induction
over an operator: the shortest prefix without running sums, or the first running
sum that is not as claimed, is excluded by the one before it (`LeastOf` again).

**Access.** Neither property is inductive. A visit slides a session by writing
its row, so that a sign-out is final only if nobody writes back a row it read
earlier: `VisitStanding` says that the row a visit holds is the committed one but
for `last_seen_at`, and stays so because no other request holds it (`Apart`).
That a visit comes within the idle timeout of a visit that lasted needs
`SessionsLived`: `last_seen_at` as committed is the instant of the sign-in or of a
visit that has moved the session, never of one that was rolled back. A visit
that judges at that very instant has no earlier visit to point to but that of
the other one, which is why `Supported` is part of the invariant (`NotIdle`).
`World` collects what every step leaves to the requests that do not take it:
tokens stay known, answers given, sessions keep their identity, their absolute
timeout and their end. `CountsAreBounded` gives the type of a failed count.

The trail of sign-ins is the second invariant of `Access`, `TrailInv`. What an open
attempt will add to the trail is known before it commits, but not what the trail
will be by then, since attempts on other accounts commit in between. So
`Explains(E, u, c, d)` quantifies over every trail: whichever tells the account
`c` of `u` tells `d` once the events `E` follow. An open attempt's events explain
the row it holds from the committed one (`AttemptTold`), and stay so because no two
open attempts hold one account (`Alone`, the row lock). Of each request,
`RequestTold` says that the trail has nothing of it while it is open, and what its
events, its answer and its session say of each other.

**Migration runner.** `MigInv` says of a runner at work (`Working`) that what it
has done is the files it had not found applied among those it has passed, as they
are in its directory, that the rows it read still stand, and that nobody has
committed a row it has inserted; of one that has ended, what the rows still say
of its end (`Outcome`); of any two, that they hold different rows (`Apart`, the
primary key of `schema_migrations`). It rests on two facts about listings: a
finite set of filenames can be put in order, by the least of its members each
time (`CanBeListed`, which makes the `CHOOSE` of `Discover` meaningful), and the
order survives what a runner does to its list. `OwnStep` serves every action but
`Finish`, which alone touches the database.

That a run raises over an object only when it was overtaken needs to know where
objects come from: an uncommitted one is one runner's (`MadeApart`) and not there
yet (`Fresh`), and what is there was made by a file of some checkout
(`EffectsHaveFiles`), which by `ObjectsHaveTheirFile` has the name of the file at
hand (`AlreadyMade`). A run that finds something missing sees all that the files
behind it make, whether it executed or skipped them (`PassedIsSeen`), so its
directory lacks it.

Runners may deadlock, and `ReleasesTakeTurns` says when they do not: if all started
checkouts are releases of one history (`InStep`). Everyone in a circle of waits has
executed a statement (`AwaitedHasTouched`; the one who creates the tracking table is
alone). Whoever has executed one has executed the first of the first file it found
unapplied (`TouchedHasAFirst`). Of two such runners with the same first file both
would have made its object; with different ones, the later has the earlier's file
applied, and the earlier would have made what is there (`OneAtATime`). Without any
of the three parts of `InStep` the claim is false: two texts of one file may make
the same objects in another order; with a file left out, 1, 2, 3 beside 1, 3
deadlock once 1 is applied, as the run `migrations` does; and a file that only
changes rows lets two runners share a table that both then need for themselves. The deadlock clause of `RefusedForCause` is its consequence.

**Only model-checked**: liveness (`EveryCallEnds`, `EveryRunnerEnds`), which is
beyond the prover. Every other property of a passing run is a theorem. The
properties of the four runs that end in a violation are false. No module uses a
RECURSIVE operator; the sum of `Money` is a recursive function.

## 5. What is not modelled

* Parsing and validation of bodies, header parsing and rendering: library code;
  `Bodies` and `Calls` are what passes them.
* Password hashing, TOTP and token generation; `access_policy` is constant.
  `GET /sign-in` validates a session without resolving a scope and is a visit
  like another.
* The pool's ten connections: a request holds one at a time, so the pool
  delays requests and cannot deadlock them.
* `list_stores`, `list_managers`, `activation_blockers`, the rows of the orders
  list and other reads that change nothing and that no property is about.
* Quantities, names, amounts and currencies in the orders of an import: they are
  copied and never compared there; `Costing` models the two a cost depends on.
* `save_buying_cost` has no endpoint at this commit: its tests call it with a
  connection, and `Costing` gives each call a transaction as the other endpoints
  do.
* In `Money`: comparisons, negation and construction from text, which are exact,
  and the last context digit of a quotient that does not end (`ratio_to` rounds
  to four places long before it). An amount too long for `quantize` raises, and
  so does the column.
* In `Migrations`: locks of the running application and of its sessions, which a
  deploy may have to wait for; row locks of a file's own data changes; an index that
  is dropped and made again (005); `create extension if not exists`, which like the
  tracking table is looked for and then made; and syntax errors, after which the
  runner ends as after any other.
* Transaction control the regular expression of `migrate.py` does not recognise
  (`end;`, `commit work;`), with which a file could end the run's transaction; no
  migration of the repository has any.
* Daylight-saving tables: offsets are whole hours.
* `config.py` (two environment variables), templates and styles, the guardrail
  scripts and the triggers in `docs/guardrails/sql`, which no migration installs.

## 6. Plan

Done: the core (`OrderImport` and the proof that it implements `OperationLedger`),
`Team`, `StoreRegistry`, `Access`, `Money`, `Costing`, `Migrations` and
`OrdersScreen`, with proofs of all their safety properties, and the abstract
specifications `TeamBook` and `StoreBook` with proofs that the services implement
them.

To come: **scope end to end**, the assignments of `Team` read by the scope
resolution of `Access` before a request of `OrderImport`, in one module, to say how
long a revoked manager is still served; and a specification of `Costing` in two
moments, the reading of the order and the record of the save.
