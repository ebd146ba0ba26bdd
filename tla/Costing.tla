--------------------------------- MODULE Costing ---------------------------------
(***************************************************************************)
(* save_buying_cost, get_cost_profile and get_cost_completeness of         *)
(* costing/service.py and costing/repository.py, over order_cost_profiles  *)
(* and the operation ledger, while imports change the quantity and the     *)
(* currency of the orders.  A save is one READ COMMITTED transaction whose *)
(* statements are steps of their own; wrote[r] is the row it has written   *)
(* and not committed.  An import is one step: it shares no lock with a     *)
(* save except the operation_id, and a save reads an order once.           *)
(***************************************************************************)
EXTENDS Money, FiniteSets

CONSTANTS
  Requests,       \* calls of save_buying_cost, each retry a call of its own
  Keys,           \* operation_id values
  Orders,
  Stores,
  StoreOf,        \* the store of each order
  Figures,        \* quantity and currency as imports give them
  OrdersAtStart,  \* the orders there may be before the first request
  Imports,        \* the orders imports may bring and what they give them
  Calls,          \* what a request may be sent with
  Malformed,      \* text that is no decimal, or a float
  ColumnLimit,    \* first amount numeric(12,2) refuses
  Amounts, Sums   \* amounts, and money values, the laws of the arithmetic are stated of

Amount == Int \cup {None}
Call == [key : Keys, order : Orders, scope : SUBSET Stores, entered : Amount \cup {Malformed}]

ASSUME CostingConstants ==
  /\ StoreOf \in [Orders -> Stores]
  /\ Figures \subseteq [quantity : Nat \ {0}, currency : STRING]
  /\ OrdersAtStart \subseteq [Orders -> Figures \cup {None}]
  /\ Imports \subseteq [order : Orders, figures : Figures]
  /\ Calls \subseteq Call
  /\ ColumnLimit \in Nat /\ Malformed \notin Amount
  /\ Amounts \subseteq Int /\ Sums \subseteq MoneyValue

VARIABLES
  orders,         \* orders: quantity and currency_code of each order
  profiles,       \* table order_cost_profiles, one row per order
  ledger,         \* table audit_events, keyed by operation_id
  trail,          \* the operation_ids in the order their events became visible
  pc, call,       \* where each request stands and what it was sent with
  seen,           \* the order as the request read it
  wrote,          \* the row it has written
  answer          \* the response it computed

tables == <<orders, profiles, ledger, trail>>
vars == <<tables, pc, call, seen, wrote, answer>>

--------------------------------------------------------------------------------
\* The six keys of a profile, without its order_id.
Profile == [currency : STRING, quantity : Nat \ {0}, per_unit : Amount,
            known_zero : BOOLEAN, total : Amount]
Row == [profile : Profile, revision : Nat]
Event == [type : {"order_cost_profile_saved", "orders_imported"},
          order : Orders \cup {None}, after : Profile \cup {None}]
AnswerKind == {"none", "saved", "invalid_money", "out_of_scope", "conflict", "server_error"}
Answer == [kind : AnswerKind, profile : Profile \cup {None}, replayed : BOOLEAN]

Refuse(kind) == [kind |-> kind, profile |-> None, replayed |-> FALSE]
Saved(profile, replayed) == [kind |-> "saved", profile |-> profile, replayed |-> replayed]

\* None is no call, no order, no row and no event.
ASSUME NoneIsNoRow == None \notin Call \cup Orders \cup Row \cup Event

Blank(order) == [currency |-> order.currency, quantity |-> order.quantity,
                 per_unit |-> None, known_zero |-> FALSE, total |-> None]

\* Fault: the total is taken from the rounded unit cost.
ComputeFromRounded(order, entered) ==
  IF entered = None THEN Blank(order)
  ELSE [Blank(order) EXCEPT !.per_unit = AsSettled(entered),
                            !.known_zero = AsSettled(entered) = 0,
                            !.total = AsSettled(Times(AsSettled(entered), order.quantity))]

\* _compute_buying_cost: the unit cost and the total are rounded once each,
\* both from the amount as entered.
ComputeBuyingCost(order, entered) ==
  IF entered = None THEN Blank(order)
  ELSE [Blank(order) EXCEPT !.per_unit = AsSettled(entered),
                            !.known_zero = AsSettled(entered) = 0,
                            !.total = AsSettled(Times(entered, order.quantity))]

\* MostDigits is enough for every product of an amount sent and a quantity.
ASSUME ProductsAreAmounts ==
  \A c \in Calls, f \in Figures :
    c.entered \in Int => Magnitude(c.entered * f.quantity) < 10 ^ MostDigits

InColumn(amount) == amount = None \/ Magnitude(amount) < ColumnLimit

\* get_cost_profile: the stored row, or a blank with the order's own figures.
GetCostProfile(o) == IF profiles[o] = None THEN Blank(orders[o]) ELSE profiles[o].profile

\* get_cost_completeness
Complete(o) == GetCostProfile(o).total # None

--------------------------------------------------------------------------------
Init ==
  /\ orders \in OrdersAtStart
  /\ profiles = [o \in Orders |-> None]
  /\ ledger = [k \in Keys |-> None]
  /\ trail = <<>>
  /\ pc = [r \in Requests |-> "unsent"]
  /\ call = [r \in Requests |-> None]
  /\ seen = [r \in Requests |-> None]
  /\ wrote = [r \in Requests |-> None]
  /\ answer = [r \in Requests |-> Refuse("none")]

Goto(r, label) == pc' = [pc EXCEPT ![r] = label]
OrderOf(r) == call[r].order

\* Fault: the savepoint is left without taking the row back.
ReplyHoldingRow(r, a) ==
  /\ Goto(r, "replying")
  /\ answer' = [answer EXCEPT ![r] = a]
  /\ seen' = [seen EXCEPT ![r] = None]
  /\ UNCHANGED wrote

\* The request leaves the service with a response; what it wrote is taken back.
Reply(r, a) ==
  /\ Goto(r, "replying")
  /\ answer' = [answer EXCEPT ![r] = a]
  /\ seen' = [seen EXCEPT ![r] = None]
  /\ wrote' = [wrote EXCEPT ![r] = None]

Send(r, c) ==
  /\ pc[r] = "unsent"
  /\ Goto(r, "opened")
  /\ call' = [call EXCEPT ![r] = c]
  /\ UNCHANGED <<tables, seen, wrote, answer>>

\* get_order_for_cost_write: an order outside the scope and an order that is
\* not there are the same; otherwise its figures are read, once.
GetOrder(r) ==
  /\ pc[r] = "opened"
  /\ IF orders[OrderOf(r)] = None \/ StoreOf[OrderOf(r)] \notin call[r].scope
     THEN Reply(r, Refuse("out_of_scope"))
     ELSE /\ Goto(r, "lookup")
          /\ seen' = [seen EXCEPT ![r] = orders[OrderOf(r)]]
          /\ UNCHANGED <<wrote, answer>>
  /\ UNCHANGED <<tables, call>>

\* Fault: the order of the recorded event is not compared.
IsReplayOfAnyOrder(r) == ledger[call[r].key].type = "order_cost_profile_saved"
\* check_replay_target
IsReplay(r) ==
  LET event == ledger[call[r].key]
  IN  event.type = "order_cost_profile_saved" /\ event.order = OrderOf(r)

\* Where a request goes once it has found its operation_id taken: the profile
\* is a read of its own.
ReplayOrConflict(r) ==
  IF IsReplay(r)
  THEN /\ Goto(r, "profile")
       /\ wrote' = [wrote EXCEPT ![r] = None]
       /\ UNCHANGED <<seen, answer>>
  ELSE Reply(r, Refuse("conflict"))

\* find_by_operation, before the new amount is even looked at.  An amount that
\* is no exact decimal ends a fresh request.
FindByOperation(r) ==
  /\ pc[r] = "lookup"
  /\ IF ledger[call[r].key] # None THEN ReplayOrConflict(r)
     ELSE IF call[r].entered = Malformed THEN Reply(r, Refuse("invalid_money"))
     ELSE Goto(r, "save") /\ UNCHANGED <<seen, wrote, answer>>
  /\ UNCHANGED <<tables, call>>

\* q has upserted its row and its transaction is open.
Holding(q) == pc[q] \in {"record", "commit"}

RevisionRead(r) == 1    \* fault: the counter is not moved by the update
\* record_revision of the row an upsert leaves.
NextRevision(r) ==
  IF profiles[OrderOf(r)] = None THEN 1 ELSE profiles[OrderOf(r)].revision + 1

\* INSERT ... ON CONFLICT (order_id) DO UPDATE: it waits for an open save of the
\* same order and goes on with what that one committed.  An amount the column
\* cannot hold raises.
SaveFields(r) ==
  /\ pc[r] = "save"
  /\ \A q \in Requests \ {r} : Holding(q) => OrderOf(q) # OrderOf(r)
  /\ LET profile == ComputeBuyingCost(seen[r], call[r].entered)
     IN  IF ~InColumn(profile.per_unit) \/ ~InColumn(profile.total)
         THEN Reply(r, Refuse("server_error"))
         ELSE /\ Goto(r, "record")
              /\ wrote' = [wrote EXCEPT
                   ![r] = [profile |-> profile, revision |-> NextRevision(r)]]
              /\ UNCHANGED <<seen, answer>>
  /\ UNCHANGED <<tables, call>>

KeyHeld(r, k) == \E q \in Requests \ {r} : pc[q] = "commit" /\ call[q].key = k

\* Fault: nobody looks at what the ledger holds.
RecordBlindly(r) ==
  /\ pc[r] = "record"
  /\ ~KeyHeld(r, call[r].key)
  /\ Goto(r, "commit")
  /\ UNCHANGED <<tables, call, seen, wrote, answer>>

\* audit.record waits for an open transaction that holds the operation_id; when
\* that one has committed, the savepoint takes the row back with its lock.
RecordOperation(r) ==
  /\ pc[r] = "record"
  /\ ~KeyHeld(r, call[r].key)
  /\ IF ledger[call[r].key] # None THEN ReplayOrConflict(r)
     ELSE Goto(r, "commit") /\ UNCHANGED <<seen, wrote, answer>>
  /\ UNCHANGED <<tables, call>>

\* A replay answers the profile as it is by now.
ReadProfile(r) ==
  /\ pc[r] = "profile"
  /\ Reply(r, Saved(GetCostProfile(OrderOf(r)), TRUE))
  /\ UNCHANGED <<tables, call>>

Commit(r) ==
  /\ pc[r] = "commit"
  /\ profiles' = [profiles EXCEPT ![OrderOf(r)] = wrote[r]]
  /\ ledger' = [ledger EXCEPT ![call[r].key] =
       [type |-> "order_cost_profile_saved", order |-> OrderOf(r), after |-> wrote[r].profile]]
  /\ trail' = Append(trail, call[r].key)
  /\ Reply(r, Saved(wrote[r].profile, FALSE))
  /\ UNCHANGED <<orders, call>>

Deliver(r) ==
  /\ pc[r] = "replying"
  /\ Goto(r, "answered")
  /\ UNCHANGED <<tables, call, seen, wrote, answer>>

\* The process or the connection ends; what was not committed is rolled back.
Cut(r) ==
  /\ pc[r] \notin {"unsent", "answered", "lost"}
  /\ Goto(r, "lost")
  /\ seen' = [seen EXCEPT ![r] = None]
  /\ wrote' = [wrote EXCEPT ![r] = None]
  /\ answer' = [answer EXCEPT ![r] = Refuse("none")]
  /\ UNCHANGED <<tables, call>>

\* import_orders brings an order in or refreshes it, under a key of its own.
ImportOrder(k, o, figures) ==
  /\ ledger[k] = None
  /\ \A q \in Requests : pc[q] = "commit" => call[q].key # k
  /\ orders' = [orders EXCEPT ![o] = figures]
  /\ ledger' = [ledger EXCEPT ![k] = [type |-> "orders_imported", order |-> None, after |-> None]]
  /\ trail' = Append(trail, k)
  /\ UNCHANGED <<profiles, pc, call, seen, wrote, answer>>

Serve(r) ==
  \/ GetOrder(r)
  \/ FindByOperation(r)
  \/ SaveFields(r)
  \/ RecordOperation(r)
  \/ ReadProfile(r)
  \/ Commit(r)
  \/ Deliver(r)

Next ==
  \/ \E r \in Requests, c \in Calls : Send(r, c)
  \/ \E r \in Requests : Serve(r) \/ Cut(r)
  \/ \E k \in Keys, i \in Imports : ImportOrder(k, i.order, i.figures)

Spec == Init /\ [][Next]_vars

--------------------------------------------------------------------------------
(* Properties *)

Labels == {"unsent", "opened", "lookup", "save", "record", "profile", "commit", "replying",
           "answered", "lost"}

\* Every table, response and local variable holds values of its type; a request
\* knows an order from its first read to its answer, and has a row of its own
\* exactly while it holds the lock on it.
TypeOK ==
  /\ orders \in [Orders -> Figures \cup {None}]
  /\ profiles \in [Orders -> Row \cup {None}]
  /\ ledger \in [Keys -> Event \cup {None}]
  /\ trail \in Seq(Keys)
  /\ pc \in [Requests -> Labels]
  /\ call \in [Requests -> Call \cup {None}]
  /\ seen \in [Requests -> Figures \cup {None}]
  /\ wrote \in [Requests -> Row \cup {None}]
  /\ answer \in [Requests -> Answer]
  /\ \A r \in Requests :
       /\ seen[r] # None <=> pc[r] \in {"lookup", "save", "record", "profile", "commit"}
       /\ wrote[r] # None <=> Holding(r)

Saves(o) == {i \in DOMAIN trail : ledger[trail[i]].order = o}
Last(positions) == CHOOSE i \in positions : \A j \in positions : j <= i

\* The audit trail alone explains what an order costs: its profile is what the
\* last recorded save left, whatever races, replays and imports came between;
\* record_revision counts the recorded saves; and an order is complete exactly
\* when the last thing recorded about it was an amount and not a blank.
ProfileIsLastSave ==
  \A o \in Orders :
    IF Saves(o) = {}
    THEN profiles[o] = None /\ (orders[o] # None => ~Complete(o))
    ELSE LET last == ledger[trail[Last(Saves(o))]].after
         IN  /\ GetCostProfile(o) = last
             /\ profiles[o].revision = Cardinality(Saves(o))
             /\ Complete(o) <=> last.per_unit # None

\* What the decimal context may move in a product of this size.
ContextError(n) == IF Fits(n) THEN 0 ELSE Magnitude(n) \div 10 ^ (ContextDigits - 1)

\* A stored total belongs to the figures stored beside it: quantity and
\* currency are those of one import, not a mixture of two; unit cost and total
\* are each one rounding of the amount that was entered (up to the decimal
\* context, when the product is longer than it keeps); a blank is blank in
\* both and never a known zero.  A unit cost flagged as zero may carry a total,
\* but never more than half a cent for each unit and for the sum.
FiguresBelongTogether ==
  \A o \in Orders : profiles[o] # None =>
    LET p == profiles[o].profile
    IN  /\ \E f \in Figures : f.quantity = p.quantity /\ f.currency = p.currency
        /\ p.per_unit = None <=> p.total = None
        /\ p.known_zero <=> p.per_unit = 0
        /\ p.total # None =>
             \E r \in Requests :
               /\ call[r] # None /\ call[r].key = trail[Last(Saves(o))] /\ OrderOf(r) = o
               /\ call[r].entered \in Int
               /\ LET exact == call[r].entered * p.quantity
                  IN  /\ p.per_unit = AsSettled(call[r].entered)
                      /\ p.total = AsSettled(exact) \/ ~Fits(exact)
                      /\ 2 * Magnitude(p.total - exact) <= SETTLED + ContextError(exact)
                      /\ p.known_zero => 2 * Magnitude(p.total) <= SETTLED * (p.quantity + 1)
                                                                     + ContextError(exact)

\* A caller told that its cost is saved finds its operation_id spent on a save
\* of this very order, in its scope.  The first caller is told what was
\* recorded, and of the callers of one key only one is first; a replay is told
\* what this save or a later one of the same order recorded.
AnswersMatchLedger ==
  \A r \in Requests : answer[r].kind = "saved" =>
    LET event == ledger[call[r].key]
        Mine == {i \in DOMAIN trail : trail[i] = call[r].key}
    IN  /\ event # None /\ event.type = "order_cost_profile_saved" /\ event.order = OrderOf(r)
        /\ StoreOf[OrderOf(r)] \in call[r].scope
        /\ IF answer[r].replayed
           THEN \E i \in Saves(OrderOf(r)) :
                  /\ \A j \in Mine : j <= i
                  /\ ledger[trail[i]].after = answer[r].profile
           ELSE /\ event.after = answer[r].profile
                /\ \A q \in Requests : answer[q].kind = "saved" /\ ~answer[q].replayed
                                          /\ call[q].key = call[r].key => q = r

\* m is a multiple of step, no other is nearer to n, and of two that are as near
\* it is the one away from zero.
NearestMultiple(m, n, step) ==
  /\ m % Magnitude(step) = 0
  /\ 2 * Magnitude(n - m) <= Magnitude(step)
  /\ 2 * Magnitude(n - m) = Magnitude(step) => Magnitude(m) > Magnitude(n)

\* money.py rounds to the nearest multiple, ties away from zero, for positive
\* and negative amounts, at both precisions and for ratios of either sign; a
\* ratio over zero is unavailable; a total is the exact sum, as long as the
\* decimal context holds every running sum, in the one currency asked for or not
\* at all.  It is a law of the operators, looked at once, before any request.
MoneyLaws == pc = [r \in Requests |-> "unsent"] /\ trail = <<>> =>
  /\ \A n \in Amounts : /\ NearestMultiple(AsSettled(n), n, SETTLED)
                        /\ NearestMultiple(AsEstimate(n), n, ESTIMATE)
  /\ \A a, b \in Sums :
       IF b.amount = 0 THEN RatioTo(a.amount, b.amount) = None
       ELSE NearestMultiple(b.amount * RatioTo(a.amount, b.amount), RATIO * a.amount, b.amount)
  /\ \A a, b, c, d \in Sums :
       LET sum == Total(<<a, b, c>>, d.currency)
       IN  IF {a.currency, b.currency, c.currency} # {d.currency} THEN sum = None
           ELSE Fits(a.amount) /\ Fits(a.amount + b.amount) /\ Fits(a.amount + b.amount + c.amount)
                => sum = [amount |-> a.amount + b.amount + c.amount, currency |-> d.currency]

\* An order's cost moves only in the step that records a fresh operation_id for
\* a save of that order, one revision at a time: an import that changes the
\* quantity or the currency leaves the stored figures alone, and so does a
\* replay, a refusal and a save that lost a race.
CostsMoveWithTheirEvents ==
  [][\A o \in Orders : profiles'[o] # profiles[o] =>
       \E k \in Keys :
         /\ ledger[k] = None /\ ledger'[k] # None /\ ledger'[k].order = o
         /\ ledger'[k].after = profiles'[o].profile
         /\ profiles'[o].revision =
              (IF profiles[o] = None THEN 1 ELSE profiles[o].revision + 1)]_vars
================================================================================
