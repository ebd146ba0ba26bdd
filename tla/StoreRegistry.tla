------------------------------ MODULE StoreRegistry ------------------------------
(***************************************************************************)
(* POST /stores, PATCH /stores/{store_id}, POST /stores/{store_id}/notes:   *)
(* create_store and update_store_identity of stores/service.py and         *)
(* add_store_note of main.py, over stores and the operation ledger.  Each  *)
(* request is one READ COMMITTED transaction whose statements are steps of *)
(* their own.  What it has written and not committed lives in row[r] and   *)
(* nobody else reads it; the row, its walmart_store_key and its            *)
(* operation_id stay locked until the transaction ends.                    *)
(***************************************************************************)
EXTENDS Naturals, Sequences, FiniteSets

CONSTANTS
  Requests,       \* HTTP calls, each retry being a call of its own
  Keys,           \* Idempotency-Key values
  StoreIds,       \* ids gen_random_uuid may draw, and ids a caller may send
  Registered,     \* stores registered under keys that are not in Keys
  WalmartKeys,    \* walmart_store_key values
  Values,         \* values an identity field may take
  Scopes,         \* store scopes request_actor may resolve for an admin or a manager
  Calls,          \* requests that pass validation
  None            \* SQL NULL, Python None

Fields == {"name", "timezone", "managed_from"}
CanCreateStore == {"owner"}
CanChangeStoreSettings == {"owner", "admin"}
CanChangeManagedFrom == {"owner"}

\* A patch is the columns it gives; no column can be set to NULL.
Patch == UNION {[given -> Values] : given \in SUBSET Fields}
BeforeState == UNION {[given -> Values \cup {None}] : given \in SUBSET Fields}
Identity == [Fields -> Values \cup {None}]
Store == [key : WalmartKeys, identity : Identity]

Caller == {[role |-> "owner", scope |-> StoreIds]} \cup
          [role : {"admin", "manager"}, scope : Scopes]
Call == [op : {"create"}, key : Keys, by : Caller, store : {None}, body : Store]
        \cup [op : {"update"}, key : Keys, by : Caller, store : StoreIds, body : Patch]
        \cup [op : {"note"}, key : Keys, by : Caller, store : StoreIds, body : {None}]

EventType == {"store_created", "store_settings_updated", "store_timezone_changed",
              "store_note_added"}
Event == [type : EventType, store : StoreIds, before : BeforeState \cup {None},
          after : Store \cup Patch \cup {None}]
AnswerKind == {"none", "done", "forbidden", "out_of_scope", "duplicate_store_key", "conflict"}
Answer == [kind : AnswerKind, store : StoreIds \cup {None}, replayed : BOOLEAN,
           shown : Store \cup {None}]

ASSUME KnownStores ==
  /\ Registered \subseteq StoreIds /\ \A scope \in Scopes : scope \subseteq StoreIds
  /\ Calls \subseteq Call
  /\ None \notin StoreIds \cup Keys \cup Store \cup Event
ASSUME NoneIsNoCall == None \notin Call

VARIABLES
  stores,         \* table stores, keyed by id
  ledger,         \* table audit_events, keyed by operation_id
  trail,          \* the operation_ids in the order their events became visible
  pc, call,       \* where each request stands and what it was sent with
  target,         \* the store each request writes
  row,            \* that store as the request read it, then as it writes it
  before,         \* the before_state it will record
  answer          \* the response each request computed

tables == <<stores, ledger, trail>>
vars == <<tables, pc, call, target, row, before, answer>>

--------------------------------------------------------------------------------
Given(r) == DOMAIN call[r].body

Permitted(r) ==
  CASE call[r].op = "create" -> call[r].by.role \in CanCreateStore
    [] call[r].op = "update" ->
         /\ call[r].by.role \in CanChangeStoreSettings
         /\ "managed_from" \in Given(r) => call[r].by.role \in CanChangeManagedFrom
    [] call[r].op = "note" -> TRUE

\* The event type the request records, and expects under its key.
TypeOf(r) ==
  CASE call[r].op = "create" -> "store_created"
    [] call[r].op = "update" -> IF "timezone" \in Given(r) THEN "store_timezone_changed"
                                ELSE "store_settings_updated"
    [] call[r].op = "note" -> "store_note_added"

Refuse(kind) == [kind |-> kind, store |-> None, replayed |-> FALSE, shown |-> None]
Done(store, replayed, shown) ==
  [kind |-> "done", store |-> store, replayed |-> replayed, shown |-> shown]

Overlay(identity, patch) ==
  [f \in Fields |-> IF f \in DOMAIN patch THEN patch[f] ELSE identity[f]]

\* Fault: every column is written back as it was read.
MergedAsRead(r) == [row[r] EXCEPT !.identity = Overlay(@, call[r].body)]

\* UPDATE names the given columns only: the others keep what is committed.
Merged(r) == [stores[target[r]] EXCEPT !.identity = Overlay(@, call[r].body)]

\* Fault: before_state is taken from the row after the update.
BeforeAsWritten(r) == call[r].body
\* before_state: the given columns of the row as it was read.
Before(r) == [f \in Given(r) |-> row[r].identity[f]]

\* Fault: the entity of the recorded event is not compared.
IsReplayOfAnyStore(r) == ledger[call[r].key].type = TypeOf(r)
\* check_replay_target: a creation cannot know its store in advance.
IsReplay(r) ==
  LET event == ledger[call[r].key]
  IN  event.type = TypeOf(r) /\ (call[r].op # "create" => event.store = call[r].store)

--------------------------------------------------------------------------------
Init ==
  /\ stores \in [StoreIds -> Store \cup {None}]
  /\ \A s \in StoreIds : stores[s] # None <=> s \in Registered
  /\ \A s \in Registered : stores[s].identity = [f \in Fields |-> None]
  /\ \A s, t \in Registered : stores[s].key = stores[t].key => s = t
  /\ ledger = [k \in Keys |-> None]
  /\ trail = <<>>
  /\ pc = [r \in Requests |-> "unsent"]
  /\ call = [r \in Requests |-> None]
  /\ target = [r \in Requests |-> None]
  /\ row = [r \in Requests |-> None]
  /\ before = [r \in Requests |-> None]
  /\ answer = [r \in Requests |-> Refuse("none")]

Goto(r, label) == pc' = [pc EXCEPT ![r] = label]

\* Fault: the response leaves, its transaction stays open.
ReplyInOpenTransaction(r, a) ==
  /\ Goto(r, "replying")
  /\ answer' = [answer EXCEPT ![r] = a]
  /\ UNCHANGED <<target, row, before>>

\* The request leaves the service with a response; what it wrote is taken back.
Reply(r, a) ==
  /\ Goto(r, "replying")
  /\ answer' = [answer EXCEPT ![r] = a]
  /\ target' = [target EXCEPT ![r] = None]
  /\ row' = [row EXCEPT ![r] = None]
  /\ before' = [before EXCEPT ![r] = None]

\* Where a request goes once it has found its operation_id taken: a note is
\* answered from the event, the others read their store once more.
ReplayOrConflict(r) ==
  IF ~IsReplay(r) THEN Reply(r, Refuse("conflict"))
  ELSE IF call[r].op = "note" THEN Reply(r, Done(call[r].store, TRUE, None))
  ELSE /\ Goto(r, "reread")
       /\ target' = [target EXCEPT ![r] = None]
       /\ row' = [row EXCEPT ![r] = None]
       /\ before' = [before EXCEPT ![r] = None]
       /\ UNCHANGED answer

Send(r, c) ==
  /\ pc[r] = "unsent"
  /\ Goto(r, "opened")
  /\ call' = [call EXCEPT ![r] = c]
  /\ UNCHANGED <<tables, target, row, before, answer>>

\* The role is checked before any read.  Only a creation looks its
\* operation_id up in advance; the others find out when they record.
Authorize(r) ==
  /\ pc[r] = "opened"
  /\ IF ~Permitted(r) THEN Reply(r, Refuse("forbidden"))
     ELSE /\ Goto(r, IF call[r].op = "create" THEN "lookup" ELSE "read")
          /\ UNCHANGED <<target, row, before, answer>>
  /\ UNCHANGED <<tables, call>>

FindByOperation(r) ==
  /\ pc[r] = "lookup"
  /\ IF ledger[call[r].key] # None THEN ReplayOrConflict(r)
     ELSE Goto(r, "insert") /\ UNCHANGED <<target, row, before, answer>>
  /\ UNCHANGED <<tables, call>>

\* get_store under the caller's scope.  An empty patch ends here: nothing is
\* written and nothing is recorded.
GetStore(r) ==
  /\ pc[r] = "read"
  /\ LET s == call[r].store
     IN  IF s \notin call[r].by.scope \/ stores[s] = None
         THEN Reply(r, Refuse("out_of_scope"))
         ELSE IF call[r].op = "update" /\ Given(r) = {} THEN Reply(r, Done(s, FALSE, stores[s]))
         ELSE /\ Goto(r, IF call[r].op = "update" THEN "write" ELSE "record")
              /\ target' = [target EXCEPT ![r] = s]
              /\ row' = [row EXCEPT ![r] = stores[s]]
              /\ UNCHANGED <<before, answer>>
  /\ UNCHANGED <<tables, call>>

\* q has written its row and its transaction is open.
Holding(q) == pc[q] \in {"record", "commit"} /\ call[q].op # "note"

StoreKeyTaken(key) == \E s \in StoreIds : stores[s] # None /\ stores[s].key = key

\* Fault: walmart_store_key has no unique index.
InsertUnchecked(r) ==
  /\ pc[r] = "insert"
  /\ \E id \in StoreIds :
       /\ stores[id] = None /\ \A q \in Requests : target[q] # id
       /\ target' = [target EXCEPT ![r] = id]
       /\ row' = [row EXCEPT ![r] = call[r].body]
  /\ Goto(r, "record")
  /\ UNCHANGED <<tables, call, before, answer>>

\* INSERT waits for an open transaction that inserts the same
\* walmart_store_key; once that one has committed the unique index raises and
\* the answer is DuplicateStoreKey.  The id is drawn at random.
CreateStore(r) ==
  /\ pc[r] = "insert"
  /\ \A q \in Requests \ {r} :
       Holding(q) /\ call[q].op = "create" => call[q].body.key # call[r].body.key
  /\ IF StoreKeyTaken(call[r].body.key) THEN Reply(r, Refuse("duplicate_store_key"))
     ELSE /\ Goto(r, "record")
          /\ \E id \in StoreIds :
               /\ stores[id] = None /\ \A q \in Requests : target[q] # id
               /\ target' = [target EXCEPT ![r] = id]
               /\ row' = [row EXCEPT ![r] = call[r].body]
          /\ UNCHANGED <<before, answer>>
  /\ UNCHANGED <<tables, call>>

\* UPDATE waits for an open transaction that updates the same store, then
\* changes the row that one committed.
UpdateStore(r) ==
  /\ pc[r] = "write"
  /\ \A q \in Requests \ {r} : Holding(q) => target[q] # target[r]
  /\ Goto(r, "record")
  /\ row' = [row EXCEPT ![r] = Merged(r)]
  /\ before' = [before EXCEPT ![r] = Before(r)]
  /\ UNCHANGED <<tables, call, target, answer>>

KeyHeld(r, k) == \E q \in Requests \ {r} : pc[q] = "commit" /\ call[q].key = k

\* audit.record waits for an open transaction that holds the operation_id; when
\* that one has committed, the savepoint takes the row back and the replay is
\* checked.
RecordOperation(r) ==
  /\ pc[r] = "record"
  /\ ~KeyHeld(r, call[r].key)
  /\ IF ledger[call[r].key] # None THEN ReplayOrConflict(r)
     ELSE Goto(r, "commit") /\ UNCHANGED <<target, row, before, answer>>
  /\ UNCHANGED <<tables, call>>

\* get_store under the scope of whoever sends the replay: the store as it is by
\* now.
Reread(r) ==
  /\ pc[r] = "reread"
  /\ LET s == ledger[call[r].key].store
     IN  Reply(r, IF s \in call[r].by.scope THEN Done(s, TRUE, stores[s])
                  ELSE Refuse("out_of_scope"))
  /\ UNCHANGED <<tables, call>>

Commit(r) ==
  /\ pc[r] = "commit"
  /\ stores' = IF call[r].op = "note" THEN stores ELSE [stores EXCEPT ![target[r]] = row[r]]
  /\ ledger' = [ledger EXCEPT ![call[r].key] =
       [type |-> TypeOf(r), store |-> target[r], before |-> before[r], after |-> call[r].body]]
  /\ trail' = Append(trail, call[r].key)
  /\ Reply(r, Done(target[r], FALSE, IF call[r].op = "note" THEN None ELSE row[r]))
  /\ UNCHANGED call

Deliver(r) ==
  /\ pc[r] = "replying"
  /\ Goto(r, "answered")
  /\ UNCHANGED <<tables, call, target, row, before, answer>>

\* The process or the connection ends; what was not committed is rolled back.
Cut(r) ==
  /\ pc[r] \notin {"unsent", "answered", "lost"}
  /\ Goto(r, "lost")
  /\ target' = [target EXCEPT ![r] = None]
  /\ row' = [row EXCEPT ![r] = None]
  /\ before' = [before EXCEPT ![r] = None]
  /\ answer' = [answer EXCEPT ![r] = Refuse("none")]
  /\ UNCHANGED <<tables, call>>

Serve(r) ==
  \/ Authorize(r)
  \/ FindByOperation(r)
  \/ GetStore(r)
  \/ CreateStore(r)
  \/ UpdateStore(r)
  \/ RecordOperation(r)
  \/ Reread(r)
  \/ Commit(r)
  \/ Deliver(r)

Next ==
  \/ \E r \in Requests, c \in Calls : Send(r, c)
  \/ \E r \in Requests : Serve(r) \/ Cut(r)

Spec == Init /\ [][Next]_vars

--------------------------------------------------------------------------------
(* Properties *)

Labels == {"unsent", "opened", "lookup", "insert", "read", "write", "record", "reread",
           "commit", "replying", "answered", "lost"}

\* Every table, response and local variable holds values of its type, and only
\* an open transaction knows a store.
TypeOK ==
  /\ stores \in [StoreIds -> Store \cup {None}]
  /\ ledger \in [Keys -> Event \cup {None}]
  /\ pc \in [Requests -> Labels]
  /\ call \in [Requests -> Call \cup {None}]
  /\ target \in [Requests -> StoreIds \cup {None}]
  /\ trail \in Seq(Keys)
  /\ row \in [Requests -> Store \cup {None}]
  /\ before \in [Requests -> BeforeState \cup {None}]
  /\ answer \in [Requests -> Answer]
  /\ \A r \in Requests : target[r] # None <=> pc[r] \in {"write", "record", "commit"}

Creations(s) == {k \in Keys : ledger[k] # None /\ ledger[k].type = "store_created"
                                /\ ledger[k].store = s}

\* However registrations and their retries race, a walmart_store_key belongs to
\* one store, and the audit trail holds exactly one creation of every store
\* registered here, under the key it still has: no orphan row, no creation of
\* a store that is not there, no second store under one Idempotency-Key.
StoresAreRecorded ==
  /\ \A s, t \in StoreIds :
       stores[s] # None /\ stores[t] # None /\ stores[s].key = stores[t].key => s = t
  /\ \A s \in StoreIds \ Registered :
       /\ Cardinality(Creations(s)) = (IF stores[s] = None THEN 0 ELSE 1)
       /\ \A k \in Creations(s) : ledger[k].after.key = stores[s].key
  /\ \A s \in Registered : stores[s] # None /\ Creations(s) = {}

\* The audit trail alone explains each store: in every step one fresh
\* operation_id at most is recorded, and the stores are what they were with
\* that event's after_state laid over the store it names.  Of two patches that
\* overlap neither takes back what the other wrote, a replay with another
\* payload changes nothing, and a rename disturbs no other column.
WritesAreRecorded ==
  [][LET fresh == {k \in Keys : ledger'[k] # ledger[k]}
         Patches(s) == {k \in fresh : ledger'[k].store = s /\ ledger'[k].type \in
                          {"store_settings_updated", "store_timezone_changed"}}
         Births(s) == {k \in fresh : ledger'[k].store = s /\ ledger'[k].type = "store_created"}
     IN  /\ Cardinality(fresh) <= 1
         /\ \A k \in fresh : ledger[k] = None
         /\ \A s \in StoreIds :
              /\ \A k \in Births(s) : stores[s] = None /\ stores'[s] = ledger'[k].after
              /\ \A k \in Patches(s) :
                   /\ stores'[s].key = stores[s].key
                   /\ stores'[s].identity = Overlay(stores[s].identity, ledger'[k].after)
              /\ Births(s) = {} /\ Patches(s) = {} => stores'[s] = stores[s]]_vars

\* What is recorded under each key, without the before_state.
Recorded == [k \in Keys |->
  IF ledger[k] = None THEN [kind |-> "none", store |-> None, content |-> None]
  ELSE [kind |-> ledger[k].type, store |-> ledger[k].store, content |-> ledger[k].after]]
\* What each caller was told, an answer that is lost included.
ToldTo == [r \in Requests |-> IF pc[r] = "lost" THEN Refuse("lost") ELSE answer[r]]

Book == INSTANCE StoreBook WITH recorded <- Recorded, asked <- call, told <- ToldTo

\* However the statements of overlapping requests interleave, wait and fail, the
\* stores, the ledger and every answer are those of a registry that carries each
\* request out in one step: a store changes only with a fresh operation_id and as
\* that event says, of two patches that overlap neither takes back what the other
\* wrote, a replay changes nothing and is shown the store as it is, an answer that
\* is lost stands for all of its operation or none, and no refusal is given that
\* does not hold at the moment it is given.
RegistryIsAtomic == Book!Spec

Updates == {"store_settings_updated", "store_timezone_changed"}
Position(k) == CHOOSE i \in DOMAIN trail : trail[i] = k
EventAt(i) == ledger[trail[i]]

\* The identity of store s as the first n recorded events tell it.
IdentityAfter(s, n) ==
  [f \in Fields |->
    LET giving == {i \in 1 .. n : EventAt(i).store = s /\
                     \/ EventAt(i).type = "store_created"
                     \/ EventAt(i).type \in Updates /\ f \in DOMAIN EventAt(i).after}
    IN  IF giving = {} THEN None
        ELSE LET last == EventAt(CHOOSE i \in giving : \A j \in giving : j <= i)
             IN  IF last.type = "store_created" THEN last.after.identity[f] ELSE last.after[f]]

\* The before_state of an update is what its store really was, in all the columns
\* together, at some moment before: of two patches that overlap the later one may
\* record what the earlier one replaced, but never columns of two moments, nor
\* what it wrote itself.
BeforeWasReal ==
  \A i \in DOMAIN trail : EventAt(i).type \in Updates =>
    \E n \in 0 .. i - 1 :
      \A f \in DOMAIN EventAt(i).after : EventAt(i).before[f] = IdentityAfter(EventAt(i).store, n)[f]

\* A caller told that its request is done finds under its key an event of that
\* kind about the store it is shown, which is in its scope.  The first caller is
\* shown the store as its own event left it, a replay as that event or a later
\* one did: nobody is shown a state from before its write, nor one of a write
\* that was taken back.  Only an empty patch leaves no event.  Of the callers of
\* one key at most one is told it was first.
AnswersMatchLedger ==
  \A r \in Requests : answer[r].kind = "done" =>
    LET shown == answer[r].shown
        Shows(n) == shown # None => shown = [key |-> stores[answer[r].store].key,
                                             identity |-> IdentityAfter(answer[r].store, n)]
    IN  \/ /\ ledger[call[r].key] # None
           /\ ledger[call[r].key].type = TypeOf(r)
           /\ ledger[call[r].key].store = answer[r].store
           /\ answer[r].store \in call[r].by.scope
           /\ call[r].op # "create" => answer[r].store = call[r].store
           /\ call[r].op # "note" => shown # None
           /\ IF answer[r].replayed
              THEN \E n \in Position(call[r].key) .. Len(trail) : Shows(n)
              ELSE /\ Shows(Position(call[r].key))
                   /\ ledger[call[r].key].after = call[r].body
                   /\ \A q \in Requests : answer[q].kind = "done" /\ ~answer[q].replayed
                                             /\ call[q].key = call[r].key
                                             /\ (call[q].op = "update" => Given(q) # {}) => q = r
        \/ /\ call[r].op = "update" /\ Given(r) = {} /\ ~answer[r].replayed
           /\ \E n \in 0 .. Len(trail) : Shows(n)
================================================================================
