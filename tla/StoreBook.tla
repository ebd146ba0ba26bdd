-------------------------------- MODULE StoreBook --------------------------------
(***************************************************************************)
(* What the endpoints of the store registry promise: as if each request    *)
(* were carried out in one step, at one moment between its arrival and its *)
(* answer.  What is written, what is recorded and what the caller is told  *)
(* are decided together, from the stores and the ledger of that moment.    *)
(***************************************************************************)
CONSTANTS Requests, Keys, StoreIds, Calls, None

VARIABLES
  stores,     \* the stores, by id
  recorded,   \* kind, store and content of the operation recorded under each key
  asked,      \* what each caller asked for
  told        \* what it was told

bookVars == <<stores, recorded, asked, told>>

Refusal(kind) == [kind |-> kind, store |-> None, replayed |-> FALSE, shown |-> None]
Nothing == Refusal("none")
Success(s, replayed, shown) ==
  [kind |-> "done", store |-> s, replayed |-> replayed, shown |-> shown]

\* A key nothing was recorded under.
Unspent == [kind |-> "none", store |-> None, content |-> None]

\* Who may ask for what.
Allowed(c) ==
  CASE c.op = "create" -> c.by.role = "owner"
    [] c.op = "update" -> \/ c.by.role = "owner"
                          \/ c.by.role = "admin" /\ "managed_from" \notin DOMAIN c.body
    [] c.op = "note" -> TRUE

Kind(c) ==
  CASE c.op = "create" -> "store_created"
    [] c.op = "update" -> IF "timezone" \in DOMAIN c.body THEN "store_timezone_changed"
                          ELSE "store_settings_updated"
    [] c.op = "note" -> "store_note_added"

\* A creation finds no store, the others need theirs in scope.
Reached(c) == c.op # "create" => c.store \in c.by.scope /\ stores[c.store] # None
NothingToDo(c) == c.op = "update" /\ DOMAIN c.body = {}

\* The key is spent on an operation of this kind, and on this store.
Repeats(c) == /\ recorded[c.key].kind = Kind(c)
              /\ c.op # "create" => recorded[c.key].store = c.store

KeysDiffer ==
  \A s, t \in StoreIds :
    stores[s] # None /\ stores[t] # None /\ stores[s].key = stores[t].key => s = t
StoreKeyUsed(key) == \E s \in StoreIds : stores[s] # None /\ stores[s].key = key

Patched(store, patch) ==
  [store EXCEPT !.identity = [f \in DOMAIN @ |-> IF f \in DOMAIN patch THEN patch[f] ELSE @[f]]]

--------------------------------------------------------------------------------
Init ==
  /\ KeysDiffer
  /\ recorded = [k \in Keys |-> Unspent]
  /\ asked = [r \in Requests |-> None]
  /\ told = [r \in Requests |-> Nothing]

Ask(r, c) ==
  /\ asked[r] = None
  /\ asked' = [asked EXCEPT ![r] = c]
  /\ UNCHANGED <<stores, recorded, told>>

Waiting(r) == asked[r] # None /\ told[r] = Nothing

\* The one moment of a request that is told no.
Refuse(r, kind) ==
  /\ told' = [told EXCEPT ![r] = Refusal(kind)]
  /\ UNCHANGED <<stores, recorded, asked>>

\* A creation may be told that the walmart_store_key is taken also when it is its
\* own first attempt that took it.
SayNo(r) ==
  LET c == asked[r]
  IN  /\ Waiting(r)
      /\ \/ ~Allowed(c) /\ Refuse(r, "forbidden")
         \/ Allowed(c) /\ ~Reached(c) /\ Refuse(r, "out_of_scope")
         \/ /\ Allowed(c) /\ Reached(c) /\ ~NothingToDo(c)
            /\ recorded[c.key] # Unspent /\ ~Repeats(c) /\ Refuse(r, "conflict")
         \/ /\ Allowed(c) /\ c.op = "create"
            /\ StoreKeyUsed(c.body.key) /\ Refuse(r, "duplicate_store_key")

\* The one moment of a request that is told yes.
Succeed(r, s, replayed, shown) ==
  /\ told' = [told EXCEPT ![r] = Success(s, replayed, shown)]
  /\ UNCHANGED asked

\* An empty patch is a look at the store; its key is neither read nor spent.
Look(r) ==
  LET c == asked[r]
  IN  /\ Waiting(r) /\ Allowed(c) /\ Reached(c) /\ NothingToDo(c)
      /\ Succeed(r, c.store, FALSE, stores[c.store])
      /\ UNCHANGED <<stores, recorded>>

\* What was done is not done again: the caller sees the store as it is now.
Repeat(r) ==
  LET c == asked[r]
      s == recorded[c.key].store
  IN  /\ Waiting(r) /\ Allowed(c) /\ Reached(c) /\ ~NothingToDo(c)
      /\ recorded[c.key] # Unspent /\ Repeats(c) /\ s \in c.by.scope
      /\ Succeed(r, s, TRUE, IF c.op = "note" THEN None ELSE stores[s])
      /\ UNCHANGED <<stores, recorded>>

\* A fresh operation on store s: recorded in the step that carries it out.
Perform(r, op, s, shown) ==
  LET c == asked[r]
  IN  /\ Waiting(r) /\ c.op = op /\ Allowed(c) /\ Reached(c) /\ ~NothingToDo(c)
      /\ recorded[c.key] = Unspent
      /\ recorded' = [recorded EXCEPT
           ![c.key] = [kind |-> Kind(c), store |-> s, content |-> c.body]]
      /\ Succeed(r, s, FALSE, shown)

Create(r, s) ==
  LET c == asked[r]
  IN  /\ Perform(r, "create", s, c.body)
      /\ stores[s] = None /\ ~StoreKeyUsed(c.body.key)
      /\ stores' = [stores EXCEPT ![s] = c.body]

Update(r) ==
  LET c == asked[r]
  IN  /\ Perform(r, "update", c.store, Patched(stores[c.store], c.body))
      /\ stores' = [stores EXCEPT ![c.store] = Patched(@, c.body)]

Annotate(r) ==
  /\ Perform(r, "note", asked[r].store, None)
  /\ UNCHANGED stores

\* No answer reaches the caller: either nothing was done yet, or all of it.
Lose(r) ==
  /\ asked[r] # None
  /\ told' = [told EXCEPT ![r] = Refusal("lost")]
  /\ UNCHANGED <<stores, recorded, asked>>

Next ==
  \E r \in Requests :
    \/ \E c \in Calls : Ask(r, c)
    \/ \E s \in StoreIds : Create(r, s)
    \/ SayNo(r) \/ Look(r) \/ Repeat(r) \/ Update(r) \/ Annotate(r) \/ Lose(r)

Spec == Init /\ [][Next]_bookVars
================================================================================
