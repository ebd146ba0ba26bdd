-------------------------- MODULE StoreRegistryProofs --------------------------
(* Theorems about StoreRegistry, for every value of its constants. *)
EXTENDS StoreRegistry, FiniteSetTheorems, Extremes, TLAPS

\* What one request is at, by the statement it has reached: a creation has drawn
\* an id and a walmart_store_key that are free, an update lays its columns over
\* the committed row, whoever commits has a free operation_id, and whoever reads
\* its store once more has a recorded one.
Standing(r) ==
  /\ pc[r] # "unsent" => call[r] \in Call
  /\ pc[r] \in {"lookup", "insert"} => call[r].op = "create"
  /\ pc[r] = "read" => call[r].op \in {"update", "note"}
  /\ pc[r] = "write" => call[r].op = "update" /\ row[r] \in Store
  /\ pc[r] \in {"write", "record", "commit"} /\ call[r].op # "create" =>
       target[r] = call[r].store /\ stores[target[r]] # None
  /\ Holding(r) /\ call[r].op = "create" =>
       stores[target[r]] = None /\ row[r] = call[r].body /\ ~StoreKeyTaken(call[r].body.key)
  /\ Holding(r) /\ call[r].op = "update" => row[r] = Merged(r)
  /\ pc[r] = "commit" => ledger[call[r].key] = None
  /\ pc[r] = "reread" => ledger[call[r].key] # None

\* What two requests may not both hold: a row, a walmart_store_key, an
\* operation_id.
Apart(q, r) ==
  /\ Holding(q) /\ Holding(r) => target[q] # target[r]
  /\ Holding(q) /\ Holding(r) /\ call[q].op = "create" /\ call[r].op = "create" =>
       call[q].body.key # call[r].body.key
  /\ pc[q] = "commit" /\ pc[r] = "commit" => call[q].key # call[r].key

KeysAreUnique ==
  \A s, t \in StoreIds :
    stores[s] # None /\ stores[t] # None /\ stores[s].key = stores[t].key => s = t

\* A store registered here has one creation, under its key; a store that is not
\* there has none.
CreatedOnce ==
  \A s \in StoreIds :
    /\ s \in Registered => stores[s] # None /\ Creations(s) = {}
    /\ s \notin Registered => IF stores[s] = None THEN Creations(s) = {}
                              ELSE \E k \in Keys : /\ Creations(s) = {k}
                                                   /\ ledger[k].after.key = stores[s].key

RegistryInv ==
  /\ TypeOK
  /\ \A r \in Requests : Standing(r)
  /\ \A q, r \in Requests : q # r => Apart(q, r)
  /\ KeysAreUnique
  /\ CreatedOnce

LEMMA CallShape ==
  ASSUME NEW c \in Call
  PROVE  /\ c.key \in Keys /\ c.op \in {"create", "update", "note"}
         /\ c.op = "create" => c.body \in Store /\ c.store = None
         /\ c.op = "update" => c.body \in Patch /\ c.store \in StoreIds
         /\ c.op = "note" => c.body = None /\ c.store \in StoreIds
BY DEF Call

LEMMA PatchShape ==
  ASSUME NEW patch \in Patch
  PROVE  DOMAIN patch \subseteq Fields /\ \A f \in DOMAIN patch : patch[f] \in Values
BY DEF Patch

LEMMA InitRegistry == Init => RegistryInv
<1> SUFFICES ASSUME Init PROVE RegistryInv
  OBVIOUS
<1> USE DEF Init
<1>1. TypeOK
  BY DEF TypeOK, Labels, Refuse, Answer, AnswerKind
<1>2. \A r \in Requests : Standing(r)
  BY DEF Standing, Holding
<1>3. \A q, r \in Requests : q # r => Apart(q, r)
  BY DEF Apart, Holding
<1>4. KeysAreUnique
  BY DEF KeysAreUnique
<1>5. CreatedOnce
  BY KnownStores DEF CreatedOnce, Creations
<1> QED
  BY <1>1, <1>2, <1>3, <1>4, <1>5 DEF RegistryInv

\* The step moves request r alone and leaves the tables as they are.
MovesAlone(r) ==
  /\ UNCHANGED <<tables, call>>
  /\ pc' = [pc EXCEPT ![r] = pc'[r]] /\ pc'[r] \in Labels
  /\ target' = [target EXCEPT ![r] = target'[r]] /\ target'[r] \in StoreIds \cup {None}
  /\ row' = [row EXCEPT ![r] = row'[r]] /\ row'[r] \in Store \cup {None}
  /\ before' = [before EXCEPT ![r] = before'[r]] /\ before'[r] \in BeforeState \cup {None}
  /\ answer' = [answer EXCEPT ![r] = answer'[r]] /\ answer'[r] \in Answer
  /\ target'[r] # None <=> pc'[r] \in {"write", "record", "commit"}

\* Such a step keeps the invariant when r keeps its own part of it.
LEMMA OwnStep ==
  ASSUME RegistryInv, NEW r \in Requests, MovesAlone(r),
         Standing(r)', \A q \in Requests \ {r} : Apart(q, r)'
  PROVE  RegistryInv'
<1> USE DEF RegistryInv, MovesAlone, tables
<1>1. \A q \in Requests \ {r} : /\ pc'[q] = pc[q] /\ target'[q] = target[q] /\ row'[q] = row[q]
                                /\ before'[q] = before[q] /\ answer'[q] = answer[q]
  BY DEF TypeOK
<1>2. TypeOK'
  <2>1. \A q \in Requests : target'[q] # None <=> pc'[q] \in {"write", "record", "commit"}
    BY <1>1 DEF TypeOK
  <2> QED
    BY <2>1 DEF TypeOK
<1>3. ASSUME NEW q \in Requests \ {r} PROVE Standing(q)'
  <2>1. Merged(q)' = Merged(q) /\ (Holding(q)' <=> Holding(q))
    BY <1>1 DEF Merged, Holding
  <2>2. StoreKeyTaken(call[q].body.key)' <=> StoreKeyTaken(call[q].body.key)
    BY DEF StoreKeyTaken
  <2>3. Standing(q) /\ call'[q] = call[q] /\ stores' = stores /\ ledger' = ledger
    OBVIOUS
  <2> QED
    BY <1>1, <2>1, <2>2, <2>3 DEF Standing
<1>4. ASSUME NEW p \in Requests \ {r}, NEW q \in Requests \ {r}, p # q PROVE Apart(p, q)'
  <2>1. Apart(p, q) /\ call' = call
    BY <1>4
  <2>2. /\ pc'[p] = pc[p] /\ pc'[q] = pc[q] /\ target'[p] = target[p] /\ target'[q] = target[q]
    BY <1>1
  <2>3. (Holding(p)' <=> Holding(p)) /\ (Holding(q)' <=> Holding(q))
    BY <2>1, <2>2 DEF Holding
  <2> QED
    BY <2>1, <2>2, <2>3 DEF Apart
<1>5. ASSUME NEW q \in Requests \ {r} PROVE Apart(r, q)'
  BY DEF Apart
<1>6. KeysAreUnique' /\ CreatedOnce'
  BY DEF KeysAreUnique, CreatedOnce, Creations
<1> QED
  BY <1>2, <1>3, <1>4, <1>5, <1>6

\* A request that leaves without writing.
LEMMA ReplyRegistry ==
  ASSUME RegistryInv, NEW r \in Requests, pc[r] # "unsent",
         NEW a \in Answer, Reply(r, a), UNCHANGED <<tables, call>>
  PROVE  RegistryInv'
<1>1. /\ pc' = [pc EXCEPT ![r] = "replying"] /\ pc'[r] = "replying"
      /\ answer' = [answer EXCEPT ![r] = a] /\ answer'[r] = a
      /\ target' = [target EXCEPT ![r] = None] /\ target'[r] = None
      /\ row' = [row EXCEPT ![r] = None] /\ row'[r] = None
      /\ before' = [before EXCEPT ![r] = None] /\ before'[r] = None
  BY DEF Reply, Goto, RegistryInv, TypeOK
<1>2. Standing(r)'
  BY <1>1 DEF RegistryInv, Standing, Holding
<1>3. \A q \in Requests \ {r} : Apart(q, r)'
  BY <1>1 DEF Apart, Holding
<1>4. MovesAlone(r)
  BY <1>1 DEF MovesAlone, Labels
<1> QED
  BY <1>2, <1>3, <1>4, OwnStep

LEMMA AnswerTypes ==
  /\ \A kind \in AnswerKind : Refuse(kind) \in Answer
  /\ \A s \in StoreIds, shown \in Store \cup {None} :
       Done(s, TRUE, shown) \in Answer /\ Done(s, FALSE, shown) \in Answer
BY DEF Refuse, Done, Answer, AnswerKind

\* A request that finds its operation_id spent.
LEMMA ReplayRegistry ==
  ASSUME RegistryInv, NEW r \in Requests, pc[r] # "unsent", ledger[call[r].key] # None,
         ReplayOrConflict(r), UNCHANGED <<tables, call>>
  PROVE  RegistryInv'
<1>1. call[r] \in Call
  BY DEF RegistryInv, Standing
<1>2. CASE ~IsReplay(r)
  BY <1>2, ReplyRegistry, AnswerTypes DEF ReplayOrConflict, AnswerKind
<1>3. CASE IsReplay(r) /\ call[r].op = "note"
  BY <1>1, <1>3, CallShape, ReplyRegistry, AnswerTypes DEF ReplayOrConflict
<1>4. CASE IsReplay(r) /\ call[r].op # "note"
  <2>1. /\ pc' = [pc EXCEPT ![r] = "reread"] /\ pc'[r] = "reread"
        /\ answer' = [answer EXCEPT ![r] = answer[r]] /\ answer'[r] = answer[r] 
        /\ target' = [target EXCEPT ![r] = None] /\ target'[r] = None
        /\ row' = [row EXCEPT ![r] = None] /\ row'[r] = None
        /\ before' = [before EXCEPT ![r] = None] /\ before'[r] = None
        /\ answer[r] \in Answer
    BY <1>4 DEF ReplayOrConflict, Goto, RegistryInv, TypeOK
  <2>2. Standing(r)'
    BY <1>1, <2>1 DEF Standing, Holding, tables
  <2>3. \A q \in Requests \ {r} : Apart(q, r)'
    BY <2>1 DEF Apart, Holding
  <2>4. MovesAlone(r)
    BY <2>1 DEF MovesAlone, Labels
  <2> QED
    BY <2>2, <2>3, <2>4, OwnStep
<1> QED
  BY <1>2, <1>3, <1>4

\* A request goes on to a statement at which it holds nothing.
LEMMA GoOn ==
  ASSUME RegistryInv, NEW r \in Requests, pc[r] \in {"opened", "lookup"},
         NEW l \in {"lookup", "insert", "read"}, Goto(r, l),
         l \in {"lookup", "insert"} => call[r].op = "create",
         l = "read" => call[r].op \in {"update", "note"},
         UNCHANGED <<tables, call, target, row, before, answer>>
  PROVE  RegistryInv'
<1>1. /\ pc' = [pc EXCEPT ![r] = l] /\ pc'[r] = l
      /\ answer' = [answer EXCEPT ![r] = answer[r]] /\ answer'[r] = answer[r]
      /\ answer[r] \in Answer
      /\ target' = [target EXCEPT ![r] = target[r]] /\ target'[r] = target[r]
      /\ target[r] = None
      /\ row' = [row EXCEPT ![r] = row[r]] /\ row'[r] = row[r] /\ row[r] \in Store \cup {None}
      /\ before' = [before EXCEPT ![r] = before[r]] /\ before'[r] = before[r]
      /\ before[r] \in BeforeState \cup {None}
  BY DEF Goto, RegistryInv, TypeOK
<1>2. Standing(r)'
  BY <1>1 DEF RegistryInv, Standing, Holding
<1>3. \A q \in Requests \ {r} : Apart(q, r)'
  BY <1>1 DEF Apart, Holding
<1>4. MovesAlone(r)
  BY <1>1 DEF MovesAlone, Labels
<1> QED
  BY <1>2, <1>3, <1>4, OwnStep

LEMMA BeforeReading ==
  ASSUME RegistryInv, NEW r \in Requests, Authorize(r) \/ FindByOperation(r)
  PROVE  RegistryInv'
<1>1. pc[r] \in {"opened", "lookup"} /\ call[r] \in Call
  BY DEF Authorize, FindByOperation, RegistryInv, Standing
<1>2. CASE Authorize(r)
  BY <1>1, <1>2, CallShape, ReplyRegistry, AnswerTypes, GoOn DEF Authorize, AnswerKind
<1>3. CASE FindByOperation(r)
  <2>1. call[r].op = "create"
    BY <1>3 DEF FindByOperation, RegistryInv, Standing
  <2> QED
    BY <1>1, <1>3, <2>1, ReplayRegistry, GoOn DEF FindByOperation
<1> QED
  BY <1>2, <1>3

LEMMA ReadingStore ==
  ASSUME RegistryInv, NEW r \in Requests, GetStore(r)
  PROVE  RegistryInv'
<1> DEFINE s == call[r].store
<1>1. /\ pc[r] = "read" /\ call[r] \in Call /\ call[r].op \in {"update", "note"}
      /\ UNCHANGED <<tables, call>> /\ s \in StoreIds
  BY CallShape DEF GetStore, RegistryInv, Standing
<1>2. CASE s \notin call[r].by.scope \/ stores[s] = None
  BY <1>1, <1>2, ReplyRegistry, AnswerTypes DEF GetStore, AnswerKind
<1>3. CASE stores[s] # None /\ Reply(r, Done(s, FALSE, stores[s]))
  <2>1. Done(s, FALSE, stores[s]) \in Answer
    BY <1>1, AnswerTypes DEF RegistryInv, TypeOK
  <2> QED
    BY <1>1, <1>3, <2>1, ReplyRegistry
<1>4. CASE /\ stores[s] # None
           /\ Goto(r, IF call[r].op = "update" THEN "write" ELSE "record")
           /\ target' = [target EXCEPT ![r] = s]
           /\ row' = [row EXCEPT ![r] = stores[s]]
           /\ UNCHANGED <<before, answer>>
  <2> DEFINE l == IF call[r].op = "update" THEN "write" ELSE "record"
  <2>1. /\ pc' = [pc EXCEPT ![r] = l] /\ pc'[r] = l
        /\ answer' = [answer EXCEPT ![r] = answer[r]] /\ answer'[r] = answer[r]
        /\ answer[r] \in Answer
        /\ target' = [target EXCEPT ![r] = s] /\ target'[r] = s
        /\ row' = [row EXCEPT ![r] = stores[s]] /\ row'[r] = stores[s] /\ stores[s] \in Store
        /\ before' = [before EXCEPT ![r] = before[r]] /\ before'[r] = before[r]
        /\ before[r] \in BeforeState \cup {None}
    BY <1>1, <1>4 DEF Goto, RegistryInv, TypeOK
  <2>2. ~Holding(r)'
    BY <1>1, <2>1 DEF Holding
  <2>3. Standing(r)'
    BY <1>1, <1>4, <2>1, <2>2 DEF Standing, tables
  <2>4. \A q \in Requests \ {r} : Apart(q, r)'
    BY <2>1, <2>2 DEF Apart
  <2>5. s # None /\ l \in Labels
    BY <1>1, KnownStores DEF Labels
  <2>6. MovesAlone(r)
    BY <1>1, <2>1, <2>5 DEF MovesAlone
  <2> QED
    BY <2>3, <2>4, <2>6, OwnStep
<1> QED
  BY <1>1, <1>2, <1>3, <1>4 DEF GetStore

LEMMA Inserting ==
  ASSUME RegistryInv, NEW r \in Requests, CreateStore(r)
  PROVE  RegistryInv'
<1>1. /\ pc[r] = "insert" /\ call[r] \in Call /\ call[r].op = "create"
      /\ call[r].body \in Store /\ UNCHANGED <<tables, call>>
  BY CallShape DEF CreateStore, RegistryInv, Standing
<1>2. CASE StoreKeyTaken(call[r].body.key)
  BY <1>1, <1>2, ReplyRegistry, AnswerTypes DEF CreateStore, AnswerKind
<1>3. CASE ~StoreKeyTaken(call[r].body.key)
  <2>1. PICK id \in StoreIds :
          /\ stores[id] = None /\ \A q \in Requests : target[q] # id
          /\ target' = [target EXCEPT ![r] = id]
          /\ row' = [row EXCEPT ![r] = call[r].body]
    BY <1>3 DEF CreateStore
  <2>2. /\ pc' = [pc EXCEPT ![r] = "record"] /\ pc'[r] = "record"
        /\ answer' = [answer EXCEPT ![r] = answer[r]] /\ answer'[r] = answer[r]
        /\ answer[r] \in Answer
        /\ target'[r] = id /\ row'[r] = call[r].body /\ id # None
        /\ before' = [before EXCEPT ![r] = before[r]] /\ before'[r] = before[r]
        /\ before[r] \in BeforeState \cup {None}
    BY <1>3, <2>1, KnownStores DEF CreateStore, Goto, RegistryInv, TypeOK
  <2>3. Standing(r)'
    <3>1. ~StoreKeyTaken(call[r].body.key)'
      BY <1>1, <1>3 DEF StoreKeyTaken, tables
    <3> QED
      BY <1>1, <2>1, <2>2, <3>1 DEF Standing, tables
  <2>4. ASSUME NEW q \in Requests \ {r} PROVE Apart(q, r)'
    <3>1. pc'[q] = pc[q] /\ target'[q] = target[q]
      BY <2>1, <2>2 DEF RegistryInv, TypeOK
    <3>2. Holding(q) /\ call[q].op = "create" => call[q].body.key # call[r].body.key
      BY DEF CreateStore
    <3> QED
      BY <1>1, <2>1, <2>2, <3>1, <3>2 DEF Apart, Holding
  <2>5. MovesAlone(r)
    BY <1>1, <2>1, <2>2 DEF MovesAlone, Labels
  <2> QED
    BY <2>3, <2>4, <2>5, OwnStep
<1> QED
  BY <1>2, <1>3

\* The row of a patched store is a row, with the key it had.
LEMMA MergedShape ==
  ASSUME NEW stored \in Store, NEW patch \in Patch
  PROVE  /\ Overlay(stored.identity, patch) \in Identity
         /\ [stored EXCEPT !.identity = Overlay(stored.identity, patch)] \in Store
         /\ [stored EXCEPT !.identity = Overlay(stored.identity, patch)].key = stored.key
         /\ [stored EXCEPT !.identity = Overlay(stored.identity, patch)].identity =
               Overlay(stored.identity, patch)
<1>1. Overlay(stored.identity, patch) \in Identity
  BY PatchShape DEF Overlay, Identity, Store
<1> QED
  BY <1>1 DEF Store

LEMMA Updating ==
  ASSUME RegistryInv, NEW r \in Requests, UpdateStore(r)
  PROVE  RegistryInv'
<1>1. /\ pc[r] = "write" /\ call[r] \in Call /\ call[r].op = "update" /\ row[r] \in Store
      /\ call[r].body \in Patch /\ UNCHANGED <<tables, call>>
      /\ target[r] = call[r].store /\ target[r] \in StoreIds /\ stores[target[r]] # None
  BY CallShape DEF UpdateStore, RegistryInv, Standing
<1>2. Merged(r) \in Store
  <2>1. stores[target[r]] \in Store
    BY <1>1 DEF RegistryInv, TypeOK
  <2> QED
    BY <1>1, <2>1, MergedShape DEF Merged
<1>3. Before(r) \in BeforeState
  <2>1. Given(r) \subseteq Fields
    BY <1>1, PatchShape DEF Given
  <2>2. Before(r) \in [Given(r) -> Values \cup {None}]
    BY <1>1, <2>1 DEF Before, Store, Identity
  <2> QED
    BY <2>1, <2>2 DEF BeforeState
<1>4. /\ pc' = [pc EXCEPT ![r] = "record"] /\ pc'[r] = "record"
      /\ answer' = [answer EXCEPT ![r] = answer[r]] /\ answer'[r] = answer[r]
      /\ answer[r] \in Answer
      /\ target' = [target EXCEPT ![r] = target[r]] /\ target'[r] = target[r]
      /\ target[r] # None
      /\ row' = [row EXCEPT ![r] = Merged(r)] /\ row'[r] = Merged(r)
      /\ before' = [before EXCEPT ![r] = Before(r)] /\ before'[r] = Before(r)
  BY <1>1 DEF UpdateStore, Goto, RegistryInv, TypeOK
<1>5. Standing(r)'
  <2>1. Merged(r)' = Merged(r)
    BY <1>1, <1>4 DEF Merged, tables
  <2> QED
    BY <1>1, <1>4, <2>1 DEF Standing, Holding, tables
<1>6. ASSUME NEW q \in Requests \ {r} PROVE Apart(q, r)'
  <2>1. pc'[q] = pc[q] /\ target'[q] = target[q]
    BY <1>4 DEF RegistryInv, TypeOK
  <2>2. Holding(q) => target[q] # target[r]
    BY DEF UpdateStore
  <2> QED
    BY <1>1, <1>4, <2>1, <2>2 DEF Apart, Holding
<1>7. MovesAlone(r)
  BY <1>1, <1>2, <1>3, <1>4 DEF MovesAlone, Labels
<1> QED
  BY <1>5, <1>6, <1>7, OwnStep

LEMMA Recording ==
  ASSUME RegistryInv, NEW r \in Requests, RecordOperation(r)
  PROVE  RegistryInv'
<1>1. pc[r] = "record" /\ call[r] \in Call /\ UNCHANGED <<tables, call>>
  BY DEF RecordOperation, RegistryInv, Standing
<1>2. CASE ledger[call[r].key] # None
  BY <1>1, <1>2, ReplayRegistry DEF RecordOperation
<1>3. CASE ledger[call[r].key] = None
  <2>1. /\ pc' = [pc EXCEPT ![r] = "commit"] /\ pc'[r] = "commit"
        /\ answer' = [answer EXCEPT ![r] = answer[r]] /\ answer'[r] = answer[r]
        /\ answer[r] \in Answer
        /\ target' = [target EXCEPT ![r] = target[r]] /\ target'[r] = target[r] /\ target[r] \in StoreIds
        /\ target[r] # None
        /\ row' = [row EXCEPT ![r] = row[r]] /\ row'[r] = row[r] /\ row[r] \in Store \cup {None}
        /\ before' = [before EXCEPT ![r] = before[r]] /\ before'[r] = before[r]
        /\ before[r] \in BeforeState \cup {None}
    BY <1>1, <1>3 DEF RecordOperation, Goto, RegistryInv, TypeOK
  <2>2. /\ target' = target /\ row' = row /\ call' = call /\ stores' = stores /\ ledger' = ledger
        /\ Holding(r)' <=> Holding(r)
    BY <1>1, <1>3, <2>1 DEF RecordOperation, Holding, tables
  <2>3. Standing(r)'
    <3>1. Merged(r)' = Merged(r)
      BY <2>2 DEF Merged
    <3>2. StoreKeyTaken(call[r].body.key)' <=> StoreKeyTaken(call[r].body.key)
      BY <2>2 DEF StoreKeyTaken
    <3>3. Standing(r)
      BY DEF RegistryInv
    <3> QED
      BY <1>1, <1>3, <2>1, <2>2, <3>1, <3>2, <3>3 DEF Standing
  <2>4. ASSUME NEW q \in Requests \ {r} PROVE Apart(q, r)'
    <3>1. pc'[q] = pc[q]
      BY <2>1 DEF RegistryInv, TypeOK
    <3>2. pc[q] = "commit" => call[q].key # call[r].key
      BY DEF RecordOperation, KeyHeld
    <3>3. Holding(q)' <=> Holding(q)
      BY <2>2, <3>1 DEF Holding
    <3> QED
      BY <2>2, <3>1, <3>2, <3>3 DEF Apart, RegistryInv
  <2>5. MovesAlone(r)
    BY <1>1, <2>1 DEF MovesAlone, Labels
  <2> QED
    BY <2>3, <2>4, <2>5, OwnStep
<1> QED
  BY <1>2, <1>3

LEMMA Ending ==
  ASSUME RegistryInv, NEW r \in Requests, Reread(r) \/ Deliver(r) \/ Cut(r)
  PROVE  RegistryInv'
<1>1. CASE Reread(r)
  <2> DEFINE s == ledger[call[r].key].store
  <2>1. pc[r] = "reread" /\ call[r] \in Call /\ UNCHANGED <<tables, call>>
    BY <1>1 DEF Reread, RegistryInv, Standing
  <2>2. s \in StoreIds /\ stores[s] \in Store \cup {None}
    BY <2>1, CallShape DEF RegistryInv, TypeOK, Standing, Event
  <2>3. (IF s \in call[r].by.scope THEN Done(s, TRUE, stores[s]) ELSE Refuse("out_of_scope")) \in Answer
    BY <2>2, AnswerTypes DEF AnswerKind
  <2> QED
    BY <1>1, <2>1, <2>3, ReplyRegistry DEF Reread
<1>2. CASE Deliver(r)
  <2>1. /\ pc' = [pc EXCEPT ![r] = "answered"] /\ pc'[r] = "answered"
        /\ answer' = [answer EXCEPT ![r] = answer[r]] /\ answer'[r] = answer[r]
        /\ answer[r] \in Answer
        /\ target' = [target EXCEPT ![r] = target[r]] /\ target'[r] = target[r]
        /\ target[r] = None
        /\ row' = [row EXCEPT ![r] = row[r]] /\ row'[r] = row[r] /\ row[r] \in Store \cup {None}
        /\ before' = [before EXCEPT ![r] = before[r]] /\ before'[r] = before[r]
        /\ before[r] \in BeforeState \cup {None}
        /\ UNCHANGED <<tables, call, target>> /\ pc[r] # "unsent"
    BY <1>2 DEF Deliver, Goto, RegistryInv, TypeOK
  <2>2. Standing(r)'
    BY <2>1 DEF RegistryInv, Standing, Holding
  <2>3. \A q \in Requests \ {r} : Apart(q, r)'
    BY <2>1 DEF Apart, Holding
  <2>4. MovesAlone(r)
    BY <2>1 DEF MovesAlone, Labels
  <2> QED
    BY <2>2, <2>3, <2>4, OwnStep
<1>3. CASE Cut(r)
  <2>1. /\ pc' = [pc EXCEPT ![r] = "lost"] /\ pc'[r] = "lost"
        /\ answer' = [answer EXCEPT ![r] = Refuse("none")] /\ answer'[r] = Refuse("none")
        /\ target' = [target EXCEPT ![r] = None] /\ target'[r] = None
        /\ row' = [row EXCEPT ![r] = None] /\ row'[r] = None
        /\ before' = [before EXCEPT ![r] = None] /\ before'[r] = None
        /\ UNCHANGED <<tables, call>> /\ pc[r] # "unsent" /\ Refuse("none") \in Answer
    BY <1>3, AnswerTypes DEF Cut, Goto, RegistryInv, TypeOK, AnswerKind
  <2>2. Standing(r)'
    BY <2>1 DEF RegistryInv, Standing, Holding
  <2>3. \A q \in Requests \ {r} : Apart(q, r)'
    BY <2>1 DEF Apart, Holding
  <2>4. MovesAlone(r)
    BY <2>1 DEF MovesAlone, Labels
  <2> QED
    BY <2>2, <2>3, <2>4, OwnStep
<1> QED
  BY <1>1, <1>2, <1>3

\* What a commit does, by the operation: one free operation_id is given an event
\* about the row the request holds, and no other row changes.
LEMMA CommitShape ==
  ASSUME RegistryInv, NEW r \in Requests, Commit(r)
  PROVE  /\ pc[r] = "commit" /\ call[r] \in Call /\ target[r] \in StoreIds /\ call' = call
         /\ ledger[call[r].key] = None
         /\ \E event \in Event :
              /\ event # None /\ event.type = TypeOf(r) /\ event.store = target[r]
              /\ event.after = call[r].body
              /\ ledger' = [ledger EXCEPT ![call[r].key] = event]
         /\ trail' = Append(trail, call[r].key)
         /\ stores' \in [StoreIds -> Store \cup {None}] /\ stores'[target[r]] # None
         /\ \A s \in StoreIds \ {target[r]} : stores'[s] = stores[s]
         /\ call[r].op = "create" =>
              /\ stores[target[r]] = None /\ ~StoreKeyTaken(call[r].body.key)
              /\ stores'[target[r]] = call[r].body
         /\ call[r].op = "update" =>
              /\ stores[target[r]] # None /\ stores'[target[r]].key = stores[target[r]].key
              /\ stores'[target[r]].identity = Overlay(stores[target[r]].identity, call[r].body)
         /\ call[r].op = "note" => stores' = stores
<1>1. pc[r] = "commit" /\ call[r] \in Call /\ call' = call /\ Standing(r)
  BY DEF Commit, RegistryInv, Standing
<1>2. /\ target[r] \in StoreIds /\ ledger[call[r].key] = None
      /\ before[r] \in BeforeState \cup {None}
      /\ stores \in [StoreIds -> Store \cup {None}] /\ None \notin Store
  BY <1>1, KnownStores DEF RegistryInv, TypeOK, Standing
<1>3. \E event \in Event :
         /\ event # None /\ event.type = TypeOf(r) /\ event.store = target[r]
         /\ event.after = call[r].body
         /\ ledger' = [ledger EXCEPT ![call[r].key] = event]
  <2> DEFINE event == [type |-> TypeOf(r), store |-> target[r], before |-> before[r],
                       after |-> call[r].body]
  <2>1. TypeOf(r) \in EventType
    BY <1>1, CallShape DEF TypeOf, EventType
  <2>2. call[r].body \in Store \cup Patch \cup {None}
    BY <1>1, CallShape
  <2>3. event \in Event
    BY <1>2, <2>1, <2>2 DEF Event
  <2>4. event # None
    BY <2>3, KnownStores
  <2> QED
    BY <2>3, <2>4 DEF Commit
<1>4. CASE call[r].op = "create"
  <2>1. call[r].body \in Store /\ row[r] = call[r].body
    BY <1>1, <1>4, CallShape DEF Standing, Holding
  <2>2. stores' = [stores EXCEPT ![target[r]] = call[r].body]
    BY <1>4, <2>1 DEF Commit
  <2> QED
    BY <1>1, <1>2, <1>3, <1>4, <2>1, <2>2 DEF Standing, Holding, Commit
<1>5. CASE call[r].op = "update"
  <2>1. /\ call[r].body \in Patch /\ row[r] = Merged(r) /\ stores[target[r]] # None
    BY <1>1, <1>5, CallShape DEF Standing, Holding
  <2>2. stores' = [stores EXCEPT ![target[r]] = Merged(r)]
    BY <1>5, <2>1 DEF Commit
  <2>3. /\ Merged(r) \in Store /\ Merged(r).key = stores[target[r]].key
        /\ Merged(r).identity = Overlay(stores[target[r]].identity, call[r].body)
    BY <1>2, <2>1, MergedShape DEF Merged
  <2> QED
    BY <1>1, <1>2, <1>3, <1>5, <2>1, <2>2, <2>3 DEF Commit
<1>6. CASE call[r].op = "note"
  <2>1. stores' = stores /\ stores[target[r]] # None
    BY <1>1, <1>6 DEF Standing, Commit
  <2> QED
    BY <1>1, <1>2, <1>3, <1>6, <2>1 DEF Commit
<1> QED
  BY <1>1, <1>4, <1>5, <1>6, CallShape

LEMMA CommitRegistry ==
  ASSUME RegistryInv, NEW r \in Requests, Commit(r)
  PROVE  RegistryInv'
<1> DEFINE k == call[r].key
<1> DEFINE t == target[r]
<1>1. /\ pc[r] = "commit" /\ call[r] \in Call /\ t \in StoreIds /\ call' = call
      /\ ledger[k] = None /\ k \in Keys
  BY CommitShape, CallShape
<1>2. PICK event \in Event :
        /\ event # None /\ event.type = TypeOf(r) /\ event.store = t
        /\ event.after = call[r].body /\ ledger' = [ledger EXCEPT ![k] = event]
  BY CommitShape
<1>3. /\ stores' \in [StoreIds -> Store \cup {None}] /\ stores'[t] # None
      /\ \A s \in StoreIds \ {t} : stores'[s] = stores[s]
  BY CommitShape
<1>4. /\ pc' = [pc EXCEPT ![r] = "replying"] /\ pc'[r] = "replying"
      /\ target' = [target EXCEPT ![r] = None] /\ target'[r] = None
      /\ row' = [row EXCEPT ![r] = None] /\ row'[r] = None
      /\ before' = [before EXCEPT ![r] = None] /\ before'[r] = None
  BY DEF Commit, Reply, Goto, RegistryInv, TypeOK
<1>5. \A q \in Requests \ {r} :
        pc'[q] = pc[q] /\ target'[q] = target[q] /\ row'[q] = row[q] /\ (Holding(q)' <=> Holding(q))
  BY <1>1, <1>4 DEF RegistryInv, TypeOK, Holding
<1>6. TypeOK'
  <2>1. trail' \in Seq(Keys)
    BY <1>1, CommitShape DEF RegistryInv, TypeOK
  <2>2. answer' \in [Requests -> Answer]
    <3>1. (IF call[r].op = "note" THEN None ELSE row[r]) \in Store \cup {None}
      BY DEF RegistryInv, TypeOK
    <3>2. Done(t, FALSE, IF call[r].op = "note" THEN None ELSE row[r]) \in Answer
      BY <1>1, <3>1, AnswerTypes
    <3> QED
      BY <3>2 DEF Commit, Reply, RegistryInv, TypeOK
  <2>3. pc' \in [Requests -> Labels] /\ target' \in [Requests -> StoreIds \cup {None}]
    BY <1>4 DEF RegistryInv, TypeOK, Labels
  <2>4. row' \in [Requests -> Store \cup {None}] /\ before' \in [Requests -> BeforeState \cup {None}]
    BY <1>4 DEF RegistryInv, TypeOK
  <2>5. \A q \in Requests : target'[q] # None <=> pc'[q] \in {"write", "record", "commit"}
    BY <1>4, <1>5 DEF RegistryInv, TypeOK
  <2>6. ledger' \in [Keys -> Event \cup {None}] /\ call' \in [Requests -> Call \cup {None}]
    BY <1>1, <1>2 DEF RegistryInv, TypeOK
  <2> QED
    BY <1>3, <2>1, <2>2, <2>3, <2>4, <2>5, <2>6 DEF TypeOK
\* The key of every other store stays; that of a new one was free.
<1>7. /\ \A s \in StoreIds : stores[s] # None => stores'[s] # None /\ stores'[s].key = stores[s].key
      /\ \A s \in StoreIds : stores'[s] # None /\ stores[s] = None =>
           /\ s = t /\ call[r].op = "create" /\ stores'[s] = call[r].body
           /\ ~StoreKeyTaken(call[r].body.key)
  BY <1>1, <1>3, CommitShape, CallShape
<1>8. KeysAreUnique'
  <2>1. SUFFICES ASSUME NEW u \in StoreIds, NEW v \in StoreIds,
                        stores'[u] # None, stores'[v] # None, stores'[u].key = stores'[v].key
                 PROVE  u = v
    BY DEF KeysAreUnique
  <2>2. CASE stores[u] # None /\ stores[v] # None
    BY <1>7, <2>1, <2>2 DEF RegistryInv, KeysAreUnique
  <2>3. CASE stores[u] = None
    BY <1>7, <2>1, <2>3 DEF StoreKeyTaken
  <2>4. CASE stores[v] = None
    BY <1>7, <2>1, <2>4 DEF StoreKeyTaken
  <2> QED
    BY <2>2, <2>3, <2>4
<1>9. \A j \in Keys \ {k} : ledger'[j] = ledger[j]
  BY <1>2 DEF RegistryInv, TypeOK
<1>10. ledger'[k] = event
  BY <1>1, <1>2 DEF RegistryInv, TypeOK
<1>11. CreatedOnce'
  <2>2. ASSUME NEW s \in StoreIds, s # t \/ call[r].op # "create"
        PROVE  Creations(s)' = Creations(s)
    <3>1. ~(event.type = "store_created" /\ event.store = s)
      BY <1>1, <1>2, <2>2, CallShape DEF TypeOf
    <3> QED
      BY <1>1, <1>9, <1>10, <3>1 DEF Creations
  <2>3. ASSUME NEW s \in StoreIds, s # t \/ call[r].op # "create"
        PROVE  /\ stores'[s] = None <=> stores[s] = None
               /\ stores[s] # None => stores'[s].key = stores[s].key
    BY <1>7, <2>3
  <2>4. ASSUME NEW s \in StoreIds, s # t \/ call[r].op # "create", NEW j \in Creations(s)
        PROVE  ledger'[j] = ledger[j]
    BY <1>1, <1>9 DEF Creations
  <2>5. CASE call[r].op = "create"
    <3>1. stores[t] = None /\ stores'[t] = call[r].body /\ event.type = "store_created"
      BY <1>2, <2>5, CommitShape DEF TypeOf
    <3>2. t \notin Registered /\ Creations(t) = {}
      BY <1>1, <3>1 DEF RegistryInv, CreatedOnce
    <3>3. ASSUME NEW s \in StoreIds, s = t PROVE Creations(s)' = {k}
      <4>1. \A j \in Keys \ {k} : ~(ledger'[j] # None /\ ledger'[j].type = "store_created"
                                      /\ ledger'[j].store = s)
        BY <1>9, <3>2, <3>3 DEF Creations
      <4>2. ledger'[k] # None /\ ledger'[k].type = "store_created" /\ ledger'[k].store = s
        BY <1>2, <1>10, <3>1, <3>3
      <4> QED
        BY <1>1, <4>1, <4>2 DEF Creations
    <3>4. ledger'[k].after.key = stores'[t].key
      BY <1>2, <1>10, <3>1
    <3> QED
      <4>1. SUFFICES ASSUME NEW s \in StoreIds
                     PROVE  /\ s \in Registered => stores'[s] # None /\ Creations(s)' = {}
                            /\ s \notin Registered =>
                                 IF stores'[s] = None THEN Creations(s)' = {}
                                 ELSE \E j \in Keys : /\ Creations(s)' = {j}
                                                     /\ ledger'[j].after.key = stores'[s].key
        BY DEF CreatedOnce
      <4>2. CASE s = t
        BY <1>1, <1>3, <3>2, <3>3, <3>4, <4>2
      <4>3. CASE s # t
        BY <2>2, <2>3, <2>4, <4>3 DEF RegistryInv, CreatedOnce
      <4> QED
        BY <4>2, <4>3
  <2>6. CASE call[r].op # "create"
    BY <2>2, <2>3, <2>4, <2>6 DEF RegistryInv, CreatedOnce
  <2> QED
    BY <2>5, <2>6
<1>12. Standing(r)'
  BY <1>1, <1>4 DEF Standing, Holding
<1>13. ASSUME NEW q \in Requests \ {r} PROVE Standing(q)'
  <2>1. Standing(q) /\ Apart(q, r) /\ call'[q] = call[q]
    BY <1>1 DEF RegistryInv
  <2>2. pc[q] \in {"write", "record", "commit"} => target[q] \in StoreIds
    BY DEF RegistryInv, TypeOK
  <2>3. Holding(q) => stores'[target[q]] = stores[target[q]]
    <3>1. CASE call[r].op = "note"
      BY <3>1, CommitShape
    <3>2. CASE call[r].op # "note"
      BY <1>1, <1>3, <2>1, <2>2, <3>2 DEF Holding, Apart
    <3> QED
      BY <3>1, <3>2
  <2>4. Holding(q) /\ call[q].op = "create" => ~StoreKeyTaken(call[q].body.key)'
    <3>1. SUFFICES ASSUME Holding(q), call[q].op = "create", NEW s \in StoreIds, stores'[s] # None,
                          stores'[s].key = call[q].body.key
                   PROVE  FALSE
      BY <2>1 DEF StoreKeyTaken
    <3>2. ~StoreKeyTaken(call[q].body.key)
      BY <2>1, <3>1 DEF Standing
    <3>3. stores[s] = None
      BY <1>7, <3>1, <3>2 DEF StoreKeyTaken
    <3>4. call[r].op = "create" /\ stores'[s] = call[r].body
      BY <1>7, <3>1, <3>3
    <3> QED
      BY <1>1, <2>1, <3>1, <3>4 DEF Apart, Holding
  <2>5. Holding(q) /\ call[q].op = "update" => Merged(q)' = Merged(q)
    BY <1>5, <2>1, <2>3 DEF Merged
  <2>6. /\ pc[q] = "commit" => ledger'[call[q].key] = None
        /\ pc[q] = "reread" => ledger'[call[q].key] # None
    <3>1. pc[q] \in {"commit", "reread"} => call[q].key \in Keys
      BY <2>1, CallShape DEF Standing
    <3> QED
      BY <1>1, <1>2, <1>9, <1>10, <2>1, <3>1 DEF Standing, Apart
  <2>7. pc[q] \in {"write", "record", "commit"} /\ stores[target[q]] # None =>
          stores'[target[q]] # None
    BY <1>7, <2>2
  <2> QED
    BY <1>5, <2>1, <2>2, <2>3, <2>4, <2>5, <2>6, <2>7 DEF Standing
<1>14. ASSUME NEW p \in Requests, NEW q \in Requests, p # q PROVE Apart(p, q)'
  <2>1. CASE p = r \/ q = r
    BY <1>4, <2>1 DEF Apart, Holding
  <2>2. CASE p # r /\ q # r
    BY <1>1, <1>5, <1>14, <2>2 DEF Apart, RegistryInv
  <2> QED
    BY <2>1, <2>2
<1> QED
  BY <1>6, <1>8, <1>11, <1>12, <1>13, <1>14 DEF RegistryInv

LEMMA SendRegistry ==
  ASSUME RegistryInv, NEW r \in Requests, NEW c \in Calls, Send(r, c)
  PROVE  RegistryInv'
<1>1. /\ pc[r] = "unsent" /\ pc' = [pc EXCEPT ![r] = "opened"] /\ pc'[r] = "opened"
      /\ call' = [call EXCEPT ![r] = c] /\ call'[r] = c /\ c \in Call
      /\ UNCHANGED <<tables, target, row, before, answer>>
  BY KnownStores DEF Send, Goto, RegistryInv, TypeOK
<1>2. \A q \in Requests \ {r} :
        pc'[q] = pc[q] /\ call'[q] = call[q] /\ (Holding(q)' <=> Holding(q))
  BY <1>1 DEF RegistryInv, TypeOK, Holding
<1>3. TypeOK'
  <2>1. \A q \in Requests : target'[q] # None <=> pc'[q] \in {"write", "record", "commit"}
    BY <1>1, <1>2 DEF RegistryInv, TypeOK
  <2> QED
    BY <1>1, <2>1 DEF RegistryInv, TypeOK, Labels, tables
<1>4. Standing(r)' /\ ~Holding(r)'
  BY <1>1 DEF Standing, Holding
<1>5. ASSUME NEW q \in Requests \ {r} PROVE Standing(q)'
  <2>1. Standing(q) /\ stores' = stores /\ ledger' = ledger /\ row' = row /\ target' = target
    BY <1>1 DEF RegistryInv, tables
  <2>2. Merged(q)' = Merged(q)
    BY <1>2, <2>1 DEF Merged
  <2>3. StoreKeyTaken(call[q].body.key)' <=> StoreKeyTaken(call[q].body.key)
    BY <1>2, <2>1 DEF StoreKeyTaken
  <2> QED
    BY <1>2, <2>1, <2>2, <2>3 DEF Standing
<1>6. ASSUME NEW p \in Requests, NEW q \in Requests, p # q PROVE Apart(p, q)'
  <2>1. CASE p = r \/ q = r
    BY <1>1, <1>4, <2>1 DEF Apart
  <2>2. CASE p # r /\ q # r
    BY <1>1, <1>2, <1>6, <2>2 DEF Apart, RegistryInv
  <2> QED
    BY <2>1, <2>2
<1>7. KeysAreUnique' /\ CreatedOnce'
  BY <1>1 DEF RegistryInv, KeysAreUnique, CreatedOnce, Creations, tables
<1> QED
  BY <1>3, <1>4, <1>5, <1>6, <1>7 DEF RegistryInv

LEMMA StutterRegistry ==
  ASSUME RegistryInv, UNCHANGED vars
  PROVE  RegistryInv'
<1>1. UNCHANGED <<stores, ledger, trail, pc, call, target, row, before, answer>>
  BY DEF vars, tables
<1>2. TypeOK'
  BY <1>1 DEF RegistryInv, TypeOK
<1>3. \A r \in Requests : Standing(r)'
  BY <1>1 DEF RegistryInv, Standing, Holding, Merged, StoreKeyTaken
<1>4. \A q, r \in Requests : q # r => Apart(q, r)'
  BY <1>1 DEF RegistryInv, Apart, Holding
<1>5. KeysAreUnique' /\ CreatedOnce'
  BY <1>1 DEF RegistryInv, KeysAreUnique, CreatedOnce, Creations
<1> QED
  BY <1>2, <1>3, <1>4, <1>5 DEF RegistryInv

LEMMA RegistryInductive == Spec => []RegistryInv
<1>1. RegistryInv /\ [Next]_vars => RegistryInv'
  <2> SUFFICES ASSUME RegistryInv, [Next]_vars PROVE RegistryInv'
    OBVIOUS
  <2>1. CASE \E r \in Requests, c \in Calls : Send(r, c)
    BY <2>1, SendRegistry
  <2>2. ASSUME NEW r \in Requests, Serve(r) PROVE RegistryInv'
    BY <2>2, BeforeReading, ReadingStore, Inserting, Updating, Recording, Ending, CommitRegistry
       DEF Serve
  <2>3. ASSUME NEW r \in Requests, Cut(r) PROVE RegistryInv'
    BY <2>3, Ending
  <2>4. CASE UNCHANGED vars
    BY <2>4, StutterRegistry
  <2> QED
    BY <2>1, <2>2, <2>3, <2>4 DEF Next
<1> QED
  BY <1>1, InitRegistry, PTL DEF Spec

\* The tables, responses and local variables of stores/service.py hold values of
\* their types, and only an open transaction knows a store.
THEOREM StoreTypeCorrect == Spec => []TypeOK
<1>1. RegistryInv => TypeOK
  BY DEF RegistryInv
<1> QED
  BY <1>1, RegistryInductive, PTL

\* Registrations and their retries, raced in any number: a walmart_store_key is
\* one store's and every store registered has one creation on the trail.
THEOREM StoresAreExplained == Spec => []StoresAreRecorded
<1>1. RegistryInv => StoresAreRecorded
  <2> SUFFICES ASSUME RegistryInv PROVE StoresAreRecorded
    OBVIOUS
  <2>1. ASSUME NEW s \in StoreIds \ Registered, stores[s] = None
        PROVE  Cardinality(Creations(s)) = 0 /\ Creations(s) = {}
    BY <2>1, FS_EmptySet DEF RegistryInv, CreatedOnce
  <2>2. ASSUME NEW s \in StoreIds \ Registered, stores[s] # None
        PROVE  /\ Cardinality(Creations(s)) = 1
               /\ \A k \in Creations(s) : ledger[k].after.key = stores[s].key
    <3>1. PICK k \in Keys : Creations(s) = {k} /\ ledger[k].after.key = stores[s].key
      BY <2>2 DEF RegistryInv, CreatedOnce
    <3>2. Cardinality({k}) = 1
      BY FS_Singleton
    <3> QED
      BY <3>1, <3>2
  <2>3. \A s \in StoreIds \ Registered :
          /\ Cardinality(Creations(s)) = (IF stores[s] = None THEN 0 ELSE 1)
          /\ \A k \in Creations(s) : ledger[k].after.key = stores[s].key
    <3>1. TAKE s \in StoreIds \ Registered
    <3>2. CASE stores[s] = None
      BY <2>1, <3>2
    <3>3. CASE stores[s] # None
      BY <2>2, <3>3
    <3> QED
      BY <3>2, <3>3
  <2>4. \A s \in Registered : stores[s] # None /\ Creations(s) = {}
    BY KnownStores DEF RegistryInv, CreatedOnce
  <2>5. KeysAreUnique
    BY DEF RegistryInv
  <2> QED
    BY <2>3, <2>4, <2>5 DEF KeysAreUnique, StoresAreRecorded
<1> QED
  BY <1>1, RegistryInductive, PTL

\* A step that leaves the tables alone records nothing.
LEMMA Unwritten ==
  ASSUME RegistryInv, NEW r \in Requests, Serve(r) \/ Cut(r), ~Commit(r)
  PROVE  UNCHANGED tables
BY DEF Serve, Authorize, FindByOperation, GetStore, CreateStore, UpdateStore, RecordOperation,
       Reread, Deliver, Cut

\* The audit trail alone explains each store: whatever requests overlap, a step
\* records one fresh operation at most, and the stores change as that event says.
THEOREM WritesAreExplained == Spec => WritesAreRecorded
<1> DEFINE fresh == {k \in Keys : ledger'[k] # ledger[k]}
<1> DEFINE Patches(s) == {k \in fresh : ledger'[k].store = s /\ ledger'[k].type \in
                            {"store_settings_updated", "store_timezone_changed"}}
<1> DEFINE Births(s) == {k \in fresh : ledger'[k].store = s /\ ledger'[k].type = "store_created"}
<1> DEFINE Explained ==
      /\ Cardinality(fresh) <= 1
      /\ \A k \in fresh : ledger[k] = None
      /\ \A s \in StoreIds :
           /\ \A k \in Births(s) : stores[s] = None /\ stores'[s] = ledger'[k].after
           /\ \A k \in Patches(s) :
                /\ stores'[s].key = stores[s].key
                /\ stores'[s].identity = Overlay(stores[s].identity, ledger'[k].after)
           /\ Births(s) = {} /\ Patches(s) = {} => stores'[s] = stores[s]
<1>1. ASSUME UNCHANGED tables PROVE Explained
  <2>1. fresh = {} /\ stores' = stores
    BY <1>1 DEF tables
  <2>2. Cardinality(fresh) = 0
    BY <2>1, FS_EmptySet
  <2> QED
    BY <2>1, <2>2
<1>2. ASSUME RegistryInv, NEW r \in Requests, Commit(r) PROVE Explained
  <2> DEFINE k == call[r].key
  <2> DEFINE t == target[r]
  <2>1. call[r] \in Call /\ t \in StoreIds /\ ledger[k] = None /\ k \in Keys
    BY <1>2, CommitShape, CallShape
  <2>2. PICK event \in Event :
          /\ event # None /\ event.type = TypeOf(r) /\ event.store = t
          /\ event.after = call[r].body /\ ledger' = [ledger EXCEPT ![k] = event]
    BY <1>2, CommitShape
  <2>3. ledger'[k] = event /\ \A j \in Keys \ {k} : ledger'[j] = ledger[j]
    BY <1>2, <2>1, <2>2 DEF RegistryInv, TypeOK
  <2>4. fresh = {k}
    BY <2>1, <2>2, <2>3
  <2>5. Cardinality(fresh) = 1
    BY <2>4, FS_Singleton
  <2>6. \A s \in StoreIds \ {t} : Births(s) = {} /\ Patches(s) = {} /\ stores'[s] = stores[s]
    BY <1>2, <2>2, <2>3, <2>4, CommitShape
  <2>7. /\ \A j \in Births(t) : stores[t] = None /\ stores'[t] = ledger'[j].after
        /\ \A j \in Patches(t) :
             /\ stores'[t].key = stores[t].key
             /\ stores'[t].identity = Overlay(stores[t].identity, ledger'[j].after)
        /\ Births(t) = {} /\ Patches(t) = {} => stores'[t] = stores[t]
    <3>1. CASE call[r].op = "create"
      <4>1. event.type = "store_created"
        BY <2>2, <3>1 DEF TypeOf
      <4>2. stores[t] = None /\ stores'[t] = event.after
        BY <1>2, <2>2, <3>1, CommitShape
      <4>3. Births(t) = {k} /\ Patches(t) = {}
        BY <2>2, <2>3, <2>4, <4>1
      <4> QED
        BY <2>3, <4>2, <4>3
    <3>2. CASE call[r].op = "update"
      <4>1. event.type \in {"store_settings_updated", "store_timezone_changed"}
        BY <2>2, <3>2 DEF TypeOf
      <4>2. /\ stores'[t].key = stores[t].key
            /\ stores'[t].identity = Overlay(stores[t].identity, event.after)
        BY <1>2, <2>2, <3>2, CommitShape
      <4>3. Births(t) = {} /\ Patches(t) = {k}
        BY <2>2, <2>3, <2>4, <4>1
      <4> QED
        BY <2>3, <4>2, <4>3
    <3>3. CASE call[r].op = "note"
      <4>1. event.type = "store_note_added" /\ stores' = stores
        BY <1>2, <2>2, <3>3, CommitShape DEF TypeOf
      <4>2. Births(t) = {} /\ Patches(t) = {}
        BY <2>3, <2>4, <4>1
      <4> QED
        BY <4>1, <4>2
    <3> QED
      BY <2>1, <3>1, <3>2, <3>3, CallShape
  <2>8. \A j \in fresh : ledger[j] = None
    BY <2>1, <2>4
  <2> QED
    BY <2>5, <2>6, <2>7, <2>8
<1>3. ASSUME RegistryInv, [Next]_vars PROVE Explained \/ UNCHANGED vars
  <2>1. CASE \E r \in Requests, c \in Calls : Send(r, c)
    BY <1>1, <2>1 DEF Send
  <2>2. CASE \E r \in Requests : Serve(r) \/ Cut(r)
    BY <1>1, <1>2, <1>3, <2>2, Unwritten
  <2> QED
    BY <1>3, <2>1, <2>2 DEF Next
<1>4. RegistryInv /\ [Next]_vars => [Explained]_vars
  BY <1>3
<1> QED
  BY <1>4, RegistryInductive, PTL DEF Spec, WritesAreRecorded

--------------------------------------------------------------------------------
(* The store as the trail tells it *)

\* The event at i of trail T gives store s its field f.
Gives(L, T, s, f, i) ==
  /\ L[T[i]].store = s
  /\ \/ L[T[i]].type = "store_created"
     \/ L[T[i]].type \in Updates /\ f \in DOMAIN L[T[i]].after
Giving(L, T, s, f, n) == {i \in 1 .. n : Gives(L, T, s, f, i)}
Latest(S) == CHOOSE i \in S : \A j \in S : j <= i
GivenValue(event, f) ==
  IF event.type = "store_created" THEN event.after.identity[f] ELSE event.after[f]
FieldTold(L, T, s, f, n) ==
  IF Giving(L, T, s, f, n) = {} THEN None ELSE GivenValue(L[T[Latest(Giving(L, T, s, f, n))]], f)

\* IdentityAfter, of a ledger and a trail given to it.
Tells(L, T, s, n) == [f \in Fields |-> FieldTold(L, T, s, f, n)]

LEMMA IdentityTold ==
  ASSUME NEW s, NEW n
  PROVE  IdentityAfter(s, n) = Tells(ledger, trail, s, n)
<1>1. ASSUME NEW f \in Fields PROVE IdentityAfter(s, n)[f] = FieldTold(ledger, trail, s, f, n)
  BY Zenon DEF IdentityAfter, FieldTold, Giving, Gives, Latest, GivenValue, EventAt
<1> QED
  BY <1>1 DEF IdentityAfter, Tells

LEMMA LatestIsLast ==
  ASSUME NEW n \in Nat, NEW S, S \subseteq 1 .. n, S # {}
  PROVE  Latest(S) \in S /\ \A j \in S : j <= Latest(S)
<1>1. \E i \in S : \A j \in S : j <= i
  <2>1. S \subseteq Nat /\ \A i \in S : i <= n
    OBVIOUS
  <2> QED
    BY <2>1, GreatestOf
<1> QED
  BY <1>1, Zenon DEF Latest

\* Events to come change nothing of what the first n tell.
LEMMA TellsStays ==
  ASSUME NEW L, NEW T, NEW L2, NEW T2, NEW s, NEW n \in Nat,
         \A i \in 1 .. n : L2[T2[i]] = L[T[i]]
  PROVE  Tells(L2, T2, s, n) = Tells(L, T, s, n)
<1>1. ASSUME NEW f \in Fields PROVE FieldTold(L2, T2, s, f, n) = FieldTold(L, T, s, f, n)
  <2> DEFINE G == Giving(L, T, s, f, n)
  <2>1. Giving(L2, T2, s, f, n) = G
    BY DEF Giving, Gives
  <2>2. CASE G = {}
    BY <2>1, <2>2 DEF FieldTold
  <2>3. CASE G # {}
    <3>1. Latest(G) \in G
      BY <2>3, LatestIsLast DEF Giving
    <3>2. L2[T2[Latest(G)]] = L[T[Latest(G)]]
      BY <3>1 DEF Giving
    <3> QED
      BY <2>1, <2>3, <3>2, Zenon DEF FieldTold
  <2> QED
    BY <2>2, <2>3
<1> QED
  BY <1>1, Zenon DEF Tells

\* What one more event makes of it: nothing, the body of a creation, or the
\* columns of a patch laid over it.
LEMMA TellsNext ==
  ASSUME NEW L, NEW T, NEW s, NEW n \in Nat, NEW event \in Event, event = L[T[n + 1]]
  PROVE  /\ event.store # s \/ event.type = "store_note_added" =>
              Tells(L, T, s, n + 1) = Tells(L, T, s, n)
         /\ event.store = s /\ event.type = "store_created" /\ event.after \in Store =>
              Tells(L, T, s, n + 1) = event.after.identity
         /\ event.store = s /\ event.type \in Updates /\ event.after \in Patch =>
              Tells(L, T, s, n + 1) = Overlay(Tells(L, T, s, n), event.after)
<1> DEFINE G(f) == Giving(L, T, s, f, n)
<1>1. ASSUME NEW f \in Fields, ~Gives(L, T, s, f, n + 1)
      PROVE  FieldTold(L, T, s, f, n + 1) = FieldTold(L, T, s, f, n)
  <2>1. Giving(L, T, s, f, n + 1) = G(f)
    BY <1>1 DEF Giving
  <2> QED
    BY <2>1, Zenon DEF FieldTold
<1>2. ASSUME NEW f \in Fields, Gives(L, T, s, f, n + 1)
      PROVE  FieldTold(L, T, s, f, n + 1) = GivenValue(event, f)
  <2> DEFINE H == Giving(L, T, s, f, n + 1)
  <2>1. n + 1 \in H /\ H \subseteq 1 .. n + 1 /\ n + 1 \in Nat
    BY <1>2 DEF Giving
  <2>2. Latest(H) \in H /\ \A j \in H : j <= Latest(H)
    BY <2>1, LatestIsLast
  <2>3. Latest(H) = n + 1
    BY <2>1, <2>2
  <2> QED
    BY <2>1, <2>3, Zenon DEF FieldTold
<1>3. CASE event.store # s \/ event.type = "store_note_added"
  <2>1. \A f \in Fields : ~Gives(L, T, s, f, n + 1)
    BY <1>3 DEF Gives, Updates
  <2>2. \A f \in Fields : FieldTold(L, T, s, f, n + 1) = FieldTold(L, T, s, f, n)
    BY <1>1, <2>1
  <2>3. Tells(L, T, s, n + 1) = Tells(L, T, s, n)
    BY <2>2, Zenon DEF Tells
  <2> QED
    BY <1>3, <2>3 DEF Updates
<1>4. CASE event.store = s /\ event.type = "store_created"
  <2>1. \A f \in Fields : Gives(L, T, s, f, n + 1)
    BY <1>4 DEF Gives
  <2>2. \A f \in Fields : FieldTold(L, T, s, f, n + 1) = event.after.identity[f]
    BY <1>2, <1>4, <2>1 DEF GivenValue
  <2>3. ASSUME event.after \in Store PROVE Tells(L, T, s, n + 1) = event.after.identity
    <3>1. event.after.identity = [f \in Fields |-> event.after.identity[f]]
      BY <2>3 DEF Store, Identity
    <3> QED
      BY <2>2, <3>1, Zenon DEF Tells
  <2> QED
    BY <1>4, <2>3 DEF Updates
<1>5. CASE event.store = s /\ event.type \in Updates
  <2>1. ASSUME event.after \in Patch
        PROVE  Tells(L, T, s, n + 1) = Overlay(Tells(L, T, s, n), event.after)
    <3>1. ASSUME NEW f \in Fields
          PROVE  FieldTold(L, T, s, f, n + 1) =
                   IF f \in DOMAIN event.after THEN event.after[f] ELSE Tells(L, T, s, n)[f]
      <4>1. Gives(L, T, s, f, n + 1) <=> f \in DOMAIN event.after
        BY <1>5 DEF Gives, Updates
      <4>2. GivenValue(event, f) = event.after[f]
        BY <1>5 DEF GivenValue, Updates
      <4>3. Tells(L, T, s, n)[f] = FieldTold(L, T, s, f, n)
        BY DEF Tells
      <4> QED
        BY <1>1, <1>2, <4>1, <4>2, <4>3, Zenon
    <3> QED
      BY <3>1, Zenon DEF Tells, Overlay
  <2> QED
    BY <1>5, <2>1 DEF Updates
<1> QED
  BY <1>3, <1>4, <1>5 DEF Event, EventType, Updates

--------------------------------------------------------------------------------
(* The trail, and what requests know of it *)

\* The trail lists each spent operation_id once.
TrailLists(L, T) ==
  /\ \A k \in Keys : L[k] # None <=> \E i \in 1 .. Len(T) : T[i] = k
  /\ \A i, j \in 1 .. Len(T) : T[i] = T[j] => i = j

\* Each store is what the trail tells of it, and the trail is about stores.
StoresTold(S, L, T) ==
  /\ \A s \in StoreIds : S[s] # None => S[s].identity = Tells(L, T, s, Len(T))
  /\ \A k \in Keys : L[k] # None => S[L[k].store] # None

\* BeforeWasReal, of a ledger and a trail given to it.
BeforesTold(L, T) ==
  \A i \in 1 .. Len(T) : L[T[i]].type \in Updates =>
    \E n \in 0 .. i - 1 :
      \A f \in DOMAIN L[T[i]].after : L[T[i]].before[f] = Tells(L, T, L[T[i]].store, n)[f]

\* What the statement r has reached says of its caller, and of the columns it has
\* read.
Reading(r) ==
  /\ pc[r] \in {"lookup", "insert"} => call[r].by.scope = StoreIds
  /\ pc[r] \in {"write", "record", "commit"} => target[r] \in call[r].by.scope
  /\ pc[r] = "write" => \E n \in 0 .. Len(trail) :
       row[r].identity = Tells(ledger, trail, target[r], n)
  /\ pc[r] \in {"record", "commit"} /\ call[r].op = "update" => \E n \in 0 .. Len(trail) :
       \A f \in Given(r) : before[r][f] = Tells(ledger, trail, target[r], n)[f]
  /\ pc[r] = "reread" => IsReplay(r) /\ call[r].op # "note"
  /\ answer[r].kind = "done" => pc[r] \in {"replying", "answered"}

\* A state of its store that answer a may show: the one the first n events tell.
Shows(a, S, L, T, n) ==
  a.shown # None => a.shown = [key |-> S[a.store].key, identity |-> Tells(L, T, a.store, n)]

\* Answer a to call c is found in the ledger, or is that to an empty patch.
FoundInLedger(a, c, type, S, L, T) ==
  /\ L[c.key] # None /\ L[c.key].type = type /\ L[c.key].store = a.store
  /\ a.store \in c.by.scope
  /\ c.op # "create" => a.store = c.store
  /\ c.op # "note" => a.shown # None
  /\ \E p \in 1 .. Len(T) :
       /\ T[p] = c.key
       /\ IF a.replayed THEN \E n \in p .. Len(T) : Shows(a, S, L, T, n)
          ELSE Shows(a, S, L, T, p) /\ L[c.key].after = c.body
FoundNothingToDo(a, c, S, L, T) ==
  /\ c.op = "update" /\ DOMAIN c.body = {} /\ ~a.replayed
  /\ \E n \in 0 .. Len(T) : Shows(a, S, L, T, n)

Told(r) ==
  answer[r].kind = "done" =>
    /\ answer[r].store \in StoreIds /\ stores[answer[r].store] # None
    /\ \/ FoundInLedger(answer[r], call[r], TypeOf(r), stores, ledger, trail)
       \/ FoundNothingToDo(answer[r], call[r], stores, ledger, trail)

\* r is told that it was the first under its key.
First(r) == /\ answer[r].kind = "done" /\ ~answer[r].replayed
            /\ call[r].op = "update" => Given(r) # {}

HistoryInv ==
  /\ RegistryInv
  /\ TrailLists(ledger, trail)
  /\ StoresTold(stores, ledger, trail)
  /\ BeforesTold(ledger, trail)
  /\ \A r \in Requests : Reading(r) /\ Told(r)
  /\ \A q, r \in Requests : First(q) /\ First(r) /\ call[q].key = call[r].key => q = r

LEMMA InitHistory == Init => HistoryInv
<1> SUFFICES ASSUME Init PROVE HistoryInv
  OBVIOUS
<1>1. Len(trail) = 0 /\ 1 .. 0 = {} /\ trail = <<>>
  BY DEF Init
<1>2. \A r \in Requests : answer[r].kind = "none" /\ pc[r] = "unsent"
  BY DEF Init, Refuse
<1>3. TrailLists(ledger, trail) /\ BeforesTold(ledger, trail)
  BY <1>1 DEF Init, TrailLists, BeforesTold
<1>4. StoresTold(stores, ledger, trail)
  <2>1. \A s \in StoreIds : Tells(ledger, trail, s, 0) = [f \in Fields |-> None]
    BY DEF Tells, FieldTold, Giving
  <2>2. \A s \in StoreIds : stores[s] # None => stores[s].identity = [f \in Fields |-> None]
    BY DEF Init
  <2> QED
    BY <1>1, <2>1, <2>2 DEF StoresTold, Init
<1>5. \A r \in Requests : Reading(r) /\ Told(r) /\ ~First(r)
  BY <1>2 DEF Reading, Told, First
<1> QED
  BY <1>3, <1>4, <1>5, InitRegistry DEF HistoryInv

--------------------------------------------------------------------------------
(* Steps that record nothing *)

\* Such a step of r leaves the other requests where they are.
OthersAsBefore(r) ==
  \A q \in Requests \ {r} :
    /\ pc'[q] = pc[q] /\ target'[q] = target[q] /\ row'[q] = row[q]
    /\ before'[q] = before[q] /\ answer'[q] = answer[q]

LEMMA OthersKeep ==
  ASSUME RegistryInv, NEW r \in Requests, Serve(r) \/ Cut(r), ~Commit(r)
  PROVE  UNCHANGED <<stores, ledger, trail, call>> /\ OthersAsBefore(r)
<1>1. /\ pc \in [Requests -> Labels] /\ target \in [Requests -> StoreIds \cup {None}]
      /\ row \in [Requests -> Store \cup {None}]
      /\ before \in [Requests -> BeforeState \cup {None}] /\ answer \in [Requests -> Answer]
  BY DEF RegistryInv, TypeOK
<1>2. UNCHANGED <<stores, ledger, trail, call>>
  BY Unwritten DEF tables, Serve, Authorize, FindByOperation, GetStore, CreateStore, UpdateStore,
     RecordOperation, Reread, Deliver, Cut
<1>3. \A a : Reply(r, a) => OthersAsBefore(r)
  BY <1>1 DEF Reply, Goto, OthersAsBefore
<1>4. ReplayOrConflict(r) => OthersAsBefore(r)
  BY <1>1, <1>3 DEF ReplayOrConflict, Goto, OthersAsBefore
<1>5. \A l : Goto(r, l) /\ UNCHANGED <<target, row, before, answer>> => OthersAsBefore(r)
  BY <1>1 DEF Goto, OthersAsBefore
<1>6. CASE Authorize(r)
  BY <1>2, <1>3, <1>5, <1>6 DEF Authorize
<1>7. CASE FindByOperation(r)
  BY <1>2, <1>4, <1>5, <1>7 DEF FindByOperation
<1>8. CASE GetStore(r)
  <2>1. CASE \E a : Reply(r, a)
    BY <1>2, <1>3, <2>1
  <2>2. CASE /\ \E l : Goto(r, l)
             /\ \E s : target' = [target EXCEPT ![r] = s]
             /\ \E x : row' = [row EXCEPT ![r] = x]
             /\ UNCHANGED <<before, answer>>
    BY <1>2, <1>1, <2>2 DEF OthersAsBefore, Goto
  <2> QED
    BY <1>2, <1>8, <2>1, <2>2, Zenon DEF GetStore
<1>9. CASE CreateStore(r)
  <2>1. CASE \E a : Reply(r, a)
    BY <1>2, <1>3, <2>1
  <2>2. CASE /\ \E l : Goto(r, l)
             /\ \E s \in StoreIds : /\ target' = [target EXCEPT ![r] = s]
                                    /\ \E x : row' = [row EXCEPT ![r] = x]
             /\ UNCHANGED <<before, answer>>
    BY <1>2, <1>1, <2>2 DEF OthersAsBefore, Goto
  <2> QED
    BY <1>2, <1>9, <2>1, <2>2, Zenon DEF CreateStore
<1>10. CASE UpdateStore(r)
  BY <1>2, <1>1, <1>10 DEF UpdateStore, Goto, OthersAsBefore
<1>11. CASE RecordOperation(r)
  BY <1>2, <1>4, <1>5, <1>11 DEF RecordOperation
<1>12. CASE Reread(r)
  BY <1>2, <1>3, <1>12 DEF Reread
<1>13. CASE Deliver(r)
  BY <1>2, <1>5, <1>13 DEF Deliver
<1>14. CASE Cut(r)
  BY <1>2, <1>1, <1>14 DEF Cut, Goto, OthersAsBefore
<1> QED
  BY <1>6, <1>7, <1>8, <1>9, <1>10, <1>11, <1>12, <1>13, <1>14 DEF Serve

LEMMA QuietHistory ==
  ASSUME HistoryInv, RegistryInv', NEW r \in Requests,
         UNCHANGED <<stores, ledger, trail, call>>, OthersAsBefore(r),
         Reading(r)', Told(r)', First(r)' => First(r)
  PROVE  HistoryInv'
<1>1. TrailLists(ledger, trail)' /\ StoresTold(stores, ledger, trail)' /\ BeforesTold(ledger, trail)'
  BY DEF HistoryInv
<1>2. ASSUME NEW q \in Requests \ {r} PROVE Reading(q)' /\ Told(q)' /\ (First(q)' <=> First(q))
  <2>1. /\ pc'[q] = pc[q] /\ target'[q] = target[q] /\ row'[q] = row[q]
        /\ before'[q] = before[q] /\ answer'[q] = answer[q]
        /\ stores' = stores /\ ledger' = ledger /\ trail' = trail /\ call' = call
    BY DEF OthersAsBefore
  <2>2. Reading(q) /\ Told(q)
    BY DEF HistoryInv
  <2>3. (IsReplay(q)' <=> IsReplay(q)) /\ TypeOf(q)' = TypeOf(q) /\ Given(q)' = Given(q)
    BY <2>1 DEF IsReplay, TypeOf, Given
  <2>4. Reading(q)'
    BY <2>1, <2>2, <2>3 DEF Reading
  <2>5. Told(q)'
    BY <2>1, <2>2, <2>3, Zenon DEF Told
  <2>6. First(q)' <=> First(q)
    BY <2>1, <2>3 DEF First
  <2> QED
    BY <2>4, <2>5, <2>6
<1>3. \A p, q \in Requests : First(p)' /\ First(q)' /\ call'[p].key = call'[q].key => p = q
  BY <1>2 DEF HistoryInv
<1> QED
  BY <1>1, <1>2, <1>3 DEF HistoryInv

\* A request that leaves with an answer that is not "done".
LEMMA RefusalHistory ==
  ASSUME HistoryInv, NEW r \in Requests, NEW kind \in AnswerKind \ {"done"},
         Reply(r, Refuse(kind))
  PROVE  Reading(r)' /\ Told(r)' /\ ~First(r)'
<1>1. pc'[r] = "replying" /\ answer'[r].kind # "done"
  BY DEF Reply, Goto, Refuse, HistoryInv, RegistryInv, TypeOK
<1> QED
  BY <1>1 DEF Reading, Told, First

\* A request that finds its operation_id spent is answered from the event or
\* reads the store of that very event.
LEMMA ReplayHistory ==
  ASSUME HistoryInv, NEW r \in Requests, ledger[call[r].key] # None, ReplayOrConflict(r),
         call[r].op = "note" => pc[r] = "record",
         pc[r] \in {"lookup", "record"}, UNCHANGED <<tables, call>>
  PROVE  Reading(r)' /\ Told(r)' /\ ~First(r)'
<1>1. /\ call[r] \in Call /\ call[r].key \in Keys /\ Reading(r) /\ answer[r].kind # "done"
      /\ stores' = stores /\ ledger' = ledger /\ trail' = trail /\ call' = call
  BY CallShape DEF HistoryInv, RegistryInv, Standing, Reading, tables
<1>2. (IsReplay(r)' <=> IsReplay(r)) /\ TypeOf(r)' = TypeOf(r)
  BY <1>1 DEF IsReplay, TypeOf
<1>3. CASE ~IsReplay(r)
  BY <1>3, RefusalHistory DEF ReplayOrConflict, AnswerKind
<1>4. CASE IsReplay(r) /\ call[r].op = "note"
  <2> DEFINE a == Done(call[r].store, TRUE, None)
  <2>1. pc'[r] = "replying" /\ answer'[r] = a
    BY <1>4 DEF ReplayOrConflict, Reply, Goto, HistoryInv, RegistryInv, TypeOK
  <2>2. a.store = call[r].store /\ a.replayed = TRUE /\ a.shown = None /\ a.kind = "done"
    BY DEF Done
  <2>3. call[r].store \in StoreIds /\ stores[call[r].store] # None /\ call[r].store \in call[r].by.scope
    BY <1>1, <1>4, CallShape DEF HistoryInv, RegistryInv, Standing, Reading
  <2>4. ledger[call[r].key].type = TypeOf(r) /\ ledger[call[r].key].store = a.store
    BY <1>4, <2>2 DEF IsReplay
  <2>5. PICK p \in 1 .. Len(trail) : trail[p] = call[r].key
    BY <1>1 DEF HistoryInv, TrailLists
  <2>6. \E n \in p .. Len(trail) : Shows(a, stores, ledger, trail, n)
    <3>1. p \in p .. Len(trail)
      BY <2>5
    <3> QED
      BY <2>2, <3>1 DEF Shows
  <2> HIDE DEF a
  <2>7. FoundInLedger(a, call[r], TypeOf(r), stores, ledger, trail)
    BY <1>4, <2>2, <2>3, <2>4, <2>5, <2>6 DEF FoundInLedger
  <2>8. Told(r)'
    BY <1>1, <1>2, <2>1, <2>2, <2>3, <2>7 DEF Told
  <2>9. Reading(r)' /\ ~First(r)'
    BY <2>1, <2>2 DEF Reading, First
  <2> QED
    BY <2>8, <2>9
<1>5. CASE IsReplay(r) /\ call[r].op # "note"
  <2>1. pc'[r] = "reread" /\ answer'[r] = answer[r]
    BY <1>5 DEF ReplayOrConflict, Goto, HistoryInv, RegistryInv, TypeOK
  <2> QED
    BY <1>1, <1>2, <1>5, <2>1 DEF Reading, Told, First
<1> QED
  BY <1>3, <1>4, <1>5

\* A creation is the owner's, and the owner reaches every store.
LEMMA OwnerReachesAll ==
  ASSUME NEW c \in Call, c.by.role = "owner"
  PROVE  c.by.scope = StoreIds
BY DEF Call, Caller

LEMMA BeforeReadingHistory ==
  ASSUME HistoryInv, NEW r \in Requests, Authorize(r) \/ FindByOperation(r)
  PROVE  Reading(r)' /\ Told(r)' /\ (First(r)' => First(r))
<1>1. /\ pc[r] \in {"opened", "lookup"} /\ call[r] \in Call /\ Reading(r) /\ answer[r].kind # "done"
      /\ UNCHANGED <<tables, call>>
  BY DEF Authorize, FindByOperation, HistoryInv, RegistryInv, Standing, Reading
<1>2. CASE Authorize(r)
  <2>1. CASE ~Permitted(r)
    BY <1>2, <2>1, RefusalHistory DEF Authorize, AnswerKind
  <2>2. CASE Permitted(r)
    <3>1. /\ pc'[r] \in {"lookup", "read"} /\ (pc'[r] = "lookup" => call[r].op = "create")
          /\ answer'[r] = answer[r] /\ call' = call
      BY <1>2, <2>2 DEF Authorize, Goto, HistoryInv, RegistryInv, TypeOK
    <3>2. call[r].op = "create" => call[r].by.scope = StoreIds
      BY <1>1, <2>2, OwnerReachesAll DEF Permitted, CanCreateStore
    <3> QED
      BY <1>1, <3>1, <3>2 DEF Reading, Told, First
  <2> QED
    BY <2>1, <2>2
<1>3. CASE FindByOperation(r)
  <2>1. call[r].op = "create"
    BY <1>3 DEF FindByOperation, HistoryInv, RegistryInv, Standing
  <2>2. CASE ledger[call[r].key] # None
    BY <1>1, <1>3, <2>1, <2>2, ReplayHistory DEF FindByOperation
  <2>3. CASE ledger[call[r].key] = None
    <3>1. pc'[r] = "insert" /\ answer'[r] = answer[r] /\ call' = call /\ pc[r] = "lookup"
      BY <1>3, <2>3 DEF FindByOperation, Goto, HistoryInv, RegistryInv, TypeOK
    <3> QED
      BY <1>1, <3>1 DEF Reading, Told, First
  <2> QED
    BY <2>2, <2>3
<1> QED
  BY <1>2, <1>3

LEMMA ReadingStoreHistory ==
  ASSUME HistoryInv, NEW r \in Requests, GetStore(r)
  PROVE  Reading(r)' /\ Told(r)' /\ (First(r)' => First(r))
<1> DEFINE s == call[r].store
<1>1. /\ pc[r] = "read" /\ call[r] \in Call /\ call[r].op \in {"update", "note"}
      /\ stores' = stores /\ ledger' = ledger /\ trail' = trail /\ call' = call
      /\ s \in StoreIds /\ Reading(r) /\ answer[r].kind # "done" /\ Len(trail) \in Nat
  BY CallShape DEF GetStore, HistoryInv, RegistryInv, Standing, Reading, TypeOK, tables
<1>2. CASE s \notin call[r].by.scope \/ stores[s] = None
  BY <1>1, <1>2, RefusalHistory DEF GetStore, AnswerKind
<1>3. CASE s \in call[r].by.scope /\ stores[s] # None
  <2>1. stores[s] \in Store /\ stores[s].identity = Tells(ledger, trail, s, Len(trail))
    BY <1>1, <1>3 DEF HistoryInv, StoresTold, RegistryInv, TypeOK
  <2>2. stores[s] = [key |-> stores[s].key, identity |-> Tells(ledger, trail, s, Len(trail))]
    BY <2>1 DEF Store
  <2>3. CASE call[r].op = "update" /\ Given(r) = {}
    <3> DEFINE a == Done(s, FALSE, stores[s])
    <3>1. pc'[r] = "replying" /\ answer'[r] = a
      BY <1>3, <2>3 DEF GetStore, Reply, Goto, HistoryInv, RegistryInv, TypeOK
    <3>2. a.store = s /\ a.replayed = FALSE /\ a.shown = stores[s] /\ a.kind = "done"
      BY DEF Done
    <3> HIDE DEF a
    <3>3. Shows(a, stores, ledger, trail, Len(trail)) /\ Len(trail) \in 0 .. Len(trail)
      BY <1>1, <2>2, <3>2 DEF Shows
    <3>4. FoundNothingToDo(a, call[r], stores, ledger, trail)
      BY <2>3, <3>2, <3>3 DEF FoundNothingToDo, Given
    <3>5. Told(r)'
      BY <1>1, <1>3, <3>1, <3>2, <3>4 DEF Told
    <3>6. Reading(r)' /\ ~First(r)'
      BY <1>1, <2>3, <3>1 DEF Reading, First, Given
    <3> QED
      BY <3>5, <3>6
  <2>4. CASE ~(call[r].op = "update" /\ Given(r) = {})
    <3>1. /\ pc'[r] = (IF call[r].op = "update" THEN "write" ELSE "record")
          /\ target'[r] = s /\ row'[r] = stores[s] /\ answer'[r] = answer[r]
      BY <1>3, <2>4 DEF GetStore, Goto, HistoryInv, RegistryInv, TypeOK
    <3>2. \E n \in 0 .. Len(trail) : row'[r].identity = Tells(ledger, trail, s, n)
      <4>1. Len(trail) \in 0 .. Len(trail)
        BY <1>1
      <4> QED
        BY <2>1, <3>1, <4>1
    <3>3. Reading(r)'
      BY <1>1, <1>3, <3>1, <3>2 DEF Reading
    <3>4. Told(r)' /\ ~First(r)'
      BY <1>1, <3>1 DEF Told, First
    <3> QED
      BY <3>3, <3>4
  <2> QED
    BY <2>3, <2>4
<1> QED
  BY <1>2, <1>3

LEMMA InsertingHistory ==
  ASSUME HistoryInv, NEW r \in Requests, CreateStore(r)
  PROVE  Reading(r)' /\ Told(r)' /\ (First(r)' => First(r))
<1>1. /\ pc[r] = "insert" /\ call[r] \in Call /\ call[r].op = "create" /\ call' = call
      /\ Reading(r) /\ answer[r].kind # "done"
  BY DEF CreateStore, HistoryInv, RegistryInv, Standing, Reading
<1>2. CASE StoreKeyTaken(call[r].body.key)
  BY <1>2, RefusalHistory DEF CreateStore, AnswerKind
<1>3. CASE ~StoreKeyTaken(call[r].body.key)
  <2>1. pc'[r] = "record" /\ target'[r] \in StoreIds /\ answer'[r] = answer[r]
    BY <1>3 DEF CreateStore, Goto, HistoryInv, RegistryInv, TypeOK
  <2> QED
    BY <1>1, <2>1 DEF Reading, Told, First
<1> QED
  BY <1>2, <1>3

LEMMA UpdatingHistory ==
  ASSUME HistoryInv, NEW r \in Requests, UpdateStore(r)
  PROVE  Reading(r)' /\ Told(r)' /\ (First(r)' => First(r))
<1>1. /\ pc[r] = "write" /\ call[r] \in Call /\ call[r].op = "update" /\ call[r].body \in Patch
      /\ stores' = stores /\ ledger' = ledger /\ trail' = trail /\ call' = call
      /\ Reading(r) /\ answer[r].kind # "done"
  BY CallShape DEF UpdateStore, HistoryInv, RegistryInv, Standing, Reading, tables
<1>2. /\ pc'[r] = "record" /\ target'[r] = target[r] /\ answer'[r] = answer[r]
      /\ before'[r] = Before(r)
  BY <1>1 DEF UpdateStore, Goto, HistoryInv, RegistryInv, TypeOK
<1>3. PICK n \in 0 .. Len(trail) : row[r].identity = Tells(ledger, trail, target[r], n)
  BY <1>1 DEF Reading
<1>4. \A f \in Given(r) : before'[r][f] = Tells(ledger, trail, target[r], n)[f]
  BY <1>2, <1>3 DEF Before
<1>5. Given(r)' = Given(r)
  BY <1>1 DEF Given
<1>6. Reading(r)'
  BY <1>1, <1>2, <1>4, <1>5 DEF Reading
<1> QED
  BY <1>1, <1>2, <1>6 DEF Told, First

LEMMA RecordingHistory ==
  ASSUME HistoryInv, NEW r \in Requests, RecordOperation(r)
  PROVE  Reading(r)' /\ Told(r)' /\ (First(r)' => First(r))
<1>1. /\ pc[r] = "record" /\ UNCHANGED <<tables, call>> /\ Reading(r) /\ answer[r].kind # "done"
      /\ stores' = stores /\ ledger' = ledger /\ trail' = trail /\ call' = call
  BY DEF RecordOperation, HistoryInv, Reading, tables
<1>2. CASE ledger[call[r].key] # None
  BY <1>1, <1>2, ReplayHistory DEF RecordOperation
<1>3. CASE ledger[call[r].key] = None
  <2>1. /\ pc'[r] = "commit" /\ target' = target /\ before' = before /\ answer' = answer
        /\ Given(r)' = Given(r)
    BY <1>1, <1>3 DEF RecordOperation, Goto, Given, HistoryInv, RegistryInv, TypeOK
  <2> QED
    BY <1>1, <2>1 DEF Reading, Told, First
<1> QED
  BY <1>2, <1>3

LEMMA RereadHistory ==
  ASSUME HistoryInv, NEW r \in Requests, Reread(r)
  PROVE  Reading(r)' /\ Told(r)' /\ ~First(r)'
<1> DEFINE s == ledger[call[r].key].store
<1>1. /\ pc[r] = "reread" /\ call[r] \in Call /\ call[r].key \in Keys /\ ledger[call[r].key] # None
      /\ stores' = stores /\ ledger' = ledger /\ trail' = trail /\ call' = call
      /\ IsReplay(r) /\ call[r].op # "note" /\ Len(trail) \in Nat
  BY CallShape DEF Reread, HistoryInv, RegistryInv, Standing, Reading, TypeOK, tables
<1>2. s \in StoreIds /\ stores[s] # None
  BY <1>1 DEF HistoryInv, RegistryInv, TypeOK, Event, StoresTold
<1>3. stores[s] \in Store /\ stores[s].identity = Tells(ledger, trail, s, Len(trail))
  BY <1>2 DEF HistoryInv, StoresTold, RegistryInv, TypeOK
<1>4. stores[s] = [key |-> stores[s].key, identity |-> Tells(ledger, trail, s, Len(trail))]
  BY <1>3 DEF Store
<1>5. CASE s \notin call[r].by.scope
  BY <1>5, RefusalHistory DEF Reread, AnswerKind
<1>6. CASE s \in call[r].by.scope
  <2> DEFINE a == Done(s, TRUE, stores[s])
  <2>1. pc'[r] = "replying" /\ answer'[r] = a
    BY <1>6 DEF Reread, Reply, Goto, HistoryInv, RegistryInv, TypeOK
  <2>2. a.store = s /\ a.replayed = TRUE /\ a.shown = stores[s] /\ a.kind = "done"
    BY DEF Done
  <2> HIDE DEF a
  <2>3. PICK p \in 1 .. Len(trail) : trail[p] = call[r].key
    BY <1>1 DEF HistoryInv, TrailLists
  <2>4. Shows(a, stores, ledger, trail, Len(trail)) /\ Len(trail) \in p .. Len(trail)
    BY <1>1, <1>4, <2>2 DEF Shows
  <2>5. ledger[call[r].key].type = TypeOf(r) /\ (call[r].op # "create" => s = call[r].store)
    BY <1>1 DEF IsReplay
  <2>6. FoundInLedger(a, call[r], TypeOf(r), stores, ledger, trail)
    BY <1>1, <1>2, <1>6, <2>2, <2>3, <2>4, <2>5 DEF FoundInLedger
  <2>7. TypeOf(r)' = TypeOf(r)
    BY <1>1 DEF TypeOf
  <2>8. Told(r)'
    BY <1>1, <1>2, <2>1, <2>2, <2>6, <2>7 DEF Told
  <2> QED
    BY <2>1, <2>2, <2>8 DEF Reading, First
<1> QED
  BY <1>5, <1>6

LEMMA EndingHistory ==
  ASSUME HistoryInv, NEW r \in Requests, Deliver(r) \/ Cut(r)
  PROVE  Reading(r)' /\ Told(r)' /\ (First(r)' => First(r))
<1>1. CASE Deliver(r)
  <2>1. /\ pc'[r] = "answered" /\ answer' = answer /\ UNCHANGED <<stores, ledger, trail, call>>
        /\ TypeOf(r)' = TypeOf(r) /\ Given(r)' = Given(r)
    BY <1>1 DEF Deliver, Goto, HistoryInv, RegistryInv, TypeOK, tables, TypeOf, Given
  <2>2. Reading(r)' /\ (First(r)' <=> First(r))
    BY <2>1 DEF Reading, First
  <2>3. Told(r)
    BY DEF HistoryInv
  <2> QED
    BY <2>1, <2>2, <2>3, Zenon DEF Told
<1>2. CASE Cut(r)
  <2>1. pc'[r] = "lost" /\ answer'[r].kind = "none"
    BY <1>2 DEF Cut, Goto, Refuse, HistoryInv, RegistryInv, TypeOK
  <2> QED
    BY <2>1 DEF Reading, Told, First
<1> QED
  BY <1>1, <1>2

LEMMA OwnHistory ==
  ASSUME HistoryInv, RegistryInv', NEW r \in Requests, Serve(r) \/ Cut(r), ~Commit(r)
  PROVE  HistoryInv'
<1>1. RegistryInv
  BY DEF HistoryInv
<1>2. Reading(r)' /\ Told(r)' /\ (First(r)' => First(r))
  BY BeforeReadingHistory, ReadingStoreHistory, InsertingHistory, UpdatingHistory,
     RecordingHistory, RereadHistory, EndingHistory DEF Serve
<1>3. UNCHANGED <<stores, ledger, trail, call>> /\ OthersAsBefore(r)
  BY <1>1, OthersKeep
<1> QED
  BY <1>2, <1>3, QuietHistory

--------------------------------------------------------------------------------
(* The step that records *)

\* What an answer found in the ledger is found there when the trail has grown.
LEMMA FoundStays ==
  ASSUME NEW S, NEW L, NEW T, NEW S2, NEW L2, NEW T2, NEW a, NEW c, NEW type,
         Len(T) \in Nat, Len(T2) = Len(T) + 1,
         \A i \in 1 .. Len(T) : T2[i] = T[i] /\ L2[T[i]] = L[T[i]],
         S2[a.store].key = S[a.store].key, L[c.key] # None => L2[c.key] = L[c.key]
  PROVE  /\ FoundInLedger(a, c, type, S, L, T) => FoundInLedger(a, c, type, S2, L2, T2)
         /\ FoundNothingToDo(a, c, S, L, T) => FoundNothingToDo(a, c, S2, L2, T2)
<1>1. ASSUME NEW n \in 0 .. Len(T) PROVE Shows(a, S2, L2, T2, n) <=> Shows(a, S, L, T, n)
  <2>1. Tells(L2, T2, a.store, n) = Tells(L, T, a.store, n)
    <3>1. \A i \in 1 .. n : L2[T2[i]] = L[T[i]]
      OBVIOUS
    <3>2. n \in Nat
      OBVIOUS
    <3> QED
      BY <3>1, <3>2, TellsStays
  <2> QED
    BY <2>1 DEF Shows
<1>2. 0 .. Len(T) \subseteq 0 .. Len(T2) /\ 1 .. Len(T) \subseteq 1 .. Len(T2)
  OBVIOUS
<1>3. ASSUME FoundNothingToDo(a, c, S, L, T) PROVE FoundNothingToDo(a, c, S2, L2, T2)
  <2>1. PICK n \in 0 .. Len(T) : Shows(a, S, L, T, n)
    BY <1>3 DEF FoundNothingToDo
  <2>2. Shows(a, S2, L2, T2, n) /\ n \in 0 .. Len(T2)
    BY <1>1, <1>2, <2>1
  <2> QED
    BY <1>3, <2>2 DEF FoundNothingToDo
<1>4. ASSUME FoundInLedger(a, c, type, S, L, T) PROVE FoundInLedger(a, c, type, S2, L2, T2)
  <2>1. PICK p \in 1 .. Len(T) :
          /\ T[p] = c.key
          /\ IF a.replayed THEN \E n \in p .. Len(T) : Shows(a, S, L, T, n)
             ELSE Shows(a, S, L, T, p) /\ L[c.key].after = c.body
    BY <1>4, Zenon DEF FoundInLedger
  <2>2. L2[c.key] = L[c.key] /\ T2[p] = c.key /\ p \in 1 .. Len(T2)
    BY <1>2, <1>4, <2>1 DEF FoundInLedger
  <2>3. CASE a.replayed
    <3>1. PICK n \in p .. Len(T) : Shows(a, S, L, T, n)
      BY <2>1, <2>3
    <3>2. n \in 0 .. Len(T) /\ n \in p .. Len(T2)
      OBVIOUS
    <3>3. Shows(a, S2, L2, T2, n)
      BY <1>1, <3>1, <3>2
    <3> QED
      BY <1>4, <2>2, <2>3, <3>2, <3>3 DEF FoundInLedger
  <2>4. CASE ~a.replayed
    <3>1. p \in 0 .. Len(T)
      OBVIOUS
    <3>2. Shows(a, S2, L2, T2, p)
      BY <1>1, <2>1, <2>4, <3>1
    <3> QED
      BY <1>4, <2>1, <2>2, <2>4, <3>2 DEF FoundInLedger
  <2> QED
    BY <2>3, <2>4
<1> QED
  BY <1>3, <1>4

\* A commit puts its event behind the others, which stay as they are.
LEMMA CommitAppends ==
  ASSUME HistoryInv, NEW r \in Requests, Commit(r)
  PROVE  /\ Len(trail) \in Nat /\ Len(trail') = Len(trail) + 1
         /\ trail'[Len(trail) + 1] = call[r].key
         /\ \A i \in 1 .. Len(trail) : trail[i] # call[r].key /\ trail'[i] = trail[i] /\
                                       ledger'[trail[i]] = ledger[trail[i]]
         /\ \A s, n : n \in 0 .. Len(trail) =>
              Tells(ledger', trail', s, n) = Tells(ledger, trail, s, n)
         /\ \A s \in StoreIds : stores[s] # None =>
              stores'[s] # None /\ stores'[s].key = stores[s].key
<1>1. /\ RegistryInv /\ trail \in Seq(Keys) /\ Len(trail) \in Nat
      /\ ledger \in [Keys -> Event \cup {None}] /\ call[r].key \in Keys
      /\ ledger[call[r].key] = None /\ trail' = Append(trail, call[r].key)
  BY CommitShape, CallShape DEF HistoryInv, RegistryInv, TypeOK
<1>2. \A k \in Keys \ {call[r].key} : ledger'[k] = ledger[k]
  BY <1>1, CommitShape
<1>3. \A i \in 1 .. Len(trail) : trail[i] \in Keys /\ trail[i] # call[r].key
  BY <1>1 DEF HistoryInv, TrailLists
<1>4. /\ Len(trail') = Len(trail) + 1 /\ trail'[Len(trail) + 1] = call[r].key
      /\ \A i \in 1 .. Len(trail) : trail'[i] = trail[i]
  BY <1>1
<1>5. \A i \in 1 .. Len(trail) : ledger'[trail[i]] = ledger[trail[i]]
  BY <1>2, <1>3
<1>6. ASSUME NEW s, NEW n \in 0 .. Len(trail)
      PROVE  Tells(ledger', trail', s, n) = Tells(ledger, trail, s, n)
  <2>1. n \in Nat /\ \A i \in 1 .. n : ledger'[trail'[i]] = ledger[trail[i]]
    BY <1>1, <1>4, <1>5
  <2> QED
    BY <2>1, TellsStays
<1>7. \A s \in StoreIds : stores[s] # None => stores'[s] # None /\ stores'[s].key = stores[s].key
  <2>1. call[r].op \in {"create", "update", "note"}
    BY <1>1, CommitShape, CallShape
  <2> QED
    BY <1>1, <2>1, CommitShape
<1> QED
  BY <1>1, <1>3, <1>4, <1>5, <1>6, <1>7

\* The store a commit writes is what its event makes of what was told.
LEMMA CommitTold ==
  ASSUME HistoryInv, NEW r \in Requests, Commit(r)
  PROVE  StoresTold(stores, ledger, trail)'
<1> DEFINE k == call[r].key
<1> DEFINE t == target[r]
<1> DEFINE N == Len(trail)
<1>1. /\ RegistryInv /\ call[r] \in Call /\ t \in StoreIds /\ k \in Keys
      /\ ledger \in [Keys -> Event \cup {None}] /\ N \in Nat
  BY CommitShape, CallShape DEF HistoryInv, RegistryInv, TypeOK
<1>2. PICK event \in Event :
        /\ event # None /\ event.type = TypeOf(r) /\ event.store = t
        /\ event.after = call[r].body /\ ledger' = [ledger EXCEPT ![k] = event]
  BY <1>1, CommitShape
<1>3. /\ ledger'[k] = event /\ \A j \in Keys \ {k} : ledger'[j] = ledger[j]
      /\ event = ledger'[trail'[N + 1]]
  BY <1>1, <1>2, CommitAppends
<1>4. \A s : Tells(ledger', trail', s, N) = Tells(ledger, trail, s, N)
  <2>1. N \in 0 .. N
    BY <1>1
  <2> QED
    BY <2>1, CommitAppends
<1>5. \A s \in StoreIds : stores[s] # None => stores[s].identity = Tells(ledger, trail, s, N)
  BY DEF HistoryInv, StoresTold
<1>6. ASSUME NEW s \in StoreIds, stores'[s] # None
      PROVE  stores'[s].identity = Tells(ledger', trail', s, N + 1)
  <2>1. CASE s # t \/ call[r].op = "note"
    <3>1. stores'[s] = stores[s]
      BY <1>1, <2>1, CommitShape
    <3>2. event.store # s \/ event.type = "store_note_added"
      BY <1>2, <2>1 DEF TypeOf
    <3>3. Tells(ledger', trail', s, N + 1) = Tells(ledger', trail', s, N)
      BY <1>1, <1>3, <3>2, TellsNext
    <3> QED
      BY <1>4, <1>5, <1>6, <3>1, <3>3
  <2>2. CASE s = t /\ call[r].op = "create"
    <3>1. event.type = "store_created" /\ event.after \in Store /\ stores'[s] = event.after
      BY <1>1, <1>2, <2>2, CommitShape, CallShape DEF TypeOf
    <3>2. event.store = s /\ N \in Nat /\ event = ledger'[trail'[N + 1]]
      BY <1>1, <1>2, <1>3, <2>2
    <3> HIDE DEF N, t, k
    <3>3. event.store = s /\ event.type = "store_created" /\ event.after \in Store =>
            Tells(ledger', trail', s, N + 1) = event.after.identity
      BY <3>2, TellsNext
    <3> QED
      BY <3>1, <3>2, <3>3
  <2>3. CASE s = t /\ call[r].op = "update"
    <3>1. /\ event.type \in Updates /\ event.after \in Patch /\ stores[s] # None
          /\ stores'[s].identity = Overlay(stores[s].identity, event.after)
      BY <1>1, <1>2, <2>3, CommitShape, CallShape DEF TypeOf, Updates
    <3>2. event.store = s /\ N \in Nat /\ event = ledger'[trail'[N + 1]]
      BY <1>1, <1>2, <1>3, <2>3
    <3>3. stores'[s].identity = Overlay(Tells(ledger', trail', s, N), event.after)
      BY <1>4, <1>5, <3>1
    <3> HIDE DEF N, t, k
    <3>4. Tells(ledger', trail', s, N + 1) = Overlay(Tells(ledger', trail', s, N), event.after)
      BY <3>1, <3>2, TellsNext
    <3> QED
      BY <3>3, <3>4
  <2> QED
    BY <1>1, <2>1, <2>2, <2>3, CallShape
<1>7. \A j \in Keys : ledger'[j] # None => stores'[ledger'[j].store] # None
  <2>1. stores'[t] # None
    BY <1>1, CommitShape
  <2>2. ASSUME NEW j \in Keys \ {k}, ledger[j] # None PROVE stores'[ledger[j].store] # None
    <3>1. ledger[j].store \in StoreIds /\ stores[ledger[j].store] # None
      BY <1>1, <2>2 DEF HistoryInv, StoresTold, Event
    <3> QED
      BY <3>1, CommitAppends
  <2> QED
    BY <1>2, <1>3, <2>1, <2>2
<1>8. Len(trail') = N + 1
  BY CommitAppends
<1> QED
  BY <1>6, <1>7, <1>8 DEF StoresTold

LEMMA CommitLists ==
  ASSUME HistoryInv, NEW r \in Requests, Commit(r)
  PROVE  TrailLists(ledger, trail)'
<1> DEFINE k == call[r].key
<1> DEFINE N == Len(trail)
<1>1. /\ k \in Keys /\ ledger \in [Keys -> Event \cup {None}] /\ N \in Nat
      /\ Len(trail') = N + 1 /\ trail'[N + 1] = k
      /\ \A i \in 1 .. N : trail[i] # k /\ trail'[i] = trail[i]
  BY CommitShape, CallShape, CommitAppends DEF HistoryInv, RegistryInv, TypeOK
<1>2. ledger'[k] # None /\ \A j \in Keys \ {k} : ledger'[j] = ledger[j]
  BY <1>1, CommitShape DEF HistoryInv
<1>3. /\ \A j \in Keys : ledger[j] # None <=> \E i \in 1 .. N : trail[i] = j
      /\ \A i, j \in 1 .. N : trail[i] = trail[j] => i = j
  BY DEF HistoryInv, TrailLists
<1> HIDE DEF k, N
<1>4. ASSUME NEW j \in Keys PROVE ledger'[j] # None <=> \E i \in 1 .. N + 1 : trail'[i] = j
  <2>1. CASE j = k
    <3>1. N + 1 \in 1 .. N + 1
      BY <1>1
    <3> QED
      BY <1>1, <1>2, <2>1, <3>1
  <2>2. CASE j # k
    <3>1. ledger'[j] # None <=> \E i \in 1 .. N : trail[i] = j
      BY <1>2, <1>3, <2>2
    <3>2. (\E i \in 1 .. N : trail[i] = j) <=> \E i \in 1 .. N : trail'[i] = j
      BY <1>1
    <3>3. \A i \in 1 .. N + 1 : i \in 1 .. N \/ i = N + 1
      BY <1>1
    <3>4. \A i \in 1 .. N : i \in 1 .. N + 1
      BY <1>1
    <3> QED
      BY <1>1, <2>2, <3>1, <3>2, <3>3, <3>4
  <2> QED
    BY <2>1, <2>2
<1>5. ASSUME NEW i \in 1 .. N + 1, NEW j \in 1 .. N + 1, trail'[i] = trail'[j] PROVE i = j
  <2>1. (i \in 1 .. N \/ i = N + 1) /\ (j \in 1 .. N \/ j = N + 1)
    BY <1>1
  <2> QED
    BY <1>1, <1>3, <1>5, <2>1
<1> QED
  BY <1>1, <1>4, <1>5 DEF TrailLists

\* A before_state that is recorded was read from the store as the trail told it.
LEMMA CommitBefores ==
  ASSUME HistoryInv, NEW r \in Requests, Commit(r)
  PROVE  BeforesTold(ledger, trail)'
<1> DEFINE k == call[r].key
<1> DEFINE t == target[r]
<1> DEFINE N == Len(trail)
<1> DEFINE event == [type |-> TypeOf(r), store |-> t, before |-> before[r], after |-> call[r].body]
<1>1. /\ RegistryInv /\ call[r] \in Call /\ k \in Keys /\ pc[r] = "commit" /\ N \in Nat
      /\ ledger \in [Keys -> Event \cup {None}] /\ trail \in Seq(Keys) /\ Reading(r)
  BY CommitShape, CallShape DEF HistoryInv, RegistryInv, TypeOK
<1>2. ledger' = [ledger EXCEPT ![k] = event]
  BY DEF Commit
<1>3. ledger'[k] = event /\ trail'[N + 1] = k /\ Len(trail') = N + 1
  BY <1>1, <1>2, CommitAppends
<1>4. ASSUME event.type \in Updates
      PROVE  \E n \in 0 .. N : \A f \in DOMAIN event.after :
               event.before[f] = Tells(ledger', trail', event.store, n)[f]
  <2>1. call[r].op = "update"
    BY <1>1, <1>4, CallShape DEF TypeOf, Updates
  <2>2. PICK n \in 0 .. N : \A f \in Given(r) :
               before[r][f] = Tells(ledger, trail, t, n)[f]
    BY <1>1, <2>1 DEF Reading
  <2>3. Tells(ledger', trail', t, n) = Tells(ledger, trail, t, n)
    BY CommitAppends
  <2>4. event.after = call[r].body /\ event.before = before[r] /\ event.store = t
    OBVIOUS
  <2> HIDE DEF event, t, k, N
  <2>5. \A f \in DOMAIN event.after :
          event.before[f] = Tells(ledger', trail', event.store, n)[f]
    BY <2>2, <2>3, <2>4 DEF Given
  <2> QED
    BY <2>5
<1> HIDE DEF event
<1>5. ASSUME NEW i \in 1 .. N, ledger'[trail'[i]].type \in Updates
      PROVE  \E n \in 0 .. i - 1 : \A f \in DOMAIN ledger'[trail'[i]].after :
               ledger'[trail'[i]].before[f] =
                 Tells(ledger', trail', ledger'[trail'[i]].store, n)[f]
  <2>1. ledger'[trail'[i]] = ledger[trail[i]]
    BY CommitAppends
  <2>2. PICK n \in 0 .. i - 1 : \A f \in DOMAIN ledger[trail[i]].after :
               ledger[trail[i]].before[f] = Tells(ledger, trail, ledger[trail[i]].store, n)[f]
    BY <1>5, <2>1 DEF HistoryInv, BeforesTold
  <2>3. n \in 0 .. N
    BY <1>1
  <2>4. Tells(ledger', trail', ledger[trail[i]].store, n) =
          Tells(ledger, trail, ledger[trail[i]].store, n)
    BY <2>3, CommitAppends
  <2> QED
    BY <2>1, <2>2, <2>4
<1>6. SUFFICES ASSUME NEW i \in 1 .. N + 1, ledger'[trail'[i]].type \in Updates
               PROVE  \E n \in 0 .. i - 1 : \A f \in DOMAIN ledger'[trail'[i]].after :
                        ledger'[trail'[i]].before[f] =
                          Tells(ledger', trail', ledger'[trail'[i]].store, n)[f]
  BY <1>3 DEF BeforesTold
<1>7. CASE i = N + 1
  <2>1. ledger'[trail'[i]] = event /\ i - 1 = N
    BY <1>1, <1>3, <1>7
  <2> QED
    BY <1>4, <1>6, <2>1
<1>8. CASE i # N + 1
  <2>1. i \in 1 .. N
    BY <1>1, <1>8
  <2> QED
    BY <1>5, <1>6, <2>1
<1> QED
  BY <1>7, <1>8

\* What a commit of r leaves true of another request.
LEMMA CommitOther ==
  ASSUME HistoryInv, NEW r \in Requests, Commit(r), NEW q \in Requests \ {r}
  PROVE  Reading(q)' /\ Told(q)' /\ (First(q)' <=> First(q))
<1> DEFINE k == call[r].key
<1> DEFINE N == Len(trail)
<1>1. /\ RegistryInv /\ k \in Keys /\ ledger \in [Keys -> Event \cup {None}] /\ N \in Nat
      /\ ledger[k] = None /\ call' = call /\ Standing(q) /\ Reading(q) /\ Told(q)
  BY CommitShape, CallShape DEF HistoryInv, RegistryInv, TypeOK
<1>2. /\ pc'[q] = pc[q] /\ target'[q] = target[q] /\ row'[q] = row[q]
      /\ before'[q] = before[q] /\ answer'[q] = answer[q]
  BY <1>1 DEF Commit, Reply, Goto, RegistryInv, TypeOK
<1>3. TypeOf(q)' = TypeOf(q) /\ Given(q)' = Given(q)
  BY <1>1 DEF TypeOf, Given
<1>4. \A j \in Keys : ledger[j] # None => ledger'[j] = ledger[j]
  BY <1>1, CommitShape
<1>5. Len(trail') = N + 1 /\ \A s, n : n \in 0 .. N =>
              n \in 0 .. N + 1 /\ Tells(ledger', trail', s, n) = Tells(ledger, trail, s, n)
  BY <1>1, CommitAppends
<1>6. pc[q] # "unsent" => call[q].key \in Keys
  BY <1>1, CallShape DEF Standing
<1>7. pc[q] = "reread" => (IsReplay(q)' <=> IsReplay(q))
  BY <1>1, <1>3, <1>4, <1>6 DEF IsReplay, Standing
<1>8. pc[q] = "write" => \E n \in 0 .. Len(trail') :
        row'[q].identity = Tells(ledger', trail', target'[q], n)
  <2> SUFFICES ASSUME pc[q] = "write"
               PROVE  \E n \in 0 .. Len(trail') :
                        row'[q].identity = Tells(ledger', trail', target'[q], n)
    OBVIOUS
  <2>1. PICK n \in 0 .. N : row[q].identity = Tells(ledger, trail, target[q], n)
    BY <1>1 DEF Reading
  <2> QED
    BY <1>2, <1>5, <2>1
<1>9. pc[q] \in {"record", "commit"} /\ call[q].op = "update" => \E n \in 0 .. Len(trail') :
        \A f \in Given(q) : before'[q][f] = Tells(ledger', trail', target'[q], n)[f]
  <2> SUFFICES ASSUME pc[q] \in {"record", "commit"}, call[q].op = "update"
               PROVE  \E n \in 0 .. Len(trail') :
                        \A f \in Given(q) : before'[q][f] = Tells(ledger', trail', target'[q], n)[f]
    OBVIOUS
  <2>1. PICK n \in 0 .. N : \A f \in Given(q) :
                 before[q][f] = Tells(ledger, trail, target[q], n)[f]
    BY <1>1 DEF Reading
  <2>2. n \in 0 .. Len(trail')
    BY <1>5, <2>1
  <2>3. Tells(ledger', trail', target'[q], n) = Tells(ledger, trail, target[q], n)
    BY <1>2, <1>5, <2>1
  <2> QED
    BY <1>2, <2>1, <2>2, <2>3
<1>10. Reading(q)'
  BY <1>1, <1>2, <1>3, <1>7, <1>8, <1>9 DEF Reading
<1>11. Told(q)'
  <2> DEFINE a == answer[q]
  <2> DEFINE c == call[q]
  <2> SUFFICES ASSUME a.kind = "done" PROVE Told(q)'
    BY <1>2 DEF Told
  <2>1. /\ a.store \in StoreIds /\ stores[a.store] # None
        /\ \/ FoundInLedger(a, c, TypeOf(q), stores, ledger, trail)
           \/ FoundNothingToDo(a, c, stores, ledger, trail)
    BY <1>1 DEF Told
  <2>2. /\ stores'[a.store] # None /\ stores'[a.store].key = stores[a.store].key
        /\ \A i \in 1 .. N : trail'[i] = trail[i] /\ ledger'[trail[i]] = ledger[trail[i]]
    BY <2>1, CommitAppends
  <2>3. ledger[c.key] # None => ledger'[c.key] = ledger[c.key]
    <3>1. pc[q] # "unsent"
      BY <1>1 DEF Reading
    <3> QED
      BY <1>4, <1>6, <3>1
  <2>4. /\ answer'[q] = a /\ call'[q] = c /\ TypeOf(q)' = TypeOf(q)
        /\ Len(trail) \in Nat /\ Len(trail') = Len(trail) + 1
        /\ \A i \in 1 .. Len(trail) : trail'[i] = trail[i] /\ ledger'[trail[i]] = ledger[trail[i]]
    BY <1>1, <1>2, <1>3, <1>5, <2>2
  <2> HIDE DEF a, c
  <2>5. \/ FoundInLedger(a, c, TypeOf(q), stores', ledger', trail')
        \/ FoundNothingToDo(a, c, stores', ledger', trail')
    BY <2>1, <2>2, <2>3, <2>4, FoundStays
  <2> QED
    BY <2>1, <2>2, <2>4, <2>5 DEF Told
<1>12. First(q)' <=> First(q)
  BY <1>1, <1>2, <1>3 DEF First
<1> QED
  BY <1>10, <1>11, <1>12

\* What r itself is told when it has committed: the store as its own event left it.
LEMMA CommitOwn ==
  ASSUME HistoryInv, RegistryInv', NEW r \in Requests, Commit(r)
  PROVE  Reading(r)' /\ Told(r)'
<1> DEFINE k == call[r].key
<1> DEFINE t == target[r]
<1> DEFINE N == Len(trail)
<1> DEFINE shown == IF call[r].op = "note" THEN None ELSE row[r]
<1> DEFINE a == Done(t, FALSE, shown)
<1>1. /\ RegistryInv /\ call[r] \in Call /\ k \in Keys /\ ledger \in [Keys -> Event \cup {None}]
      /\ N \in Nat /\ ledger[k] = None /\ call' = call /\ Standing(r) /\ Reading(r)
      /\ pc[r] = "commit" /\ t \in StoreIds
  BY CommitShape, CallShape DEF HistoryInv, RegistryInv, TypeOK
<1>2. PICK event \in Event :
        /\ event # None /\ event.type = TypeOf(r) /\ event.store = t
        /\ event.after = call[r].body /\ ledger' = [ledger EXCEPT ![k] = event]
  BY <1>1, CommitShape
<1>3. ledger'[k] = event /\ trail'[N + 1] = k /\ Len(trail') = N + 1 /\ N + 1 \in 1 .. Len(trail')
  BY <1>1, <1>2, CommitAppends
<1>4. pc'[r] = "replying" /\ answer'[r] = a
  BY <1>1 DEF Commit, Reply, Goto, RegistryInv, TypeOK
<1>5. a.kind = "done" /\ a.store = t /\ a.replayed = FALSE /\ a.shown = shown
  BY DEF Done
<1>6. stores'[t] # None /\ stores'[t] \in Store /\ (call[r].op # "note" => stores'[t] = row[r])
  <2>1. stores' \in [StoreIds -> Store \cup {None}] /\ stores'[t] # None
    BY <1>1, CommitShape
  <2>2. call[r].op # "note" => stores'[t] = row[r]
    BY <1>1 DEF Commit, RegistryInv, TypeOK
  <2> QED
    BY <1>1, <2>1, <2>2
<1>7. stores'[t].identity = Tells(ledger', trail', t, N + 1)
  BY <1>1, <1>3, <1>6, CommitTold DEF StoresTold
<1>8. t \in call[r].by.scope /\ (call[r].op # "create" => t = call[r].store)
  BY <1>1 DEF Reading, Standing
<1>9. TypeOf(r)' = TypeOf(r)
  BY <1>1 DEF TypeOf
<1>10. shown # None => shown = [key |-> stores'[t].key, identity |-> Tells(ledger', trail', t, N + 1)]
  <2>1. stores'[t] = [key |-> stores'[t].key, identity |-> stores'[t].identity]
    BY <1>6 DEF Store
  <2>2. shown # None => shown = stores'[t]
    BY <1>6
  <2> QED
    BY <1>7, <2>1, <2>2
<1>11. call[r].op # "note" => shown # None
  BY <1>6
<1> HIDE DEF a, shown, t, N
<1>12. Shows(a, stores', ledger', trail', N + 1)
  BY <1>5, <1>10 DEF Shows
<1>13. FoundInLedger(a, call[r], TypeOf(r), stores', ledger', trail')
  BY <1>2, <1>3, <1>5, <1>8, <1>11, <1>12 DEF FoundInLedger
<1>14. Told(r)'
  BY <1>1, <1>4, <1>5, <1>6, <1>9, <1>13 DEF Told
<1> QED
  BY <1>4, <1>14 DEF Reading

LEMMA CommitHistory ==
  ASSUME HistoryInv, RegistryInv', NEW r \in Requests, Commit(r)
  PROVE  HistoryInv'
<1>1. TrailLists(ledger, trail)' /\ StoresTold(stores, ledger, trail)' /\ BeforesTold(ledger, trail)'
  BY CommitLists, CommitTold, CommitBefores
<1>2. \A q \in Requests : Reading(q)' /\ Told(q)'
  BY CommitOther, CommitOwn
<1>3. ASSUME NEW q \in Requests \ {r}, First(q)', call'[q].key = call'[r].key PROVE FALSE
  <2>1. First(q) /\ Told(q) /\ call' = call /\ ledger[call[r].key] = None
    BY <1>3, CommitOther, CommitShape DEF HistoryInv
  <2>2. ~FoundNothingToDo(answer[q], call[q], stores, ledger, trail)
    BY <2>1 DEF First, FoundNothingToDo, Given
  <2>3. ledger[call[q].key] # None
    BY <2>1, <2>2 DEF Told, First, FoundInLedger
  <2> QED
    BY <1>3, <2>1, <2>3
<1>4. \A p, q \in Requests : First(p)' /\ First(q)' /\ call'[p].key = call'[q].key => p = q
  <2> SUFFICES ASSUME NEW p \in Requests, NEW q \in Requests, First(p)', First(q)',
                      call'[p].key = call'[q].key, p # q
               PROVE  FALSE
    OBVIOUS
  <2>1. CASE p = r
    BY <1>3, <2>1
  <2>2. CASE q = r
    BY <1>3, <2>2
  <2>3. CASE p # r /\ q # r
    <3>1. First(p) /\ First(q) /\ call' = call
      BY <2>3, CommitOther, CommitShape DEF HistoryInv
    <3> QED
      BY <3>1 DEF HistoryInv
  <2> QED
    BY <2>1, <2>2, <2>3
<1> QED
  BY <1>1, <1>2, <1>4 DEF HistoryInv

--------------------------------------------------------------------------------
(* The history of every store *)

LEMMA SendHistory ==
  ASSUME HistoryInv, RegistryInv', NEW r \in Requests, NEW c \in Calls, Send(r, c)
  PROVE  HistoryInv'
<1>1. /\ pc[r] = "unsent" /\ pc'[r] = "opened" /\ answer' = answer
      /\ UNCHANGED <<stores, ledger, trail, target, row, before>>
      /\ \A q \in Requests \ {r} : pc'[q] = pc[q] /\ call'[q] = call[q]
  BY DEF Send, Goto, HistoryInv, RegistryInv, TypeOK, tables
<1>2. answer[r].kind # "done"
  BY <1>1 DEF HistoryInv, Reading
<1>3. Reading(r)' /\ Told(r)' /\ ~First(r)'
  BY <1>1, <1>2 DEF Reading, Told, First
<1>4. ASSUME NEW q \in Requests \ {r} PROVE Reading(q)' /\ Told(q)' /\ (First(q)' <=> First(q))
  <2>1. /\ pc'[q] = pc[q] /\ target'[q] = target[q] /\ row'[q] = row[q]
        /\ before'[q] = before[q] /\ answer'[q] = answer[q] /\ call'[q] = call[q]
        /\ stores' = stores /\ ledger' = ledger /\ trail' = trail
    BY <1>1
  <2>2. Reading(q) /\ Told(q)
    BY DEF HistoryInv
  <2>3. TypeOf(q)' = TypeOf(q) /\ Given(q)' = Given(q)
    BY <2>1 DEF TypeOf, Given
  <2>4. IsReplay(q)' <=> IsReplay(q)
    BY <2>1, <2>3 DEF IsReplay
  <2>5. Reading(q)'
    BY <2>1, <2>2, <2>3, <2>4 DEF Reading
  <2>6. Told(q)'
    BY <2>1, <2>2, <2>3, Zenon DEF Told
  <2>7. First(q)' <=> First(q)
    BY <2>1, <2>3 DEF First
  <2> QED
    BY <2>5, <2>6, <2>7
<1>5. TrailLists(ledger, trail)' /\ StoresTold(stores, ledger, trail)' /\ BeforesTold(ledger, trail)'
  BY <1>1 DEF HistoryInv
<1>6. \A p, q \in Requests : First(p)' /\ First(q)' /\ call'[p].key = call'[q].key => p = q
  BY <1>1, <1>3, <1>4 DEF HistoryInv
<1> QED
  BY <1>3, <1>4, <1>5, <1>6 DEF HistoryInv

LEMMA StutterHistory ==
  ASSUME HistoryInv, RegistryInv', UNCHANGED vars
  PROVE  HistoryInv'
<1>1. UNCHANGED <<stores, ledger, trail, pc, call, target, row, before, answer>>
  BY DEF vars, tables
<1>2. ASSUME NEW q \in Requests PROVE Reading(q)' /\ Told(q)' /\ (First(q)' <=> First(q))
  <2>1. Reading(q) /\ Told(q)
    BY DEF HistoryInv
  <2>2. TypeOf(q)' = TypeOf(q) /\ Given(q)' = Given(q) /\ (IsReplay(q)' <=> IsReplay(q))
    BY <1>1 DEF TypeOf, Given, IsReplay
  <2>3. Reading(q)' /\ (First(q)' <=> First(q))
    BY <1>1, <2>1, <2>2 DEF Reading, First
  <2>4. Told(q)'
    BY <1>1, <2>1, <2>2, Zenon DEF Told
  <2> QED
    BY <2>3, <2>4
<1>3. \A p, q \in Requests : First(p)' /\ First(q)' /\ call'[p].key = call'[q].key => p = q
  BY <1>1, <1>2 DEF HistoryInv
<1> QED
  BY <1>1, <1>2, <1>3 DEF HistoryInv

LEMMA HistoryInductive == Spec => []HistoryInv
<1>1. HistoryInv /\ RegistryInv' /\ [Next]_vars => HistoryInv'
  <2> SUFFICES ASSUME HistoryInv, RegistryInv', [Next]_vars PROVE HistoryInv'
    OBVIOUS
  <2>1. CASE \E r \in Requests, c \in Calls : Send(r, c)
    BY <2>1, SendHistory
  <2>2. ASSUME NEW r \in Requests, Serve(r) \/ Cut(r) PROVE HistoryInv'
    BY <2>2, OwnHistory, CommitHistory
  <2>3. CASE UNCHANGED vars
    BY <2>3, StutterHistory
  <2> QED
    BY <2>1, <2>2, <2>3 DEF Next
<1> QED
  BY <1>1, InitHistory, RegistryInductive, PTL DEF Spec

\* The before_state of an update is what its store was at some moment before, in
\* all its columns together, whatever patches overlap.
THEOREM BeforesAreReal == Spec => []BeforeWasReal
<1>1. HistoryInv => BeforeWasReal
  <2> SUFFICES ASSUME HistoryInv, NEW i \in DOMAIN trail, EventAt(i).type \in Updates
               PROVE  \E n \in 0 .. i - 1 : \A f \in DOMAIN EventAt(i).after :
                        EventAt(i).before[f] = IdentityAfter(EventAt(i).store, n)[f]
    BY DEF BeforeWasReal
  <2>1. i \in 1 .. Len(trail) /\ EventAt(i) = ledger[trail[i]]
    BY DEF HistoryInv, RegistryInv, TypeOK, EventAt
  <2>2. PICK n \in 0 .. i - 1 : \A f \in DOMAIN ledger[trail[i]].after :
          ledger[trail[i]].before[f] = Tells(ledger, trail, ledger[trail[i]].store, n)[f]
    BY <2>1 DEF HistoryInv, BeforesTold
  <2>3. IdentityAfter(EventAt(i).store, n) = Tells(ledger, trail, ledger[trail[i]].store, n)
    BY <2>1, IdentityTold
  <2> QED
    BY <2>1, <2>2, <2>3
<1> QED
  BY <1>1, HistoryInductive, PTL

\* An operation_id that is on the trail is at one position of it.
LEMMA PositionOf ==
  ASSUME HistoryInv, NEW p \in 1 .. Len(trail)
  PROVE  Position(trail[p]) = p
<1>1. DOMAIN trail = 1 .. Len(trail)
  BY DEF HistoryInv, RegistryInv, TypeOK
<1>2. \A i \in 1 .. Len(trail) : trail[i] = trail[p] => i = p
  BY DEF HistoryInv, TrailLists
<1> QED
  BY <1>1, <1>2 DEF Position

\* Whoever is told that a store was created, changed or annotated finds the event
\* under its key and is shown a state no older than its own write; one caller of a
\* key at most is told it was first.
THEOREM StoreAnswersAgree == Spec => []AnswersMatchLedger
<1>1. HistoryInv => AnswersMatchLedger
  <2> SUFFICES ASSUME HistoryInv, NEW r \in Requests, answer[r].kind = "done"
               PROVE  LET shown == answer[r].shown
                          ShowsAt(n) == shown # None =>
                            shown = [key |-> stores[answer[r].store].key,
                                     identity |-> IdentityAfter(answer[r].store, n)]
                      IN  \/ /\ ledger[call[r].key] # None
                             /\ ledger[call[r].key].type = TypeOf(r)
                             /\ ledger[call[r].key].store = answer[r].store
                             /\ answer[r].store \in call[r].by.scope
                             /\ call[r].op # "create" => answer[r].store = call[r].store
                             /\ call[r].op # "note" => shown # None
                             /\ IF answer[r].replayed
                                THEN \E n \in Position(call[r].key) .. Len(trail) : ShowsAt(n)
                                ELSE /\ ShowsAt(Position(call[r].key))
                                     /\ ledger[call[r].key].after = call[r].body
                                     /\ \A q \in Requests :
                                          answer[q].kind = "done" /\ ~answer[q].replayed
                                            /\ call[q].key = call[r].key
                                            /\ (call[q].op = "update" => Given(q) # {}) => q = r
                          \/ /\ call[r].op = "update" /\ Given(r) = {} /\ ~answer[r].replayed
                             /\ \E n \in 0 .. Len(trail) : ShowsAt(n)
    BY DEF AnswersMatchLedger
  <2> DEFINE a == answer[r]
  <2> DEFINE ShowsAt(n) == a.shown # None =>
               a.shown = [key |-> stores[a.store].key, identity |-> IdentityAfter(a.store, n)]
  <2>1. \A n : ShowsAt(n) <=> Shows(a, stores, ledger, trail, n)
    BY IdentityTold DEF Shows
  <2>2. CASE FoundNothingToDo(a, call[r], stores, ledger, trail)
    <3>1. /\ call[r].op = "update" /\ Given(r) = {} /\ ~a.replayed
          /\ \E n \in 0 .. Len(trail) : ShowsAt(n)
      BY <2>1, <2>2 DEF FoundNothingToDo, Given
    <3> QED
      BY <3>1
  <2>3. CASE FoundInLedger(a, call[r], TypeOf(r), stores, ledger, trail)
    <3>1. /\ ledger[call[r].key] # None /\ ledger[call[r].key].type = TypeOf(r)
          /\ ledger[call[r].key].store = a.store /\ a.store \in call[r].by.scope
          /\ call[r].op # "create" => a.store = call[r].store
          /\ call[r].op # "note" => a.shown # None
      BY <2>3 DEF FoundInLedger
    <3>2. PICK p \in 1 .. Len(trail) :
            /\ trail[p] = call[r].key
            /\ IF a.replayed THEN \E n \in p .. Len(trail) : Shows(a, stores, ledger, trail, n)
               ELSE Shows(a, stores, ledger, trail, p) /\ ledger[call[r].key].after = call[r].body
      BY <2>3, Zenon DEF FoundInLedger
    <3>3. Position(call[r].key) = p
      BY <3>2, PositionOf
    <3>4. CASE a.replayed
      <4>1. \E n \in Position(call[r].key) .. Len(trail) : ShowsAt(n)
        BY <2>1, <3>2, <3>3, <3>4
      <4> QED
        BY <3>1, <3>4, <4>1
    <3>5. CASE ~a.replayed /\ ~(call[r].op = "update" /\ Given(r) = {})
      <4>1. ShowsAt(Position(call[r].key)) /\ ledger[call[r].key].after = call[r].body
        BY <2>1, <3>2, <3>3, <3>5
      <4>2. ASSUME NEW q \in Requests, answer[q].kind = "done", ~answer[q].replayed,
                   call[q].key = call[r].key, call[q].op = "update" => Given(q) # {}
            PROVE  q = r
        <5>1. First(q) /\ First(r)
          BY <3>5, <4>2 DEF First
        <5> QED
          BY <4>2, <5>1 DEF HistoryInv
      <4> QED
        BY <3>1, <3>5, <4>1, <4>2
    <3>6. CASE ~a.replayed /\ call[r].op = "update" /\ Given(r) = {}
      <4>1. ShowsAt(p) /\ p \in 0 .. Len(trail)
        BY <2>1, <3>2, <3>6
      <4> QED
        BY <3>6, <4>1
    <3> QED
      BY <3>4, <3>5, <3>6
  <2>4. \/ FoundInLedger(a, call[r], TypeOf(r), stores, ledger, trail)
        \/ FoundNothingToDo(a, call[r], stores, ledger, trail)
    BY DEF HistoryInv, Told
  <2> QED
    BY <2>2, <2>3, <2>4
<1> QED
  BY <1>1, HistoryInductive, PTL

--------------------------------------------------------------------------------
(* The registry carries each request out in one step *)

\* What the statement r has reached says of what it may still be told: nothing was
\* told yet, its role allows it, there is something to write, and a replay is of a
\* store that is there and in scope.
Due(r) ==
  /\ pc[r] = "unsent" <=> call[r] = None
  /\ pc[r] \notin {"replying", "answered", "lost"} => answer[r] = Refuse("none")
  /\ pc[r] \in {"lookup", "insert", "read", "write", "record", "reread", "commit"} => Permitted(r)
  /\ pc[r] \in {"write", "record", "reread", "commit"} /\ call[r].op = "update" => Given(r) # {}
  /\ pc[r] = "reread" /\ call[r].op # "create" =>
       call[r].store \in call[r].by.scope /\ stores[call[r].store] # None

BookInv == HistoryInv /\ \A r \in Requests : Due(r)

\* The book's words for what the registry says of a request.
LEMMA BookWords ==
  ASSUME NEW r \in Requests, call[r] \in Call
  PROVE  /\ Book!Allowed(call[r]) <=> Permitted(r)
         /\ Book!Kind(call[r]) = TypeOf(r)
         /\ Book!NothingToDo(call[r]) <=> call[r].op = "update" /\ Given(r) = {}
         /\ Book!Reached(call[r]) <=>
              (call[r].op # "create" =>
                 call[r].store \in call[r].by.scope /\ stores[call[r].store] # None)
<1>1. call[r].op \in {"create", "update", "note"}
  BY CallShape
<1>2. call[r].by.role \in {"owner", "admin", "manager"}
  BY DEF Call, Caller
<1>3. Book!Allowed(call[r]) <=> Permitted(r)
  <2>1. CASE call[r].op = "create"
    BY <2>1 DEF Book!Allowed, Permitted, CanCreateStore
  <2>2. CASE call[r].op = "update"
    BY <1>2, <2>2 DEF Book!Allowed, Permitted, Given, CanChangeStoreSettings, CanChangeManagedFrom
  <2>3. CASE call[r].op = "note"
    BY <2>3 DEF Book!Allowed, Permitted
  <2> QED
    BY <1>1, <2>1, <2>2, <2>3
<1>4. Book!Kind(call[r]) = TypeOf(r)
  BY <1>1 DEF Book!Kind, TypeOf, Given
<1>5. Book!NothingToDo(call[r]) <=> call[r].op = "update" /\ Given(r) = {}
  BY DEF Book!NothingToDo, Given
<1> QED
  BY <1>3, <1>4, <1>5 DEF Book!Reached

\* A spent key repeats in the book when it is a replay here.
LEMMA BookRepeats ==
  ASSUME RegistryInv, NEW r \in Requests, call[r] \in Call, ledger[call[r].key] # None
  PROVE  /\ Recorded[call[r].key] # Book!Unspent
         /\ Recorded[call[r].key].store = ledger[call[r].key].store
         /\ Book!Repeats(call[r]) <=> IsReplay(r)
<1>1. call[r].key \in Keys
  BY CallShape
<1>2. Recorded[call[r].key] = [kind |-> ledger[call[r].key].type,
                               store |-> ledger[call[r].key].store,
                               content |-> ledger[call[r].key].after]
  BY <1>1 DEF Recorded
<1> HIDE DEF Recorded
<1>3. Book!Repeats(call[r]) <=> IsReplay(r)
  BY <1>2, BookWords DEF Book!Repeats, IsReplay
<1>4. Recorded[call[r].key] # Book!Unspent
  <2>1. ledger[call[r].key].type \in EventType
    BY <1>1 DEF RegistryInv, TypeOK, Event
  <2> QED
    BY <1>2, <2>1 DEF Book!Unspent, EventType
<1> QED
  BY <1>2, <1>3, <1>4

LEMMA BookUnspent ==
  ASSUME NEW k \in Keys, ledger[k] = None
  PROVE  Recorded[k] = Book!Unspent
BY DEF Recorded, Book!Unspent

\* Refusals and successes are the same on both sides.
LEMMA BookAnswers ==
  /\ Book!Nothing = Refuse("none")
  /\ \A kind : Book!Refusal(kind) = Refuse(kind)
  /\ \A s, replayed, shown : Book!Success(s, replayed, shown) = Done(s, replayed, shown)
<1>1. \A kind : Book!Refusal(kind) = Refuse(kind)
  BY Zenon DEF Book!Refusal, Refuse
<1>2. \A s, replayed, shown : Book!Success(s, replayed, shown) = Done(s, replayed, shown)
  BY Zenon DEF Book!Success, Done
<1> QED
  BY <1>1, <1>2 DEF Book!Nothing

LEMMA BookWaits ==
  ASSUME BookInv, NEW r \in Requests, pc[r] \notin {"unsent", "replying", "answered", "lost"}
  PROVE  Book!Waiting(r) /\ call[r] \in Call
<1>1. Due(r) /\ pc[r] # "unsent" /\ call[r] \in Call
  BY DEF BookInv, HistoryInv, RegistryInv, Standing
<1>2. call[r] # None /\ answer[r] = Refuse("none")
  BY <1>1 DEF Due
<1>3. ToldTo[r] = Refuse("none")
  BY <1>2 DEF ToldTo
<1> QED
  BY <1>1, <1>2, <1>3, BookAnswers DEF Book!Waiting

\* What the caller of r is told changes with its answer.
LEMMA BookTold ==
  ASSUME BookInv, NEW r \in Requests, NEW a, Reply(r, a)
  PROVE  /\ pc'[r] = "replying" /\ answer'[r] = a
         /\ ToldTo' = [ToldTo EXCEPT ![r] = a]
<1>1. /\ pc \in [Requests -> Labels] /\ answer \in [Requests -> Answer]
      /\ pc' = [pc EXCEPT ![r] = "replying"] /\ answer' = [answer EXCEPT ![r] = a]
  BY DEF BookInv, HistoryInv, RegistryInv, TypeOK, Reply, Goto
<1>2. /\ pc'[r] = "replying" /\ answer'[r] = a
      /\ \A q \in Requests \ {r} : pc'[q] = pc[q] /\ answer'[q] = answer[q]
  BY <1>1
<1> QED
  BY <1>2 DEF ToldTo

LEMMA BookSilent ==
  ASSUME BookInv, NEW r \in Requests, NEW l, Goto(r, l), l # "lost", pc[r] # "lost", answer' = answer
  PROVE  ToldTo' = ToldTo /\ pc'[r] = l
<1>1. pc \in [Requests -> Labels] /\ pc' = [pc EXCEPT ![r] = l]
  BY DEF BookInv, HistoryInv, RegistryInv, TypeOK, Goto
<1>2. pc'[r] = l /\ \A q \in Requests \ {r} : pc'[q] = pc[q]
  BY <1>1
<1> QED
  BY <1>2 DEF ToldTo

\* One step of the book, or none.
BookMoves == Book!Next \/ UNCHANGED Book!bookVars

LEMMA BookStays ==
  ASSUME UNCHANGED <<stores, ledger, call>>, ToldTo' = ToldTo
  PROVE  BookMoves
<1>1. Recorded' = Recorded
  BY DEF Recorded
<1> QED
  BY <1>1 DEF BookMoves, Book!bookVars

\* A request that is told no.
LEMMA BookSaysNo ==
  ASSUME BookInv, NEW r \in Requests, pc[r] \notin {"unsent", "replying", "answered", "lost"},
         NEW kind, Reply(r, Refuse(kind)), UNCHANGED <<tables, call>>,
         \/ kind = "forbidden" /\ ~Book!Allowed(call[r])
         \/ kind = "out_of_scope" /\ Book!Allowed(call[r]) /\ ~Book!Reached(call[r])
         \/ /\ kind = "conflict" /\ Book!Allowed(call[r]) /\ Book!Reached(call[r])
            /\ ~Book!NothingToDo(call[r]) /\ Recorded[call[r].key] # Book!Unspent
            /\ ~Book!Repeats(call[r])
         \/ /\ kind = "duplicate_store_key" /\ Book!Allowed(call[r]) /\ call[r].op = "create"
            /\ Book!StoreKeyUsed(call[r].body.key)
  PROVE  BookMoves /\ Due(r)'
<1>1. /\ pc'[r] = "replying" /\ ToldTo' = [ToldTo EXCEPT ![r] = Book!Refusal(kind)]
  BY BookTold, BookAnswers
<1>2. Book!Refuse(r, kind)
  <2>1. Recorded' = Recorded
    BY DEF Recorded, tables
  <2> QED
    BY <1>1, <2>1 DEF Book!Refuse, tables
<1>3. Book!SayNo(r)
  BY <1>2, BookWaits DEF Book!SayNo
<1>4. Due(r)'
  BY <1>1 DEF Due, BookInv, tables
<1> QED
  BY <1>3, <1>4 DEF BookMoves, Book!Next

\* A request that finds its operation_id spent: it is no repetition, or its note is
\* answered, or it goes on to read its store.
LEMMA BookReplays ==
  ASSUME BookInv, NEW r \in Requests, ReplayOrConflict(r), UNCHANGED <<tables, call>>,
         ledger[call[r].key] # None, pc[r] \in {"lookup", "record"},
         pc[r] = "lookup" => call[r].op = "create"
  PROVE  BookMoves /\ Due(r)'
<1>1. /\ call[r] \in Call /\ Book!Waiting(r) /\ Permitted(r) /\ RegistryInv /\ call[r] # None
      /\ Due(r) /\ Reading(r) /\ Standing(r)
  BY BookWaits DEF BookInv, Due, HistoryInv, RegistryInv
<1>2. call[r].op # "create" => call[r].store \in call[r].by.scope /\ stores[call[r].store] # None
  BY <1>1 DEF Reading, Standing
<1>3. call[r].op = "update" => Given(r) # {}
  BY <1>1 DEF Due
<1>4. Book!Allowed(call[r]) /\ Book!Reached(call[r]) /\ ~Book!NothingToDo(call[r])
  BY <1>1, <1>2, <1>3, BookWords
<1>5. /\ Recorded[call[r].key] # Book!Unspent
      /\ Recorded[call[r].key].store = ledger[call[r].key].store
      /\ Book!Repeats(call[r]) <=> IsReplay(r)
  BY <1>1, BookRepeats
<1>6. CASE ~IsReplay(r)
  BY <1>1, <1>4, <1>5, <1>6, BookSaysNo DEF ReplayOrConflict
<1>7. CASE IsReplay(r) /\ call[r].op = "note"
  <2>1. /\ pc'[r] = "replying"
        /\ ToldTo' = [ToldTo EXCEPT ![r] = Book!Success(call[r].store, TRUE, None)]
    BY <1>7, BookTold, BookAnswers DEF ReplayOrConflict
  <2>2. Recorded[call[r].key].store = call[r].store
    BY <1>5, <1>7 DEF IsReplay
  <2>3. Recorded' = Recorded
    BY DEF Recorded, tables
  <2>4. Book!Repeat(r)
    BY <1>1, <1>2, <1>4, <1>5, <1>7, <2>1, <2>2, <2>3 DEF Book!Repeat, Book!Succeed, tables
  <2>5. Due(r)'
    BY <1>1, <2>1 DEF Due
  <2> QED
    BY <2>4, <2>5 DEF BookMoves, Book!Next
<1>8. CASE IsReplay(r) /\ call[r].op # "note"
  <2>1. ToldTo' = ToldTo /\ pc'[r] = "reread" /\ answer' = answer
    BY <1>8, BookSilent DEF ReplayOrConflict
  <2>2. Due(r)'
    <3>1. Permitted(r)' <=> Permitted(r)
      BY DEF Permitted, Given
    <3>2. Given(r)' = Given(r)
      BY DEF Given
    <3> QED
      BY <1>1, <1>2, <1>3, <2>1, <3>1, <3>2 DEF Due, tables
  <2> QED
    BY <2>1, <2>2, BookStays DEF tables
<1> QED
  BY <1>6, <1>7, <1>8

\* Before anything is read or written a request is turned away, or goes on.
LEMMA BookOpens ==
  ASSUME BookInv, NEW r \in Requests, Authorize(r) \/ FindByOperation(r)
  PROVE  BookMoves /\ Due(r)'
<1>1. /\ pc[r] \in {"opened", "lookup"} /\ call[r] \in Call /\ Due(r) /\ Standing(r)
      /\ UNCHANGED <<tables, call>>
  BY BookWaits DEF Authorize, FindByOperation, BookInv, HistoryInv, RegistryInv
<1>2. (Permitted(r)' <=> Permitted(r)) /\ Given(r)' = Given(r)
  BY <1>1 DEF Permitted, Given
<1>3. CASE Authorize(r) /\ ~Permitted(r)
  BY <1>1, <1>3, BookSaysNo, BookWords DEF Authorize
<1>4. CASE Authorize(r) /\ Permitted(r)
  <2>1. PICK l \in {"lookup", "read"} : Goto(r, l)
    BY <1>4 DEF Authorize
  <2>2. answer' = answer
    BY <1>4 DEF Authorize
  <2>3. ToldTo' = ToldTo /\ pc'[r] = l
    BY <1>1, <2>1, <2>2, BookSilent
  <2>4. Due(r)'
    BY <1>1, <1>2, <1>4, <2>2, <2>3 DEF Due, tables
  <2> QED
    BY <1>1, <2>3, <2>4, BookStays DEF tables
<1>5. CASE FindByOperation(r) /\ ledger[call[r].key] # None
  <2>1. pc[r] = "lookup" /\ call[r].op = "create" /\ ReplayOrConflict(r)
    BY <1>1, <1>5 DEF FindByOperation, Standing
  <2> QED
    BY <1>1, <1>5, <2>1, BookReplays
<1>6. CASE FindByOperation(r) /\ ledger[call[r].key] = None
  <2>1. Goto(r, "insert") /\ answer' = answer /\ pc[r] = "lookup"
    BY <1>6 DEF FindByOperation
  <2>2. ToldTo' = ToldTo /\ pc'[r] = "insert"
    BY <1>1, <2>1, BookSilent
  <2>3. Due(r)'
    BY <1>1, <1>2, <2>1, <2>2 DEF Due, tables
  <2> QED
    BY <1>1, <2>2, <2>3, BookStays DEF tables
<1> QED
  BY <1>3, <1>4, <1>5, <1>6

\* A store is not found, or an empty patch is answered from it, or it is read.
LEMMA BookReads ==
  ASSUME BookInv, NEW r \in Requests, GetStore(r)
  PROVE  BookMoves /\ Due(r)'
<1> DEFINE s == call[r].store
<1>1. /\ pc[r] = "read" /\ call[r] \in Call /\ Due(r) /\ Standing(r) /\ Book!Waiting(r)
      /\ UNCHANGED <<tables, call>> /\ call[r].op \in {"update", "note"} /\ Permitted(r)
  BY BookWaits DEF GetStore, BookInv, HistoryInv, RegistryInv, Standing, Due
<1>2. Book!Allowed(call[r])
  BY <1>1, BookWords
<1>3. CASE s \notin call[r].by.scope \/ stores[s] = None
  <2>1. ~Book!Reached(call[r]) /\ Reply(r, Refuse("out_of_scope"))
    BY <1>1, <1>3, BookWords DEF GetStore
  <2> QED
    BY <1>1, <1>2, <2>1, BookSaysNo
<1>4. CASE s \in call[r].by.scope /\ stores[s] # None /\ call[r].op = "update" /\ Given(r) = {}
  <2>1. Reply(r, Done(s, FALSE, stores[s]))
    BY <1>4 DEF GetStore
  <2>2. pc'[r] = "replying" /\ ToldTo' = [ToldTo EXCEPT ![r] = Book!Success(s, FALSE, stores[s])]
    BY <2>1, BookTold, BookAnswers
  <2>3. Recorded' = Recorded
    BY <1>1 DEF Recorded, tables
  <2>4. Book!NothingToDo(call[r]) /\ Book!Reached(call[r])
    BY <1>1, <1>4, BookWords
  <2>5. Book!Look(r)
    BY <1>1, <1>2, <2>2, <2>3, <2>4 DEF Book!Look, Book!Succeed, tables
  <2>6. Due(r)'
    BY <1>1, <2>2 DEF Due
  <2> QED
    BY <2>5, <2>6 DEF BookMoves, Book!Next
<1>5. CASE /\ s \in call[r].by.scope /\ stores[s] # None
           /\ ~(call[r].op = "update" /\ Given(r) = {})
  <2>1. PICK l \in {"write", "record"} : Goto(r, l)
    BY <1>5 DEF GetStore
  <2>2. answer' = answer
    BY <1>5 DEF GetStore
  <2>3. ToldTo' = ToldTo /\ pc'[r] = l
    BY <1>1, <2>1, <2>2, BookSilent
  <2>4. (Permitted(r)' <=> Permitted(r)) /\ Given(r)' = Given(r)
    BY <1>1 DEF Permitted, Given
  <2>5. Due(r)'
    BY <1>1, <1>5, <2>2, <2>3, <2>4 DEF Due, tables
  <2> QED
    BY <1>1, <2>3, <2>5, BookStays DEF tables
<1> QED
  BY <1>3, <1>4, <1>5

\* The row is written, or its walmart_store_key is taken at this moment.
LEMMA BookWrites ==
  ASSUME BookInv, NEW r \in Requests, CreateStore(r) \/ UpdateStore(r)
  PROVE  BookMoves /\ Due(r)'
<1>1. /\ pc[r] \in {"insert", "write"} /\ call[r] \in Call /\ Due(r) /\ Standing(r)
      /\ UNCHANGED <<tables, call>> /\ Permitted(r)
  BY BookWaits DEF CreateStore, UpdateStore, BookInv, HistoryInv, RegistryInv, Due
<1>2. (Permitted(r)' <=> Permitted(r)) /\ Given(r)' = Given(r)
  BY <1>1 DEF Permitted, Given
<1>3. CASE CreateStore(r) /\ StoreKeyTaken(call[r].body.key)
  <2>1. /\ call[r].op = "create" /\ Reply(r, Refuse("duplicate_store_key"))
    BY <1>1, <1>3 DEF CreateStore, Standing
  <2>2. Book!StoreKeyUsed(call[r].body.key) /\ Book!Allowed(call[r])
    BY <1>1, <1>3, BookWords DEF StoreKeyTaken, Book!StoreKeyUsed
  <2> QED
    BY <1>1, <2>1, <2>2, BookSaysNo
<1>4. CASE UpdateStore(r) \/ (CreateStore(r) /\ ~StoreKeyTaken(call[r].body.key))
  <2>1. Goto(r, "record") /\ answer' = answer
    BY <1>4 DEF CreateStore, UpdateStore
  <2>2. ToldTo' = ToldTo /\ pc'[r] = "record"
    BY <1>1, <2>1, BookSilent
  <2>3. pc[r] = "insert" => call[r].op = "create"
    BY <1>1 DEF Standing
  <2>4. Due(r)'
    BY <1>1, <1>2, <2>1, <2>2, <2>3, CallShape DEF Due, tables
  <2> QED
    BY <1>1, <2>2, <2>4, BookStays DEF tables
<1> QED
  BY <1>3, <1>4

LEMMA BookRecords ==
  ASSUME BookInv, NEW r \in Requests, RecordOperation(r)
  PROVE  BookMoves /\ Due(r)'
<1>1. /\ pc[r] = "record" /\ call[r] \in Call /\ Due(r) /\ UNCHANGED <<tables, call>>
  BY BookWaits DEF RecordOperation, BookInv
<1>2. CASE ledger[call[r].key] # None
  BY <1>1, <1>2, BookReplays DEF RecordOperation
<1>3. CASE ledger[call[r].key] = None
  <2>1. Goto(r, "commit") /\ answer' = answer
    BY <1>3 DEF RecordOperation
  <2>2. ToldTo' = ToldTo /\ pc'[r] = "commit"
    BY <1>1, <2>1, BookSilent
  <2>3. (Permitted(r)' <=> Permitted(r)) /\ Given(r)' = Given(r)
    BY <1>1 DEF Permitted, Given
  <2>4. Due(r)'
    BY <1>1, <2>1, <2>2, <2>3 DEF Due, tables
  <2> QED
    BY <1>1, <2>2, <2>4, BookStays DEF tables
<1> QED
  BY <1>2, <1>3

\* A replay is shown the store as it is at the moment it reads it.
LEMMA BookRereads ==
  ASSUME BookInv, NEW r \in Requests, Reread(r)
  PROVE  BookMoves /\ Due(r)'
<1> DEFINE s == ledger[call[r].key].store
<1>1. /\ pc[r] = "reread" /\ call[r] \in Call /\ Due(r) /\ Standing(r) /\ Reading(r) /\ RegistryInv
      /\ UNCHANGED <<tables, call>> /\ Permitted(r) /\ Book!Waiting(r)
      /\ call[r].op \in {"create", "update"} /\ IsReplay(r) /\ ledger[call[r].key] # None
  BY BookWaits, CallShape DEF Reread, BookInv, HistoryInv, RegistryInv, Due, Standing, Reading
<1>2. s \in StoreIds /\ s \in call[r].by.scope
  <2>1. s \in StoreIds
    BY <1>1, CallShape DEF RegistryInv, TypeOK, Event
  <2>2. call[r].op = "create" => call[r].by.scope = StoreIds
    BY <1>1, OwnerReachesAll DEF Permitted, CanCreateStore
  <2>3. call[r].op = "update" => s = call[r].store /\ s \in call[r].by.scope
    BY <1>1 DEF Due, IsReplay
  <2> QED
    BY <1>1, <2>1, <2>2, <2>3
<1>3. Reply(r, Done(s, TRUE, stores[s]))
  BY <1>2 DEF Reread
<1>4. pc'[r] = "replying" /\ ToldTo' = [ToldTo EXCEPT ![r] = Book!Success(s, TRUE, stores[s])]
  BY <1>3, BookTold, BookAnswers
<1>5. Recorded' = Recorded
  BY <1>1 DEF Recorded, tables
<1>6. Book!Allowed(call[r]) /\ Book!Reached(call[r]) /\ ~Book!NothingToDo(call[r])
  BY <1>1, BookWords DEF Due
<1>7. /\ Recorded[call[r].key] # Book!Unspent /\ Recorded[call[r].key].store = s
      /\ Book!Repeats(call[r])
  BY <1>1, BookRepeats
<1>8. Book!Repeat(r)
  BY <1>1, <1>2, <1>4, <1>5, <1>6, <1>7 DEF Book!Repeat, Book!Succeed, tables
<1>9. Due(r)'
  BY <1>1, <1>4 DEF Due
<1> QED
  BY <1>8, <1>9 DEF BookMoves, Book!Next

LEMMA BookEnds ==
  ASSUME BookInv, NEW r \in Requests, Deliver(r) \/ Cut(r)
  PROVE  BookMoves /\ Due(r)'
<1>1. CASE Deliver(r)
  <2>1. Goto(r, "answered") /\ answer' = answer /\ pc[r] = "replying" /\ UNCHANGED <<tables, call>>
    BY <1>1 DEF Deliver
  <2>2. ToldTo' = ToldTo /\ pc'[r] = "answered"
    BY <2>1, BookSilent
  <2>3. Due(r)
    BY DEF BookInv
  <2>4. Due(r)'
    BY <2>1, <2>2, <2>3 DEF Due
  <2> QED
    BY <2>1, <2>2, <2>4, BookStays DEF tables
<1>2. CASE Cut(r)
  <2>1. /\ pc \in [Requests -> Labels] /\ answer \in [Requests -> Answer] /\ Due(r)
        /\ pc' = [pc EXCEPT ![r] = "lost"] /\ answer' = [answer EXCEPT ![r] = Refuse("none")]
        /\ UNCHANGED <<tables, call>> /\ pc[r] # "unsent"
    BY <1>2 DEF BookInv, HistoryInv, RegistryInv, TypeOK, Cut, Goto
  <2>2. /\ pc'[r] = "lost"
        /\ \A q \in Requests \ {r} : pc'[q] = pc[q] /\ answer'[q] = answer[q]
    BY <2>1
  <2>3. ToldTo' = [ToldTo EXCEPT ![r] = Refuse("lost")]
    BY <2>2 DEF ToldTo
  <2>4. call[r] # None /\ Recorded' = Recorded
    BY <2>1 DEF Due, Recorded, tables
  <2>5. Book!Lose(r)
    BY <2>1, <2>3, <2>4, BookAnswers DEF Book!Lose, tables
  <2>6. Due(r)'
    BY <2>1, <2>2, <2>4 DEF Due
  <2> QED
    BY <2>5, <2>6 DEF BookMoves, Book!Next
<1> QED
  BY <1>1, <1>2

\* The commit is the one moment of a request that writes or annotates.
LEMMA BookCommits ==
  ASSUME BookInv, NEW r \in Requests, Commit(r)
  PROVE  BookMoves /\ Due(r)'
<1> DEFINE c == call[r]
           k == call[r].key
           t == target[r]
           shown == IF call[r].op = "note" THEN None ELSE row[r]
<1>1. /\ pc[r] = "commit" /\ c \in Call /\ Due(r) /\ Standing(r) /\ Reading(r) /\ RegistryInv
      /\ call' = call /\ Permitted(r) /\ Book!Waiting(r) /\ k \in Keys /\ t \in StoreIds
      /\ ledger[k] = None /\ c.op \in {"create", "update", "note"}
      /\ ledger \in [Keys -> Event \cup {None}] /\ stores \in [StoreIds -> Store \cup {None}]
  BY BookWaits, CallShape, CommitShape
    DEF Commit, BookInv, HistoryInv, RegistryInv, TypeOK, Due, Standing
<1>2. pc'[r] = "replying" /\ ToldTo' = [ToldTo EXCEPT ![r] = Book!Success(t, FALSE, shown)]
  BY BookTold, BookAnswers DEF Commit
<1>3. Due(r)'
  BY <1>1, <1>2 DEF Due
<1>4. /\ Book!Allowed(c) /\ Book!Reached(c) /\ ~Book!NothingToDo(c) /\ Book!Kind(c) = TypeOf(r)
  BY <1>1, BookWords DEF Due, Standing, Reading
<1>5. Recorded[k] = Book!Unspent
  BY <1>1, BookUnspent
<1>6. Recorded' = [Recorded EXCEPT ![k] = [kind |-> TypeOf(r), store |-> t, content |-> c.body]]
  <2> DEFINE event == [type |-> TypeOf(r), store |-> t, before |-> before[r], after |-> c.body]
  <2>1. ledger' = [ledger EXCEPT ![k] = event]
    BY DEF Commit
  <2>2. event # None
    <3>1. PICK e \in Event : e # None /\ ledger' = [ledger EXCEPT ![k] = e]
      BY CommitShape DEF BookInv, HistoryInv
    <3>2. ledger'[k] = event /\ ledger'[k] = e
      BY <1>1, <2>1, <3>1
    <3> QED
      BY <3>1, <3>2
  <2>3. event.type = TypeOf(r) /\ event.store = t /\ event.after = c.body
    OBVIOUS
  <2> HIDE DEF event
  <2>4. ledger'[k] = event /\ \A j \in Keys \ {k} : ledger'[j] = ledger[j]
    BY <1>1, <2>1
  <2> QED
    BY <1>1, <2>2, <2>3, <2>4 DEF Recorded
<1>7. CASE c.op = "create"
  <2>1. /\ c.body \in Store /\ row[r] = c.body /\ stores[t] = None /\ ~StoreKeyTaken(c.body.key)
        /\ stores' = [stores EXCEPT ![t] = c.body]
    BY <1>1, <1>7, CallShape DEF Standing, Holding, Commit
  <2>2. ~Book!StoreKeyUsed(c.body.key) /\ shown = c.body
    BY <1>7, <2>1 DEF StoreKeyTaken, Book!StoreKeyUsed
  <2>3. Book!Perform(r, "create", t, c.body)
    BY <1>1, <1>2, <1>4, <1>5, <1>6, <1>7, <2>2 DEF Book!Perform, Book!Succeed
  <2>4. Book!Create(r, t)
    BY <2>1, <2>2, <2>3 DEF Book!Create
  <2> QED
    BY <1>1, <1>3, <2>4 DEF BookMoves, Book!Next
<1>8. CASE c.op = "update"
  <2>1. /\ t = c.store /\ c.body \in Patch /\ stores[t] \in Store /\ row[r] = Merged(r)
        /\ stores' = [stores EXCEPT ![t] = Merged(r)]
    BY <1>1, <1>8, CallShape DEF Standing, Holding, Commit
  <2>2. Merged(r) = Book!Patched(stores[t], c.body)
    <3>1. DOMAIN stores[t].identity = Fields
      BY <2>1 DEF Store, Identity
    <3> QED
      BY <3>1 DEF Merged, Overlay, Book!Patched
  <2>3. Book!Perform(r, "update", c.store, Book!Patched(stores[c.store], c.body))
    BY <1>1, <1>2, <1>4, <1>5, <1>6, <1>8, <2>1, <2>2 DEF Book!Perform, Book!Succeed
  <2>4. stores' = [stores EXCEPT ![c.store] = Book!Patched(stores[c.store], c.body)]
    BY <2>1, <2>2
  <2>5. Book!Update(r)
    BY <2>3, <2>4 DEF Book!Update
  <2> QED
    BY <1>3, <2>5 DEF BookMoves, Book!Next
<1>9. CASE c.op = "note"
  <2>1. t = c.store /\ stores' = stores
    BY <1>1, <1>9 DEF Standing, Commit
  <2>2. Book!Perform(r, "note", c.store, None)
    BY <1>1, <1>2, <1>4, <1>5, <1>6, <1>9, <2>1 DEF Book!Perform, Book!Succeed
  <2>3. Book!Annotate(r)
    BY <2>1, <2>2 DEF Book!Annotate
  <2> QED
    BY <1>3, <2>3 DEF BookMoves, Book!Next
<1> QED
  BY <1>1, <1>7, <1>8, <1>9

LEMMA BookAsks ==
  ASSUME BookInv, NEW r \in Requests, NEW c \in Calls, Send(r, c)
  PROVE  BookMoves /\ Due(r)'
<1>1. /\ pc[r] = "unsent" /\ Due(r) /\ call \in [Requests -> Call \cup {None}] /\ c \in Call
      /\ call' = [call EXCEPT ![r] = c] /\ UNCHANGED <<tables, answer>> /\ Goto(r, "opened")
  BY KnownStores DEF Send, BookInv, HistoryInv, RegistryInv, TypeOK
<1>2. ToldTo' = ToldTo /\ pc'[r] = "opened" /\ call'[r] = c /\ call[r] = None
  BY <1>1, BookSilent DEF Due
<1>3. Recorded' = Recorded
  BY <1>1 DEF Recorded, tables
<1>4. Book!Ask(r, c)
  BY <1>1, <1>2, <1>3 DEF Book!Ask, tables
<1>5. Due(r)'
  BY <1>1, <1>2, NoneIsNoCall DEF Due
<1> QED
  BY <1>4, <1>5 DEF BookMoves, Book!Next

\* No step disturbs what another request may still be told.
LEMMA BookOthers ==
  ASSUME BookInv, NEW q \in Requests, Due(q),
         pc'[q] = pc[q], call'[q] = call[q], answer'[q] = answer[q],
         \A s \in StoreIds : stores[s] # None => stores'[s] # None
  PROVE  Due(q)'
<1>1. (Permitted(q)' <=> Permitted(q)) /\ Given(q)' = Given(q)
  BY DEF Permitted, Given
<1>2. pc[q] = "reread" => call[q] \in Call
  BY DEF BookInv, HistoryInv, RegistryInv, Standing
<1>3. ASSUME pc[q] = "reread", call[q].op # "create"
      PROVE  call[q].store \in call[q].by.scope /\ stores'[call[q].store] # None
  BY <1>2, <1>3, CallShape DEF Due
<1> QED
  BY <1>1, <1>3 DEF Due

LEMMA BookStep ==
  ASSUME BookInv, HistoryInv', [Next]_vars
  PROVE  BookInv' /\ BookMoves
<1>1. ASSUME NEW r \in Requests, BookMoves /\ Due(r)',
             \A q \in Requests \ {r} :
               pc'[q] = pc[q] /\ call'[q] = call[q] /\ answer'[q] = answer[q],
             \A s \in StoreIds : stores[s] # None => stores'[s] # None
      PROVE  BookInv' /\ BookMoves
  <2>1. \A q \in Requests : Due(q)'
    BY <1>1, BookOthers DEF BookInv
  <2> QED
    BY <1>1, <2>1 DEF BookInv
<1>2. ASSUME NEW r \in Requests, NEW c \in Calls, Send(r, c) PROVE BookInv' /\ BookMoves
  <2>1. BookMoves /\ Due(r)'
    BY <1>2, BookAsks
  <2>2. \A q \in Requests \ {r} :
          pc'[q] = pc[q] /\ call'[q] = call[q] /\ answer'[q] = answer[q]
    BY <1>2 DEF Send, Goto, BookInv, HistoryInv, RegistryInv, TypeOK
  <2>3. stores' = stores
    BY <1>2 DEF Send, tables
  <2> QED
    BY <1>1, <2>1, <2>2, <2>3
<1>3. ASSUME NEW r \in Requests, Serve(r) \/ Cut(r), ~Commit(r) PROVE BookInv' /\ BookMoves
  <2>1. BookMoves /\ Due(r)'
    BY <1>3, BookOpens, BookReads, BookWrites, BookRecords, BookRereads, BookEnds DEF Serve
  <2>2. UNCHANGED <<stores, ledger, trail, call>> /\ OthersAsBefore(r)
    BY <1>3, OthersKeep DEF BookInv, HistoryInv
  <2> QED
    BY <1>1, <2>1, <2>2 DEF OthersAsBefore
<1>4. ASSUME NEW r \in Requests, Commit(r) PROVE BookInv' /\ BookMoves
  <2>1. BookMoves /\ Due(r)'
    BY <1>4, BookCommits
  <2>2. \A q \in Requests \ {r} :
          pc'[q] = pc[q] /\ call'[q] = call[q] /\ answer'[q] = answer[q]
    BY <1>4 DEF Commit, Reply, Goto, BookInv, HistoryInv, RegistryInv, TypeOK
  <2>3. \A s \in StoreIds : stores[s] # None => stores'[s] # None
    BY <1>4, CommitShape DEF BookInv, HistoryInv
  <2> QED
    BY <1>1, <2>1, <2>2, <2>3
<1>5. CASE UNCHANGED vars
  <2>1. /\ UNCHANGED <<stores, ledger, call>> /\ ToldTo' = ToldTo
        /\ \A q \in Requests : pc'[q] = pc[q] /\ call'[q] = call[q] /\ answer'[q] = answer[q]
    BY <1>5 DEF vars, tables, ToldTo
  <2>2. \A q \in Requests : Due(q)'
    BY <2>1, BookOthers DEF BookInv
  <2> QED
    BY <2>1, <2>2, BookStays DEF BookInv
<1> QED
  BY <1>2, <1>3, <1>4, <1>5 DEF Next

LEMMA BookStarts == Init => BookInv /\ Book!Init
<1> SUFFICES ASSUME Init PROVE BookInv /\ Book!Init
  OBVIOUS
<1>1. /\ pc = [r \in Requests |-> "unsent"] /\ call = [r \in Requests |-> None]
      /\ answer = [r \in Requests |-> Refuse("none")] /\ ledger = [k \in Keys |-> None]
  BY DEF Init
<1>2. \A r \in Requests : Due(r)
  BY <1>1 DEF Due
<1>3. ToldTo = [r \in Requests |-> Book!Nothing]
  BY <1>1, BookAnswers DEF ToldTo
<1>4. Recorded = [k \in Keys |-> Book!Unspent]
  BY <1>1 DEF Recorded, Book!Unspent
<1>5. Book!KeysDiffer
  BY InitRegistry DEF RegistryInv, KeysAreUnique, Book!KeysDiffer
<1> QED
  BY <1>1, <1>2, <1>3, <1>4, <1>5, InitHistory DEF BookInv, Book!Init

\* The endpoints implement the book: whatever statements of overlapping requests
\* come between, every request takes effect and is answered as if it were alone, at
\* one moment between its arrival and its answer.
THEOREM RegistryIsABook == Spec => RegistryIsAtomic
<1>1. BookInv /\ HistoryInv' /\ [Next]_vars => BookInv' /\ BookMoves
  BY BookStep
<1>2. BookMoves <=> [Book!Next]_(Book!bookVars)
  BY DEF BookMoves
<1> QED
  BY <1>1, <1>2, BookStarts, HistoryInductive, PTL DEF Spec, RegistryIsAtomic, Book!Spec

================================================================================
