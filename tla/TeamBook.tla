---------------------------------- MODULE TeamBook ----------------------------------
(***************************************************************************)
(* What granting and revoking a manager's store promise: as if each request *)
(* were carried out in one step, at one moment between its arrival and its *)
(* answer, with one exception: a revocation that another one has overtaken *)
(* is recorded and answered although nothing was left for it to remove.    *)
(***************************************************************************)
CONSTANTS Requests, Keys, UserIds, StoreIds, KnownUsers, KnownStores, Roles, None

VARIABLES
  assigned,   \* the operation that granted each pair its assignment, if it has one
  ledger,     \* the action recorded under each key
  asked,      \* what each caller asked for
  told        \* what it was told

bookVars == <<assigned, ledger, asked, told>>

Event == [action : {"granted", "revoked"}, user : UserIds, store : StoreIds]
PairOf(e) == <<e.user, e.store>>

Refusal(kind) == [kind |-> kind, replayed |-> FALSE]
Success(replayed) == [kind |-> "done", replayed |-> replayed]
Nothing == Refusal("none")

\* The owner alone manages assignments, of the stores there are.
Reached(c) == c.role = "owner" /\ c.event.store \in KnownStores

--------------------------------------------------------------------------------
Init ==
  /\ assigned = [p \in UserIds \X StoreIds |-> None]
  /\ ledger = [k \in Keys |-> None]
  /\ asked = [r \in Requests |-> None]
  /\ told = [r \in Requests |-> Nothing]

Ask(r, c) ==
  /\ asked[r] = None
  /\ asked' = [asked EXCEPT ![r] = c]
  /\ UNCHANGED <<assigned, ledger, told>>

Waiting(r, action) ==
  /\ asked[r] # None /\ told[r] = Nothing
  /\ asked[r].event.action = action

Tell(r, a) == told' = [told EXCEPT ![r] = a] /\ UNCHANGED asked

\* A grant may be told that the pair is assigned also when it is its own first
\* attempt that assigned it.
SayNo(r, action) ==
  LET c == asked[r]
      Refuse(kind) == Tell(r, Refusal(kind)) /\ UNCHANGED <<assigned, ledger>>
  IN  /\ Waiting(r, action)
      /\ \/ c.role # "owner" /\ Refuse("forbidden")
         \/ c.role = "owner" /\ c.event.store \notin KnownStores /\ Refuse("out_of_scope")
         \/ Reached(c) /\ ledger[c.key] \notin {None, c.event} /\ Refuse("conflict")
         \/ /\ Reached(c) /\ action = "granted"
            /\ \/ c.event.user \notin KnownUsers /\ Refuse("user_not_found")
               \/ /\ c.event.user \in KnownUsers /\ assigned[PairOf(c.event)] # None
                  /\ Refuse("already_assigned")

\* What was done is not done again.
Repeat(r, action) ==
  /\ Waiting(r, action) /\ Reached(asked[r])
  /\ ledger[asked[r].key] = asked[r].event
  /\ Tell(r, Success(TRUE))
  /\ UNCHANGED <<assigned, ledger>>

\* The action is recorded under a fresh key in the step that carries it out.
Perform(r, action) ==
  /\ Waiting(r, action) /\ Reached(asked[r])
  /\ ledger[asked[r].key] = None
  /\ ledger' = [ledger EXCEPT ![asked[r].key] = asked[r].event]
  /\ Tell(r, Success(FALSE))

Grant(r) ==
  LET c == asked[r]
  IN  /\ Perform(r, "granted")
      /\ c.event.user \in KnownUsers /\ assigned[PairOf(c.event)] = None
      /\ assigned' = [assigned EXCEPT ![PairOf(c.event)] = c.key]

Revoke(r) ==
  /\ Perform(r, "revoked")
  /\ assigned[PairOf(asked[r].event)] # None
  /\ assigned' = [assigned EXCEPT ![PairOf(asked[r].event)] = None]

\* Another recorded revocation of the pair came first: an assignment made since
\* then stays.
RevokeOvertaken(r) ==
  /\ Perform(r, "revoked")
  /\ \E k \in Keys : ledger[k] = asked[r].event
  /\ UNCHANGED assigned

\* Where nobody is assigned there is nothing to revoke, and nothing to record.
NothingToRevoke(r) ==
  /\ Waiting(r, "revoked") /\ Reached(asked[r])
  /\ assigned[PairOf(asked[r].event)] = None
  /\ Tell(r, Success(FALSE))
  /\ UNCHANGED <<assigned, ledger>>

\* No answer reaches the caller: either nothing was done yet, or all of it.
Lose(r) ==
  /\ asked[r] # None
  /\ Tell(r, Refusal("lost"))
  /\ UNCHANGED <<assigned, ledger>>

Next ==
  \E r \in Requests :
    \/ \E c \in [key : Keys, event : Event, role : Roles] : Ask(r, c)
    \/ \E action \in {"granted", "revoked"} : SayNo(r, action) \/ Repeat(r, action)
    \/ Grant(r) \/ Revoke(r) \/ RevokeOvertaken(r) \/ NothingToRevoke(r) \/ Lose(r)

Spec == Init /\ [][Next]_bookVars
================================================================================
