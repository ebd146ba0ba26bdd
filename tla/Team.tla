---------------------------------- MODULE Team ----------------------------------
(***************************************************************************)
(* POST and DELETE /stores/{store_id}/managers: grant_manager and          *)
(* revoke_manager of team/service.py over user_store_assignments and the   *)
(* operation ledger.  Each request is one READ COMMITTED transaction whose *)
(* statements are steps of their own.  A row that is inserted or deleted   *)
(* and an operation_id that is inserted stay locked until the transaction  *)
(* ends.  The presence of a row of user_store_assignments is the           *)
(* assignment; a row is told from a later one of the same pair by the      *)
(* operation that inserted it, as Postgres tells them by transaction.      *)
(***************************************************************************)
EXTENDS Integers, FiniteSets

CONSTANTS
  Requests,       \* HTTP calls, each retry being a call of its own
  Keys,           \* Idempotency-Key values
  UserIds, StoreIds,   \* ids a caller may send
  KnownUsers,     \* rows of users
  KnownStores,    \* rows of stores
  Roles,          \* roles of the callers
  None            \* SQL NULL, Python None

CanManageAssignments == {"owner"}
Actions == {"granted", "revoked"}

ASSUME KnownIds ==
  KnownUsers \subseteq UserIds /\ KnownStores \subseteq StoreIds /\ None \notin Keys

VARIABLES
  assigned,       \* table user_store_assignments: who inserted the row, if any
  ledger,         \* table audit_events, keyed by operation_id
  pc, call,       \* where each request stands and what it was sent with
  target,         \* the row version a DELETE began with
  wrote,          \* what the open transaction of a request has written
  answer          \* the response each request computed

vars == <<assigned, ledger, pc, call, target, wrote, answer>>

Event == [action : Actions, user : UserIds, store : StoreIds]
Call == [key : Keys, event : Event, role : Roles]
Answer == [kind : {"none", "done", "forbidden", "out_of_scope", "user_not_found",
                   "already_assigned", "conflict"},
           replayed : BOOLEAN]

ASSUME NoneIsNoEvent == None \notin Event \cup Call

Refuse(kind) == [kind |-> kind, replayed |-> FALSE]
Done(replayed) == [kind |-> "done", replayed |-> replayed]

Pair(r) == <<call[r].event.user, call[r].event.store>>
Action(r) == call[r].event.action

--------------------------------------------------------------------------------
Init ==
  /\ assigned = [p \in UserIds \X StoreIds |-> None]
  /\ ledger = [k \in Keys |-> None]
  /\ pc = [r \in Requests |-> "unsent"]
  /\ call = [r \in Requests |-> None]
  /\ target = [r \in Requests |-> None]
  /\ wrote = [r \in Requests |-> "nothing"]
  /\ answer = [r \in Requests |-> Refuse("none")]

Goto(r, label) == pc' = [pc EXCEPT ![r] = label]

\* Fault: the response leaves, its transaction stays open.
ReplyInOpenTransaction(r, a) ==
  /\ Goto(r, "replying")
  /\ answer' = [answer EXCEPT ![r] = a]
  /\ target' = [target EXCEPT ![r] = None]
  /\ UNCHANGED wrote

\* The request leaves the service with a response; what it wrote is taken back.
Reply(r, a) ==
  /\ Goto(r, "replying")
  /\ answer' = [answer EXCEPT ![r] = a]
  /\ target' = [target EXCEPT ![r] = None]
  /\ wrote' = [wrote EXCEPT ![r] = "nothing"]

Send(r, k, e, role) ==
  /\ pc[r] = "unsent"
  /\ Goto(r, "opened")
  /\ call' = [call EXCEPT ![r] = [key |-> k, event |-> e, role |-> role]]
  /\ UNCHANGED <<assigned, ledger, target, wrote, answer>>

\* require_can_manage_store_assignments before any read, then get_store: an
\* owner's scope holds every store there is.
Authorize(r) ==
  /\ pc[r] = "opened"
  /\ IF call[r].role \notin CanManageAssignments THEN Reply(r, Refuse("forbidden"))
     ELSE IF call[r].event.store \notin KnownStores THEN Reply(r, Refuse("out_of_scope"))
     ELSE Goto(r, "lookup") /\ UNCHANGED <<target, wrote, answer>>
  /\ UNCHANGED <<assigned, ledger, call>>

\* Fault: the grant/revoke discriminator and the store are not compared.
ReplayOfAnyAction(r) ==
  IF ledger[call[r].key].user = call[r].event.user THEN Done(TRUE) ELSE Refuse("conflict")

\* _check_assignment_replay_target: the same action on the same pair, or a conflict.
ReplayOf(r) == IF ledger[call[r].key] = call[r].event THEN Done(TRUE) ELSE Refuse("conflict")

FindByOperation(r) ==
  /\ pc[r] = "lookup"
  /\ IF ledger[call[r].key] # None THEN Reply(r, ReplayOf(r))
     ELSE Goto(r, "check") /\ UNCHANGED <<target, wrote, answer>>
  /\ UNCHANGED <<assigned, ledger, call>>

\* get_user, for a grant, and assignment_exists.  A revocation of a pair that is
\* not assigned is answered as done and nothing is recorded.
CheckAssignment(r) ==
  /\ pc[r] = "check"
  /\ IF Action(r) = "granted" /\ call[r].event.user \notin KnownUsers
     THEN Reply(r, Refuse("user_not_found"))
     ELSE IF Action(r) = "granted" /\ assigned[Pair(r)] # None
     THEN Reply(r, Refuse("already_assigned"))
     ELSE IF Action(r) = "revoked" /\ assigned[Pair(r)] = None THEN Reply(r, Done(FALSE))
     ELSE Goto(r, "write") /\ UNCHANGED <<target, wrote, answer>>
  /\ UNCHANGED <<assigned, ledger, call>>

\* Another open transaction has inserted or deleted a row of the pair.
PairHeld(r) == \E q \in Requests \ {r} : wrote[q] # "nothing" /\ Pair(q) = Pair(r)

InsertUnchecked(r) ==    \* fault: the pair has no primary key
  /\ pc[r] = "write" /\ Action(r) = "granted"
  /\ Goto(r, "record")
  /\ wrote' = [wrote EXCEPT ![r] = "inserted"]
  /\ UNCHANGED <<assigned, ledger, call, target, answer>>

\* The INSERT waits for whoever holds the pair; when a row is there after all,
\* the primary key raises and the answer is AlreadyAssigned.
CreateAssignment(r) ==
  /\ pc[r] = "write" /\ Action(r) = "granted"
  /\ ~PairHeld(r)
  /\ IF assigned[Pair(r)] # None THEN Reply(r, Refuse("already_assigned"))
     ELSE /\ Goto(r, "record")
          /\ wrote' = [wrote EXCEPT ![r] = "inserted"]
          /\ UNCHANGED <<target, answer>>
  /\ UNCHANGED <<assigned, ledger, call>>

\* A DELETE takes its snapshot when it starts: the row it may remove is the one
\* it finds then.
BeginDelete(r) ==
  /\ pc[r] = "write" /\ Action(r) = "revoked"
  /\ Goto(r, "delete")
  /\ target' = [target EXCEPT ![r] = assigned[Pair(r)]]
  /\ UNCHANGED <<assigned, ledger, call, wrote, answer>>

\* It waits for whoever holds that row, and removes it if it is still there.
\* delete_assignment reports whether it was; nobody looks.
EndDelete(r) ==
  /\ pc[r] = "delete"
  /\ target[r] # None => ~PairHeld(r)
  /\ Goto(r, "record")
  /\ wrote' = [wrote EXCEPT
       ![r] = IF target[r] # None /\ assigned[Pair(r)] = target[r] THEN "deleted" ELSE @]
  /\ UNCHANGED <<assigned, ledger, call, target, answer>>

KeyHeld(r, k) == \E q \in Requests \ {r} : pc[q] = "commit" /\ call[q].key = k

\* Fault: the ledger is written without looking at what it holds.
RecordBlindly(r) ==
  /\ pc[r] = "record"
  /\ Goto(r, "commit")
  /\ UNCHANGED <<assigned, ledger, call, target, wrote, answer>>

\* audit.record waits for an open transaction that holds the operation_id; when
\* that one has committed, the savepoint is rolled back and the replay checked.
RecordOperation(r) ==
  /\ pc[r] = "record"
  /\ ~KeyHeld(r, call[r].key)
  /\ IF ledger[call[r].key] # None THEN Reply(r, ReplayOf(r))
     ELSE Goto(r, "commit") /\ UNCHANGED <<target, wrote, answer>>
  /\ UNCHANGED <<assigned, ledger, call>>

\* The row the pair has once the transaction of r has committed.
RowAfter(r) == CASE wrote[r] = "inserted" -> call[r].key
                 [] wrote[r] = "deleted" -> None
                 [] OTHER -> assigned[Pair(r)]

Commit(r) ==
  /\ pc[r] = "commit"
  /\ assigned' = [assigned EXCEPT ![Pair(r)] = RowAfter(r)]
  /\ ledger' = [ledger EXCEPT ![call[r].key] = call[r].event]
  /\ Reply(r, Done(FALSE))
  /\ UNCHANGED call

Deliver(r) ==
  /\ pc[r] = "replying"
  /\ Goto(r, "answered")
  /\ UNCHANGED <<assigned, ledger, call, target, wrote, answer>>

\* The process or the connection ends; what was not committed is rolled back.
Cut(r) ==
  /\ pc[r] \notin {"unsent", "answered", "lost"}
  /\ Goto(r, "lost")
  /\ target' = [target EXCEPT ![r] = None]
  /\ wrote' = [wrote EXCEPT ![r] = "nothing"]
  /\ answer' = [answer EXCEPT ![r] = Refuse("none")]
  /\ UNCHANGED <<assigned, ledger, call>>

Serve(r) ==
  \/ Authorize(r)
  \/ FindByOperation(r)
  \/ CheckAssignment(r)
  \/ CreateAssignment(r)
  \/ BeginDelete(r)
  \/ EndDelete(r)
  \/ RecordOperation(r)
  \/ Commit(r)
  \/ Deliver(r)

Next ==
  \/ \E r \in Requests, k \in Keys, e \in Event, role \in Roles : Send(r, k, e, role)
  \/ \E r \in Requests : Serve(r) \/ Cut(r)

Spec == Init /\ [][Next]_vars

--------------------------------------------------------------------------------
(* Properties *)

Labels == {"unsent", "opened", "lookup", "check", "write", "delete", "record", "commit",
           "replying", "answered", "lost"}

\* Every table, response and local variable holds values of its type, and only
\* an open transaction that has passed its INSERT or DELETE has written anything.
TypeOK ==
  /\ assigned \in [UserIds \X StoreIds -> Keys \cup {None}]
  /\ ledger \in [Keys -> Event \cup {None}]
  /\ pc \in [Requests -> Labels]
  /\ call \in [Requests -> Call \cup {None}]
  /\ target \in [Requests -> Keys \cup {None}]
  /\ wrote \in [Requests -> {"nothing", "inserted", "deleted"}]
  /\ answer \in [Requests -> Answer]
  /\ \A r \in Requests : wrote[r] # "nothing" => pc[r] \in {"record", "commit"}

EventsOf(action, p) ==
  {k \in Keys : ledger[k] # None /\ ledger[k] = [action |-> action, user |-> p[1], store |-> p[2]]}

\* The audit trail explains who reaches which store: an assignment in force was
\* inserted by a recorded grant, and every recorded grant but that one has a
\* recorded revocation of its own.  Nobody keeps or loses a store silently,
\* whatever grants and revocations run side by side.
AccessIsRecorded ==
  \A p \in UserIds \X StoreIds :
    LET inForce == {assigned[p]} \ {None}
    IN  /\ inForce \subseteq EventsOf("granted", p)
        /\ Cardinality(EventsOf("granted", p) \ inForce) <= Cardinality(EventsOf("revoked", p))

\* A caller told that its request is done finds its own action on its own pair
\* under its key, or asked for a revocation that had nothing to revoke; and of
\* the callers of one grant at most one is told it was the first.
AnswersMatchLedger ==
  /\ \A r \in Requests : answer[r].kind = "done" =>
       \/ ledger[call[r].key] = call[r].event
       \/ Action(r) = "revoked" /\ ~answer[r].replayed
  /\ \A q, r \in Requests :
       answer[q] = Done(FALSE) /\ answer[r] = Done(FALSE) /\ call[q].key = call[r].key
         /\ Action(q) = "granted" /\ Action(r) = "granted" => q = r

\* An assignment appears or goes only with the event that says so, under an
\* operation_id never used before, and a recorded grant leaves the pair
\* assigned, by the very operation that was recorded.
ChangesAreRecorded ==
  [][/\ \A p \in UserIds \X StoreIds : assigned'[p] # assigned[p] =>
          \E k \in Keys :
            /\ ledger[k] = None
            /\ ledger'[k] = [action |-> IF assigned'[p] = None THEN "revoked" ELSE "granted",
                             user |-> p[1], store |-> p[2]]
     /\ \A k \in Keys : ledger'[k] # ledger[k] =>
          /\ ledger[k] = None
          /\ ledger'[k].action = "granted" =>
               assigned'[<<ledger'[k].user, ledger'[k].store>>] = k]_vars

\* What each caller was told, an answer that is lost included.
ToldTo == [r \in Requests |-> IF pc[r] = "lost" THEN Refuse("lost") ELSE answer[r]]

Book == INSTANCE TeamBook WITH asked <- call, told <- ToldTo

\* However grants and revocations overlap, wait and fail, the assignments, the
\* ledger and every answer are those of a service that carries each request out in
\* one step: an assignment appears or goes only with a fresh operation_id that says
\* so, an answer that is lost stands for all of its operation or none, no refusal
\* is given that does not hold at the moment it is given, and a revocation removes
\* the assignment unless another one came first.
AccessIsAtomic == Book!Spec

\* team/service.py:34, "an honest retry under the same ``Idempotency-Key`` is
\* always recognised as a replay before it can be mistaken for a fresh,
\* conflicting attempt".
RetryIsReplayed ==
  \A r \in Requests : answer[r].kind = "already_assigned" =>
    ledger[call[r].key] # call[r].event

\* team/service.py:287, "A no-op is not an audited change -- recording one here
\* would describe a revocation that never happened": a recorded revocation ends
\* an assignment.
RevocationsHappen ==
  [][\A k \in Keys : ledger[k] = None /\ ledger'[k] # None /\ ledger'[k].action = "revoked" =>
       assigned[<<ledger'[k].user, ledger'[k].store>>] # None]_vars
================================================================================
