----------------------------------- MODULE Access -----------------------------------
(***************************************************************************)
(* Sign-in, session validation and sign-out: sign_in, authenticate,        *)
(* resolve_scope and sign_out of access/service.py, called by the session  *)
(* endpoints and request_scope of main.py and by the pages of              *)
(* web/routes.py.  Each request is one READ COMMITTED transaction whose    *)
(* statements are steps of their own; a row of users or user_sessions it   *)
(* has updated stays locked until it ends.  A session is named by the      *)
(* request that opened it, which stands for its token.                     *)
(***************************************************************************)
EXTENDS Naturals, Sequences, FiniteSets

CONSTANTS
  Requests,       \* HTTP calls
  Users,          \* rows of users
  MfaUsers,       \* users with mfa_enabled: every owner and admin, some managers
  Calls,          \* what a request may ask for
  Threshold, Duration,   \* access_policy: sign-in lockout
  Idle, Absolute, \* access_policy: session timeouts
  MaxNow,         \* bound on the clock
  None            \* SQL NULL, Python None

SignIn == [op : {"sign_in"}, email : Users \cup {None}, password : BOOLEAN,
           code : {"missing", "right", "wrong"}]
Visit == [op : {"api", "page"}, token : Requests \cup {None}]
SignOut == [op : {"sign_out"}, token : Requests \cup {None}]
Sent == SignIn \cup [op : {"api", "page", "sign_out"}, token : Requests \cup {None},
                     after_sign_out : BOOLEAN]

ASSUME PolicyIsSet ==
  /\ IsFiniteSet(Requests)
  /\ MfaUsers \subseteq Users /\ None \notin Users \cup Requests \cup Nat
  /\ {Threshold, Duration, Idle, Absolute} \subseteq Nat \ {0} /\ MaxNow \in Nat
  /\ Calls \subseteq SignIn \cup Visit \cup SignOut

VARIABLES
  accounts,       \* table users: the columns sign-in reads and writes
  sessions,       \* table user_sessions, keyed by the request that opened each
  trail,          \* the audit_events of sign-in, in the order they became visible
  now,            \* clock.utc_now()
  pc, call,       \* where each request stands and what it was sent with
  txn,            \* local variables and uncommitted writes of each request
  answer          \* the response each request computed

tables == <<accounts, sessions, trail>>
vars == <<tables, now, pc, call, txn, answer>>

Time == 0 .. MaxNow + Duration + Absolute
Account == [active : BOOLEAN, failures : 0 .. Cardinality(Requests),
            locked_until : Time \cup {None}]
Session == [user : Users, issued_at : Time, last_seen_at : Time, expires_at : Time,
            revoked_at : Time \cup {None}]

\* None is no row and no call.
ASSUME NoneIsNoRow == None \notin Account \cup Session \cup Sent

Reason == {"invalid_credentials", "account_inactive", "account_locked",
           "invalid_mfa_code", "lock_expired", "none"}
Event == [type : {"auth_sign_in_succeeded", "auth_sign_in_failed",
                  "auth_account_locked", "auth_account_unlocked"},
          reason : Reason, actor : Users \cup {None}, by : Requests]
Answer == {"none", "signed_in", "invalid", "locked", "mfa_required",
           "served", "refused", "not_found", "signed_out"}

\* seen is the row a request has read, row the one it has written and session
\* the one it has inserted, events what it has recorded, stamp the instant it
\* has read off the clock.
NoTxn == [seen |-> None, row |-> None, session |-> None, events |-> <<>>, stamp |-> None]

--------------------------------------------------------------------------------
Init ==
  /\ accounts = [u \in Users |-> [active |-> TRUE, failures |-> 0, locked_until |-> None]]
  /\ sessions = [r \in Requests |-> None]
  /\ trail = <<>>
  /\ now = 0
  /\ pc = [r \in Requests |-> "unsent"]
  /\ call = [r \in Requests |-> None]
  /\ txn = [r \in Requests |-> NoTxn]
  /\ answer = [r \in Requests |-> "none"]

Goto(r, label) == pc' = [pc EXCEPT ![r] = label]

IsSignIn(r) == call[r] # None /\ call[r].op = "sign_in"
IsVisit(r) == call[r] # None /\ call[r].op \in {"api", "page"}
IsSignOut(r) == call[r] # None /\ call[r].op = "sign_out"
User(r) == call[r].email
SessionOf(r) == IF call[r].token = None THEN None ELSE sessions[call[r].token]

\* A token is known to nobody before the sign-in that issued it was answered.
Known(token) == token # None => pc[token] = "answered" /\ answer[token] = "signed_in"

\* after_sign_out: whoever sends the request has seen its session end.
Send(r, c) ==
  /\ pc[r] = "unsent"
  /\ c.op # "sign_in" => Known(c.token)
  /\ Goto(r, "opened")
  /\ call' = [call EXCEPT ![r] =
       IF c.op = "sign_in" THEN c
       ELSE [op |-> c.op, token |-> c.token,
             after_sign_out |-> \E q \in Requests : IsSignOut(q) /\ pc[q] = "answered"
                                                      /\ call[q].token = c.token]]
  /\ UNCHANGED <<tables, now, txn, answer>>

\* A response whose transaction has nothing to keep.
Reply(r, a) ==
  /\ Goto(r, "replying")
  /\ answer' = [answer EXCEPT ![r] = a]
  /\ txn' = [txn EXCEPT ![r] = NoTxn]

\* A response that leaves once the transaction has committed.  create_session
\* and sign_in_submit commit when sign_in raises, too.
Conclude(r, a, t) ==
  /\ Goto(r, "commit")
  /\ answer' = [answer EXCEPT ![r] = a]
  /\ txn' = [txn EXCEPT ![r] = t]

Continue(r, label, t) ==
  /\ Goto(r, label)
  /\ txn' = [txn EXCEPT ![r] = t]
  /\ UNCHANGED answer

\* q has updated a row and its transaction is open.
Holding(q) == txn[q].row # None /\ pc[q] \in {"verify", "fail", "succeed", "scope", "commit"}
AccountFree(r) == \A q \in Requests \ {r} : Holding(q) /\ IsSignIn(q) => User(q) # User(r)
SessionFree(r) ==
  \A q \in Requests \ {r} : Holding(q) /\ ~IsSignIn(q) => call[q].token # call[r].token

--------------------------------------------------------------------------------
(* sign_in *)

Recorded(r, type, reason) ==
  <<[type |-> type, reason |-> reason, actor |-> User(r), by |-> r]>>

\* get_user_credentials.  An unknown email and a deactivated account end here.
ReadCredentials(r) ==
  /\ pc[r] = "opened" /\ IsSignIn(r)
  /\ IF User(r) = None
     THEN Conclude(r, "invalid", [txn[r] EXCEPT
            !.events = Recorded(r, "auth_sign_in_failed", "invalid_credentials")])
     ELSE IF ~accounts[User(r)].active
     THEN Conclude(r, "invalid", [txn[r] EXCEPT
            !.events = Recorded(r, "auth_sign_in_failed", "account_inactive")])
     ELSE Continue(r, "judge", [txn[r] EXCEPT !.seen = accounts[User(r)]])
  /\ UNCHANGED <<tables, now, call>>

\* The lock is judged by the row as it was read.
JudgeLock(r) ==
  /\ pc[r] = "judge" /\ IsSignIn(r)
  /\ LET until == txn[r].seen.locked_until
     IN  IF until = None THEN Continue(r, "verify", txn[r])
         ELSE IF until > now
         THEN Conclude(r, "locked", [txn[r] EXCEPT
                !.events = Recorded(r, "auth_sign_in_failed", "account_locked")])
         ELSE Continue(r, "decay", txn[r])
  /\ UNCHANGED <<tables, now, call>>

\* What an UPDATE of r finds: its own write, or the last one committed.
Current(r) == IF txn[r].row # None THEN txn[r].row ELSE accounts[User(r)]
Reset(row) == [row EXCEPT !.failures = 0, !.locked_until = None]

\* _reset_failed_attempts of a lock that has expired.
Decay(r) ==
  /\ pc[r] = "decay"
  /\ AccountFree(r)
  /\ Continue(r, "verify", [txn[r] EXCEPT
       !.row = Reset(Current(r)),
       !.events = @ \o Recorded(r, "auth_account_unlocked", "lock_expired")])
  /\ UNCHANGED <<tables, now, call>>

\* verify_password, then the second factor.
Verify(r) ==
  /\ pc[r] = "verify"
  /\ IF ~call[r].password THEN Continue(r, "fail", txn[r])
     ELSE IF User(r) \notin MfaUsers \/ call[r].code = "right"
     THEN Continue(r, "succeed", txn[r])
     ELSE IF call[r].code = "missing" THEN Conclude(r, "mfa_required", txn[r])
     ELSE Continue(r, "fail", txn[r])
  /\ UNCHANGED <<tables, now, call>>

CountAsSeen(r) == txn[r].seen.failures + 1    \* fault: the count is read, then written

\* set failed_sign_in_count = failed_sign_in_count + 1 ... returning
CountOneMore(r) == Current(r).failures + 1

\* _fail_and_maybe_lock and its events.
RecordFailure(r) ==
  /\ pc[r] = "fail"
  /\ AccountFree(r)
  /\ LET locks == CountOneMore(r) >= Threshold
         reason == IF call[r].password THEN "invalid_mfa_code" ELSE "invalid_credentials"
         failed == Recorded(r, "auth_sign_in_failed", reason)
     IN  Conclude(r, IF locks THEN "locked" ELSE "invalid", [txn[r] EXCEPT
           !.row = [Current(r) EXCEPT !.failures = CountOneMore(r),
                                      !.locked_until = IF locks THEN now + Duration ELSE @],
           !.events = @ \o failed \o
             (IF locks THEN Recorded(r, "auth_account_locked", "none") ELSE <<>>)])
  /\ UNCHANGED <<tables, now, call>>

\* The count starts again and a session opens.
OpenSession(r) ==
  /\ pc[r] = "succeed"
  /\ AccountFree(r)
  /\ Conclude(r, "signed_in", [txn[r] EXCEPT
       !.row = Reset(Current(r)),
       !.session = [user |-> User(r), issued_at |-> now, last_seen_at |-> now,
                    expires_at |-> now + Absolute, revoked_at |-> None],
       !.events = @ \o Recorded(r, "auth_sign_in_succeeded", "none")])
  /\ UNCHANGED <<tables, now, call>>

--------------------------------------------------------------------------------
(* authenticate and resolve_scope, then sign_out *)

\* The session and its user are read in one statement.
ReadSession(r) ==
  /\ pc[r] = "opened" /\ IsVisit(r)
  /\ LET s == SessionOf(r)
     IN  IF s = None \/ s.revoked_at # None \/ ~accounts[s.user].active
         THEN Reply(r, "refused")
         ELSE Continue(r, "judge", [txn[r] EXCEPT !.seen = s])
  /\ UNCHANGED <<tables, now, call>>

IdleOnly(s) == s.last_seen_at + Idle <= now    \* fault: no absolute timeout
ExpiredTooLate(s) == s.expires_at <= now \/ s.last_seen_at + Idle < now    \* fault

\* The absolute timeout was fixed at sign-in, the idle one is judged now.
Expired(s) == s.expires_at <= now \/ s.last_seen_at + Idle <= now

JudgeSession(r) ==
  /\ pc[r] = "judge" /\ IsVisit(r)
  /\ IF Expired(txn[r].seen) THEN Reply(r, "refused")
     ELSE Continue(r, "touch", [txn[r] EXCEPT !.stamp = now])
  /\ UNCHANGED <<tables, now, call>>

\* Fault: every column is written back as it was read.
TouchAsSeen(r) ==
  /\ pc[r] = "touch"
  /\ SessionFree(r)
  /\ Continue(r, "scope", [txn[r] EXCEPT
       !.row = [txn[r].seen EXCEPT !.last_seen_at = txn[r].stamp]])
  /\ UNCHANGED <<tables, now, call>>

\* The instant was read off the clock before the UPDATE got the row.
Touch(r) ==
  /\ pc[r] = "touch"
  /\ SessionFree(r)
  /\ Continue(r, "scope", [txn[r] EXCEPT
       !.row = [SessionOf(r) EXCEPT !.last_seen_at = txn[r].stamp]])
  /\ UNCHANGED <<tables, now, call>>

\* resolve_scope reads the user again.  SessionInvalid leaves the connection of
\* request_scope, which rolls back; a page catches it and commits.  The orders
\* page reads its store in the same transaction, and a store outside the scope
\* rolls back what it wrote.
ResolveScope(r) ==
  /\ pc[r] = "scope"
  /\ IF accounts[SessionOf(r).user].active
     THEN \/ Conclude(r, "served", txn[r])
          \/ call[r].op = "page" /\ Reply(r, "not_found")
     ELSE IF call[r].op = "page" THEN Conclude(r, "refused", txn[r])
     ELSE Reply(r, "refused")
  /\ UNCHANGED <<tables, now, call>>

BeginSignOut(r) ==
  /\ pc[r] = "opened" /\ IsSignOut(r)
  /\ Continue(r, "revoke", [txn[r] EXCEPT !.stamp = now])
  /\ UNCHANGED <<tables, now, call>>

\* Revoking a session that is unknown or revoked changes nothing.
Revoke(r) ==
  /\ pc[r] = "revoke"
  /\ SessionFree(r)
  /\ LET s == SessionOf(r)
     IN  IF s = None \/ s.revoked_at # None THEN Reply(r, "signed_out")
         ELSE Conclude(r, "signed_out",
                       [txn[r] EXCEPT !.row = [s EXCEPT !.revoked_at = txn[r].stamp]])
  /\ UNCHANGED <<tables, now, call>>

--------------------------------------------------------------------------------
\* What the transaction of r makes visible.
Publish(r) ==
  /\ trail' = trail \o txn[r].events
  /\ accounts' = IF IsSignIn(r) /\ txn[r].row # None
                 THEN [accounts EXCEPT ![User(r)] = txn[r].row]
                 ELSE accounts
  /\ sessions' = IF txn[r].session # None THEN [sessions EXCEPT ![r] = txn[r].session]
                 ELSE IF ~IsSignIn(r) THEN [sessions EXCEPT ![call[r].token] = txn[r].row]
                 ELSE sessions

\* Fault: the exception of a failed sign-in rolls its transaction back.
CommitOnSuccess(r) ==
  /\ pc[r] = "commit"
  /\ IF answer[r] \in {"invalid", "locked", "mfa_required"} THEN UNCHANGED tables
     ELSE Publish(r)
  /\ Goto(r, "replying")
  /\ UNCHANGED <<now, call, txn, answer>>

Commit(r) ==
  /\ pc[r] = "commit"
  /\ Publish(r)
  /\ Goto(r, "replying")
  /\ UNCHANGED <<now, call, txn, answer>>

Deliver(r) ==
  /\ pc[r] = "replying"
  /\ Goto(r, "answered")
  /\ UNCHANGED <<tables, now, call, txn, answer>>

\* The process or the connection ends; what was not committed is rolled back.
Cut(r) ==
  /\ pc[r] \notin {"unsent", "answered", "lost"}
  /\ Goto(r, "lost")
  /\ txn' = [txn EXCEPT ![r] = IF pc[r] = "replying" THEN @ ELSE NoTxn]
  /\ answer' = [answer EXCEPT ![r] = "none"]
  /\ UNCHANGED <<tables, now, call>>

\* Somebody with access to the database deactivates or reactivates a user: no
\* code of the repository does, and all of it reads is_active.
SetActive(u) ==
  /\ \A q \in Requests : Holding(q) /\ IsSignIn(q) => User(q) # u
  /\ accounts' = [accounts EXCEPT ![u].active = ~@]
  /\ UNCHANGED <<sessions, trail, now, pc, call, txn, answer>>

Tick ==
  /\ now < MaxNow
  /\ now' = now + 1
  /\ UNCHANGED <<tables, pc, call, txn, answer>>

Serve(r) ==
  \/ ReadCredentials(r) \/ JudgeLock(r) \/ Decay(r) \/ Verify(r)
  \/ RecordFailure(r) \/ OpenSession(r)
  \/ ReadSession(r) \/ JudgeSession(r) \/ Touch(r) \/ ResolveScope(r)
  \/ BeginSignOut(r) \/ Revoke(r)
  \/ Commit(r) \/ Deliver(r)

Next ==
  \/ \E r \in Requests, c \in Calls : Send(r, c)
  \/ \E r \in Requests : Serve(r) \/ Cut(r)
  \/ \E u \in Users : SetActive(u)
  \/ Tick

Spec == Init /\ [][Next]_vars

--------------------------------------------------------------------------------
(* Properties *)

Labels == {"unsent", "opened", "judge", "decay", "verify", "fail", "succeed", "touch",
           "scope", "revoke", "commit", "replying", "answered", "lost"}

\* Every table, response and local variable holds values of its type, and
\* nothing is seen of a session at or after its absolute timeout.
TypeOK ==
  /\ accounts \in [Users -> Account]
  /\ sessions \in [Requests -> Session \cup {None}]
  /\ \A r \in Requests : sessions[r] # None => sessions[r].last_seen_at < sessions[r].expires_at
  /\ trail \in Seq(Event)
  /\ now \in Time
  /\ pc \in [Requests -> Labels]
  /\ call \in [Requests -> Sent \cup {None}]
  /\ txn \in [Requests -> [seen : Account \cup Session \cup {None},
                           row : Account \cup Session \cup {None},
                           session : Session \cup {None},
                           events : Seq(Event), stamp : Time \cup {None}]]
  /\ answer \in [Requests -> Answer]

Positions(u) == {i \in DOMAIN trail : trail[i].actor = u}
Resets(u) == {i \in Positions(u) : trail[i].type \in
                {"auth_sign_in_succeeded", "auth_account_unlocked"}}
SinceReset(u) == {i \in Positions(u) : \A j \in Resets(u) : j < i}
Failures(u) == {i \in SinceReset(u) :
                  trail[i].reason \in {"invalid_credentials", "invalid_mfa_code"}}
Lockings(u) == {i \in SinceReset(u) : trail[i].type = "auth_account_locked"}

\* The audit trail tells the failed count and the lock: the count is the number
\* of failures recorded since the last recorded reset, the account carries a
\* lock exactly when that number has reached the threshold, and each failure
\* from there on has its locking event.  No failure is forgotten or counted
\* twice when attempts run side by side, and no lock appears or goes untold.
TrailTellsTheCount ==
  \A u \in Users :
    LET count == Cardinality(Failures(u))
    IN  /\ accounts[u].failures = count
        /\ (accounts[u].locked_until # None) <=> (count >= Threshold)
        /\ Cardinality(Lockings(u)) = (IF count >= Threshold THEN count - Threshold + 1 ELSE 0)

EventsBy(r, type) == {i \in DOMAIN trail : trail[i].by = r /\ trail[i].type = type}

\* Whoever is told that a sign-in failed or succeeded is told what was kept:
\* a failure has its one event although the call ended in an exception, a
\* success has its event and its session, and a session was opened by nobody else.
AnswersAreOnTheTrail ==
  \A r \in Requests : IsSignIn(r) /\ pc[r] \in {"replying", "answered"} =>
    /\ Cardinality(EventsBy(r, "auth_sign_in_failed")) =
         (IF answer[r] \in {"invalid", "locked"} THEN 1 ELSE 0)
    /\ Cardinality(EventsBy(r, "auth_sign_in_succeeded")) =
         (IF answer[r] = "signed_in" THEN 1 ELSE 0)
    /\ (sessions[r] # None) <=> (answer[r] = "signed_in")

\* access-v1, "Server-side sessions, invalidated on sign-out": once a sign-out
\* was answered its session is revoked and stays so, also when a visit that had
\* read the session before slides it forward after, and no request sent from
\* then on is served under its token.
SignOutIsFinal ==
  \A r \in Requests :
    /\ IsSignOut(r) /\ pc[r] \in {"replying", "answered"} =>
         SessionOf(r) = None \/ SessionOf(r).revoked_at # None
    /\ IsVisit(r) /\ answer[r] = "served" => ~call[r].after_sign_out

\* The visit of r has moved last_seen_at.
Moved(r) == IsVisit(r) /\ txn[r].row # None /\ pc[r] \in {"replying", "answered", "lost"}

\* A session lives by activity that lasted: whatever visits overlap, are refused
\* half way or are cut, each one that moves a session comes less than the idle
\* timeout after its sign-in or after an earlier visit that moved it.
SessionsLiveByActivity ==
  \A r \in Requests : Moved(r) =>
    LET s == sessions[call[r].token]
        earlier == {txn[q].stamp : q \in {p \in Requests : Moved(p) /\ call[p].token = call[r].token
                                                             /\ txn[p].stamp < txn[r].stamp}}
    IN  \E t \in earlier \cup {s.issued_at} : t <= txn[r].stamp /\ txn[r].stamp < t + Idle
================================================================================
