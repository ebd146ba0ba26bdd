------------------------------- MODULE TeamProofs -------------------------------
(* Theorems about Team, for every value of its constants. *)
EXTENDS Team, FiniteSetTheorems, TLAPS

\* A request that was sent has a call.
CallsAreKnown == \A r \in Requests : pc[r] # "unsent" => call[r] \in Call

\* What a request has written is there to be written: an inserted row meets no
\* other, a deleted row is the one the DELETE began with, and a grant records
\* nothing without its row.
WritesHold ==
  \A r \in Requests :
    /\ wrote[r] = "inserted" => Action(r) = "granted" /\ assigned[Pair(r)] = None
    /\ wrote[r] = "deleted" => /\ Action(r) = "revoked" /\ target[r] # None
                               /\ assigned[Pair(r)] = target[r]
    /\ pc[r] \in {"record", "commit"} /\ Action(r) = "granted" => wrote[r] = "inserted"
    /\ pc[r] = "delete" => Action(r) = "revoked"

\* One open transaction at a time has written a row of a pair.
PairIsHeldAlone ==
  \A q, r \in Requests :
    wrote[q] # "nothing" /\ wrote[r] # "nothing" /\ Pair(q) = Pair(r) => q = r

\* A request past audit.record holds a free operation_id, alone.
KeyIsHeldAlone ==
  \A r \in Requests : pc[r] = "commit" =>
    /\ ledger[call[r].key] = None
    /\ \A q \in Requests \ {r} : pc[q] = "commit" => call[q].key # call[r].key

OnlyRepliesTell ==
  \A r \in Requests : answer[r].kind # "none" => pc[r] \in {"replying", "answered"}

\* Finitely many operation_ids have been spent.
Spent == {k \in Keys : ledger[k] # None}

TeamInv ==
  /\ TypeOK
  /\ CallsAreKnown
  /\ WritesHold
  /\ PairIsHeldAlone
  /\ KeyIsHeldAlone
  /\ OnlyRepliesTell
  /\ IsFiniteSet(Spent)
  /\ AnswersMatchLedger
  /\ AccessIsRecorded

LEMMA InitTeam == Init => TeamInv
<1> SUFFICES ASSUME Init PROVE TeamInv
  OBVIOUS
<1> USE DEF Init
<1>1. Spent = {}
  BY DEF Spent
<1>2. \A p \in UserIds \X StoreIds : EventsOf("granted", p) = {} /\ EventsOf("revoked", p) = {}
  BY DEF EventsOf
<1>3. AccessIsRecorded
  <2> SUFFICES ASSUME NEW p \in UserIds \X StoreIds
               PROVE  /\ {assigned[p]} \ {None} \subseteq EventsOf("granted", p)
                      /\ Cardinality(EventsOf("granted", p) \ ({assigned[p]} \ {None}))
                           <= Cardinality(EventsOf("revoked", p))
    BY DEF AccessIsRecorded
  <2>1. {assigned[p]} \ {None} = {} /\ EventsOf("granted", p) \ ({assigned[p]} \ {None}) = {}
    BY <1>2
  <2>2. Cardinality({}) <= Cardinality({})
    BY FS_EmptySet
  <2> QED
    BY <1>2, <2>1, <2>2, Zenon
<1>4. TypeOK
  BY DEF TypeOK, Labels, Refuse, Answer
<1>5. CallsAreKnown /\ WritesHold /\ PairIsHeldAlone /\ KeyIsHeldAlone /\ OnlyRepliesTell
  BY DEF CallsAreKnown, WritesHold, PairIsHeldAlone, KeyIsHeldAlone, OnlyRepliesTell, Refuse
<1>6. AnswersMatchLedger
  BY DEF AnswersMatchLedger, Refuse, Done
<1> QED
  BY <1>1, <1>3, <1>4, <1>5, <1>6, FS_EmptySet DEF TeamInv

\* A step that moves request r alone and leaves both tables as they are: what r
\* may have written, hold and say afterwards.
LEMMA OwnStep ==
  ASSUME TeamInv, NEW r \in Requests, pc[r] # "unsent",
         UNCHANGED <<assigned, ledger, call>>,
         pc' = [pc EXCEPT ![r] = pc'[r]], pc'[r] \in Labels \ {"unsent"},
         target' = [target EXCEPT ![r] = target'[r]], target'[r] \in Keys \cup {None},
         wrote' = [wrote EXCEPT ![r] = wrote'[r]],
         wrote'[r] \in {"nothing", "inserted", "deleted"},
         answer' = [answer EXCEPT ![r] = answer'[r]], answer'[r] \in Answer,
         wrote'[r] # "nothing" =>
           /\ pc'[r] \in {"record", "commit"}
           /\ \A q \in Requests \ {r} : wrote[q] # "nothing" => Pair(q) # Pair(r),
         wrote'[r] = "inserted" => Action(r) = "granted" /\ assigned[Pair(r)] = None,
         wrote'[r] = "deleted" => /\ Action(r) = "revoked" /\ target'[r] # None
                                  /\ assigned[Pair(r)] = target'[r],
         pc'[r] \in {"record", "commit"} /\ Action(r) = "granted" => wrote'[r] = "inserted",
         pc'[r] = "delete" => Action(r) = "revoked",
         pc'[r] = "commit" =>
           /\ ledger[call[r].key] = None
           /\ \A q \in Requests \ {r} : pc[q] = "commit" => call[q].key # call[r].key,
         answer'[r].kind # "none" => pc'[r] \in {"replying", "answered"},
         answer'[r].kind = "done" => \/ ledger[call[r].key] = call[r].event
                                     \/ Action(r) = "revoked" /\ ~answer'[r].replayed,
         answer'[r] = Done(FALSE) => answer'[r] = answer[r] \/ Action(r) = "revoked"
  PROVE  TeamInv'
<1> USE DEF TeamInv
<1>1. TypeOK'
  BY DEF TypeOK
<1>2. CallsAreKnown'
  BY DEF CallsAreKnown, TypeOK
<1>3. WritesHold'
  <2> SUFFICES ASSUME NEW q \in Requests
               PROVE  /\ wrote'[q] = "inserted" => Action(q) = "granted" /\ assigned[Pair(q)] = None
                      /\ wrote'[q] = "deleted" => /\ Action(q) = "revoked" /\ target'[q] # None
                                                  /\ assigned[Pair(q)] = target'[q]
                      /\ pc'[q] \in {"record", "commit"} /\ Action(q) = "granted"
                           => wrote'[q] = "inserted"
                      /\ pc'[q] = "delete" => Action(q) = "revoked"
    BY DEF WritesHold, Action, Pair
  <2>1. CASE q = r
    BY <2>1
  <2>2. CASE q # r
    <3>1. wrote'[q] = wrote[q] /\ target'[q] = target[q] /\ pc'[q] = pc[q]
      BY <2>2 DEF TypeOK
    <3> QED
      BY <3>1 DEF WritesHold
  <2> QED
    BY <2>1, <2>2
<1>4. PairIsHeldAlone'
  BY DEF PairIsHeldAlone, TypeOK, Pair
<1>5. KeyIsHeldAlone'
  BY DEF KeyIsHeldAlone, TypeOK
<1>6. OnlyRepliesTell'
  BY DEF OnlyRepliesTell, TypeOK
<1>7. Spent' = Spent /\ AccessIsRecorded'
  BY DEF Spent, AccessIsRecorded, EventsOf
<1>8. AnswersMatchLedger'
  <2>1. \A q \in Requests \ {r} : answer'[q] = answer[q]
    BY DEF TypeOK
  <2>2. \A q \in Requests : answer'[q].kind = "done" =>
          ledger[call[q].key] = call[q].event \/ (Action(q) = "revoked" /\ ~answer'[q].replayed)
    <3>1. \A q \in Requests : answer[q].kind = "done" =>
            ledger[call[q].key] = call[q].event \/ (Action(q) = "revoked" /\ ~answer[q].replayed)
      BY DEF AnswersMatchLedger
    <3> QED
      BY <2>1, <3>1
  <2>3. \A q \in Requests : answer'[q] = Done(FALSE) =>
          answer[q] = Done(FALSE) \/ Action(q) = "revoked"
    BY <2>1
  <2>4. "granted" # "revoked"
    OBVIOUS
  <2> QED
    BY <2>2, <2>3, <2>4 DEF AnswersMatchLedger, Action, Done
<1> QED
  BY <1>1, <1>2, <1>3, <1>4, <1>5, <1>6, <1>7, <1>8

\* A request that leaves without writing tells what the ledger holds, or that
\* there was nothing to revoke.
LEMMA ReplyTeam ==
  ASSUME TeamInv, NEW r \in Requests, NEW a \in Answer, pc[r] # "unsent",
         Reply(r, a), UNCHANGED <<assigned, ledger, call>>,
         a.kind = "done" => \/ ledger[call[r].key] = call[r].event /\ a.replayed
                            \/ Action(r) = "revoked" /\ ~a.replayed
  PROVE  TeamInv'
<1>1. /\ pc' = [pc EXCEPT ![r] = "replying"] /\ pc'[r] = "replying"
      /\ answer' = [answer EXCEPT ![r] = a] /\ answer'[r] = a
      /\ target' = [target EXCEPT ![r] = None] /\ target'[r] = None
      /\ wrote' = [wrote EXCEPT ![r] = "nothing"] /\ wrote'[r] = "nothing"
  BY DEF Reply, Goto, TeamInv, TypeOK
<1>2. "replying" \in Labels \ {"unsent"}
  BY DEF Labels
<1>3. a = Done(FALSE) => Action(r) = "revoked"
  BY DEF Done
<1> QED
  BY <1>1, <1>2, <1>3, OwnStep

\* So does one that finds its operation_id spent.
LEMMA ReplayTeam ==
  ASSUME TeamInv, NEW r \in Requests, pc[r] # "unsent",
         Reply(r, ReplayOf(r)), UNCHANGED <<assigned, ledger, call>>
  PROVE  TeamInv'
<1>1. ReplayOf(r) \in Answer
  BY DEF ReplayOf, Done, Refuse, Answer
<1> QED
  BY <1>1, ReplyTeam DEF ReplayOf, Done, Refuse

\* A request goes on to its next statement with nothing written or said.
LEMMA GoOn ==
  ASSUME TeamInv, NEW r \in Requests, pc[r] \notin {"unsent", "record", "commit"},
         NEW l \in {"lookup", "check", "write"}, answer[r].kind = "none",
         Goto(r, l), UNCHANGED <<assigned, ledger, call, target, wrote, answer>>
  PROVE  TeamInv'
<1>1. wrote[r] = "nothing" /\ target[r] \in Keys \cup {None} /\ answer[r] \in Answer
  BY DEF TeamInv, TypeOK
<1>2. /\ pc' = [pc EXCEPT ![r] = l] /\ pc'[r] = l
      /\ target' = [target EXCEPT ![r] = target[r]] /\ target'[r] = target[r]
      /\ wrote' = [wrote EXCEPT ![r] = "nothing"] /\ wrote'[r] = "nothing"
      /\ answer' = [answer EXCEPT ![r] = answer[r]] /\ answer'[r] = answer[r]
  BY <1>1 DEF Goto, TeamInv, TypeOK
<1> QED
  BY <1>1, <1>2, OwnStep DEF Labels

LEMMA BeforeWriting ==
  ASSUME TeamInv, NEW r \in Requests, Authorize(r) \/ FindByOperation(r) \/ CheckAssignment(r)
  PROVE  TeamInv'
<1>1. pc[r] \in {"opened", "lookup", "check"} /\ answer[r].kind = "none"
  BY DEF Authorize, FindByOperation, CheckAssignment, TeamInv, OnlyRepliesTell
<1>2. \A kind \in {"forbidden", "out_of_scope", "user_not_found", "already_assigned"} :
        Refuse(kind) \in Answer /\ Refuse(kind).kind = kind
  BY DEF Refuse, Answer
<1>3. CASE Authorize(r)
  BY <1>1, <1>2, <1>3, ReplyTeam, GoOn DEF Authorize
<1>4. CASE FindByOperation(r)
  BY <1>1, <1>4, ReplayTeam, GoOn DEF FindByOperation
<1>5. CASE CheckAssignment(r)
  <2>1. Done(FALSE) \in Answer /\ ~Done(FALSE).replayed
    BY DEF Done, Answer
  <2> QED
    BY <1>1, <1>2, <1>5, <2>1, ReplyTeam, GoOn DEF CheckAssignment
<1> QED
  BY <1>3, <1>4, <1>5

LEMMA Writing ==
  ASSUME TeamInv, NEW r \in Requests, CreateAssignment(r) \/ BeginDelete(r) \/ EndDelete(r)
  PROVE  TeamInv'
<1>1. /\ pc[r] \in {"write", "delete"} /\ answer[r].kind = "none" /\ wrote[r] = "nothing"
      /\ answer[r] \in Answer /\ answer' = [answer EXCEPT ![r] = answer'[r]]
      /\ target[r] \in Keys \cup {None} /\ call[r] \in Call
  BY DEF CreateAssignment, BeginDelete, EndDelete, Reply, TeamInv, OnlyRepliesTell, TypeOK,
         CallsAreKnown
<1>2. "record" \in Labels /\ "delete" \in Labels
  BY DEF Labels
<1>3. Pair(r) \in UserIds \X StoreIds /\ assigned[Pair(r)] \in Keys \cup {None}
  BY <1>1 DEF Pair, Call, Event, TeamInv, TypeOK
<1>4. CASE CreateAssignment(r)
  <2>1. CASE assigned[Pair(r)] # None
    <3>1. Refuse("already_assigned") \in Answer /\ Refuse("already_assigned").kind # "done"
      BY DEF Refuse, Answer
    <3> QED
      BY <1>1, <1>4, <2>1, <3>1, ReplyTeam DEF CreateAssignment
  <2>2. CASE assigned[Pair(r)] = None
    <3>1. /\ pc' = [pc EXCEPT ![r] = "record"] /\ pc'[r] = "record"
          /\ target' = [target EXCEPT ![r] = target[r]] /\ target'[r] = target[r]
          /\ wrote' = [wrote EXCEPT ![r] = "inserted"] /\ wrote'[r] = "inserted"
          /\ answer' = [answer EXCEPT ![r] = answer[r]] /\ answer'[r] = answer[r]
      BY <1>4, <2>2 DEF CreateAssignment, Goto, TeamInv, TypeOK
    <3>2. \A q \in Requests \ {r} : wrote[q] # "nothing" => Pair(q) # Pair(r)
      BY <1>4 DEF CreateAssignment, PairHeld
    <3> QED
      BY <1>1, <1>2, <1>4, <2>2, <3>1, <3>2, OwnStep DEF CreateAssignment, Done
  <2> QED
    BY <2>1, <2>2
<1>5. CASE BeginDelete(r)
  <2>1. /\ pc' = [pc EXCEPT ![r] = "delete"] /\ pc'[r] = "delete"
        /\ target' = [target EXCEPT ![r] = assigned[Pair(r)]] /\ target'[r] = assigned[Pair(r)]
        /\ wrote' = [wrote EXCEPT ![r] = "nothing"] /\ wrote'[r] = "nothing"
        /\ answer' = [answer EXCEPT ![r] = answer[r]] /\ answer'[r] = answer[r]
    BY <1>1, <1>5 DEF BeginDelete, Goto, TeamInv, TypeOK
  <2> QED
    BY <1>1, <1>2, <1>3, <1>5, <2>1, OwnStep DEF BeginDelete, Done
<1>6. CASE EndDelete(r)
  <2> DEFINE w == IF target[r] # None /\ assigned[Pair(r)] = target[r] THEN "deleted" ELSE "nothing"
  <2>1. /\ pc' = [pc EXCEPT ![r] = "record"] /\ pc'[r] = "record"
        /\ target' = [target EXCEPT ![r] = target[r]] /\ target'[r] = target[r]
        /\ wrote' = [wrote EXCEPT ![r] = w] /\ wrote'[r] = w
        /\ answer' = [answer EXCEPT ![r] = answer[r]] /\ answer'[r] = answer[r]
    BY <1>1, <1>6 DEF EndDelete, Goto, TeamInv, TypeOK
  <2>2. Action(r) = "revoked"
    BY <1>6 DEF EndDelete, TeamInv, WritesHold
  <2>3. w # "nothing" => \A q \in Requests \ {r} : wrote[q] # "nothing" => Pair(q) # Pair(r)
    BY <1>6 DEF EndDelete, PairHeld
  <2> QED
    BY <1>1, <1>2, <1>6, <2>1, <2>2, <2>3, OwnStep DEF EndDelete, Done
<1> QED
  BY <1>4, <1>5, <1>6

LEMMA RecordTeam ==
  ASSUME TeamInv, NEW r \in Requests, RecordOperation(r)
  PROVE  TeamInv'
<1>1. /\ pc[r] = "record" /\ answer[r].kind = "none" /\ answer[r] \in Answer
      /\ wrote[r] \in {"nothing", "inserted", "deleted"} /\ target[r] \in Keys \cup {None}
  BY DEF RecordOperation, TeamInv, OnlyRepliesTell, TypeOK
<1>2. CASE ledger[call[r].key] # None
  BY <1>1, <1>2, ReplayTeam DEF RecordOperation
<1>3. CASE ledger[call[r].key] = None
  <2>1. /\ pc' = [pc EXCEPT ![r] = "commit"] /\ pc'[r] = "commit"
        /\ target' = [target EXCEPT ![r] = target[r]] /\ target'[r] = target[r]
        /\ wrote' = [wrote EXCEPT ![r] = wrote[r]] /\ wrote'[r] = wrote[r]
        /\ answer' = [answer EXCEPT ![r] = answer[r]] /\ answer'[r] = answer[r]
    BY <1>3 DEF RecordOperation, Goto, TeamInv, TypeOK
  <2>2. \A q \in Requests \ {r} : pc[q] = "commit" => call[q].key # call[r].key
    BY DEF RecordOperation, KeyHeld
  <2>3. \A q \in Requests \ {r} : wrote[r] # "nothing" /\ wrote[q] # "nothing" => Pair(q) # Pair(r)
    BY DEF TeamInv, PairIsHeldAlone
  <2>4. "commit" \in Labels
    BY DEF Labels
  <2>5. /\ wrote[r] = "inserted" => Action(r) = "granted" /\ assigned[Pair(r)] = None
        /\ wrote[r] = "deleted" => Action(r) = "revoked" /\ target[r] # None
                                     /\ assigned[Pair(r)] = target[r]
        /\ Action(r) = "granted" => wrote[r] = "inserted"
    BY <1>1 DEF TeamInv, WritesHold
  <2> QED
    BY <1>1, <1>3, <2>1, <2>2, <2>3, <2>4, <2>5, OwnStep DEF RecordOperation, Done
<1> QED
  BY <1>2, <1>3

LEMMA EndTeam ==
  ASSUME TeamInv, NEW r \in Requests, Deliver(r) \/ Cut(r)
  PROVE  TeamInv'
<1>1. "answered" \in Labels /\ "lost" \in Labels
  BY DEF Labels
<1>2. pc[r] # "unsent" /\ answer[r] \in Answer /\ target[r] \in Keys \cup {None}
  BY DEF Deliver, Cut, TeamInv, TypeOK
<1>3. CASE Deliver(r)
  <2>1. wrote[r] = "nothing"
    BY <1>3 DEF Deliver, TeamInv, TypeOK
  <2>2. /\ pc' = [pc EXCEPT ![r] = "answered"] /\ pc'[r] = "answered"
        /\ target' = [target EXCEPT ![r] = target[r]] /\ target'[r] = target[r]
        /\ wrote' = [wrote EXCEPT ![r] = "nothing"] /\ wrote'[r] = "nothing"
        /\ answer' = [answer EXCEPT ![r] = answer[r]] /\ answer'[r] = answer[r]
    BY <1>3, <2>1 DEF Deliver, Goto, TeamInv, TypeOK
  <2>3. answer[r].kind = "done" => \/ ledger[call[r].key] = call[r].event
                                   \/ Action(r) = "revoked" /\ ~answer[r].replayed
    BY DEF TeamInv, AnswersMatchLedger
  <2>4. "answered" \in Labels \ {"unsent"} /\ answer[r] = answer[r]
    BY <1>1
  <2> QED
    BY <1>1, <1>2, <1>3, <2>2, <2>3, <2>4, OwnStep DEF Deliver
<1>4. CASE Cut(r)
  <2>1. Refuse("none") \in Answer /\ Refuse("none").kind = "none" /\ Refuse("none") # Done(FALSE)
    BY DEF Refuse, Answer, Done
  <2>2. /\ pc' = [pc EXCEPT ![r] = "lost"] /\ pc'[r] = "lost"
        /\ target' = [target EXCEPT ![r] = None] /\ target'[r] = None
        /\ wrote' = [wrote EXCEPT ![r] = "nothing"] /\ wrote'[r] = "nothing"
        /\ answer' = [answer EXCEPT ![r] = Refuse("none")] /\ answer'[r] = Refuse("none")
    BY <1>4 DEF Cut, Goto, TeamInv, TypeOK
  <2> QED
    BY <1>1, <1>2, <1>4, <2>1, <2>2, OwnStep DEF Cut
<1> QED
  BY <1>3, <1>4

\* The table and the ledger move together: a commit changes its own pair, by the
\* row its event tells of, and spends its own operation_id.
LEMMA CommitFacts ==
  ASSUME TeamInv, NEW r \in Requests, Commit(r)
  PROVE  /\ call[r] \in Call /\ call[r].key \in Keys /\ call[r].event \in Event
         /\ Pair(r) \in UserIds \X StoreIds
         /\ ledger[call[r].key] = None
         /\ ledger' = [ledger EXCEPT ![call[r].key] = call[r].event]
         /\ assigned' = [assigned EXCEPT ![Pair(r)] = assigned'[Pair(r)]]
         /\ \/ /\ Action(r) = "granted" /\ assigned[Pair(r)] = None
               /\ assigned'[Pair(r)] = call[r].key
            \/ /\ Action(r) = "revoked"
               /\ assigned'[Pair(r)] \in {None, assigned[Pair(r)]}
               /\ assigned'[Pair(r)] # assigned[Pair(r)] => wrote[r] = "deleted"
         /\ \A q \in Requests \ {r} :
              wrote[q] # "nothing" /\ Pair(q) = Pair(r) => assigned'[Pair(r)] = assigned[Pair(r)]
<1> USE DEF TeamInv
<1>1. /\ pc[r] = "commit"
      /\ assigned' = [assigned EXCEPT ![Pair(r)] = RowAfter(r)]
      /\ ledger' = [ledger EXCEPT ![call[r].key] = call[r].event]
  BY DEF Commit
<1>2. call[r] \in Call
  BY <1>1 DEF CallsAreKnown
<1>3. /\ call[r].key \in Keys /\ call[r].event \in Event
      /\ Pair(r) \in UserIds \X StoreIds /\ Action(r) \in Actions
  BY <1>2 DEF Call, Event, Pair, Action
<1>4. ledger[call[r].key] = None
  BY <1>1 DEF KeyIsHeldAlone
<1>5. assigned'[Pair(r)] = RowAfter(r)
  BY <1>1, <1>3 DEF TypeOK
<1>6. /\ Action(r) = "granted" => wrote[r] = "inserted"
      /\ wrote[r] = "inserted" => Action(r) = "granted" /\ assigned[Pair(r)] = None
      /\ wrote[r] = "deleted" => Action(r) = "revoked"
      /\ wrote[r] \in {"nothing", "inserted", "deleted"}
  BY <1>1 DEF WritesHold, TypeOK
<1>7. \A q \in Requests \ {r} :
        wrote[q] # "nothing" /\ Pair(q) = Pair(r) => wrote[r] = "nothing"
  BY DEF PairIsHeldAlone
<1>8. wrote[r] = "nothing" => RowAfter(r) = assigned[Pair(r)]
  BY DEF RowAfter
<1> QED
  BY <1>1, <1>2, <1>3, <1>4, <1>5, <1>6, <1>7, <1>8 DEF RowAfter, Actions

\* What the ledger says of a pair after a commit: its own event and no other is new.
LEMMA CommitEvents ==
  ASSUME TeamInv, NEW r \in Requests, Commit(r),
         NEW p \in UserIds \X StoreIds, NEW action \in Actions
  PROVE  EventsOf(action, p)' =
           EventsOf(action, p) \cup
             (IF action = Action(r) /\ p = Pair(r) THEN {call[r].key} ELSE {})
<1> DEFINE e == [action |-> action, user |-> p[1], store |-> p[2]]
<1>1. e \in Event
  BY DEF Event
<1>2. e = call[r].event <=> action = Action(r) /\ p = Pair(r)
  BY CommitFacts DEF Event, Action, Pair
<1>3. \A k \in Keys : ledger'[k] = IF k = call[r].key THEN call[r].event ELSE ledger[k]
  BY CommitFacts DEF TeamInv, TypeOK
<1>4. \A k \in Keys : ledger[k] = e => k # call[r].key
  BY <1>1, CommitFacts, NoneIsNoEvent
<1>5. EventsOf(action, p)' = {k \in Keys : ledger'[k] = e}
  BY <1>1, NoneIsNoEvent DEF EventsOf
<1>6. EventsOf(action, p) = {k \in Keys : ledger[k] = e}
  BY <1>1, NoneIsNoEvent DEF EventsOf
<1> HIDE DEF e
<1> QED
  BY <1>2, <1>3, <1>4, <1>5, <1>6, CommitFacts

LEMMA EventsAreFinite ==
  ASSUME TeamInv, NEW p \in UserIds \X StoreIds, NEW action \in Actions
  PROVE  IsFiniteSet(EventsOf(action, p)) /\ Cardinality(EventsOf(action, p)) \in Nat
<1>1. EventsOf(action, p) \subseteq Spent
  BY DEF EventsOf, Spent
<1> QED
  BY <1>1, FS_Subset, FS_CardinalityType DEF TeamInv

\* A commit keeps the books of every pair balanced.
LEMMA CommitAccess ==
  ASSUME TeamInv, NEW r \in Requests, Commit(r)
  PROVE  AccessIsRecorded'
<1> SUFFICES ASSUME NEW p \in UserIds \X StoreIds
             PROVE  /\ {assigned'[p]} \ {None} \subseteq EventsOf("granted", p)'
                    /\ Cardinality(EventsOf("granted", p)' \ ({assigned'[p]} \ {None}))
                         <= Cardinality(EventsOf("revoked", p)')
  BY DEF AccessIsRecorded
<1> DEFINE k == call[r].key
           G == EventsOf("granted", p)
           R == EventsOf("revoked", p)
           F == {assigned[p]} \ {None}
<1>1. F \subseteq G /\ Cardinality(G \ F) <= Cardinality(R)
  BY DEF TeamInv, AccessIsRecorded
<1>2. IsFiniteSet(G) /\ IsFiniteSet(R) /\ Cardinality(G) \in Nat /\ Cardinality(R) \in Nat
  BY EventsAreFinite DEF Actions
<1>3. /\ EventsOf("granted", p)' = G \cup (IF "granted" = Action(r) /\ p = Pair(r) THEN {k} ELSE {})
      /\ EventsOf("revoked", p)' = R \cup (IF "revoked" = Action(r) /\ p = Pair(r) THEN {k} ELSE {})
  BY CommitEvents DEF Actions
<1>4. k \notin G /\ k \notin R /\ k \in Keys /\ k # None
  BY CommitFacts, KnownIds DEF EventsOf
<1>5. CASE p # Pair(r)
  <2>1. assigned'[p] = assigned[p]
    BY <1>5, CommitFacts DEF TeamInv, TypeOK
  <2>2. EventsOf("granted", p)' = G /\ EventsOf("revoked", p)' = R
    BY <1>3, <1>5
  <2> QED
    BY <1>1, <2>1, <2>2
<1>6. CASE p = Pair(r) /\ Action(r) = "granted"
  <2>1. assigned[p] = None /\ assigned'[p] = k
    BY <1>6, CommitFacts
  <2>2. EventsOf("granted", p)' = G \cup {k} /\ EventsOf("revoked", p)' = R
    BY <1>3, <1>6
  <2>3. F = {} /\ {assigned'[p]} \ {None} = {k}
    BY <1>4, <2>1
  <2>4. (G \cup {k}) \ {k} = G \ F
    BY <1>4, <2>3
  <2> QED
    BY <1>1, <2>2, <2>3, <2>4
<1>7. CASE p = Pair(r) /\ Action(r) = "revoked"
  <2>1. assigned'[p] \in {None, assigned[p]}
    BY <1>7, CommitFacts
  <2>2. EventsOf("granted", p)' = G /\ EventsOf("revoked", p)' = R \cup {k}
    BY <1>3, <1>7
  <2>3. Cardinality(R \cup {k}) = Cardinality(R) + 1
    BY <1>2, <1>4, FS_AddElement
  <2>4. CASE assigned'[p] = assigned[p]
    <3>1. IsFiniteSet(G \ F) /\ Cardinality(G \ F) \in Nat
      BY <1>2, FS_Subset, FS_CardinalityType
    <3>2. G \ ({assigned'[p]} \ {None}) = G \ F /\ {assigned'[p]} \ {None} = F
      BY <2>4
    <3>3. Cardinality(G \ F) <= Cardinality(R) + 1
      BY <1>1, <1>2, <3>1
    <3> HIDE DEF G, F, R
    <3> QED
      BY <1>1, <2>2, <2>3, <3>2, <3>3
  <2>5. CASE assigned'[p] = None /\ assigned[p] # None
    <3>1. F = {assigned[p]} /\ assigned[p] \in G /\ {assigned'[p]} \ {None} = {}
      BY <1>1, <2>5
    <3>2. Cardinality(G \ {assigned[p]}) = Cardinality(G) - 1
      BY <1>2, <3>1, FS_RemoveElement
    <3>3. Cardinality(G) <= Cardinality(R) + 1
      <4>1. G \ {assigned[p]} = G \ F
        BY <3>1
      <4> HIDE DEF G, F, R
      <4> QED
        BY <1>1, <1>2, <3>2, <4>1
    <3>4. G \ ({assigned'[p]} \ {None}) = G
      BY <3>1
    <3> QED
      BY <2>2, <2>3, <3>1, <3>3, <3>4
  <2> QED
    BY <2>1, <2>4, <2>5
<1>8. Action(r) \in {"granted", "revoked"}
  BY CommitFacts DEF Action, Event, Actions
<1> QED
  BY <1>5, <1>6, <1>7, <1>8

LEMMA CommitTeam ==
  ASSUME TeamInv, NEW r \in Requests, Commit(r)
  PROVE  TeamInv'
<1> USE DEF TeamInv
<1>1. /\ pc[r] = "commit" /\ UNCHANGED call
      /\ pc' = [pc EXCEPT ![r] = "replying"]
      /\ answer' = [answer EXCEPT ![r] = Done(FALSE)]
      /\ target' = [target EXCEPT ![r] = None]
      /\ wrote' = [wrote EXCEPT ![r] = "nothing"]
  BY DEF Commit, Reply, Goto
<1>2. /\ pc'[r] = "replying" /\ answer'[r] = Done(FALSE) /\ wrote'[r] = "nothing"
      /\ \A q \in Requests \ {r} : /\ pc'[q] = pc[q] /\ answer'[q] = answer[q]
                                   /\ target'[q] = target[q] /\ wrote'[q] = wrote[q]
  BY <1>1 DEF TypeOK
<1>3. assigned' \in [UserIds \X StoreIds -> Keys \cup {None}]
  BY CommitFacts DEF TypeOK
<1>4. ledger' \in [Keys -> Event \cup {None}]
  BY CommitFacts DEF TypeOK
<1>5. TypeOK'
  <2>1. Done(FALSE) \in Answer
    BY DEF Done, Answer
  <2> QED
    BY <1>1, <1>3, <1>4, <2>1 DEF TypeOK, Labels
<1>6. CallsAreKnown'
  BY <1>1, <1>2 DEF CallsAreKnown
<1>7. WritesHold'
  <2> SUFFICES ASSUME NEW q \in Requests \ {r}
               PROVE  wrote[q] # "nothing" => assigned'[Pair(q)] = assigned[Pair(q)]
    BY <1>1, <1>2 DEF WritesHold, Action, Pair
  <2>1. HAVE wrote[q] # "nothing"
  <2>2. Pair(q) \in UserIds \X StoreIds
    BY <2>1 DEF TypeOK, CallsAreKnown, Call, Event, Pair
  <2> QED
    BY <2>1, <2>2, CommitFacts DEF TypeOK
<1>8. PairIsHeldAlone'
  BY <1>1, <1>2 DEF PairIsHeldAlone, Pair
<1>9. KeyIsHeldAlone'
  <2> SUFFICES ASSUME NEW q \in Requests \ {r}, pc[q] = "commit"
               PROVE  ledger'[call[q].key] = None
    BY <1>1, <1>2 DEF KeyIsHeldAlone
  <2>1. call[q].key # call[r].key /\ ledger[call[q].key] = None /\ call[q].key \in Keys
    BY <1>1 DEF KeyIsHeldAlone, CallsAreKnown, Call
  <2> QED
    BY <2>1, CommitFacts DEF TypeOK
<1>10. OnlyRepliesTell'
  BY <1>2 DEF OnlyRepliesTell
<1>11. IsFiniteSet(Spent')
  <2>1. Spent' = Spent \cup {call[r].key}
    BY CommitFacts, NoneIsNoEvent DEF Spent, TypeOK
  <2> QED
    BY <2>1, FS_AddElement
<1>12. AnswersMatchLedger'
  <2>1. \A k \in Keys : k # call[r].key => ledger'[k] = ledger[k]
    BY CommitFacts DEF TypeOK
  <2>2. ledger'[call[r].key] = call[r].event
    BY CommitFacts DEF TypeOK
  <2>3. ASSUME NEW q \in Requests \ {r}, answer[q].kind = "done"
        PROVE  \/ /\ ledger[call[q].key] = call[q].event
                  /\ call[q].key # call[r].key /\ call[q].key \in Keys
               \/ Action(q) = "revoked" /\ ~answer[q].replayed
    <3>1. call[q] \in Call
      BY <2>3 DEF OnlyRepliesTell, CallsAreKnown
    <3>2. call[q].event # None /\ call[q].key \in Keys
      BY <3>1, NoneIsNoEvent DEF Call
    <3>3. \/ ledger[call[q].key] = call[q].event
          \/ Action(q) = "revoked" /\ ~answer[q].replayed
      BY <2>3 DEF AnswersMatchLedger
    <3>4. ledger[call[r].key] = None
      BY CommitFacts
    <3> QED
      BY <3>2, <3>3, <3>4
  <2>4. Done(FALSE).kind = "done"
    BY DEF Done
  <2>5. \A q \in Requests : answer'[q].kind = "done" =>
          ledger'[call[q].key] = call[q].event \/ (Action(q) = "revoked" /\ ~answer'[q].replayed)
    BY <1>2, <2>1, <2>2, <2>3
  <2>6. \A q \in Requests \ {r} :
          answer[q] = Done(FALSE) /\ call[q].key = call[r].key => Action(q) = "revoked"
    BY <2>3, <2>4
  <2>7. \A p, q \in Requests :
          answer'[p] = Done(FALSE) /\ answer'[q] = Done(FALSE) /\ call[p].key = call[q].key
            /\ Action(p) = "granted" /\ Action(q) = "granted" => p = q
    BY <1>2, <2>6 DEF AnswersMatchLedger
  <2> QED
    BY <1>1, <2>5, <2>7 DEF AnswersMatchLedger, Action
<1> QED
  BY <1>5, <1>6, <1>7, <1>8, <1>9, <1>10, <1>11, <1>12, CommitAccess

LEMMA SendTeam ==
  ASSUME TeamInv, NEW r \in Requests, NEW k \in Keys, NEW e \in Event, NEW role \in Roles,
         Send(r, k, e, role)
  PROVE  TeamInv'
<1> USE DEF TeamInv
<1> DEFINE c == [key |-> k, event |-> e, role |-> role]
<1>1. /\ pc[r] = "unsent" /\ UNCHANGED <<assigned, ledger, target, wrote, answer>>
      /\ pc' = [pc EXCEPT ![r] = "opened"] /\ call' = [call EXCEPT ![r] = c] /\ c \in Call
  BY DEF Send, Goto, Call
<1> HIDE DEF c
<1>2. /\ pc'[r] = "opened" /\ call'[r] = c /\ wrote[r] = "nothing" /\ answer[r].kind = "none"
      /\ \A q \in Requests \ {r} : pc'[q] = pc[q] /\ call'[q] = call[q]
  BY <1>1 DEF TypeOK, OnlyRepliesTell
<1>3. TypeOK'
  BY <1>1 DEF TypeOK, Labels
<1>4. CallsAreKnown' /\ OnlyRepliesTell'
  BY <1>1, <1>2 DEF CallsAreKnown, OnlyRepliesTell
<1>5. WritesHold' /\ PairIsHeldAlone' /\ KeyIsHeldAlone'
  BY <1>1, <1>2 DEF WritesHold, PairIsHeldAlone, KeyIsHeldAlone, Action, Pair
<1>6. IsFiniteSet(Spent') /\ AccessIsRecorded'
  BY <1>1 DEF Spent, AccessIsRecorded, EventsOf
<1>7. AnswersMatchLedger'
  <2>1. Done(FALSE).kind = "done" /\ "none" # "done"
    BY DEF Done
  <2>2. answer[r].kind # "done" /\ answer[r] # Done(FALSE)
    BY <1>2, <2>1
  <2>3. \A q \in Requests : answer[q].kind = "done" \/ answer[q] = Done(FALSE) =>
          q # r /\ call'[q] = call[q]
    BY <1>2, <2>2
  <2>4. \A q \in Requests : answer[q].kind = "done" =>
          ledger[call[q].key] = call[q].event \/ (Action(q) = "revoked" /\ ~answer[q].replayed)
    BY DEF AnswersMatchLedger
  <2>5. \A q \in Requests : answer'[q].kind = "done" =>
          \/ ledger'[call'[q].key] = call'[q].event
          \/ call'[q].event.action = "revoked" /\ ~answer'[q].replayed
    BY <1>1, <2>3, <2>4 DEF Action
  <2>6. \A p, q \in Requests :
          answer'[p] = Done(FALSE) /\ answer'[q] = Done(FALSE) /\ call'[p].key = call'[q].key
            /\ call'[p].event.action = "granted" /\ call'[q].event.action = "granted" => p = q
    <3> SUFFICES ASSUME NEW p \in Requests, NEW q \in Requests,
                        answer[p] = Done(FALSE), answer[q] = Done(FALSE),
                        call'[p].key = call'[q].key,
                        call'[p].event.action = "granted", call'[q].event.action = "granted"
                 PROVE  p = q
      BY <1>1
    <3>1. call'[p] = call[p] /\ call'[q] = call[q]
      BY <2>3
    <3> QED
      BY <3>1 DEF AnswersMatchLedger, Action
  <2> QED
    BY <2>5, <2>6 DEF AnswersMatchLedger, Action
<1> QED
  BY <1>3, <1>4, <1>5, <1>6, <1>7

LEMMA StepTeam == TeamInv /\ [Next]_vars => TeamInv'
<1> SUFFICES ASSUME TeamInv, [Next]_vars PROVE TeamInv'
  OBVIOUS
<1>1. CASE \E r \in Requests, k \in Keys, e \in Event, role \in Roles : Send(r, k, e, role)
  BY <1>1, SendTeam
<1>2. ASSUME NEW r \in Requests, Serve(r) \/ Cut(r) PROVE TeamInv'
  <2>1. CASE Authorize(r) \/ FindByOperation(r) \/ CheckAssignment(r)
    BY <2>1, BeforeWriting
  <2>2. CASE CreateAssignment(r) \/ BeginDelete(r) \/ EndDelete(r)
    BY <2>2, Writing
  <2>3. CASE RecordOperation(r)
    BY <2>3, RecordTeam
  <2>4. CASE Commit(r)
    BY <2>4, CommitTeam
  <2>5. CASE Deliver(r) \/ Cut(r)
    BY <2>5, EndTeam
  <2> QED
    BY <1>2, <2>1, <2>2, <2>3, <2>4, <2>5 DEF Serve
<1>3. CASE UNCHANGED vars
  <2> USE <1>3 DEF vars, TeamInv
  <2>1. TypeOK' /\ CallsAreKnown' /\ OnlyRepliesTell'
    BY DEF TypeOK, CallsAreKnown, OnlyRepliesTell
  <2>2. WritesHold' /\ PairIsHeldAlone' /\ KeyIsHeldAlone'
    BY DEF WritesHold, PairIsHeldAlone, KeyIsHeldAlone, Action, Pair
  <2>3. Spent' = Spent /\ AccessIsRecorded'
    BY DEF Spent, AccessIsRecorded, EventsOf
  <2>4. AnswersMatchLedger'
    BY DEF AnswersMatchLedger, Action
  <2> QED
    BY <2>1, <2>2, <2>3, <2>4
<1> QED
  BY <1>1, <1>2, <1>3 DEF Next

LEMMA TeamInvariance == Spec => []TeamInv
<1> QED
  BY InitTeam, StepTeam, PTL DEF Spec

\* Every table, response and local variable of grants and revocations keeps its
\* type, and only an open transaction past its INSERT or DELETE has written.
THEOREM TeamTypeCorrect == Spec => []TypeOK
<1>1. TeamInv => TypeOK
  BY DEF TeamInv
<1> QED
  BY <1>1, TeamInvariance, PTL

\* The audit trail explains who reaches which store: an assignment in force was
\* inserted by a recorded grant, and every recorded grant but that one has a
\* recorded revocation of its own.
THEOREM AccessIsExplained == Spec => []AccessIsRecorded
<1>1. TeamInv => AccessIsRecorded
  BY DEF TeamInv
<1> QED
  BY <1>1, TeamInvariance, PTL

\* A caller told that its request is done finds its own action on its own pair
\* under its key, or asked for a revocation that had nothing to revoke.
THEOREM TeamAnswersAgree == Spec => []AnswersMatchLedger
<1>1. TeamInv => AnswersMatchLedger
  BY DEF TeamInv
<1> QED
  BY <1>1, TeamInvariance, PTL

\* What one step may do to an assignment and to the ledger.
Recorded ==
  /\ \A p \in UserIds \X StoreIds : assigned'[p] # assigned[p] =>
       \E k \in Keys :
         /\ ledger[k] = None
         /\ ledger'[k] = [action |-> IF assigned'[p] = None THEN "revoked" ELSE "granted",
                          user |-> p[1], store |-> p[2]]
  /\ \A k \in Keys : ledger'[k] # ledger[k] =>
       /\ ledger[k] = None
       /\ ledger'[k].action = "granted" =>
            assigned'[<<ledger'[k].user, ledger'[k].store>>] = k

LEMMA CommitRecords ==
  ASSUME TeamInv, NEW r \in Requests, Commit(r)
  PROVE  Recorded
<1> DEFINE k == call[r].key
<1>1. /\ ledger[k] = None /\ k \in Keys /\ ledger'[k] = call[r].event /\ k # None
      /\ \A j \in Keys \ {k} : ledger'[j] = ledger[j]
  BY CommitFacts, KnownIds DEF TeamInv, TypeOK
<1>2. \A p \in UserIds \X StoreIds : p # Pair(r) => assigned'[p] = assigned[p]
  BY CommitFacts DEF TeamInv, TypeOK
<1>3. call[r].event = [action |-> Action(r), user |-> Pair(r)[1], store |-> Pair(r)[2]]
  BY CommitFacts DEF Event, Action, Pair
<1>4. assigned'[Pair(r)] # assigned[Pair(r)] =>
        Action(r) = IF assigned'[Pair(r)] = None THEN "revoked" ELSE "granted"
  BY <1>1, CommitFacts
<1>5. call[r].event.action = "granted" => assigned'[Pair(r)] = k
  BY CommitFacts DEF Action
<1> HIDE DEF k
<1> QED
  BY <1>1, <1>2, <1>3, <1>4, <1>5 DEF Recorded, Pair

\* An assignment appears or goes only with the event that says so, under an
\* operation_id never used before, and a recorded grant leaves the pair
\* assigned, by the very operation that was recorded.
THEOREM AccessMovesWithEvents == Spec => ChangesAreRecorded
<1>1. TeamInv /\ [Next]_vars => [Recorded]_vars
  <2> SUFFICES ASSUME TeamInv, [Next]_vars PROVE Recorded \/ UNCHANGED vars
    OBVIOUS
  <2>1. CASE \E r \in Requests : Commit(r)
    BY <2>1, CommitRecords
  <2>2. CASE UNCHANGED <<assigned, ledger>>
    BY <2>2 DEF Recorded
  <2> QED
    BY <2>1, <2>2 DEF Next, Serve, Send, Authorize, FindByOperation, CheckAssignment,
                      CreateAssignment, BeginDelete, EndDelete, RecordOperation, Deliver, Cut
<1> QED
  BY <1>1, TeamInvariance, PTL DEF Spec, ChangesAreRecorded, Recorded

--------------------------------------------------------------------------------
(* Grants and revocations are carried out in one step *)

\* Another revocation of the pair has been recorded.
Overtaken(r) == \E k \in Keys : ledger[k] = call[r].event

\* What the statement r has reached says of what it may still be told and record: a
\* revocation under way removes the row it met, or another one came first.
Due(r) ==
  /\ pc[r] = "unsent" <=> call[r] = None
  /\ pc[r] \notin {"replying", "answered", "lost"} => answer[r] = Refuse("none")
  /\ pc[r] \in {"lookup", "check", "write", "delete", "record", "commit"} => Book!Reached(call[r])
  /\ pc[r] \in {"write", "delete", "record", "commit"} /\ Action(r) = "granted" =>
       call[r].event.user \in KnownUsers
  /\ pc[r] = "write" /\ Action(r) = "revoked" => assigned[Pair(r)] # None \/ Overtaken(r)
  /\ pc[r] = "delete" => (target[r] # None /\ assigned[Pair(r)] = target[r]) \/ Overtaken(r)
  /\ pc[r] \in {"record", "commit"} /\ Action(r) = "revoked" =>
       wrote[r] = "deleted" \/ Overtaken(r)

BookInv == TeamInv /\ \A r \in Requests : Due(r)

\* Answers are the same on both sides.
LEMMA BookAnswers ==
  /\ Book!Nothing = Refuse("none")
  /\ \A kind : Book!Refusal(kind) = Refuse(kind)
  /\ \A replayed : Book!Success(replayed) = Done(replayed)
  /\ \A r : Book!PairOf(call[r].event) = Pair(r)
<1>1. \A kind : Book!Refusal(kind) = Refuse(kind)
  BY Zenon DEF Book!Refusal, Refuse
<1>2. \A replayed : Book!Success(replayed) = Done(replayed)
  BY Zenon DEF Book!Success, Done
<1> QED
  BY <1>1, <1>2 DEF Book!Nothing, Book!PairOf, Pair

LEMMA BookWaits ==
  ASSUME BookInv, NEW r \in Requests, pc[r] \notin {"unsent", "replying", "answered", "lost"}
  PROVE  /\ Book!Waiting(r, Action(r)) /\ Action(r) \in {"granted", "revoked"}
         /\ call[r] \in Call /\ call[r].key \in Keys /\ call[r].event \in Event
         /\ Pair(r) \in UserIds \X StoreIds /\ Due(r) /\ TypeOK
<1>1. Due(r) /\ pc[r] # "unsent" /\ call[r] \in Call /\ TypeOK
  BY DEF BookInv, TeamInv, CallsAreKnown
<1>2. /\ Action(r) \in {"granted", "revoked"} /\ call[r].key \in Keys /\ call[r].event \in Event
      /\ Pair(r) \in UserIds \X StoreIds
  BY <1>1 DEF Call, Event, Actions, Action, Pair
<1>3. call[r] # None /\ answer[r] = Refuse("none") /\ pc[r] # "lost"
  BY <1>1 DEF Due
<1>4. ToldTo[r] = Refuse("none")
  BY <1>3 DEF ToldTo
<1> QED
  BY <1>1, <1>2, <1>3, <1>4, BookAnswers DEF Book!Waiting, Action

\* What the caller of r is told changes with its answer.
LEMMA BookTold ==
  ASSUME BookInv, NEW r \in Requests, NEW a, Reply(r, a), call' = call
  PROVE  pc'[r] = "replying" /\ Book!Tell(r, a)
<1>1. /\ pc \in [Requests -> Labels] /\ answer \in [Requests -> Answer]
      /\ pc' = [pc EXCEPT ![r] = "replying"] /\ answer' = [answer EXCEPT ![r] = a]
  BY DEF BookInv, TeamInv, TypeOK, Reply, Goto
<1>2. /\ pc'[r] = "replying" /\ answer'[r] = a
      /\ \A q \in Requests \ {r} : pc'[q] = pc[q] /\ answer'[q] = answer[q]
  BY <1>1
<1>3. ToldTo' = [ToldTo EXCEPT ![r] = a]
  BY <1>2 DEF ToldTo
<1> QED
  BY <1>2, <1>3 DEF Book!Tell

LEMMA BookSilent ==
  ASSUME BookInv, NEW r \in Requests, NEW l, Goto(r, l), l # "lost", pc[r] # "lost", answer' = answer
  PROVE  ToldTo' = ToldTo /\ pc'[r] = l
<1>1. pc \in [Requests -> Labels] /\ pc' = [pc EXCEPT ![r] = l]
  BY DEF BookInv, TeamInv, TypeOK, Goto
<1>2. pc'[r] = l /\ \A q \in Requests \ {r} : pc'[q] = pc[q]
  BY <1>1
<1> QED
  BY <1>2 DEF ToldTo

\* One step of the book, or none.
BookMoves == Book!Next \/ UNCHANGED Book!bookVars

LEMMA BookStays ==
  ASSUME UNCHANGED <<assigned, ledger, call>>, ToldTo' = ToldTo
  PROVE  BookMoves
BY DEF BookMoves, Book!bookVars

\* Once a request is answered nothing is due from it but that it was sent.
LEMMA BookLeaves ==
  ASSUME BookInv, NEW r \in Requests, pc[r] # "unsent", call' = call,
         pc'[r] \in {"replying", "answered", "lost"}
  PROVE  Due(r)'
<1>1. call[r] # None
  BY DEF BookInv, Due
<1> QED
  BY <1>1 DEF Due

\* A request that is told no.
LEMMA BookSaysNo ==
  ASSUME BookInv, NEW r \in Requests, pc[r] \notin {"unsent", "replying", "answered", "lost"},
         NEW kind, Reply(r, Refuse(kind)), UNCHANGED <<assigned, ledger, call>>,
         \/ kind = "forbidden" /\ call[r].role # "owner"
         \/ kind = "out_of_scope" /\ call[r].role = "owner" /\ call[r].event.store \notin KnownStores
         \/ /\ kind = "conflict" /\ Book!Reached(call[r])
            /\ ledger[call[r].key] \notin {None, call[r].event}
         \/ /\ kind = "user_not_found" /\ Book!Reached(call[r]) /\ Action(r) = "granted"
            /\ call[r].event.user \notin KnownUsers
         \/ /\ kind = "already_assigned" /\ Book!Reached(call[r]) /\ Action(r) = "granted"
            /\ call[r].event.user \in KnownUsers /\ assigned[Pair(r)] # None
  PROVE  BookMoves /\ Due(r)'
<1>1. pc'[r] = "replying" /\ Book!Tell(r, Book!Refusal(kind))
  BY BookTold, BookAnswers
<1>2. Book!Waiting(r, Action(r)) /\ Action(r) \in {"granted", "revoked"}
  BY BookWaits
<1>3. Book!SayNo(r, Action(r))
  BY <1>1, <1>2, BookAnswers DEF Book!SayNo
<1>4. Book!Next
  BY <1>2, <1>3 DEF Book!Next
<1> QED
  BY <1>1, <1>4, BookLeaves DEF BookMoves

\* A request that finds its operation_id spent: on this action, or on another.
LEMMA BookReplays ==
  ASSUME BookInv, NEW r \in Requests, pc[r] \in {"lookup", "record"},
         Reply(r, ReplayOf(r)), UNCHANGED <<assigned, ledger, call>>, ledger[call[r].key] # None
  PROVE  BookMoves /\ Due(r)'
<1>1. /\ Book!Waiting(r, Action(r)) /\ Action(r) \in {"granted", "revoked"}
      /\ Book!Reached(call[r])
  BY BookWaits DEF Due
<1>2. CASE ledger[call[r].key] = call[r].event
  <2>1. pc'[r] = "replying" /\ Book!Tell(r, Book!Success(TRUE))
    BY <1>2, BookTold, BookAnswers DEF ReplayOf
  <2>2. Book!Repeat(r, Action(r))
    BY <1>1, <1>2, <2>1 DEF Book!Repeat
  <2>3. Book!Next
    BY <1>1, <2>2 DEF Book!Next
  <2> QED
    BY <2>1, <2>3, BookLeaves DEF BookMoves
<1>3. CASE ledger[call[r].key] # call[r].event
  BY <1>1, <1>3, BookSaysNo DEF ReplayOf
<1> QED
  BY <1>2, <1>3

LEMMA BookOpens ==
  ASSUME BookInv, NEW r \in Requests, Authorize(r) \/ FindByOperation(r)
  PROVE  BookMoves /\ Due(r)'
<1>1. /\ pc[r] \in {"opened", "lookup"} /\ UNCHANGED <<assigned, ledger, call>> /\ Due(r)
      /\ Action(r)' = Action(r) /\ (Book!Reached(call[r])' <=> Book!Reached(call[r]))
  BY BookWaits DEF Authorize, FindByOperation, Action, Book!Reached
<1>2. CASE Authorize(r)
  <2>1. CASE call[r].role # "owner"
    BY <1>1, <1>2, <2>1, BookSaysNo DEF Authorize, CanManageAssignments
  <2>2. CASE call[r].role = "owner" /\ call[r].event.store \notin KnownStores
    BY <1>1, <1>2, <2>2, BookSaysNo DEF Authorize, CanManageAssignments
  <2>3. CASE call[r].role = "owner" /\ call[r].event.store \in KnownStores
    <3>1. Goto(r, "lookup") /\ answer' = answer /\ Book!Reached(call[r])
      BY <1>2, <2>3 DEF Authorize, CanManageAssignments, Book!Reached
    <3>2. ToldTo' = ToldTo /\ pc'[r] = "lookup"
      BY <1>1, <3>1, BookSilent
    <3>3. Due(r)'
      BY <1>1, <3>1, <3>2 DEF Due
    <3> QED
      BY <1>1, <3>2, <3>3, BookStays
  <2> QED
    BY <2>1, <2>2, <2>3
<1>3. CASE FindByOperation(r) /\ ledger[call[r].key] # None
  BY <1>1, <1>3, BookReplays DEF FindByOperation
<1>4. CASE FindByOperation(r) /\ ledger[call[r].key] = None
  <2>1. Goto(r, "check") /\ answer' = answer /\ pc[r] = "lookup"
    BY <1>4 DEF FindByOperation
  <2>2. ToldTo' = ToldTo /\ pc'[r] = "check"
    BY <2>1, BookSilent
  <2>3. Due(r)'
    BY <1>1, <2>1, <2>2 DEF Due
  <2> QED
    BY <1>1, <2>2, <2>3, BookStays
<1> QED
  BY <1>2, <1>3, <1>4

LEMMA BookChecks ==
  ASSUME BookInv, NEW r \in Requests, CheckAssignment(r)
  PROVE  BookMoves /\ Due(r)'
<1>1. /\ pc[r] = "check" /\ UNCHANGED <<assigned, ledger, call>> /\ Due(r)
      /\ Book!Waiting(r, Action(r)) /\ Action(r) \in {"granted", "revoked"}
      /\ Action(r)' = Action(r) /\ Pair(r)' = Pair(r)
      /\ (Book!Reached(call[r])' <=> Book!Reached(call[r])) /\ Book!Reached(call[r])
  BY BookWaits DEF CheckAssignment, Action, Pair, Book!Reached, Due
<1>2. CASE Action(r) = "granted" /\ call[r].event.user \notin KnownUsers
  BY <1>1, <1>2, BookSaysNo DEF CheckAssignment
<1>3. CASE Action(r) = "granted" /\ call[r].event.user \in KnownUsers /\ assigned[Pair(r)] # None
  BY <1>1, <1>3, BookSaysNo DEF CheckAssignment
<1>4. CASE Action(r) = "revoked" /\ assigned[Pair(r)] = None
  <2>1. pc'[r] = "replying" /\ Book!Tell(r, Book!Success(FALSE))
    BY <1>1, <1>4, BookTold, BookAnswers DEF CheckAssignment
  <2>2. Book!NothingToRevoke(r)
    BY <1>1, <1>4, <2>1, BookAnswers DEF Book!NothingToRevoke
  <2>3. Book!Next
    BY <2>2 DEF Book!Next
  <2> QED
    BY <1>1, <2>1, <2>3, BookLeaves DEF BookMoves
<1>5. CASE \/ Action(r) = "granted" /\ call[r].event.user \in KnownUsers /\ assigned[Pair(r)] = None
           \/ Action(r) = "revoked" /\ assigned[Pair(r)] # None
  <2>1. Goto(r, "write") /\ answer' = answer
    BY <1>1, <1>5 DEF CheckAssignment
  <2>2. ToldTo' = ToldTo /\ pc'[r] = "write"
    BY <1>1, <2>1, BookSilent
  <2>3. Due(r)'
    BY <1>1, <1>5, <2>1, <2>2 DEF Due
  <2> QED
    BY <1>1, <2>2, <2>3, BookStays
<1> QED
  BY <1>1, <1>2, <1>3, <1>4, <1>5

LEMMA BookWrites ==
  ASSUME BookInv, NEW r \in Requests, CreateAssignment(r) \/ BeginDelete(r) \/ EndDelete(r)
  PROVE  BookMoves /\ Due(r)'
<1>1. /\ pc[r] \in {"write", "delete"} /\ UNCHANGED <<assigned, ledger, call>> /\ Due(r) /\ TypeOK
      /\ Action(r)' = Action(r) /\ Pair(r)' = Pair(r) /\ (Overtaken(r)' <=> Overtaken(r))
      /\ (Book!Reached(call[r])' <=> Book!Reached(call[r])) /\ Book!Reached(call[r])
  BY BookWaits DEF CreateAssignment, BeginDelete, EndDelete, Action, Pair, Overtaken, Due,
                   Book!Reached
<1>2. CASE CreateAssignment(r) /\ assigned[Pair(r)] # None
  BY <1>1, <1>2, BookSaysNo DEF CreateAssignment, Due
<1>3. CASE CreateAssignment(r) /\ assigned[Pair(r)] = None
  <2>1. Goto(r, "record") /\ answer' = answer /\ Action(r) = "granted"
    BY <1>3 DEF CreateAssignment
  <2>2. ToldTo' = ToldTo /\ pc'[r] = "record"
    BY <1>1, <2>1, BookSilent
  <2>3. Due(r)'
    BY <1>1, <2>1, <2>2 DEF Due
  <2> QED
    BY <1>1, <2>2, <2>3, BookStays
<1>4. CASE BeginDelete(r)
  <2>1. /\ Goto(r, "delete") /\ answer' = answer /\ pc[r] = "write" /\ Action(r) = "revoked"
        /\ target'[r] = assigned[Pair(r)]
    BY <1>1, <1>4 DEF BeginDelete, TypeOK
  <2>2. ToldTo' = ToldTo /\ pc'[r] = "delete"
    BY <1>1, <2>1, BookSilent
  <2>3. Due(r)'
    BY <1>1, <2>1, <2>2 DEF Due
  <2> QED
    BY <1>1, <2>2, <2>3, BookStays
<1>5. CASE EndDelete(r)
  <2>1. /\ Goto(r, "record") /\ answer' = answer /\ pc[r] = "delete" /\ target' = target
        /\ wrote'[r] = IF target[r] # None /\ assigned[Pair(r)] = target[r] THEN "deleted"
                       ELSE wrote[r]
    BY <1>1, <1>5 DEF EndDelete, TypeOK
  <2>2. ToldTo' = ToldTo /\ pc'[r] = "record"
    BY <1>1, <2>1, BookSilent
  <2>3. wrote'[r] = "deleted" \/ Overtaken(r)
    BY <1>1, <2>1 DEF Due
  <2>4. Due(r)'
    BY <1>1, <2>1, <2>2, <2>3 DEF Due
  <2> QED
    BY <1>1, <2>2, <2>4, BookStays
<1> QED
  BY <1>2, <1>3, <1>4, <1>5

LEMMA BookRecords ==
  ASSUME BookInv, NEW r \in Requests, RecordOperation(r)
  PROVE  BookMoves /\ Due(r)'
<1>1. /\ pc[r] = "record" /\ UNCHANGED <<assigned, ledger, call>> /\ Due(r)
      /\ Action(r)' = Action(r) /\ Pair(r)' = Pair(r) /\ (Overtaken(r)' <=> Overtaken(r))
      /\ (Book!Reached(call[r])' <=> Book!Reached(call[r])) /\ Book!Reached(call[r])
  BY BookWaits DEF RecordOperation, Action, Pair, Overtaken, Due, Book!Reached
<1>2. CASE ledger[call[r].key] # None
  BY <1>1, <1>2, BookReplays DEF RecordOperation
<1>3. CASE ledger[call[r].key] = None
  <2>1. Goto(r, "commit") /\ answer' = answer /\ wrote' = wrote
    BY <1>3 DEF RecordOperation
  <2>2. ToldTo' = ToldTo /\ pc'[r] = "commit"
    BY <1>1, <2>1, BookSilent
  <2>3. Due(r)'
    BY <1>1, <2>1, <2>2 DEF Due
  <2> QED
    BY <1>1, <2>2, <2>3, BookStays
<1> QED
  BY <1>2, <1>3

LEMMA BookEnds ==
  ASSUME BookInv, NEW r \in Requests, Deliver(r) \/ Cut(r)
  PROVE  BookMoves /\ Due(r)'
<1>1. CASE Deliver(r)
  <2>1. Goto(r, "answered") /\ answer' = answer /\ pc[r] = "replying"
        /\ UNCHANGED <<assigned, ledger, call>>
    BY <1>1 DEF Deliver
  <2>2. ToldTo' = ToldTo /\ pc'[r] = "answered"
    BY <2>1, BookSilent
  <2> QED
    BY <2>1, <2>2, BookStays, BookLeaves
<1>2. CASE Cut(r)
  <2>1. /\ pc \in [Requests -> Labels] /\ answer \in [Requests -> Answer] /\ Due(r)
        /\ pc' = [pc EXCEPT ![r] = "lost"] /\ answer' = [answer EXCEPT ![r] = Refuse("none")]
        /\ UNCHANGED <<assigned, ledger, call>> /\ pc[r] # "unsent"
    BY <1>2 DEF BookInv, TeamInv, TypeOK, Cut, Goto
  <2>2. /\ pc'[r] = "lost"
        /\ \A q \in Requests \ {r} : pc'[q] = pc[q] /\ answer'[q] = answer[q]
    BY <2>1
  <2>3. ToldTo' = [ToldTo EXCEPT ![r] = Refuse("lost")]
    BY <2>2 DEF ToldTo
  <2>4. Book!Lose(r)
    BY <2>1, <2>3, BookAnswers DEF Book!Lose, Book!Tell, Due
  <2>5. Book!Next
    BY <2>4 DEF Book!Next
  <2> QED
    BY <2>1, <2>2, <2>5, BookLeaves DEF BookMoves
<1> QED
  BY <1>1, <1>2

\* The commit is the one moment of a request that is recorded.
LEMMA BookCommits ==
  ASSUME BookInv, NEW r \in Requests, Commit(r)
  PROVE  BookMoves /\ Due(r)'
<1>1. /\ pc[r] = "commit" /\ Due(r) /\ TypeOK /\ call' = call /\ Book!Reached(call[r])
      /\ Book!Waiting(r, Action(r)) /\ Pair(r) \in UserIds \X StoreIds
      /\ Book!PairOf(call[r].event) = Pair(r)
  BY BookWaits, BookAnswers DEF Commit, Due
<1>2. /\ ledger[call[r].key] = None
      /\ ledger' = [ledger EXCEPT ![call[r].key] = call[r].event]
  BY CommitFacts DEF BookInv
<1>3. pc'[r] = "replying" /\ Book!Tell(r, Book!Success(FALSE))
  BY BookTold, BookAnswers DEF Commit
<1>4. Book!Perform(r, Action(r))
  BY <1>1, <1>2, <1>3 DEF Book!Perform
<1>5. /\ wrote[r] = "inserted" => Action(r) = "granted" /\ assigned[Pair(r)] = None
      /\ wrote[r] = "deleted" => /\ Action(r) = "revoked" /\ target[r] # None
                                 /\ assigned[Pair(r)] = target[r]
      /\ Action(r) = "granted" => wrote[r] = "inserted"
      /\ assigned' = [assigned EXCEPT ![Pair(r)] = RowAfter(r)]
  BY <1>1 DEF BookInv, TeamInv, WritesHold, Commit
<1>6. CASE Action(r) = "granted"
  <2>1. RowAfter(r) = call[r].key /\ call[r].event.user \in KnownUsers /\ assigned[Pair(r)] = None
    BY <1>1, <1>5, <1>6 DEF RowAfter, Due
  <2>2. Book!Grant(r)
    BY <1>1, <1>4, <1>5, <1>6, <2>1 DEF Book!Grant
  <2> QED
    BY <1>1, <1>3, <2>2, BookLeaves DEF BookMoves, Book!Next
<1>7. CASE wrote[r] = "deleted"
  <2>1. RowAfter(r) = None /\ assigned[Pair(r)] # None /\ Action(r) = "revoked"
    BY <1>5, <1>7 DEF RowAfter
  <2>2. Book!Revoke(r)
    BY <1>1, <1>4, <1>5, <2>1 DEF Book!Revoke
  <2> QED
    BY <1>1, <1>3, <2>2, BookLeaves DEF BookMoves, Book!Next
<1>8. CASE Action(r) = "revoked" /\ wrote[r] # "deleted"
  <2>1. wrote[r] # "inserted" /\ Overtaken(r)
    BY <1>1, <1>5, <1>8 DEF Due
  <2>2. RowAfter(r) = assigned[Pair(r)]
    BY <1>8, <2>1 DEF RowAfter
  <2>3. assigned' = assigned
    BY <1>1, <1>5, <2>2 DEF TypeOK
  <2>4. Book!RevokeOvertaken(r)
    BY <1>4, <1>8, <2>1, <2>3 DEF Book!RevokeOvertaken, Overtaken
  <2> QED
    BY <1>1, <1>3, <2>4, BookLeaves DEF BookMoves, Book!Next
<1>9. Action(r) \in {"granted", "revoked"}
  BY <1>1, BookWaits
<1> QED
  BY <1>6, <1>7, <1>8, <1>9

LEMMA BookAsks ==
  ASSUME BookInv, NEW r \in Requests, NEW k \in Keys, NEW e \in Event, NEW role \in Roles,
         Send(r, k, e, role)
  PROVE  BookMoves /\ Due(r)'
<1> DEFINE c == [key |-> k, event |-> e, role |-> role]
<1>1. /\ pc[r] = "unsent" /\ Due(r) /\ call \in [Requests -> Call \cup {None}] /\ c \in Call
      /\ c \in [key : Keys, event : Book!Event, role : Roles]
      /\ call' = [call EXCEPT ![r] = c] /\ UNCHANGED <<assigned, ledger, answer>>
      /\ Goto(r, "opened")
  BY DEF Send, BookInv, TeamInv, TypeOK, Call, Event, Book!Event, Actions
<1> HIDE DEF c
<1>2. ToldTo' = ToldTo /\ pc'[r] = "opened" /\ call'[r] = c /\ call[r] = None
  BY <1>1, BookSilent DEF Due
<1>3. Book!Ask(r, c)
  BY <1>1, <1>2 DEF Book!Ask
<1>4. Book!Next
  BY <1>1, <1>3 DEF Book!Next
<1>5. Due(r)'
  BY <1>1, <1>2, NoneIsNoEvent DEF Due
<1> QED
  BY <1>4, <1>5 DEF BookMoves

\* A step of another request leaves what is due from q, when it takes the row of the
\* pair away only as a recorded revocation.
LEMMA BookOthers ==
  ASSUME BookInv, NEW q \in Requests, call[q] # None => call[q].event \in Event,
         pc'[q] = pc[q], call'[q] = call[q], answer'[q] = answer[q],
         target'[q] = target[q], wrote'[q] = wrote[q],
         \A k \in Keys : ledger[k] # None => ledger'[k] = ledger[k],
         pc[q] \in {"write", "delete"} /\ assigned[Pair(q)] # None /\ Action(q) = "revoked" =>
           assigned'[Pair(q)] = assigned[Pair(q)] \/ \E k \in Keys : ledger'[k] = call[q].event
  PROVE  Due(q)'
<1>1. Due(q) /\ Action(q)' = Action(q) /\ Pair(q)' = Pair(q)
      /\ (Book!Reached(call[q])' <=> Book!Reached(call[q]))
  BY DEF BookInv, Action, Pair, Book!Reached
<1>2. Overtaken(q) /\ call[q] # None => Overtaken(q)'
  BY NoneIsNoEvent DEF Overtaken
<1>3. pc[q] # "unsent" => call[q] # None
  BY <1>1 DEF Due
<1>4. pc[q] = "delete" => Action(q) = "revoked"
  BY DEF BookInv, TeamInv, WritesHold
<1>5. pc[q] = "write" /\ Action(q) = "revoked" => assigned'[Pair(q)] # None \/ Overtaken(q)'
  BY <1>1, <1>2, <1>3 DEF Due, Overtaken
<1>6. pc[q] = "delete" =>
        (target[q] # None /\ assigned'[Pair(q)] = target[q]) \/ Overtaken(q)'
  BY <1>1, <1>2, <1>3, <1>4 DEF Due, Overtaken
<1>7. pc[q] \in {"record", "commit"} /\ Action(q) = "revoked" => wrote[q] = "deleted" \/ Overtaken(q)'
  BY <1>1, <1>2, <1>3 DEF Due
<1> QED
  BY <1>1, <1>5, <1>6, <1>7 DEF Due

\* The pair of another request loses its row only to a revocation of that pair.
LEMMA CommitOvertakes ==
  ASSUME BookInv, NEW r \in Requests, Commit(r), NEW q \in Requests \ {r},
         call[q].event \in Event, assigned[Pair(q)] # None, Action(q) = "revoked",
         Pair(q) \in UserIds \X StoreIds
  PROVE  assigned'[Pair(q)] = assigned[Pair(q)] \/ \E k \in Keys : ledger'[k] = call[q].event
<1>1. /\ call[r].key \in Keys /\ call[r].event \in Event /\ Pair(r) \in UserIds \X StoreIds
      /\ ledger' = [ledger EXCEPT ![call[r].key] = call[r].event]
      /\ assigned' = [assigned EXCEPT ![Pair(r)] = assigned'[Pair(r)]]
      /\ assigned[Pair(r)] # None => Action(r) = "revoked"
      /\ ledger \in [Keys -> Event \cup {None}]
      /\ assigned \in [UserIds \X StoreIds -> Keys \cup {None}]
  BY CommitFacts DEF BookInv, TeamInv, TypeOK
<1>2. CASE Pair(q) = Pair(r)
  <2>1. Action(r) = Action(q)
    BY <1>1, <1>2
  <2>2. call[r].event = call[q].event
    BY <1>1, <1>2, <2>1 DEF Event, Action, Pair
  <2>3. ledger'[call[r].key] = call[q].event
    BY <1>1, <2>2
  <2> QED
    BY <1>1, <2>3
<1>3. CASE Pair(q) # Pair(r)
  BY <1>1, <1>3
<1> QED
  BY <1>2, <1>3

LEMMA BookStep ==
  ASSUME BookInv, TeamInv', [Next]_vars
  PROVE  BookInv' /\ BookMoves
<1> USE DEF BookInv
<1>0. \A q \in Requests : call[q] # None => /\ call[q] \in Call /\ call[q].event \in Event
                                            /\ Pair(q) \in UserIds \X StoreIds
  <2>1. \A q \in Requests : call[q] # None => call[q] \in Call
    BY DEF TeamInv, TypeOK
  <2> QED
    BY <2>1 DEF Call, Event, Pair
<1>1. ASSUME NEW r \in Requests, BookMoves, Due(r)',
             \A q \in Requests \ {r} : Due(q)'
      PROVE  BookInv' /\ BookMoves
  BY <1>1
<1>2. ASSUME NEW r \in Requests,
             \A q \in Requests \ {r} :
               /\ pc'[q] = pc[q] /\ call'[q] = call[q] /\ answer'[q] = answer[q]
               /\ target'[q] = target[q] /\ wrote'[q] = wrote[q],
             UNCHANGED <<assigned, ledger>>
      PROVE  \A q \in Requests \ {r} : Due(q)'
  BY <1>0, <1>2, BookOthers
<1>3. ASSUME NEW r \in Requests, NEW k \in Keys, NEW e \in Event, NEW role \in Roles,
             Send(r, k, e, role)
      PROVE  BookInv' /\ BookMoves
  <2>1. BookMoves /\ Due(r)'
    BY <1>3, BookAsks
  <2>2. /\ UNCHANGED <<assigned, ledger>>
        /\ \A q \in Requests \ {r} :
             /\ pc'[q] = pc[q] /\ call'[q] = call[q] /\ answer'[q] = answer[q]
             /\ target'[q] = target[q] /\ wrote'[q] = wrote[q]
    BY <1>3 DEF Send, Goto, TeamInv, TypeOK
  <2>3. \A q \in Requests \ {r} : Due(q)'
    BY <1>2, <2>2
  <2> QED
    BY <1>1, <2>1, <2>3
<1>4. ASSUME NEW r \in Requests, Serve(r) \/ Cut(r), ~Commit(r) PROVE BookInv' /\ BookMoves
  <2>1. BookMoves /\ Due(r)'
    BY <1>4, BookOpens, BookChecks, BookWrites, BookRecords, BookEnds DEF Serve
  <2>2. UNCHANGED <<assigned, ledger, call>>
    BY <1>4 DEF Serve, Authorize, FindByOperation, CheckAssignment, CreateAssignment, BeginDelete,
                EndDelete, RecordOperation, Deliver, Cut
  <2> DEFINE Same(q) == /\ pc'[q] = pc[q] /\ answer'[q] = answer[q]
                        /\ target'[q] = target[q] /\ wrote'[q] = wrote[q]
  <2>3. \A q \in Requests \ {r} : Same(q)
    <3>0. /\ pc \in [Requests -> Labels] /\ answer \in [Requests -> Answer]
          /\ target \in [Requests -> Keys \cup {None}]
          /\ wrote \in [Requests -> {"nothing", "inserted", "deleted"}]
      BY DEF TeamInv, TypeOK
    <3>1. ASSUME NEW a, Reply(r, a) PROVE \A q \in Requests \ {r} : Same(q)
      BY <3>0, <3>1 DEF Reply, Goto
    <3>2. ASSUME NEW label, Goto(r, label), UNCHANGED <<target, wrote, answer>>
          PROVE  \A q \in Requests \ {r} : Same(q)
      BY <3>0, <3>2 DEF Goto
    <3>3. CASE Authorize(r) \/ FindByOperation(r) \/ CheckAssignment(r) \/ RecordOperation(r)
      BY <3>3, <3>1, <3>2 DEF Authorize, FindByOperation, CheckAssignment, RecordOperation
    <3>4. CASE CreateAssignment(r)
      <4>1. CASE assigned[Pair(r)] # None
        BY <3>4, <4>1, <3>1 DEF CreateAssignment
      <4>2. CASE assigned[Pair(r)] = None
        BY <3>0, <3>4, <4>2 DEF CreateAssignment, Goto
      <4> QED
        BY <4>1, <4>2
    <3>5. CASE BeginDelete(r)
      BY <3>0, <3>5 DEF BeginDelete, Goto
    <3>6. CASE EndDelete(r)
      BY <3>0, <3>6 DEF EndDelete, Goto
    <3>7. CASE Deliver(r)
      BY <3>7, <3>2 DEF Deliver
    <3>8. CASE Cut(r)
      BY <3>0, <3>8 DEF Cut, Goto
    <3> QED
      BY <1>4, <3>3, <3>4, <3>5, <3>6, <3>7, <3>8 DEF Serve
  <2>4. \A q \in Requests \ {r} : Due(q)'
    BY <1>2, <2>2, <2>3
  <2> QED
    BY <1>1, <2>1, <2>4
<1>5. ASSUME NEW r \in Requests, Commit(r) PROVE BookInv' /\ BookMoves
  <2>1. BookMoves /\ Due(r)'
    BY <1>5, BookCommits
  <2>2. /\ call' = call
        /\ \A q \in Requests \ {r} :
             /\ pc'[q] = pc[q] /\ answer'[q] = answer[q]
             /\ target'[q] = target[q] /\ wrote'[q] = wrote[q]
    BY <1>5 DEF Commit, Reply, Goto, TeamInv, TypeOK
  <2>3. \A k \in Keys : ledger[k] # None => ledger'[k] = ledger[k]
    BY <1>5, CommitFacts DEF TeamInv, TypeOK
  <2>4. ASSUME NEW q \in Requests \ {r} PROVE Due(q)'
    <3>1. pc[q] \in {"write", "delete"} => call[q] # None
      BY DEF Due
    <3>2. pc[q] \in {"write", "delete"} /\ assigned[Pair(q)] # None /\ Action(q) = "revoked" =>
            assigned'[Pair(q)] = assigned[Pair(q)] \/ \E k \in Keys : ledger'[k] = call[q].event
      BY <1>0, <1>5, <3>1, CommitOvertakes
    <3> QED
      BY <1>0, <2>2, <2>3, <3>2, BookOthers
  <2> QED
    BY <1>1, <2>1, <2>4
<1>6. CASE UNCHANGED vars
  <2>1. /\ UNCHANGED <<assigned, ledger, call>> /\ ToldTo' = ToldTo
        /\ \A q \in Requests :
             /\ pc'[q] = pc[q] /\ call'[q] = call[q] /\ answer'[q] = answer[q]
             /\ target'[q] = target[q] /\ wrote'[q] = wrote[q]
    BY <1>6 DEF vars, ToldTo
  <2>2. \A q \in Requests : Due(q)'
    BY <1>0, <2>1, BookOthers
  <2> QED
    BY <2>1, <2>2, BookStays
<1> QED
  BY <1>3, <1>4, <1>5, <1>6 DEF Next

LEMMA BookStarts == Init => BookInv /\ Book!Init
<1> SUFFICES ASSUME Init PROVE BookInv /\ Book!Init
  OBVIOUS
<1>1. /\ pc = [r \in Requests |-> "unsent"] /\ call = [r \in Requests |-> None]
      /\ answer = [r \in Requests |-> Refuse("none")]
  BY DEF Init
<1>2. \A r \in Requests : Due(r)
  BY <1>1 DEF Due
<1>3. ToldTo = [r \in Requests |-> Book!Nothing]
  BY <1>1, BookAnswers DEF ToldTo
<1>4. Book!Init
  BY <1>1, <1>3 DEF Init, Book!Init
<1> QED
  BY <1>2, <1>4, InitTeam DEF BookInv

\* The endpoints implement the book of assignments: whatever statements of other
\* requests come between, a grant or a revocation takes effect and is answered as if
\* it were alone, and a revocation is recorded without removing a row only when
\* another one of the same pair was recorded before.
THEOREM AccessIsABook == Spec => AccessIsAtomic
<1>1. BookInv /\ TeamInv' /\ [Next]_vars => BookInv' /\ BookMoves
  BY BookStep
<1>2. BookMoves <=> [Book!Next]_(Book!bookVars)
  BY DEF BookMoves
<1> QED
  BY <1>1, <1>2, BookStarts, TeamInvariance, PTL DEF Spec, AccessIsAtomic, Book!Spec

================================================================================
