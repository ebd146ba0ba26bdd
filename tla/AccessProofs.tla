----------------------------- MODULE AccessProofs ------------------------------
(* Theorems about Access, for every value of its constants. *)
EXTENDS Access, FiniteSetTheorems, SequenceTheorems, TLAPS

\* The local variables and uncommitted writes of one request.
Txn == [seen : Account \cup Session \cup {None}, row : Account \cup Session \cup {None},
        session : Session \cup {None}, events : Seq(Event), stamp : Time \cup {None}]

\* The requests that have left their transaction, and what a transaction that is
\* over, or a session that is over, means for the others.
Gone == {q \in Requests : pc[q] \in {"replying", "answered", "lost"}}
Token(r) == call[r].token
Over(r) == SessionOf(r) = None \/ SessionOf(r).revoked_at # None
TokenKnown(r) ==
  Token(r) \in Requests \cup {None} /\ (Token(r) # None => pc[Token(r)] = "answered")

\* x is the instant of a sign-in, or of a visit that has moved the session; x
\* comes less than the idle timeout after such an instant.
LivedAt(t, x) ==
  \/ sessions[t].issued_at = x
  \/ \E q \in Requests : Moved(q) /\ Token(q) = t /\ txn[q].stamp = x
Supported(t, x) ==
  \/ sessions[t].issued_at <= x /\ x < sessions[t].issued_at + Idle
  \/ \E q \in Requests : /\ Moved(q) /\ Token(q) = t /\ txn[q].stamp \in Time
                         /\ txn[q].stamp < x /\ x < txn[q].stamp + Idle

\* The row of a sign-in counts n failures at most.
RowCounts(r, n) ==
  txn[r].row # None => txn[r].row \in Account /\ txn[r].row.failures <= n
NewSession(r) ==
  LET s == txn[r].session
  IN  s # None => /\ s \in Session /\ s.last_seen_at = s.issued_at /\ s.issued_at <= now
                  /\ s.last_seen_at < s.expires_at

\* What each kind of request is at, by the statement it has reached.  A sign-in
\* counts one failure more at most than there are requests behind it.
SignInStanding(r) ==
  /\ pc[r] \in Labels \ {"unsent", "touch", "scope", "revoke"}
  /\ pc[r] \in {"judge", "decay", "verify", "fail", "succeed"} =>
       User(r) \in Users /\ txn[r].session = None /\ RowCounts(r, 0)
  /\ pc[r] = "commit" => RowCounts(r, Cardinality(Gone) + 1) /\ NewSession(r)

\* A visit has judged a session that is there, by activity that lasted, and
\* holds it as it is committed but for last_seen_at.
VisitStanding(r) ==
  /\ pc[r] \in {"opened", "judge", "touch", "scope", "commit", "replying", "answered", "lost"}
  /\ TokenKnown(r) /\ txn[r].session = None
  /\ pc[r] \in {"judge", "touch", "scope", "commit"} =>
       Token(r) # None /\ sessions[Token(r)] # None
  /\ pc[r] = "judge" =>
       /\ txn[r].seen \in Session /\ txn[r].seen.expires_at = sessions[Token(r)].expires_at
       /\ txn[r].seen.last_seen_at <= now /\ LivedAt(Token(r), txn[r].seen.last_seen_at)
       /\ txn[r].row = None
  /\ pc[r] \in {"touch", "scope", "commit"} =>
       /\ txn[r].stamp \in Time /\ txn[r].stamp <= now
       /\ txn[r].stamp < sessions[Token(r)].expires_at
       /\ Supported(Token(r), txn[r].stamp)
  /\ pc[r] \in {"scope", "commit"} =>
       txn[r].row = [sessions[Token(r)] EXCEPT !.last_seen_at = txn[r].stamp]
  /\ Moved(r) =>
       /\ Token(r) # None /\ sessions[Token(r)] # None
       /\ txn[r].stamp \in Time /\ Supported(Token(r), txn[r].stamp)
  /\ call[r].after_sign_out =>
       /\ Over(r) /\ answer[r] # "served"
       /\ pc[r] \in {"opened", "replying", "answered", "lost"}

SignOutStanding(r) ==
  /\ pc[r] \in {"opened", "revoke", "commit", "replying", "answered", "lost"}
  /\ TokenKnown(r) /\ txn[r].session = None
  /\ pc[r] \in {"revoke", "commit"} => txn[r].stamp \in Time
  /\ pc[r] = "commit" =>
       /\ Token(r) # None /\ sessions[Token(r)] # None
       /\ txn[r].row = [sessions[Token(r)] EXCEPT !.revoked_at = txn[r].stamp]
  /\ pc[r] \in {"replying", "answered"} => Over(r)

Standing(r) ==
  /\ IF pc[r] = "unsent" THEN call[r] = None ELSE call[r] \in Sent
  /\ pc[r] \in {"unsent", "opened"} => txn[r] = NoTxn /\ answer[r] = "none"
  /\ IsSignIn(r) => SignInStanding(r)
  /\ IsVisit(r) => VisitStanding(r)
  /\ IsSignOut(r) => SignOutStanding(r)

\* No two open requests hold one session.
HoldsSession(r) == Holding(r) /\ ~IsSignIn(r)
Apart(q, r) == HoldsSession(q) /\ HoldsSession(r) => Token(q) # Token(r)

CountsAreBounded == \A u \in Users : accounts[u].failures <= Cardinality(Gone)
SessionsLived ==
  \A t \in Requests : sessions[t] # None =>
    sessions[t].last_seen_at <= now /\ LivedAt(t, sessions[t].last_seen_at)

\* A session is there once the request that opened it has committed.
OpenersAreGone == \A t \in Requests : sessions[t] # None => t \in Gone

AccessInv ==
  /\ TypeOK /\ now <= MaxNow
  /\ \A r \in Requests : Standing(r)
  /\ \A q, r \in Requests : q # r => Apart(q, r)
  /\ CountsAreBounded /\ SessionsLived /\ OpenersAreGone

--------------------------------------------------------------------------------
(* Facts about the constants and the parts of a row *)

\* The constants are numbers that add up to instants, and None is none of them.
LEMMA PolicyFacts ==
  /\ Idle \in Nat \ {0} /\ Absolute \in Nat \ {0} /\ Duration \in Nat \ {0} /\ MaxNow \in Nat
  /\ None \notin Users /\ None \notin Requests /\ None \notin Nat
  /\ IsFiniteSet(Requests) /\ Cardinality(Requests) \in Nat
  /\ Time \subseteq Nat /\ None \notin Time
  /\ \A n \in 0 .. MaxNow : n \in Time /\ n + Absolute \in Time /\ n + Duration \in Time
BY PolicyIsSet, FS_CardinalityType DEF Time

\* A request is a sign-in, a visit or a sign-out.
LEMMA KindsOfCall ==
  ASSUME NEW r \in Requests, call[r] \in Sent
  PROVE  /\ call[r] # None
         /\ IsSignIn(r) \/ IsVisit(r) \/ IsSignOut(r)
         /\ ~(IsSignIn(r) /\ IsVisit(r)) /\ ~(IsSignIn(r) /\ IsSignOut(r))
         /\ ~(IsVisit(r) /\ IsSignOut(r))
         /\ IsSignIn(r) => User(r) \in Users \cup {None} /\ call[r].password \in BOOLEAN
         /\ ~IsSignIn(r) => Token(r) \in Requests \cup {None} /\ call[r].after_sign_out \in BOOLEAN
<1>1. call[r] # None
  BY NoneIsNoRow
<1> QED
  BY <1>1 DEF Sent, SignIn, IsSignIn, IsVisit, IsSignOut, User, Token

\* An account whose count and lock are written is an account.
LEMMA AccountWith ==
  ASSUME NEW c \in Account, NEW n \in 0 .. Cardinality(Requests), NEW l \in Time \cup {None}
  PROVE  /\ [c EXCEPT !.failures = n, !.locked_until = l] \in Account
         /\ [c EXCEPT !.failures = n, !.locked_until = l].failures = n
<1> DEFINE columns == {"active", "failures", "locked_until"}
           d == [c EXCEPT !.failures = n, !.locked_until = l]
<1>1. DOMAIN c = columns /\ c.active \in BOOLEAN
  BY Zenon DEF Account
<1>2. d.active = c.active /\ d.failures = n /\ d.locked_until = l
  BY <1>1, SMT
<1>3. d = [column \in columns |-> d[column]]
  BY <1>1, Zenon
<1> HIDE DEF d
<1>4. d \in Account
  BY <1>1, <1>2, <1>3, SMT DEF Account
<1> QED
  BY <1>2, <1>4 DEF d

\* An account that is switched off or on is an account.
LEMMA FlippedAccount ==
  ASSUME NEW c \in Account
  PROVE  /\ [c EXCEPT !.active = ~c.active] \in Account
         /\ [c EXCEPT !.active = ~c.active].failures = c.failures
<1> DEFINE columns == {"active", "failures", "locked_until"}
           d == [c EXCEPT !.active = ~c.active]
<1>1. DOMAIN c = columns /\ c.failures \in 0 .. Cardinality(Requests)
      /\ c.locked_until \in Time \cup {None}
  BY Zenon DEF Account
<1>2. d.active \in BOOLEAN /\ d.failures = c.failures /\ d.locked_until = c.locked_until
  <2>1. d.active = ~c.active
    BY <1>1, Zenon
  <2>2. d.failures = c.failures /\ d.locked_until = c.locked_until
    BY <1>1, SMT
  <2> QED
    BY <2>1, <2>2
<1>3. d = [column \in columns |-> d[column]]
  BY <1>1, Zenon
<1> HIDE DEF d
<1>4. d \in Account
  BY <1>1, <1>2, <1>3, SMT DEF Account
<1> QED
  BY <1>2, <1>4 DEF d

\* A transaction that has not begun, or is rolled back, holds nothing.
LEMMA NoTxnIsEmpty ==
  /\ NoTxn.row = None /\ NoTxn.session = None /\ NoTxn.events = <<>>
  /\ NoTxn.seen = None /\ NoTxn.stamp = None
  /\ NoTxn \in Txn
<1>1. <<>> \in Seq(Event)
  BY EmptySeq
<1> QED
  BY <1>1 DEF NoTxn, Txn

\* The requests that are over can be counted.
LEMMA GoneIsFinite ==
  IsFiniteSet(Gone) /\ Cardinality(Gone) \in Nat /\ Cardinality(Gone) <= Cardinality(Requests)
<1>1. Gone \subseteq Requests
  BY DEF Gone
<1> QED
  BY <1>1, PolicyFacts, FS_Subset, FS_CardinalityType

\* The invariant holds before the first request.
LEMMA InitAccess == Init => AccessInv
<1> SUFFICES ASSUME Init PROVE AccessInv
  OBVIOUS
<1>1. TypeOK /\ now <= MaxNow
  <2>1. accounts \in [Users -> Account]
    BY PolicyFacts DEF Init, Account
  <2>2. trail \in Seq(Event)
    BY EmptySeq DEF Init
  <2>3. now \in Time /\ now <= MaxNow
    BY PolicyFacts DEF Init
  <2> QED
    BY <2>1, <2>2, <2>3, NoTxnIsEmpty DEF Init, TypeOK, Labels, Answer, Txn
<1>2. \A r \in Requests : Standing(r)
  BY DEF Init, Standing, IsSignIn, IsVisit, IsSignOut
<1>3. \A q, r \in Requests : q # r => Apart(q, r)
  BY NoTxnIsEmpty DEF Init, Apart, HoldsSession, Holding
<1>4. CountsAreBounded /\ SessionsLived /\ OpenersAreGone
  BY GoneIsFinite DEF Init, CountsAreBounded, SessionsLived, OpenersAreGone
<1> QED
  BY <1>1, <1>2, <1>3, <1>4 DEF AccessInv

--------------------------------------------------------------------------------
(* What every step leaves to the others *)

\* Time passes, answers stay given, transactions that are over stay over and
\* keep what they moved, and a session keeps its identity, its absolute timeout
\* and its end.
World ==
  /\ now <= now' /\ now' \in Nat
  /\ \A p \in Requests : /\ pc[p] = "answered" => pc'[p] = "answered"
                         /\ p \in Gone => p \in Gone'
                         /\ Moved(p) => Moved(p)' /\ Token(p)' = Token(p) /\ txn'[p] = txn[p]
  /\ \A t \in Requests :
       /\ sessions[t] # None => /\ sessions'[t] # None
                                /\ sessions'[t].issued_at = sessions[t].issued_at
                                /\ sessions'[t].expires_at = sessions[t].expires_at
                                /\ sessions[t].revoked_at # None => sessions'[t].revoked_at # None
       /\ sessions[t] = None /\ pc[t] = "answered" => sessions'[t] = None
Kept(q) ==
  /\ pc'[q] = pc[q] /\ call'[q] = call[q] /\ txn'[q] = txn[q] /\ answer'[q] = answer[q]

\* No fewer requests are over after a step than before.
LEMMA GoneGrows ==
  ASSUME World
  PROVE  Cardinality(Gone) <= Cardinality(Gone') /\ Cardinality(Gone') \in Nat
<1>1. Gone \subseteq Gone' /\ Gone' \subseteq Requests
  BY DEF World, Gone
<1>2. IsFiniteSet(Gone')
  BY <1>1, PolicyFacts, FS_Subset
<1> QED
  BY <1>1, <1>2, FS_Subset, FS_CardinalityType

\* Activity that supported an instant goes on to support it.
LEMMA SupportStays ==
  ASSUME World, NEW t \in Requests, sessions[t] # None, NEW x
  PROVE  (LivedAt(t, x) => LivedAt(t, x)') /\ (Supported(t, x) => Supported(t, x)')
<1>1. sessions'[t].issued_at = sessions[t].issued_at
  BY DEF World
<1>2. \A q \in Requests : Moved(q) => Moved(q)' /\ Token(q)' = Token(q) /\ txn'[q] = txn[q]
  BY DEF World
<1>3. LivedAt(t, x) => LivedAt(t, x)'
  BY <1>1, <1>2 DEF LivedAt
<1>4. Supported(t, x) => Supported(t, x)'
  BY <1>1, <1>2 DEF Supported
<1> QED
  BY <1>3, <1>4

\* A token stays known, and a session that is over stays over.
LEMMA OverStays ==
  ASSUME World, NEW q \in Requests, call'[q] = call[q], TokenKnown(q)
  PROVE  TokenKnown(q)' /\ (Over(q) => Over(q)')
<1>1. Token(q)' = Token(q) /\ TokenKnown(q)'
  BY DEF World, TokenKnown, Token
<1>2. CASE Token(q) = None
  BY <1>1, <1>2 DEF Over, SessionOf, Token
<1>3. CASE Token(q) # None
  <2>1. /\ Token(q) \in Requests /\ pc[Token(q)] = "answered"
        /\ SessionOf(q) = sessions[Token(q)] /\ SessionOf(q)' = sessions'[Token(q)]
    BY <1>1, <1>3 DEF TokenKnown, SessionOf, Token
  <2> QED
    BY <1>1, <2>1 DEF Over, World
<1> QED
  BY <1>2, <1>3

\* A request that does not move keeps its standing, when the session it holds is
\* left to it.
LEMMA OthersStand ==
  ASSUME AccessInv, World, NEW q \in Requests, Kept(q),
         HoldsSession(q) /\ Token(q) \in Requests => sessions'[Token(q)] = sessions[Token(q)]
  PROVE  Standing(q)'
<1>1. TypeOK /\ Standing(q)
  BY DEF AccessInv
<1>2. /\ pc'[q] = pc[q] /\ call'[q] = call[q] /\ txn'[q] = txn[q] /\ answer'[q] = answer[q]
      /\ Token(q)' = Token(q) /\ User(q)' = User(q)
      /\ (IsSignIn(q)' <=> IsSignIn(q)) /\ (IsVisit(q)' <=> IsVisit(q))
      /\ (IsSignOut(q)' <=> IsSignOut(q))
      /\ (Moved(q)' <=> Moved(q))
  BY DEF Kept, Token, User, IsSignIn, IsVisit, IsSignOut, Moved
<1>3. now <= now' /\ now \in Nat /\ now' \in Nat
  BY <1>1, PolicyFacts DEF World, TypeOK
<1>4. ASSUME IsSignIn(q) PROVE SignInStanding(q)'
  <2>1. SignInStanding(q)
    BY <1>1, <1>4 DEF Standing
  <2>2. RowCounts(q, 0) => RowCounts(q, 0)'
    BY <1>2 DEF RowCounts
  <2>3. ASSUME RowCounts(q, Cardinality(Gone) + 1) PROVE RowCounts(q, Cardinality(Gone) + 1)'
    <3>1. SUFFICES ASSUME txn[q].row # None
                   PROVE  txn[q].row \in Account /\ txn[q].row.failures <= Cardinality(Gone') + 1
      BY <1>2 DEF RowCounts
    <3>2. txn[q].row \in Account /\ txn[q].row.failures <= Cardinality(Gone) + 1
      BY <2>3, <3>1 DEF RowCounts
    <3>3. txn[q].row.failures \in Nat
      BY <3>2, PolicyFacts DEF Account
    <3> QED
      BY <3>2, <3>3, GoneGrows, GoneIsFinite
  <2>4. ASSUME NewSession(q) PROVE NewSession(q)'
    <3>1. txn[q].session # None => txn[q].session.issued_at \in Nat
      BY <2>4, PolicyFacts DEF NewSession, Session
    <3> QED
      BY <1>2, <1>3, <2>4, <3>1 DEF NewSession
  <2> QED
    BY <1>2, <2>1, <2>2, <2>3, <2>4 DEF SignInStanding
<1>5. ASSUME IsVisit(q) PROVE VisitStanding(q)'
  <2>1. VisitStanding(q) /\ TokenKnown(q)' /\ (Over(q) => Over(q)')
    BY <1>1, <1>2, <1>5, OverStays DEF Standing, VisitStanding
  <2>2. PICK t : t = Token(q)
    OBVIOUS
  <2>3. PICK x : x = txn[q].stamp
    OBVIOUS
  <2>4. PICK y : y = txn[q].seen.last_seen_at
    OBVIOUS
  <2>5. Token(q)' = t /\ txn'[q].stamp = x /\ txn'[q].seen.last_seen_at = y
    BY <1>2, <2>2, <2>3, <2>4
  <2>6. t # None => t \in Requests /\ pc[t] = "answered"
    BY <2>1, <2>2 DEF VisitStanding, TokenKnown
  <2>7. /\ Supported(Token(q), txn[q].stamp) <=> Supported(t, x)
        /\ Supported(Token(q), txn[q].stamp)' <=> Supported(t, x)'
        /\ LivedAt(Token(q), txn[q].seen.last_seen_at) <=> LivedAt(t, y)
        /\ LivedAt(Token(q), txn[q].seen.last_seen_at)' <=> LivedAt(t, y)'
    BY <2>2, <2>3, <2>4, <2>5 DEF Supported, LivedAt
  <2>8. t # None /\ sessions[t] # None =>
          /\ sessions'[t] # None /\ sessions'[t].expires_at = sessions[t].expires_at
          /\ LivedAt(t, y) => LivedAt(t, y)'
          /\ Supported(t, x) => Supported(t, x)'
    BY <2>6, SupportStays DEF World
  <2>9. pc[q] = "judge" =>
          /\ txn'[q].seen \in Session /\ txn'[q].seen.expires_at = sessions'[t].expires_at
          /\ txn'[q].seen.last_seen_at <= now' /\ LivedAt(Token(q), txn[q].seen.last_seen_at)'
          /\ txn'[q].row = None
    <3>1. SUFFICES ASSUME pc[q] = "judge" PROVE /\ txn[q].seen \in Session
            /\ txn[q].seen.expires_at = sessions'[t].expires_at
            /\ txn[q].seen.last_seen_at <= now' /\ LivedAt(Token(q), txn[q].seen.last_seen_at)'
            /\ txn[q].row = None
      BY <1>2
    <3>2. txn[q].seen \in Session /\ txn[q].seen.last_seen_at <= now
          /\ t # None /\ sessions[t] # None
          /\ txn[q].seen.expires_at = sessions[t].expires_at /\ LivedAt(t, y) /\ txn[q].row = None
      BY <2>1, <2>2, <2>7, <3>1 DEF VisitStanding
    <3>3. txn[q].seen.last_seen_at \in Nat
      BY <3>2, PolicyFacts DEF Session
    <3> QED
      BY <1>3, <2>7, <2>8, <3>2, <3>3
  <2>10. pc[q] \in {"touch", "scope", "commit"} =>
           /\ x \in Time /\ x <= now' /\ x < sessions'[t].expires_at
           /\ Supported(Token(q), txn[q].stamp)'
    <3>1. SUFFICES ASSUME pc[q] \in {"touch", "scope", "commit"}
                   PROVE  /\ x \in Time /\ x <= now' /\ x < sessions'[t].expires_at
                          /\ Supported(Token(q), txn[q].stamp)'
      OBVIOUS
    <3>2. x \in Time /\ x <= now /\ t # None /\ sessions[t] # None
          /\ x < sessions[t].expires_at /\ Supported(t, x)
      BY <2>1, <2>2, <2>3, <2>7, <3>1 DEF VisitStanding
    <3>3. x \in Nat
      BY <3>2, PolicyFacts
    <3> QED
      BY <1>3, <2>7, <2>8, <3>2, <3>3
  <2>11. pc[q] \in {"scope", "commit"} => txn[q].row = [sessions'[t] EXCEPT !.last_seen_at = x]
    <3>1. SUFFICES ASSUME pc[q] \in {"scope", "commit"}
                   PROVE  txn[q].row = [sessions'[t] EXCEPT !.last_seen_at = x]
      OBVIOUS
    <3>2. t \in Requests /\ sessions[t] # None
          /\ txn[q].row = [sessions[t] EXCEPT !.last_seen_at = x] /\ x \in Time
      BY <2>1, <2>2, <2>3, <2>6, <3>1 DEF VisitStanding
    <3>3. txn[q].row # None
      <4>1. sessions[t] \in Session
        BY <1>1, <3>2 DEF TypeOK
      <4>2. txn[q].row \in Session
        BY <3>2, <4>1 DEF Session
      <4> QED
        BY <4>2, NoneIsNoRow
    <3>4. HoldsSession(q)
      BY <1>5, <3>1, <3>3 DEF HoldsSession, Holding, IsVisit, IsSignIn
    <3>5. sessions'[t] = sessions[t]
      BY <2>2, <3>2, <3>4
    <3> QED
      BY <3>2, <3>5
  <2>12. Moved(q) => t # None /\ sessions'[t] # None /\ x \in Time
                       /\ Supported(Token(q), txn[q].stamp)'
    BY <2>1, <2>2, <2>3, <2>7, <2>8 DEF VisitStanding
  <2>13. pc[q] \in {"judge", "touch", "scope", "commit"} => t # None /\ sessions'[t] # None
    BY <2>1, <2>2, <2>8 DEF VisitStanding
  <2> QED
    BY <1>2, <2>1, <2>2, <2>3, <2>5, <2>9, <2>10, <2>11, <2>12, <2>13 DEF VisitStanding
<1>6. ASSUME IsSignOut(q) PROVE SignOutStanding(q)'
  <2>1. SignOutStanding(q) /\ TokenKnown(q)' /\ (Over(q) => Over(q)')
    BY <1>1, <1>2, <1>6, OverStays DEF Standing, SignOutStanding
  <2>2. PICK t : t = Token(q)
    OBVIOUS
  <2>3. Token(q)' = t
    BY <1>2, <2>2
  <2>4. ASSUME pc[q] = "commit"
        PROVE  /\ t # None /\ sessions'[t] # None
               /\ txn[q].row = [sessions'[t] EXCEPT !.revoked_at = txn[q].stamp]
    <3>1. /\ t \in Requests /\ sessions[t] # None /\ txn[q].stamp \in Time
          /\ txn[q].row = [sessions[t] EXCEPT !.revoked_at = txn[q].stamp]
      BY <2>1, <2>2, <2>4 DEF SignOutStanding, TokenKnown
    <3>2. sessions[t] \in Session
      BY <1>1, <3>1 DEF TypeOK
    <3>3. txn[q].row \in Session
      BY <3>1, <3>2 DEF Session
    <3>4. HoldsSession(q)
      BY <1>6, <2>4, <3>3, NoneIsNoRow DEF HoldsSession, Holding, IsSignOut, IsSignIn
    <3> QED
      BY <2>2, <3>1, <3>4, PolicyFacts
  <2> QED
    BY <1>2, <2>1, <2>2, <2>3, <2>4 DEF SignOutStanding
<1> QED
  BY <1>1, <1>2, <1>4, <1>5, <1>6 DEF Standing

--------------------------------------------------------------------------------
(* What a step of one request that changes no table has to show *)

\* r alone moves: its call is what it was sent with, and what it has moved stays
\* once its transaction is over.
MovesAlone(r) ==
  /\ UNCHANGED <<tables, now>>
  /\ pc' = [pc EXCEPT ![r] = pc'[r]] /\ pc'[r] \in Labels
  /\ call' = [call EXCEPT ![r] = call'[r]] /\ call'[r] \in Sent
  /\ txn' = [txn EXCEPT ![r] = txn'[r]] /\ txn'[r] \in Txn
  /\ answer' = [answer EXCEPT ![r] = answer'[r]] /\ answer'[r] \in Answer
  /\ pc[r] \notin {"answered", "lost"}
  /\ pc[r] # "unsent" => call'[r] = call[r]
  /\ pc[r] = "replying" => pc'[r] \in {"answered", "lost"} /\ txn'[r] = txn[r]

\* A request that moves alone leaves the world as every step does.
LEMMA AloneInTheWorld ==
  ASSUME TypeOK, NEW r \in Requests, MovesAlone(r)
  PROVE  World /\ \A q \in Requests \ {r} : Kept(q)
<1>1. \A q \in Requests \ {r} : Kept(q)
  BY DEF MovesAlone, Kept, TypeOK
<1>2. now' = now /\ now \in Nat /\ sessions' = sessions
  BY PolicyFacts DEF MovesAlone, tables, TypeOK
<1>3. ASSUME NEW p \in Requests
      PROVE  /\ pc[p] = "answered" => pc'[p] = "answered"
             /\ p \in Gone => p \in Gone'
             /\ Moved(p) => Moved(p)' /\ Token(p)' = Token(p) /\ txn'[p] = txn[p]
  <2>1. CASE p = r
    BY <2>1 DEF MovesAlone, Gone, Moved, IsVisit, Token
  <2>2. CASE p # r
    BY <1>1, <2>2 DEF Kept, Gone, Moved, IsVisit, Token
  <2> QED
    BY <2>1, <2>2
<1> QED
  BY <1>1, <1>2, <1>3 DEF World

\* The invariant is kept when r keeps its standing and takes no session another
\* one holds.
LEMMA OwnStep ==
  ASSUME AccessInv, NEW r \in Requests, MovesAlone(r), Standing(r)',
         HoldsSession(r)' => \A q \in Requests \ {r} : HoldsSession(q) => Token(q) # Token(r)'
  PROVE  AccessInv'
<1>1. TypeOK /\ now <= MaxNow /\ World /\ \A q \in Requests \ {r} : Kept(q)
  BY AloneInTheWorld DEF AccessInv
<1>2. sessions' = sessions /\ accounts' = accounts /\ trail' = trail /\ now' = now
  BY DEF MovesAlone, tables
<1>3. TypeOK'
  <2>1. pc' \in [Requests -> Labels] /\ call' \in [Requests -> Sent \cup {None}]
    BY <1>1 DEF TypeOK, MovesAlone
  <2>2. answer' \in [Requests -> Answer] /\ txn' \in [Requests -> Txn]
    BY <1>1 DEF TypeOK, MovesAlone, Txn
  <2> QED
    BY <1>1, <1>2, <2>1, <2>2 DEF TypeOK, Txn
<1>4. \A q \in Requests : Standing(q)'
  BY <1>1, <1>2, OthersStand
<1>5. \A q \in Requests \ {r} : (HoldsSession(q)' <=> HoldsSession(q)) /\ Token(q)' = Token(q)
  BY <1>1 DEF Kept, HoldsSession, Holding, IsSignIn, Token
<1>6. ASSUME NEW p \in Requests, NEW q \in Requests, p # q PROVE Apart(p, q)'
  <2>1. Apart(p, q)
    BY <1>6 DEF AccessInv
  <2> QED
    BY <1>5, <1>6, <2>1 DEF Apart
<1>7. CountsAreBounded'
  <2> SUFFICES ASSUME NEW u \in Users PROVE accounts[u].failures <= Cardinality(Gone')
    BY <1>2 DEF CountsAreBounded
  <2>1. accounts[u].failures \in Nat /\ accounts[u].failures <= Cardinality(Gone)
    BY <1>1, PolicyFacts DEF TypeOK, Account, AccessInv, CountsAreBounded
  <2> QED
    BY <1>1, <2>1, GoneGrows, GoneIsFinite
<1>8. SessionsLived'
  <2> SUFFICES ASSUME NEW t \in Requests, sessions[t] # None
               PROVE  sessions[t].last_seen_at <= now /\ LivedAt(t, sessions[t].last_seen_at)'
    BY <1>2 DEF SessionsLived
  <2>1. PICK x : x = sessions[t].last_seen_at
    OBVIOUS
  <2>2. sessions[t].last_seen_at <= now /\ LivedAt(t, x)
    BY <2>1 DEF AccessInv, SessionsLived
  <2>3. LivedAt(t, x)'
    BY <1>1, <2>2, SupportStays
  <2>4. LivedAt(t, sessions[t].last_seen_at)' <=> LivedAt(t, x)'
    BY <1>2, <2>1 DEF LivedAt
  <2> QED
    BY <2>2, <2>3, <2>4
<1>9. OpenersAreGone'
  BY <1>1, <1>2 DEF OpenersAreGone, AccessInv, World
<1> QED
  BY <1>1, <1>2, <1>3, <1>4, <1>6, <1>7, <1>8, <1>9 DEF AccessInv

\* What a step of the service is: a label, an answer, and local variables.
Active == {"opened", "judge", "decay", "verify", "fail", "succeed", "touch", "scope", "revoke",
           "commit"}
Acts(r, label, t, a) ==
  /\ pc[r] \in Active /\ UNCHANGED <<tables, now, call>>
  /\ label \in Labels /\ t \in Txn /\ a \in Answer
  /\ pc' = [pc EXCEPT ![r] = label]
  /\ txn' = [txn EXCEPT ![r] = t]
  /\ answer' = [answer EXCEPT ![r] = a]

\* A step of the service is one of those, and keeps what the request asks for.
LEMMA ActsAlone ==
  ASSUME AccessInv, NEW r \in Requests, NEW label, NEW t, NEW a, Acts(r, label, t, a)
  PROVE  /\ MovesAlone(r) /\ World /\ call[r] \in Sent
         /\ pc'[r] = label /\ txn'[r] = t /\ answer'[r] = a /\ call'[r] = call[r]
         /\ sessions' = sessions /\ now' = now /\ accounts' = accounts
         /\ IsSignIn(r)' <=> IsSignIn(r)
         /\ IsVisit(r)' <=> IsVisit(r)
         /\ IsSignOut(r)' <=> IsSignOut(r)
         /\ Token(r)' = Token(r) /\ User(r)' = User(r)
         /\ Over(r)' <=> Over(r)
<1>1. TypeOK /\ Standing(r)
  BY DEF AccessInv
<1>2. call[r] \in Sent
  BY <1>1 DEF Standing, Acts, Active
<1>3. /\ pc'[r] = label /\ txn'[r] = t /\ answer'[r] = a /\ call' = call
      /\ sessions' = sessions /\ now' = now /\ accounts' = accounts
  BY <1>1 DEF Acts, TypeOK, tables
<1>4. MovesAlone(r)
  BY <1>1, <1>2, <1>3 DEF MovesAlone, Acts, Active, TypeOK
<1> QED
  BY <1>1, <1>2, <1>3, <1>4, AloneInTheWorld
  DEF IsSignIn, IsVisit, IsSignOut, Token, User, Over, SessionOf

\* A request goes on by the three operators the actions are written with.
LEMMA WaysToAct ==
  ASSUME AccessInv, NEW r \in Requests, pc[r] \in Active, UNCHANGED <<tables, now, call>>,
         NEW label \in Labels, NEW t \in Txn, NEW a \in Answer
  PROVE  /\ Continue(r, label, t) => Acts(r, label, t, answer[r])
         /\ Conclude(r, a, t) => Acts(r, "commit", t, a)
         /\ Reply(r, a) => Acts(r, "replying", NoTxn, a)
<1>1. TypeOK
  BY DEF AccessInv
<1> QED
  BY <1>1, NoTxnIsEmpty DEF Acts, Continue, Conclude, Reply, Goto, TypeOK, Labels

\* A request under way is not counted yet among those that are over.
LEMMA RoomToCount ==
  ASSUME NEW r \in Requests, r \notin Gone
  PROVE  Cardinality(Gone) + 1 <= Cardinality(Requests)
<1>1. Gone \cup {r} \subseteq Requests /\ IsFiniteSet(Gone)
  BY GoneIsFinite DEF Gone
<1>2. Cardinality(Gone \cup {r}) = Cardinality(Gone) + 1
  BY <1>1, FS_AddElement
<1>3. Cardinality(Gone \cup {r}) <= Cardinality(Requests)
  BY <1>1, PolicyFacts, FS_Subset
<1> QED
  BY <1>2, <1>3

--------------------------------------------------------------------------------
(* sign_in *)

\* A sign-in counts one failure more at most than there are requests gone.
LEMMA SignInActs ==
  ASSUME AccessInv, NEW r \in Requests, IsSignIn(r), NEW label, NEW t, NEW a,
         Acts(r, label, t, a), label \in Labels \ {"unsent", "opened", "touch", "scope", "revoke"},
         t.row # None => t.row \in Account /\ t.row.failures <= Cardinality(Gone) + 1,
         label \in {"judge", "decay", "verify", "fail", "succeed"} =>
           /\ User(r) \in Users /\ t.session = None
           /\ t.row # None => t.row.failures <= 0,
         label = "commit" /\ t.session # None =>
           /\ t.session \in Session /\ t.session.last_seen_at = t.session.issued_at
           /\ t.session.issued_at <= now /\ t.session.last_seen_at < t.session.expires_at
  PROVE  AccessInv'
<1>1. /\ MovesAlone(r) /\ World /\ call[r] \in Sent
      /\ pc'[r] = label /\ txn'[r] = t /\ call'[r] = call[r] /\ now' = now
      /\ IsSignIn(r)' /\ User(r)' = User(r)
  BY ActsAlone
<1>2. ~IsVisit(r)' /\ ~IsSignOut(r)' /\ ~HoldsSession(r)'
  BY <1>1 DEF IsSignIn, IsVisit, IsSignOut, HoldsSession
<1>3. t.row # None => t.row \in Account /\ t.row.failures <= Cardinality(Gone') + 1
  <2>1. SUFFICES ASSUME t.row # None PROVE t.row.failures <= Cardinality(Gone') + 1
    OBVIOUS
  <2>2. t.row.failures \in Nat
    BY <2>1, PolicyFacts DEF Account
  <2> QED
    BY <1>1, <2>1, <2>2, GoneGrows, GoneIsFinite
<1>4. SignInStanding(r)'
  BY <1>1, <1>3 DEF SignInStanding, RowCounts, NewSession
<1>5. Standing(r)'
  BY <1>1, <1>2, <1>4 DEF Standing
<1> QED
  BY <1>1, <1>2, <1>5, OwnStep

\* The events of a sign-in are events.
LEMMA RecordedTyped ==
  ASSUME NEW r \in Requests, call[r] \in Sent, IsSignIn(r),
         NEW type \in {"auth_sign_in_succeeded", "auth_sign_in_failed",
                       "auth_account_locked", "auth_account_unlocked"},
         NEW reason \in Reason, NEW events \in Seq(Event)
  PROVE  /\ Recorded(r, type, reason) \in Seq(Event)
         /\ events \o Recorded(r, type, reason) \in Seq(Event)
<1>1. [type |-> type, reason |-> reason, actor |-> User(r), by |-> r] \in Event
  BY KindsOfCall DEF Event
<1>2. Recorded(r, type, reason) \in Seq(Event)
  BY <1>1 DEF Recorded
<1> QED
  BY <1>2, ConcatProperties

\* The row an UPDATE of a sign-in finds is an account with a count that has room.
LEMMA CurrentTyped ==
  ASSUME AccessInv, NEW r \in Requests, IsSignIn(r),
         pc[r] \in {"decay", "verify", "fail", "succeed"}
  PROVE  /\ User(r) \in Users /\ txn[r].session = None /\ RowCounts(r, 0)
         /\ Current(r) \in Account /\ Current(r).failures <= Cardinality(Gone)
         /\ Current(r).failures + 1 <= Cardinality(Requests)
         /\ Reset(Current(r)) \in Account /\ Reset(Current(r)).failures = 0
<1>1. TypeOK /\ CountsAreBounded /\ SignInStanding(r) /\ r \notin Gone
  BY DEF AccessInv, Standing, Gone
<1>2. User(r) \in Users /\ txn[r].session = None /\ RowCounts(r, 0)
  BY <1>1 DEF SignInStanding
<1>3. Current(r) \in Account
  BY <1>1, <1>2 DEF Current, RowCounts, TypeOK
<1>4. Current(r).failures \in Nat /\ Current(r).failures <= Cardinality(Gone)
  <2>1. Current(r).failures \in Nat
    BY <1>3, PolicyFacts DEF Account
  <2> QED
    BY <1>1, <1>2, <2>1, GoneIsFinite DEF Current, RowCounts, CountsAreBounded
<1>5. Current(r).failures + 1 <= Cardinality(Requests)
  BY <1>1, <1>4, RoomToCount, GoneIsFinite, PolicyFacts
<1>6. Reset(Current(r)) \in Account /\ Reset(Current(r)).failures = 0
  <2>1. 0 \in 0 .. Cardinality(Requests) /\ None \in Time \cup {None}
    BY PolicyFacts
  <2>2. /\ [Current(r) EXCEPT !.failures = 0, !.locked_until = None] \in Account
        /\ [Current(r) EXCEPT !.failures = 0, !.locked_until = None].failures = 0
    BY <1>3, <2>1, AccountWith
  <2> QED
    BY <2>2 DEF Reset
<1> QED
  BY <1>2, <1>3, <1>4, <1>5, <1>6

\* The row of the account is read, or the attempt has failed already.
LEMMA ReadCredentialsKeeps ==
  ASSUME AccessInv, NEW r \in Requests, ReadCredentials(r)
  PROVE  AccessInv'
<1>1. /\ TypeOK /\ Standing(r) /\ pc[r] = "opened" /\ IsSignIn(r) /\ pc[r] \in Active
      /\ UNCHANGED <<tables, now, call>>
  BY DEF AccessInv, ReadCredentials, Active
<1>2. /\ call[r] \in Sent /\ txn[r] = NoTxn /\ answer[r] \in Answer /\ txn[r] \in Txn
      /\ User(r) \in Users \cup {None}
  BY <1>1, KindsOfCall, NoTxnIsEmpty DEF Standing, TypeOK
<1>3. ASSUME NEW reason \in {"invalid_credentials", "account_inactive"},
             Conclude(r, "invalid", [txn[r] EXCEPT
               !.events = Recorded(r, "auth_sign_in_failed", reason)])
      PROVE  AccessInv'
  <2> DEFINE t == [txn[r] EXCEPT !.events = Recorded(r, "auth_sign_in_failed", reason)]
  <2>1. Recorded(r, "auth_sign_in_failed", reason) \in Seq(Event)
    BY <1>1, <1>2, <1>3, RecordedTyped, NoTxnIsEmpty DEF Reason, Txn
  <2>2. t \in Txn /\ t.row = None /\ t.session = None
    BY <1>2, <2>1, NoTxnIsEmpty DEF Txn, NoTxn
  <2>3. Conclude(r, "invalid", t) /\ "invalid" \in Answer
    BY <1>3 DEF Answer
  <2> HIDE DEF t
  <2>4. Acts(r, "commit", t, "invalid")
    BY <1>1, <2>2, <2>3, WaysToAct DEF Labels
  <2> QED
    BY <1>1, <2>2, <2>4, SignInActs DEF Labels
<1>4. CASE User(r) # None /\ Continue(r, "judge", [txn[r] EXCEPT !.seen = accounts[User(r)]])
  <2> DEFINE t == [txn[r] EXCEPT !.seen = accounts[User(r)]]
  <2>1. User(r) \in Users /\ accounts[User(r)] \in Account
    BY <1>1, <1>2, <1>4 DEF TypeOK
  <2>2. t \in Txn /\ t.row = None /\ t.session = None
    BY <1>2, <2>1, NoTxnIsEmpty DEF Txn, NoTxn
  <2>3. Continue(r, "judge", t)
    BY <1>4
  <2> HIDE DEF t
  <2>4. Acts(r, "judge", t, answer[r])
    BY <1>1, <1>2, <2>2, <2>3, WaysToAct DEF Labels
  <2> QED
    BY <1>1, <2>1, <2>2, <2>4, SignInActs DEF Labels
<1> QED
  BY <1>3, <1>4 DEF ReadCredentials

\* A lock that holds ends the attempt, one that has expired goes on to its reset.
LEMMA JudgeLockKeeps ==
  ASSUME AccessInv, NEW r \in Requests, JudgeLock(r)
  PROVE  AccessInv'
<1>1. /\ TypeOK /\ Standing(r) /\ pc[r] = "judge" /\ IsSignIn(r) /\ pc[r] \in Active
      /\ UNCHANGED <<tables, now, call>>
  BY DEF AccessInv, JudgeLock, Active
<1>2. /\ call[r] \in Sent /\ txn[r] \in Txn /\ answer[r] \in Answer
      /\ User(r) \in Users /\ txn[r].session = None /\ RowCounts(r, 0)
  BY <1>1 DEF Standing, SignInStanding, TypeOK, Txn
<1>3. txn[r].row # None => /\ txn[r].row \in Account /\ txn[r].row.failures <= 0
                           /\ txn[r].row.failures <= Cardinality(Gone) + 1
  BY <1>2, PolicyFacts, GoneIsFinite DEF RowCounts, Account
<1>4. ASSUME NEW label \in {"verify", "decay"}, Continue(r, label, txn[r]) PROVE AccessInv'
  <2>1. Acts(r, label, txn[r], answer[r])
    BY <1>1, <1>2, <1>4, WaysToAct DEF Labels
  <2> QED
    BY <1>1, <1>2, <1>3, <2>1, SignInActs DEF Labels
<1>5. ASSUME Conclude(r, "locked", [txn[r] EXCEPT
               !.events = Recorded(r, "auth_sign_in_failed", "account_locked")])
      PROVE  AccessInv'
  <2> DEFINE t == [txn[r] EXCEPT
                     !.events = Recorded(r, "auth_sign_in_failed", "account_locked")]
  <2>1. Recorded(r, "auth_sign_in_failed", "account_locked") \in Seq(Event)
    BY <1>1, <1>2, RecordedTyped DEF Reason, Txn
  <2>2. t \in Txn /\ t.row = txn[r].row /\ t.session = None
    BY <1>2, <2>1 DEF Txn
  <2>3. Conclude(r, "locked", t) /\ "locked" \in Answer
    BY <1>5 DEF Answer
  <2> HIDE DEF t
  <2>4. Acts(r, "commit", t, "locked")
    BY <1>1, <2>2, <2>3, WaysToAct DEF Labels
  <2> QED
    BY <1>1, <1>3, <2>2, <2>4, SignInActs DEF Labels
<1> QED
  BY <1>4, <1>5 DEF JudgeLock

\* The count of an expired lock starts again in the request's own row.
LEMMA DecayKeeps ==
  ASSUME AccessInv, NEW r \in Requests, Decay(r), IsSignIn(r)
  PROVE  AccessInv'
<1>1. /\ TypeOK /\ Standing(r) /\ pc[r] = "decay" /\ pc[r] \in Active
      /\ UNCHANGED <<tables, now, call>>
  BY DEF AccessInv, Decay, Active
<1>2. call[r] \in Sent /\ txn[r] \in Txn /\ answer[r] \in Answer
  BY <1>1 DEF Standing, TypeOK, Txn
<1>3. /\ User(r) \in Users /\ txn[r].session = None
      /\ Reset(Current(r)) \in Account /\ Reset(Current(r)).failures = 0
  BY <1>1, CurrentTyped
<1> DEFINE t == [txn[r] EXCEPT !.row = Reset(Current(r)),
                   !.events = @ \o Recorded(r, "auth_account_unlocked", "lock_expired")]
<1>4. txn[r].events \o Recorded(r, "auth_account_unlocked", "lock_expired") \in Seq(Event)
  BY <1>2, RecordedTyped DEF Reason, Txn
<1>5. t \in Txn /\ t.row = Reset(Current(r)) /\ t.session = None
  BY <1>2, <1>3, <1>4 DEF Txn
<1>6. Continue(r, "verify", t)
  BY DEF Decay
<1> HIDE DEF t
<1>7. Acts(r, "verify", t, answer[r])
  BY <1>1, <1>2, <1>5, <1>6, WaysToAct DEF Labels
<1> QED
  BY <1>3, <1>5, <1>7, GoneIsFinite, SignInActs DEF Labels

\* Password and second factor send the attempt on its way.
LEMMA VerifyKeeps ==
  ASSUME AccessInv, NEW r \in Requests, Verify(r), IsSignIn(r)
  PROVE  AccessInv'
<1>1. /\ TypeOK /\ Standing(r) /\ pc[r] = "verify" /\ pc[r] \in Active
      /\ UNCHANGED <<tables, now, call>>
  BY DEF AccessInv, Verify, Active
<1>2. txn[r] \in Txn /\ answer[r] \in Answer
  BY <1>1 DEF TypeOK, Txn
<1>3. User(r) \in Users /\ txn[r].session = None /\ RowCounts(r, 0)
  BY <1>1, CurrentTyped
<1>4. txn[r].row # None => /\ txn[r].row \in Account /\ txn[r].row.failures <= 0
                           /\ txn[r].row.failures <= Cardinality(Gone) + 1
  BY <1>3, PolicyFacts, GoneIsFinite DEF RowCounts, Account
<1>5. ASSUME NEW label \in {"fail", "succeed"}, Continue(r, label, txn[r]) PROVE AccessInv'
  <2>1. Acts(r, label, txn[r], answer[r])
    BY <1>1, <1>2, <1>5, WaysToAct DEF Labels
  <2> QED
    BY <1>3, <1>4, <2>1, SignInActs DEF Labels
<1>6. ASSUME Conclude(r, "mfa_required", txn[r]) PROVE AccessInv'
  <2>1. Acts(r, "commit", txn[r], "mfa_required")
    BY <1>1, <1>2, <1>6, WaysToAct DEF Labels, Answer
  <2> QED
    BY <1>3, <1>4, <2>1, SignInActs DEF Labels
<1> QED
  BY <1>5, <1>6 DEF Verify

\* A failure adds one to a count that has room for it.
LEMMA RecordFailureKeeps ==
  ASSUME AccessInv, NEW r \in Requests, RecordFailure(r), IsSignIn(r)
  PROVE  AccessInv'
<1>1. /\ TypeOK /\ Standing(r) /\ pc[r] = "fail" /\ pc[r] \in Active
      /\ UNCHANGED <<tables, now, call>>
  BY DEF AccessInv, RecordFailure, Active
<1>2. call[r] \in Sent /\ txn[r] \in Txn /\ txn[r].events \in Seq(Event)
  BY <1>1 DEF Standing, TypeOK, Txn
<1>3. /\ User(r) \in Users /\ txn[r].session = None
      /\ Current(r) \in Account /\ Current(r).failures <= Cardinality(Gone)
      /\ Current(r).failures + 1 <= Cardinality(Requests)
  BY <1>1, CurrentTyped
<1> DEFINE locks == CountOneMore(r) >= Threshold
           reason == IF call[r].password THEN "invalid_mfa_code" ELSE "invalid_credentials"
           failed == Recorded(r, "auth_sign_in_failed", reason)
           row == [Current(r) EXCEPT !.failures = CountOneMore(r),
                                     !.locked_until = IF locks THEN now + Duration ELSE @]
           tail == IF locks THEN Recorded(r, "auth_account_locked", "none") ELSE <<>>
           t == [txn[r] EXCEPT !.row = row, !.events = @ \o failed \o tail]
<1>4. row \in Account /\ row.failures <= Cardinality(Gone) + 1
  <2>1. CountOneMore(r) = Current(r).failures + 1
    BY DEF CountOneMore
  <2>2. now + Duration \in Time
    BY <1>1, PolicyFacts DEF AccessInv, TypeOK
  <2>3. \A c \in Account : \A l \in Time \cup {None} :
          c.failures + 1 <= Cardinality(Requests) /\ c.failures <= Cardinality(Gone) =>
            LET new == [c EXCEPT !.failures = c.failures + 1, !.locked_until = l]
            IN  new \in Account /\ new.failures <= Cardinality(Gone) + 1
    <3> SUFFICES ASSUME NEW c \in Account, NEW l \in Time \cup {None},
                        c.failures + 1 <= Cardinality(Requests), c.failures <= Cardinality(Gone)
                 PROVE  LET new == [c EXCEPT !.failures = c.failures + 1, !.locked_until = l]
                        IN  new \in Account /\ new.failures <= Cardinality(Gone) + 1
      OBVIOUS
    <3>1. c.failures \in Nat
      BY PolicyFacts DEF Account
    <3>2. c.failures + 1 \in 0 .. Cardinality(Requests) /\ c.failures + 1 <= Cardinality(Gone) + 1
      BY <3>1, PolicyFacts, GoneIsFinite
    <3> QED
      BY <3>2, AccountWith
  <2>4. PICK l \in Time \cup {None} :
          row = [Current(r) EXCEPT !.failures = Current(r).failures + 1, !.locked_until = l]
    <3>1. CASE locks
      BY <2>1, <2>2, <3>1
    <3>2. CASE ~locks
      <4>1. Current(r).locked_until \in Time \cup {None}
        BY <1>3 DEF Account
      <4> QED
        BY <2>1, <3>2, <4>1
    <3> QED
      BY <3>1, <3>2
  <2> QED
    BY <1>3, <2>3, <2>4
<1>5. txn[r].events \o failed \o tail \in Seq(Event)
  <2>1. txn[r].events \o failed \in Seq(Event)
    BY <1>2, RecordedTyped DEF Reason
  <2>2. tail \in Seq(Event)
    BY <1>2, RecordedTyped, EmptySeq DEF Reason
  <2> QED
    BY <2>1, <2>2, ConcatProperties
<1>6. Conclude(r, IF locks THEN "locked" ELSE "invalid", t)
  BY DEF RecordFailure
<1> HIDE DEF locks, failed, row, tail
<1>7. t \in Txn /\ t.row = row /\ t.session = None
  BY <1>2, <1>3, <1>4, <1>5 DEF Txn
<1> HIDE DEF t
<1>8. PICK a \in Answer : Acts(r, "commit", t, a)
  <2>1. (IF locks THEN "locked" ELSE "invalid") \in Answer
    BY DEF Answer
  <2> QED
    BY <1>1, <1>6, <1>7, <2>1, WaysToAct DEF Labels
<1> QED
  BY <1>4, <1>7, <1>8, SignInActs DEF Labels

\* A success resets the count and brings a session that is new.
LEMMA OpenSessionKeeps ==
  ASSUME AccessInv, NEW r \in Requests, OpenSession(r), IsSignIn(r)
  PROVE  AccessInv'
<1>1. /\ TypeOK /\ Standing(r) /\ pc[r] = "succeed" /\ pc[r] \in Active
      /\ UNCHANGED <<tables, now, call>>
  BY DEF AccessInv, OpenSession, Active
<1>2. call[r] \in Sent /\ txn[r] \in Txn /\ txn[r].events \in Seq(Event)
  BY <1>1 DEF Standing, TypeOK, Txn
<1>3. /\ User(r) \in Users
      /\ Reset(Current(r)) \in Account /\ Reset(Current(r)).failures = 0
  BY <1>1, CurrentTyped
<1> DEFINE s == [user |-> User(r), issued_at |-> now, last_seen_at |-> now,
                 expires_at |-> now + Absolute, revoked_at |-> None]
           events == txn[r].events \o Recorded(r, "auth_sign_in_succeeded", "none")
           t == [txn[r] EXCEPT !.row = Reset(Current(r)), !.session = s, !.events = events]
<1>4. /\ s \in Session /\ s.last_seen_at = s.issued_at /\ s.issued_at <= now
      /\ s.last_seen_at < s.expires_at
  <2>1. now \in Nat /\ now \in Time /\ now + Absolute \in Time
    BY <1>1, PolicyFacts DEF AccessInv, TypeOK
  <2> QED
    BY <1>3, <2>1, PolicyFacts DEF Session
<1>5. events \in Seq(Event)
  BY <1>2, RecordedTyped DEF Reason
<1>6. Conclude(r, "signed_in", t) /\ "signed_in" \in Answer
  BY DEF OpenSession, Answer
<1> HIDE DEF s, events
<1>7. t \in Txn /\ t.row = Reset(Current(r)) /\ t.session = s
  BY <1>2, <1>3, <1>4, <1>5 DEF Txn
<1> HIDE DEF t
<1>8. Acts(r, "commit", t, "signed_in")
  BY <1>1, <1>6, <1>7, WaysToAct DEF Labels
<1> QED
  BY <1>3, <1>4, <1>7, <1>8, GoneIsFinite, SignInActs DEF Labels

--------------------------------------------------------------------------------
(* authenticate, resolve_scope and sign_out *)

\* A visit holds the session it is about to move and nobody else does.
LEMMA VisitActs ==
  ASSUME AccessInv, NEW r \in Requests, IsVisit(r), NEW label, NEW t, NEW a,
         Acts(r, label, t, a),
         label \in {"judge", "touch", "scope", "commit", "replying"},
         t.session = None,
         label = "replying" => t.row = None,
         label # "replying" =>
           ~call[r].after_sign_out /\ Token(r) # None /\ sessions[Token(r)] # None,
         label = "judge" =>
           /\ t.seen \in Session /\ t.seen.expires_at = sessions[Token(r)].expires_at
           /\ t.seen.last_seen_at <= now /\ LivedAt(Token(r), t.seen.last_seen_at)
           /\ t.row = None,
         label \in {"touch", "scope", "commit"} =>
           /\ t.stamp \in Time /\ t.stamp <= now
           /\ t.stamp < sessions[Token(r)].expires_at
           /\ Supported(Token(r), t.stamp),
         label \in {"scope", "commit"} =>
           /\ t.row = [sessions[Token(r)] EXCEPT !.last_seen_at = t.stamp]
           /\ \A q \in Requests \ {r} : HoldsSession(q) => Token(q) # Token(r),
         label = "touch" => t.row = None,
         call[r].after_sign_out => a # "served"
  PROVE  AccessInv'
<1>1. /\ MovesAlone(r) /\ World /\ call[r] \in Sent
      /\ pc'[r] = label /\ txn'[r] = t /\ answer'[r] = a /\ call'[r] = call[r]
      /\ sessions' = sessions /\ now' = now
      /\ IsVisit(r)' /\ Token(r)' = Token(r) /\ (Over(r)' <=> Over(r))
  BY ActsAlone
<1>2. ~IsSignIn(r)' /\ ~IsSignOut(r)'
  BY <1>1 DEF IsSignIn, IsVisit, IsSignOut
<1>3. VisitStanding(r)
  BY DEF AccessInv, Standing
<1>4. TokenKnown(r)'
  BY <1>1, <1>3, OverStays DEF VisitStanding
<1>5. PICK k : k = Token(r)
  OBVIOUS
<1>6. PICK x : x = t.stamp
  OBVIOUS
<1>7. PICK y : y = t.seen.last_seen_at
  OBVIOUS
<1>8. /\ LivedAt(Token(r), txn[r].seen.last_seen_at)' <=> LivedAt(k, y)'
      /\ LivedAt(Token(r), t.seen.last_seen_at) <=> LivedAt(k, y)
      /\ Supported(Token(r), txn[r].stamp)' <=> Supported(k, x)'
      /\ Supported(Token(r), t.stamp) <=> Supported(k, x)
  BY <1>1, <1>5, <1>6, <1>7 DEF LivedAt, Supported
<1>9. label # "replying" => /\ LivedAt(k, y) => LivedAt(k, y)'
                            /\ Supported(k, x) => Supported(k, x)'
  BY <1>1, <1>3, <1>5, SupportStays DEF VisitStanding, TokenKnown
<1>10. ~Moved(r)'
  BY <1>1 DEF Moved
<1>11. Over(r)' \/ ~call[r].after_sign_out
  BY <1>1, <1>3 DEF VisitStanding
<1>12. VisitStanding(r)'
  BY <1>1, <1>4, <1>8, <1>9, <1>10, <1>11, <1>5, <1>6, <1>7 DEF VisitStanding
<1>13. Standing(r)'
  BY <1>1, <1>2, <1>12 DEF Standing
<1>14. HoldsSession(r)' => label \in {"scope", "commit"}
  BY <1>1 DEF HoldsSession, Holding
<1> QED
  BY <1>1, <1>13, <1>14, OwnStep

\* What a visit that is under way knows.
LEMMA VisitFacts ==
  ASSUME AccessInv, NEW r \in Requests, IsVisit(r)
  PROVE  /\ TypeOK /\ VisitStanding(r) /\ txn[r] \in Txn /\ answer[r] \in Answer /\ now \in Nat
         /\ Token(r) \in Requests \cup {None} /\ ~IsSignIn(r)
         /\ SessionOf(r) = IF Token(r) = None THEN None ELSE sessions[Token(r)]
         /\ SessionOf(r) # None => /\ Token(r) \in Requests /\ SessionOf(r) \in Session
                                   /\ SessionOf(r) = sessions[Token(r)]
<1>1. TypeOK /\ VisitStanding(r)
  BY DEF AccessInv, Standing
<1>2. txn[r] \in Txn /\ answer[r] \in Answer /\ now \in Nat
  BY <1>1, PolicyFacts DEF TypeOK, Txn
<1>3. Token(r) \in Requests \cup {None} /\ ~IsSignIn(r)
  BY <1>1 DEF VisitStanding, TokenKnown, IsVisit, IsSignIn
<1>4. SessionOf(r) = IF Token(r) = None THEN None ELSE sessions[Token(r)]
  BY DEF SessionOf, Token
<1>5. SessionOf(r) # None => /\ Token(r) \in Requests /\ SessionOf(r) \in Session
                             /\ SessionOf(r) = sessions[Token(r)]
  BY <1>1, <1>3, <1>4 DEF TypeOK
<1> QED
  BY <1>1, <1>2, <1>3, <1>4, <1>5

\* A visit goes on with a session that is there, or is refused.
LEMMA ReadSessionKeeps ==
  ASSUME AccessInv, NEW r \in Requests, ReadSession(r)
  PROVE  AccessInv'
<1>1. /\ IsVisit(r) /\ pc[r] = "opened" /\ pc[r] \in Active /\ UNCHANGED <<tables, now, call>>
      /\ txn[r] = NoTxn
  BY DEF AccessInv, ReadSession, Active, Standing
<1>2. CASE SessionOf(r) = None \/ SessionOf(r).revoked_at # None
             \/ ~accounts[SessionOf(r).user].active
  <2>1. Acts(r, "replying", NoTxn, "refused")
    BY <1>1, <1>2, NoTxnIsEmpty, WaysToAct DEF ReadSession, Answer, Labels
  <2> QED
    BY <1>1, <2>1, NoTxnIsEmpty, VisitActs
<1>3. CASE ~(SessionOf(r) = None \/ SessionOf(r).revoked_at # None
               \/ ~accounts[SessionOf(r).user].active)
  <2> DEFINE t == [txn[r] EXCEPT !.seen = SessionOf(r)]
  <2>1. /\ Token(r) \in Requests /\ SessionOf(r) \in Session /\ SessionOf(r) = sessions[Token(r)]
        /\ sessions[Token(r)] # None /\ Token(r) # None
        /\ txn[r] \in Txn /\ answer[r] \in Answer /\ VisitStanding(r)
    BY <1>1, <1>3, VisitFacts, PolicyFacts
  <2>2. t \in Txn /\ t.seen = SessionOf(r) /\ t.row = None /\ t.session = None
    BY <1>1, <2>1, NoTxnIsEmpty DEF Txn, NoTxn
  <2>3. Continue(r, "judge", t)
    BY <1>3 DEF ReadSession
  <2> HIDE DEF t
  <2>4. Acts(r, "judge", t, answer[r])
    BY <1>1, <2>1, <2>2, <2>3, WaysToAct DEF Labels
  <2>5. ~call[r].after_sign_out
    BY <1>3, <2>1 DEF VisitStanding, Over
  <2>6. t.seen.last_seen_at <= now /\ LivedAt(Token(r), t.seen.last_seen_at)
    BY <2>1, <2>2 DEF AccessInv, SessionsLived
  <2> QED
    BY <1>1, <2>1, <2>2, <2>4, <2>5, <2>6, VisitActs
<1> QED
  BY <1>2, <1>3

\* An instant less than the idle timeout after activity is supported by that
\* activity, or by what supported it when the two coincide.
LEMMA NotIdle ==
  ASSUME AccessInv, NEW k \in Requests, NEW y, LivedAt(k, y), y \in Time, y <= now, now < y + Idle
  PROVE  Supported(k, now)
<1>1. TypeOK /\ now \in Nat /\ now \in Time /\ Idle \in Nat /\ y \in Nat
  BY PolicyFacts DEF AccessInv, TypeOK
<1>2. CASE sessions[k].issued_at = y
  BY <1>1, <1>2 DEF Supported
<1>3. CASE \E q \in Requests : Moved(q) /\ Token(q) = k /\ txn[q].stamp = y
  <2>1. PICK q \in Requests : Moved(q) /\ Token(q) = k /\ txn[q].stamp = y
    BY <1>3
  <2>2. VisitStanding(q)
    BY <2>1 DEF Moved, AccessInv, Standing
  <2>3. Supported(k, y)
    BY <2>1, <2>2 DEF VisitStanding
  <2>4. CASE y = now
    BY <2>3, <2>4
  <2>5. CASE y # now
    <3>1. y < now
      BY <1>1, <2>5
    <3> QED
      BY <1>1, <2>1, <3>1 DEF Supported
  <2> QED
    BY <2>4, <2>5
<1> QED
  BY <1>2, <1>3 DEF LivedAt

\* A visit goes on with a session that has expired by neither timeout.
LEMMA JudgeSessionKeeps ==
  ASSUME AccessInv, NEW r \in Requests, JudgeSession(r)
  PROVE  AccessInv'
<1>1. /\ IsVisit(r) /\ pc[r] = "judge" /\ pc[r] \in Active /\ UNCHANGED <<tables, now, call>>
  BY DEF JudgeSession, Active
<1>2. CASE Expired(txn[r].seen)
  <2>1. Acts(r, "replying", NoTxn, "refused")
    BY <1>1, <1>2, NoTxnIsEmpty, WaysToAct DEF JudgeSession, Answer, Labels
  <2> QED
    BY <1>1, <2>1, NoTxnIsEmpty, VisitActs
<1>3. CASE ~Expired(txn[r].seen)
  <2> DEFINE t == [txn[r] EXCEPT !.stamp = now]
  <2>1. /\ TypeOK /\ txn[r] \in Txn /\ answer[r] \in Answer /\ now \in Nat /\ now \in Time
        /\ VisitStanding(r)
    BY <1>1, VisitFacts DEF TypeOK
  <2>2. /\ ~call[r].after_sign_out /\ Token(r) # None /\ sessions[Token(r)] # None
        /\ Token(r) \in Requests /\ txn[r].row = None /\ txn[r].session = None
        /\ txn[r].seen \in Session /\ txn[r].seen.expires_at = sessions[Token(r)].expires_at
        /\ txn[r].seen.last_seen_at <= now /\ LivedAt(Token(r), txn[r].seen.last_seen_at)
    BY <1>1, <2>1 DEF VisitStanding, TokenKnown
  <2>3. t \in Txn /\ t.stamp = now /\ t.row = None /\ t.session = None
    BY <2>1, <2>2 DEF Txn
  <2>4. Continue(r, "touch", t)
    BY <1>3 DEF JudgeSession
  <2> HIDE DEF t
  <2>5. Acts(r, "touch", t, answer[r])
    BY <1>1, <2>1, <2>3, <2>4, WaysToAct DEF Labels
  <2>6. txn[r].seen.last_seen_at \in Time /\ txn[r].seen.expires_at \in Time
    BY <2>2 DEF Session
  <2>7. now < txn[r].seen.expires_at /\ now < txn[r].seen.last_seen_at + Idle
    <3>1. ~(txn[r].seen.expires_at <= now) /\ ~(txn[r].seen.last_seen_at + Idle <= now)
      BY <1>3 DEF Expired
    <3>2. txn[r].seen.last_seen_at \in Nat /\ txn[r].seen.expires_at \in Nat /\ Idle \in Nat
      BY <2>6, PolicyFacts
    <3> QED
      BY <2>1, <3>1, <3>2
  <2>8. Supported(Token(r), now)
    BY <2>2, <2>6, <2>7, NotIdle
  <2>9. /\ t.stamp \in Time /\ t.stamp <= now /\ t.stamp < sessions[Token(r)].expires_at
        /\ Supported(Token(r), t.stamp)
    BY <2>1, <2>2, <2>3, <2>7, <2>8
  <2> QED
    BY <1>1, <2>2, <2>3, <2>5, <2>9, VisitActs
<1> QED
  BY <1>2, <1>3

\* The row a visit or a sign-out writes waits for whoever holds it.
LEMMA FreeIsApart ==
  ASSUME NEW r, SessionFree(r)
  PROVE  \A q \in Requests \ {r} : HoldsSession(q) => Token(q) # Token(r)
BY DEF SessionFree, HoldsSession, Token

\* A visit takes the row as it is committed and moves last_seen_at alone.
LEMMA TouchKeeps ==
  ASSUME AccessInv, NEW r \in Requests, IsVisit(r), Touch(r)
  PROVE  AccessInv'
<1>1. /\ pc[r] = "touch" /\ pc[r] \in Active /\ UNCHANGED <<tables, now, call>> /\ SessionFree(r)
  BY DEF Touch, Active
<1> DEFINE t == [txn[r] EXCEPT !.row = [SessionOf(r) EXCEPT !.last_seen_at = txn[r].stamp]]
<1>2. /\ TypeOK /\ txn[r] \in Txn /\ answer[r] \in Answer /\ VisitStanding(r)
  BY VisitFacts
<1>3. /\ ~call[r].after_sign_out /\ Token(r) # None /\ sessions[Token(r)] # None
      /\ txn[r].session = None
      /\ txn[r].stamp \in Time /\ txn[r].stamp <= now
      /\ txn[r].stamp < sessions[Token(r)].expires_at /\ Supported(Token(r), txn[r].stamp)
  BY <1>1, <1>2 DEF VisitStanding
<1>4. SessionOf(r) \in Session /\ SessionOf(r) = sessions[Token(r)]
  BY <1>3, VisitFacts
<1>5. [SessionOf(r) EXCEPT !.last_seen_at = txn[r].stamp] \in Session
  BY <1>3, <1>4 DEF Session
<1>6. /\ t \in Txn /\ t.stamp = txn[r].stamp /\ t.session = None
      /\ t.row = [sessions[Token(r)] EXCEPT !.last_seen_at = t.stamp]
  BY <1>2, <1>3, <1>4, <1>5 DEF Txn
<1>7. Continue(r, "scope", t)
  BY DEF Touch
<1> HIDE DEF t
<1>8. Acts(r, "scope", t, answer[r])
  BY <1>1, <1>2, <1>6, <1>7, WaysToAct DEF Labels
<1>9. \A q \in Requests \ {r} : HoldsSession(q) => Token(q) # Token(r)
  BY <1>1, FreeIsApart
<1>10. Supported(Token(r), t.stamp)
  BY <1>3, <1>6
<1> QED
  BY <1>3, <1>6, <1>8, <1>9, <1>10, VisitActs

\* The second look at the user keeps what was written or takes all of it back.
LEMMA ResolveScopeKeeps ==
  ASSUME AccessInv, NEW r \in Requests, IsVisit(r), ResolveScope(r)
  PROVE  AccessInv'
<1>1. /\ pc[r] = "scope" /\ pc[r] \in Active /\ UNCHANGED <<tables, now, call>>
  BY DEF ResolveScope, Active
<1>2. txn[r] \in Txn /\ VisitStanding(r) /\ ~IsSignIn(r)
  BY VisitFacts
<1>3. /\ ~call[r].after_sign_out /\ Token(r) # None /\ sessions[Token(r)] # None
      /\ Token(r) \in Requests /\ txn[r].session = None
      /\ txn[r].stamp \in Time /\ txn[r].stamp <= now
      /\ txn[r].stamp < sessions[Token(r)].expires_at /\ Supported(Token(r), txn[r].stamp)
      /\ txn[r].row = [sessions[Token(r)] EXCEPT !.last_seen_at = txn[r].stamp]
  BY <1>1, <1>2 DEF VisitStanding, TokenKnown
<1>4. \A q \in Requests \ {r} : HoldsSession(q) => Token(q) # Token(r)
  <2>1. sessions[Token(r)] \in Session
    BY <1>3 DEF AccessInv, TypeOK
  <2>2. txn[r].row \in Session
    BY <1>3, <2>1 DEF Session
  <2>3. HoldsSession(r)
    BY <1>1, <1>2, <2>2, NoneIsNoRow DEF HoldsSession, Holding
  <2> QED
    BY <2>3 DEF AccessInv, Apart
<1>5. ASSUME NEW a \in {"served", "refused"}, Conclude(r, a, txn[r]) PROVE AccessInv'
  <2>1. Acts(r, "commit", txn[r], a)
    BY <1>1, <1>2, <1>5, WaysToAct DEF Answer, Labels
  <2> QED
    BY <1>3, <1>4, <2>1, VisitActs
<1>6. ASSUME NEW a \in {"not_found", "refused"}, Reply(r, a) PROVE AccessInv'
  <2>1. Acts(r, "replying", NoTxn, a)
    BY <1>1, <1>6, NoTxnIsEmpty, WaysToAct DEF Answer, Labels
  <2> QED
    BY <1>3, <2>1, NoTxnIsEmpty, VisitActs
<1> QED
  BY <1>5, <1>6 DEF ResolveScope

\* A sign-out holds the session it is about to end and nobody else does.
LEMMA SignOutActs ==
  ASSUME AccessInv, NEW r \in Requests, IsSignOut(r), NEW label, NEW t, NEW a,
         Acts(r, label, t, a), label \in {"revoke", "commit", "replying"}, t.session = None,
         label \in {"revoke", "commit"} => t.stamp \in Time,
         label = "commit" =>
           /\ Token(r) # None /\ sessions[Token(r)] # None
           /\ t.row = [sessions[Token(r)] EXCEPT !.revoked_at = t.stamp]
           /\ \A q \in Requests \ {r} : HoldsSession(q) => Token(q) # Token(r),
         label = "replying" => Over(r)
  PROVE  AccessInv'
<1>1. /\ MovesAlone(r) /\ World /\ call[r] \in Sent
      /\ pc'[r] = label /\ txn'[r] = t /\ call'[r] = call[r] /\ sessions' = sessions
      /\ IsSignOut(r)' /\ Token(r)' = Token(r) /\ (Over(r)' <=> Over(r))
  BY ActsAlone
<1>2. ~IsSignIn(r)' /\ ~IsVisit(r)'
  BY <1>1 DEF IsSignIn, IsVisit, IsSignOut
<1>3. SignOutStanding(r)
  BY DEF AccessInv, Standing
<1>4. TokenKnown(r)'
  BY <1>1, <1>3, OverStays DEF SignOutStanding
<1>5. SignOutStanding(r)'
  BY <1>1, <1>4 DEF SignOutStanding
<1>6. Standing(r)'
  BY <1>1, <1>2, <1>5 DEF Standing
<1>7. HoldsSession(r)' => label = "commit"
  BY <1>1 DEF HoldsSession, Holding
<1> QED
  BY <1>1, <1>6, <1>7, OwnStep

\* A sign-out reads the clock before it has the row.
LEMMA BeginSignOutKeeps ==
  ASSUME AccessInv, NEW r \in Requests, BeginSignOut(r)
  PROVE  AccessInv'
<1>1. /\ IsSignOut(r) /\ pc[r] = "opened" /\ pc[r] \in Active /\ UNCHANGED <<tables, now, call>>
      /\ txn[r] = NoTxn /\ now \in Time /\ answer[r] \in Answer
  BY DEF AccessInv, BeginSignOut, Active, Standing, TypeOK
<1> DEFINE t == [txn[r] EXCEPT !.stamp = now]
<1>2. t \in Txn /\ t.stamp = now /\ t.session = None
  BY <1>1, NoTxnIsEmpty DEF Txn, NoTxn
<1>3. Continue(r, "revoke", t)
  BY DEF BeginSignOut
<1> HIDE DEF t
<1>4. Acts(r, "revoke", t, answer[r])
  BY <1>1, <1>2, <1>3, WaysToAct DEF Labels
<1>5. IsSignOut(r) /\ t.stamp \in Time /\ t.session = None
  BY <1>1, <1>2
<1>6. PICK label : label = "revoke"
  OBVIOUS
<1>7. Acts(r, label, t, answer[r]) /\ label \in {"revoke", "commit", "replying"}
  BY <1>4, <1>6
<1> QED
  BY <1>5, <1>6, <1>7, SignOutActs

\* A sign-out takes the row as it is committed, or finds the session over.
LEMMA RevokeKeeps ==
  ASSUME AccessInv, NEW r \in Requests, IsSignOut(r), Revoke(r)
  PROVE  AccessInv'
<1>1. /\ pc[r] = "revoke" /\ pc[r] \in Active /\ UNCHANGED <<tables, now, call>> /\ SessionFree(r)
      /\ TypeOK /\ txn[r] \in Txn /\ SignOutStanding(r) /\ "signed_out" \in Answer
  BY DEF AccessInv, Revoke, Active, Standing, TypeOK, Txn, Answer
<1>2. txn[r].stamp \in Time /\ txn[r].session = None /\ Token(r) \in Requests \cup {None}
  BY <1>1 DEF SignOutStanding, TokenKnown
<1>3. CASE SessionOf(r) = None \/ SessionOf(r).revoked_at # None
  <2>1. Acts(r, "replying", NoTxn, "signed_out")
    BY <1>1, <1>3, NoTxnIsEmpty, WaysToAct DEF Revoke, Labels
  <2>2. Over(r)
    BY <1>3 DEF Over
  <2> QED
    BY <2>1, <2>2, NoTxnIsEmpty, SignOutActs
<1>4. CASE ~(SessionOf(r) = None \/ SessionOf(r).revoked_at # None)
  <2> DEFINE t == [txn[r] EXCEPT !.row = [SessionOf(r) EXCEPT !.revoked_at = txn[r].stamp]]
  <2>1. /\ Token(r) \in Requests /\ Token(r) # None /\ sessions[Token(r)] # None
        /\ SessionOf(r) = sessions[Token(r)] /\ SessionOf(r) \in Session
    BY <1>1, <1>2, <1>4, PolicyFacts DEF SessionOf, Token, TypeOK
  <2>2. [SessionOf(r) EXCEPT !.revoked_at = txn[r].stamp] \in Session
    BY <1>2, <2>1 DEF Session
  <2>3. /\ t \in Txn /\ t.stamp = txn[r].stamp /\ t.session = None
        /\ t.row = [sessions[Token(r)] EXCEPT !.revoked_at = t.stamp]
    BY <1>1, <1>2, <2>1, <2>2 DEF Txn
  <2>4. Conclude(r, "signed_out", t)
    BY <1>4 DEF Revoke
  <2> HIDE DEF t
  <2>5. Acts(r, "commit", t, "signed_out")
    BY <1>1, <2>3, <2>4, WaysToAct DEF Labels
  <2>6. \A q \in Requests \ {r} : HoldsSession(q) => Token(q) # Token(r)
    BY <1>1, FreeIsApart
  <2> QED
    BY <1>2, <2>1, <2>3, <2>5, <2>6, SignOutActs
<1> QED
  BY <1>3, <1>4

--------------------------------------------------------------------------------
(* The steps every request takes *)

\* A client that has seen a session end sends its token after the sign-out.
LEMMA SendKeeps ==
  ASSUME AccessInv, NEW r \in Requests, NEW c \in Calls, Send(r, c)
  PROVE  AccessInv'
<1>1. /\ TypeOK /\ Standing(r) /\ pc[r] = "unsent" /\ call[r] = None
      /\ txn[r] = NoTxn /\ answer[r] = "none" /\ UNCHANGED <<tables, now, txn, answer>>
      /\ c.op # "sign_in" => Known(c.token)
  BY DEF AccessInv, Standing, Send
<1> DEFINE after == \E q \in Requests : IsSignOut(q) /\ pc[q] = "answered"
                                          /\ call[q].token = c.token
           new == IF c.op = "sign_in" THEN c
                  ELSE [op |-> c.op, token |-> c.token, after_sign_out |-> after]
<1>2. pc' = [pc EXCEPT ![r] = "opened"] /\ call' = [call EXCEPT ![r] = new]
  BY DEF Send, Goto
<1>3. /\ new \in Sent /\ new.op = c.op
      /\ c.op # "sign_in" => /\ new.token = c.token /\ c.token \in Requests \cup {None}
                             /\ (new.after_sign_out <=> after)
  <2>1. CASE c \in SignIn
    BY <2>1 DEF Sent, SignIn
  <2>2. CASE c \in Visit \cup SignOut
    <3>1. /\ c.op \in {"api", "page", "sign_out"} /\ c.op # "sign_in"
          /\ c.token \in Requests \cup {None}
      BY <2>2 DEF Visit, SignOut
    <3>2. after \in BOOLEAN
      OBVIOUS
    <3> HIDE DEF after
    <3> QED
      BY <3>1, <3>2 DEF Sent
  <2> QED
    BY <2>1, <2>2, PolicyIsSet
<1> HIDE DEF new
<1>4. pc'[r] = "opened" /\ call'[r] = new /\ txn'[r] = NoTxn /\ answer'[r] = "none"
  BY <1>1, <1>2 DEF TypeOK
<1>5. MovesAlone(r)
  BY <1>1, <1>2, <1>3, <1>4, NoTxnIsEmpty DEF MovesAlone, TypeOK, Labels, Answer
<1>6. ~Moved(r)' /\ ~HoldsSession(r)'
  BY <1>4 DEF Moved, HoldsSession, Holding
<1>7. c.op # "sign_in" => TokenKnown(r)'
  <2> SUFFICES ASSUME c.op # "sign_in" PROVE TokenKnown(r)'
    OBVIOUS
  <2>1. Token(r)' = c.token /\ c.token \in Requests \cup {None}
    BY <1>3, <1>4 DEF Token
  <2>2. c.token # None => c.token # r /\ pc[c.token] = "answered"
    BY <1>1 DEF Known
  <2>3. c.token # None => pc'[c.token] = "answered"
    BY <1>1, <1>2, <2>1, <2>2 DEF TypeOK
  <2> QED
    BY <2>1, <2>3 DEF TokenKnown
<1>8. c.op # "sign_in" /\ new.after_sign_out => Over(r)'
  <2> SUFFICES ASSUME c.op # "sign_in", after PROVE Over(r)'
    BY <1>3
  <2>1. PICK q \in Requests : IsSignOut(q) /\ pc[q] = "answered" /\ call[q].token = c.token
    OBVIOUS
  <2>2. Over(q)
    BY <2>1 DEF AccessInv, Standing, SignOutStanding
  <2>3. SessionOf(r)' = SessionOf(q)
    BY <1>1, <1>3, <1>4, <2>1 DEF SessionOf, tables
  <2> QED
    BY <2>2, <2>3 DEF Over
<1>9. Standing(r)'
  <2>1. IsSignIn(r)' => SignInStanding(r)'
    BY <1>4 DEF SignInStanding, Labels
  <2>2. IsVisit(r)' => VisitStanding(r)'
    BY <1>3, <1>4, <1>6, <1>7, <1>8, NoTxnIsEmpty DEF VisitStanding, IsVisit
  <2>3. IsSignOut(r)' => SignOutStanding(r)'
    BY <1>3, <1>4, <1>7, NoTxnIsEmpty DEF SignOutStanding, IsSignOut
  <2> QED
    BY <1>3, <1>4, <2>1, <2>2, <2>3 DEF Standing
<1> QED
  BY <1>5, <1>6, <1>9, OwnStep

\* A request that ends keeps what its kind has to show of the end.
LEMMA EndStep ==
  ASSUME AccessInv, NEW r \in Requests, pc[r] \in Active \cup {"replying"},
         UNCHANGED <<tables, now, call>>,
         NEW label \in {"answered", "lost"}, NEW t \in Txn, NEW a \in Answer,
         pc' = [pc EXCEPT ![r] = label], txn' = [txn EXCEPT ![r] = t],
         answer' = [answer EXCEPT ![r] = a],
         IF pc[r] = "replying" THEN t = txn[r] ELSE t = NoTxn,
         label = "answered" => pc[r] = "replying",
         a = answer[r] \/ a = "none"
  PROVE  AccessInv'
<1>1. TypeOK /\ Standing(r) /\ call[r] \in Sent
  BY DEF AccessInv, Standing, Active
<1>2. /\ pc'[r] = label /\ txn'[r] = t /\ answer'[r] = a /\ call' = call
      /\ sessions' = sessions /\ now' = now
  BY <1>1 DEF TypeOK, tables
<1>3. MovesAlone(r)
  BY <1>1, <1>2 DEF MovesAlone, TypeOK, Labels, Active
<1>4. World
  BY <1>1, <1>3, AloneInTheWorld
<1>5. /\ IsSignIn(r)' <=> IsSignIn(r)
      /\ IsVisit(r)' <=> IsVisit(r)
      /\ IsSignOut(r)' <=> IsSignOut(r)
      /\ Token(r)' = Token(r) /\ (Over(r)' <=> Over(r)) /\ ~HoldsSession(r)'
  BY <1>2 DEF IsSignIn, IsVisit, IsSignOut, Token, Over, SessionOf, HoldsSession, Holding
<1>6. IsSignIn(r) => SignInStanding(r)'
  BY <1>2 DEF SignInStanding, Labels
<1>7. ASSUME IsVisit(r) PROVE VisitStanding(r)'
  <2>1. VisitStanding(r)
    BY <1>1, <1>7 DEF Standing
  <2>2. TokenKnown(r)'
    BY <1>2, <1>4, <2>1, OverStays DEF VisitStanding
  <2>3. txn'[r].session = None
    BY <1>2, <2>1, NoTxnIsEmpty DEF VisitStanding
  <2>4. ASSUME Moved(r)'
        PROVE  /\ Token(r) # None /\ sessions[Token(r)] # None
               /\ txn'[r].stamp \in Time /\ Supported(Token(r), txn[r].stamp)'
    <3>1. pc[r] = "replying" /\ txn'[r] = txn[r] /\ Moved(r)
      BY <1>2, <1>7, <2>4, NoTxnIsEmpty DEF Moved
    <3>2. PICK k : k = Token(r)
      OBVIOUS
    <3>3. PICK x : x = txn[r].stamp
      OBVIOUS
    <3>4. /\ k # None /\ k \in Requests /\ sessions[k] # None /\ x \in Time /\ Supported(k, x)
      BY <2>1, <3>1, <3>2, <3>3 DEF VisitStanding, TokenKnown
    <3>5. Supported(k, x)'
      BY <1>4, <3>4, SupportStays
    <3>6. Supported(Token(r), txn[r].stamp)' <=> Supported(k, x)'
      BY <1>5, <3>1, <3>2, <3>3 DEF Supported
    <3> QED
      BY <3>1, <3>2, <3>3, <3>4, <3>5, <3>6
  <2>5. call[r].after_sign_out => Over(r) /\ a # "served"
    BY <2>1 DEF VisitStanding
  <2> QED
    BY <1>2, <1>5, <2>2, <2>3, <2>4, <2>5 DEF VisitStanding
<1>8. ASSUME IsSignOut(r) PROVE SignOutStanding(r)'
  <2>1. SignOutStanding(r)
    BY <1>1, <1>8 DEF Standing
  <2>2. TokenKnown(r)'
    BY <1>2, <1>4, <2>1, OverStays DEF SignOutStanding
  <2>3. txn'[r].session = None
    BY <1>2, <2>1, NoTxnIsEmpty DEF SignOutStanding
  <2> QED
    BY <1>2, <1>5, <2>1, <2>2, <2>3 DEF SignOutStanding
<1>9. Standing(r)'
  BY <1>1, <1>2, <1>5, <1>6, <1>7, <1>8 DEF Standing
<1> QED
  BY <1>3, <1>5, <1>9, OwnStep

\* An answer that reaches its client changes nothing else.
LEMMA DeliverKeeps ==
  ASSUME AccessInv, NEW r \in Requests, Deliver(r)
  PROVE  AccessInv'
<1>1. /\ TypeOK /\ pc[r] = "replying" /\ pc' = [pc EXCEPT ![r] = "answered"]
      /\ UNCHANGED <<tables, now, call, txn, answer>>
  BY DEF AccessInv, Deliver, Goto
<1>2. /\ txn[r] \in Txn /\ answer[r] \in Answer
      /\ txn' = [txn EXCEPT ![r] = txn[r]] /\ answer' = [answer EXCEPT ![r] = answer[r]]
  BY <1>1 DEF TypeOK, Txn
<1> QED
  BY <1>1, <1>2, EndStep

\* A request that is cut keeps what it had committed and nothing more.
LEMMA CutKeeps ==
  ASSUME AccessInv, NEW r \in Requests, Cut(r)
  PROVE  AccessInv'
<1> DEFINE t == IF pc[r] = "replying" THEN txn[r] ELSE NoTxn
<1>1. /\ TypeOK /\ pc[r] \in Active \cup {"replying"} /\ pc' = [pc EXCEPT ![r] = "lost"]
      /\ UNCHANGED <<tables, now, call>> /\ answer' = [answer EXCEPT ![r] = "none"]
  BY DEF AccessInv, Cut, Goto, Active, TypeOK, Labels
<1>2. t \in Txn /\ txn' = [txn EXCEPT ![r] = t] /\ "none" \in Answer
  BY <1>1, NoTxnIsEmpty DEF TypeOK, Txn, Cut, Answer
<1>3. IF pc[r] = "replying" THEN t = txn[r] ELSE t = NoTxn
  OBVIOUS
<1> HIDE DEF t
<1> QED
  BY <1>1, <1>2, <1>3, EndStep

--------------------------------------------------------------------------------
(* Commit *)

\* What a commit makes of the sessions: a sign-in inserts its own, a visit or a
\* sign-out writes the row it holds.
LEMMA CommitWrites ==
  ASSUME AccessInv, NEW r \in Requests, Commit(r)
  PROVE  /\ TypeOK /\ Standing(r) /\ call[r] \in Sent /\ txn[r] \in Txn /\ pc[r] = "commit"
         /\ pc' = [pc EXCEPT ![r] = "replying"] /\ pc'[r] = "replying"
         /\ UNCHANGED <<now, call, txn, answer>>
         /\ IsSignIn(r) =>
              /\ RowCounts(r, Cardinality(Gone) + 1) /\ NewSession(r) /\ sessions[r] = None
              /\ sessions' = IF txn[r].session # None
                             THEN [sessions EXCEPT ![r] = txn[r].session] ELSE sessions
         /\ ~IsSignIn(r) =>
              /\ Token(r) \in Requests /\ pc[Token(r)] = "answered" /\ sessions[Token(r)] # None
              /\ sessions' = [sessions EXCEPT ![Token(r)] = txn[r].row]
              /\ txn[r].row \in Session /\ HoldsSession(r) /\ accounts' = accounts
              /\ txn[r].row.issued_at = sessions[Token(r)].issued_at
              /\ txn[r].row.expires_at = sessions[Token(r)].expires_at
              /\ IF IsVisit(r)
                 THEN /\ txn[r].row.last_seen_at = txn[r].stamp
                      /\ txn[r].row.revoked_at = sessions[Token(r)].revoked_at
                 ELSE /\ txn[r].row.last_seen_at = sessions[Token(r)].last_seen_at
                      /\ txn[r].row.revoked_at # None
<1>1. TypeOK /\ Standing(r) /\ pc[r] = "commit" /\ r \notin Gone
  BY DEF AccessInv, Commit, Gone
<1>2. /\ pc' = [pc EXCEPT ![r] = "replying"] /\ pc'[r] = "replying"
      /\ UNCHANGED <<now, call, txn, answer>> /\ call[r] \in Sent /\ txn[r] \in Txn
  BY <1>1 DEF Commit, Goto, TypeOK, Standing, Txn
<1>3. ASSUME IsSignIn(r)
      PROVE  /\ RowCounts(r, Cardinality(Gone) + 1) /\ NewSession(r) /\ sessions[r] = None
             /\ sessions' = IF txn[r].session # None
                            THEN [sessions EXCEPT ![r] = txn[r].session] ELSE sessions
  <2>1. RowCounts(r, Cardinality(Gone) + 1) /\ NewSession(r) /\ sessions[r] = None
    BY <1>1, <1>3 DEF Standing, SignInStanding, AccessInv, OpenersAreGone
  <2>2. sessions' = IF txn[r].session # None
                    THEN [sessions EXCEPT ![r] = txn[r].session] ELSE sessions
    BY <1>3 DEF Commit, Publish
  <2> QED
    BY <2>1, <2>2
<1>4. ASSUME ~IsSignIn(r), NEW k, k = Token(r)
      PROVE  /\ k \in Requests /\ pc[k] = "answered" /\ sessions[k] # None
             /\ sessions' = [sessions EXCEPT ![k] = txn[r].row]
             /\ txn[r].row \in Session /\ HoldsSession(r) /\ accounts' = accounts
             /\ txn[r].row.issued_at = sessions[k].issued_at
             /\ txn[r].row.expires_at = sessions[k].expires_at
             /\ IF IsVisit(r)
                THEN /\ txn[r].row.last_seen_at = txn[r].stamp
                     /\ txn[r].row.revoked_at = sessions[k].revoked_at
                ELSE /\ txn[r].row.last_seen_at = sessions[k].last_seen_at
                     /\ txn[r].row.revoked_at # None
  <2>1. IF IsVisit(r) THEN VisitStanding(r) ELSE IsSignOut(r) /\ SignOutStanding(r)
    BY <1>1, <1>2, <1>4, KindsOfCall DEF Standing
  <2>2. /\ k # None /\ TokenKnown(r) /\ sessions[k] # None /\ txn[r].stamp \in Time
        /\ txn[r].session = None
        /\ IF IsVisit(r) THEN txn[r].row = [sessions[k] EXCEPT !.last_seen_at = txn[r].stamp]
           ELSE txn[r].row = [sessions[k] EXCEPT !.revoked_at = txn[r].stamp]
    BY <1>1, <1>4, <2>1 DEF VisitStanding, SignOutStanding
  <2>3. k \in Requests /\ pc[k] = "answered"
    BY <1>4, <2>2 DEF TokenKnown
  <2>4. sessions[k] \in Session
    BY <1>1, <2>2, <2>3 DEF TypeOK
  <2>5. txn[r].stamp # None
    BY <2>2, PolicyFacts
  <2>6. /\ txn[r].row \in Session
        /\ txn[r].row.issued_at = sessions[k].issued_at
        /\ txn[r].row.expires_at = sessions[k].expires_at
        /\ IF IsVisit(r)
           THEN /\ txn[r].row.last_seen_at = txn[r].stamp
                /\ txn[r].row.revoked_at = sessions[k].revoked_at
           ELSE /\ txn[r].row.last_seen_at = sessions[k].last_seen_at
                /\ txn[r].row.revoked_at # None
    <3>1. CASE IsVisit(r)
      BY <2>2, <2>4, <3>1 DEF Session
    <3>2. CASE ~IsVisit(r)
      BY <2>2, <2>4, <2>5, <3>2 DEF Session
    <3> QED
      BY <3>1, <3>2
  <2>7. HoldsSession(r)
    BY <1>1, <1>4, <2>6, NoneIsNoRow DEF HoldsSession, Holding
  <2>8. sessions' = [sessions EXCEPT ![k] = txn[r].row] /\ accounts' = accounts
    BY <1>4, <2>2 DEF Commit, Publish, Token
  <2> QED
    BY <2>2, <2>3, <2>6, <2>7, <2>8
<1> QED
  BY <1>1, <1>2, <1>3, <1>4

\* A commit leaves the world as every step does, and the others' rows alone.
LEMMA CommitWorld ==
  ASSUME AccessInv, NEW r \in Requests, Commit(r)
  PROVE  /\ World
         /\ \A q \in Requests \ {r} : Kept(q)
         /\ \A q \in Requests \ {r} :
              HoldsSession(q) /\ Token(q) \in Requests => sessions'[Token(q)] = sessions[Token(q)]
<1>1. /\ TypeOK /\ pc[r] = "commit" /\ pc' = [pc EXCEPT ![r] = "replying"] /\ pc'[r] = "replying"
      /\ UNCHANGED <<now, call, txn, answer>> /\ call[r] \in Sent
  BY CommitWrites
<1>2. \A q \in Requests \ {r} : Kept(q)
  BY <1>1 DEF Kept, TypeOK
<1>3. now' = now /\ now \in Nat
  BY <1>1, PolicyFacts DEF TypeOK
<1>4. ASSUME NEW p \in Requests
      PROVE  /\ pc[p] = "answered" => pc'[p] = "answered"
             /\ p \in Gone => p \in Gone'
             /\ Moved(p) => Moved(p)' /\ Token(p)' = Token(p) /\ txn'[p] = txn[p]
  <2>1. CASE p = r
    BY <1>1, <2>1 DEF Gone, Moved, IsVisit, Token
  <2>2. CASE p # r
    BY <1>1, <1>2, <2>2 DEF Kept, Gone, Moved, IsVisit, Token
  <2> QED
    BY <2>1, <2>2
<1>5. ASSUME NEW t \in Requests
      PROVE  /\ sessions[t] # None => /\ sessions'[t] # None
                                      /\ sessions'[t].issued_at = sessions[t].issued_at
                                      /\ sessions'[t].expires_at = sessions[t].expires_at
                                      /\ sessions[t].revoked_at # None
                                           => sessions'[t].revoked_at # None
             /\ sessions[t] = None /\ pc[t] = "answered" => sessions'[t] = None
  <2>1. CASE IsSignIn(r)
    <3>1. /\ sessions[r] = None
          /\ sessions' = sessions \/ sessions' = [sessions EXCEPT ![r] = txn[r].session]
      BY <2>1, CommitWrites
    <3>2. sessions'[t] = sessions[t] \/ t = r
      BY <1>1, <3>1 DEF TypeOK
    <3> QED
      BY <1>1, <3>1, <3>2
  <2>2. CASE ~IsSignIn(r)
    <3>1. PICK k : k = Token(r)
      OBVIOUS
    <3>2. /\ k \in Requests /\ sessions[k] # None /\ sessions' = [sessions EXCEPT ![k] = txn[r].row]
          /\ txn[r].row \in Session
          /\ txn[r].row.issued_at = sessions[k].issued_at
          /\ txn[r].row.expires_at = sessions[k].expires_at
          /\ sessions[k].revoked_at # None => txn[r].row.revoked_at # None
      BY <2>2, <3>1, CommitWrites
    <3>3. txn[r].row # None
      BY <3>2, NoneIsNoRow
    <3> QED
      BY <1>1, <3>2, <3>3 DEF TypeOK
  <2> QED
    BY <2>1, <2>2
<1>6. ASSUME NEW q \in Requests \ {r}, HoldsSession(q), Token(q) \in Requests
      PROVE  sessions'[Token(q)] = sessions[Token(q)]
  <2>1. CASE IsSignIn(r)
    <3>1. Token(q) # r
      <4>1. pc[q] \in {"verify", "fail", "succeed", "scope", "commit"} /\ ~IsSignIn(q)
        BY <1>6 DEF HoldsSession, Holding
      <4>2. call[q] \in Sent /\ Standing(q)
        BY <1>6, <4>1 DEF AccessInv, Standing
      <4>3. TokenKnown(q)
        BY <1>6, <4>1, <4>2, KindsOfCall DEF Standing, VisitStanding, SignOutStanding
      <4> QED
        BY <1>1, <1>6, <4>3, PolicyFacts DEF TokenKnown
    <3>2. sessions' = sessions \/ sessions' = [sessions EXCEPT ![r] = txn[r].session]
      BY <2>1, CommitWrites
    <3> QED
      BY <1>1, <1>6, <3>1, <3>2 DEF TypeOK
  <2>2. CASE ~IsSignIn(r)
    <3>1. HoldsSession(r) /\ sessions' = [sessions EXCEPT ![Token(r)] = txn[r].row]
      BY <2>2, CommitWrites
    <3>2. Token(q) # Token(r)
      BY <1>6, <3>1 DEF AccessInv, Apart
    <3> QED
      BY <1>1, <1>6, <3>1, <3>2 DEF TypeOK
  <2> QED
    BY <2>1, <2>2
<1> QED
  BY <1>2, <1>3, <1>4, <1>5, <1>6 DEF World

\* The instant of the commit is an instant of the session: its sign-in, or the
\* visit that moves it.
LEMMA CommitLives ==
  ASSUME AccessInv, NEW r \in Requests, Commit(r)
  PROVE  SessionsLived'
<1>1. /\ TypeOK /\ World /\ now' = now /\ txn' = txn /\ call' = call /\ pc'[r] = "replying"
      /\ now \in Nat
  BY CommitWrites, CommitWorld, PolicyFacts DEF TypeOK
<1> SUFFICES ASSUME NEW t \in Requests, sessions'[t] # None
             PROVE  sessions'[t].last_seen_at <= now /\ LivedAt(t, sessions[t].last_seen_at)'
  BY <1>1 DEF SessionsLived
<1>2. PICK y : y = sessions'[t].last_seen_at
  OBVIOUS
<1>3. LivedAt(t, sessions[t].last_seen_at)' <=> LivedAt(t, y)'
  BY <1>2 DEF LivedAt
<1>4. ASSUME sessions[t] # None, sessions[t].last_seen_at = y PROVE y <= now /\ LivedAt(t, y)'
  <2>1. y <= now /\ LivedAt(t, y)
    BY <1>4 DEF AccessInv, SessionsLived
  <2> QED
    BY <1>1, <1>4, <2>1, SupportStays
<1>5. CASE IsSignIn(r)
  <2>1. /\ NewSession(r) /\ sessions[r] = None
        /\ sessions' = IF txn[r].session # None
                       THEN [sessions EXCEPT ![r] = txn[r].session] ELSE sessions
    BY <1>5, CommitWrites
  <2>2. CASE t = r
    <3>1. sessions'[r] = txn[r].session /\ txn[r].session # None
      BY <1>1, <2>1, <2>2 DEF TypeOK
    <3>2. y <= now /\ sessions'[r].issued_at = y
      BY <1>2, <2>1, <2>2, <3>1 DEF NewSession
    <3> QED
      BY <1>2, <1>3, <2>2, <3>2 DEF LivedAt
  <2>3. CASE t # r
    <3>1. sessions'[t] = sessions[t]
      BY <1>1, <2>1, <2>3 DEF TypeOK
    <3> QED
      BY <1>2, <1>3, <1>4, <3>1
  <2> QED
    BY <2>2, <2>3
<1>6. CASE ~IsSignIn(r)
  <2>1. PICK k : k = Token(r)
    OBVIOUS
  <2>2. /\ k \in Requests /\ sessions[k] # None /\ sessions' = [sessions EXCEPT ![k] = txn[r].row]
        /\ txn[r].row \in Session /\ Standing(r) /\ pc[r] = "commit"
        /\ IF IsVisit(r) THEN txn[r].row.last_seen_at = txn[r].stamp
           ELSE txn[r].row.last_seen_at = sessions[k].last_seen_at
    BY <1>6, <2>1, CommitWrites
  <2>3. CASE t # k \/ ~IsVisit(r)
    <3>1. sessions[t] # None /\ sessions[t].last_seen_at = y
      BY <1>1, <1>2, <2>2, <2>3 DEF TypeOK
    <3> QED
      BY <1>2, <1>3, <1>4, <3>1
  <2>4. CASE t = k /\ IsVisit(r)
    <3>1. y = txn[r].stamp
      BY <1>1, <1>2, <2>2, <2>4 DEF TypeOK
    <3>2. y <= now
      BY <2>2, <2>4, <3>1 DEF Standing, VisitStanding
    <3>3. IsVisit(r)' /\ Token(r)' = t
      BY <1>1, <2>1, <2>4 DEF IsVisit, Token
    <3>4. txn[r].row # None
      BY <2>2, NoneIsNoRow
    <3>5. Moved(r)' /\ txn'[r].stamp = y
      BY <1>1, <3>1, <3>3, <3>4 DEF Moved
    <3>6. LivedAt(t, y)'
      BY <3>3, <3>5 DEF LivedAt
    <3> QED
      BY <1>2, <1>3, <3>2, <3>6
  <2> QED
    BY <2>3, <2>4
<1> QED
  BY <1>5, <1>6

\* What a commit writes has its types, and counts one request more.
LEMMA CommitTypes ==
  ASSUME AccessInv, NEW r \in Requests, Commit(r)
  PROVE  TypeOK' /\ OpenersAreGone' /\ CountsAreBounded'
<1>1. /\ TypeOK /\ Standing(r) /\ call[r] \in Sent /\ txn[r] \in Txn /\ pc[r] = "commit"
      /\ pc' = [pc EXCEPT ![r] = "replying"] /\ pc'[r] = "replying"
      /\ UNCHANGED <<now, call, txn, answer>> /\ World
  BY CommitWrites, CommitWorld
<1>2. trail' \in Seq(Event)
  <2>1. trail \in Seq(Event) /\ txn[r].events \in Seq(Event) /\ trail' = trail \o txn[r].events
    BY <1>1 DEF TypeOK, Txn, Commit, Publish
  <2> QED
    BY <2>1, ConcatProperties
<1>3. /\ accounts' \in [Users -> Account]
      /\ \A u \in Users : \/ accounts'[u] = accounts[u]
                          \/ /\ accounts'[u] \in Account
                             /\ accounts'[u].failures <= Cardinality(Gone) + 1
  <2>1. CASE IsSignIn(r) /\ txn[r].row # None
    <3>1. txn[r].row \in Account /\ txn[r].row.failures <= Cardinality(Gone) + 1
      BY <2>1, CommitWrites DEF RowCounts
    <3>2. accounts' = [accounts EXCEPT ![User(r)] = txn[r].row]
      BY <2>1 DEF Commit, Publish
    <3> QED
      BY <1>1, <3>1, <3>2 DEF TypeOK
  <2>2. CASE ~(IsSignIn(r) /\ txn[r].row # None)
    <3>1. accounts' = accounts
      BY <2>2 DEF Commit, Publish
    <3> QED
      BY <1>1, <3>1 DEF TypeOK
  <2> QED
    BY <2>1, <2>2
<1>4. /\ sessions' \in [Requests -> Session \cup {None}]
      /\ \A t \in Requests : sessions'[t] # None =>
           sessions'[t].last_seen_at < sessions'[t].expires_at /\ t \in Gone'
  <2>1. ASSUME NEW t \in Requests, sessions[t] # None
        PROVE  sessions[t].last_seen_at < sessions[t].expires_at /\ t \in Gone'
    BY <1>1, <2>1 DEF TypeOK, AccessInv, OpenersAreGone, World
  <2>2. r \in Gone'
    BY <1>1 DEF Gone
  <2>3. CASE IsSignIn(r)
    <3>1. /\ txn[r].session # None => /\ txn[r].session \in Session
                                      /\ txn[r].session.last_seen_at < txn[r].session.expires_at
          /\ sessions' = IF txn[r].session # None
                         THEN [sessions EXCEPT ![r] = txn[r].session] ELSE sessions
      BY <2>3, CommitWrites DEF NewSession
    <3> QED
      BY <1>1, <2>1, <2>2, <3>1 DEF TypeOK
  <2>4. CASE ~IsSignIn(r)
    <3>1. PICK k : k = Token(r)
      OBVIOUS
    <3>2. /\ k \in Requests /\ sessions[k] # None /\ sessions' = [sessions EXCEPT ![k] = txn[r].row]
          /\ txn[r].row \in Session
          /\ txn[r].row.expires_at = sessions[k].expires_at
          /\ IF IsVisit(r) THEN txn[r].row.last_seen_at = txn[r].stamp
             ELSE txn[r].row.last_seen_at = sessions[k].last_seen_at
      BY <2>4, <3>1, CommitWrites
    <3>3. IsVisit(r) => txn[r].stamp < sessions[k].expires_at
      BY <1>1, <3>1 DEF Standing, VisitStanding
    <3>4. txn[r].row.last_seen_at < txn[r].row.expires_at
      BY <2>1, <3>2, <3>3
    <3> QED
      BY <1>1, <2>1, <3>2, <3>4 DEF TypeOK
  <2> QED
    BY <2>3, <2>4
<1>5. TypeOK'
  BY <1>1, <1>2, <1>3, <1>4 DEF TypeOK, Labels
<1>6. OpenersAreGone'
  BY <1>4 DEF OpenersAreGone
<1>7. Cardinality(Gone') = Cardinality(Gone) + 1
  <2>1. Gone' = Gone \cup {r} /\ r \notin Gone
    BY <1>1 DEF Gone, TypeOK
  <2> QED
    BY <2>1, GoneIsFinite, FS_AddElement
<1>8. ASSUME NEW u \in Users PROVE accounts'[u].failures <= Cardinality(Gone')
  <2>1. accounts[u].failures \in Nat /\ accounts[u].failures <= Cardinality(Gone)
    BY <1>1, PolicyFacts DEF TypeOK, Account, AccessInv, CountsAreBounded
  <2> QED
    BY <1>3, <1>7, <2>1, GoneIsFinite
<1> QED
  BY <1>5, <1>6, <1>8 DEF CountsAreBounded

\* What a request has written becomes visible and it stands by it.
LEMMA CommitKeeps ==
  ASSUME AccessInv, NEW r \in Requests, Commit(r)
  PROVE  AccessInv'
<1>1. /\ TypeOK /\ Standing(r) /\ call[r] \in Sent /\ pc[r] = "commit"
      /\ pc' = [pc EXCEPT ![r] = "replying"] /\ pc'[r] = "replying"
      /\ UNCHANGED <<now, call, txn, answer>> /\ World
      /\ \A q \in Requests \ {r} : Kept(q)
  BY CommitWrites, CommitWorld
<1>2. /\ IsSignIn(r)' <=> IsSignIn(r)
      /\ IsVisit(r)' <=> IsVisit(r)
      /\ IsSignOut(r)' <=> IsSignOut(r)
      /\ ~HoldsSession(r)'
  BY <1>1 DEF IsSignIn, IsVisit, IsSignOut, HoldsSession, Holding
<1>3. PICK k : k = Token(r)
  OBVIOUS
<1>4. PICK x : x = txn[r].stamp
  OBVIOUS
<1>5. Token(r)' = k /\ txn'[r].stamp = x
  BY <1>1, <1>3, <1>4 DEF Token
<1>6. IsSignIn(r) => SignInStanding(r)'
  BY <1>1 DEF SignInStanding, Labels
<1>7. ASSUME IsVisit(r) PROVE VisitStanding(r)'
  <2>1. VisitStanding(r) /\ ~IsSignIn(r)
    BY <1>1, <1>7 DEF Standing, IsVisit, IsSignIn
  <2>2. TokenKnown(r)'
    BY <1>1, <2>1, OverStays DEF VisitStanding
  <2>3. k # None /\ k \in Requests /\ sessions[k] # None /\ x \in Time /\ Supported(k, x)
    <3>1. k # None /\ k \in Requests /\ sessions[k] # None /\ x \in Time
      BY <1>1, <1>3, <1>4, <2>1 DEF VisitStanding, TokenKnown
    <3>2. Supported(Token(r), txn[r].stamp)
      BY <1>1, <2>1 DEF VisitStanding
    <3> QED
      BY <1>3, <1>4, <3>1, <3>2 DEF Supported
  <2>4. Supported(k, x)' /\ sessions'[k] # None
    BY <1>1, <2>3, SupportStays DEF World
  <2>5. Supported(Token(r), txn[r].stamp)'
    BY <1>5, <2>4 DEF Supported
  <2>6. ~call[r].after_sign_out /\ txn[r].session = None
    BY <1>1, <2>1 DEF VisitStanding
  <2> QED
    BY <1>1, <1>5, <2>2, <2>3, <2>4, <2>5, <2>6 DEF VisitStanding
<1>8. ASSUME IsSignOut(r) PROVE SignOutStanding(r)'
  <2>1. SignOutStanding(r) /\ ~IsSignIn(r) /\ ~IsVisit(r)
    BY <1>1, <1>8 DEF Standing, IsVisit, IsSignIn, IsSignOut
  <2>2. TokenKnown(r)'
    BY <1>1, <2>1, OverStays DEF SignOutStanding
  <2>3. k \in Requests /\ sessions'[k].revoked_at # None
    BY <1>1, <1>3, <2>1, CommitWrites DEF TypeOK
  <2>4. Over(r)'
    BY <1>5, <2>3, PolicyFacts DEF Over, SessionOf, Token
  <2> QED
    BY <1>1, <2>1, <2>2, <2>4 DEF SignOutStanding
<1>9. \A q \in Requests : Standing(q)'
  <2>1. Standing(r)'
    BY <1>1, <1>2, <1>6, <1>7, <1>8 DEF Standing
  <2>2. \A q \in Requests \ {r} : Standing(q)'
    BY <1>1, CommitWorld, OthersStand
  <2> QED
    BY <2>1, <2>2
<1>10. \A q \in Requests \ {r} : (HoldsSession(q)' <=> HoldsSession(q)) /\ Token(q)' = Token(q)
  BY <1>1 DEF Kept, HoldsSession, Holding, IsSignIn, Token
<1>11. ASSUME NEW p \in Requests, NEW q \in Requests, p # q PROVE Apart(p, q)'
  <2>1. Apart(p, q)
    BY <1>11 DEF AccessInv
  <2> QED
    BY <1>2, <1>10, <1>11, <2>1 DEF Apart
<1>12. now' <= MaxNow
  BY <1>1 DEF AccessInv
<1> QED
  BY <1>9, <1>11, <1>12, CommitTypes, CommitLives DEF AccessInv

--------------------------------------------------------------------------------
(* Everybody else, and the theorems *)

\* An account that is switched on or off keeps its count.
LEMMA SetActiveKeeps ==
  ASSUME AccessInv, NEW u \in Users, SetActive(u)
  PROVE  AccessInv'
<1>1. /\ TypeOK /\ accounts' = [accounts EXCEPT ![u].active = ~@]
      /\ UNCHANGED <<sessions, trail, now, pc, call, txn, answer>>
  BY DEF AccessInv, SetActive
<1>2. ASSUME NEW v \in Users
      PROVE  accounts'[v] \in Account /\ accounts'[v].failures = accounts[v].failures
  <2>1. accounts[v] \in Account
    BY <1>1 DEF TypeOK
  <2>2. CASE v = u
    <3> DEFINE flipped == [accounts[u] EXCEPT !.active = ~accounts[u].active]
    <3>1. accounts'[u] = flipped
      BY <1>1 DEF TypeOK
    <3>2. flipped \in Account /\ flipped.failures = accounts[u].failures
      BY <2>1, <2>2, FlippedAccount
    <3> QED
      BY <2>2, <3>1, <3>2
  <2>3. CASE v # u
    BY <1>1, <2>1, <2>3 DEF TypeOK
  <2> QED
    BY <2>2, <2>3
<1>3. accounts' \in [Users -> Account]
  <2>1. accounts' = [v \in Users |-> accounts'[v]]
    BY <1>1 DEF TypeOK
  <2> QED
    BY <1>2, <2>1
<1>4. TypeOK'
  BY <1>1, <1>3 DEF TypeOK
<1>5. World /\ \A q \in Requests : Kept(q)
  <2>1. now \in Nat
    BY <1>1, PolicyFacts DEF TypeOK
  <2> QED
    BY <1>1, <2>1 DEF World, Kept, Gone, Moved, IsVisit, Token
<1>6. \A q \in Requests : Standing(q)'
  BY <1>1, <1>5, OthersStand
<1>7. CountsAreBounded'
  BY <1>1, <1>2 DEF AccessInv, CountsAreBounded, Gone
<1>8. SessionsLived' /\ OpenersAreGone'
  BY <1>1 DEF AccessInv, SessionsLived, OpenersAreGone, LivedAt, Moved, IsVisit, Token, Gone
<1>9. \A q, r \in Requests : q # r => Apart(q, r)'
  BY <1>1 DEF AccessInv, Apart, HoldsSession, Holding, IsSignIn, Token
<1> QED
  BY <1>1, <1>4, <1>6, <1>7, <1>8, <1>9 DEF AccessInv

\* The passing of time ends nothing by itself.
LEMMA TickKeeps ==
  ASSUME AccessInv, Tick
  PROVE  AccessInv'
<1>1. /\ TypeOK /\ now' = now + 1 /\ now' <= MaxNow /\ now \in Nat /\ now' \in Nat
      /\ UNCHANGED <<tables, pc, call, txn, answer>>
  <2>1. now \in Nat /\ now < MaxNow /\ now' = now + 1
    BY PolicyFacts DEF AccessInv, TypeOK, Tick
  <2> QED
    BY <2>1, PolicyFacts DEF AccessInv, Tick
<1>2. TypeOK'
  BY <1>1, PolicyFacts DEF TypeOK, tables
<1>3. World /\ \A q \in Requests : Kept(q)
  BY <1>1 DEF World, Kept, Gone, Moved, IsVisit, Token, tables
<1>4. \A q \in Requests : Standing(q)'
  BY <1>1, <1>3, OthersStand DEF tables
<1>5. CountsAreBounded' /\ OpenersAreGone'
  BY <1>1 DEF AccessInv, CountsAreBounded, OpenersAreGone, Gone, tables
<1>6. SessionsLived'
  <2> SUFFICES ASSUME NEW t \in Requests, sessions[t] # None
               PROVE  sessions[t].last_seen_at <= now' /\ LivedAt(t, sessions[t].last_seen_at)'
    BY <1>1 DEF SessionsLived, tables
  <2>1. sessions[t].last_seen_at \in Time
    BY <1>1 DEF TypeOK, Session
  <2>2. sessions[t].last_seen_at <= now /\ LivedAt(t, sessions[t].last_seen_at)
    BY DEF AccessInv, SessionsLived
  <2>3. sessions[t].last_seen_at <= now'
    <3>1. sessions[t].last_seen_at \in Nat
      BY <2>1, PolicyFacts
    <3> QED
      BY <1>1, <2>2, <3>1
  <2>4. LivedAt(t, sessions[t].last_seen_at)'
    BY <1>1, <2>2 DEF LivedAt, Moved, IsVisit, Token, tables
  <2> QED
    BY <2>3, <2>4
<1>7. \A q, r \in Requests : q # r => Apart(q, r)'
  BY <1>1 DEF AccessInv, Apart, HoldsSession, Holding, IsSignIn, Token
<1> QED
  BY <1>1, <1>2, <1>4, <1>5, <1>6, <1>7 DEF AccessInv

\* A statement is reached by its own kind of request.
LEMMA KindsOfStatement ==
  ASSUME AccessInv, NEW r \in Requests
  PROVE  /\ pc[r] \in {"decay", "verify", "fail", "succeed"} => IsSignIn(r)
         /\ pc[r] \in {"touch", "scope"} => IsVisit(r)
         /\ pc[r] = "revoke" => IsSignOut(r)
<1>1. Standing(r)
  BY DEF AccessInv
<1>2. pc[r] # "unsent" => IsSignIn(r) \/ IsVisit(r) \/ IsSignOut(r)
  BY <1>1, KindsOfCall DEF Standing
<1> QED
  BY <1>1, <1>2 DEF Standing, SignInStanding, VisitStanding, SignOutStanding

\* The invariant is inductive.
LEMMA NextKeeps == AccessInv /\ [Next]_vars => AccessInv'
<1> SUFFICES ASSUME AccessInv, [Next]_vars PROVE AccessInv'
  OBVIOUS
<1>1. CASE \E r \in Requests, c \in Calls : Send(r, c)
  BY <1>1, SendKeeps
<1>2. ASSUME NEW r \in Requests, Serve(r) PROVE AccessInv'
  <2>1. CASE ReadCredentials(r) \/ JudgeLock(r)
    BY <2>1, ReadCredentialsKeeps, JudgeLockKeeps
  <2>2. CASE Decay(r) \/ Verify(r) \/ RecordFailure(r) \/ OpenSession(r)
    <3>1. IsSignIn(r)
      BY <2>2, KindsOfStatement DEF Decay, Verify, RecordFailure, OpenSession
    <3> QED
      BY <2>2, <3>1, DecayKeeps, VerifyKeeps, RecordFailureKeeps, OpenSessionKeeps
  <2>3. CASE ReadSession(r) \/ JudgeSession(r)
    BY <2>3, ReadSessionKeeps, JudgeSessionKeeps
  <2>4. CASE Touch(r) \/ ResolveScope(r)
    <3>1. IsVisit(r)
      BY <2>4, KindsOfStatement DEF Touch, ResolveScope
    <3> QED
      BY <2>4, <3>1, TouchKeeps, ResolveScopeKeeps
  <2>5. CASE BeginSignOut(r)
    BY <2>5, BeginSignOutKeeps
  <2>6. CASE Revoke(r)
    <3>1. IsSignOut(r)
      BY <2>6, KindsOfStatement DEF Revoke
    <3> QED
      BY <2>6, <3>1, RevokeKeeps
  <2>7. CASE Commit(r) \/ Deliver(r)
    BY <2>7, CommitKeeps, DeliverKeeps
  <2> QED
    BY <1>2, <2>1, <2>2, <2>3, <2>4, <2>5, <2>6, <2>7 DEF Serve
<1>3. CASE \E r \in Requests : Cut(r)
  BY <1>3, CutKeeps
<1>4. CASE (\E u \in Users : SetActive(u)) \/ Tick
  BY <1>4, SetActiveKeeps, TickKeeps
<1>5. CASE UNCHANGED vars
  <2>1. TypeOK /\ now \in Nat /\ UNCHANGED <<accounts, sessions, trail, now, pc, call, txn, answer>>
    BY <1>5, PolicyFacts DEF AccessInv, TypeOK, vars, tables
  <2>2. TypeOK' /\ now' <= MaxNow
    BY <2>1 DEF AccessInv, TypeOK
  <2>3. World /\ \A q \in Requests : Kept(q)
    BY <2>1 DEF World, Kept, Gone, Moved, IsVisit, Token
  <2>4. \A q \in Requests : Standing(q)'
    BY <2>1, <2>3, OthersStand
  <2>5. CountsAreBounded' /\ SessionsLived' /\ OpenersAreGone'
    BY <2>1 DEF AccessInv, CountsAreBounded, SessionsLived, OpenersAreGone, LivedAt, Moved,
       IsVisit, Token, Gone
  <2>6. \A q, r \in Requests : q # r => Apart(q, r)'
    BY <2>1 DEF AccessInv, Apart, HoldsSession, Holding, IsSignIn, Token
  <2> QED
    BY <2>2, <2>4, <2>5, <2>6 DEF AccessInv
<1> QED
  BY <1>1, <1>2, <1>3, <1>4, <1>5 DEF Next

\* The invariant holds in every reachable state.
THEOREM AccessInvHolds == Spec => []AccessInv
BY InitAccess, NextKeeps, PTL DEF Spec

\* Tables, responses and local variables keep their types, a failed count never
\* exceeds the number of requests, and no session is seen at or after its absolute
\* timeout.
THEOREM AccessTypeCorrect == Spec => []TypeOK
<1>1. AccessInv => TypeOK
  BY DEF AccessInv
<1> QED
  BY <1>1, AccessInvHolds, PTL

\* Once a sign-out was answered its session is revoked for good, whatever visits
\* were under way, and nobody is served under its token from then on.
THEOREM SignOutsAreFinal == Spec => []SignOutIsFinal
<1>1. AccessInv => SignOutIsFinal
  <2> SUFFICES ASSUME AccessInv, NEW r \in Requests
               PROVE  /\ IsSignOut(r) /\ pc[r] \in {"replying", "answered"} =>
                           SessionOf(r) = None \/ SessionOf(r).revoked_at # None
                      /\ IsVisit(r) /\ answer[r] = "served" => ~call[r].after_sign_out
    BY DEF SignOutIsFinal
  <2>1. Standing(r)
    BY DEF AccessInv
  <2> QED
    BY <2>1 DEF Standing, SignOutStanding, VisitStanding, Over
<1> QED
  BY <1>1, AccessInvHolds, PTL

\* A visit moves a session only within the idle timeout of its sign-in or of an
\* earlier visit that moved it, whatever visits overlap, fail or are cut.
THEOREM SessionsAreKeptAlive == Spec => []SessionsLiveByActivity
<1>1. AccessInv => SessionsLiveByActivity
  <2> SUFFICES ASSUME AccessInv, NEW r \in Requests, Moved(r)
               PROVE  LET s == sessions[call[r].token]
                          earlier == {txn[q].stamp : q \in {p \in Requests :
                                        Moved(p) /\ call[p].token = call[r].token
                                                 /\ txn[p].stamp < txn[r].stamp}}
                      IN  \E t \in earlier \cup {s.issued_at} :
                            t <= txn[r].stamp /\ txn[r].stamp < t + Idle
    BY DEF SessionsLiveByActivity
  <2>1. VisitStanding(r)
    BY DEF AccessInv, Standing, Moved
  <2>2. Supported(Token(r), txn[r].stamp) /\ txn[r].stamp \in Nat
    BY <2>1, PolicyFacts DEF VisitStanding
  <2>3. CASE \E q \in Requests : /\ Moved(q) /\ Token(q) = Token(r) /\ txn[q].stamp \in Time
                                 /\ txn[q].stamp < txn[r].stamp
                                 /\ txn[r].stamp < txn[q].stamp + Idle
    <3>1. PICK q \in Requests : /\ Moved(q) /\ Token(q) = Token(r) /\ txn[q].stamp \in Time
                                /\ txn[q].stamp < txn[r].stamp
                                /\ txn[r].stamp < txn[q].stamp + Idle
      BY <2>3
    <3>2. txn[q].stamp \in Nat
      BY <3>1, PolicyFacts
    <3>3. txn[q].stamp <= txn[r].stamp
      BY <2>2, <3>1, <3>2
    <3> QED
      BY <3>1, <3>3 DEF Token
  <2>4. CASE /\ sessions[Token(r)].issued_at <= txn[r].stamp
             /\ txn[r].stamp < sessions[Token(r)].issued_at + Idle
    BY <2>4 DEF Token
  <2> QED
    BY <2>2, <2>3, <2>4 DEF Supported
<1> QED
  BY <1>1, AccessInvHolds, PTL

--------------------------------------------------------------------------------
(* What a trail tells of a request and of an account *)

\* The events of one type a request recorded on a trail, and what they say of the
\* answer a of its sign-in.
ByRequest(T, r, type) == {i \in DOMAIN T : T[i].by = r /\ T[i].type = type}
Answers(T, r, a) ==
  /\ IF a \in {"invalid", "locked"} THEN \E p \in DOMAIN T : ByRequest(T, r, "auth_sign_in_failed") = {p}
     ELSE ByRequest(T, r, "auth_sign_in_failed") = {}
  /\ IF a = "signed_in" THEN \E p \in DOMAIN T : ByRequest(T, r, "auth_sign_in_succeeded") = {p}
     ELSE ByRequest(T, r, "auth_sign_in_succeeded") = {}

\* The marks of u on a trail: its events among those of a kind, since its last reset.
ResetTypes == {"auth_sign_in_succeeded", "auth_account_unlocked"}
FailureEvents == {e \in Event : e.reason \in {"invalid_credentials", "invalid_mfa_code"}}
LockingEvents == {e \in Event : e.type = "auth_account_locked"}
Marks(T, u, kind) ==
  {i \in DOMAIN T : /\ T[i].actor = u /\ T[i] \in kind
                    /\ \A j \in DOMAIN T : T[j].actor = u /\ T[j].type \in ResetTypes => j < i}

\* The trail tells the count and the lock of an account.
AccountTold(T, u, c) ==
  LET count == Cardinality(Marks(T, u, FailureEvents))
  IN  /\ c.failures = count
      /\ (c.locked_until # None) <=> (count >= Threshold)
      /\ Cardinality(Marks(T, u, LockingEvents)) =
           (IF count >= Threshold THEN count - Threshold + 1 ELSE 0)

\* Whatever trail tells the account c of u tells d once it has the events E, too.
Explains(E, u, c, d) ==
  \A T \in Seq(Event) : AccountTold(T, u, c) => AccountTold(T \o E, u, d)

\* What is told of a request: nothing while its transaction is open; what it has
\* recorded is its own; what it records, or has recorded, is what it answers.
RequestTold(T, r, label, signs, t, a, opened) ==
  /\ label \notin {"replying", "answered", "lost"} => \A i \in DOMAIN T : T[i].by # r
  /\ \A i \in DOMAIN t.events : t.events[i].by = r
  /\ ~signs => t.events = <<>>
  /\ signs /\ label \in {"opened", "judge", "decay", "verify", "fail", "succeed"} =>
       Answers(t.events, r, "none")
  /\ signs /\ label = "commit" =>
       Answers(t.events, r, a) /\ (t.session # None <=> a = "signed_in")
  /\ signs /\ label \in {"replying", "answered"} =>
       Answers(T, r, a) /\ (opened <=> a = "signed_in")

\* What is told of an attempt on the account of u by a transaction that is open:
\* its events are about u, and they explain the row it has written, or leave any
\* account as it was.
AttemptTold(u, label, t, account) ==
  label \in {"opened", "judge", "decay", "verify", "fail", "succeed", "commit"} =>
    /\ \A i \in DOMAIN t.events : t.events[i].actor = u
    /\ label \in {"opened", "judge", "decay"} => t.row = None /\ t.events = <<>>
    /\ u = None => t.row = None
    /\ u # None => IF t.row = None THEN \A c \in Account : Explains(t.events, u, c, c)
                   ELSE t.row \in Account /\ Explains(t.events, u, account, t.row)

Told(r) ==
  /\ RequestTold(trail, r, pc[r], IsSignIn(r), txn[r], answer[r], sessions[r] # None)
  /\ IsSignIn(r) => AttemptTold(User(r), pc[r], txn[r], accounts[User(r)])

\* No two open attempts hold one account.
HoldsAccount(r) == Holding(r) /\ IsSignIn(r)
Alone(q, r) == HoldsAccount(q) /\ HoldsAccount(r) => User(q) # User(r)

TrailInv ==
  /\ \A u \in Users : AccountTold(trail, u, accounts[u])
  /\ \A r \in Requests : Told(r)
  /\ \A q, r \in Requests : q # r => Alone(q, r)

\* Recording one event more.
LEMMA OneMore ==
  ASSUME NEW T \in Seq(Event), NEW e \in Event
  PROVE  /\ T \o <<e>> \in Seq(Event) /\ Len(T) \in Nat /\ DOMAIN T = 1 .. Len(T)
         /\ DOMAIN (T \o <<e>>) = 1 .. Len(T) + 1
         /\ \A i \in 1 .. Len(T) : (T \o <<e>>)[i] = T[i] /\ T[i] \in Event
         /\ (T \o <<e>>)[Len(T) + 1] = e
<1>1. <<e>> \in Seq(Event) /\ Len(<<e>>) = 1 /\ <<e>>[1] = e
  OBVIOUS
<1>2. T \o <<e>> \in Seq(Event) /\ Len(T) \in Nat /\ DOMAIN T = 1 .. Len(T)
  BY <1>1, ConcatProperties, LenProperties
<1>3. DOMAIN (T \o <<e>>) = 1 .. Len(T) + 1
  BY <1>1, <1>2, ConcatProperties, LenProperties
<1>4. \A i \in 1 .. Len(T) + 1 : (T \o <<e>>)[i] = IF i <= Len(T) THEN T[i] ELSE <<e>>[i - Len(T)]
  BY <1>1, <1>2, ConcatProperties
<1>5. \A i \in 1 .. Len(T) : (T \o <<e>>)[i] = T[i] /\ T[i] \in Event
  BY <1>2, <1>4, ElementOfSeq
<1>6. (T \o <<e>>)[Len(T) + 1] = e
  BY <1>1, <1>2, <1>4
<1> QED
  BY <1>2, <1>3, <1>5, <1>6

\* Recording the events of a transaction.
LEMMA ManyMore ==
  ASSUME NEW T \in Seq(Event), NEW E \in Seq(Event)
  PROVE  /\ T \o E \in Seq(Event) /\ Len(T) \in Nat /\ Len(E) \in Nat
         /\ DOMAIN T = 1 .. Len(T) /\ DOMAIN E = 1 .. Len(E)
         /\ DOMAIN (T \o E) = 1 .. Len(T) + Len(E)
         /\ \A i \in 1 .. Len(T) : (T \o E)[i] = T[i]
         /\ \A i \in 1 .. Len(E) : (T \o E)[Len(T) + i] = E[i]
<1>1. /\ T \o E \in Seq(Event) /\ Len(T) \in Nat /\ Len(E) \in Nat
      /\ DOMAIN T = 1 .. Len(T) /\ DOMAIN E = 1 .. Len(E)
      /\ DOMAIN (T \o E) = 1 .. Len(T) + Len(E)
  BY ConcatProperties, LenProperties
<1>2. \A i \in 1 .. Len(T) + Len(E) : (T \o E)[i] = IF i <= Len(T) THEN T[i] ELSE E[i - Len(T)]
  BY ConcatProperties
<1>3. \A i \in 1 .. Len(T) : (T \o E)[i] = T[i]
  BY <1>1, <1>2
<1>4. \A i \in 1 .. Len(E) : (T \o E)[Len(T) + i] = E[i]
  <2> SUFFICES ASSUME NEW i \in 1 .. Len(E) PROVE (T \o E)[Len(T) + i] = E[i]
    OBVIOUS
  <2>1. Len(T) + i \in 1 .. Len(T) + Len(E) /\ ~(Len(T) + i <= Len(T)) /\ (Len(T) + i) - Len(T) = i
    BY <1>1
  <2> QED
    BY <1>2, <2>1
<1> QED
  BY <1>1, <1>3, <1>4

--------------------------------------------------------------------------------
(* The events of a request *)

\* An event of r is one more among its own, another one is none.
LEMMA ByRequestOneMore ==
  ASSUME NEW T \in Seq(Event), NEW e \in Event, NEW r, NEW type
  PROVE  /\ e.by = r /\ e.type = type =>
              ByRequest(T \o <<e>>, r, type) = ByRequest(T, r, type) \cup {Len(T) + 1}
         /\ ~(e.by = r /\ e.type = type) => ByRequest(T \o <<e>>, r, type) = ByRequest(T, r, type)
<1>1. \A i : i \in ByRequest(T \o <<e>>, r, type) <=>
               \/ i \in ByRequest(T, r, type)
               \/ i = Len(T) + 1 /\ e.by = r /\ e.type = type
  <2> SUFFICES ASSUME NEW i
               PROVE  i \in ByRequest(T \o <<e>>, r, type) <=>
                        \/ i \in ByRequest(T, r, type)
                        \/ i = Len(T) + 1 /\ e.by = r /\ e.type = type
    OBVIOUS
  <2>1. i \in DOMAIN (T \o <<e>>) <=> i \in DOMAIN T \/ i = Len(T) + 1
    BY OneMore
  <2>2. i \in DOMAIN T => (T \o <<e>>)[i] = T[i] /\ i # Len(T) + 1
    BY OneMore
  <2>3. (T \o <<e>>)[Len(T) + 1] = e
    BY OneMore
  <2> QED
    BY <2>1, <2>2, <2>3 DEF ByRequest
<1> QED
  BY <1>1

\* Events nobody else recorded stand where they were recorded.
LEMMA ByRequestMoves ==
  ASSUME NEW T \in Seq(Event), NEW E \in Seq(Event), NEW r, NEW type,
         \A i \in DOMAIN T : T[i].by # r
  PROVE  ByRequest(T \o E, r, type) = {Len(T) + i : i \in ByRequest(E, r, type)}
<1>1. ASSUME NEW i \in ByRequest(E, r, type) PROVE Len(T) + i \in ByRequest(T \o E, r, type)
  BY <1>1, ManyMore DEF ByRequest
<1>2. ASSUME NEW j \in ByRequest(T \o E, r, type)
      PROVE  \E i \in ByRequest(E, r, type) : j = Len(T) + i
  <2>1. j \in 1 .. Len(T) + Len(E) /\ (T \o E)[j].by = r /\ (T \o E)[j].type = type
    BY <1>2, ManyMore DEF ByRequest
  <2>2. ~(j \in 1 .. Len(T))
    BY <2>1, ManyMore
  <2>3. PICK i \in 1 .. Len(E) : j = Len(T) + i
    <3>1. j - Len(T) \in 1 .. Len(E) /\ j = Len(T) + (j - Len(T))
      BY <2>1, <2>2, ManyMore
    <3> QED
      BY <3>1
  <2>4. (T \o E)[j] = E[i] /\ i \in DOMAIN E
    BY <2>3, ManyMore
  <2>5. i \in ByRequest(E, r, type)
    BY <2>1, <2>4 DEF ByRequest
  <2> QED
    BY <2>3, <2>5
<1> QED
  BY <1>1, <1>2

\* The events of others change nothing of those of r.
LEMMA ByRequestStays ==
  ASSUME NEW T \in Seq(Event), NEW E \in Seq(Event), NEW r, NEW type,
         \A i \in DOMAIN E : E[i].by # r
  PROVE  ByRequest(T \o E, r, type) = ByRequest(T, r, type)
<1>1. ASSUME NEW j \in ByRequest(T \o E, r, type) PROVE j \in ByRequest(T, r, type)
  <2>1. j \in 1 .. Len(T) + Len(E) /\ (T \o E)[j].by = r /\ (T \o E)[j].type = type
    BY <1>1, ManyMore DEF ByRequest
  <2>2. j \in 1 .. Len(T)
    <3> SUFFICES ASSUME ~(j \in 1 .. Len(T)) PROVE FALSE
      OBVIOUS
    <3>1. j - Len(T) \in 1 .. Len(E) /\ j = Len(T) + (j - Len(T))
      BY <2>1, ManyMore
    <3>2. PICK i \in 1 .. Len(E) : j = Len(T) + i
      BY <3>1
    <3> QED
      BY <2>1, <3>2, ManyMore
  <2> QED
    BY <2>1, <2>2, ManyMore DEF ByRequest
<1>2. ASSUME NEW j \in ByRequest(T, r, type) PROVE j \in ByRequest(T \o E, r, type)
  <2>1. j \in 1 .. Len(T) /\ T[j].by = r /\ T[j].type = type
    BY <1>2, ManyMore DEF ByRequest
  <2>2. j \in 1 .. Len(T) + Len(E) /\ (T \o E)[j] = T[j]
    BY <2>1, ManyMore
  <2> QED
    BY <2>1, <2>2, ManyMore DEF ByRequest
<1> QED
  BY <1>1, <1>2

\* An answer is told by the trail as by the events it is published with.
LEMMA AnswersMove ==
  ASSUME NEW T \in Seq(Event), NEW E \in Seq(Event), NEW r, NEW a,
         \A i \in DOMAIN T : T[i].by # r, Answers(E, r, a)
  PROVE  Answers(T \o E, r, a)
<1>1. ASSUME NEW type
      PROVE  /\ ByRequest(E, r, type) = {} => ByRequest(T \o E, r, type) = {}
             /\ (\E p \in DOMAIN E : ByRequest(E, r, type) = {p}) =>
                  \E p \in DOMAIN (T \o E) : ByRequest(T \o E, r, type) = {p}
  <2>1. ByRequest(T \o E, r, type) = {Len(T) + i : i \in ByRequest(E, r, type)}
    BY ByRequestMoves
  <2>2. ByRequest(E, r, type) = {} => ByRequest(T \o E, r, type) = {}
    BY <2>1
  <2>3. ASSUME NEW p \in DOMAIN E, ByRequest(E, r, type) = {p}
        PROVE  \E q \in DOMAIN (T \o E) : ByRequest(T \o E, r, type) = {q}
    <3>1. ByRequest(T \o E, r, type) = {Len(T) + p}
      BY <2>1, <2>3
    <3>2. Len(T) + p \in DOMAIN (T \o E)
      BY <3>1 DEF ByRequest
    <3> QED
      BY <3>1, <3>2
  <2> QED
    BY <2>2, <2>3
<1> QED
  BY <1>1 DEF Answers

\* An answer stays told when others record theirs.
LEMMA AnswersStay ==
  ASSUME NEW T \in Seq(Event), NEW E \in Seq(Event), NEW r, NEW a,
         \A i \in DOMAIN E : E[i].by # r, Answers(T, r, a)
  PROVE  Answers(T \o E, r, a)
<1>1. /\ ByRequest(T \o E, r, "auth_sign_in_failed") = ByRequest(T, r, "auth_sign_in_failed")
      /\ ByRequest(T \o E, r, "auth_sign_in_succeeded") = ByRequest(T, r, "auth_sign_in_succeeded")
  BY ByRequestStays
<1>2. DOMAIN T \subseteq DOMAIN (T \o E)
  BY ManyMore
<1> QED
  BY <1>1, <1>2 DEF Answers

\* What the next event of r makes of its answer.
LEMMA AnswersOneMore ==
  ASSUME NEW T \in Seq(Event), NEW e \in Event, NEW r, e.by = r
  PROVE  /\ \A a : Answers(T, r, a) /\ e.type \notin {"auth_sign_in_failed", "auth_sign_in_succeeded"}
                     => Answers(T \o <<e>>, r, a)
         /\ Answers(T, r, "none") /\ e.type = "auth_sign_in_failed" =>
              Answers(T \o <<e>>, r, "invalid") /\ Answers(T \o <<e>>, r, "locked")
         /\ Answers(T, r, "none") /\ e.type = "auth_sign_in_succeeded" =>
              Answers(T \o <<e>>, r, "signed_in")
<1>1. ASSUME NEW type
      PROVE  /\ e.type = type =>
                  ByRequest(T \o <<e>>, r, type) = ByRequest(T, r, type) \cup {Len(T) + 1}
             /\ e.type # type => ByRequest(T \o <<e>>, r, type) = ByRequest(T, r, type)
  BY ByRequestOneMore
<1>2. Len(T) + 1 \in DOMAIN (T \o <<e>>) /\ DOMAIN T \subseteq DOMAIN (T \o <<e>>)
  BY OneMore
<1>3. ASSUME NEW a, Answers(T, r, a), e.type \notin {"auth_sign_in_failed", "auth_sign_in_succeeded"}
      PROVE  Answers(T \o <<e>>, r, a)
  <2>1. /\ ByRequest(T \o <<e>>, r, "auth_sign_in_failed") = ByRequest(T, r, "auth_sign_in_failed")
        /\ ByRequest(T \o <<e>>, r, "auth_sign_in_succeeded") = ByRequest(T, r, "auth_sign_in_succeeded")
    BY <1>1, <1>3
  <2> QED
    BY <1>2, <1>3, <2>1 DEF Answers
<1>4. ASSUME Answers(T, r, "none")
      PROVE  ByRequest(T, r, "auth_sign_in_failed") = {} /\ ByRequest(T, r, "auth_sign_in_succeeded") = {}
  BY <1>4 DEF Answers
<1>5. ASSUME Answers(T, r, "none"), e.type = "auth_sign_in_failed"
      PROVE  Answers(T \o <<e>>, r, "invalid") /\ Answers(T \o <<e>>, r, "locked")
  <2>1. /\ ByRequest(T \o <<e>>, r, "auth_sign_in_failed") = {Len(T) + 1}
        /\ ByRequest(T \o <<e>>, r, "auth_sign_in_succeeded") = {}
    BY <1>1, <1>4, <1>5
  <2> QED
    BY <1>2, <2>1 DEF Answers
<1>6. ASSUME Answers(T, r, "none"), e.type = "auth_sign_in_succeeded"
      PROVE  Answers(T \o <<e>>, r, "signed_in")
  <2>1. /\ ByRequest(T \o <<e>>, r, "auth_sign_in_succeeded") = {Len(T) + 1}
        /\ ByRequest(T \o <<e>>, r, "auth_sign_in_failed") = {}
    BY <1>1, <1>4, <1>6
  <2> QED
    BY <1>2, <2>1 DEF Answers
<1> QED
  BY <1>3, <1>5, <1>6

--------------------------------------------------------------------------------
(* The marks of an account *)

\* Marks are positions of the trail.
LEMMA MarksArePositions ==
  ASSUME NEW T \in Seq(Event), NEW u, NEW kind
  PROVE  /\ Marks(T, u, kind) \subseteq 1 .. Len(T) /\ Len(T) \in Nat
         /\ IsFiniteSet(Marks(T, u, kind)) /\ Cardinality(Marks(T, u, kind)) \in Nat
         /\ Len(T) + 1 \notin Marks(T, u, kind)
<1>1. Marks(T, u, kind) \subseteq 1 .. Len(T) /\ Len(T) \in Nat
  BY LenProperties DEF Marks
<1>2. IsFiniteSet(1 .. Len(T))
  BY <1>1, FS_Interval
<1>3. IsFiniteSet(Marks(T, u, kind))
  BY <1>1, <1>2, FS_Subset
<1> QED
  BY <1>1, <1>3, FS_CardinalityType

\* An event of somebody else leaves the marks of u alone, a reset wipes them out,
\* an event of the kind is one more, any other is none.
LEMMA MarksOneMore ==
  ASSUME NEW T \in Seq(Event), NEW e \in Event, NEW u, NEW kind
  PROVE  /\ e.actor = u /\ e.type \in ResetTypes => Marks(T \o <<e>>, u, kind) = {}
         /\ e.actor = u /\ e.type \notin ResetTypes /\ e \in kind =>
              Marks(T \o <<e>>, u, kind) = Marks(T, u, kind) \cup {Len(T) + 1}
         /\ e.actor # u \/ (e.type \notin ResetTypes /\ e \notin kind) =>
              Marks(T \o <<e>>, u, kind) = Marks(T, u, kind)
<1> DEFINE n == Len(T) + 1
           S == T \o <<e>>
<1>1. /\ DOMAIN T = 1 .. Len(T) /\ Len(T) \in Nat /\ DOMAIN S = 1 .. n
      /\ \A i \in 1 .. Len(T) : S[i] = T[i]
      /\ S[n] = e
  BY OneMore
<1>2. \A i : i \in 1 .. n <=> i \in 1 .. Len(T) \/ i = n
  BY <1>1
<1>3. \A i \in 1 .. Len(T) : i < n /\ ~(n < i)
  BY <1>1
<1>3a. ~(n < n)
  BY <1>1
<1> HIDE DEF n, S
<1>4. ASSUME NEW i
      PROVE  i \in Marks(S, u, kind) <=>
               /\ \/ i \in Marks(T, u, kind)
                  \/ i = n /\ e.actor = u /\ e \in kind
               /\ ~(e.actor = u /\ e.type \in ResetTypes)
  <2>1. CASE i \in 1 .. Len(T)
    <3>1. i # n /\ S[i] = T[i] /\ i \in DOMAIN S /\ i \in DOMAIN T /\ ~(n < i)
      BY <1>1, <1>2, <1>3, <1>3a, <2>1
    <3>2. (\A j \in DOMAIN S : S[j].actor = u /\ S[j].type \in ResetTypes => j < i) <=>
            /\ \A j \in DOMAIN T : T[j].actor = u /\ T[j].type \in ResetTypes => j < i
            /\ ~(e.actor = u /\ e.type \in ResetTypes)
      BY <1>1, <1>2, <3>1
    <3> QED
      BY <3>1, <3>2 DEF Marks
  <2>2. CASE i = n
    <3>1. i \notin Marks(T, u, kind) /\ i \in DOMAIN S /\ S[i] = e
      BY <1>1, <1>2, <1>3, <1>3a, <2>2 DEF Marks
    <3>2. (\A j \in DOMAIN S : S[j].actor = u /\ S[j].type \in ResetTypes => j < i) <=>
            ~(e.actor = u /\ e.type \in ResetTypes)
      BY <1>1, <1>2, <1>3, <1>3a, <2>2
    <3> QED
      BY <2>2, <3>1, <3>2 DEF Marks
  <2>3. CASE ~(i \in 1 .. Len(T)) /\ i # n
    BY <1>1, <1>2, <2>3 DEF Marks
  <2> QED
    BY <2>1, <2>2, <2>3
<1>5. e.actor = u /\ e.type \in ResetTypes => Marks(S, u, kind) = {}
  BY <1>4
<1>6. e.actor = u /\ e.type \notin ResetTypes /\ e \in kind =>
        Marks(S, u, kind) = Marks(T, u, kind) \cup {n}
  BY <1>4
<1>7. e.actor # u \/ (e.type \notin ResetTypes /\ e \notin kind) =>
        Marks(S, u, kind) = Marks(T, u, kind)
  BY <1>4
<1> QED
  BY <1>5, <1>6, <1>7 DEF S, n

\* An event of u that resets nothing is a mark more of its kind.
LEMMA CountsOneMore ==
  ASSUME NEW T \in Seq(Event), NEW e \in Event, NEW u, NEW kind,
         e.actor = u, e.type \notin ResetTypes
  PROVE  /\ Cardinality(Marks(T, u, kind)) \in Nat
         /\ e \in kind => Cardinality(Marks(T \o <<e>>, u, kind)) = Cardinality(Marks(T, u, kind)) + 1
         /\ e \notin kind => Cardinality(Marks(T \o <<e>>, u, kind)) = Cardinality(Marks(T, u, kind))
<1>1. e \in kind => Marks(T \o <<e>>, u, kind) = Marks(T, u, kind) \cup {Len(T) + 1}
  BY MarksOneMore
<1>2. e \notin kind => Marks(T \o <<e>>, u, kind) = Marks(T, u, kind)
  BY MarksOneMore
<1>3. /\ IsFiniteSet(Marks(T, u, kind)) /\ Cardinality(Marks(T, u, kind)) \in Nat
      /\ Len(T) + 1 \notin Marks(T, u, kind)
  BY MarksArePositions
<1>4. Cardinality(Marks(T, u, kind) \cup {Len(T) + 1}) = Cardinality(Marks(T, u, kind)) + 1
  BY <1>3, FS_AddElement
<1> QED
  BY <1>1, <1>2, <1>3, <1>4

\* The events of others leave the marks of u alone.
LEMMA MarksStay ==
  ASSUME NEW T \in Seq(Event), NEW E \in Seq(Event), NEW u, NEW kind,
         \A i \in DOMAIN E : E[i].actor # u
  PROVE  Marks(T \o E, u, kind) = Marks(T, u, kind)
<1> DEFINE S == T \o E
<1>1. /\ Len(T) \in Nat /\ DOMAIN T = 1 .. Len(T) /\ DOMAIN S = 1 .. Len(T) + Len(E)
      /\ \A i \in 1 .. Len(T) : S[i] = T[i]
      /\ \A i \in 1 .. Len(E) : S[Len(T) + i].actor # u
      /\ Len(E) \in Nat
  BY ManyMore
<1> HIDE DEF S
<1>2. \A j \in DOMAIN S : S[j].actor = u => j \in DOMAIN T
  <2> SUFFICES ASSUME NEW j \in DOMAIN S, ~(j \in DOMAIN T) PROVE S[j].actor # u
    OBVIOUS
  <2>1. j - Len(T) \in 1 .. Len(E) /\ j = Len(T) + (j - Len(T))
    BY <1>1
  <2>2. PICK i \in 1 .. Len(E) : j = Len(T) + i
    BY <2>1
  <2> QED
    BY <1>1, <2>2
<1>3. DOMAIN T \subseteq DOMAIN S /\ \A i \in DOMAIN T : S[i] = T[i]
  BY <1>1
<1>4. ASSUME NEW i \in DOMAIN T
      PROVE  (\A j \in DOMAIN S : S[j].actor = u /\ S[j].type \in ResetTypes => j < i) <=>
               (\A j \in DOMAIN T : T[j].actor = u /\ T[j].type \in ResetTypes => j < i)
  BY <1>2, <1>3
<1>5. \A i : i \in Marks(S, u, kind) <=> i \in Marks(T, u, kind)
  <2> SUFFICES ASSUME NEW i PROVE i \in Marks(S, u, kind) <=> i \in Marks(T, u, kind)
    OBVIOUS
  <2>1. CASE i \in DOMAIN T
    BY <1>3, <1>4, <2>1 DEF Marks
  <2>2. CASE ~(i \in DOMAIN T)
    BY <1>2, <2>2 DEF Marks
  <2> QED
    BY <2>1, <2>2
<1> QED
  BY <1>5 DEF S

\* No events explain that an account stays as it is.
LEMMA ExplainsNothing == \A u, c : Explains(<<>>, u, c, c)
BY ConcatEmptySeq DEF Explains

\* What is explained in two parts is explained.
LEMMA ExplainsThen ==
  ASSUME NEW E \in Seq(Event), NEW F \in Seq(Event), NEW u, NEW c, NEW d, NEW k,
         Explains(E, u, c, d), Explains(F, u, d, k)
  PROVE  Explains(E \o F, u, c, k)
<1> SUFFICES ASSUME NEW T \in Seq(Event), AccountTold(T, u, c)
             PROVE  AccountTold(T \o (E \o F), u, k)
  BY DEF Explains
<1>1. T \o E \in Seq(Event) /\ AccountTold(T \o E, u, d)
  BY ManyMore DEF Explains
<1>2. AccountTold((T \o E) \o F, u, k)
  BY <1>1 DEF Explains
<1>3. (T \o E) \o F = T \o (E \o F)
  BY ConcatAssociative
<1> QED
  BY <1>2, <1>3

\* The events of others leave an account as it was.
LEMMA ExplainsOthers ==
  ASSUME NEW E \in Seq(Event), NEW u, NEW c, \A i \in DOMAIN E : E[i].actor # u
  PROVE  Explains(E, u, c, c)
BY MarksStay DEF Explains, AccountTold

\* An event that neither counts, locks nor resets leaves an account as it was.
LEMMA ExplainsNoMark ==
  ASSUME NEW e \in Event, NEW u, NEW c,
         e.type \notin ResetTypes, e \notin FailureEvents, e \notin LockingEvents
  PROVE  Explains(<<e>>, u, c, c)
BY MarksOneMore DEF Explains, AccountTold

\* A reset explains an account without failures and lock.
LEMMA ExplainsReset ==
  ASSUME NEW e \in Event, NEW u, NEW c, NEW d, e.actor = u, e.type \in ResetTypes,
         d.failures = 0, d.locked_until = None
  PROVE  Explains(<<e>>, u, c, d)
<1> SUFFICES ASSUME NEW T \in Seq(Event) PROVE AccountTold(T \o <<e>>, u, d)
  BY DEF Explains
<1>1. \A kind : Marks(T \o <<e>>, u, kind) = {}
  BY MarksOneMore
<1>2. Cardinality({}) = 0 /\ ~(0 >= Threshold)
  BY FS_EmptySet, PolicyIsSet
<1> QED
  BY <1>1, <1>2 DEF AccountTold

\* A failure below the threshold counts and changes no lock.
LEMMA ExplainsFailure ==
  ASSUME NEW e \in Event, NEW u, NEW c \in Account, NEW d \in Account, e.actor = u,
         e \in FailureEvents, e.type = "auth_sign_in_failed",
         d.failures = c.failures + 1, ~(d.failures >= Threshold), d.locked_until = c.locked_until
  PROVE  Explains(<<e>>, u, c, d)
<1> SUFFICES ASSUME NEW T \in Seq(Event), AccountTold(T, u, c) PROVE AccountTold(T \o <<e>>, u, d)
  BY DEF Explains
<1> DEFINE count == Cardinality(Marks(T, u, FailureEvents))
           locked == Cardinality(Marks(T, u, LockingEvents))
<1>1. e.type \notin ResetTypes /\ e \notin LockingEvents
  BY DEF ResetTypes, LockingEvents
<1>2. /\ count \in Nat /\ Cardinality(Marks(T \o <<e>>, u, FailureEvents)) = count + 1
      /\ Cardinality(Marks(T \o <<e>>, u, LockingEvents)) = locked
  <2>1. count \in Nat /\ Cardinality(Marks(T \o <<e>>, u, FailureEvents)) = count + 1
    BY <1>1, CountsOneMore
  <2>2. Cardinality(Marks(T \o <<e>>, u, LockingEvents)) = locked
    BY <1>1, CountsOneMore
  <2> QED
    BY <2>1, <2>2
<1>3. /\ c.failures = count /\ ((c.locked_until # None) <=> (count >= Threshold))
      /\ locked = (IF count >= Threshold THEN count - Threshold + 1 ELSE 0)
  BY DEF AccountTold
<1>4. ~(count + 1 >= Threshold) /\ ~(count >= Threshold)
  BY <1>2, <1>3, PolicyIsSet
<1> HIDE DEF count, locked
<1> QED
  BY <1>2, <1>3, <1>4 DEF AccountTold

\* A failure that reaches the threshold counts, and its locking event is told.
LEMMA ExplainsLocking ==
  ASSUME NEW e \in Event, NEW f \in Event, NEW u, NEW c \in Account, NEW d \in Account,
         e.actor = u, e \in FailureEvents, e.type = "auth_sign_in_failed",
         f.actor = u, f.type = "auth_account_locked", f.reason = "none",
         d.failures = c.failures + 1, d.failures >= Threshold, d.locked_until # None
  PROVE  Explains(<<e>> \o <<f>>, u, c, d)
<1> SUFFICES ASSUME NEW T \in Seq(Event), AccountTold(T, u, c)
             PROVE  AccountTold(T \o (<<e>> \o <<f>>), u, d)
  BY DEF Explains
<1> DEFINE count == Cardinality(Marks(T, u, FailureEvents))
           locked == Cardinality(Marks(T, u, LockingEvents))
<1>1. PICK S \in Seq(Event) : S = T \o <<e>>
  BY OneMore
<1>2. T \o (<<e>> \o <<f>>) = S \o <<f>>
  BY <1>1, ConcatAssociative
<1>3. /\ e.type \notin ResetTypes /\ e \notin LockingEvents
      /\ f.type \notin ResetTypes /\ f \in LockingEvents /\ f \notin FailureEvents
  BY DEF ResetTypes, LockingEvents, FailureEvents
<1>4. count \in Nat /\ Cardinality(Marks(S, u, FailureEvents)) = count + 1
  BY <1>1, <1>3, CountsOneMore
<1>5. locked \in Nat /\ Cardinality(Marks(S, u, LockingEvents)) = locked
  BY <1>1, <1>3, CountsOneMore
<1>6. Cardinality(Marks(S \o <<f>>, u, FailureEvents)) = count + 1
  BY <1>3, <1>4, CountsOneMore
<1>7. Cardinality(Marks(S \o <<f>>, u, LockingEvents)) = locked + 1
  BY <1>3, <1>5, CountsOneMore
<1>8. /\ c.failures = count /\ locked = (IF count >= Threshold THEN count - Threshold + 1 ELSE 0)
  BY DEF AccountTold
<1> HIDE DEF count, locked
<1>9. count + 1 >= Threshold /\ locked + 1 = (count + 1) - Threshold + 1 /\ d.failures = count + 1
  BY <1>4, <1>5, <1>8, PolicyIsSet
<1> QED
  BY <1>2, <1>6, <1>7, <1>9 DEF AccountTold

--------------------------------------------------------------------------------
(* What a step of one request leaves told *)

Open == {"opened", "judge", "decay", "verify", "fail", "succeed", "commit"}

\* What is told of a request depends on its own state, the trail and its session.
LEMMA OthersTold ==
  ASSUME NEW q \in Requests, Told(q), UNCHANGED tables, Kept(q)
  PROVE  Told(q)'
<1>1. /\ trail' = trail /\ sessions'[q] = sessions[q] /\ accounts' = accounts
      /\ IsSignIn(q)' = IsSignIn(q) /\ User(q)' = User(q)
  BY DEF tables, IsSignIn, User, Kept
<1>2. RequestTold(trail, q, pc[q], IsSignIn(q), txn[q], answer[q], sessions[q] # None)'
  BY <1>1 DEF Told, Kept
<1>3. IsSignIn(q)' => AttemptTold(User(q), pc[q], txn[q], accounts[User(q)])'
  BY <1>1 DEF Told, Kept
<1> QED
  BY <1>2, <1>3 DEF Told

\* A step of one request that leaves the tables alone, tells of it and takes a row
\* nobody else holds.
LEMMA AloneTells ==
  ASSUME TrailInv, NEW r \in Requests, UNCHANGED tables,
         \A q \in Requests \ {r} : Kept(q),
         Told(r)',
         HoldsAccount(r)' => (HoldsAccount(r) \/ AccountFree(r)) /\ User(r)' = User(r)
  PROVE  TrailInv'
<1>1. \A u \in Users : AccountTold(trail, u, accounts[u])'
  BY DEF TrailInv, tables
<1>2. \A q \in Requests : Told(q)'
  BY OthersTold DEF TrailInv, Kept
<1>3. \A q \in Requests \ {r} : /\ HoldsAccount(q)' <=> HoldsAccount(q)
                                /\ User(q)' = User(q)
  BY DEF HoldsAccount, Holding, IsSignIn, User, Kept
<1>4. \A q \in Requests \ {r} : Alone(q, r)' /\ Alone(r, q)'
  <2> SUFFICES ASSUME NEW q \in Requests \ {r}, HoldsAccount(q)', HoldsAccount(r)'
               PROVE  User(q)' # User(r)'
    BY DEF Alone
  <2>1. HoldsAccount(q) /\ User(q)' = User(q) /\ User(r)' = User(r)
    BY <1>3
  <2>2. HoldsAccount(r) \/ AccountFree(r)
    OBVIOUS
  <2>3. Alone(q, r)
    BY DEF TrailInv
  <2> QED
    BY <2>1, <2>2, <2>3 DEF Alone, AccountFree, HoldsAccount
<1>5. \A q, p \in Requests \ {r} : q # p => Alone(q, p)'
  BY <1>3 DEF TrailInv, Alone
<1>6. \A q, p \in Requests : q # p => Alone(q, p)'
  BY <1>4, <1>5
<1> QED
  BY <1>1, <1>2, <1>6 DEF TrailInv

\* A request that is no sign-in records nothing.
LEMMA MuteTells ==
  ASSUME AccessInv, TrailInv, NEW r \in Requests, UNCHANGED tables, call'[r] = call[r],
         \A q \in Requests \ {r} : Kept(q),
         ~IsSignIn(r), r \notin Gone, txn'[r].events \in {txn[r].events, <<>>}
  PROVE  TrailInv'
<1>1. ~IsSignIn(r)' /\ ~HoldsAccount(r)' /\ trail' = trail
  BY DEF IsSignIn, HoldsAccount, tables
<1>2. txn'[r].events = <<>> /\ \A i \in DOMAIN trail : trail[i].by # r
  BY DEF TrailInv, Told, RequestTold, Gone
<1>3. RequestTold(trail, r, pc[r], IsSignIn(r), txn[r], answer[r], sessions[r] # None)'
  <2>1. \A i \in DOMAIN <<>> : FALSE
    OBVIOUS
  <2> QED
    BY <1>1, <1>2, <2>1 DEF RequestTold
<1> QED
  BY <1>1, <1>3, AloneTells DEF Told

\* A sign-in tells what it is about to answer and to write.
LEMMA SignInTells ==
  ASSUME AccessInv, TrailInv, NEW r \in Requests, IsSignIn(r), NEW label \in Open \ {"opened"},
         NEW t, NEW a, Acts(r, label, t, a),
         \A i \in DOMAIN t.events : t.events[i].by = r,
         Answers(t.events, r, IF label = "commit" THEN a ELSE "none"),
         label = "commit" => (t.session # None <=> a = "signed_in"),
         AttemptTold(User(r), label, t, accounts[User(r)]),
         t.row # None => HoldsAccount(r) \/ AccountFree(r)
  PROVE  TrailInv'
<1>1. /\ pc'[r] = label /\ txn'[r] = t /\ answer'[r] = a /\ UNCHANGED tables
      /\ IsSignIn(r)' /\ User(r)' = User(r)
      /\ \A q \in Requests \ {r} : Kept(q)
  <2>1. /\ pc'[r] = label /\ txn'[r] = t /\ answer'[r] = a
        /\ IsSignIn(r)' /\ User(r)' = User(r)
    BY ActsAlone
  <2> QED
    BY <2>1 DEF Acts, AccessInv, TypeOK, Kept
<1>2. \A i \in DOMAIN trail : trail[i].by # r
  BY DEF TrailInv, Told, RequestTold, Acts, Active
<1>3. label \notin {"replying", "answered"}
  BY DEF Open
<1>4. RequestTold(trail, r, label, TRUE, t, a, sessions[r] # None)
  BY <1>2, <1>3 DEF RequestTold
<1>5. Told(r)'
  <2>1. trail' = trail /\ accounts' = accounts /\ sessions' = sessions
    BY <1>1 DEF tables
  <2>2. IsSignIn(r)' = TRUE
    BY <1>1 DEF IsSignIn
  <2>3. RequestTold(trail, r, pc[r], IsSignIn(r), txn[r], answer[r], sessions[r] # None)'
    BY <1>1, <1>4, <2>1, <2>2
  <2>4. AttemptTold(User(r), pc[r], txn[r], accounts[User(r)])'
    BY <1>1, <2>1
  <2> QED
    BY <2>3, <2>4 DEF Told
<1>6. HoldsAccount(r)' => (HoldsAccount(r) \/ AccountFree(r)) /\ User(r)' = User(r)
  BY <1>1 DEF HoldsAccount, Holding
<1> QED
  BY <1>1, <1>5, <1>6, AloneTells

--------------------------------------------------------------------------------
(* The steps of a sign-in *)

\* An event of a sign-in is one of its own about its account.
LEMMA RecordedIs ==
  ASSUME NEW r \in Requests, call[r] \in Sent, IsSignIn(r),
         NEW type \in {"auth_sign_in_succeeded", "auth_sign_in_failed",
                       "auth_account_locked", "auth_account_unlocked"},
         NEW reason \in Reason
  PROVE  \E e \in Event : /\ Recorded(r, type, reason) = <<e>>
                          /\ e.type = type /\ e.reason = reason /\ e.actor = User(r) /\ e.by = r
<1> DEFINE e == [type |-> type, reason |-> reason, actor |-> User(r), by |-> r]
<1>1. e \in Event
  BY KindsOfCall DEF Event
<1>2. e.type = type /\ e.reason = reason /\ e.actor = User(r) /\ e.by = r
  OBVIOUS
<1>3. Recorded(r, type, reason) = <<e>>
  BY DEF Recorded
<1> QED
  BY <1>1, <1>2, <1>3

\* One event more is told of its request and of its account.
LEMMA OwnOneMore ==
  ASSUME NEW E \in Seq(Event), NEW e \in Event, NEW r, NEW u, e.by = r, e.actor = u,
         \A i \in DOMAIN E : E[i].by = r /\ E[i].actor = u
  PROVE  /\ E \o <<e>> \in Seq(Event)
         /\ \A i \in DOMAIN (E \o <<e>>) : (E \o <<e>>)[i].by = r /\ (E \o <<e>>)[i].actor = u
<1>1. /\ DOMAIN (E \o <<e>>) = 1 .. Len(E) + 1 /\ (E \o <<e>>)[Len(E) + 1] = e
      /\ \A i \in 1 .. Len(E) : (E \o <<e>>)[i] = E[i] /\ i \in DOMAIN E
      /\ Len(E) \in Nat /\ E \o <<e>> \in Seq(Event)
  BY OneMore
<1>2. \A i \in 1 .. Len(E) + 1 : i \in 1 .. Len(E) \/ i = Len(E) + 1
  BY <1>1
<1> QED
  BY <1>1, <1>2

\* A trail that is empty tells no answer, and an event alone is a trail of one.
LEMMA NothingRecorded ==
  /\ <<>> \in Seq(Event) /\ \A i \in DOMAIN <<>> : FALSE
  /\ \A r, a : a \notin {"invalid", "locked", "signed_in"} => Answers(<<>>, r, a)
  /\ \A e \in Event : <<>> \o <<e>> = <<e>>
<1>1. <<>> \in Seq(Event) /\ DOMAIN <<>> = {}
  OBVIOUS
<1>2. \A r, type : ByRequest(<<>>, r, type) = {}
  BY <1>1 DEF ByRequest
<1>3. \A r, a : a \notin {"invalid", "locked", "signed_in"} => Answers(<<>>, r, a)
  BY <1>2 DEF Answers
<1>4. \A e \in Event : <<>> \o <<e>> = <<e>>
  <2> SUFFICES ASSUME NEW e \in Event PROVE <<>> \o <<e>> = <<e>>
    OBVIOUS
  <2>1. <<e>> \in Seq(Event)
    OBVIOUS
  <2> QED
    BY <2>1, ConcatEmptySeq
<1> QED
  BY <1>1, <1>3, <1>4

\* What is told of a sign-in that has not concluded, by its own events and the row
\* an UPDATE of it finds.
LEMMA UnderWay ==
  ASSUME AccessInv, TrailInv, NEW r \in Requests, IsSignIn(r), pc[r] \in Open \ {"commit"}
  PROVE  /\ TypeOK /\ call[r] \in Sent /\ txn[r] \in Txn /\ txn[r].events \in Seq(Event)
         /\ txn[r].session = None /\ answer[r] \in Answer /\ pc[r] \in Active
         /\ User(r) \in Users \cup {None}
         /\ pc[r] # "opened" => User(r) \in Users
         /\ \A i \in DOMAIN txn[r].events : /\ txn[r].events[i].by = r
                                            /\ txn[r].events[i].actor = User(r)
         /\ Answers(txn[r].events, r, "none")
         /\ AttemptTold(User(r), pc[r], txn[r], accounts[User(r)])
         /\ pc[r] \in {"opened", "judge", "decay"} => txn[r].events = <<>> /\ txn[r].row = None
         /\ User(r) \in Users =>
              /\ Explains(txn[r].events, User(r), accounts[User(r)], Current(r))
              /\ accounts[User(r)] \in Account
<1>1. TypeOK /\ Standing(r) /\ Told(r)
  BY DEF AccessInv, TrailInv
<1>2. /\ call[r] \in Sent /\ txn[r] \in Txn /\ txn[r].events \in Seq(Event) /\ answer[r] \in Answer
      /\ pc[r] \in Active
  BY <1>1 DEF Standing, TypeOK, Txn, Open, Active
<1>3. User(r) \in Users \cup {None} /\ (pc[r] # "opened" => User(r) \in Users)
  BY <1>1, <1>2, KindsOfCall DEF Standing, SignInStanding, Open
<1>4. txn[r].session = None
  BY <1>1, NoTxnIsEmpty DEF Standing, SignInStanding, Open
<1>5. /\ \A i \in DOMAIN txn[r].events : txn[r].events[i].by = r
      /\ Answers(txn[r].events, r, "none")
      /\ AttemptTold(User(r), pc[r], txn[r], accounts[User(r)])
  BY <1>1 DEF Told, RequestTold, Open
<1>6. /\ \A i \in DOMAIN txn[r].events : txn[r].events[i].actor = User(r)
      /\ pc[r] \in {"opened", "judge", "decay"} => txn[r].events = <<>> /\ txn[r].row = None
  BY <1>5 DEF AttemptTold, Open
<1>7. ASSUME User(r) \in Users
      PROVE  /\ Explains(txn[r].events, User(r), accounts[User(r)], Current(r))
             /\ accounts[User(r)] \in Account
  <2>1. accounts[User(r)] \in Account /\ User(r) # None
    BY <1>1, <1>7, PolicyFacts DEF TypeOK
  <2>2. IF txn[r].row = None THEN \A c \in Account : Explains(txn[r].events, User(r), c, c)
        ELSE Explains(txn[r].events, User(r), accounts[User(r)], txn[r].row)
    BY <1>5, <2>1 DEF AttemptTold, Open
  <2> QED
    BY <2>1, <2>2 DEF Current
<1> QED
  BY <1>1, <1>2, <1>3, <1>4, <1>5, <1>6, <1>7

\* An attempt that has written no row and records a failure that does not count.
LEMMA RefusedTells ==
  ASSUME AccessInv, TrailInv, NEW r \in Requests, IsSignIn(r), pc[r] \in {"opened", "judge"},
         UNCHANGED <<tables, now, call>>, NEW a \in {"invalid", "locked"}, NEW reason \in Reason,
         reason \notin {"invalid_credentials", "invalid_mfa_code"} \/ User(r) = None,
         Conclude(r, a, [txn[r] EXCEPT !.events = Recorded(r, "auth_sign_in_failed", reason)])
  PROVE  TrailInv'
<1> DEFINE t == [txn[r] EXCEPT !.events = Recorded(r, "auth_sign_in_failed", reason)]
<1>1. /\ TypeOK /\ call[r] \in Sent /\ txn[r] \in Txn /\ txn[r].session = None /\ txn[r].row = None
      /\ pc[r] \in Active /\ User(r) \in Users \cup {None}
  BY UnderWay DEF Open
<1>2. PICK e \in Event : /\ Recorded(r, "auth_sign_in_failed", reason) = <<e>>
                         /\ e.type = "auth_sign_in_failed" /\ e.reason = reason
                         /\ e.actor = User(r) /\ e.by = r
  BY <1>1, RecordedIs
<1>3. t \in Txn /\ t.events = <<e>> /\ t.row = None /\ t.session = None
  <2>1. <<e>> \in Seq(Event)
    OBVIOUS
  <2> QED
    BY <1>1, <1>2, <2>1 DEF Txn
<1>4. Conclude(r, a, t)
  OBVIOUS
<1> HIDE DEF t
<1>5. Acts(r, "commit", t, a)
  <2>1. a \in Answer /\ "commit" \in Labels
    BY DEF Answer, Labels
  <2> QED
    BY <1>1, <1>3, <1>4, <2>1, WaysToAct
<1>6. /\ \A i \in DOMAIN <<e>> : <<e>>[i].by = r /\ <<e>>[i].actor = User(r)
      /\ Answers(<<e>>, r, a)
  <2>1. /\ \A i \in DOMAIN (<<>> \o <<e>>) : /\ (<<>> \o <<e>>)[i].by = r
                                              /\ (<<>> \o <<e>>)[i].actor = User(r)
    BY <1>2, NothingRecorded, OwnOneMore
  <2>2. Answers(<<>> \o <<e>>, r, a)
    BY <1>2, NothingRecorded, AnswersOneMore
  <2> QED
    BY <2>1, <2>2, NothingRecorded
<1>7. AttemptTold(User(r), "commit", t, accounts[User(r)])
  <2>1. User(r) # None => \A c \in Account : Explains(<<e>>, User(r), c, c)
    <3>1. User(r) # None =>
            e.type \notin ResetTypes /\ e \notin FailureEvents /\ e \notin LockingEvents
      BY <1>2 DEF ResetTypes, FailureEvents, LockingEvents
    <3> QED
      BY <3>1, ExplainsNoMark
  <2> QED
    BY <1>3, <1>6, <2>1 DEF AttemptTold
<1>8. t.session # None <=> a = "signed_in"
  BY <1>3
<1> QED
  BY <1>3, <1>5, <1>6, <1>7, <1>8, SignInTells DEF Open

\* The row of the account is read, or the attempt has failed already.
LEMMA ReadCredentialsTells ==
  ASSUME AccessInv, TrailInv, NEW r \in Requests, ReadCredentials(r)
  PROVE  TrailInv'
<1>1. pc[r] = "opened" /\ IsSignIn(r) /\ UNCHANGED <<tables, now, call>>
  BY DEF ReadCredentials
<1>2. /\ TypeOK /\ txn[r] \in Txn /\ txn[r].events = <<>> /\ txn[r].row = None
      /\ answer[r] \in Answer /\ pc[r] \in Active
  BY <1>1, UnderWay DEF Open
<1>3. ASSUME NEW reason \in {"invalid_credentials", "account_inactive"},
             reason = "account_inactive" \/ User(r) = None,
             Conclude(r, "invalid", [txn[r] EXCEPT
               !.events = Recorded(r, "auth_sign_in_failed", reason)])
      PROVE  TrailInv'
  <2>1. reason \in Reason /\ (reason \notin {"invalid_credentials", "invalid_mfa_code"} \/ User(r) = None)
    BY <1>3 DEF Reason
  <2> QED
    BY <1>1, <1>3, <2>1, RefusedTells
<1>4. ASSUME User(r) # None, accounts[User(r)].active,
             Continue(r, "judge", [txn[r] EXCEPT !.seen = accounts[User(r)]])
      PROVE  TrailInv'
  <2> DEFINE t == [txn[r] EXCEPT !.seen = accounts[User(r)]]
  <2>1. accounts[User(r)] \in Account
    BY <1>1, <1>2, <1>4, UnderWay DEF Open
  <2>2. t \in Txn /\ t.events = <<>> /\ t.row = None
    BY <1>2, <2>1 DEF Txn
  <2>3. Continue(r, "judge", t)
    BY <1>4
  <2> HIDE DEF t
  <2>4. Acts(r, "judge", t, answer[r])
    BY <1>1, <1>2, <2>2, <2>3, WaysToAct DEF Labels
  <2>5. AttemptTold(User(r), "judge", t, accounts[User(r)])
    BY <2>2, ExplainsNothing, NothingRecorded DEF AttemptTold
  <2>6. Answers(<<>>, r, "none") /\ \A i \in DOMAIN <<>> : FALSE
    BY NothingRecorded
  <2> QED
    BY <1>1, <2>2, <2>4, <2>5, <2>6, SignInTells DEF Open
<1> QED
  BY <1>1, <1>3, <1>4 DEF ReadCredentials

\* An attempt goes on with what it has: no row yet, or the one it holds.
LEMMA GoesOnTells ==
  ASSUME AccessInv, TrailInv, NEW r \in Requests, IsSignIn(r), pc[r] \in {"judge", "verify"},
         UNCHANGED <<tables, now, call>>, NEW label \in {"decay", "verify", "fail", "succeed"},
         label = "decay" => pc[r] = "judge", Continue(r, label, txn[r])
  PROVE  TrailInv'
<1>1. /\ txn[r] \in Txn /\ answer[r] \in Answer /\ pc[r] \in Active
      /\ \A i \in DOMAIN txn[r].events : txn[r].events[i].by = r
      /\ Answers(txn[r].events, r, "none")
      /\ AttemptTold(User(r), pc[r], txn[r], accounts[User(r)])
      /\ pc[r] = "judge" => txn[r].events = <<>> /\ txn[r].row = None
  BY UnderWay DEF Open
<1>2. Acts(r, label, txn[r], answer[r])
  BY <1>1, WaysToAct DEF Labels
<1>3. AttemptTold(User(r), label, txn[r], accounts[User(r)])
  BY <1>1 DEF AttemptTold
<1>4. txn[r].row # None => HoldsAccount(r)
  BY <1>1 DEF HoldsAccount, Holding
<1>5. label # "commit" /\ label \in Open \ {"opened"}
  BY DEF Open
<1> QED
  BY <1>1, <1>2, <1>3, <1>4, <1>5, SignInTells

\* A lock that holds refuses the attempt, an expired one is reset, none lets it pass.
LEMMA JudgeLockTells ==
  ASSUME AccessInv, TrailInv, NEW r \in Requests, JudgeLock(r)
  PROVE  TrailInv'
<1>1. pc[r] = "judge" /\ IsSignIn(r) /\ UNCHANGED <<tables, now, call>>
  BY DEF JudgeLock
<1>2. ASSUME NEW label \in {"verify", "decay"}, Continue(r, label, txn[r]) PROVE TrailInv'
  BY <1>1, <1>2, GoesOnTells
<1>3. ASSUME Conclude(r, "locked", [txn[r] EXCEPT
               !.events = Recorded(r, "auth_sign_in_failed", "account_locked")])
      PROVE  TrailInv'
  BY <1>1, <1>3, RefusedTells DEF Reason
<1> QED
  BY <1>2, <1>3 DEF JudgeLock

\* The reset of an expired lock is recorded with the row it writes.
LEMMA DecayTells ==
  ASSUME AccessInv, TrailInv, NEW r \in Requests, IsSignIn(r), Decay(r)
  PROVE  TrailInv'
<1> DEFINE t == [txn[r] EXCEPT !.row = Reset(Current(r)),
                   !.events = @ \o Recorded(r, "auth_account_unlocked", "lock_expired")]
           c == Current(r)
           u == User(r)
<1>1. pc[r] = "decay" /\ AccountFree(r) /\ UNCHANGED <<tables, now, call>> /\ Continue(r, "verify", t)
  BY DEF Decay
<1>2. /\ call[r] \in Sent /\ txn[r] \in Txn /\ answer[r] \in Answer /\ pc[r] \in Active
      /\ u \in Users /\ txn[r].events = <<>>
  BY <1>1, UnderWay DEF Open
<1>3. PICK e \in Event : /\ Recorded(r, "auth_account_unlocked", "lock_expired") = <<e>>
                         /\ e.type = "auth_account_unlocked" /\ e.reason = "lock_expired"
                         /\ e.actor = u /\ e.by = r
  BY <1>2, RecordedIs DEF Reason
<1>4. c \in Account /\ Reset(c) \in Account
  BY <1>1, CurrentTyped
<1>5. Reset(c).failures = 0 /\ Reset(c).locked_until = None
  BY <1>4 DEF Reset, Account
<1> HIDE DEF c
<1>6. t \in Txn /\ t.events = <<e>> /\ t.row = Reset(c)
  <2>1. <<e>> \in Seq(Event) /\ <<>> \o <<e>> = <<e>>
    BY NothingRecorded
  <2> QED
    BY <1>2, <1>3, <1>4, <2>1 DEF Txn, c
<1> HIDE DEF t
<1>7. Acts(r, "verify", t, answer[r])
  BY <1>1, <1>2, <1>6, WaysToAct DEF Labels
<1>8. /\ \A i \in DOMAIN <<e>> : <<e>>[i].by = r /\ <<e>>[i].actor = u
      /\ Answers(<<e>>, r, "none")
  <2>1. \A i \in DOMAIN (<<>> \o <<e>>) : (<<>> \o <<e>>)[i].by = r /\ (<<>> \o <<e>>)[i].actor = u
    BY <1>3, NothingRecorded, OwnOneMore
  <2>2. Answers(<<>> \o <<e>>, r, "none")
    BY <1>3, NothingRecorded, AnswersOneMore
  <2> QED
    BY <2>1, <2>2, NothingRecorded
<1>9. AttemptTold(u, "verify", t, accounts[u])
  <2>1. Explains(<<e>>, u, accounts[u], Reset(c))
    BY <1>3, <1>5, ExplainsReset DEF ResetTypes
  <2>2. Reset(c) # None /\ u # None
    BY <1>2, <1>4, PolicyFacts, NoneIsNoRow
  <2> QED
    BY <1>4, <1>6, <1>8, <2>1, <2>2 DEF AttemptTold
<1> QED
  BY <1>1, <1>6, <1>7, <1>8, <1>9, SignInTells DEF Open

\* Password and second factor record nothing.
LEMMA VerifyTells ==
  ASSUME AccessInv, TrailInv, NEW r \in Requests, IsSignIn(r), Verify(r)
  PROVE  TrailInv'
<1>1. pc[r] = "verify" /\ UNCHANGED <<tables, now, call>>
  BY DEF Verify
<1>2. ASSUME NEW label \in {"fail", "succeed"}, Continue(r, label, txn[r]) PROVE TrailInv'
  BY <1>1, <1>2, GoesOnTells
<1>3. ASSUME Conclude(r, "mfa_required", txn[r]) PROVE TrailInv'
  <2>1. /\ txn[r] \in Txn /\ txn[r].session = None /\ pc[r] \in Active
        /\ \A i \in DOMAIN txn[r].events : txn[r].events[i].by = r
        /\ Answers(txn[r].events, r, "none")
        /\ AttemptTold(User(r), pc[r], txn[r], accounts[User(r)])
    BY <1>1, UnderWay DEF Open
  <2>2. Acts(r, "commit", txn[r], "mfa_required")
    BY <1>1, <1>3, <2>1, WaysToAct DEF Labels, Answer
  <2>3. AttemptTold(User(r), "commit", txn[r], accounts[User(r)])
    BY <1>1, <2>1 DEF AttemptTold
  <2>4. txn[r].row # None => HoldsAccount(r)
    BY <1>1 DEF HoldsAccount, Holding
  <2>5. Answers(txn[r].events, r, "mfa_required")
    BY <2>1 DEF Answers
  <2> QED
    BY <2>1, <2>2, <2>3, <2>4, <2>5, SignInTells DEF Open
<1> QED
  BY <1>2, <1>3 DEF Verify

\* A failure is counted in the row it writes, and tells when it locks.
LEMMA RecordFailureTells ==
  ASSUME AccessInv, TrailInv, NEW r \in Requests, IsSignIn(r), RecordFailure(r)
  PROVE  TrailInv'
<1> DEFINE locks == CountOneMore(r) >= Threshold
           reason == IF call[r].password THEN "invalid_mfa_code" ELSE "invalid_credentials"
           failed == Recorded(r, "auth_sign_in_failed", reason)
           tail == IF locks THEN Recorded(r, "auth_account_locked", "none") ELSE <<>>
           c == Current(r)
           d == [c EXCEPT !.failures = CountOneMore(r),
                          !.locked_until = IF locks THEN now + Duration ELSE @]
           a == IF locks THEN "locked" ELSE "invalid"
           E == txn[r].events
           t == [txn[r] EXCEPT !.row = d, !.events = @ \o failed \o tail]
           u == User(r)
<1>1. pc[r] = "fail" /\ AccountFree(r) /\ UNCHANGED <<tables, now, call>> /\ Conclude(r, a, t)
  BY DEF RecordFailure
<1>2. /\ TypeOK /\ call[r] \in Sent /\ txn[r] \in Txn /\ E \in Seq(Event) /\ pc[r] \in Active
      /\ txn[r].session = None /\ u \in Users /\ Answers(E, r, "none")
      /\ \A i \in DOMAIN E : E[i].by = r /\ E[i].actor = u
      /\ Explains(E, u, accounts[u], c)
  BY <1>1, UnderWay DEF Open
<1>3. PICK e \in Event : /\ failed = <<e>> /\ e.type = "auth_sign_in_failed" /\ e.reason = reason
                         /\ e.actor = u /\ e.by = r
  BY <1>2, RecordedIs DEF Reason
<1>4. PICK f \in Event : /\ Recorded(r, "auth_account_locked", "none") = <<f>>
                         /\ f.type = "auth_account_locked" /\ f.reason = "none"
                         /\ f.actor = u /\ f.by = r
  BY <1>2, RecordedIs DEF Reason
<1>5. e \in FailureEvents
  BY <1>3 DEF FailureEvents
<1>6. c \in Account /\ c.failures + 1 <= Cardinality(Requests) /\ CountOneMore(r) = c.failures + 1
  BY <1>1, CurrentTyped DEF CountOneMore
<1>7. now + Duration \in Time /\ now + Duration # None
  BY <1>2, PolicyFacts DEF AccessInv, TypeOK
<1>8. /\ d \in Account /\ d.failures = c.failures + 1
      /\ d.locked_until = IF locks THEN now + Duration ELSE c.locked_until
  <2>1. c.failures \in Nat /\ c.locked_until \in Time \cup {None} /\ DOMAIN c = {"active", "failures", "locked_until"}
    BY <1>6, PolicyFacts DEF Account
  <2>2. c.failures + 1 \in 0 .. Cardinality(Requests)
    BY <1>6, <2>1, PolicyFacts
  <2>3. PICK l \in Time \cup {None} : l = IF locks THEN now + Duration ELSE c.locked_until
    BY <1>7, <2>1
  <2>4. d = [c EXCEPT !.failures = c.failures + 1, !.locked_until = l]
    BY <1>6, <2>3
  <2> HIDE DEF c, d
  <2>5. d \in Account /\ d.failures = c.failures + 1
    BY <1>6, <2>2, <2>4, AccountWith
  <2>6. d.locked_until = l
    BY <2>1, <2>4
  <2> QED
    BY <2>3, <2>5, <2>6
<1> HIDE DEF c, d
<1>9. PICK F \in Seq(Event) :
        /\ F = E \o <<e>> /\ \A i \in DOMAIN F : F[i].by = r /\ F[i].actor = u
        /\ Answers(F, r, "invalid") /\ Answers(F, r, "locked")
  <2>1. /\ E \o <<e>> \in Seq(Event)
        /\ \A i \in DOMAIN (E \o <<e>>) : (E \o <<e>>)[i].by = r /\ (E \o <<e>>)[i].actor = u
    <3>1. E \in Seq(Event) /\ \A i \in DOMAIN E : E[i].by = r /\ E[i].actor = u
      BY <1>2
    <3>2. e.by = r /\ e.actor = u
      BY <1>3
    <3> HIDE DEF E, u
    <3> QED
      BY <3>1, <3>2, OwnOneMore
  <2>2. Answers(E \o <<e>>, r, "invalid") /\ Answers(E \o <<e>>, r, "locked")
    BY <1>2, <1>3, AnswersOneMore
  <2> QED
    BY <2>1, <2>2
<1>10. PICK G \in Seq(Event) :
         /\ t.events = G /\ \A i \in DOMAIN G : G[i].by = r /\ G[i].actor = u
         /\ Answers(G, r, a) /\ Explains(G, u, accounts[u], d)
  <2>1. t.events = F \o tail
    BY <1>2, <1>3, <1>9 DEF Txn
  <2>2. CASE ~locks
    <3>1. tail = <<>> /\ a = "invalid"
      BY <2>2
    <3>2. F \o <<>> = F
      BY ConcatEmptySeq
    <3>3. ~(d.failures >= Threshold) /\ d.locked_until = c.locked_until
      BY <1>6, <1>8, <2>2
    <3>4. Explains(<<e>>, u, c, d) /\ <<e>> \in Seq(Event)
      BY <1>3, <1>5, <1>6, <1>8, <3>3, ExplainsFailure
    <3>5. Explains(F, u, accounts[u], d)
      BY <1>2, <1>9, <3>4, ExplainsThen
    <3>6. t.events = F /\ Answers(F, r, a)
      BY <1>9, <2>1, <3>1, <3>2
    <3> QED
      BY <1>9, <3>5, <3>6
  <2>3. CASE locks
    <3>1. tail = <<f>> /\ a = "locked"
      BY <1>4, <2>3
    <3>2. d.failures >= Threshold /\ d.locked_until # None
      BY <1>6, <1>7, <1>8, <2>3
    <3>3. Explains(<<e>> \o <<f>>, u, c, d)
      BY <1>3, <1>4, <1>5, <1>6, <1>8, <3>2, ExplainsLocking
    <3>4. <<e>> \in Seq(Event) /\ <<f>> \in Seq(Event) /\ <<e>> \o <<f>> \in Seq(Event)
      BY OneMore
    <3>5. Explains(E \o (<<e>> \o <<f>>), u, accounts[u], d)
      BY <1>2, <3>3, <3>4, ExplainsThen
    <3>6. F \o <<f>> = E \o (<<e>> \o <<f>>)
      <4>1. (E \o <<e>>) \o <<f>> = E \o (<<e>> \o <<f>>)
        BY <1>2, <3>4, ConcatAssociative
      <4> QED
        BY <1>9, <4>1
    <3>7. /\ F \o <<f>> \in Seq(Event)
          /\ \A i \in DOMAIN (F \o <<f>>) : (F \o <<f>>)[i].by = r /\ (F \o <<f>>)[i].actor = u
      <4>1. \A i \in DOMAIN F : F[i].by = r /\ F[i].actor = u
        BY <1>9
      <4>2. f.by = r /\ f.actor = u
        BY <1>4
      <4> HIDE DEF u
      <4> QED
        BY <4>1, <4>2, OwnOneMore
    <3>8. Answers(F \o <<f>>, r, "locked")
      <4>1. f.type \notin {"auth_sign_in_failed", "auth_sign_in_succeeded"}
        BY <1>4
      <4>2. \A a1 : Answers(F, r, a1) => Answers(F \o <<f>>, r, a1)
        BY <1>4, <4>1, AnswersOneMore
      <4> QED
        BY <1>9, <4>2
    <3>9. t.events = F \o <<f>>
      BY <2>1, <3>1
    <3>10. PICK G \in Seq(Event) : G = F \o <<f>>
      BY <3>7
    <3> QED
      BY <3>1, <3>5, <3>6, <3>7, <3>8, <3>9, <3>10
  <2> QED
    BY <2>2, <2>3
<1>11. t.row = d /\ t.session = None
  BY <1>2 DEF Txn
<1>12. t \in Txn
  <2>1. t = [txn[r] EXCEPT !.row = d, !.events = G]
    BY <1>2, <1>10 DEF Txn
  <2>2. \A x \in Txn : [x EXCEPT !.row = d, !.events = G] \in Txn
    BY <1>8 DEF Txn
  <2> QED
    BY <1>2, <2>1, <2>2
<1>13. a \in Answer /\ a # "signed_in"
  BY DEF Answer
<1> HIDE DEF a, t
<1>14. Acts(r, "commit", t, a)
  BY <1>1, <1>2, <1>12, <1>13, WaysToAct DEF Labels
<1>15. AttemptTold(u, "commit", t, accounts[u])
  <2>1. d # None /\ u # None
    BY <1>2, <1>8, PolicyFacts, NoneIsNoRow
  <2> QED
    BY <1>8, <1>10, <1>11, <2>1 DEF AttemptTold
<1> QED
  BY <1>1, <1>10, <1>11, <1>13, <1>14, <1>15, SignInTells DEF Open

\* A success is told with the count it resets and the session it opens.
LEMMA OpenSessionTells ==
  ASSUME AccessInv, TrailInv, NEW r \in Requests, IsSignIn(r), OpenSession(r)
  PROVE  TrailInv'
<1> DEFINE s == [user |-> User(r), issued_at |-> now, last_seen_at |-> now,
                 expires_at |-> now + Absolute, revoked_at |-> None]
           E == txn[r].events
           d == Reset(Current(r))
           t == [txn[r] EXCEPT !.row = d, !.session = s,
                   !.events = @ \o Recorded(r, "auth_sign_in_succeeded", "none")]
           u == User(r)
<1>1. pc[r] = "succeed" /\ AccountFree(r) /\ UNCHANGED <<tables, now, call>>
      /\ Conclude(r, "signed_in", t)
  BY DEF OpenSession
<1>2. /\ TypeOK /\ call[r] \in Sent /\ txn[r] \in Txn /\ E \in Seq(Event) /\ pc[r] \in Active
      /\ u \in Users /\ Answers(E, r, "none")
      /\ \A i \in DOMAIN E : E[i].by = r /\ E[i].actor = u
      /\ Explains(E, u, accounts[u], Current(r))
  BY <1>1, UnderWay DEF Open
<1>3. PICK e \in Event : /\ Recorded(r, "auth_sign_in_succeeded", "none") = <<e>>
                         /\ e.type = "auth_sign_in_succeeded" /\ e.actor = u /\ e.by = r
  BY <1>2, RecordedIs DEF Reason
<1>4. s \in Session
  <2>1. now \in Nat /\ now \in Time /\ now + Absolute \in Time
    BY <1>2, PolicyFacts DEF AccessInv, TypeOK
  <2> QED
    BY <1>2, <2>1 DEF Session
<1>5. d \in Account /\ d.failures = 0 /\ d.locked_until = None
  <2>1. Current(r) \in Account /\ d \in Account
    BY <1>1, CurrentTyped
  <2> QED
    BY <2>1 DEF Reset, Account
<1>6. /\ E \o <<e>> \in Seq(Event)
      /\ \A i \in DOMAIN (E \o <<e>>) : (E \o <<e>>)[i].by = r /\ (E \o <<e>>)[i].actor = u
      /\ Answers(E \o <<e>>, r, "signed_in")
  BY <1>2, <1>3, OwnOneMore, AnswersOneMore
<1> HIDE DEF s, d
<1>7. t \in Txn /\ t.events = E \o <<e>> /\ t.row = d /\ t.session = s
  BY <1>2, <1>3, <1>4, <1>5, <1>6 DEF Txn
<1> HIDE DEF t
<1>8. Acts(r, "commit", t, "signed_in")
  BY <1>1, <1>2, <1>7, WaysToAct DEF Labels, Answer
<1>9. Explains(E \o <<e>>, u, accounts[u], d)
  <2>1. Explains(<<e>>, u, Current(r), d)
    BY <1>3, <1>5, ExplainsReset DEF ResetTypes
  <2>2. <<e>> \in Seq(Event)
    OBVIOUS
  <2> QED
    BY <1>2, <2>1, <2>2, ExplainsThen
<1>10. AttemptTold(u, "commit", t, accounts[u])
  <2>1. d # None /\ u # None
    BY <1>2, <1>5, PolicyFacts, NoneIsNoRow
  <2> QED
    BY <1>5, <1>6, <1>7, <1>9, <2>1 DEF AttemptTold
<1>11. t.session # None <=> "signed_in" = "signed_in"
  BY <1>4, <1>7, NoneIsNoRow
<1>12. \A i \in DOMAIN t.events : t.events[i].by = r
  BY <1>6, <1>7
<1>13. Answers(t.events, r, "signed_in")
  BY <1>6, <1>7
<1> HIDE DEF u
<1> QED
  BY <1>1, <1>8, <1>10, <1>11, <1>12, <1>13, SignInTells DEF Open, u

--------------------------------------------------------------------------------
(* The other steps of a request *)

\* A visit or a sign-out that is not over yet moves alone and records nothing.
LEMMA MuteSteps ==
  ASSUME AccessInv, TrailInv, NEW r \in Requests,
         \/ ReadSession(r) \/ JudgeSession(r) \/ Touch(r) \/ ResolveScope(r)
         \/ BeginSignOut(r) \/ Revoke(r)
  PROVE  TrailInv'
<1>1. TypeOK /\ UNCHANGED tables /\ call' = call
  BY DEF AccessInv, ReadSession, JudgeSession, Touch, ResolveScope, BeginSignOut, Revoke
<1>2. pc[r] \in {"opened", "judge", "touch", "scope", "revoke"} /\ ~IsSignIn(r)
  BY KindsOfStatement DEF ReadSession, JudgeSession, Touch, ResolveScope, BeginSignOut, Revoke,
     IsSignIn, IsVisit, IsSignOut
<1>3. \E label, t, a : /\ pc' = [pc EXCEPT ![r] = label] /\ txn' = [txn EXCEPT ![r] = t]
                       /\ answer' = [answer EXCEPT ![r] = a] /\ t.events \in {txn[r].events, <<>>}
  <2>1. answer = [answer EXCEPT ![r] = answer[r]] /\ txn[r] \in Txn /\ NoTxn.events = <<>>
    BY <1>1 DEF TypeOK, Txn, NoTxn
  <2>2. ASSUME NEW label, NEW t, t.events = txn[r].events, Continue(r, label, t)
        PROVE  \E l, x, a : /\ pc' = [pc EXCEPT ![r] = l] /\ txn' = [txn EXCEPT ![r] = x]
                            /\ answer' = [answer EXCEPT ![r] = a]
                            /\ x.events \in {txn[r].events, <<>>}
    <3>1. /\ pc' = [pc EXCEPT ![r] = label] /\ txn' = [txn EXCEPT ![r] = t]
          /\ answer' = [answer EXCEPT ![r] = answer[r]] /\ t.events \in {txn[r].events, <<>>}
      BY <2>1, <2>2 DEF Continue, Goto
    <3> QED
      BY <3>1
  <2>3. ASSUME NEW a, Reply(r, a)
        PROVE  \E l, x, b : /\ pc' = [pc EXCEPT ![r] = l] /\ txn' = [txn EXCEPT ![r] = x]
                            /\ answer' = [answer EXCEPT ![r] = b]
                            /\ x.events \in {txn[r].events, <<>>}
    <3>1. /\ pc' = [pc EXCEPT ![r] = "replying"] /\ txn' = [txn EXCEPT ![r] = NoTxn]
          /\ answer' = [answer EXCEPT ![r] = a] /\ NoTxn.events \in {txn[r].events, <<>>}
      BY <2>1, <2>3 DEF Reply, Goto
    <3> QED
      BY <3>1
  <2>4. ASSUME NEW a, NEW t, t.events = txn[r].events, Conclude(r, a, t)
        PROVE  \E l, x, b : /\ pc' = [pc EXCEPT ![r] = l] /\ txn' = [txn EXCEPT ![r] = x]
                            /\ answer' = [answer EXCEPT ![r] = b]
                            /\ x.events \in {txn[r].events, <<>>}
    <3>1. /\ pc' = [pc EXCEPT ![r] = "commit"] /\ txn' = [txn EXCEPT ![r] = t]
          /\ answer' = [answer EXCEPT ![r] = a] /\ t.events \in {txn[r].events, <<>>}
      BY <2>4 DEF Conclude, Goto
    <3> QED
      BY <3>1
  <2>5. \A x : /\ [txn[r] EXCEPT !.seen = x].events = txn[r].events
               /\ [txn[r] EXCEPT !.stamp = x].events = txn[r].events
               /\ [txn[r] EXCEPT !.row = x].events = txn[r].events
    BY <2>1 DEF Txn
  <2>6. CASE ReadSession(r) \/ JudgeSession(r)
    BY <2>2, <2>3, <2>5, <2>6 DEF ReadSession, JudgeSession
  <2>7. CASE Touch(r) \/ BeginSignOut(r)
    BY <2>2, <2>5, <2>7 DEF Touch, BeginSignOut
  <2>8. CASE ResolveScope(r)
    BY <2>3, <2>4, <2>8 DEF ResolveScope
  <2>9. CASE Revoke(r)
    BY <2>3, <2>4, <2>5, <2>9 DEF Revoke
  <2> QED
    BY <2>6, <2>7, <2>8, <2>9
<1>4. txn'[r].events \in {txn[r].events, <<>>} /\ \A q \in Requests \ {r} : Kept(q)
  BY <1>1, <1>3 DEF Kept, TypeOK
<1>5. r \notin Gone
  BY <1>2 DEF Gone
<1> QED
  BY <1>1, <1>2, <1>4, <1>5, MuteTells

\* A request that is sent has recorded nothing.
LEMMA SendTells ==
  ASSUME AccessInv, TrailInv, NEW r \in Requests, NEW c \in Calls, Send(r, c)
  PROVE  TrailInv'
<1>1. /\ TypeOK /\ Standing(r) /\ pc[r] = "unsent" /\ UNCHANGED <<tables, now, txn, answer>>
      /\ \A i \in DOMAIN trail : trail[i].by # r
  BY DEF AccessInv, Send, TrailInv, Told, RequestTold
<1>2. txn[r] = NoTxn /\ answer[r] = "none" /\ NoTxn.events = <<>> /\ NoTxn.row = None
  BY <1>1 DEF Standing, NoTxn
<1>3. pc'[r] = "opened" /\ txn'[r] = NoTxn /\ answer'[r] = "none"
  BY <1>1, <1>2 DEF Send, Goto, TypeOK
<1>4. \A q \in Requests \ {r} : Kept(q)
  BY <1>1 DEF Send, Goto, Kept, TypeOK
<1>5. Told(r)'
  <2>1. trail' = trail
    BY <1>1 DEF tables
  <2>2. RequestTold(trail, r, pc[r], IsSignIn(r), txn[r], answer[r], sessions[r] # None)'
    BY <1>1, <1>2, <1>3, <2>1, NothingRecorded DEF RequestTold
  <2>3. AttemptTold(User(r), pc[r], txn[r], accounts[User(r)])'
    BY <1>2, <1>3, NothingRecorded, ExplainsNothing DEF AttemptTold
  <2> QED
    BY <2>2, <2>3 DEF Told
<1>6. ~HoldsAccount(r)'
  BY <1>3 DEF HoldsAccount, Holding
<1> QED
  BY <1>1, <1>4, <1>5, <1>6, AloneTells

\* An answer that reaches its client, or a request that is cut, records nothing.
LEMMA EndTells ==
  ASSUME AccessInv, TrailInv, NEW r \in Requests, Deliver(r) \/ Cut(r)
  PROVE  TrailInv'
<1>1. TypeOK /\ UNCHANGED <<tables, call>> /\ Told(r)
  BY DEF AccessInv, TrailInv, Deliver, Cut
<1>2. \A q \in Requests \ {r} : Kept(q)
  BY <1>1 DEF Deliver, Cut, Goto, Kept, TypeOK
<1>3. trail' = trail /\ sessions' = sessions /\ IsSignIn(r)' = IsSignIn(r) /\ User(r)' = User(r)
  BY <1>1 DEF tables, IsSignIn, User
<1>4. /\ pc'[r] \in {"answered", "lost"}
      /\ pc'[r] = "answered" => pc[r] = "replying" /\ answer'[r] = answer[r]
      /\ txn'[r] = txn[r] \/ txn'[r] = NoTxn
  BY <1>1 DEF Deliver, Cut, Goto, TypeOK
<1>5. RequestTold(trail, r, pc[r], IsSignIn(r), txn[r], answer[r], sessions[r] # None)
  BY <1>1 DEF Told
<1>6. txn'[r].events = txn[r].events \/ txn'[r].events = <<>>
  BY <1>4 DEF NoTxn
<1>7. RequestTold(trail, r, pc[r], IsSignIn(r), txn[r], answer[r], sessions[r] # None)'
  BY <1>3, <1>4, <1>5, <1>6, NothingRecorded DEF RequestTold
<1>8. AttemptTold(User(r), pc[r], txn[r], accounts[User(r)])'
  BY <1>4 DEF AttemptTold
<1>9. ~HoldsAccount(r)'
  BY <1>4 DEF HoldsAccount, Holding
<1> QED
  BY <1>1, <1>2, <1>7, <1>8, <1>9, AloneTells DEF Told

\* An attempt stays told when its account does, and when it holds none.
LEMMA AttemptStays ==
  ASSUME NEW u, NEW label, NEW t, NEW c, NEW d, AttemptTold(u, label, t, c),
         t.row # None /\ label \in {"verify", "fail", "succeed", "commit"} => d = c
  PROVE  AttemptTold(u, label, t, d)
<1>1. CASE t.row = None
  BY <1>1 DEF AttemptTold
<1>2. CASE t.row # None /\ label \in {"verify", "fail", "succeed", "commit"}
  BY <1>2
<1>3. CASE t.row # None /\ label \notin {"verify", "fail", "succeed", "commit"}
  BY <1>3 DEF AttemptTold
<1> QED
  BY <1>1, <1>2, <1>3

\* Somebody who deactivates a user changes neither count nor lock.
LEMMA SetActiveTells ==
  ASSUME AccessInv, TrailInv, NEW u \in Users, SetActive(u)
  PROVE  TrailInv'
<1>1. /\ TypeOK /\ UNCHANGED <<sessions, trail, now, pc, call, txn, answer>>
      /\ accounts' = [accounts EXCEPT ![u].active = ~@]
  BY DEF AccessInv, SetActive
<1>2. \A v \in Users : /\ accounts'[v].failures = accounts[v].failures
                       /\ accounts'[v].locked_until = accounts[v].locked_until
  BY <1>1 DEF TypeOK, Account
<1>3. \A v \in Users : AccountTold(trail, v, accounts[v])'
  BY <1>1, <1>2 DEF TrailInv, AccountTold
<1>4. \A v \in Users \ {u} : accounts'[v] = accounts[v]
  BY <1>1 DEF TypeOK
<1>5. ASSUME NEW q \in Requests PROVE Told(q)'
  <2>1. Told(q) /\ IsSignIn(q)' = IsSignIn(q) /\ User(q)' = User(q)
    BY <1>1 DEF TrailInv, IsSignIn, User
  <2>2. RequestTold(trail, q, pc[q], IsSignIn(q), txn[q], answer[q], sessions[q] # None)'
    BY <1>1, <2>1 DEF Told
  <2>3. ASSUME IsSignIn(q) PROVE AttemptTold(User(q), pc[q], txn[q], accounts'[User(q)])
    <3>1. AttemptTold(User(q), pc[q], txn[q], accounts[User(q)])
      BY <2>1, <2>3 DEF Told
    <3>2. ASSUME txn[q].row # None, pc[q] \in {"verify", "fail", "succeed", "commit"}
          PROVE  accounts'[User(q)] = accounts[User(q)]
      <4>1. Holding(q)
        BY <3>2 DEF Holding
      <4>2. User(q) # u
        BY <2>3, <4>1 DEF SetActive
      <4>3. User(q) \in Users \cup {None}
        BY <2>3, <3>2, KindsOfCall DEF AccessInv, Standing
      <4>4. User(q) # None
        BY <3>1, <3>2 DEF AttemptTold
      <4> QED
        BY <1>4, <4>2, <4>3, <4>4
    <3> QED
      BY <3>1, <3>2, AttemptStays
  <2> QED
    BY <1>1, <2>1, <2>2, <2>3 DEF Told
<1>6. \A q, r \in Requests : q # r => Alone(q, r)'
  BY <1>1 DEF TrailInv, Alone, HoldsAccount, Holding, IsSignIn, User
<1> QED
  BY <1>3, <1>5, <1>6 DEF TrailInv

\* What a commit publishes: its events, and the row of an attempt that wrote one.
LEMMA CommitPublishes ==
  ASSUME AccessInv, TrailInv, NEW r \in Requests, Commit(r)
  PROVE  /\ TypeOK /\ trail \in Seq(Event) /\ txn[r].events \in Seq(Event) /\ pc[r] = "commit"
         /\ trail' = trail \o txn[r].events /\ pc'[r] = "replying" /\ HoldsAccount(r)' = FALSE
         /\ call' = call /\ txn' = txn /\ answer' = answer
         /\ \A q \in Requests \ {r} : Kept(q) /\ (sessions'[q] # None <=> sessions[q] # None)
         /\ IsSignIn(r) => (sessions'[r] # None <=> txn[r].session # None)
         /\ \A i \in DOMAIN txn[r].events : txn[r].events[i].by = r
         /\ ~IsSignIn(r) => txn[r].events = <<>>
         /\ \A i \in DOMAIN txn[r].events : IsSignIn(r) => txn[r].events[i].actor = User(r)
         /\ accounts' = IF IsSignIn(r) /\ txn[r].row # None
                        THEN [accounts EXCEPT ![User(r)] = txn[r].row] ELSE accounts
         /\ IsSignIn(r) => User(r) \in Users \cup {None} /\ (User(r) = None => txn[r].row = None)
<1>1. /\ TypeOK /\ Standing(r) /\ call[r] \in Sent /\ txn[r] \in Txn /\ pc[r] = "commit"
      /\ pc' = [pc EXCEPT ![r] = "replying"] /\ pc'[r] = "replying"
      /\ UNCHANGED <<now, call, txn, answer>>
  BY CommitWrites
<1>2. /\ trail \in Seq(Event) /\ txn[r].events \in Seq(Event)
      /\ \A q \in Requests \ {r} : Kept(q)
  BY <1>1 DEF TypeOK, Txn, Kept
<1>3. /\ trail' = trail \o txn[r].events
      /\ accounts' = IF IsSignIn(r) /\ txn[r].row # None
                     THEN [accounts EXCEPT ![User(r)] = txn[r].row] ELSE accounts
  BY DEF Commit, Publish
<1>4. ASSUME NEW q \in Requests \ {r} PROVE sessions'[q] # None <=> sessions[q] # None
  <2>1. CASE IsSignIn(r)
    <3>1. sessions' = IF txn[r].session # None
                      THEN [sessions EXCEPT ![r] = txn[r].session] ELSE sessions
      BY <2>1, CommitWrites
    <3>2. sessions'[q] = sessions[q]
      BY <1>1, <3>1 DEF TypeOK
    <3> QED
      BY <3>2
  <2>2. CASE ~IsSignIn(r)
    <3>1. PICK k \in Requests : /\ k = Token(r) /\ sessions[k] # None
                                /\ sessions' = [sessions EXCEPT ![k] = txn[r].row]
      BY <2>2, CommitWrites
    <3>2. txn[r].row # None
      BY <2>2, CommitWrites, NoneIsNoRow
    <3> QED
      BY <1>1, <3>1, <3>2 DEF TypeOK
  <2> QED
    BY <2>1, <2>2
<1>5. IsSignIn(r) => (sessions'[r] # None <=> txn[r].session # None)
  <2> SUFFICES ASSUME IsSignIn(r) PROVE sessions'[r] # None <=> txn[r].session # None
    OBVIOUS
  <2>1. /\ sessions[r] = None
        /\ sessions' = IF txn[r].session # None
                       THEN [sessions EXCEPT ![r] = txn[r].session] ELSE sessions
    BY CommitWrites
  <2> QED
    BY <1>1, <2>1 DEF TypeOK
<1>6. /\ \A i \in DOMAIN txn[r].events : txn[r].events[i].by = r
      /\ ~IsSignIn(r) => txn[r].events = <<>>
  BY DEF TrailInv, Told, RequestTold
<1>7. IsSignIn(r) => AttemptTold(User(r), pc[r], txn[r], accounts[User(r)])
  BY DEF TrailInv, Told
<1>8. /\ \A i \in DOMAIN txn[r].events : IsSignIn(r) => txn[r].events[i].actor = User(r)
      /\ IsSignIn(r) => (User(r) = None => txn[r].row = None)
  BY <1>1, <1>7 DEF AttemptTold
<1>9. IsSignIn(r) => User(r) \in Users \cup {None}
  BY <1>1, KindsOfCall
<1>10. HoldsAccount(r)' = FALSE
  BY <1>1 DEF HoldsAccount, Holding
<1> QED
  BY <1>1, <1>2, <1>3, <1>4, <1>5, <1>6, <1>8, <1>9, <1>10

\* A commit tells of every account what it makes of it.
LEMMA CommitTellsAccounts ==
  ASSUME AccessInv, TrailInv, NEW r \in Requests, Commit(r), NEW v \in Users
  PROVE  AccountTold(trail', v, accounts'[v])
<1>1. /\ TypeOK /\ trail \in Seq(Event) /\ txn[r].events \in Seq(Event) /\ pc[r] = "commit"
      /\ trail' = trail \o txn[r].events
      /\ ~IsSignIn(r) => txn[r].events = <<>>
      /\ \A i \in DOMAIN txn[r].events : IsSignIn(r) => txn[r].events[i].actor = User(r)
      /\ accounts' = IF IsSignIn(r) /\ txn[r].row # None
                     THEN [accounts EXCEPT ![User(r)] = txn[r].row] ELSE accounts
      /\ IsSignIn(r) => User(r) \in Users \cup {None} /\ (User(r) = None => txn[r].row = None)
  BY CommitPublishes
<1>2. AccountTold(trail, v, accounts[v]) /\ accounts[v] \in Account /\ v # None
  BY <1>1, PolicyFacts DEF TrailInv, TypeOK
<1>3. Explains(txn[r].events, v, accounts[v], accounts'[v])
  <2>1. CASE ~(IsSignIn(r) /\ User(r) = v)
    <3>1. accounts'[v] = accounts[v]
      BY <1>1, <2>1 DEF TypeOK
    <3>2. \A i \in DOMAIN txn[r].events : txn[r].events[i].actor # v
      BY <1>1, <2>1, NothingRecorded
    <3> QED
      BY <1>1, <3>1, <3>2, ExplainsOthers
  <2>2. CASE IsSignIn(r) /\ User(r) = v
    <3>1. AttemptTold(v, "commit", txn[r], accounts[v])
      BY <1>1, <2>2 DEF TrailInv, Told
    <3>2. IF txn[r].row = None THEN \A c \in Account : Explains(txn[r].events, v, c, c)
          ELSE Explains(txn[r].events, v, accounts[v], txn[r].row)
      BY <1>2, <3>1 DEF AttemptTold
    <3>3. accounts'[v] = IF txn[r].row # None THEN txn[r].row ELSE accounts[v]
      BY <1>1, <2>2 DEF TypeOK
    <3> QED
      BY <1>2, <3>2, <3>3
  <2> QED
    BY <2>1, <2>2
<1> QED
  BY <1>1, <1>2, <1>3 DEF Explains

\* A commit publishes what was told, and leaves what is told of the others.
LEMMA CommitTells ==
  ASSUME AccessInv, TrailInv, NEW r \in Requests, Commit(r)
  PROVE  TrailInv'
<1>1. /\ TypeOK /\ trail \in Seq(Event) /\ txn[r].events \in Seq(Event) /\ pc[r] = "commit"
      /\ trail' = trail \o txn[r].events /\ pc'[r] = "replying" /\ HoldsAccount(r)' = FALSE
      /\ call' = call /\ txn' = txn /\ answer' = answer
      /\ \A q \in Requests \ {r} : Kept(q) /\ (sessions'[q] # None <=> sessions[q] # None)
      /\ IsSignIn(r) => (sessions'[r] # None <=> txn[r].session # None)
      /\ \A i \in DOMAIN txn[r].events : txn[r].events[i].by = r
      /\ ~IsSignIn(r) => txn[r].events = <<>>
  BY CommitPublishes
<1>2. /\ accounts' = IF IsSignIn(r) /\ txn[r].row # None
                     THEN [accounts EXCEPT ![User(r)] = txn[r].row] ELSE accounts
      /\ IsSignIn(r) => User(r) \in Users \cup {None} /\ (User(r) = None => txn[r].row = None)
  BY CommitPublishes
<1>3. \A u \in Users : AccountTold(trail, u, accounts[u])'
  BY CommitTellsAccounts
<1>4. ASSUME NEW q \in Requests \ {r} PROVE Told(q)'
  <2>1. /\ Told(q) /\ Kept(q) /\ IsSignIn(q)' = IsSignIn(q) /\ User(q)' = User(q)
        /\ (sessions'[q] # None) = (sessions[q] # None)
    BY <1>1 DEF TrailInv, IsSignIn, User
  <2>2. \A i \in DOMAIN txn[r].events : txn[r].events[i].by # q
    BY <1>1
  <2>3. RequestTold(trail', q, pc[q], IsSignIn(q), txn[q], answer[q], sessions[q] # None)
    <3>1. RequestTold(trail, q, pc[q], IsSignIn(q), txn[q], answer[q], sessions[q] # None)
      BY <2>1 DEF Told
    <3>2. (\A i \in DOMAIN trail : trail[i].by # q) => \A i \in DOMAIN trail' : trail'[i].by # q
      <4> SUFFICES ASSUME \A i \in DOMAIN trail : trail[i].by # q,
                          NEW j \in DOMAIN (trail \o txn[r].events)
                   PROVE  (trail \o txn[r].events)[j].by # q
        BY <1>1
      <4>1. CASE j \in 1 .. Len(trail)
        BY <1>1, <4>1, ManyMore
      <4>2. CASE ~(j \in 1 .. Len(trail))
        <5>1. /\ j - Len(trail) \in 1 .. Len(txn[r].events)
              /\ j = Len(trail) + (j - Len(trail))
          BY <1>1, <4>2, ManyMore
        <5>2. PICK i \in 1 .. Len(txn[r].events) : j = Len(trail) + i
          BY <5>1
        <5> QED
          BY <1>1, <2>2, <5>2, ManyMore
      <4> QED
        BY <4>1, <4>2
    <3>3. Answers(trail, q, answer[q]) => Answers(trail', q, answer[q])
      BY <1>1, <2>2, AnswersStay
    <3> QED
      BY <3>1, <3>2, <3>3 DEF RequestTold
  <2>4. ASSUME IsSignIn(q) PROVE AttemptTold(User(q), pc[q], txn[q], accounts'[User(q)])
    <3>1. AttemptTold(User(q), pc[q], txn[q], accounts[User(q)])
      BY <2>1, <2>4 DEF Told
    <3>2. ASSUME txn[q].row # None, pc[q] \in {"verify", "fail", "succeed", "commit"}
          PROVE  accounts'[User(q)] = accounts[User(q)]
      <4>1. HoldsAccount(q)
        BY <2>4, <3>2 DEF HoldsAccount, Holding
      <4>2. User(q) \in Users
        <5>1. User(q) \in Users \cup {None}
          BY <2>4, <3>2, KindsOfCall DEF AccessInv, Standing
        <5> QED
          BY <3>1, <3>2, <5>1 DEF AttemptTold
      <4>3. CASE IsSignIn(r) /\ txn[r].row # None
        <5>1. HoldsAccount(r) /\ Alone(q, r)
          BY <1>1, <4>3 DEF HoldsAccount, Holding, TrailInv
        <5>2. User(q) # User(r)
          BY <4>1, <5>1 DEF Alone
        <5> QED
          BY <1>1, <1>2, <4>2, <4>3, <5>2 DEF TypeOK
      <4>4. CASE ~(IsSignIn(r) /\ txn[r].row # None)
        BY <1>2, <4>4
      <4> QED
        BY <4>3, <4>4
    <3> QED
      BY <3>1, <3>2, AttemptStays
  <2>5. RequestTold(trail, q, pc[q], IsSignIn(q), txn[q], answer[q], sessions[q] # None)'
    BY <1>1, <2>1, <2>3 DEF Kept
  <2> QED
    BY <1>1, <2>1, <2>4, <2>5 DEF Told, Kept
<1>5. Told(r)'
  <2>1. RequestTold(trail, r, "commit", IsSignIn(r), txn[r], answer[r], sessions[r] # None)
    BY <1>1 DEF TrailInv, Told
  <2>2. IsSignIn(r) => /\ Answers(trail', r, answer[r])
                       /\ (sessions'[r] # None <=> answer[r] = "signed_in")
    <3> SUFFICES ASSUME IsSignIn(r) PROVE Answers(trail', r, answer[r])
                                          /\ (sessions'[r] # None <=> answer[r] = "signed_in")
      OBVIOUS
    <3>1. /\ Answers(txn[r].events, r, answer[r])
          /\ (txn[r].session # None <=> answer[r] = "signed_in")
          /\ \A i \in DOMAIN trail : trail[i].by # r
      BY <2>1 DEF RequestTold
    <3> QED
      BY <1>1, <3>1, AnswersMove
  <2>3. IsSignIn(r)' = IsSignIn(r)
    BY <1>1 DEF IsSignIn
  <2>4. RequestTold(trail, r, pc[r], IsSignIn(r), txn[r], answer[r], sessions[r] # None)'
    BY <1>1, <2>2, <2>3 DEF RequestTold
  <2>5. AttemptTold(User(r), pc[r], txn[r], accounts[User(r)])'
    BY <1>1 DEF AttemptTold
  <2> QED
    BY <2>4, <2>5 DEF Told
<1>6. ASSUME NEW p \in Requests, NEW q \in Requests, p # q PROVE Alone(p, q)'
  <2>1. \A o \in Requests \ {r} : HoldsAccount(o)' = HoldsAccount(o) /\ User(o)' = User(o)
    BY <1>1 DEF HoldsAccount, Holding, IsSignIn, User, Kept
  <2>2. Alone(p, q)
    BY <1>6 DEF TrailInv
  <2> QED
    BY <1>1, <2>1, <2>2 DEF Alone
<1> QED
  BY <1>3, <1>4, <1>5, <1>6 DEF TrailInv

--------------------------------------------------------------------------------
(* The trail tells what happened *)

\* Nothing has happened, and nothing is told.
LEMMA InitTells == Init => TrailInv
<1> SUFFICES ASSUME Init PROVE TrailInv
  OBVIOUS
<1>1. /\ trail = <<>> /\ \A u, kind : Marks(trail, u, kind) = {}
      /\ Cardinality({}) = 0 /\ ~(0 >= Threshold)
  <2>1. trail = <<>> /\ DOMAIN <<>> = {}
    BY DEF Init
  <2> QED
    BY <2>1, FS_EmptySet, PolicyIsSet DEF Marks
<1>2. \A u \in Users : AccountTold(trail, u, accounts[u])
  <2> SUFFICES ASSUME NEW u \in Users PROVE AccountTold(trail, u, accounts[u])
    OBVIOUS
  <2>1. accounts[u].failures = 0 /\ accounts[u].locked_until = None
    BY DEF Init
  <2> QED
    BY <1>1, <2>1 DEF AccountTold
<1>3. ASSUME NEW r \in Requests PROVE Told(r)
  <2>1. pc[r] = "unsent" /\ txn[r].events = <<>> /\ ~IsSignIn(r)
    BY DEF Init, NoTxn, IsSignIn
  <2> QED
    BY <1>1, <2>1, NothingRecorded DEF Told, RequestTold
<1>4. \A q, r \in Requests : Alone(q, r)
  BY DEF Init, Alone, HoldsAccount, IsSignIn
<1> QED
  BY <1>2, <1>3, <1>4 DEF TrailInv

\* What is told stays true by every step.
LEMMA NextTells == AccessInv /\ TrailInv /\ [Next]_vars => TrailInv'
<1> SUFFICES ASSUME AccessInv, TrailInv, [Next]_vars PROVE TrailInv'
  OBVIOUS
<1>1. CASE \E r \in Requests, c \in Calls : Send(r, c)
  BY <1>1, SendTells
<1>2. ASSUME NEW r \in Requests, Serve(r) PROVE TrailInv'
  <2>1. CASE ReadCredentials(r) \/ JudgeLock(r)
    BY <2>1, ReadCredentialsTells, JudgeLockTells
  <2>2. CASE Decay(r) \/ Verify(r) \/ RecordFailure(r) \/ OpenSession(r)
    <3>1. IsSignIn(r)
      BY <2>2, KindsOfStatement DEF Decay, Verify, RecordFailure, OpenSession
    <3> QED
      BY <2>2, <3>1, DecayTells, VerifyTells, RecordFailureTells, OpenSessionTells
  <2>3. CASE \/ ReadSession(r) \/ JudgeSession(r) \/ Touch(r) \/ ResolveScope(r)
             \/ BeginSignOut(r) \/ Revoke(r)
    BY <2>3, MuteSteps
  <2>4. CASE Commit(r) \/ Deliver(r)
    BY <2>4, CommitTells, EndTells
  <2> QED
    BY <1>2, <2>1, <2>2, <2>3, <2>4 DEF Serve
<1>3. CASE \E r \in Requests : Cut(r)
  BY <1>3, EndTells
<1>4. CASE \E u \in Users : SetActive(u)
  BY <1>4, SetActiveTells
<1>5. CASE Tick \/ UNCHANGED vars
  <2>1. UNCHANGED <<tables, pc, call, txn, answer>>
    BY <1>5 DEF Tick, vars
  <2>2. \A q \in Requests : Told(q)'
    BY <2>1, OthersTold DEF TrailInv, Kept
  <2> QED
    BY <2>1, <2>2 DEF TrailInv, tables, Alone, HoldsAccount, Holding, IsSignIn, User
<1> QED
  BY <1>1, <1>2, <1>3, <1>4, <1>5 DEF Next

\* What is told holds in every reachable state.
LEMMA TrailInvHolds == Spec => [](AccessInv /\ TrailInv)
BY InitAccess, InitTells, NextKeeps, NextTells, PTL DEF Spec

\* Whoever is told that a sign-in failed or succeeded is told what was kept: one
\* event for each failure and each success, although a failed sign-in ends in an
\* exception, and a session for each success and for nobody else.
THEOREM AnswersAreKept == Spec => []AnswersAreOnTheTrail
<1>1. TrailInv => AnswersAreOnTheTrail
  <2> SUFFICES ASSUME TrailInv, NEW r \in Requests, IsSignIn(r), pc[r] \in {"replying", "answered"}
               PROVE  /\ Cardinality(EventsBy(r, "auth_sign_in_failed")) =
                           (IF answer[r] \in {"invalid", "locked"} THEN 1 ELSE 0)
                      /\ Cardinality(EventsBy(r, "auth_sign_in_succeeded")) =
                           (IF answer[r] = "signed_in" THEN 1 ELSE 0)
                      /\ (sessions[r] # None) <=> (answer[r] = "signed_in")
    BY DEF AnswersAreOnTheTrail
  <2>1. Answers(trail, r, answer[r]) /\ ((sessions[r] # None) <=> (answer[r] = "signed_in"))
    BY DEF TrailInv, Told, RequestTold
  <2>2. \A type : EventsBy(r, type) = ByRequest(trail, r, type)
    BY DEF EventsBy, ByRequest
  <2>3. Cardinality({}) = 0 /\ \A p : Cardinality({p}) = 1
    BY FS_EmptySet, FS_Singleton
  <2> QED
    BY <2>1, <2>2, <2>3 DEF Answers
<1> QED
  BY <1>1, TrailInvHolds, PTL

\* The trail tells the failed count and the lock of every account: no failure is
\* forgotten or counted twice when attempts run side by side, and no lock appears
\* or goes untold, however many attempts there are and whatever the threshold.
THEOREM CountsAreTold == Spec => []TrailTellsTheCount
<1>1. AccessInv /\ TrailInv => TrailTellsTheCount
  <2> SUFFICES ASSUME AccessInv, TrailInv, NEW u \in Users
               PROVE  LET count == Cardinality(Failures(u))
                      IN  /\ accounts[u].failures = count
                          /\ (accounts[u].locked_until # None) <=> (count >= Threshold)
                          /\ Cardinality(Lockings(u)) =
                               (IF count >= Threshold THEN count - Threshold + 1 ELSE 0)
    BY DEF TrailTellsTheCount
  <2>1. \A i \in DOMAIN trail : trail[i] \in Event
    BY ElementOfSeq, LenProperties DEF AccessInv, TypeOK
  <2>2. Failures(u) = Marks(trail, u, FailureEvents)
    BY <2>1 DEF Failures, SinceReset, Positions, Resets, Marks, FailureEvents, ResetTypes
  <2>3. Lockings(u) = Marks(trail, u, LockingEvents)
    BY <2>1 DEF Lockings, SinceReset, Positions, Resets, Marks, LockingEvents, ResetTypes
  <2>4. AccountTold(trail, u, accounts[u])
    BY DEF TrailInv
  <2> QED
    BY <2>2, <2>3, <2>4 DEF AccountTold
<1> QED
  BY <1>1, TrailInvHolds, PTL
================================================================================
