----------------------------- MODULE CostingProofs -----------------------------
(* Theorems about Costing, for every value of its constants. *)
EXTENDS Costing, Extremes, SequenceTheorems, FiniteSetTheorems, TLAPS

\* What one request is at, by the statement it has reached: a save that is under
\* way is of an order in its caller's scope, its row follows the one committed,
\* whoever commits has a free operation_id, and whoever reads the profile has one
\* that was spent on a save of its order.
Standing(r) ==
  /\ IF pc[r] = "unsent" THEN answer[r].kind = "none" ELSE call[r] \in Calls
  /\ pc[r] \in {"lookup", "save", "record", "profile", "commit"} =>
       StoreOf[OrderOf(r)] \in call[r].scope
  /\ pc[r] = "save" => call[r].entered # Malformed
  /\ Holding(r) => /\ wrote[r].revision = NextRevision(r)
                   /\ wrote[r].profile.per_unit = None <=> wrote[r].profile.total = None
  /\ pc[r] = "commit" => ledger[call[r].key] = None
  /\ pc[r] = "profile" => ledger[call[r].key] # None /\ IsReplay(r)

\* What two requests may not both hold: the row of an order, an operation_id.
Apart(q, r) ==
  /\ Holding(q) /\ Holding(r) => OrderOf(q) # OrderOf(r)
  /\ pc[q] = "commit" /\ pc[r] = "commit" => call[q].key # call[r].key

\* The trail lists every operation_id that is spent, once, and an event of a save
\* names its order and its profile.
TrailInv ==
  /\ \A i \in DOMAIN trail : ledger[trail[i]] # None
  /\ \A i, j \in DOMAIN trail : trail[i] = trail[j] => i = j
  /\ \A k \in Keys : ledger[k] # None =>
       /\ \E i \in DOMAIN trail : trail[i] = k
       /\ IF ledger[k].type = "order_cost_profile_saved"
          THEN ledger[k].order \in Orders /\ ledger[k].after \in Profile
          ELSE ledger[k].order = None
  /\ \A o \in Orders : Saves(o) # {} => \E i \in Saves(o) : \A j \in Saves(o) : j <= i

Mine(r) == {i \in DOMAIN trail : trail[i] = call[r].key}
\* What a request was told of its save, and that one is the first to be told.
Told(r) ==
  answer[r].kind = "saved" =>
    LET event == ledger[call[r].key]
    IN  /\ event # None /\ event.type = "order_cost_profile_saved" /\ event.order = OrderOf(r)
        /\ StoreOf[OrderOf(r)] \in call[r].scope
        /\ IF answer[r].replayed
           THEN \E i \in Saves(OrderOf(r)) :
                  /\ \A j \in Mine(r) : j <= i
                  /\ ledger[trail[i]].after = answer[r].profile
           ELSE event.after = answer[r].profile
First(r) == answer[r].kind = "saved" /\ ~answer[r].replayed
SavedHaveRows == \A o \in Orders : Saves(o) # {} => profiles[o] # None
OneFirst == \A q, r \in Requests : First(q) /\ First(r) /\ call[q].key = call[r].key => q = r

CostInv ==
  /\ TypeOK
  /\ \A r \in Requests : Standing(r) /\ Told(r)
  /\ \A q, r \in Requests : q # r => Apart(q, r)
  /\ OneFirst /\ TrailInv /\ SavedHaveRows /\ ProfileIsLastSave

--------------------------------------------------------------------------------
(* The arithmetic of amounts, for every amount *)

\* Division rounds down.
LEMMA Dividing ==
  ASSUME NEW a \in Int, NEW b \in Nat \ {0}
  PROVE  /\ a \div b \in Int
         /\ b * (a \div b) <= a /\ a < b * (a \div b) + b
OBVIOUS

\* A magnitude is a natural number, and turns with its number.
LEMMA Magnitudes ==
  ASSUME NEW n \in Int
  PROVE  /\ Magnitude(n) \in Nat /\ (n = 0 <=> Magnitude(n) = 0)
         /\ n <= Magnitude(n) /\ -n <= Magnitude(n)
         /\ Magnitude(n) = n \/ Magnitude(n) = -n
BY DEF Magnitude

\* Half a divisor is the most that rounding half up moves, and a tie goes away
\* from zero.
LEMMA HalfUpIsNearest ==
  ASSUME NEW n \in Int, NEW d \in Nat \ {0}
  PROVE  /\ HalfUp(n, d) \in Int
         /\ 2 * Magnitude(n - d * HalfUp(n, d)) <= d
         /\ 2 * Magnitude(n - d * HalfUp(n, d)) = d => Magnitude(d * HalfUp(n, d)) > Magnitude(n)
<1>1. ASSUME NEW m \in Nat
      PROVE  LET q == (2 * m + d) \div (2 * d)
             IN  q \in Nat /\ -d <= 2 * (m - d * q) /\ 2 * (m - d * q) < d
  <2> DEFINE q == (2 * m + d) \div (2 * d)
  <2>1. q \in Int /\ (2 * d) * q <= 2 * m + d /\ 2 * m + d < (2 * d) * q + 2 * d
    <3>1. 2 * m + d \in Int /\ 2 * d \in Nat \ {0}
      OBVIOUS
    <3> QED
      BY <3>1, Dividing
  <2> HIDE DEF q
  <2>2. (2 * d) * q = 2 * (d * q) /\ d * q \in Int
    BY <2>1
  <2>3. -d <= 2 * (m - d * q) /\ 2 * (m - d * q) < d
    BY <2>1, <2>2
  <2>4. q >= 0
    <3>1. SUFFICES ASSUME q <= -1 PROVE FALSE
      BY <2>1
    <3>2. d * q <= -d
      BY <2>1, <3>1, Z3
    <3> QED
      BY <2>1, <2>2, <3>2
  <2> QED
    BY <2>1, <2>3, <2>4 DEF q
<1>2. CASE n < 0
  <2> DEFINE q == (2 * (-n) + d) \div (2 * d)
  <2>1. q \in Nat /\ -d <= 2 * (-n - d * q) /\ 2 * (-n - d * q) < d
    <3>1. -n \in Nat
      BY <1>2
    <3> QED
      BY <1>1, <3>1
  <2>2. HalfUp(n, d) = -q
    BY <1>2 DEF HalfUp
  <2> HIDE DEF q
  <2>3. PICK t \in Int : t = d * q
    BY <2>1
  <2>4. d * (-q) = -t /\ -d <= 2 * (-n - t) /\ 2 * (-n - t) < d
    BY <2>1, <2>3
  <2>5. -q \in Int
    BY <2>1
  <2> QED
    BY <1>2, <2>2, <2>4, <2>5 DEF Magnitude
<1>3. CASE n >= 0
  <2> DEFINE q == (2 * n + d) \div (2 * d)
  <2>1. q \in Nat /\ -d <= 2 * (n - d * q) /\ 2 * (n - d * q) < d
    <3>1. n \in Nat
      BY <1>3
    <3> QED
      BY <1>1, <3>1
  <2>2. HalfUp(n, d) = q
    BY <1>3 DEF HalfUp
  <2> HIDE DEF q
  <2>3. PICK t \in Int : t = d * q
    BY <2>1
  <2>4. -d <= 2 * (n - t) /\ 2 * (n - t) < d
    BY <2>1, <2>3
  <2> QED
    BY <1>3, <2>1, <2>2, <2>3, <2>4 DEF Magnitude
<1> QED
  BY <1>2, <1>3

\* So does rounding half to even.
LEMMA BankersIsNear ==
  ASSUME NEW n \in Int, NEW d \in Nat \ {0}
  PROVE  /\ BankersQuotient(n, d) \in Int
         /\ 2 * Magnitude(n - d * BankersQuotient(n, d)) <= d
<1> DEFINE q == n \div d
           t == q * d
           up == 2 * (n - t) > d \/ (2 * (n - t) = d /\ q % 2 = 1)
<1>1. q \in Int /\ d * q <= n /\ n < d * q + d
  BY Dividing
<1>2. BankersQuotient(n, d) = IF up THEN q + 1 ELSE q
  BY DEF BankersQuotient
<1> HIDE DEF q
<1>3. t \in Int /\ t <= n /\ n < t + d /\ d * q = t /\ d * (q + 1) = t + d
  BY <1>1
<1> HIDE DEF t
<1>4. CASE up
  <2>1. 2 * (n - t) >= d
    BY <1>4, <1>3
  <2> HIDE DEF up
  <2> QED
    BY <1>1, <1>2, <1>3, <1>4, <2>1 DEF Magnitude
<1>5. CASE ~up
  <2>1. 2 * (n - t) <= d
    BY <1>5, <1>3
  <2> HIDE DEF up
  <2> QED
    BY <1>1, <1>2, <1>3, <1>5, <2>1 DEF Magnitude
<1> QED
  BY <1>4, <1>5

\* What the decimal context keeps of a number is at most half its last digit
\* away, and nothing when the number is short enough.
LEMMA ContextIsNear ==
  ASSUME NEW n \in Int, Magnitude(n) < 10 ^ MostDigits
  PROVE  /\ InContext(n) \in Int
         /\ Fits(n) => InContext(n) = n
         /\ 2 * Magnitude(InContext(n) - n) <= ContextError(n) /\ ContextError(n) \in Nat
<1>1. CASE Fits(n)
  BY <1>1 DEF InContext, ContextError, Magnitude
<1>2. CASE ~Fits(n)
  <2> DEFINE C == ContextDigits
             T == {d \in C .. MostDigits : Magnitude(n) < 10 ^ (d + 1)}
  <2>1. /\ C \in Nat \ {0} /\ MostDigits \in Nat /\ C <= MostDigits
        /\ Magnitude(n) \in Nat /\ \A a \in 0 .. MostDigits : 10 ^ a \in Nat \ {0}
    BY DigitsArePositive, PowersOfTen, Magnitudes
  <2>2. 10 ^ C <= Magnitude(n)
    BY <1>2, <2>1 DEF Fits
  <2>3. MostDigits - 1 \in T
    <3>1. C # MostDigits
      BY <2>1, <2>2
    <3>2. MostDigits - 1 \in C .. MostDigits /\ (MostDigits - 1) + 1 = MostDigits
      BY <2>1, <3>1
    <3> QED
      BY <3>2
  <2>4. PICK least \in T : \A d \in T : least <= d
    <3>1. \A d \in T : d \in Nat
      BY <2>1
    <3> HIDE DEF T
    <3>2. T \subseteq Nat /\ T # {}
      BY <2>3, <3>1
    <3> QED
      BY <3>2, LeastOf
  <2>5. 10 ^ least <= Magnitude(n)
    <3>1. CASE least = C
      BY <2>2, <3>1
    <3>2. CASE least # C
      <4>1. least - 1 \in C .. MostDigits /\ ~(least <= least - 1) /\ (least - 1) + 1 = least
        BY <2>1, <2>4, <3>2
      <4>2. least - 1 \notin T
        BY <2>4, <4>1
      <4>3. ~(Magnitude(n) < 10 ^ least)
        BY <4>1, <4>2
      <4> QED
        BY <2>1, <2>4, <4>3
    <3> QED
      BY <3>1, <3>2
  <2> DEFINE d == CHOOSE d \in C .. MostDigits :
                    10 ^ d <= Magnitude(n) /\ Magnitude(n) < 10 ^ (d + 1)
             unit == 10 ^ (d + 1 - C)
  <2>6. d \in C .. MostDigits /\ 10 ^ d <= Magnitude(n)
    BY <2>4, <2>5
  <2>7. InContext(n) = unit * BankersQuotient(n, unit)
    BY <1>2 DEF InContext
  <2> HIDE DEF d
  <2>8. unit \in Nat \ {0} /\ 10 ^ (C - 1) \in Nat \ {0} /\ 10 ^ d = unit * 10 ^ (C - 1)
    <3>1. d + 1 - C \in 0 .. MostDigits /\ C - 1 \in 0 .. MostDigits
          /\ (d + 1 - C) + (C - 1) <= MostDigits /\ (d + 1 - C) + (C - 1) = d
      BY <2>1, <2>6
    <3>2. 10 ^ ((d + 1 - C) + (C - 1)) = 10 ^ (d + 1 - C) * 10 ^ (C - 1)
      BY <3>1, PowersOfTen
    <3> QED
      BY <2>1, <3>1, <3>2
  <2> DEFINE digit == 10 ^ (C - 1)
             near == BankersQuotient(n, unit)
  <2>9. near \in Int /\ 2 * Magnitude(n - unit * near) <= unit
    BY <2>8, BankersIsNear
  <2>10. ContextError(n) = Magnitude(n) \div digit
    BY <1>2 DEF ContextError
  <2>11. digit \in Nat \ {0} /\ unit * digit <= Magnitude(n)
    BY <2>6, <2>8
  <2> HIDE DEF unit, digit, near
  <2>12. ContextError(n) \in Int /\ Magnitude(n) < digit * ContextError(n) + digit
    BY <2>1, <2>10, <2>11, Dividing
  <2>13. unit <= ContextError(n)
    <3>1. SUFFICES ASSUME ContextError(n) + 1 <= unit PROVE FALSE
      BY <2>8, <2>12
    <3> DEFINE e == ContextError(n)
    <3>2. e \in Int /\ e + 1 <= unit /\ Magnitude(n) < digit * e + digit
      BY <2>12, <3>1
    <3> HIDE DEF e
    <3>3. digit * (e + 1) <= digit * unit
      BY <2>8, <2>11, <3>2, Z3
    <3>4. digit * (e + 1) = digit * e + digit /\ digit * unit = unit * digit
      BY <2>8, <2>11, <3>2
    <3> QED
      BY <2>1, <2>8, <2>11, <3>2, <3>3, <3>4
  <2>14. Magnitude(InContext(n) - n) = Magnitude(n - unit * near) /\ InContext(n) \in Int
    <3>1. PICK p \in Int : p = unit * near
      BY <2>8, <2>9
    <3>2. InContext(n) = p
      BY <2>7, <3>1 DEF near
    <3> QED
      BY <3>1, <3>2 DEF Magnitude
  <2>15. Magnitude(n - unit * near) \in Nat
    <3>1. n - unit * near \in Int
      BY <2>8, <2>9
    <3> QED
      BY <3>1, Magnitudes
  <2> QED
    BY <1>2, <2>8, <2>9, <2>12, <2>13, <2>14, <2>15
<1> QED
  BY <1>1, <1>2

\* An amount is settled to the nearest cent.
LEMMA SettledIsNear ==
  ASSUME NEW n \in Int
  PROVE  AsSettled(n) \in Int /\ 2 * Magnitude(AsSettled(n) - n) <= SETTLED
<1>1. PICK h \in Int : h = HalfUp(n, 1000) /\ 2 * Magnitude(n - 1000 * h) <= 1000
  <2>1. 1000 \in Nat \ {0}
    OBVIOUS
  <2>2. HalfUp(n, 1000) \in Int /\ 2 * Magnitude(n - 1000 * HalfUp(n, 1000)) <= 1000
    BY <2>1, HalfUpIsNearest
  <2> QED
    BY <2>2
<1>2. AsSettled(n) = 1000 * h
  BY <1>1 DEF AsSettled, Quantize, SETTLED
<1> QED
  BY <1>1, <1>2 DEF Magnitude, SETTLED

\* A unit cost that settles to nothing is at most half a cent, so that many units
\* of it are at most as many half cents.
LEMMA ZeroIsSmall ==
  ASSUME NEW n \in Int, NEW quantity \in Nat, AsSettled(n) = 0
  PROVE  2 * Magnitude(n * quantity) <= SETTLED * quantity
<1>1. -SETTLED <= 2 * n /\ 2 * n <= SETTLED
  BY SettledIsNear DEF Magnitude, SETTLED
<1>2. (2 * n) * quantity <= SETTLED * quantity /\ (-SETTLED) * quantity <= (2 * n) * quantity
  <2>1. ASSUME NEW a \in Int, NEW b \in Int, a <= b PROVE a * quantity <= b * quantity
    BY <2>1, Z3
  <2>2. 2 * n \in Int /\ SETTLED \in Int /\ -SETTLED \in Int
    BY DEF SETTLED
  <2> QED
    BY <1>1, <2>1, <2>2
<1>3. PICK t \in Int : t = n * quantity
  OBVIOUS
<1>4. (2 * n) * quantity = 2 * t /\ (-SETTLED) * quantity = -(SETTLED * quantity)
  BY <1>3 DEF SETTLED
<1> QED
  BY <1>2, <1>3, <1>4 DEF Magnitude, SETTLED

\* What a save computes from an amount and the figures of an order belongs
\* together.
Belongs(p, f, entered) ==
  /\ f.quantity = p.quantity /\ f.currency = p.currency
  /\ p.per_unit = None <=> p.total = None
  /\ p.known_zero <=> p.per_unit = 0
  /\ p.total # None =>
       /\ entered \in Int
       /\ LET exact == entered * p.quantity
          IN  /\ p.per_unit = AsSettled(entered)
              /\ p.total = AsSettled(exact) \/ ~Fits(exact)
              /\ 2 * Magnitude(p.total - exact) <= SETTLED + ContextError(exact)
              /\ p.known_zero => 2 * Magnitude(p.total) <= SETTLED * (p.quantity + 1)
                                                             + ContextError(exact)
LEMMA ComputedBelongs ==
  ASSUME NEW c \in Calls, c.entered # Malformed, NEW f \in Figures
  PROVE  /\ ComputeBuyingCost(f, c.entered) \in Profile
         /\ Belongs(ComputeBuyingCost(f, c.entered), f, c.entered)
<1>1. f.quantity \in Nat \ {0} /\ f.currency \in STRING /\ c.entered \in Amount
  BY CostingConstants DEF Call
<1>2. CASE c.entered = None
  <2>1. ComputeBuyingCost(f, c.entered) =
          [currency |-> f.currency, quantity |-> f.quantity, per_unit |-> None,
           known_zero |-> FALSE, total |-> None]
    BY <1>2 DEF ComputeBuyingCost, Blank
  <2>2. None # 0 /\ None \in Amount
    BY DigitsArePositive DEF Amount
  <2> QED
    BY <1>1, <2>1, <2>2 DEF Profile, Belongs
<1>3. CASE c.entered # None
  <2>1. c.entered \in Int
    BY <1>1, <1>3 DEF Amount
  <2> DEFINE exact == c.entered * f.quantity
             kept == Times(c.entered, f.quantity)
             unit == AsSettled(c.entered)
             total == AsSettled(kept)
             error == ContextError(exact)
  <2>2. exact \in Int /\ Magnitude(exact) < 10 ^ MostDigits
    BY <1>1, <2>1, ProductsAreAmounts
  <2>3. kept = InContext(exact)
    BY DEF Times
  <2>4. /\ kept \in Int /\ (Fits(exact) => kept = exact)
        /\ 2 * Magnitude(kept - exact) <= error /\ error \in Nat
    <3> HIDE DEF exact
    <3> QED
      BY <2>2, <2>3, ContextIsNear
  <2>5. unit \in Int /\ total \in Int /\ 2 * Magnitude(total - kept) <= SETTLED
    BY <2>1, <2>4, SettledIsNear
  <2>6. Fits(exact) => total = AsSettled(exact)
    BY <2>4
  <2>7. unit = 0 => 2 * Magnitude(exact) <= SETTLED * f.quantity
    BY <1>1, <2>1, ZeroIsSmall
  <2>8. ComputeBuyingCost(f, c.entered) =
          [Blank(f) EXCEPT !.per_unit = unit, !.known_zero = unit = 0, !.total = total]
    BY <1>3 DEF ComputeBuyingCost
  <2> HIDE DEF exact, kept, unit, total, error
  <2>9. 2 * Magnitude(total - exact) <= SETTLED + error
    BY <2>2, <2>4, <2>5 DEF Magnitude, SETTLED
  <2>10. unit = 0 => 2 * Magnitude(total) <= SETTLED * (f.quantity + 1) + error
    BY <1>1, <2>2, <2>4, <2>5, <2>7, <2>9 DEF Magnitude, SETTLED
  <2>11. ComputeBuyingCost(f, c.entered) =
          [currency |-> f.currency, quantity |-> f.quantity, per_unit |-> unit,
           known_zero |-> (unit = 0), total |-> total]
    BY <2>8 DEF Blank
  <2>12. unit # None /\ total # None
    BY <2>5, DigitsArePositive
  <2> DEFINE p == ComputeBuyingCost(f, c.entered)
  <2>13. p \in Profile
    BY <1>1, <2>5, <2>11 DEF Profile, Amount
  <2>14. p.quantity = f.quantity /\ p.currency = f.currency /\ p.per_unit = unit /\ p.total = total
         /\ (p.known_zero <=> unit = 0)
    <3>1. p.quantity = f.quantity /\ p.currency = f.currency /\ p.per_unit = unit /\ p.total = total
      BY <2>11
    <3>2. PICK flag \in BOOLEAN : flag = (unit = 0)
      BY Zenon
    <3>3. p = [currency |-> f.currency, quantity |-> f.quantity, per_unit |-> unit,
               known_zero |-> flag, total |-> total]
      BY <2>11, <3>2, Zenon
    <3>4. p.known_zero = flag
      BY <3>3
    <3> QED
      BY <3>1, <3>2, <3>4, Zenon
  <2> HIDE DEF p
  <2>15. exact = c.entered * p.quantity
    BY <2>14 DEF exact
  <2>16. /\ unit = AsSettled(c.entered) /\ error = ContextError(c.entered * p.quantity)
         /\ total = AsSettled(c.entered * p.quantity) \/ ~Fits(c.entered * p.quantity)
         /\ 2 * Magnitude(total - c.entered * p.quantity) <= SETTLED + error
    BY <2>6, <2>9, <2>15 DEF unit, error
  <2>17. Belongs(p, f, c.entered)
    BY <2>1, <2>10, <2>12, <2>14, <2>16, Zenon DEF Belongs
  <2> QED
    BY <2>13, <2>17 DEF p
<1> QED
  BY <1>2, <1>3



\* In particular it is a profile, with a total exactly when there is a unit cost.
LEMMA ComputedProfile ==
  ASSUME NEW c \in Calls, c.entered # Malformed, NEW f \in Figures
  PROVE  /\ ComputeBuyingCost(f, c.entered) \in Profile
         /\ ComputeBuyingCost(f, c.entered).per_unit = None
              <=> ComputeBuyingCost(f, c.entered).total = None
BY ComputedBelongs DEF Belongs

--------------------------------------------------------------------------------
\* The parts of a call have their types.
LEMMA TypedCalls ==
  ASSUME NEW c \in Calls
  PROVE  c.key \in Keys /\ c.order \in Orders /\ c \in Call
BY CostingConstants DEF Call

\* The refusals and the answers are answers.
LEMMA AnswersTyped ==
  /\ \A kind \in AnswerKind : Refuse(kind) \in Answer /\ Refuse(kind).kind = kind
  /\ \A profile \in Profile, replayed \in BOOLEAN :
       /\ Saved(profile, replayed) \in Answer /\ Saved(profile, replayed).kind = "saved"
       /\ Saved(profile, replayed).profile = profile
       /\ Saved(profile, replayed).replayed = replayed
BY DEF Refuse, Saved, Answer, AnswerKind

--------------------------------------------------------------------------------
\* The invariant holds before the first request.
LEMMA InitCost == Init => CostInv
<1> SUFFICES ASSUME Init PROVE CostInv
  OBVIOUS
<1>1. TypeOK
  <2>1. trail \in Seq(Keys)
    BY EmptySeq DEF Init
  <2>2. orders \in [Orders -> Figures \cup {None}]
    BY CostingConstants DEF Init
  <2>3. answer \in [Requests -> Answer]
    BY AnswersTyped DEF Init, AnswerKind
  <2> QED
    BY <2>1, <2>2, <2>3 DEF Init, TypeOK, Labels, Holding
<1>2. \A r \in Requests : Standing(r) /\ Told(r)
  BY AnswersTyped DEF Init, Standing, Told, Holding, AnswerKind
<1>3. \A q, r \in Requests : q # r => Apart(q, r)
  BY DEF Init, Apart, Holding
<1>4. OneFirst
  BY AnswersTyped DEF Init, OneFirst, First, AnswerKind
<1>5. TrailInv /\ SavedHaveRows
  BY DEF Init, TrailInv, SavedHaveRows, Saves
<1>6. ProfileIsLastSave
  BY DEF Init, ProfileIsLastSave, Saves, Complete, GetCostProfile, Blank
<1> QED
  BY <1>1, <1>2, <1>3, <1>4, <1>5, <1>6 DEF CostInv

--------------------------------------------------------------------------------
(* Steps that change no table *)

\* The step moves request r alone and leaves the tables as they are.
MovesAlone(r) ==
  /\ UNCHANGED tables
  /\ pc' = [pc EXCEPT ![r] = pc'[r]] /\ pc'[r] \in Labels
  /\ call' = [call EXCEPT ![r] = call'[r]] /\ call'[r] \in Call \cup {None}
  /\ seen' = [seen EXCEPT ![r] = seen'[r]] /\ seen'[r] \in Figures \cup {None}
  /\ wrote' = [wrote EXCEPT ![r] = wrote'[r]] /\ wrote'[r] \in Row \cup {None}
  /\ answer' = [answer EXCEPT ![r] = answer'[r]] /\ answer'[r] \in Answer
  /\ seen'[r] # None <=> pc'[r] \in {"lookup", "save", "record", "profile", "commit"}
  /\ wrote'[r] # None <=> pc'[r] \in {"record", "commit"}

\* Such a step keeps the invariant when r keeps its own part of it.
LEMMA OwnStep ==
  ASSUME CostInv, NEW r \in Requests, MovesAlone(r),
         Standing(r)', \A q \in Requests \ {r} : Apart(q, r)', Told(r)',
         First(r)' => First(r) /\ call'[r] = call[r]
  PROVE  CostInv'
<1>1. /\ TypeOK /\ (\A q \in Requests : Standing(q) /\ Told(q))
      /\ (\A p, q \in Requests : p # q => Apart(p, q))
      /\ OneFirst /\ TrailInv /\ SavedHaveRows /\ ProfileIsLastSave
  BY DEF CostInv
<1>2. \A q \in Requests \ {r} : /\ pc'[q] = pc[q] /\ call'[q] = call[q] /\ seen'[q] = seen[q]
                                /\ wrote'[q] = wrote[q] /\ answer'[q] = answer[q]
  BY <1>1 DEF MovesAlone, TypeOK
<1>3. orders' = orders /\ profiles' = profiles /\ ledger' = ledger /\ trail' = trail
  BY DEF MovesAlone, tables
<1>4. TypeOK'
  <2>1. \A q \in Requests : /\ seen'[q] # None <=> pc'[q] \in {"lookup", "save", "record",
                                                              "profile", "commit"}
                            /\ wrote'[q] # None <=> pc'[q] \in {"record", "commit"}
    BY <1>1, <1>2 DEF MovesAlone, TypeOK, Holding
  <2> QED
    BY <1>1, <1>3, <2>1 DEF MovesAlone, TypeOK, Holding
<1>5. ASSUME NEW q \in Requests \ {r} PROVE Standing(q)' /\ Told(q)'
  <2>1. /\ Holding(q)' <=> Holding(q)
        /\ IsReplay(q)' <=> IsReplay(q)
        /\ OrderOf(q)' = OrderOf(q) /\ NextRevision(q)' = NextRevision(q)
    BY <1>2, <1>3 DEF Holding, IsReplay, OrderOf, NextRevision
  <2>2. Saves(OrderOf(q))' = Saves(OrderOf(q)) /\ Mine(q)' = Mine(q)
    BY <1>2, <1>3 DEF Saves, Mine, OrderOf
  <2> QED
    BY <1>1, <1>2, <1>3, <2>1, <2>2 DEF Standing, Told
<1>6. ASSUME NEW p \in Requests, NEW q \in Requests, p # q PROVE Apart(p, q)'
  <2>1. CASE p # r /\ q # r
    BY <1>1, <1>2, <1>6, <2>1 DEF Apart, Holding, OrderOf
  <2>2. CASE q = r
    BY <1>6, <2>2
  <2>3. CASE p = r
    BY <1>6, <2>3 DEF Apart
  <2> QED
    BY <2>1, <2>2, <2>3
<1>7. OneFirst'
  BY <1>1, <1>2 DEF OneFirst, First
<1>8. TrailInv' /\ SavedHaveRows' /\ ProfileIsLastSave'
  <2>1. \A o \in Orders : Saves(o)' = Saves(o) /\ (Complete(o)' <=> Complete(o))
                          /\ GetCostProfile(o)' = GetCostProfile(o)
    BY <1>3 DEF Saves, Complete, GetCostProfile
  <2> QED
    BY <1>1, <1>3, <2>1 DEF TrailInv, SavedHaveRows, ProfileIsLastSave
<1> QED
  BY <1>1, <1>4, <1>5, <1>6, <1>7, <1>8 DEF CostInv

\* A request that leaves with what it has not written.
LEMMA ReplyStep ==
  ASSUME CostInv, NEW r \in Requests, pc[r] # "unsent", NEW a \in Answer, Reply(r, a),
         UNCHANGED <<tables, call>>,
         a.kind = "saved" =>
           /\ a.replayed /\ ledger[call[r].key] # None /\ IsReplay(r)
           /\ StoreOf[OrderOf(r)] \in call[r].scope
           /\ \E i \in Saves(OrderOf(r)) : /\ \A j \in Mine(r) : j <= i
                                           /\ ledger[trail[i]].after = a.profile
  PROVE  CostInv'
<1>1. TypeOK /\ call[r] \in Calls
  BY DEF CostInv, Standing
<1>2. /\ pc' = [pc EXCEPT ![r] = "replying"] /\ pc'[r] = "replying"
      /\ answer' = [answer EXCEPT ![r] = a] /\ answer'[r] = a
      /\ seen' = [seen EXCEPT ![r] = None] /\ seen'[r] = None
      /\ wrote' = [wrote EXCEPT ![r] = None] /\ wrote'[r] = None
  BY <1>1 DEF Reply, Goto, TypeOK
<1>3. MovesAlone(r)
  BY <1>1, <1>2 DEF MovesAlone, Labels, TypeOK
<1>4. Standing(r)' /\ ~Holding(r)' /\ \A q \in Requests \ {r} : Apart(q, r)'
  BY <1>1, <1>2 DEF Standing, Holding, Apart
<1>5. ledger' = ledger /\ trail' = trail /\ call' = call
  BY DEF tables
<1>6. Told(r)'
  <2>1. Saves(OrderOf(r))' = Saves(OrderOf(r)) /\ Mine(r)' = Mine(r) /\ OrderOf(r)' = OrderOf(r)
    BY <1>5 DEF Saves, Mine, OrderOf
  <2> QED
    BY <1>2, <1>5, <2>1 DEF Told, IsReplay
<1>7. ~First(r)'
  BY <1>2 DEF First
<1> QED
  BY <1>3, <1>4, <1>6, <1>7, OwnStep

\* A refusal tells nothing.
LEMMA RefuseStep ==
  ASSUME CostInv, NEW r \in Requests, pc[r] # "unsent",
         NEW kind \in AnswerKind \ {"saved"}, Reply(r, Refuse(kind)), UNCHANGED <<tables, call>>
  PROVE  CostInv'
<1>1. Refuse(kind) \in Answer /\ Refuse(kind).kind # "saved"
  BY AnswersTyped
<1> QED
  BY <1>1, ReplyStep

\* A request that goes on without an answer.
LEMMA GoOnStep ==
  ASSUME CostInv, NEW r \in Requests,
         NEW label \in {"lookup", "save", "record", "profile", "commit"},
         pc[r] \in {"opened", "lookup", "save", "record"}, Goto(r, label),
         UNCHANGED <<tables, call, answer>>,
         seen' = [seen EXCEPT ![r] = seen'[r]], seen'[r] \in Figures, seen'[r] # None,
         wrote' = [wrote EXCEPT ![r] = wrote'[r]], wrote'[r] \in Row \cup {None},
         wrote'[r] # None <=> label \in {"record", "commit"},
         Standing(r)', \A q \in Requests \ {r} : Apart(q, r)'
  PROVE  CostInv'
<1>1. TypeOK /\ Told(r)
  BY DEF CostInv
<1>2. pc' = [pc EXCEPT ![r] = label] /\ pc'[r] = label
  BY <1>1 DEF Goto, TypeOK
<1>3. MovesAlone(r)
  BY <1>1, <1>2 DEF MovesAlone, Labels, TypeOK
<1>4. ledger' = ledger /\ trail' = trail /\ call' = call /\ answer' = answer
  BY DEF tables
<1>5. Told(r)' /\ (First(r)' => First(r))
  <2>1. Saves(OrderOf(r))' = Saves(OrderOf(r)) /\ Mine(r)' = Mine(r) /\ OrderOf(r)' = OrderOf(r)
    BY <1>4 DEF Saves, Mine, OrderOf
  <2> QED
    BY <1>1, <1>4, <2>1 DEF Told, First
<1> QED
  BY <1>3, <1>4, <1>5, OwnStep

--------------------------------------------------------------------------------
(* One lemma per action that changes no table *)

\* A client sends a call of its own.
LEMMA SendKeeps ==
  ASSUME CostInv, NEW r \in Requests, NEW c \in Calls, Send(r, c)
  PROVE  CostInv'
<1>1. TypeOK /\ Standing(r) /\ Told(r) /\ pc[r] = "unsent"
  BY DEF CostInv, Send
<1>2. /\ pc' = [pc EXCEPT ![r] = "opened"] /\ pc'[r] = "opened"
      /\ call' = [call EXCEPT ![r] = c] /\ call'[r] = c
      /\ UNCHANGED <<orders, profiles, ledger, trail, seen, wrote, answer>>
  BY <1>1 DEF Send, Goto, TypeOK, tables
<1>3. seen[r] = None /\ wrote[r] = None
  BY <1>1 DEF TypeOK, Holding
<1>4. MovesAlone(r)
  BY <1>1, <1>2, <1>3, TypedCalls DEF MovesAlone, Labels, TypeOK, tables
<1>5. Standing(r)' /\ \A q \in Requests \ {r} : Apart(q, r)'
  BY <1>2 DEF Standing, Holding, Apart
<1>6. answer[r].kind # "saved"
  BY <1>1 DEF Standing
<1>7. Told(r)' /\ ~First(r)'
  BY <1>2, <1>6 DEF Told, First
<1> QED
  BY <1>4, <1>5, <1>7, OwnStep

\* Reading the order starts the transaction or ends it with a refusal.
LEMMA GetOrderKeeps ==
  ASSUME CostInv, NEW r \in Requests, GetOrder(r)
  PROVE  CostInv'
<1>1. TypeOK /\ Standing(r) /\ pc[r] = "opened" /\ call[r] \in Calls /\ UNCHANGED <<tables, call>>
  BY DEF CostInv, GetOrder, Standing
<1>2. CASE orders[OrderOf(r)] = None \/ StoreOf[OrderOf(r)] \notin call[r].scope
  BY <1>1, <1>2, RefuseStep DEF GetOrder, AnswerKind
<1>3. CASE ~(orders[OrderOf(r)] = None \/ StoreOf[OrderOf(r)] \notin call[r].scope)
  <2>1. /\ Goto(r, "lookup") /\ seen' = [seen EXCEPT ![r] = orders[OrderOf(r)]]
        /\ UNCHANGED <<wrote, answer>>
    BY <1>3 DEF GetOrder
  <2>2. /\ pc'[r] = "lookup" /\ seen'[r] = orders[OrderOf(r)] /\ wrote'[r] = None
        /\ seen' = [seen EXCEPT ![r] = seen'[r]] /\ wrote' = [wrote EXCEPT ![r] = wrote'[r]]
    BY <1>1, <2>1 DEF TypeOK, Goto, Holding
  <2>3. seen'[r] \in Figures /\ seen'[r] # None
    BY <1>1, <1>3, <2>2, TypedCalls DEF TypeOK, OrderOf
  <2>4. Standing(r)' /\ \A q \in Requests \ {r} : Apart(q, r)'
    BY <1>1, <1>3, <2>2 DEF Standing, Holding, Apart, OrderOf
  <2> QED
    BY <1>1, <2>1, <2>2, <2>3, <2>4, GoOnStep
<1> QED
  BY <1>2, <1>3

\* Whoever finds its operation_id spent goes on to the profile or leaves.
LEMMA ReplayOrConflictKeeps ==
  ASSUME CostInv, NEW r \in Requests, pc[r] \in {"lookup", "record"},
         ledger[call[r].key] # None, ReplayOrConflict(r), UNCHANGED <<tables, call>>
  PROVE  CostInv'
<1>1. TypeOK /\ Standing(r) /\ call[r] \in Calls
  BY DEF CostInv, Standing
<1>2. CASE ~IsReplay(r)
  BY <1>1, <1>2, RefuseStep DEF ReplayOrConflict, AnswerKind
<1>3. CASE IsReplay(r)
  <2>1. Goto(r, "profile") /\ wrote' = [wrote EXCEPT ![r] = None] /\ UNCHANGED <<seen, answer>>
    BY <1>3 DEF ReplayOrConflict
  <2>2. pc'[r] = "profile" /\ wrote'[r] = None /\ seen'[r] = seen[r] /\ seen[r] # None
        /\ seen[r] \in Figures /\ seen' = [seen EXCEPT ![r] = seen'[r]]
    BY <1>1, <2>1 DEF TypeOK, Goto
  <2>3. ledger' = ledger /\ call' = call
    BY DEF tables
  <2>4. Standing(r)' /\ \A q \in Requests \ {r} : Apart(q, r)'
    BY <1>1, <1>3, <2>2, <2>3 DEF Standing, Holding, Apart, OrderOf, IsReplay
  <2> QED
    BY <1>1, <2>1, <2>2, <2>4, GoOnStep
<1> QED
  BY <1>2, <1>3

\* The lookup of the operation_id chooses between the save and the replay.
LEMMA FindByOperationKeeps ==
  ASSUME CostInv, NEW r \in Requests, FindByOperation(r)
  PROVE  CostInv'
<1>1. /\ TypeOK /\ Standing(r) /\ pc[r] = "lookup" /\ call[r] \in Calls
      /\ UNCHANGED <<tables, call>>
  BY DEF CostInv, FindByOperation, Standing
<1>2. CASE ledger[call[r].key] # None
  BY <1>1, <1>2, ReplayOrConflictKeeps DEF FindByOperation
<1>3. CASE ledger[call[r].key] = None /\ call[r].entered = Malformed
  BY <1>1, <1>3, RefuseStep DEF FindByOperation, AnswerKind
<1>4. CASE ledger[call[r].key] = None /\ call[r].entered # Malformed
  <2>1. Goto(r, "save") /\ UNCHANGED <<seen, wrote, answer>>
    BY <1>4 DEF FindByOperation
  <2>2. /\ pc'[r] = "save" /\ wrote'[r] = None /\ seen'[r] = seen[r] /\ seen[r] # None
        /\ seen[r] \in Figures /\ seen' = [seen EXCEPT ![r] = seen'[r]]
        /\ wrote' = [wrote EXCEPT ![r] = wrote'[r]]
    BY <1>1, <2>1 DEF TypeOK, Goto, Holding
  <2>3. Standing(r)' /\ \A q \in Requests \ {r} : Apart(q, r)'
    BY <1>1, <1>4, <2>2 DEF Standing, Holding, Apart, OrderOf
  <2> QED
    BY <1>1, <2>1, <2>2, <2>3, GoOnStep
<1> QED
  BY <1>2, <1>3, <1>4

\* The profile a save holds but has not committed is the one it computed.
LEMMA SaveFieldsKeeps ==
  ASSUME CostInv, NEW r \in Requests, SaveFields(r)
  PROVE  CostInv'
<1>1. /\ TypeOK /\ Standing(r) /\ pc[r] = "save" /\ call[r] \in Calls
      /\ UNCHANGED <<tables, call>>
  BY DEF CostInv, SaveFields, Standing
<1> DEFINE profile == ComputeBuyingCost(seen[r], call[r].entered)
           new == [profile |-> profile, revision |-> NextRevision(r)]
<1>2. seen[r] \in Figures /\ seen[r] # None
  BY <1>1 DEF TypeOK
<1>3. profile \in Profile /\ (profile.per_unit = None <=> profile.total = None)
  BY <1>1, <1>2, ComputedProfile DEF Standing
<1>4. NextRevision(r) \in Nat
  <2>1. profiles[OrderOf(r)] \in Row \cup {None}
    BY <1>1, TypedCalls DEF TypeOK, OrderOf
  <2> QED
    BY <2>1 DEF NextRevision, Row
<1> HIDE DEF profile
<1>5. CASE ~InColumn(profile.per_unit) \/ ~InColumn(profile.total)
  <2>1. Reply(r, Refuse("server_error"))
    BY <1>5 DEF SaveFields, profile
  <2> QED
    BY <1>1, <2>1, RefuseStep DEF AnswerKind
<1>6. CASE ~(~InColumn(profile.per_unit) \/ ~InColumn(profile.total))
  <2>1. /\ Goto(r, "record") /\ wrote' = [wrote EXCEPT ![r] = new] /\ UNCHANGED <<seen, answer>>
    BY <1>6 DEF SaveFields, profile
  <2>2. new \in Row /\ new # None
    BY <1>3, <1>4, NoneIsNoRow DEF Row
  <2>3. /\ pc'[r] = "record" /\ wrote'[r] = new /\ seen'[r] = seen[r]
        /\ seen' = [seen EXCEPT ![r] = seen'[r]]
    BY <1>1, <2>1 DEF TypeOK, Goto
  <2>4. \A q \in Requests \ {r} : pc'[q] = pc[q]
    BY <1>1, <2>1 DEF TypeOK, Goto
  <2>5. NextRevision(r)' = NextRevision(r) /\ call' = call
    BY <1>1 DEF NextRevision, OrderOf, tables
  <2>6. Standing(r)'
    BY <1>1, <1>3, <2>3, <2>5 DEF Standing, Holding, OrderOf
  <2>7. \A q \in Requests \ {r} : Apart(q, r)'
    BY <1>1, <2>3, <2>4, <2>5 DEF SaveFields, Apart, Holding, OrderOf
  <2> QED
    BY <1>1, <1>2, <2>1, <2>2, <2>3, <2>6, <2>7, GoOnStep
<1> QED
  BY <1>5, <1>6

\* A save that finds its key taken has lost its row; one that does not keeps it.
LEMMA RecordOperationKeeps ==
  ASSUME CostInv, NEW r \in Requests, RecordOperation(r)
  PROVE  CostInv'
<1>1. /\ TypeOK /\ Standing(r) /\ pc[r] = "record" /\ call[r] \in Calls
      /\ UNCHANGED <<tables, call>> /\ ~KeyHeld(r, call[r].key)
  BY DEF CostInv, RecordOperation, Standing
<1>2. CASE ledger[call[r].key] # None
  BY <1>1, <1>2, ReplayOrConflictKeeps DEF RecordOperation
<1>3. CASE ledger[call[r].key] = None
  <2>1. Goto(r, "commit") /\ UNCHANGED <<seen, wrote, answer>>
    BY <1>3 DEF RecordOperation
  <2>2. /\ pc'[r] = "commit" /\ wrote'[r] = wrote[r] /\ wrote[r] # None /\ wrote[r] \in Row
        /\ seen'[r] = seen[r] /\ seen[r] # None
        /\ seen[r] \in Figures /\ seen' = [seen EXCEPT ![r] = seen'[r]]
        /\ wrote' = [wrote EXCEPT ![r] = wrote'[r]] /\ \A q \in Requests \ {r} : pc'[q] = pc[q]
    BY <1>1, <2>1 DEF TypeOK, Goto, Holding
  <2>3. NextRevision(r)' = NextRevision(r) /\ call' = call /\ ledger' = ledger
    BY <1>1 DEF NextRevision, OrderOf, tables
  <2>4. Standing(r)'
    BY <1>1, <1>3, <2>2, <2>3 DEF Standing, Holding, OrderOf
  <2>5. \A q \in Requests \ {r} : Apart(q, r)
    BY DEF CostInv
  <2>6. \A q \in Requests \ {r} : Apart(q, r)'
    BY <1>1, <2>2, <2>3, <2>5 DEF Apart, Holding, OrderOf, KeyHeld
  <2> QED
    BY <1>1, <2>1, <2>2, <2>4, <2>6, GoOnStep
<1> QED
  BY <1>2, <1>3

\* The profile a replay reads is what the last recorded save left, and the save
\* it replays is not after that one.
LEMMA ReadProfileKeeps ==
  ASSUME CostInv, NEW r \in Requests, ReadProfile(r)
  PROVE  CostInv'
<1>1. /\ TypeOK /\ Standing(r) /\ pc[r] = "profile" /\ call[r] \in Calls
      /\ UNCHANGED <<tables, call>> /\ TrailInv /\ ProfileIsLastSave
      /\ ledger[call[r].key] # None /\ IsReplay(r) /\ StoreOf[OrderOf(r)] \in call[r].scope
  BY DEF CostInv, ReadProfile, Standing
<1> DEFINE o == OrderOf(r)
           k == call[r].key
           a == Saved(GetCostProfile(o), TRUE)
<1>2. o \in Orders /\ k \in Keys
  BY <1>1, TypedCalls DEF OrderOf
<1>3. Mine(r) \subseteq Saves(o) /\ Saves(o) # {}
  <2>1. \A j \in Mine(r) : ledger[trail[j]] = ledger[k] /\ j \in DOMAIN trail
    BY DEF Mine
  <2>2. PICK i \in DOMAIN trail : trail[i] = k
    BY <1>1, <1>2 DEF TrailInv
  <2> QED
    BY <1>1, <2>1, <2>2 DEF Saves, IsReplay
<1>4. PICK i \in Saves(o) : \A j \in Saves(o) : j <= i
  BY <1>1, <1>2, <1>3 DEF TrailInv
<1> DEFINE last == Last(Saves(o))
<1>5. last \in Saves(o) /\ \A j \in Saves(o) : j <= last
  BY <1>4 DEF Last
<1> HIDE DEF last
<1>6. GetCostProfile(o) = ledger[trail[last]].after
  BY <1>1, <1>2, <1>3 DEF ProfileIsLastSave, last
<1>7. GetCostProfile(o) \in Profile
  <2>1. last \in DOMAIN trail /\ ledger[trail[last]].order = o /\ trail[last] \in Keys
    BY <1>1, <1>5, ElementOfSeq DEF Saves, TypeOK
  <2>2. ledger[trail[last]] # None /\ o # None
    BY <1>1, <1>2, <2>1, NoneIsNoRow DEF TrailInv
  <2> QED
    BY <1>1, <1>6, <2>1, <2>2 DEF TrailInv
<1>8. a \in Answer /\ a.kind = "saved" /\ a.replayed /\ a.profile = GetCostProfile(o)
  BY <1>7, AnswersTyped
<1>9. \E j \in Saves(o) : (\A m \in Mine(r) : m <= j) /\ ledger[trail[j]].after = a.profile
  BY <1>3, <1>5, <1>6, <1>8
<1>10. Reply(r, a)
  BY DEF ReadProfile
<1> HIDE DEF a
<1> QED
  BY <1>1, <1>8, <1>9, <1>10, ReplyStep

\* An answer that reaches its client is the one that was computed.
LEMMA DeliverKeeps ==
  ASSUME CostInv, NEW r \in Requests, Deliver(r)
  PROVE  CostInv'
<1>1. TypeOK /\ Standing(r) /\ Told(r) /\ pc[r] = "replying"
  BY DEF CostInv, Deliver
<1>2. /\ pc' = [pc EXCEPT ![r] = "answered"] /\ pc'[r] = "answered"
      /\ UNCHANGED <<orders, profiles, ledger, trail, call, seen, wrote, answer>>
  BY <1>1 DEF Deliver, Goto, TypeOK, tables
<1>3. seen[r] = None /\ wrote[r] = None
  BY <1>1 DEF TypeOK, Holding
<1>4. MovesAlone(r)
  BY <1>1, <1>2, <1>3 DEF MovesAlone, Labels, TypeOK, tables
<1>5. Standing(r)' /\ \A q \in Requests \ {r} : Apart(q, r)'
  BY <1>1, <1>2 DEF Standing, Holding, Apart
<1>6. Told(r)' /\ (First(r)' => First(r))
  <2>1. Saves(OrderOf(r))' = Saves(OrderOf(r)) /\ Mine(r)' = Mine(r) /\ OrderOf(r)' = OrderOf(r)
    BY <1>2 DEF Saves, Mine, OrderOf
  <2> QED
    BY <1>1, <1>2, <2>1 DEF Told, First
<1> QED
  BY <1>2, <1>4, <1>5, <1>6, OwnStep

\* A transaction that is cut leaves nothing behind.
LEMMA CutKeeps ==
  ASSUME CostInv, NEW r \in Requests, Cut(r)
  PROVE  CostInv'
<1>1. TypeOK /\ Standing(r) /\ pc[r] # "unsent"
  BY DEF CostInv, Cut
<1>2. Refuse("none") \in Answer /\ Refuse("none").kind # "saved"
  BY AnswersTyped DEF AnswerKind
<1>3. /\ pc' = [pc EXCEPT ![r] = "lost"] /\ pc'[r] = "lost"
      /\ seen' = [seen EXCEPT ![r] = None] /\ seen'[r] = None
      /\ wrote' = [wrote EXCEPT ![r] = None] /\ wrote'[r] = None
      /\ answer' = [answer EXCEPT ![r] = Refuse("none")] /\ answer'[r] = Refuse("none")
      /\ UNCHANGED <<tables, call>>
  BY <1>1 DEF Cut, Goto, TypeOK
<1>4. MovesAlone(r)
  BY <1>1, <1>2, <1>3 DEF MovesAlone, Labels, TypeOK
<1>5. Standing(r)' /\ \A q \in Requests \ {r} : Apart(q, r)'
  BY <1>1, <1>3 DEF Standing, Holding, Apart
<1>6. Told(r)' /\ ~First(r)'
  BY <1>2, <1>3 DEF Told, First
<1> QED
  BY <1>4, <1>5, <1>6, OwnStep

--------------------------------------------------------------------------------
(* Steps that record an event *)

Next1 == Len(trail) + 1
\* The step records event e under the fresh operation_id k.
Records(k, e) ==
  /\ k \in Keys /\ ledger[k] = None
  /\ e \in Event
  /\ IF e.type = "order_cost_profile_saved" THEN e.order \in Orders /\ e.after \in Profile
     ELSE e.order = None
  /\ ledger' = [ledger EXCEPT ![k] = e]
  /\ trail' = Append(trail, k)

\* It adds one position to the trail, and to the saves of the order it names.
LEMMA RecordsShape ==
  ASSUME CostInv, NEW k, NEW e, Records(k, e)
  PROVE  /\ trail' \in Seq(Keys) /\ Next1 \in Nat
         /\ DOMAIN trail = 1 .. Len(trail) /\ Len(trail) \in Nat
         /\ DOMAIN trail' = DOMAIN trail \cup {Next1} /\ trail'[Next1] = k
         /\ \A i \in DOMAIN trail : /\ trail'[i] = trail[i] /\ trail[i] # k /\ trail[i] \in Keys
                                    /\ ledger'[trail[i]] = ledger[trail[i]] /\ i < Next1
         /\ ledger' \in [Keys -> Event \cup {None}] /\ ledger'[k] = e /\ e # None
         /\ \A j \in Keys \ {k} : ledger'[j] = ledger[j]
         /\ \A o \in Orders :
              Saves(o)' = IF e.order = o THEN Saves(o) \cup {Next1} ELSE Saves(o)
<1>1. TypeOK /\ TrailInv
  BY DEF CostInv
<1>2. /\ trail' \in Seq(Keys) /\ Len(trail') = Len(trail) + 1 /\ trail'[Len(trail) + 1] = k
      /\ \A i \in 1 .. Len(trail) : trail'[i] = trail[i]
  BY <1>1, AppendProperties DEF Records, TypeOK
<1>3. /\ Len(trail) \in Nat /\ DOMAIN trail = 1 .. Len(trail) /\ DOMAIN trail' = 1 .. Len(trail) + 1
  BY <1>1, <1>2, LenProperties DEF TypeOK
<1>4. DOMAIN trail' = DOMAIN trail \cup {Next1} /\ trail'[Next1] = k /\ Next1 \in Nat
  BY <1>2, <1>3 DEF Next1
<1>5. /\ ledger' \in [Keys -> Event \cup {None}] /\ ledger'[k] = e /\ e # None
      /\ \A j \in Keys \ {k} : ledger'[j] = ledger[j]
  BY <1>1, NoneIsNoRow DEF Records, TypeOK
<1>6. \A i \in DOMAIN trail : /\ trail'[i] = trail[i] /\ trail[i] # k /\ trail[i] \in Keys
                              /\ ledger'[trail[i]] = ledger[trail[i]] /\ i < Next1
  <2>1. \A i \in DOMAIN trail : trail[i] \in Keys
    BY <1>1, <1>3, ElementOfSeq DEF TypeOK
  <2>2. \A i \in DOMAIN trail : trail[i] # k
    BY <1>1 DEF TrailInv, Records
  <2> QED
    BY <1>2, <1>3, <1>5, <2>1, <2>2 DEF Next1
<1>7. ASSUME NEW o \in Orders
      PROVE  Saves(o)' = IF e.order = o THEN Saves(o) \cup {Next1} ELSE Saves(o)
  <2>1. Saves(o)' = {i \in DOMAIN trail' : ledger'[trail'[i]].order = o}
    BY DEF Saves
  <2> QED
    BY <1>4, <1>5, <1>6, <2>1 DEF Saves
<1> QED
  BY <1>2, <1>3, <1>4, <1>5, <1>6, <1>7

\* The trail keeps its invariant: one first event for the key, one more revision.
LEMMA RecordsTrail ==
  ASSUME CostInv, NEW k, NEW e, Records(k, e)
  PROVE  TrailInv'
<1>1. TypeOK /\ TrailInv
  BY DEF CostInv
<1>2. \A i \in DOMAIN trail' : ledger'[trail'[i]] # None
  BY <1>1, RecordsShape DEF TrailInv
<1>3. \A i, j \in DOMAIN trail' : trail'[i] = trail'[j] => i = j
  BY <1>1, RecordsShape DEF TrailInv
<1>4. ASSUME NEW j \in Keys, ledger'[j] # None
      PROVE  /\ \E i \in DOMAIN trail' : trail'[i] = j
             /\ IF ledger'[j].type = "order_cost_profile_saved"
                THEN ledger'[j].order \in Orders /\ ledger'[j].after \in Profile
                ELSE ledger'[j].order = None
  <2>1. CASE j = k
    BY <2>1, RecordsShape DEF Records
  <2>2. CASE j # k
    <3>1. ledger'[j] = ledger[j] /\ ledger[j] # None
      BY <1>4, <2>2, RecordsShape
    <3>2. PICK i \in DOMAIN trail : trail[i] = j
      BY <1>1, <3>1 DEF TrailInv
    <3>3. i \in DOMAIN trail' /\ trail'[i] = j
      BY <3>2, RecordsShape
    <3> QED
      BY <1>1, <3>1, <3>3 DEF TrailInv
  <2> QED
    BY <2>1, <2>2
<1>5. ASSUME NEW o \in Orders, Saves(o)' # {}
      PROVE  \E i \in Saves(o)' : \A j \in Saves(o)' : j <= i
  <2>1. CASE e.order = o
    <3>1. Next1 \in Nat /\ \A j \in DOMAIN trail : j < Next1
      BY RecordsShape
    <3>2. Saves(o)' = Saves(o) \cup {Next1}
      BY <2>1, RecordsShape
    <3>3. Saves(o) \subseteq DOMAIN trail
      BY DEF Saves
    <3>4. \A j \in Saves(o) : j \in Nat /\ j < Next1
      BY <3>1, <3>3, RecordsShape
    <3>5. Next1 \in Saves(o)' /\ \A j \in Saves(o)' : j <= Next1
      BY <3>1, <3>2, <3>4
    <3> QED
      BY <3>5
  <2>2. CASE e.order # o
    <3>1. Saves(o)' = Saves(o)
      BY <2>2, RecordsShape
    <3>2. \E i \in Saves(o) : \A j \in Saves(o) : j <= i
      BY <1>1, <1>5, <3>1 DEF TrailInv
    <3> QED
      BY <3>1, <3>2
  <2> QED
    BY <2>1, <2>2
<1> QED
  BY <1>2, <1>3, <1>4, <1>5 DEF TrailInv

\* What others were told of their saves stays true.
LEMMA RecordsTold ==
  ASSUME CostInv, NEW k, NEW e, Records(k, e), NEW q \in Requests,
         call'[q] = call[q], answer'[q] = answer[q]
  PROVE  Told(q)'
<1>1. SUFFICES ASSUME answer[q].kind = "saved" PROVE Told(q)'
  BY DEF Told
<1> DEFINE o == OrderOf(q)
<1>2. Told(q) /\ ledger[call[q].key] # None /\ TypeOK /\ call[q] \in Calls
  BY <1>1 DEF CostInv, Told, Standing
<1>3. o \in Orders /\ call[q].key \in Keys /\ OrderOf(q)' = o
  BY <1>2, TypedCalls DEF OrderOf
<1>4. call[q].key # k /\ ledger'[call[q].key] = ledger[call[q].key]
  BY <1>2, <1>3, RecordsShape DEF Records
<1>5. Mine(q)' = Mine(q)
  <2>1. Mine(q)' = {i \in DOMAIN trail' : trail'[i] = call[q].key}
    BY DEF Mine
  <2> QED
    BY <1>4, <2>1, RecordsShape DEF Mine
<1>6. \A i \in Saves(o) : i \in Saves(o)' /\ ledger'[trail'[i]] = ledger[trail[i]]
  BY <1>3, RecordsShape DEF Saves
<1> HIDE DEF o
<1>7. Saves(OrderOf(q))' = Saves(o)'
  BY <1>3 DEF Saves, o
<1> QED
  BY <1>1, <1>2, <1>3, <1>4, <1>5, <1>6, <1>7 DEF Told, o

\* A save that commits makes its profile and its event visible together.
LEMMA CommitKeeps ==
  ASSUME CostInv, NEW r \in Requests, Commit(r)
  PROVE  CostInv'
<1>1. /\ TypeOK /\ Standing(r) /\ pc[r] = "commit" /\ call[r] \in Calls /\ call[r] \in Call
      /\ TrailInv /\ SavedHaveRows /\ ProfileIsLastSave /\ OneFirst
  BY TypedCalls DEF CostInv, Commit, Standing
<1>0. PICK o \in Orders : o = OrderOf(r)
  BY <1>1, TypedCalls DEF OrderOf
<1> DEFINE k == call[r].key
           p == wrote[r].profile
           e == [type |-> "order_cost_profile_saved", order |-> o, after |-> p]
           a == Saved(p, FALSE)
<1>2. k \in Keys /\ ledger[k] = None /\ StoreOf[o] \in call[r].scope
  BY <1>0, <1>1, TypedCalls DEF Standing
<1>3. /\ wrote[r] \in Row /\ p \in Profile /\ (p.per_unit = None <=> p.total = None)
      /\ wrote[r].revision = NextRevision(r) /\ wrote[r] # None
  BY <1>1, NoneIsNoRow DEF TypeOK, Standing, Holding, Row
<1>4. a \in Answer /\ a.kind = "saved" /\ ~a.replayed /\ a.profile = p
  BY <1>3, AnswersTyped
<1>5. /\ profiles' = [profiles EXCEPT ![o] = wrote[r]] /\ UNCHANGED <<orders, call>>
      /\ pc' = [pc EXCEPT ![r] = "replying"] /\ answer' = [answer EXCEPT ![r] = a]
      /\ seen' = [seen EXCEPT ![r] = None] /\ wrote' = [wrote EXCEPT ![r] = None]
  BY <1>0 DEF Commit, Reply, Goto
<1>6. /\ pc'[r] = "replying" /\ answer'[r] = a /\ seen'[r] = None /\ wrote'[r] = None
      /\ profiles'[o] = wrote[r] /\ \A i \in Orders \ {o} : profiles'[i] = profiles[i]
  BY <1>1, <1>2, <1>5 DEF TypeOK
<1>7. \A q \in Requests \ {r} : /\ pc'[q] = pc[q] /\ answer'[q] = answer[q] /\ seen'[q] = seen[q]
                                /\ wrote'[q] = wrote[q] /\ call'[q] = call[q]
  BY <1>1, <1>5 DEF TypeOK
<1>8. Records(k, e) /\ e.type = "order_cost_profile_saved" /\ e.order = o /\ e.after = p
  <2>1. e \in Event
    BY <1>2, <1>3 DEF Event
  <2> QED
    BY <1>0, <1>2, <1>3, <2>1 DEF Records, Commit
<1> HIDE DEF a, p, e, k
<1>9. TypeOK'
  <2>1. /\ ledger' \in [Keys -> Event \cup {None}] /\ trail' \in Seq(Keys)
    BY <1>8, RecordsShape
  <2>2. \A q \in Requests : /\ seen'[q] # None <=> pc'[q] \in {"lookup", "save", "record",
                                                              "profile", "commit"}
                            /\ wrote'[q] # None <=> pc'[q] \in {"record", "commit"}
    BY <1>1, <1>6, <1>7 DEF TypeOK, Holding
  <2>3. profiles' \in [Orders -> Row \cup {None}] /\ answer' \in [Requests -> Answer]
    BY <1>1, <1>2, <1>3, <1>4, <1>5 DEF TypeOK
  <2> QED
    BY <1>1, <1>5, <2>1, <2>2, <2>3 DEF TypeOK, Labels, Holding
<1>10. ASSUME NEW q \in Requests PROVE Standing(q)'
  <2>1. CASE q = r
    BY <1>1, <1>5, <1>6, <2>1 DEF Standing, Holding
  <2>2. CASE q # r
    <3>1. Standing(q) /\ Apart(q, r)
      BY <2>2 DEF CostInv
    <3>2. Holding(q) => NextRevision(q)' = NextRevision(q)
      BY <1>0, <1>1, <1>5, <1>6, <2>2, <3>1, TypedCalls
      DEF NextRevision, Apart, Holding, OrderOf, Standing
    <3>3. pc[q] = "commit" => ledger'[call[q].key] = ledger[call[q].key]
      BY <1>1, <1>8, <3>1, RecordsShape, TypedCalls DEF Apart, Standing, k
    <3>4. pc[q] = "profile" => ledger'[call[q].key] = ledger[call[q].key]
      BY <1>2, <1>8, <3>1, RecordsShape, TypedCalls DEF Standing
    <3>5. (Holding(q)' <=> Holding(q)) /\ OrderOf(q)' = OrderOf(q)
      BY <1>7, <2>2 DEF Holding, OrderOf
    <3> QED
      BY <1>7, <2>2, <3>1, <3>2, <3>3, <3>4, <3>5 DEF Standing, IsReplay
  <2> QED
    BY <2>1, <2>2
<1>11. ASSUME NEW q \in Requests PROVE Told(q)'
  <2>1. CASE q = r
    <3>1. ledger'[k] = e /\ e # None /\ call'[r].key = k /\ OrderOf(r)' = o
      BY <1>0, <1>5, <1>8, RecordsShape DEF k, OrderOf
    <3> QED
      BY <1>2, <1>4, <1>5, <1>6, <1>8, <2>1, <3>1 DEF Told, k
  <2>2. CASE q # r
    BY <1>7, <1>8, <2>2, RecordsTold
  <2> QED
    BY <2>1, <2>2
<1>12. ASSUME NEW q1 \in Requests, NEW q2 \in Requests, q1 # q2 PROVE Apart(q1, q2)'
  <2>1. Apart(q1, q2)
    BY <1>12 DEF CostInv
  <2> QED
    BY <1>1, <1>6, <1>7, <1>12, <2>1 DEF Apart, Holding, OrderOf
<1>13. OneFirst'
  <2>1. ASSUME NEW q \in Requests \ {r}, First(q) PROVE call[q].key # k
    BY <1>2, <2>1 DEF CostInv, First, Told
  <2> QED
    BY <1>1, <1>5, <1>6, <1>7, <2>1 DEF OneFirst, First, k
<1>14. TrailInv'
  BY <1>8, RecordsTrail
<1>15. SavedHaveRows'
  <2>1. ASSUME NEW i \in Orders, Saves(i)' # {} PROVE profiles'[i] # None
    <3>1. CASE i = o
      BY <1>3, <1>6, <3>1
    <3>2. CASE i # o
      BY <1>1, <1>6, <1>8, <2>1, <3>2, RecordsShape DEF SavedHaveRows
    <3> QED
      BY <3>1, <3>2
  <2> QED
    BY <2>1 DEF SavedHaveRows
<1>16. ProfileIsLastSave'
  <2>1. ASSUME NEW i \in Orders \ {o}
        PROVE  IF Saves(i)' = {} THEN profiles'[i] = None /\ (orders'[i] # None => ~Complete(i)')
               ELSE LET last == ledger'[trail'[Last(Saves(i)')]].after
                    IN  /\ GetCostProfile(i)' = last
                        /\ profiles'[i].revision = Cardinality(Saves(i)')
                        /\ Complete(i)' <=> last.per_unit # None
    <3>1. Saves(i)' = Saves(i)
      <4>1. i \in Orders /\ e.order # i
        BY <1>8, <2>1
      <4> QED
        BY <1>8, <4>1, RecordsShape
    <3>2. GetCostProfile(i)' = GetCostProfile(i) /\ (Complete(i)' <=> Complete(i))
      BY <1>5, <1>6, <2>1 DEF GetCostProfile, Complete
    <3>3. ASSUME Saves(i) # {} PROVE Last(Saves(i)) \in DOMAIN trail
      <4>1. PICK j \in Saves(i) : \A m \in Saves(i) : m <= j
        BY <1>1, <2>1, <3>3 DEF TrailInv
      <4>2. Last(Saves(i)) \in Saves(i)
        BY <4>1 DEF Last
      <4> QED
        BY <4>2 DEF Saves
    <3>4. Saves(i) # {} => ledger'[trail'[Last(Saves(i))]] = ledger[trail[Last(Saves(i))]]
      BY <1>8, <3>3, RecordsShape
    <3> QED
      BY <1>1, <1>5, <1>6, <2>1, <3>1, <3>2, <3>4 DEF ProfileIsLastSave
  <2>2. /\ Saves(o)' = Saves(o) \cup {Next1} /\ Next1 \notin Saves(o) /\ Next1 \in Nat
        /\ Saves(o) \subseteq 1 .. Len(trail) /\ \A j \in Saves(o)' : j <= Next1
    <3>1. Saves(o)' = Saves(o) \cup {Next1}
      BY <1>2, <1>8, RecordsShape
    <3>2. Saves(o) \subseteq DOMAIN trail
      BY DEF Saves
    <3> QED
      BY <1>8, <3>1, <3>2, RecordsShape
  <2>3. Last(Saves(o)') = Next1
    <3>1. \A i \in Saves(o)' : (\A j \in Saves(o)' : j <= i) => i = Next1
      BY <1>8, <2>2, RecordsShape
    <3> QED
      BY <2>2, <3>1 DEF Last
  <2>4. Cardinality(Saves(o)') = Cardinality(Saves(o)) + 1
    <3>1. IsFiniteSet(Saves(o))
      <4>1. Len(trail) \in Nat
        BY <1>8, RecordsShape
      <4>2. IsFiniteSet(1 .. Len(trail))
        BY <4>1, FS_Interval
      <4> QED
        BY <2>2, <4>2, FS_Subset
    <3> QED
      BY <2>2, <3>1, FS_AddElement
  <2>5. ledger'[trail'[Next1]].after = p
    BY <1>8, RecordsShape
  <2>6. wrote[r].revision = Cardinality(Saves(o)')
    <3>1. NextRevision(r) = IF profiles[o] = None THEN 1 ELSE profiles[o].revision + 1
      BY <1>0 DEF NextRevision
    <3>2. CASE Saves(o) = {}
      <4>1. profiles[o] = None
        BY <1>1, <3>2 DEF ProfileIsLastSave
      <4>2. Cardinality(Saves(o)) = 0
        BY <3>2, FS_EmptySet
      <4> QED
        BY <1>3, <2>4, <3>1, <4>1, <4>2
    <3>3. CASE Saves(o) # {}
      <4>1. profiles[o] # None /\ profiles[o].revision = Cardinality(Saves(o))
        BY <1>1, <1>2, <3>3 DEF ProfileIsLastSave, SavedHaveRows
      <4> QED
        BY <1>3, <2>4, <3>1, <4>1
    <3> QED
      BY <3>2, <3>3
  <2>7. GetCostProfile(o)' = p /\ (Complete(o)' <=> p.per_unit # None)
    BY <1>3, <1>6 DEF GetCostProfile, Complete, p
  <2>8. Saves(o)' # {}
    BY <2>2
  <2> QED
    BY <1>6, <2>1, <2>3, <2>5, <2>6, <2>7, <2>8 DEF ProfileIsLastSave
<1> QED
  BY <1>9, <1>10, <1>11, <1>12, <1>13, <1>14, <1>15, <1>16 DEF CostInv

\* An import that writes an order leaves its profile to the last save.
LEMMA ImportOrderKeeps ==
  ASSUME CostInv, NEW k \in Keys, NEW i \in Imports, ImportOrder(k, i.order, i.figures)
  PROVE  CostInv'
<1> DEFINE e == [type |-> "orders_imported", order |-> None, after |-> None]
<1>1. /\ TypeOK /\ TrailInv /\ SavedHaveRows /\ ProfileIsLastSave /\ OneFirst
      /\ UNCHANGED <<profiles, pc, call, seen, wrote, answer>>
  BY DEF CostInv, ImportOrder
<1>2. Records(k, e) /\ e.order = None /\ None \notin Orders
  <2>1. e \in Event /\ e.type # "order_cost_profile_saved" /\ e.order = None
    BY DEF Event
  <2> QED
    BY <2>1, NoneIsNoRow DEF Records, ImportOrder
<1> HIDE DEF e
<1>3. /\ i.order \in Orders /\ i.figures \in Figures
      /\ orders' = [orders EXCEPT ![i.order] = i.figures]
  BY CostingConstants DEF ImportOrder
<1>4. TypeOK'
  BY <1>1, <1>2, <1>3, RecordsShape DEF TypeOK, Holding
<1>5. ASSUME NEW q \in Requests PROVE Standing(q)' /\ Told(q)'
  <2>1. Standing(q)
    BY DEF CostInv
  <2>2. /\ (Holding(q)' <=> Holding(q)) /\ OrderOf(q)' = OrderOf(q)
        /\ NextRevision(q)' = NextRevision(q)
    BY <1>1 DEF Holding, OrderOf, NextRevision
  <2>3. pc[q] \in {"commit", "profile"} => ledger'[call[q].key] = ledger[call[q].key]
    BY <1>2, <2>1, RecordsShape, TypedCalls DEF Standing, ImportOrder, Records
  <2>4. Standing(q)'
    BY <1>1, <2>1, <2>2, <2>3 DEF Standing, IsReplay
  <2>5. Told(q)'
    BY <1>1, <1>2, RecordsTold
  <2> QED
    BY <2>4, <2>5
<1>6. ASSUME NEW q1 \in Requests, NEW q2 \in Requests, q1 # q2 PROVE Apart(q1, q2)'
  <2>1. Apart(q1, q2)
    BY <1>6 DEF CostInv
  <2> QED
    BY <1>1, <2>1 DEF Apart, Holding, OrderOf
<1>7. OneFirst'
  BY <1>1 DEF OneFirst, First
<1>8. TrailInv'
  BY <1>2, RecordsTrail
<1>9. ASSUME NEW o \in Orders PROVE Saves(o)' = Saves(o)
  <2>1. e.order # o
    BY <1>2
  <2> QED
    BY <1>2, <1>9, <2>1, RecordsShape
<1>10. SavedHaveRows'
  BY <1>1, <1>9 DEF SavedHaveRows
<1>11. ProfileIsLastSave'
  <2>1. ASSUME NEW o \in Orders
        PROVE  IF Saves(o)' = {} THEN profiles'[o] = None /\ (orders'[o] # None => ~Complete(o)')
               ELSE LET last == ledger'[trail'[Last(Saves(o)')]].after
                    IN  /\ GetCostProfile(o)' = last
                        /\ profiles'[o].revision = Cardinality(Saves(o)')
                        /\ Complete(o)' <=> last.per_unit # None
    <3>1. CASE Saves(o) = {}
      <4>1. profiles[o] = None
        BY <1>1, <3>1 DEF ProfileIsLastSave
      <4>2. GetCostProfile(o)'.total = None
        BY <1>1, <4>1 DEF GetCostProfile, Blank
      <4> QED
        BY <1>1, <1>9, <3>1, <4>1, <4>2 DEF Complete
    <3>2. CASE Saves(o) # {}
      <4>1. profiles[o] # None
        BY <1>1, <3>2 DEF SavedHaveRows
      <4>2. GetCostProfile(o)' = GetCostProfile(o) /\ (Complete(o)' <=> Complete(o))
        BY <1>1, <4>1 DEF GetCostProfile, Complete
      <4>3. PICK j \in Saves(o) : \A m \in Saves(o) : m <= j
        BY <1>1, <3>2 DEF TrailInv
      <4>4. Last(Saves(o)) \in DOMAIN trail
        <5>1. Last(Saves(o)) \in Saves(o)
          BY <4>3 DEF Last
        <5> QED
          BY <5>1 DEF Saves
      <4>5. ledger'[trail'[Last(Saves(o))]] = ledger[trail[Last(Saves(o))]]
        BY <1>2, <4>4, RecordsShape
      <4> QED
        BY <1>1, <1>9, <3>2, <4>2, <4>5 DEF ProfileIsLastSave
    <3> QED
      BY <3>1, <3>2
  <2> QED
    BY <2>1 DEF ProfileIsLastSave
<1> QED
  BY <1>4, <1>5, <1>6, <1>7, <1>8, <1>10, <1>11 DEF CostInv

--------------------------------------------------------------------------------
\* The invariant is inductive.
LEMMA NextKeeps == CostInv /\ [Next]_vars => CostInv'
<1> SUFFICES ASSUME CostInv, [Next]_vars PROVE CostInv'
  OBVIOUS
<1>1. CASE UNCHANGED vars
  <2>1. UNCHANGED <<orders, profiles, ledger, trail, pc, call, seen, wrote, answer>>
    BY <1>1 DEF vars, tables
  <2>2. \A o \in Orders : Saves(o)' = Saves(o) /\ (Complete(o)' <=> Complete(o))
                          /\ GetCostProfile(o)' = GetCostProfile(o)
    BY <2>1 DEF Saves, Complete, GetCostProfile
  <2>3. TypeOK' /\ TrailInv' /\ SavedHaveRows' /\ ProfileIsLastSave' /\ OneFirst'
    BY <2>1, <2>2 DEF CostInv, TypeOK, Holding, TrailInv, SavedHaveRows, ProfileIsLastSave,
                      OneFirst, First
  <2>4. ASSUME NEW q \in Requests PROVE Standing(q)' /\ Told(q)'
    <3>1. /\ (Holding(q)' <=> Holding(q)) /\ (IsReplay(q)' <=> IsReplay(q))
          /\ OrderOf(q)' = OrderOf(q) /\ NextRevision(q)' = NextRevision(q)
          /\ Saves(OrderOf(q))' = Saves(OrderOf(q)) /\ Mine(q)' = Mine(q)
      BY <2>1 DEF Holding, IsReplay, OrderOf, NextRevision, Saves, Mine
    <3> QED
      BY <2>1, <3>1 DEF CostInv, Standing, Told
  <2>5. \A p, q \in Requests : p # q => Apart(p, q)'
    BY <2>1 DEF CostInv, Apart, Holding, OrderOf
  <2> QED
    BY <2>3, <2>4, <2>5 DEF CostInv
<1>2. ASSUME NEW r \in Requests, NEW c \in Calls, Send(r, c) PROVE CostInv'
  BY <1>2, SendKeeps
<1>3. ASSUME NEW r \in Requests, Serve(r) PROVE CostInv'
  BY <1>3, GetOrderKeeps, FindByOperationKeeps, SaveFieldsKeeps, RecordOperationKeeps,
     ReadProfileKeeps, CommitKeeps, DeliverKeeps DEF Serve
<1>4. ASSUME NEW r \in Requests, Cut(r) PROVE CostInv'
  BY <1>4, CutKeeps
<1>5. ASSUME NEW k \in Keys, NEW i \in Imports, ImportOrder(k, i.order, i.figures) PROVE CostInv'
  BY <1>5, ImportOrderKeeps
<1> QED
  BY <1>1, <1>2, <1>3, <1>4, <1>5 DEF Next

\* The invariant holds in every reachable state.
THEOREM CostInvHolds == Spec => []CostInv
BY InitCost, NextKeeps, PTL DEF Spec

\* Tables, responses and local variables keep their types, and a request has a
\* row of its own exactly while it holds the lock on it.
THEOREM CostTypeCorrect == Spec => []TypeOK
<1>1. CostInv => TypeOK
  BY DEF CostInv
<1> QED
  BY <1>1, CostInvHolds, PTL

\* The audit trail alone explains what an order costs: whatever saves, retries,
\* imports and cuts, its profile is what the last recorded save left and its
\* revision counts them.
THEOREM CostsAreExplained == Spec => []ProfileIsLastSave
<1>1. CostInv => ProfileIsLastSave
  BY DEF CostInv
<1> QED
  BY <1>1, CostInvHolds, PTL

\* Whoever is told that a cost is saved finds it in the ledger under its key, one
\* caller of a key is told it was first, and a replay is told nothing older than
\* the save it replays.
THEOREM CostAnswersAgree == Spec => []AnswersMatchLedger
<1>1. ASSUME CostInv PROVE AnswersMatchLedger
  <2>1. ASSUME NEW r \in Requests, First(r), NEW q \in Requests, First(q), call[q].key = call[r].key
        PROVE  q = r
    BY <1>1, <2>1 DEF CostInv, OneFirst
  <2>2. \A r \in Requests : Told(r)
    BY <1>1 DEF CostInv
  <2> QED
    BY <2>1, <2>2 DEF AnswersMatchLedger, Told, First, Mine
<1> QED
  BY <1>1, CostInvHolds, PTL

\* A cost moves only in the step that records its save under a fresh
\* operation_id, one revision at a time.
THEOREM CostsMoveWithEvents == Spec => CostsMoveWithTheirEvents
<1> DEFINE Moves ==
      \A o \in Orders : profiles'[o] # profiles[o] =>
        \E k \in Keys :
          /\ ledger[k] = None /\ ledger'[k] # None /\ ledger'[k].order = o
          /\ ledger'[k].after = profiles'[o].profile
          /\ profiles'[o].revision =
               (IF profiles[o] = None THEN 1 ELSE profiles[o].revision + 1)
<1>1. ASSUME CostInv, [Next]_vars PROVE [Moves]_vars
  <2>1. SUFFICES ASSUME NEW o \in Orders, profiles'[o] # profiles[o]
                 PROVE  \E k \in Keys :
                          /\ ledger[k] = None /\ ledger'[k] # None /\ ledger'[k].order = o
                          /\ ledger'[k].after = profiles'[o].profile
                          /\ profiles'[o].revision =
                               (IF profiles[o] = None THEN 1 ELSE profiles[o].revision + 1)
    OBVIOUS
  <2>2. PICK r \in Requests : Commit(r)
    BY <1>1, <2>1 DEF Next, vars, tables, Send, Serve, GetOrder, FindByOperation, SaveFields,
                      RecordOperation, ReadProfile, Deliver, Cut, ImportOrder
  <2>3. TypeOK /\ Standing(r) /\ pc[r] = "commit" /\ call[r] \in Calls
    BY <1>1, <2>2 DEF CostInv, Commit, Standing
  <2>4. OrderOf(r) \in Orders /\ call[r].key \in Keys /\ ledger[call[r].key] = None
    BY <2>3, TypedCalls DEF OrderOf, Standing
  <2>5. o = OrderOf(r) /\ profiles'[o] = wrote[r] /\ wrote[r] \in Row
    BY <2>1, <2>2, <2>3, <2>4 DEF Commit, TypeOK, Holding
  <2> DEFINE e == [type |-> "order_cost_profile_saved", order |-> o, after |-> wrote[r].profile]
  <2>6. ledger'[call[r].key] = e
    BY <2>2, <2>3, <2>4, <2>5 DEF Commit, TypeOK
  <2>7. e \in Event /\ e # None
    BY <2>5, NoneIsNoRow DEF Event, Row
  <2>8. profiles'[o].revision = (IF profiles[o] = None THEN 1 ELSE profiles[o].revision + 1)
    BY <2>3, <2>5 DEF Standing, Holding, NextRevision
  <2> QED
    BY <2>4, <2>5, <2>6, <2>7, <2>8
<1> QED
  BY <1>1, CostInvHolds, PTL DEF Spec, CostsMoveWithTheirEvents

--------------------------------------------------------------------------------
(* What stands in a row was computed from one reading of its order *)

\* Request r is the one that recorded operation_id k, with what it computed from
\* the figures f of its order.
Recorded(k, r, f) ==
  /\ pc[r] # "unsent" /\ call[r] \in Calls /\ call[r].key = k /\ call[r].entered # Malformed
  /\ OrderOf(r) = ledger[k].order
  /\ ledger[k].after = ComputeBuyingCost(f, call[r].entered)
\* A row that waits for its commit is the one its request computes.
Computed(r) ==
  Holding(r) => /\ call[r].entered # Malformed
                /\ wrote[r].profile = ComputeBuyingCost(seen[r], call[r].entered)
FiguresInv ==
  /\ \A r \in Requests : Computed(r)
  /\ \A k \in Keys : ledger[k] # None /\ ledger[k].type = "order_cost_profile_saved" =>
       \E r \in Requests, f \in Figures : Recorded(k, r, f)

\* What a step does to one request: once sent it keeps its call, and it comes to
\* hold a row only by its own upsert.
LEMMA OneRequest ==
  ASSUME CostInv, [Next]_vars, NEW q \in Requests
  PROVE  /\ pc[q] # "unsent" => pc'[q] # "unsent" /\ call'[q] = call[q]
         /\ Holding(q)' => \/ SaveFields(q)
                           \/ Holding(q) /\ seen'[q] = seen[q] /\ wrote'[q] = wrote[q]
<1>1. TypeOK
  BY DEF CostInv
<1>2. CASE UNCHANGED vars
  BY <1>2 DEF vars, Holding
<1>3. ASSUME NEW r \in Requests, NEW c \in Calls, Send(r, c)
      PROVE  /\ pc[q] # "unsent" => pc'[q] # "unsent" /\ call'[q] = call[q]
             /\ Holding(q)' => Holding(q) /\ seen'[q] = seen[q] /\ wrote'[q] = wrote[q]
  BY <1>1, <1>3 DEF Send, Goto, Holding, TypeOK
<1>4. ASSUME NEW r \in Requests, Serve(r) \/ Cut(r), r # q
      PROVE  pc'[q] = pc[q] /\ call'[q] = call[q] /\ seen'[q] = seen[q] /\ wrote'[q] = wrote[q]
  <2>1. pc' = [pc EXCEPT ![r] = pc'[r]] /\ call' = call
        /\ seen' = [seen EXCEPT ![r] = seen'[r]] /\ wrote' = [wrote EXCEPT ![r] = wrote'[r]]
    BY <1>1, <1>4 DEF Serve, Cut, GetOrder, FindByOperation, SaveFields, RecordOperation,
       ReadProfile, Commit, Deliver, ReplayOrConflict, Reply, Goto, TypeOK
  <2> QED
    BY <1>1, <1>4, <2>1 DEF TypeOK
<1>5. ASSUME Serve(q) \/ Cut(q)
      PROVE  /\ pc'[q] # "unsent" /\ call'[q] = call[q]
             /\ Holding(q)' => \/ SaveFields(q)
                               \/ Holding(q) /\ seen'[q] = seen[q] /\ wrote'[q] = wrote[q]
  <2>1. CASE SaveFields(q)
    BY <1>1, <2>1 DEF SaveFields, Reply, Goto, TypeOK
  <2>2. CASE RecordOperation(q)
    BY <1>1, <2>2 DEF RecordOperation, ReplayOrConflict, Reply, Goto, Holding, TypeOK
  <2>3. CASE ~SaveFields(q) /\ ~RecordOperation(q)
    <3>1. pc'[q] \notin {"unsent", "record", "commit"} /\ call' = call
      BY <1>1, <1>5, <2>3 DEF Serve, Cut, GetOrder, FindByOperation, ReadProfile, Commit, Deliver,
         ReplayOrConflict, Reply, Goto, TypeOK
    <3> QED
      BY <3>1 DEF Holding
  <2> QED
    BY <2>1, <2>2, <2>3
<1>6. ASSUME NEW k \in Keys, NEW i \in Imports, ImportOrder(k, i.order, i.figures)
      PROVE  pc'[q] = pc[q] /\ call'[q] = call[q] /\ seen'[q] = seen[q] /\ wrote'[q] = wrote[q]
  BY <1>6 DEF ImportOrder
<1> QED
  BY <1>2, <1>3, <1>4, <1>5, <1>6 DEF Next, Holding

\* What a step does to one key of the ledger.
LEMMA OneKey ==
  ASSUME CostInv, [Next]_vars, NEW k \in Keys
  PROVE  \/ ledger'[k] = ledger[k]
         \/ ledger'[k] # None /\ ledger'[k].type # "order_cost_profile_saved"
         \/ \E r \in Requests :
              /\ pc[r] = "commit" /\ call[r].key = k
              /\ ledger'[k].order = OrderOf(r) /\ ledger'[k].after = wrote[r].profile
<1>1. TypeOK
  BY DEF CostInv
<1>2. ASSUME NEW r \in Requests, Commit(r)
      PROVE  \/ ledger'[k] = ledger[k]
             \/ /\ pc[r] = "commit" /\ call[r].key = k
                /\ ledger'[k].order = OrderOf(r) /\ ledger'[k].after = wrote[r].profile
  BY <1>1, <1>2 DEF Commit, TypeOK
<1>3. ASSUME NEW j \in Keys, NEW i \in Imports, ImportOrder(j, i.order, i.figures)
      PROVE  \/ ledger'[k] = ledger[k]
             \/ ledger'[k] # None /\ ledger'[k].type # "order_cost_profile_saved"
  <2> DEFINE e == [type |-> "orders_imported", order |-> None, after |-> None]
  <2>1. e \in Event /\ e.type # "order_cost_profile_saved"
    BY DEF Event
  <2>2. e # None
    BY <2>1, NoneIsNoRow
  <2>3. ledger' = [ledger EXCEPT ![j] = e]
    BY <1>3 DEF ImportOrder
  <2> HIDE DEF e
  <2> QED
    BY <1>1, <2>1, <2>2, <2>3 DEF TypeOK
<1>4. CASE ledger' = ledger
  BY <1>4
<1>5. CASE ledger' # ledger
  <2>1. \/ \E r \in Requests : Commit(r)
        \/ \E j \in Keys, i \in Imports : ImportOrder(j, i.order, i.figures)
    BY <1>5 DEF Next, vars, tables, Send, Serve, GetOrder, FindByOperation, SaveFields,
       RecordOperation, ReadProfile, Deliver, Cut
  <2> QED
    BY <1>2, <1>3, <2>1
<1> QED
  BY <1>4, <1>5

\* The rows and the recorded saves stay what was computed.
LEMMA FiguresKeep ==
  ASSUME CostInv, FiguresInv, [Next]_vars
  PROVE  FiguresInv'
<1>1. TypeOK
  BY DEF CostInv
<1>2. ASSUME NEW q \in Requests PROVE Computed(q)'
  <2>1. SUFFICES ASSUME Holding(q)' 
                 PROVE  /\ call'[q].entered # Malformed
                        /\ wrote'[q].profile = ComputeBuyingCost(seen'[q], call'[q].entered)
    BY DEF Computed
  <2>2. CASE SaveFields(q)
    <3> DEFINE profile == ComputeBuyingCost(seen[q], call[q].entered)
    <3>1. call' = call /\ call[q].entered # Malformed
      BY <2>2 DEF SaveFields, CostInv, Standing
    <3>2. wrote'[q].profile = profile /\ seen'[q] = seen[q]
      BY <1>1, <2>1, <2>2 DEF SaveFields, Reply, Goto, Holding, TypeOK
    <3> QED
      BY <3>1, <3>2
  <2>3. CASE Holding(q) /\ seen'[q] = seen[q] /\ wrote'[q] = wrote[q]
    <3>1. call'[q] = call[q]
      BY <2>3, OneRequest DEF Holding
    <3> QED
      BY <2>3, <3>1 DEF FiguresInv, Computed
  <2> QED
    BY <2>1, <2>2, <2>3, OneRequest
<1>3. ASSUME NEW k \in Keys, ledger'[k] # None, ledger'[k].type = "order_cost_profile_saved"
      PROVE  \E r \in Requests, f \in Figures : Recorded(k, r, f)'
  <2>1. CASE ledger'[k] = ledger[k]
    <3>1. PICK r \in Requests, f \in Figures : Recorded(k, r, f)
      BY <1>3, <2>1 DEF FiguresInv
    <3>2. pc'[r] # "unsent" /\ call'[r] = call[r]
      BY <3>1, OneRequest DEF Recorded
    <3>3. Recorded(k, r, f)'
      BY <2>1, <3>1, <3>2 DEF Recorded, OrderOf
    <3> QED
      BY <3>3
  <2>2. ASSUME NEW r \in Requests, pc[r] = "commit", call[r].key = k,
               ledger'[k].order = OrderOf(r), ledger'[k].after = wrote[r].profile
        PROVE  \E f \in Figures : Recorded(k, r, f)'
    <3>1. Computed(r) /\ Holding(r) /\ call[r] \in Calls /\ seen[r] \in Figures
      BY <1>1, <2>2 DEF FiguresInv, Holding, CostInv, Standing, TypeOK
    <3>2. pc'[r] # "unsent" /\ call'[r] = call[r]
      BY <2>2, OneRequest
    <3>3. PICK f \in Figures : f = seen[r]
      BY <3>1
    <3>4. Recorded(k, r, f)'
      BY <2>2, <3>1, <3>2, <3>3 DEF Recorded, Computed, OrderOf
    <3> QED
      BY <3>4
  <2> QED
    BY <1>3, <2>1, <2>2, OneKey
<1> QED
  BY <1>2, <1>3 DEF FiguresInv

\* Every row is what a save computed from one reading of its order, in every
\* reachable state.
THEOREM FiguresInvHolds == Spec => [](CostInv /\ FiguresInv)
<1>1. Init => FiguresInv
  BY DEF Init, FiguresInv, Computed, Holding
<1>2. CostInv /\ FiguresInv /\ [Next]_vars => FiguresInv'
  BY FiguresKeep
<1> QED
  BY <1>1, <1>2, InitCost, NextKeeps, PTL DEF Spec

\* A stored total belongs to the unit cost, the quantity and the currency stored
\* beside it, however long the amount was and whatever imports made of the order
\* since; a known zero carries no more than half a cent for each unit and for the
\* sum.
THEOREM StoredFiguresBelong == Spec => []FiguresBelongTogether
<1>1. ASSUME CostInv, FiguresInv PROVE FiguresBelongTogether
  <2>1. TypeOK /\ TrailInv /\ ProfileIsLastSave
    BY <1>1 DEF CostInv
  <2>2. SUFFICES ASSUME NEW o \in Orders, profiles[o] # None
                 PROVE  LET p == profiles[o].profile
                        IN  /\ \E f \in Figures : f.quantity = p.quantity /\ f.currency = p.currency
                            /\ p.per_unit = None <=> p.total = None
                            /\ p.known_zero <=> p.per_unit = 0
                            /\ p.total # None =>
                                 \E r \in Requests :
                                   /\ call[r] # None /\ call[r].key = trail[Last(Saves(o))]
                                   /\ OrderOf(r) = o /\ call[r].entered \in Int
                                   /\ LET exact == call[r].entered * p.quantity
                                      IN  /\ p.per_unit = AsSettled(call[r].entered)
                                          /\ p.total = AsSettled(exact) \/ ~Fits(exact)
                                          /\ 2 * Magnitude(p.total - exact) <= SETTLED + ContextError(exact)
                                          /\ p.known_zero =>
                                               2 * Magnitude(p.total) <= SETTLED * (p.quantity + 1)
                                                                         + ContextError(exact)
    BY DEF FiguresBelongTogether
  <2> DEFINE k == trail[Last(Saves(o))]
             p == profiles[o].profile
  <2>3. Saves(o) # {}
    BY <2>1, <2>2 DEF ProfileIsLastSave
  <2>4. Last(Saves(o)) \in Saves(o)
    <3>1. PICK j \in Saves(o) : \A m \in Saves(o) : m <= j
      BY <2>1, <2>3 DEF TrailInv
    <3> QED
      BY <3>1 DEF Last
  <2>5. k \in Keys /\ ledger[k] # None /\ ledger[k].order = o
    BY <2>1, <2>4 DEF Saves, TypeOK, TrailInv
  <2>6. p = ledger[k].after
    BY <2>1, <2>2, <2>3 DEF ProfileIsLastSave, GetCostProfile
  <2>7. ledger[k].type = "order_cost_profile_saved"
    BY <2>1, <2>5, NoneIsNoRow DEF TrailInv
  <2> HIDE DEF k
  <2>8. PICK r \in Requests, f \in Figures : Recorded(k, r, f)
    BY <1>1, <2>5, <2>7 DEF FiguresInv
  <2>9. /\ call[r] \in Calls /\ call[r] # None /\ call[r].key = k /\ OrderOf(r) = o
        /\ p = ComputeBuyingCost(f, call[r].entered) /\ call[r].entered # Malformed
    <3>1. call[r] \in Calls /\ call[r] # None
      BY <2>8, NoneIsNoRow, TypedCalls DEF Recorded
    <3> QED
      BY <2>5, <2>6, <2>8, <3>1 DEF Recorded
  <2>10. Belongs(p, f, call[r].entered)
    BY <2>9, ComputedBelongs
  <2> HIDE DEF p
  <2> QED
    BY <2>8, <2>9, <2>10 DEF Belongs, k, p
<1> QED
  BY <1>1, FiguresInvHolds, PTL

--------------------------------------------------------------------------------
\* Money.quantize and ratio_to round to the nearest, half away from zero, at both
\* precisions of profit-v1 and for every amount and every ratio, negative ones
\* too; a ratio over zero is unavailable.
THEOREM RoundsToNearest ==
  /\ \A n \in Int : /\ NearestMultiple(AsSettled(n), n, SETTLED)
                    /\ NearestMultiple(AsEstimate(n), n, ESTIMATE)
  /\ \A n, d \in Int : IF d = 0 THEN RatioTo(n, d) = None
                       ELSE NearestMultiple(d * RatioTo(n, d), RATIO * n, d)
<1>0. ASSUME NEW e \in Nat \ {0}, NEW h \in Int
      PROVE  (e * h) % e = 0
  BY <1>0, SMTT(30)
<1>1. ASSUME NEW n \in Int, NEW d \in Nat \ {0}
      PROVE  NearestMultiple(d * HalfUp(n, d), n, d)
  <2> DEFINE h == HalfUp(n, d)
  <2>1. /\ h \in Int /\ 2 * Magnitude(n - d * h) <= d
        /\ 2 * Magnitude(n - d * h) = d => Magnitude(d * h) > Magnitude(n)
    BY HalfUpIsNearest
  <2> HIDE DEF h
  <2>2. Magnitude(d) = d
    BY DEF Magnitude
  <2>3. (d * h) % d = 0
    BY <1>0, <2>1
  <2>4. NearestMultiple(d * h, n, d)
    BY <2>1, <2>2, <2>3 DEF NearestMultiple
  <2> QED
    BY <2>4 DEF h
<1>2. ASSUME NEW n \in Int PROVE NearestMultiple(AsSettled(n), n, SETTLED)
  BY <1>1, SMTT(30) DEF AsSettled, Quantize, SETTLED
<1>3. ASSUME NEW n \in Int PROVE NearestMultiple(AsEstimate(n), n, ESTIMATE)
  BY <1>1 DEF AsEstimate, Quantize, ESTIMATE
<1>4. ASSUME NEW n \in Int, NEW d \in Int, d # 0
      PROVE  NearestMultiple(d * RatioTo(n, d), RATIO * n, d)
  <2>1. CASE d > 0
    <3>1. RATIO * n \in Int /\ d \in Nat \ {0}
      BY <2>1 DEF RATIO
    <3>2. RatioTo(n, d) = HalfUp(RATIO * n, d)
      BY <2>1 DEF RatioTo
    <3> QED
      BY <1>1, <3>1, <3>2
  <2>2. CASE d < 0
    <3> DEFINE e == -d
               m == RATIO * (-n)
               h == HalfUp(m, e)
    <3>1. m \in Int /\ e \in Nat \ {0} /\ RATIO * n = -m /\ d = -e
      BY <2>2 DEF RATIO
    <3>2. RatioTo(n, d) = h
      BY <2>2 DEF RatioTo
    <3>3. h \in Int /\ NearestMultiple(e * h, m, e)
      <4> HIDE DEF m, e
      <4> QED
        BY <1>1, <3>1, HalfUpIsNearest
    <3> HIDE DEF m, e, h
    <3>4. PICK t \in Int : t = e * h
      BY <3>1, <3>3
    <3>5. d * h = -t /\ (-t) % e = 0
      <4>1. -t = e * (-h) /\ -h \in Int
        BY <3>1, <3>3, <3>4
      <4>2. (e * (-h)) % e = 0
        BY <1>0, <3>1, <4>1
      <4>3. d * h = -t
        BY <3>1, <3>3, <3>4
      <4> QED
        BY <4>1, <4>2, <4>3
    <3>6. 2 * Magnitude(m - t) <= Magnitude(e)
          /\ (2 * Magnitude(m - t) = Magnitude(e) => Magnitude(t) > Magnitude(m))
      BY <3>3, <3>4 DEF NearestMultiple
    <3>7. Magnitude(-m - -t) = Magnitude(m - t) /\ Magnitude(-t) = Magnitude(t)
          /\ Magnitude(-m) = Magnitude(m) /\ Magnitude(d) = e /\ Magnitude(e) = e
      BY <3>1, <3>4 DEF Magnitude
    <3>8. NearestMultiple(-t, -m, d)
      BY <3>1, <3>5, <3>6, <3>7 DEF NearestMultiple
    <3> QED
      BY <3>1, <3>2, <3>5, <3>8
  <2> QED
    BY <1>4, <2>1, <2>2
<1>5. \A n \in Int : RatioTo(n, 0) = None
  BY DEF RatioTo
<1> QED
  BY <1>2, <1>3, <1>4, <1>5

\* The running sums of total: each is the one before and the next item.
Running(sum, items, currency) ==
  sum = [i \in 0 .. Len(items) |->
           IF i = 0 THEN [amount |-> 0, currency |-> currency] ELSE Add(sum[i - 1], items[i])]

\* Every sequence has running sums, so that the recursion of total means something:
\* the shortest prefix without them would have those of the prefix before and one
\* more.
LEMMA TotalsAreRunning ==
  ASSUME NEW items, Len(items) \in Nat, NEW currency
  PROVE  \E sum : Running(sum, items, currency) /\ Total(items, currency) = sum[Len(items)]
<1> DEFINE zero == [amount |-> 0, currency |-> currency]
           Upto(n, g) == g = [i \in 0 .. n |-> IF i = 0 THEN zero ELSE Add(g[i - 1], items[i])]
           Without == {n \in Nat : ~ \E g : Upto(n, g)}
<1>1. Upto(0, [i \in 0 .. 0 |-> zero])
  OBVIOUS
<1>2. ASSUME NEW n \in Nat, NEW g, Upto(n, g)
      PROVE  \E h : Upto(n + 1, h)
  <2> DEFINE h == [i \in 0 .. n + 1 |-> IF i <= n THEN g[i] ELSE Add(g[n], items[n + 1])]
  <2>1. \A i \in 0 .. n : h[i] = g[i]
    OBVIOUS
  <2>2. ASSUME NEW i \in 0 .. n + 1
        PROVE  h[i] = IF i = 0 THEN zero ELSE Add(h[i - 1], items[i])
    <3>1. CASE i = 0
      <4>1. h[0] = g[0] /\ g[0] = zero
        BY <1>2, <2>1
      <4> QED
        BY <3>1, <4>1
    <3>2. CASE i # 0 /\ i <= n
      <4>1. i \in 0 .. n /\ i - 1 \in 0 .. n
        BY <3>2
      <4>2. h[i] = g[i] /\ h[i - 1] = g[i - 1]
        BY <2>1, <4>1
      <4> HIDE DEF h
      <4>3. g[i] = Add(g[i - 1], items[i])
        BY <1>2, <3>2, <4>1
      <4> QED
        BY <3>2, <4>2, <4>3
    <3>3. CASE i = n + 1
      <4>1. h[n + 1] = Add(g[n], items[n + 1]) /\ h[n] = g[n] /\ i - 1 = n /\ i # 0
        BY <2>1, <3>3
      <4> HIDE DEF h
      <4> QED
        BY <3>3, <4>1
    <3> QED
      BY <3>1, <3>2, <3>3
  <2>3. h = [i \in 0 .. n + 1 |-> h[i]]
    OBVIOUS
  <2> HIDE DEF h
  <2>4. Upto(n + 1, h)
    BY <2>2, <2>3
  <2> QED
    BY <2>4
<1> HIDE DEF Upto
<1>3. Without = {}
  <2>1. SUFFICES ASSUME Without # {} PROVE FALSE
    OBVIOUS
  <2>2. PICK n \in Without : \A m \in Without : n <= m
    BY <2>1, LeastOf
  <2>3. n # 0
    BY <1>1
  <2>4. n - 1 \in Nat /\ n - 1 \notin Without /\ (n - 1) + 1 = n
    BY <2>2, <2>3
  <2>5. PICK g : Upto(n - 1, g)
    BY <2>4
  <2>6. \E h : Upto(n, h)
    BY <1>2, <2>4, <2>5
  <2> QED
    BY <2>6
<1>4. PICK g : Upto(Len(items), g)
  BY <1>3
<1> DEFINE sum == CHOOSE f : Running(f, items, currency)
<1>5. Running(g, items, currency)
  BY <1>4 DEF Upto, Running
<1>6. Running(sum, items, currency)
  BY <1>5
<1>7. Total(items, currency) = sum[Len(items)]
  BY DEF Total, Running
<1> QED
  BY <1>6, <1>7

\* total never mixes currencies: one missing amount, or one in another currency
\* than the one asked for, makes the whole total unavailable.  Otherwise it is the
\* exact sum of all its items, as long as no running sum is longer than the
\* decimal context keeps.
THEOREM TotalsAreSums ==
  ASSUME NEW items \in Seq(MoneyValue \cup {None}), NEW currency \in STRING
  PROVE  /\ (\E i \in DOMAIN items : items[i] = None \/ items[i].currency # currency)
              => Total(items, currency) = None
         /\ \A exact \in [0 .. Len(items) -> Int] :
              /\ \A i \in DOMAIN items : items[i] # None /\ items[i].currency = currency
              /\ exact[0] = 0
              /\ \A i \in DOMAIN items : exact[i] = exact[i - 1] + items[i].amount /\ Fits(exact[i])
              => Total(items, currency) = [amount |-> exact[Len(items)], currency |-> currency]
<1>1. Len(items) \in Nat /\ DOMAIN items = 1 .. Len(items)
  OBVIOUS
<1>2. PICK sum : Running(sum, items, currency) /\ Total(items, currency) = sum[Len(items)]
  BY <1>1, TotalsAreRunning
<1>3. /\ sum[0] = [amount |-> 0, currency |-> currency]
      /\ \A i \in 1 .. Len(items) : sum[i] = Add(sum[i - 1], items[i])
  BY <1>1, <1>2 DEF Running
<1>4. ASSUME NEW bad \in DOMAIN items, items[bad] = None \/ items[bad].currency # currency
      PROVE  Total(items, currency) = None
  <2> DEFINE Mixed == {n \in Nat : n <= Len(items) /\ sum[n] # None
                                     /\ (sum[n].currency # currency \/ bad <= n)}
  <2>1. Mixed = {}
    <3>1. SUFFICES ASSUME Mixed # {} PROVE FALSE
      OBVIOUS
    <3>2. PICK n \in Mixed : \A m \in Mixed : n <= m
      BY <3>1, LeastOf
    <3>3. n # 0
      BY <1>1, <1>3
    <3>4. n \in 1 .. Len(items) /\ n - 1 \in Nat /\ n - 1 <= Len(items) /\ n - 1 \notin Mixed
      BY <1>1, <3>2, <3>3
    <3>5. sum[n] = Add(sum[n - 1], items[n]) /\ sum[n] # None
      BY <1>3, <3>4
    <3>6. /\ sum[n - 1] # None /\ items[n] # None
          /\ sum[n - 1].currency = items[n].currency
          /\ sum[n].currency = sum[n - 1].currency
      BY <3>5 DEF Add
    <3>7. sum[n - 1].currency = currency /\ ~(bad <= n - 1)
      BY <3>4, <3>6
    <3>8. bad = n
      BY <1>1, <3>2, <3>4, <3>6, <3>7
    <3> QED
      BY <1>4, <3>6, <3>7, <3>8
  <2>2. Len(items) \notin Mixed /\ bad <= Len(items)
    BY <1>1, <2>1
  <2> QED
    BY <1>1, <1>2, <2>2
<1>5. ASSUME NEW exact \in [0 .. Len(items) -> Int], exact[0] = 0,
             \A i \in DOMAIN items : items[i] # None /\ items[i].currency = currency,
             \A i \in DOMAIN items : exact[i] = exact[i - 1] + items[i].amount /\ Fits(exact[i])
      PROVE  Total(items, currency) = [amount |-> exact[Len(items)], currency |-> currency]
  <2> DEFINE Exactly(n) == [amount |-> exact[n], currency |-> currency]
             Off == {n \in Nat : n <= Len(items) /\ sum[n] # Exactly(n)}
  <2>1. Off = {}
    <3>1. SUFFICES ASSUME Off # {} PROVE FALSE
      OBVIOUS
    <3>2. PICK n \in Off : \A m \in Off : n <= m
      BY <3>1, LeastOf
    <3>3. n # 0
      BY <1>3, <1>5
    <3>4. n \in 1 .. Len(items) /\ n - 1 \in 0 .. Len(items) /\ n - 1 \notin Off /\ n \in DOMAIN items
      BY <1>1, <3>2, <3>3
    <3>5. sum[n - 1] = Exactly(n - 1) /\ sum[n] = Add(Exactly(n - 1), items[n])
      BY <1>3, <3>4
    <3>6. /\ items[n] \in MoneyValue /\ items[n] # None /\ items[n].currency = currency
          /\ exact[n] = exact[n - 1] + items[n].amount /\ Fits(exact[n])
      BY <1>5, <3>4
    <3>7. Exactly(n - 1) \in MoneyValue
      BY <1>5, <3>4 DEF MoneyValue
    <3>8. Exactly(n - 1) # None
      BY <3>7, DigitsArePositive
    <3>9. Add(Exactly(n - 1), items[n]) =
            [amount |-> InContext(exact[n - 1] + items[n].amount), currency |-> currency]
      BY <3>6, <3>8 DEF Add
    <3>10. InContext(exact[n - 1] + items[n].amount) = exact[n]
      BY <3>6 DEF InContext
    <3> QED
      BY <3>2, <3>5, <3>9, <3>10
  <2>2. Len(items) \notin Off
    BY <2>1
  <2> QED
    BY <1>1, <1>2, <2>2
<1> QED
  BY <1>4, <1>5

\* The laws of money hold of all the amounts and all the values whatever: no
\* request is needed, and no bound.
THEOREM MoneyKeepsItsLaws == Spec => []MoneyLaws
<1>1. \A n \in Amounts : /\ NearestMultiple(AsSettled(n), n, SETTLED)
                         /\ NearestMultiple(AsEstimate(n), n, ESTIMATE)
  BY RoundsToNearest, CostingConstants
<1>2. ASSUME NEW a \in Sums, NEW b \in Sums
      PROVE  IF b.amount = 0 THEN RatioTo(a.amount, b.amount) = None
             ELSE NearestMultiple(b.amount * RatioTo(a.amount, b.amount), RATIO * a.amount, b.amount)
  <2>1. a.amount \in Int /\ b.amount \in Int
    BY CostingConstants DEF MoneyValue
  <2> QED
    BY <2>1, RoundsToNearest
<1>3. ASSUME NEW a \in Sums, NEW b \in Sums, NEW c \in Sums, NEW d \in Sums
      PROVE  LET sum == Total(<<a, b, c>>, d.currency)
             IN  IF {a.currency, b.currency, c.currency} # {d.currency} THEN sum = None
                 ELSE Fits(a.amount) /\ Fits(a.amount + b.amount)
                      /\ Fits(a.amount + b.amount + c.amount)
                      => sum = [amount |-> a.amount + b.amount + c.amount, currency |-> d.currency]
  <2> DEFINE items == <<a, b, c>>
             exact == [i \in 0 .. 3 |-> IF i = 0 THEN 0 ELSE IF i = 1 THEN a.amount
                         ELSE IF i = 2 THEN a.amount + b.amount ELSE a.amount + b.amount + c.amount]
             cur == d.currency
  <2>1. /\ a \in MoneyValue /\ b \in MoneyValue /\ c \in MoneyValue /\ d \in MoneyValue
        /\ a # None /\ b # None /\ c # None
    BY CostingConstants, DigitsArePositive
  <2>2. a.amount \in Int /\ b.amount \in Int /\ c.amount \in Int /\ cur \in STRING
    BY <2>1 DEF MoneyValue
  <2>3. items \in Seq(MoneyValue \cup {None}) /\ Len(items) = 3 /\ DOMAIN items = 1 .. 3
        /\ items[1] = a /\ items[2] = b /\ items[3] = c
    BY <2>1
  <2>4. /\ exact \in [0 .. 3 -> Int] /\ exact[0] = 0 /\ exact[1] = a.amount
        /\ exact[2] = a.amount + b.amount /\ exact[3] = a.amount + b.amount + c.amount
    BY <2>2
  <2> HIDE DEF items, exact, cur
  <2>5. (\E i \in DOMAIN items : items[i] = None \/ items[i].currency # cur)
           => Total(items, cur) = None
    BY <2>2, <2>3, TotalsAreSums
  <2>6. /\ \A i \in DOMAIN items : items[i] # None /\ items[i].currency = cur
        /\ exact[0] = 0
        /\ \A i \in DOMAIN items : exact[i] = exact[i - 1] + items[i].amount /\ Fits(exact[i])
        => Total(items, cur) = [amount |-> exact[Len(items)], currency |-> cur]
    BY <2>2, <2>3, <2>4, TotalsAreSums
  <2>7. CASE {a.currency, b.currency, c.currency} # {cur}
    <3>1. Total(items, cur) = None
      BY <2>3, <2>5, <2>7
    <3> QED
      BY <2>7, <3>1 DEF items, cur
  <2>8. CASE {a.currency, b.currency, c.currency} = {cur}
    <3>1. SUFFICES ASSUME Fits(a.amount), Fits(a.amount + b.amount),
                          Fits(a.amount + b.amount + c.amount)
                   PROVE  Total(items, cur) =
                            [amount |-> a.amount + b.amount + c.amount, currency |-> cur]
      BY <2>8 DEF items, cur
    <3>2. a.currency = cur /\ b.currency = cur /\ c.currency = cur
      BY <2>8
    <3>3. ASSUME NEW i \in 1 .. 3
          PROVE  items[i] # None /\ items[i].currency = cur
      <4>1. i = 1 \/ i = 2 \/ i = 3
        OBVIOUS
      <4> QED
        BY <2>1, <2>3, <3>2, <4>1
    <3>4. ASSUME NEW i \in 1 .. 3
          PROVE  exact[i] = exact[i - 1] + items[i].amount /\ Fits(exact[i])
      <4>1. CASE i = 1
        BY <2>2, <2>3, <2>4, <3>1, <4>1
      <4>2. CASE i = 2
        BY <2>2, <2>3, <2>4, <3>1, <4>2
      <4>3. CASE i = 3
        BY <2>2, <2>3, <2>4, <3>1, <4>3
      <4> QED
        BY <4>1, <4>2, <4>3
    <3> QED
      BY <2>3, <2>4, <2>6, <3>3, <3>4
  <2> QED
    BY <2>7, <2>8 DEF cur
<1>4. MoneyLaws
  BY <1>1, <1>2, <1>3 DEF MoneyLaws
<1> QED
  BY <1>4, PTL
================================================================================
