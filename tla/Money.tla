---------------------------------- MODULE Money ----------------------------------
(***************************************************************************)
(* The arithmetic of money.py.  An amount is a whole number of             *)
(* hundred-thousandths, finer than both precisions of profit-v1.  What     *)
(* Python's decimal context does to a result that is longer than it keeps  *)
(* is part of every operation; construction from text is exact.            *)
(***************************************************************************)
EXTENDS Integers, Sequences

CONSTANTS
  ContextDigits,  \* significant digits a decimal operation keeps (28)
  MostDigits,     \* bound on the digits of an amount
  None            \* Python None, and the result of an operation that raises

MoneyValue == [amount : Int, currency : STRING]

ASSUME DigitsArePositive ==
  /\ ContextDigits \in Nat \ {0} /\ MostDigits \in Nat /\ ContextDigits <= MostDigits
  /\ None \notin Int \cup MoneyValue

\* A fact of arithmetic: powers of ten are whole and multiply.  The provers know
\* nothing of ^, so it is said here, where TLC evaluates it.
ASSUME PowersOfTen ==
  \A a, b \in 0 .. MostDigits :
    10 ^ a \in Nat \ {0} /\ (a + b <= MostDigits => 10 ^ (a + b) = 10 ^ a * 10 ^ b)

SETTLED == 1000
ESTIMATE == 10
RATIO == 10000        \* a ratio is a whole number of ten-thousandths

Magnitude(n) == IF n < 0 THEN -n ELSE n

\* n / d to the nearest integer, ties to the even neighbour: how the decimal
\* context rounds.
BankersQuotient(n, d) ==
  LET q == n \div d
      twice == 2 * (n - q * d)
  IN  IF twice > d \/ (twice = d /\ q % 2 = 1) THEN q + 1 ELSE q

\* n / d to the nearest integer, ties away from zero (ROUND_HALF_UP).
HalfUp(n, d) ==
  IF n < 0 THEN -((2 * (-n) + d) \div (2 * d)) ELSE (2 * n + d) \div (2 * d)

\* Money.quantize: the nearest multiple of a precision.  (A result too long for
\* the context raises; every column is shorter than that.)
Quantize(n, precision) == precision * HalfUp(n, precision)
AsSettled(n) == Quantize(n, SETTLED)
AsEstimate(n) == Quantize(n, ESTIMATE)

\* The decimal context: a result longer than ContextDigits is rounded there,
\* ties to the even neighbour.
Fits(n) == Magnitude(n) < 10 ^ ContextDigits
InContext(n) ==
  IF Fits(n) THEN n
  ELSE LET d == CHOOSE d \in ContextDigits .. MostDigits :
                  10 ^ d <= Magnitude(n) /\ Magnitude(n) < 10 ^ (d + 1)
           unit == 10 ^ (d + 1 - ContextDigits)
       IN  unit * BankersQuotient(n, unit)

Times(n, factor) == InContext(n * factor)

\* Two Money values combine only in one currency.
Add(a, b) ==
  IF a = None \/ b = None THEN None
  ELSE IF a.currency # b.currency THEN None
  ELSE [amount |-> InContext(a.amount + b.amount), currency |-> a.currency]

\* total: a running sum from a zero of the currency asked for.
Total(items, currency) ==
  LET sum[i \in 0 .. Len(items)] ==
        IF i = 0 THEN [amount |-> 0, currency |-> currency] ELSE Add(sum[i - 1], items[i])
  IN  sum[Len(items)]

\* ratio_to for two amounts in one currency, the last digits of a quotient that
\* does not end left out.
RatioTo(n, d) ==
  IF d = 0 THEN None
  ELSE IF d < 0 THEN HalfUp(RATIO * (-n), -d) ELSE HalfUp(RATIO * n, d)
================================================================================
