---------------------------- MODULE OperationLedger ----------------------------
(***************************************************************************)
(* What audit.py promises of operation_id: a write whose outcome is        *)
(* unknown can be sent again under the same id and takes effect once, and  *)
(* whoever is told its outcome is told the original one.                   *)
(***************************************************************************)
CONSTANTS Callers, Keys, Outcomes, Effects, None

VARIABLES
  recorded,   \* the outcome recorded under each key, None before
  effects,    \* the lasting effects of the operations sent under each key
  told        \* what each caller was told: a key and its outcome

ledgerVars == <<recorded, effects, told>>

Init ==
  /\ recorded = [k \in Keys |-> None]
  /\ effects = [k \in Keys |-> {}]
  /\ told = [c \in Callers |-> None]

\* The operation takes effect and its outcome is recorded, in one step and
\* under a key that was never used.  It leaves at most one effect behind.
Perform(k) ==
  /\ recorded[k] = None
  /\ recorded'[k] \in Outcomes
  /\ recorded' = [recorded EXCEPT ![k] = recorded'[k]]
  /\ effects'[k] \subseteq Effects
  /\ \A d, e \in effects'[k] : d = e
  /\ effects' = [effects EXCEPT ![k] = effects'[k]]
  /\ UNCHANGED told

\* A caller is told what is recorded under its key.
Tell(c, k) ==
  /\ recorded[k] # None
  /\ told[c] = None
  /\ told' = [told EXCEPT ![c] = [key |-> k, outcome |-> recorded[k]]]
  /\ UNCHANGED <<recorded, effects>>

Next ==
  \/ \E k \in Keys : Perform(k)
  \/ \E c \in Callers, k \in Keys : Tell(c, k)

Spec == Init /\ [][Next]_ledgerVars
================================================================================
