---------------------------------- MODULE MCAccess ----------------------------------
(* Instances of Access for TLC. *)
EXTENDS Access, TLC

CONSTANTS r1, r2, r3, u1, u2

In(email, password, code) ==
  [op |-> "sign_in", email |-> email, password |-> password, code |-> code]

\* A wrong password, each answer to the second factor, an unknown email.
Attempts == {In(u1, FALSE, "missing"), In(u1, TRUE, "missing"), In(u1, TRUE, "wrong"),
             In(u1, TRUE, "right"), In(None, FALSE, "missing")}

\* One way in, then visits of both kinds and sign-outs of any token.
OneSession == {In(u2, TRUE, "missing")} \cup
  [op : {"api", "page", "sign_out"}, token : Requests] \cup {[op |-> "page", token |-> None]}

AllCalls == Attempts \cup OneSession

Trying(r) == call[r] \in Attempts
\* What is explored: nothing happens before the first call; either every request
\* attempts the first account, and the clock passes one lock, or the second
\* account has a session and the clock passes both timeouts.
TwoScenarios ==
  LET sent == {r \in Requests : call[r] # None}
  IN  IF sent = {} THEN now = 0 /\ \A u \in Users : accounts[u].active
      ELSE IF \E r \in sent : Trying(r)
      THEN (\A r \in sent : Trying(r)) /\ now <= 1 /\ accounts[u2].active
      ELSE accounts[u1].active

Symmetry == Permutations(Requests)
================================================================================
