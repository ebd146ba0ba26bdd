--------------------------------- MODULE MCTeam ---------------------------------
(* Instances of Team for TLC. *)
EXTENDS Team, TLC

CONSTANTS r1, r2, r3, k1, k2, k3, u1, u2, s1, s2

Symmetry == Permutations(Requests) \cup Permutations(Keys)
================================================================================
