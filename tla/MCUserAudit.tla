------------------------------ MODULE MCUserAudit ------------------------------
(* A finite instance of UserAudit: two clients of a pool and two rows.         *)
EXTENDS UserAudit, TLC

CONSTANTS s1, s2, u1, u2, r1, r2

Interchangeable ==
    Permutations({s1, s2}) \cup Permutations({u1, u2}) \cup Permutations({r1, r2})
=============================================================================
