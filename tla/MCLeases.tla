------------------------------ MODULE MCLeases ------------------------------
(* Two attempts that contend for claims. *)
EXTENDS Leases, TLC

CONSTANTS a1, a2

\* Both attempts use both claims.
SameClaims == a1 :> {1, 2} @@ a2 :> {1, 2}

AttemptSymmetry == Permutations({a1, a2})
=============================================================================
