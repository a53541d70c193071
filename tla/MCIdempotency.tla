--------------------------- MODULE MCIdempotency ---------------------------
(***************************************************************************)
(* Requests that share a key with equal and with different bodies.  Three  *)
(* of them are the fewest that show an owner, the one that took over from  *)
(* it, and a bystander.                                                    *)
(***************************************************************************)
EXTENDS Idempotency, TLC

CONSTANTS kt, kf, r1, r2, r3

Symmetry == Permutations(Requests)
=============================================================================
