------------------------------ MODULE MCOutbox ------------------------------
(***************************************************************************)
(* Two workers and two events: enough for a batch with something left in   *)
(* it, and for a worker that lost its lease to meet the one that took over. *)
(***************************************************************************)
EXTENDS Outbox, TLC

CONSTANTS w1, w2

Symmetry == Permutations(Workers)
=============================================================================
