---------------------------- MODULE MCWebClient ----------------------------
(***************************************************************************)
(* An instance of the web client for TLC.                                  *)
(***************************************************************************)
EXTENDS WebClient, TLC

CONSTANTS a1, a2, a3, k1, k2, m1, u1

\* The attempts are interchangeable, and so are the customer's keys.
Symmetry == Permutations(Attempts) \cup Permutations(ApiKeys)
=============================================================================
