----------------------------- MODULE OneResult -----------------------------
(***************************************************************************)
(* What an idempotency key promises: until it is forgotten it has at most  *)
(* one result, decided in one step together with the money it stands for,  *)
(* and never changed.  Idempotency is shown to implement this.             *)
(***************************************************************************)
EXTENDS FiniteSets

CONSTANTS Keys, Requests, NoResult

VARIABLES
  result,   \* [Keys -> Results \cup {NoResult}]
  charged   \* [Keys -> SUBSET Requests], payments made since the key was free

vars == <<result, charged>>

Results == [kind : {"created", "refused"}, by : Requests]

Init ==
  /\ result = [k \in Keys |-> NoResult]
  /\ charged = [k \in Keys |-> {}]

\* The money and the result that reports it come into being together.
DecideCreated(k, r) ==
  /\ result[k] = NoResult
  /\ charged[k] = {}
  /\ result' = [result EXCEPT ![k] = [kind |-> "created", by |-> r]]
  /\ charged' = [charged EXCEPT ![k] = {r}]

DecideRefused(k, r) ==
  /\ result[k] = NoResult
  /\ charged[k] = {}
  /\ result' = [result EXCEPT ![k] = [kind |-> "refused", by |-> r]]
  /\ UNCHANGED charged

\* Retention: an old result is no longer owed to anyone.
Forget(k) ==
  /\ result[k] # NoResult
  /\ result' = [result EXCEPT ![k] = NoResult]
  /\ charged' = [charged EXCEPT ![k] = {}]

Next ==
  \E k \in Keys :
    \/ \E r \in Requests : DecideCreated(k, r) \/ DecideRefused(k, r)
    \/ Forget(k)

Spec == Init /\ [][Next]_vars
=============================================================================
