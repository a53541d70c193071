----------------------------- MODULE WebClient -----------------------------
(***************************************************************************)
(* The web client: its two payment forms, who its tab says it is, what its *)
(* pages load, and the administrator's page.  Its parts share no variable, *)
(* so no interleaving of two of them shows what one alone does not: part   *)
(* says which one moves, and the others stay where they begin.             *)
(***************************************************************************)
EXTENDS PaymentForm, WebSession, Loader, AccountHistory, Onboarding

VARIABLE part

vars == <<part, formVars, sessionVars, loaderVars, historyVars, onboardingVars>>

Parts == Forms \cup {"session", "views", "history", "onboarding"}

Init ==
  /\ part \in Parts
  /\ FormInit /\ SessionInit /\ LoaderInit /\ OnboardingInit
  /\ HistoryInit /\ (part # "history" => count = 0)

Next ==
  /\ UNCHANGED part
  /\ \/ part \in Forms /\ FormNext(part)
     \/ part \notin Forms /\ UNCHANGED formVars
  /\ \/ part = "session" /\ SessionNext
     \/ part # "session" /\ UNCHANGED sessionVars
  /\ \/ part = "views" /\ LoaderNext
     \/ part # "views" /\ UNCHANGED loaderVars
  /\ \/ part = "history" /\ HistoryNext
     \/ part # "history" /\ UNCHANGED historyVars
  /\ \/ part = "onboarding" /\ OnboardingNext
     \/ part # "onboarding" /\ UNCHANGED onboardingVars

Spec == Init /\ [][Next]_vars

----------------------------------------------------------------------------
\* Every variable of the web client has its type, whatever is lost or late.
TypeOK ==
  FormTypeOK /\ SessionTypeOK /\ LoaderTypeOK /\ HistoryTypeOK /\ OnboardingTypeOK
=============================================================================
