----------------------------- MODULE Onboarding -----------------------------
(***************************************************************************)
(* The administrator's page beside the tables it fills: onboarding makes a *)
(* customer and then a key in two requests, a card offers another key for  *)
(* its customer while others are still under way, and a panel revokes.     *)
(* None of these requests carries an idempotency key; each may be refused, *)
(* or take effect and lose its answer.  The page may also be left while    *)
(* they are under way: by a link, by "Open customer app as", by signing    *)
(* out, by a 401 elsewhere, or by a reload.  The cards are gone then; the  *)
(* requests go on, and nothing reads their answers.                        *)
(***************************************************************************)
EXTENDS Integers, FiniteSets

CONSTANTS
  MaxCustomers, \* bound on the rows of principals
  MaxIssued,    \* bound on the rows of api_keys
  MaxRequested, \* bound on the onboardings and requests for another key under way
  MaxFailures,  \* bound on the failures the page is told of
  MaxAbandoned  \* bound on the requests under way when their page was left

ASSUME OnboardingAssumption ==
  {MaxCustomers, MaxIssued, MaxRequested, MaxFailures, MaxAbandoned} \subseteq Nat

VARIABLES
  customers, \* how many principals there are, numbered from 1
  owner,     \* [keys issued -> their customer]
  revoked,   \* keys revoked
  entry,     \* the onboarding form: [id, at, customer, key, showing]
  requested, \* requests for another key under way: [id, customer, key, showing]
  issued,    \* the cards on the page: [customer, key]
  told,      \* keys whose answer reached the page it was meant for
  failures,  \* answers that were lost or refusals, of which the page was told
  panel,     \* the revocation panel: [at, sent, done]
  adrift,    \* requests of pages that were left: [id, customer]
  revoking,  \* keys that revocations by pages that were left will revoke
  past,      \* keys whose card was on a page that was left
  abandoned  \* how many requests were under way when their page was left

onPage == <<entry, requested, issued, told, failures>>

tables == <<customers, owner, revoked>>

left == <<adrift, revoking, past, abandoned>>

onboardingVars == <<tables, onPage, panel, left>>

Nobody == 0

Idle == [id |-> 0, at |-> "idle", customer |-> Nobody, key |-> Nobody, showing |-> {}]

Panel == [at |-> "idle", sent |-> Nobody, done |-> Nobody]

OnboardingInit ==
  /\ customers = 0 /\ owner = <<>> /\ revoked = {}
  /\ entry = Idle /\ requested = {} /\ issued = {} /\ told = {} /\ failures = 0
  /\ panel = Panel
  /\ adrift = {} /\ revoking = {} /\ past = {} /\ abandoned = 0

IssuedKeys == DOMAIN owner

\* Requests are told apart by a number, the least that is free.
FreeIds == (1..MaxRequested) \ ({entry.id} \cup {r.id : r \in requested} \cup {o.id : o \in adrift})

LeastFree(i) == i \in FreeIds /\ \A j \in FreeIds : i <= j

\* The onboardings and requests for another key that the page waits for.
UnderWay == (IF entry.at = "idle" THEN 0 ELSE 1) + Cardinality(requested)

Failed == failures < MaxFailures /\ failures' = failures + 1

----------------------------------------------------------------------------
(* the server *)

NextKey == Cardinality(IssuedKeys) + 1

InsertKey(c) == owner' = [k \in 1..NextKey |-> IF k = NextKey THEN c ELSE owner[k]]

Found(k) == k \in IssuedKeys

----------------------------------------------------------------------------
(* onboard *)

Onboard ==
  /\ entry.at = "idle" /\ customers < MaxCustomers
  /\ \E i \in 1..MaxRequested :
       /\ LeastFree(i)
       /\ entry' = [Idle EXCEPT !.id = i, !.at = "creating", !.showing = issued]
  /\ UNCHANGED <<tables, requested, issued, told, failures, panel, left>>

CustomerCreated ==
  /\ entry.at = "creating" /\ customers < MaxCustomers
  /\ customers' = customers + 1
  /\ entry' = [entry EXCEPT !.at = "created", !.customer = customers + 1]
  /\ UNCHANGED <<owner, revoked, requested, issued, told, failures, panel, left>>

\* The answer arrives, and the page asks for the key.
AskKey ==
  /\ entry.at = "created"
  /\ entry' = [entry EXCEPT !.at = "issuing"]
  /\ UNCHANGED <<tables, requested, issued, told, failures, panel, left>>

KeyCreated ==
  /\ entry.at = "issuing" /\ NextKey <= MaxIssued
  /\ InsertKey(entry.customer)
  /\ entry' = [entry EXCEPT !.at = "issued", !.key = NextKey]
  /\ UNCHANGED <<customers, revoked, requested, issued, told, failures, panel, left>>

\* Mutant: the list of cards as it was when the form was sent.
WithSince(cards, card, showing) == showing \cup {card}

\* setIssued with the list as it is by now.
With(cards, card, showing) == cards \cup {card}

Card(r) == [customer |-> r.customer, key |-> r.key]

Onboarded ==
  /\ entry.at = "issued"
  /\ issued' = With(issued, Card(entry), entry.showing)
  /\ told' = told \cup {entry.key}
  /\ entry' = Idle
  /\ UNCHANGED <<tables, requested, failures, panel, left>>

\* Refused, failed, or the answer lost, at either request: the banner.
OnboardFails ==
  /\ entry.at # "idle"
  /\ entry' = Idle
  /\ Failed
  /\ UNCHANGED <<tables, requested, issued, told, panel, left>>

----------------------------------------------------------------------------
(* issueAnother: its button stays enabled *)

AskAnother(card) ==
  /\ NextKey <= MaxIssued
  /\ \E i \in 1..MaxRequested :
       /\ LeastFree(i)
       /\ requested' = requested \cup
            {[id |-> i, customer |-> card.customer, key |-> Nobody, showing |-> issued]}
  /\ UNCHANGED <<tables, entry, issued, told, failures, panel, left>>

OwnerAskedFor(r) == r.customer

AnotherCreated(r) ==
  /\ r.key = Nobody /\ NextKey <= MaxIssued
  /\ InsertKey(OwnerAskedFor(r))
  /\ requested' = (requested \ {r}) \cup {[r EXCEPT !.key = NextKey]}
  /\ UNCHANGED <<customers, revoked, entry, issued, told, failures, panel, left>>

AnotherIssued(r) ==
  /\ r.key # Nobody
  /\ issued' = With(issued, Card(r), r.showing)
  /\ told' = told \cup {r.key}
  /\ requested' = requested \ {r}
  /\ UNCHANGED <<tables, entry, failures, panel, left>>

AnotherFails(r) ==
  /\ requested' = requested \ {r}
  /\ Failed
  /\ UNCHANGED <<tables, entry, issued, told, panel, left>>

----------------------------------------------------------------------------
(* revoke *)

\* The field holds the id of k by then; what is typed later changes nothing.
AskRevocation(k) ==
  /\ panel.at = "idle"
  /\ panel' = [at |-> "sent", sent |-> k, done |-> Nobody]
  /\ UNCHANGED <<tables, entry, requested, issued, told, failures, left>>

ServerRevokes ==
  /\ panel.at = "sent"
  /\ IF Found(panel.sent)
     THEN revoked' = revoked \cup {panel.sent} /\ panel' = [panel EXCEPT !.at = "revoked"]
     ELSE panel' = [panel EXCEPT !.at = "unknown"] /\ UNCHANGED revoked
  /\ UNCHANGED <<customers, owner, entry, requested, issued, told, failures, left>>

Revoked ==
  /\ panel.at = "revoked"
  /\ panel' = [panel EXCEPT !.at = "idle", !.sent = Nobody, !.done = panel.sent]
  /\ UNCHANGED <<tables, entry, requested, issued, told, failures, left>>

\* The banner: 404 for a key that is not there, or no answer at all.
RevokeFails ==
  /\ panel.at # "idle"
  /\ panel' = [panel EXCEPT !.at = "idle", !.sent = Nobody]
  /\ UNCHANGED <<tables, entry, requested, issued, told, failures, left>>

----------------------------------------------------------------------------
(* the page is left *)

\* What is not decided yet of the requests the page waits for.
Undecided ==
  (IF entry.at \in {"idle", "issued"} THEN {} ELSE {[id |-> entry.id, customer |-> entry.customer]})
    \cup {[id |-> r.id, customer |-> r.customer] : r \in {q \in requested : q.key = Nobody}}

\* Admin is unmounted, and mounted anew when the administrator returns.
LeavePage ==
  /\ abandoned + UnderWay <= MaxAbandoned
  /\ abandoned' = abandoned + UnderWay
  /\ adrift' = adrift \cup Undecided
  /\ revoking' = IF panel.at = "sent" THEN revoking \cup ({panel.sent} \cap IssuedKeys) ELSE revoking
  /\ past' = told
  /\ entry' = Idle /\ requested' = {} /\ issued' = {} /\ panel' = Panel
  /\ UNCHANGED <<tables, told, failures>>

\* onboard goes on: its customer is made, and then it asks for the key.
AdriftCreated(o) ==
  /\ o.customer = Nobody /\ customers < MaxCustomers
  /\ customers' = customers + 1
  /\ adrift' = (adrift \ {o}) \cup {[o EXCEPT !.customer = customers + 1]}
  /\ UNCHANGED <<owner, revoked, onPage, panel, revoking, past, abandoned>>

\* The key is issued; the answer is for a page that is gone.
AdriftIssued(o) ==
  /\ o.customer # Nobody /\ NextKey <= MaxIssued
  /\ InsertKey(o.customer)
  /\ adrift' = adrift \ {o}
  /\ UNCHANGED <<customers, revoked, onPage, panel, revoking, past, abandoned>>

\* Refused (the key is read anew for the second request), or lost.
AdriftEnds(o) ==
  /\ adrift' = adrift \ {o}
  /\ UNCHANGED <<tables, onPage, panel, revoking, past, abandoned>>

AdriftRevoked(k) ==
  /\ revoking' = revoking \ {k}
  /\ revoked' = revoked \cup {k}
  /\ UNCHANGED <<customers, owner, onPage, panel, adrift, past, abandoned>>

AdriftRevocationEnds(k) ==
  /\ revoking' = revoking \ {k}
  /\ UNCHANGED <<tables, onPage, panel, adrift, past, abandoned>>

OnboardingNext ==
  \/ Onboard \/ CustomerCreated \/ AskKey \/ KeyCreated \/ Onboarded \/ OnboardFails
  \/ \E card \in issued : AskAnother(card)
  \/ \E r \in requested : AnotherCreated(r) \/ AnotherIssued(r) \/ AnotherFails(r)
  \/ \E k \in 1..MaxIssued : AskRevocation(k)
  \/ ServerRevokes \/ Revoked \/ RevokeFails
  \/ LeavePage
  \/ \E o \in adrift : AdriftCreated(o) \/ AdriftIssued(o) \/ AdriftEnds(o)
  \/ \E k \in revoking : AdriftRevoked(k) \/ AdriftRevocationEnds(k)

OnboardingSpec == OnboardingInit /\ [][OnboardingNext]_onboardingVars

----------------------------------------------------------------------------
(* Properties *)

OnboardingTypeOK ==
  /\ customers \in 0..MaxCustomers /\ owner \in [1..Cardinality(IssuedKeys) -> 1..customers]
  /\ revoked \subseteq IssuedKeys /\ told \subseteq IssuedKeys /\ past \subseteq told
  /\ failures \in 0..MaxFailures /\ abandoned \in 0..MaxAbandoned
  /\ \A card \in issued : card.key \in IssuedKeys /\ card.customer \in 1..customers
  /\ \A r \in requested : r.customer \in 1..customers
  /\ \A o \in adrift : o.customer \in 0..customers
  /\ panel.sent \in 0..MaxIssued /\ revoking \subseteq IssuedKeys

\* A secret is shown once and then never again: every key whose answer came
\* to its page is on a card of the customer it acts for, also when several
\* requests were under way, or was on one until that page was left.
AnsweredKeysAreShown ==
  /\ told = past \cup {card.key : card \in issued}
  /\ \A card \in issued : owner[card.key] = card.customer

\* Two requests and no idempotency key: a customer without a key, or a key
\* nobody was shown, is left behind only by a failure that was reported, or
\* by leaving the page while the request was under way: that one is
\* reported to nobody, and no request leaves two such traces.
LeftoversAreExplained ==
  LET keyless == {c \in 1..customers : \A k \in IssuedKeys : owner[k] # c}
  IN Cardinality(keyless) + Cardinality(IssuedKeys \ told) <= failures + UnderWay + abandoned

\* "revoked" on the panel is true of the key it names, and for ever.
NoticeIsTrue == panel.done # Nobody => panel.done \in revoked

\* Admin.tsx: the page accounts for every key that was issued, whatever failed
\* between its two requests, unless it is left while they are under way, and
\* for every key it says is revoked.
KeysAreAccountedFor ==
  AnsweredKeysAreShown /\ LeftoversAreExplained /\ NoticeIsTrue
=============================================================================
