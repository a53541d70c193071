--------------------------- MODULE Authentication ---------------------------
(***************************************************************************)
(* Who a request acts as: the bearer guard of the customer routes          *)
(* (requireApiKey, the choice between an API key and a Firebase ID token   *)
(* in app.ts), AuthService and PostgresAuthStore, the administrator's      *)
(* credential routes, and the ownership of the accounts a request opens    *)
(* and reads.  Requests interleave between their statements; connections   *)
(* break; an operator disables a principal with SQL.                       *)
(***************************************************************************)
EXTENDS FiniteSets

CONSTANTS
  Requests,      \* slots of concurrent customer requests
  Subjects,      \* the provider's user IDs
  Principals,    \* ids gen_random_uuid may return
  Keys,          \* API keys generateApiKey may return
  Accounts,
  Administrator, \* administratorPrincipalId
  None

ASSUME AuthenticationAssumption ==
  Administrator \in Principals /\ None \notin Principals \cup Keys \cup Subjects

VARIABLES
  principals, \* table principals
  disabled,   \* those with status = 'disabled'
  directory,  \* table principal_identities, [Subjects -> Principals \cup {None}]
  keyOwner,   \* table api_keys, [Keys -> Principals \cup {None}]
  revoked,    \* keys with revoked_at
  owner,      \* accounts.owner_principal_id, [Accounts -> Principals \cup {None}]
  req,        \* the requests
  strangers   \* history: principals no sign-in created

credentials == <<keyOwner, revoked>>
tables      == <<principals, disabled, directory, credentials, owner, strangers>>
authVars        == <<tables, req>>

Tokens == [subject : Subjects, verified : BOOLEAN]

Stages == {"idle",
           "key",       \* before the read of api_keys
           "identity",  \* before the read of principal_identities
           "mapping",   \* principal inserted, mapping not yet
           "commit",    \* mapping inserted, COMMIT not yet
           "winner",    \* lost the race, before the second read
           "accepted",  \* request.principalId is set
           "answered"}

\* own: the principal this request's open transaction inserted.
\* as: request.principalId.  barred: history, the credential was revoked or
\* its principal disabled before the request arrived.
Idle == [at |-> "idle", key |-> None, subject |-> None, verified |-> FALSE,
         own |-> None, as |-> None, barred |-> FALSE, shown |-> {}]

AuthInit ==
  /\ principals = {Administrator} /\ disabled = {Administrator}
  /\ strangers = {Administrator}
  /\ directory = [s \in Subjects |-> None]
  /\ keyOwner = [k \in Keys |-> None] /\ revoked = {}
  /\ owner = [a \in Accounts |-> None]
  /\ req = [r \in Requests |-> Idle]

Goes(r, stage) == req' = [req EXCEPT ![r].at = stage]

\* 401, 403, 500 or 503: nothing the request did remains.
Refuse(r) == req' = [req EXCEPT ![r].at = "answered", ![r].own = None]

----------------------------------------------------------------------------
(* API keys *)

PresentKey(r, k) ==
  /\ req[r].at = "idle"
  /\ req' = [req EXCEPT ![r] =
               [Idle EXCEPT !.at = "key", !.key = k,
                            !.barred = k \in revoked \/ keyOwner[k] \in disabled]]
  /\ UNCHANGED tables

Candidate(k) == keyOwner[k] # None /\ k \notin revoked

Active(p) == p \notin disabled

\* AuthService.authenticate: one read gives the key and its principal's status.
Authenticate(r) ==
  /\ req[r].at = "key"
  /\ LET k == req[r].key
     IN  IF Candidate(k) /\ Active(keyOwner[k])
         THEN req' = [req EXCEPT ![r].at = "accepted", ![r].as = keyOwner[k]]
         ELSE Refuse(r)
  /\ UNCHANGED tables

----------------------------------------------------------------------------
(* Firebase ID tokens *)

AcceptsIdentity(verified) == verified

\* External: the token's signature and claims are good; a token they are not
\* good for, or keys that cannot be fetched, is refused at once.
PresentToken(r, t) ==
  /\ req[r].at = "idle"
  /\ req' = [req EXCEPT ![r] =
               [Idle EXCEPT !.at = IF AcceptsIdentity(t.verified) THEN "identity" ELSE "answered",
                            !.subject = t.subject, !.verified = t.verified,
                            !.barred = directory[t.subject] \in disabled]]
  /\ UNCHANGED tables

RefuseCredential(r) == req[r].at = "idle" /\ Refuse(r) /\ UNCHANGED tables

Resolve(r, p) ==
  IF Active(p) THEN req' = [req EXCEPT ![r].at = "accepted", ![r].as = p] ELSE Refuse(r)

FindPrincipal(r) ==
  /\ req[r].at = "identity" /\ directory[req[r].subject] # None
  /\ Resolve(r, directory[req[r].subject])
  /\ UNCHANGED tables

\* createPrincipalForIdentity: BEGIN, and the principal's row.
InsertPrincipal(r) ==
  /\ req[r].at = "identity" /\ directory[req[r].subject] = None
  /\ \E p \in Principals \ (principals \cup {req[q].own : q \in Requests}) :
       req' = [req EXCEPT ![r].at = "mapping", ![r].own = p]
  /\ UNCHANGED tables

\* Mutant: a lost race that commits its own principal all the same.
LoseKeepingPrincipal(r) ==
  /\ req' = [req EXCEPT ![r].at = "winner", ![r].own = None]
  /\ principals' = principals \cup {req[r].own}
  /\ UNCHANGED <<disabled, directory, credentials, owner, strangers>>

\* IdentityAlreadyMapped: ROLLBACK.
LoseRace(r) ==
  /\ req' = [req EXCEPT ![r].at = "winner", ![r].own = None]
  /\ UNCHANGED tables

\* The insert waits while another transaction holds the same primary key.
MappingFree(r) ==
  \A q \in Requests : req[q].at = "commit" => req[q].subject # req[r].subject

InsertMapping(r) ==
  /\ req[r].at = "mapping" /\ MappingFree(r)
  /\ IF directory[req[r].subject] = None
     THEN Goes(r, "commit") /\ UNCHANGED tables
     ELSE LoseRace(r)

\* Mutant: the mapping inserted outside the principal's transaction.
CommitMappingOnly(r) ==
  /\ req[r].at = "commit"
  /\ directory' = [directory EXCEPT ![req[r].subject] = req[r].own]
  /\ Refuse(r)
  /\ UNCHANGED <<principals, disabled, credentials, owner, strangers>>

\* The COMMIT's answer may be lost: the customer is refused, and registered.
CommitSignIn(r) ==
  /\ req[r].at = "commit"
  /\ principals' = principals \cup {req[r].own}
  /\ directory' = [directory EXCEPT ![req[r].subject] = req[r].own]
  /\ \/ req' = [req EXCEPT ![r].at = "accepted", ![r].as = req[r].own, ![r].own = None]
     \/ Refuse(r)
  /\ UNCHANGED <<disabled, credentials, owner, strangers>>

\* Mutant: the loser goes on as the principal it rolled back.
ReadOwn(r) ==
  /\ req[r].at = "winner"
  /\ \E p \in Principals \ principals :
       req' = [req EXCEPT ![r].at = "accepted", ![r].as = p]
  /\ UNCHANGED tables

\* 'identity mapping vanished': no mapping, no principal.
ReadWinner(r) ==
  /\ req[r].at = "winner"
  /\ LET p == directory[req[r].subject]
     IN  IF p = None THEN Refuse(r) ELSE Resolve(r, p)
  /\ UNCHANGED tables

\* A statement fails: withTransaction rolls back, errorHandler answers 500.
Fail(r) ==
  /\ req[r].at \in {"key", "identity", "mapping", "commit", "winner"}
  /\ Refuse(r)
  /\ UNCHANGED tables

----------------------------------------------------------------------------
(* What an accepted request does *)

OpenAccount(r, a) ==
  /\ req[r].at = "accepted" /\ owner[a] = None
  /\ owner' = [owner EXCEPT ![a] = req[r].as]
  /\ Goes(r, "answered")
  /\ UNCHANGED <<principals, disabled, directory, credentials, strangers>>

OwnedBy(p) == {a \in Accounts : owner[a] = p}

\* findOwnedById, listOwned and the account check of listJournalEntries.
ReadAccounts(r) ==
  /\ req[r].at = "accepted"
  /\ req' = [req EXCEPT ![r].at = "answered", ![r].shown = OwnedBy(req[r].as)]
  /\ UNCHANGED tables

Leave(r) ==
  /\ req[r].at = "answered"
  /\ req' = [req EXCEPT ![r] = Idle]
  /\ UNCHANGED tables

----------------------------------------------------------------------------
(* The administrator *)

CreatePrincipal ==
  /\ \E p \in Principals \ (principals \cup {req[q].own : q \in Requests}) :
       principals' = principals \cup {p} /\ strangers' = strangers \cup {p}
  /\ UNCHANGED <<disabled, directory, credentials, owner, req>>

\* For any principal there is, disabled ones included.
IssueApiKey(k, p) ==
  /\ keyOwner[k] = None /\ p \in principals
  /\ keyOwner' = [keyOwner EXCEPT ![k] = p]
  /\ UNCHANGED <<principals, disabled, directory, revoked, owner, strangers, req>>

RevokeApiKey(k) ==
  /\ keyOwner[k] # None
  /\ revoked' = revoked \cup {k}
  /\ UNCHANGED <<principals, disabled, directory, keyOwner, owner, strangers, req>>

\* External: an operator's UPDATE principals SET status; the administrator
\* principal stays disabled.
SetStatus(p) ==
  /\ p \in principals \ {Administrator}
  /\ disabled' = IF p \in disabled THEN disabled \ {p} ELSE disabled \cup {p}
  /\ UNCHANGED <<principals, directory, credentials, owner, strangers, req>>

----------------------------------------------------------------------------

SignIn(r) ==
  \/ Authenticate(r) \/ FindPrincipal(r) \/ InsertPrincipal(r) \/ InsertMapping(r)
  \/ CommitSignIn(r) \/ ReadWinner(r) \/ Fail(r)

Arrive(r) ==
  \/ \E k \in Keys : PresentKey(r, k)
  \/ \E t \in Tokens : PresentToken(r, t)
  \/ RefuseCredential(r)

Act(r) == ReadAccounts(r) \/ \E a \in Accounts : OpenAccount(r, a)

Administer ==
  \/ CreatePrincipal
  \/ \E k \in Keys, p \in Principals : IssueApiKey(k, p)
  \/ \E k \in Keys : RevokeApiKey(k)
  \/ \E p \in Principals : SetStatus(p)

AuthNext ==
  \/ \E r \in Requests : Arrive(r) \/ SignIn(r) \/ Act(r) \/ Leave(r)
  \/ Administer

AuthSpec == AuthInit /\ [][AuthNext]_authVars

----------------------------------------------------------------------------
(* Properties *)

RequestsType ==
  [at : Stages, key : Keys \cup {None}, subject : Subjects \cup {None}, verified : BOOLEAN,
   own : Principals \cup {None}, as : Principals \cup {None}, barred : BOOLEAN,
   shown : SUBSET Accounts]

AuthTypeOK ==
  /\ principals \subseteq Principals /\ Administrator \in principals
  /\ disabled \subseteq principals /\ strangers \subseteq principals
  /\ directory \in [Subjects -> principals \cup {None}]
  /\ keyOwner \in [Keys -> principals \cup {None}]
  /\ revoked \subseteq Keys
  /\ owner \in [Accounts -> principals \cup {None}]
  /\ req \in [Requests -> RequestsType]

Directory == INSTANCE OnePrincipal

\* createPrincipalForIdentity: "Principal and mapping commit together or not
\* at all ... No orphan principal survives either way", and sign-in as a whole
\* is the abstract directory: one principal per identity, forever.
MapsEachIdentityOnce == Directory!Spec

\* Whatever races on the first sign-in, a request of an identity acts as the
\* principal the directory has for it, and a request with a key as its owner.
ActsAsItsPrincipal ==
  \A r \in Requests : req[r].as # None =>
    req[r].as = IF req[r].key # None THEN keyOwner[req[r].key] ELSE directory[req[r].subject]

\* API.md: "Revocation takes effect on the next request"; authenticateIdentity:
\* "disabling a principal locks out every way in": no request that arrives
\* after either is accepted, unless an operator enabled the principal again.
BarredStaysOut ==
  [][\A r \in Requests :
       req[r].at # "accepted" /\ req'[r].at = "accepted" /\ req[r].barred =>
         req[r].key \notin revoked /\ req'[r].as \notin disabled]_authVars

\* Migration 011: the administrator principal "must never authenticate a
\* customer request even if someone issues it an API key".
AdministratorNeverActs ==
  /\ \A r \in Requests : req[r].as # Administrator
  /\ \A a \in Accounts : owner[a] # Administrator

\* authenticateIdentity: an unverified sign-up "must not get as far as
\* creating a principal".
UnverifiedCreatesNothing ==
  \A r \in Requests : req[r].subject # None /\ ~req[r].verified =>
    req[r].own = None /\ req[r].as = None

\* A customer is shown accounts of its own principal only, those of earlier
\* sign-ins included, and an account stays with the principal that opened it.
ShownIsOwned ==
  \A r \in Requests : \A a \in req[r].shown :
    owner[a] = IF req[r].key # None THEN keyOwner[req[r].key] ELSE directory[req[r].subject]

\* Nobody acts, or sees an account, but as the principal of a credential that
\* was good when it arrived.
ActsByRight ==
  /\ [](/\ ActsAsItsPrincipal /\ AdministratorNeverActs
        /\ UnverifiedCreatesNothing /\ ShownIsOwned)
  /\ BarredStaysOut
=============================================================================
