---------------------------- MODULE ServerProofs ----------------------------
(***************************************************************************)
(* Proofs about the parts of the server: who a request acts as, the sweeps *)
(* and the operator's commands here, and its tables, lists and report in   *)
(* JournalProofs.  They share no variable; the last part puts them         *)
(* together.                                                               *)
(***************************************************************************)
EXTENDS Server, JournalProofs

----------------------------------------------------------------------------
(***************************************************************************)
(* Authentication, for any number of requests, identities, principals,     *)
(* keys and accounts.                                                      *)
(*                                                                         *)
(* The argument: a principal that a sign-in has inserted and not committed *)
(* is nobody else's, and the first sign-in that commits finds no mapping   *)
(* (Good, Apart).  Mappings, keys and accounts never change owner, so what *)
(* a request acts as stays what its credential resolves to, long after it  *)
(* was resolved.  Whoever is accepted was active at that moment, and the   *)
(* administrator never is.                                                 *)
(***************************************************************************)

\* A request in the middle of signing an identity in.
SigningIn == {"identity", "mapping", "commit", "winner"}

\* What a request is right to hold, given the tables.
Good(q) ==
  /\ q.at = "key" => q.key # None /\ q.subject = None
  /\ q.at \in SigningIn => q.key = None /\ q.subject # None
  /\ q.subject # None /\ (q.at \in SigningIn \/ q.as # None) => q.verified
  /\ q.own # None <=> q.at \in {"mapping", "commit"}
  /\ q.own \notin principals
  /\ q.at = "commit" => directory[q.subject] = None
  /\ q.at = "accepted" => q.as # None
  /\ q.as # None =>
       /\ q.at \in {"accepted", "answered"}
       /\ q.key # None \/ q.subject # None
       /\ q.as = IF q.key # None THEN keyOwner[q.key] ELSE directory[q.subject]
       /\ q.as # Administrator
  /\ \A a \in q.shown : q.as # None /\ owner[a] = q.as

\* Principals being inserted are told apart, and so are the identities whose
\* mapping a transaction has inserted.
Apart ==
  \A q, r \in Requests :
    /\ req[q].own = req[r].own /\ req[r].own # None => q = r
    /\ req[q].at = "commit" /\ req[r].at = "commit" /\ req[q].subject = req[r].subject => q = r

AdministratorOut ==
  /\ Administrator \in disabled
  /\ \A a \in Accounts : owner[a] # Administrator

AuthInv ==
  /\ AuthTypeOK
  /\ \A r \in Requests : Good(req[r])
  /\ Apart
  /\ AdministratorOut

----------------------------------------------------------------------------
\* The invariant holds before anyone has signed in.
LEMMA AuthInitInv == AuthInit => AuthInv
<1>. SUFFICES ASSUME AuthInit PROVE AuthInv
  OBVIOUS
<1>. USE AuthenticationAssumption
<1>1. Idle \in RequestsType
  BY DEF Idle, RequestsType, Stages
<1>2. AuthTypeOK
  BY <1>1 DEF AuthInit, AuthTypeOK
<1>3. Good(Idle)
  BY DEF AuthInit, Good, Idle, SigningIn
<1>4. \A r \in Requests : req[r] = Idle
  BY DEF AuthInit
<1>5. Apart /\ AdministratorOut
  BY <1>4 DEF AuthInit, Apart, AdministratorOut, Idle
<1>. QED BY <1>2, <1>3, <1>4, <1>5 DEF AuthInv

\* A step of one request that writes no table.
LEMMA RequestStep ==
  ASSUME AuthInv, NEW r \in Requests, UNCHANGED tables,
         NEW s \in RequestsType, req' = [req EXCEPT ![r] = s], Good(s),
         s.own # None => \A q \in Requests \ {r} : req[q].own # s.own,
         s.at = "commit" => \A q \in Requests \ {r} :
                              req[q].at = "commit" => req[q].subject # s.subject
  PROVE  AuthInv'
<1>1. req'[r] = s /\ \A q \in Requests \ {r} : req'[q] = req[q]
  BY DEF AuthInv, AuthTypeOK
<1>2. AuthTypeOK'
  BY DEF AuthInv, AuthTypeOK, tables, credentials
<1>3. \A q \in Requests : Good(req[q])'
  BY <1>1 DEF AuthInv, Good, tables, credentials
<1>4. Apart' /\ AdministratorOut'
  BY <1>1 DEF AuthInv, Apart, AdministratorOut, tables, credentials
<1>. QED BY <1>2, <1>3, <1>4 DEF AuthInv

\* What a request is right to hold stays right while the tables only grow:
\* principals that no request is inserting, and mappings, keys and accounts
\* that were nobody's.
LEMMA TablesGrow ==
  ASSUME AuthInv, NEW r \in Requests, UNCHANGED req,
         principals \subseteq principals', req[r].own \notin principals',
         \A s \in Subjects : directory'[s] = directory[s] \/ directory[s] = None,
         req[r].at = "commit" => directory'[req[r].subject] = None,
         \A k \in Keys : keyOwner'[k] = keyOwner[k] \/ keyOwner[k] = None,
         \A a \in Accounts : owner'[a] = owner[a] \/ owner[a] = None
  PROVE  Good(req[r])'
<1>. USE AuthenticationAssumption
<1>0. req[r] \in RequestsType /\ Good(req[r])
  BY DEF AuthInv, AuthTypeOK
<1>1. req[r].as # None =>
        req[r].as = IF req[r].key # None THEN keyOwner'[req[r].key] ELSE directory'[req[r].subject]
  <2>. SUFFICES ASSUME req[r].as # None
                PROVE  req[r].as = IF req[r].key # None THEN keyOwner'[req[r].key]
                                   ELSE directory'[req[r].subject]
    OBVIOUS
  <2>1. CASE req[r].key # None
    BY <1>0, <2>1 DEF Good, RequestsType
  <2>2. CASE req[r].key = None
    BY <1>0, <2>2 DEF Good, RequestsType
  <2>. QED BY <2>1, <2>2
<1>2. \A a \in req[r].shown : req[r].as # None /\ owner'[a] = req[r].as
  BY <1>0 DEF Good, RequestsType
<1>. QED BY <1>0, <1>1, <1>2 DEF Good

----------------------------------------------------------------------------
(* The steps of a request *)

\* A refused request holds nothing of the tables.
LEMMA RefuseStep ==
  ASSUME AuthInv, NEW r \in Requests, UNCHANGED tables, Refuse(r),
         req[r].at \notin {"accepted", "answered"}
  PROVE  AuthInv'
<1>. DEFINE s == [req[r] EXCEPT !.at = "answered", !.own = None]
<1>. USE AuthenticationAssumption
<1>0. req[r] \in RequestsType /\ Good(req[r]) /\ None \notin principals
  BY DEF AuthInv, AuthTypeOK
<1>1. /\ s \in RequestsType /\ s.at = "answered" /\ s.own = None /\ s.key = req[r].key
      /\ s.subject = req[r].subject /\ s.verified = req[r].verified
      /\ s.as = req[r].as /\ s.shown = req[r].shown
  BY <1>0 DEF RequestsType, Stages
<1>2. req' = [req EXCEPT ![r] = s]
  BY DEF Refuse
<1>. HIDE DEF s
<1>3. Good(s)
  BY <1>0, <1>1 DEF Good, SigningIn
<1>. QED BY <1>1, <1>2, <1>3, RequestStep

\* A request whose credential resolved to an active principal is accepted.
LEMMA AcceptStep ==
  ASSUME AuthInv, NEW r \in Requests, UNCHANGED tables, NEW p \in principals \ disabled,
         req[r].at \in {"key", "identity", "winner"},
         p = IF req[r].key # None THEN keyOwner[req[r].key] ELSE directory[req[r].subject],
         req' = [req EXCEPT ![r].at = "accepted", ![r].as = p]
  PROVE  AuthInv'
<1>. DEFINE s == [req[r] EXCEPT !.at = "accepted", !.as = p]
<1>. USE AuthenticationAssumption
<1>0. req[r] \in RequestsType /\ Good(req[r]) /\ None \notin principals /\ p \in Principals
      /\ req \in [Requests -> RequestsType]
  BY DEF AuthInv, AuthTypeOK
<1>1. /\ s \in RequestsType /\ s.at = "accepted" /\ s.own = req[r].own /\ s.key = req[r].key
      /\ s.subject = req[r].subject /\ s.verified = req[r].verified
      /\ s.as = p /\ s.shown = req[r].shown
  BY <1>0 DEF RequestsType, Stages
<1>2. req' = [req EXCEPT ![r] = s]
  BY <1>0
<1>. HIDE DEF s
<1>3. p # Administrator /\ p # None
  BY <1>0 DEF AuthInv, AdministratorOut
<1>4. req[r].own = None /\ req[r].shown = {} /\ (req[r].subject # None => req[r].verified)
  BY <1>0 DEF Good, SigningIn
<1>5. Good(s)
  BY <1>0, <1>1, <1>3, <1>4 DEF Good, SigningIn
<1>. QED BY <1>1, <1>2, <1>4, <1>5, RequestStep

\* Requests that arrive.
LEMMA ArriveStep ==
  ASSUME AuthInv, NEW r \in Requests, Arrive(r)
  PROVE  AuthInv'
<1>. USE AuthenticationAssumption
<1>0. req[r] \in RequestsType /\ Good(req[r]) /\ None \notin principals
      /\ Idle \in RequestsType
  BY DEF AuthInv, AuthTypeOK, Idle, RequestsType, Stages
<1>1. ASSUME NEW k \in Keys, PresentKey(r, k)
      PROVE  AuthInv'
  <2>. DEFINE b == k \in revoked \/ keyOwner[k] \in disabled
              s == [Idle EXCEPT !.at = "key", !.key = k, !.barred = b]
  <2>1. b \in BOOLEAN
    OBVIOUS
  <2>2. req' = [req EXCEPT ![r] = s] /\ UNCHANGED tables
    BY <1>1 DEF PresentKey
  <2>. HIDE DEF b
  <2>3. /\ s \in RequestsType /\ s.at = "key" /\ s.key = k /\ s.subject = None /\ s.own = None
        /\ s.as = None /\ s.shown = {}
    BY <2>1 DEF Idle, RequestsType, Stages
  <2>. HIDE DEF s
  <2>4. Good(s)
    BY <1>0, <2>3 DEF Good, SigningIn
  <2>. QED BY <2>2, <2>3, <2>4, RequestStep
<1>2. ASSUME NEW t \in Tokens, PresentToken(r, t)
      PROVE  AuthInv'
  <2>. DEFINE b == directory[t.subject] \in disabled
              stage == IF AcceptsIdentity(t.verified) THEN "identity" ELSE "answered"
              s == [Idle EXCEPT !.at = stage, !.subject = t.subject, !.verified = t.verified,
                                !.barred = b]
  <2>1. b \in BOOLEAN /\ t.subject \in Subjects /\ t.verified \in BOOLEAN
    BY DEF Tokens
  <2>2. req' = [req EXCEPT ![r] = s] /\ UNCHANGED tables
    BY <1>2 DEF PresentToken
  <2>5. stage \in {"identity", "answered"} /\ (stage = "identity" => t.verified)
    BY <2>1 DEF AcceptsIdentity
  <2>. HIDE DEF b, stage
  <2>3. /\ s \in RequestsType /\ s.at = stage /\ s.key = None /\ s.subject = t.subject
        /\ s.verified = t.verified /\ s.own = None /\ s.as = None /\ s.shown = {}
    BY <2>1, <2>5 DEF Idle, RequestsType, Stages
  <2>. HIDE DEF s
  <2>4. Good(s)
    BY <1>0, <2>1, <2>3, <2>5 DEF Good, SigningIn
  <2>. QED BY <2>2, <2>3, <2>4, <2>5, RequestStep
<1>3. ASSUME RefuseCredential(r)
      PROVE  AuthInv'
  BY <1>3, RefuseStep DEF RefuseCredential
<1>. QED BY <1>1, <1>2, <1>3 DEF Arrive

\* The reads of a sign-in, and what it writes before its COMMIT.
LEMMA SignInStep ==
  ASSUME AuthInv, NEW r \in Requests,
         \/ Authenticate(r) \/ FindPrincipal(r) \/ InsertPrincipal(r)
         \/ InsertMapping(r) \/ ReadWinner(r) \/ Fail(r)
  PROVE  AuthInv'
<1>. USE AuthenticationAssumption
<1>0. /\ req[r] \in RequestsType /\ Good(req[r]) /\ None \notin principals
      /\ req \in [Requests -> RequestsType]
      /\ directory \in [Subjects -> principals \cup {None}]
      /\ keyOwner \in [Keys -> principals \cup {None}]
  BY DEF AuthInv, AuthTypeOK
<1>1. ASSUME NEW p, p \in principals, Resolve(r, p), req[r].at \in {"identity", "winner"},
             UNCHANGED tables, p = directory[req[r].subject]
      PROVE  AuthInv'
  <2>1. req[r].key = None
    BY <1>0, <1>1 DEF Good, SigningIn
  <2>2. CASE p \in disabled
    BY <1>1, <2>2, RefuseStep DEF Resolve, Active
  <2>3. CASE p \notin disabled
    BY <1>1, <2>1, <2>3, AcceptStep DEF Resolve, Active
  <2>. QED BY <2>2, <2>3
<1>2. CASE Authenticate(r)
  <2>. DEFINE k == req[r].key
  <2>1. k \in Keys /\ k # None /\ req[r].at = "key" /\ UNCHANGED tables
    BY <1>0, <1>2 DEF Authenticate, Good, RequestsType
  <2>2. CASE Candidate(k) /\ Active(keyOwner[k])
    <3>1. keyOwner[k] \in principals \ disabled
      BY <1>0, <2>1, <2>2 DEF Candidate, Active
    <3>2. req' = [req EXCEPT ![r].at = "accepted", ![r].as = keyOwner[k]]
      BY <1>2, <2>2 DEF Authenticate
    <3>. QED BY <2>1, <3>1, <3>2, AcceptStep
  <2>3. CASE ~(Candidate(k) /\ Active(keyOwner[k]))
    BY <1>2, <2>1, <2>3, RefuseStep DEF Authenticate
  <2>. QED BY <2>2, <2>3
<1>3. CASE FindPrincipal(r)
  <2>1. req[r].subject \in Subjects /\ directory[req[r].subject] \in principals
    BY <1>0, <1>3 DEF FindPrincipal, Good, SigningIn, RequestsType
  <2>. QED BY <1>1, <1>3, <2>1 DEF FindPrincipal
<1>4. CASE InsertPrincipal(r)
  <2>1. PICK p \in Principals \ (principals \cup {req[q].own : q \in Requests}) :
          req' = [req EXCEPT ![r].at = "mapping", ![r].own = p]
    BY <1>4 DEF InsertPrincipal
  <2>. DEFINE s == [req[r] EXCEPT !.at = "mapping", !.own = p]
  <2>2. req' = [req EXCEPT ![r] = s] /\ UNCHANGED tables /\ req[r].at = "identity"
    BY <1>0, <1>4, <2>1 DEF InsertPrincipal
  <2>3. /\ s \in RequestsType /\ s.at = "mapping" /\ s.own = p /\ s.key = req[r].key
        /\ s.subject = req[r].subject /\ s.verified = req[r].verified
        /\ s.as = req[r].as /\ s.shown = req[r].shown
    BY <1>0, <2>1 DEF RequestsType, Stages
  <2>. HIDE DEF s
  <2>4. Good(s)
    BY <1>0, <2>1, <2>2, <2>3 DEF Good, SigningIn
  <2>5. \A q \in Requests \ {r} : req[q].own # s.own
    BY <2>1, <2>3
  <2>. QED BY <2>2, <2>3, <2>4, <2>5, RequestStep
<1>5. CASE InsertMapping(r)
  <2>0. req[r].at = "mapping" /\ MappingFree(r) /\ req[r].subject \in Subjects
    BY <1>0, <1>5 DEF InsertMapping, Good, SigningIn, RequestsType
  <2>1. CASE directory[req[r].subject] = None
    <3>. DEFINE s == [req[r] EXCEPT !.at = "commit"]
    <3>2. req' = [req EXCEPT ![r] = s] /\ UNCHANGED tables
      BY <1>0, <1>5, <2>1 DEF InsertMapping, Goes
    <3>3. /\ s \in RequestsType /\ s.at = "commit" /\ s.own = req[r].own /\ s.key = req[r].key
          /\ s.subject = req[r].subject /\ s.verified = req[r].verified
          /\ s.as = req[r].as /\ s.shown = req[r].shown
      BY <1>0 DEF RequestsType, Stages
    <3>. HIDE DEF s
    <3>4. Good(s)
      BY <1>0, <2>0, <2>1, <3>3 DEF Good, SigningIn
    <3>5. s.own # None => \A q \in Requests \ {r} : req[q].own # s.own
      BY <3>3 DEF AuthInv, Apart
    <3>6. \A q \in Requests \ {r} : req[q].at = "commit" => req[q].subject # s.subject
      BY <2>0, <3>3 DEF MappingFree
    <3>. QED BY <3>2, <3>3, <3>4, <3>5, <3>6, RequestStep
  <2>2. CASE directory[req[r].subject] # None
    <3>. DEFINE s == [req[r] EXCEPT !.at = "winner", !.own = None]
    <3>2. req' = [req EXCEPT ![r] = s] /\ UNCHANGED tables
      BY <1>0, <1>5, <2>2 DEF InsertMapping, LoseRace
    <3>3. /\ s \in RequestsType /\ s.at = "winner" /\ s.own = None /\ s.key = req[r].key
          /\ s.subject = req[r].subject /\ s.verified = req[r].verified
          /\ s.as = req[r].as /\ s.shown = req[r].shown
      BY <1>0 DEF RequestsType, Stages
    <3>. HIDE DEF s
    <3>4. Good(s)
      BY <1>0, <2>0, <3>3 DEF Good, SigningIn
    <3>. QED BY <3>2, <3>3, <3>4, RequestStep
  <2>. QED BY <2>1, <2>2
<1>6. CASE ReadWinner(r)
  <2>1. req[r].subject \in Subjects
    BY <1>0, <1>6 DEF ReadWinner, Good, SigningIn, RequestsType
  <2>2. CASE directory[req[r].subject] = None
    BY <1>6, <2>2, RefuseStep DEF ReadWinner
  <2>3. CASE directory[req[r].subject] # None
    <3>1. directory[req[r].subject] \in principals
      BY <1>0, <2>1, <2>3
    <3>. QED BY <1>1, <1>6, <2>3, <3>1 DEF ReadWinner
  <2>. QED BY <2>2, <2>3
<1>7. CASE Fail(r)
  BY <1>7, RefuseStep DEF Fail
<1>. QED BY <1>2, <1>3, <1>4, <1>5, <1>6, <1>7

\* The COMMIT of a first sign-in: the principal and its mapping appear, and
\* the request acts as it or is refused.
LEMMA CommitStep ==
  ASSUME AuthInv, NEW r \in Requests, CommitSignIn(r)
  PROVE  /\ AuthInv'
         /\ req[r].own \in Principals \ principals
         /\ req[r].subject \in Subjects
         /\ directory[req[r].subject] = None
<1>. DEFINE p == req[r].own
            u == req[r].subject
            s == req'[r]
<1>. USE AuthenticationAssumption
<1>0. /\ req[r] \in RequestsType /\ Good(req[r]) /\ None \notin principals
      /\ req \in [Requests -> RequestsType]
  BY DEF AuthInv, AuthTypeOK
<1>1. /\ req[r].at = "commit" /\ p \in Principals \ principals
      /\ u \in Subjects /\ u # None /\ req[r].key = None /\ directory[u] = None /\ req[r].verified
  BY <1>0 DEF CommitSignIn, Good, SigningIn, RequestsType
<1>2. /\ principals' = principals \cup {p}
      /\ directory' = [directory EXCEPT ![u] = p]
      /\ UNCHANGED <<disabled, keyOwner, revoked, owner, strangers>>
  BY DEF CommitSignIn, credentials
<1>3. /\ s \in RequestsType /\ s.own = None /\ s.key = req[r].key
      /\ s.subject = u /\ s.verified = req[r].verified /\ s.shown = req[r].shown
      /\ \/ s.at = "accepted" /\ s.as = p
         \/ s.at = "answered" /\ s.as = req[r].as
      /\ req' = [req EXCEPT ![r] = s]
  <2>1. CASE req' = [req EXCEPT ![r].at = "accepted", ![r].as = p, ![r].own = None]
    BY <1>0, <1>1, <2>1 DEF RequestsType, Stages
  <2>2. CASE Refuse(r)
    BY <1>0, <1>1, <2>2 DEF Refuse, RequestsType, Stages
  <2>. QED BY <2>1, <2>2 DEF CommitSignIn
<1>4. \A q \in Requests \ {r} : req'[q] = req[q]
  BY <1>0, <1>3
<1>. HIDE DEF s
<1>5. AuthTypeOK'
  BY <1>1, <1>2, <1>3 DEF AuthInv, AuthTypeOK
<1>6. Good(req[r])'
  <2>1. req[r].as = None /\ req[r].shown = {}
    BY <1>0, <1>1 DEF Good
  <2>2. p # Administrator /\ p # None
    BY <1>1 DEF AuthInv, AuthTypeOK
  <2>3. directory'[u] = p
    BY <1>1, <1>2 DEF AuthInv, AuthTypeOK
  <2>4. None \notin principals'
    BY <1>0, <1>2, <2>2
  <2>. QED BY <1>1, <1>3, <2>1, <2>2, <2>3, <2>4 DEF Good, SigningIn, s
<1>7. ASSUME NEW q \in Requests \ {r}
      PROVE  Good(req[q])'
  <2>1. Good(req[q]) /\ req[q] \in RequestsType
    BY DEF AuthInv, AuthTypeOK
  <2>2. req[q].own # p
    BY <1>1 DEF AuthInv, Apart
  <2>3. req[q].at = "commit" => req[q].subject # u
    BY <1>1 DEF AuthInv, Apart
  <2>4. req[q].own \notin principals'
    BY <1>2, <2>1, <2>2 DEF Good
  <2>5. req[q].at = "commit" => directory'[req[q].subject] = None
    BY <1>1, <1>2, <2>1, <2>3 DEF AuthInv, AuthTypeOK, Good, SigningIn, RequestsType
  <2>6. req[q].as # None =>
          req[q].as = IF req[q].key # None THEN keyOwner'[req[q].key] ELSE directory'[req[q].subject]
    <3>1. req[q].as # None /\ req[q].key = None =>
            req[q].subject \in Subjects /\ req[q].subject # u
      BY <1>1, <2>1 DEF Good, RequestsType
    <3>. QED BY <1>2, <2>1, <3>1 DEF Good, AuthInv, AuthTypeOK
  <2>. QED BY <1>2, <1>4, <2>1, <2>4, <2>5, <2>6 DEF Good
<1>8. Apart'
  BY <1>3, <1>4 DEF AuthInv, Apart
<1>9. AdministratorOut'
  BY <1>2 DEF AuthInv, AdministratorOut
<1>. QED BY <1>1, <1>5, <1>6, <1>7, <1>8, <1>9 DEF AuthInv

\* What an accepted request does.
LEMMA ActStep ==
  ASSUME AuthInv, NEW r \in Requests, Act(r) \/ Leave(r)
  PROVE  AuthInv'
<1>. USE AuthenticationAssumption
<1>0. /\ req[r] \in RequestsType /\ Good(req[r]) /\ None \notin principals
      /\ req \in [Requests -> RequestsType] /\ Idle \in RequestsType
  BY DEF AuthInv, AuthTypeOK, Idle, RequestsType, Stages
<1>1. CASE ReadAccounts(r)
  <2>. DEFINE s == [req[r] EXCEPT !.at = "answered", !.shown = OwnedBy(req[r].as)]
  <2>1. req' = [req EXCEPT ![r] = s] /\ UNCHANGED tables /\ req[r].at = "accepted"
    BY <1>0, <1>1 DEF ReadAccounts
  <2>2. OwnedBy(req[r].as) \in SUBSET Accounts /\ \A a \in OwnedBy(req[r].as) : owner[a] = req[r].as
    BY DEF OwnedBy
  <2>3. /\ s \in RequestsType /\ s.at = "answered" /\ s.own = req[r].own /\ s.key = req[r].key
        /\ s.subject = req[r].subject /\ s.verified = req[r].verified
        /\ s.as = req[r].as /\ s.shown = OwnedBy(req[r].as)
    BY <1>0, <2>2 DEF RequestsType, Stages
  <2>. HIDE DEF s
  <2>4. Good(s)
    BY <1>0, <2>1, <2>2, <2>3 DEF Good, SigningIn
  <2>5. s.own = None
    BY <1>0, <2>1, <2>3 DEF Good
  <2>. QED BY <2>1, <2>3, <2>4, <2>5, RequestStep
<1>2. CASE Leave(r)
  <2>1. Good(Idle) /\ Idle.own = None /\ Idle.at = "idle"
    BY <1>0 DEF Good, Idle, SigningIn
  <2>. QED BY <1>0, <1>2, <2>1, RequestStep DEF Leave
<1>3. ASSUME NEW a \in Accounts, OpenAccount(r, a)
      PROVE  AuthInv'
  <2>. DEFINE p == req[r].as
              s == [req[r] EXCEPT !.at = "answered"]
  <2>1. /\ owner[a] = None /\ owner' = [owner EXCEPT ![a] = p] /\ req[r].at = "accepted"
        /\ UNCHANGED <<principals, disabled, directory, keyOwner, revoked, strangers>>
        /\ req' = [req EXCEPT ![r] = s]
    BY <1>3 DEF OpenAccount, Goes, credentials
  <2>2. /\ s \in RequestsType /\ s.at = "answered" /\ s.own = req[r].own /\ s.key = req[r].key
        /\ s.subject = req[r].subject /\ s.verified = req[r].verified
        /\ s.as = p /\ s.shown = req[r].shown
    BY <1>0 DEF RequestsType, Stages
  <2>. HIDE DEF s
  <2>3. req'[r] = s /\ \A q \in Requests \ {r} : req'[q] = req[q]
    BY <1>0, <2>1
  <2>4. p # None /\ p # Administrator /\ p \in principals /\ req[r].own = None
    <3>1. p # None /\ p # Administrator /\ req[r].own = None
      BY <1>0, <2>1 DEF Good
    <3>2. p = IF req[r].key # None THEN keyOwner[req[r].key] ELSE directory[req[r].subject]
      BY <1>0, <3>1 DEF Good
    <3>3. req[r].key # None \/ req[r].subject # None
      BY <1>0, <3>1 DEF Good
    <3>. QED BY <1>0, <3>1, <3>2, <3>3 DEF AuthInv, AuthTypeOK, RequestsType
  <2>5. AuthTypeOK'
    BY <2>1, <2>2, <2>4 DEF AuthInv, AuthTypeOK
  <2>6. ASSUME NEW q \in Requests
        PROVE  Good(req[q])'
    <3>1. Good(req[q]) /\ req[q] \in RequestsType
      BY DEF AuthInv, AuthTypeOK
    <3>2. \A b \in req[q].shown : b # a /\ owner'[b] = owner[b]
      BY <1>0, <2>1, <3>1 DEF Good, AuthInv, AuthTypeOK, RequestsType
    <3>3. CASE q = r
      BY <1>0, <2>1, <2>2, <2>3, <2>4, <3>1, <3>2, <3>3 DEF Good, SigningIn
    <3>4. CASE q # r
      BY <2>1, <2>3, <3>1, <3>2, <3>4 DEF Good
    <3>. QED BY <3>3, <3>4
  <2>7. Apart'
    BY <2>2, <2>3, <2>4 DEF AuthInv, Apart
  <2>8. AdministratorOut'
    BY <2>1, <2>4 DEF AuthInv, AuthTypeOK, AdministratorOut
  <2>. QED BY <2>5, <2>6, <2>7, <2>8 DEF AuthInv
<1>. QED BY <1>1, <1>2, <1>3 DEF Act

\* The administrator's steps change no mapping and give nobody a second owner.
LEMMA AdministerStep ==
  ASSUME AuthInv, Administer
  PROVE  AuthInv'
<1>. USE AuthenticationAssumption
<1>0. None \notin principals /\ \A r \in Requests : Good(req[r]) /\ req[r] \in RequestsType
  BY DEF AuthInv, AuthTypeOK
<1>1. CASE CreatePrincipal
  <2>1. PICK p \in Principals \ (principals \cup {req[q].own : q \in Requests}) :
          principals' = principals \cup {p} /\ strangers' = strangers \cup {p}
    BY <1>1 DEF CreatePrincipal
  <2>2. UNCHANGED <<disabled, directory, keyOwner, revoked, owner, req>>
    BY <1>1 DEF CreatePrincipal, credentials
  <2>3. AuthTypeOK'
    BY <2>1, <2>2 DEF AuthInv, AuthTypeOK
  <2>4. \A r \in Requests : Good(req[r])'
    <3>. TAKE r \in Requests
    <3>1. req[r].own \notin principals'
      BY <1>0, <2>1 DEF Good
    <3>2. req[r].at = "commit" => directory'[req[r].subject] = None
      BY <1>0, <2>2 DEF Good
    <3>. QED BY <2>1, <2>2, <3>1, <3>2, TablesGrow
  <2>. QED BY <2>2, <2>3, <2>4 DEF AuthInv, Apart, AdministratorOut
<1>2. ASSUME NEW k \in Keys, NEW p \in Principals, IssueApiKey(k, p)
      PROVE  AuthInv'
  <2>1. /\ UNCHANGED <<principals, disabled, directory, revoked, owner, strangers, req>>
        /\ keyOwner[k] = None /\ p \in principals /\ keyOwner' = [keyOwner EXCEPT ![k] = p]
    BY <1>2 DEF IssueApiKey
  <2>2. AuthTypeOK'
    BY <2>1 DEF AuthInv, AuthTypeOK
  <2>3. \A r \in Requests : Good(req[r])'
    <3>. TAKE r \in Requests
    <3>1. req[r].own \notin principals' /\ (req[r].at = "commit" => directory'[req[r].subject] = None)
      BY <1>0, <2>1 DEF Good
    <3>2. \A j \in Keys : keyOwner'[j] = keyOwner[j] \/ keyOwner[j] = None
      BY <2>1 DEF AuthInv, AuthTypeOK
    <3>. QED BY <2>1, <3>1, <3>2, TablesGrow
  <2>. QED BY <2>1, <2>2, <2>3 DEF AuthInv, Apart, AdministratorOut
<1>3. ASSUME NEW k \in Keys, RevokeApiKey(k)
      PROVE  AuthInv'
  <2>1. /\ UNCHANGED <<principals, disabled, directory, keyOwner, owner, strangers, req>>
        /\ revoked' = revoked \cup {k}
    BY <1>3 DEF RevokeApiKey
  <2>2. AuthTypeOK'
    BY <2>1 DEF AuthInv, AuthTypeOK
  <2>. QED BY <2>1, <2>2 DEF AuthInv, Good, Apart, AdministratorOut
<1>4. ASSUME NEW p \in Principals, SetStatus(p)
      PROVE  AuthInv'
  <2>1. /\ UNCHANGED <<principals, directory, keyOwner, revoked, owner, strangers, req>>
        /\ p # Administrator /\ p \in principals
        /\ disabled' = IF p \in disabled THEN disabled \ {p} ELSE disabled \cup {p}
    BY <1>4 DEF SetStatus, credentials
  <2>2. disabled' \subseteq principals /\ (Administrator \in disabled => Administrator \in disabled')
    BY <2>1 DEF AuthInv, AuthTypeOK
  <2>3. AuthTypeOK'
    BY <2>1, <2>2 DEF AuthInv, AuthTypeOK
  <2>4. AdministratorOut'
    BY <2>1, <2>2 DEF AuthInv, AdministratorOut
  <2>. QED BY <2>1, <2>3, <2>4 DEF AuthInv, Good, Apart
<1>. QED BY <1>1, <1>2, <1>3, <1>4 DEF Administer

\* No step breaks the invariant.
LEMMA AuthNextInv ==
  ASSUME AuthInv, [AuthNext]_authVars
  PROVE  AuthInv'
<1>1. ASSUME NEW r \in Requests, Arrive(r) \/ SignIn(r) \/ Act(r) \/ Leave(r)
      PROVE  AuthInv'
  <2>1. CASE Arrive(r)
    BY <2>1, ArriveStep
  <2>2. CASE SignIn(r)
    BY <2>2, SignInStep, CommitStep DEF SignIn
  <2>3. CASE Act(r) \/ Leave(r)
    BY <2>3, ActStep
  <2>. QED BY <1>1, <2>1, <2>2, <2>3
<1>2. CASE Administer
  BY <1>2, AdministerStep
<1>3. CASE UNCHANGED authVars
  BY <1>3 DEF authVars, tables, credentials, AuthInv, AuthTypeOK, Good, Apart, AdministratorOut
<1>. QED BY <1>1, <1>2, <1>3 DEF AuthNext

----------------------------------------------------------------------------
(* Theorems *)

\* The inductive invariant, of which the theorems below are parts.
THEOREM AuthInvariant == AuthSpec => []AuthInv
<1>1. AuthInit => AuthInv
  BY AuthInitInv
<1>2. AuthInv /\ [AuthNext]_authVars => AuthInv'
  BY AuthNextInv
<1>. QED BY <1>1, <1>2, PTL DEF AuthSpec

\* Type correctness: mappings, keys and accounts belong to principals that
\* exist.
THEOREM AuthTypeCorrect == AuthSpec => []AuthTypeOK
<1>1. AuthInv => AuthTypeOK
  BY DEF AuthInv
<1>. QED BY AuthInvariant, <1>1, PTL

\* AuthService: whatever races there are on the first sign-in, an accepted
\* request acts as the principal its credential resolves to, then and later.
THEOREM ActsAsOwn == AuthSpec => []ActsAsItsPrincipal
<1>1. AuthInv => ActsAsItsPrincipal
  BY DEF AuthInv, Good, ActsAsItsPrincipal
<1>. QED BY AuthInvariant, <1>1, PTL

\* Migration 011: no request acts as the administrator principal and no
\* account is its own, though it may be given an API key.
THEOREM AdministratorExcluded == AuthSpec => []AdministratorNeverActs
<1>1. AuthInv => AdministratorNeverActs
  <2>. SUFFICES ASSUME AuthInv PROVE AdministratorNeverActs
    OBVIOUS
  <2>1. Administrator # None
    BY AuthenticationAssumption
  <2>. QED BY <2>1 DEF AuthInv, Good, AdministratorOut, AdministratorNeverActs
<1>. QED BY AuthInvariant, <1>1, PTL

\* authenticateIdentity: an unverified identity brings no principal into
\* being and is never accepted.
THEOREM UnverifiedStaysOut == AuthSpec => []UnverifiedCreatesNothing
<1>1. AuthInv => UnverifiedCreatesNothing
  BY DEF AuthInv, Good, SigningIn, UnverifiedCreatesNothing
<1>. QED BY AuthInvariant, <1>1, PTL

\* findOwnedById, listOwned: a customer is shown accounts of its own only.
THEOREM OwnAccountsOnly == AuthSpec => []ShownIsOwned
<1>1. AuthInv => ShownIsOwned
  BY DEF AuthInv, Good, ShownIsOwned
<1>. QED BY AuthInvariant, <1>1, PTL

\* A step that accepts a request: its key was not revoked, and the principal
\* it acts as not disabled.
LEMMA AcceptedIsActive ==
  ASSUME AuthInv, [AuthNext]_authVars, NEW r \in Requests,
         req[r].at # "accepted", req'[r].at = "accepted"
  PROVE  req[r].key \notin revoked /\ req'[r].as \notin disabled
<1>. USE AuthenticationAssumption
<1>0. /\ req[r] \in RequestsType /\ Good(req[r]) /\ revoked \subseteq Keys
      /\ disabled \subseteq principals /\ req \in [Requests -> RequestsType]
  BY DEF AuthInv, AuthTypeOK
<1>refused. ~Refuse(r)
  <2>1. Refuse(r) => req'[r].at = "answered"
    BY <1>0 DEF Refuse, RequestsType
  <2>. QED BY <2>1
<1>accepted. ASSUME NEW p, req' = [req EXCEPT ![r].at = "accepted", ![r].as = p]
      PROVE  req'[r].as = p
  BY <1>0, <1>accepted DEF RequestsType
<1>1. CASE Authenticate(r)
  BY <1>0, <1>1, <1>refused, <1>accepted DEF Authenticate, Candidate, Active
<1>2. CASE FindPrincipal(r) \/ ReadWinner(r)
  <2>1. req[r].key = None
    BY <1>0, <1>2 DEF Good, SigningIn, FindPrincipal, ReadWinner
  <2>2. req'[r].as \notin disabled
    <3>1. Resolve(r, directory[req[r].subject])
      BY <1>2, <1>refused DEF FindPrincipal, ReadWinner
    <3>. QED BY <1>refused, <1>accepted, <3>1 DEF Resolve, Active
  <2>. QED BY <1>0, <2>1, <2>2
<1>3. CASE CommitSignIn(r)
  <2>1. req[r].key = None /\ req[r].own \notin principals
    BY <1>0, <1>3 DEF Good, SigningIn, CommitSignIn
  <2>2. req'[r].as = req[r].own
    <3>1. req' = [req EXCEPT ![r].at = "accepted", ![r].as = req[r].own, ![r].own = None]
      BY <1>3, <1>refused DEF CommitSignIn
    <3>. QED BY <1>0, <3>1 DEF RequestsType
  <2>. QED BY <1>0, <2>1, <2>2
<1>4. ASSUME \/ Arrive(r) \/ InsertPrincipal(r) \/ InsertMapping(r) \/ Fail(r) \/ Act(r) \/ Leave(r)
      PROVE  FALSE
  <2>1. CASE Arrive(r)
    <3>1. ASSUME NEW t \in Tokens, PresentToken(r, t)
          PROVE  FALSE
      <4>1. req'[r].at \in {"identity", "answered"}
        BY <1>0, <3>1 DEF PresentToken, Idle
      <4>. QED BY <4>1
    <3>2. ASSUME NEW k \in Keys, PresentKey(r, k)
          PROVE  FALSE
      <4>1. req'[r].at = "key"
        BY <1>0, <3>2 DEF PresentKey, Idle
      <4>. QED BY <4>1
    <3>. QED BY <1>refused, <2>1, <3>1, <3>2 DEF Arrive, RefuseCredential
  <2>2. CASE InsertPrincipal(r) \/ InsertMapping(r) \/ Fail(r)
    <3>1. req'[r].at \in {"mapping", "commit", "winner"}
      BY <1>0, <1>refused, <2>2 DEF InsertPrincipal, InsertMapping, LoseRace, Goes, Fail, RequestsType
    <3>. QED BY <3>1
  <2>3. CASE Act(r) \/ Leave(r)
    BY <1>0, <2>3 DEF Act, ReadAccounts, OpenAccount, Goes, Leave, Idle
  <2>. QED BY <1>4, <2>1, <2>2, <2>3
<1>5. ASSUME NEW q \in Requests, q # r, Arrive(q) \/ SignIn(q) \/ Act(q) \/ Leave(q)
      PROVE  FALSE
  BY <1>0, <1>5 DEF Arrive, PresentKey, PresentToken, RefuseCredential, Refuse, SignIn,
       Authenticate, FindPrincipal, Resolve, InsertPrincipal, InsertMapping, LoseRace, Goes,
       CommitSignIn, ReadWinner, Fail, Act, ReadAccounts, OpenAccount, Leave
<1>6. ASSUME Administer \/ UNCHANGED authVars
      PROVE  FALSE
  BY <1>6 DEF Administer, CreatePrincipal, IssueApiKey, RevokeApiKey, SetStatus, authVars
<1>. QED BY <1>1, <1>2, <1>3, <1>4, <1>5, <1>6 DEF AuthNext, SignIn

\* API.md: "Revocation takes effect on the next request".
THEOREM RevocationBites == AuthSpec => BarredStaysOut
<1>1. AuthInv /\ [AuthNext]_authVars =>
        [\A r \in Requests :
           req[r].at # "accepted" /\ req'[r].at = "accepted" /\ req[r].barred =>
             req[r].key \notin revoked /\ req'[r].as \notin disabled]_authVars
  BY AcceptedIsActive
<1>. QED BY AuthInvariant, <1>1, PTL DEF AuthSpec, BarredStaysOut

\* Sign-in, whatever races and lost commits there are, implements the
\* directory of OnePrincipal: one principal per identity, and none left over.
THEOREM IdentitiesRefine == AuthSpec => MapsEachIdentityOnce
<1>. USE AuthenticationAssumption
<1>1. AuthInit => Directory!Init
  BY DEF AuthInit, Directory!Init
<1>2. AuthInv /\ [AuthNext]_authVars => [Directory!Next]_<<directory, strangers, principals>>
  <2>. SUFFICES ASSUME AuthInv, [AuthNext]_authVars
                PROVE  Directory!Next \/ UNCHANGED <<directory, strangers, principals>>
    OBVIOUS
  <2>1. ASSUME NEW r \in Requests, CommitSignIn(r)
        PROVE  Directory!Next
    <3>1. req[r].own \in Principals \ principals /\ req[r].subject \in Subjects
          /\ directory[req[r].subject] = None
      BY <2>1, CommitStep
    <3>2. Directory!Register(req[r].subject)
      BY <2>1, <3>1 DEF CommitSignIn, Directory!Register
    <3>. QED BY <3>1, <3>2 DEF Directory!Next
  <2>2. CASE CreatePrincipal
    BY <2>2 DEF CreatePrincipal, Directory!Create, Directory!Next
  <2>3. ASSUME NEW r \in Requests,
               \/ Arrive(r) \/ Authenticate(r) \/ FindPrincipal(r) \/ InsertPrincipal(r)
               \/ InsertMapping(r) \/ ReadWinner(r) \/ Fail(r) \/ Act(r) \/ Leave(r)
        PROVE  UNCHANGED <<directory, strangers, principals>>
    BY <2>3 DEF Arrive, PresentKey, PresentToken, RefuseCredential, Authenticate, FindPrincipal,
         InsertPrincipal, InsertMapping, LoseRace, ReadWinner, Fail, Act, ReadAccounts,
         OpenAccount, Leave, tables
  <2>4. ASSUME \/ \E k \in Keys, p \in Principals : IssueApiKey(k, p)
               \/ \E k \in Keys : RevokeApiKey(k)
               \/ \E p \in Principals : SetStatus(p)
               \/ UNCHANGED authVars
        PROVE  UNCHANGED <<directory, strangers, principals>>
    BY <2>4 DEF IssueApiKey, RevokeApiKey, SetStatus, authVars, tables
  <2>. QED BY <2>1, <2>2, <2>3, <2>4 DEF AuthNext, SignIn, Administer
<1>. QED BY <1>1, <1>2, AuthInvariant, PTL DEF AuthSpec, MapsEachIdentityOnce, Directory!Spec

\* apiKeyGuard, authenticateIdentity and the routes behind them: all of these,
\* for any number of requests, identities, keys and principals.
THEOREM ByRight == AuthSpec => ActsByRight
BY ActsAsOwn, AdministratorExcluded, UnverifiedStaysOut, OwnAccountsOnly,
   RevocationBites, PTL DEF ActsByRight
----------------------------------------------------------------------------
(***************************************************************************)
(* Retention, for any tables, batch size and number of sweeps.             *)
(*                                                                         *)
(* The argument: what a sweep may delete is settled when it starts,        *)
(* because its cutoff is in the past and rows finish today (WindowOf).     *)
(* Every row that is gone is with the one sweep that deleted it            *)
(* (RowsAreAccountedFor), whose counter is the number of its rows          *)
(* (Counted).  A batch that is not full is all there is of the table       *)
(* (ProgressOf), unless another sweep deleted rows of it meanwhile: that   *)
(* is what raced says.                                                     *)
(***************************************************************************)

SweepSteps == {"idle", "counting", "previewed", "failed", "outbox", "deleting outbox",
               "idempotency", "deleting records", "done"}

SweepState ==
  [at : SweepSteps, cutoff : Int, picked : SUBSET Rows, removed : Nat,
   due : SUBSET Rows, raced : BOOLEAN]

SweepTypes ==
  /\ day \in 0..MaxDay
  /\ present \subseteq Rows
  /\ finished \in [Rows -> -1..MaxDay]
  /\ gone \in [Sweepers -> SUBSET Rows]
  /\ sweep \in [Sweepers -> SweepState]

\* Where the rows are: still there, or with the one sweep that deleted them.
RowsAreAccountedFor ==
  /\ \A r \in Rows \ present : \E s \in Sweepers : r \in gone[s]
  /\ \A s \in Sweepers : gone[s] \cap present = {}
  /\ \A s, t \in Sweepers : s # t => gone[s] \cap gone[t] = {}

Counted(s) ==
  IF s \in DryRun THEN /\ gone[s] = {} /\ sweep[s].picked = {}
                       /\ sweep[s].at \in {"idle", "counting", "previewed", "failed"}
  ELSE /\ sweep[s].removed = Cardinality(gone[s])
       /\ sweep[s].at = "idle" => gone[s] = {} /\ sweep[s].removed = 0
       /\ sweep[s].at \notin {"counting", "previewed"}

\* The window: what a sweep may delete was finished before its cutoff when it
\* started, and nothing becomes so while it runs.
WindowOf(s) ==
  /\ sweep[s].at = "idle" => sweep[s].due = {} /\ sweep[s].picked = {}
  /\ sweep[s].at # "idle" => sweep[s].cutoff < day
  /\ \A r \in sweep[s].due : Eligible(r, sweep[s].cutoff)
  /\ sweep[s].at # "idle" =>
       \A r \in present : Eligible(r, sweep[s].cutoff) => r \in sweep[s].due
  /\ sweep[s].picked \subseteq sweep[s].due
  /\ gone[s] \subseteq sweep[s].due

\* How far it is: the tables it is through with, and what a short batch means.
ThroughWith(s) ==
  IF sweep[s].at = "done" THEN Rows
  ELSE IF sweep[s].at \in {"idempotency", "deleting records"} THEN OutboxRows ELSE {}

ProgressOf(s) ==
  /\ ~sweep[s].raced => sweep[s].due \cap present \cap ThroughWith(s) = {}
  /\ sweep[s].at \in {"deleting outbox", "deleting records"} =>
       /\ sweep[s].picked \subseteq Table(s)
       /\ Cardinality(sweep[s].picked) < BatchSize =>
            sweep[s].due \cap present \cap Table(s) \subseteq sweep[s].picked

RetentionInv ==
  /\ SweepTypes
  /\ RowsAreAccountedFor
  /\ \A s \in Sweepers : Counted(s) /\ WindowOf(s) /\ ProgressOf(s)

----------------------------------------------------------------------------

\* The tables are finite, and so is every part of them.
LEMMA RowsFinite == \A S \in SUBSET Rows : IsFiniteSet(S) /\ Cardinality(S) \in Nat
BY RetentionAssumption, FS_Union, FS_Subset, FS_CardinalityType DEF Rows

\* The invariant holds before any sweep.
LEMMA RetentionInitInv == RetentionInit => RetentionInv
<1> SUFFICES ASSUME RetentionInit PROVE RetentionInv
  OBVIOUS
<1>1. NotSweeping \in SweepState
  BY DEF NotSweeping, SweepState, SweepSteps, Unfinished
<1>2. SweepTypes
  BY <1>1, RetentionAssumption DEF RetentionInit, SweepTypes, Unfinished
<1>3. Cardinality({}) = 0
  BY FS_EmptySet
<1>4. RowsAreAccountedFor
  BY DEF RetentionInit, RowsAreAccountedFor
<1>5. ASSUME NEW s \in Sweepers PROVE Counted(s) /\ WindowOf(s) /\ ProgressOf(s)
  BY <1>3 DEF RetentionInit, NotSweeping, Counted, WindowOf, ProgressOf, ThroughWith
<1> QED BY <1>2, <1>4, <1>5 DEF RetentionInv

\* Another day: cutoffs of sweeps under way stay in the past.
LEMMA NextDayKeepsInv == RetentionInv /\ NextDay => RetentionInv'
<1> SUFFICES ASSUME RetentionInv, NextDay PROVE RetentionInv'
  OBVIOUS
<1> USE DEF RetentionInv, NextDay
<1>1. SweepTypes'
  BY RetentionAssumption DEF SweepTypes
<1>2. RowsAreAccountedFor'
  BY DEF RowsAreAccountedFor
<1>3. ASSUME NEW s \in Sweepers PROVE (Counted(s) /\ WindowOf(s) /\ ProgressOf(s))'
  <2>1. sweep[s].cutoff \in Int /\ day \in Int
    BY RetentionAssumption DEF SweepTypes, SweepState
  <2>2. WindowOf(s)'
    BY <2>1 DEF WindowOf, Eligible
  <2> QED BY <2>2 DEF Counted, ProgressOf, ThroughWith, Table
<1> QED BY <1>1, <1>2, <1>3

\* A row that finishes today is not before any cutoff.
LEMMA FinishKeepsInv ==
  ASSUME RetentionInv, NEW r \in Rows, Finish(r) PROVE RetentionInv'
<1> USE DEF RetentionInv, Finish
<1>1. SweepTypes'
  BY RetentionAssumption DEF SweepTypes
<1>2. RowsAreAccountedFor'
  BY DEF RowsAreAccountedFor
<1>3. ASSUME NEW s \in Sweepers PROVE (Counted(s) /\ WindowOf(s) /\ ProgressOf(s))'
  <2>1. sweep[s].cutoff \in Int /\ day \in Int /\ finished \in [Rows -> Int]
        /\ sweep[s].due \subseteq Rows /\ present \subseteq Rows
    BY RetentionAssumption DEF SweepTypes, SweepState
  <2>2. sweep[s].at # "idle" => ~Eligible(r, sweep[s].cutoff)'
    BY <2>1 DEF Eligible, WindowOf, SweepTypes
  <2>3. \A q \in Rows : q # r => (Eligible(q, sweep[s].cutoff)' <=> Eligible(q, sweep[s].cutoff))
    BY <2>1 DEF Eligible
  <2>4. ~Eligible(r, sweep[s].cutoff)
    BY DEF Eligible
  <2>5. WindowOf(s)'
    BY <2>1, <2>2, <2>3, <2>4 DEF WindowOf
  <2> QED BY <2>5 DEF Counted, ProgressOf, ThroughWith, Table
<1> QED BY <1>1, <1>2, <1>3

\* A step of one sweeper that leaves the rows alone.
LEMMA OwnStepKeepsInv ==
  ASSUME RetentionInv, NEW s \in Sweepers, NEW w \in SweepState,
         sweep' = [sweep EXCEPT ![s] = w], UNCHANGED <<day, present, finished, gone>>,
         (Counted(s) /\ WindowOf(s) /\ ProgressOf(s))'
  PROVE  RetentionInv'
<1> USE DEF RetentionInv
<1>1. SweepTypes'
  BY DEF SweepTypes
<1>2. RowsAreAccountedFor'
  BY DEF RowsAreAccountedFor
<1>3. ASSUME NEW t \in Sweepers PROVE (Counted(t) /\ WindowOf(t) /\ ProgressOf(t))'
  <2>1. CASE t = s
    BY <2>1
  <2>2. CASE t # s
    <3>1. sweep'[t] = sweep[t]
      BY <2>2 DEF SweepTypes
    <3>2. Counted(t)'
      BY <3>1 DEF Counted
    <3>3. WindowOf(t)'
      BY <3>1 DEF WindowOf, Eligible
    <3>4. ProgressOf(t)'
      BY <3>1 DEF ProgressOf, ThroughWith, Table
    <3> QED BY <3>2, <3>3, <3>4
  <2> QED BY <2>1, <2>2
<1> QED BY <1>1, <1>2, <1>3

\* A sweep takes its cutoff before today: what is due is settled.
LEMMA StartSweepKeepsInv ==
  ASSUME RetentionInv, NEW s \in Sweepers, StartSweep(s) PROVE RetentionInv'
<1>1. sweep \in [Sweepers -> SweepState] /\ sweep[s] \in SweepState /\ day \in Int
      /\ present \subseteq Rows
  BY RetentionAssumption DEF RetentionInv, SweepTypes
<1>2. PICK c : c = day - Days[s]
  OBVIOUS
<1>3. c \in Int /\ c < day
  BY <1>1, <1>2, RetentionAssumption
<1>4. PICK D : D = {r \in present : Eligible(r, c)}
  OBVIOUS
<1>5. PICK w : w = [sweep[s] EXCEPT !.cutoff = c, !.due = D,
                                    !.at = IF s \in DryRun THEN "counting" ELSE "outbox"]
  OBVIOUS
<1>6. w \in SweepState
  BY <1>1, <1>3, <1>4, <1>5 DEF SweepState, SweepSteps
<1>7. sweep' = [sweep EXCEPT ![s] = w]
  BY <1>2, <1>4, <1>5 DEF StartSweep
<1>8. UNCHANGED <<day, present, finished, gone>>
  BY DEF StartSweep
<1>9. /\ sweep'[s].cutoff = c /\ sweep'[s].due = D
      /\ sweep'[s].at = IF s \in DryRun THEN "counting" ELSE "outbox"
      /\ sweep'[s].picked = sweep[s].picked /\ sweep'[s].removed = sweep[s].removed
  BY <1>1, <1>5, <1>7 DEF SweepState
<1>10. sweep[s].at = "idle" /\ sweep[s].picked = {} /\ gone[s] = {}
  BY DEF StartSweep, RetentionInv, WindowOf, Counted
<1>11. Counted(s)'
  BY <1>8, <1>9, <1>10 DEF RetentionInv, Counted
<1>12. WindowOf(s)'
  BY <1>3, <1>4, <1>8, <1>9, <1>10 DEF WindowOf, Eligible
<1>13. ProgressOf(s)'
  BY <1>9 DEF ProgressOf, ThroughWith
<1> QED BY <1>6, <1>7, <1>8, <1>11, <1>12, <1>13, OwnStepKeepsInv

\* A dry run counts and deletes nothing.
LEMMA PreviewKeepsInv ==
  ASSUME RetentionInv, NEW s \in Sweepers, Preview(s) PROVE RetentionInv'
<1>1. sweep \in [Sweepers -> SweepState] /\ sweep[s] \in SweepState /\ present \subseteq Rows
  BY DEF RetentionInv, SweepTypes
<1>2. PICK n : n = Cardinality({r \in present : Eligible(r, sweep[s].cutoff)})
  OBVIOUS
<1>3. n \in Nat
  BY <1>1, <1>2, RowsFinite
<1>4. PICK w : w = [sweep[s] EXCEPT !.at = "previewed", !.removed = n]
  OBVIOUS
<1>5. w \in SweepState
  BY <1>1, <1>3, <1>4 DEF SweepState, SweepSteps
<1>6. sweep' = [sweep EXCEPT ![s] = w] /\ UNCHANGED <<day, present, finished, gone>>
  BY <1>2, <1>4 DEF Preview
<1>7. /\ sweep'[s].cutoff = sweep[s].cutoff /\ sweep'[s].due = sweep[s].due
      /\ sweep'[s].at = "previewed" /\ sweep'[s].picked = sweep[s].picked
  BY <1>1, <1>4, <1>6 DEF SweepState
<1>8. sweep[s].at = "counting" /\ s \in DryRun
  BY DEF Preview, RetentionInv, Counted, ProgressOf
<1>9. Counted(s)'
  BY <1>6, <1>7, <1>8 DEF RetentionInv, Counted
<1>10. WindowOf(s)'
  BY <1>6, <1>7, <1>8 DEF RetentionInv, WindowOf, Eligible
<1>11. ProgressOf(s)'
  BY <1>7 DEF ProgressOf, ThroughWith
<1> QED BY <1>5, <1>6, <1>9, <1>10, <1>11, OwnStepKeepsInv

\* A sweep that fails keeps what it has deleted.
LEMMA SweepFailsKeepsInv ==
  ASSUME RetentionInv, NEW s \in Sweepers, SweepFails(s) PROVE RetentionInv'
<1>1. sweep \in [Sweepers -> SweepState] /\ sweep[s] \in SweepState
  BY DEF RetentionInv, SweepTypes
<1>2. PICK w : w = [sweep[s] EXCEPT !.at = "failed", !.picked = {}]
  OBVIOUS
<1>3. w \in SweepState
  BY <1>1, <1>2 DEF SweepState, SweepSteps
<1>4. sweep' = [sweep EXCEPT ![s] = w] /\ UNCHANGED <<day, present, finished, gone>>
  BY <1>2 DEF SweepFails
<1>5. /\ sweep'[s].cutoff = sweep[s].cutoff /\ sweep'[s].due = sweep[s].due
      /\ sweep'[s].at = "failed" /\ sweep'[s].picked = {} /\ sweep'[s].removed = sweep[s].removed
  BY <1>1, <1>2, <1>4 DEF SweepState
<1>6. sweep[s].at # "idle"
  BY DEF SweepFails
<1>7. Counted(s)'
  BY <1>4, <1>5, <1>6 DEF RetentionInv, Counted
<1>8. WindowOf(s)'
  BY <1>4, <1>5, <1>6 DEF RetentionInv, WindowOf, Eligible
<1>9. ProgressOf(s)'
  BY <1>5 DEF ProgressOf, ThroughWith
<1> QED BY <1>3, <1>4, <1>7, <1>8, <1>9, OwnStepKeepsInv

\* A batch that is not full is all there was to choose from.
LEMMA ShortBatchIsAll ==
  ASSUME NEW S \in SUBSET Rows, NEW B \in Batches(S), Cardinality(B) < BatchSize
  PROVE  B = S
<1>1. B \subseteq S /\ Cardinality(B) = IF Cardinality(S) < BatchSize THEN Cardinality(S)
                                        ELSE BatchSize
  BY DEF Batches
<1>2. IsFiniteSet(S) /\ Cardinality(S) \in Nat
  BY RowsFinite
<1>3. Cardinality(B) = Cardinality(S)
  BY <1>1, <1>2, RetentionAssumption
<1> QED BY <1>1, <1>2, <1>3, FS_Subset

\* A batch is picked among the rows that are due, skipping none of them when it
\* is not full.
LEMMA PickKeepsInv ==
  ASSUME RetentionInv, NEW s \in Sweepers, Pick(s) PROVE RetentionInv'
<1>1. sweep \in [Sweepers -> SweepState] /\ sweep[s] \in SweepState /\ present \subseteq Rows
  BY DEF RetentionInv, SweepTypes
<1>2. PICK S : S = {r \in present \cap Table(s) : Eligible(r, sweep[s].cutoff)}
  OBVIOUS
<1>3. PICK B \in Batches(S) :
        sweep' = [sweep EXCEPT ![s].picked = B,
                    ![s].at = IF @ = "outbox" THEN "deleting outbox" ELSE "deleting records"]
  BY <1>2 DEF Pick
<1>4. B \subseteq S /\ S \in SUBSET Rows
  BY <1>1, <1>2, <1>3 DEF Batches
<1>5. PICK w : w = [sweep[s] EXCEPT !.picked = B,
                      !.at = IF sweep[s].at = "outbox" THEN "deleting outbox" ELSE "deleting records"]
  OBVIOUS
<1>6. w \in SweepState
  BY <1>1, <1>4, <1>5 DEF SweepState, SweepSteps
<1>7. sweep' = [sweep EXCEPT ![s] = w] /\ UNCHANGED <<day, present, finished, gone>>
  BY <1>3, <1>5 DEF Pick
<1>8. /\ sweep'[s].cutoff = sweep[s].cutoff /\ sweep'[s].due = sweep[s].due
      /\ sweep'[s].at = (IF sweep[s].at = "outbox" THEN "deleting outbox" ELSE "deleting records")
      /\ sweep'[s].picked = B /\ sweep'[s].removed = sweep[s].removed
      /\ sweep'[s].raced = sweep[s].raced
  BY <1>1, <1>5, <1>7 DEF SweepState
<1>9. sweep[s].at \in {"outbox", "idempotency"}
  BY DEF Pick
<1>10. S \subseteq sweep[s].due
  BY <1>2, <1>9 DEF RetentionInv, WindowOf
<1>11. sweep[s].due \cap present \cap Table(s) \subseteq S
  BY <1>2 DEF RetentionInv, WindowOf
<1>12. Counted(s)'
  <2>1. s \notin DryRun
    BY <1>9 DEF RetentionInv, Counted
  <2>2. sweep[s].removed = Cardinality(gone[s])
    BY <2>1 DEF RetentionInv, Counted
  <2>3. sweep'[s].at \in {"deleting outbox", "deleting records"}
    BY <1>8
  <2> QED BY <1>7, <1>8, <2>1, <2>2, <2>3 DEF Counted
<1>13. WindowOf(s)'
  <2>1. sweep[s].at # "idle" /\ sweep'[s].at # "idle"
    BY <1>8, <1>9
  <2>2. WindowOf(s)
    BY DEF RetentionInv
  <2> QED BY <1>4, <1>7, <1>8, <1>10, <2>1, <2>2 DEF WindowOf, Eligible
<1>14. Table(s)' = Table(s) /\ ThroughWith(s)' = ThroughWith(s)
  BY <1>8, <1>9 DEF Table, ThroughWith
<1>15. Cardinality(B) < BatchSize => sweep[s].due \cap present \cap Table(s) \subseteq B
  BY <1>3, <1>4, <1>11, ShortBatchIsAll
<1>16. B \subseteq Table(s)
  BY <1>2, <1>4
<1>17. ProgressOf(s)'
  BY <1>7, <1>8, <1>14, <1>15, <1>16 DEF RetentionInv, ProgressOf
<1> QED BY <1>6, <1>7, <1>12, <1>13, <1>17, OwnStepKeepsInv

\* A batch is deleted: what another sweep deleted meanwhile is not counted.
LEMMA DeleteKeepsInv ==
  ASSUME RetentionInv, NEW s \in Sweepers, Delete(s) PROVE RetentionInv'
<1>1. /\ sweep \in [Sweepers -> SweepState] /\ sweep[s] \in SweepState
      /\ present \subseteq Rows /\ gone \in [Sweepers -> SUBSET Rows]
      /\ sweep[s].removed \in Nat
  BY DEF RetentionInv, SweepTypes, SweepState
<1>2. PICK D : D = sweep[s].picked \cap present
  OBVIOUS
<1>3. D \in SUBSET Rows
  BY <1>1, <1>2
<1>4. PICK n : n = sweep[s].removed + Cardinality(D)
  OBVIOUS
<1>5. n \in Nat
  BY <1>1, <1>3, <1>4, RowsFinite
<1>6. PICK lost \in BOOLEAN : lost = (sweep[s].raced \/ (Short(D, sweep[s].picked) /\ D # sweep[s].picked))
  BY <1>1 DEF SweepState
<1>7. PICK next : next = IF sweep[s].at = "deleting outbox"
                           THEN IF Short(D, sweep[s].picked) THEN "idempotency" ELSE "outbox"
                           ELSE IF Short(D, sweep[s].picked) THEN "done" ELSE "idempotency"
  OBVIOUS
<1>8. PICK w : w = [sweep[s] EXCEPT !.removed = n, !.picked = {}, !.raced = lost, !.at = next]
  OBVIOUS
<1>9. sweep[s].at \in {"deleting outbox", "deleting records"}
  BY DEF Delete
<1>10. w \in SweepState
  <2>1. next \in SweepSteps
    BY <1>7 DEF SweepSteps
  <2> QED BY <1>1, <1>5, <1>6, <1>8, <2>1 DEF SweepState
<1>11. sweep' = [sweep EXCEPT ![s] = w]
  BY <1>1, <1>2, <1>4, <1>6, <1>7, <1>8, <1>9 DEF Delete
<1>12. /\ present' = present \ D /\ gone' = [gone EXCEPT ![s] = @ \cup D]
       /\ UNCHANGED <<day, finished>>
  BY <1>2 DEF Delete
<1>13. /\ sweep'[s].cutoff = sweep[s].cutoff /\ sweep'[s].due = sweep[s].due
       /\ sweep'[s].at = next /\ sweep'[s].picked = {} /\ sweep'[s].removed = n
       /\ sweep'[s].raced = lost
  BY <1>1, <1>8, <1>11 DEF SweepState
<1>14. gone'[s] = gone[s] \cup D /\ gone[s] \cap D = {} /\ gone[s] \subseteq Rows
  BY <1>1, <1>2, <1>12 DEF RetentionInv, RowsAreAccountedFor
<1>15. s \notin DryRun
  BY <1>9 DEF RetentionInv, Counted
<1>16. next \notin {"idle", "counting", "previewed"}
  BY <1>7
<1>17. SweepTypes'
  BY <1>1, <1>3, <1>10, <1>11, <1>12 DEF RetentionInv, SweepTypes
<1>18. RowsAreAccountedFor'
  BY <1>1, <1>2, <1>12 DEF RetentionInv, RowsAreAccountedFor
<1>19. Counted(s)'
  <2>1. Cardinality(gone[s] \cup D) = Cardinality(gone[s]) + Cardinality(D)
    <3>1. IsFiniteSet(gone[s]) /\ IsFiniteSet(D)
      BY <1>3, <1>14, RowsFinite
    <3>2. Cardinality(gone[s]) \in Nat /\ Cardinality(D) \in Nat
      BY <1>3, <1>14, RowsFinite
    <3>3. Cardinality(gone[s] \cap D) = 0
      BY <1>14, FS_EmptySet
    <3>4. Cardinality(gone[s] \cup D)
            = Cardinality(gone[s]) + Cardinality(D) - Cardinality(gone[s] \cap D)
      BY <3>1, FS_Union
    <3> QED BY <3>2, <3>3, <3>4
  <2> QED BY <1>4, <1>13, <1>14, <1>15, <1>16, <2>1 DEF RetentionInv, Counted
<1>20. WindowOf(s)'
  <2>1. WindowOf(s) /\ sweep[s].at # "idle"
    BY <1>9 DEF RetentionInv
  <2>2. D \subseteq sweep[s].due
    BY <1>2, <2>1 DEF WindowOf
  <2> QED BY <1>12, <1>13, <1>14, <1>16, <2>1, <2>2 DEF WindowOf, Eligible
<1>21. ProgressOf(s)'
  <2>1. ProgressOf(s) /\ present' \subseteq present /\ sweep'[s].at \notin {"deleting outbox", "deleting records"}
    BY <1>7, <1>12, <1>13 DEF RetentionInv
  <2> SUFFICES ASSUME ~lost PROVE sweep[s].due \cap present' \cap ThroughWith(s)' = {}
    BY <1>13, <2>1 DEF ProgressOf
  <2>2. sweep[s].due \cap present \cap ThroughWith(s) = {}
    BY <1>6, <2>1 DEF ProgressOf
  <2>3. ASSUME Short(D, sweep[s].picked) PROVE sweep[s].due \cap present' \cap Table(s) = {}
    <3>1. D = sweep[s].picked /\ Cardinality(sweep[s].picked) < BatchSize
      BY <1>6, <2>3 DEF Short
    <3> QED BY <1>9, <1>12, <2>1, <3>1 DEF ProgressOf
  <2>4. CASE sweep[s].at = "deleting outbox" /\ Short(D, sweep[s].picked)
    <3>1. ThroughWith(s)' = OutboxRows /\ Table(s) = OutboxRows
      BY <1>7, <1>13, <2>4 DEF ThroughWith, Table
    <3> QED BY <2>3, <2>4, <3>1
  <2>5. CASE sweep[s].at = "deleting outbox" /\ ~Short(D, sweep[s].picked)
    <3>1. ThroughWith(s)' = {}
      BY <1>7, <1>13, <2>5 DEF ThroughWith
    <3> QED BY <3>1
  <2>6. CASE sweep[s].at = "deleting records" /\ Short(D, sweep[s].picked)
    <3>1. ThroughWith(s)' = Rows /\ ThroughWith(s) = OutboxRows /\ Table(s) = IdempotencyRows
      BY <1>7, <1>13, <2>6 DEF ThroughWith, Table
    <3> QED BY <2>1, <2>2, <2>3, <2>6, <3>1 DEF Rows
  <2>7. CASE sweep[s].at = "deleting records" /\ ~Short(D, sweep[s].picked)
    <3>1. ThroughWith(s)' = OutboxRows /\ ThroughWith(s) = OutboxRows
      BY <1>7, <1>13, <2>7 DEF ThroughWith
    <3> QED BY <2>1, <2>2, <3>1
  <2> QED BY <1>9, <2>4, <2>5, <2>6, <2>7
<1>22. ASSUME NEW t \in Sweepers, t # s PROVE (Counted(t) /\ WindowOf(t) /\ ProgressOf(t))'
  <2>1. sweep'[t] = sweep[t] /\ gone'[t] = gone[t]
    BY <1>1, <1>11, <1>12, <1>22
  <2>2. present' \subseteq present
    BY <1>12
  <2>3. Counted(t)'
    BY <2>1 DEF RetentionInv, Counted
  <2>4. WindowOf(t)'
    <3>1. WindowOf(t)
      BY DEF RetentionInv
    <3> QED BY <1>12, <2>1, <2>2, <3>1 DEF WindowOf, Eligible
  <2>5. ProgressOf(t)'
    <3>1. ProgressOf(t) /\ Table(t)' = Table(t) /\ ThroughWith(t)' = ThroughWith(t)
      BY <2>1 DEF RetentionInv, Table, ThroughWith
    <3> QED BY <2>1, <2>2, <3>1 DEF ProgressOf
  <2> QED BY <2>3, <2>4, <2>5
<1> QED BY <1>17, <1>18, <1>19, <1>20, <1>21, <1>22 DEF RetentionInv

\* No step breaks the invariant.
LEMMA RetentionNextInv == RetentionInv /\ [RetentionNext]_retentionVars => RetentionInv'
<1> SUFFICES ASSUME RetentionInv, [RetentionNext]_retentionVars PROVE RetentionInv'
  OBVIOUS
<1>1. CASE NextDay
  BY <1>1, NextDayKeepsInv
<1>2. CASE \E r \in Rows : Finish(r)
  BY <1>2, FinishKeepsInv
<1>3. CASE \E s \in Sweepers :
             StartSweep(s) \/ Preview(s) \/ Pick(s) \/ Delete(s) \/ SweepFails(s)
  BY <1>3, StartSweepKeepsInv, PreviewKeepsInv, PickKeepsInv, DeleteKeepsInv, SweepFailsKeepsInv
<1>4. CASE UNCHANGED retentionVars
  <2>1. SweepTypes'
    BY <1>4 DEF RetentionInv, SweepTypes, retentionVars
  <2>2. RowsAreAccountedFor'
    BY <1>4 DEF RetentionInv, RowsAreAccountedFor, retentionVars
  <2>3. ASSUME NEW s \in Sweepers PROVE (Counted(s) /\ WindowOf(s) /\ ProgressOf(s))'
    BY <1>4 DEF RetentionInv, retentionVars, Counted, WindowOf, ProgressOf, ThroughWith, Table,
       Eligible
  <2> QED BY <2>1, <2>2, <2>3 DEF RetentionInv
<1> QED BY <1>1, <1>2, <1>3, <1>4 DEF RetentionNext

\* The inductive invariant of any number of sweeps at once.
THEOREM RetentionInvariant == RetentionSpec => []RetentionInv
BY RetentionInitInv, RetentionNextInv, PTL DEF RetentionSpec

\* Type correctness of the tables and of the sweeps.
THEOREM RetentionTypeCorrect == RetentionSpec => []RetentionTypeOK
<1>1. RetentionInv => RetentionTypeOK
  BY DEF RetentionInv, SweepTypes, SweepState, RetentionTypeOK
<1> QED BY <1>1, RetentionInvariant, PTL

\* purgeProcessedBefore, purgeCompletedBefore and the CLI: a sweep removes only what was
\* due when it started, counts each row it removed once, and leaves nothing due
\* unless another sweep raced it, for any tables, batches and sweeps.
THEOREM SweepsExact == RetentionSpec => []SweepsAreExact
<1>1. RetentionInv => RemovedCountedOnce
  BY DEF RetentionInv, RowsAreAccountedFor, Counted, RemovedCountedOnce
<1>2. RetentionInv => OnlyDueIsRemoved
  BY DEF RetentionInv, Counted, WindowOf, OnlyDueIsRemoved
<1>3. RetentionInv => NothingDueIsLeft
  <2> SUFFICES ASSUME RetentionInv, NEW s \in Sweepers, sweep[s].at = "done", ~sweep[s].raced
               PROVE  sweep[s].due \cap present = {}
    BY DEF NothingDueIsLeft
  <2>1. ThroughWith(s) = Rows /\ present \subseteq Rows
    BY DEF ThroughWith, RetentionInv, SweepTypes
  <2> QED BY <2>1 DEF RetentionInv, ProgressOf
<1> QED BY <1>1, <1>2, <1>3, RetentionInvariant, PTL DEF SweepsAreExact

----------------------------------------------------------------------------
(***************************************************************************)
(* OutboxOperator, for any events, operators and attempts.                 *)
(*                                                                         *)
(* The argument: a replay takes an event from parked to its first attempt  *)
(* in one statement, and only a mark parks it again, so replays never      *)
(* outnumber parkings (OneReplayPerParking).  What a command says is       *)
(* decided in the statement that changes the event (CommandTells).         *)
(***************************************************************************)

\* Reclaims take an event past MaxAttempts; nothing but their bound stops them.
AttemptsOK == attempts \in [Events -> 0..(MaxAttempts + MaxReclaims)]

EventsOK ==
  /\ state \in [Events -> States]
  /\ parkings \in [Events -> 0..MaxParkings]
  /\ replays \in [Events -> Nat]

Remarks ==
  {"nothing", "no such event", "not parked", "event", "no parked events", "parked events"}

CommandState ==
  [at : {"idle", "over", "explaining", "listed"}, exit : {"none", "ok", "error"},
   showing : Nat, said : Remarks, of : SUBSET Events]

CommandsOK ==
  /\ op \in [Operators -> CommandState]
  /\ \A o \in Operators : op[o].at = "idle" => op[o].of = {} /\ op[o].exit = "none"

OperatorInv == AttemptsOK /\ EventsOK /\ OneReplayPerParking

----------------------------------------------------------------------------

\* The invariant holds of events nobody has claimed.
LEMMA OperatorInitInv == OperatorInit => OperatorInv
BY OutboxOperatorAssumption
DEF OperatorInit, OperatorInv, AttemptsOK, EventsOK, OneReplayPerParking, States

\* A claim counts one attempt, be it the first or of an expired lease.
LEMMA ClaimKeepsInv == ASSUME OperatorInv, NEW e \in Events, Claim(e) PROVE OperatorInv'
<1> USE OutboxOperatorAssumption DEF OperatorInv, AttemptsOK, EventsOK, Claim, history
<1>1. attempts[e] + 1 \in 0..(MaxAttempts + MaxReclaims)
  OBVIOUS
<1>2. AttemptsOK'
  BY <1>1
<1>3. EventsOK'
  BY DEF States
<1>4. OneReplayPerParking'
  BY DEF OneReplayPerParking
<1> QED BY <1>2, <1>3, <1>4

\* A mark parks an event at most once, whichever claim it is from: it changes
\* nothing unless the event is in processing.
LEMMA MarkKeepsInv == ASSUME OperatorInv, NEW e \in Events, Mark(e) PROVE OperatorInv'
<1> USE OutboxOperatorAssumption DEF OperatorInv, AttemptsOK, EventsOK
<1>1. CASE state' = [state EXCEPT ![e] = "processed"] /\ UNCHANGED parkings
  BY <1>1 DEF Mark, States, OneReplayPerParking
<1>2. CASE state' = [state EXCEPT ![e] = "failed"] /\ UNCHANGED parkings
  BY <1>2 DEF Mark, States, OneReplayPerParking
<1>3. CASE /\ parkings[e] < MaxParkings
           /\ state' = [state EXCEPT ![e] = "parked"]
           /\ parkings' = [parkings EXCEPT ![e] = @ + 1]
  <2>1. parkings[e] + 1 \in 0..MaxParkings
    BY <1>3
  <2>2. AttemptsOK' /\ EventsOK'
    BY <1>3, <2>1 DEF Mark, States
  <2>3. OneReplayPerParking'
    BY <1>3 DEF Mark, OneReplayPerParking
  <2> QED BY <2>2, <2>3
<1> QED BY <1>1, <1>2, <1>3 DEF Mark

\* What retention deletes is neither parked nor replayed again.
LEMMA PurgeKeepsInv == ASSUME OperatorInv, NEW e \in Events, Purge(e) PROVE OperatorInv'
BY DEF OperatorInv, AttemptsOK, EventsOK, OneReplayPerParking, Purge, States, events, history

\* A replay takes parked events back to their first attempt.
LEMMA ReturnedKeepsInv ==
  ASSUME OperatorInv, NEW S \in SUBSET Events, \A e \in S : Replayable(e), Returned(S)
  PROVE  OperatorInv'
<1> USE OutboxOperatorAssumption DEF OperatorInv, AttemptsOK, EventsOK, Returned, Replayable
<1>1. AttemptsOK'
  OBVIOUS
<1>2. EventsOK'
  BY DEF States
<1>3. OneReplayPerParking'
  BY DEF OneReplayPerParking
<1> QED BY <1>1, <1>2, <1>3

\* No command breaks the invariant of the events.
LEMMA CommandKeepsInv ==
  ASSUME OperatorInv, NEW o \in Operators, Command(o) PROVE OperatorInv'
<1>1. ASSUME NEW e \in Events, Replay(o, e) PROVE OperatorInv'
  <2>1. CASE Replayable(e)
    BY <1>1, <2>1, ReturnedKeepsInv DEF Replay
  <2>2. CASE ~Replayable(e)
    BY <1>1, <2>2 DEF Replay, events, history, OperatorInv, AttemptsOK, EventsOK, OneReplayPerParking
  <2> QED BY <2>1, <2>2
<1>2. CASE ReplayAll(o)
  <2>1. PICK S : S = {e \in Events : Replayable(e)}
    OBVIOUS
  <2>2. S \in SUBSET Events /\ \A e \in S : Replayable(e)
    BY <2>1
  <2>3. Returned(S)
    BY <1>2, <2>1 DEF ReplayAll
  <2> QED BY <2>2, <2>3, ReturnedKeepsInv
<1>3. CASE \/ \E e \in Events : Show(o, e)
           \/ Explain(o) \/ List(o) \/ CountListed(o) \/ CommandLeaves(o)
  BY <1>3 DEF Show, Explain, List, CountListed, CommandLeaves, events, history,
     OperatorInv, AttemptsOK, EventsOK, OneReplayPerParking
<1> QED BY <1>1, <1>2, <1>3 DEF Command

\* No step breaks the invariant of the events.
LEMMA OperatorNextInv == OperatorInv /\ [OperatorNext]_operatorVars => OperatorInv'
<1> SUFFICES ASSUME OperatorInv, [OperatorNext]_operatorVars PROVE OperatorInv'
  OBVIOUS
<1>1. CASE \E e \in Events : Claim(e) \/ Mark(e) \/ Purge(e)
  BY <1>1, ClaimKeepsInv, MarkKeepsInv, PurgeKeepsInv
<1>2. CASE \E o \in Operators : Command(o)
  BY <1>2, CommandKeepsInv
<1>3. CASE UNCHANGED operatorVars
  BY <1>3 DEF operatorVars, events, history, OperatorInv, AttemptsOK, EventsOK, OneReplayPerParking
<1> QED BY <1>1, <1>2, <1>3 DEF OperatorNext

\* The inductive invariant of the events: the worker's attempts and the
\* operators' replays.
THEOREM OperatorInvariant == OperatorSpec => []OperatorInv
BY OperatorInitInv, OperatorNextInv, PTL DEF OperatorSpec

----------------------------------------------------------------------------

\* No command has run.
LEMMA CommandsInit == OperatorInit => CommandsOK
<1>1. NoCommand \in CommandState
  BY DEF NoCommand, CommandState, Remarks
<1> QED BY <1>1 DEF OperatorInit, CommandsOK, NoCommand

\* A command that ends tells its exit code and one remark.
LEMMA SaysKeepsCommands ==
  ASSUME CommandsOK, NEW o \in Operators, NEW exit \in {"ok", "error"}, NEW said \in Remarks,
         Says(o, exit, said)
  PROVE  CommandsOK'
<1>1. op[o] \in CommandState
  BY DEF CommandsOK
<1>2. [op[o] EXCEPT !.at = "over", !.exit = exit, !.said = said] \in CommandState
  BY <1>1 DEF CommandState
<1>3. op' = [op EXCEPT ![o] = [op[o] EXCEPT !.at = "over", !.exit = exit, !.said = said]]
  BY DEF Says
<1>4. op' \in [Operators -> CommandState]
  BY <1>2, <1>3 DEF CommandsOK
<1>5. \A c \in Operators : op'[c].at = "idle" => op'[c].of = {} /\ op'[c].exit = "none"
  BY <1>1, <1>3 DEF CommandsOK, CommandState
<1> QED BY <1>4, <1>5 DEF CommandsOK

\* The parked events can be counted.
LEMMA ParkedIsNat == Parked \in Nat
BY OutboxOperatorAssumption, FS_Subset, FS_CardinalityType DEF Parked

\* A command that replays tells which events it replayed.
LEMMA ReplayedKeepsCommands ==
  ASSUME CommandsOK, NEW o \in Operators, NEW S \in SUBSET Events,
         op' = [op EXCEPT ![o].at = "over", ![o].exit = "ok", ![o].of = S]
  PROVE  CommandsOK'
<1>1. op[o] \in CommandState
  BY DEF CommandsOK
<1>2. [op[o] EXCEPT !.at = "over", !.exit = "ok", !.of = S] \in CommandState
  BY <1>1 DEF CommandState
<1>3. op' = [op EXCEPT ![o] = [op[o] EXCEPT !.at = "over", !.exit = "ok", !.of = S]]
  OBVIOUS
<1>4. op' \in [Operators -> CommandState]
  BY <1>2, <1>3 DEF CommandsOK
<1>5. \A c \in Operators : op'[c].at = "idle" => op'[c].of = {} /\ op'[c].exit = "none"
  BY <1>1, <1>3 DEF CommandsOK, CommandState
<1> QED BY <1>4, <1>5 DEF CommandsOK

\* A command leaves the commands' states typed.
LEMMA CommandKeepsCommands ==
  ASSUME CommandsOK, NEW o \in Operators, Command(o) PROVE CommandsOK'
<1>0. op \in [Operators -> CommandState] /\ op[o] \in CommandState
  BY DEF CommandsOK
<1>1. ASSUME NEW e \in Events, Replay(o, e) PROVE CommandsOK'
  <2>1. CASE Replayable(e)
    <3>1. op' = [op EXCEPT ![o].at = "over", ![o].exit = "ok", ![o].of = {e}]
      BY <1>1, <2>1 DEF Replay
    <3>2. {e} \in SUBSET Events
      OBVIOUS
    <3>3. QED BY <3>1, <3>2, ReplayedKeepsCommands
  <2>2. CASE ~Replayable(e)
    <3>1. op' = [op EXCEPT ![o] = [op[o] EXCEPT !.at = "explaining", !.of = {e}]]
      BY <1>1, <2>2 DEF Replay
    <3>2. [op[o] EXCEPT !.at = "explaining", !.of = {e}] \in CommandState
      BY <1>0 DEF CommandState
    <3>3. op' \in [Operators -> CommandState]
      BY <1>0, <3>1, <3>2
    <3>4. \A c \in Operators : op'[c].at = "idle" => op'[c].of = {} /\ op'[c].exit = "none"
      BY <1>0, <3>1 DEF CommandsOK, CommandState
    <3> QED BY <3>3, <3>4 DEF CommandsOK
  <2> QED BY <2>1, <2>2
<1>2. ASSUME NEW e \in Events, Show(o, e) PROVE CommandsOK'
  BY <1>2, SaysKeepsCommands DEF Show, Remarks
<1>3. CASE ReplayAll(o)
  <2>1. PICK S : S = {e \in Events : Replayable(e)}
    OBVIOUS
  <2>2. op' = [op EXCEPT ![o].at = "over", ![o].exit = "ok", ![o].of = S]
    BY <1>3, <2>1 DEF ReplayAll
  <2>3. S \in SUBSET Events
    BY <2>1
  <2> QED BY <2>2, <2>3, ReplayedKeepsCommands
<1>4. CASE Explain(o)
  BY <1>4, SaysKeepsCommands DEF Explain, Remarks
<1>5. CASE List(o)
  <2>1. PICK n \in Nat : n = IF Parked < Limit THEN Parked ELSE Limit
    BY ParkedIsNat, OutboxOperatorAssumption
  <2>2. op' = [op EXCEPT ![o] = [op[o] EXCEPT !.at = "listed", !.showing = n]]
    BY <1>5, <2>1 DEF List
  <2>3. [op[o] EXCEPT !.at = "listed", !.showing = n] \in CommandState
    BY <1>0 DEF CommandState
  <2>4. op' \in [Operators -> CommandState]
    BY <1>0, <2>2, <2>3
  <2>5. \A c \in Operators : op'[c].at = "idle" => op'[c].of = {} /\ op'[c].exit = "none"
    BY <1>0, <2>2 DEF CommandsOK, CommandState
  <2> QED BY <2>4, <2>5 DEF CommandsOK
<1>6. CASE CountListed(o)
  BY <1>6, SaysKeepsCommands DEF CountListed, Remarks
<1>7. CASE CommandLeaves(o)
  <2>1. NoCommand \in CommandState /\ NoCommand.of = {} /\ NoCommand.exit = "none"
    BY DEF NoCommand, CommandState, Remarks
  <2> QED BY <1>0, <1>7, <2>1 DEF CommandLeaves, CommandsOK
<1> QED BY <1>1, <1>2, <1>3, <1>4, <1>5, <1>6, <1>7 DEF Command

\* No step leaves a command in an impossible state.
LEMMA CommandsNext == CommandsOK /\ [OperatorNext]_operatorVars => CommandsOK'
<1> SUFFICES ASSUME CommandsOK, [OperatorNext]_operatorVars PROVE CommandsOK'
  OBVIOUS
<1>1. ASSUME UNCHANGED op PROVE CommandsOK'
  BY <1>1 DEF CommandsOK
<1>2. CASE \E e \in Events : Claim(e) \/ Mark(e) \/ Purge(e)
  BY <1>1, <1>2 DEF Claim, Mark, Purge
<1>3. CASE \E o \in Operators : Command(o)
  BY <1>3, CommandKeepsCommands
<1>4. CASE UNCHANGED operatorVars
  BY <1>1, <1>4 DEF operatorVars
<1> QED BY <1>2, <1>3, <1>4 DEF OperatorNext

----------------------------------------------------------------------------
TellsWhatHappened ==
  \A o \in Operators :
    op[o].at = "idle" /\ op'[o].of # {} =>
      \A e \in op'[o].of :
        IF op'[o].exit = "ok" THEN state[e] = "parked" /\ state'[e] = "pending"
        ELSE state'[e] = state[e] /\ state[e] # "parked"

\* A command's exit code is true of the events it names.
LEMMA CommandTells ==
  ASSUME CommandsOK, OperatorInv, NEW c \in Operators, Command(c) PROVE TellsWhatHappened
<1> SUFFICES ASSUME NEW o \in Operators, op[o].at = "idle", op'[o].of # {}, NEW e \in op'[o].of
             PROVE  IF op'[o].exit = "ok" THEN state[e] = "parked" /\ state'[e] = "pending"
                    ELSE state'[e] = state[e] /\ state[e] # "parked"
  BY DEF TellsWhatHappened
<1>0. op \in [Operators -> CommandState] /\ op[o] \in CommandState /\ op[c] \in CommandState
  BY DEF CommandsOK
<1>1. op[o].of = {}
  BY DEF CommandsOK
<1>2. o = c
  <2>1. \E w : op' = [op EXCEPT ![c] = w]
    BY DEF Command, Replay, Show, ReplayAll, Explain, List, CountListed, CommandLeaves, Says
  <2> QED BY <1>0, <1>1, <2>1
<1>3. ASSUME NEW x, NEW y, Says(o, x, y) PROVE FALSE
  <2>1. op' = [op EXCEPT ![o] = [op[o] EXCEPT !.at = "over", !.exit = x, !.said = y]]
    BY <1>3 DEF Says
  <2>2. op'[o].of = op[o].of
    BY <1>0, <2>1 DEF CommandState
  <2> QED BY <1>1, <2>2
<1>4. CASE \E f \in Events : Show(o, f)
  BY <1>3, <1>4 DEF Show
<1>5. CASE List(o)
  BY <1>0, <1>1, <1>5 DEF List, CommandState
<1>6. CASE ReplayAll(o)
  <2>1. op'[o].of = {f \in Events : Replayable(f)} /\ op'[o].exit = "ok"
    BY <1>0, <1>6 DEF ReplayAll, CommandState
  <2>2. e \in Events /\ Replayable(e)
    BY <2>1
  <2>3. state'[e] = "pending"
    BY <1>6, <2>1, <2>2 DEF ReplayAll, Returned
  <2> QED BY <2>1, <2>2, <2>3 DEF Replayable
<1>7. ASSUME NEW f \in Events, Replay(o, f)
      PROVE  IF op'[o].exit = "ok" THEN state[e] = "parked" /\ state'[e] = "pending"
             ELSE state'[e] = state[e] /\ state[e] # "parked"
  <2>1. CASE Replayable(f)
    <3>1. op'[o].of = {f} /\ op'[o].exit = "ok"
      BY <1>0, <1>7, <2>1 DEF Replay, CommandState
    <3> QED BY <1>7, <2>1, <3>1 DEF Replay, Returned, Replayable
  <2>2. CASE ~Replayable(f)
    <3>1. op'[o].of = {f} /\ op'[o].exit = op[o].exit
      BY <1>0, <1>7, <2>2 DEF Replay, CommandState
    <3>2. op[o].exit # "ok"
      BY DEF CommandsOK
    <3> QED BY <1>7, <2>2, <3>1, <3>2 DEF Replay, Replayable, events
  <2> QED BY <2>1, <2>2
<1> QED BY <1>2, <1>4, <1>5, <1>6, <1>7 DEF Command, Explain, CountListed, CommandLeaves

\* So it is of every step.
LEMMA OperatorStepTells ==
  CommandsOK /\ OperatorInv /\ [OperatorNext]_operatorVars => [TellsWhatHappened]_operatorVars
<1> SUFFICES ASSUME CommandsOK, OperatorInv, [OperatorNext]_operatorVars
             PROVE  UNCHANGED operatorVars \/ TellsWhatHappened
  OBVIOUS
<1>1. CASE \E e \in Events : Claim(e) \/ Mark(e) \/ Purge(e)
  <2>1. op' = op
    BY <1>1 DEF Claim, Mark, Purge
  <2>2. \A o \in Operators : op[o].at = "idle" => op'[o].of = {}
    BY <2>1 DEF CommandsOK
  <2> QED BY <2>2 DEF TellsWhatHappened
<1>2. CASE \E o \in Operators : Command(o)
  BY <1>2, CommandTells
<1> QED BY <1>1, <1>2 DEF OperatorNext

\* The outbox command: an event is replayed at most once for each time it was
\* parked, by however many operators, and the exit code says what became of it.
THEOREM ParkedEventReplaysOnce == OperatorSpec => ReplaysOnceAndSaysSo
<1>1. OperatorSpec => []CommandsOK
  BY CommandsInit, CommandsNext, PTL DEF OperatorSpec
<1>2. OperatorSpec => [][TellsWhatHappened]_operatorVars
  BY <1>1, OperatorInvariant, OperatorStepTells, PTL DEF OperatorSpec
<1>3. OperatorInv => OneReplayPerParking
  BY DEF OperatorInv
<1>4. ExitTellsWhatHappened <=> [][TellsWhatHappened]_operatorVars
  BY DEF ExitTellsWhatHappened, TellsWhatHappened
<1> QED BY <1>2, <1>3, <1>4, OperatorInvariant, PTL DEF ReplaysOnceAndSaysSo

\* Type correctness of the events and of the commands.
THEOREM OperatorTypeCorrect == OperatorSpec => []OperatorTypeOK
<1>1. OperatorSpec => []CommandsOK
  BY CommandsInit, CommandsNext, PTL DEF OperatorSpec
<1>2. OperatorInv /\ CommandsOK => OperatorTypeOK
  <2> SUFFICES ASSUME OperatorInv, CommandsOK PROVE OperatorTypeOK
    OBVIOUS
  <2>1. \A o \in Operators : op[o] \in CommandState
    BY DEF CommandsOK
  <2>2. \A o \in Operators : op[o].exit \in {"none", "ok", "error"} /\ op[o].of \subseteq Events
    BY <2>1 DEF CommandState
  <2> QED BY <2>2 DEF OperatorTypeOK, OperatorInv, AttemptsOK, EventsOK
<1> QED BY <1>1, <1>2, OperatorInvariant, PTL

----------------------------------------------------------------------------
(***************************************************************************)
(* The parts of the server side by side: a step is a step of each part or  *)
(* leaves that part alone, so what was proved of one holds of all of them. *)
(***************************************************************************)

LEMMA PartsBegin ==
  Init => /\ AuthInit /\ PaginationInit /\ ReconciliationInit
          /\ RetentionInit /\ OperatorInit /\ SchemaInit
BY DEF Init

LEMMA PartsMove ==
  [Next]_vars => /\ [AuthNext]_authVars /\ [PaginationNext]_paginationVars
                 /\ [ReconciliationNext]_reconciliationVars /\ [RetentionNext]_retentionVars
                 /\ [OperatorNext]_operatorVars /\ [SchemaNext]_schemaVars
BY DEF Next, vars

LEMMA ServerIsItsParts ==
  Spec => /\ AuthSpec /\ PaginationSpec /\ ReconciliationSpec
          /\ RetentionSpec /\ OperatorSpec /\ SchemaSpec
BY PartsBegin, PartsMove, PTL
   DEF Spec, AuthSpec, PaginationSpec, ReconciliationSpec, RetentionSpec, OperatorSpec, SchemaSpec

\* Type correctness of the parts of the server and of their tables.
THEOREM PartsTypeCorrect == Spec => []TypeOK
<1>1. AuthTypeOK /\ PaginationTypeOK /\ ReconciliationTypeOK /\ RetentionTypeOK
        /\ OperatorTypeOK /\ SchemaTypeOK => TypeOK
  BY DEF TypeOK
<1>. QED BY <1>1, ServerIsItsParts, AuthTypeCorrect, PaginationTypeCorrect,
            ReconciliationTypeCorrect, RetentionTypeCorrect, OperatorTypeCorrect,
            SchemaTypeCorrect, PTL

\* The parts of the server: lists are complete, the report is true, sweeps are
\* exact, requests act by right, an identity has one principal, a parked event
\* is replayed once, and the books stay sound.
THEOREM ServerIsSound ==
  Spec => /\ [](WalkIsComplete /\ ReportIsTrue /\ SweepsAreExact)
          /\ ActsByRight /\ MapsEachIdentityOnce /\ ReplaysOnceAndSaysSo /\ BooksStaySound
BY ServerIsItsParts, WalksAreComplete, ReportsAreTrue, SweepsExact, ByRight, IdentitiesRefine,
   ParkedEventReplaysOnce, BooksAreSound, PTL
=============================================================================
