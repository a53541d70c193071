---------------------------- MODULE WebSession -----------------------------
(***************************************************************************)
(* Who the web client says it is.  One browser tab holds a customer API    *)
(* key and an admin key in sessionStorage (session.ts) and a Firebase user *)
(* (firebase.ts); every request picks its credential when it is made       *)
(* (api.ts, request), a 401 drops a stored key, and the guards of App.tsx  *)
(* send the visitor to a sign-in page or let him through.  Checks of a     *)
(* pasted key, sign-ins and requests are pending while the visitor goes    *)
(* elsewhere; keys are revoked and emails verified behind the tab's back.  *)
(***************************************************************************)
EXTENDS FiniteSets, Naturals

CONSTANTS
  ApiKeys, AdminKeys, \* the keys this visitor can paste
  Users,              \* the Firebase users this visitor can sign in as
  MaxSessionCalls,    \* bound on the requests in flight
  MaxRevoked,         \* bound on the keys revoked
  NoOne, Restoring    \* useFirebaseUser: no user; not yet known

\* No key and no user is null or undefined.
ASSUME WebSessionAssumption ==
  /\ NoOne # Restoring
  /\ {NoOne, Restoring} \cap (ApiKeys \cup AdminKeys \cup Users) = {}

VARIABLES
  customerKey, adminKey, \* the slots of sessionStorage
  user,                  \* auth.currentUser
  at,                    \* the location
  trying,                \* the credential the mounted sign-in form is busy with
  pending,               \* users whose Firebase sign-in is on its way
  leaving,               \* firebaseSignOut is on its way
  requests,              \* requests in flight, with their answers once there are any
  confirmed,             \* users that followed the link of their verification mail
  profile,               \* users whose User object says emailVerified
  claim,                 \* users whose ID token says email_verified
  rendered,              \* users Customer has let through since they signed in
  refreshing,            \* refreshVerification waits for the new token of this user
  valid                  \* the keys the server accepts: not revoked, of an active principal

stored == <<customerKey, adminKey>>
email  == <<confirmed, profile, claim, refreshing>>

sessionVars ==
  <<stored, user, at, trying, pending, leaving, requests, email, rendered, valid>>

Paths == {"landing", "login/user", "login/admin", "app", "admin"}
SessionCall  == [slot : {"customer", "admin"}, by : {"stored", "token", "candidate"},
          cred : ApiKeys \cup AdminKeys \cup Users \cup {NoOne},
          answer : {"none", "ok", "401"}]

SignedInUser(u) == u \notin {NoOne, Restoring}

\* Customer, AdminOnly, and the login pages' redirects of those already in.
Landed(path, key, admin, u) ==
  CASE path = "app" /\ key = NoOne /\ u = NoOne -> "login/user"
    [] path = "login/user" /\ (key # NoOne \/ SignedInUser(u)) -> "app"
    [] path = "admin" /\ admin = NoOne -> "login/admin"
    [] path = "login/admin" /\ admin # NoOne -> "admin"
    [] OTHER -> path

\* What Customer renders at /app.
Screen ==
  CASE customerKey # NoOne -> "pages"
    [] user = Restoring -> "restoring"
    [] user = NoOne -> "none"
    [] user \in rendered -> "pages"
    [] OTHER -> "verify"

\* Every render of Customer looks at user.emailVerified again.
Rendered(path, u) == IF path = "app" /\ u \in profile THEN rendered \cup {u} ELSE rendered

\* The location and the guards after a change of credentials.
Arrive(path) ==
  /\ at' = Landed(path, customerKey', adminKey', user')
  /\ rendered' = Rendered(at', user')

SessionInit ==
  /\ customerKey = NoOne /\ adminKey = NoOne
  /\ user = IF Users = {} THEN NoOne ELSE Restoring
  /\ at = "landing" /\ trying = NoOne /\ pending = {} /\ leaving = FALSE /\ requests = {}
  /\ confirmed = {} /\ profile = {} /\ claim = {} /\ rendered = {} /\ refreshing = NoOne
  /\ valid = ApiKeys \cup AdminKeys

----------------------------------------------------------------------------
(* The visitor *)

Browse(path) ==
  /\ at # path
  /\ trying' = NoOne
  /\ UNCHANGED <<stored, user, pending, leaving, requests, email, valid>>
  /\ Arrive(path)

\* The tabs "Email or Google" and "API key": the other form is mounted anew.
SwitchMethod ==
  /\ at = "login/user" /\ trying # NoOne
  /\ trying' = NoOne
  /\ UNCHANGED <<stored, user, at, pending, leaving, requests, email, rendered, valid>>

Send(c) ==
  /\ Cardinality(requests) < MaxSessionCalls
  /\ requests' = requests \cup {c}

\* The credential of a request is what is there when it is made: the stored
\* key wins over the Firebase user, and either may be missing.
CustomerCall ==
  IF customerKey # NoOne
  THEN [slot |-> "customer", by |-> "stored", cred |-> customerKey, answer |-> "none"]
  ELSE [slot |-> "customer", by |-> "token", answer |-> "none",
        cred |-> IF SignedInUser(user) THEN user ELSE NoOne]

AdminCall == [slot |-> "admin", by |-> "stored", cred |-> adminKey, answer |-> "none"]

CallAsCustomer ==
  /\ at = "app" /\ Screen = "pages"
  /\ Send(CustomerCall)
  /\ UNCHANGED <<stored, user, at, trying, pending, leaving, email, rendered, valid>>

CallAsAdmin ==
  /\ at = "admin"
  /\ Send(AdminCall)
  /\ UNCHANGED <<stored, user, at, trying, pending, leaving, email, rendered, valid>>

\* A function of two requests (listAccounts with its pages, onboard) makes the
\* next one wherever the visitor is by then, with what is stored by then.
FollowUp(c) ==
  /\ c.answer = "ok" /\ c.by # "candidate"
  /\ requests' = (requests \ {c}) \cup {IF c.slot = "customer" THEN CustomerCall ELSE AdminCall}
  /\ UNCHANGED <<stored, user, at, trying, pending, leaving, email, rendered, valid>>

\* The forms of UserLogin and AdminLogin: a key is tried before it is stored.
TryKey(k) ==
  /\ at = IF k \in ApiKeys THEN "login/user" ELSE "login/admin"
  /\ trying = NoOne /\ trying' = k
  /\ Send([slot |-> IF k \in ApiKeys THEN "customer" ELSE "admin",
           by |-> "candidate", cred |-> k, answer |-> "none"])
  /\ UNCHANGED <<stored, user, at, pending, leaving, email, rendered, valid>>

\* Google or email sign-in and sign-up; the stored key is dropped first.
StartSignIn(u) ==
  /\ at = "login/user" /\ u \notin pending
  /\ trying = NoOne /\ trying' = u
  /\ customerKey' = NoOne
  /\ pending' = pending \cup {u}
  /\ UNCHANGED <<adminKey, user, at, leaving, requests, email, rendered, valid>>

\* A new sign-in comes with a new profile and a new token.
SignedIn(u) ==
  /\ u \in pending
  /\ pending' = pending \ {u} /\ user' = u /\ trying' = NoOne
  /\ profile' = (profile \ {u}) \cup (confirmed \cap {u})
  /\ claim' = (claim \ {u}) \cup (confirmed \cap {u})
  /\ UNCHANGED <<stored, leaving, requests, confirmed, refreshing, valid>>
  /\ at' = Landed("app", customerKey, adminKey, u)
  /\ rendered' = (rendered \ {u}) \cup (confirmed \cap {u})

SignInFails(u) ==
  /\ u \in pending
  /\ pending' = pending \ {u}
  /\ trying' = IF trying = u THEN NoOne ELSE trying
  /\ UNCHANGED <<stored, user, at, leaving, requests, email, rendered, valid>>

\* Sign out of Dashboard, and "Use another account" of VerifyEmail.
SignOut ==
  /\ at = "app" /\ Screen \in {"pages", "verify"}
  /\ customerKey' = NoOne /\ leaving' = TRUE
  /\ trying' = NoOne
  /\ UNCHANGED <<adminKey, user, pending, requests, email, valid>>
  /\ Arrive(at)

SignedOutOfFirebase ==
  /\ leaving /\ leaving' = FALSE /\ user' = NoOne
  /\ UNCHANGED trying
  /\ UNCHANGED <<stored, pending, requests, email, valid>>
  /\ Arrive(at)

SignOutAdmin ==
  /\ at = "admin"
  /\ adminKey' = NoOne
  /\ trying' = NoOne
  /\ UNCHANGED <<customerKey, user, pending, leaving, requests, email, valid>>
  /\ Arrive(at)

\* "Open customer app as ...", with a key on a card, which may be revoked since.
OpenAs(k) ==
  /\ at = "admin"
  /\ customerKey' = k /\ trying' = NoOne
  /\ UNCHANGED <<adminKey, user, pending, leaving, requests, email, valid>>
  /\ Arrive("app")

\* A page reload: storage survives, promises do not, Firebase starts over.
ReloadPage ==
  /\ requests # {} \/ pending # {} \/ leaving \/ refreshing # NoOne
  /\ requests' = {} /\ pending' = {} /\ leaving' = FALSE /\ refreshing' = NoOne
  /\ trying' = NoOne
  /\ user' = IF SignedInUser(user) THEN Restoring ELSE user
  /\ rendered' = {}
  /\ at' = Landed(at, customerKey, adminKey, user')
  /\ UNCHANGED <<stored, confirmed, profile, claim, valid>>

----------------------------------------------------------------------------
(* Firebase and the verification mail *)

Restore ==
  /\ user = Restoring
  /\ user' \in Users \cup {NoOne}
  /\ trying' = NoOne
  /\ UNCHANGED <<stored, pending, leaving, requests, email, valid>>
  /\ Arrive(at)

FollowLink(u) ==
  /\ u \notin confirmed /\ confirmed' = confirmed \cup {u}
  /\ UNCHANGED <<stored, user, at, trying, pending, leaving, requests, profile, claim, refreshing,
                 rendered, valid>>

\* "I've verified my email": user.reload() changes the User object in place...
ReloadProfile ==
  /\ at = "app" /\ Screen = "verify" /\ refreshing = NoOne /\ user \in confirmed
  /\ profile' = profile \cup {user}
  /\ refreshing' = user
  /\ UNCHANGED <<stored, user, at, trying, pending, leaving, requests, confirmed, claim, rendered,
                 valid>>

\* ... then getIdToken(true) brings the claim, and onVerified renders again.
TokenRefreshed ==
  /\ refreshing # NoOne
  /\ claim' = claim \cup {refreshing} /\ refreshing' = NoOne
  /\ rendered' = IF at = "app" /\ user = refreshing THEN rendered \cup {user} ELSE rendered
  /\ UNCHANGED <<stored, user, at, trying, pending, leaving, requests, confirmed, profile, valid>>

TokenRefreshFails ==
  /\ refreshing # NoOne /\ refreshing' = NoOne
  /\ UNCHANGED <<stored, user, at, trying, pending, leaving, requests, confirmed, profile, claim,
                 rendered, valid>>

----------------------------------------------------------------------------
(* The server, and its answers reaching the tab *)

\* requireApiKey and requireAdminApiKey: no credential and a key that is not
\* valid are a 401; so is a token that is expired or not verifiable, or whose
\* principal is disabled.
Verdicts(c) ==
  CASE c.cred = NoOne -> {"401"}
    [] c.by = "token" -> {"401"} \cup {a \in {"ok"} : c.cred \in claim}
    [] OTHER -> {IF c.cred \in valid THEN "ok" ELSE "401"}

Decide(c) ==
  /\ c.answer = "none"
  /\ \E a \in Verdicts(c) : requests' = (requests \ {c}) \cup {[c EXCEPT !.answer = a]}
  /\ UNCHANGED <<stored, user, at, trying, pending, leaving, email, rendered, valid>>

RevokeKey(k) ==
  /\ Cardinality((ApiKeys \cup AdminKeys) \ valid) < MaxRevoked
  /\ valid' = valid \ {k}
  /\ UNCHANGED <<stored, user, at, trying, pending, leaving, requests, email, rendered>>

\* Mutant: without usedApiKey, the 401 of a Firebase token drops a key as well.
DropsKeyUnlessCandidate(c) == c.answer = "401" /\ c.by # "candidate"

\* A 401 drops whatever the slot holds now, for a request that used the slot.
DropsKey(c) == c.answer = "401" /\ c.by = "stored"

StoresKey(c) == c.by = "candidate" /\ c.answer = "ok"

Received(c) ==
  /\ c.answer # "none"
  /\ requests' = requests \ {c}
  /\ customerKey' = CASE c.slot = "customer" /\ StoresKey(c) -> c.cred
                      [] c.slot = "customer" /\ DropsKey(c) -> NoOne
                      [] OTHER -> customerKey
  /\ adminKey' = CASE c.slot = "admin" /\ StoresKey(c) -> c.cred
                   [] c.slot = "admin" /\ DropsKey(c) -> NoOne
                   [] OTHER -> adminKey
  /\ trying' = IF c.by = "candidate" /\ trying = c.cred THEN NoOne ELSE trying
  /\ UNCHANGED <<user, pending, leaving, email, valid>>
  /\ Arrive(IF StoresKey(c) THEN (IF c.slot = "customer" THEN "app" ELSE "admin") ELSE at)

\* Any other answer (the 403 of an unverified email, a 503), or none at all.
CallFails(c) ==
  /\ requests' = requests \ {c}
  /\ trying' = IF c.by = "candidate" /\ trying = c.cred THEN NoOne ELSE trying
  /\ UNCHANGED <<stored, user, at, pending, leaving, email, rendered, valid>>

SessionNext ==
  \/ \E path \in Paths : Browse(path)
  \/ SwitchMethod \/ CallAsCustomer \/ CallAsAdmin
  \/ \E k \in ApiKeys \cup AdminKeys : TryKey(k) \/ RevokeKey(k)
  \/ \E k \in ApiKeys : OpenAs(k)
  \/ \E u \in Users : StartSignIn(u) \/ SignedIn(u) \/ SignInFails(u) \/ FollowLink(u)
  \/ SignOut \/ SignedOutOfFirebase \/ SignOutAdmin \/ ReloadPage
  \/ Restore \/ ReloadProfile \/ TokenRefreshed \/ TokenRefreshFails
  \/ \E c \in requests : Decide(c) \/ Received(c) \/ FollowUp(c) \/ CallFails(c)

SessionSpec == SessionInit /\ [][SessionNext]_sessionVars

----------------------------------------------------------------------------
(* Properties *)

SessionTypeOK ==
  /\ customerKey \in ApiKeys \cup {NoOne}
  /\ adminKey \in AdminKeys \cup {NoOne}
  /\ user \in Users \cup {NoOne, Restoring}
  /\ at \in Paths
  /\ trying \in ApiKeys \cup AdminKeys \cup Users \cup {NoOne}
  /\ pending \subseteq Users /\ leaving \in BOOLEAN
  /\ requests \subseteq SessionCall
  /\ confirmed \subseteq Users /\ profile \subseteq confirmed /\ claim \subseteq confirmed
  /\ rendered \subseteq profile /\ refreshing \in Users \cup {NoOne}
  /\ valid \subseteq ApiKeys \cup AdminKeys

\* A page never shows where its credential is missing, however late answers,
\* sign-outs and sign-ins arrive: the guards are re-evaluated with every change.
NoPageWithoutCredential ==
  /\ at = "app" => customerKey # NoOne \/ user # NoOne
  /\ at = "admin" => adminKey # NoOne

\* A key enters the storage only when the server has accepted that very key,
\* or from the console that issued it (UserLogin.tsx, "proven before it is
\* stored anywhere").
StoredKeysWereProven ==
  [][/\ customerKey' \notin {customerKey, NoOne} =>
          at = "admin" \/ \E c \in requests : c.cred = customerKey' /\ c.answer = "ok"
     /\ adminKey' \notin {adminKey, NoOne} =>
          \E c \in requests : c.cred = adminKey' /\ c.answer = "ok"]_sessionVars

\* Losing a key takes a sign-out, a sign-in as somebody else, or a 401 to a
\* request that was made with what the slot held then, which the server does
\* not accept: the 401 of a candidate or of a Firebase token clears nothing,
\* even if a key was stored meanwhile, and so do the other failures.
OnlyStoredKeysAreDropped ==
  [][LET Rejected(slot) == \E c \in requests \ requests' :
           c.slot = slot /\ c.by = "stored" /\ c.answer = "401" /\ c.cred \notin valid
     IN /\ customerKey # NoOne /\ customerKey' = NoOne =>
             \/ at \in {"app", "login/user"} /\ requests' = requests
             \/ Rejected("customer")
        /\ adminKey # NoOne /\ adminKey' = NoOne =>
             \/ at = "admin" /\ requests' = requests
             \/ Rejected("admin")]_sessionVars

\* App.tsx, session.ts, api.ts: whoever sees a page has a credential, which
\* was proven when it came and is not lost to somebody else's rejection.
CredentialsAreEarned ==
  []NoPageWithoutCredential /\ StoredKeysWereProven /\ OnlyStoredKeysAreDropped
=============================================================================
