------------------------- MODULE IdempotencyProofs -------------------------
(***************************************************************************)
(* Proofs about Idempotency, for any number of keys, requests, bodies and  *)
(* attempts.                                                               *)
(*                                                                         *)
(* The argument: a completion that counts one row meets a claim that is    *)
(* still open, because every change of an open claim gives the row a new   *)
(* version (ClaimBacksPayment); an open claim has no result and no         *)
(* payment (ResultIsThePayment); so a result is decided once, with its     *)
(* payment.  Whoever was paid for is past its payment and will not be told *)
(* a refusal (Payers), and results name requests that are over (Sources).  *)
(***************************************************************************)
EXTENDS Idempotency, TLAPS

\* A request whose payment was committed has nothing left to do but to be told
\* a 500, and a request is told something only at its end.
Payers ==
  \A r \in Requests :
    /\ r \in paid => \/ phase[r] = "done"
                     \/ phase[r] = "settling" /\ verdict[r] = "release"
    /\ phase[r] # "done" => answer[r] = NoResult
    /\ r \in paid =>
         answer[r] \in {Created(r), NoResult, Answer(r, "retry"), Answer(r, "crashed")}

\* x, stored under k or told to one of its requests, is real: the request it
\* names was paid for, or it is over and was not.
Real(x, k) ==
  \A q \in Requests :
    /\ x = Created(q) => q \in paid /\ key[q] = k
    /\ x = Refused(q) => q \notin paid /\ phase[q] = "done" /\ key[q] = k

Sources ==
  /\ \A k \in Keys : Real(rowResult[k], k)
  /\ \A r \in Requests : Real(answer[r], key[r])

\* A threshold is later than created_at only while the claim is stale.
Thresholds == \A r \in Requests : older[r] => rowStale[key[r]]

IInv ==
  /\ TypeOK
  /\ ClaimBacksPayment
  /\ ResultIsThePayment
  /\ Payers
  /\ Sources
  /\ Thresholds

----------------------------------------------------------------------------
(* The initial states *)

\* The invariant holds before the first request.
LEMMA InitIInv == Init => IInv
<1>. SUFFICES ASSUME Init PROVE IInv
  OBVIOUS
<1>. USE IdempotencyAssumption, NoResultAssumption DEF Init
<1>1. TypeOK
  <2>1. (CHOOSE b \in Bodies : TRUE) \in Bodies
    BY Zenon
  <2>. QED BY <2>1 DEF TypeOK, Rows, Phases
<1>2. ClaimBacksPayment
  BY DEF ClaimBacksPayment
<1>3. ResultIsThePayment
  BY DEF ResultIsThePayment, Created, Answer, Told
<1>4. Payers
  BY DEF Payers
<1>5. Sources
  BY DEF Sources, Real, Created, Refused, Answer, Told
<1>6. Thresholds
  BY DEF Thresholds
<1>. QED BY <1>1, <1>2, <1>3, <1>4, <1>5, <1>6 DEF IInv

----------------------------------------------------------------------------
(* The steps *)

\* Control moves between phases.
LEMMA GotoType ==
  ASSUME TypeOK, NEW r \in Requests, NEW from, NEW to \in Phases, Goto(r, from, to)
  PROVE  phase' \in [Requests -> Phases]
BY DEF TypeOK, Goto

\* A client is told an answer.
LEMMA TellType ==
  ASSUME TypeOK, NEW r \in Requests, NEW from, NEW what \in Told \cup {NoResult},
         Tell(r, from, what)
  PROVE  /\ phase' \in [Requests -> Phases]
         /\ answer' \in [Requests -> Told \cup {NoResult}]
BY DEF TypeOK, Tell, Goto, Phases

\* What a client can be told.
LEMMA AnswerType ==
  ASSUME NEW r \in Requests
  PROVE  /\ Created(r) \in Results /\ Created(r) \in Told
         /\ Refused(r) \in Results /\ Refused(r) \in Told
         /\ \A what \in {"IDEMPOTENCY_IN_PROGRESS", "IDEMPOTENCY_CONFLICT",
                          "retry", "crashed"} : Answer(r, what) \in Told
         /\ ErrorAnswer(r) \in Told
         /\ Results \subseteq Told
BY DEF Created, Refused, Answer, ErrorAnswer, Results, Told

\* A new version of a row and a new created_at keep the types.
LEMMA VersionType ==
  ASSUME TypeOK, NEW k \in Keys
  PROVE  /\ Touch(k) => moved' \in [Requests -> BOOLEAN]
         /\ Renew(k) => /\ rowStale' \in [Keys -> BOOLEAN]
                        /\ older' \in [Requests -> BOOLEAN]
BY DEF TypeOK, Touch, Renew

\* Every step keeps the types of the variables.
LEMMA TypeStep ==
  ASSUME TypeOK, [Next]_vars
  PROVE  TypeOK'
<1>. USE DEF table, claimant, payer, sent
<1>0. \A r \in Requests : key[r] \in Keys
  BY DEF TypeOK
<1>1. ASSUME NEW r \in Requests, NEW from, ClaimAgain(r, from)
      PROVE  TypeOK'
  <2>1. claims' \in [Requests -> 1..MaxClaimAttempts]
    BY <1>1, IdempotencyAssumption DEF ClaimAgain, TypeOK
  <2>2. older' \in [Requests -> BOOLEAN]
    BY <1>1 DEF ClaimAgain, TypeOK
  <2>3. phase' \in [Requests -> Phases] /\ answer' \in [Requests -> Told \cup {NoResult}]
    <3>1. CASE Goto(r, from, "insert") /\ UNCHANGED answer
      BY <3>1, GotoType DEF Phases, TypeOK
    <3>2. CASE Tell(r, from, Answer(r, "IDEMPOTENCY_IN_PROGRESS"))
      BY <3>2, TellType, AnswerType
    <3>. QED BY <1>1, <3>1, <3>2 DEF ClaimAgain
  <2>. QED BY <1>1, <2>1, <2>2, <2>3 DEF ClaimAgain, TypeOK
<1>2. ASSUME NEW r \in Requests, NEW from, Replay(r, from)
      PROVE  TypeOK'
  BY <1>2, <1>0, TellType, AnswerType DEF Replay, TypeOK
<1>3. ASSUME NEW r \in Requests, Receive(r)
      PROVE  TypeOK'
  BY <1>3, GotoType DEF Receive, TypeOK, Phases
<1>4. ASSUME NEW r \in Requests, Insert(r)
      PROVE  TypeOK'
  <2>1. phase' \in [Requests -> Phases]
    BY <1>4, GotoType DEF Insert, Phases
  <2>2. row' \in [Keys -> Rows]
    BY <1>4 DEF Insert, TypeOK, Rows
  <2>4. rowBody' \in [Keys -> Bodies]
    BY <1>4 DEF Insert, TypeOK
  <2>3. rowStale' \in [Keys -> BOOLEAN] /\ older' \in [Requests -> BOOLEAN]
    BY <1>0, <1>4, VersionType DEF Insert, TypeOK
  <2>. QED BY <1>4, <2>1, <2>2, <2>3, <2>4 DEF Insert, TypeOK
<1>5. ASSUME NEW r \in Requests, FindRecord(r)
      PROVE  TypeOK'
  <2>1. CASE Tell(r, "read", Answer(r, "IDEMPOTENCY_CONFLICT"))
             /\ UNCHANGED <<table, sent, claimant, payer>>
    BY <2>1, TellType, AnswerType DEF TypeOK
  <2>2. CASE Tell(r, "read", Answer(r, "IDEMPOTENCY_IN_PROGRESS"))
             /\ UNCHANGED <<table, sent, claimant, payer>>
    BY <2>2, TellType, AnswerType DEF TypeOK
  <2>3. CASE /\ Goto(r, "read", "reclaim")
             /\ older' = [older EXCEPT ![r] = TRUE]
             /\ UNCHANGED <<table, sent, claims, payer, answer>>
    BY <2>3, GotoType DEF TypeOK, Phases
  <2>. QED BY <1>1, <1>2, <1>5, <2>1, <2>2, <2>3 DEF FindRecord
<1>6. ASSUME NEW r \in Requests, Reclaim(r)
      PROVE  TypeOK'
  <2>1. phase' \in [Requests -> Phases]
    BY <1>6, GotoType DEF Reclaim, Phases
  <2>2. CASE Reclaimable(r)
    BY <1>0, <1>6, <2>1, <2>2, VersionType DEF Reclaim, TypeOK
  <2>3. CASE ~Reclaimable(r)
    BY <1>6, <2>1, <2>3 DEF Reclaim, TypeOK
  <2>. QED BY <2>2, <2>3
<1>7. ASSUME NEW r \in Requests, Reread(r)
      PROVE  TypeOK'
  <2>1. CASE Tell(r, "reread", Answer(r, "IDEMPOTENCY_IN_PROGRESS"))
             /\ UNCHANGED <<table, sent, claimant, payer>>
    BY <2>1, TellType, AnswerType DEF TypeOK
  <2>. QED BY <1>1, <1>2, <1>7, <2>1 DEF Reread
<1>8. ASSUME NEW r \in Requests, Begin(r)
      PROVE  TypeOK'
  BY <1>0, <1>8, GotoType DEF Begin, TypeOK, Phases
<1>9. ASSUME NEW r \in Requests, Commit(r)
      PROVE  TypeOK'
  <2>1. phase' \in [Requests -> Phases] /\ answer' \in [Requests -> Told \cup {NoResult}]
    <3>1. CASE Goto(r, "posting", "settling") /\ UNCHANGED answer
      BY <3>1, GotoType DEF Phases, TypeOK
    <3>2. CASE Tell(r, "posting", Created(r))
      BY <3>2, TellType, AnswerType
    <3>. QED BY <1>9, <3>1, <3>2 DEF Commit
  <2>2. row' \in [Keys -> Rows] /\ rowResult' \in [Keys -> Results \cup {NoResult}]
    BY <1>9, AnswerType DEF Commit, TypeOK, Rows
  <2>3. charged' \in [Keys -> SUBSET Requests] /\ paid' \subseteq Requests
    BY <1>9 DEF Commit, TypeOK
  <2>4. moved' \in [Requests -> BOOLEAN]
    BY <1>0, <1>9, VersionType DEF Commit
  <2>5. verdict' \in [Requests -> {"refuse", "release"}]
    BY <1>9 DEF Commit, TypeOK
  <2>. QED BY <1>9, <2>1, <2>2, <2>3, <2>4, <2>5 DEF Commit, TypeOK
<1>10. ASSUME NEW r \in Requests, LostClaim(r)
       PROVE  TypeOK'
  BY <1>10, TellType, AnswerType DEF LostClaim, TypeOK
<1>11. ASSUME NEW r \in Requests, Conflict(r)
       PROVE  TypeOK'
  <2>1. phase' \in [Requests -> Phases]
    BY <1>11, GotoType DEF Conflict, Phases
  <2>2. attempt' \in [Requests -> 1..MaxAttempts]
    BY <1>11, IdempotencyAssumption DEF Conflict, TypeOK
  <2>3. verdict' \in [Requests -> {"refuse", "release"}]
    BY <1>11 DEF Conflict, TypeOK
  <2>. QED BY <1>11, <2>1, <2>2, <2>3 DEF Conflict, TypeOK
<1>12. ASSUME NEW r \in Requests, NEW v \in {"refuse", "release"}, Fail(r, v)
       PROVE  TypeOK'
  BY <1>12, GotoType DEF Fail, TypeOK, Phases
<1>13. ASSUME NEW r \in Requests, Settle(r)
       PROVE  TypeOK'
  <2>1. phase' \in [Requests -> Phases] /\ answer' \in [Requests -> Told \cup {NoResult}]
    BY <1>13, TellType, AnswerType DEF Settle
  <2>2. row' \in [Keys -> Rows]
    BY <1>13 DEF Settle, TypeOK, Rows
  <2>3. rowResult' \in [Keys -> Results \cup {NoResult}]
    BY <1>13, AnswerType DEF Settle, TypeOK
  <2>4. moved' \in [Requests -> BOOLEAN]
    BY <1>0, <1>13, VersionType DEF Settle, TypeOK
  <2>. QED BY <1>13, <2>1, <2>2, <2>3, <2>4 DEF Settle, TypeOK
<1>14. ASSUME NEW r \in Requests, SettleFailed(r) \/ Crash(r)
       PROVE  TypeOK'
  BY <1>14, TellType, AnswerType DEF SettleFailed, Crash, TypeOK
<1>15. ASSUME NEW k \in Keys, Age(k)
       PROVE  TypeOK'
  BY <1>15 DEF Age, TypeOK
<1>16. ASSUME NEW k \in Keys, Purge(k)
       PROVE  TypeOK'
  BY <1>16, VersionType DEF Purge, TypeOK, Rows
<1>17. CASE UNCHANGED vars
  BY <1>17 DEF vars, TypeOK
<1>. QED
  BY <1>3, <1>4, <1>5, <1>6, <1>7, <1>8, <1>9, <1>10, <1>11, <1>12, <1>13, <1>14,
     <1>15, <1>16, <1>17
  DEF Next, RequestStep

\* The steps that leave the money, the rows' versions and the snapshots alone.
Idle(r) ==
  \/ Receive(r) \/ FindRecord(r) \/ Reread(r) \/ LostClaim(r) \/ Conflict(r)
  \/ \E v \in {"refuse", "release"} : Fail(r, v)
  \/ SettleFailed(r) \/ Crash(r)

\* They only move the request on, and none of them starts or resumes a payment.
LEMMA IdleStep ==
  ASSUME TypeOK, NEW r \in Requests, Idle(r)
  PROVE  /\ UNCHANGED <<row, rowBody, rowResult, rowStale, charged, paid, sees, moved, key>>
         /\ phase'[r] \notin {"new", "posting"}
         /\ \A q \in Requests \ {r} :
              /\ phase'[q] = phase[q] /\ answer'[q] = answer[q]
              /\ verdict'[q] = verdict[q] /\ older'[q] = older[q]
<1>. USE DEF table, sent, claimant, payer, Tell, Goto, TypeOK
<1>1. CASE Receive(r) \/ LostClaim(r) \/ SettleFailed(r) \/ Crash(r)
  BY <1>1 DEF Receive, LostClaim, SettleFailed, Crash
<1>2. CASE Conflict(r)
  BY <1>2 DEF Conflict
<1>3. CASE \E v \in {"refuse", "release"} : Fail(r, v)
  BY <1>3 DEF Fail
<1>4. CASE FindRecord(r)
  BY <1>4 DEF FindRecord, ClaimAgain, Replay
<1>5. CASE Reread(r)
  BY <1>5 DEF Reread, ClaimAgain, Replay
<1>. QED BY <1>1, <1>2, <1>3, <1>4, <1>5 DEF Idle

\* The steps, by what they do to the table.
LEMMA StepKinds ==
  ASSUME [Next]_vars
  PROVE  \/ \E r \in Requests : Idle(r) \/ Insert(r) \/ Reclaim(r) \/ Begin(r)
                               \/ Commit(r) \/ Settle(r)
         \/ \E k \in Keys : Age(k) \/ Purge(k)
         \/ UNCHANGED vars
BY DEF Next, RequestStep, Idle

\* Every change of an open claim shows in the row count of its completion.
LEMMA ClaimStep ==
  ASSUME TypeOK, ClaimBacksPayment, [Next]_vars
  PROVE  ClaimBacksPayment'
<1>. SUFFICES ASSUME NEW q \in Requests, phase'[q] = "posting",
                     key'[q] \in TransferKeys,
                     sees'[q] = "in_progress", ~moved'[q]
              PROVE  row'[key'[q]] = "in_progress"
  BY DEF ClaimBacksPayment, OwnsClaim, Serializable
<1>. USE DEF table, sent, claimant, payer, Goto, Tell, TypeOK
<1>0. phase[q] = "posting" /\ key[q] \in TransferKeys /\ sees[q] = "in_progress"
        /\ ~moved[q] => row[key[q]] = "in_progress"
  BY DEF ClaimBacksPayment, OwnsClaim, Serializable
<1>1. ASSUME NEW r \in Requests, Idle(r)
      PROVE  row'[key'[q]] = "in_progress"
  BY <1>0, <1>1, IdleStep
<1>2. ASSUME NEW r \in Requests, Insert(r)
      PROVE  row'[key'[q]] = "in_progress"
  BY <1>0, <1>2 DEF Insert
<1>3. ASSUME NEW r \in Requests, Reclaim(r)
      PROVE  row'[key'[q]] = "in_progress"
  BY <1>0, <1>3 DEF Reclaim, Touch
<1>4. ASSUME NEW r \in Requests, Begin(r)
      PROVE  row'[key'[q]] = "in_progress"
  BY <1>0, <1>4 DEF Begin
<1>5. ASSUME NEW r \in Requests, Commit(r)
      PROVE  row'[key'[q]] = "in_progress"
  BY <1>0, <1>5 DEF Commit, Touch
<1>6. ASSUME NEW r \in Requests, Settle(r)
      PROVE  row'[key'[q]] = "in_progress"
  BY <1>0, <1>6 DEF Settle, Touch
<1>7. ASSUME NEW k \in Keys, Age(k) \/ Purge(k)
      PROVE  row'[key'[q]] = "in_progress"
  <2>1. CASE Age(k)
    BY <1>0, <2>1 DEF Age
  <2>2. CASE Purge(k)
    <3>1. phase'[q] = phase[q] /\ sees'[q] = sees[q] /\ key'[q] = key[q]
      BY <2>2 DEF Purge
    <3>2. key[q] # k /\ moved'[q] = moved[q]
      BY <2>2, <3>1 DEF Purge, Touch
    <3>. QED BY <1>0, <2>2, <3>1, <3>2 DEF Purge
  <2>. QED BY <1>7, <2>1, <2>2
<1>8. CASE UNCHANGED vars
  BY <1>0, <1>8 DEF vars
<1>. QED BY <1>1, <1>2, <1>3, <1>4, <1>5, <1>6, <1>7, <1>8, StepKinds

\* The two outcomes are different, and each names one request.
LEMMA Outcomes ==
  ASSUME NEW r \in Requests, NEW q \in Requests
  PROVE  /\ Created(r) # Refused(q)
         /\ Created(r) = Created(q) => r = q
         /\ Refused(r) = Refused(q) => r = q
         /\ Created(r) # NoResult /\ Refused(r) # NoResult
<1>1. Created(r) \in Told /\ Refused(r) \in Told
  BY AnswerType
<1>. QED BY <1>1, NoResultAssumption DEF Created, Refused, Answer

\* Completing an open claim is the only way to a result, and it brings the
\* payment with it.
LEMMA ResultStep ==
  ASSUME TypeOK, ClaimBacksPayment, ResultIsThePayment, [Next]_vars
  PROVE  ResultIsThePayment'
<1>. SUFFICES ASSUME NEW k \in Keys
              PROVE  /\ row'[k] = "completed" <=> rowResult'[k] # NoResult
                     /\ charged'[k] = {r \in Requests : rowResult'[k] = Created(r)}
  BY DEF ResultIsThePayment, Created, Answer
<1>. DEFINE P == /\ row'[k] = "completed" <=> rowResult'[k] # NoResult
                 /\ charged'[k] = {r \in Requests : rowResult'[k] = Created(r)}
<1>. USE DEF table
<1>0. /\ row[k] = "completed" <=> rowResult[k] # NoResult
      /\ charged[k] = {r \in Requests : rowResult[k] = Created(r)}
  BY DEF ResultIsThePayment
<1>1. ASSUME NEW r \in Requests, Idle(r)
      PROVE  P
  BY <1>0, <1>1, IdleStep
<1>2. ASSUME NEW r \in Requests, Insert(r) \/ Reclaim(r) \/ Begin(r)
      PROVE  P
  BY <1>0, <1>2 DEF Insert, Reclaim, Begin, TypeOK
<1>3. ASSUME NEW r \in Requests, Commit(r)
      PROVE  P
  <2>1. CASE k = key[r]
    <3>1. row[k] = "in_progress"
      BY <1>3, <2>1 DEF Commit, ClaimBacksPayment, Tell, Goto
    <3>2. charged[k] = {}
      BY <1>0, <3>1, Outcomes
    <3>3. row'[k] = "completed" /\ rowResult'[k] = Created(r) /\ charged'[k] = {r}
      BY <1>3, <2>1, <3>2 DEF Commit, TypeOK
    <3>. QED BY <3>3, Outcomes
  <2>2. CASE k # key[r]
    BY <1>0, <1>3, <2>2 DEF Commit, TypeOK
  <2>. QED BY <2>1, <2>2
<1>4. ASSUME NEW r \in Requests, Settle(r)
      PROVE  P
  <2>1. CASE k = key[r] /\ row[k] = "in_progress" /\ verdict[r] = "refuse"
    <3>1. charged[k] = {}
      BY <1>0, <2>1, Outcomes
    <3>2. row'[k] = "completed" /\ rowResult'[k] = Refused(r) /\ charged'[k] = {}
      BY <1>4, <2>1, <3>1 DEF Settle, TypeOK
    <3>. QED BY <3>2, Outcomes
  <2>2. CASE k = key[r] /\ row[k] = "in_progress" /\ verdict[r] # "refuse"
    <3>1. row'[k] = "absent" /\ rowResult'[k] = rowResult[k] /\ charged'[k] = charged[k]
      BY <1>4, <2>2 DEF Settle, TypeOK
    <3>. QED BY <1>0, <2>2, <3>1
  <2>3. CASE k # key[r] \/ row[k] # "in_progress"
    <3>1. row'[k] = row[k] /\ rowResult'[k] = rowResult[k] /\ charged'[k] = charged[k]
      BY <1>4, <2>3 DEF Settle, TypeOK
    <3>. QED BY <1>0, <3>1
  <2>. QED BY <2>1, <2>2, <2>3
<1>5. ASSUME NEW j \in Keys, Age(j)
      PROVE  P
  BY <1>0, <1>5 DEF Age
<1>6. ASSUME NEW j \in Keys, Purge(j)
      PROVE  P
  <2>1. CASE k = j
    BY <1>6, <2>1, Outcomes DEF Purge, TypeOK
  <2>2. CASE k # j
    BY <1>0, <1>6, <2>2 DEF Purge, TypeOK
  <2>. QED BY <2>1, <2>2
<1>7. CASE UNCHANGED vars
  BY <1>0, <1>7 DEF vars
<1>. QED BY <1>1, <1>2, <1>3, <1>4, <1>5, <1>6, <1>7, StepKinds

\* A request pays at most once, in the last but one step of its life.
LEMMA PayersStep ==
  ASSUME TypeOK, Payers, [Next]_vars
  PROVE  Payers'
<1>. SUFFICES ASSUME NEW q \in Requests
              PROVE  /\ q \in paid' => \/ phase'[q] = "done"
                                       \/ phase'[q] = "settling" /\ verdict'[q] = "release"
                     /\ phase'[q] # "done" => answer'[q] = NoResult
                     /\ q \in paid' => answer'[q] \in {Created(q), NoResult,
                                          Answer(q, "retry"), Answer(q, "crashed")}
  BY DEF Payers, Created, Answer
<1>. DEFINE P == /\ q \in paid' => \/ phase'[q] = "done"
                                   \/ phase'[q] = "settling" /\ verdict'[q] = "release"
                 /\ phase'[q] # "done" => answer'[q] = NoResult
                 /\ q \in paid' => answer'[q] \in {Created(q), NoResult,
                                      Answer(q, "retry"), Answer(q, "crashed")}
<1>. USE DEF table, sent, claimant, payer, Goto, Tell
<1>0. /\ q \in paid => \/ phase[q] = "done"
                       \/ phase[q] = "settling" /\ verdict[q] = "release"
      /\ phase[q] # "done" => answer[q] = NoResult
      /\ q \in paid => answer[q] \in {Created(q), NoResult,
                         Answer(q, "retry"), Answer(q, "crashed")}
  BY DEF Payers
<1>1. ASSUME NEW r \in Requests, Idle(r)
      PROVE  P
  <2>1. CASE q # r
    BY <1>0, <1>1, <2>1, IdleStep
  <2>2. CASE q = r /\ q \notin paid
    <3>1. q \notin paid'
      BY <1>1, <2>2, IdleStep
    <3>2. phase'[q] # "done" => answer'[q] = NoResult
      <4>1. CASE Receive(q) \/ LostClaim(q) \/ Conflict(q) \/ SettleFailed(q) \/ Crash(q)
        BY <1>0, <4>1 DEF Receive, LostClaim, Conflict, SettleFailed, Crash, TypeOK
      <4>2. CASE \E v \in {"refuse", "release"} : Fail(q, v)
        BY <1>0, <4>2 DEF Fail, TypeOK
      <4>3. CASE FindRecord(q) \/ Reread(q)
        BY <1>0, <4>3 DEF FindRecord, Reread, ClaimAgain, Replay, TypeOK
      <4>. QED BY <1>1, <2>2, <4>1, <4>2, <4>3 DEF Idle
    <3>. QED BY <3>1, <3>2
  <2>3. CASE q = r /\ q \in paid
    <3>1. SettleFailed(r) \/ Crash(r)
      BY <1>0, <1>1, <2>3 DEF Idle, Receive, FindRecord, Reread, LostClaim, Conflict,
                              Fail, ClaimAgain, Replay
    <3>2. phase'[q] = "done" /\ answer'[q] \in {Answer(q, "retry"), Answer(q, "crashed")}
      BY <1>0, <2>3, <3>1 DEF SettleFailed, Crash, ErrorAnswer, TypeOK
    <3>. QED BY <3>2
  <2>. QED BY <2>1, <2>2, <2>3
<1>2. ASSUME NEW r \in Requests, Insert(r) \/ Reclaim(r) \/ Begin(r)
      PROVE  P
  BY <1>0, <1>2 DEF Insert, Reclaim, Begin, TypeOK
<1>3. ASSUME NEW r \in Requests, Commit(r)
      PROVE  P
  <2>1. CASE q # r
    BY <1>0, <1>3, <2>1 DEF Commit, TypeOK
  <2>2. CASE q = r
    BY <1>0, <1>3, <2>2 DEF Commit, TypeOK
  <2>. QED BY <2>1, <2>2
<1>4. ASSUME NEW r \in Requests, Settle(r)
      PROVE  P
  <2>1. paid' = paid /\ verdict' = verdict
    BY <1>4 DEF Settle
  <2>2. CASE q # r
    BY <1>0, <1>4, <2>1, <2>2 DEF Settle
  <2>3. CASE q = r
    <3>1. phase[q] = "settling" /\ phase'[q] = "done" /\ answer'[q] = ErrorAnswer(q)
      BY <1>4, <2>3 DEF Settle, TypeOK
    <3>. QED BY <1>0, <2>1, <3>1 DEF ErrorAnswer
  <2>. QED BY <2>2, <2>3
<1>5. ASSUME NEW k \in Keys, Age(k) \/ Purge(k)
      PROVE  P
  BY <1>0, <1>5 DEF Age, Purge
<1>6. CASE UNCHANGED vars
  BY <1>0, <1>6 DEF vars
<1>. QED BY <1>1, <1>2, <1>3, <1>4, <1>5, <1>6, StepKinds

\* Renewing a claim makes every threshold computed before too early for it.
LEMMA RenewStep ==
  ASSUME TypeOK, Thresholds, NEW k \in Keys, Renew(k), key' = key
  PROVE  Thresholds'
<1>. SUFFICES ASSUME NEW q \in Requests, older'[q]
              PROVE  rowStale'[key[q]]
  BY DEF Thresholds
<1>1. key[q] # k /\ older[q]
  BY DEF Renew
<1>2. rowStale[key[q]] /\ key[q] \in Keys
  BY <1>1 DEF Thresholds, TypeOK
<1>. QED BY <1>1, <1>2 DEF Renew, TypeOK

\* A threshold stays later than created_at only as long as nobody renews it.
LEMMA ThresholdsStep ==
  ASSUME TypeOK, Thresholds, [Next]_vars
  PROVE  Thresholds'
<1>. SUFFICES ASSUME NEW q \in Requests, older'[q]
              PROVE  rowStale'[key'[q]]
  BY DEF Thresholds
<1>. USE DEF table, sent, claimant, payer, TypeOK
<1>0. older[q] => rowStale[key[q]]
  BY DEF Thresholds
<1>1. ASSUME NEW r \in Requests, Idle(r)
      PROVE  rowStale'[key'[q]]
  <2>1. key' = key /\ rowStale' = rowStale
    BY <1>1, IdleStep
  <2>2. older[q] \/ rowStale[key[q]]
    <3>1. CASE q # r
      BY <1>1, <3>1, IdleStep
    <3>2. CASE FindRecord(q)
      BY <3>2 DEF FindRecord, ClaimAgain, Replay
    <3>3. CASE Reread(q)
      BY <3>3 DEF Reread, ClaimAgain, Replay
    <3>4. CASE Receive(q) \/ LostClaim(q) \/ Conflict(q) \/ SettleFailed(q) \/ Crash(q)
      BY <3>4 DEF Receive, LostClaim, Conflict, SettleFailed, Crash
    <3>5. CASE \E v \in {"refuse", "release"} : Fail(q, v)
      BY <3>5 DEF Fail
    <3>. QED BY <1>1, <3>1, <3>2, <3>3, <3>4, <3>5 DEF Idle
  <2>. QED BY <1>0, <2>1, <2>2
<1>2. ASSUME NEW r \in Requests, Insert(r)
      PROVE  rowStale'[key'[q]]
  <2>1. key[r] \in Keys /\ key' = key
    BY <1>2 DEF Insert
  <2>2. CASE Renew(key[r])
    BY <2>1, <2>2, RenewStep DEF Thresholds
  <2>3. CASE UNCHANGED <<rowStale, older>>
    BY <1>0, <2>1, <2>3
  <2>. QED BY <1>2, <2>2, <2>3 DEF Insert
<1>3. ASSUME NEW r \in Requests, Reclaim(r)
      PROVE  rowStale'[key'[q]]
  <2>1. key[r] \in Keys /\ key' = key
    BY <1>3 DEF Reclaim
  <2>2. CASE Renew(key[r])
    BY <2>1, <2>2, RenewStep DEF Thresholds
  <2>3. CASE UNCHANGED <<rowStale, older>>
    BY <1>0, <2>1, <2>3
  <2>. QED BY <1>3, <2>2, <2>3 DEF Reclaim
<1>4. ASSUME NEW r \in Requests, Begin(r) \/ Commit(r) \/ Settle(r)
      PROVE  rowStale'[key'[q]]
  <2>1. older' = older /\ key' = key /\ rowStale' = rowStale
    BY <1>4 DEF Begin, Commit, Settle
  <2>. QED BY <1>0, <2>1
<1>5. ASSUME NEW k \in Keys, Age(k) \/ Purge(k)
      PROVE  rowStale'[key'[q]]
  BY <1>0, <1>5 DEF Age, Purge
<1>6. CASE UNCHANGED vars
  BY <1>0, <1>6 DEF vars
<1>. QED BY <1>1, <1>2, <1>3, <1>4, <1>5, <1>6, StepKinds

\* Payments are not undone, requests that are over stay over, and only a
\* request that is not over is ever paid for.
LEMMA Monotone ==
  ASSUME TypeOK, [Next]_vars
  PROVE  /\ key' = key
         /\ paid \subseteq paid'
         /\ \A q \in Requests :
              /\ phase[q] = "done" => phase'[q] = "done"
              /\ phase[q] = "done" /\ q \notin paid => q \notin paid'
<1>. USE DEF table, sent, claimant, payer, Goto, Tell, TypeOK
<1>1. ASSUME NEW r \in Requests, Idle(r)
      PROVE  UNCHANGED <<key, paid>> /\ phase[r] # "done"
  <2>1. phase[r] # "done"
    BY <1>1 DEF Idle, Receive, FindRecord, Reread, LostClaim, Conflict, Fail,
                SettleFailed, Crash, ClaimAgain, Replay
  <2>. QED BY <1>1, <2>1, IdleStep
<1>2. ASSUME NEW r \in Requests, Insert(r) \/ Reclaim(r) \/ Begin(r) \/ Settle(r)
      PROVE  /\ UNCHANGED <<key, paid>>
             /\ \A q \in Requests : phase[q] = "done" => phase'[q] = "done"
  BY <1>2 DEF Insert, Reclaim, Begin, Settle
<1>3. ASSUME NEW r \in Requests, Commit(r)
      PROVE  /\ key' = key
             /\ paid' = paid \cup {r} /\ phase[r] = "posting"
             /\ \A q \in Requests : phase[q] = "done" => phase'[q] = "done"
  BY <1>3 DEF Commit
<1>4. ASSUME NEW k \in Keys, Age(k) \/ Purge(k)
      PROVE  UNCHANGED <<key, paid, phase>>
  BY <1>4 DEF Age, Purge
<1>5. CASE UNCHANGED vars
  BY <1>5 DEF vars
<1>. QED BY <1>1, <1>2, <1>3, <1>4, <1>5, IdleStep, StepKinds

\* What was real stays real.
LEMMA RealKept ==
  ASSUME TypeOK, [Next]_vars, NEW CONSTANT x, NEW CONSTANT k, Real(x, k)
  PROVE  Real(x, k)'
BY Monotone DEF Real, Created, Refused, Answer

\* A row keeps its result, loses it, or takes the outcome of one of its requests.
LEMMA ResultSource ==
  ASSUME TypeOK, Payers, [Next]_vars, NEW k \in Keys
  PROVE  \/ rowResult'[k] \in {rowResult[k], NoResult}
         \/ \E r \in Requests : /\ rowResult'[k] = Created(r)
                                /\ r \in paid' /\ key[r] = k
         \/ \E r \in Requests : /\ rowResult'[k] = Refused(r) /\ r \notin paid'
                                /\ phase'[r] = "done" /\ key[r] = k
<1>. USE DEF table
<1>1. ASSUME NEW r \in Requests, Idle(r)
      PROVE  rowResult'[k] = rowResult[k]
  BY <1>1, IdleStep
<1>2. ASSUME NEW r \in Requests, Insert(r) \/ Reclaim(r) \/ Begin(r)
      PROVE  rowResult'[k] = rowResult[k]
  BY <1>2 DEF Insert, Reclaim, Begin
<1>3. ASSUME NEW r \in Requests, Commit(r)
      PROVE  \/ rowResult'[k] = rowResult[k]
             \/ rowResult'[k] = Created(r) /\ r \in paid' /\ key[r] = k
  BY <1>3 DEF Commit, TypeOK
<1>4. ASSUME NEW r \in Requests, Settle(r)
      PROVE  \/ rowResult'[k] = rowResult[k]
             \/ /\ rowResult'[k] = Refused(r) /\ r \notin paid'
                /\ phase'[r] = "done" /\ key[r] = k
  <2>1. CASE row[key[r]] = "in_progress" /\ verdict[r] = "refuse" /\ key[r] = k
    <3>1. rowResult'[k] = Refused(r) /\ phase[r] = "settling" /\ phase'[r] = "done"
            /\ paid' = paid
      BY <1>4, <2>1 DEF Settle, Tell, Goto, TypeOK
    <3>. QED BY <2>1, <3>1 DEF Payers
  <2>2. CASE ~(row[key[r]] = "in_progress" /\ verdict[r] = "refuse" /\ key[r] = k)
    BY <1>4, <2>2 DEF Settle, TypeOK
  <2>. QED BY <2>1, <2>2
<1>5. ASSUME NEW j \in Keys, Age(j) \/ Purge(j)
      PROVE  rowResult'[k] \in {rowResult[k], NoResult}
  BY <1>5 DEF Age, Purge, TypeOK
<1>6. CASE UNCHANGED vars
  BY <1>6 DEF vars
<1>. QED BY <1>1, <1>2, <1>3, <1>4, <1>5, <1>6, StepKinds

\* A client is told what the row says, what its own request came to, or
\* something that decides nothing.
LEMMA AnswerSource ==
  ASSUME TypeOK, Payers, [Next]_vars, NEW q \in Requests
  PROVE  \/ answer'[q] \in {answer[q], rowResult[key[q]]}
         \/ answer'[q] = Created(q) /\ q \in paid'
         \/ answer'[q] = Refused(q) /\ q \notin paid' /\ phase'[q] = "done"
         \/ \E what \in {"IDEMPOTENCY_IN_PROGRESS", "IDEMPOTENCY_CONFLICT",
                         "retry", "crashed"} : answer'[q] = Answer(q, what)
<1>. USE DEF table, claimant, payer, Tell, Goto, TypeOK
<1>1. ASSUME NEW r \in Requests, Idle(r), q # r
      PROVE  answer'[q] = answer[q]
  BY <1>1, IdleStep
<1>2. CASE Receive(q) \/ LostClaim(q) \/ Conflict(q) \/ Crash(q)
  BY <1>2 DEF Receive, LostClaim, Conflict, Crash
<1>3. CASE FindRecord(q) \/ Reread(q)
  BY <1>3 DEF FindRecord, Reread, ClaimAgain, Replay
<1>4. CASE \E v \in {"refuse", "release"} : Fail(q, v)
  BY <1>4 DEF Fail
<1>5. CASE SettleFailed(q) \/ Settle(q)
  <2>1. phase[q] = "settling" /\ phase'[q] = "done" /\ paid' = paid
          /\ answer'[q] = ErrorAnswer(q)
    BY <1>5 DEF SettleFailed, Settle
  <2>. QED BY <2>1 DEF ErrorAnswer, Refused, Payers
<1>6. ASSUME NEW r \in Requests, Settle(r) \/ Commit(r), q # r
      PROVE  answer'[q] = answer[q]
  BY <1>6 DEF Settle, Commit
<1>7. CASE Commit(q)
  BY <1>7 DEF Commit
<1>8. ASSUME NEW r \in Requests, Insert(r) \/ Reclaim(r) \/ Begin(r)
      PROVE  answer'[q] = answer[q]
  BY <1>8 DEF Insert, Reclaim, Begin
<1>9. ASSUME NEW k \in Keys, Age(k) \/ Purge(k)
      PROVE  answer'[q] = answer[q]
  BY <1>9 DEF Age, Purge
<1>10. CASE UNCHANGED vars
  BY <1>10 DEF vars
<1>11. CASE Idle(q)
  BY <1>2, <1>3, <1>4, <1>5, <1>11 DEF Idle
<1>. QED BY <1>1, <1>5, <1>6, <1>7, <1>8, <1>9, <1>10, <1>11, StepKinds

\* Every step keeps stored and told outcomes real.
LEMMA SourcesStep ==
  ASSUME TypeOK, Payers, Sources, [Next]_vars
  PROVE  Sources'
<1>0. key' = key
  BY Monotone
<1>1. ASSUME NEW k \in Keys
      PROVE  Real(rowResult[k], k)'
  <2>1. PICK x : x = rowResult'[k]
    OBVIOUS
  <2>2. Real(x, k)'
    <3>1. CASE x = rowResult[k]
      BY <3>1, RealKept DEF Sources
    <3>2. CASE x = NoResult
      BY <3>2, Outcomes DEF Real, Created, Refused, Answer
    <3>3. ASSUME NEW r \in Requests, x = Created(r), r \in paid', key[r] = k
          PROVE  Real(x, k)'
      BY <1>0, <3>3 DEF Real, Created, Refused, Answer
    <3>4. ASSUME NEW r \in Requests, x = Refused(r), r \notin paid',
                 phase'[r] = "done", key[r] = k
          PROVE  Real(x, k)'
      BY <1>0, <3>4 DEF Real, Created, Refused, Answer
    <3>. QED BY <2>1, <3>1, <3>2, <3>3, <3>4, ResultSource
  <2>. QED BY <2>1, <2>2
<1>2. ASSUME NEW q \in Requests
      PROVE  Real(answer[q], key[q])'
  <2>1. PICK x : x = answer'[q]
    OBVIOUS
  <2>2. PICK k : k = key[q]
    OBVIOUS
  <2>3. Real(x, k)'
    <3>1. CASE x \in {answer[q], rowResult[key[q]]}
      <4>1. Real(x, k)
        BY <2>2, <3>1 DEF Sources, TypeOK
      <4>. QED BY <4>1, RealKept
    <3>2. CASE x = Created(q) /\ q \in paid'
      BY <1>0, <2>2, <3>2 DEF Real, Created, Refused, Answer
    <3>3. CASE x = Refused(q) /\ q \notin paid' /\ phase'[q] = "done"
      BY <1>0, <2>2, <3>3 DEF Real, Created, Refused, Answer
    <3>4. ASSUME NEW what \in {"IDEMPOTENCY_IN_PROGRESS", "IDEMPOTENCY_CONFLICT",
                               "retry", "crashed"}, x = Answer(q, what)
          PROVE  Real(x, k)'
      BY <3>4 DEF Real, Created, Refused, Answer
    <3>. QED BY <2>1, <3>1, <3>2, <3>3, <3>4, AnswerSource
  <2>. QED BY <1>0, <2>1, <2>2, <2>3
<1>. QED BY <1>1, <1>2 DEF Sources

----------------------------------------------------------------------------
(* The theorems *)

\* Every step keeps the invariant.
LEMMA NextIInv == IInv /\ [Next]_vars => IInv'
BY TypeStep, ClaimStep, ResultStep, PayersStep, SourcesStep, ThresholdsStep DEF IInv

\* The strengthening under which every property below is kept by every step:
\* completions meet open claims, and whoever was paid for is past refusing.
THEOREM Invariance == Spec => []IInv
BY InitIInv, NextIInv, PTL DEF Spec

\* Every variable keeps its type; claims and attempts stay within their budgets.
THEOREM TypeCorrect == Spec => []TypeOK
BY Invariance, PTL DEF IInv

\* A completion UPDATE that counts one row (postTransfer, post) met a claim
\* that is in_progress, however old the snapshot that read it.
THEOREM CompletionIsTrue == Spec => []ClaimBacksPayment
BY Invariance, PTL DEF IInv

\* The stored response and the payments made under a key always agree,
\* whichever requests crashed, were overtaken or settled too late.
THEOREM ResultAndMoney == Spec => []ResultIsThePayment
BY Invariance, PTL DEF IInv

\* No client is told of a payment that was not made, or of a refusal of a
\* request that was paid for.
THEOREM Truthful == Spec => []AnswersAreTrue
<1>1. IInv => AnswersAreTrue
  BY DEF IInv, AnswersAreTrue, Payers, Sources, Real
<1>. QED BY <1>1, Invariance, PTL

\* The conditional UPDATE of tryClaim takes stale claims only: of the retries
\* that saw the same stale claim, the first renews it and the others miss.
THEOREM OneTakesOver == Spec => OnlyStaleClaimsAreTaken
<1>. DEFINE Stale == \A r \in Requests :
                       phase[r] = "reclaim" /\ phase'[r] = "begin" => rowStale[key[r]]
<1>1. IInv /\ [Next]_vars => [Stale]_vars
  <2>. SUFFICES ASSUME IInv, Next, NEW q \in Requests,
                       phase[q] = "reclaim", phase'[q] = "begin"
                PROVE  rowStale[key[q]]
    BY DEF vars
  <2>. USE DEF IInv, TypeOK, table, sent, claimant, payer, Goto, Tell
  <2>1. ASSUME NEW r \in Requests, Idle(r)
        PROVE  rowStale[key[q]]
    <3>1. q = r
      BY <2>1, IdleStep
    <3>2. phase[q] # "reclaim" \/ phase'[q] = "done"
      BY <2>1, <3>1 DEF Idle, Receive, FindRecord, Reread, LostClaim, Conflict, Fail,
                        SettleFailed, Crash, ClaimAgain, Replay
    <3>. QED BY <3>2
  <2>2. ASSUME NEW r \in Requests, Reclaim(r)
        PROVE  rowStale[key[q]]
    BY <2>2 DEF Reclaim, Reclaimable, Thresholds
  <2>3. ASSUME NEW r \in Requests, Insert(r) \/ Begin(r) \/ Commit(r) \/ Settle(r)
        PROVE  rowStale[key[q]]
    BY <2>3 DEF Insert, Begin, Commit, Settle
  <2>4. ASSUME NEW k \in Keys, Age(k) \/ Purge(k)
        PROVE  rowStale[key[q]]
    BY <2>4 DEF Age, Purge
  <2>5. CASE UNCHANGED vars
    BY <2>5 DEF vars
  <2>. QED BY <2>1, <2>2, <2>3, <2>4, <2>5, StepKinds
<1>. QED BY <1>1, Invariance, PTL DEF Spec, OnlyStaleClaimsAreTaken

\* A commit decides the key: payment and stored 201 in one step, once.
LEMMA CommitDecides ==
  ASSUME IInv, NEW r \in Requests, Commit(r)
  PROVE  Abstract!DecideCreated(key[r], r)
<1>1. row[key[r]] = "in_progress" /\ key[r] \in Keys
  BY DEF IInv, ClaimBacksPayment, Commit, Tell, Goto, TypeOK
<1>2. rowResult[key[r]] = NoResult /\ charged[key[r]] = {}
  BY <1>1, Outcomes DEF IInv, ResultIsThePayment
<1>3. /\ rowResult' = [rowResult EXCEPT ![key[r]] = Created(r)]
      /\ charged' = [charged EXCEPT ![key[r]] = {r}]
  BY <1>2 DEF Commit, IInv, TypeOK
<1>. QED BY <1>2, <1>3 DEF Abstract!DecideCreated, Created, Answer

\* A late settlement decides the key only if nobody else has.
LEMMA SettleDecides ==
  ASSUME IInv, NEW r \in Requests, Settle(r)
  PROVE  Abstract!DecideRefused(key[r], r) \/ UNCHANGED <<rowResult, charged>>
<1>1. CASE row[key[r]] = "in_progress" /\ verdict[r] = "refuse"
  <2>1. rowResult[key[r]] = NoResult /\ charged[key[r]] = {}
    BY <1>1, Outcomes DEF IInv, ResultIsThePayment, TypeOK
  <2>2. rowResult' = [rowResult EXCEPT ![key[r]] = Refused(r)] /\ charged' = charged
    BY <1>1 DEF Settle, table
  <2>. QED BY <2>1, <2>2 DEF Abstract!DecideRefused, Refused, Answer
<1>2. CASE ~(row[key[r]] = "in_progress" /\ verdict[r] = "refuse")
  BY <1>2 DEF Settle, table
<1>. QED BY <1>1, <1>2

\* Claims, takeovers, crashes, late settlements and the sweep implement a key
\* that has one result, decided together with its payment.
THEOREM Refinement == Spec => ImplementsOneResult
<1>1. Init => Abstract!Init
  BY DEF Init, Abstract!Init
<1>2. IInv /\ [Next]_vars => [Abstract!Next]_Abstract!vars
  <2>. SUFFICES ASSUME IInv, [Next]_vars
                PROVE  Abstract!Next \/ UNCHANGED <<rowResult, charged>>
    BY DEF Abstract!vars
  <2>1. ASSUME NEW r \in Requests, Idle(r)
        PROVE  UNCHANGED <<rowResult, charged>>
    BY <2>1, IdleStep DEF IInv
  <2>2. ASSUME NEW r \in Requests, Insert(r) \/ Reclaim(r) \/ Begin(r)
        PROVE  UNCHANGED <<rowResult, charged>>
    BY <2>2 DEF Insert, Reclaim, Begin, table
  <2>3. ASSUME NEW r \in Requests, Commit(r)
        PROVE  Abstract!Next
    <3>1. key[r] \in Keys
      BY DEF IInv, TypeOK
    <3>. QED BY <2>3, <3>1, CommitDecides DEF Abstract!Next
  <2>4. ASSUME NEW r \in Requests, Settle(r)
        PROVE  Abstract!Next \/ UNCHANGED <<rowResult, charged>>
    <3>1. key[r] \in Keys
      BY DEF IInv, TypeOK
    <3>. QED BY <2>4, <3>1, SettleDecides DEF Abstract!Next
  <2>5. ASSUME NEW k \in Keys, Age(k)
        PROVE  UNCHANGED <<rowResult, charged>>
    BY <2>5 DEF Age
  <2>6. ASSUME NEW k \in Keys, Purge(k)
        PROVE  Abstract!Next
    <3>1. rowResult[k] # NoResult
      BY <2>6 DEF Purge, IInv, ResultIsThePayment
    <3>. QED BY <2>6, <3>1 DEF Purge, Abstract!Next, Abstract!Forget
  <2>7. CASE UNCHANGED vars
    BY <2>7 DEF vars, table
  <2>. QED BY <2>1, <2>2, <2>3, <2>4, <2>5, <2>6, <2>7, StepKinds
<1>. QED BY <1>1, <1>2, Invariance, PTL DEF Spec, ImplementsOneResult, Abstract!Spec
=============================================================================
