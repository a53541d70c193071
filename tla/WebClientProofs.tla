-------------------------- MODULE WebClientProofs ---------------------------
(***************************************************************************)
(* Proofs about the web client: its payment forms, who it says it is, what *)
(* its pages load, and the administrator's page.  They share no variable;  *)
(* each part below is about one module, for every value of its constants.  *)
(***************************************************************************)
EXTENDS WebClient, FiniteSetTheorems, TLAPS

----------------------------------------------------------------------------
(***************************************************************************)
(* PaymentForm, for both forms and any number of attempts, contents and    *)
(* keys.                                                                   *)
(*                                                                         *)
(* The argument: a key belongs to one intent and one content from the      *)
(* moment it is drawn (Posts).  The form leaves a key for another one of   *)
(* the same intent only when the server has stored a refusal under it, or  *)
(* has answered without storing anything (Renewals).  A refused key is     *)
(* never charged afterwards and any key is charged once (Charges), so two  *)
(* payments of one intent need an answer of the second sort.               *)
(***************************************************************************)

\* What has been sent is of the past; what has been sent with the key of now
\* is what the form shows now; and while an answer is awaited, a key drawn
\* since has not been sent.
Posts ==
  /\ \A a \in Sent :
       /\ post[a].key <= intentKey /\ post[a].intent <= intent
       /\ post[a].key = intentKey => post[a].content = form /\ post[a].intent = intent
  /\ awaiting # NoAttempt =>
       /\ awaiting \in Sent
       /\ post[awaiting].key # intentKey => \A a \in Sent : post[a].key # intentKey

Refused(k) == result[k] # NoResult /\ result[k].kind = "refused"

\* An answer is what the server stored, or one of those it does not store.
AnswersAreStored ==
  \A a \in Attempts :
    /\ reply[a] # "none" => stage[a] = "answered"
    /\ reply[a] = "refused" => Refused(post[a].key)
    /\ reply[a] = "created" => charged[post[a].key] # {}
    /\ reply[a] \in {"rejected", "unsettled"} => reply[a] \in Unstored

\* A key is charged once, by a request sent with it, when its result says so.
Charges ==
  \A k \in Keys :
    /\ \A a \in charged[k] : a \in Sent /\ post[a].key = k
    /\ \A a, b \in charged[k] : a = b
    /\ result[k] = NoResult \/ Refused(k) => charged[k] = {}
    /\ result[k] # NoResult /\ result[k].kind = "created" => charged[k] # {}

\* The intent has been answered without anything being stored.
Excused(i) == \E c \in Sent : post[c].intent = i /\ reply[c] \in Unstored

\* Why the form has another key for an intent whose key was sent.
Renewals ==
  \A a \in Sent :
    /\ \A b \in Sent : post[a].intent = post[b].intent /\ post[a].key < post[b].key =>
         Refused(post[a].key) \/ Excused(post[a].intent)
    /\ post[a].intent = intent /\ post[a].key < intentKey =>
         Refused(post[a].key) \/ Excused(post[a].intent)

FormInv ==
  /\ FormTypeOK
  /\ OneKeyOneRequest
  /\ Posts /\ AnswersAreStored /\ Charges /\ Renewals

----------------------------------------------------------------------------
\* The invariant holds of a form nobody has used.
LEMMA FormInitInv == FormInit => FormInv
<1>. SUFFICES ASSUME FormInit PROVE FormInv
  OBVIOUS
<1>. USE PaymentFormAssumption
<1>1. FormTypeOK
  <2>1. 1 \in Keys /\ 1 \in Nat
    BY DEF Keys
  <2>2. post \in [Attempts -> [key : Keys, content : Contents \cup {Blank}, intent : Nat]]
    BY <2>1 DEF FormInit
  <2>3. /\ stage \in [Attempts -> {"unused", "travelling", "answered"}]
        /\ reply \in [Attempts -> Replies]
    BY DEF FormInit, Replies
  <2>4. error \in [kind : {"none", "unknown", "retryable", "final"}, of : Attempts \cup {NoAttempt}]
    BY DEF FormInit, NoError
  <2>5. /\ result \in [Keys -> Server!Results \cup {NoResult}]
        /\ charged \in [Keys -> SUBSET Attempts]
    BY DEF FormInit, Server!Init
  <2>6. /\ form \in Contents \cup {Blank}
        /\ intentKey \in Keys /\ intent \in Nat
        /\ awaiting \in Attempts \cup {NoAttempt} /\ receipt = NoAttempt
    BY <2>1 DEF FormInit
  <2>. QED BY <2>2, <2>3, <2>4, <2>5, <2>6 DEF FormTypeOK
<1>2. Sent = {}
  BY DEF FormInit, Sent
<1>3. OneKeyOneRequest /\ Posts /\ Renewals
  BY <1>2 DEF FormInit, OneKeyOneRequest, Posts, Renewals
<1>4. AnswersAreStored /\ Charges
  BY DEF FormInit, Server!Init, AnswersAreStored, Charges
<1>. QED BY <1>1, <1>3, <1>4 DEF FormInv

----------------------------------------------------------------------------
(* The browser *)

\* What only the browser's own state changes: nothing sent, nothing answered.
LEMMA ServerUntouched ==
  ASSUME FormInv, UNCHANGED <<post, stage, reply, result, charged>>
  PROVE  OneKeyOneRequest' /\ AnswersAreStored' /\ Charges' /\ Sent' = Sent
         /\ (\A k : Refused(k)' <=> Refused(k)) /\ (\A i : Excused(i)' <=> Excused(i))
BY DEF FormInv, OneKeyOneRequest, AnswersAreStored, Charges, Sent, Refused, Excused

\* The next key has not been sent, and neither has anything of a later intent.
LEMMA Fresh ==
  ASSUME FormInv, NewKey
  PROVE  /\ intentKey' \in Keys /\ intentKey' = intentKey + 1
         /\ \A a \in Sent : post[a].key < intentKey' /\ post[a].intent <= intent
         /\ intentKey \in Nat /\ intent \in Nat
         /\ \A a \in Sent : post[a].key \in Nat /\ post[a].intent \in Nat
<1>. USE PaymentFormAssumption
<1>1. intentKey \in Nat /\ intent \in Nat
  BY DEF FormInv, FormTypeOK, Keys
<1>2. intentKey' \in Keys /\ intentKey' = intentKey + 1
  BY <1>1 DEF NewKey, Keys
<1>3. \A a \in Sent : post[a].key \in Nat /\ post[a].intent \in Nat
  BY DEF FormInv, FormTypeOK, Sent, Keys
<1>. QED BY <1>1, <1>2, <1>3 DEF FormInv, Posts

\* A new key for a new intent.
LEMMA NewIntentStep ==
  ASSUME FormInv, NewKey, intent' = intent + 1, FormTypeOK',
         UNCHANGED <<post, stage, reply, result, charged>>,
         awaiting' \in {awaiting, NoAttempt}
  PROVE  FormInv'
<1>1. OneKeyOneRequest' /\ AnswersAreStored' /\ Charges' /\ Sent' = Sent
      /\ (\A k : Refused(k)' <=> Refused(k)) /\ (\A i : Excused(i)' <=> Excused(i))
  BY ServerUntouched
<1>2. Posts'
  BY <1>1, Fresh DEF FormInv, Posts
<1>3. Renewals'
  BY <1>1, Fresh DEF FormInv, Renewals
<1>. QED BY <1>1, <1>2, <1>3 DEF FormInv

\* The end of a wait that keeps the key, the intent and the fields.
LEMMA KeepStep ==
  ASSUME FormInv, FormTypeOK', awaiting' = NoAttempt,
         UNCHANGED <<form, intentKey, intent, post, stage, reply, result, charged>>
  PROVE  FormInv'
<1>1. OneKeyOneRequest' /\ AnswersAreStored' /\ Charges' /\ Sent' = Sent
      /\ (\A k : Refused(k)' <=> Refused(k)) /\ (\A i : Excused(i)' <=> Excused(i))
  BY ServerUntouched
<1>. QED BY <1>1 DEF FormInv, Posts, Renewals

\* A failed answer that is final: another key for the same intent.
LEMMA FinalStep ==
  ASSUME FormInv, FormTypeOK', awaiting # NoAttempt, IsFinalAnswer(reply[awaiting]), NewKey, awaiting' = NoAttempt,
         UNCHANGED <<form, intent, post, stage, reply, result, charged>>
  PROVE  FormInv'
<1>1. OneKeyOneRequest' /\ AnswersAreStored' /\ Charges' /\ Sent' = Sent
      /\ (\A k : Refused(k)' <=> Refused(k)) /\ (\A i : Excused(i)' <=> Excused(i))
  BY ServerUntouched
<1>2. Posts'
  BY <1>1, Fresh DEF FormInv, Posts
<1>3. ASSUME NEW a \in Sent, post[a].intent = intent, post[a].key = intentKey
      PROVE  Refused(post[a].key) \/ Excused(post[a].intent)
  <2>1. awaiting \in Sent /\ post[awaiting].key = intentKey /\ post[awaiting].intent = intent
    BY <1>3 DEF FormInv, Posts
  <2>2. awaiting \in Attempts
    BY <2>1 DEF Sent
  <2>3. CASE reply[awaiting] = "refused"
    BY <1>3, <2>1, <2>2, <2>3 DEF FormInv, AnswersAreStored
  <2>4. CASE reply[awaiting] \in {"rejected", "unsettled"}
    BY <1>3, <2>1, <2>2, <2>4 DEF FormInv, AnswersAreStored, Excused
  <2>. QED BY <2>3, <2>4 DEF IsFinalAnswer
<1>4. Renewals'
  <2>. SUFFICES ASSUME NEW a \in Sent, post[a].intent = intent, post[a].key < intentKey'
                PROVE  Refused(post[a].key) \/ Excused(post[a].intent)
    BY <1>1 DEF FormInv, Renewals
  <2>1. post[a].key < intentKey \/ post[a].key = intentKey
    BY Fresh
  <2>. QED BY <1>3, <2>1 DEF FormInv, Renewals
<1>. QED BY <1>1, <1>2, <1>4 DEF FormInv

\* What the browser does without sending anything keeps the types.
LEMMA BrowserTypes ==
  ASSUME FormInv, NEW page,
         \/ \E c \in Contents : Edit(c, page)
         \/ Lose \/ Succeed(page) \/ Fail \/ Remount
  PROVE  FormTypeOK'
<1>. USE PaymentFormAssumption
<1>0. NewKey => intentKey' \in Keys
  BY Fresh
<1>1. /\ form \in Contents \cup {Blank} /\ intentKey \in Keys /\ intent \in Nat
      /\ awaiting \in Attempts \cup {NoAttempt}
      /\ error \in [kind : {"none", "unknown", "retryable", "final"}, of : Attempts \cup {NoAttempt}]
      /\ NoError \in [kind : {"none", "unknown", "retryable", "final"}, of : Attempts \cup {NoAttempt}]
      /\ receipt \in {NoAttempt} \cup {a \in Attempts : reply[a] = "created"}
  BY DEF FormInv, FormTypeOK, NoError
<1>2. ASSUME NEW c \in Contents, Edit(c, page)
      PROVE  FormTypeOK'
  BY <1>0, <1>1, <1>2 DEF FormInv, FormTypeOK, Edit
<1>3. CASE Lose
  BY <1>1, <1>3 DEF FormInv, FormTypeOK, Lose
<1>4. CASE Succeed(page)
  <2>1. receipt' \in {NoAttempt} \cup {a \in Attempts : reply[a] = "created"}
    BY <1>1, <1>4 DEF Succeed
  <2>. QED BY <1>0, <1>1, <1>4, <2>1 DEF FormInv, FormTypeOK, Succeed
<1>5. CASE Fail
  <2>1. intentKey' \in Keys
    BY <1>0, <1>1, <1>5 DEF Fail
  <2>2. error' \in [kind : {"none", "unknown", "retryable", "final"}, of : Attempts \cup {NoAttempt}]
    BY <1>1, <1>5 DEF Fail
  <2>. QED BY <1>1, <1>5, <2>1, <2>2 DEF FormInv, FormTypeOK, Fail
<1>6. CASE Remount
  BY <1>0, <1>1, <1>6 DEF FormInv, FormTypeOK, Remount
<1>. QED BY <1>2, <1>3, <1>4, <1>5, <1>6

\* What the browser does without sending anything keeps the invariant.
LEMMA BrowserStep ==
  ASSUME FormInv, NEW page,
         \/ \E c \in Contents : Edit(c, page)
         \/ Lose \/ Succeed(page) \/ Fail \/ Remount
  PROVE  FormInv'
<1>0. FormTypeOK'
  BY BrowserTypes
<1>1. ASSUME NEW c \in Contents, Edit(c, page)
      PROVE  FormInv'
  BY <1>0, <1>1, NewIntentStep DEF Edit
<1>2. CASE Lose
  BY <1>0, <1>2, KeepStep DEF Lose
<1>3. CASE Succeed(page) \/ Remount
  BY <1>0, <1>3, NewIntentStep DEF Succeed, Remount
<1>4. CASE Fail
  BY <1>0, <1>4, KeepStep, FinalStep DEF Fail
<1>. QED BY <1>1, <1>2, <1>3, <1>4

\* A request is sent with the key, the fields and the intent of now.
LEMMA SubmitStep ==
  ASSUME FormInv, NEW a \in Attempts, NEW page, Submit(a, page)
  PROVE  FormInv'
<1>. USE PaymentFormAssumption
<1>1. /\ a \notin Sent /\ Sent' = Sent \cup {a} /\ awaiting = NoAttempt
      /\ UNCHANGED <<form, intentKey, intent, reply, result, charged>>
  BY DEF FormInv, FormTypeOK, Sent, Submit, CanSubmit
<1>2. /\ post'[a] = [key |-> intentKey, content |-> form, intent |-> intent]
      /\ \A b \in Sent : post'[b] = post[b]
      /\ \A b \in Attempts \ {a} : post'[b] = post[b] /\ stage'[b] = stage[b]
  BY <1>1 DEF FormInv, FormTypeOK, Sent, Submit
<1>3. reply[a] = "none"
  BY <1>1 DEF FormInv, AnswersAreStored, Sent
<1>4. /\ intentKey \in Nat /\ intent \in Nat
      /\ \A b \in Sent : post[b].key \in Nat /\ post[b].intent \in Nat
  BY DEF FormInv, FormTypeOK, Sent, Keys
<1>5. FormTypeOK'
  BY DEF FormInv, FormTypeOK, Submit, NoError
<1>6. OneKeyOneRequest'
  BY <1>1, <1>2 DEF FormInv, OneKeyOneRequest, Posts
<1>7. Posts'
  <2>1. awaiting' = a
    BY DEF Submit
  <2>. QED BY <1>1, <1>2, <1>4, <2>1 DEF FormInv, Posts
<1>8. AnswersAreStored'
  <2>. SUFFICES ASSUME NEW b \in Attempts
                PROVE  /\ reply[b] # "none" => stage'[b] = "answered"
                       /\ reply[b] = "refused" => Refused(post'[b].key)
                       /\ reply[b] = "created" => charged[post'[b].key] # {}
                       /\ reply[b] \in {"rejected", "unsettled"} => reply[b] \in Unstored
    BY <1>1 DEF AnswersAreStored, Refused
  <2>1. CASE b = a
    BY <1>3, <2>1
  <2>2. CASE b # a
    BY <1>2, <2>2 DEF FormInv, AnswersAreStored
  <2>. QED BY <2>1, <2>2
<1>9. Charges'
  <2>1. \A k \in Keys : Refused(k)' <=> Refused(k)
    BY <1>1 DEF Refused
  <2>. QED BY <1>1, <1>2, <2>1 DEF FormInv, Charges
<1>10. \A k, i : (Refused(k) => Refused(k)') /\ (Excused(i) => Excused(i)')
  BY <1>1, <1>2 DEF Refused, Excused
<1>11. Renewals'
  <2>. SUFFICES ASSUME NEW b \in Sent'
                PROVE  /\ \A c \in Sent' :
                            post'[b].intent = post'[c].intent /\ post'[b].key < post'[c].key =>
                              Refused(post'[b].key) \/ Excused(post'[b].intent)
                       /\ post'[b].intent = intent /\ post'[b].key < intentKey =>
                            Refused(post'[b].key) \/ Excused(post'[b].intent)
    BY <1>1, <1>10 DEF Renewals
  <2>1. CASE b = a
    BY <1>1, <1>2, <1>4, <2>1 DEF FormInv, Posts
  <2>2. CASE b # a
    BY <1>1, <1>2, <1>4, <2>2 DEF FormInv, Renewals
  <2>. QED BY <2>1, <2>2
<1>. QED BY <1>5, <1>6, <1>7, <1>8, <1>9, <1>11 DEF FormInv

----------------------------------------------------------------------------
(* The server *)

\* An answer, of which the tables know what the invariant asks.
LEMMA ReplyStep ==
  ASSUME FormInv, NEW a \in Attempts, NEW r \in Replies \ {"none"}, Answer(a, r),
         result' \in [Keys -> Server!Results \cup {NoResult}],
         charged' \in [Keys -> SUBSET Attempts],
         Charges', \A k \in Keys : Refused(k) => Refused(k)',
         \A k \in Keys : charged[k] # {} => charged'[k] # {},
         r = "refused" => Refused(post[a].key)',
         r = "created" => charged'[post[a].key] # {},
         r \in {"rejected", "unsettled"} => r \in Unstored
  PROVE  FormInv'
<1>. USE PaymentFormAssumption
<1>1. /\ Sent' = Sent /\ stage[a] = "travelling" /\ stage'[a] = "answered" /\ reply'[a] = r
      /\ \A b \in Attempts \ {a} : stage'[b] = stage[b] /\ reply'[b] = reply[b]
      /\ UNCHANGED <<form, intentKey, intent, awaiting, error, receipt, post>>
  BY DEF FormInv, FormTypeOK, Sent, Answer
<1>2. reply[a] = "none"
  BY <1>1 DEF FormInv, AnswersAreStored
<1>3. FormTypeOK'
  <2>1. /\ stage' \in [Attempts -> {"unused", "travelling", "answered"}]
        /\ reply' \in [Attempts -> Replies]
    BY DEF FormInv, FormTypeOK, Answer
  <2>2. receipt' \in {NoAttempt} \cup {b \in Attempts : reply'[b] = "created"}
    BY <1>1, <1>2 DEF FormInv, FormTypeOK
  <2>. QED BY <1>1, <2>1, <2>2 DEF FormInv, FormTypeOK
<1>4. OneKeyOneRequest' /\ Posts'
  BY <1>1 DEF FormInv, OneKeyOneRequest, Posts
<1>5. \A b \in Attempts : post[b].key \in Keys
  BY DEF FormInv, FormTypeOK
<1>6. AnswersAreStored'
  <2>. SUFFICES ASSUME NEW b \in Attempts
                PROVE  /\ reply'[b] # "none" => stage'[b] = "answered"
                       /\ reply'[b] = "refused" => Refused(post[b].key)'
                       /\ reply'[b] = "created" => charged'[post[b].key] # {}
                       /\ reply'[b] \in {"rejected", "unsettled"} => reply'[b] \in Unstored
    BY <1>1 DEF AnswersAreStored, Refused
  <2>1. CASE b = a
    BY <1>1, <2>1
  <2>2. CASE b # a
    BY <1>1, <1>5, <2>2 DEF FormInv, AnswersAreStored
  <2>. QED BY <2>1, <2>2
<1>7. \A i : Excused(i) => Excused(i)'
  <2>. SUFFICES ASSUME NEW i, NEW c \in Sent, post[c].intent = i, reply[c] \in Unstored
                PROVE  Excused(i)'
    BY DEF Excused
  <2>1. c # a /\ c \in Attempts
    BY <1>2 DEF Sent
  <2>. QED BY <1>1, <2>1 DEF Excused
<1>8. Renewals'
  <2>1. \A b \in Sent : Refused(post[b].key) => Refused(post[b].key)'
    BY <1>1, <1>5 DEF Sent, Refused
  <2>. QED BY <1>1, <1>7, <2>1 DEF FormInv, Renewals, Refused
<1>. QED BY <1>3, <1>4, <1>6, <1>8 DEF FormInv

\* Every answer of the server keeps the invariant.
LEMMA ServerStep ==
  ASSUME FormInv, NEW a \in Attempts,
         Pay(a) \/ Refuse(a) \/ Replay(a) \/ AnswerUnstored(a) \/ RollBack(a)
  PROVE  FormInv'
<1>. DEFINE k == post[a].key
<1>. USE PaymentFormAssumption
<1>0. /\ k \in Keys /\ result \in [Keys -> Server!Results \cup {NoResult}]
      /\ charged \in [Keys -> SUBSET Attempts]
      /\ post \in [Attempts -> [key : Keys, content : Contents \cup {Blank}, intent : Nat]]
  BY DEF FormInv, FormTypeOK
<1>sent. ASSUME NEW r, Answer(a, r)
      PROVE  a \in Sent /\ Sent' = Sent /\ post' = post
  BY <1>sent DEF FormInv, FormTypeOK, Answer, Sent
<1>1. CASE Pay(a)
  <2>. DEFINE res == [kind |-> "created", by |-> a]
  <2>1. /\ result[k] = NoResult /\ charged[k] = {} /\ Answer(a, "created")
        /\ result' = [result EXCEPT ![k] = res]
        /\ charged' = [charged EXCEPT ![k] = {a}]
    BY <1>1 DEF Pay, Server!DecideCreated
  <2>2. res \in Server!Results /\ res # NoResult /\ res.kind = "created"
    BY DEF Server!Results
  <2>. HIDE DEF res
  <2>3. /\ result' \in [Keys -> Server!Results \cup {NoResult}]
        /\ charged' \in [Keys -> SUBSET Attempts]
    BY <1>0, <2>1, <2>2
  <2>4. /\ result'[k] = res /\ charged'[k] = {a}
        /\ \A j \in Keys \ {k} : result'[j] = result[j] /\ charged'[j] = charged[j]
    BY <1>0, <2>1
  <2>5. Charges'
    <3>. SUFFICES ASSUME NEW j \in Keys
                  PROVE  /\ \A b \in charged'[j] : b \in Sent' /\ post'[b].key = j
                         /\ \A b, c \in charged'[j] : b = c
                         /\ result'[j] = NoResult \/ Refused(j)' => charged'[j] = {}
                         /\ result'[j] # NoResult /\ result'[j].kind = "created" => charged'[j] # {}
      BY DEF Charges
    <3>1. CASE j = k
      BY <1>sent, <2>1, <2>2, <2>4, <3>1 DEF Refused
    <3>2. CASE j # k
      BY <1>sent, <2>1, <2>4, <3>2 DEF FormInv, Charges, Refused
    <3>. QED BY <3>1, <3>2
  <2>6. \A j \in Keys : Refused(j) => Refused(j)'
    BY <2>1, <2>4 DEF Refused
  <2>7. \A j \in Keys : charged[j] # {} => charged'[j] # {}
    BY <2>4
  <2>. QED BY <2>1, <2>3, <2>4, <2>5, <2>6, <2>7, ReplyStep DEF Replies
<1>2. CASE Refuse(a)
  <2>. DEFINE res == [kind |-> "refused", by |-> a]
  <2>1. /\ result[k] = NoResult /\ charged[k] = {} /\ Answer(a, "refused")
        /\ result' = [result EXCEPT ![k] = res] /\ charged' = charged
    BY <1>2 DEF Refuse, Server!DecideRefused
  <2>2. res \in Server!Results /\ res # NoResult /\ res.kind = "refused"
    BY DEF Server!Results
  <2>. HIDE DEF res
  <2>3. result' \in [Keys -> Server!Results \cup {NoResult}]
    BY <1>0, <2>1, <2>2
  <2>4. result'[k] = res /\ \A j \in Keys \ {k} : result'[j] = result[j]
    BY <1>0, <2>1
  <2>5. Charges'
    <3>. SUFFICES ASSUME NEW j \in Keys
                  PROVE  /\ \A b \in charged'[j] : b \in Sent' /\ post'[b].key = j
                         /\ \A b, c \in charged'[j] : b = c
                         /\ result'[j] = NoResult \/ Refused(j)' => charged'[j] = {}
                         /\ result'[j] # NoResult /\ result'[j].kind = "created" => charged'[j] # {}
      BY DEF Charges
    <3>1. CASE j = k
      BY <1>sent, <2>1, <2>2, <2>4, <3>1 DEF FormInv, Charges, Refused
    <3>2. CASE j # k
      BY <1>sent, <2>1, <2>4, <3>2 DEF FormInv, Charges, Refused
    <3>. QED BY <3>1, <3>2
  <2>6. (\A j \in Keys : Refused(j) => Refused(j)') /\ Refused(k)'
    BY <1>sent, <2>1, <2>2, <2>4 DEF Refused
  <2>. QED BY <1>0, <2>1, <2>3, <2>5, <2>6, ReplyStep DEF Replies
<1>3. ASSUME NEW r \in Replies \ {"none"}, Answer(a, r), UNCHANGED <<result, charged>>,
             r = "refused" => Refused(k),
             r = "created" => charged[k] # {},
             r \in {"rejected", "unsettled"} => r \in Unstored
      PROVE  FormInv'
  <2>1. post' = post /\ Sent' = Sent
    BY <1>sent, <1>3
  <2>2. \A j : Refused(j)' <=> Refused(j)
    BY <1>3 DEF Refused
  <2>3. Charges'
    BY <1>3, <2>1, <2>2 DEF FormInv, Charges
  <2>4. r = "refused" => Refused(post[a].key)'
    BY <1>3, <2>1, <2>2 DEF Refused
  <2>. QED BY <1>0, <1>3, <2>2, <2>3, <2>4, ReplyStep
<1>4. CASE Replay(a)
  <2>. DEFINE r == result[k].kind
  <2>1. result[k] # NoResult /\ result[k] \in Server!Results
        /\ Answer(a, r) /\ UNCHANGED <<result, charged>>
    BY <1>0, <1>4 DEF Replay
  <2>2. r \in {"created", "refused"}
    BY <2>1 DEF Server!Results
  <2>3. (r = "refused" => Refused(k)) /\ (r = "created" => charged[k] # {})
    BY <1>0, <2>1 DEF Refused, FormInv, Charges
  <2>. QED BY <1>3, <2>1, <2>2, <2>3 DEF Replies
<1>5. CASE AnswerUnstored(a)
  BY <1>3, <1>5 DEF AnswerUnstored, Replies
<1>6. CASE RollBack(a)
  BY <1>3, <1>6 DEF RollBack, Replies
<1>. QED BY <1>1, <1>2, <1>4, <1>5, <1>6

----------------------------------------------------------------------------
\* No step breaks the invariant.
LEMMA FormNextInv ==
  ASSUME FormInv, NEW page, [FormNext(page)]_formVars
  PROVE  FormInv'
<1>1. CASE UNCHANGED formVars
  BY <1>1 DEF formVars, FormInv, FormTypeOK, OneKeyOneRequest, Posts, AnswersAreStored, Charges, Renewals,
              Refused, Excused, Sent
<1>. QED BY <1>1, BrowserStep, SubmitStep, ServerStep DEF FormNext

\* The inductive invariant, of which the theorems below are parts.
THEOREM FormInvariant == ASSUME NEW page PROVE FormSpec(page) => []FormInv
<1>1. FormInit => FormInv
  BY FormInitInv
<1>2. FormInv /\ [FormNext(page)]_formVars => FormInv'
  BY FormNextInv
<1>. QED BY <1>1, <1>2, PTL DEF FormSpec

\* Type correctness: a receipt is shown over an attempt that was answered 201.
THEOREM FormTypeCorrect == ASSUME NEW page PROVE FormSpec(page) => []FormTypeOK
<1>1. FormInv => FormTypeOK
  BY DEF FormInv
<1>. QED BY FormInvariant, <1>1, PTL

\* SendMoney, Fund: no key travels with two different requests.
THEOREM KeyOfOneRequest == ASSUME NEW page PROVE FormSpec(page) => []OneKeyOneRequest
<1>1. FormInv => OneKeyOneRequest
  BY DEF FormInv
<1>. QED BY FormInvariant, <1>1, PTL

\* Two payments of one intent need a 4xx that left nothing stored.
LEMMA SecondPayment == FormInv => SecondPaymentFollowsUnstoredAnswer
<1>. SUFFICES ASSUME FormInv, NEW a \in Sent, NEW b \in Sent,
                     a \in charged[post[a].key], b \in charged[post[b].key],
                     post[a].intent = post[b].intent, a # b
              PROVE  Excused(post[a].intent)
  BY DEF SecondPaymentFollowsUnstoredAnswer, Excused
<1>1. post[a].key \in Keys /\ post[b].key \in Keys
      /\ post[a].key \in Nat /\ post[b].key \in Nat
  BY DEF FormInv, FormTypeOK, Sent, Keys
<1>2. post[a].key # post[b].key
  BY <1>1 DEF FormInv, Charges
<1>3. ~Refused(post[a].key) /\ ~Refused(post[b].key)
  BY <1>1 DEF FormInv, Charges
<1>4. CASE post[a].key < post[b].key
  BY <1>3, <1>4 DEF FormInv, Renewals
<1>5. CASE post[b].key < post[a].key
  BY <1>3, <1>5 DEF FormInv, Renewals
<1>. QED BY <1>1, <1>2, <1>4, <1>5

\* SendMoney, Fund: however often the user sends, retries, edits back and
\* forth and loses answers, an intent is paid twice only when a request that
\* was carried out is later answered 401, 403 or with an unsettled refusal.
THEOREM SecondPaymentExplained ==
  ASSUME NEW page PROVE FormSpec(page) => []SecondPaymentFollowsUnstoredAnswer
BY FormInvariant, SecondPayment, PTL

\* "Sent" stands over a payment that was made, of the contents that were sent.
LEMMA ReceiptOfInv == FormInv => ReceiptIsTrue
<1>. SUFFICES ASSUME FormInv, receipt # NoAttempt
              PROVE  \E p \in charged[post[receipt].key] :
                       post[p].content = post[receipt].content
  BY DEF ReceiptIsTrue
<1>1. receipt \in Attempts /\ reply[receipt] = "created" /\ post[receipt].key \in Keys
  BY DEF FormInv, FormTypeOK
<1>2. receipt \in Sent /\ charged[post[receipt].key] # {}
  BY <1>1 DEF FormInv, AnswersAreStored, Sent
<1>3. PICK p \in charged[post[receipt].key] : p \in Sent /\ post[p].key = post[receipt].key
  BY <1>1, <1>2 DEF FormInv, Charges
<1>. QED BY <1>2, <1>3 DEF FormInv, OneKeyOneRequest

\* AccountDetail.tsx, Admin.tsx: what "Sent" and the form say of a payment is true.
THEOREM ReceiptOfPayment == ASSUME NEW page PROVE FormSpec(page) => []ReceiptIsTrue
BY FormInvariant, ReceiptOfInv, PTL

LEMMA PaymentsOfInv == FormInv => PaysAsIntended
BY SecondPayment, ReceiptOfInv DEF FormInv, PaysAsIntended

\* SendMoney, Fund: for any number of attempts, keys and contents.
THEOREM IntendedPayments == ASSUME NEW page PROVE FormSpec(page) => []PaysAsIntended
BY FormInvariant, PaymentsOfInv, PTL

----------------------------------------------------------------------------
(***************************************************************************)
(* WebSession, for any keys and users.                                     *)
(*                                                                         *)
(* The argument: every change of a credential is followed by the guards    *)
(* with the new credentials, so a page is where its credential is          *)
(* (LandedHasCredential).  A request carries a key of its own slot, by     *)
(* token a user, or nothing where nothing was there (Requested), and the   *)
(* 401 on its way to a stored key is for a key that is not valid, now as   *)
(* then, since no key becomes valid again: that is why an answer, however  *)
(* late, stores only the key it was about and drops only a slot it was     *)
(* made with.                                                              *)
(***************************************************************************)

Requested(c) ==
  /\ c.slot = "customer" =>
       IF c.by = "token" THEN c.cred \in Users \cup {NoOne} ELSE c.cred \in ApiKeys
  /\ c.slot = "admin" =>
       c.by # "token" /\ c.cred \in AdminKeys \cup (IF c.by = "stored" THEN {NoOne} ELSE {})

SessionInv ==
  /\ SessionTypeOK
  /\ NoPageWithoutCredential
  /\ \A c \in requests : Requested(c)
  /\ \A c \in requests : c.by = "stored" /\ c.answer = "401" => c.cred \notin valid
  /\ refreshing # NoOne => refreshing \in profile

KeysProven ==
  /\ customerKey' \notin {customerKey, NoOne} =>
       at = "admin" \/ \E c \in requests : c.cred = customerKey' /\ c.answer = "ok"
  /\ adminKey' \notin {adminKey, NoOne} =>
       \E c \in requests : c.cred = adminKey' /\ c.answer = "ok"

OnlyStoredDropped ==
  /\ customerKey # NoOne /\ customerKey' = NoOne =>
       \/ at \in {"app", "login/user"} /\ requests' = requests
       \/ \E c \in requests \ requests' :
            c.slot = "customer" /\ c.by = "stored" /\ c.answer = "401" /\ c.cred \notin valid
  /\ adminKey # NoOne /\ adminKey' = NoOne =>
       \/ at = "admin" /\ requests' = requests
       \/ \E c \in requests \ requests' :
            c.slot = "admin" /\ c.by = "stored" /\ c.answer = "401" /\ c.cred \notin valid

SessionOK == SessionInv' /\ KeysProven /\ OnlyStoredDropped

\* A step that leaves the storage alone earns and loses no key.
LEMMA StoredUnchanged ==
  ASSUME UNCHANGED stored PROVE KeysProven /\ OnlyStoredDropped
BY DEF stored, KeysProven, OnlyStoredDropped

\* Where the guards let a visitor land, the credential they ask for is there.
LEMMA LandedHasCredential ==
  ASSUME NEW path \in Paths, NEW key, NEW admin, NEW u
  PROVE  /\ Landed(path, key, admin, u) \in Paths
         /\ Landed(path, key, admin, u) = "app" => key # NoOne \/ u # NoOne
         /\ Landed(path, key, admin, u) = "admin" => admin # NoOne
BY DEF Landed, Paths, SignedInUser

\* The guards are evaluated with the credentials of after the change.
LEMMA Arriving ==
  ASSUME SessionInv, NEW path \in Paths, Arrive(path), profile' = profile
  PROVE  at' \in Paths /\ NoPageWithoutCredential' /\ rendered' \subseteq profile'
<1>1. rendered \subseteq profile
  BY DEF SessionInv, SessionTypeOK
<1>2. rendered' \subseteq profile'
  BY <1>1 DEF Arrive, Rendered
<1>3. at' = Landed(path, customerKey', adminKey', user')
  BY DEF Arrive
<1>4. at' \in Paths
  BY <1>3, LandedHasCredential
<1>5. at' = "app" => customerKey' # NoOne \/ user' # NoOne
  BY <1>3, LandedHasCredential
<1>6. at' = "admin" => adminKey' # NoOne
  BY <1>3, LandedHasCredential
<1> QED BY <1>2, <1>4, <1>5, <1>6 DEF NoPageWithoutCredential

\* The invariant holds of a tab that was just opened.
LEMMA SessionInitInv == SessionInit => SessionInv
BY WebSessionAssumption
   DEF SessionInit, SessionInv, SessionTypeOK, NoPageWithoutCredential, Paths

----------------------------------------------------------------------------
(* The visitor *)

\* A link is followed, as far as the guards let it.
LEMMA BrowseStep ==
  ASSUME SessionInv, NEW path \in Paths, Browse(path) PROVE SessionOK
<1>1. at' \in Paths /\ NoPageWithoutCredential' /\ rendered' \subseteq profile'
  BY Arriving DEF Browse, email
<1>2. SessionInv'
  BY <1>1 DEF Browse, SessionInv, SessionTypeOK, stored, email
<1> QED BY <1>2, StoredUnchanged DEF Browse, SessionOK

\* The other sign-in form is mounted.
LEMMA SwitchMethodStep == ASSUME SessionInv, SwitchMethod PROVE SessionOK
<1>1. SessionInv'
  BY DEF SwitchMethod, SessionInv, SessionTypeOK, NoPageWithoutCredential, stored, email
<1> QED BY <1>1, StoredUnchanged DEF SwitchMethod, SessionOK

\* A request is made with the credential of its slot.
LEMMA SendStep ==
  ASSUME SessionInv, NEW c \in SessionCall, Requested(c), c.answer = "none", Send(c),
         UNCHANGED <<stored, user, at, pending, leaving, email, rendered, valid>>,
         trying' \in ApiKeys \cup AdminKeys \cup Users \cup {NoOne}
  PROVE  SessionOK
<1>1. requests' = requests \cup {c}
  BY DEF Send
<1>2. SessionTypeOK'
  BY <1>1 DEF SessionInv, SessionTypeOK, stored, email
<1>3. SessionInv'
  BY <1>1, <1>2 DEF SessionInv, NoPageWithoutCredential, stored, email
<1> QED BY <1>3, StoredUnchanged DEF SessionOK

\* An admin request carries the stored key, or none.
LEMMA AdminCallRequested ==
  ASSUME SessionInv
  PROVE  AdminCall \in SessionCall /\ Requested(AdminCall) /\ AdminCall.answer = "none"
<1>1. adminKey \in AdminKeys \cup {NoOne}
  BY DEF SessionInv, SessionTypeOK
<1> QED BY <1>1 DEF AdminCall, SessionCall, Requested

\* What a request of the tab carries, wherever it is made.
LEMMA CallsAreRequested ==
  ASSUME SessionInv
  PROVE  \A c \in {CustomerCall, AdminCall} : c \in SessionCall /\ Requested(c) /\ c.answer = "none"
<1>1. /\ customerKey \in ApiKeys \cup {NoOne} /\ adminKey \in AdminKeys \cup {NoOne}
      /\ user \in Users \cup {NoOne, Restoring}
  BY DEF SessionInv, SessionTypeOK
<1>2. CASE customerKey # NoOne
  <2>1. PICK c : c = [slot |-> "customer", by |-> "stored", cred |-> customerKey, answer |-> "none"]
    OBVIOUS
  <2>2. c \in SessionCall /\ Requested(c) /\ c.answer = "none"
    BY <1>1, <1>2, <2>1 DEF SessionCall, Requested
  <2> QED BY <1>2, <2>1, <2>2, AdminCallRequested DEF CustomerCall
<1>3. CASE customerKey = NoOne
  <2>1. PICK u \in Users \cup {NoOne} : u = IF SignedInUser(user) THEN user ELSE NoOne
    BY <1>1 DEF SignedInUser
  <2>2. PICK c : c = [slot |-> "customer", by |-> "token", answer |-> "none", cred |-> u]
    OBVIOUS
  <2>3. c \in SessionCall /\ Requested(c) /\ c.answer = "none"
    BY <2>2 DEF SessionCall, Requested
  <2> QED BY <1>3, <2>1, <2>2, <2>3, AdminCallRequested DEF CustomerCall
<1> QED BY <1>2, <1>3

\* A page of the customer app asks with the stored key, else with the token.
LEMMA CallAsCustomerStep == ASSUME SessionInv, CallAsCustomer PROVE SessionOK
<1>1. PICK c : c = CustomerCall
  OBVIOUS
<1>2. c \in SessionCall /\ Requested(c) /\ c.answer = "none"
  BY <1>1, CallsAreRequested
<1>3. Send(c)
  BY <1>1 DEF CallAsCustomer
<1> QED BY <1>2, <1>3, SendStep DEF CallAsCustomer, SessionInv, SessionTypeOK

\* A page of the console asks with the admin key.
LEMMA CallAsAdminStep == ASSUME SessionInv, CallAsAdmin PROVE SessionOK
<1>1. PICK c : c = AdminCall
  OBVIOUS
<1>2. c \in SessionCall /\ Requested(c) /\ c.answer = "none"
  BY <1>1, CallsAreRequested
<1>3. Send(c)
  BY <1>1 DEF CallAsAdmin
<1> QED BY <1>2, <1>3, SendStep DEF CallAsAdmin, SessionInv, SessionTypeOK

\* The next request of the same function takes the place of the one answered.
LEMMA FollowUpStep ==
  ASSUME SessionInv, NEW c \in requests, FollowUp(c) PROVE SessionOK
<1>1. PICK d : d = IF c.slot = "customer" THEN CustomerCall ELSE AdminCall
  OBVIOUS
<1>2. d \in SessionCall /\ Requested(d) /\ d.answer = "none"
  BY <1>1, CallsAreRequested
<1>3. requests' = (requests \ {c}) \cup {d}
  BY <1>1 DEF FollowUp
<1>4. SessionTypeOK'
  BY <1>2, <1>3 DEF FollowUp, SessionInv, SessionTypeOK, stored, email
<1>5. SessionInv'
  BY <1>2, <1>3, <1>4 DEF FollowUp, SessionInv, NoPageWithoutCredential, stored, email
<1> QED BY <1>5, StoredUnchanged DEF FollowUp, SessionOK

\* A request that fails stores and drops nothing.
LEMMA CallFailsStep ==
  ASSUME SessionInv, NEW c \in requests, CallFails(c) PROVE SessionOK
<1>1. SessionInv'
  BY DEF CallFails, SessionInv, SessionTypeOK, NoPageWithoutCredential, stored, email
<1> QED BY <1>1, StoredUnchanged DEF CallFails, SessionOK

\* A pasted key is tried before it is stored.
LEMMA TryKeyStep ==
  ASSUME SessionInv, NEW k \in ApiKeys \cup AdminKeys, TryKey(k) PROVE SessionOK
<1>1. PICK c : c = [slot |-> IF k \in ApiKeys THEN "customer" ELSE "admin",
                    by |-> "candidate", cred |-> k, answer |-> "none"]
  OBVIOUS
<1>2. c \in SessionCall /\ Requested(c) /\ c.answer = "none"
  BY <1>1 DEF SessionCall, Requested
<1>3. Send(c)
  BY <1>1 DEF TryKey
<1> QED BY <1>2, <1>3, SendStep DEF TryKey

\* A sign-in starts on the sign-in page, and drops the stored key there.
LEMMA StartSignInStep ==
  ASSUME SessionInv, NEW u \in Users, StartSignIn(u) PROVE SessionOK
<1>1. SessionInv'
  BY DEF StartSignIn, SessionInv, SessionTypeOK, NoPageWithoutCredential, email
<1> QED BY <1>1 DEF StartSignIn, SessionOK, KeysProven, OnlyStoredDropped

\* Firebase answers with a user, whose page may be shown.
LEMMA SignedInStep ==
  ASSUME SessionInv, NEW u \in Users, SignedIn(u) PROVE SessionOK
<1>1. /\ at' \in Paths
      /\ at' = "app" => customerKey # NoOne \/ u # NoOne
      /\ at' = "admin" => adminKey # NoOne
  BY LandedHasCredential DEF SignedIn, Paths
<1>2. NoPageWithoutCredential'
  BY <1>1 DEF SignedIn, stored, NoPageWithoutCredential
<1>3. /\ profile' \subseteq confirmed' /\ claim' \subseteq confirmed'
      /\ rendered' \subseteq profile'
      /\ confirmed' \subseteq Users
  BY DEF SignedIn, SessionInv, SessionTypeOK
<1>4. refreshing' # NoOne => refreshing' \in profile'
  BY DEF SignedIn, SessionInv, SessionTypeOK
<1>5. SessionTypeOK'
  BY <1>1, <1>3 DEF SignedIn, SessionInv, SessionTypeOK, stored
<1>6. SessionInv'
  BY <1>2, <1>4, <1>5 DEF SignedIn, SessionInv
<1> QED BY <1>6, StoredUnchanged DEF SignedIn, SessionOK

\* Firebase refuses a sign-in.
LEMMA SignInFailsStep ==
  ASSUME SessionInv, NEW u \in Users, SignInFails(u) PROVE SessionOK
<1>1. SessionInv'
  BY DEF SignInFails, SessionInv, SessionTypeOK, NoPageWithoutCredential, stored, email
<1> QED BY <1>1, StoredUnchanged DEF SignInFails, SessionOK

\* Signing out of the customer app drops its key and leaves the page.
LEMMA SignOutStep == ASSUME SessionInv, SignOut PROVE SessionOK
<1>1. at' \in Paths /\ NoPageWithoutCredential' /\ rendered' \subseteq profile'
  BY Arriving DEF SignOut, email, Paths
<1>2. SessionInv'
  BY <1>1 DEF SignOut, SessionInv, SessionTypeOK, email
<1> QED BY <1>2 DEF SignOut, SessionOK, KeysProven, OnlyStoredDropped

\* Firebase has signed out, and the guards look again.
LEMMA SignedOutOfFirebaseStep ==
  ASSUME SessionInv, SignedOutOfFirebase PROVE SessionOK
<1>1. at' \in Paths /\ NoPageWithoutCredential' /\ rendered' \subseteq profile'
  BY Arriving DEF SignedOutOfFirebase, email, SessionInv, SessionTypeOK
<1>2. SessionInv'
  BY <1>1 DEF SignedOutOfFirebase, SessionInv, SessionTypeOK, stored, email
<1> QED BY <1>2, StoredUnchanged DEF SignedOutOfFirebase, SessionOK

\* Signing out of the console drops the admin key.
LEMMA SignOutAdminStep == ASSUME SessionInv, SignOutAdmin PROVE SessionOK
<1>1. at' \in Paths /\ NoPageWithoutCredential' /\ rendered' \subseteq profile'
  BY Arriving DEF SignOutAdmin, email, Paths
<1>2. SessionInv'
  BY <1>1 DEF SignOutAdmin, SessionInv, SessionTypeOK, email
<1> QED BY <1>2 DEF SignOutAdmin, SessionOK, KeysProven, OnlyStoredDropped

\* The console opens the customer app with a key it issued.
LEMMA OpenAsStep ==
  ASSUME SessionInv, NEW k \in ApiKeys, OpenAs(k) PROVE SessionOK
<1>1. at' \in Paths /\ NoPageWithoutCredential' /\ rendered' \subseteq profile'
  BY Arriving DEF OpenAs, email, Paths
<1>2. SessionInv'
  BY <1>1 DEF OpenAs, SessionInv, SessionTypeOK, email
<1>3. customerKey' # NoOne
  BY WebSessionAssumption DEF OpenAs
<1> QED BY <1>2, <1>3 DEF OpenAs, SessionOK, KeysProven, OnlyStoredDropped

\* A reload keeps the storage and waits for Firebase again.
LEMMA ReloadPageStep == ASSUME SessionInv, ReloadPage PROVE SessionOK
<1>1. /\ at' \in Paths
      /\ at' = "app" => customerKey # NoOne \/ user' # NoOne
      /\ at' = "admin" => adminKey # NoOne
  BY LandedHasCredential DEF ReloadPage, SessionInv, SessionTypeOK
<1>2. NoPageWithoutCredential'
  BY <1>1 DEF ReloadPage, stored, NoPageWithoutCredential
<1>3. SessionInv'
  BY <1>1, <1>2 DEF ReloadPage, SessionInv, SessionTypeOK, stored
<1> QED BY <1>3, StoredUnchanged DEF ReloadPage, SessionOK

----------------------------------------------------------------------------
(* Firebase and the server *)

\* Firebase tells who is signed in, and the guards look again.
LEMMA RestoreStep == ASSUME SessionInv, Restore PROVE SessionOK
<1>1. at' \in Paths /\ NoPageWithoutCredential' /\ rendered' \subseteq profile'
  BY Arriving DEF Restore, email, SessionInv, SessionTypeOK
<1>2. SessionInv'
  BY <1>1 DEF Restore, SessionInv, SessionTypeOK, stored, email
<1> QED BY <1>2, StoredUnchanged DEF Restore, SessionOK

\* A verification link is followed.
LEMMA FollowLinkStep ==
  ASSUME SessionInv, NEW u \in Users, FollowLink(u) PROVE SessionOK
<1>1. SessionInv'
  BY DEF FollowLink, SessionInv, SessionTypeOK, NoPageWithoutCredential, stored
<1> QED BY <1>1, StoredUnchanged DEF FollowLink, SessionOK

\* The profile of a verified user is loaded again.
LEMMA ReloadProfileStep == ASSUME SessionInv, ReloadProfile PROVE SessionOK
<1>1. SessionInv'
  BY DEF ReloadProfile, SessionInv, SessionTypeOK, NoPageWithoutCredential, stored
<1> QED BY <1>1, StoredUnchanged DEF ReloadProfile, SessionOK

\* The claim comes with the new token.
LEMMA TokenRefreshedStep == ASSUME SessionInv, TokenRefreshed PROVE SessionOK
<1>1. SessionInv'
  BY DEF TokenRefreshed, SessionInv, SessionTypeOK, NoPageWithoutCredential, stored
<1> QED BY <1>1, StoredUnchanged DEF TokenRefreshed, SessionOK

\* The new token does not come.
LEMMA TokenRefreshFailsStep == ASSUME SessionInv, TokenRefreshFails PROVE SessionOK
<1>1. SessionInv'
  BY DEF TokenRefreshFails, SessionInv, SessionTypeOK, NoPageWithoutCredential, stored
<1> QED BY <1>1, StoredUnchanged DEF TokenRefreshFails, SessionOK

\* The server's verdict changes nothing but the answer on its way.
LEMMA DecideStep ==
  ASSUME SessionInv, NEW c \in requests, Decide(c) PROVE SessionOK
<1>1. PICK a \in Verdicts(c) : requests' = (requests \ {c}) \cup {[c EXCEPT !.answer = a]}
  BY DEF Decide
<1>2. PICK d : d = [c EXCEPT !.answer = a]
  OBVIOUS
<1>3. c \in SessionCall /\ Requested(c)
  BY DEF SessionInv, SessionTypeOK
<1>4. a \in {"ok", "401"} /\ (c.by = "stored" /\ a = "401" => c.cred \notin valid)
  <2>1. NoOne \notin valid
    BY WebSessionAssumption DEF SessionInv, SessionTypeOK
  <2> QED BY <1>1, <2>1 DEF Verdicts
<1>5. d \in SessionCall
  BY <1>2, <1>3, <1>4 DEF SessionCall
<1>6. d.slot = c.slot /\ d.by = c.by /\ d.cred = c.cred /\ d.answer = a
  BY <1>2, <1>3 DEF SessionCall
<1>7. Requested(d) /\ (d.by = "stored" /\ d.answer = "401" => d.cred \notin valid)
  BY <1>3, <1>4, <1>6 DEF Requested
<1>8. requests' = (requests \ {c}) \cup {d} /\ valid' = valid
  BY <1>1, <1>2 DEF Decide
<1>9. SessionTypeOK'
  BY <1>5, <1>8 DEF Decide, SessionInv, SessionTypeOK, stored, email
<1>10. SessionInv'
  BY <1>7, <1>8, <1>9 DEF Decide, SessionInv, NoPageWithoutCredential, stored, email
<1> QED BY <1>10, StoredUnchanged DEF Decide, SessionOK

\* A key is revoked behind the tab's back.
LEMMA RevokeKeyStep ==
  ASSUME SessionInv, NEW k \in ApiKeys \cup AdminKeys, RevokeKey(k) PROVE SessionOK
<1>1. SessionInv'
  BY DEF RevokeKey, SessionInv, SessionTypeOK, NoPageWithoutCredential, stored, email
<1> QED BY <1>1, StoredUnchanged DEF RevokeKey, SessionOK

\* An answer arrives, late or not: it stores the key it is about, or drops what
\* a rejected request of the stored key had used.
LEMMA ReceivedStep ==
  ASSUME SessionInv, NEW c \in requests, Received(c) PROVE SessionOK
<1>1. c \in SessionCall /\ Requested(c)
  BY DEF SessionInv, SessionTypeOK
<1>2. at \in Paths
  BY DEF SessionInv, SessionTypeOK
<1>3. PICK path \in Paths : Arrive(path)
  BY <1>2 DEF Received, Paths
<1>4. at' \in Paths /\ NoPageWithoutCredential' /\ rendered' \subseteq profile'
  BY <1>3, Arriving DEF Received, email
<1>5. c.slot = "customer" /\ StoresKey(c) => c.cred \in ApiKeys
  BY <1>1 DEF Requested, StoresKey
<1>6. c.slot = "admin" /\ StoresKey(c) => c.cred \in AdminKeys
  BY <1>1 DEF Requested, StoresKey
<1>7. customerKey' \in ApiKeys \cup {NoOne} /\ adminKey' \in AdminKeys \cup {NoOne}
  BY <1>5, <1>6 DEF Received, SessionInv, SessionTypeOK
<1>8. requests' = requests \ {c}
  BY DEF Received
<1>9. SessionTypeOK'
  BY <1>4, <1>7, <1>8 DEF Received, SessionInv, SessionTypeOK, email
<1>10. SessionInv'
  BY <1>4, <1>8, <1>9 DEF Received, SessionInv, email
<1>11. KeysProven
  BY DEF Received, KeysProven, StoresKey
<1>12. c \in requests \ requests'
  BY <1>8
<1>13. DropsKey(c) => c.by = "stored" /\ c.answer = "401" /\ c.cred \notin valid
  BY DEF DropsKey, SessionInv
<1>14. customerKey # NoOne /\ customerKey' = NoOne => c.slot = "customer" /\ DropsKey(c)
  BY <1>5, WebSessionAssumption DEF Received
<1>15. adminKey # NoOne /\ adminKey' = NoOne => c.slot = "admin" /\ DropsKey(c)
  BY <1>6, WebSessionAssumption DEF Received
<1>16. OnlyStoredDropped
  BY <1>12, <1>13, <1>14, <1>15 DEF OnlyStoredDropped
<1> QED BY <1>10, <1>11, <1>16 DEF SessionOK

----------------------------------------------------------------------------

\* No step breaks the invariant, and every step earns or loses keys as it may.
LEMMA SessionNextInv ==
  SessionInv /\ [SessionNext]_sessionVars => SessionOK
<1> SUFFICES ASSUME SessionInv, [SessionNext]_sessionVars PROVE SessionOK
  OBVIOUS
<1>1. CASE UNCHANGED sessionVars
  <2>1. SessionInv'
    BY <1>1 DEF sessionVars, stored, email, SessionInv, SessionTypeOK, NoPageWithoutCredential
  <2> QED BY <1>1, <2>1, StoredUnchanged DEF sessionVars, SessionOK
<1>2. ASSUME NEW path \in Paths, Browse(path) PROVE SessionOK
  BY <1>2, BrowseStep
<1>3. CASE SwitchMethod \/ CallAsCustomer \/ CallAsAdmin
  BY <1>3, SwitchMethodStep, CallAsCustomerStep, CallAsAdminStep
<1>4. ASSUME NEW k \in ApiKeys \cup AdminKeys, TryKey(k) \/ RevokeKey(k) PROVE SessionOK
  BY <1>4, TryKeyStep, RevokeKeyStep
<1>5. ASSUME NEW k \in ApiKeys, OpenAs(k) PROVE SessionOK
  BY <1>5, OpenAsStep
<1>6. ASSUME NEW u \in Users, StartSignIn(u) \/ SignedIn(u) \/ SignInFails(u) \/ FollowLink(u)
      PROVE  SessionOK
  BY <1>6, StartSignInStep, SignedInStep, SignInFailsStep, FollowLinkStep
<1>7. CASE SignOut \/ SignedOutOfFirebase \/ SignOutAdmin \/ ReloadPage
  BY <1>7, SignOutStep, SignedOutOfFirebaseStep, SignOutAdminStep, ReloadPageStep
<1>8. CASE Restore \/ ReloadProfile \/ TokenRefreshed \/ TokenRefreshFails
  BY <1>8, RestoreStep, ReloadProfileStep, TokenRefreshedStep, TokenRefreshFailsStep
<1>9. ASSUME NEW c \in requests, Decide(c) \/ Received(c) \/ FollowUp(c) \/ CallFails(c)
      PROVE  SessionOK
  BY <1>9, DecideStep, ReceivedStep, FollowUpStep, CallFailsStep
<1> QED BY <1>1, <1>2, <1>3, <1>4, <1>5, <1>6, <1>7, <1>8, <1>9 DEF SessionNext

\* The inductive invariant of a tab.
THEOREM SessionInvariant == SessionSpec => []SessionInv
<1>1. SessionInv /\ [SessionNext]_sessionVars => SessionInv'
  BY SessionNextInv DEF SessionOK
<1> QED BY <1>1, SessionInitInv, PTL DEF SessionSpec

\* Type correctness of the tab and of its requests.
THEOREM SessionTypeCorrect == SessionSpec => []SessionTypeOK
<1>1. SessionInv => SessionTypeOK
  BY DEF SessionInv
<1> QED BY <1>1, SessionInvariant, PTL

\* session.ts, api.ts and App.tsx: nobody sees a page without its credential, a key
\* is stored only when it was proven, and lost only by its owner's doing or by
\* the rejection of a stored key, for any keys and users.
THEOREM KeysAreEarned == SessionSpec => CredentialsAreEarned
<1>1. SessionInv => NoPageWithoutCredential
  BY DEF SessionInv
<1>2. SessionInv /\ [SessionNext]_sessionVars => [KeysProven]_sessionVars /\ [OnlyStoredDropped]_sessionVars
  BY SessionNextInv DEF SessionOK
<1>3. SessionSpec => [][KeysProven]_sessionVars /\ [][OnlyStoredDropped]_sessionVars
  BY <1>2, SessionInvariant, PTL DEF SessionSpec
<1>4. SessionSpec => StoredKeysWereProven
  BY <1>3, PTL DEF StoredKeysWereProven, KeysProven
<1>5. SessionSpec => OnlyStoredKeysAreDropped
  BY <1>3, PTL DEF OnlyStoredKeysAreDropped, OnlyStoredDropped
<1> QED BY <1>1, <1>4, <1>5, SessionInvariant, PTL DEF CredentialsAreEarned

----------------------------------------------------------------------------
(***************************************************************************)
(* Loader, for any number of views and requests.                           *)
(*                                                                         *)
(* The argument: of a view's requests only the last is not cancelled, and  *)
(* whatever answers that one was read after the view asked                 *)
(* (AnswersAreFresh).                                                      *)
(***************************************************************************)

\* The answer to a request that was not cancelled was given after its view
\* last asked.
AnswersAreFresh ==
  \A v \in Views : \A c \in loads[v] :
    c.current /\ c.served => c.answer = Nothing \/ c.answer >= askedAt[v]

AskedBefore == \A v \in Views : askedAt[v] <= now

LoaderInv == LoaderTypeOK /\ AnswersAreFresh /\ AskedBefore /\ ShownIsNoOlderThanAsked

\* The invariant holds when every view has just asked.
LEMMA LoaderInitInv == LoaderInit => LoaderInv
<1>. USE LoaderAssumption
<1>. SUFFICES ASSUME LoaderInit PROVE LoaderInv
  OBVIOUS
<1>1. NewLoad(1) \in Load
  BY DEF NewLoad, Load, Answers
<1>2. LoaderTypeOK
  BY <1>1 DEF LoaderInit, LoaderTypeOK, Answers, NewLoad
<1>3. AnswersAreFresh /\ AskedBefore /\ ShownIsNoOlderThanAsked
  BY DEF LoaderInit, AnswersAreFresh, AskedBefore, ShownIsNoOlderThanAsked, NewLoad
<1>. QED BY <1>2, <1>3 DEF LoaderInv

\* A reload cancels the requests there are and adds one that is not served.
LEMMA ReloadStep ==
  ASSUME LoaderInv, NEW v \in Views, Reload(v)
  PROVE  LoaderInv'
<1>. USE LoaderAssumption
<1>1. PICK id \in 1..MaxLoads :
        /\ loads' = [loads EXCEPT ![v] = {Cancelled(c) : c \in @} \cup {NewLoad(id)}]
        /\ shown' = [shown EXCEPT ![v].loading = TRUE]
        /\ askedAt' = [askedAt EXCEPT ![v] = now]
        /\ UNCHANGED now
  BY DEF Reload
<1>2. NewLoad(id) \in Load /\ NewLoad(id).current /\ ~NewLoad(id).served
  BY DEF NewLoad, Load, Answers
<1>3. \A c \in Load : Cancelled(c) \in Load /\ ~Cancelled(c).current
  BY DEF Cancelled, Load
<1>4. /\ loads'[v] = {Cancelled(c) : c \in loads[v]} \cup {NewLoad(id)}
      /\ \A w \in Views \ {v} : loads'[w] = loads[w] /\ askedAt'[w] = askedAt[w] /\ shown'[w] = shown[w]
      /\ askedAt'[v] = now /\ shown'[v].loading
      /\ now' = now
  BY <1>1 DEF LoaderInv, LoaderTypeOK
<1>5. LoaderTypeOK'
  <2>1. loads'[v] \subseteq Load
    BY <1>2, <1>3, <1>4 DEF LoaderInv, LoaderTypeOK
  <2>2. loads' \in [Views -> SUBSET Load]
    BY <1>1, <2>1 DEF LoaderInv, LoaderTypeOK
  <2>3. shown' \in [Views -> [data : Answers, failed : BOOLEAN, loading : BOOLEAN]]
        /\ askedAt' \in [Views -> 0..MaxNow] /\ now' \in 0..MaxNow
    BY <1>1 DEF LoaderInv, LoaderTypeOK
  <2>4. \A w \in Views : shown'[w].loading => \E c \in loads'[w] : c.current
    BY <1>2, <1>4 DEF LoaderInv, LoaderTypeOK
  <2>. QED BY <2>2, <2>3, <2>4 DEF LoaderTypeOK
<1>6. AnswersAreFresh'
  <2>. SUFFICES ASSUME NEW w \in Views, NEW c \in loads'[w], c.current, c.served
                PROVE  c.answer = Nothing \/ c.answer >= askedAt'[w]
    BY DEF AnswersAreFresh
  <2>1. CASE w = v
    BY <1>2, <1>3, <1>4, <2>1 DEF LoaderInv, LoaderTypeOK
  <2>2. CASE w # v
    BY <1>4, <2>2 DEF LoaderInv, AnswersAreFresh
  <2>. QED BY <2>1, <2>2
<1>7. AskedBefore' /\ ShownIsNoOlderThanAsked'
  BY <1>4 DEF LoaderInv, LoaderTypeOK, AskedBefore, ShownIsNoOlderThanAsked
<1>. QED BY <1>5, <1>6, <1>7 DEF LoaderInv

\* An answer is the server's state by now, which is at least what it was when
\* the view asked.
LEMMA ServeStep ==
  ASSUME LoaderInv, NEW v \in Views, NEW c \in loads[v], Serve(v, c)
  PROVE  LoaderInv'
<1>. USE LoaderAssumption
<1>1. PICK a \in {now, Nothing} :
        loads' = [loads EXCEPT ![v] = (@ \ {c}) \cup {[c EXCEPT !.served = TRUE, !.answer = a]}]
  BY DEF Serve
<1>. DEFINE d == [c EXCEPT !.served = TRUE, !.answer = a]
<1>2. c \in Load /\ d \in Load /\ d.current = c.current /\ d.answer = a
  <2>1. c \in Load
    BY DEF LoaderInv, LoaderTypeOK
  <2>2. a \in Answers
    BY DEF LoaderInv, LoaderTypeOK, Answers
  <2>. QED BY <2>1, <2>2 DEF Load
<1>3. /\ loads'[v] = (loads[v] \ {c}) \cup {d}
      /\ \A w \in Views \ {v} : loads'[w] = loads[w]
      /\ UNCHANGED <<now, shown, askedAt>>
  BY <1>1 DEF LoaderInv, LoaderTypeOK, Serve
<1>. HIDE DEF d
<1>4. LoaderTypeOK'
  <2>1. loads' \in [Views -> SUBSET Load]
    BY <1>1, <1>2, <1>3 DEF LoaderInv, LoaderTypeOK
  <2>2. \A w \in Views : shown'[w].loading => \E e \in loads'[w] : e.current
    BY <1>2, <1>3 DEF LoaderInv, LoaderTypeOK
  <2>. QED BY <1>3, <2>1, <2>2 DEF LoaderInv, LoaderTypeOK
<1>5. AnswersAreFresh'
  BY <1>2, <1>3 DEF LoaderInv, LoaderTypeOK, AnswersAreFresh, AskedBefore
<1>. QED BY <1>3, <1>4, <1>5 DEF LoaderInv, AskedBefore, ShownIsNoOlderThanAsked

\* Only the answer to the request that was not cancelled is shown.
LEMMA ReceiveStep ==
  ASSUME LoaderInv, NEW v \in Views, NEW c \in loads[v], Receive(v, c)
  PROVE  LoaderInv'
<1>. USE LoaderAssumption
<1>1. c \in Load /\ c.served /\ (c.current => c.answer = Nothing \/ c.answer >= askedAt[v])
  BY DEF LoaderInv, LoaderTypeOK, AnswersAreFresh, Receive
<1>2. /\ loads'[v] = loads[v] \ {c}
      /\ \A w \in Views \ {v} : loads'[w] = loads[w]
      /\ shown' = IF c.current THEN [shown EXCEPT ![v] = Settled(v, c.answer)] ELSE shown
      /\ UNCHANGED <<now, askedAt>>
      /\ loads' \in [Views -> SUBSET Load]
  BY DEF LoaderInv, LoaderTypeOK, Receive
<1>3. /\ Settled(v, c.answer) \in [data : Answers, failed : BOOLEAN, loading : BOOLEAN]
      /\ ~Settled(v, c.answer).loading
      /\ ~Settled(v, c.answer).failed => c.answer # Nothing /\ Settled(v, c.answer).data = c.answer
  BY <1>1 DEF Settled, Load, Answers
<1>4. shown' \in [Views -> [data : Answers, failed : BOOLEAN, loading : BOOLEAN]]
  BY <1>2, <1>3 DEF LoaderInv, LoaderTypeOK
<1>5. \A w \in Views : shown'[w].loading => \E e \in loads'[w] : e.current
  BY <1>1, <1>2, <1>3 DEF LoaderInv, LoaderTypeOK
<1>6. ShownIsNoOlderThanAsked'
  BY <1>1, <1>2, <1>3 DEF LoaderInv, LoaderTypeOK, ShownIsNoOlderThanAsked
<1>7. AnswersAreFresh'
  BY <1>2 DEF LoaderInv, AnswersAreFresh
<1>. QED BY <1>2, <1>4, <1>5, <1>6, <1>7 DEF LoaderInv, LoaderTypeOK, AskedBefore

\* No step breaks the invariant.
LEMMA LoaderNextInv ==
  ASSUME LoaderInv, [LoaderNext]_loaderVars
  PROVE  LoaderInv'
<1>. USE LoaderAssumption
<1>1. CASE ServerMoves
  BY <1>1 DEF LoaderInv, LoaderTypeOK, AnswersAreFresh, AskedBefore, ShownIsNoOlderThanAsked,
              ServerMoves
<1>2. ASSUME NEW v \in Views, UserReloads(v) \/ Tick(v)
      PROVE  LoaderInv'
  BY <1>2, ReloadStep DEF UserReloads, Tick
<1>3. ASSUME NEW v \in Views, LoaderProgress(v)
      PROVE  LoaderInv'
  BY <1>3, ServeStep, ReceiveStep DEF LoaderProgress
<1>4. CASE UNCHANGED loaderVars
  BY <1>4 DEF LoaderInv, LoaderTypeOK, AnswersAreFresh, AskedBefore, ShownIsNoOlderThanAsked,
              loaderVars
<1>. QED BY <1>1, <1>2, <1>3, <1>4 DEF LoaderNext

\* The inductive invariant of any number of views.
THEOREM LoaderInvariant == LoaderSpec => []LoaderInv
<1>1. LoaderInv /\ [LoaderNext]_loaderVars => LoaderInv'
  BY LoaderNextInv
<1>. QED BY LoaderInitInv, <1>1, PTL DEF LoaderSpec

\* useAsync: a view that says it is loading has a request that will be shown.
THEOREM LoaderTypeCorrect == LoaderSpec => []LoaderTypeOK
<1>1. LoaderInv => LoaderTypeOK
  BY DEF LoaderInv
<1>. QED BY LoaderInvariant, <1>1, PTL

\* useAsync: what a view shows once it stopped loading is what the server said
\* after the view last asked, for any number of views, reloads and answers.
THEOREM ShownIsFresh == LoaderSpec => []ShownIsNoOlderThanAsked
<1>1. LoaderInv => ShownIsNoOlderThanAsked
  BY DEF LoaderInv
<1>. QED BY LoaderInvariant, <1>1, PTL

----------------------------------------------------------------------------
(***************************************************************************)
(* AccountHistory, for any page size and any number of reloads.            *)
(*                                                                         *)
(* The argument: at most one first page is awaited (OneAwaited), and what  *)
(* a request carries was true when it was served (PagesAreTrue).  A        *)
(* further page is only asked for behind a full first page, and as entries *)
(* are only added every first page is full from then on (FirstPageIsFull): *)
(* a first page that comes late replaces the pages with one that the next  *)
(* continues.                                                              *)
(***************************************************************************)

PageRequests ==
  [kind : {"first", "more"}, from : 0..MaxEntries, version : 0..MaxReloads,
   status : {"sent", "served", "failed"}, page : Pages, next : 0..MaxEntries]

\* A first page of the current version: the one that will be shown.
Awaited(c) == c.kind = "first" /\ c.version = version

RequestsTyped == pageRequests \subseteq PageRequests

OneAwaited ==
  \A c, d \in pageRequests : Awaited(c) /\ Awaited(d) => c = d

\* What a served request carries, of the time it was served.
PagesAreTrue ==
  \A c \in pageRequests :
    /\ c.kind = "first" => c.from = 0
    /\ c.status = "served" =>
         /\ c.page.from = c.from
         /\ c.next # NoCursor => c.next = c.page.upto
         /\ c.kind = "first" /\ c.next # NoCursor => c.page.upto >= PageSize /\ PageSize <= count
         /\ Awaited(c) => c.page.upto >= Smaller(askedCount, PageSize)

\* Further pages are asked for behind a full first page, and then there is no
\* other first page than a full one, whichever reload it answers.
FirstPageIsFull ==
  cursor # NoCursor \/ (\E c \in pageRequests : c.kind = "more") =>
    /\ count >= PageSize
    /\ entries # <<>> /\ entries[1].from = 0 /\ entries[1].upto >= PageSize
    /\ \A c \in pageRequests : Awaited(c) /\ c.status = "served" => c.page.upto >= PageSize

\* FirstPageIsFresh, when there may be requests that do not matter.
FreshUnlessAwaited ==
  entries # <<>> /\ historyError = NoHistoryError /\ (\A c \in pageRequests : ~Awaited(c)) =>
    /\ entries[1].from = 0
    /\ entries[1].upto >= Smaller(askedCount, PageSize)

HistoryInv ==
  /\ HistoryTypeOK /\ RequestsTyped /\ OneAwaited /\ PagesAreTrue
  /\ FirstPageIsFull /\ FreshUnlessAwaited /\ NextPageContinues

\* The invariant holds when the first page has just been asked for.
LEMMA HistoryInitInv == HistoryInit => HistoryInv
<1>. USE AccountHistoryAssumption
<1>. SUFFICES ASSUME HistoryInit PROVE HistoryInv
  OBVIOUS
<1>. DEFINE c == [kind |-> "first", from |-> 0, version |-> 0, status |-> "sent",
                  page |-> Unserved, next |-> NoCursor]
<1>1. pageRequests = {c} /\ c.kind = "first" /\ c.from = 0 /\ c.status = "sent" /\ c.version = 0
      /\ c.page = Unserved
  BY DEF HistoryInit
<1>2. Unserved \in Pages /\ c \in PageRequests
  BY DEF Unserved, Pages, PageRequests, NoCursor
<1>. HIDE DEF c
<1>3. HistoryTypeOK
  BY <1>1, <1>2 DEF HistoryInit, HistoryTypeOK, NoCursor, NoHistoryError
<1>4. RequestsTyped /\ OneAwaited /\ PagesAreTrue
  BY <1>1, <1>2 DEF RequestsTyped, OneAwaited, PagesAreTrue
<1>5. FirstPageIsFull /\ FreshUnlessAwaited /\ NextPageContinues
  BY <1>1 DEF HistoryInit, FirstPageIsFull, FreshUnlessAwaited, NextPageContinues
<1>. QED BY <1>3, <1>4, <1>5 DEF HistoryInv

\* A reload is awaited from now on, and no request of an earlier version is.
LEMMA ReloadHistoryStep ==
  ASSUME HistoryInv, ReloadHistory
  PROVE  HistoryInv'
<1>. USE AccountHistoryAssumption
<1>0. PICK c : c = PageRequest("first", 0)
  OBVIOUS
<1>1. /\ c.kind = "first" /\ c.from = 0 /\ c.version = version' /\ c.status = "sent"
      /\ c.page = Unserved /\ c.next = NoCursor
  BY <1>0 DEF PageRequest
<1>2. version' = version + 1 /\ version \in 0..MaxReloads /\ version' \in 0..MaxReloads
  BY DEF ReloadHistory, HistoryInv, HistoryTypeOK
<1>3. c \in PageRequests /\ Unserved \in Pages
  BY <1>0, <1>2 DEF PageRequest, PageRequests, Unserved, Pages, NoCursor
<1>4. /\ pageRequests' = pageRequests \cup {c}
      /\ loading' = TRUE /\ historyError' = NoHistoryError /\ askedCount' = count
      /\ UNCHANGED <<count, entries, cursor>>
  BY <1>0 DEF ReloadHistory
<1>5. Awaited(c)' /\ \A d \in pageRequests : ~(Awaited(d)')
  BY <1>1, <1>2 DEF HistoryInv, HistoryTypeOK, Awaited
<1>6. HistoryTypeOK'
  BY <1>1, <1>2, <1>3, <1>4 DEF HistoryInv, HistoryTypeOK
<1>7. RequestsTyped' /\ OneAwaited'
  BY <1>3, <1>4, <1>5 DEF HistoryInv, RequestsTyped, OneAwaited
<1>8. PagesAreTrue'
  BY <1>1, <1>4, <1>5 DEF HistoryInv, PagesAreTrue
<1>9. FirstPageIsFull'
  BY <1>1, <1>4, <1>5 DEF HistoryInv, FirstPageIsFull
<1>10. FreshUnlessAwaited' /\ NextPageContinues'
  BY <1>4, <1>5 DEF HistoryInv, FreshUnlessAwaited, NextPageContinues
<1>. QED BY <1>6, <1>7, <1>8, <1>9, <1>10 DEF HistoryInv

\* A further page is asked for behind a full first one.
LEMMA LoadMoreStep ==
  ASSUME HistoryInv, LoadMore
  PROVE  HistoryInv'
<1>. USE AccountHistoryAssumption
<1>0. PICK c : c = PageRequest("more", cursor)
  OBVIOUS
<1>1. /\ c.kind = "more" /\ c.version = version /\ c.status = "sent" /\ c.page = Unserved
      /\ cursor # NoCursor /\ version' = version
  BY <1>0 DEF PageRequest, LoadMore
<1>2. c \in PageRequests /\ Unserved \in Pages
  BY <1>0 DEF PageRequest, PageRequests, Unserved, Pages, NoCursor, LoadMore, HistoryInv, HistoryTypeOK
<1>3. /\ pageRequests' = pageRequests \cup {c}
      /\ loading' = TRUE /\ historyError' = NoHistoryError
      /\ UNCHANGED <<count, entries, cursor, askedCount>>
  BY <1>0 DEF LoadMore
<1>4. \A d : Awaited(d)' <=> Awaited(d)
  BY <1>1 DEF Awaited
<1>5. ~Awaited(c)
  BY <1>1 DEF Awaited
<1>6. HistoryTypeOK'
  BY <1>1, <1>2, <1>3 DEF HistoryInv, HistoryTypeOK
<1>7. RequestsTyped' /\ OneAwaited'
  BY <1>2, <1>3, <1>4, <1>5 DEF HistoryInv, RequestsTyped, OneAwaited
<1>8. PagesAreTrue'
  BY <1>1, <1>3, <1>4 DEF HistoryInv, PagesAreTrue
<1>9. FirstPageIsFull' /\ entries # <<>> /\ entries[1].from = 0 /\ entries[1].upto >= PageSize
  BY <1>1, <1>3, <1>4, <1>5 DEF HistoryInv, FirstPageIsFull
<1>10. FreshUnlessAwaited'
  <2>1. entries[1] \in Pages /\ count \in Int /\ askedCount \in 0..count
    BY <1>9 DEF HistoryInv, HistoryTypeOK
  <2>2. Smaller(askedCount, PageSize) <= PageSize /\ Smaller(askedCount, PageSize) \in Int
        /\ entries[1].upto \in Int
    BY <2>1 DEF Smaller, Pages
  <2>. QED BY <1>3, <1>9, <2>1, <2>2 DEF FreshUnlessAwaited
<1>11. NextPageContinues'
  BY <1>3 DEF HistoryInv, NextPageContinues
<1>. QED BY <1>6, <1>7, <1>8, <1>9, <1>10, <1>11 DEF HistoryInv

\* A request that is answered or breaks stays awaited, or not, and keeps its
\* kind; what it carries is as of now.
LEMMA PageAnswerStep ==
  ASSUME HistoryInv, NEW c \in pageRequests, ServePage(c) \/ Break(c)
  PROVE  HistoryInv'
<1>. USE AccountHistoryAssumption
<1>. DEFINE d == [c EXCEPT !.status = "served", !.page = Page(c.from, c.version),
                           !.next = IF Page(c.from, c.version).upto < count
                                    THEN Page(c.from, c.version).upto ELSE NoCursor]
            f == [c EXCEPT !.status = "failed"]
<1>1. UNCHANGED <<count, version, entries, cursor, loading, historyError, askedCount>>
      /\ c.status = "sent" /\ c \in PageRequests /\ c.version \in 0..version
  BY DEF ServePage, Break, HistoryInv, RequestsTyped, HistoryTypeOK
<1>2. PICK e \in {d, f} : pageRequests' = (pageRequests \ {c}) \cup {e}
  BY DEF ServePage, Break
<1>3. count \in 0..MaxEntries /\ askedCount \in 0..count /\ version \in 0..MaxReloads
      /\ c.from \in 0..MaxEntries /\ c.version \in 0..MaxReloads
  BY <1>1 DEF HistoryInv, HistoryTypeOK, PageRequests
<1>4. Page(c.from, c.version) = [from |-> c.from, upto |-> Smaller(count, c.from + PageSize),
                                 version |-> c.version]
  BY DEF Page
<1>5. Smaller(count, c.from + PageSize) \in 0..MaxEntries
      /\ Smaller(count, c.from + PageSize) \in {count, c.from + PageSize}
      /\ Smaller(count, c.from + PageSize) <= count
  BY <1>3 DEF Smaller
<1>6. Page(c.from, c.version) \in Pages
  BY <1>3, <1>4, <1>5 DEF Pages
<1>7. e \in PageRequests /\ e.kind = c.kind /\ e.from = c.from /\ e.version = c.version
      /\ e.status # "sent"
  <2>1. CASE e = d
    <3>1. (IF Page(c.from, c.version).upto < count THEN Page(c.from, c.version).upto
           ELSE NoCursor) \in 0..MaxEntries
      BY <1>3, <1>4, <1>5 DEF NoCursor
    <3>. QED BY <1>1, <1>6, <2>1, <3>1 DEF PageRequests
  <2>2. CASE e = f
    BY <1>1, <2>2 DEF PageRequests
  <2>. QED BY <1>2, <2>1, <2>2
<1>8. e.status = "served" =>
        /\ e.page.from = e.from /\ e.page.upto = Smaller(count, e.from + PageSize)
        /\ e.next # NoCursor => e.next = e.page.upto /\ e.page.upto < count
  <2>1. CASE e = d
    BY <1>1, <1>4, <2>1 DEF PageRequests, NoCursor
  <2>2. CASE e = f
    BY <1>1, <2>2 DEF PageRequests
  <2>. QED BY <1>2, <2>1, <2>2
<1>. HIDE DEF d, f
<1>9. \A g : Awaited(g)' <=> Awaited(g)
  BY <1>1 DEF Awaited
<1>10. Awaited(e) <=> Awaited(c)
  BY <1>7 DEF Awaited
<1>11. HistoryTypeOK' /\ RequestsTyped'
  <2>1. e.page \in Pages /\ e.version \in 0..version'
    BY <1>1, <1>7 DEF PageRequests
  <2>. QED BY <1>1, <1>2, <1>7, <2>1 DEF HistoryInv, HistoryTypeOK, RequestsTyped
<1>12. OneAwaited'
  BY <1>2, <1>9, <1>10 DEF HistoryInv, OneAwaited
<1>13. e.status = "served" /\ e.kind = "first" =>
         /\ e.page.upto >= Smaller(askedCount, PageSize)
         /\ count >= PageSize => e.page.upto >= PageSize
         /\ e.next # NoCursor => e.page.upto >= PageSize /\ count >= PageSize
  <2>. SUFFICES ASSUME e.status = "served", e.kind = "first"
                PROVE  /\ e.page.upto >= Smaller(askedCount, PageSize)
                       /\ count >= PageSize => e.page.upto >= PageSize
                       /\ e.next # NoCursor => e.page.upto >= PageSize /\ count >= PageSize
    OBVIOUS
  <2>1. e.from = 0
    BY <1>7 DEF HistoryInv, PagesAreTrue
  <2>2. e.page.upto = Smaller(count, PageSize)
    BY <1>8, <2>1
  <2>. QED BY <1>3, <1>8, <2>2 DEF Smaller
<1>14. PagesAreTrue'
  <2>. SUFFICES ASSUME NEW g \in pageRequests'
                PROVE  /\ g.kind = "first" => g.from = 0
                       /\ g.status = "served" =>
                            /\ g.page.from = g.from
                            /\ g.next # NoCursor => g.next = g.page.upto
                            /\ g.kind = "first" /\ g.next # NoCursor =>
                                 g.page.upto >= PageSize /\ PageSize <= count'
                            /\ Awaited(g)' => g.page.upto >= Smaller(askedCount', PageSize)
    BY DEF PagesAreTrue
  <2>1. CASE g = e
    BY <1>1, <1>7, <1>8, <1>9, <1>13, <2>1 DEF HistoryInv, PagesAreTrue, Awaited
  <2>2. CASE g \in pageRequests
    BY <1>1, <1>9, <2>2 DEF HistoryInv, PagesAreTrue
  <2>. QED BY <1>2, <2>1, <2>2
<1>15. FirstPageIsFull'
  <2>1. (\E g \in pageRequests' : g.kind = "more") <=> (\E g \in pageRequests : g.kind = "more")
    BY <1>2, <1>7
  <2>2. SUFFICES ASSUME cursor # NoCursor \/ (\E g \in pageRequests : g.kind = "more"),
                        NEW g \in pageRequests', Awaited(g), g.status = "served"
                 PROVE  g.page.upto >= PageSize
    BY <1>1, <1>9, <2>1 DEF HistoryInv, FirstPageIsFull
  <2>3. CASE g = e
    BY <1>13, <2>2, <2>3 DEF HistoryInv, FirstPageIsFull, Awaited
  <2>4. CASE g \in pageRequests
    BY <2>2, <2>4 DEF HistoryInv, FirstPageIsFull
  <2>. QED BY <1>2, <2>3, <2>4
<1>16. FreshUnlessAwaited'
  BY <1>1, <1>2, <1>9, <1>10 DEF HistoryInv, FreshUnlessAwaited
<1>17. NextPageContinues'
  BY <1>1 DEF HistoryInv, NextPageContinues
<1>. QED BY <1>11, <1>12, <1>14, <1>15, <1>16, <1>17 DEF HistoryInv

\* What an answer changes on the page, by its kind.
LEMMA TakePageStep ==
  ASSUME HistoryInv, NEW c \in pageRequests, TakePage(c)
  PROVE  HistoryInv'
<1>. USE AccountHistoryAssumption
<1>1. /\ pageRequests' = pageRequests \ {c}
      /\ UNCHANGED <<count, version, askedCount>>
      /\ c \in PageRequests /\ c.status \in {"served", "failed"} /\ c.version \in 0..version
      /\ c.page \in Pages
  BY DEF TakePage, HistoryInv, RequestsTyped, HistoryTypeOK, PageRequests
<1>2. \A g : Awaited(g)' <=> Awaited(g)
  BY <1>1 DEF Awaited
<1>3. RequestsTyped' /\ OneAwaited' /\ PagesAreTrue'
  BY <1>1, <1>2 DEF HistoryInv, RequestsTyped, OneAwaited, PagesAreTrue
<1>4. ASSUME UNCHANGED <<entries, cursor, loading, historyError>>, ~Awaited(c)
      PROVE  HistoryInv'
  BY <1>1, <1>2, <1>3, <1>4
     DEF HistoryInv, HistoryTypeOK, FirstPageIsFull, FreshUnlessAwaited, NextPageContinues
<1>5. ASSUME historyError' = c.version, loading' = FALSE, UNCHANGED <<entries, cursor>>
      PROVE  HistoryInv'
  <2>1. historyError' \in 0..MaxReloads /\ historyError' # NoHistoryError
    BY <1>1, <1>5 DEF PageRequests, NoHistoryError
  <2>2. HistoryTypeOK'
    BY <1>1, <1>5, <2>1 DEF HistoryInv, HistoryTypeOK
  <2>. QED BY <1>1, <1>2, <1>3, <1>5, <2>1, <2>2
           DEF HistoryInv, FirstPageIsFull, FreshUnlessAwaited, NextPageContinues
<1>6. ASSUME Awaited(c), c.status = "served",
             entries' = <<c.page>>, cursor' = c.next, loading' = FALSE, UNCHANGED historyError
      PROVE  HistoryInv'
  <2>1. entries' \in Seq(Pages) /\ entries' # <<>> /\ Len(entries') = 1 /\ entries'[1] = c.page
    BY <1>1, <1>6
  <2>2. HistoryTypeOK'
    BY <1>1, <1>6, <2>1 DEF HistoryInv, HistoryTypeOK, PageRequests
  <2>3. /\ c.page.from = 0
        /\ c.page.upto >= Smaller(askedCount, PageSize)
        /\ c.next # NoCursor => c.next = c.page.upto /\ c.page.upto >= PageSize /\ PageSize <= count
    BY <1>6 DEF HistoryInv, PagesAreTrue, Awaited
  <2>4. FirstPageIsFull'
    <3>1. \A g \in pageRequests' : ~Awaited(g)
      BY <1>1, <1>6 DEF HistoryInv, OneAwaited
    <3>. QED BY <1>1, <1>2, <1>6, <2>1, <2>3, <3>1 DEF HistoryInv, FirstPageIsFull
  <2>5. FreshUnlessAwaited' /\ NextPageContinues'
    BY <1>1, <1>6, <2>1, <2>3 DEF FreshUnlessAwaited, NextPageContinues
  <2>. QED BY <1>3, <2>2, <2>4, <2>5 DEF HistoryInv
<1>7. ASSUME c.kind = "more", c.status = "served",
             entries' = Append(entries, c.page), cursor' = c.next, loading' = FALSE, UNCHANGED historyError
      PROVE  HistoryInv'
  <2>1. /\ entries # <<>> /\ entries[1].from = 0 /\ entries[1].upto >= PageSize /\ count >= PageSize
        /\ \A g \in pageRequests : Awaited(g) /\ g.status = "served" => g.page.upto >= PageSize
    BY <1>7 DEF HistoryInv, FirstPageIsFull
  <2>2. entries \in Seq(Pages) /\ entries[1] \in Pages /\ count \in Int /\ askedCount \in 0..count
    BY <2>1 DEF HistoryInv, HistoryTypeOK
  <2>3. entries' \in Seq(Pages) /\ entries' # <<>> /\ entries'[1] = entries[1]
        /\ entries'[Len(entries')] = c.page
    BY <1>1, <1>7, <2>1, <2>2
  <2>4. HistoryTypeOK'
    BY <1>1, <1>7, <2>3 DEF HistoryInv, HistoryTypeOK, PageRequests
  <2>5. FirstPageIsFull'
    BY <1>1, <1>2, <2>1, <2>3 DEF FirstPageIsFull
  <2>6. FreshUnlessAwaited'
    <3>1. entries[1].upto \in Int /\ Smaller(askedCount, PageSize) <= PageSize
          /\ Smaller(askedCount, PageSize) \in Int
      BY <2>2 DEF Smaller, Pages
    <3>. QED BY <1>1, <2>1, <2>3, <3>1 DEF FreshUnlessAwaited
  <2>7. NextPageContinues'
    BY <1>7, <2>3 DEF HistoryInv, PagesAreTrue, NextPageContinues
  <2>. QED BY <1>3, <2>4, <2>5, <2>6, <2>7 DEF HistoryInv
<1>8. CASE c.kind = "first" /\ c.status = "served"
  BY <1>4, <1>6, <1>8 DEF TakePage, ShowFirst, Awaited
<1>9. CASE c.kind = "first" /\ c.status = "failed"
  BY <1>4, <1>5, <1>9 DEF TakePage, FirstFails, Awaited
<1>10. CASE c.kind = "more" /\ c.status = "served"
  BY <1>7, <1>10 DEF TakePage, ShowMore
<1>11. CASE c.kind = "more" /\ c.status = "failed"
  BY <1>5, <1>11 DEF TakePage, MoreFails
<1>. QED BY <1>1, <1>8, <1>9, <1>10, <1>11 DEF PageRequests

\* No step breaks the invariant.
LEMMA HistoryNextInv ==
  ASSUME HistoryInv, [HistoryNext]_historyVars
  PROVE  HistoryInv'
<1>. USE AccountHistoryAssumption
<1>1. CASE AddEntry
  <2>1. \A g : Awaited(g)' <=> Awaited(g)
    BY <1>1 DEF AddEntry, Awaited
  <2>2. HistoryTypeOK' /\ RequestsTyped'
    BY <1>1 DEF HistoryInv, HistoryTypeOK, RequestsTyped, AddEntry
  <2>3. count \in Int /\ count' = count + 1 /\ PageSize \in Int
    BY <1>1 DEF HistoryInv, HistoryTypeOK, AddEntry
  <2>. QED BY <1>1, <2>1, <2>2, <2>3
           DEF HistoryInv, AddEntry, OneAwaited, PagesAreTrue, FirstPageIsFull,
               FreshUnlessAwaited, NextPageContinues
<1>2. CASE UNCHANGED historyVars
  <2>1. \A g : Awaited(g)' <=> Awaited(g)
    BY <1>2 DEF historyVars, Awaited
  <2>. QED BY <1>2, <2>1
           DEF HistoryInv, HistoryTypeOK, RequestsTyped, OneAwaited, PagesAreTrue, FirstPageIsFull,
               FreshUnlessAwaited, NextPageContinues, historyVars
<1>3. ASSUME NEW c \in pageRequests, HistoryProgress(c)
      PROVE  HistoryInv'
  BY <1>3, PageAnswerStep, TakePageStep DEF HistoryProgress
<1>. QED BY <1>1, <1>2, <1>3, ReloadHistoryStep, LoadMoreStep DEF HistoryNext

\* The inductive invariant of the history card.
THEOREM HistoryInvariant == HistorySpec => []HistoryInv
<1>1. HistoryInv /\ [HistoryNext]_historyVars => HistoryInv'
  BY HistoryNextInv
<1>. QED BY HistoryInitInv, <1>1, PTL DEF HistorySpec

\* Type correctness of the card and of its requests.
THEOREM HistoryTypeCorrect == HistorySpec => []HistoryTypeOK
<1>1. HistoryInv => HistoryTypeOK
  BY DEF HistoryInv
<1>. QED BY HistoryInvariant, <1>1, PTL

\* AccountDetail.tsx: the next page is asked for where the last page on screen ends,
\* and the first page is as fresh as the last reload, for any page size and requests.
THEOREM HistoryFollows == HistorySpec => []PagesFollow
<1>1. HistoryInv => PagesFollow
  BY DEF HistoryInv, FreshUnlessAwaited, NextPageContinues, PagesFollow, FirstPageIsFresh
<1>. QED BY HistoryInvariant, <1>1, PTL

----------------------------------------------------------------------------
(***************************************************************************)
(* Onboarding, for any number of customers, keys and requests.             *)
(*                                                                         *)
(* The argument: whatever is left over is either what a request under way  *)
(* will still account for, or Stranded (a customer without a key) or Lost  *)
(* (a key nobody was shown); of these there is at most one for each        *)
(* failure the page was told of and each request that was under way when   *)
(* its page was left, those still adrift included (Reported).  A key on    *)
(* its way to the page acts for the customer it will be shown for          *)
(* (OwnersOK).                                                             *)
(***************************************************************************)

IssuedCard  == [customer : Nat, key : Nat]
KeyRequest == [id : Nat, customer : Nat, key : Nat, showing : SUBSET IssuedCard]
Unread     == [id : Nat, customer : Nat]
EntryState == [id : Nat, at : {"idle", "creating", "created", "issuing", "issued"},
               customer : Nat, key : Nat, showing : SUBSET IssuedCard]
PanelState == [at : {"idle", "sent", "revoked", "unknown"},
               sent : 0..MaxIssued, done : 0..MaxIssued]

RecordsOK ==
  /\ entry \in EntryState /\ panel \in PanelState
  /\ requested \subseteq KeyRequest /\ issued \subseteq IssuedCard
  /\ IsFiniteSet(requested)
  /\ adrift \subseteq Unread /\ IsFiniteSet(adrift)

TablesOK ==
  /\ customers \in 0..MaxCustomers
  /\ failures \in 0..MaxFailures /\ abandoned \in 0..MaxAbandoned
  /\ Cardinality(IssuedKeys) \in Nat
  /\ owner \in [1..Cardinality(IssuedKeys) -> 1..customers]

ActsFor(o, k, c) == k \in DOMAIN o /\ o[k] = c

\* Every key on its way to the page acts for the customer it will be shown for.
OwnersOK ==
  /\ entry.at = "creating" => entry.customer = Nobody
  /\ entry.at \in {"created", "issuing", "issued"} => entry.customer \in 1..customers
  /\ entry.at = "issued" => ActsFor(owner, entry.key, entry.customer)
  /\ \A r \in requested :
       r.customer \in 1..customers /\ (r.key # Nobody => ActsFor(owner, r.key, r.customer))
  /\ \A card \in issued : ActsFor(owner, card.key, card.customer)
  /\ past \subseteq IssuedKeys /\ told = past \cup {card.key : card \in issued}
  /\ \A o \in adrift : o.customer \in 0..customers

PanelOK ==
  /\ revoked \subseteq IssuedKeys /\ revoking \subseteq IssuedKeys
  /\ panel.at = "revoked" => panel.sent \in revoked
  /\ NoticeIsTrue

Keyless == {c \in 1..customers : \A k \in IssuedKeys : owner[k] # c}

\* The customers that requests of pages that were left will ask a key for.
Adrift == {o.customer : o \in adrift}

\* Customers without a key and keys nobody was shown that no request under way
\* will still account for.
Stranded ==
  Keyless \ ((IF entry.at \in {"created", "issuing"} THEN {entry.customer} ELSE {}) \cup Adrift)
Lost ==
  (IssuedKeys \ told) \ ((IF entry.at = "issued" THEN {entry.key} ELSE {}) \cup {r.key : r \in requested})

\* Each was reported, or its page was left; and so were the requests adrift,
\* each of which may still leave one of them behind.
Reported ==
  Cardinality(Stranded) + Cardinality(Lost) + Cardinality(adrift) <= failures + abandoned

OnboardingInv == TablesOK /\ RecordsOK /\ OwnersOK /\ PanelOK /\ Reported

----------------------------------------------------------------------------
(* The tables and the count *)

\* The keys are numbered from 1 without a gap.
LEMMA KeysAreNumbered ==
  ASSUME TablesOK PROVE IssuedKeys = 1..Cardinality(IssuedKeys) /\ NextKey \in Nat
BY DEF TablesOK, IssuedKeys, NextKey

\* The customers and keys left over are finitely many.
LEMMA LeftoversAreFinite ==
  ASSUME TablesOK
  PROVE  /\ IsFiniteSet(Stranded) /\ IsFiniteSet(Lost)
         /\ Cardinality(Stranded) \in Nat /\ Cardinality(Lost) \in Nat
<1>1. IsFiniteSet(1..customers) /\ IsFiniteSet(1..Cardinality(IssuedKeys))
  BY FS_Interval DEF TablesOK
<1>2. Stranded \subseteq 1..customers /\ Lost \subseteq 1..Cardinality(IssuedKeys)
  BY KeysAreNumbered DEF Stranded, Keyless, Lost, Adrift
<1>3. IsFiniteSet(Stranded) /\ IsFiniteSet(Lost)
  BY <1>1, <1>2, FS_Subset
<1> QED BY <1>3, FS_CardinalityType

\* What finite sets hold, by the facts about Cardinality that are used below.
LEMMA CountUnion ==
  ASSUME NEW S, NEW T, IsFiniteSet(S), IsFiniteSet(T)
  PROVE  /\ IsFiniteSet(S \cup T)
         /\ Cardinality(S) \in Nat /\ Cardinality(T) \in Nat /\ Cardinality(S \cup T) \in Nat
         /\ Cardinality(S \cup T) <= Cardinality(S) + Cardinality(T)
<1>1. IsFiniteSet(S \cup T) /\ IsFiniteSet(S \cap T)
  BY FS_Union, FS_Intersection
<1>2. /\ Cardinality(S) \in Nat /\ Cardinality(T) \in Nat
      /\ Cardinality(S \cup T) \in Nat /\ Cardinality(S \cap T) \in Nat
  BY <1>1, FS_CardinalityType
<1>3. Cardinality(S \cup T) = Cardinality(S) + Cardinality(T) - Cardinality(S \cap T)
  BY FS_Union
<1> QED BY <1>1, <1>2, <1>3

LEMMA CountSubset ==
  ASSUME NEW S, IsFiniteSet(S), NEW T, T \subseteq S
  PROVE  IsFiniteSet(T) /\ Cardinality(T) \in Nat /\ Cardinality(T) <= Cardinality(S)
BY FS_Subset, FS_CardinalityType

\* What is left behind and not yet admitted may grow by as much as is admitted.
LEMMA ReportedStep ==
  ASSUME OnboardingInv, TablesOK', IsFiniteSet(adrift'),
         NEW S, IsFiniteSet(S), Stranded' \subseteq Stranded \cup S,
         NEW L, IsFiniteSet(L), Lost' \subseteq Lost \cup L,
         Cardinality(S) + Cardinality(L) + Cardinality(adrift') + failures + abandoned
           <= Cardinality(adrift) + failures' + abandoned'
  PROVE  Reported'
<1>1. /\ IsFiniteSet(Stranded) /\ IsFiniteSet(Lost)
      /\ Cardinality(Stranded) \in Nat /\ Cardinality(Lost) \in Nat
  BY LeftoversAreFinite DEF OnboardingInv
<1>2. /\ IsFiniteSet(Stranded \cup S) /\ Cardinality(S) \in Nat /\ Cardinality(Stranded \cup S) \in Nat
      /\ Cardinality(Stranded \cup S) <= Cardinality(Stranded) + Cardinality(S)
  BY <1>1, CountUnion
<1>3. /\ IsFiniteSet(Lost \cup L) /\ Cardinality(L) \in Nat /\ Cardinality(Lost \cup L) \in Nat
      /\ Cardinality(Lost \cup L) <= Cardinality(Lost) + Cardinality(L)
  BY <1>1, CountUnion
<1>4. Cardinality(Stranded') \in Nat /\ Cardinality(Stranded') <= Cardinality(Stranded \cup S)
  BY <1>2, CountSubset
<1>5. Cardinality(Lost') \in Nat /\ Cardinality(Lost') <= Cardinality(Lost \cup L)
  BY <1>3, CountSubset
<1>6. Cardinality(adrift) \in Nat /\ Cardinality(adrift') \in Nat
  BY FS_CardinalityType DEF OnboardingInv, RecordsOK
<1>7. failures \in Nat /\ abandoned \in Nat /\ failures' \in Nat /\ abandoned' \in Nat
  BY DEF OnboardingInv, TablesOK
<1>8. Cardinality(Stranded) + Cardinality(Lost) + Cardinality(adrift) <= failures + abandoned
  BY DEF OnboardingInv, Reported
<1>9. Cardinality(Stranded') + Cardinality(Lost') + Cardinality(adrift') <= failures' + abandoned'
  BY <1>1, <1>2, <1>3, <1>4, <1>5, <1>6, <1>7, <1>8
<1> QED BY <1>9 DEF Reported

\* A step that leaves no more behind needs no report.
LEMMA NothingMoreToReport ==
  ASSUME OnboardingInv, TablesOK', Stranded' \subseteq Stranded, Lost' \subseteq Lost,
         UNCHANGED <<failures, adrift, abandoned>>
  PROVE  Reported'
<1>1. IsFiniteSet({}) /\ Cardinality({}) = 0
  BY FS_EmptySet
<1>2. IsFiniteSet(adrift') /\ Cardinality(adrift) \in Nat
  BY FS_CardinalityType DEF OnboardingInv, RecordsOK
<1>3. failures \in Nat /\ abandoned \in Nat
  BY DEF OnboardingInv, TablesOK
<1>4. PICK Z : Z = {} /\ IsFiniteSet(Z) /\ Cardinality(Z) = 0
  BY <1>1
<1>5. Stranded' \subseteq Stranded \cup Z /\ Lost' \subseteq Lost \cup Z
  OBVIOUS
<1>6. Cardinality(Z) + Cardinality(Z) + Cardinality(adrift') + failures + abandoned
        <= Cardinality(adrift) + failures' + abandoned'
  BY <1>2, <1>3, <1>4
<1> QED BY <1>2, <1>4, <1>5, <1>6, ReportedStep

\* One more is left behind where a failure is reported, or a request adrift ends.
LEMMA OneMoreReported ==
  ASSUME OnboardingInv, TablesOK', IsFiniteSet(adrift'), abandoned' = abandoned,
         \/ failures' = failures + 1 /\ adrift' = adrift
         \/ failures' = failures /\ Cardinality(adrift) = Cardinality(adrift') + 1,
         NEW x, \/ Stranded' \subseteq Stranded \cup {x} /\ Lost' \subseteq Lost
                \/ Stranded' \subseteq Stranded /\ Lost' \subseteq Lost \cup {x}
  PROVE  Reported'
<1>1. PICK Z : Z = {} /\ IsFiniteSet(Z) /\ Cardinality(Z) = 0
  BY FS_EmptySet
<1>2. PICK X : X = {x} /\ IsFiniteSet(X) /\ Cardinality(X) = 1
  BY FS_Singleton
<1>3. Cardinality(adrift) \in Nat /\ Cardinality(adrift') \in Nat
  BY FS_CardinalityType DEF OnboardingInv, RecordsOK
<1>4. failures \in Nat /\ abandoned \in Nat
  BY DEF OnboardingInv, TablesOK
<1>5. /\ Cardinality(X) + Cardinality(Z) + Cardinality(adrift') + failures + abandoned
           <= Cardinality(adrift) + failures' + abandoned'
      /\ Cardinality(Z) + Cardinality(X) + Cardinality(adrift') + failures + abandoned
           <= Cardinality(adrift) + failures' + abandoned'
  BY <1>1, <1>2, <1>3, <1>4
<1>6. CASE Stranded' \subseteq Stranded \cup {x} /\ Lost' \subseteq Lost
  <2>1. Stranded' \subseteq Stranded \cup X /\ Lost' \subseteq Lost \cup Z
    BY <1>2, <1>6
  <2> QED BY <1>1, <1>2, <1>5, <2>1, ReportedStep
<1>7. CASE Stranded' \subseteq Stranded /\ Lost' \subseteq Lost \cup {x}
  <2>1. Stranded' \subseteq Stranded \cup Z /\ Lost' \subseteq Lost \cup X
    BY <1>2, <1>7
  <2> QED BY <1>1, <1>2, <1>5, <2>1, ReportedStep
<1> QED BY <1>6, <1>7

\* A key is inserted behind those there are, which keep their customers.
LEMMA InsertedKey ==
  ASSUME TablesOK, NEW c \in 1..customers, InsertKey(c),
         UNCHANGED <<customers, failures, abandoned>>
  PROVE  /\ TablesOK'
         /\ IssuedKeys' = IssuedKeys \cup {NextKey} /\ NextKey \notin IssuedKeys
         /\ NextKey \in Nat /\ NextKey # Nobody
         /\ ActsFor(owner', NextKey, c)
         /\ \A k \in IssuedKeys : owner'[k] = owner[k]
<1>1. PICK n \in Nat : n = Cardinality(IssuedKeys)
  BY DEF TablesOK
<1>2. IssuedKeys = 1..n /\ owner \in [1..n -> 1..customers] /\ NextKey = n + 1
  BY <1>1, KeysAreNumbered DEF TablesOK, NextKey
<1>3. owner' = [k \in 1..(n + 1) |-> IF k = n + 1 THEN c ELSE owner[k]]
  BY <1>2 DEF InsertKey
<1>4. IssuedKeys' = 1..(n + 1)
  BY <1>3 DEF IssuedKeys
<1>5. Cardinality(1..(n + 1)) = n + 1
  <2>1. Cardinality(1..(n + 1)) = IF 1 > n + 1 THEN 0 ELSE (n + 1) - 1 + 1
    BY FS_Interval
  <2> QED BY <2>1
<1>6. Cardinality(IssuedKeys') = n + 1
  BY <1>4, <1>5
<1>7. owner' \in [1..(n + 1) -> 1..customers]
  BY <1>2, <1>3
<1>8. TablesOK'
  BY <1>6, <1>7 DEF TablesOK
<1> QED BY <1>2, <1>3, <1>4, <1>8 DEF ActsFor, Nobody

----------------------------------------------------------------------------

\* The invariant holds of an empty page.
LEMMA OnboardingInitInv == OnboardingInit => OnboardingInv
<1> SUFFICES ASSUME OnboardingInit PROVE OnboardingInv
  OBVIOUS
<1>1. IssuedKeys = {} /\ owner \in [1..0 -> 1..customers]
  BY DEF OnboardingInit, IssuedKeys
<1>2. Cardinality(IssuedKeys) = 0
  BY <1>1, FS_EmptySet
<1>3. TablesOK
  BY <1>1, <1>2, OnboardingAssumption DEF OnboardingInit, TablesOK
<1>4. RecordsOK
  BY FS_EmptySet, OnboardingAssumption
     DEF OnboardingInit, RecordsOK, EntryState, PanelState, Idle, Panel, Nobody
<1>5. OwnersOK
  BY DEF OnboardingInit, OwnersOK, Idle, IssuedKeys
<1>6. PanelOK
  BY DEF OnboardingInit, PanelOK, NoticeIsTrue, Panel
<1>7. Stranded = {} /\ Lost = {}
  BY <1>1 DEF OnboardingInit, Stranded, Keyless, Lost, Adrift
<1>8. Reported
  BY <1>7, FS_EmptySet DEF OnboardingInit, Reported
<1> QED BY <1>3, <1>4, <1>5, <1>6, <1>8 DEF OnboardingInv

\* Steps of the page that leave the panel alone.
LEMMA PanelStays ==
  ASSUME OnboardingInv, UNCHANGED <<panel, revoked, revoking>>, IssuedKeys \subseteq IssuedKeys'
  PROVE  PanelOK'
BY DEF OnboardingInv, PanelOK, NoticeIsTrue

\* The form is sent.
LEMMA OnboardStep == ASSUME OnboardingInv, Onboard PROVE OnboardingInv'
<1>1. PICK e \in EntryState : e.at = "creating" /\ e.customer = Nobody /\ entry' = e
  <2>1. PICK i \in 1..MaxRequested : entry' = [Idle EXCEPT !.id = i, !.at = "creating", !.showing = issued]
    BY DEF Onboard
  <2>2. PICK e : e = [Idle EXCEPT !.id = i, !.at = "creating", !.showing = issued]
    OBVIOUS
  <2>3. issued \subseteq IssuedCard
    BY DEF OnboardingInv, RecordsOK
  <2>4. e = [id |-> i, at |-> "creating", customer |-> Nobody, key |-> Nobody, showing |-> issued]
    BY <2>2 DEF Idle
  <2>5. i \in Nat
    BY OnboardingAssumption
  <2>6. e \in EntryState /\ e.at = "creating" /\ e.customer = Nobody
    BY <2>3, <2>4, <2>5 DEF EntryState, Nobody
  <2> QED BY <2>1, <2>2, <2>6
<1>2. TablesOK'
  BY DEF Onboard, tables, OnboardingInv, TablesOK, IssuedKeys, left
<1>3. RecordsOK'
  BY <1>1 DEF Onboard, OnboardingInv, RecordsOK, left
<1>4. OwnersOK'
  BY <1>1 DEF Onboard, tables, OnboardingInv, OwnersOK, left, IssuedKeys
<1>5. PanelOK'
  BY PanelStays DEF Onboard, tables, IssuedKeys, left
<1>6. Stranded' \subseteq Stranded /\ Lost' \subseteq Lost
  BY <1>1 DEF Onboard, tables, Stranded, Lost, Keyless, IssuedKeys, left, Adrift
<1> QED BY <1>2, <1>3, <1>4, <1>5, <1>6, NothingMoreToReport DEF Onboard, OnboardingInv, left

\* The customer is created: keyless, but the form's request is under way.
LEMMA CustomerCreatedStep == ASSUME OnboardingInv, CustomerCreated PROVE OnboardingInv'
<1>1. customers \in Nat /\ customers < MaxCustomers /\ MaxCustomers \in Nat
  BY OnboardingAssumption DEF CustomerCreated, OnboardingInv, TablesOK
<1>2. PICK e \in EntryState : e.at = "created" /\ e.customer = customers + 1 /\ entry' = e
  <2>1. entry \in EntryState
    BY DEF OnboardingInv, RecordsOK
  <2>2. PICK e : e = [entry EXCEPT !.at = "created", !.customer = customers + 1]
    OBVIOUS
  <2>3. customers + 1 \in Nat
    BY <1>1
  <2>4. e \in EntryState /\ e.at = "created" /\ e.customer = customers + 1
    BY <2>1, <2>2, <2>3 DEF EntryState
  <2> QED BY <2>2, <2>4 DEF CustomerCreated, left
<1>3. /\ customers' = customers + 1
      /\ UNCHANGED <<owner, revoked, requested, issued, told, failures, panel,
                     adrift, revoking, past, abandoned>>
  BY DEF CustomerCreated, left
<1>4. TablesOK'
  BY <1>1, <1>3 DEF OnboardingInv, TablesOK, IssuedKeys
<1>5. RecordsOK'
  BY <1>2, <1>3 DEF OnboardingInv, RecordsOK
<1>6. OwnersOK'
  BY <1>1, <1>2, <1>3 DEF OnboardingInv, OwnersOK, IssuedKeys
<1>7. PanelOK'
  BY <1>3, PanelStays DEF IssuedKeys
<1>8. Stranded' \subseteq Stranded
  BY <1>1, <1>2, <1>3 DEF CustomerCreated, Stranded, Keyless, IssuedKeys, left, Adrift
<1>9. Lost' \subseteq Lost
  BY <1>2, <1>3 DEF CustomerCreated, Lost, IssuedKeys, left
<1> QED BY <1>3, <1>4, <1>5, <1>6, <1>7, <1>8, <1>9, NothingMoreToReport DEF OnboardingInv

\* The page asks for the customer's key.
LEMMA AskKeyStep == ASSUME OnboardingInv, AskKey PROVE OnboardingInv'
<1>1. PICK e \in EntryState : e.at = "issuing" /\ e.customer = entry.customer /\ entry' = e
  <2>1. entry \in EntryState
    BY DEF OnboardingInv, RecordsOK
  <2> QED BY <2>1 DEF AskKey, EntryState, left
<1>2. UNCHANGED <<customers, owner, revoked, requested, issued, told, failures, panel,
                    adrift, revoking, past, abandoned>>
  BY DEF AskKey, tables, left
<1>3. TablesOK'
  BY <1>2 DEF OnboardingInv, TablesOK, IssuedKeys
<1>4. RecordsOK'
  BY <1>1, <1>2 DEF OnboardingInv, RecordsOK
<1>5. OwnersOK'
  BY <1>1, <1>2 DEF AskKey, OnboardingInv, OwnersOK, left, IssuedKeys
<1>6. PanelOK'
  BY <1>2, PanelStays DEF IssuedKeys
<1>7. Stranded' \subseteq Stranded /\ Lost' \subseteq Lost
  BY <1>1, <1>2 DEF AskKey, Stranded, Lost, Keyless, IssuedKeys, left, Adrift
<1> QED BY <1>2, <1>3, <1>4, <1>5, <1>6, <1>7, NothingMoreToReport DEF OnboardingInv

\* The key is created for the customer of the form.
LEMMA KeyCreatedStep == ASSUME OnboardingInv, KeyCreated PROVE OnboardingInv'
<1>1. entry.customer \in 1..customers /\ entry \in EntryState
  BY DEF KeyCreated, OnboardingInv, OwnersOK, RecordsOK, left, IssuedKeys
<1>2. UNCHANGED <<customers, revoked, requested, issued, told, failures, panel,
                    adrift, revoking, past, abandoned>>
  BY DEF KeyCreated, left
<1>3. PICK c \in 1..customers : c = entry.customer
  BY <1>1
<1>4. /\ TablesOK'
      /\ IssuedKeys' = IssuedKeys \cup {NextKey} /\ NextKey \notin IssuedKeys
      /\ NextKey \in Nat /\ NextKey # Nobody
      /\ ActsFor(owner', NextKey, c)
      /\ \A k \in IssuedKeys : owner'[k] = owner[k]
  BY <1>2, <1>3, InsertedKey DEF KeyCreated, OnboardingInv, left
<1>5. PICK n : n = NextKey
  OBVIOUS
<1>6. PICK e \in EntryState : e.at = "issued" /\ e.customer = c /\ e.key = n /\ entry' = e
  BY <1>1, <1>3, <1>4, <1>5 DEF KeyCreated, EntryState, left
<1>7. \A k, d : ActsFor(owner, k, d) => ActsFor(owner', k, d)
  BY <1>4 DEF ActsFor, IssuedKeys
<1>8. RecordsOK'
  BY <1>2, <1>6 DEF OnboardingInv, RecordsOK
<1>9. OwnersOK'
  BY <1>2, <1>4, <1>5, <1>6, <1>7 DEF OnboardingInv, OwnersOK, IssuedKeys
<1>10. PanelOK'
  BY <1>2, <1>4, PanelStays
<1>11. Stranded' \subseteq Stranded
  <2>1. Keyless' \subseteq Keyless \ {c}
    BY <1>2, <1>4 DEF Keyless, ActsFor, IssuedKeys
  <2>2. Stranded = Keyless \ ({c} \cup Adrift) /\ Adrift' = Adrift
    BY <1>2, <1>3 DEF KeyCreated, Stranded, Adrift
  <2> QED BY <2>1, <2>2 DEF Stranded, Adrift
<1>12. Lost' \subseteq Lost
  BY <1>2, <1>4, <1>5, <1>6 DEF KeyCreated, Lost, left
<1> QED BY <1>2, <1>4, <1>8, <1>9, <1>10, <1>11, <1>12, NothingMoreToReport DEF OnboardingInv

\* The answer arrives, and the key is shown.
LEMMA OnboardedStep == ASSUME OnboardingInv, Onboarded PROVE OnboardingInv'
<1>1. entry \in EntryState /\ ActsFor(owner, entry.key, entry.customer)
  BY DEF Onboarded, OnboardingInv, OwnersOK, RecordsOK, left, IssuedKeys
<1>2. PICK card : card = Card(entry)
  OBVIOUS
<1>3. card \in IssuedCard /\ card.customer = entry.customer /\ card.key = entry.key
  BY <1>1, <1>2 DEF Card, EntryState, IssuedCard
<1>4. /\ issued' = issued \cup {card} /\ told' = told \cup {card.key}
      /\ UNCHANGED <<customers, owner, revoked, requested, failures, panel,
                    adrift, revoking, past, abandoned>>
  BY <1>2, <1>3 DEF Onboarded, With, tables, left
<1>5. PICK e \in EntryState : e.at = "idle" /\ entry' = e
  BY DEF Onboarded, Idle, EntryState, Nobody, left
<1>6. TablesOK'
  BY <1>4 DEF OnboardingInv, TablesOK, IssuedKeys
<1>7. RecordsOK'
  BY <1>3, <1>4, <1>5 DEF OnboardingInv, RecordsOK
<1>8. OwnersOK'
  BY <1>1, <1>3, <1>4, <1>5 DEF OnboardingInv, OwnersOK, IssuedKeys
<1>9. PanelOK'
  BY <1>4, PanelStays DEF IssuedKeys
<1>10. Stranded' \subseteq Stranded
  BY <1>4, <1>5 DEF Onboarded, Stranded, Keyless, IssuedKeys, left, Adrift
<1>11. Lost' \subseteq Lost
  BY <1>3, <1>4, <1>5 DEF Onboarded, Lost, IssuedKeys, left
<1> QED BY <1>4, <1>6, <1>7, <1>8, <1>9, <1>10, <1>11, NothingMoreToReport DEF OnboardingInv

\* The page is told of one more failure.
LEMMA FailureIsTold ==
  ASSUME TablesOK, Failed, UNCHANGED <<tables, abandoned>>
  PROVE  TablesOK' /\ failures' = failures + 1
<1>1. failures' = failures + 1 /\ failures' \in 0..MaxFailures
  BY OnboardingAssumption DEF Failed, TablesOK
<1> QED BY <1>1 DEF TablesOK, tables, IssuedKeys

\* The form fails: a customer without a key or a key nobody saw may be left, and
\* the page was told.
LEMMA OnboardFailsStep == ASSUME OnboardingInv, OnboardFails PROVE OnboardingInv'
<1>1. TablesOK' /\ failures' = failures + 1
  BY FailureIsTold DEF OnboardFails, OnboardingInv, left
<1>1a. IsFiniteSet(adrift') /\ adrift' = adrift /\ abandoned' = abandoned
  BY DEF OnboardFails, left, OnboardingInv, RecordsOK
<1>2. UNCHANGED <<customers, owner, revoked, requested, issued, told, panel,
                    adrift, revoking, past, abandoned>>
  BY DEF OnboardFails, tables, left
<1>3. PICK e \in EntryState : e.at = "idle" /\ entry' = e
  BY DEF OnboardFails, Idle, EntryState, Nobody, left
<1>4. RecordsOK'
  BY <1>2, <1>3 DEF OnboardingInv, RecordsOK
<1>5. OwnersOK'
  BY <1>2, <1>3 DEF OnboardingInv, OwnersOK, IssuedKeys
<1>6. PanelOK'
  BY <1>2, PanelStays DEF IssuedKeys
<1>7. CASE entry.at = "issued"
  <2>1. Stranded' \subseteq Stranded /\ Lost' \subseteq Lost \cup {entry.key}
    BY <1>2, <1>3, <1>7 DEF Stranded, Lost, Keyless, IssuedKeys, Adrift
  <2> QED BY <1>1, <1>1a, <1>4, <1>5, <1>6, <2>1, OneMoreReported DEF OnboardingInv
<1>8. CASE entry.at # "issued"
  <2>1. Stranded' \subseteq Stranded \cup {entry.customer} /\ Lost' \subseteq Lost
    BY <1>2, <1>3, <1>8 DEF Stranded, Lost, Keyless, IssuedKeys, Adrift
  <2> QED BY <1>1, <1>1a, <1>4, <1>5, <1>6, <2>1, OneMoreReported DEF OnboardingInv
<1> QED BY <1>7, <1>8

----------------------------------------------------------------------------
(* issueAnother *)

\* Another key is asked for, of a card on the page.
LEMMA AskAnotherStep ==
  ASSUME OnboardingInv, NEW card \in issued, AskAnother(card) PROVE OnboardingInv'
<1>1. card \in IssuedCard /\ card.customer \in 1..customers
  BY DEF OnboardingInv, RecordsOK, OwnersOK, ActsFor, TablesOK, IssuedKeys
<1>2. PICK i \in 1..MaxRequested :
        requested' = requested \cup
          {[id |-> i, customer |-> card.customer, key |-> Nobody, showing |-> issued]}
  BY DEF AskAnother
<1>2a. PICK r : r = [id |-> i, customer |-> card.customer, key |-> Nobody, showing |-> issued]
  OBVIOUS
<1>3. r \in KeyRequest /\ r.customer = card.customer /\ r.key = Nobody
  BY <1>1, <1>2a DEF IssuedCard, KeyRequest, Nobody, OnboardingInv, RecordsOK
<1>4. /\ requested' = requested \cup {r}
      /\ UNCHANGED <<customers, owner, revoked, entry, issued, told, failures, panel,
                    adrift, revoking, past, abandoned>>
  BY <1>2, <1>2a DEF AskAnother, tables, left
<1>5. TablesOK'
  BY <1>4 DEF OnboardingInv, TablesOK, IssuedKeys
<1>6. IsFiniteSet(requested')
  BY <1>4, FS_AddElement DEF OnboardingInv, RecordsOK
<1>7. RecordsOK'
  BY <1>3, <1>4, <1>6 DEF OnboardingInv, RecordsOK
<1>8. OwnersOK'
  BY <1>1, <1>3, <1>4 DEF OnboardingInv, OwnersOK, IssuedKeys
<1>9. PanelOK'
  BY <1>4, PanelStays DEF IssuedKeys
<1>10. Stranded' \subseteq Stranded /\ Lost' \subseteq Lost
  BY <1>4 DEF Stranded, Lost, Keyless, IssuedKeys, Adrift
<1> QED BY <1>4, <1>5, <1>7, <1>8, <1>9, <1>10, NothingMoreToReport DEF OnboardingInv

\* It is created for the customer of that card.
LEMMA AnotherCreatedStep ==
  ASSUME OnboardingInv, NEW r \in requested, AnotherCreated(r) PROVE OnboardingInv'
<1>1. r \in KeyRequest /\ r.customer \in 1..customers
  BY DEF OnboardingInv, RecordsOK, OwnersOK, IssuedKeys
<1>2. UNCHANGED <<customers, revoked, entry, issued, told, failures, panel,
                    adrift, revoking, past, abandoned>>
  BY DEF AnotherCreated, left
<1>3. PICK c \in 1..customers : c = r.customer
  BY <1>1
<1>4. /\ TablesOK'
      /\ IssuedKeys' = IssuedKeys \cup {NextKey} /\ NextKey \notin IssuedKeys
      /\ NextKey \in Nat /\ NextKey # Nobody
      /\ ActsFor(owner', NextKey, c)
      /\ \A k \in IssuedKeys : owner'[k] = owner[k]
  BY <1>2, <1>3, InsertedKey DEF AnotherCreated, OwnerAskedFor, OnboardingInv, left
<1>5. PICK n : n = NextKey
  OBVIOUS
<1>6. PICK s \in KeyRequest : /\ s.customer = c /\ s.key = n
                              /\ requested' = (requested \ {r}) \cup {s}
  <2>1. [r EXCEPT !.key = n] \in KeyRequest
    BY <1>1, <1>4, <1>5 DEF KeyRequest
  <2> QED BY <1>1, <1>3, <1>5, <2>1 DEF AnotherCreated, KeyRequest, left
<1>7. \A k, d : ActsFor(owner, k, d) => ActsFor(owner', k, d)
  BY <1>4 DEF ActsFor, IssuedKeys
<1>8. IsFiniteSet(requested')
  <2>1. IsFiniteSet(requested \ {r})
    BY FS_RemoveElement DEF OnboardingInv, RecordsOK
  <2> QED BY <1>6, <2>1, FS_AddElement
<1>9. RecordsOK'
  BY <1>2, <1>6, <1>8 DEF OnboardingInv, RecordsOK
<1>10. OwnersOK'
  BY <1>2, <1>4, <1>5, <1>6, <1>7 DEF OnboardingInv, OwnersOK, IssuedKeys
<1>11. PanelOK'
  BY <1>2, <1>4, PanelStays
<1>12. Stranded' \subseteq Stranded
  <2>1. Keyless' \subseteq Keyless
    BY <1>2, <1>4 DEF Keyless
  <2> QED BY <1>2, <2>1 DEF Stranded, Adrift
<1>13. Lost' \subseteq Lost
  <2>1. \A k \in IssuedKeys : k # Nobody
    BY KeysAreNumbered DEF OnboardingInv, TablesOK, Nobody
  <2>2. {q.key : q \in requested} \subseteq {q.key : q \in requested'} \cup {Nobody}
    BY <1>6 DEF AnotherCreated, left
  <2>3. n \in {q.key : q \in requested'}
    BY <1>6
  <2> QED BY <1>2, <1>4, <1>5, <2>1, <2>2, <2>3 DEF Lost
<1> QED BY <1>2, <1>4, <1>9, <1>10, <1>11, <1>12, <1>13, NothingMoreToReport DEF OnboardingInv

\* Its answer arrives, and it is shown.
LEMMA AnotherIssuedStep ==
  ASSUME OnboardingInv, NEW r \in requested, AnotherIssued(r) PROVE OnboardingInv'
<1>1. r \in KeyRequest /\ ActsFor(owner, r.key, r.customer)
  BY DEF AnotherIssued, OnboardingInv, OwnersOK, RecordsOK, left, IssuedKeys
<1>2. PICK card : card = Card(r)
  OBVIOUS
<1>3. card \in IssuedCard /\ card.customer = r.customer /\ card.key = r.key
  BY <1>1, <1>2 DEF Card, KeyRequest, IssuedCard
<1>4. /\ issued' = issued \cup {card} /\ told' = told \cup {card.key}
      /\ requested' = requested \ {r}
      /\ UNCHANGED <<customers, owner, revoked, entry, failures, panel,
                    adrift, revoking, past, abandoned>>
  BY <1>2, <1>3 DEF AnotherIssued, With, tables, left
<1>5. TablesOK'
  BY <1>4 DEF OnboardingInv, TablesOK, IssuedKeys
<1>6. IsFiniteSet(requested')
  BY <1>4, FS_RemoveElement DEF OnboardingInv, RecordsOK
<1>7. RecordsOK'
  BY <1>3, <1>4, <1>6 DEF OnboardingInv, RecordsOK
<1>8. OwnersOK'
  BY <1>1, <1>3, <1>4 DEF OnboardingInv, OwnersOK, IssuedKeys
<1>9. PanelOK'
  BY <1>4, PanelStays DEF IssuedKeys
<1>10. Stranded' \subseteq Stranded
  BY <1>4 DEF Stranded, Keyless, IssuedKeys, Adrift
<1>11. Lost' \subseteq Lost
  BY <1>3, <1>4 DEF Lost, IssuedKeys
<1> QED BY <1>4, <1>5, <1>7, <1>8, <1>9, <1>10, <1>11, NothingMoreToReport DEF OnboardingInv

\* It fails: a key nobody saw may be left, and the page was told.
LEMMA AnotherFailsStep ==
  ASSUME OnboardingInv, NEW r \in requested, AnotherFails(r) PROVE OnboardingInv'
<1>1. TablesOK' /\ failures' = failures + 1
  BY FailureIsTold DEF AnotherFails, OnboardingInv, left
<1>1a. IsFiniteSet(adrift') /\ adrift' = adrift /\ abandoned' = abandoned
  BY DEF AnotherFails, left, OnboardingInv, RecordsOK
<1>2. /\ requested' = requested \ {r}
      /\ UNCHANGED <<customers, owner, revoked, entry, issued, told, panel,
                    adrift, revoking, past, abandoned>>
  BY DEF AnotherFails, tables, left
<1>3. IsFiniteSet(requested')
  BY <1>2, FS_RemoveElement DEF OnboardingInv, RecordsOK
<1>4. RecordsOK'
  BY <1>2, <1>3 DEF OnboardingInv, RecordsOK
<1>5. OwnersOK'
  BY <1>2 DEF OnboardingInv, OwnersOK, IssuedKeys
<1>6. PanelOK'
  BY <1>2, PanelStays DEF IssuedKeys
<1>7. Stranded' \subseteq Stranded /\ Lost' \subseteq Lost \cup {r.key}
  BY <1>2 DEF Stranded, Lost, Keyless, IssuedKeys, Adrift
<1> QED BY <1>1, <1>1a, <1>4, <1>5, <1>6, <1>7, OneMoreReported DEF OnboardingInv

----------------------------------------------------------------------------
(* revoke *)

\* What the panel does touches nothing but the keys revoked.
LEMMA PageStays ==
  ASSUME OnboardingInv, panel' \in PanelState,
         UNCHANGED <<customers, owner, entry, requested, issued, told, failures,
                     adrift, past, abandoned>>
  PROVE  TablesOK' /\ RecordsOK' /\ OwnersOK' /\ Reported'
<1>1. TablesOK'
  BY DEF OnboardingInv, TablesOK, IssuedKeys
<1>2. RecordsOK'
  BY DEF OnboardingInv, RecordsOK
<1>3. OwnersOK'
  BY DEF OnboardingInv, OwnersOK, IssuedKeys
<1>4. Stranded' \subseteq Stranded /\ Lost' \subseteq Lost
  BY DEF Stranded, Lost, Keyless, Adrift, IssuedKeys
<1> QED BY <1>1, <1>2, <1>3, <1>4, NothingMoreToReport

\* The panel says that a key is revoked only when the server revoked it.
LEMMA PanelStep ==
  ASSUME OnboardingInv,
         \/ \E k \in 1..MaxIssued : AskRevocation(k)
         \/ ServerRevokes \/ Revoked \/ RevokeFails
  PROVE  OnboardingInv'
<1>1. panel \in PanelState /\ PanelOK /\ Nobody \in 0..MaxIssued
  BY OnboardingAssumption DEF OnboardingInv, RecordsOK, Nobody
<1>2. UNCHANGED <<customers, owner, entry, requested, issued, told, failures,
                  adrift, revoking, past, abandoned>>
  BY DEF AskRevocation, ServerRevokes, Revoked, RevokeFails, tables, left
<1>3. IssuedKeys' = IssuedKeys
  BY <1>2 DEF IssuedKeys
<1>4. ASSUME NEW k \in 1..MaxIssued, AskRevocation(k) PROVE panel' \in PanelState /\ PanelOK'
  <2>1. PICK p : p = [at |-> "sent", sent |-> k, done |-> Nobody]
    OBVIOUS
  <2>2. p \in PanelState /\ p.at = "sent" /\ p.done = Nobody
    BY <1>1, <2>1, OnboardingAssumption DEF PanelState
  <2>3. panel' = p /\ revoked' = revoked
    BY <1>4, <2>1 DEF AskRevocation, tables
  <2>4. PanelOK'
    BY <1>1, <1>2, <1>3, <2>2, <2>3 DEF PanelOK, NoticeIsTrue, Nobody
  <2> QED BY <2>2, <2>3, <2>4
<1>5. ASSUME ServerRevokes PROVE panel' \in PanelState /\ PanelOK'
  <2>1. PICK p \in PanelState : /\ panel' = p /\ p.done = panel.done /\ p.sent = panel.sent
                                /\ p.at = "revoked" \/ p.at = "unknown"
                                /\ p.at = "revoked" => Found(panel.sent) /\ revoked' = revoked \cup {panel.sent}
                                /\ p.at = "unknown" => revoked' = revoked
    <3>1. CASE Found(panel.sent)
      <4>1. PICK p : p = [panel EXCEPT !.at = "revoked"]
        OBVIOUS
      <4>2. p \in PanelState /\ p.done = panel.done /\ p.sent = panel.sent /\ p.at = "revoked"
        BY <1>1, <4>1 DEF PanelState
      <4> QED BY <1>5, <3>1, <4>1, <4>2 DEF ServerRevokes
    <3>2. CASE ~Found(panel.sent)
      <4>1. PICK p : p = [panel EXCEPT !.at = "unknown"]
        OBVIOUS
      <4>2. p \in PanelState /\ p.done = panel.done /\ p.sent = panel.sent /\ p.at = "unknown"
        BY <1>1, <4>1 DEF PanelState
      <4> QED BY <1>5, <3>2, <4>1, <4>2 DEF ServerRevokes
    <3> QED BY <3>1, <3>2
  <2>2. PanelOK'
    BY <1>1, <1>2, <1>3, <2>1 DEF Found, PanelOK, NoticeIsTrue, Nobody
  <2> QED BY <2>1, <2>2
<1>6. ASSUME Revoked PROVE panel' \in PanelState /\ PanelOK'
  <2>1. PICK p : p = [panel EXCEPT !.at = "idle", !.sent = Nobody, !.done = panel.sent]
    OBVIOUS
  <2>2. p \in PanelState /\ p.at = "idle" /\ p.done = panel.sent
    BY <1>1, <2>1 DEF PanelState
  <2>3. panel' = p /\ revoked' = revoked /\ panel.sent \in revoked
    BY <1>1, <1>6, <2>1 DEF Revoked, tables, PanelOK
  <2>4. PanelOK'
    BY <1>1, <1>2, <1>3, <2>2, <2>3 DEF PanelOK, NoticeIsTrue
  <2> QED BY <2>2, <2>3, <2>4
<1>7. ASSUME RevokeFails PROVE panel' \in PanelState /\ PanelOK'
  <2>1. PICK p : p = [panel EXCEPT !.at = "idle", !.sent = Nobody]
    OBVIOUS
  <2>2. p \in PanelState /\ p.at = "idle" /\ p.done = panel.done
    BY <1>1, <2>1 DEF PanelState
  <2>3. panel' = p /\ revoked' = revoked
    BY <1>7, <2>1 DEF RevokeFails, tables
  <2>4. PanelOK'
    BY <1>1, <1>2, <1>3, <2>2, <2>3 DEF PanelOK, NoticeIsTrue, Nobody
  <2> QED BY <2>2, <2>3, <2>4
<1>8. panel' \in PanelState /\ PanelOK'
  BY <1>4, <1>5, <1>6, <1>7
<1> QED BY <1>2, <1>8, PageStays DEF OnboardingInv

----------------------------------------------------------------------------
(* the page is left *)

\* What the form leaves adrift, and the key it leaves with nobody: one at most.
LEMMA FormLeaves ==
  ASSUME OnboardingInv
  PROVE  \E U, D : 
           /\ U = (IF entry.at \in {"idle", "issued"} THEN {}
                   ELSE {[id |-> entry.id, customer |-> entry.customer]})
           /\ D = (IF entry.at = "issued" THEN {entry.key} ELSE {})
           /\ IsFiniteSet(U) /\ IsFiniteSet(D)
           /\ Cardinality(U) + Cardinality(D) <= IF entry.at = "idle" THEN 0 ELSE 1
           /\ Cardinality(U) \in Nat /\ Cardinality(D) \in Nat
<1>1. /\ IsFiniteSet({}) /\ Cardinality({}) = 0
      /\ \A x : IsFiniteSet({x}) /\ Cardinality({x}) = 1
  BY FS_EmptySet, FS_Singleton
<1>2. PICK U : U = IF entry.at \in {"idle", "issued"} THEN {}
                   ELSE {[id |-> entry.id, customer |-> entry.customer]}
  OBVIOUS
<1>3. PICK D : D = IF entry.at = "issued" THEN {entry.key} ELSE {}
  OBVIOUS
<1>4. /\ IsFiniteSet(U)
      /\ Cardinality(U) = IF entry.at \in {"idle", "issued"} THEN 0 ELSE 1
  BY <1>1, <1>2
<1>5. IsFiniteSet(D) /\ Cardinality(D) = IF entry.at = "issued" THEN 1 ELSE 0
  BY <1>1, <1>3
<1>6. Cardinality(U) + Cardinality(D) <= IF entry.at = "idle" THEN 0 ELSE 1
  BY <1>4, <1>5
<1>7. Cardinality(U) \in Nat /\ Cardinality(D) \in Nat
  BY <1>4, <1>5
<1> QED BY <1>2, <1>3, <1>4, <1>5, <1>6, <1>7

\* So it is of each request for another key.
LEMMA RequestsLeave ==
  ASSUME OnboardingInv
  PROVE  \E U, D :
           /\ U = {[id |-> r.id, customer |-> r.customer] : r \in {q \in requested : q.key = Nobody}}
           /\ D = {r.key : r \in {q \in requested : q.key # Nobody}}
           /\ IsFiniteSet(U) /\ IsFiniteSet(D)
           /\ Cardinality(U) + Cardinality(D) <= Cardinality(requested)
           /\ Cardinality(U) \in Nat /\ Cardinality(D) \in Nat
<1>1. PICK A : A = {q \in requested : q.key = Nobody}
  OBVIOUS
<1>2. PICK B : B = {q \in requested : q.key # Nobody}
  OBVIOUS
<1>3. IsFiniteSet(requested)
  BY DEF OnboardingInv, RecordsOK
<1>4. /\ IsFiniteSet(A) /\ IsFiniteSet(B)
      /\ Cardinality(A) \in Nat /\ Cardinality(B) \in Nat
  BY <1>1, <1>2, <1>3, CountSubset
<1>5. Cardinality(A) + Cardinality(B) = Cardinality(requested)
  <2>1. A \cup B = requested /\ A \cap B = {}
    BY <1>1, <1>2
  <2>2. Cardinality(A \cup B) = Cardinality(A) + Cardinality(B) - Cardinality(A \cap B)
    BY <1>4, FS_Union
  <2>3. Cardinality(A \cap B) = 0
    BY <2>1, FS_EmptySet
  <2> QED BY <1>4, <2>1, <2>2, <2>3
<1>6. PICK U : U = {[id |-> r.id, customer |-> r.customer] : r \in A}
  OBVIOUS
<1>7. PICK D : D = {r.key : r \in B}
  OBVIOUS
<1>8. IsFiniteSet(U) /\ Cardinality(U) <= Cardinality(A)
  <2>1. PICK f : f = [r \in A |-> [id |-> r.id, customer |-> r.customer]]
    OBVIOUS
  <2>2. f \in Surjection(A, U)
    BY <1>6, <2>1 DEF Surjection
  <2> QED BY <1>4, <2>2, FS_Surjection
<1>9. IsFiniteSet(D) /\ Cardinality(D) <= Cardinality(B)
  <2>1. PICK f : f = [r \in B |-> r.key]
    OBVIOUS
  <2>2. f \in Surjection(B, D)
    BY <1>7, <2>1 DEF Surjection
  <2> QED BY <1>4, <2>2, FS_Surjection
<1>10. Cardinality(U) \in Nat /\ Cardinality(D) \in Nat
  BY <1>8, <1>9, FS_CardinalityType
<1>11. Cardinality(U) + Cardinality(D) <= Cardinality(requested)
  BY <1>4, <1>5, <1>8, <1>9, <1>10
<1> QED BY <1>1, <1>2, <1>6, <1>7, <1>8, <1>9, <1>10, <1>11

\* The page is left: what it waited for is adrift, or a key nobody was shown.
LEMMA LeavePageStep == ASSUME OnboardingInv, LeavePage PROVE OnboardingInv'
<1>1. PICK U1, D1 :
        /\ U1 = (IF entry.at \in {"idle", "issued"} THEN {}
                 ELSE {[id |-> entry.id, customer |-> entry.customer]})
        /\ D1 = (IF entry.at = "issued" THEN {entry.key} ELSE {})
        /\ IsFiniteSet(U1) /\ IsFiniteSet(D1)
        /\ Cardinality(U1) + Cardinality(D1) <= IF entry.at = "idle" THEN 0 ELSE 1
        /\ Cardinality(U1) \in Nat /\ Cardinality(D1) \in Nat
  BY FormLeaves
<1>2. PICK U2, D2 :
        /\ U2 = {[id |-> r.id, customer |-> r.customer] : r \in {q \in requested : q.key = Nobody}}
        /\ D2 = {r.key : r \in {q \in requested : q.key # Nobody}}
        /\ IsFiniteSet(U2) /\ IsFiniteSet(D2)
        /\ Cardinality(U2) + Cardinality(D2) <= Cardinality(requested)
        /\ Cardinality(U2) \in Nat /\ Cardinality(D2) \in Nat
  BY RequestsLeave
<1>3. PICK w \in Nat : w = UnderWay
  BY FS_CardinalityType DEF UnderWay, OnboardingInv, RecordsOK
<1>4. Cardinality(U1) + Cardinality(D1) + Cardinality(U2) + Cardinality(D2) <= w
  <2>1. Cardinality(requested) \in Nat
    BY FS_CardinalityType DEF OnboardingInv, RecordsOK
  <2> QED BY <1>1, <1>2, <1>3, <2>1 DEF UnderWay
<1>5. /\ adrift' = adrift \cup (U1 \cup U2) /\ abandoned' = abandoned + w
      /\ entry' = Idle /\ requested' = {} /\ issued' = {} /\ panel' = Panel /\ past' = told
      /\ UNCHANGED <<customers, owner, revoked, told, failures>>
      /\ abandoned + w <= MaxAbandoned
  BY <1>1, <1>2, <1>3 DEF LeavePage, Undecided, tables
<1>6. TablesOK'
  BY <1>3, <1>5, OnboardingAssumption DEF OnboardingInv, TablesOK, IssuedKeys
<1>7. U1 \cup U2 \subseteq Unread
  BY <1>1, <1>2 DEF OnboardingInv, RecordsOK, EntryState, KeyRequest, Unread
<1>8. /\ IsFiniteSet(adrift')
      /\ Cardinality(adrift) \in Nat /\ Cardinality(adrift') \in Nat
      /\ Cardinality(adrift') <= Cardinality(adrift) + (Cardinality(U1) + Cardinality(U2))
  <2>1. /\ IsFiniteSet(U1 \cup U2) /\ Cardinality(U1 \cup U2) \in Nat
        /\ Cardinality(U1 \cup U2) <= Cardinality(U1) + Cardinality(U2)
    BY <1>1, <1>2, CountUnion
  <2>2. IsFiniteSet(adrift)
    BY DEF OnboardingInv, RecordsOK
  <2>3. PICK V : V = U1 \cup U2
    OBVIOUS
  <2>4. /\ IsFiniteSet(adrift \cup V)
        /\ Cardinality(adrift) \in Nat /\ Cardinality(adrift \cup V) \in Nat
        /\ Cardinality(adrift \cup V) <= Cardinality(adrift) + Cardinality(V)
    BY <2>1, <2>2, <2>3, CountUnion
  <2> QED BY <1>1, <1>2, <1>5, <2>1, <2>3, <2>4
<1>9. RecordsOK'
  <2>1. Idle \in EntryState /\ Panel \in PanelState
    BY OnboardingAssumption DEF Idle, EntryState, Panel, PanelState, Nobody
  <2> QED BY <1>5, <1>7, <1>8, <2>1, FS_EmptySet DEF OnboardingInv, RecordsOK
<1>10. OwnersOK'
  <2>1. told \subseteq IssuedKeys /\ IssuedKeys' = IssuedKeys
    BY <1>5 DEF OnboardingInv, OwnersOK, ActsFor, IssuedKeys
  <2>2. \A o \in U1 \cup U2 : o.customer \in 0..customers
    <3>1. customers \in Nat
      BY DEF OnboardingInv, TablesOK
    <3>2. entry.at = "creating" => entry.customer = Nobody
      BY DEF OnboardingInv, OwnersOK, IssuedKeys
    <3> QED BY <1>1, <1>2, <3>1, <3>2 DEF OnboardingInv, RecordsOK, OwnersOK, EntryState, Nobody, IssuedKeys
  <2> QED BY <1>5, <2>1, <2>2 DEF OnboardingInv, OwnersOK, Idle, IssuedKeys
<1>11. PanelOK'
  BY <1>5 DEF LeavePage, OnboardingInv, PanelOK, NoticeIsTrue, Panel, IssuedKeys
<1>12. Stranded' \subseteq Stranded
  <2>1. Keyless' = Keyless
    BY <1>5 DEF Keyless, IssuedKeys
  <2>2. Adrift \subseteq Adrift'
    BY <1>5 DEF Adrift
  <2>3. ASSUME entry.at \in {"created", "issuing"} PROVE entry.customer \in Adrift'
    <3>1. PICK o : o = [id |-> entry.id, customer |-> entry.customer]
      OBVIOUS
    <3>2. o \in adrift' /\ o.customer = entry.customer
      BY <1>1, <1>5, <2>3, <3>1
    <3> QED BY <3>2 DEF Adrift
  <2> QED BY <1>5, <2>1, <2>2, <2>3 DEF Stranded, Adrift
<1>13. PICK D : D = D1 \cup D2
  OBVIOUS
<1>14. /\ IsFiniteSet(D) /\ Cardinality(D) \in Nat
       /\ Cardinality(D) <= Cardinality(D1) + Cardinality(D2)
  BY <1>1, <1>2, <1>13, CountUnion
<1>15. Lost' \subseteq Lost \cup D
  <2>1. \A k \in IssuedKeys : k # Nobody
    BY KeysAreNumbered DEF OnboardingInv, TablesOK, Nobody
  <2> QED BY <1>1, <1>2, <1>5, <1>13, <2>1 DEF Lost, IssuedKeys
<1>16. PICK Z : Z = {} /\ IsFiniteSet(Z) /\ Cardinality(Z) = 0
  BY FS_EmptySet
<1>17. Cardinality(Z) + Cardinality(D) + Cardinality(adrift') + failures + abandoned
         <= Cardinality(adrift) + failures' + abandoned'
  <2>1. failures \in Nat /\ abandoned \in Nat /\ failures' = failures /\ abandoned' = abandoned + w
    BY <1>5 DEF OnboardingInv, TablesOK
  <2> QED BY <1>1, <1>2, <1>3, <1>4, <1>8, <1>14, <1>16, <2>1
<1>18. Stranded' \subseteq Stranded \cup Z
  BY <1>12
<1>19. Reported'
  BY <1>6, <1>8, <1>14, <1>15, <1>16, <1>17, <1>18, ReportedStep
<1> QED BY <1>6, <1>9, <1>10, <1>11, <1>19 DEF OnboardingInv

\* A step of a request adrift leaves the page, its panel and its records alone.
LEMMA PageIsGone ==
  ASSUME OnboardingInv, TablesOK', IssuedKeys \subseteq IssuedKeys', customers <= customers',
         \A k, d : ActsFor(owner, k, d) => ActsFor(owner', k, d),
         UNCHANGED <<onPage, panel, revoked, revoking, past>>,
         adrift' \subseteq Unread, IsFiniteSet(adrift'),
         \A o \in adrift' : o.customer \in 0..customers'
  PROVE  RecordsOK' /\ OwnersOK' /\ PanelOK'
<1>1. customers \in Nat /\ customers' \in Nat
  BY DEF OnboardingInv, TablesOK
<1>2. RecordsOK'
  BY DEF OnboardingInv, RecordsOK, onPage
<1>3. OwnersOK'
  BY <1>1 DEF OnboardingInv, OwnersOK, onPage, IssuedKeys
<1>4. PanelOK'
  BY DEF OnboardingInv, PanelOK, NoticeIsTrue
<1> QED BY <1>2, <1>3, <1>4

\* onboard goes on behind the page's back: its customer is made.
LEMMA AdriftCreatedStep ==
  ASSUME OnboardingInv, NEW o \in adrift, AdriftCreated(o) PROVE OnboardingInv'
<1>1. customers \in Nat /\ customers < MaxCustomers /\ MaxCustomers \in Nat /\ o \in Unread
  BY OnboardingAssumption DEF AdriftCreated, OnboardingInv, TablesOK, RecordsOK
<1>2. PICK p \in Unread : p.customer = customers + 1 /\ adrift' = (adrift \ {o}) \cup {p}
  <2>1. [o EXCEPT !.customer = customers + 1] \in Unread
    BY <1>1 DEF Unread
  <2> QED BY <1>1, <2>1 DEF AdriftCreated, Unread
<1>3. /\ customers' = customers + 1
      /\ UNCHANGED <<owner, revoked, onPage, panel, revoking, past, abandoned>>
  BY DEF AdriftCreated
<1>4. UNCHANGED <<entry, requested, issued, told, failures>>
  BY <1>3 DEF onPage
<1>5. TablesOK'
  BY <1>1, <1>3, <1>4 DEF OnboardingInv, TablesOK, IssuedKeys
<1>6. IsFiniteSet(adrift') /\ Cardinality(adrift') <= Cardinality(adrift)
  <2>1. IsFiniteSet(adrift) /\ Cardinality(adrift) \in Nat
    BY FS_CardinalityType DEF OnboardingInv, RecordsOK
  <2>2. PICK R : R = adrift \ {o}
    OBVIOUS
  <2>3. IsFiniteSet(R) /\ Cardinality(R) = Cardinality(adrift) - 1 /\ Cardinality(R) \in Nat
    BY <2>1, <2>2, FS_RemoveElement, FS_CardinalityType
  <2>4. IsFiniteSet(R \cup {p}) /\ Cardinality(R \cup {p}) <= Cardinality(R) + 1
    <3>1. IsFiniteSet(R \cup {p}) /\ Cardinality(R \cup {p}) = IF p \in R THEN Cardinality(R) ELSE Cardinality(R) + 1
      BY <2>3, FS_AddElement
    <3> QED BY <2>3, <3>1
  <2> QED BY <1>2, <2>1, <2>2, <2>3, <2>4
<1>7. RecordsOK' /\ OwnersOK' /\ PanelOK'
  <2>1. \A q \in adrift' : q.customer \in 0..customers'
    BY <1>1, <1>2, <1>3 DEF OnboardingInv, OwnersOK, IssuedKeys
  <2>2. adrift' \subseteq Unread
    BY <1>2 DEF OnboardingInv, RecordsOK
  <2> QED BY <1>1, <1>3, <1>5, <1>6, <2>1, <2>2, PageIsGone DEF IssuedKeys
<1>8. Stranded' \subseteq Stranded /\ Lost' \subseteq Lost
  <2>1. Keyless' \subseteq Keyless \cup {customers + 1}
    BY <1>1, <1>3 DEF Keyless, IssuedKeys
  <2>2. customers + 1 \in Adrift' /\ Adrift \subseteq Adrift' \cup {Nobody}
    BY <1>2 DEF Adrift, AdriftCreated
  <2>3. Nobody \notin Keyless
    BY DEF Keyless, Nobody
  <2>4. Stranded' \subseteq Stranded
    BY <1>4, <2>1, <2>2, <2>3 DEF Stranded, Adrift
  <2> QED BY <1>3, <1>4, <2>4 DEF Lost, IssuedKeys
<1>9. Reported'
  <2>1. PICK Z : Z = {} /\ IsFiniteSet(Z) /\ Cardinality(Z) = 0
    BY FS_EmptySet
  <2>2. /\ Cardinality(adrift) \in Nat /\ Cardinality(adrift') \in Nat
        /\ failures \in Nat /\ abandoned \in Nat
    BY <1>6, FS_CardinalityType DEF OnboardingInv, RecordsOK, TablesOK
  <2>3. Cardinality(Z) + Cardinality(Z) + Cardinality(adrift') + failures + abandoned
          <= Cardinality(adrift) + failures' + abandoned'
    BY <1>3, <1>4, <1>6, <2>1, <2>2
  <2>4. Stranded' \subseteq Stranded \cup Z /\ Lost' \subseteq Lost \cup Z
    BY <1>8
  <2> QED BY <1>5, <1>6, <2>1, <2>3, <2>4, ReportedStep
<1> QED BY <1>5, <1>7, <1>9 DEF OnboardingInv

\* A request adrift is gone.
LEMMA OneLessAdrift ==
  ASSUME OnboardingInv, NEW o \in adrift, adrift' = adrift \ {o}
  PROVE  /\ IsFiniteSet(adrift') /\ Cardinality(adrift) = Cardinality(adrift') + 1
         /\ adrift' \subseteq Unread
<1>1. IsFiniteSet(adrift) /\ Cardinality(adrift) \in Nat
  BY FS_CardinalityType DEF OnboardingInv, RecordsOK
<1>2. IsFiniteSet(adrift') /\ Cardinality(adrift') = Cardinality(adrift) - 1
  BY <1>1, FS_RemoveElement
<1> QED BY <1>1, <1>2 DEF OnboardingInv, RecordsOK

\* A key is issued for a page that was left: a key nobody is shown.
LEMMA AdriftIssuedStep ==
  ASSUME OnboardingInv, NEW o \in adrift, AdriftIssued(o) PROVE OnboardingInv'
<1>1. UNCHANGED <<customers, revoked, onPage, panel, revoking, past, abandoned>> /\ adrift' = adrift \ {o}
  BY DEF AdriftIssued
<1>2. UNCHANGED <<entry, requested, issued, told, failures>>
  BY <1>1 DEF onPage
<1>3. PICK c \in 1..customers : c = o.customer
  BY DEF AdriftIssued, OnboardingInv, OwnersOK, TablesOK, Nobody, IssuedKeys
<1>4. /\ TablesOK'
      /\ IssuedKeys' = IssuedKeys \cup {NextKey} /\ NextKey \notin IssuedKeys
      /\ ActsFor(owner', NextKey, c)
      /\ \A k \in IssuedKeys : owner'[k] = owner[k]
  BY <1>1, <1>2, <1>3, InsertedKey DEF AdriftIssued, OnboardingInv
<1>5. PICK n : n = NextKey
  OBVIOUS
<1>6. \A k, d : ActsFor(owner, k, d) => ActsFor(owner', k, d)
  BY <1>4 DEF ActsFor, IssuedKeys
<1>7. IsFiniteSet(adrift') /\ Cardinality(adrift) = Cardinality(adrift') + 1 /\ adrift' \subseteq Unread
  BY <1>1, OneLessAdrift
<1>8. RecordsOK' /\ OwnersOK' /\ PanelOK'
  <2>1. customers' = customers /\ customers \in Nat
    BY <1>1 DEF OnboardingInv, TablesOK
  <2>2. \A q \in adrift' : q.customer \in 0..customers'
    BY <1>1, <2>1 DEF OnboardingInv, OwnersOK, IssuedKeys
  <2> QED BY <1>1, <1>4, <1>6, <1>7, <2>1, <2>2, PageIsGone
<1>9. Stranded' \subseteq Stranded
  <2>1. Keyless' \subseteq Keyless \ {c}
    BY <1>1, <1>4 DEF Keyless, ActsFor, IssuedKeys
  <2>2. Adrift \subseteq Adrift' \cup {c}
    BY <1>1, <1>3 DEF Adrift
  <2> QED BY <1>2, <2>1, <2>2 DEF Stranded, Adrift
<1>10. Lost' \subseteq Lost \cup {n}
  BY <1>2, <1>4, <1>5 DEF Lost
<1>11. Reported'
  BY <1>1, <1>2, <1>4, <1>7, <1>9, <1>10, OneMoreReported
<1> QED BY <1>4, <1>8, <1>11 DEF OnboardingInv

\* A request adrift ends: its customer may be left without a key.
LEMMA AdriftEndsStep ==
  ASSUME OnboardingInv, NEW o \in adrift, AdriftEnds(o) PROVE OnboardingInv'
<1>1. /\ UNCHANGED <<customers, owner, revoked, onPage, panel, revoking, past, abandoned>>
      /\ adrift' = adrift \ {o}
  BY DEF AdriftEnds, tables
<1>2. UNCHANGED <<entry, requested, issued, told, failures>>
  BY <1>1 DEF onPage
<1>3. TablesOK'
  BY <1>1, <1>2 DEF OnboardingInv, TablesOK, IssuedKeys
<1>4. IsFiniteSet(adrift') /\ Cardinality(adrift) = Cardinality(adrift') + 1 /\ adrift' \subseteq Unread
  BY <1>1, OneLessAdrift
<1>5. RecordsOK' /\ OwnersOK' /\ PanelOK'
  <2>1. customers' = customers /\ customers \in Nat
    BY <1>1 DEF OnboardingInv, TablesOK
  <2>2. \A q \in adrift' : q.customer \in 0..customers'
    BY <1>1, <2>1 DEF OnboardingInv, OwnersOK, IssuedKeys
  <2> QED BY <1>1, <1>3, <1>4, <2>1, <2>2, PageIsGone DEF IssuedKeys
<1>6. Stranded' \subseteq Stranded \cup {o.customer} /\ Lost' \subseteq Lost
  BY <1>1, <1>2 DEF Stranded, Adrift, Keyless, Lost, IssuedKeys
<1>7. Reported'
  BY <1>1, <1>2, <1>3, <1>4, <1>6, OneMoreReported
<1> QED BY <1>3, <1>5, <1>7 DEF OnboardingInv

\* A revocation adrift takes effect, or does not.
LEMMA AdriftRevocationStep ==
  ASSUME OnboardingInv, NEW k \in revoking, AdriftRevoked(k) \/ AdriftRevocationEnds(k)
  PROVE  OnboardingInv'
<1>1. /\ UNCHANGED <<customers, owner, entry, requested, issued, told, failures, panel,
                     adrift, past, abandoned>>
      /\ revoking' \subseteq revoking
      /\ revoked \subseteq revoked' /\ revoked' \subseteq revoked \cup {k}
  BY DEF AdriftRevoked, AdriftRevocationEnds, onPage, tables
<1>2. TablesOK' /\ RecordsOK' /\ OwnersOK' /\ Reported'
  BY <1>1, PageStays DEF OnboardingInv, RecordsOK
<1>3. PanelOK'
  BY <1>1 DEF OnboardingInv, PanelOK, NoticeIsTrue, IssuedKeys
<1> QED BY <1>2, <1>3 DEF OnboardingInv

----------------------------------------------------------------------------

\* No step breaks the invariant.
LEMMA OnboardingNextInv == OnboardingInv /\ [OnboardingNext]_onboardingVars => OnboardingInv'
<1> SUFFICES ASSUME OnboardingInv, [OnboardingNext]_onboardingVars PROVE OnboardingInv'
  OBVIOUS
<1>1. CASE UNCHANGED onboardingVars
  <2>1. UNCHANGED <<customers, owner, revoked, entry, requested, issued, told, failures, panel,
                    adrift, revoking, past, abandoned>>
    BY <1>1 DEF onboardingVars, onPage, tables, left
  <2>2. TablesOK' /\ RecordsOK' /\ OwnersOK' /\ Reported'
    BY <2>1, PageStays DEF OnboardingInv, RecordsOK
  <2>3. PanelOK'
    BY <2>1, PanelStays DEF IssuedKeys
  <2> QED BY <2>2, <2>3 DEF OnboardingInv
<1>2. CASE Onboard \/ CustomerCreated \/ AskKey \/ KeyCreated \/ Onboarded \/ OnboardFails
  BY <1>2, OnboardStep, CustomerCreatedStep, AskKeyStep, KeyCreatedStep, OnboardedStep,
     OnboardFailsStep
<1>3. ASSUME NEW card \in issued, AskAnother(card) PROVE OnboardingInv'
  BY <1>3, AskAnotherStep
<1>4. ASSUME NEW r \in requested, AnotherCreated(r) \/ AnotherIssued(r) \/ AnotherFails(r)
      PROVE  OnboardingInv'
  BY <1>4, AnotherCreatedStep, AnotherIssuedStep, AnotherFailsStep
<1>5. CASE \/ \E k \in 1..MaxIssued : AskRevocation(k)
           \/ ServerRevokes \/ Revoked \/ RevokeFails
  BY <1>5, PanelStep
<1>6. CASE LeavePage
  BY <1>6, LeavePageStep
<1>7. ASSUME NEW o \in adrift, AdriftCreated(o) \/ AdriftIssued(o) \/ AdriftEnds(o)
      PROVE  OnboardingInv'
  BY <1>7, AdriftCreatedStep, AdriftIssuedStep, AdriftEndsStep
<1>8. ASSUME NEW k \in revoking, AdriftRevoked(k) \/ AdriftRevocationEnds(k)
      PROVE  OnboardingInv'
  BY <1>8, AdriftRevocationStep
<1> QED BY <1>1, <1>2, <1>3, <1>4, <1>5, <1>6, <1>7, <1>8 DEF OnboardingNext

\* What is stranded or lost, and what is still under way, is all that is left
\* over.
LEMMA LeftoversAreCounted == OnboardingInv => LeftoversAreExplained
<1> SUFFICES ASSUME OnboardingInv PROVE LeftoversAreExplained
  OBVIOUS
<1> DEFINE mine   == IF entry.at \in {"created", "issuing"} THEN {entry.customer} ELSE {}
           myKey  == IF entry.at = "issued" THEN {entry.key} ELSE {}
           theirs == {r.key : r \in requested}
           untold == IssuedKeys \ told
           busy   == IF entry.at = "idle" THEN 0 ELSE 1
           later  == Adrift
<1>1. /\ IsFiniteSet(Stranded) /\ IsFiniteSet(Lost)
      /\ Cardinality(Stranded) \in Nat /\ Cardinality(Lost) \in Nat
  BY LeftoversAreFinite DEF OnboardingInv
<1>2. IsFiniteSet(theirs) /\ Cardinality(theirs) <= Cardinality(requested)
  <2>1. PICK f : f = [r \in requested |-> r.key]
    OBVIOUS
  <2>2. f \in Surjection(requested, theirs)
    BY <2>1 DEF Surjection
  <2>3. IsFiniteSet(requested)
    BY DEF OnboardingInv, RecordsOK
  <2> HIDE DEF theirs
  <2> QED BY <2>2, <2>3, FS_Surjection
<1>3. /\ IsFiniteSet(mine) /\ IsFiniteSet(myKey)
      /\ Cardinality(mine) \in Nat /\ Cardinality(myKey) \in Nat
      /\ Cardinality(mine) + Cardinality(myKey) <= busy
  <2>1. /\ IsFiniteSet({}) /\ Cardinality({}) = 0
        /\ \A x : IsFiniteSet({x}) /\ Cardinality({x}) = 1
    BY FS_EmptySet, FS_Singleton
  <2>2. CASE entry.at \in {"created", "issuing"}
    <3>1. mine = {entry.customer} /\ myKey = {} /\ busy = 1
      BY <2>2
    <3> HIDE DEF mine, myKey, busy
    <3>2. IsFiniteSet(mine) /\ Cardinality(mine) = 1
      BY <2>1, <3>1
    <3>3. IsFiniteSet(myKey) /\ Cardinality(myKey) = 0
      BY <2>1, <3>1
    <3> QED BY <3>1, <3>2, <3>3
  <2>3. CASE entry.at = "issued"
    <3>1. mine = {} /\ myKey = {entry.key} /\ busy = 1
      BY <2>3
    <3> HIDE DEF mine, myKey, busy
    <3>2. IsFiniteSet(mine) /\ Cardinality(mine) = 0
      BY <2>1, <3>1
    <3>3. IsFiniteSet(myKey) /\ Cardinality(myKey) = 1
      BY <2>1, <3>1
    <3> QED BY <3>1, <3>2, <3>3
  <2>4. CASE entry.at \notin {"created", "issuing", "issued"}
    <3>1. mine = {} /\ myKey = {} /\ busy \in {0, 1}
      BY <2>4
    <3> HIDE DEF mine, myKey, busy
    <3>2. IsFiniteSet(mine) /\ Cardinality(mine) = 0
      BY <2>1, <3>1
    <3>3. IsFiniteSet(myKey) /\ Cardinality(myKey) = 0
      BY <2>1, <3>1
    <3> QED BY <3>1, <3>2, <3>3
  <2> QED BY <2>2, <2>3, <2>4
<1>4. IsFiniteSet(later) /\ Cardinality(later) <= Cardinality(adrift)
  <2>1. PICK f : f = [o \in adrift |-> o.customer]
    OBVIOUS
  <2>2. f \in Surjection(adrift, later)
    BY <2>1 DEF Surjection, Adrift
  <2>3. IsFiniteSet(adrift)
    BY DEF OnboardingInv, RecordsOK
  <2> HIDE DEF later
  <2> QED BY <2>2, <2>3, FS_Surjection
<1>5. Cardinality(later) \in Nat /\ Cardinality(adrift) \in Nat
  BY <1>4, FS_CardinalityType DEF OnboardingInv, RecordsOK
<1>6. /\ Cardinality(Keyless) \in Nat
      /\ Cardinality(Keyless) <= Cardinality(Stranded) + Cardinality(mine) + Cardinality(later)
  <2>1. Keyless \subseteq Stranded \cup (mine \cup later)
    BY DEF Stranded, Adrift
  <2> HIDE DEF mine, later
  <2>2. /\ IsFiniteSet(mine \cup later) /\ Cardinality(mine \cup later) \in Nat
        /\ Cardinality(mine \cup later) <= Cardinality(mine) + Cardinality(later)
    BY <1>3, <1>4, CountUnion
  <2>3. /\ IsFiniteSet(Stranded \cup (mine \cup later))
        /\ Cardinality(Stranded \cup (mine \cup later)) \in Nat
        /\ Cardinality(Stranded \cup (mine \cup later)) <= Cardinality(Stranded) + Cardinality(mine \cup later)
    BY <1>1, <2>2, CountUnion
  <2>4. Cardinality(Keyless) \in Nat /\ Cardinality(Keyless) <= Cardinality(Stranded \cup (mine \cup later))
    BY <2>1, <2>3, CountSubset
  <2> QED BY <1>1, <1>3, <1>5, <2>2, <2>3, <2>4
<1>7. /\ Cardinality(untold) \in Nat
      /\ Cardinality(untold) <= Cardinality(Lost) + Cardinality(myKey) + Cardinality(theirs)
      /\ Cardinality(theirs) \in Nat
  <2>1. untold \subseteq Lost \cup (myKey \cup theirs)
    BY DEF Lost
  <2> HIDE DEF untold, myKey, theirs
  <2>2. /\ IsFiniteSet(myKey \cup theirs)
        /\ Cardinality(theirs) \in Nat /\ Cardinality(myKey \cup theirs) \in Nat
        /\ Cardinality(myKey \cup theirs) <= Cardinality(myKey) + Cardinality(theirs)
    BY <1>2, <1>3, CountUnion
  <2>3. /\ IsFiniteSet(Lost \cup (myKey \cup theirs))
        /\ Cardinality(Lost \cup (myKey \cup theirs)) \in Nat
        /\ Cardinality(Lost \cup (myKey \cup theirs)) <= Cardinality(Lost) + Cardinality(myKey \cup theirs)
    BY <1>1, <2>2, CountUnion
  <2>4. /\ Cardinality(untold) \in Nat
        /\ Cardinality(untold) <= Cardinality(Lost \cup (myKey \cup theirs))
    BY <2>1, <2>3, CountSubset
  <2> QED BY <1>1, <1>3, <2>2, <2>3, <2>4
<1>8. /\ failures \in Nat /\ abandoned \in Nat /\ Cardinality(requested) \in Nat /\ busy \in Nat
      /\ Cardinality(Stranded) + Cardinality(Lost) + Cardinality(adrift) <= failures + abandoned
  BY FS_CardinalityType DEF OnboardingInv, TablesOK, RecordsOK, Reported
<1>9. Cardinality(Keyless) + Cardinality(untold) <= failures + (busy + Cardinality(requested)) + abandoned
  <2> HIDE DEF untold, myKey, theirs, mine, busy, later
  <2> QED BY <1>1, <1>2, <1>3, <1>4, <1>5, <1>6, <1>7, <1>8
<1> QED BY <1>9 DEF LeftoversAreExplained, Keyless, UnderWay

\* A key whose answer came to its page is on the card of its customer, or was.
LEMMA AnswersAreShown == OnboardingInv => AnsweredKeysAreShown
BY DEF OnboardingInv, OwnersOK, ActsFor, AnsweredKeysAreShown, IssuedKeys

\* The inductive invariant of the administrator's page.
THEOREM OnboardingInvariant == OnboardingSpec => []OnboardingInv
BY OnboardingInitInv, OnboardingNextInv, PTL DEF OnboardingSpec

\* Admin.tsx: whatever fails between its requests, however many are under way and
\* whenever the page is left, every key answered to its page is shown for its
\* customer, what is left over is no more than the failures reported and the
\* requests that were under way when their page was left, and a key said to be
\* revoked is.
THEOREM KeysAccountedFor == OnboardingSpec => []KeysAreAccountedFor
<1>1. OnboardingInv => KeysAreAccountedFor
  BY LeftoversAreCounted, AnswersAreShown
     DEF OnboardingInv, PanelOK, KeysAreAccountedFor
<1> QED BY <1>1, OnboardingInvariant, PTL

\* Type correctness of the tables and of the page.
THEOREM OnboardingTypeCorrect == OnboardingSpec => []OnboardingTypeOK
<1>1. OnboardingInv => OnboardingTypeOK
  <2> SUFFICES ASSUME OnboardingInv PROVE OnboardingTypeOK
    OBVIOUS
  <2>1. told \subseteq IssuedKeys /\ past \subseteq told
    BY DEF OnboardingInv, OwnersOK, ActsFor, IssuedKeys
  <2>2. \A card \in issued : card.key \in IssuedKeys /\ card.customer \in 1..customers
    BY DEF OnboardingInv, OwnersOK, ActsFor, IssuedKeys, TablesOK
  <2>3. panel.sent \in 0..MaxIssued
    BY DEF OnboardingInv, RecordsOK, PanelState
  <2> QED BY <2>1, <2>2, <2>3
          DEF OnboardingInv, TablesOK, OwnersOK, PanelOK, OnboardingTypeOK
<1> QED BY <1>1, OnboardingInvariant, PTL

----------------------------------------------------------------------------
(***************************************************************************)
(* The whole client.                                                       *)
(*                                                                         *)
(* A step of the client is a step of each part or leaves that part alone,  *)
(* so the client is each of its parts, and what was proved of one holds of *)
(* all of them at once.  Which of the two forms moves is settled by a      *)
(* variable, so theirs is the inductive invariant and not the theorem.     *)
(***************************************************************************)

LEMMA ClientInit ==
  Init => FormInit /\ SessionInit /\ LoaderInit /\ HistoryInit /\ OnboardingInit
BY DEF Init

LEMMA FormMoves == FormInv /\ [Next]_vars => FormInv'
<1>. SUFFICES ASSUME FormInv, [Next]_vars PROVE FormInv'
  OBVIOUS
<1>1. [FormNext(part)]_formVars
  BY DEF Next, vars
<1>. QED BY <1>1, FormNextInv

LEMMA PartsMove ==
  [Next]_vars => /\ [SessionNext]_sessionVars /\ [LoaderNext]_loaderVars
                       /\ [HistoryNext]_historyVars /\ [OnboardingNext]_onboardingVars
BY DEF Next, vars

LEMMA ClientIsItsParts ==
  Spec => SessionSpec /\ LoaderSpec /\ HistorySpec /\ OnboardingSpec
BY ClientInit, PartsMove, PTL DEF Spec, SessionSpec, LoaderSpec, HistorySpec, OnboardingSpec

LEMMA ClientForms == Spec => []FormInv
BY ClientInit, FormInitInv, FormMoves, PTL DEF Spec

\* Type correctness of the web client.
THEOREM ClientTypeCorrect == Spec => []TypeOK
<1>1. FormInv => FormTypeOK
  BY DEF FormInv
<1>2. FormTypeOK /\ SessionTypeOK /\ LoaderTypeOK /\ HistoryTypeOK /\ OnboardingTypeOK => TypeOK
  BY DEF TypeOK
<1>. QED BY <1>1, <1>2, ClientIsItsParts, ClientForms, SessionTypeCorrect, LoaderTypeCorrect,
            HistoryTypeCorrect, OnboardingTypeCorrect, PTL

\* The web client: it pays as intended, nothing shown is older than what was asked
\* for, keys shown once are accounted for, and credentials are earned.
THEOREM ClientIsSound ==
  Spec => /\ [](PaysAsIntended /\ ShownIsNoOlderThanAsked /\ PagesFollow /\ KeysAreAccountedFor)
          /\ CredentialsAreEarned
BY ClientIsItsParts, ClientForms, PaymentsOfInv, ShownIsFresh, HistoryFollows, KeysAccountedFor,
   KeysAreEarned, PTL
=============================================================================
