---------------------------- MODULE PaymentForm ----------------------------
(***************************************************************************)
(* The two forms of the web client that move money, SendMoney of           *)
(* AccountDetail.tsx and Fund of Admin.tsx, against the server's promise   *)
(* for an Idempotency-Key (OneResult).  A form draws one key per intent,   *)
(* keeps it while the answer is unknown, and draws another when the server *)
(* has decided or the user edits.  Requests and answers are lost, overtake *)
(* each other, and are acted on long after the browser gave them up.       *)
(*                                                                         *)
(* An intent is what the user wants paid once: it ends with an edit, a     *)
(* receipt or a new form, and not with an error message.                   *)
(***************************************************************************)
EXTENDS Integers, FiniteSets

CONSTANTS
  Attempts,    \* POSTs of the form, each sent at most once
  Contents,    \* a destination with an amount
  Blank,       \* a form that cannot be submitted
  MaxKeys,     \* bound on the keys drawn, and so on edits and receipts
  Unstored,    \* 4xx answers that leave nothing stored under the key
  NoAttempt,   \* no attempt
  NoResult

ASSUME PaymentFormAssumption ==
  /\ NoAttempt \notin Attempts
  /\ Blank \notin Contents
  /\ MaxKeys \in Nat \ {0}
  /\ Unstored \subseteq {"rejected", "unsettled"}
  /\ NoResult \notin [kind : {"created", "refused"}, by : Attempts]

Keys == 1..MaxKeys

\* The two components; their handlers differ in three lines, and take the page
\* as a parameter there.
Forms == {"SendMoney", "Fund"}

VARIABLES
  form,           \* the fields
  intentKey,      \* intentKey.current; crypto.randomUUID() draws the next number
  intent,         \* history: number of the user's intent
  awaiting,       \* the attempt whose promise is pending; busy is awaiting # NoAttempt
  error,          \* [kind, of]: what the form shows, and for which attempt
  receipt,        \* the attempt whose transfer is shown as sent
  post,           \* [Attempts -> what was sent with it]
  stage,          \* [Attempts -> {"unused", "travelling", "answered"}]
  reply,          \* [Attempts -> the answer on its way back]
  result, charged \* the server, see OneResult

formVars == <<form, intentKey, intent, awaiting, error, receipt, post, stage, reply,
          result, charged>>

Server == INSTANCE OneResult WITH Requests <- Attempts

NoError == [kind |-> "none", of |-> NoAttempt]
Replies == {"none", "created", "refused", "rejected", "unsettled", "retryable", "failed"}

FormInit ==
  /\ form = Blank /\ intentKey = 1 /\ intent = 1
  /\ awaiting = NoAttempt /\ error = NoError /\ receipt = NoAttempt
  /\ post = [a \in Attempts |-> [key |-> 1, content |-> Blank, intent |-> 1]]
  /\ stage = [a \in Attempts |-> "unused"]
  /\ reply = [a \in Attempts |-> "none"]
  /\ Server!Init

NewKey == intentKey < MaxKeys /\ intentKey' = intentKey + 1

----------------------------------------------------------------------------
(* The browser *)

\* The fields are not disabled while a request is pending.  Of the two forms
\* only SendMoney clears its error.
Edit(c, page) ==
  /\ c # form
  /\ NewKey /\ form' = c /\ intent' = intent + 1
  /\ error' = IF page = "SendMoney" THEN NoError ELSE error
  /\ UNCHANGED <<awaiting, receipt, post, stage, reply, result, charged>>

\* Neither button is enabled while a request is pending, nor over fields that
\* name no destination or no amount.
CanSubmit == awaiting = NoAttempt /\ form # Blank

\* Send, Fund and "Retry safely": all read the fields and the key of now.
Submit(a, page) ==
  /\ CanSubmit
  /\ stage[a] = "unused"
  /\ post' = [post EXCEPT ![a] = [key |-> intentKey, content |-> form, intent |-> intent]]
  /\ stage' = [stage EXCEPT ![a] = "travelling"]
  /\ awaiting' = a
  /\ error' = NoError
  /\ receipt' = IF page = "SendMoney" THEN receipt ELSE NoAttempt
  /\ UNCHANGED <<form, intentKey, intent, reply, result, charged>>

\* fetch fails, or the answer is a 5xx: the request may still be carried out.
Lose ==
  /\ awaiting # NoAttempt
  /\ error' = [kind |-> "unknown", of |-> awaiting]
  /\ awaiting' = NoAttempt
  /\ UNCHANGED <<form, intentKey, intent, receipt, post, stage, reply, result, charged>>

Succeed(page) ==
  /\ awaiting # NoAttempt /\ reply[awaiting] = "created"
  /\ receipt' = awaiting
  /\ form' = IF page = "SendMoney" THEN Blank ELSE form
  /\ NewKey /\ intent' = intent + 1
  /\ awaiting' = NoAttempt
  /\ UNCHANGED <<error, post, stage, reply, result, charged>>

\* Mutant: every failed answer is taken for a final one.
IsFinalAnswerEveryError(r) == r \in {"refused", "rejected", "unsettled", "failed", "retryable"}

\* ApiError.isFinalAnswer: any 4xx that is not one of the two retryable codes.
IsFinalAnswer(r) == r \in {"refused", "rejected", "unsettled"}

Fail ==
  /\ awaiting # NoAttempt /\ reply[awaiting] \notin {"none", "created"}
  /\ IF IsFinalAnswer(reply[awaiting]) THEN NewKey ELSE UNCHANGED intentKey
  /\ error' = [kind |-> IF IsFinalAnswer(reply[awaiting]) THEN "final"
                        ELSE IF reply[awaiting] = "retryable" THEN "retryable" ELSE "unknown",
               of |-> awaiting]
  /\ awaiting' = NoAttempt
  /\ UNCHANGED <<form, intent, receipt, post, stage, reply, result, charged>>

\* The form is unmounted (navigation, a failed reload of the account, a page
\* reload) and mounted anew; its pending promise no longer reaches anyone.
Remount ==
  /\ form # Blank \/ awaiting # NoAttempt
  /\ NewKey /\ intent' = intent + 1
  /\ form' = Blank /\ awaiting' = NoAttempt /\ error' = NoError /\ receipt' = NoAttempt
  /\ UNCHANGED <<post, stage, reply, result, charged>>

----------------------------------------------------------------------------
(* The server, which may act on a request nobody awaits any more *)

Answer(a, r) ==
  /\ stage[a] = "travelling"
  /\ stage' = [stage EXCEPT ![a] = "answered"]
  /\ reply' = [reply EXCEPT ![a] = r]
  /\ UNCHANGED <<form, intentKey, intent, awaiting, error, receipt, post>>

Pay(a)    == Server!DecideCreated(post[a].key, a) /\ Answer(a, "created")
Refuse(a) == Server!DecideRefused(post[a].key, a) /\ Answer(a, "refused")

Replay(a) ==
  /\ result[post[a].key] # NoResult
  /\ Answer(a, result[post[a].key].kind)
  /\ UNCHANGED <<result, charged>>

\* 401 and 403 come before the key is looked at; a refusal whose settlement
\* failed is reported although nothing was stored.
AnswerUnstored(a) ==
  /\ \E r \in Unstored :
       /\ r = "unsettled" => result[post[a].key] = NoResult
       /\ Answer(a, r)
  /\ UNCHANGED <<result, charged>>

\* TRANSFER_RETRY_EXHAUSTED, IDEMPOTENCY_IN_PROGRESS, or a 500: rolled back.
RollBack(a) ==
  /\ result[post[a].key] = NoResult
  /\ \E r \in {"retryable", "failed"} : Answer(a, r)
  /\ UNCHANGED <<result, charged>>

FormNext(page) ==
  \/ \E c \in Contents : Edit(c, page)
  \/ \E a \in Attempts : Submit(a, page)
  \/ Lose \/ Succeed(page) \/ Fail \/ Remount
  \/ \E a \in Attempts :
       Pay(a) \/ Refuse(a) \/ Replay(a) \/ AnswerUnstored(a) \/ RollBack(a)

FormSpec(page) == FormInit /\ [][FormNext(page)]_formVars

----------------------------------------------------------------------------
(* Properties *)

Sent == {a \in Attempts : stage[a] # "unused"}

FormTypeOK ==
  /\ form \in Contents \cup {Blank}
  /\ intentKey \in Keys /\ intent \in Nat
  /\ awaiting \in Attempts \cup {NoAttempt}
  /\ error \in [kind : {"none", "unknown", "retryable", "final"}, of : Attempts \cup {NoAttempt}]
  /\ receipt \in {NoAttempt} \cup {a \in Attempts : reply[a] = "created"}
  /\ post \in [Attempts -> [key : Keys, content : Contents \cup {Blank}, intent : Nat]]
  /\ stage \in [Attempts -> {"unused", "travelling", "answered"}]
  /\ reply \in [Attempts -> Replies]
  /\ result \in [Keys -> Server!Results \cup {NoResult}]
  /\ charged \in [Keys -> SUBSET Attempts]

\* A timeout or a 503 is retried without paying twice, whatever the user
\* clicks while the fields stay as they are (AccountDetail.tsx, "One
\* idempotency key per intent").  Only where a 4xx comes from before the key is
\* looked at can the form draw a new key for a request that was carried out.
SecondPaymentFollowsUnstoredAnswer ==
  \A a, b \in Sent :
    /\ a \in charged[post[a].key] /\ b \in charged[post[b].key]
    /\ post[a].intent = post[b].intent /\ a # b
    => \E c \in Sent : post[c].intent = post[a].intent /\ reply[c] \in Unstored

\* A key never travels with two different requests, so the form can never be
\* told IDEMPOTENCY_KEY_CONFLICT nor be answered with another payment.
OneKeyOneRequest ==
  \A a, b \in Sent :
    post[a].key = post[b].key =>
      post[a].content = post[b].content /\ post[a].intent = post[b].intent

\* "Sent" is shown only over a payment that was really made, of the contents
\* that this attempt carried.
ReceiptIsTrue ==
  receipt # NoAttempt =>
    \E p \in charged[post[receipt].key] : post[p].content = post[receipt].content

\* The form never pays what the user did not mean: a click pays an intent at
\* most once but for the one excuse above, a key stands for one request, and
\* "Sent" is true.
PaysAsIntended ==
  OneKeyOneRequest /\ SecondPaymentFollowsUnstoredAnswer /\ ReceiptIsTrue
=============================================================================
