------------------------------- MODULE Loader -------------------------------
(***************************************************************************)
(* useAsync of the web client: each view asks the server when it mounts    *)
(* and whenever it is reloaded, and an effect's cleanup cancels the        *)
(* request before it.  The views are the balance and the accounts of       *)
(* AccountDetail.tsx and Dashboard.tsx, Metrics of Admin.tsx, and the      *)
(* HealthBadge of Layout.tsx, which reloads itself every ten seconds.      *)
(* The server's state is a number that grows; an answer is what it was     *)
(* when the request was served.                                            *)
(***************************************************************************)
EXTENDS Integers, FiniteSets

CONSTANTS
  Views,
  Timed,    \* views that reload themselves on an interval (HealthBadge)
  Slow,     \* whether a request may take longer than the interval
  MaxLoads, \* bound on a view's requests in flight
  MaxNow    \* bound on the changes of the server's state

ASSUME LoaderAssumption ==
  /\ Timed \subseteq Views
  /\ Slow \in BOOLEAN
  /\ MaxLoads \in Nat \ {0} /\ MaxNow \in Nat

Nothing == -1  \* no data, an error, or no answer yet

VARIABLES
  now,    \* the server's state
  shown,  \* [Views -> [data, failed, loading]]
  loads,  \* [Views -> the requests in flight]
  askedAt \* history: [Views -> the server's state at the last reload]

loaderVars == <<now, shown, loads, askedAt>>

Answers == 0..MaxNow \cup {Nothing}
Load == [id : 1..MaxLoads, current : BOOLEAN, served : BOOLEAN, answer : Answers]

NewLoad(id) == [id |-> id, current |-> TRUE, served |-> FALSE, answer |-> Nothing]
Cancelled(c) == [c EXCEPT !.current = FALSE]

LoaderInit ==
  /\ now = 0
  /\ shown = [v \in Views |-> [data |-> Nothing, failed |-> FALSE, loading |-> TRUE]]
  /\ loads = [v \in Views |-> {NewLoad(1)}]
  /\ askedAt = [v \in Views |-> 0]

\* Mutant: an effect without a cleanup.
ReloadUncancelled(v) ==
  \E id \in 1..MaxLoads \ {c.id : c \in loads[v]} :
    /\ loads' = [loads EXCEPT ![v] = @ \cup {NewLoad(id)}]
    /\ shown' = [shown EXCEPT ![v].loading = TRUE]
    /\ askedAt' = [askedAt EXCEPT ![v] = now]
    /\ UNCHANGED now

\* The cleanup of the last effect, then the effect; the old data stays shown.
Reload(v) ==
  \E id \in 1..MaxLoads \ {c.id : c \in loads[v]} :
    /\ loads' = [loads EXCEPT ![v] = {Cancelled(c) : c \in @} \cup {NewLoad(id)}]
    /\ shown' = [shown EXCEPT ![v].loading = TRUE]
    /\ askedAt' = [askedAt EXCEPT ![v] = now]
    /\ UNCHANGED now

\* Refresh, onSent, a created account.
UserReloads(v) == v \notin Timed /\ Reload(v)

\* setInterval(reload, 10_000)
Tick(v) ==
  /\ v \in Timed
  /\ Slow \/ \A c \in loads[v] : ~c.current
  /\ Reload(v)

ServerMoves == now < MaxNow /\ now' = now + 1 /\ UNCHANGED <<shown, loads, askedAt>>

\* The server or the network settles a request: with its state, or an error.
Serve(v, c) ==
  /\ ~c.served
  /\ \E a \in {now, Nothing} :
       loads' = [loads EXCEPT ![v] = (@ \ {c}) \cup {[c EXCEPT !.served = TRUE, !.answer = a]}]
  /\ UNCHANGED <<now, shown, askedAt>>

\* Mutant: a rejected promise leaves loading as it was.
SettledStillLoading(v, a) ==
  IF a = Nothing THEN [shown[v] EXCEPT !.failed = TRUE, !.data = Nothing]
  ELSE [data |-> a, failed |-> FALSE, loading |-> FALSE]

Settled(v, a) ==
  IF a = Nothing THEN [data |-> Nothing, failed |-> TRUE, loading |-> FALSE]
  ELSE [data |-> a, failed |-> FALSE, loading |-> FALSE]

Receive(v, c) ==
  /\ c.served
  /\ loads' = [loads EXCEPT ![v] = @ \ {c}]
  /\ shown' = IF c.current THEN [shown EXCEPT ![v] = Settled(v, c.answer)] ELSE shown
  /\ UNCHANGED <<now, askedAt>>

LoaderProgress(v) == \E c \in loads[v] : Serve(v, c) \/ Receive(v, c)

LoaderNext ==
  \/ ServerMoves
  \/ \E v \in Views : UserReloads(v) \/ Tick(v) \/ LoaderProgress(v)

LoaderSpec == LoaderInit /\ [][LoaderNext]_loaderVars

\* The browser's network stack settles every request.
LoaderFairSpec == LoaderSpec /\ \A v \in Views : WF_loaderVars(LoaderProgress(v))

----------------------------------------------------------------------------
(* Properties *)

LoaderTypeOK ==
  /\ now \in 0..MaxNow
  /\ shown \in [Views -> [data : Answers, failed : BOOLEAN, loading : BOOLEAN]]
  /\ loads \in [Views -> SUBSET Load]
  /\ askedAt \in [Views -> 0..MaxNow]
  /\ \A v \in Views : shown[v].loading => \E c \in loads[v] : c.current

\* Once a view stops loading it shows what the server said after the user last
\* asked: an answer to an earlier question never replaces it, however late it
\* arrives.
ShownIsNoOlderThanAsked ==
  \A v \in Views :
    ~shown[v].loading /\ ~shown[v].failed => shown[v].data >= askedAt[v]

\* "Loading" ends unless the user keeps reloading, and "checking..." of the
\* badge too, as long as an answer takes less than the badge's interval.
ViewsSettle ==
  \A v \in Views : []<>(~shown[v].loading) \/ []<><<UserReloads(v)>>_loaderVars
=============================================================================
