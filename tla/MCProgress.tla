---------------------------- MODULE MCProgress -----------------------------
(***************************************************************************)
(* The parts of the system whose progress is in question, for TLC: the     *)
(* processes, and beside them what the pages of the web client load.  page *)
(* says which page moves; where one does, no process does.                 *)
(***************************************************************************)
EXTENDS Processes, Loader, AccountHistory

VARIABLE page

ProgressInit ==
  /\ Init /\ LoaderInit /\ HistoryInit
  /\ page \in {"none", "views", "history"}
  /\ page # "none" => part = "pool"
  /\ page # "history" => count = 0

ProgressNext ==
  \/ page = "none" /\ Next /\ UNCHANGED <<page, loaderVars, historyVars>>
  \/ page = "views" /\ LoaderNext /\ UNCHANGED <<page, vars, historyVars>>
  \/ page = "history" /\ HistoryNext /\ UNCHANGED <<page, vars, loaderVars>>

\* Of the processes, and LoaderFairSpec and HistoryFairSpec, each of its page.
ProgressFairness ==
  /\ Fairness
  /\ \A v \in Views : WF_loaderVars(page = "views" /\ LoaderProgress(v))
  /\ WF_historyVars(page = "history" /\ \E c \in pageRequests : HistoryProgress(c))

ProgressSpec ==
  /\ ProgressInit
  /\ [][ProgressNext]_<<page, vars, loaderVars, historyVars>>
  /\ ProgressFairness

----------------------------------------------------------------------------
\* No page of the web client loads for ever: not a view, unless the user keeps
\* reloading it, and not the history card, whatever fails, is cancelled or
\* overtakes.  (They begin loading: of the page that moves.)
PagesSettle ==
  /\ page = "views" => ViewsSettle
  /\ page = "history" => HistorySettles

\* Whatever begins ends, in the browser and in the processes.
NothingHangs == PagesSettle /\ ProcessesGoOn
=============================================================================
