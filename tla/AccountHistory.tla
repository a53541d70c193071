--------------------------- MODULE AccountHistory ---------------------------
(***************************************************************************)
(* The "Ledger history" card of AccountDetail.tsx: page after page of an   *)
(* account's entries, oldest first, restarted with the first page whenever *)
(* a payment was sent.  The effect that loads the first page cancels the   *)
(* one before it; loadMore is cancelled by nobody.  Entries are numbered   *)
(* in the order the server lists them; a cursor is the last number of its  *)
(* page (see Pagination for what the cursor means to the server).          *)
(***************************************************************************)
EXTENDS Integers, Sequences, FiniteSets

CONSTANTS
  PageSize,       \* limit of listEntries
  MaxEntries,     \* bound on the entries of the account
  MaxReloads,     \* bound on the payments sent from this page
  MaxPageRequests \* bound on the requests in flight

ASSUME AccountHistoryAssumption ==
  /\ PageSize \in Nat \ {0} /\ MaxPageRequests \in Nat \ {0}
  /\ MaxEntries \in Nat /\ MaxReloads \in Nat

NoCursor       == 0 \* nextCursor null; a first page is asked for without a cursor
NoHistoryError == -1

VARIABLES
  count,        \* entries the account has
  version,      \* number of reloads, the effect's dependency
  entries,      \* the pages shown: [from, upto, version of the request]
  cursor, loading,
  historyError, \* the version of the failed request whose error is shown, or NoHistoryError
  pageRequests, \* requests in flight
  askedCount    \* history: count when the current version was asked for

historyVars == <<count, version, entries, cursor, loading, historyError, pageRequests, askedCount>>

Smaller(a, b) == IF a < b THEN a ELSE b

Page(from, version_) ==
  [from |-> from, upto |-> Smaller(count, from + PageSize), version |-> version_]

Unserved == [from |-> 0, upto |-> 0, version |-> -1]

PageRequest(kind, from) ==
  [kind |-> kind, from |-> from, version |-> version', status |-> "sent",
   page |-> Unserved, next |-> NoCursor]

HistoryInit ==
  /\ count \in 0..MaxEntries /\ askedCount = count
  /\ version = 0 /\ entries = <<>> /\ cursor = NoCursor
  /\ loading = TRUE /\ historyError = NoHistoryError
  /\ pageRequests = {[kind |-> "first", from |-> 0, version |-> 0, status |-> "sent",
               page |-> Unserved, next |-> NoCursor]}

AddEntry ==
  /\ count < MaxEntries /\ count' = count + 1
  /\ UNCHANGED <<version, entries, cursor, loading, historyError, pageRequests, askedCount>>

\* onSent: the effect runs again; its predecessor's answer will be ignored.
ReloadHistory ==
  /\ version < MaxReloads /\ Cardinality(pageRequests) < MaxPageRequests
  /\ version' = version + 1
  /\ loading' = TRUE /\ historyError' = NoHistoryError
  /\ pageRequests' = pageRequests \cup {PageRequest("first", 0)}
  /\ askedCount' = count
  /\ UNCHANGED <<count, entries, cursor>>

LoadMore ==
  /\ cursor # NoCursor /\ ~loading /\ Cardinality(pageRequests) < MaxPageRequests
  /\ UNCHANGED version
  /\ loading' = TRUE /\ historyError' = NoHistoryError
  /\ pageRequests' = pageRequests \cup {PageRequest("more", cursor)}
  /\ UNCHANGED <<count, entries, cursor, askedCount>>

\* The server lists one entry more than the page holds to know whether there
\* is a next page.
ServePage(c) ==
  /\ c.status = "sent"
  /\ LET page == Page(c.from, c.version)
     IN  pageRequests' = (pageRequests \ {c}) \cup
                  {[c EXCEPT !.status = "served", !.page = page,
                             !.next = IF page.upto < count THEN page.upto ELSE NoCursor]}
  /\ UNCHANGED <<count, version, entries, cursor, loading, historyError, askedCount>>

Break(c) ==
  /\ c.status = "sent"
  /\ pageRequests' = (pageRequests \ {c}) \cup {[c EXCEPT !.status = "failed"]}
  /\ UNCHANGED <<count, version, entries, cursor, loading, historyError, askedCount>>

\* Mutant: the effect without its cancelled flag.
ShowFirstUncancelled(c) ==
  /\ entries' = <<c.page>> /\ cursor' = c.next /\ loading' = FALSE
  /\ UNCHANGED historyError

ShowFirst(c) ==
  IF c.version = version
  THEN /\ entries' = <<c.page>> /\ cursor' = c.next /\ loading' = FALSE
       /\ UNCHANGED historyError
  ELSE UNCHANGED <<entries, cursor, loading, historyError>>

FirstFails(c) ==
  IF c.version = version
  THEN historyError' = c.version /\ loading' = FALSE /\ UNCHANGED <<entries, cursor>>
  ELSE UNCHANGED <<entries, cursor, loading, historyError>>

ShowMore(c) ==
  /\ entries' = Append(entries, c.page) /\ cursor' = c.next /\ loading' = FALSE
  /\ UNCHANGED historyError

\* Mutant: loadMore without its finally.
MoreFailsStillLoading(c) == historyError' = c.version /\ UNCHANGED <<entries, cursor, loading>>

MoreFails(c) == historyError' = c.version /\ loading' = FALSE /\ UNCHANGED <<entries, cursor>>

TakePage(c) ==
  /\ c.status # "sent"
  /\ pageRequests' = pageRequests \ {c}
  /\ CASE c.kind = "first" /\ c.status = "served" -> ShowFirst(c)
       [] c.kind = "first" /\ c.status = "failed" -> FirstFails(c)
       [] c.kind = "more"  /\ c.status = "served" -> ShowMore(c)
       [] c.kind = "more"  /\ c.status = "failed" -> MoreFails(c)
  /\ UNCHANGED <<count, version, askedCount>>

HistoryProgress(c) == ServePage(c) \/ Break(c) \/ TakePage(c)

HistoryNext ==
  \/ AddEntry \/ ReloadHistory \/ LoadMore
  \/ \E c \in pageRequests : HistoryProgress(c)

HistorySpec == HistoryInit /\ [][HistoryNext]_historyVars

\* The browser's network stack settles every request.
HistoryFairSpec == HistorySpec /\ WF_historyVars(\E c \in pageRequests : HistoryProgress(c))

----------------------------------------------------------------------------
(* Properties *)

Pages == [from : 0..MaxEntries, upto : 0..MaxEntries, version : -1..MaxReloads]

HistoryTypeOK ==
  /\ count \in 0..MaxEntries /\ askedCount \in 0..count
  /\ version \in 0..MaxReloads
  /\ entries \in Seq(Pages)
  /\ cursor \in 0..MaxEntries /\ loading \in BOOLEAN
  /\ historyError \in {NoHistoryError} \cup 0..MaxReloads
  /\ \A c \in pageRequests : c.page \in Pages /\ c.version \in 0..version
  /\ ~loading => (entries # <<>> \/ historyError # NoHistoryError)

\* After a payment the first page is read again: once nothing is pending, the
\* entries there were when it was sent are on screen, up to a page, and no
\* late answer to an earlier reload has replaced them.
FirstPageIsFresh ==
  pageRequests = {} /\ entries # <<>> /\ historyError = NoHistoryError =>
    /\ entries[1].from = 0
    /\ entries[1].upto >= Smaller(askedCount, PageSize)

\* "Load more entries" continues where the last page on screen ends.
NextPageContinues ==
  cursor # NoCursor => entries # <<>> /\ entries[Len(entries)].upto = cursor

\* "Loading" ends: also when answers fail, are cancelled, or overtake.
HistorySettles == loading ~> ~loading

\* History: reloads and further pages that overtake each other leave the first
\* page up to date and the cursor at the end of the last one.
PagesFollow == FirstPageIsFresh /\ NextPageContinues
=============================================================================
