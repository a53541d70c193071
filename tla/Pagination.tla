----------------------------- MODULE Pagination -----------------------------
(***************************************************************************)
(* Keyset pagination of journal entries and of owned accounts: pages in    *)
(* the order of (created_at, id), each asked for behind the last row of    *)
(* the one before, while transactions commit.  created_at is now(), the    *)
(* time the inserting transaction began, so rows become visible in another *)
(* order than the one they are listed in.  The client walks the pages      *)
(* until there is no cursor, or its own bound is reached (listAccounts).   *)
(***************************************************************************)
EXTENDS Integers, FiniteSets, Sequences

CONSTANTS
  Ids,       \* row ids, one transaction each; numbers, for their order
  MaxTime,   \* bounds the clock
  DefaultLimit, MaxLimit,
  Requested, \* limits a caller may ask for; 0 stands for none or nonsense
  MaxPages   \* pages the client reads at most

ASSUME PaginationAssumption ==
  /\ Ids \subseteq Nat /\ MaxTime \in Nat /\ MaxPages \in Nat \ {0}
  /\ MaxLimit \in Nat /\ DefaultLimit \in 1..MaxLimit /\ Requested \subseteq Nat

Never == -1

VARIABLES
  clock,
  began,   \* [Ids -> time its transaction began, or Never]
  visible, \* ids of visible rows
  limit, cursor, pages,
  at,      \* "idle", "walking", "complete", "bounded", "refused"
  old      \* history: rows visible when the walk began

rows == <<clock, began, visible>>
walk == <<limit, cursor, pages, at, old>>
paginationVars == <<rows, walk>>

NoCursor  == [createdAt |-> Never, id |-> 0]
Malformed == [createdAt |-> Never, id |-> -1]

Key(i) == [createdAt |-> began[i], id |-> i]

Less(a, b) ==
  a.createdAt < b.createdAt \/ (a.createdAt = b.createdAt /\ a.id < b.id)

PaginationInit ==
  /\ clock = 0 /\ began = [i \in Ids |-> Never] /\ visible = {}
  /\ limit = DefaultLimit /\ cursor = NoCursor /\ pages = <<>>
  /\ at = "idle" /\ old = {}

Tick == clock < MaxTime /\ clock' = clock + 1 /\ UNCHANGED <<began, visible, walk>>

BeginRow(i) ==
  /\ began[i] = Never
  /\ began' = [began EXCEPT ![i] = clock]
  /\ UNCHANGED <<clock, visible, walk>>

CommitRow(i) ==
  /\ began[i] # Never /\ i \notin visible
  /\ visible' = visible \cup {i}
  /\ UNCHANGED <<clock, began, walk>>

\* resolveLimit, and the clamp of AccountService.listOwned.
ResolveLimit(requested) ==
  IF requested < 1 THEN DefaultLimit
  ELSE IF requested < MaxLimit THEN requested ELSE MaxLimit

StartWalk(requested) ==
  /\ at # "walking"
  /\ limit' = ResolveLimit(requested)
  /\ cursor' = NoCursor /\ pages' = <<>> /\ at' = "walking"
  /\ old' = visible
  /\ UNCHANGED rows

\* Mutant: a cursor that went through a Date and lost its microseconds.
EncodeMilliseconds(i) == [createdAt |-> (began[i] \div 2) * 2, id |-> i]

EncodeCursor(i) == Key(i)

\* INVALID_CURSOR unless it decodes to a date and a uuid.  (Another cursor of
\* that form, which no page carried, is accepted, and not modelled.)
Decodes(c) == c # Malformed

Behind(c) == {i \in visible : Less(c, Key(i))}

\* ORDER BY created_at, id LIMIT n
First(n, S) == {i \in S : Cardinality({j \in S : Less(Key(j), Key(i))}) < n}

LastOf(S) == CHOOSE i \in S : \A j \in S : i = j \/ Less(Key(j), Key(i))

\* One row more than the page is fetched to learn whether there is a next.
HasMore(S, n) == Cardinality(S) > n

GivesUp(n) == n >= MaxPages

ReadPage ==
  /\ at = "walking" /\ Decodes(cursor)
  /\ LET fetched == First(limit + 1, Behind(cursor))
         page    == First(limit, fetched)
         more    == HasMore(fetched, limit)
     IN  /\ pages' = Append(pages, page)
         /\ cursor' = IF more THEN EncodeCursor(LastOf(page)) ELSE NoCursor
         /\ at' = IF ~more THEN "complete"
                  ELSE IF GivesUp(Len(pages) + 1) THEN "bounded" ELSE "walking"
  /\ UNCHANGED <<rows, limit, old>>

\* A caller may present anything as a cursor.
Tamper ==
  /\ at = "walking" /\ cursor # NoCursor
  /\ cursor' = Malformed
  /\ UNCHANGED <<rows, limit, pages, at, old>>

RefuseCursor ==
  /\ at = "walking" /\ ~Decodes(cursor)
  /\ at' = "refused"
  /\ UNCHANGED <<rows, limit, cursor, pages, old>>

PaginationNext ==
  \/ Tick
  \/ \E i \in Ids : BeginRow(i) \/ CommitRow(i)
  \/ \E requested \in Requested : StartWalk(requested)
  \/ ReadPage \/ Tamper \/ RefuseCursor

PaginationSpec == PaginationInit /\ [][PaginationNext]_paginationVars

----------------------------------------------------------------------------
(* Properties *)

Seen == UNION {pages[n] : n \in DOMAIN pages}

PaginationTypeOK ==
  /\ clock \in 0..MaxTime
  /\ began \in [Ids -> -1..MaxTime] /\ \A i \in Ids : began[i] <= clock
  /\ visible \subseteq {i \in Ids : began[i] # Never}
  /\ limit \in 1..MaxLimit
  /\ cursor \in [createdAt : -1..MaxTime, id : Ids \cup {0, -1}]
  /\ pages \in Seq(SUBSET visible) /\ \A n \in DOMAIN pages : Cardinality(pages[n]) <= limit
  /\ Len(pages) <= MaxPages
  /\ at \in {"idle", "walking", "complete", "bounded", "refused"}
  /\ old \subseteq visible

\* No row is listed twice and none out of order, across the pages of a walk
\* and whatever commits between them.
OnceInOrder ==
  \A m, n \in DOMAIN pages : m < n =>
    \A i \in pages[m], j \in pages[n] : Less(Key(i), Key(j))

\* A walk that ends without a cursor has listed every row there was when it
\* began.
OldRowsListed == at = "complete" => old \subseteq Seen

\* API.md: "a long list is never silently cut short".  Only the client's own
\* bound ends a walk early, and only after that many full pages.
NeverCutShort ==
  at = "bounded" => Len(pages) = MaxPages /\ Cardinality(Seen) = MaxPages * limit

\* A walk lists each row once, in order, every row there was when it began
\* among them, and says so when it stops short.
WalkIsComplete == OnceInOrder /\ OldRowsListed /\ NeverCutShort
=============================================================================
