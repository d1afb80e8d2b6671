----------------------------- MODULE ListPaging -----------------------------
(***************************************************************************)
(* Reading a whole list page by page: the limits, offsets and ends of the  *)
(* list endpoints (src/routes/issues.ts, src/routes/events.ts,             *)
(* src/routes/orgs.ts, src/services/auditService.ts) and of the GitHub     *)
(* client that follows Link headers (src/github.ts).  The endpoints list   *)
(* the newest row first and count the rows in a query of its own, so rows  *)
(* inserted in between shift the pages; an issue that no longer matches    *)
(* the organisation, status or text of the filter leaves its list.         *)
(***************************************************************************)
EXTENDS Integers, FiniteSets

CONSTANTS
  PgRows,      \* rows of a table when the walk begins, at most
  PgInserts,   \* rows inserted during the walk, at most
  PgLeaves,    \* rows that leave the list during the walk, at most
  PgAsked,     \* page sizes a client may ask for
  PgDefault,   \* page size of issues when none is asked for
  PgCap        \* the endpoints' upper bound of a page

ASSUME PgAssumption == /\ {PgRows, PgInserts, PgLeaves} \subseteq Nat /\ PgAsked \subseteq Nat
                       /\ {PgCap, PgDefault} \subseteq Nat \ {0}

VARIABLES
  pgList,    \* the endpoint
  pgFirst,   \* rows of its table when the walk began
  pgTotal,   \* rows by now, those that left included: 1 is the oldest
  pgPos,     \* position of each row in the list, the newest is at 1; 0 when it left
  pgLeft,    \* rows that left the list
  pgPull,    \* GitHub only: the item that is a pull request, or 0
  pgAsk,     \* page size the client asks for
  pgPage,    \* page to be asked for next
  pgCount,   \* the request under way: -1 before its count, then the count
  pgRaced,   \* history: rows inserted between a count and its rows
  pgSeen,    \* rows received
  pgMore     \* whether the client goes on

pgVars == <<pgList, pgFirst, pgTotal, pgPos, pgLeft, pgPull, pgAsk, pgPage, pgCount, pgRaced, pgSeen, pgMore>>

PgMin(a, b) == IF a < b THEN a ELSE b
PgMax(a, b) == IF a > b THEN a ELSE b
Ceil(a, b) == (a + b - 1) \div b

clampLimit(asked) == PgMin(PgCap, PgMax(1, asked))

\* LIMIT and OFFSET count from the newest row.
pgSlice(offset, limit) == {r \in 1..pgTotal : offset < pgPos[r] /\ pgPos[r] <= offset + limit}

issuesPage(page, asked) ==
  LET limit == clampLimit(IF asked = 0 THEN PgDefault ELSE asked)
  IN [rows |-> pgSlice((page - 1) * limit, limit), more |-> page < Ceil(pgCount, limit)]

hasMore_inclusive(offset, limit) == offset + limit <= pgCount

hasMore_nextPage(offset, limit) == offset + 2 * limit < pgCount

hasMore(offset, limit) == offset + limit < pgCount

eventsPage(page, asked) ==
  LET limit == clampLimit(asked)
      offset == (page - 1) * limit
  IN [rows |-> pgSlice(offset, limit), more |-> hasMore(offset, limit)]

\* The applications of an organisation: a client stops at the total.
applicationsPage(page, asked) ==
  LET limit == clampLimit(asked)
  IN [rows |-> pgSlice((page - 1) * limit, limit), more |-> page * limit < pgCount]

\* getCancellations: the offset counts pages of the size asked for, the page has
\* at most the cap.
auditPage(page, asked) ==
  LET limit == PgMin(asked, PgCap)
  IN [rows |-> pgSlice((page - 1) * asked, limit), more |-> page < Ceil(pgCount, limit)]

\* fetchIssues goes on while GitHub names a next page and this one is full of
\* issues, pull requests left out.
githubPage(page, asked) ==
  LET limit == clampLimit(asked)
      items == pgSlice((page - 1) * limit, limit)
  IN [rows |-> items \ {pgPull}, more |-> page * limit < pgTotal /\ Cardinality(items \ {pgPull}) = limit]

pgAnswer(list, page, asked) ==
  CASE list = "issues" -> issuesPage(page, asked)
    [] list = "events" -> eventsPage(page, asked)
    [] list = "applications" -> applicationsPage(page, asked)
    [] list = "audit" -> auditPage(page, asked)
    [] list = "github" -> githubPage(page, asked)

PgInit == /\ pgList \in {"issues", "events", "applications", "audit", "github"}
          /\ pgFirst \in 0..PgRows /\ pgTotal = pgFirst
          /\ pgPos = [r \in 1..pgFirst |-> pgFirst - r + 1] /\ pgLeft = 0
          /\ pgPull \in IF pgList = "github" THEN 0..pgFirst ELSE {0}
          /\ pgAsk \in {a \in PgAsked : pgList \in {"audit", "github"} => a >= 1}
          /\ pgPage = 1 /\ pgCount = -1 /\ pgRaced = 0
          /\ pgSeen = {} /\ pgMore = TRUE

\* SELECT COUNT(*).
countRows == /\ pgMore /\ pgCount = -1
             /\ pgCount' = pgTotal - pgLeft
             /\ UNCHANGED <<pgList, pgFirst, pgTotal, pgPos, pgLeft, pgPull, pgAsk, pgPage, pgRaced, pgSeen, pgMore>>

\* SELECT ... LIMIT ... OFFSET, and the answer.
readPage ==
  LET a == pgAnswer(pgList, pgPage, pgAsk)
  IN /\ pgCount >= 0
     /\ pgSeen' = pgSeen \cup a.rows
     /\ pgPage' = pgPage + 1 /\ pgCount' = -1
     /\ pgMore' = a.more
     /\ UNCHANGED <<pgList, pgFirst, pgTotal, pgPos, pgLeft, pgPull, pgAsk, pgRaced>>

insertRow == /\ pgList \in {"issues", "events", "audit"}
             /\ pgMore /\ pgTotal < pgFirst + PgInserts
             /\ pgTotal' = pgTotal + 1
             /\ pgPos' = [r \in 1..(pgTotal + 1) |-> IF r = pgTotal + 1 THEN 1
                                                   ELSE IF pgPos[r] = 0 THEN 0 ELSE pgPos[r] + 1]
             /\ pgRaced' = IF pgCount >= 0 THEN pgRaced + 1 ELSE pgRaced
             /\ UNCHANGED <<pgList, pgFirst, pgLeft, pgPull, pgAsk, pgPage, pgCount, pgSeen, pgMore>>

\* An issue is closed or renamed and no longer matches the filter of the list.
rowLeaves(x) == /\ pgList = "issues" /\ pgMore /\ pgLeft < PgLeaves /\ pgPos[x] > 0
                /\ pgPos' = [r \in 1..pgTotal |-> IF r = x THEN 0
                                                ELSE IF pgPos[r] > pgPos[x] THEN pgPos[r] - 1 ELSE pgPos[r]]
                /\ pgLeft' = pgLeft + 1
                /\ UNCHANGED <<pgList, pgFirst, pgTotal, pgPull, pgAsk, pgPage, pgCount, pgRaced, pgSeen, pgMore>>

PgNext == countRows \/ readPage \/ insertRow \/ (\E x \in 1..pgTotal : rowLeaves(x))

-----------------------------------------------------------------------------
\* Type invariant: the walk never asks for more pages than there are rows, but
\* for the one page of an empty table.
PgTypeOK == /\ pgSeen \subseteq 1..pgTotal
            /\ pgPage \in 1..(PgMax(1, pgTotal) + 1) /\ pgCount \in -1..pgTotal

\* A client that reads until the endpoint says there is no more has received the rows
\* that were in the list all along, whatever page size it asked for, with two kinds
\* of exceptions.  Insertions shift rows to later pages, so that rows come twice, and
\* one is missed only when an insertion falls between the count and the rows of one
\* request; a row that leaves shifts the older ones to pages already read, and each
\* costs at most one row.  Nothing is said of audit pages larger than the cap (the
\* offset is not capped with the limit) and of GitHub's pages after one with a pull
\* request.
PgWalkComplete ==
  LET page(r) == (pgTotal - r) \div clampLimit(pgAsk)
      missed == {r \in 1..pgFirst : pgPos[r] > 0} \ (pgSeen \cup {pgPull})
  IN /\ ~pgMore
     /\ pgList = "audit" => pgAsk <= PgCap
     /\ pgList = "github" /\ pgPull > 0 => page(pgPull) = page(1)
     => Cardinality(missed) <= pgRaced + pgLeft
=============================================================================
