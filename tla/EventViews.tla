----------------------------- MODULE EventViews -----------------------------
(***************************************************************************)
(* The two views of GET /api/events.  The event history table              *)
(* (components/EventHistoryTable.tsx) fetches the events of a contributor, *)
(* or is given them by its parent, and filters, sorts and pages them in    *)
(* the browser; the rows of the API have no event_type and no timestamp    *)
(* (the route names them topic and created_at).  The activity feed         *)
(* (components/ActivityFeed.tsx) is a list that is to grow as the reader   *)
(* scrolls, started anew when the filter changes; it asks for an offset,   *)
(* which the route does not read, and looks for pagination.hasMore, which  *)
(* the route calls has_more: after an answer there is never more to load.  *)
(***************************************************************************)
EXTENDS Integers, Sequences, FiniteSets

(* The event history table. *)

CONSTANTS
  EtLists,      \* lists of events a parent may pass: sequences of [type, ts, pos]
  EtLog,        \* contributor -> number of events the server has
  EtServerCap,  \* largest page of GET /api/events (100)
  EtPageSize,   \* PAGE_SIZE
  EtFilters     \* FILTER_OPTIONS

ASSUME EtAssumption == /\ {EtServerCap, EtPageSize} \subseteq Nat \ {0} /\ "all" \in EtFilters
                       /\ \A s \in EtLists : Len(s) \in Nat /\ DOMAIN s = 1..Len(s)
                       /\ \A who \in DOMAIN EtLog : EtLog[who] \in Nat

VARIABLES
  etInjected,  \* the events come from the parent
  etWho,       \* contributor of the table
  etEvents,    \* the events held
  etLoads,     \* contributors whose request is under way
  etView,      \* loading, error, sort direction, filter, page
  etSeen,      \* history: positions shown since page 1 of the present list
  etWalk       \* history: the reader got here from page 1 with Next only

etVars == <<etInjected, etWho, etEvents, etLoads, etView, etSeen, etWalk>>

EtMin(a, b) == IF a < b THEN a ELSE b
EtFirst == [loading |-> FALSE, error |-> FALSE, dir |-> "desc", filter |-> "all", page |-> 1]

\* What the API answers: rows the table cannot tell apart by type or time.
apiRows(who) == [k \in 1..EtMin(EtLog[who], EtServerCap) |-> [type |-> "undefined", ts |-> 0, pos |-> k]]

\* The places of the rows that match the filter.
filteredRows(rows, filter) == {k \in DOMAIN rows : filter \in {"all", rows[k].type}}

\* Array.sort is stable: rows with the same, or no, timestamp keep their order.
sortedRows(rows, kept, dir) ==
  LET before(j, k) == \/ IF dir = "desc" THEN rows[j].ts > rows[k].ts ELSE rows[j].ts < rows[k].ts
                      \/ rows[j].ts = rows[k].ts /\ j <= k
  IN [n \in 1..Cardinality(kept) |-> rows[CHOOSE k \in kept : Cardinality({j \in kept : before(j, k)}) = n]]

tableRows(rows, view) == sortedRows(rows, filteredRows(rows, view.filter), view.dir)

totalPages_floor(n) == IF n < EtPageSize THEN 1 ELSE n \div EtPageSize

totalPages(n) == IF n = 0 THEN 1 ELSE (n + EtPageSize - 1) \div EtPageSize

safePage_raw(page, n) == page

safePage(page, n) == EtMin(page, totalPages(n))

sliceOf(rows, page) == SubSeq(rows, (page - 1) * EtPageSize + 1, EtMin(page * EtPageSize, Len(rows)))

pageItemsOf(rows, view) == LET s == tableRows(rows, view) IN sliceOf(s, safePage(view.page, Len(s)))
tableVisible(view) == ~view.loading /\ ~view.error
shownIn(rows, view) == {pageItemsOf(rows, view)[k].pos : k \in DOMAIN pageItemsOf(rows, view)}

\* Every change of what is on the screen; following: Next was pressed.
Show(rows, view, following) ==
  /\ etEvents' = rows /\ etView' = view
  /\ etWalk' = IF following THEN etWalk ELSE view.page = 1
  /\ etSeen' = IF following THEN etSeen \cup shownIn(rows, view) ELSE shownIn(rows, view)

EtInit == /\ etInjected \in BOOLEAN
          /\ etWho \in DOMAIN EtLog
          /\ etEvents \in IF etInjected THEN EtLists ELSE {<<>>}
          /\ etLoads = IF etInjected THEN {} ELSE {etWho}
          /\ etView = [EtFirst EXCEPT !.loading = ~etInjected]
          /\ etSeen = shownIn(etEvents, etView) /\ etWalk = TRUE

-----------------------------------------------------------------------------
setPropEvents(rows) == /\ etInjected /\ rows # etEvents
                       /\ Show(rows, etView, FALSE)
                       /\ UNCHANGED <<etInjected, etWho, etLoads>>

fetchEventRows(who) == /\ etLoads' = etLoads \cup {who}
                       /\ Show(etEvents, [etView EXCEPT !.loading = TRUE, !.error = FALSE], FALSE)

\* The request of the former contributor goes on; sort, filter and page stay.
setContributor(who) == /\ ~etInjected /\ who # etWho /\ who \notin etLoads
                       /\ etWho' = who
                       /\ fetchEventRows(who)
                       /\ UNCHANGED etInjected

retryEvents == /\ etView.error /\ ~etView.loading /\ etWho \notin etLoads
               /\ fetchEventRows(etWho)
               /\ UNCHANGED <<etInjected, etWho>>

\* Any answer is applied, the last one stands.
eventsAnswered(who, ok) ==
  /\ who \in etLoads
  /\ etLoads' = etLoads \ {who}
  /\ Show(IF ok THEN apiRows(who) ELSE etEvents,
          [etView EXCEPT !.loading = FALSE, !.error = @ \/ ~ok], FALSE)
  /\ UNCHANGED <<etInjected, etWho>>

toggleSort == /\ tableVisible(etView) /\ tableRows(etEvents, etView) # <<>>
              /\ Show(etEvents, [etView EXCEPT !.dir = IF @ = "desc" THEN "asc" ELSE "desc", !.page = 1], FALSE)
              /\ UNCHANGED <<etInjected, etWho, etLoads>>

handleFilterChange(filter) == /\ tableVisible(etView) /\ filter # etView.filter
                              /\ Show(etEvents, [etView EXCEPT !.filter = filter, !.page = 1], FALSE)
                              /\ UNCHANGED <<etInjected, etWho, etLoads>>

nextPageEnabled_always(page, last) == TRUE

nextPageEnabled(page, last) == page # last

\* First, previous, next and last; the buttons count from the page shown.
turnPage == LET n == Len(tableRows(etEvents, etView))
                at == safePage(etView.page, n)
                to(p, following) == Show(etEvents, [etView EXCEPT !.page = p], following)
            IN /\ tableVisible(etView) /\ totalPages(n) > 1
               /\ \/ at # 1 /\ (to(1, FALSE) \/ to(at - 1, FALSE))
                  \/ nextPageEnabled(at, totalPages(n)) /\ to(at + 1, at = etView.page)
                  \/ at # totalPages(n) /\ to(totalPages(n), FALSE)
               /\ UNCHANGED <<etInjected, etWho, etLoads>>

EtNext == \/ \E rows \in EtLists : setPropEvents(rows)
          \/ \E who \in DOMAIN EtLog : setContributor(who) \/ \E ok \in BOOLEAN : eventsAnswered(who, ok)
          \/ retryEvents \/ toggleSort \/ turnPage
          \/ \E filter \in EtFilters : handleFilterChange(filter)

-----------------------------------------------------------------------------
EtLengths == {0} \cup {Len(s) : s \in EtLists} \cup {EtLog[w] : w \in DOMAIN EtLog}

\* Type invariant: the page is one of a list there is.
EtTypeOK == /\ etWho \in DOMAIN EtLog /\ etLoads \subseteq DOMAIN EtLog
            /\ \E n \in EtLengths : etView.page \in 1..totalPages(n)
            /\ etView.filter \in EtFilters /\ etView.dir \in {"asc", "desc"}

\* A list that is not empty never shows an empty page, although the page number
\* outlives a list that shrinks.
EtNeverBlank == LET s == tableRows(etEvents, etView)
                IN s # <<>> => pageItemsOf(etEvents, etView) # <<>>

\* A reader who pressed Next from page 1 to the last page has seen every event of
\* the list, whatever the order and the filter.
EtWalkComplete ==
  LET s == tableRows(etEvents, etView)
  IN etWalk /\ etView.page >= totalPages(Len(s)) => {s[k].pos : k \in DOMAIN s} \subseteq etSeen

-----------------------------------------------------------------------------
(* The activity feed. *)

CONSTANTS
  AfCount,     \* filter -> number of matching events
  AfPageSize,  \* PAGE_SIZE
  AfMaxLoads   \* bound on the requests under way together

ASSUME AfAssumption == /\ AfPageSize \in Nat \ {0} /\ AfMaxLoads \in Nat \ {0}
                       /\ \A filter \in DOMAIN AfCount : AfCount[filter] \in Nat

VARIABLES
  afFilter,   \* filter
  afEvents,   \* events: <<filter it was asked with, position>>
  afOffset,   \* offset
  afMore,     \* hasMore
  afLoading,  \* loading
  afError,    \* error
  afLoads,    \* requests under way: [n, filter, offset, reset]
  afOverlap   \* history: two requests were under way since the list was started

afVars == <<afFilter, afEvents, afOffset, afMore, afLoading, afError, afLoads, afOverlap>>

AfInit == /\ afFilter \in DOMAIN AfCount
          /\ afEvents = <<>> /\ afOffset = 0 /\ afMore = TRUE /\ afLoading = TRUE /\ afError = FALSE
          /\ afLoads = {[n |-> 1, filter |-> afFilter, offset |-> 0, reset |-> TRUE]}
          /\ afOverlap = FALSE

-----------------------------------------------------------------------------
feedRequest(filter, offset, reset) ==
  \E n \in 1..AfMaxLoads :
    /\ \A l \in afLoads : l.n # n
    /\ afLoads' = afLoads \cup {[n |-> n, filter |-> filter, offset |-> offset, reset |-> reset]}
    /\ afLoading' = TRUE /\ afError' = FALSE

\* The effect on fetchPage, and Retry.
startFeed(filter) == /\ afFilter' = filter
                     /\ afEvents' = <<>> /\ afOffset' = 0 /\ afMore' = TRUE
                     /\ feedRequest(filter, 0, TRUE)
                     /\ afOverlap' = (afLoads # {})

setFeedFilter(filter) == filter # afFilter /\ startFeed(filter)
retryFeed == afError /\ startFeed(afFilter)

\* The loader element is on the screen, at the latest after scrolling to it; after
\* a failed request this asks again at once.
feedScroll == /\ afMore /\ ~afLoading
              /\ feedRequest(afFilter, afOffset, FALSE)
              /\ afOverlap' = (afOverlap \/ afLoads # {})
              /\ UNCHANGED <<afFilter, afEvents, afOffset, afMore>>

\* The route reads page, not offset: always its first page.
feedPage(filter, offset) == [k \in 1..IF AfCount[filter] < AfPageSize THEN AfCount[filter] ELSE AfPageSize |-> <<filter, k>>]

moreRead_snakeCase(filter, offset) == offset + AfPageSize < AfCount[filter]

\* pagination.hasMore is undefined.
moreRead(filter, offset) == FALSE

loadingAfter_kept == afLoading

loadingAfter == FALSE

feedAnswered(l) ==
  /\ l \in afLoads
  /\ afLoads' = afLoads \ {l} /\ afLoading' = loadingAfter
  /\ \/ /\ afEvents' = (IF l.reset THEN <<>> ELSE afEvents) \o feedPage(l.filter, l.offset)
        /\ afMore' = moreRead(l.filter, l.offset) /\ afOffset' = l.offset + AfPageSize
        /\ UNCHANGED afError
     \/ afError' = TRUE /\ UNCHANGED <<afEvents, afMore, afOffset>>
  /\ UNCHANGED <<afFilter, afOverlap>>

AfNext == \/ \E filter \in DOMAIN AfCount : setFeedFilter(filter)
          \/ retryFeed \/ feedScroll
          \/ \E l \in afLoads : feedAnswered(l)

-----------------------------------------------------------------------------
\* Type invariant; the spinner means a request under way.
AfTypeOK == /\ afFilter \in DOMAIN AfCount /\ {afMore, afLoading, afError, afOverlap} \subseteq BOOLEAN
            /\ afOffset % AfPageSize = 0 /\ Cardinality(afLoads) <= AfMaxLoads
            /\ afLoading => afLoads # {}

\* Unless requests overlapped, the feed at rest has the first page of its filter,
\* each event once, however often a request failed and was made again.
AfFirstPageOnce == (afLoads = {} /\ ~afError /\ ~afOverlap) => afEvents = feedPage(afFilter, 0)
=============================================================================
