----------------------------- MODULE IssueCache -----------------------------
(***************************************************************************)
(* The issue table, the Redis cache in front of it and the GitHub webhook  *)
(* that changes the one and empties the other (src/services/issueService.ts*)
(* src/services/redis.ts, src/routes/webhooks.ts, src/routes/issues.ts).   *)
(* A reader's cache lookup, its two queries and its cache write are        *)
(* separate awaits, and so are the statements of the webhook handler, of   *)
(* which several deliveries may be under way.                              *)
(***************************************************************************)
EXTENDS Integers, FiniteSets

CONSTANTS
  IcIssues,      \* 1..n: ids of table issues and numbers of issues on GitHub
  IcLists,       \* filters in use, of "open", "assigned", "available"
  IcReaders,     \* requests for the list under way at the same time
  IcHooks,       \* webhook deliveries under way at the same time
  IcTtl,         \* CACHE_TTL, in clock ticks
  IcDeliveries   \* bound: webhook deliveries of a behaviour

ASSUME IcAssumption == IcTtl \in Nat \ {0} /\ IcDeliveries \in Nat /\ IcIssues \subseteq Nat /\ IsFiniteSet(IcIssues)
                       /\ IcLists \subseteq {"open", "assigned", "available"}

VARIABLES
  icRow,      \* row of each issue: status, label, assignment
  icCache,    \* cached answer of each list: its rows and its time to live
  icReader,   \* each reader: where it is, its list and what it has read
  icHook,     \* each webhook handler: what is left to do, for which issue
  icLeft,     \* deliveries to come
  icOwed      \* history: a 'closed' delivery found the issue's assignment active and
              \* owes it the second update (torn: that update failed)

icVars == <<icRow, icCache, icReader, icHook, icLeft, icOwed>>

NoEntry == [rows |-> {}, ttl |-> 0]
IcIdle == [pc |-> "idle", list |-> "none", total |-> 0, rows |-> {}]
NoHook == [pc |-> "idle", issue |-> 0]

IcInit == /\ icRow = [i \in IcIssues |-> [status |-> "none", label |-> FALSE, asgn |-> "none"]]
          /\ icCache = [l \in IcLists |-> NoEntry]
          /\ icReader = [r \in IcReaders |-> IcIdle]
          /\ icHook = [h \in IcHooks |-> NoHook]
          /\ icLeft = IcDeliveries
          /\ icOwed = [i \in IcIssues |-> "no"]

\* The rows a list selects: only open issues, whatever the filter.
rowsOf(l) == {i \in IcIssues : /\ icRow[i].status = "open"
                               /\ l = "assigned" => icRow[i].asgn = "active"
                               /\ l = "available" => icRow[i].asgn # "active"}

-----------------------------------------------------------------------------
(* IssueService.getIssues *)

\* A hit is the answer; a miss, or an error of Redis, starts the queries.
getFromCache(r) ==
  \E l \in IcLists :
    /\ icReader[r].pc = "idle"
    /\ \/ /\ icCache[l].ttl > 0
          /\ icReader' = [icReader EXCEPT ![r] = IcIdle]
       \/ icReader' = [icReader EXCEPT ![r] = [IcIdle EXCEPT !.pc = "count", !.list = l]]
    /\ UNCHANGED <<icRow, icCache, icHook, icLeft, icOwed>>

countIssues(r) ==
  /\ icReader[r].pc = "count"
  /\ icReader' = [icReader EXCEPT ![r].pc = "select",
                                  ![r].total = Cardinality(rowsOf(icReader[r].list))]
  /\ UNCHANGED <<icRow, icCache, icHook, icLeft, icOwed>>

selectIssues(r) ==
  /\ icReader[r].pc = "select"
  /\ icReader' = [icReader EXCEPT ![r].pc = "setCache", ![r].rows = rowsOf(icReader[r].list)]
  /\ UNCHANGED <<icRow, icCache, icHook, icLeft, icOwed>>

entryTtl_none == IcTtl + 1   \* SET instead of SETEX: Tick never ages it

entryTtl == IcTtl

\* SETEX, whatever the table has become since; an error of Redis is ignored.
setCache(r) ==
  /\ icReader[r].pc = "setCache"
  /\ \/ icCache' = [icCache EXCEPT ![icReader[r].list] = [rows |-> icReader[r].rows, ttl |-> entryTtl]]
     \/ UNCHANGED icCache
  /\ icReader' = [icReader EXCEPT ![r] = IcIdle]
  /\ UNCHANGED <<icRow, icHook, icLeft, icOwed>>

-----------------------------------------------------------------------------
(* POST /webhooks/github *)

Update(i, f, v) == icRow' = [icRow EXCEPT ![i][f] = v]

\* A delivery is taken up by a handler that leaves it at pc.
Deliver(h, pc, i) ==
  /\ icHook[h].pc = "idle" /\ icLeft > 0
  /\ icLeft' = icLeft - 1
  /\ icHook' = [icHook EXCEPT ![h] = [pc |-> pc, issue |-> i]]

\* A delivery that is unsigned, incomplete, of another kind, or whose first
\* statement fails (500) changes nothing.
ignoreDelivery(h) == /\ Deliver(h, "idle", 0)
                     /\ UNCHANGED <<icRow, icCache, icReader, icOwed>>

\* 'opened' inserts a row under the next serial id, whatever the number of the
\* issue; no row conflicts with it.  'labeled' does the same, and its next
\* statement records the label under the number.
insertIssue(h) ==
  /\ \E i \in IcIssues, s \in {"open", "closed"}, n \in IcIssues, pc \in {"invalidate", "label"} :
       /\ icRow[i].status = "none" /\ \A j \in 1..(i - 1) : icRow[j].status # "none"
       /\ Update(i, "status", s)
       /\ Deliver(h, pc, n)
  /\ UNCHANGED <<icCache, icReader, icOwed>>

recordLabel(h) ==
  /\ icHook[h].pc = "label"
  /\ Update(icHook[h].issue, "label", TRUE)
  /\ icHook' = [icHook EXCEPT ![h].pc = "invalidate"]
  /\ UNCHANGED <<icCache, icReader, icLeft, icOwed>>

\* 500: the inserted row stays without its label, and the cache without it.
recordLabelFails(h) ==
  /\ icHook[h].pc = "label"
  /\ icHook' = [icHook EXCEPT ![h] = NoHook]
  /\ UNCHANGED <<icRow, icCache, icReader, icLeft, icOwed>>

\* 'unlabeled' removes the label record.
removeLabel(h) ==
  /\ \E i \in IcIssues : Update(i, "label", FALSE) /\ Deliver(h, "invalidate", i)
  /\ UNCHANGED <<icCache, icReader, icOwed>>

\* 'edited' and 'closed' change the row whose id is the number of the issue, if
\* there is one.  An edit carries the state the issue had when it was edited: a
\* late one opens a closed issue again.
setStatus(h, i, s, pc) ==
  /\ Deliver(h, pc, i)
  /\ icRow' = [icRow EXCEPT ![i].status = IF @ = "none" THEN @ ELSE s]
  /\ UNCHANGED <<icCache, icReader>>

issueEdited(h) == /\ \E i \in IcIssues, s \in {"open", "closed"} : setStatus(h, i, s, "invalidate")
                  /\ UNCHANGED icOwed

\* 'closed': the issue first, its assignments with the next statement.
issueClosed(h) ==
  \E i \in IcIssues :
    /\ setStatus(h, i, "closed", "assignments")
    /\ icOwed' = [icOwed EXCEPT ![i] = IF icRow[i].asgn = "active" THEN "owed" ELSE @]

markPendingReview_skipped(h) == /\ icHook[h].pc = "assignments"
                                /\ icHook' = [icHook EXCEPT ![h].pc = "invalidate"]
                                /\ UNCHANGED <<icRow, icCache, icReader, icLeft, icOwed>>

\* Every assignment of the issue, whatever its status and whenever it was made.
markPendingReview(h) ==
  LET i == icHook[h].issue IN
  /\ icHook[h].pc = "assignments"
  /\ Update(i, "asgn", IF icRow[i].asgn = "none" THEN "none" ELSE "pending-review")
  /\ icOwed' = [icOwed EXCEPT ![i] = "no"]
  /\ icHook' = [icHook EXCEPT ![h].pc = "invalidate"]
  /\ UNCHANGED <<icCache, icReader, icLeft>>

\* 500: the second statement fails, the first one stays, the cache too.
markPendingReviewFails(h) ==
  LET i == icHook[h].issue
      another == \E k \in IcHooks \ {h} : icHook[k].pc = "assignments" /\ icHook[k].issue = i
  IN
  /\ icHook[h].pc = "assignments"
  /\ icHook' = [icHook EXCEPT ![h] = NoHook]
  /\ icOwed' = [icOwed EXCEPT ![i] = IF @ = "owed" /\ ~another THEN "torn" ELSE @]
  /\ UNCHANGED <<icRow, icCache, icReader, icLeft>>

\* KEYS issues:* and DEL; an error of Redis is ignored.
invalidateCache(c) == [l \in IcLists |-> NoEntry]

finishDelivery(h) ==
  /\ icHook[h].pc = "invalidate"
  /\ icHook' = [icHook EXCEPT ![h] = NoHook]
  /\ \/ icCache' = invalidateCache(icCache)
     \/ UNCHANGED icCache
  /\ UNCHANGED <<icRow, icReader, icLeft, icOwed>>

-----------------------------------------------------------------------------
\* An issue is assigned, open or not (nothing under src/ writes the table).
AssignIssue == /\ \E i \in IcIssues : icRow[i].asgn # "active" /\ Update(i, "asgn", "active")
               /\ UNCHANGED <<icCache, icReader, icHook, icLeft, icOwed>>

\* Redis ages its entries.
IcTick ==
  /\ \E l \in IcLists : icCache[l].ttl \in 1..IcTtl
  /\ icCache' = [l \in IcLists |->
       IF icCache[l].ttl \in 2..IcTtl THEN [icCache[l] EXCEPT !.ttl = @ - 1]
       ELSE IF icCache[l].ttl = 1 THEN NoEntry ELSE icCache[l]]
  /\ UNCHANGED <<icRow, icReader, icHook, icLeft, icOwed>>

IcReaderStep(r) == countIssues(r) \/ selectIssues(r) \/ setCache(r)
IcHookStep(h) == \/ ignoreDelivery(h) \/ insertIssue(h) \/ removeLabel(h)
                 \/ issueEdited(h) \/ issueClosed(h) \/ recordLabel(h) \/ recordLabelFails(h)
                 \/ markPendingReview(h) \/ markPendingReviewFails(h) \/ finishDelivery(h)
IcNext == \/ \E r \in IcReaders : getFromCache(r) \/ IcReaderStep(r)
          \/ \E h \in IcHooks : IcHookStep(h)
          \/ AssignIssue \/ IcTick

-----------------------------------------------------------------------------
\* Type invariant; every cached list expires.
IcTypeOK ==
  /\ icRow \in [IcIssues -> [status : {"none", "open", "closed"}, label : BOOLEAN,
                             asgn : {"none", "active", "pending-review"}]]
  /\ icCache \in [IcLists -> [rows : SUBSET IcIssues, ttl : 0..IcTtl]]
  /\ \A r \in IcReaders : icReader[r].total \in 0..Cardinality(IcIssues)
  /\ icHook \in [IcHooks -> [pc : {"idle", "label", "assignments", "invalidate"},
                              issue : IcIssues \cup {0}]]

\* A 'closed' delivery takes the assignment of the issue into review: one that it
\* found active stays so only while a handler has its second update before it, or
\* when that update failed, however deliveries, edits and new assignments of the
\* same issue interleave.
IcClosedMeansReview ==
  \A i \in IcIssues : icOwed[i] = "owed" =>
    \E h \in IcHooks : icHook[h].pc = "assignments" /\ icHook[h].issue = i

\* A list that no longer shows the table (a reader may fill the cache with what
\* it read before the webhook emptied it) is not served for ever: it expires.
IcStaleIsDropped ==
  \A l \in IcLists : (icCache[l].ttl > 0 /\ icCache[l].rows # rowsOf(l))
                     ~> (icCache[l].ttl = 0 \/ icCache[l].rows = rowsOf(l))
=============================================================================
