------------------------------ MODULE OrgIssues ------------------------------
(***************************************************************************)
(* The issue browser of an organisation                                    *)
(* (frontend/src/pages/OrgIssuesPage.tsx) on its paginated hook            *)
(* (hooks/useInfiniteOrgIssues.ts): pages appended as the user scrolls,    *)
(* the contributor's own state merged into them, and Apply and Withdraw    *)
(* shown before the server answers.  What the server says of the           *)
(* contributor is any answer: it is about issue numbers of all             *)
(* organisations, and neither request changes it (the apply route is a     *)
(* stub, the withdraw route only builds a transaction).  The list on the   *)
(* server does not change here; module ListPaging is about lists that do.  *)
(***************************************************************************)
EXTENDS Integers, Sequences, SequencesExt, FiniteSets, FiniteSetsExt

CONSTANTS
  OiCount,     \* organisation -> number of its issues
  OiPageSize,  \* PAGE_SIZE
  OiMaxCalls   \* bound on the Apply and Withdraw requests under way together

ASSUME OiAssumption == OiPageSize \in Nat \ {0} /\ \A o \in DOMAIN OiCount : OiCount[o] \in Nat

VARIABLES
  oiOrg,      \* org_id of the route
  oiWallet,   \* wallet.publicKey is set
  oiFetch,    \* the fetch under way (fetchingRef): <<>> or <<[org, wallet, offset, stats]>>
  oiRef,      \* offset; applied and assigned numbers and whether a cap is reached, as read
  oiIssues,   \* issues: sequence of [org, id, status]
  oiMore,     \* hasMore
  oiFailed,   \* error
  oiFilter,   \* the issues that match the filters
  oiBusy,     \* busyIssue, or 0
  oiCalls,    \* requests under way
  oiCut,      \* history: the route or the wallet changed while a fetch was under way
  oiTold,     \* history: status of each number by the last word of the server
  oiClean     \* history: issues with one request at a time and no fetch during it

oiVars == <<oiOrg, oiWallet, oiFetch, oiRef, oiIssues, oiMore, oiFailed, oiFilter, oiBusy, oiCalls, oiCut, oiTold, oiClean>>

OiOrgs == DOMAIN OiCount
OiIds  == 1..Max({OiCount[o] : o \in OiOrgs})
OiNoRef == [offset |-> 0, applied |-> {}, assigned |-> {}, full |-> FALSE]
OiUntold == [i \in OiIds |-> "open"]
row(org, id, status) == [org |-> org, id |-> id, status |-> status]

startFetch(org, wallet, offset) == <<[org |-> org, wallet |-> wallet, offset |-> offset, stats |-> offset = 0 /\ wallet]>>

OiInit == /\ oiOrg \in OiOrgs /\ oiWallet \in BOOLEAN
          /\ oiFetch = startFetch(oiOrg, oiWallet, 0)
          /\ oiRef = OiNoRef /\ oiIssues = <<>> /\ oiMore = TRUE /\ oiFailed = FALSE
          /\ oiFilter = OiIds /\ oiBusy = 0 /\ oiCalls = {} /\ oiCut = FALSE
          /\ oiTold = OiUntold /\ oiClean = OiIds

-----------------------------------------------------------------------------
(* useInfiniteOrgIssues. *)

fetchGuard == oiFetch = <<>>

\* fetchPage returns at once when another fetch is under way, whatever it is for.
fetchPage(org, wallet, offset) ==
  IF fetchGuard THEN oiFetch' = startFetch(org, wallet, offset) /\ oiFailed' = FALSE
  ELSE UNCHANGED <<oiFetch, oiFailed>>

ResetList == /\ oiRef' = [OiNoRef EXCEPT !.full = oiRef.full] /\ oiIssues' = <<>> /\ oiMore' = TRUE
             /\ oiTold' = OiUntold

\* The effect on org_id and the wallet.
setContext(org, wallet) ==
  /\ <<org, wallet>> # <<oiOrg, oiWallet>>
  /\ oiOrg' = org /\ oiWallet' = wallet
  /\ ResetList /\ fetchPage(org, wallet, 0)
  /\ oiCut' = (oiCut \/ oiFetch # <<>>)
  /\ oiClean' = {i \in OiIds : \A c \in oiCalls : c.id # i}
  /\ UNCHANGED <<oiFilter, oiBusy, oiCalls>>

\* Status of a row, merged from what was read.
readStatus(ref, id) == CASE id \in ref.assigned -> "assigned"
                         [] id \in ref.applied -> "applied"
                         [] OTHER -> "open"

\* Three requests, each of which may fail and then leaves its part as it was.
fetchContributorState ==
  /\ oiFetch # <<>> /\ oiFetch[1].stats
  /\ \E applied, assigned \in SUBSET OiIds, full \in BOOLEAN :
       oiRef' \in [offset : {oiRef.offset}, applied : {oiRef.applied, applied},
                  assigned : {oiRef.assigned, assigned}, full : {oiRef.full, full}]
  /\ oiTold' = [i \in OiIds |-> readStatus(oiRef', i)]
  /\ oiFetch' = <<[oiFetch[1] EXCEPT !.stats = FALSE]>>
  /\ UNCHANGED <<oiOrg, oiWallet, oiIssues, oiMore, oiFailed, oiFilter, oiBusy, oiCalls, oiCut, oiClean>>

pageOf(f) == LET last == IF f.offset + OiPageSize < OiCount[f.org] THEN f.offset + OiPageSize ELSE OiCount[f.org]
             IN [k \in 1..last - f.offset |-> row(f.org, f.offset + k, readStatus(oiRef, f.offset + k))]

moreAfter_early(rows) == Len(rows) > OiPageSize

moreAfter(rows) == Len(rows) = OiPageSize

pageLoaded == /\ oiFetch # <<>> /\ ~oiFetch[1].stats
              /\ LET f == oiFetch[1]  rows == pageOf(f)
                 IN /\ oiIssues' = IF f.offset = 0 THEN rows ELSE oiIssues \o rows
                    /\ oiRef' = [oiRef EXCEPT !.offset = f.offset + Len(rows)]
                    /\ oiMore' = moreAfter(rows)
              /\ oiFetch' = <<>>
              /\ UNCHANGED <<oiOrg, oiWallet, oiFailed, oiFilter, oiBusy, oiCalls, oiCut, oiTold, oiClean>>

pageFailed == /\ oiFetch # <<>> /\ ~oiFetch[1].stats
              /\ oiFetch' = <<>> /\ oiFailed' = TRUE
              /\ UNCHANGED <<oiOrg, oiWallet, oiRef, oiIssues, oiMore, oiFilter, oiBusy, oiCalls, oiCut, oiTold, oiClean>>

\* Search, labels and difficulty; the sort order is left out.
filteredIssues == SelectSeq(oiIssues, LAMBDA r : r.id \in oiFilter)

\* The three branches of the list.
listShown == CASE oiFetch # <<>> /\ oiIssues = <<>>          -> "skeleton"
               [] oiFetch = <<>> /\ filteredIssues = <<>>    -> "empty"
               [] OTHER                                      -> "rows"

\* The sentinel is rendered below the rows only.
sentinel == listShown = "rows" /\ oiMore /\ oiFetch = <<>>

loadMore == /\ sentinel
            /\ fetchPage(oiOrg, oiWallet, oiRef.offset)
            /\ oiClean' = {i \in oiClean : \A c \in oiCalls : c.id # i}
            /\ UNCHANGED <<oiOrg, oiWallet, oiRef, oiIssues, oiMore, oiFilter, oiBusy, oiCalls, oiCut, oiTold>>

refresh == /\ oiFetch = <<>>
           /\ ResetList /\ fetchPage(oiOrg, oiWallet, 0)
           /\ oiClean' = {i \in OiIds : \A c \in oiCalls : c.id # i}
           /\ oiCut' = FALSE
           /\ UNCHANGED <<oiOrg, oiWallet, oiFilter, oiBusy, oiCalls>>

FilterTo(f) == /\ oiFilter # f /\ oiFilter' = f
               /\ UNCHANGED <<oiOrg, oiWallet, oiFetch, oiRef, oiIssues, oiMore, oiFailed, oiBusy, oiCalls, oiCut, oiTold, oiClean>>

\* The filter panel: here a filter that only the last issue matches.
setFilters == FilterTo({Max(OiIds)})
clearFilters == FilterTo(OiIds)

-----------------------------------------------------------------------------
(* IssueRow, handleApply, handleWithdraw. *)

setIssueStatus(id, status) ==
  oiIssues' = [k \in DOMAIN oiIssues |-> IF oiIssues[k].id = id THEN [oiIssues[k] EXCEPT !.status = status] ELSE oiIssues[k]]

canApply == oiWallet /\ ~oiRef.full
shown(op) == IF op = "apply" THEN "applied" ELSE "open"
before(op) == IF op = "apply" THEN "open" ELSE "applied"

\* The optimistic status, then the request.
handleRow(id, op, n) ==
  /\ listShown = "rows"
  /\ id \in oiFilter /\ \E k \in DOMAIN oiIssues : oiIssues[k].id = id /\ oiIssues[k].status = before(op)
  /\ oiBusy # id /\ oiWallet /\ (op = "apply" => canApply) /\ \A c \in oiCalls : c.n # n
  /\ oiBusy' = id
  /\ setIssueStatus(id, shown(op))
  /\ oiCalls' = oiCalls \cup {[n |-> n, id |-> id, op |-> op, org |-> oiOrg]}
  /\ oiClean' = IF oiFetch = <<>> /\ \A c \in oiCalls : c.id # id THEN oiClean ELSE oiClean \ {id}
  /\ UNCHANGED <<oiOrg, oiWallet, oiFetch, oiRef, oiMore, oiFailed, oiFilter, oiCut, oiTold>>

undo_dropped(c) == UNCHANGED oiIssues

undo(c) == setIssueStatus(c.id, before(c.op))

finallyBusy_kept(c) == oiBusy

finallyBusy(c) == 0

rowAnswered(c) ==
  /\ c \in oiCalls
  /\ \/ UNCHANGED oiIssues /\ oiTold' = [oiTold EXCEPT ![c.id] = shown(c.op)]
     \/ undo(c) /\ UNCHANGED oiTold
  /\ oiCalls' = oiCalls \ {c} /\ oiBusy' = finallyBusy(c)
  /\ UNCHANGED <<oiOrg, oiWallet, oiFetch, oiRef, oiMore, oiFailed, oiFilter, oiCut, oiClean>>

OiNext == \/ fetchContributorState \/ pageLoaded \/ pageFailed \/ loadMore \/ refresh \/ setFilters \/ clearFilters
          \/ \E org \in OiOrgs, wallet \in BOOLEAN : setContext(org, wallet)
          \/ \E id \in OiIds, op \in {"apply", "withdraw"}, n \in 1..OiMaxCalls : handleRow(id, op, n)
          \/ \E c \in oiCalls : rowAnswered(c)

-----------------------------------------------------------------------------
\* Type invariant; a busy row has a request under way.
OiTypeOK == /\ oiOrg \in OiOrgs /\ oiWallet \in BOOLEAN
            /\ Len(oiFetch) \in 0..1 /\ \E o \in OiOrgs : oiRef.offset \in 0..OiCount[o]
            /\ \A k \in DOMAIN oiIssues : oiIssues[k].status \in {"open", "applied", "assigned"}
            /\ oiBusy # 0 => \E c \in oiCalls : c.id = oiBusy

\* "All issues loaded": at the end of the list every issue of the organisation
\* was shown once, in order, however often a page failed and was asked again.
\* Not when the organisation or the wallet changed while a fetch was under way,
\* until the next refresh: that fetch goes on under the new route.
OiAllLoaded == (~oiMore /\ oiFetch = <<>> /\ ~oiCut)
                 => [k \in DOMAIN oiIssues |-> <<oiIssues[k].org, oiIssues[k].id>>]
                      = [k \in 1..OiCount[oiOrg] |-> <<oiOrg, k>>]

\* A row at rest says the server's last word about its number: what was read of
\* the contributor, changed by each request that was answered well and by none
\* that was refused, although the row shows a request before its answer.  Not
\* when two requests for one row, or a request and a fetch, overlapped.
OiRowExact == (~oiCut /\ oiFetch = <<>>) =>
                \A k \in DOMAIN oiIssues :
                  LET r == oiIssues[k]
                  IN (r.id \in oiClean /\ \A c \in oiCalls : c.id # r.id) => r.status = oiTold[r.id]
=============================================================================
