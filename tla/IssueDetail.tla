----------------------------- MODULE IssueDetail -----------------------------
(***************************************************************************)
(* The issue page (frontend/src/pages/IssueDetailPage.tsx) on its hook     *)
(* (hooks/useIssueDetail.ts): one fetch per issue and per refetch, the     *)
(* older ones cancelled, and the Apply and Withdraw buttons of the         *)
(* sidebar.  A contract that only this contributor uses stands behind it.  *)
(***************************************************************************)
EXTENDS Naturals, FiniteSets

CONSTANT IdIssues   \* issues the route may name

VARIABLES
  idChain,    \* issue -> none, pending, assigned
  idSeen,     \* issues with an "applied" event of this contributor
  idIssue,    \* org_id and issue_id of the route
  idData,     \* data: [issue, hasApplied, assigned]; issue 0 before the first answer
  idLoad,     \* loading, error
  idFetch,    \* fetches whose answer still counts
  idBusy,     \* actionBusy, or ""
  idCalls,    \* onApply and onWithdraw under way
  idSince     \* history: data was asked for after the last call that succeeded

idVars == <<idChain, idSeen, idIssue, idData, idLoad, idFetch, idBusy, idCalls, idSince>>

IdNoData == [issue |-> 0, hasApplied |-> FALSE, assigned |-> FALSE]
idRequest(i) == [issue |-> i, since |-> TRUE]

IdInit == /\ idChain = [i \in IdIssues |-> "none"] /\ idSeen = {}
          /\ idIssue \in IdIssues /\ idFetch = {idRequest(idIssue)}
          /\ idData = IdNoData /\ idLoad = [loading |-> TRUE, error |-> FALSE]
          /\ idBusy = "" /\ idCalls = {} /\ idSince = TRUE

-----------------------------------------------------------------------------
(* useIssueDetail. *)

cleanup_dropped == idFetch

\* The effect's cleanup: cancelled = true and controller.abort().
cleanup == {}

IdFetchAgain(i) == /\ idFetch' = cleanup \cup {idRequest(i)}
                   /\ idLoad' = [loading |-> TRUE, error |-> FALSE]

setParams(i) == /\ i # idIssue
                /\ idIssue' = i /\ IdFetchAgain(i)
                /\ UNCHANGED <<idChain, idSeen, idData, idBusy, idCalls, idSince>>

\* What GET /issues/:org_id/:issue_id may say: it reads the indexed tables, which
\* run behind the contract, through a cache of 30 s, so an application or an
\* assignment of the contributor may be missing from it.
detailSays(i) == [issue : {i}, hasApplied : {FALSE, (i \in idSeen)}, assigned : {FALSE, (idChain[i] = "assigned")}]

detailAnswered(f, ok) ==
  /\ f \in idFetch /\ idFetch' = idFetch \ {f}
  /\ IF ok THEN idData' \in detailSays(f.issue) /\ idSince' = f.since
     ELSE UNCHANGED <<idData, idSince>>
  /\ idLoad' = [loading |-> FALSE, error |-> ~ok \/ idLoad.error]
  /\ UNCHANGED <<idChain, idSeen, idIssue, idBusy, idCalls>>

retryDetail == /\ idLoad.error /\ idData = IdNoData
               /\ IdFetchAgain(idIssue)
               /\ UNCHANGED <<idChain, idSeen, idIssue, idData, idBusy, idCalls, idSince>>

-----------------------------------------------------------------------------
(* The sidebar. *)

offered == IF idData.issue = 0 \/ idData.assigned THEN {} ELSE IF idData.hasApplied THEN {"withdraw"} ELSE {"apply"}

buttonEnabled_always == TRUE

buttonEnabled == idBusy = ""

\* The request is for the issue of the route, the button for the one shown.
idHandle(op) == /\ op \in offered /\ buttonEnabled
                /\ idBusy' = op
                /\ idCalls' = idCalls \cup {[op |-> op, issue |-> idIssue]}
                /\ UNCHANGED <<idChain, idSeen, idIssue, idData, idLoad, idFetch, idSince>>

idPermitted(c) == idChain[c.issue] = IF c.op = "apply" THEN "none" ELSE "pending"

\* Fetches asked for before a call took effect.
asOf(fetches, b) == {[f EXCEPT !.since = b] : f \in fetches}

refetch_dropped(c) == idFetch' = asOf(idFetch, FALSE) /\ UNCHANGED idLoad

\* refetch bumps the tick: the effect runs again, for the issue now on the route.
refetch(c) == /\ idFetch' = asOf(cleanup, FALSE) \cup {idRequest(idIssue)}
              /\ idLoad' = [loading |-> TRUE, error |-> FALSE]

idAnswered(c) ==
  /\ c \in idCalls
  /\ \/ /\ idPermitted(c)
        /\ idChain' = [idChain EXCEPT ![c.issue] = IF c.op = "apply" THEN "pending" ELSE "none"]
        /\ idSeen' = IF c.op = "apply" THEN idSeen \cup {c.issue} ELSE idSeen
        /\ refetch(c) /\ idSince' = FALSE
     \/ UNCHANGED <<idChain, idSeen, idFetch, idLoad, idSince>>
  /\ idBusy' = "" /\ idCalls' = idCalls \ {c}
  /\ UNCHANGED <<idIssue, idData>>

\* The maintainer assigns the issue.
idAssign(i) == /\ idChain[i] = "pending"
               /\ idChain' = [idChain EXCEPT ![i] = "assigned"]
               /\ UNCHANGED <<idSeen, idIssue, idData, idLoad, idFetch, idBusy, idCalls, idSince>>

IdNext == \/ retryDetail
          \/ \E i \in IdIssues : setParams(i) \/ idAssign(i)
          \/ \E f \in idFetch, ok \in BOOLEAN : detailAnswered(f, ok)
          \/ \E op \in {"apply", "withdraw"} : idHandle(op)
          \/ \E c \in idCalls : idAnswered(c)

-----------------------------------------------------------------------------
\* Type invariant; one Apply or Withdraw at a time.
IdTypeOK == /\ idIssue \in IdIssues /\ idData.issue \in IdIssues \cup {0}
            /\ Cardinality(idCalls) = IF idBusy = "" THEN 0 ELSE 1

\* What is shown when the page is not loading and shows no error is the issue of
\* the route: the answer about an issue left before never replaces it.
IdShowsRoute == (~idLoad.loading /\ ~idLoad.error) => idData.issue = idIssue

\* After an Apply or Withdraw that succeeded, the page at rest shows an answer it
\* asked for afterwards, whichever route it was on and whatever was under way: an
\* answer asked for before is never taken for the result.  (What the server says
\* may still be older: detailSays.)
IdActionSeen == (~idLoad.loading /\ ~idLoad.error) => idSince
=============================================================================
