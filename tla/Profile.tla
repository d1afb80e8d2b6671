------------------------------ MODULE Profile ------------------------------
(***************************************************************************)
(* The contributor profile page (frontend/src/pages/                       *)
(* ContributorProfilePage.tsx, hooks/useContributorProfile.ts): the route  *)
(* names a contributor, the hook loads that profile without cancelling the *)
(* load before it, and the owner gets a section that lists and withdraws   *)
(* pending applications.                                                   *)
(***************************************************************************)
EXTENDS Naturals, FiniteSets

CONSTANTS
  CpWallet,     \* the connected wallet's address
  CpPending,    \* applications the server may list: <<contributor, org, issue>>
  CpMaxLoads,   \* bound on profile loads under way together
  CpMaxCalls    \* bound on list loads, and on withdrawals, under way together

VARIABLES
  cpRoute,    \* address in the route
  cpView,     \* useContributorProfile: state, profile ({} or {address})
  cpLoads,    \* profile loads under way: address, n
  cpSec,      \* WithdrawSection while mounted; histories: read, the rows of the
              \* list that landed last, gone, the issue numbers acknowledged since
  cpFetches,  \* list loads of the mounted section: address, n
  cpDeletes   \* withdrawals under way

cpVars == <<cpRoute, cpView, cpLoads, cpSec, cpFetches, cpDeletes>>

CpAddrs == {p[1] : p \in CpPending}
CpNoSec == [mounted |-> FALSE, loading |-> FALSE, loaded |-> FALSE, error |-> FALSE,
            rows |-> {}, busy |-> 0, read |-> {}, gone |-> {}]

\* The smallest number no call of that kind under way has.
freeIn(calls) == CHOOSE k \in 1..CpMaxCalls : \A c \in calls : c.n # k

\* load: nothing cancels the one before it.
startLoad(addr) == cpLoads \cup {[addr |-> addr, n |-> n] :
                     n \in {CHOOSE k \in 1..CpMaxLoads : [addr |-> addr, n |-> k] \notin cpLoads}}
roomToLoad == Cardinality(cpLoads) < CpMaxLoads

CpInit == /\ cpRoute \in CpAddrs
          /\ cpView = [state |-> "loading", profile |-> {}]
          /\ cpLoads = {[addr |-> cpRoute, n |-> 1]}
          /\ cpSec = CpNoSec /\ cpFetches = {} /\ cpDeletes = {}

-----------------------------------------------------------------------------
isOwnProfile(route) == route = CpWallet

\* The page shows a profile it has in every state but these two.
profileShown(view) == view.profile # {} /\ view.state \notin {"not-found", "error"}

\* The owner's section mounts and unmounts with the page around it; mounting
\* starts its one list load, for the profile on screen.
Mounting(route, view, sec, deletes) ==
  LET shown == isOwnProfile(route) /\ profileShown(view) IN
  /\ cpRoute' = route /\ cpView' = view
  /\ cpSec' = CASE ~shown -> CpNoSec
                [] shown /\ sec.mounted -> sec
                [] OTHER -> [CpNoSec EXCEPT !.mounted = TRUE, !.loading = TRUE]
  /\ cpFetches' = CASE ~shown -> {}
                    [] shown /\ sec.mounted -> cpFetches
                    [] OTHER -> {[addr |-> a, n |-> 1] : a \in view.profile}
  /\ cpDeletes' = {[d EXCEPT !.live = @ /\ shown] : d \in deletes}

showAt(route, view) == Mounting(route, view, cpSec, cpDeletes)

\* The router passes another address; the old profile stays on screen.
setAddress(a) == /\ a # cpRoute /\ roomToLoad
                 /\ cpLoads' = startLoad(a)
                 /\ showAt(a, [cpView EXCEPT !.state = "loading"])

\* refresh, offered where the load failed.
refreshProfile == /\ cpView.state = "error" /\ roomToLoad
                  /\ cpLoads' = startLoad(cpRoute)
                  /\ showAt(cpRoute, [cpView EXCEPT !.state = "loading"])

profileAnswered(l, outcome) ==
  /\ l \in cpLoads /\ cpLoads' = cpLoads \ {l}
  /\ showAt(cpRoute, CASE outcome = "ok" -> [state |-> "ready", profile |-> {l.addr}]
                       [] outcome = "404" -> [state |-> "not-found", profile |-> {}]
                       [] OTHER -> [cpView EXCEPT !.state = "error"])

-----------------------------------------------------------------------------
(* WithdrawSection. *)

OnlySection == UNCHANGED <<cpRoute, cpView, cpLoads>>

\* The answer of GET /contributors/:address/applications, whatever rows it has.
fetchApps(f, ok) ==
  /\ f \in cpFetches /\ cpFetches' = cpFetches \ {f}
  /\ IF ok THEN \E rows \in SUBSET {p \in CpPending : p[1] = f.addr} :
                  cpSec' = [cpSec EXCEPT !.loading = FALSE, !.loaded = TRUE, !.rows = rows,
                                         !.read = rows, !.gone = {}]
     ELSE cpSec' = [cpSec EXCEPT !.loading = FALSE, !.error = TRUE]
  /\ UNCHANGED cpDeletes /\ OnlySection

retryApps == /\ cpSec.mounted /\ cpSec.error /\ Cardinality(cpFetches) < CpMaxCalls
             /\ cpSec' = [cpSec EXCEPT !.loading = TRUE, !.error = FALSE]
             /\ cpFetches' = cpFetches \cup {[addr |-> a, n |-> freeIn(cpFetches)] : a \in cpView.profile}
             /\ UNCHANGED cpDeletes /\ OnlySection

\* The rows on screen, each with its button.
rowsShown == IF cpSec.mounted /\ (cpSec.loaded \/ ~cpSec.loading) /\ ~cpSec.error
             THEN cpSec.rows ELSE {}

\* Disabled: every row with the number of the row clicked last.
handleWithdraw(row) ==
  /\ row \in rowsShown /\ cpSec.busy # row[3] /\ Cardinality(cpDeletes) < CpMaxCalls
  /\ cpSec' = [cpSec EXCEPT !.busy = row[3]]
  /\ cpDeletes' = cpDeletes \cup {[issue |-> row[3], reload |-> cpRoute, live |-> TRUE, n |-> freeIn(cpDeletes)]}
  /\ UNCHANGED cpFetches /\ OnlySection

removeRow_kept(issue) == cpSec.rows

\* Every row with that issue number goes, whatever its organisation.
removeRow(issue) == {r \in cpSec.rows : r[3] # issue}

busyAfter_kept == cpSec.busy

busyAfter == 0

\* The DELETE was acknowledged.  (The repository's own server has no such route
\* and answers 404, withdrawFailed below; the page is written for one that has.)
withdrawOk(d) ==
  /\ d \in cpDeletes /\ (cpLoads = {} \/ roomToLoad)
  /\ cpLoads' = startLoad(d.reload)
  /\ Mounting(cpRoute, [cpView EXCEPT !.state = "loading"],
              IF d.live THEN [cpSec EXCEPT !.rows = removeRow(d.issue), !.busy = busyAfter,
                                           !.gone = @ \cup {d.issue}]
              ELSE cpSec,
              cpDeletes \ {d})

\* Refused, or the answer was lost.
withdrawFailed(d) ==
  /\ d \in cpDeletes
  /\ cpDeletes' = cpDeletes \ {d}
  /\ cpSec' = IF d.live THEN [cpSec EXCEPT !.error = TRUE, !.busy = busyAfter] ELSE cpSec
  /\ UNCHANGED cpFetches /\ OnlySection

CpNext == \/ \E a \in CpAddrs : setAddress(a)
          \/ refreshProfile \/ retryApps
          \/ \E l \in cpLoads, outcome \in {"ok", "404", "fails"} : profileAnswered(l, outcome)
          \/ \E f \in cpFetches, ok \in BOOLEAN : fetchApps(f, ok)
          \/ \E row \in rowsShown : handleWithdraw(row)
          \/ \E d \in cpDeletes : withdrawOk(d) \/ withdrawFailed(d)

-----------------------------------------------------------------------------
\* Type invariant; a row is shown as being withdrawn only while a withdrawal is
\* under way, and the section is mounted exactly where the page shows it.
CpTypeOK == /\ cpRoute \in CpAddrs
            /\ cpView.state \in {"loading", "ready", "not-found", "error"}
            /\ cpSec.rows \subseteq CpPending
            /\ cpSec.busy # 0 => cpDeletes # {}
            /\ cpSec.mounted = (isOwnProfile(cpRoute) /\ profileShown(cpView))

\* The section lists what the list that landed last had, less the rows with an
\* issue number whose withdrawal was acknowledged since: a withdrawal that is
\* refused, that another one overtakes, or that a section unmounted meanwhile asked
\* for takes no row away and brings none back.  (The number is all the page
\* compares, so the row of another organisation goes too, and a list asked for
\* before the withdrawal that lands after it brings the row back.)
CpRowsExact == cpSec.mounted /\ cpSec.loaded
                 => cpSec.rows = {r \in cpSec.read : r[3] \notin cpSec.gone}
=============================================================================
