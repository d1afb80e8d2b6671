---------------------------- MODULE MaintainerBoard ----------------------------
(***************************************************************************)
(* The maintainer dashboard (frontend/src/pages/MaintainerDashboard.tsx)   *)
(* behind its gate (hooks/useMaintainerAuth.ts): the work items of one     *)
(* organisation, a confirmation dialog, and an optimistic update that is   *)
(* undone when the request fails.  The list endpoint it reads is not part  *)
(* of the repository's server; the endpoint it posts to only builds a      *)
(* transaction, which the page does not sign or submit, so no request      *)
(* changes what the list endpoint answers.  The wallet is connected.       *)
(***************************************************************************)
EXTENDS Naturals, Sequences, SequencesExt

CONSTANTS
  MbOrgs,       \* organisations the page may be given
  MbRoles,      \* those the wallet is a maintainer of
  MbPageSize,   \* PAGE_SIZE
  MbMaxFetches  \* bound on the fetches of one organisation under way together

ASSUME MbAssumption == MbPageSize \in Nat \ {0} /\ MbMaxFetches \in Nat

VARIABLES
  mbOrg,      \* orgId
  mbAuth,     \* authStatus
  mbCheck,    \* the organisation of the check that is not cancelled, or ""
  mbItems,    \* items
  mbView,     \* loading, fetchError, page
  mbFetches,  \* fetches under way per organisation
  mbAsked,    \* pendingAction: <<>> or <<[item, op]>>
  mbExec,     \* the request under way: <<>> or <<[item, op, org, prev]>>
  mbKept,     \* history: the list read last, with what was acknowledged since
  mbRaced     \* history: that list came while a request was under way

mbVars == <<mbOrg, mbAuth, mbCheck, mbItems, mbView, mbFetches, mbAsked, mbExec, mbKept, mbRaced>>

workItem(org, id, type) == [org |-> org, id |-> id, type |-> type]

\* What the list endpoint may answer.
listings(o) == LET a == workItem(o, 1, "application")
                   b == workItem(o, 2, "assignment")
               IN {<<>>, <<b>>, <<a, b>>}

MbInit == /\ mbOrg \in MbOrgs /\ mbAuth = "loading" /\ mbCheck = mbOrg
          /\ mbItems = <<>> /\ mbView = [loading |-> TRUE, failed |-> FALSE, page |-> 1]
          /\ mbFetches = [o \in MbOrgs |-> 0]
          /\ mbAsked = <<>> /\ mbExec = <<>> /\ mbKept = <<>> /\ mbRaced = FALSE

-----------------------------------------------------------------------------
(* useMaintainerAuth and fetchItems. *)

StartFetch(o) == /\ mbFetches' = [mbFetches EXCEPT ![o] = @ + 1]
                 /\ mbView' = [mbView EXCEPT !.loading = TRUE, !.failed = FALSE]

cancelled_ignored(o) == IF mbCheck = "" THEN o ELSE mbCheck

\* The cleanup of the effect: only the check of the new organisation counts.
cancelled(o) == o

\* The status of the old organisation is still the one fetchItems sees when its
\* effect runs, so it asks for the new one before the role is known.
setOrgId(o) ==
  /\ o # mbOrg /\ mbFetches[o] < MbMaxFetches
  /\ mbOrg' = o /\ mbAuth' = "loading" /\ mbCheck' = cancelled(o)
  /\ IF mbAuth = "authorized" THEN StartFetch(o) ELSE UNCHANGED <<mbFetches, mbView>>
  /\ UNCHANGED <<mbItems, mbAsked, mbExec, mbKept, mbRaced>>

checkMaintainerRole ==
  /\ mbCheck # "" /\ mbFetches[mbOrg] < MbMaxFetches
  /\ mbCheck' = ""
  /\ IF mbCheck \in MbRoles THEN mbAuth' = "authorized" /\ StartFetch(mbOrg)
     ELSE mbAuth' = "forbidden" /\ UNCHANGED <<mbFetches, mbView>>
  /\ UNCHANGED <<mbOrg, mbItems, mbAsked, mbExec, mbKept, mbRaced>>

\* Nothing ever sets "cancelled" of fetchItems: a late answer is applied too.
fetchEnds(o, ok) ==
  /\ mbFetches[o] > 0
  /\ mbFetches' = [mbFetches EXCEPT ![o] = @ - 1]
  /\ IF ok THEN /\ mbItems' \in listings(o)
                /\ mbKept' = mbItems' /\ mbRaced' = (mbExec # <<>>)
     ELSE UNCHANGED <<mbItems, mbKept, mbRaced>>
  /\ mbView' = [mbView EXCEPT !.loading = FALSE, !.failed = @ \/ ~ok]
  /\ UNCHANGED <<mbOrg, mbAuth, mbCheck, mbAsked, mbExec>>

retryFetch == /\ mbAuth = "authorized" /\ mbView.failed /\ ~mbView.loading /\ mbFetches[mbOrg] < MbMaxFetches
              /\ StartFetch(mbOrg)
              /\ UNCHANGED <<mbOrg, mbAuth, mbCheck, mbItems, mbAsked, mbExec, mbKept, mbRaced>>

-----------------------------------------------------------------------------
(* The table, its pages and the dialog. *)

lastPage == (Len(mbItems) + MbPageSize - 1) \div MbPageSize
tableShown == mbAuth = "authorized" /\ ~mbView.loading /\ ~mbView.failed /\ mbItems # <<>>
pageItems == SubSeq(mbItems, (mbView.page - 1) * MbPageSize + 1,
                    IF mbView.page * MbPageSize > Len(mbItems) THEN Len(mbItems) ELSE mbView.page * MbPageSize)

nextEnabled_always == TRUE

nextEnabled == mbView.page # lastPage

\* No buttons at all when there is one page.
Pagination == /\ tableShown /\ mbAsked = <<>> /\ lastPage > 1
              /\ \/ mbView.page # 1 /\ mbView' = [mbView EXCEPT !.page = @ - 1]
                 \/ nextEnabled /\ mbView' = [mbView EXCEPT !.page = @ + 1]
              /\ UNCHANGED <<mbOrg, mbAuth, mbCheck, mbItems, mbFetches, mbAsked, mbExec, mbKept, mbRaced>>

rowActions(item) == IF item.type = "application" THEN {"assign"} ELSE {"complete", "revoke"}

requestAction == /\ tableShown /\ mbAsked = <<>> /\ mbExec = <<>>
                 /\ \E i \in DOMAIN pageItems : \E op \in rowActions(pageItems[i]) :
                      mbAsked' = <<[item |-> pageItems[i], op |-> op]>>
                 /\ UNCHANGED <<mbOrg, mbAuth, mbCheck, mbItems, mbView, mbFetches, mbExec, mbKept, mbRaced>>

cancelAction == /\ mbAuth = "authorized" /\ mbAsked # <<>> /\ mbExec = <<>>
                /\ mbAsked' = <<>>
                /\ UNCHANGED <<mbOrg, mbAuth, mbCheck, mbItems, mbView, mbFetches, mbExec, mbKept, mbRaced>>

\* What an action makes of the list.
applied(list, item, op) ==
  IF op = "assign"
  THEN [i \in DOMAIN list |-> IF list[i].id = item.id THEN [list[i] EXCEPT !.type = "assignment"] ELSE list[i]]
  ELSE LET others == {x \in ToSet(list) : x.id # item.id}
       IN FoldLeft(LAMBDA kept, x : IF x \in others THEN Append(kept, x) ELSE kept, <<>>, list)

executeAction == /\ mbAuth = "authorized" /\ mbAsked # <<>> /\ mbExec = <<>>
                 /\ LET a == mbAsked[1]
                    IN /\ mbExec' = <<[item |-> a.item, op |-> a.op, org |-> mbOrg, prev |-> mbItems]>>
                       /\ mbItems' = applied(mbItems, a.item, a.op)
                 /\ UNCHANGED <<mbOrg, mbAuth, mbCheck, mbView, mbFetches, mbAsked, mbKept, mbRaced>>

revert_dropped(prev, ok) == mbItems

revert(prev, ok) == IF ok THEN mbItems ELSE prev

\* The answer says whether the transaction could be built.
actionEnds(ok) ==
  /\ mbExec # <<>>
  /\ LET e == mbExec[1]
     IN /\ mbItems' = revert(e.prev, ok)
        /\ mbKept' = IF ok THEN applied(mbKept, e.item, e.op) ELSE mbKept
  /\ mbExec' = <<>> /\ mbAsked' = <<>>
  /\ UNCHANGED <<mbOrg, mbAuth, mbCheck, mbView, mbFetches, mbRaced>>

MbNext == \/ checkMaintainerRole \/ retryFetch \/ Pagination \/ requestAction \/ cancelAction \/ executeAction
          \/ \E o \in MbOrgs : setOrgId(o) \/ \E ok \in BOOLEAN : fetchEnds(o, ok)
          \/ \E ok \in BOOLEAN : actionEnds(ok)

-----------------------------------------------------------------------------
\* Type invariant; a request under way keeps its dialog on the screen.
MbTypeOK == /\ mbOrg \in MbOrgs /\ mbCheck \in MbOrgs \cup {""}
            /\ mbAuth \in {"loading", "authorized", "forbidden"}
            /\ mbFetches \in [MbOrgs -> 0..MbMaxFetches]
            /\ mbView.page \in 1..2
            /\ mbExec # <<>> => mbAsked # <<>>

\* Requests go out only for an organisation the wallet is a maintainer of: the
\* answer about the organisation shown before never opens the board of another.
MbRoleHeld == \A i \in DOMAIN mbExec : mbExec[i].org \in MbRoles

\* At rest the board shows the list it read last with exactly the acknowledged actions
\* done since: a failed request leaves no trace of its optimistic update and takes
\* away no other.  Not so for a list that came while a request was under way, which
\* may happen after a change of the organisation.  An action shown as done has only
\* been built: the contract has not seen it, and the next list brings the item back.
MbRestExact == (mbExec = <<>> /\ ~mbRaced) => mbItems = mbKept
=============================================================================
