---------------------------- MODULE MaintainerDesk ----------------------------
(***************************************************************************)
(* The maintainer page of one organisation                                 *)
(* (frontend/src/pages/MaintainerPage.tsx) on the contract wrapper         *)
(* (hooks/useContract.ts), behind hooks/useMaintainerCheck.ts.  Nothing is *)
(* optimistic here: after each call the two lists are read again.  The     *)
(* route may move to another organisation while the page stays mounted.    *)
(***************************************************************************)
EXTENDS Naturals, FiniteSets

CONSTANTS
  MgIssues,   \* issues with one contributor each
  MgRoles,    \* organisations the wallet is a maintainer of
  MgMaxCalls  \* bound on the calls under way at the same time

VARIABLES
  mgChain,    \* the contract: organisation -> issue -> none, pending, assigned
  mgOrg,      \* org_id of the route, or MgForbidden after the redirect
  mgVerify,   \* organisations whose verify() is under way
  mgChecked,  \* checked
  mgLists,    \* applications and assignments
  mgLoads,    \* loads under way: who started them and what they have read
  mgLoading,  \* loading
  mgCalls,    \* handlers under way: in the contract call, or in the load after it
  mgBusy,     \* busy, or 0
  mgRevoke,   \* revokeTarget, or 0
  mgMoved,    \* history: the route moved (at most once, a bound)
  mgCalm      \* history: no two loads overlapped and none failed

mgVars == <<mgChain, mgOrg, mgVerify, mgChecked, mgLists, mgLoads, mgLoading, mgCalls, mgBusy, mgRevoke, mgMoved, mgCalm>>

MgOrgs == {"own", "other"}
MgForbidden == "/403"
chainLists(org) == [apps |-> {i \in MgIssues : mgChain[org][i] = "pending"},
                    asgs |-> {i \in MgIssues : mgChain[org][i] = "assigned"}]
NoLists == [apps |-> {}, asgs |-> {}]
\* by = 0: the effect; otherwise the call whose handler waits for it.
newLoad(by, org) == [by |-> by, org |-> org, read |-> FALSE, lists |-> NoLists]

MgInit == /\ mgChain = [o \in MgOrgs |-> [i \in MgIssues |-> "pending"]]
          /\ mgOrg \in MgOrgs /\ mgVerify = {mgOrg} /\ mgChecked = FALSE
          /\ mgLists = NoLists /\ mgLoads = {} /\ mgLoading = FALSE /\ mgCalls = {} /\ mgBusy = 0 /\ mgRevoke = 0
          /\ mgMoved = FALSE /\ mgCalm = TRUE

AddLoad(by, org) == /\ mgLoading' = TRUE
               /\ mgLoads' = mgLoads \cup {newLoad(by, org)}
               /\ mgCalm' = (mgCalm /\ mgLoads = {})

-----------------------------------------------------------------------------
(* useMaintainerCheck. *)

\* checked is never taken back, so the effect of load runs for the new route.
setRoute(org) ==
  /\ mgOrg \in MgOrgs \ {org} /\ ~mgMoved
  /\ mgOrg' = org /\ mgVerify' = mgVerify \cup {org}
  /\ IF mgChecked THEN AddLoad(0, org) ELSE UNCHANGED <<mgLoads, mgLoading, mgCalm>>
  /\ mgMoved' = TRUE
  /\ UNCHANGED <<mgChain, mgChecked, mgLists, mgCalls, mgBusy, mgRevoke>>

verdict_errorIgnored(org, answered) == IF answered /\ org \notin MgRoles THEN "redirect" ELSE "checked"

verdict(org, answered) == IF answered /\ org \in MgRoles THEN "checked" ELSE "redirect"

\* An error is a refusal.  The answer about another organisation counts as well.
verify(org, answered) ==
  /\ org \in mgVerify /\ mgOrg # MgForbidden
  /\ mgVerify' = mgVerify \ {org}
  /\ IF verdict(org, answered) = "checked"
     THEN /\ mgChecked' = TRUE /\ UNCHANGED <<mgOrg, mgCalls, mgBusy, mgRevoke>>
          /\ IF mgChecked THEN UNCHANGED <<mgLoads, mgLoading, mgCalm>> ELSE AddLoad(0, mgOrg)
     ELSE /\ mgOrg' = MgForbidden /\ mgChecked' = FALSE /\ mgLoads' = {} /\ mgCalls' = {}
          /\ mgLoading' = FALSE /\ mgBusy' = 0 /\ mgRevoke' = 0
          /\ UNCHANGED mgCalm
  /\ UNCHANGED <<mgChain, mgLists, mgMoved>>

-----------------------------------------------------------------------------
(* load. *)

loadReads(l) == /\ l \in mgLoads /\ ~l.read
                /\ mgLoads' = (mgLoads \ {l}) \cup {[l EXCEPT !.read = TRUE, !.lists = chainLists(l.org)]}
                /\ UNCHANGED <<mgChain, mgOrg, mgVerify, mgChecked, mgLists, mgLoading, mgCalls, mgBusy, mgRevoke, mgCalm, mgMoved>>

\* load swallows its own error; the handler that waited goes on to its finally.
loadEnds(l, ok) ==
  /\ l \in mgLoads /\ (ok => l.read)
  /\ mgLoads' = mgLoads \ {l} /\ mgLoading' = FALSE
  /\ mgLists' = IF ok THEN l.lists ELSE mgLists
  /\ mgCalls' = {c \in mgCalls : c.n # l.by}
  /\ mgBusy' = IF l.by # 0 THEN 0 ELSE mgBusy
  /\ mgCalm' = (mgCalm /\ ok)
  /\ UNCHANGED <<mgChain, mgOrg, mgVerify, mgChecked, mgRevoke, mgMoved>>

-----------------------------------------------------------------------------
(* handleAssign, handleComplete, handleRevokeConfirm. *)

pageShown == mgChecked /\ mgOrg \in MgOrgs /\ ~mgLoading

openRevoke == /\ pageShown /\ mgRevoke = 0
              /\ \E i \in mgLists.asgs : mgBusy # i /\ mgRevoke' = i
              /\ UNCHANGED <<mgChain, mgOrg, mgVerify, mgChecked, mgLists, mgLoads, mgLoading, mgCalls, mgBusy, mgCalm, mgMoved>>

closeRevoke == /\ mgRevoke # 0 /\ mgRevoke' = 0
               /\ UNCHANGED <<mgChain, mgOrg, mgVerify, mgChecked, mgLists, mgLoads, mgLoading, mgCalls, mgBusy, mgCalm, mgMoved>>

\* The buttons of the busy row are disabled, those of the other rows are not.
buttonFor(i, op) == CASE op = "assign"   -> pageShown /\ mgRevoke = 0 /\ i \in mgLists.apps /\ mgBusy # i
                      [] op = "complete" -> pageShown /\ mgRevoke = 0 /\ i \in mgLists.asgs /\ mgBusy # i
                      [] op = "revoke"   -> mgRevoke = i

handleCall(i, op, n) ==
  /\ buttonFor(i, op) /\ \A c \in mgCalls : c.n # n
  /\ mgBusy' = i
  /\ mgRevoke' = IF op = "revoke" THEN 0 ELSE mgRevoke
  /\ mgCalls' = mgCalls \cup {[n |-> n, issue |-> i, op |-> op, org |-> mgOrg, phase |-> "call"]}
  /\ UNCHANGED <<mgChain, mgOrg, mgVerify, mgChecked, mgLists, mgLoads, mgLoading, mgCalm, mgMoved>>

afterCall_noReload(c) == /\ mgCalls' = mgCalls \ {c} /\ mgBusy' = 0
                         /\ UNCHANGED <<mgLoads, mgLoading, mgCalm>>

\* await load() belongs to the handler; on the page of another organisation the
\* load of the handler's own closure is for the old one.
afterCall(c) == /\ mgCalls' = (mgCalls \ {c}) \cup {[c EXCEPT !.phase = "load"]}
                /\ AddLoad(c.n, c.org)
                /\ UNCHANGED mgBusy

finally_stuck == mgBusy

finally == 0

callAnswered(c) ==
  /\ c \in mgCalls /\ c.phase = "call"
  /\ \/ /\ c.org \in MgRoles
        /\ mgChain[c.org][c.issue] = IF c.op = "assign" THEN "pending" ELSE "assigned"
        /\ mgChain' = [mgChain EXCEPT ![c.org][c.issue] = IF c.op = "assign" THEN "assigned" ELSE "none"]
        /\ afterCall(c)
     \/ mgCalls' = mgCalls \ {c} /\ mgBusy' = finally /\ UNCHANGED <<mgChain, mgLoads, mgLoading, mgCalm>>
  /\ UNCHANGED <<mgOrg, mgVerify, mgChecked, mgLists, mgRevoke, mgMoved>>

MgProgress == \E org \in MgOrgs, answered \in BOOLEAN : verify(org, answered)

MgNext == \/ openRevoke \/ closeRevoke \/ MgProgress
          \/ \E org \in MgOrgs : setRoute(org)
          \/ \E l \in mgLoads : loadReads(l) \/ \E ok \in BOOLEAN : loadEnds(l, ok)
          \/ \E i \in MgIssues, op \in {"assign", "complete", "revoke"}, n \in 1..MgMaxCalls : handleCall(i, op, n)
          \/ \E c \in mgCalls : callAnswered(c)

-----------------------------------------------------------------------------
\* Type invariant; a busy row belongs to a call that is still under way.
MgTypeOK == /\ mgOrg \in MgOrgs \cup {MgForbidden} /\ mgVerify \subseteq MgOrgs
            /\ mgChain \in [MgOrgs -> [MgIssues -> {"none", "pending", "assigned"}]]
            /\ mgLists.apps \subseteq MgIssues /\ mgLists.asgs \subseteq MgIssues
            /\ mgBusy # 0 => \E c \in mgCalls : c.issue = mgBusy

\* The page at rest shows the contract: an action that succeeded is in the lists
\* once its handler is done, unless two loads overlapped, one failed or the
\* route moved.
MgReread == (mgCalm /\ ~mgMoved /\ pageShown /\ mgCalls = {}) => mgLists = chainLists(mgOrg)

\* A wallet that is not a maintainer does not stay on the page.
MgStrangerLeaves == (mgOrg = "other") ~> (mgOrg # "other")
=============================================================================
