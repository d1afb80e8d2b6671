-------------------------- MODULE ActiveAssignments -------------------------
(***************************************************************************)
(* The assignments of a contributor                                        *)
(* (components/ActiveAssignmentsDashboard.tsx on                           *)
(* hooks/useActiveAssignments.ts): for each organisation one call for the  *)
(* count and one for the list, of a contract client that a script outside  *)
(* the repository may have put on the page, with any of its methods, while *)
(* maintainers assign and complete, and a load that goes on when the       *)
(* wallet changes.                                                         *)
(***************************************************************************)
EXTENDS Integers, Sequences, FiniteSets, SequencesExt

CONSTANTS
  AaWho,      \* contributors
  AaOrgs,     \* list_orgs(): a sequence
  AaMaxLoads, AaMaxChanges   \* bounds: loads under way together, changes on chain

ASSUME AaAssumption == /\ AaMaxLoads \in Nat \ {0} /\ AaMaxChanges \in Nat
                       /\ AaOrgs \in Seq(Range(AaOrgs)) /\ "null" \notin AaWho

AaMethods == {"list_orgs", "get_org_assignment_count", "list_org_assignments"}

VARIABLES
  aaClient,   \* methods of globalThis.__contract_client__; {} also when there is none
  aaChain,    \* assignments on chain: <<contributor, org>>, one issue each
  aaChanges,  \* changes so far
  aaWho,      \* contributor, or "null"
  aaGroups,   \* groups: [org, count, rows]
  aaState,    \* loadState
  aaLoads,    \* loads under way: [n, who, at, count, groups]; count is -1 before it is read
  aaTouched   \* history: chain or wallet changed since the load that filled the groups began

aaVars == <<aaClient, aaChain, aaChanges, aaWho, aaGroups, aaState, aaLoads, aaTouched>>

AaNone == -1

AaInit == /\ aaClient \in SUBSET AaMethods
          /\ aaChain \in {{}, {<<w, AaOrgs[1]>> : w \in AaWho}} /\ aaChanges = 0
          /\ aaWho = "null" /\ aaGroups = <<>> /\ aaState = "idle" /\ aaLoads = {} /\ aaTouched = FALSE

onChain(who, org) == {x \in aaChain : x = <<who, org>>}

\* A missing method stands for no organisations, for the count 0 and for no rows.
listed == IF "list_orgs" \in aaClient THEN AaOrgs ELSE <<>>

countRead(who, org) == IF "get_org_assignment_count" \in aaClient THEN Cardinality(onChain(who, org)) ELSE 0

rowsRead(who, org) == IF "list_org_assignments" \in aaClient THEN onChain(who, org) ELSE {}

-----------------------------------------------------------------------------
\* A maintainer assigns, completes or revokes.
AaChange == /\ aaChanges < AaMaxChanges /\ aaChanges' = aaChanges + 1
            /\ \E x \in AaWho \X {AaOrgs[k] : k \in DOMAIN AaOrgs} :
                 aaChain' = IF x \in aaChain THEN aaChain \ {x} ELSE aaChain \cup {x}
            /\ aaTouched' = TRUE
            /\ UNCHANGED <<aaClient, aaWho, aaGroups, aaState, aaLoads>>

\* load() of the present contributor; nothing stops the loads under way.
loadGroups(who) ==
  /\ IF who = "null" THEN aaGroups' = <<>> /\ aaState' = "idle" /\ UNCHANGED aaLoads
     ELSE /\ aaState' = "loading" /\ UNCHANGED aaGroups
          /\ \E n \in 1..AaMaxLoads :
               /\ \A l \in aaLoads : l.n # n
               /\ aaLoads' = aaLoads \cup {[n |-> n, who |-> who, at |-> 1, count |-> AaNone, groups |-> <<>>]}
  /\ aaTouched' = (aaLoads # {})

setWallet(who) == /\ who # aaWho /\ aaWho' = who /\ loadGroups(who)
                  /\ UNCHANGED <<aaClient, aaChain, aaChanges>>

\* Refresh and Retry are shown when no load is known to be under way.
reloadGroups == /\ aaWho # "null" /\ aaState \in {"loaded", "error"}
                /\ loadGroups(aaWho)
                /\ UNCHANGED <<aaClient, aaChain, aaChanges, aaWho>>

get_org_assignment_count(l) ==
  /\ l \in aaLoads /\ l.at \in DOMAIN listed /\ l.count = AaNone
  /\ aaLoads' = (aaLoads \ {l}) \cup {[l EXCEPT !.count = countRead(l.who, listed[l.at])]}
  /\ UNCHANGED <<aaClient, aaChain, aaChanges, aaWho, aaGroups, aaState, aaTouched>>

list_org_assignments(l) ==
  /\ l \in aaLoads /\ l.at \in DOMAIN listed /\ l.count # AaNone
  /\ LET g == [org |-> listed[l.at], count |-> l.count, rows |-> rowsRead(l.who, listed[l.at])]
     IN aaLoads' = (aaLoads \ {l}) \cup {[l EXCEPT !.at = @ + 1, !.count = AaNone, !.groups = Append(@, g)]}
  /\ UNCHANGED <<aaClient, aaChain, aaChanges, aaWho, aaGroups, aaState, aaTouched>>

keepGroup_all(g) == g.count >= 0

keepGroup(g) == g.count > 0

stateAfter_kept(ok) == aaState

stateAfter(ok) == IF ok THEN "loaded" ELSE "error"

\* groups.filter
withoutGroups(groups, empty) == SelectSeq(groups, LAMBDA g : g \notin empty)

groupsLoaded(l) == /\ l \in aaLoads /\ l.at = Len(listed) + 1
                   /\ aaGroups' = withoutGroups(l.groups, {g \in Range(l.groups) : ~keepGroup(g)})
                   /\ aaState' = stateAfter(TRUE) /\ aaLoads' = aaLoads \ {l}
                   /\ UNCHANGED <<aaClient, aaChain, aaChanges, aaWho, aaTouched>>

\* A call of the client throws: the groups shown before stay in memory.
groupsFailed(l) == /\ l \in aaLoads
                   /\ aaState' = stateAfter(FALSE) /\ aaLoads' = aaLoads \ {l}
                   /\ UNCHANGED <<aaClient, aaChain, aaChanges, aaWho, aaGroups, aaTouched>>

\* What the component renders.
assignmentsShown == CASE aaWho = "null" -> "connect"
                      [] aaWho # "null" /\ aaState \in {"idle", "loading"} -> "skeleton"
                      [] aaWho # "null" /\ aaState = "error" -> "error"
                      [] aaWho # "null" /\ aaState = "loaded" /\ aaGroups = <<>> -> "empty"
                      [] OTHER -> "groups"

AaNext == \/ AaChange \/ reloadGroups
          \/ \E who \in AaWho \cup {"null"} : setWallet(who)
          \/ \E l \in aaLoads : \/ get_org_assignment_count(l) \/ list_org_assignments(l)
                                \/ groupsLoaded(l) \/ groupsFailed(l)

-----------------------------------------------------------------------------
\* Type invariant; a skeleton means a load under way, so it does not stay.
AaTypeOK == /\ aaWho \in AaWho \cup {"null"} /\ aaState \in {"idle", "loading", "loaded", "error"}
            /\ assignmentsShown = "skeleton" => aaLoads # {}

\* What is shown to a connected contributor is what the chain has, with one bar for
\* each organisation with assignments, unless the chain or the wallet changed since.
\* The client decides how much that is: without one, or without the list or the count,
\* "no assignments" is shown whatever the chain has; without the rows, bars only.
AaExact == (assignmentsShown \in {"groups", "empty"} /\ ~aaTouched) =>
  LET seen(org) == IF "get_org_assignment_count" \in aaClient THEN onChain(aaWho, org) ELSE {}
      bar(org) == [org |-> org, count |-> Cardinality(seen(org)),
                   rows |-> IF "list_org_assignments" \in aaClient THEN onChain(aaWho, org) ELSE {}]
      all == [k \in DOMAIN listed |-> bar(listed[k])]
  IN aaGroups = withoutGroups(all, {g \in Range(all) : seen(g.org) = {}})
=============================================================================
