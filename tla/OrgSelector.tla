---------------------------- MODULE OrgSelector ----------------------------
(***************************************************************************)
(* The searchable organisation dropdown (frontend/src/components/          *)
(* OrgSelector.tsx).  Its selection is kept in the query parameter "org"   *)
(* of the URL; what is typed only filters.                                 *)
(***************************************************************************)
EXTENDS Integers, Sequences, SequencesExt

CONSTANTS
  OsOrgs,       \* organisations the API answers, in order
  OsQueries,    \* texts that can be typed
  OsMatches(_, _)  \* name or id of an organisation includes the text

ASSUME OsAssumption == /\ OsOrgs \in Seq(ToSet(OsOrgs))
                       /\ \A o \in ToSet(OsOrgs) : OsMatches(o, "")

VARIABLES
  osUrl,      \* query parameter: "" or an organisation
  osOrgs,     \* orgs
  osLoading,  \* loading
  osQuery,    \* query: a typed text, or the name of an organisation
  osOpen,     \* open
  osActive,   \* activeIndex, -1 when none
  osSelected, \* selectedOrg.id
  osSent      \* history: the last id given to onSelect, {} before the first

osVars == <<osUrl, osOrgs, osLoading, osQuery, osOpen, osActive, osSelected, osSent>>

AllOrgs == ""

OsInit == /\ osUrl \in ToSet(OsOrgs) \cup {AllOrgs, "gone"}
          /\ osOrgs = <<>> /\ osLoading = TRUE
          /\ osQuery = "" /\ osOpen = FALSE /\ osActive = -1 /\ osSelected = AllOrgs
          /\ osSent = {}

\* fetchOrgs answers, with an empty list on failure; the effect on [orgs] then
\* resolves the organisation of the URL.
fetchOrgs == /\ osLoading /\ osLoading' = FALSE
             /\ \E list \in {OsOrgs, <<>>} :
                  /\ osOrgs' = list
                  /\ IF osUrl # AllOrgs /\ Contains(list, osUrl)
                       THEN osSelected' = osUrl /\ osQuery' = osUrl
                       ELSE UNCHANGED <<osSelected, osQuery>>
             /\ UNCHANGED <<osUrl, osOpen, osActive, osSent>>

\* "All Orgs" and the organisations the text matches.
filtered(query) ==
  LET found == {o \in ToSet(osOrgs) : OsMatches(o, query)}
  IN <<AllOrgs>> \o FoldLeft(LAMBDA kept, o : IF o \in found THEN Append(kept, o) ELSE kept, <<>>, osOrgs)

OnlyList == UNCHANGED <<osUrl, osOrgs, osLoading, osSelected, osSent>>

\* Focus opens the list with an empty text.
onFocus == /\ ~osLoading
           /\ osOpen' = TRUE /\ osQuery' = "" /\ UNCHANGED osActive /\ OnlyList

activeAfterTyping_kept == osActive

activeAfterTyping == 0

onType(q) == /\ ~osLoading
             /\ osQuery' = q /\ osOpen' = TRUE /\ osActive' = activeAfterTyping /\ OnlyList

\* Arrow keys, clamped to the list.
ArrowDown == /\ ~osLoading /\ osOpen' = TRUE
             /\ osActive' = IF ~osOpen THEN 0
                            ELSE IF osActive + 1 < Len(filtered(osQuery)) THEN osActive + 1
                            ELSE Len(filtered(osQuery)) - 1
             /\ UNCHANGED osQuery /\ OnlyList
ArrowUp == /\ ~osLoading
           /\ osActive' = IF osActive > 0 THEN osActive - 1 ELSE 0
           /\ UNCHANGED <<osQuery, osOpen>> /\ OnlyList

hover(i) == /\ osOpen /\ i < Len(filtered(osQuery))
            /\ osActive' = i /\ UNCHANGED <<osQuery, osOpen>> /\ OnlyList

urlAfter_kept(org) == IF org = AllOrgs THEN osUrl ELSE org

\* setSearchParams: the parameter is set, or deleted for "All Orgs".
urlAfter(org) == org

selectOrg(org) == /\ osSelected' = org /\ osQuery' = org
                  /\ osOpen' = FALSE /\ osActive' = -1
                  /\ osUrl' = urlAfter(org) /\ osSent' = {org}
                  /\ UNCHANGED <<osOrgs, osLoading>>

\* Enter selects the active option, or toggles the list.
Enter == IF osOpen /\ osActive >= 0 /\ osActive < Len(filtered(osQuery))
         THEN selectOrg(filtered(osQuery)[osActive + 1])
         ELSE /\ ~osLoading /\ osOpen' = ~osOpen
              /\ UNCHANGED <<osQuery, osActive>> /\ OnlyList

clickOption == osOpen /\ \E i \in DOMAIN filtered(osQuery) : selectOrg(filtered(osQuery)[i])

\* Escape with the list open, and a click outside, restore the selection's name.
closeList == /\ osOpen' = FALSE /\ osActive' = -1 /\ osQuery' = osSelected /\ OnlyList
Escape == osOpen /\ closeList
handleClickOutside == closeList

Tab == /\ osOpen /\ osOpen' = FALSE /\ UNCHANGED <<osQuery, osActive>> /\ OnlyList

OsNext == \/ fetchOrgs \/ onFocus \/ ArrowDown \/ ArrowUp \/ Enter \/ clickOption
          \/ Escape \/ handleClickOutside \/ Tab
          \/ \E q \in OsQueries : onType(q)
          \/ \E i \in 0..Len(OsOrgs) : hover(i)

-----------------------------------------------------------------------------
\* Type invariant; the active option of an open list is one of its options, so
\* that aria-activedescendant names an element and Enter has something to take.
OsTypeOK == /\ osOpen => osActive < Len(filtered(osQuery))
            /\ osActive >= -1
            /\ osQuery \in OsQueries \cup ToSet(OsOrgs) \cup {""}
            /\ osSelected \in ToSet(OsOrgs) \cup {AllOrgs}

\* The selection, the URL and what onSelect was told agree: once something was
\* selected all three are the same, before that an organisation named by the
\* URL is selected as soon as the list knows it.
OsSelectionAgrees == /\ \A org \in osSent : osSelected = org /\ osUrl = org
                     /\ (osSent = {} /\ Contains(osOrgs, osUrl)) => osSelected = osUrl
=============================================================================
