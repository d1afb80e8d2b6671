-------------------------- MODULE ContributorRoutes --------------------------
(***************************************************************************)
(* GET /api/contributors/:address and its sub-routes for one contributor   *)
(* (src/routes/contributors.ts).  The profile is put together from several *)
(* queries that are not one transaction, while applications become         *)
(* assignments and assignments end.                                        *)
(***************************************************************************)
EXTENDS Integers, FiniteSets, Functions

CONSTANTS
  CrIssues,     \* <<organisation, issue>>
  CrEventMax    \* bound: events of the contributor

ASSUME CrAssumption == CrEventMax \in Nat /\ IsFiniteSet(CrIssues)

VARIABLES
  crApps,    \* rows of table applications
  crAsgs,    \* rows of table assignments
  crEvents,  \* number of rows in contract_events
  crReq      \* the request: what it still has to read, what it has read

crVars == <<crApps, crAsgs, crEvents, crReq>>

CrIdle == [pc |-> "idle", todo |-> {}, apps |-> 0, asgs |-> 0, appOrgs |-> {}, asgOrgs |-> {},
           known |-> FALSE, quiet |-> TRUE, blind |-> FALSE, answer |-> "none"]

CrInit == crApps = {} /\ crAsgs = {} /\ crEvents = 0 /\ crReq = CrIdle

\* The contributor's rows change; every change has its event.  A request under
\* way is not quiet any more.
Write(apps, asgs) == /\ crEvents < CrEventMax
                     /\ crEvents' = crEvents + 1
                     /\ crApps' = apps /\ crAsgs' = asgs
                     /\ crReq' = [crReq EXCEPT !.quiet = FALSE]
RowsChange ==
  \E i \in CrIssues :
    \/ i \notin crApps \cup crAsgs /\ Write(crApps \cup {i}, crAsgs)
    \/ i \in crApps /\ Write(crApps \ {i}, crAsgs)
    \/ i \in crApps /\ Write(crApps \ {i}, crAsgs \cup {i})
    \/ i \in crAsgs /\ Write(crApps, crAsgs \ {i})

Tables == UNCHANGED <<crApps, crAsgs, crEvents>>
Done(a) == crReq' = [crReq EXCEPT !.pc = "idle", !.todo = {}, !.answer = a]

\* GET /:address starts the two counts at once, GET /:address/counts those and
\* the breakdown; the queries of one Promise.all end in any order.
getProfile == /\ crReq.pc = "idle"
              /\ \/ Done("400")
                 \/ \E q \in {[CrIdle EXCEPT !.pc = "profile", !.todo = {"apps", "asgs"}],
                              [CrIdle EXCEPT !.pc = "counts", !.todo = {"apps", "asgs", "appOrgs", "asgOrgs"}]} :
                      crReq' = [q EXCEPT !.known = crEvents > 0]
              /\ Tables

Read(q, v) == /\ q \in crReq.todo
              /\ crReq' = [crReq EXCEPT !.todo = @ \ {q}, ![q] = v]
              /\ Tables

countApplications_joined == Read("apps", Cardinality(crApps \X CrIssues))

countApplications == Read("apps", Cardinality(crApps))
countAssignments == Read("asgs", Cardinality(crAsgs))
readAppOrgs == Read("appOrgs", crApps)
readAsgOrgs == Read("asgOrgs", crAsgs)

isUnknown_noEvents(apps, asgs, events) == apps = 0 /\ asgs = 0

\* Orphan activity: without any row the events decide.
isUnknown(apps, asgs, events) == apps = 0 /\ asgs = 0 /\ events = 0

checkActivity == /\ crReq.pc = "profile" /\ crReq.todo = {}
                 /\ IF isUnknown(crReq.apps, crReq.asgs, crEvents) THEN Done("404")
                    ELSE crReq' = [crReq EXCEPT !.pc = "orgs", !.todo = {"appOrgs", "asgOrgs"}]
                 /\ Tables

\* When the query of the events fails the contributor is taken for unknown.
checkActivityFails == /\ crReq.pc = "profile" /\ crReq.todo = {} /\ crReq.apps = 0 /\ crReq.asgs = 0
                      /\ crReq' = [crReq EXCEPT !.pc = "idle", !.answer = "404", !.blind = TRUE]
                      /\ Tables

orgsOf_appsOnly(apps, asgs) == {i[1] : i \in apps}

orgsOf(apps, asgs) == {i[1] : i \in apps \cup asgs}

getOrgBreakdown(apps, asgs) ==
  [o \in orgsOf(apps, asgs) |-> [applications |-> Cardinality({i \in apps : i[1] = o}),
                                 assignments |-> Cardinality({i \in asgs : i[1] = o})]]

\* The recent events (an error leaves them out) complete the profile.
answerProfile == /\ crReq.pc = "orgs" /\ crReq.todo = {}
                 /\ Done("200")
                 /\ Tables

answerCounts == /\ crReq.pc = "counts" /\ crReq.todo = {}
                /\ Done("200")
                /\ Tables

anyFails == crReq.todo # {} /\ Done("500") /\ Tables

CrNext == \/ RowsChange \/ getProfile \/ countApplications \/ countAssignments
          \/ readAppOrgs \/ readAsgOrgs \/ checkActivity \/ checkActivityFails
          \/ answerProfile \/ answerCounts \/ anyFails

-----------------------------------------------------------------------------
\* Type invariant.
CrTypeOK == /\ crApps \subseteq CrIssues /\ crAsgs \subseteq CrIssues
            /\ crApps \cap crAsgs = {}
            /\ crEvents \in 0..CrEventMax
            /\ {crReq.apps, crReq.asgs} \subseteq 0..Cardinality(CrIssues)

\* A contributor with activity before the request is found, even when an
\* application becomes an assignment between the two counts and both are zero; the
\* exception is a profile whose events cannot be read.
CrKnownIsFound == crReq.answer = "404" /\ ~crReq.blind => ~crReq.known

\* When nothing is written during the request, the per-organisation numbers of
\* the answer add up to its totals.
CrTotalsAgree ==
  crReq.answer = "200" /\ crReq.quiet =>
    LET b == getOrgBreakdown(crReq.appOrgs, crReq.asgOrgs)
    IN /\ SumFunction([o \in DOMAIN b |-> b[o].applications]) = crReq.apps
       /\ SumFunction([o \in DOMAIN b |-> b[o].assignments]) = crReq.asgs
=============================================================================
