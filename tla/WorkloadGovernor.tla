-------------------------- MODULE WorkloadGovernor --------------------------
(***************************************************************************)
(* The WorkloadGovernor Soroban contract (src/lib.rs, src/storage.rs): a   *)
(* cap on a contributor's pending applications over all organisations, and *)
(* a cap on its active assignments inside each organisation.               *)
(*                                                                         *)
(* One action is one successful invocation.  The host rolls back every     *)
(* invocation that panics, so a failing call is a stuttering step; which   *)
(* error it raises, in the order of the code's checks, is what the         *)
(* operators <call>_error return.  require_auth() of an address is the     *)
(* host's business: the caller of an action is the address it must be.     *)
(*                                                                         *)
(* Temporary entries are the hard part.  Each one (an application          *)
(* sentinel, a contributor's counter) has a time to live of its own and is *)
(* deleted by the host when it runs out, without any code of the contract  *)
(* running.  The model keeps the number of ledgers an entry is still       *)
(* readable in, the current one included (live_until - now + 1); 0 is an   *)
(* absent entry.                                                           *)
(***************************************************************************)
EXTENDS Integers, FiniteSets

CONSTANTS
  Address,               \* contributors, maintainers and the admin
  OrgId,                 \* organisation symbols
  IssueId,               \* u32 issue numbers
  NoAdmin,               \* the absent admin entry
  APP_TTL_LEDGERS,       \* storage.rs: 17_280
  INSTANCE_TTL_LEDGERS,  \* storage.rs: 518_400
  MIN_PERSISTENT_TTL,    \* network setting: ledgers granted on deploy / restore
  GLOBAL_APP_LIMIT,      \* storage.rs: 15
  GLOBAL_CAP_MAX,        \* lib.rs: the literal 100
  ORG_ASSIGNMENT_LIMIT,  \* storage.rs: 4
  ORG_CAP_MIN,           \* lib.rs: 1
  ORG_CAP_MAX            \* lib.rs: 20

ASSUME KeysFinite ==
  IsFiniteSet(Address) /\ IsFiniteSet(OrgId) /\ IsFiniteSet(IssueId)

ASSUME AdminAssumption == NoAdmin \notin Address

\* APP_TTL_MIN is 1; the network's minimum temporary TTL never exceeds
\* APP_TTL_LEDGERS, so every entry lives exactly as long as the code asks for.
ASSUME TtlAssumption ==
  /\ APP_TTL_LEDGERS \in Nat \ {0}
  /\ INSTANCE_TTL_LEDGERS \in Nat \ {0}
  /\ MIN_PERSISTENT_TTL \in Nat \ {0}

ASSUME CapAssumption ==
  /\ GLOBAL_CAP_MAX \in Nat /\ GLOBAL_APP_LIMIT \in 0..GLOBAL_CAP_MAX
  /\ ORG_CAP_MIN \in Nat /\ ORG_CAP_MAX \in Nat
  /\ ORG_ASSIGNMENT_LIMIT \in ORG_CAP_MIN..ORG_CAP_MAX

VARIABLES
  admin,        \* persistent "admin": an address or NoAdmin
  maintainers,  \* persistent "maint": the registered <<maintainer, org>> pairs
  globalCap,    \* persistent "g_cap", GLOBAL_APP_LIMIT when absent
  orgCap,       \* persistent "o_cap", ORG_ASSIGNMENT_LIMIT when absent
  appTtl,       \* temporary "app": remaining ledgers of each sentinel
  appCount,     \* temporary "g_apps": value, 0 when absent
  appCountTtl,  \* temporary "g_apps": remaining ledgers
  asgn,         \* persistent "asgn": the <<org, issue, contributor>> sentinels
  asgnCount,    \* persistent "o_asgn": value, 0 when absent
  instanceTtl   \* remaining ledgers of the contract instance

persistent == <<admin, maintainers, globalCap, orgCap>>
temporary  == <<appTtl, appCount, appCountTtl>>
vars == <<persistent, temporary, asgn, asgnCount, instanceTtl>>

Slot == OrgId \X IssueId

\* ledgers an entry is readable in after extend_ttl(key, TTL, TTL)
APP_TTL == APP_TTL_LEDGERS + 1

TypeOK ==
  /\ admin \in Address \cup {NoAdmin}
  /\ maintainers \subseteq Address \X OrgId
  /\ globalCap \in 0..GLOBAL_CAP_MAX
  /\ orgCap \in [OrgId -> ORG_CAP_MIN..ORG_CAP_MAX]
  /\ appTtl \in [Address -> [Slot -> 0..APP_TTL]]
  /\ appCount \in [Address -> Nat]
  /\ appCountTtl \in [Address -> 0..APP_TTL]
  /\ asgn \subseteq OrgId \X IssueId \X Address
  /\ asgnCount \in [Address -> [OrgId -> Nat]]
  /\ instanceTtl \in Nat

-----------------------------------------------------------------------------
(* storage.rs *)

has_app_entry(c, o, i) == appTtl[c][<<o, i>>] > 0

has_assignment(o, i, c) == <<o, i, c>> \in asgn

is_maintainer(m, o) == <<m, o>> \in maintainers

saturating_sub(m, n) == IF m > n THEN m - n ELSE 0

\* extend_ttl(threshold = TTL / 2, extend_to = TTL) of the instance entry
bump_instance ==
  instanceTtl' = IF instanceTtl - 1 <= INSTANCE_TTL_LEDGERS \div 2
                 THEN INSTANCE_TTL_LEDGERS + 1
                 ELSE instanceTtl

\* the host invokes a contract only while its instance entry is live
Invocable == instanceTtl > 0

\* remove the sentinel, then decrement the counter: the tail shared by
\* withdraw_application and assign_issue.  Writing a live entry keeps its TTL.
consume_application(c, o, i) ==
  LET n == saturating_sub(appCount[c], 1) IN
  /\ appTtl' = [appTtl EXCEPT ![c][<<o, i>>] = 0]
  /\ appCount' = [appCount EXCEPT ![c] = n]
  /\ appCountTtl' = IF n = 0 THEN [appCountTtl EXCEPT ![c] = 0] ELSE appCountTtl

-----------------------------------------------------------------------------
(* Admin functions *)

initialize(a) ==
  /\ Invocable
  /\ admin = NoAdmin
  /\ admin' = a
  /\ globalCap' = GLOBAL_APP_LIMIT
  /\ bump_instance
  /\ UNCHANGED <<maintainers, orgCap, temporary, asgn, asgnCount>>

require_initialized == Invocable /\ admin # NoAdmin

register_maintainer(m, o) ==
  /\ require_initialized
  /\ maintainers' = maintainers \cup {<<m, o>>}
  /\ bump_instance
  /\ UNCHANGED <<admin, globalCap, orgCap, temporary, asgn, asgnCount>>

deregister_maintainer(m, o) ==
  /\ require_initialized
  /\ is_maintainer(m, o)
  /\ maintainers' = maintainers \ {<<m, o>>}
  /\ bump_instance
  /\ UNCHANGED <<admin, globalCap, orgCap, temporary, asgn, asgnCount>>

\* set_global_cap and emergency_set_global_cap write alike; only their events differ
set_global_cap(new_cap) ==
  /\ require_initialized
  /\ new_cap <= GLOBAL_CAP_MAX
  /\ globalCap' = new_cap
  /\ bump_instance
  /\ UNCHANGED <<admin, maintainers, orgCap, temporary, asgn, asgnCount>>

-----------------------------------------------------------------------------
(* Contributor functions *)

\* mutant: off by one at the cap
apply_error_offByOne(c, o, i) ==
  IF admin = NoAdmin THEN "NotInitialized"
  ELSE IF appCount[c] > globalCap THEN "GlobalApplicationLimitReached"
  ELSE IF has_app_entry(c, o, i) THEN "DuplicateApplication"
  ELSE "ok"

\* mutant: compares with the compile-time default, not the stored cap
apply_error_default(c, o, i) ==
  IF admin = NoAdmin THEN "NotInitialized"
  ELSE IF appCount[c] >= GLOBAL_APP_LIMIT THEN "GlobalApplicationLimitReached"
  ELSE IF has_app_entry(c, o, i) THEN "DuplicateApplication"
  ELSE "ok"

apply_error(c, o, i) ==
  IF admin = NoAdmin THEN "NotInitialized"
  ELSE IF appCount[c] >= globalCap THEN "GlobalApplicationLimitReached"
  ELSE IF has_app_entry(c, o, i) THEN "DuplicateApplication"
  ELSE "ok"

\* mutant: a counter that already exists keeps its old TTL
apply_for_issue_staleCounter(c, o, i) ==
  /\ Invocable
  /\ apply_error(c, o, i) = "ok"
  /\ appCount' = [appCount EXCEPT ![c] = @ + 1]
  /\ appTtl' = [appTtl EXCEPT ![c][<<o, i>>] = APP_TTL]
  /\ appCountTtl' = [appCountTtl EXCEPT ![c] = IF @ = 0 THEN APP_TTL ELSE @]
  /\ bump_instance
  /\ UNCHANGED <<persistent, asgn, asgnCount>>

apply_for_issue(c, o, i) ==
  /\ Invocable
  /\ apply_error(c, o, i) = "ok"
  /\ appCount' = [appCount EXCEPT ![c] = @ + 1]
  /\ appTtl' = [appTtl EXCEPT ![c][<<o, i>>] = APP_TTL]
  /\ appCountTtl' = [appCountTtl EXCEPT ![c] = APP_TTL]
  /\ bump_instance
  /\ UNCHANGED <<persistent, asgn, asgnCount>>

withdraw_application(c, o, i) ==
  /\ require_initialized
  /\ has_app_entry(c, o, i)
  /\ consume_application(c, o, i)
  /\ bump_instance
  /\ UNCHANGED <<persistent, asgn, asgnCount>>

\* mutant: extends the sentinel only
extend_application_ttl_entryOnly(c, o, i) ==
  /\ Invocable
  /\ has_app_entry(c, o, i)
  /\ appTtl' = [appTtl EXCEPT ![c][<<o, i>>] = APP_TTL]
  /\ UNCHANGED <<persistent, appCount, appCountTtl, asgn, asgnCount, instanceTtl>>

\* permissionless, callable before initialize, and the one state-changing call
\* besides upgrade that leaves the instance TTL alone
extend_application_ttl(c, o, i) ==
  /\ Invocable
  /\ has_app_entry(c, o, i)
  /\ appTtl' = [appTtl EXCEPT ![c][<<o, i>>] = APP_TTL]
  /\ appCountTtl' = IF appCount[c] > 0 THEN [appCountTtl EXCEPT ![c] = APP_TTL]
                                       ELSE appCountTtl
  /\ UNCHANGED <<persistent, appCount, asgn, asgnCount, instanceTtl>>

-----------------------------------------------------------------------------
(* Maintainer functions *)

\* mutant: no AlreadyAssigned check
assign_error_twice(m, c, o, i) ==
  IF admin = NoAdmin THEN "NotInitialized"
  ELSE IF ~is_maintainer(m, o) THEN "UnauthorizedMaintainer"
  ELSE IF ~has_app_entry(c, o, i) THEN "ApplicationNotFound"
  ELSE IF asgnCount[c][o] >= orgCap[o] THEN "OrgAssignmentLimitReached"
  ELSE "ok"

\* mutant: no ApplicationNotFound check
assign_error_noApplication(m, c, o, i) ==
  IF admin = NoAdmin THEN "NotInitialized"
  ELSE IF ~is_maintainer(m, o) THEN "UnauthorizedMaintainer"
  ELSE IF asgnCount[c][o] >= orgCap[o] THEN "OrgAssignmentLimitReached"
  ELSE IF has_assignment(o, i, c) THEN "AlreadyAssigned"
  ELSE "ok"

\* mutant: off by one at the organisation's cap
assign_error_offByOne(m, c, o, i) ==
  IF admin = NoAdmin THEN "NotInitialized"
  ELSE IF ~is_maintainer(m, o) THEN "UnauthorizedMaintainer"
  ELSE IF ~has_app_entry(c, o, i) THEN "ApplicationNotFound"
  ELSE IF asgnCount[c][o] > orgCap[o] THEN "OrgAssignmentLimitReached"
  ELSE IF has_assignment(o, i, c) THEN "AlreadyAssigned"
  ELSE "ok"

assign_error(m, c, o, i) ==
  IF admin = NoAdmin THEN "NotInitialized"
  ELSE IF ~is_maintainer(m, o) THEN "UnauthorizedMaintainer"
  ELSE IF ~has_app_entry(c, o, i) THEN "ApplicationNotFound"
  ELSE IF asgnCount[c][o] >= orgCap[o] THEN "OrgAssignmentLimitReached"
  ELSE IF has_assignment(o, i, c) THEN "AlreadyAssigned"
  ELSE "ok"

assign_issue(m, c, o, i) ==
  /\ Invocable
  /\ assign_error(m, c, o, i) = "ok"
  /\ consume_application(c, o, i)
  /\ asgnCount' = [asgnCount EXCEPT ![c][o] = @ + 1]
  /\ asgn' = asgn \cup {<<o, i, c>>}
  /\ bump_instance
  /\ UNCHANGED persistent

\* the checks of complete_assignment in a release build
complete_error(m, c, o, i) ==
  IF admin = NoAdmin THEN "NotInitialized"
  ELSE IF ~is_maintainer(m, o) THEN "UnauthorizedMaintainer"
  ELSE IF ~has_assignment(o, i, c) THEN "AssignmentNotFound"
  ELSE "ok"

\* revoke_assignment also refuses a counter that is already 0
revoke_error(m, c, o, i) ==
  IF complete_error(m, c, o, i) # "ok" THEN complete_error(m, c, o, i)
  ELSE IF asgnCount[c][o] = 0 THEN "CounterInconsistency"
  ELSE "ok"

\* mutant: removes the counter entry whatever its value
release_assignment_dropCounter(c, o, i) ==
  /\ asgn' = asgn \ {<<o, i, c>>}
  /\ asgnCount' = [asgnCount EXCEPT ![c][o] = 0]
  /\ bump_instance
  /\ UNCHANGED <<persistent, temporary>>

release_assignment(c, o, i) ==
  /\ asgn' = asgn \ {<<o, i, c>>}
  /\ asgnCount' = [asgnCount EXCEPT ![c][o] = saturating_sub(@, 1)]
  /\ bump_instance
  /\ UNCHANGED <<persistent, temporary>>

complete_assignment(m, c, o, i) ==
  /\ Invocable
  /\ complete_error(m, c, o, i) = "ok"
  /\ release_assignment(c, o, i)

revoke_assignment(m, c, o, i) ==
  /\ Invocable
  /\ revoke_error(m, c, o, i) = "ok"
  /\ release_assignment(c, o, i)

\* mutant: the range of the cap is not checked
set_org_cap_anyCap(m, o, new_cap) ==
  /\ require_initialized
  /\ is_maintainer(m, o)
  /\ orgCap' = [orgCap EXCEPT ![o] = new_cap]
  /\ bump_instance
  /\ UNCHANGED <<admin, maintainers, globalCap, temporary, asgn, asgnCount>>

set_org_cap(m, o, new_cap) ==
  /\ require_initialized
  /\ is_maintainer(m, o)
  /\ new_cap \in ORG_CAP_MIN..ORG_CAP_MAX
  /\ orgCap' = [orgCap EXCEPT ![o] = new_cap]
  /\ bump_instance
  /\ UNCHANGED <<admin, maintainers, globalCap, temporary, asgn, asgnCount>>

-----------------------------------------------------------------------------
(* Queries *)

\* check_consistency over every pair and every issue: the pairs it would flag
check_consistency ==
  {p \in Address \X OrgId :
     asgnCount[p[1]][p[2]] = 0 /\ \E i \in IssueId : has_assignment(p[2], i, p[1])}

is_global_app_limit_reached(c) == appCount[c] >= globalCap

-----------------------------------------------------------------------------
(* The host *)

\* mutant: the counter kept in persistent storage, where it never expires
CloseLedger_persistentCounter ==
  /\ appTtl' = [c \in Address |-> [s \in Slot |-> saturating_sub(appTtl[c][s], 1)]]
  /\ instanceTtl' = saturating_sub(instanceTtl, 1)
  /\ UNCHANGED <<persistent, appCount, appCountTtl, asgn, asgnCount>>

\* A ledger closes: every time to live drops by one, and a temporary entry
\* whose time is up is gone, value included.
CloseLedger ==
  /\ appTtl' = [c \in Address |-> [s \in Slot |-> saturating_sub(appTtl[c][s], 1)]]
  /\ appCountTtl' = [c \in Address |-> saturating_sub(appCountTtl[c], 1)]
  /\ appCount' = [c \in Address |-> IF appCountTtl[c] > 1 THEN appCount[c] ELSE 0]
  /\ instanceTtl' = saturating_sub(instanceTtl, 1)
  /\ UNCHANGED <<persistent, asgn, asgnCount>>

\* An archived instance is restored by an operator's RestoreFootprint.
RestoreInstance ==
  /\ instanceTtl = 0
  /\ instanceTtl' = MIN_PERSISTENT_TTL
  /\ UNCHANGED <<persistent, temporary, asgn, asgnCount>>

Init ==
  /\ admin = NoAdmin
  /\ maintainers = {}
  /\ globalCap = GLOBAL_APP_LIMIT
  /\ orgCap = [o \in OrgId |-> ORG_ASSIGNMENT_LIMIT]
  /\ appTtl = [c \in Address |-> [s \in Slot |-> 0]]
  /\ appCount = [c \in Address |-> 0]
  /\ appCountTtl = [c \in Address |-> 0]
  /\ asgn = {}
  /\ asgnCount = [c \in Address |-> [o \in OrgId |-> 0]]
  /\ instanceTtl = MIN_PERSISTENT_TTL

\* caps a caller asks for, one beyond the range of each included
GlobalCaps == 0..(GLOBAL_CAP_MAX + 1)
OrgCaps == 0..(ORG_CAP_MAX + 1)

AdminCall ==
  \/ \E a \in Address : initialize(a)
  \/ \E m \in Address, o \in OrgId : register_maintainer(m, o)
  \/ \E m \in Address, o \in OrgId : deregister_maintainer(m, o)
  \/ \E cap \in GlobalCaps : set_global_cap(cap)

ContributorCall ==
  \E c \in Address, o \in OrgId, i \in IssueId :
    \/ apply_for_issue(c, o, i)
    \/ withdraw_application(c, o, i)
    \/ extend_application_ttl(c, o, i)

MaintainerCall ==
  \E m \in Address, o \in OrgId :
    \/ \E c \in Address, i \in IssueId :
         \/ assign_issue(m, c, o, i)
         \/ complete_assignment(m, c, o, i)
         \/ revoke_assignment(m, c, o, i)
    \/ \E cap \in OrgCaps : set_org_cap(m, o, cap)

Next == AdminCall \/ ContributorCall \/ MaintainerCall \/ CloseLedger \/ RestoreInstance

\* The network closes a ledger every few seconds; nobody is obliged to call.
Spec == Init /\ [][Next]_vars /\ WF_vars(CloseLedger)

-----------------------------------------------------------------------------
(* What the contract promises *)

LiveApps(c) == {s \in Slot : appTtl[c][s] > 0}

AssignedIssues(c, o) == {i \in IssueId : has_assignment(o, i, c)}

\* The counter apply_for_issue compares with the cap never under-counts: it is
\* at least the number of the contributor's applications that have not expired.
CounterCoversLive ==
  \A c \in Address : Cardinality(LiveApps(c)) <= appCount[c]

\* A contributor's counter entry outlives all its application sentinels, and it
\* is stored exactly while it is positive: no application is ever live behind
\* an expired counter (storage-design.md, Scenario B, "cannot happen").
CounterOutlivesEntries ==
  \A c \in Address :
    /\ \A s \in Slot : appTtl[c][s] <= appCountTtl[c]
    /\ appCount[c] > 0 <=> appCountTtl[c] > 0

\* The o_asgn counter is exactly the number of assignment sentinels of the
\* pair, through assignments, completions, revocations and re-applications.
AsgnCountExact ==
  \A c \in Address, o \in OrgId :
    asgnCount[c][o] = Cardinality(AssignedIssues(c, o))

\* check_consistency flags no pair and revoke_assignment never finds its
\* counter at 0: the CounterInconsistency branches of the code are dead.
NoCounterInconsistency ==
  /\ check_consistency = {}
  /\ \A m, c \in Address, o \in OrgId, i \in IssueId :
       revoke_error(m, c, o, i) # "CounterInconsistency"

\* However often the caps are raised and lowered, the u32 counters stay within
\* the largest cap the code accepts, so count + 1 never overflows.
CountersBounded ==
  \A c \in Address :
    /\ appCount[c] <= GLOBAL_CAP_MAX
    /\ \A o \in OrgId : asgnCount[c][o] <= ORG_CAP_MAX

AdmissionStep ==
  \A c \in Address :
    /\ LiveApps(c)' \subseteq LiveApps(c) \/ Cardinality(LiveApps(c)') <= globalCap
    /\ \A o \in OrgId :
         \/ AssignedIssues(c, o)' \subseteq AssignedIssues(c, o)
         \/ Cardinality(AssignedIssues(c, o)') <= orgCap[o]

\* A contributor's live applications grow only to a number the cap in force
\* admits, and so do its assignments in an organisation; a cap lowered below
\* the current number keeps what there is and admits nothing new.
AdmissionUnderCaps == [][AdmissionStep]_vars

ConsumptionStep ==
  \A o \in OrgId, i \in IssueId, c \in Address :
    <<o, i, c>> \in asgn' \ asgn =>
      /\ <<o, i>> \in LiveApps(c) \ LiveApps(c)'
      /\ \E m \in Address : is_maintainer(m, o)

\* A new assignment always consumes a live application of that contributor for
\* that issue, in the same step, and only while its organisation has a
\* registered maintainer.
AssignmentConsumesApplication == [][ConsumptionStep]_vars

\* A contributor held at the cap by a counter none of whose applications is
\* live any more does not stay blocked: the counter runs out with its TTL.
BlockedIsFreed ==
  \A c \in Address :
    (is_global_app_limit_reached(c) /\ LiveApps(c) = {})
      ~> (appCount[c] = 0 \/ ~is_global_app_limit_reached(c))
-----------------------------------------------------------------------------
(* The fairness rules the contract implements *)

pendingApps == [c \in Address |-> LiveApps(c)]
assignedIssues == [c \in Address |-> [o \in OrgId |-> AssignedIssues(c, o)]]

Fairness == INSTANCE FairnessModel
              WITH pending <- pendingApps, assigned <- assignedIssues

\* The contract, with its drifting counter and its expiring entries, is an
\* implementation of the fairness rules stated over the sets themselves.
ImplementsFairness == Fairness!Spec
=============================================================================
