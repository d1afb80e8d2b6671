----------------------- MODULE WorkloadGovernorProofs -----------------------
(***************************************************************************)
(* TLAPS proofs about the contract, for every number of contributors,      *)
(* organisations and issues, every time to live and every cap: its         *)
(* invariants, then that it implements the fairness rules (module          *)
(* FairnessModel), then what a single step may do.                         *)
(***************************************************************************)
EXTENDS WorkloadGovernor, FiniteSetTheorems, TLAPS

-----------------------------------------------------------------------------
(* Type correctness *)

LEMMA SaturatingSub ==
  ASSUME NEW m \in Nat, NEW n \in Nat
  PROVE  /\ saturating_sub(m, n) \in Nat
         /\ saturating_sub(m, n) <= m
         /\ m >= n => saturating_sub(m, n) = m - n
         /\ m <= n => saturating_sub(m, n) = 0
  BY DEF saturating_sub

LEMMA BumpType ==
  ASSUME TypeOK, bump_instance
  PROVE  instanceTtl' \in Nat
  BY TtlAssumption DEF TypeOK, bump_instance

\* Consuming an application leaves the three temporary variables well typed.
LEMMA ConsumeType ==
  ASSUME TypeOK, NEW c \in Address, NEW o \in OrgId, NEW i \in IssueId,
         consume_application(c, o, i)
  PROVE  /\ appTtl' \in [Address -> [Slot -> 0..APP_TTL]]
         /\ appCount' \in [Address -> Nat]
         /\ appCountTtl' \in [Address -> 0..APP_TTL]
  <1>1. <<o, i>> \in Slot /\ 0 \in 0..APP_TTL
    BY TtlAssumption DEF Slot, APP_TTL
  <1>2. saturating_sub(appCount[c], 1) \in Nat
    BY SaturatingSub DEF TypeOK
  <1>3. QED
    BY <1>1, <1>2 DEF TypeOK, consume_application

\* The type invariant: every storage entry keeps a value of its Rust type, the
\* caps stay in range and no time to live exceeds APP_TTL_LEDGERS.
THEOREM TypeCorrect == Spec => []TypeOK
  <1>1. Init => TypeOK
    BY CapAssumption, TtlAssumption DEF Init, TypeOK, APP_TTL
  <1>2. TypeOK /\ [Next]_vars => TypeOK'
    <2> SUFFICES ASSUME TypeOK, [Next]_vars PROVE TypeOK'
      OBVIOUS
    <2>1. ASSUME NEW a \in Address, initialize(a) PROVE TypeOK'
      BY <2>1, BumpType, CapAssumption DEF TypeOK, initialize, temporary
    <2>2. ASSUME NEW m \in Address, NEW o \in OrgId, register_maintainer(m, o)
          PROVE  TypeOK'
      BY <2>2, BumpType DEF TypeOK, register_maintainer, temporary
    <2>3. ASSUME NEW m \in Address, NEW o \in OrgId, deregister_maintainer(m, o)
          PROVE  TypeOK'
      BY <2>3, BumpType DEF TypeOK, deregister_maintainer, temporary
    <2>4. ASSUME NEW cap \in GlobalCaps, set_global_cap(cap) PROVE TypeOK'
      BY <2>4, BumpType, CapAssumption DEF TypeOK, set_global_cap, temporary, GlobalCaps
    <2>5. ASSUME NEW c \in Address, NEW o \in OrgId, NEW i \in IssueId,
                 apply_for_issue(c, o, i)
          PROVE  TypeOK'
      <3>1. <<o, i>> \in Slot /\ APP_TTL \in 0..APP_TTL
        BY TtlAssumption DEF Slot, APP_TTL
      <3>2. QED
        BY <2>5, <3>1, BumpType DEF TypeOK, apply_for_issue, persistent
    <2>6. ASSUME NEW c \in Address, NEW o \in OrgId, NEW i \in IssueId,
                 withdraw_application(c, o, i)
          PROVE  TypeOK'
      BY <2>6, BumpType, ConsumeType DEF TypeOK, withdraw_application, persistent
    <2>7. ASSUME NEW c \in Address, NEW o \in OrgId, NEW i \in IssueId,
                 extend_application_ttl(c, o, i)
          PROVE  TypeOK'
      <3>1. <<o, i>> \in Slot /\ APP_TTL \in 0..APP_TTL
        BY TtlAssumption DEF Slot, APP_TTL
      <3>2. QED
        BY <2>7, <3>1 DEF TypeOK, extend_application_ttl, persistent
    <2>8. ASSUME NEW m \in Address, NEW c \in Address, NEW o \in OrgId,
                 NEW i \in IssueId, assign_issue(m, c, o, i)
          PROVE  TypeOK'
      <3>1. asgnCount' \in [Address -> [OrgId -> Nat]]
        BY <2>8 DEF TypeOK, assign_issue
      <3>2. QED
        BY <2>8, <3>1, BumpType, ConsumeType DEF TypeOK, assign_issue, persistent
    <2>9. ASSUME NEW c \in Address, NEW o \in OrgId, NEW i \in IssueId,
                 release_assignment(c, o, i)
          PROVE  TypeOK'
      <3>1. saturating_sub(asgnCount[c][o], 1) \in Nat
        BY SaturatingSub DEF TypeOK
      <3>2. asgnCount' \in [Address -> [OrgId -> Nat]]
        BY <2>9, <3>1 DEF TypeOK, release_assignment
      <3>3. QED
        BY <2>9, <3>2, BumpType DEF TypeOK, release_assignment, persistent, temporary
    <2>10. ASSUME NEW m \in Address, NEW o \in OrgId,
                  NEW cap \in OrgCaps, set_org_cap(m, o, cap)
           PROVE  TypeOK'
      BY <2>10, BumpType DEF TypeOK, set_org_cap, temporary
    <2>11. CASE CloseLedger
      <3>1. \A c \in Address, s \in Slot : saturating_sub(appTtl[c][s], 1) \in 0..APP_TTL
        BY TtlAssumption DEF TypeOK, saturating_sub, APP_TTL
      <3>2. \A c \in Address : saturating_sub(appCountTtl[c], 1) \in 0..APP_TTL
        BY TtlAssumption DEF TypeOK, saturating_sub, APP_TTL
      <3>3. saturating_sub(instanceTtl, 1) \in Nat
        BY SaturatingSub DEF TypeOK
      <3>4. QED
        BY <2>11, <3>1, <3>2, <3>3 DEF TypeOK, CloseLedger, persistent
    <2>12. CASE RestoreInstance
      BY <2>12, TtlAssumption DEF TypeOK, RestoreInstance, persistent, temporary
    <2>13. CASE UNCHANGED vars
      BY <2>13 DEF TypeOK, vars, persistent, temporary
    <2>14. QED
      BY <2>1, <2>2, <2>3, <2>4, <2>5, <2>6, <2>7, <2>8, <2>9, <2>10, <2>11,
         <2>12, <2>13
         DEF Next, AdminCall, ContributorCall, MaintainerCall,
             complete_assignment, revoke_assignment
  <1>3. QED
    BY <1>1, <1>2, PTL DEF Spec

-----------------------------------------------------------------------------
(* The application counter *)

LEMMA SlotFinite == IsFiniteSet(Slot)
  BY KeysFinite, FS_Product DEF Slot

LEMMA LiveAppsFinite ==
  ASSUME NEW c \in Address
  PROVE  IsFiniteSet(LiveApps(c)) /\ Cardinality(LiveApps(c)) \in Nat
  BY SlotFinite, FS_Subset, FS_CardinalityType DEF LiveApps

\* The inductive invariant of the temporary entries.  Coverage alone is not
\* inductive: when a ledger closes over the counter, only the fact that every
\* sentinel has at most as long to live saves it.
AppInv == CounterCoversLive /\ CounterOutlivesEntries

LEMMA AppInvFrame ==
  ASSUME AppInv, UNCHANGED temporary
  PROVE  AppInv'
  BY DEF AppInv, CounterCoversLive, CounterOutlivesEntries, LiveApps, temporary

LEMMA AppInvApply ==
  ASSUME TypeOK, AppInv, NEW c \in Address, NEW o \in OrgId, NEW i \in IssueId,
         apply_for_issue(c, o, i)
  PROVE  AppInv'
  <1>1. <<o, i>> \in Slot /\ APP_TTL \in Nat /\ APP_TTL > 0
    BY TtlAssumption DEF Slot, APP_TTL
  <1>2. <<o, i>> \notin LiveApps(c)
    BY DEF apply_for_issue, apply_error, has_app_entry, LiveApps
  <1>3. LiveApps(c)' = LiveApps(c) \cup {<<o, i>>}
    BY <1>1 DEF apply_for_issue, LiveApps, TypeOK
  <1>4. Cardinality(LiveApps(c)') = Cardinality(LiveApps(c)) + 1
    BY <1>2, <1>3, LiveAppsFinite, FS_AddElement
  <1>5. ASSUME NEW d \in Address PROVE Cardinality(LiveApps(d))' <= appCount'[d]
    <2>1. CASE d = c
      <3>1. appCount'[c] = appCount[c] + 1
        BY DEF apply_for_issue, TypeOK
      <3>2. Cardinality(LiveApps(c)) <= appCount[c] /\ appCount[c] \in Nat
        BY DEF AppInv, CounterCoversLive, TypeOK
      <3>3. QED
        BY <1>4, <2>1, <3>1, <3>2, LiveAppsFinite
    <2>2. CASE d # c
      <3>1. LiveApps(d)' = LiveApps(d) /\ appCount'[d] = appCount[d]
        BY <2>2 DEF apply_for_issue, LiveApps, TypeOK
      <3>2. QED
        BY <3>1 DEF AppInv, CounterCoversLive
    <2>3. QED
      BY <2>1, <2>2
  <1>6. CounterOutlivesEntries'
    BY <1>1 DEF AppInv, CounterOutlivesEntries, apply_for_issue, TypeOK
  <1>7. QED
    BY <1>5, <1>6 DEF AppInv, CounterCoversLive

LEMMA AppInvConsume ==
  ASSUME TypeOK, AppInv, NEW c \in Address, NEW o \in OrgId, NEW i \in IssueId,
         has_app_entry(c, o, i), consume_application(c, o, i)
  PROVE  AppInv'
  <1>1. <<o, i>> \in Slot /\ <<o, i>> \in LiveApps(c)
    BY DEF Slot, has_app_entry, LiveApps
  <1>2. LiveApps(c)' = LiveApps(c) \ {<<o, i>>}
    BY <1>1 DEF consume_application, LiveApps, TypeOK
  <1>3. Cardinality(LiveApps(c)') = Cardinality(LiveApps(c)) - 1
    BY <1>1, <1>2, LiveAppsFinite, FS_RemoveElement
  <1>4. appCount[c] \in Nat /\ appCount[c] > 0 /\ appCountTtl[c] > 0
    BY <1>1 DEF AppInv, CounterOutlivesEntries, LiveApps, TypeOK
  <1>5. appCount'[c] = appCount[c] - 1
    BY <1>4, SaturatingSub DEF consume_application, TypeOK
  <1>6. ASSUME NEW d \in Address, d # c
        PROVE  /\ LiveApps(d)' = LiveApps(d)
               /\ appCount'[d] = appCount[d]
               /\ appTtl'[d] = appTtl[d]
               /\ appCountTtl'[d] = appCountTtl[d]
    BY <1>6 DEF consume_application, LiveApps, TypeOK
  <1>7. CounterCoversLive'
    <2>1. Cardinality(LiveApps(c)) <= appCount[c]
      BY DEF AppInv, CounterCoversLive
    <2>2. Cardinality(LiveApps(c)') <= appCount'[c]
      BY <1>3, <1>4, <1>5, <2>1, LiveAppsFinite
    <2>3. QED
      BY <1>6, <2>2 DEF AppInv, CounterCoversLive
  <1>8. CounterOutlivesEntries'
    <2>1. CASE appCount'[c] > 0
      <3>1. appCountTtl'[c] = appCountTtl[c]
        BY <1>4, <1>5, <2>1, SaturatingSub DEF consume_application, TypeOK
      <3>2. \A s \in Slot : appTtl'[c][s] <= appTtl[c][s]
        BY <1>1 DEF consume_application, TypeOK
      <3>3. \A s \in Slot : appTtl'[c][s] <= appCountTtl'[c]
        <4>1. \A s \in Slot : /\ appTtl[c][s] \in Nat /\ appCountTtl[c] \in Nat
                              /\ appTtl'[c][s] \in Nat
          BY ConsumeType DEF TypeOK
        <4>2. QED
          BY <3>1, <3>2, <4>1 DEF AppInv, CounterOutlivesEntries
      <3>4. QED
        BY <1>4, <1>6, <2>1, <3>1, <3>3 DEF AppInv, CounterOutlivesEntries
    <2>2. CASE appCount'[c] = 0
      <3>1. appCountTtl'[c] = 0
        BY <1>5, <2>2, <1>4, SaturatingSub DEF consume_application, TypeOK
      <3>2. Cardinality(LiveApps(c)') = 0
        <4>1. IsFiniteSet(LiveApps(c)')
          <5>1. IsFiniteSet(LiveApps(c) \ {<<o, i>>})
            BY LiveAppsFinite, FS_RemoveElement, Zenon
          <5>2. QED
            BY <1>2, <5>1
        <4>2. Cardinality(LiveApps(c)') \in Nat
          BY <4>1, FS_CardinalityType
        <4>3. Cardinality(LiveApps(c)) <= appCount[c]
          BY DEF AppInv, CounterCoversLive
        <4>4. QED
          BY <1>3, <1>4, <1>5, <2>2, <4>2, <4>3, LiveAppsFinite
      <3>3. LiveApps(c)' = {}
        BY <1>2, <3>2, LiveAppsFinite, FS_RemoveElement, FS_EmptySet
      <3>4. \A s \in Slot : appTtl'[c][s] \in Nat
        BY ConsumeType DEF TypeOK
      <3>5. \A s \in Slot : appTtl'[c][s] = 0
        BY <3>3, <3>4 DEF LiveApps
      <3>6. QED
        BY <1>6, <2>2, <3>1, <3>5 DEF AppInv, CounterOutlivesEntries
    <2>3. QED
      BY <2>1, <2>2, <1>4, <1>5
  <1>9. QED
    BY <1>7, <1>8 DEF AppInv

LEMMA AppInvExtend ==
  ASSUME TypeOK, AppInv, NEW c \in Address, NEW o \in OrgId, NEW i \in IssueId,
         extend_application_ttl(c, o, i)
  PROVE  AppInv'
  <1>1. <<o, i>> \in Slot /\ <<o, i>> \in LiveApps(c) /\ APP_TTL \in Nat /\ APP_TTL > 0
    BY TtlAssumption DEF Slot, LiveApps, extend_application_ttl, has_app_entry, APP_TTL
  <1>2. appCount[c] > 0
    BY <1>1 DEF AppInv, CounterOutlivesEntries, LiveApps, TypeOK
  <1>3. \A d \in Address : LiveApps(d)' = LiveApps(d)
    BY <1>1 DEF extend_application_ttl, LiveApps, TypeOK
  <1>4. CounterCoversLive'
    BY <1>3 DEF AppInv, CounterCoversLive, extend_application_ttl
  <1>5. CounterOutlivesEntries'
    BY <1>1, <1>2 DEF AppInv, CounterOutlivesEntries, extend_application_ttl, TypeOK
  <1>6. QED
    BY <1>4, <1>5 DEF AppInv

LEMMA AppInvClose ==
  ASSUME TypeOK, AppInv, CloseLedger
  PROVE  AppInv'
  <1>1. ASSUME NEW c \in Address
        PROVE  /\ Cardinality(LiveApps(c)') <= appCount'[c]
               /\ \A s \in Slot : appTtl'[c][s] <= appCountTtl'[c]
               /\ appCount'[c] > 0 <=> appCountTtl'[c] > 0
    <2>1. /\ appCountTtl[c] \in Nat /\ appCount[c] \in Nat
          /\ \A s \in Slot : appTtl[c][s] \in Nat /\ appTtl[c][s] <= appCountTtl[c]
          /\ appCount[c] > 0 <=> appCountTtl[c] > 0
          /\ Cardinality(LiveApps(c)) <= appCount[c]
      BY DEF TypeOK, AppInv, CounterCoversLive, CounterOutlivesEntries
    <2>2. /\ appCountTtl'[c] = saturating_sub(appCountTtl[c], 1)
          /\ appCount'[c] = IF appCountTtl[c] > 1 THEN appCount[c] ELSE 0
          /\ \A s \in Slot : appTtl'[c][s] = saturating_sub(appTtl[c][s], 1)
      BY DEF CloseLedger, TypeOK
    <2>3. \A s \in Slot : appTtl'[c][s] <= appCountTtl'[c]
      BY <2>1, <2>2 DEF saturating_sub
    <2>4. appCount'[c] > 0 <=> appCountTtl'[c] > 0
      BY <2>1, <2>2 DEF saturating_sub
    <2>5. LiveApps(c)' \subseteq LiveApps(c)
      BY <2>1, <2>2 DEF LiveApps, saturating_sub
    <2>6. Cardinality(LiveApps(c)') <= Cardinality(LiveApps(c))
      BY <2>5, LiveAppsFinite, FS_Subset
    <2>7. CASE appCountTtl[c] > 1
      <3>1. Cardinality(LiveApps(c)') \in Nat
        BY <2>5, LiveAppsFinite, FS_Subset, FS_CardinalityType
      <3>2. QED
        BY <2>1, <2>2, <2>3, <2>4, <2>6, <2>7, <3>1, LiveAppsFinite
    <2>8. CASE ~(appCountTtl[c] > 1)
      <3>1. \A s \in Slot : appTtl'[c][s] = 0
        BY <2>1, <2>2, <2>8 DEF saturating_sub
      <3>2. LiveApps(c)' = {}
        BY <3>1 DEF LiveApps
      <3>3. QED
        BY <2>2, <2>3, <2>4, <2>8, <3>2, FS_EmptySet
    <2>9. QED
      BY <2>7, <2>8
  <1>2. QED
    BY <1>1 DEF AppInv, CounterCoversLive, CounterOutlivesEntries

\* The counter a cap is compared with never under-counts the live applications
\* and outlives them all, whatever calls and ledger closes interleave.
THEOREM AppCounterSound == Spec => [](CounterCoversLive /\ CounterOutlivesEntries)
  <1>1. Init => AppInv
    <2> SUFFICES ASSUME Init PROVE AppInv
      OBVIOUS
    <2>1. \A c \in Address : LiveApps(c) = {}
      BY DEF Init, LiveApps
    <2>2. \A c \in Address : Cardinality(LiveApps(c)) = 0 /\ appCount[c] = 0
      BY <2>1, FS_EmptySet DEF Init
    <2>3. CounterOutlivesEntries
      BY DEF Init, CounterOutlivesEntries
    <2>4. QED
      BY <2>2, <2>3 DEF AppInv, CounterCoversLive
  <1>2. TypeOK /\ AppInv /\ [Next]_vars => AppInv'
    <2> SUFFICES ASSUME TypeOK, AppInv, [Next]_vars PROVE AppInv'
      OBVIOUS
    <2>1. CASE AdminCall
      BY <2>1, AppInvFrame DEF AdminCall, initialize, register_maintainer,
         deregister_maintainer, set_global_cap
    <2>2. CASE ContributorCall
      BY <2>2, AppInvApply, AppInvConsume, AppInvExtend
         DEF ContributorCall, withdraw_application
    <2>3. CASE MaintainerCall
      <3>1. ASSUME NEW m \in Address, NEW c \in Address, NEW o \in OrgId,
                   NEW i \in IssueId, assign_issue(m, c, o, i)
            PROVE  AppInv'
        <4>1. has_app_entry(c, o, i)
          BY <3>1 DEF assign_issue, assign_error
        <4>2. QED
          BY <3>1, <4>1, AppInvConsume DEF assign_issue
      <3>2. QED
        BY <2>3, <3>1, AppInvFrame
           DEF MaintainerCall, complete_assignment, revoke_assignment,
               release_assignment, set_org_cap
    <2>4. CASE CloseLedger
      BY <2>4, AppInvClose
    <2>5. CASE RestoreInstance
      BY <2>5, AppInvFrame DEF RestoreInstance
    <2>6. CASE UNCHANGED vars
      BY <2>6, AppInvFrame DEF vars
    <2>7. QED
      BY <2>1, <2>2, <2>3, <2>4, <2>5, <2>6 DEF Next
  <1>3. AppInv => CounterCoversLive /\ CounterOutlivesEntries
    BY DEF AppInv
  <1>4. QED
    BY <1>1, <1>2, <1>3, TypeCorrect, PTL DEF Spec

\* No application is ever live behind an expired counter, and a counter is stored
\* exactly while it is positive: a contributor cannot slip under the cap because
\* the host dropped the counter before the sentinels it counts.
THEOREM CounterOutlives == Spec => []CounterOutlivesEntries
  BY AppCounterSound, PTL

-----------------------------------------------------------------------------
(* The organisation counters *)

LEMMA AssignedFinite ==
  ASSUME NEW c \in Address, NEW o \in OrgId
  PROVE  /\ IsFiniteSet(AssignedIssues(c, o))
         /\ Cardinality(AssignedIssues(c, o)) \in Nat
  BY KeysFinite, FS_Subset, FS_CardinalityType DEF AssignedIssues

LEMMA AsgnFrame ==
  ASSUME AsgnCountExact, UNCHANGED <<asgn, asgnCount>>
  PROVE  AsgnCountExact'
  BY DEF AsgnCountExact, AssignedIssues, has_assignment

LEMMA AsgnAssign ==
  ASSUME TypeOK, AsgnCountExact, NEW m \in Address, NEW c \in Address,
         NEW o \in OrgId, NEW i \in IssueId, assign_issue(m, c, o, i)
  PROVE  /\ AssignedIssues(c, o)' = AssignedIssues(c, o) \cup {i}
         /\ Cardinality(AssignedIssues(c, o)') = Cardinality(AssignedIssues(c, o)) + 1
         /\ AsgnCountExact'
  <1>1. i \notin AssignedIssues(c, o)
    BY DEF assign_issue, assign_error, AssignedIssues
  <1>2. AssignedIssues(c, o)' = AssignedIssues(c, o) \cup {i}
    BY DEF assign_issue, AssignedIssues, has_assignment
  <1>3. Cardinality(AssignedIssues(c, o)') = Cardinality(AssignedIssues(c, o)) + 1
    BY <1>1, <1>2, AssignedFinite, FS_AddElement
  <1>4. ASSUME NEW d \in Address, NEW p \in OrgId
        PROVE  asgnCount'[d][p] = Cardinality(AssignedIssues(d, p)')
    <2>1. CASE d = c /\ p = o
      BY <1>3, <2>1 DEF AsgnCountExact, assign_issue, TypeOK
    <2>2. CASE ~(d = c /\ p = o)
      <3>1. AssignedIssues(d, p)' = AssignedIssues(d, p)
        BY <2>2 DEF assign_issue, AssignedIssues, has_assignment
      <3>2. asgnCount'[d][p] = asgnCount[d][p]
        BY <2>2 DEF assign_issue, TypeOK
      <3>3. QED
        BY <3>1, <3>2 DEF AsgnCountExact
    <2>3. QED
      BY <2>1, <2>2
  <1>5. QED
    BY <1>2, <1>3, <1>4 DEF AsgnCountExact

LEMMA AsgnRelease ==
  ASSUME TypeOK, AsgnCountExact, NEW c \in Address, NEW o \in OrgId,
         NEW i \in IssueId, has_assignment(o, i, c), release_assignment(c, o, i)
  PROVE  /\ AssignedIssues(c, o)' = AssignedIssues(c, o) \ {i}
         /\ AsgnCountExact'
  <1>1. i \in AssignedIssues(c, o)
    BY DEF AssignedIssues
  <1>2. AssignedIssues(c, o)' = AssignedIssues(c, o) \ {i}
    BY DEF release_assignment, AssignedIssues, has_assignment
  <1>3. Cardinality(AssignedIssues(c, o)') = Cardinality(AssignedIssues(c, o)) - 1
    BY <1>1, <1>2, AssignedFinite, FS_RemoveElement
  <1>4. Cardinality(AssignedIssues(c, o)) > 0
    BY <1>1, AssignedFinite, FS_EmptySet
  <1>5. ASSUME NEW d \in Address, NEW p \in OrgId
        PROVE  asgnCount'[d][p] = Cardinality(AssignedIssues(d, p)')
    <2>1. CASE d = c /\ p = o
      <3>1. asgnCount'[c][o] = saturating_sub(asgnCount[c][o], 1)
        BY DEF release_assignment, TypeOK
      <3>2. asgnCount[c][o] = Cardinality(AssignedIssues(c, o))
        BY DEF AsgnCountExact
      <3>3. QED
        BY <1>3, <1>4, <2>1, <3>1, <3>2, AssignedFinite DEF saturating_sub
    <2>2. CASE ~(d = c /\ p = o)
      <3>1. AssignedIssues(d, p)' = AssignedIssues(d, p)
        BY <2>2 DEF release_assignment, AssignedIssues, has_assignment
      <3>2. asgnCount'[d][p] = asgnCount[d][p]
        BY <2>2 DEF release_assignment, TypeOK
      <3>3. QED
        BY <3>1, <3>2 DEF AsgnCountExact
    <2>3. QED
      BY <2>1, <2>2
  <1>6. QED
    BY <1>2, <1>5 DEF AsgnCountExact

\* What the two ways of ending an assignment have checked before they write.
LEMMA ReleaseGuard ==
  ASSUME NEW m \in Address, NEW c \in Address, NEW o \in OrgId, NEW i \in IssueId,
         complete_assignment(m, c, o, i) \/ revoke_assignment(m, c, o, i)
  PROVE  has_assignment(o, i, c) /\ release_assignment(c, o, i)
  BY DEF complete_assignment, revoke_assignment, complete_error, revoke_error

LEMMA AsgnStep ==
  ASSUME TypeOK, AsgnCountExact, [Next]_vars
  PROVE  AsgnCountExact'
  <1>1. CASE AdminCall
    BY <1>1, AsgnFrame DEF AdminCall, initialize, register_maintainer,
       deregister_maintainer, set_global_cap
  <1>2. CASE ContributorCall
    BY <1>2, AsgnFrame DEF ContributorCall, apply_for_issue, withdraw_application,
       extend_application_ttl
  <1>3. CASE MaintainerCall
    BY <1>3, AsgnFrame, AsgnAssign, AsgnRelease, ReleaseGuard
       DEF MaintainerCall, set_org_cap
  <1>4. CASE CloseLedger
    BY <1>4, AsgnFrame DEF CloseLedger
  <1>5. CASE RestoreInstance
    BY <1>5, AsgnFrame DEF RestoreInstance
  <1>6. CASE UNCHANGED vars
    BY <1>6, AsgnFrame DEF vars
  <1>7. QED
    BY <1>1, <1>2, <1>3, <1>4, <1>5, <1>6 DEF Next

\* The o_asgn counter of a contributor in an organisation always equals the
\* number of its assignment sentinels there.
THEOREM AsgnCounterExact == Spec => []AsgnCountExact
  <1>1. Init => AsgnCountExact
    <2> SUFFICES ASSUME Init PROVE AsgnCountExact
      OBVIOUS
    <2>1. \A c \in Address, o \in OrgId : AssignedIssues(c, o) = {} /\ asgnCount[c][o] = 0
      BY DEF Init, AssignedIssues, has_assignment
    <2>2. QED
      BY <2>1, FS_EmptySet DEF AsgnCountExact
  <1>2. QED
    BY <1>1, AsgnStep, TypeCorrect, PTL DEF Spec

\* The CounterInconsistency branches of revoke_assignment and of the diagnostic
\* check_consistency are unreachable.
THEOREM ConsistencyHolds == Spec => []NoCounterInconsistency
  <1>1. TypeOK /\ AsgnCountExact => NoCounterInconsistency
    <2> SUFFICES ASSUME TypeOK, AsgnCountExact PROVE NoCounterInconsistency
      OBVIOUS
    <2>1. ASSUME NEW c \in Address, NEW o \in OrgId, NEW i \in IssueId,
                 has_assignment(o, i, c)
          PROVE  asgnCount[c][o] # 0
      <3>1. i \in AssignedIssues(c, o)
        BY <2>1 DEF AssignedIssues
      <3>2. QED
        BY <3>1, AssignedFinite, FS_EmptySet DEF AsgnCountExact
    <2>2. check_consistency = {}
      BY <2>1 DEF check_consistency
    <2>3. ASSUME NEW m \in Address, NEW c \in Address, NEW o \in OrgId, NEW i \in IssueId
          PROVE  revoke_error(m, c, o, i) # "CounterInconsistency"
      BY <2>1 DEF revoke_error, complete_error
    <2>4. QED
      BY <2>2, <2>3 DEF NoCounterInconsistency
  <1>2. QED
    BY <1>1, TypeCorrect, AsgnCounterExact, PTL

-----------------------------------------------------------------------------
(* Bounds *)

LEMMA ConsumeCount ==
  ASSUME TypeOK, NEW c \in Address, NEW o \in OrgId, NEW i \in IssueId,
         consume_application(c, o, i), NEW d \in Address
  PROVE  appCount'[d] <= appCount[d]
  BY SaturatingSub DEF consume_application, TypeOK

LEMMA BoundedFrame ==
  ASSUME CountersBounded, UNCHANGED <<appCount, asgnCount>>
  PROVE  CountersBounded'
  BY DEF CountersBounded

\* No counter ever exceeds the largest cap its setter accepts, however the caps
\* move, so the u32 additions of the contract cannot overflow.
THEOREM CountersStayBounded == Spec => []CountersBounded
  <1>1. Init => CountersBounded
    BY CapAssumption DEF Init, CountersBounded
  <1>2. TypeOK /\ TypeOK' /\ CountersBounded /\ [Next]_vars => CountersBounded'
    <2> SUFFICES ASSUME TypeOK, TypeOK', CountersBounded, [Next]_vars
                 PROVE  CountersBounded'
      OBVIOUS
    <2>1. CASE AdminCall
      BY <2>1, BoundedFrame DEF AdminCall, initialize, register_maintainer,
         deregister_maintainer, set_global_cap, temporary
    <2>2. ASSUME NEW c \in Address, NEW o \in OrgId, NEW i \in IssueId,
                 apply_for_issue(c, o, i)
          PROVE  CountersBounded'
      <3>1. appCount[c] < globalCap /\ globalCap <= GLOBAL_CAP_MAX
        BY <2>2, CapAssumption DEF apply_for_issue, apply_error, TypeOK
      <3>2. QED
        BY <2>2, <3>1, CapAssumption DEF apply_for_issue, CountersBounded, TypeOK
    <2>3. ASSUME NEW c \in Address, NEW o \in OrgId, NEW i \in IssueId,
                 withdraw_application(c, o, i)
          PROVE  CountersBounded'
      <3>1. \A d \in Address : appCount'[d] <= appCount[d]
        BY <2>3, ConsumeCount DEF withdraw_application
      <3>2. QED
        BY <2>3, <3>1, CapAssumption DEF withdraw_application, CountersBounded, TypeOK
    <2>4. ASSUME NEW c \in Address, NEW o \in OrgId, NEW i \in IssueId,
                 extend_application_ttl(c, o, i)
          PROVE  CountersBounded'
      BY <2>4, BoundedFrame DEF extend_application_ttl
    <2>5. ASSUME NEW m \in Address, NEW c \in Address, NEW o \in OrgId,
                 NEW i \in IssueId, assign_issue(m, c, o, i)
          PROVE  CountersBounded'
      <3>1. \A d \in Address : appCount'[d] <= appCount[d]
        BY <2>5, ConsumeCount DEF assign_issue
      <3>2. asgnCount[c][o] < orgCap[o] /\ orgCap[o] <= ORG_CAP_MAX
        BY <2>5, CapAssumption DEF assign_issue, assign_error, TypeOK
      <3>3. \A d \in Address, p \in OrgId : asgnCount'[d][p] <= ORG_CAP_MAX
        BY <2>5, <3>2, CapAssumption DEF assign_issue, CountersBounded, TypeOK
      <3>4. \A d \in Address : appCount'[d] <= GLOBAL_CAP_MAX
        BY <3>1, CapAssumption DEF CountersBounded, TypeOK
      <3>5. QED
        BY <3>3, <3>4 DEF CountersBounded
    <2>6. ASSUME NEW c \in Address, NEW o \in OrgId, NEW i \in IssueId,
                 release_assignment(c, o, i)
          PROVE  CountersBounded'
      <3>1. saturating_sub(asgnCount[c][o], 1) <= asgnCount[c][o]
        BY SaturatingSub DEF TypeOK
      <3>2. \A d \in Address, p \in OrgId : asgnCount'[d][p] <= asgnCount[d][p]
        BY <2>6, <3>1 DEF release_assignment, TypeOK
      <3>3. \A d \in Address, p \in OrgId : asgnCount'[d][p] <= ORG_CAP_MAX
        BY <3>2, CapAssumption DEF CountersBounded, TypeOK
      <3>4. QED
        BY <2>6, <3>3 DEF release_assignment, temporary, CountersBounded
    <2>7. ASSUME NEW m \in Address, NEW o \in OrgId,
                 NEW cap \in OrgCaps, set_org_cap(m, o, cap)
          PROVE  CountersBounded'
      BY <2>7, BoundedFrame DEF set_org_cap, temporary
    <2>8. CASE CloseLedger
      <3>1. \A d \in Address : appCount'[d] <= GLOBAL_CAP_MAX
        BY <2>8, CapAssumption DEF CloseLedger, CountersBounded, TypeOK
      <3>2. QED
        BY <2>8, <3>1 DEF CloseLedger, CountersBounded
    <2>9. CASE RestoreInstance
      BY <2>9, BoundedFrame DEF RestoreInstance, temporary
    <2>10. CASE UNCHANGED vars
      BY <2>10, BoundedFrame DEF vars, temporary
    <2>11. QED
      BY <2>1, <2>2, <2>3, <2>4, <2>5, <2>6, <2>7, <2>8, <2>9, <2>10
         DEF Next, ContributorCall, MaintainerCall, complete_assignment, revoke_assignment
  <1>3. QED
    BY <1>1, <1>2, TypeCorrect, PTL DEF Spec

-----------------------------------------------------------------------------
(* The contract implements the fairness rules *)

LEMMA SameCardinality ==
  ASSUME NEW S
  PROVE  Fairness!Cardinality(S) = Cardinality(S)
  BY DEF Fairness!Cardinality, Cardinality

-----------------------------------------------------------------------------
(* How each kind of step moves the sets the rules are stated over *)

LEMMA PendingFrame ==
  ASSUME UNCHANGED appTtl
  PROVE  UNCHANGED pendingApps /\ \A c \in Address : LiveApps(c)' = LiveApps(c)
  BY DEF pendingApps, LiveApps

LEMMA AssignedFrame ==
  ASSUME UNCHANGED asgn
  PROVE  /\ UNCHANGED assignedIssues
         /\ \A c \in Address, o \in OrgId : AssignedIssues(c, o)' = AssignedIssues(c, o)
  BY DEF assignedIssues, AssignedIssues, has_assignment

LEMMA ApplyPending ==
  ASSUME TypeOK, NEW c \in Address, NEW o \in OrgId, NEW i \in IssueId,
         apply_for_issue(c, o, i)
  PROVE  /\ <<o, i>> \notin LiveApps(c)
         /\ LiveApps(c)' = LiveApps(c) \cup {<<o, i>>}
         /\ \A d \in Address : d # c => LiveApps(d)' = LiveApps(d)
  <1>1. <<o, i>> \in Slot /\ APP_TTL > 0
    BY TtlAssumption DEF Slot, APP_TTL
  <1>2. QED
    BY <1>1 DEF apply_for_issue, apply_error, has_app_entry, LiveApps, TypeOK

LEMMA ConsumePending ==
  ASSUME TypeOK, NEW c \in Address, NEW o \in OrgId, NEW i \in IssueId,
         has_app_entry(c, o, i), consume_application(c, o, i)
  PROVE  /\ <<o, i>> \in LiveApps(c)
         /\ LiveApps(c)' = LiveApps(c) \ {<<o, i>>}
         /\ \A d \in Address : d # c => LiveApps(d)' = LiveApps(d)
  <1>1. <<o, i>> \in Slot
    BY DEF Slot
  <1>2. QED
    BY <1>1 DEF consume_application, has_app_entry, LiveApps, TypeOK

LEMMA ExtendPending ==
  ASSUME TypeOK, NEW c \in Address, NEW o \in OrgId, NEW i \in IssueId,
         extend_application_ttl(c, o, i)
  PROVE  \A d \in Address : LiveApps(d)' = LiveApps(d)
  <1>1. <<o, i>> \in Slot /\ <<o, i>> \in LiveApps(c) /\ APP_TTL > 0
    BY TtlAssumption DEF Slot, LiveApps, extend_application_ttl, has_app_entry, APP_TTL
  <1>2. QED
    BY <1>1 DEF extend_application_ttl, LiveApps, TypeOK

LEMMA ClosePending ==
  ASSUME TypeOK, CloseLedger, NEW c \in Address
  PROVE  LiveApps(c)' \subseteq LiveApps(c)
  BY DEF TypeOK, CloseLedger, LiveApps, saturating_sub

LEMMA ReleaseAssigned ==
  ASSUME NEW c \in Address, NEW o \in OrgId, NEW i \in IssueId,
         release_assignment(c, o, i), NEW d \in Address, NEW p \in OrgId
  PROVE  AssignedIssues(d, p)' =
           IF d = c /\ p = o THEN AssignedIssues(d, p) \ {i} ELSE AssignedIssues(d, p)
  BY DEF release_assignment, AssignedIssues, has_assignment

LEMMA AssignAssigned ==
  ASSUME NEW m \in Address, NEW c \in Address, NEW o \in OrgId, NEW i \in IssueId,
         assign_issue(m, c, o, i), NEW d \in Address, NEW p \in OrgId
  PROVE  /\ i \notin AssignedIssues(c, o)
         /\ AssignedIssues(d, p)' =
              IF d = c /\ p = o THEN AssignedIssues(d, p) \cup {i} ELSE AssignedIssues(d, p)
  BY DEF assign_issue, assign_error, AssignedIssues, has_assignment

-----------------------------------------------------------------------------
(* Every call is a step of the fairness rules *)

LEMMA ApplyRefines ==
  ASSUME TypeOK, AppInv, NEW c \in Address, NEW o \in OrgId, NEW i \in IssueId,
         apply_for_issue(c, o, i)
  PROVE  Fairness!Apply(c, o, i)
  <1>1. Cardinality(LiveApps(c)) < globalCap
    <2>1. appCount[c] < globalCap /\ appCount[c] \in Nat /\ globalCap \in Nat
      BY DEF apply_for_issue, apply_error, TypeOK
    <2>2. Cardinality(LiveApps(c)) <= appCount[c]
      BY DEF AppInv, CounterCoversLive
    <2>3. QED
      BY <2>1, <2>2, LiveAppsFinite
  <1>2. pendingApps' = [pendingApps EXCEPT ![c] = @ \cup {<<o, i>>}]
    BY ApplyPending DEF pendingApps
  <1>3. UNCHANGED <<assignedIssues, globalCap, orgCap>>
    BY AssignedFrame DEF apply_for_issue, persistent
  <1>4. <<o, i>> \notin pendingApps[c] /\ Cardinality(pendingApps[c]) < globalCap
    BY <1>1, ApplyPending DEF pendingApps
  <1>5. QED
    BY <1>2, <1>3, <1>4, SameCardinality DEF Fairness!Apply

LEMMA WithdrawRefines ==
  ASSUME TypeOK, NEW c \in Address, NEW o \in OrgId, NEW i \in IssueId,
         withdraw_application(c, o, i)
  PROVE  Fairness!Withdraw(c, o, i)
  <1>1. has_app_entry(c, o, i) /\ consume_application(c, o, i)
    BY DEF withdraw_application
  <1>2. /\ <<o, i>> \in pendingApps[c]
        /\ pendingApps' = [pendingApps EXCEPT ![c] = @ \ {<<o, i>>}]
    BY <1>1, ConsumePending DEF pendingApps
  <1>3. UNCHANGED <<assignedIssues, globalCap, orgCap>>
    BY AssignedFrame DEF withdraw_application, persistent
  <1>4. QED
    BY <1>2, <1>3 DEF Fairness!Withdraw

LEMMA AssignRefines ==
  ASSUME TypeOK, AsgnCountExact, NEW m \in Address, NEW c \in Address,
         NEW o \in OrgId, NEW i \in IssueId, assign_issue(m, c, o, i)
  PROVE  Fairness!Assign(c, o, i)
  <1>1. has_app_entry(c, o, i) /\ consume_application(c, o, i)
    BY DEF assign_issue, assign_error
  <1>2. /\ <<o, i>> \in pendingApps[c]
        /\ pendingApps' = [pendingApps EXCEPT ![c] = @ \ {<<o, i>>}]
    BY <1>1, ConsumePending DEF pendingApps
  <1>3. Cardinality(AssignedIssues(c, o)) < orgCap[o]
    <2>1. ~(asgnCount[c][o] >= orgCap[o])
      BY DEF assign_issue, assign_error
    <2>2. asgnCount[c][o] \in Nat /\ orgCap[o] \in Nat
      BY CapAssumption DEF TypeOK
    <2>3. QED
      BY <2>1, <2>2 DEF AsgnCountExact
  <1>4. /\ i \notin assignedIssues[c][o]
        /\ Cardinality(assignedIssues[c][o]) < orgCap[o]
    BY <1>3, AssignAssigned DEF assignedIssues
  <1>5. assignedIssues' = [assignedIssues EXCEPT ![c][o] = @ \cup {i}]
    <2>1. ASSUME NEW d \in Address
          PROVE  [p \in OrgId |-> AssignedIssues(d, p)'] =
                   IF d = c
                   THEN [[p \in OrgId |-> AssignedIssues(c, p)]
                           EXCEPT ![o] = AssignedIssues(c, o) \cup {i}]
                   ELSE [p \in OrgId |-> AssignedIssues(d, p)]
      BY AssignAssigned
    <2>2. QED
      BY <2>1 DEF assignedIssues
  <1>6. UNCHANGED <<globalCap, orgCap>>
    BY DEF assign_issue, persistent
  <1>7. QED
    BY <1>2, <1>4, <1>5, <1>6, SameCardinality DEF Fairness!Assign

LEMMA ReleaseRefines ==
  ASSUME NEW c \in Address, NEW o \in OrgId, NEW i \in IssueId,
         has_assignment(o, i, c), release_assignment(c, o, i)
  PROVE  Fairness!Release(c, o, i)
  <1>1. i \in assignedIssues[c][o]
    BY DEF assignedIssues, AssignedIssues
  <1>2. assignedIssues' = [assignedIssues EXCEPT ![c][o] = @ \ {i}]
    <2>1. ASSUME NEW d \in Address
          PROVE  [p \in OrgId |-> AssignedIssues(d, p)'] =
                   IF d = c
                   THEN [[p \in OrgId |-> AssignedIssues(c, p)]
                           EXCEPT ![o] = AssignedIssues(c, o) \ {i}]
                   ELSE [p \in OrgId |-> AssignedIssues(d, p)]
      BY ReleaseAssigned
    <2>2. QED
      BY <2>1 DEF assignedIssues
  <1>3. UNCHANGED <<pendingApps, globalCap, orgCap>>
    BY PendingFrame DEF release_assignment, persistent, temporary
  <1>4. QED
    BY <1>1, <1>2, <1>3 DEF Fairness!Release

LEMMA CloseRefines ==
  ASSUME TypeOK, CloseLedger
  PROVE  Fairness!Expire
  <1>1. \A c \in Address : LiveApps(c)' \subseteq LiveApps(c)
    BY ClosePending
  <1>2. pendingApps' = [c \in Address |-> LiveApps(c)']
    BY DEF pendingApps
  <1>3. \A c \in Address : LiveApps(c)' \subseteq OrgId \X IssueId
    BY <1>1 DEF LiveApps, Slot
  <1>4. /\ pendingApps' \in [Address -> SUBSET (OrgId \X IssueId)]
        /\ \A c \in Address : pendingApps'[c] \subseteq pendingApps[c]
    BY <1>1, <1>2, <1>3 DEF pendingApps
  <1>5. UNCHANGED <<assignedIssues, globalCap, orgCap>>
    BY AssignedFrame DEF CloseLedger, persistent
  <1>6. QED
    BY <1>4, <1>5 DEF Fairness!Expire

\* Calls that move neither set: they stutter or set a cap.
LEMMA AdminRefines ==
  ASSUME TypeOK, AdminCall
  PROVE  Fairness!SetGlobalCap
  <1>1. UNCHANGED <<appTtl, asgn, orgCap>> /\ globalCap' \in 0..GLOBAL_CAP_MAX
    BY CapAssumption DEF AdminCall, initialize, register_maintainer,
       deregister_maintainer, set_global_cap, temporary, TypeOK, GlobalCaps
  <1>2. QED
    BY <1>1, PendingFrame, AssignedFrame DEF Fairness!SetGlobalCap

LEMMA SetOrgCapRefines ==
  ASSUME NEW m \in Address, NEW o \in OrgId, NEW cap \in OrgCaps,
         set_org_cap(m, o, cap)
  PROVE  Fairness!SetOrgCap(o)
  BY PendingFrame, AssignedFrame DEF set_org_cap, temporary, Fairness!SetOrgCap

LEMMA StepRefines ==
  ASSUME TypeOK, AppInv, AsgnCountExact, [Next]_vars
  PROVE  [Fairness!Next]_(Fairness!fvars)
  <1>1. CASE AdminCall
    BY <1>1, AdminRefines DEF Fairness!Next
  <1>2. CASE ContributorCall
    <2>1. PICK c \in Address, o \in OrgId, i \in IssueId :
            \/ apply_for_issue(c, o, i)
            \/ withdraw_application(c, o, i)
            \/ extend_application_ttl(c, o, i)
      BY <1>2 DEF ContributorCall
    <2>2. CASE apply_for_issue(c, o, i)
      BY <2>2, ApplyRefines DEF Fairness!Next
    <2>3. CASE withdraw_application(c, o, i)
      BY <2>3, WithdrawRefines DEF Fairness!Next
    <2>4. CASE extend_application_ttl(c, o, i)
      <3>1. UNCHANGED pendingApps
        BY <2>4, ExtendPending DEF pendingApps
      <3>2. UNCHANGED <<assignedIssues, globalCap, orgCap>>
        BY <2>4, AssignedFrame DEF extend_application_ttl, persistent
      <3>3. QED
        BY <3>1, <3>2 DEF Fairness!fvars
    <2>5. QED
      BY <2>1, <2>2, <2>3, <2>4
  <1>3. CASE MaintainerCall
    <2>1. ASSUME NEW m \in Address, NEW o \in OrgId, NEW c \in Address,
                 NEW i \in IssueId, assign_issue(m, c, o, i)
          PROVE  Fairness!Next
      BY <2>1, AssignRefines DEF Fairness!Next
    <2>2. ASSUME NEW m \in Address, NEW o \in OrgId, NEW c \in Address,
                 NEW i \in IssueId,
                 complete_assignment(m, c, o, i) \/ revoke_assignment(m, c, o, i)
          PROVE  Fairness!Next
      BY <2>2, ReleaseGuard, ReleaseRefines DEF Fairness!Next
    <2>3. ASSUME NEW m \in Address, NEW o \in OrgId,
                 NEW cap \in OrgCaps, set_org_cap(m, o, cap)
          PROVE  Fairness!Next
      BY <2>3, SetOrgCapRefines DEF Fairness!Next
    <2>4. QED
      BY <1>3, <2>1, <2>2, <2>3 DEF MaintainerCall
  <1>4. CASE CloseLedger
    BY <1>4, CloseRefines DEF Fairness!Next
  <1>5. CASE RestoreInstance
    BY <1>5, PendingFrame, AssignedFrame
       DEF RestoreInstance, persistent, temporary, Fairness!fvars
  <1>6. CASE UNCHANGED vars
    BY <1>6, PendingFrame, AssignedFrame DEF vars, persistent, temporary, Fairness!fvars
  <1>7. QED
    BY <1>1, <1>2, <1>3, <1>4, <1>5, <1>6 DEF Next

\* The contract implements the fairness rules: seen through its live sentinels,
\* every call and every expiry is a step the rules allow, although the code
\* compares the caps with counters that drift away from the sets.
THEOREM ContractIsFair == Spec => ImplementsFairness
  <1>1. Init => Fairness!Init
    BY DEF Init, Fairness!Init, pendingApps, assignedIssues, LiveApps,
       AssignedIssues, has_assignment
  <1>2. Spec => []AppInv
    BY AppCounterSound DEF AppInv
  <1>3. TypeOK /\ AppInv /\ AsgnCountExact /\ [Next]_vars
          => [Fairness!Next]_(Fairness!fvars)
    BY StepRefines
  <1>4. QED
    BY <1>1, <1>2, <1>3, TypeCorrect, AsgnCounterExact, PTL
       DEF Spec, ImplementsFairness, Fairness!Spec

-----------------------------------------------------------------------------
(* What a step may never do *)

LEMMA AdmissionOfStep ==
  ASSUME TypeOK, AppInv, AsgnCountExact, [Next]_vars
  PROVE  AdmissionStep
  <1>1. ASSUME NEW c \in Address, NEW o \in OrgId, NEW i \in IssueId,
               apply_for_issue(c, o, i)
        PROVE  AdmissionStep
    <2>1. Cardinality(LiveApps(c)') <= globalCap
      <3>1. appCount[c] < globalCap /\ appCount[c] \in Nat /\ globalCap \in Nat
        BY <1>1 DEF apply_for_issue, apply_error, TypeOK
      <3>2. Cardinality(LiveApps(c)) <= appCount[c]
        BY DEF AppInv, CounterCoversLive
      <3>3. Cardinality(LiveApps(c)') = Cardinality(LiveApps(c)) + 1
        <4>1. <<o, i>> \notin LiveApps(c) /\ LiveApps(c)' = LiveApps(c) \cup {<<o, i>>}
          BY <1>1, ApplyPending
        <4>2. QED
          BY <4>1, LiveAppsFinite, FS_AddElement
      <3>4. QED
        BY <3>1, <3>2, <3>3, LiveAppsFinite
    <2>2. \A d \in Address : d # c => LiveApps(d)' \subseteq LiveApps(d)
      BY <1>1, ApplyPending
    <2>3. UNCHANGED asgn
      BY <1>1 DEF apply_for_issue
    <2>4. QED
      BY <2>1, <2>2, <2>3, AssignedFrame DEF AdmissionStep
  <1>2. ASSUME NEW m \in Address, NEW c \in Address, NEW o \in OrgId,
               NEW i \in IssueId, assign_issue(m, c, o, i)
        PROVE  AdmissionStep
    <2>1. Cardinality(AssignedIssues(c, o)') <= orgCap[o]
      <3>1. ~(asgnCount[c][o] >= orgCap[o])
        BY <1>2 DEF assign_issue, assign_error
      <3>2. asgnCount[c][o] \in Nat /\ orgCap[o] \in Nat
        BY CapAssumption DEF TypeOK
      <3>3. Cardinality(AssignedIssues(c, o)') = Cardinality(AssignedIssues(c, o)) + 1
        BY <1>2, AsgnAssign
      <3>4. QED
        BY <3>1, <3>2, <3>3 DEF AsgnCountExact
    <2>2. ASSUME NEW d \in Address, NEW p \in OrgId, ~(d = c /\ p = o)
          PROVE  AssignedIssues(d, p)' \subseteq AssignedIssues(d, p)
      BY <1>2, <2>2, AssignAssigned
    <2>3. has_app_entry(c, o, i) /\ consume_application(c, o, i)
      BY <1>2 DEF assign_issue, assign_error
    <2>4. \A d \in Address : LiveApps(d)' \subseteq LiveApps(d)
      BY <2>3, ConsumePending
    <2>5. QED
      BY <2>1, <2>2, <2>4 DEF AdmissionStep
  <1>3. ASSUME \A d \in Address : LiveApps(d)' \subseteq LiveApps(d),
               \A d \in Address, p \in OrgId :
                 AssignedIssues(d, p)' \subseteq AssignedIssues(d, p)
        PROVE  AdmissionStep
    BY <1>3 DEF AdmissionStep
  <1>4. ASSUME NEW c \in Address, NEW o \in OrgId, NEW i \in IssueId,
               withdraw_application(c, o, i) \/ extend_application_ttl(c, o, i)
        PROVE  AdmissionStep
    BY <1>3, <1>4, ConsumePending, ExtendPending, AssignedFrame
       DEF withdraw_application, extend_application_ttl
  <1>5. ASSUME NEW c \in Address, NEW o \in OrgId, NEW i \in IssueId,
               release_assignment(c, o, i)
        PROVE  AdmissionStep
    <2>1. \A d \in Address, p \in OrgId :
            AssignedIssues(d, p)' \subseteq AssignedIssues(d, p)
      BY <1>5, ReleaseAssigned
    <2>2. UNCHANGED appTtl
      BY <1>5 DEF release_assignment, temporary
    <2>3. QED
      BY <1>3, <2>1, <2>2, PendingFrame
  <1>6. CASE CloseLedger
    BY <1>3, <1>6, ClosePending, AssignedFrame DEF CloseLedger
  <1>7. ASSUME UNCHANGED <<appTtl, asgn>> PROVE AdmissionStep
    BY <1>3, <1>7, PendingFrame, AssignedFrame
  <1>8. CASE AdminCall
    BY <1>7, <1>8 DEF AdminCall, initialize, register_maintainer,
       deregister_maintainer, set_global_cap, temporary
  <1>9. ASSUME NEW m \in Address, NEW o \in OrgId, NEW cap \in OrgCaps,
               set_org_cap(m, o, cap)
        PROVE  AdmissionStep
    BY <1>7, <1>9 DEF set_org_cap, temporary
  <1>10. CASE RestoreInstance
    BY <1>7, <1>10 DEF RestoreInstance, temporary
  <1>11. CASE UNCHANGED vars
    BY <1>7, <1>11 DEF vars, temporary
  <1>12. QED
    BY <1>1, <1>2, <1>4, <1>5, <1>6, <1>8, <1>9, <1>10, <1>11
       DEF Next, ContributorCall, MaintainerCall, complete_assignment, revoke_assignment

\* No step lets a contributor's live applications, or its assignments in an
\* organisation, grow beyond the cap in force at that moment.
THEOREM AdmissionHolds == Spec => AdmissionUnderCaps
  <1>1. Spec => []AppInv
    BY AppCounterSound DEF AppInv
  <1>2. TypeOK /\ AppInv /\ AsgnCountExact /\ [Next]_vars => [AdmissionStep]_vars
    BY AdmissionOfStep
  <1>3. QED
    BY <1>1, <1>2, TypeCorrect, AsgnCounterExact, PTL DEF Spec, AdmissionUnderCaps

-----------------------------------------------------------------------------
(* What an assignment takes *)

\* assign_issue is the only step that adds an assignment, and it consumes the
\* application it answers; releases, expiries and cap changes add none.
LEMMA ConsumptionOfStep ==
  ASSUME TypeOK, [Next]_vars
  PROVE  [ConsumptionStep]_vars
  <1>1. ASSUME NEW m \in Address, NEW c \in Address, NEW o \in OrgId, NEW i \in IssueId,
               assign_issue(m, c, o, i)
        PROVE  ConsumptionStep
    <2>1. has_app_entry(c, o, i) /\ is_maintainer(m, o)
      BY <1>1 DEF assign_issue, assign_error
    <2>2. <<o, i>> \in LiveApps(c) /\ <<o, i>> \notin LiveApps(c)'
      BY <1>1, <2>1, ConsumePending DEF assign_issue
    <2>3. \A p \in OrgId, q \in IssueId, d \in Address :
             <<p, q, d>> \in asgn' \ asgn => p = o /\ q = i /\ d = c
      BY <1>1 DEF assign_issue
    <2>4. QED
      BY <2>1, <2>2, <2>3 DEF ConsumptionStep
  <1>2. ASSUME asgn' \subseteq asgn PROVE ConsumptionStep
    BY <1>2 DEF ConsumptionStep
  <1>3. CASE AdminCall
    BY <1>2, <1>3 DEF AdminCall, initialize, register_maintainer, deregister_maintainer,
       set_global_cap
  <1>4. CASE ContributorCall
    BY <1>2, <1>4 DEF ContributorCall, apply_for_issue, withdraw_application,
       extend_application_ttl
  <1>5. CASE MaintainerCall
    BY <1>1, <1>2, <1>5 DEF MaintainerCall, complete_assignment, revoke_assignment,
       release_assignment, set_org_cap
  <1>6. CASE CloseLedger \/ RestoreInstance \/ UNCHANGED vars
    BY <1>2, <1>6 DEF CloseLedger, RestoreInstance, vars
  <1>7. QED
    BY <1>3, <1>4, <1>5, <1>6 DEF Next

\* Every new assignment takes a live application of that contributor for that
\* issue out of the contract in the same step, and its organisation has a
\* registered maintainer then: nobody is assigned without having applied.
THEOREM ConsumptionHolds == Spec => AssignmentConsumesApplication
  <1>1. TypeOK /\ [Next]_vars => [ConsumptionStep]_vars
    BY ConsumptionOfStep
  <1>2. QED
    BY <1>1, TypeCorrect, PTL DEF Spec, AssignmentConsumesApplication
=============================================================================
