------------------------ MODULE MCWorkloadGovernor ------------------------
(***************************************************************************)
(* Small instances of the contract for TLC, and the statements the         *)
(* repository makes about the contract that its code does not keep: each   *)
(* of those is checked by a run of its own that finds the counterexample.  *)
(***************************************************************************)
EXTENDS WorkloadGovernor, TLC

CONSTANTS a1, a2

Symmetry == Permutations({a1, a2})

-----------------------------------------------------------------------------
\* docs/fairness-model.md and docs/storage-design.md: the stored g_apps counter
\* is the number of pending applications, because counter and sentinels
\* "expire together".  (lib.rs: the sentinels expire one by one, and the
\* counter is decremented only by withdraw_application and assign_issue.)
CounterEqualsPending ==
  \A c \in Address : appCount[c] = Cardinality(LiveApps(c))

\* README.md, docs/maintainer-guide.md and tests/test_already_assigned.rs: an
\* issue that has an active assignment cannot be assigned to anybody else.
\* (lib.rs: has_assignment is keyed by the contributor as well.)
OneAssigneePerIssue ==
  \A o \in OrgId, i \in IssueId, c, d \in Address :
    has_assignment(o, i, c) /\ has_assignment(o, i, d) => c = d
=============================================================================
