--------------------------- MODULE FairnessModel ---------------------------
(***************************************************************************)
(* What the fairness rules of the contract mean, with no counters, no      *)
(* times to live and no caller checks: sets of pending applications and of *)
(* assignments that grow one element at a time, only while the set itself  *)
(* is smaller than the cap in force.  Pending applications may vanish at   *)
(* any time (expiry); assignments never do.                                *)
(***************************************************************************)
EXTENDS Integers, FiniteSets

CONSTANTS Address, OrgId, IssueId,
          GLOBAL_APP_LIMIT, GLOBAL_CAP_MAX,
          ORG_ASSIGNMENT_LIMIT, ORG_CAP_MIN, ORG_CAP_MAX

VARIABLES
  pending,    \* contributor -> set of <<org, issue>> applied for
  assigned,   \* contributor -> org -> set of issues worked on
  globalCap,
  orgCap

fvars == <<pending, assigned, globalCap, orgCap>>

Init ==
  /\ pending = [c \in Address |-> {}]
  /\ assigned = [c \in Address |-> [o \in OrgId |-> {}]]
  /\ globalCap = GLOBAL_APP_LIMIT
  /\ orgCap = [o \in OrgId |-> ORG_ASSIGNMENT_LIMIT]

Apply(c, o, i) ==
  /\ <<o, i>> \notin pending[c]
  /\ Cardinality(pending[c]) < globalCap
  /\ pending' = [pending EXCEPT ![c] = @ \cup {<<o, i>>}]
  /\ UNCHANGED <<assigned, globalCap, orgCap>>

Withdraw(c, o, i) ==
  /\ <<o, i>> \in pending[c]
  /\ pending' = [pending EXCEPT ![c] = @ \ {<<o, i>>}]
  /\ UNCHANGED <<assigned, globalCap, orgCap>>

Assign(c, o, i) ==
  /\ <<o, i>> \in pending[c]
  /\ i \notin assigned[c][o]
  /\ Cardinality(assigned[c][o]) < orgCap[o]
  /\ pending' = [pending EXCEPT ![c] = @ \ {<<o, i>>}]
  /\ assigned' = [assigned EXCEPT ![c][o] = @ \cup {i}]
  /\ UNCHANGED <<globalCap, orgCap>>

Release(c, o, i) ==
  /\ i \in assigned[c][o]
  /\ assigned' = [assigned EXCEPT ![c][o] = @ \ {i}]
  /\ UNCHANGED <<pending, globalCap, orgCap>>

Expire ==
  /\ pending' \in [Address -> SUBSET (OrgId \X IssueId)]
  /\ \A c \in Address : pending'[c] \subseteq pending[c]
  /\ UNCHANGED <<assigned, globalCap, orgCap>>

SetGlobalCap ==
  /\ globalCap' \in 0..GLOBAL_CAP_MAX
  /\ UNCHANGED <<pending, assigned, orgCap>>

SetOrgCap(o) ==
  /\ \E cap \in ORG_CAP_MIN..ORG_CAP_MAX : orgCap' = [orgCap EXCEPT ![o] = cap]
  /\ UNCHANGED <<pending, assigned, globalCap>>

Next ==
  \/ \E c \in Address, o \in OrgId, i \in IssueId :
       Apply(c, o, i) \/ Withdraw(c, o, i) \/ Assign(c, o, i) \/ Release(c, o, i)
  \/ Expire
  \/ SetGlobalCap
  \/ \E o \in OrgId : SetOrgCap(o)

Spec == Init /\ [][Next]_fvars
=============================================================================
