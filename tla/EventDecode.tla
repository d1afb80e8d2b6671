----------------------------- MODULE EventDecode ----------------------------
(***************************************************************************)
(* From the contract's events to rows of contract_events: what events.rs   *)
(* publishes, and how parseRpcEvent of src/eventIndexer.ts reads it back   *)
(* by topic name and position in the data tuple.  Module EventIndexer is   *)
(* about the polling; here every event is read once, in order.             *)
(***************************************************************************)
EXTENDS Integers, Sequences, SequencesExt

CONSTANTS
  EdContributors, EdMaintainers, EdOrgs, EdIssues,
  EdMaxEvents   \* bound on the events of the contract

ASSUME EdAssumption == EdMaxEvents \in Nat /\ EdIssues \subseteq Nat

VARIABLES
  edPending,   \* applications of the contract: <<contributor, org, issue>>
  edAssigned,  \* assignments of the contract
  edRegistered,\* <<maintainer, org>>
  edExpired,   \* history: applications that expired and were not made again
  edLog,       \* the contract's events: topics and data
  edRead,      \* events read by the indexer
  edTable      \* rows of contract_events

edVars == <<edPending, edAssigned, edRegistered, edExpired, edLog, edRead, edTable>>

\* Native values of decodeScVal: symbols and addresses become strings, u32 a number.
str(s) == [t |-> "string", v |-> s]
num(n) == [t |-> "number", v |-> n]
EdNull == [t |-> "null"]
tuple(vs) == [t |-> "array", v |-> vs]

EdInit == /\ edPending = {} /\ edAssigned = {} /\ edRegistered = {} /\ edExpired = {}
          /\ edLog = <<>> /\ edRead = 0 /\ edTable = <<>>

-----------------------------------------------------------------------------
(* src/events.rs *)

publish(name, who, data) ==
  /\ Len(edLog) < EdMaxEvents
  /\ edLog' = Append(edLog, [topics |-> <<str(name), str(who)>>, data |-> data])
  /\ UNCHANGED <<edRead, edTable>>

emit_maintainer_registered(m, o) == publish("maint_reg", m, str(o))
emit_application_submitted(c, o, i) == publish("applied", c, tuple(<<str(o), num(i)>>))
emit_application_withdrawn(c, o, i) == publish("withdrew", c, tuple(<<str(o), num(i)>>))
emit_issue_assigned(m, c, o, i) == publish("assigned", c, tuple(<<str(m), str(o), num(i)>>))
emit_assignment_completed(m, c, o, i) == publish("completed", c, tuple(<<str(m), str(o), num(i)>>))
emit_assignment_revoked(m, c, o, i) == publish("revoked", c, tuple(<<str(m), str(o), num(i)>>))
emit_admin_transferred(a, b) == publish("adm_xfer", a, str(b))

\* The contract, as far as its events go; module WorkloadGovernor has the rules.
EdContract ==
  \/ \E c \in EdContributors, o \in EdOrgs, i \in EdIssues :
       LET x == <<c, o, i>>
       IN \/ /\ x \notin edPending /\ edPending' = edPending \cup {x} /\ edExpired' = edExpired \ {x}
             /\ emit_application_submitted(c, o, i) /\ UNCHANGED <<edAssigned, edRegistered>>
          \/ /\ x \in edPending /\ edPending' = edPending \ {x}
             /\ emit_application_withdrawn(c, o, i) /\ UNCHANGED <<edAssigned, edRegistered, edExpired>>
          \/ \E m \in EdMaintainers :
               /\ <<m, o>> \in edRegistered
               /\ \/ /\ x \in edPending \ edAssigned
                     /\ edPending' = edPending \ {x} /\ edAssigned' = edAssigned \cup {x}
                     /\ emit_issue_assigned(m, c, o, i)
                  \/ /\ x \in edAssigned /\ edAssigned' = edAssigned \ {x} /\ UNCHANGED edPending
                     /\ emit_assignment_completed(m, c, o, i) \/ emit_assignment_revoked(m, c, o, i)
               /\ UNCHANGED <<edRegistered, edExpired>>
  \/ \E m \in EdMaintainers, o \in EdOrgs :
       /\ <<m, o>> \notin edRegistered /\ edRegistered' = edRegistered \cup {<<m, o>>}
       /\ emit_maintainer_registered(m, o) /\ UNCHANGED <<edPending, edAssigned, edExpired>>
  \/ \E m \in EdMaintainers : emit_admin_transferred(m, m) /\ UNCHANGED <<edPending, edAssigned, edRegistered, edExpired>>

\* A temporary entry expires: no event tells.
EdExpire == \E x \in edPending : /\ edPending' = edPending \ {x} /\ edExpired' = edExpired \cup {x}
                                 /\ UNCHANGED <<edAssigned, edRegistered, edLog, edRead, edTable>>

-----------------------------------------------------------------------------
(* src/eventIndexer.ts *)

extractEventType_withdrawn(topics) ==
  IF topics[1].v \in {"applied", "withdrawn", "assigned", "completed", "revoked"} THEN topics[1].v ELSE "null"

extractEventType(topics) ==
  IF topics[1].t = "string" /\ topics[1].v \in {"applied", "withdrew", "assigned", "completed", "revoked", "maintainer_registered"}
  THEN topics[1].v ELSE "null"

extractContributorFromTopic(topics) == IF Len(topics) >= 2 /\ topics[2].t = "string" THEN topics[2] ELSE EdNull

\* A value of another type is stored as null.
typed(v, t) == IF v.t = t THEN v ELSE EdNull

parseEventData_pair(data, type) == [org_id |-> typed(data.v[1], "string"), issue_id |-> typed(data.v[2], "number")]

parseEventData(data, type) ==
  CASE type = "maintainer_registered" -> [org_id |-> typed(data, "string"), issue_id |-> EdNull]
    [] type # "maintainer_registered" /\ data.t # "array" -> [org_id |-> EdNull, issue_id |-> EdNull]
    [] type \in {"applied", "withdrew"} /\ data.t = "array" ->
         [org_id |-> typed(data.v[1], "string"), issue_id |-> typed(data.v[2], "number")]
    [] OTHER -> [org_id |-> typed(data.v[2], "string"), issue_id |-> typed(data.v[3], "number")]

\* <<>> when the event is skipped.
parseRpcEvent(raw) ==
  LET type == extractEventType(raw.topics)
      d == parseEventData(raw.data, type)
  IN IF type = "null" THEN <<>>
     ELSE <<[event_type |-> type,
             contributor |-> IF type = "maintainer_registered" THEN EdNull ELSE extractContributorFromTopic(raw.topics),
             org_id |-> d.org_id, issue_id |-> d.issue_id]>>

EdIndex == /\ edRead < Len(edLog)
           /\ edRead' = edRead + 1
           /\ edTable' = edTable \o parseRpcEvent(edLog[edRead'])
           /\ UNCHANGED <<edPending, edAssigned, edRegistered, edExpired, edLog>>

EdNext == EdContract \/ EdExpire \/ EdIndex

EdSpec == EdInit /\ [][EdNext]_edVars

-----------------------------------------------------------------------------
EdKeys   == EdContributors \X EdOrgs \X EdIssues
EdStates == [pending : SUBSET EdKeys, assigned : SUBSET EdKeys]
EdRows   == [event_type : {"applied", "withdrew", "assigned", "completed", "revoked"},
             contributor : {str(c) : c \in EdContributors}, org_id : {str(o) : o \in EdOrgs},
             issue_id : {num(i) : i \in EdIssues}]
EdNothing == [pending |-> {}, assigned |-> {}]

\* What a row tells a reader of the table who knows the rows before it.
EdRowMeans ==
  [p \in EdStates \X EdRows |->
     LET s == p[1]
         r == p[2]
         x == <<r.contributor.v, r.org_id.v, r.issue_id.v>>
     IN CASE r.event_type = "applied"   -> [s EXCEPT !.pending = @ \cup {x}]
          [] r.event_type = "withdrew"  -> [s EXCEPT !.pending = @ \ {x}]
          [] r.event_type = "assigned"  -> [pending |-> s.pending \ {x}, assigned |-> s.assigned \cup {x}]
          [] r.event_type \in {"completed", "revoked"} -> [s EXCEPT !.assigned = @ \ {x}]]

\* What the reader makes of all rows: open applications and assignments.
EdReplay == FoldLeft(LAMBDA s, r : EdRowMeans[<<s, r>>], EdNothing, edTable)

\* Type invariant: every row names a contributor, an organisation and an issue.
EdTypeOK == /\ edRead \in 0..Len(edLog) /\ Len(edTable) <= edRead
            /\ \A k \in DOMAIN edTable :
                 LET r == edTable[k]
                 IN /\ r.contributor \in {str(c) : c \in EdContributors}
                    /\ r.org_id \in {str(o) : o \in EdOrgs}
                    /\ r.issue_id \in {num(i) : i \in EdIssues}

\* Once every event is indexed, the applications and assignments that follow from
\* the rows are those of the contract, and the applications that expired silently.
EdRebuilt == edRead = Len(edLog) => EdReplay = [pending |-> edPending \cup edExpired, assigned |-> edAssigned]

\* A claim of eventIndexer.ts: "Supported event types (matching src/events.rs emit
\* helpers)" with maintainer_registered among them; the contract calls it maint_reg.
EdRegistrationsIndexed ==
  edRead = Len(edLog) => \A x \in edRegistered :
    \E k \in DOMAIN edTable : edTable[k].event_type = "maintainer_registered" /\ edTable[k].org_id = str(x[2])
=============================================================================
