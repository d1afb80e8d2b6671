------------------------- MODULE WebhookDispatcher -------------------------
(***************************************************************************)
(* Delivery of assignment events to the webhooks of an organisation        *)
(* (src/services/webhook-dispatcher.ts): one concurrent delivery per       *)
(* webhook, MAX_ATTEMPTS requests with a back-off between them, and a row  *)
(* in webhook_dead_letters when all of them failed.                        *)
(*                                                                         *)
(* A request can fail on either side of the endpoint's work: an endpoint   *)
(* that handled the event and answered too late is sent it again.          *)
(* Deliveries live in memory only.  Webhooks are registered and removed by *)
(* routes/webhooks.ts while deliveries go on; a removed row's id is never  *)
(* used again.                                                             *)
(***************************************************************************)
EXTENDS Integers

CONSTANTS
  Events,        \* assignment events
  Hooks,         \* ids of the organisation's webhooks, present and future
  MAX_ATTEMPTS,  \* webhook-dispatcher.ts: 3
  HookMaxFaults      \* bound: failed queries and crashes

ASSUME DispatchAssumption == MAX_ATTEMPTS \in Nat \ {0} /\ HookMaxFaults \in Nat

VARIABLES
  hookRow,      \* row of org_webhooks: id -> "unused", "registered" or "removed"
  dispatched,   \* events whose dispatch began
  task,         \* event -> webhook -> the delivery: control and attempt
  received,     \* <<event, webhook>>: the endpoint handled the event, once or more often
  deadLetters,  \* rows of webhook_dead_letters
  hookFaults

hookVars == <<hookRow, dispatched, task, received, deadLetters, hookFaults>>

New == [pc |-> "new", attempt |-> 0]

HookTypeOK ==
  /\ hookRow \in [Hooks -> {"unused", "registered", "removed"}]
  /\ dispatched \subseteq Events
  /\ task \in [Events -> [Hooks ->
       [pc : {"new", "send", "backoff", "failed", "over"}, attempt : 0..(MAX_ATTEMPTS - 1)]]]
  /\ received \subseteq Events \X Hooks
  /\ deadLetters \subseteq Events \X Hooks
  /\ hookFaults \in 0..HookMaxFaults

HookInit ==
  /\ hookRow = [w \in Hooks |-> "unused"]
  /\ dispatched = {}
  /\ task = [e \in Events |-> [w \in Hooks |-> New]]
  /\ received = {}
  /\ deadLetters = {}
  /\ hookFaults = 0

HookFault == hookFaults < HookMaxFaults /\ hookFaults' = hookFaults + 1

-----------------------------------------------------------------------------

\* org_id and secret are not blank, the url starts with https://
validHook(body) == body.org_id /\ body.url /\ body.secret

\* 400 and 500 leave no row; 201 does
postOrg(w, body) ==
  /\ validHook(body) /\ hookRow[w] = "unused"
  /\ hookRow' = [hookRow EXCEPT ![w] = "registered"]
  /\ UNCHANGED <<dispatched, task, received, deadLetters, hookFaults>>

\* 204, and no delivery under way is told; 404 for a row that is not there
deleteOrg(w) ==
  /\ hookRow[w] = "registered"
  /\ hookRow' = [hookRow EXCEPT ![w] = "removed"]
  /\ UNCHANGED <<dispatched, task, received, deadLetters, hookFaults>>

\* the SELECT answers: one delivery per registered webhook starts
dispatchAssignmentEvent(e) ==
  /\ e \notin dispatched
  /\ dispatched' = dispatched \cup {e}
  /\ task' = [task EXCEPT ![e] = [w \in Hooks |->
       IF hookRow[w] = "registered" THEN [New EXCEPT !.pc = "send"] ELSE New]]
  /\ UNCHANGED <<hookRow, received, deadLetters, hookFaults>>

\* the SELECT fails: logged, the event goes nowhere
dispatchAssignmentEventFails(e) ==
  /\ HookFault
  /\ e \notin dispatched
  /\ dispatched' = dispatched \cup {e}
  /\ UNCHANGED <<hookRow, task, received, deadLetters>>

\* mutant: one attempt too many
lastAttempt_offByOne(n) == n = MAX_ATTEMPTS

lastAttempt(n) == n = MAX_ATTEMPTS - 1

\* mutant: gives up silently after the last attempt
attemptFails_silent(e, w) ==
  task' = [task EXCEPT ![e][w].pc = IF lastAttempt(task[e][w].attempt) THEN "over" ELSE "backoff"]

\* back off, or fall out of the loop
attemptFails(e, w) ==
  task' = [task EXCEPT ![e][w].pc = IF lastAttempt(task[e][w].attempt) THEN "failed" ELSE "backoff"]

\* the endpoint handles the request, and answers 2xx in time or not
fetchHandled(e, w) ==
  /\ task[e][w].pc = "send"
  /\ received' = received \cup {<<e, w>>}
  /\ task' = [task EXCEPT ![e][w].pc = "over"] \/ attemptFails(e, w)
  /\ UNCHANGED <<hookRow, dispatched, deadLetters, hookFaults>>

\* refused, unreachable, or any status but 2xx
fetchFails(e, w) ==
  /\ task[e][w].pc = "send"
  /\ attemptFails(e, w)
  /\ UNCHANGED <<hookRow, dispatched, received, deadLetters, hookFaults>>

\* mutant: the attempt is not counted, so there is no last one
delay_sameAttempt(e, w) ==
  /\ task[e][w].pc = "backoff"
  /\ task' = [task EXCEPT ![e][w].pc = "send"]
  /\ UNCHANGED <<hookRow, dispatched, received, deadLetters, hookFaults>>

\* the back-off is over: the next attempt
delay(e, w) ==
  /\ task[e][w].pc = "backoff"
  /\ task' = [task EXCEPT ![e][w] = [pc |-> "send", attempt |-> @.attempt + 1]]
  /\ UNCHANGED <<hookRow, dispatched, received, deadLetters, hookFaults>>

insertDeadLetter(e, w) ==
  /\ task[e][w].pc = "failed"
  /\ deadLetters' = deadLetters \cup {<<e, w>>}
  /\ task' = [task EXCEPT ![e][w].pc = "over"]
  /\ UNCHANGED <<hookRow, dispatched, received, hookFaults>>

\* the INSERT fails: logged only
insertDeadLetterFails(e, w) ==
  /\ HookFault
  /\ task[e][w].pc = "failed"
  /\ task' = [task EXCEPT ![e][w].pc = "over"]
  /\ UNCHANGED <<hookRow, dispatched, received, deadLetters>>

\* the process dies: no delivery in progress is resumed
HookCrash ==
  /\ HookFault
  /\ task' = [e \in Events |-> [w \in Hooks |->
       IF task[e][w].pc = "new" THEN task[e][w] ELSE [task[e][w] EXCEPT !.pc = "over"]]]
  /\ UNCHANGED <<hookRow, dispatched, received, deadLetters>>

Progress(e, w) == fetchHandled(e, w) \/ fetchFails(e, w) \/ delay(e, w) \/ insertDeadLetter(e, w)

HookNext ==
  \/ \E w \in Hooks : \/ \E body \in [org_id : BOOLEAN, url : BOOLEAN, secret : BOOLEAN] : postOrg(w, body)
                     \/ deleteOrg(w)
  \/ \E e \in Events : dispatchAssignmentEvent(e) \/ dispatchAssignmentEventFails(e)
  \/ \E e \in Events, w \in Hooks : Progress(e, w) \/ insertDeadLetterFails(e, w)
  \/ HookCrash

\* AbortSignal.timeout ends every request; the timers and queries settle.
HookSpec == HookInit /\ [][HookNext]_hookVars /\ \A e \in Events, w \in Hooks : WF_hookVars(Progress(e, w))

-----------------------------------------------------------------------------

\* As long as no query failed and the process lived, a delivery that is over
\* reached its endpoint or is in the dead-letter table, and one that is in the
\* table used up all its attempts, whether or not its webhook was removed since.
AccountedFor ==
  \A e \in Events, w \in Hooks :
    /\ hookFaults = 0 /\ task[e][w].pc = "over" => <<e, w>> \in received \cup deadLetters
    /\ <<e, w>> \in deadLetters => lastAttempt(task[e][w].attempt)

\* A delivery that was started comes to an end, whatever the endpoint does, and
\* none waits for another endpoint.
DeliveriesEnd ==
  \A e \in Events, w \in Hooks : (task[e][w].pc = "send") ~> (task[e][w].pc = "over")
=============================================================================
