------------------------------ MODULE OrgSync ------------------------------
(***************************************************************************)
(* The multi-organisation sync service (src/sync.ts): one listener and one *)
(* in-memory queue per registered organisation, each queue drained by its  *)
(* own loop into the database.                                             *)
(*                                                                         *)
(* JavaScript runs a handler to its next await, so those are the steps: a  *)
(* load waits for the list of organisations, a drain for saveEvent.  The   *)
(* start() of the service and its 60 s timer may have loads pending at the *)
(* same time, and an event may arrive in any gap.                          *)
(***************************************************************************)
EXTENDS Integers, Sequences

CONSTANTS
  Orgs,       \* organisations
  Hung,       \* organisations whose saveEvent may never settle
  Loads,      \* calls of loadAndRegisterOrgs that may be pending together
  Drains,     \* activations of processNext that may exist per organisation
  MaxEvents   \* bound: events per organisation

ASSUME SyncAssumption ==
  /\ Hung \subseteq Orgs
  /\ MaxEvents \in Nat
  /\ Drains # {}

VARIABLES
  registered,  \* the organisations in the database
  load,        \* per load: idle, or the list its query returned
  listeners,   \* organisation -> listeners on its event; 0 is not registered
  emitted,     \* organisation -> events its contract emitted to a listener
  queue,       \* organisation -> event numbers waiting, the one in work first
  processing,  \* organisation -> this.processing
  drain,       \* organisation -> drain -> the event it is saving, 0 when none
  saved,       \* organisation -> rows of the database, in order of arrival
  dropped      \* organisation -> events whose save failed

queues == <<queue, processing, drain>>
syncVars == <<registered, load, listeners, emitted, queues, saved, dropped>>

Event == 1..MaxEvents

SyncTypeOK ==
  /\ registered \subseteq Orgs
  /\ load \in [Loads -> [pc : {"idle", "query", "listed"}, orgs : SUBSET Orgs]]
  /\ listeners \in [Orgs -> {0, 1}]
  /\ emitted \in [Orgs -> 0..MaxEvents]
  /\ queue \in [Orgs -> Seq(Event)]
  /\ processing \in [Orgs -> BOOLEAN]
  /\ drain \in [Orgs -> [Drains -> 0..MaxEvents]]
  /\ saved \in [Orgs -> Seq(Event)]
  /\ dropped \in [Orgs -> SUBSET Event]

IdleLoad == [pc |-> "idle", orgs |-> {}]

SyncInit ==
  /\ registered \in SUBSET Orgs
  /\ load = [p \in Loads |-> IdleLoad]
  /\ listeners = [o \in Orgs |-> 0]
  /\ emitted = [o \in Orgs |-> 0]
  /\ queue = [o \in Orgs |-> <<>>]
  /\ processing = [o \in Orgs |-> FALSE]
  /\ drain = [o \in Orgs |-> [d \in Drains |-> 0]]
  /\ saved = [o \in Orgs |-> <<>>]
  /\ dropped = [o \in Orgs |-> {}]

-----------------------------------------------------------------------------
(* SyncService *)

\* start() or the timer calls loadAndRegisterOrgs
startLoad(p) ==
  /\ load[p].pc = "idle"
  /\ load' = [load EXCEPT ![p].pc = "query"]
  /\ UNCHANGED <<registered, listeners, emitted, queues, saved, dropped>>

getRegisteredOrgs(p) ==
  /\ load[p].pc = "query"
  /\ load' = [load EXCEPT ![p] = [pc |-> "listed", orgs |-> registered]]
  /\ UNCHANGED <<registered, listeners, emitted, queues, saved, dropped>>

\* the query fails: logged, tried again at the next tick of the timer
getRegisteredOrgsFails(p) ==
  /\ load[p].pc = "query"
  /\ load' = [load EXCEPT ![p] = IdleLoad]
  /\ UNCHANGED <<registered, listeners, emitted, queues, saved, dropped>>

\* mutant: no look at orgQueues before adding the listener
loadAndRegisterOrgs_again(p) ==
  /\ load[p].pc = "listed"
  /\ listeners' = [o \in Orgs |-> IF o \in load[p].orgs THEN listeners[o] + 1 ELSE listeners[o]]
  /\ load' = [load EXCEPT ![p] = IdleLoad]
  /\ UNCHANGED <<registered, emitted, queues, saved, dropped>>

\* mutant: returns at the first organisation it already knows
loadAndRegisterOrgs_returns(p) ==
  /\ load[p].pc = "listed"
  /\ listeners' = IF \E o \in load[p].orgs : listeners[o] > 0 THEN listeners
                  ELSE [o \in Orgs |-> IF o \in load[p].orgs THEN 1 ELSE 0]
  /\ load' = [load EXCEPT ![p] = IdleLoad]
  /\ UNCHANGED <<registered, emitted, queues, saved, dropped>>

\* after the await: a queue and a listener for every organisation without one
loadAndRegisterOrgs(p) ==
  /\ load[p].pc = "listed"
  /\ listeners' = [o \in Orgs |->
        IF o \in load[p].orgs /\ listeners[o] = 0 THEN 1 ELSE listeners[o]]
  /\ load' = [load EXCEPT ![p] = IdleLoad]
  /\ UNCHANGED <<registered, emitted, queues, saved, dropped>>

-----------------------------------------------------------------------------
(* OrgQueue *)

\* mutant: a new drain for every event
startsDrain_always(o) == TRUE

\* enqueue starts a drain only when none is at work
startsDrain(o) == ~processing[o]

\* the listener hands the event to the queue; a drain that starts reads the
\* head and calls saveEvent before it yields
handleEvent(o) ==
  LET q == Append(queue[o], emitted[o] + 1) IN
  /\ listeners[o] > 0 /\ emitted[o] < MaxEvents
  /\ emitted' = [emitted EXCEPT ![o] = @ + 1]
  /\ queue' = [queue EXCEPT ![o] = q]
  /\ IF startsDrain(o)
     THEN \E d \in Drains : /\ drain[o][d] = 0
                            /\ drain' = [drain EXCEPT ![o][d] = Head(q)]
                            /\ processing' = [processing EXCEPT ![o] = TRUE]
     ELSE UNCHANGED <<drain, processing>>
  /\ UNCHANGED <<registered, load, listeners, saved, dropped>>

\* an event that names another organisation is dropped before the queue
foreignEvent(o) == listeners[o] > 0 /\ UNCHANGED syncVars

\* mutant: forgets to clear the flag when the queue runs empty
processNext_keepsFlag(o, d) ==
  LET q == IF queue[o] = <<>> THEN <<>> ELSE Tail(queue[o]) IN
  /\ queue' = [queue EXCEPT ![o] = q]
  /\ drain' = [drain EXCEPT ![o][d] = IF q = <<>> THEN 0 ELSE Head(q)]
  /\ UNCHANGED processing

\* shift the event that is done with and take the next, or stop
processNext(o, d) ==
  LET q == IF queue[o] = <<>> THEN <<>> ELSE Tail(queue[o]) IN
  /\ queue' = [queue EXCEPT ![o] = q]
  /\ drain' = [drain EXCEPT ![o][d] = IF q = <<>> THEN 0 ELSE Head(q)]
  /\ processing' = [processing EXCEPT ![o] = q # <<>>]

saveEvent(o, d) ==
  /\ drain[o][d] # 0
  /\ saved' = [saved EXCEPT ![o] = Append(@, drain[o][d])]
  /\ processNext(o, d)
  /\ UNCHANGED <<registered, load, listeners, emitted, dropped>>

\* mutant: the error ends the drain
saveEventFails_throws(o, d) ==
  /\ drain[o][d] # 0
  /\ dropped' = [dropped EXCEPT ![o] = @ \cup {drain[o][d]}]
  /\ queue' = [queue EXCEPT ![o] = Tail(@)]
  /\ drain' = [drain EXCEPT ![o][d] = 0]
  /\ processing' = [processing EXCEPT ![o] = FALSE]
  /\ UNCHANGED <<registered, load, listeners, emitted, saved>>

\* the save fails: the event is dropped and the drain goes on
saveEventFails(o, d) ==
  /\ drain[o][d] # 0
  /\ dropped' = [dropped EXCEPT ![o] = @ \cup {drain[o][d]}]
  /\ processNext(o, d)
  /\ UNCHANGED <<registered, load, listeners, emitted, saved>>

-----------------------------------------------------------------------------

\* an organisation is added to the database while the service runs
RegisterOrg(o) ==
  /\ o \notin registered
  /\ registered' = registered \cup {o}
  /\ UNCHANGED <<load, listeners, emitted, queues, saved, dropped>>

SaveSettles(o) == \E d \in Drains : saveEvent(o, d) \/ saveEventFails(o, d)

LoadStep(p) == startLoad(p) \/ getRegisteredOrgs(p) \/ loadAndRegisterOrgs(p)

SyncNext ==
  \/ \E p \in Loads : LoadStep(p) \/ getRegisteredOrgsFails(p)
  \/ \E o \in Orgs : RegisterOrg(o) \/ handleEvent(o) \/ foreignEvent(o) \/ SaveSettles(o)

\* The timer keeps loading and its queries do not fail for ever; saves settle,
\* except for the organisations in Hung.
SyncSpec ==
  /\ SyncInit /\ [][SyncNext]_syncVars
  /\ \A p \in Loads : /\ WF_syncVars(startLoad(p)) /\ SF_syncVars(getRegisteredOrgs(p))
                      /\ WF_syncVars(loadAndRegisterOrgs(p))
  /\ \A o \in Orgs \ Hung : WF_syncVars(SaveSettles(o))

-----------------------------------------------------------------------------

\* Every event of an organisation is saved at most once and in the order it was
\* emitted, whatever arrives while a save is pending.
SavedOnceInOrder ==
  \A o \in Orgs : \A j, k \in DOMAIN saved[o] : j < k => saved[o][j] < saved[o][k]

\* The flag, the queue and the drain agree: a queue with events is being
\* drained, by exactly one drain, which works on its head.
OneDrainPerQueue ==
  \A o \in Orgs :
    /\ processing[o] <=> queue[o] # <<>>
    /\ processing[o] => \E d \in Drains : drain[o][d] # 0
    /\ \A d \in Drains : drain[o][d] # 0 => queue[o] # <<>> /\ drain[o][d] = Head(queue[o])
    /\ \A d, e \in Drains : drain[o][d] # 0 /\ drain[o][e] # 0 => d = e

\* An event that was received is saved or dropped in the end, for every
\* organisation whose own saves settle: a save of another organisation that
\* hangs or fails holds nobody up.
ErrorsAreIsolated ==
  \A o \in Orgs \ Hung, e \in Event :
    (emitted[o] >= e) ~> (e \in dropped[o] \/ \E k \in DOMAIN saved[o] : saved[o][k] = e)

\* An organisation added to the database is listened to without a restart.
NewOrgsAreFound == \A o \in Orgs : (o \in registered) ~> (listeners[o] = 1)
=============================================================================
