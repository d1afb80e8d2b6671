----------------------------- MODULE LiveUpdates -----------------------------
(***************************************************************************)
(* The live counters of the front end: the server's event stream           *)
(* (src/routes/events.ts, src/services/event-bus.ts) and the provider that *)
(* follows it in one browser tab, reconnects three times and then falls    *)
(* back to polling (frontend/src/hooks/useLiveUpdates.tsx).  The contract  *)
(* events themselves come from module EventIndexer.                        *)
(***************************************************************************)
EXTENDS Integers, Sequences, FiniteSets

CONSTANTS
  LvMaxEvents,  \* bound on the events of a behaviour
  LvMaxStale,   \* bound on closed connections the server has not noticed
  LvMaxPolls,   \* bound on polls under way at the same time
  LvRetries     \* reconnections before polling: 3

ASSUME LvAssumption == {LvMaxEvents, LvMaxStale, LvMaxPolls, LvRetries} \subseteq Nat

VARIABLES
  lvLog,      \* table contract_events: the types, oldest first
  lvStale,    \* subscribers whose connection is closed
  lvConn,     \* the tab's EventSource: none, opening, open
  lvWire,     \* events sent on the open connection and not handled yet
  lvTab,      \* liveStatus, retryCount, the two timers, stopped
  lvShown,    \* globalApplications
  lvPolls,    \* polls under way
  lvGap       \* history: an event passed the tab by, or a poll set the counter

lvVars == <<lvLog, lvStale, lvConn, lvWire, lvTab, lvShown, lvPolls, lvGap>>

LvTypes == {"applied", "assigned", "withdrawn"}
PlusZero(n) == IF n > 0 THEN n ELSE 0

LvInit == /\ lvLog = <<>> /\ lvStale = 0 /\ lvConn = "opening" /\ lvWire = <<>>
          /\ lvTab = [status |-> "reconnecting", retry |-> 0, retryTimer |-> FALSE, pollTimer |-> FALSE, stopped |-> FALSE]
          /\ lvShown = 0 /\ lvPolls = 0 /\ lvGap = FALSE

-----------------------------------------------------------------------------
(* Server. *)

\* publishLiveEvent calls every subscriber; what is written to a closed
\* connection is lost.
publishLiveEvent == /\ Len(lvLog) < LvMaxEvents
                    /\ \E type \in LvTypes :
                         /\ lvLog' = Append(lvLog, type)
                         /\ lvWire' = IF lvConn = "open" THEN Append(lvWire, type) ELSE lvWire
                    /\ lvGap' = (lvGap \/ lvConn # "open")
                    /\ UNCHANGED <<lvStale, lvConn, lvTab, lvShown, lvPolls>>

unsubscribe_dropped(n) == n

unsubscribe(n) == n - 1

\* The request's close event.
onClose == /\ lvStale > 0
           /\ lvStale' = unsubscribe(lvStale)
           /\ UNCHANGED <<lvLog, lvConn, lvWire, lvTab, lvShown, lvPolls, lvGap>>

-----------------------------------------------------------------------------
(* Tab. *)

\* source.close(): the messages still under way are dropped with it.
Hangup == /\ lvConn' = "none" /\ lvWire' = <<>>
          /\ lvStale' = IF lvConn = "open" THEN lvStale + 1 ELSE lvStale
          /\ lvGap' = (lvGap \/ lvWire # <<>>)

onopen == /\ lvConn = "opening"
          /\ lvConn' = "open"
          /\ lvTab' = [lvTab EXCEPT !.status = "connected", !.retry = 0]
          /\ UNCHANGED <<lvLog, lvStale, lvWire, lvShown, lvPolls, lvGap>>

updateCounts_capUpdated(n, type) == IF type = "assigned" THEN PlusZero(n - 1) ELSE n + 1

updateCounts(n, type) == CASE type = "applied"  -> n + 1
                           [] type = "assigned" -> PlusZero(n - 1)
                           [] OTHER             -> n

handleLiveEvent == /\ lvWire # <<>>
               /\ lvShown' = updateCounts(lvShown, Head(lvWire))
               /\ lvWire' = Tail(lvWire)
               /\ UNCHANGED <<lvLog, lvStale, lvConn, lvTab, lvPolls, lvGap>>

afterError_giveUp(tab) == IF tab.retry >= LvRetries THEN tab
                          ELSE [tab EXCEPT !.retry = @ + 1, !.retryTimer = TRUE]

afterError_offByOne(tab) == IF tab.retry > LvRetries THEN [tab EXCEPT !.status = "polling", !.pollTimer = TRUE]
                            ELSE [tab EXCEPT !.retry = @ + 1, !.retryTimer = TRUE]

afterError(tab) == IF tab.retry >= LvRetries THEN [tab EXCEPT !.status = "polling", !.pollTimer = TRUE]
                   ELSE [tab EXCEPT !.retry = @ + 1, !.retryTimer = TRUE]

\* The stream breaks, or cannot be opened.
onerror == /\ lvConn # "none" /\ lvStale < LvMaxStale
           /\ Hangup
           /\ lvTab' = afterError(lvTab)
           /\ UNCHANGED <<lvLog, lvShown, lvPolls>>

\* The retry timer fires.
connect == /\ lvTab.retryTimer
           /\ lvConn' = "opening"
           /\ lvTab' = [lvTab EXCEPT !.retryTimer = FALSE, !.status = "reconnecting"]
           /\ UNCHANGED <<lvLog, lvStale, lvWire, lvShown, lvPolls, lvGap>>

\* The interval fires, or startPolling does.
fetchEvents == /\ lvTab.pollTimer /\ lvPolls < LvMaxPolls
               /\ lvPolls' = lvPolls + 1
               /\ UNCHANGED <<lvLog, lvStale, lvConn, lvWire, lvTab, lvShown, lvGap>>

\* The rows of GET /api/events name the event "topic", and the tab counts those
\* whose eventType or event_type says "applied": it finds none, whatever the log.
polledCount == 0

\* An answer arrives and replaces the counter; an error is ignored.
pollEvents == /\ lvPolls > 0
              /\ lvPolls' = lvPolls - 1
              /\ lvShown' \in {polledCount, lvShown}
              /\ lvGap' = TRUE
              /\ UNCHANGED <<lvLog, lvStale, lvConn, lvWire, lvTab>>

\* The effect's cleanup.
unmount == /\ ~lvTab.stopped
           /\ Hangup
           /\ lvTab' = [lvTab EXCEPT !.stopped = TRUE, !.retryTimer = FALSE, !.pollTimer = FALSE]
           /\ lvPolls' = 0
           /\ UNCHANGED <<lvLog, lvShown>>

LvNext == \/ publishLiveEvent \/ onClose \/ onopen \/ handleLiveEvent \/ onerror \/ connect
          \/ fetchEvents \/ pollEvents \/ unmount

-----------------------------------------------------------------------------
\* Type invariant.
LvTypeOK == /\ lvLog \in Seq(LvTypes) /\ lvStale \in 0..LvMaxStale + 1
            /\ lvConn \in {"none", "opening", "open"}
            /\ lvTab.status \in {"connected", "reconnecting", "polling"}
            /\ lvTab.retry \in 0..LvRetries
            /\ lvShown \in 0..LvMaxEvents

\* Applications less assignments among the events of h after the j-th.
eventsAfter(h, j, type) == {i \in (j + 1)..Len(h) : h[i] = type}
surplus(h, j) == Cardinality(eventsAfter(h, j, "applied")) - Cardinality(eventsAfter(h, j, "assigned"))

\* n is the largest surplus of a final part of h: what is open when the events of
\* h are all there were, assignments of earlier applications not counted against
\* later ones.
Outstanding(n, h) == /\ \E j \in 0..Len(h) : n = surplus(h, j)
                     /\ \A j \in 0..Len(h) : surplus(h, j) <= n

\* A tab that missed nothing shows what the log says: every event that reached
\* it is counted once, in the order of the log, and the ones still under way are
\* the newest.
LvExact == ~lvGap => Outstanding(lvShown, SubSeq(lvLog, 1, Len(lvLog) - Len(lvWire)))

\* The tab never stays without both of its feeds: after an error it has a timer
\* that opens the stream again, or it polls.
LvFed == lvTab.stopped \/ lvConn # "none" \/ lvTab.retryTimer \/ lvTab.pollTimer

\* A browser that left is forgotten: the server unsubscribes every connection it
\* had.
LvForgotten == lvTab.stopped ~> (lvStale = 0)
=============================================================================
