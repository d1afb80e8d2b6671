---------------------------- MODULE EventIndexer ----------------------------
(***************************************************************************)
(* The contract event indexer (src/eventIndexer.ts): a loop that pages     *)
(* through the events of the contract at the RPC server, inserts each one  *)
(* into contract_events and announces it to the live subscribers.          *)
(*                                                                         *)
(* The paging cursor lives in memory only.  After a restart it is rebuilt  *)
(* from the highest ledger in the table, which is coarser: a crash in the  *)
(* middle of a ledger leaves a table that holds part of it.  stop() only   *)
(* clears a flag the loop reads between two batches, so a start() soon     *)
(* after it leaves two loops running over the same cursor.                 *)
(***************************************************************************)
EXTENDS Integers, Sequences

CONSTANTS
  Loops,       \* instances of pollForEvents that may be alive together
  Limit,       \* getEvents page size: 200
  MaxEvents,   \* bound: events the contract emits
  MaxFaults    \* bound: failed queries, stops and crashes

ASSUME IndexerAssumption ==
  /\ Limit \in Nat \ {0}
  /\ MaxEvents \in Nat /\ MaxFaults \in Nat

VARIABLES
  chain,      \* the contract's events in order: ledger, and whether it is one the indexer knows
  stored,     \* the events (positions in chain) with a row in contract_events
  published,  \* the events announced to live subscribers since the first start
  cursor,     \* this.cursor
  isRunning,  \* this.isRunning
  pc, pos, last,  \* per loop: control, event in hand, last event of the batch
  faults

loop == <<pc, pos, last>>
vars == <<chain, stored, published, cursor, isRunning, loop, faults>>

Cursor == [kind : {"genesis", "ledger", "token"}, at : Nat]
Genesis == [kind |-> "genesis", at |-> 0]

TypeOK ==
  /\ chain \in Seq([ledger : Nat \ {0}, known : BOOLEAN])
  /\ stored \subseteq DOMAIN chain
  /\ published \subseteq DOMAIN chain
  /\ cursor \in Cursor
  /\ isRunning \in BOOLEAN
  /\ pc \in [Loops -> {"off", "init", "poll", "store", "publish"}]
  /\ pos \in [Loops -> Nat] /\ last \in [Loops -> Nat]
  /\ \A l \in Loops : pc[l] \in {"store", "publish"} =>
                         1 <= pos[l] /\ pos[l] <= last[l] /\ last[l] <= Len(chain)
  /\ faults \in Nat

Init ==
  /\ chain = <<>>
  /\ stored = {} /\ published = {}
  /\ cursor = Genesis
  /\ isRunning = FALSE
  /\ pc = [l \in Loops |-> "off"]
  /\ pos = [l \in Loops |-> 0] /\ last = [l \in Loops |-> 0]
  /\ faults = 0

Fault == faults < MaxFaults /\ faults' = faults + 1

\* the RPC server's answer to a cursor: a ledger number includes that ledger, a
\* paging token excludes its own event
After(k) ==
  /\ cursor.kind = "ledger" => chain[k].ledger >= cursor.at
  /\ cursor.kind = "token"  => k > cursor.at

-----------------------------------------------------------------------------
(* Lifecycle *)

start(l) ==
  /\ ~isRunning
  /\ pc[l] = "off"
  /\ isRunning' = TRUE
  /\ pc' = [pc EXCEPT ![l] = "init"]
  /\ UNCHANGED <<chain, stored, published, cursor, pos, last, faults>>

stop ==
  /\ Fault
  /\ isRunning
  /\ isRunning' = FALSE
  /\ UNCHANGED <<chain, stored, published, cursor, loop>>

\* mutant: resumes behind the highest ledger instead of at it
initCursor_nextLedger(l) ==
  /\ pc[l] = "init"
  /\ IF stored = {} THEN cursor' = Genesis
     ELSE \E k \in stored :
            /\ \A j \in stored : chain[j].ledger <= chain[k].ledger
            /\ cursor' = [kind |-> "ledger", at |-> chain[k].ledger + 1]
  /\ pc' = [pc EXCEPT ![l] = "poll"]
  /\ UNCHANGED <<chain, stored, published, isRunning, pos, last, faults>>

\* resume at MAX(ledger_seq), or from genesis when the table is empty
initCursor(l) ==
  /\ pc[l] = "init"
  /\ IF stored = {} THEN cursor' = Genesis
     ELSE \E k \in stored :
            /\ \A j \in stored : chain[j].ledger <= chain[k].ledger
            /\ cursor' = [kind |-> "ledger", at |-> chain[k].ledger]
  /\ pc' = [pc EXCEPT ![l] = "poll"]
  /\ UNCHANGED <<chain, stored, published, isRunning, pos, last, faults>>

\* the query fails: start from genesis
initCursorFails(l) ==
  /\ Fault
  /\ pc[l] = "init"
  /\ cursor' = Genesis
  /\ pc' = [pc EXCEPT ![l] = "poll"]
  /\ UNCHANGED <<chain, stored, published, isRunning, pos, last>>

-----------------------------------------------------------------------------
(* Poll loop *)

exitLoop(l) ==
  /\ pc[l] = "poll" /\ ~isRunning
  /\ pc' = [pc EXCEPT ![l] = "off"]
  /\ UNCHANGED <<chain, stored, published, cursor, isRunning, pos, last, faults>>

\* mutant: the cursor moves on before the batch is stored
getEvents_eager(l) ==
  /\ pc[l] = "poll" /\ isRunning
  /\ \E lo, hi \in DOMAIN chain :
       /\ After(lo) /\ \A k \in 1..(lo - 1) : ~After(k)
       /\ lo <= hi /\ hi < lo + Limit
       /\ hi = Len(chain) \/ hi = lo + Limit - 1
       /\ pos' = [pos EXCEPT ![l] = lo]
       /\ last' = [last EXCEPT ![l] = hi]
       /\ cursor' = [kind |-> "token", at |-> hi]
  /\ pc' = [pc EXCEPT ![l] = "store"]
  /\ UNCHANGED <<chain, stored, published, isRunning, faults>>

\* a non-empty page: the first Limit events after the cursor
getEvents(l) ==
  /\ pc[l] = "poll" /\ isRunning
  /\ \E lo, hi \in DOMAIN chain :
       /\ After(lo) /\ \A k \in 1..(lo - 1) : ~After(k)
       /\ lo <= hi /\ hi < lo + Limit
       /\ hi = Len(chain) \/ hi = lo + Limit - 1
       /\ pos' = [pos EXCEPT ![l] = lo]
       /\ last' = [last EXCEPT ![l] = hi]
  /\ pc' = [pc EXCEPT ![l] = "store"]
  /\ UNCHANGED <<chain, stored, published, cursor, isRunning, faults>>

\* mutant: one event too many
nextOfBatch_overrun(l) ==
  IF pos[l] <= last[l]
  THEN /\ pos' = [pos EXCEPT ![l] = @ + 1]
       /\ pc' = [pc EXCEPT ![l] = "store"]
       /\ UNCHANGED cursor
  ELSE /\ cursor' = [kind |-> "token", at |-> last[l]]
       /\ pc' = [pc EXCEPT ![l] = "poll"]
       /\ UNCHANGED pos

\* on to the next event of the batch, or the cursor moves behind the batch
nextOfBatch(l) ==
  IF pos[l] < last[l]
  THEN /\ pos' = [pos EXCEPT ![l] = @ + 1]
       /\ pc' = [pc EXCEPT ![l] = "store"]
       /\ UNCHANGED cursor
  ELSE /\ cursor' = [kind |-> "token", at |-> last[l]]
       /\ pc' = [pc EXCEPT ![l] = "poll"]
       /\ UNCHANGED pos

\* parseRpcEvent answers null: unknown or malformed
skipEvent(l) ==
  /\ pc[l] = "store" /\ ~chain[pos[l]].known
  /\ nextOfBatch(l)
  /\ UNCHANGED <<chain, stored, published, isRunning, last, faults>>

\* mutant: a row that was there before is not announced
storeEvent_newRowsOnly(l) ==
  /\ pc[l] = "store" /\ chain[pos[l]].known
  /\ stored' = stored \cup {pos[l]}
  /\ IF pos[l] \in stored THEN nextOfBatch(l)
     ELSE pc' = [pc EXCEPT ![l] = "publish"] /\ UNCHANGED <<cursor, pos>>
  /\ UNCHANGED <<chain, published, isRunning, last, faults>>

\* INSERT ... ON CONFLICT DO NOTHING commits
storeEvent(l) ==
  /\ pc[l] = "store" /\ chain[pos[l]].known
  /\ stored' = stored \cup {pos[l]}
  /\ pc' = [pc EXCEPT ![l] = "publish"]
  /\ UNCHANGED <<chain, published, cursor, isRunning, pos, last, faults>>

\* the INSERT reports an error, committed or not; the rest of the batch is
\* abandoned and the cursor stays
storeEventFails(l) ==
  /\ Fault
  /\ pc[l] = "store" /\ chain[pos[l]].known
  /\ stored' \in {stored, stored \cup {pos[l]}}
  /\ pc' = [pc EXCEPT ![l] = "poll"]
  /\ UNCHANGED <<chain, published, cursor, isRunning, pos, last>>

\* the rest of storeEvent: announced whether the row is new or not.  The source
\* reads a variable "event" that its scope does not have; this is the step it
\* means, with the record just stored.
publishLiveEvent(l) ==
  /\ pc[l] = "publish"
  /\ published' = published \cup {pos[l]}
  /\ nextOfBatch(l)
  /\ UNCHANGED <<chain, stored, isRunning, last, faults>>

-----------------------------------------------------------------------------
(* The environment *)

\* the process dies; only the table survives (published is history)
Crash ==
  /\ Fault
  /\ pc' = [l \in Loops |-> "off"]
  /\ isRunning' = FALSE
  /\ cursor' = Genesis
  /\ UNCHANGED <<chain, stored, published, pos, last>>

\* the contract emits an event, in the current ledger or in a later one
Emit(known, step) ==
  LET now == IF chain = <<>> THEN 1 ELSE chain[Len(chain)].ledger IN
  /\ Len(chain) < MaxEvents
  /\ chain' = Append(chain, [ledger |-> now + step, known |-> known])
  /\ UNCHANGED <<stored, published, cursor, isRunning, loop, faults>>

Progress(l) ==
  \/ initCursor(l) \/ exitLoop(l) \/ getEvents(l)
  \/ skipEvent(l) \/ storeEvent(l) \/ publishLiveEvent(l)

Next ==
  \/ \E l \in Loops : start(l) \/ Progress(l) \/ initCursorFails(l) \/ storeEventFails(l)
  \/ stop
  \/ Crash
  \/ \E known \in BOOLEAN, step \in 0..1 : Emit(known, step)

\* Every await settles, and the service is started again after it went down.
Spec ==
  /\ Init /\ [][Next]_vars
  /\ \A l \in Loops : WF_vars(Progress(l))
  /\ WF_vars(\E l \in Loops : start(l))

-----------------------------------------------------------------------------

\* The table has no holes: with an event, it holds every earlier event the
\* indexer knows.  A crash in mid-ledger, a failed INSERT, or two loops moving
\* one cursor back and forth never leaves one out behind a later one, which the
\* resume point MAX(ledger_seq) could not reveal.
NoHoles ==
  \A k \in stored : \A j \in 1..(k - 1) : chain[j].known => j \in stored

\* What lies before the cursor is stored: no page ever starts behind an event
\* that is still missing.
NothingSkipped ==
  \A k \in DOMAIN chain : chain[k].known /\ ~After(k) => k \in stored

\* Every event the indexer knows is announced, also one whose row was committed
\* by a process that died, or lost its answer, before announcing it.
AllAnnounced ==
  \A k \in 1..MaxEvents :
    (k \in DOMAIN chain /\ chain[k].known) ~> (k \in published)
=============================================================================
