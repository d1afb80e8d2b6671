------------------------- MODULE EventIndexerProofs -------------------------
(***************************************************************************)
(* NoHoles and NothingSkipped of EventIndexer, for every number of loops,  *)
(* page size, stream of events and sequence of faults.                     *)
(*                                                                         *)
(* Neither is inductive alone.  A loop in mid-batch stores the event in    *)
(* its hand without looking at the table, so the induction has to know     *)
(* that everything before that event is stored (BatchBacked), also when    *)
(* the other loop has moved the shared cursor meanwhile; and a new event   *)
(* must lie after the cursor, so the cursor never points beyond the chain  *)
(* (CursorInChain).                                                        *)
(***************************************************************************)
EXTENDS EventIndexer, TLAPS

LedgersSorted ==
  \A j, k \in DOMAIN chain : j <= k => chain[j].ledger <= chain[k].ledger

BatchBacked ==
  \A l \in Loops : pc[l] \in {"store", "publish"} =>
    /\ \A j \in 1..(pos[l] - 1) : chain[j].known => j \in stored
    /\ pc[l] = "publish" => pos[l] \in stored

CursorInChain ==
  /\ cursor.kind = "token" => cursor.at <= Len(chain)
  /\ cursor.kind = "ledger" => \E k \in DOMAIN chain : cursor.at <= chain[k].ledger

IInv ==
  TypeOK /\ LedgersSorted /\ NoHoles /\ NothingSkipped /\ BatchBacked /\ CursorInChain

-----------------------------------------------------------------------------

\* What the type invariant says of an event.
LEMMA EventType ==
  ASSUME TypeOK, NEW k \in DOMAIN chain
  PROVE  /\ k \in Nat /\ 1 <= k /\ k <= Len(chain)
         /\ chain[k].ledger \in Nat /\ chain[k].ledger > 0
<1> DEFINE Event == [ledger : Nat \ {0}, known : BOOLEAN]
<1>1. chain \in Seq(Event)
  BY DEF TypeOK
<1> HIDE DEF Event
<1>2. k \in Nat /\ 1 <= k /\ k <= Len(chain) /\ chain[k] \in Event
  BY <1>1
<1>. QED BY <1>2 DEF Event

\* Steps that leave the events, the table and the cursor alone keep what is
\* said about them.
LEMMA SameTable ==
  ASSUME IInv, UNCHANGED <<chain, stored, cursor>>
  PROVE  LedgersSorted' /\ NoHoles' /\ NothingSkipped' /\ CursorInChain'
BY DEF IInv, LedgersSorted, NoHoles, NothingSkipped, CursorInChain, After

\* The cursor after a batch: everything up to its last event is stored.
LEMMA CursorAfterBatch ==
  ASSUME IInv, NEW l \in Loops, pc[l] \in {"store", "publish"},
         pos[l] = last[l], pos[l] \in stored \/ ~chain[pos[l]].known,
         UNCHANGED <<chain, stored>>,
         cursor' = [kind |-> "token", at |-> last[l]]
  PROVE  LedgersSorted' /\ NoHoles' /\ NothingSkipped' /\ CursorInChain'
<1>1. pos[l] \in Nat /\ last[l] \in Nat /\ last[l] <= Len(chain)
  BY DEF IInv, TypeOK
<1>2. chain \in Seq([ledger : Nat \ {0}, known : BOOLEAN])
  BY DEF IInv, TypeOK
<1>3. \A j \in 1..(pos[l] - 1) : chain[j].known => j \in stored
  BY DEF IInv, BatchBacked
<1>4. NothingSkipped'
  <2> SUFFICES ASSUME NEW k \in DOMAIN chain, chain[k].known, ~After(k)'
               PROVE  k \in stored
    BY DEF NothingSkipped
  <2>1. k \in Nat /\ k >= 1
    BY <1>2
  <2>2. k <= last[l]
    BY <1>1, <2>1 DEF After
  <2>. QED BY <1>1, <1>3, <2>1, <2>2
<1>5. LedgersSorted' /\ NoHoles'
  BY DEF IInv, LedgersSorted, NoHoles
<1>6. CursorInChain'
  BY <1>1 DEF CursorInChain
<1>. QED BY <1>4, <1>5, <1>6

\* Moving on inside a batch, after an event that is stored or unknown.
LEMMA NextOfBatch ==
  ASSUME IInv, NEW l \in Loops, pc[l] \in {"store", "publish"},
         pos[l] \in stored \/ ~chain[pos[l]].known,
         nextOfBatch(l), UNCHANGED <<chain, stored, last>>
  PROVE  /\ pc' \in [Loops -> {"off", "init", "poll", "store", "publish"}]
         /\ pos' \in [Loops -> Nat]
         /\ cursor' \in Cursor
         /\ \A m \in Loops : pc'[m] \in {"store", "publish"} =>
              1 <= pos'[m] /\ pos'[m] <= last'[m] /\ last'[m] <= Len(chain')
         /\ LedgersSorted' /\ NoHoles' /\ NothingSkipped' /\ BatchBacked' /\ CursorInChain'
<1>1. TypeOK
  BY DEF IInv
<1>2. \A m \in Loops : m # l => pc'[m] = pc[m] /\ pos'[m] = pos[m]
  BY <1>1 DEF TypeOK, nextOfBatch
<1>3. CASE pos[l] < last[l]
  <2>1. pos' = [pos EXCEPT ![l] = @ + 1] /\ pc' = [pc EXCEPT ![l] = "store"] /\ cursor' = cursor
    BY <1>3 DEF nextOfBatch
  <2>2. pos'[l] = pos[l] + 1 /\ pc'[l] = "store"
    BY <1>1, <2>1 DEF TypeOK
  <2>3. BatchBacked'
    <3> SUFFICES ASSUME NEW m \in Loops, pc'[m] \in {"store", "publish"}
                 PROVE  /\ \A j \in 1..(pos'[m] - 1) : chain[j].known => j \in stored
                        /\ pc'[m] = "publish" => pos'[m] \in stored
      BY DEF BatchBacked
    <3>1. CASE m # l
      BY <1>2, <3>1 DEF IInv, BatchBacked
    <3>2. CASE m = l
      BY <1>1, <2>2, <3>2 DEF IInv, TypeOK, BatchBacked
    <3>. QED BY <3>1, <3>2
  <2>4. \A m \in Loops : pc'[m] \in {"store", "publish"} =>
              1 <= pos'[m] /\ pos'[m] <= last'[m] /\ last'[m] <= Len(chain')
    BY <1>1, <1>2, <1>3, <2>2 DEF TypeOK
  <2>. QED BY <1>1, <2>1, <2>3, <2>4, SameTable DEF TypeOK
<1>4. CASE ~(pos[l] < last[l])
  <2>1. /\ cursor' = [kind |-> "token", at |-> last[l]]
        /\ pc' = [pc EXCEPT ![l] = "poll"] /\ pos' = pos
    BY <1>4 DEF nextOfBatch
  <2>2. pos[l] = last[l]
    BY <1>1, <1>4 DEF TypeOK
  <2>3. pc'[l] = "poll"
    BY <1>1, <2>1 DEF TypeOK
  <2>4. BatchBacked'
    BY <1>2, <2>1, <2>3 DEF IInv, BatchBacked
  <2>5. cursor' \in Cursor
    BY <1>1, <2>1 DEF TypeOK, Cursor
  <2>6. \A m \in Loops : pc'[m] \in {"store", "publish"} =>
              1 <= pos'[m] /\ pos'[m] <= last'[m] /\ last'[m] <= Len(chain')
    BY <1>1, <1>2, <2>3 DEF TypeOK
  <2>. QED BY <1>1, <2>1, <2>2, <2>4, <2>5, <2>6, CursorAfterBatch DEF TypeOK
<1>. QED BY <1>3, <1>4

\* A step of one loop's control that ends its batch leaves the other batches backed.
LEMMA BatchEnds ==
  ASSUME IInv, NEW l \in Loops, NEW s \in {"off", "init", "poll"},
         pc' = [pc EXCEPT ![l] = s],
         UNCHANGED <<chain, pos>>, stored \subseteq stored'
  PROVE  BatchBacked'
<1>1. \A m \in Loops : pc'[m] \in {"store", "publish"} => m # l /\ pc'[m] = pc[m]
  BY DEF IInv, TypeOK
<1>. QED BY <1>1 DEF IInv, BatchBacked

\* A row for an event all of whose predecessors have one leaves no hole.
LEMMA RowAdded ==
  ASSUME IInv, NEW l \in Loops, pc[l] = "store", chain[pos[l]].known,
         stored' = stored \cup {pos[l]}, UNCHANGED <<chain, cursor>>
  PROVE  LedgersSorted' /\ NoHoles' /\ NothingSkipped' /\ CursorInChain'
<1>1. NoHoles'
  BY DEF IInv, NoHoles, BatchBacked
<1>2. NothingSkipped'
  BY DEF IInv, NothingSkipped, After
<1>. QED BY <1>1, <1>2 DEF IInv, LedgersSorted, CursorInChain

-----------------------------------------------------------------------------

LEMMA InitIInv == Init => IInv
<1> SUFFICES ASSUME Init PROVE IInv
  OBVIOUS
<1>1. DOMAIN chain = {}
  BY DEF Init
<1>2. TypeOK
  <2>1. cursor \in Cursor
    BY DEF Init, Genesis, Cursor
  <2>2. pc \in [Loops -> {"off", "init", "poll", "store", "publish"}]
        /\ pos \in [Loops -> Nat] /\ last \in [Loops -> Nat]
        /\ \A l \in Loops : pc[l] = "off"
    BY DEF Init
  <2>3. isRunning \in BOOLEAN
    BY DEF Init
  <2>4. chain \in Seq([ledger : Nat \ {0}, known : BOOLEAN])
    BY DEF Init
  <2>. QED BY <2>1, <2>2, <2>3, <2>4 DEF Init, TypeOK
<1>. QED BY <1>1, <1>2 DEF Init, IInv, LedgersSorted, NoHoles, NothingSkipped, BatchBacked,
                          CursorInChain, Genesis

LEMMA StartStep == ASSUME IInv, NEW l \in Loops, start(l) PROVE IInv'
<1>1. TypeOK'
  BY DEF IInv, TypeOK, start
<1>2. BatchBacked'
  BY BatchEnds DEF start
<1>. QED BY <1>1, <1>2, SameTable DEF IInv, start

LEMMA InitCursorStep == ASSUME IInv, NEW l \in Loops, initCursor(l) PROVE IInv'
<1>1. BatchBacked'
  BY BatchEnds DEF initCursor
<1>2. CASE stored = {}
  <2>1. cursor' = Genesis
    BY <1>2 DEF initCursor
  <2>. QED BY <1>1, <2>1 DEF IInv, TypeOK, initCursor, Genesis, Cursor, LedgersSorted, NoHoles,
                           NothingSkipped, After, CursorInChain
<1>3. CASE stored # {}
  <2>1. PICK k \in stored : /\ \A j \in stored : chain[j].ledger <= chain[k].ledger
                            /\ cursor' = [kind |-> "ledger", at |-> chain[k].ledger]
    BY <1>3 DEF initCursor
  <2>2. chain' = chain /\ stored' = stored
    BY DEF initCursor
  <2>3. k \in DOMAIN chain /\ chain[k].ledger \in Nat /\ chain[k].ledger > 0
    <3>1. TypeOK /\ k \in DOMAIN chain
      BY DEF IInv, TypeOK
    <3>. QED BY <3>1, EventType
  <2>4. NothingSkipped'
    <3> SUFFICES ASSUME NEW j \in DOMAIN chain, chain[j].known, ~After(j)'
                 PROVE  j \in stored
      BY <2>2 DEF NothingSkipped
    <3>1. j \in Nat /\ k \in Nat /\ j >= 1 /\ chain[j].ledger \in Nat
      BY <2>3, EventType DEF IInv
    <3>2. chain[j].ledger < chain[k].ledger
      BY <2>1, <2>2, <2>3, <3>1 DEF After
    <3>3. j < k
      BY <2>3, <3>1, <3>2 DEF IInv, LedgersSorted
    <3>. QED BY <2>1, <3>1, <3>3 DEF IInv, NoHoles
  <2>5. CursorInChain'
    BY <2>1, <2>2, <2>3 DEF CursorInChain
  <2>6. TypeOK'
    BY <2>1, <2>3 DEF IInv, TypeOK, initCursor, Cursor
  <2>. QED BY <1>1, <2>2, <2>4, <2>5, <2>6 DEF IInv, LedgersSorted, NoHoles
<1>. QED BY <1>2, <1>3

LEMMA InitCursorFailsStep == ASSUME IInv, NEW l \in Loops, initCursorFails(l) PROVE IInv'
<1>1. BatchBacked'
  BY BatchEnds DEF initCursorFails
<1>2. TypeOK'
  BY DEF IInv, TypeOK, initCursorFails, Fault, Genesis, Cursor
<1>. QED BY <1>1, <1>2 DEF IInv, initCursorFails, Genesis, LedgersSorted, NoHoles,
                          NothingSkipped, After, CursorInChain

LEMMA ExitLoopStep == ASSUME IInv, NEW l \in Loops, exitLoop(l) PROVE IInv'
<1>1. TypeOK'
  BY DEF IInv, TypeOK, exitLoop
<1>2. BatchBacked'
  BY BatchEnds DEF exitLoop
<1>. QED BY <1>1, <1>2, SameTable DEF IInv, exitLoop

LEMMA GetEventsStep == ASSUME IInv, NEW l \in Loops, getEvents(l) PROVE IInv'
<1>1. PICK lo, hi \in DOMAIN chain :
        /\ After(lo) /\ \A k \in 1..(lo - 1) : ~After(k)
        /\ lo <= hi
        /\ pos' = [pos EXCEPT ![l] = lo] /\ last' = [last EXCEPT ![l] = hi]
  BY DEF getEvents
<1>2. pc' = [pc EXCEPT ![l] = "store"] /\ UNCHANGED <<chain, stored, cursor>>
  BY DEF getEvents
<1>3. TypeOK
  BY DEF IInv
<1>4. lo \in Nat /\ hi \in Nat /\ 1 <= lo /\ hi <= Len(chain) /\ DOMAIN chain = 1..Len(chain)
  BY <1>3 DEF TypeOK
<1>5. pc'[l] = "store" /\ pos'[l] = lo /\ last'[l] = hi
  BY <1>1, <1>2, <1>3 DEF TypeOK
<1>6. \A m \in Loops : m # l => pc'[m] = pc[m] /\ pos'[m] = pos[m] /\ last'[m] = last[m]
  BY <1>1, <1>2, <1>3 DEF TypeOK
<1>7. \A j \in 1..(lo - 1) : chain[j].known => j \in stored
  BY <1>1, <1>4 DEF IInv, NothingSkipped
<1>8. BatchBacked'
  BY <1>2, <1>5, <1>6, <1>7 DEF IInv, BatchBacked
<1>9. pc' \in [Loops -> {"off", "init", "poll", "store", "publish"}]
      /\ pos' \in [Loops -> Nat] /\ last' \in [Loops -> Nat]
  BY <1>1, <1>2, <1>3, <1>4 DEF TypeOK
<1>10. \A m \in Loops : pc'[m] \in {"store", "publish"} =>
              1 <= pos'[m] /\ pos'[m] <= last'[m] /\ last'[m] <= Len(chain')
  BY <1>1, <1>2, <1>3, <1>4, <1>5, <1>6 DEF TypeOK
<1>11. TypeOK'
  BY <1>3, <1>9, <1>10 DEF TypeOK, getEvents
<1>. QED BY <1>2, <1>8, <1>11, SameTable DEF IInv

LEMMA SkipEventStep == ASSUME IInv, NEW l \in Loops, skipEvent(l) PROVE IInv'
<1>1. nextOfBatch(l) /\ pc[l] = "store" /\ ~chain[pos[l]].known /\ UNCHANGED <<chain, stored, last>>
  BY DEF skipEvent
<1>2. TypeOK'
  BY <1>1, NextOfBatch DEF IInv, TypeOK, skipEvent
<1>. QED BY <1>1, <1>2, NextOfBatch DEF IInv

LEMMA StoreEventStep == ASSUME IInv, NEW l \in Loops, storeEvent(l) PROVE IInv'
<1>1. TypeOK
  BY DEF IInv
<1>2. pos[l] \in DOMAIN chain /\ pc'[l] = "publish"
  BY <1>1 DEF TypeOK, storeEvent
<1>3. \A m \in Loops : m # l => pc'[m] = pc[m]
  BY <1>1 DEF TypeOK, storeEvent
<1>4. TypeOK'
  BY <1>1, <1>2, <1>3 DEF TypeOK, storeEvent
<1>5. BatchBacked'
  BY <1>2, <1>3 DEF IInv, BatchBacked, storeEvent
<1>. QED BY <1>4, <1>5, RowAdded DEF IInv, storeEvent

LEMMA StoreEventFailsStep == ASSUME IInv, NEW l \in Loops, storeEventFails(l) PROVE IInv'
<1>1. TypeOK
  BY DEF IInv
<1>2. pos[l] \in DOMAIN chain
  BY <1>1 DEF TypeOK, storeEventFails
<1>3. TypeOK'
  BY <1>1, <1>2 DEF TypeOK, storeEventFails, Fault
<1>4. BatchBacked'
  BY BatchEnds DEF storeEventFails
<1>5. LedgersSorted' /\ NoHoles' /\ NothingSkipped' /\ CursorInChain'
  BY RowAdded, SameTable DEF storeEventFails
<1>. QED BY <1>3, <1>4, <1>5 DEF IInv

LEMMA PublishStep == ASSUME IInv, NEW l \in Loops, publishLiveEvent(l) PROVE IInv'
<1>1. nextOfBatch(l) /\ pc[l] = "publish" /\ UNCHANGED <<chain, stored, last>>
  BY DEF publishLiveEvent
<1>2. pos[l] \in stored
  BY <1>1 DEF IInv, BatchBacked
<1>3. TypeOK'
  BY <1>1, <1>2, NextOfBatch DEF IInv, TypeOK, publishLiveEvent
<1>. QED BY <1>1, <1>2, <1>3, NextOfBatch DEF IInv

LEMMA StopStep == ASSUME IInv, stop PROVE IInv'
<1>1. isRunning' \in BOOLEAN
  BY DEF stop
<1>2. faults' \in Nat
  BY DEF IInv, TypeOK, stop, Fault
<1>3. TypeOK'
  BY <1>1, <1>2 DEF IInv, TypeOK, stop, loop
<1>4. BatchBacked'
  BY DEF IInv, BatchBacked, stop, loop
<1>. QED BY <1>3, <1>4, SameTable DEF IInv, stop

LEMMA CrashStep == ASSUME IInv, Crash PROVE IInv'
<1>1. isRunning' \in BOOLEAN
  BY DEF Crash
<1>2. faults' \in Nat
  BY DEF IInv, TypeOK, Crash, Fault
<1>3. cursor' \in Cursor
  BY DEF Crash, Genesis, Cursor
<1>4. pc' \in [Loops -> {"off", "init", "poll", "store", "publish"}]
      /\ \A l \in Loops : pc'[l] = "off"
  BY DEF Crash
<1>5. TypeOK'
  BY <1>1, <1>2, <1>3, <1>4 DEF IInv, TypeOK, Crash
<1>6. BatchBacked'
  BY <1>4 DEF BatchBacked
<1>. QED BY <1>5, <1>6 DEF IInv, Crash, Genesis, LedgersSorted, NoHoles, NothingSkipped, After,
                     CursorInChain

LEMMA EmitStep ==
  ASSUME IInv, NEW known \in BOOLEAN, NEW step \in 0..1, Emit(known, step)
  PROVE  IInv'
<1> DEFINE now == IF chain = <<>> THEN 1 ELSE chain[Len(chain)].ledger
           e == [ledger |-> now + step, known |-> known]
<1>1. chain' = Append(chain, e) /\ UNCHANGED <<stored, published, cursor, isRunning, loop, faults>>
  BY DEF Emit
<1>2. TypeOK
  BY DEF IInv
<1>3. now \in Nat \ {0} /\ e \in [ledger : Nat \ {0}, known : BOOLEAN]
  <2>1. CASE chain = <<>>
    BY <2>1
  <2>2. CASE chain # <<>>
    <3>1. Len(chain) \in DOMAIN chain
      BY <1>2, <2>2 DEF TypeOK
    <3>. QED BY <1>2, <2>2, <3>1, EventType
  <2>. QED BY <2>1, <2>2
<1> HIDE DEF e
<1>4. /\ Len(chain') = Len(chain) + 1 /\ Len(chain) \in Nat
      /\ DOMAIN chain = 1..Len(chain) /\ DOMAIN chain' = 1..(Len(chain) + 1)
      /\ \A k \in 1..Len(chain) : chain'[k] = chain[k]
      /\ chain'[Len(chain) + 1] = e
      /\ chain' \in Seq([ledger : Nat \ {0}, known : BOOLEAN])
  BY <1>1, <1>2, <1>3 DEF TypeOK
<1>5. \A k \in DOMAIN chain : chain[k].ledger \in Nat /\ chain[k].ledger <= e.ledger
  <2> SUFFICES ASSUME NEW k \in DOMAIN chain
               PROVE  chain[k].ledger \in Nat /\ chain[k].ledger <= e.ledger
    OBVIOUS
  <2>1. chain # <<>> /\ Len(chain) \in DOMAIN chain /\ k <= Len(chain)
    BY <1>4
  <2>2. chain[k].ledger <= chain[Len(chain)].ledger
    BY <2>1 DEF IInv, LedgersSorted
  <2>3. chain[k].ledger \in Nat /\ chain[Len(chain)].ledger \in Nat
    BY <1>2, <2>1, EventType
  <2>. QED BY <2>1, <2>2, <2>3 DEF e
<1>6. TypeOK'
  BY <1>1, <1>2, <1>4 DEF TypeOK, loop
<1>7. LedgersSorted'
  BY <1>4, <1>5, <1>3 DEF IInv, LedgersSorted
<1>8. NoHoles'
  BY <1>1, <1>2, <1>4 DEF IInv, TypeOK, NoHoles
<1>9. CursorInChain'
  <2>1. cursor.at \in Nat
    BY <1>2 DEF TypeOK, Cursor
  <2>. QED BY <1>1, <1>4, <2>1 DEF IInv, CursorInChain
<1>10. NothingSkipped'
  <2> SUFFICES ASSUME NEW k \in DOMAIN chain', chain'[k].known, ~After(k)'
               PROVE  k \in stored
    BY <1>1 DEF NothingSkipped
  <2>1. CASE k \in DOMAIN chain
    BY <1>1, <1>4, <2>1 DEF IInv, NothingSkipped, After
  <2>2. CASE k = Len(chain) + 1
    BY <1>1, <1>2, <1>4, <1>5, <1>3, <2>2 DEF IInv, TypeOK, Cursor, CursorInChain, After
  <2>. QED BY <1>4, <2>1, <2>2
<1>11. BatchBacked'
  <2> SUFFICES ASSUME NEW l \in Loops, pc[l] \in {"store", "publish"}
               PROVE  /\ \A j \in 1..(pos[l] - 1) : chain'[j].known => j \in stored
                      /\ pc[l] = "publish" => pos[l] \in stored
    BY <1>1 DEF BatchBacked, loop
  <2>1. pos[l] \in Nat /\ pos[l] <= Len(chain)
    BY <1>2, <1>4 DEF TypeOK
  <2>. QED BY <1>4, <2>1 DEF IInv, BatchBacked
<1>. QED BY <1>6, <1>7, <1>8, <1>9, <1>10, <1>11 DEF IInv

\* The inductive invariant of the indexer.
THEOREM IndexerInvariant == Spec => []IInv
<1>1. IInv /\ [Next]_vars => IInv'
  <2> SUFFICES ASSUME IInv, [Next]_vars PROVE IInv'
    OBVIOUS
  <2>1. CASE UNCHANGED vars
    BY <2>1 DEF IInv, TypeOK, LedgersSorted, NoHoles, NothingSkipped, After, BatchBacked,
                CursorInChain, vars, loop
  <2>2. CASE Next
    BY <2>2, StartStep, InitCursorStep, InitCursorFailsStep, ExitLoopStep, GetEventsStep,
       SkipEventStep, StoreEventStep, StoreEventFailsStep, PublishStep, StopStep, CrashStep,
       EmitStep DEF Next, Progress
  <2>. QED BY <2>1, <2>2
<1>. QED BY InitIInv, <1>1, PTL DEF Spec

\* Type correctness of the indexer: the cursor, the batch a loop is in and the rows
\* stored and announced always lie within the chain.
THEOREM IndexerTypes == Spec => []TypeOK
<1>1. IInv => TypeOK
  BY DEF IInv
<1>. QED BY IndexerInvariant, <1>1, PTL

\* The table never has a hole: a stored event has every known predecessor
\* stored, whatever crashes, failed inserts and double starts happened.
THEOREM TableHasNoHoles == Spec => []NoHoles
<1>1. IInv => NoHoles
  BY DEF IInv
<1>. QED BY IndexerInvariant, <1>1, PTL

\* No page is ever requested from behind an event that is not stored.
THEOREM CursorSkipsNothing == Spec => []NothingSkipped
<1>1. IInv => NothingSkipped
  BY DEF IInv
<1>. QED BY IndexerInvariant, <1>1, PTL
=============================================================================
