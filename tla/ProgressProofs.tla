--------------------------- MODULE ProgressProofs ---------------------------
(***************************************************************************)
(* Proofs about the components of MCProgress, for every value of their     *)
(* constants.  For each component: an inductive invariant, the lemma that  *)
(* its own initial states and steps keep it, and what follows from it.     *)
(* The theorems at the end lift them to the specification of the run.      *)
(***************************************************************************)
EXTENDS MCProgress, FoldLemmas, SequenceTheorems, TLAPS

-----------------------------------------------------------------------------
(* Organisation sync (OrgSync). *)

\* What holds of one organisation's queue: it is the tail of what was emitted, what
\* is saved came before it in order, and one drain works on its head.
QueueIsTail(o) ==
  /\ Len(queue[o]) <= emitted[o]
  /\ \A k \in 1..Len(queue[o]) : queue[o][k] = emitted[o] - Len(queue[o]) + k
  /\ \A k \in 1..Len(saved[o]) : saved[o][k] <= emitted[o] - Len(queue[o])

InOrder(o) == \A j, k \in DOMAIN saved[o] : j < k => saved[o][j] < saved[o][k]

OneDrain(o) ==
  /\ processing[o] <=> queue[o] # <<>>
  /\ processing[o] => \E d \in Drains : drain[o][d] # 0
  /\ \A d \in Drains : drain[o][d] # 0 => queue[o] # <<>> /\ drain[o][d] = Head(queue[o])
  /\ \A d, e \in Drains : drain[o][d] # 0 /\ drain[o][e] # 0 => d = e

QueueOK(o) == QueueIsTail(o) /\ InOrder(o) /\ OneDrain(o)

SyncInv == SyncTypeOK /\ \A o \in Orgs : QueueOK(o)

\* A queue nobody touched stays as it was.
LEMMA QueueFrame ==
  ASSUME NEW o \in Orgs, QueueOK(o),
         emitted'[o] = emitted[o], queue'[o] = queue[o], processing'[o] = processing[o],
         drain'[o] = drain[o], saved'[o] = saved[o]
  PROVE  QueueOK(o)'
  BY DEF QueueOK, QueueIsTail, InOrder, OneDrain

LEMMA HandleEventStep ==
  ASSUME SyncInv, NEW o \in Orgs, handleEvent(o)
  PROVE  SyncInv'
  <1> DEFINE q == Append(queue[o], emitted[o] + 1)
  <1>1. /\ queue[o] \in Seq(Event) /\ emitted[o] \in Nat /\ emitted[o] + 1 \in Event
        /\ saved[o] \in Seq(Event)
    BY SyncAssumption DEF SyncInv, SyncTypeOK, handleEvent, Event
  <1>2. /\ queue' = [queue EXCEPT ![o] = q] /\ emitted' = [emitted EXCEPT ![o] = @ + 1]
        /\ UNCHANGED <<registered, load, listeners, saved, dropped>>
    BY DEF handleEvent
  <1>3. /\ q \in Seq(Event) /\ Len(q) = Len(queue[o]) + 1 /\ Len(queue[o]) \in Nat /\ q # <<>>
        /\ \A k \in 1..Len(queue[o]) : q[k] = queue[o][k]
        /\ q[Len(queue[o]) + 1] = emitted[o] + 1
        /\ Head(q) = q[1] /\ (queue[o] = <<>> <=> Len(queue[o]) = 0)
        /\ queue[o] # <<>> => Head(queue[o]) = queue[o][1]
    BY <1>1
  <1> HIDE DEF q
  <1>4. /\ queue[o] # <<>> => Head(q) = Head(queue[o])
        /\ queue[o] = <<>> => Head(q) = emitted[o] + 1
    BY <1>3
  <1>5. /\ queue' \in [Orgs -> Seq(Event)] /\ emitted' \in [Orgs -> 0..MaxEvents]
        /\ queue'[o] = q /\ emitted'[o] = emitted[o] + 1
        /\ \A p \in Orgs : p # o => queue'[p] = queue[p] /\ emitted'[p] = emitted[p]
    BY <1>1, <1>2, <1>3, SyncAssumption DEF SyncInv, SyncTypeOK, Event
  <1>6. QueueIsTail(o)'
    <2>1. QueueIsTail(o)
      BY DEF SyncInv, QueueOK
    <2>2. ASSUME NEW k \in 1..Len(q) PROVE q[k] = emitted[o] + 1 - Len(q) + k
      <3>1. CASE k \in 1..Len(queue[o])
        BY <1>1, <1>3, <2>1, <3>1 DEF QueueIsTail
      <3>2. CASE k = Len(queue[o]) + 1
        BY <1>1, <1>3, <3>2
      <3>3. QED
        BY <1>3, <3>1, <3>2
    <2>3. QED
      BY <1>1, <1>2, <1>3, <1>5, <2>1, <2>2 DEF QueueIsTail
  <1>7. InOrder(o)'
    BY <1>2 DEF SyncInv, QueueOK, InOrder
  <1>8. OneDrain(o)
    BY DEF SyncInv, QueueOK
  <1>9. CASE processing[o]
    <2>1. UNCHANGED <<drain, processing>> /\ queue[o] # <<>>
      BY <1>8, <1>9 DEF handleEvent, startsDrain, OneDrain
    <2>2. SyncTypeOK'
      BY <1>2, <1>5, <2>1 DEF SyncInv, SyncTypeOK
    <2>3. OneDrain(o)'
      BY <1>4, <1>3, <1>5, <1>8, <1>9, <2>1 DEF OneDrain
    <2>4. QED
      BY <1>2, <1>5, <1>6, <1>7, <2>1, <2>2, <2>3, QueueFrame DEF SyncInv, QueueOK
  <1>10. CASE ~processing[o]
    <2>1. PICK d \in Drains : /\ drain[o][d] = 0
                              /\ drain' = [drain EXCEPT ![o][d] = Head(q)]
                              /\ processing' = [processing EXCEPT ![o] = TRUE]
      BY <1>10 DEF handleEvent, startsDrain, q
    <2>2. /\ queue[o] = <<>> /\ \A e \in Drains : drain[o][e] = 0
          /\ Head(q) = emitted[o] + 1
      BY <1>4, <1>8, <1>10 DEF OneDrain
    <2>3. emitted[o] + 1 \in 0..MaxEvents
      BY <1>1, SyncAssumption DEF Event
    <2>4. drain' \in [Orgs -> [Drains -> 0..MaxEvents]] /\ processing' \in [Orgs -> BOOLEAN]
      BY <2>1, <2>2, <2>3 DEF SyncInv, SyncTypeOK
    <2>5. SyncTypeOK'
      BY <1>2, <1>5, <2>4 DEF SyncInv, SyncTypeOK
    <2>6. /\ drain'[o][d] = Head(q) /\ Head(q) # 0
          /\ \A e \in Drains : e # d => drain'[o][e] = 0
          /\ \A p \in Orgs : p # o => drain'[p] = drain[p] /\ processing'[p] = processing[p]
          /\ processing'[o]
      BY <1>1, <2>1, <2>2 DEF SyncInv, SyncTypeOK
    <2>7. OneDrain(o)'
      BY <1>3, <1>5, <2>6 DEF OneDrain
    <2>8. QED
      BY <1>2, <1>5, <1>6, <1>7, <2>5, <2>6, <2>7, QueueFrame DEF SyncInv, QueueOK
  <1>11. QED
    BY <1>9, <1>10

\* A drain that is done with its event takes it off the queue and goes on or stops.
LEMMA ProcessNextStep ==
  ASSUME SyncInv, NEW o \in Orgs, NEW d \in Drains, drain[o][d] # 0, processNext(o, d),
         UNCHANGED emitted,
         \/ UNCHANGED saved
         \/ saved' = [saved EXCEPT ![o] = Append(@, drain[o][d])]
  PROVE  /\ queue' \in [Orgs -> Seq(Event)] /\ processing' \in [Orgs -> BOOLEAN]
         /\ drain' \in [Orgs -> [Drains -> 0..MaxEvents]] /\ saved' \in [Orgs -> Seq(Event)]
         /\ \A p \in Orgs : QueueOK(p)'
  <1> DEFINE q == Tail(queue[o])
             n == IF q = <<>> THEN 0 ELSE Head(q)
             first == emitted[o] - Len(queue[o]) + 1
  <1>1. QueueIsTail(o) /\ InOrder(o) /\ OneDrain(o)
    BY DEF SyncInv, QueueOK
  <1>2. /\ queue[o] \in Seq(Event) /\ emitted[o] \in Nat /\ saved[o] \in Seq(Event)
        /\ queue[o] # <<>> /\ drain[o][d] = Head(queue[o])
        /\ \A e \in Drains : e # d => drain[o][e] = 0
    BY <1>1 DEF SyncInv, SyncTypeOK, OneDrain
  <1>3. /\ q \in Seq(Event) /\ Len(q) = Len(queue[o]) - 1 /\ Len(queue[o]) \in Nat
        /\ Len(queue[o]) > 0
        /\ \A k \in 1..Len(q) : q[k] = queue[o][k + 1]
        /\ Head(queue[o]) = queue[o][1] /\ Head(queue[o]) \in Event
        /\ q # <<>> => Head(q) \in Event
    BY <1>2
  <1>4. /\ queue' = [queue EXCEPT ![o] = q] /\ drain' = [drain EXCEPT ![o][d] = n]
        /\ processing' = [processing EXCEPT ![o] = (q # <<>>)]
    BY <1>2 DEF processNext
  <1>5. n \in 0..MaxEvents /\ (n = 0 <=> q = <<>>) /\ (n # 0 => n = Head(q))
    BY <1>3, SyncAssumption, SMTT(40) DEF Event
  <1> HIDE DEF q, n
  <1>6. /\ queue' \in [Orgs -> Seq(Event)] /\ drain' \in [Orgs -> [Drains -> 0..MaxEvents]]
        /\ queue'[o] = q /\ drain'[o][d] = n
        /\ \A e \in Drains : e # d => drain'[o][e] = 0
        /\ \A p \in Orgs : p # o => queue'[p] = queue[p] /\ drain'[p] = drain[p]
    BY <1>2, <1>3, <1>4, <1>5 DEF SyncInv, SyncTypeOK
  <1>7. /\ processing' \in [Orgs -> BOOLEAN] /\ (processing'[o] <=> q # <<>>)
        /\ \A p \in Orgs : p # o => processing'[p] = processing[p]
    BY <1>4 DEF SyncInv, SyncTypeOK
  <1>8. OneDrain(o)'
    BY <1>5, <1>6, <1>7 DEF OneDrain
  <1>9. first \in Int /\ Head(queue[o]) = first /\ emitted[o] - Len(q) = first
    <2>1. 1 \in 1..Len(queue[o])
      BY <1>3
    <2>2. QED
      BY <1>1, <1>2, <1>3, <2>1, SMTT(30) DEF QueueIsTail
  <1>10. ASSUME NEW k \in 1..Len(q) PROVE q[k] = first + k
    <2>1. k + 1 \in 1..Len(queue[o])
      BY <1>3
    <2>2. queue[o][k + 1] = emitted[o] - Len(queue[o]) + (k + 1)
      BY <1>1, <2>1 DEF QueueIsTail
    <2>3. QED
      BY <1>2, <1>3, <2>2, SMTT(30)
  <1>11. \A k \in 1..Len(saved[o]) : saved[o][k] \in Nat /\ saved[o][k] < first
    <2>1. \A k \in 1..Len(saved[o]) : saved[o][k] \in Event
      BY <1>2
    <2>2. \A k \in 1..Len(saved[o]) : saved[o][k] \in Nat
      BY <2>1 DEF Event
    <2>3. \A k \in 1..Len(saved[o]) : saved[o][k] <= emitted[o] - Len(queue[o])
      BY <1>1 DEF QueueIsTail
    <2>4. ASSUME NEW k \in 1..Len(saved[o]) PROVE saved[o][k] < first
      <3>1. saved[o][k] \in Nat /\ saved[o][k] <= emitted[o] - Len(queue[o])
        BY <2>2, <2>3
      <3>2. emitted[o] - Len(queue[o]) \in Int
        BY <1>2, <1>3
      <3>3. QED
        BY <3>1, <3>2
    <2>5. QED
      BY <2>2, <2>4
  <1> HIDE DEF first
  <1>12. ASSUME \A k \in 1..Len(saved'[o]) : saved'[o][k] <= first PROVE QueueIsTail(o)'
    <2>1. Len(q) <= emitted[o]
      BY <1>1, <1>2, <1>3 DEF QueueIsTail
    <2>2. QED
      BY <1>6, <1>9, <1>10, <1>12, <2>1 DEF QueueIsTail
  <1>13. CASE UNCHANGED saved
    <2>1. InOrder(o)' /\ saved' \in [Orgs -> Seq(Event)]
      BY <1>1, <1>13 DEF SyncInv, SyncTypeOK, InOrder
    <2>2. QueueIsTail(o)'
      <3>1. \A k \in 1..Len(saved'[o]) : saved'[o][k] <= first
        BY <1>9, <1>11, <1>13
      <3>2. QED
        BY <3>1, <1>12
    <2>3. QED
      BY <1>6, <1>7, <1>8, <1>13, <2>1, <2>2, QueueFrame DEF SyncInv, QueueOK
  <1>14. CASE saved' = [saved EXCEPT ![o] = Append(@, drain[o][d])]
    <2> DEFINE s == Append(saved[o], first)
    <2>1. /\ s \in Seq(Event) /\ Len(s) = Len(saved[o]) + 1 /\ Len(saved[o]) \in Nat
          /\ \A k \in 1..Len(saved[o]) : s[k] = saved[o][k]
          /\ s[Len(saved[o]) + 1] = first
      BY <1>2, <1>3, <1>9
    <2>2. saved' = [saved EXCEPT ![o] = s]
      BY <1>2, <1>9, <1>14
    <2> HIDE DEF s
    <2>3. /\ saved' \in [Orgs -> Seq(Event)] /\ saved'[o] = s
          /\ \A p \in Orgs : p # o => saved'[p] = saved[p]
      BY <2>1, <2>2 DEF SyncInv, SyncTypeOK
    <2>4. ASSUME NEW k \in 1..Len(s)
          PROVE  s[k] \in Int /\ s[k] <= first /\ (k <= Len(saved[o]) => s[k] < first)
      <3>1. CASE k \in 1..Len(saved[o])
        BY <1>9, <1>11, <2>1, <3>1
      <3>2. CASE k = Len(saved[o]) + 1
        BY <1>9, <2>1, <3>2
      <3>3. QED
        BY <2>1, <3>1, <3>2
    <2>5. QueueIsTail(o)'
      BY <2>3, <2>4, <1>12
    <2>6. ASSUME NEW j \in 1..Len(s), NEW k \in 1..Len(s), j < k PROVE s[j] < s[k]
      <3>1. CASE k \in 1..Len(saved[o])
        <4>1. j \in 1..Len(saved[o])
          BY <2>6, <3>1, <2>1
        <4>2. j \in DOMAIN saved[o] /\ k \in DOMAIN saved[o]
          BY <1>2, <3>1, <4>1
        <4>3. QED
          BY <1>1, <2>1, <2>6, <3>1, <4>1, <4>2 DEF InOrder
      <3>2. CASE k = Len(saved[o]) + 1
        BY <2>1, <2>4, <2>6, <3>2
      <3>3. QED
        BY <2>1, <3>1, <3>2
    <2>7. DOMAIN s = 1..Len(s)
      BY <2>1
    <2>8. InOrder(o)'
      BY <2>3, <2>6, <2>7 DEF InOrder
    <2>9. QED
      BY <1>6, <1>7, <1>8, <2>3, <2>5, <2>8, QueueFrame DEF SyncInv, QueueOK
  <1>15. QED
    BY <1>13, <1>14

LEMMA LoadStepType ==
  ASSUME SyncTypeOK, NEW p \in Loads, LoadStep(p) \/ getRegisteredOrgsFails(p)
  PROVE  SyncTypeOK' /\ UNCHANGED <<emitted, queue, processing, drain, saved>>
  <1>1. UNCHANGED <<registered, emitted, queue, processing, drain, saved, dropped>>
    BY DEF LoadStep, startLoad, getRegisteredOrgs, loadAndRegisterOrgs, getRegisteredOrgsFails,
       queues
  <1>2. listeners' \in [Orgs -> {0, 1}]
    BY DEF SyncTypeOK, LoadStep, startLoad, getRegisteredOrgs, loadAndRegisterOrgs,
       getRegisteredOrgsFails
  <1>3. load' \in [Loads -> [pc : {"idle", "query", "listed"}, orgs : SUBSET Orgs]]
    <2>1. \E l \in [pc : {"idle", "query", "listed"}, orgs : SUBSET Orgs] :
             load' = [load EXCEPT ![p] = l]
      <3>1. CASE startLoad(p)
        <4>1. load[p] \in [pc : {"idle", "query", "listed"}, orgs : SUBSET Orgs]
          BY DEF SyncTypeOK
        <4>2. [load[p] EXCEPT !.pc = "query"] \in [pc : {"idle", "query", "listed"}, orgs : SUBSET Orgs]
          BY <4>1
        <4>3. QED
          BY <3>1, <4>2 DEF startLoad
      <3>2. CASE getRegisteredOrgs(p)
        <4>1. [pc |-> "listed", orgs |-> registered] \in [pc : {"idle", "query", "listed"}, orgs : SUBSET Orgs]
          BY DEF SyncTypeOK
        <4>2. QED
          BY <3>2, <4>1 DEF getRegisteredOrgs
      <3>3. IdleLoad \in [pc : {"idle", "query", "listed"}, orgs : SUBSET Orgs]
        BY DEF IdleLoad
      <3>4. QED
        BY <3>1, <3>2, <3>3 DEF LoadStep, loadAndRegisterOrgs, getRegisteredOrgsFails
    <2>2. QED
      BY <2>1 DEF SyncTypeOK
  <1>4. QED
    BY <1>1, <1>2, <1>3 DEF SyncTypeOK

LEMMA SyncInductive == SyncInit /\ [][SyncNext]_syncVars => []SyncInv
  <1>1. SyncInit => SyncInv
    <2> SUFFICES ASSUME SyncInit PROVE SyncInv
      OBVIOUS
    <2>1. SyncTypeOK
      BY SyncAssumption DEF SyncInit, SyncTypeOK, IdleLoad
    <2>2. ASSUME NEW o \in Orgs PROVE QueueOK(o)
      <3>1. /\ queue[o] = <<>> /\ saved[o] = <<>> /\ emitted[o] = 0 /\ ~processing[o]
            /\ \A d \in Drains : drain[o][d] = 0
        BY DEF SyncInit
      <3>2. QED
        BY <3>1 DEF QueueOK, QueueIsTail, InOrder, OneDrain
    <2>3. QED
      BY <2>1, <2>2 DEF SyncInv
  <1>2. SyncInv /\ [SyncNext]_syncVars => SyncInv'
    <2> SUFFICES ASSUME SyncInv, [SyncNext]_syncVars PROVE SyncInv'
      OBVIOUS
    <2>1. ASSUME UNCHANGED <<emitted, queue, processing, drain, saved>>, SyncTypeOK'
          PROVE  SyncInv'
      BY <2>1, QueueFrame DEF SyncInv
    <2>2. ASSUME NEW p \in Loads, LoadStep(p) \/ getRegisteredOrgsFails(p) PROVE SyncInv'
      BY <2>1, <2>2, LoadStepType DEF SyncInv
    <2>3. ASSUME NEW o \in Orgs, RegisterOrg(o) PROVE SyncInv'
      BY <2>1, <2>3 DEF SyncInv, SyncTypeOK, RegisterOrg, queues
    <2>4. ASSUME NEW o \in Orgs, NEW d \in Drains, saveEvent(o, d) \/ saveEventFails(o, d)
          PROVE  SyncInv'
      <3>1. /\ drain[o][d] # 0 /\ processNext(o, d)
            /\ UNCHANGED <<registered, load, listeners, emitted>>
            /\ \/ UNCHANGED saved
               \/ saved' = [saved EXCEPT ![o] = Append(@, drain[o][d])]
        BY <2>4 DEF saveEvent, saveEventFails
      <3>2. dropped' \in [Orgs -> SUBSET Event]
        <4>1. drain[o][d] \in 0..MaxEvents
          BY DEF SyncInv, SyncTypeOK
        <4>2. drain[o][d] \in Event
          BY <3>1, <4>1, SyncAssumption DEF Event
        <4>3. dropped \in [Orgs -> SUBSET Event]
          BY DEF SyncInv, SyncTypeOK
        <4>4. UNCHANGED dropped \/ dropped' = [dropped EXCEPT ![o] = @ \cup {drain[o][d]}]
          BY <2>4 DEF saveEvent, saveEventFails
        <4>5. QED
          BY <4>2, <4>3, <4>4
      <3>3. QED
        BY <3>1, <3>2, ProcessNextStep DEF SyncInv, SyncTypeOK
    <2>5. CASE UNCHANGED syncVars
      BY <2>1, <2>5 DEF syncVars, queues, SyncInv, SyncTypeOK
    <2>6. QED
      BY <2>2, <2>3, <2>4, <2>5, HandleEventStep DEF SyncNext, SaveSettles, foreignEvent
  <1>3. QED
    BY <1>1, <1>2, PTL

LEMMA SyncResult == SyncInv => SavedOnceInOrder /\ OneDrainPerQueue
  BY DEF SyncInv, QueueOK, InOrder, OneDrain, SavedOnceInOrder, OneDrainPerQueue

-----------------------------------------------------------------------------
(* Webhook deliveries (WebhookDispatcher). *)

HookTask == [pc : {"new", "send", "backoff", "failed", "over"}, attempt : 0..(MAX_ATTEMPTS - 1)]

\* What holds of one delivery: it starts with its event's dispatch, backs off only
\* before the last attempt, gives up only after it, and a dead letter is its end.
DeliveryOK(e, w) ==
  /\ e \notin dispatched => task[e][w].pc = "new"
  /\ task[e][w].pc = "backoff" => task[e][w].attempt < MAX_ATTEMPTS - 1
  /\ task[e][w].pc = "failed" => lastAttempt(task[e][w].attempt)
  /\ <<e, w>> \in deadLetters => task[e][w].pc = "over" /\ lastAttempt(task[e][w].attempt)
  /\ hookFaults = 0 /\ task[e][w].pc = "over" => <<e, w>> \in received \cup deadLetters

HookInv == HookTypeOK /\ \A e \in Events, w \in Hooks : DeliveryOK(e, w)

\* A delivery that did not move stays as it was, whatever is added to the tables.
LEMMA DeliveryFrame ==
  ASSUME NEW e \in Events, NEW w \in Hooks, DeliveryOK(e, w), HookTypeOK,
         task'[e][w] = task[e][w], dispatched \subseteq dispatched', received \subseteq received',
         <<e, w>> \in deadLetters' <=> <<e, w>> \in deadLetters,
         hookFaults' = 0 => hookFaults = 0
  PROVE  DeliveryOK(e, w)'
  BY DEF DeliveryOK, lastAttempt

\* A step of one delivery.
LEMMA TaskStep ==
  ASSUME HookInv, NEW e \in Events, NEW w \in Hooks, NEW t \in HookTask,
         task' = [task EXCEPT ![e][w] = t],
         UNCHANGED <<hookRow, dispatched>>,
         received' \in {received, received \cup {<<e, w>>}},
         deadLetters' \in {deadLetters, deadLetters \cup {<<e, w>>}},
         hookFaults' \in 0..HookMaxFaults, hookFaults' >= hookFaults,
         DeliveryOK(e, w)'
  PROVE  HookInv'
  <1>1. HookTypeOK'
    BY DEF HookInv, HookTypeOK, HookTask
  <1>2. \A f \in Events, v \in Hooks : <<f, v>> # <<e, w>> => task'[f][v] = task[f][v]
    BY DEF HookInv, HookTypeOK
  <1>3. hookFaults \in Nat /\ (hookFaults' = 0 => hookFaults = 0)
    BY DEF HookInv, HookTypeOK
  <1>4. ASSUME NEW f \in Events, NEW v \in Hooks, <<f, v>> # <<e, w>> PROVE DeliveryOK(f, v)'
    BY <1>2, <1>3, <1>4, DeliveryFrame DEF HookInv
  <1>5. QED
    BY <1>1, <1>4 DEF HookInv

LEMMA AttemptEnds ==
  ASSUME HookInv, NEW e \in Events, NEW w \in Hooks, task[e][w].pc = "send",
         attemptFails(e, w), UNCHANGED <<hookRow, dispatched, deadLetters, hookFaults>>,
         received' \in {received, received \cup {<<e, w>>}}
  PROVE  HookInv'
  <1> DEFINE t == [task[e][w] EXCEPT !.pc = IF lastAttempt(task[e][w].attempt) THEN "failed" ELSE "backoff"]
  <1>1. task[e][w] \in HookTask
    BY DEF HookInv, HookTypeOK, HookTask
  <1>2. /\ t \in HookTask /\ t.attempt = task[e][w].attempt
        /\ t.pc = IF lastAttempt(task[e][w].attempt) THEN "failed" ELSE "backoff"
    BY <1>1 DEF HookTask
  <1>3. task' = [task EXCEPT ![e][w] = t]
    BY DEF attemptFails
  <1> HIDE DEF t
  <1>4. task'[e][w] = t
    BY <1>3 DEF HookInv, HookTypeOK
  <1>5. DeliveryOK(e, w)
    BY DEF HookInv
  <1>6. DeliveryOK(e, w)'
    <2>1. t.pc = "backoff" => t.attempt < MAX_ATTEMPTS - 1
      BY <1>1, <1>2, DispatchAssumption DEF lastAttempt, HookTask
    <2>2. e \in dispatched /\ <<e, w>> \notin deadLetters
      BY <1>5 DEF DeliveryOK
    <2>3. QED
      BY <1>2, <1>4, <2>1, <2>2 DEF DeliveryOK
  <1>7. hookFaults' \in 0..HookMaxFaults /\ hookFaults' >= hookFaults
    BY DEF HookInv, HookTypeOK
  <1>8. QED
    BY <1>2, <1>3, <1>6, <1>7, TaskStep

\* A delivery that ends did reach its endpoint, is a dead letter, or a query failed.
LEMMA DeliveryEnds ==
  ASSUME HookInv, NEW e \in Events, NEW w \in Hooks,
         task' = [task EXCEPT ![e][w].pc = "over"], UNCHANGED <<hookRow, dispatched>>,
         \/ /\ task[e][w].pc = "send" /\ received' = received \cup {<<e, w>>}
            /\ UNCHANGED <<deadLetters, hookFaults>>
         \/ /\ task[e][w].pc = "failed" /\ deadLetters' = deadLetters \cup {<<e, w>>}
            /\ UNCHANGED <<received, hookFaults>>
         \/ /\ task[e][w].pc = "failed" /\ HookFault
            /\ UNCHANGED <<received, deadLetters>>
  PROVE  HookInv'
  <1> DEFINE t == [task[e][w] EXCEPT !.pc = "over"]
  <1>1. task[e][w] \in HookTask
    BY DEF HookInv, HookTypeOK, HookTask
  <1>2. t \in HookTask /\ t.attempt = task[e][w].attempt /\ t.pc = "over"
    BY <1>1 DEF HookTask
  <1>3. task' = [task EXCEPT ![e][w] = t]
    OBVIOUS
  <1> HIDE DEF t
  <1>4. task'[e][w] = t
    BY <1>3 DEF HookInv, HookTypeOK
  <1>5. DeliveryOK(e, w)
    BY DEF HookInv
  <1>6. hookFaults \in 0..HookMaxFaults
    BY DEF HookInv, HookTypeOK
  <1>7. DeliveryOK(e, w)'
    <2>1. e \in dispatched
      BY <1>5 DEF DeliveryOK
    <2>2. task[e][w].pc = "failed" => lastAttempt(task[e][w].attempt)
      BY <1>5 DEF DeliveryOK
    <2>3. HookFault => hookFaults' # 0
      BY <1>6, DispatchAssumption DEF HookFault
    <2>4. QED
      BY <1>2, <1>4, <1>5, <2>1, <2>2, <2>3 DEF DeliveryOK, lastAttempt
  <1>8. hookFaults' \in 0..HookMaxFaults /\ hookFaults' >= hookFaults
    BY <1>6, DispatchAssumption DEF HookFault
  <1>9. QED
    BY <1>2, <1>3, <1>7, <1>8, TaskStep

LEMMA DelayStep ==
  ASSUME HookInv, NEW e \in Events, NEW w \in Hooks, delay(e, w)
  PROVE  HookInv'
  <1> DEFINE t == [pc |-> "send", attempt |-> task[e][w].attempt + 1]
  <1>1. DeliveryOK(e, w) /\ task[e][w] \in HookTask
    BY DEF HookInv, HookTypeOK, HookTask
  <1>2. t \in HookTask
    BY <1>1, DispatchAssumption DEF HookTask, DeliveryOK, delay
  <1>3. task' = [task EXCEPT ![e][w] = t]
    BY DEF delay
  <1>4. t.pc = "send"
    OBVIOUS
  <1> HIDE DEF t
  <1>5. task'[e][w] = t
    BY <1>3 DEF HookInv, HookTypeOK
  <1>6. DeliveryOK(e, w)'
    BY <1>1, <1>4, <1>5 DEF DeliveryOK, delay
  <1>7. hookFaults' \in 0..HookMaxFaults /\ hookFaults' >= hookFaults
    BY DEF HookInv, HookTypeOK, delay
  <1>8. QED
    BY <1>2, <1>3, <1>6, <1>7, TaskStep DEF delay

LEMMA DispatchStep ==
  ASSUME HookInv, NEW e \in Events, dispatchAssignmentEvent(e)
  PROVE  HookInv'
  <1>1. /\ New \in HookTask /\ [New EXCEPT !.pc = "send"] \in HookTask
        /\ New.pc = "new" /\ [New EXCEPT !.pc = "send"].pc = "send"
    BY DispatchAssumption DEF New, HookTask
  <1> DEFINE row == [w \in Hooks |-> IF hookRow[w] = "registered" THEN [New EXCEPT !.pc = "send"] ELSE New]
  <1>2. row \in [Hooks -> HookTask] /\ \A w \in Hooks : row[w].pc \in {"new", "send"}
    BY <1>1
  <1>3. task' = [task EXCEPT ![e] = row]
    BY DEF dispatchAssignmentEvent
  <1> HIDE DEF row
  <1>4. HookTypeOK'
    <2>1. task' \in [Events -> [Hooks -> HookTask]]
      BY <1>2, <1>3 DEF HookInv, HookTypeOK, HookTask
    <2>2. QED
      BY <2>1 DEF HookInv, HookTypeOK, HookTask, dispatchAssignmentEvent
  <1>5. ASSUME NEW w \in Hooks PROVE DeliveryOK(e, w)'
    <2>1. task'[e][w] = row[w] /\ e \in dispatched'
      BY <1>3 DEF HookInv, HookTypeOK, dispatchAssignmentEvent
    <2>2. <<e, w>> \notin deadLetters'
      BY DEF HookInv, DeliveryOK, dispatchAssignmentEvent
    <2>3. QED
      BY <1>2, <2>1, <2>2 DEF DeliveryOK
  <1>6. ASSUME NEW f \in Events, NEW w \in Hooks, f # e PROVE DeliveryOK(f, w)'
    <2>1. task'[f][w] = task[f][w]
      BY <1>3, <1>6 DEF HookInv, HookTypeOK
    <2>2. QED
      BY <2>1, DeliveryFrame DEF HookInv, dispatchAssignmentEvent
  <1>7. QED
    BY <1>4, <1>5, <1>6 DEF HookInv

LEMMA HookCrashStep == ASSUME HookInv, HookCrash PROVE HookInv'
  <1>1. ASSUME NEW e \in Events, NEW w \in Hooks
        PROVE  /\ task'[e][w] \in HookTask /\ task'[e][w].attempt = task[e][w].attempt
               /\ task'[e][w].pc = IF task[e][w].pc = "new" THEN "new" ELSE "over"
    <2>1. task[e][w] \in HookTask
      BY DEF HookInv, HookTypeOK, HookTask
    <2>2. task'[e][w] = IF task[e][w].pc = "new" THEN task[e][w] ELSE [task[e][w] EXCEPT !.pc = "over"]
      BY DEF HookCrash
    <2>3. QED
      BY <2>1, <2>2 DEF HookTask
  <1>2. hookFaults' \in 0..HookMaxFaults /\ hookFaults' # 0
    BY DispatchAssumption DEF HookCrash, HookFault, HookInv, HookTypeOK
  <1>3. task' \in [Events -> [Hooks -> HookTask]]
    <2>1. \A e \in Events : task'[e] \in [Hooks -> HookTask]
      BY <1>1 DEF HookCrash
    <2>2. QED
      BY <2>1 DEF HookCrash
  <1>4. HookTypeOK'
    BY <1>2, <1>3 DEF HookInv, HookTypeOK, HookTask, HookCrash
  <1>5. ASSUME NEW e \in Events, NEW w \in Hooks PROVE DeliveryOK(e, w)'
    <2>1. DeliveryOK(e, w)
      BY DEF HookInv
    <2>2. QED
      BY <1>1, <1>2, <2>1 DEF DeliveryOK, lastAttempt, HookCrash
  <1>6. QED
    BY <1>4, <1>5 DEF HookInv

LEMMA HookInductive == HookInit /\ [][HookNext]_hookVars => []HookInv
  <1>1. HookInit => HookInv
    BY DispatchAssumption DEF HookInit, HookInv, HookTypeOK, DeliveryOK, New
  <1>2. HookInv /\ [HookNext]_hookVars => HookInv'
    <2> SUFFICES ASSUME HookInv, [HookNext]_hookVars PROVE HookInv'
      OBVIOUS
    <2>1. ASSUME HookTypeOK', UNCHANGED <<task, received, deadLetters>>,
                 dispatched \subseteq dispatched', hookFaults' = 0 => hookFaults = 0
          PROVE  HookInv'
      BY <2>1, DeliveryFrame DEF HookInv
    <2>2. ASSUME NEW w \in Hooks,
                 deleteOrg(w) \/ \E body \in [org_id : BOOLEAN, url : BOOLEAN, secret : BOOLEAN] : postOrg(w, body)
          PROVE  HookInv'
      BY <2>1, <2>2 DEF HookInv, HookTypeOK, deleteOrg, postOrg
    <2>3. ASSUME NEW e \in Events, dispatchAssignmentEventFails(e) PROVE HookInv'
      BY <2>1, <2>3, DispatchAssumption DEF HookInv, HookTypeOK, dispatchAssignmentEventFails, HookFault
    <2>4. ASSUME NEW e \in Events, NEW w \in Hooks, Progress(e, w) \/ insertDeadLetterFails(e, w)
          PROVE  HookInv'
      BY <2>4, AttemptEnds, DeliveryEnds, DelayStep
         DEF Progress, fetchHandled, fetchFails, insertDeadLetter, insertDeadLetterFails
    <2>5. CASE UNCHANGED hookVars
      BY <2>1, <2>5 DEF hookVars, HookInv, HookTypeOK
    <2>6. QED
      BY <2>2, <2>3, <2>4, <2>5, DispatchStep, HookCrashStep DEF HookNext
  <1>3. QED
    BY <1>1, <1>2, PTL

LEMMA HookResult == HookInv => AccountedFor
  BY DEF HookInv, DeliveryOK, AccountedFor

-----------------------------------------------------------------------------
(* Transactions (TxService). *)

\* The upper time bound of a transaction is its lifetime after it was built.
TxRec == {x \in [fn : TxFunctions \cup {"none"}, issue : TxIssues \cup {<<>>}, seq : Nat, maxTime : Nat, at : Nat] :
            x.maxTime <= x.at + TxLifetime /\ (x.seq # 0 => x.maxTime # 0)}
TxReqs == [pc : {"idle", "hasApplied", "caps", "sequence", "send", "poll"}, tx : TxRec,
           polls : Int, fate : {"open", "ok", "failed"},
           answer : {"none", "refused", "xdr", "success", "failed", "assumed", "lost"}]
TxLedgers == [seq : Nat, applied : SUBSET (TxIssues \cup {<<>>}),
              assigned : SUBSET (TxIssues \cup {<<>>}), pool : SUBSET TxRec]

\* A transaction whose fate is known has its sequence number used up, one that waits
\* has not; and an answer with a verdict is only ever given for that verdict.
TxReqOK(t) ==
  /\ txReq[t].fate # "open" => txReq[t].tx.seq <= txLedger.seq
  /\ txReq[t].answer = "failed" => txReq[t].fate = "failed"
  /\ txReq[t].answer = "success" => txReq[t].fate = "ok"

\* What waits in the pool is ahead of the account and within its time.
TxPoolOK == \A p \in txLedger.pool : p.seq > txLedger.seq /\ inTime(p, txNow)

TxInv ==
  /\ txReq \in [TxTabs -> TxReqs]
  /\ txNow \in Nat \ {0} /\ txLedger \in TxLedgers /\ TxPoolOK
  /\ \A t \in TxTabs : TxReqOK(t)

LEMMA TxResult == TxInv => TxVerdictStands
  <1> SUFFICES ASSUME TxInv, NEW t \in TxTabs
               PROVE  /\ txReq[t].answer = "success" => txReq[t].fate = "ok"
                      /\ txReq[t].answer = "failed" => txReq[t].fate # "ok" /\ Over(txReq[t].tx)
                      /\ txReq[t].answer \in {"lost", "assumed"} /\ txNow > txReq[t].tx.at + TxLifetime => Over(txReq[t].tx)
    BY DEF TxVerdictStands
  <1>1. PICK x : x = txReq[t].tx
    OBVIOUS
  <1>2. x \in TxRec
    BY <1>1 DEF TxInv, TxReqs
  <1>3. /\ x.seq \in Nat /\ x.maxTime \in Nat /\ x.at \in Nat
        /\ x.maxTime <= x.at + TxLifetime /\ (x.seq # 0 => x.maxTime # 0)
    BY <1>2 DEF TxRec
  <1>4. txLedger.seq \in Nat /\ txNow \in Nat /\ TxLifetime \in Nat /\ TxPoolOK
    BY TxAssumption DEF TxInv, TxLedgers
  <1>5. ASSUME txReq[t].answer = "failed" PROVE txReq[t].fate # "ok" /\ Over(x)
    <2>1. txReq[t].fate = "failed" /\ x.seq <= txLedger.seq
      BY <1>1, <1>5 DEF TxInv, TxReqOK
    <2>2. QED
      BY <1>3, <1>4, <2>1 DEF Over, Accepts, TxPoolOK
  <1>6. ASSUME txNow > x.at + TxLifetime PROVE Over(x)
    <2>1. x.maxTime < txNow
      BY <1>3, <1>4, <1>6
    <2>2. CASE x.seq = 0
      BY <1>3, <1>4, <2>2 DEF Over, Accepts, TxPoolOK
    <2>3. CASE x.seq # 0
      <3>1. ~inTime(x, txNow)
        BY <1>3, <1>4, <2>1, <2>3 DEF inTime
      <3>2. QED
        BY <1>4, <3>1 DEF Over, Accepts, TxPoolOK
    <2>4. QED
      BY <2>2, <2>3
  <1>7. txReq[t].answer = "success" => txReq[t].fate = "ok"
    BY DEF TxInv, TxReqOK
  <1>8. QED
    BY <1>1, <1>5, <1>6, <1>7

\* The network as one request leaves it: untouched, or with the transaction taken.
SendsOnly(t) ==
  \/ UNCHANGED txLedger
  \/ /\ txLedger' = [txLedger EXCEPT !.pool = @ \cup {txReq[t].tx}]
     /\ txReq[t].tx.seq = txLedger.seq + 1 /\ inTime(txReq[t].tx, txNow)

LEMMA TxReqStep ==
  ASSUME TxInv, NEW t \in TxTabs, NEW r \in TxReqs, txReq' = [txReq EXCEPT ![t] = r],
         UNCHANGED txNow, SendsOnly(t),
         r.fate # "open" => r.tx.seq <= txLedger.seq,
         r.answer = "failed" => r.fate = "failed",
         r.answer = "success" => r.fate = "ok"
  PROVE  TxInv'
  <1>1. /\ txReq' \in [TxTabs -> TxReqs] /\ txReq'[t] = r
        /\ \A u \in TxTabs : u # t => txReq'[u] = txReq[u]
    BY DEF TxInv
  <1>2. txReq[t].tx \in TxRec
    BY DEF TxInv, TxReqs
  <1> USE DEF SendsOnly
  <1>3. /\ txLedger' \in TxLedgers /\ txLedger'.seq = txLedger.seq
        /\ txLedger'.pool \subseteq txLedger.pool \cup {p \in TxRec : p.seq = txLedger.seq + 1 /\ inTime(p, txNow)}
    <2>1. CASE UNCHANGED txLedger
      BY <2>1 DEF TxInv
    <2>2. CASE /\ txLedger' = [txLedger EXCEPT !.pool = @ \cup {txReq[t].tx}]
               /\ txReq[t].tx.seq = txLedger.seq + 1 /\ inTime(txReq[t].tx, txNow)
      BY <1>2, <2>2 DEF TxInv, TxLedgers
    <2>3. QED
      BY <2>1, <2>2
  <1>4. TxPoolOK'
    <2>1. txLedger.seq \in Nat
      BY DEF TxInv, TxLedgers
    <2>2. QED
      BY <1>3, <2>1 DEF TxInv, TxPoolOK, inTime
  <1>5. QED
    BY <1>1, <1>3, <1>4 DEF TxInv, TxReqOK

\* An answer keeps the transaction and its fate.
LEMMA TxAnswerStep ==
  ASSUME TxInv, NEW t \in TxTabs, NEW a \in {"refused", "success", "failed", "assumed", "lost"},
         TxAnswer(t, a), UNCHANGED txNow, SendsOnly(t),
         a = "failed" => txReq[t].fate = "failed", a = "success" => txReq[t].fate = "ok"
  PROVE  TxInv'
  <1> DEFINE q == [txReq[t] EXCEPT !.pc = "idle", !.answer = a]
             r == [q EXCEPT !.polls = 0]
  <1>1. txReq[t] \in TxReqs /\ TxReqOK(t)
    BY DEF TxInv
  <1>2. q \in TxReqs /\ q.fate = txReq[t].fate /\ q.tx = txReq[t].tx /\ q.answer = a
    BY <1>1 DEF TxReqs
  <1>3. txReq' = [txReq EXCEPT ![t] = r]
    BY DEF TxAnswer
  <1> HIDE DEF q
  <1>4. r \in TxReqs /\ r.fate = txReq[t].fate /\ r.tx = txReq[t].tx /\ r.answer = a
    BY <1>2 DEF TxReqs
  <1> HIDE DEF r
  <1>5. QED
    BY <1>1, <1>3, <1>4, TxReqStep DEF TxReqOK

\* So does the next await of a handler.
LEMMA FutStep ==
  ASSUME TxInv, NEW t \in TxTabs, NEW pc \in {"caps", "sequence", "send", "poll"},
         Fut(t, pc, txReq[t].tx), UNCHANGED txNow, SendsOnly(t)
  PROVE  TxInv'
  <1> DEFINE r == [txReq[t] EXCEPT !.pc = pc, !.tx = txReq[t].tx]
  <1>1. txReq[t] \in TxReqs /\ TxReqOK(t)
    BY DEF TxInv
  <1>2. r \in TxReqs /\ r.fate = txReq[t].fate /\ r.tx = txReq[t].tx /\ r.answer = txReq[t].answer
    BY <1>1 DEF TxReqs
  <1>3. txReq' = [txReq EXCEPT ![t] = r]
    BY DEF Fut
  <1> HIDE DEF r
  <1>4. QED
    BY <1>1, <1>2, <1>3, TxReqStep DEF TxReqOK

\* A transaction that is built has no fate yet.
LEMMA BuiltStep ==
  ASSUME TxInv, NEW t \in TxTabs, NEW fn \in TxFunctions, NEW i \in TxIssues \cup {<<>>},
         NEW s \in Nat, Built(t, buildRaw(fn, i, s)), UNCHANGED <<txNow, txLedger>>
  PROVE  TxInv'
  <1> DEFINE tx == buildRaw(fn, i, s)
             r == [pc |-> "idle", tx |-> tx, polls |-> 0, fate |-> "open", answer |-> "xdr"]
  <1>1. tx \in TxRec
    <2>1. s + 1 \in Nat /\ txNow + TxLifetime \in Nat /\ txNow + TxLifetime # 0 /\ txNow \in Nat /\ txNow + TxLifetime <= txNow + TxLifetime
      BY TxAssumption DEF TxInv
    <2>2. QED
      BY <2>1 DEF buildRaw, TxRec
  <1>2. txReq' = [txReq EXCEPT ![t] = r]
    BY DEF Built
  <1> HIDE DEF tx
  <1>3. r \in TxReqs /\ r.fate = "open" /\ r.answer = "xdr"
    BY <1>1 DEF TxReqs
  <1> HIDE DEF r
  <1>4. QED
    BY <1>2, <1>3, TxReqStep DEF SendsOnly

LEMMA CloseLedgerStep == ASSUME TxInv, CloseTxLedger PROVE TxInv'
  <1>1. PICK tx \in {p \in txLedger.pool : p.seq = txLedger.seq + 1} :
          LET accepted == contractAccepts(tx.fn, tx.issue)
              rest == [txLedger EXCEPT !.seq = tx.seq, !.pool = {p \in @ : p.seq > tx.seq}]
          IN /\ txLedger' =
                  IF ~accepted THEN rest
                  ELSE [rest EXCEPT
                          !.applied = IF tx.fn = "apply_for_issue" THEN @ \cup {tx.issue} ELSE @ \ {tx.issue},
                          !.assigned = IF tx.fn = "assign_issue" THEN @ \cup {tx.issue} ELSE @ \ {tx.issue}]
             /\ txReq' = [t \in TxTabs |->
                           IF txReq[t].tx = tx THEN [txReq[t] EXCEPT !.fate = IF accepted THEN "ok" ELSE "failed"]
                           ELSE txReq[t]]
             /\ UNCHANGED <<txDb, txNow>>
    BY DEF CloseTxLedger
  <1> DEFINE accepted == contractAccepts(tx.fn, tx.issue)
             rest == [txLedger EXCEPT !.seq = tx.seq, !.pool = {p \in @ : p.seq > tx.seq}]
             fate == IF accepted THEN "ok" ELSE "failed"
  <1>2. /\ tx \in TxRec /\ tx \in txLedger.pool /\ tx.seq = txLedger.seq + 1
        /\ tx.seq \in Nat /\ txLedger.seq \in Nat /\ txLedger \in TxLedgers
    BY <1>1 DEF TxInv, TxLedgers, TxRec
  <1>3. /\ rest \in TxLedgers /\ rest.seq = tx.seq
        /\ \A p \in rest.pool : p.seq > tx.seq /\ inTime(p, txNow)
    BY <1>2 DEF TxLedgers, TxInv, TxPoolOK
  <1>4. fate \in {"ok", "failed"}
    OBVIOUS
  <1>5. /\ txNow' = txNow
        /\ \A t \in TxTabs : txReq'[t] = IF txReq[t].tx = tx THEN [txReq[t] EXCEPT !.fate = fate]
                                         ELSE txReq[t]
        /\ txReq' = [t \in TxTabs |-> txReq'[t]]
    BY <1>1
  <1>6. \/ txLedger' = rest
        \/ \E a, b \in SUBSET (TxIssues \cup {<<>>}) :
             txLedger' = [rest EXCEPT !.applied = a, !.assigned = b]
    <2>1. CASE ~accepted
      BY <1>1, <2>1
    <2>2. CASE accepted
      <3> DEFINE a == IF tx.fn = "apply_for_issue" THEN rest.applied \cup {tx.issue}
                      ELSE rest.applied \ {tx.issue}
                 b == IF tx.fn = "assign_issue" THEN rest.assigned \cup {tx.issue}
                      ELSE rest.assigned \ {tx.issue}
      <3>1. txLedger' = [rest EXCEPT !.applied = a, !.assigned = b]
        BY <1>1, <2>2
      <3> HIDE DEF rest
      <3>2. a \in SUBSET (TxIssues \cup {<<>>}) /\ b \in SUBSET (TxIssues \cup {<<>>})
        BY <1>2, <1>3 DEF TxRec, TxLedgers
      <3> HIDE DEF a, b
      <3>3. QED
        BY <3>1, <3>2
    <2>3. QED
      BY <2>1, <2>2
  <1> HIDE DEF rest, fate, accepted
  <1>7. /\ txLedger' \in TxLedgers /\ txLedger'.seq = tx.seq
        /\ \A p \in txLedger'.pool : p.seq > tx.seq /\ inTime(p, txNow)
    <2>1. CASE txLedger' = rest
      BY <1>3, <2>1
    <2>2. ASSUME NEW a \in SUBSET (TxIssues \cup {<<>>}), NEW b \in SUBSET (TxIssues \cup {<<>>}),
                 txLedger' = [rest EXCEPT !.applied = a, !.assigned = b]
          PROVE  txLedger' \in TxLedgers /\ txLedger'.seq = rest.seq /\ txLedger'.pool = rest.pool
      BY <1>3, <2>2 DEF TxLedgers
    <2>3. QED
      BY <1>3, <1>6, <2>1, <2>2
  <1>8. ASSUME NEW t \in TxTabs PROVE txReq'[t] \in TxReqs /\ TxReqOK(t)'
    <2>1. txReq[t] \in TxReqs /\ TxReqOK(t) /\ txReq[t].tx.seq \in Nat
      BY DEF TxInv, TxReqs, TxRec
    <2>2. CASE txReq[t].tx # tx
      BY <1>2, <1>5, <1>7, <2>1, <2>2 DEF TxReqOK
    <2>3. CASE txReq[t].tx = tx
      <3>1. txReq[t].fate = "open" /\ txReq[t].answer # "failed" /\ txReq[t].answer # "success"
        BY <1>2, <2>1, <2>3 DEF TxReqOK, TxReqs
      <3>2. txReq'[t] = [txReq[t] EXCEPT !.fate = fate]
        BY <1>5, <2>3
      <3>3. /\ txReq'[t] \in TxReqs /\ txReq'[t].tx = tx
            /\ txReq'[t].answer = txReq[t].answer
        BY <1>4, <2>1, <2>3, <3>2 DEF TxReqs
      <3>4. QED
        BY <1>2, <1>7, <3>1, <3>3 DEF TxReqOK
    <2>4. QED
      BY <2>2, <2>3
  <1>9. txReq' \in [TxTabs -> TxReqs]
    BY <1>5, <1>8
  <1>10. QED
    BY <1>5, <1>7, <1>8, <1>9 DEF TxInv, TxPoolOK, inTime

LEMMA TxInductive == TxInit /\ [][TxNext]_txVars => []TxInv
  <1>1. TxInit => TxInv
    <2> SUFFICES ASSUME TxInit PROVE TxInv
      OBVIOUS
    <2>1. IdleReq \in TxReqs /\ IdleReq.fate = "open" /\ IdleReq.answer = "none"
      <3>1. NoTx \in TxRec
        BY TxAssumption DEF NoTx, TxRec
      <3>2. QED
        BY <3>1 DEF IdleReq, TxReqs
    <2>2. QED
      BY <2>1 DEF TxInit, TxInv, TxReqOK, TxLedgers, TxPoolOK
  <1>2. TxInv /\ [TxNext]_txVars => TxInv'
    <2> SUFFICES ASSUME TxInv, [TxNext]_txVars PROVE TxInv'
      OBVIOUS
    <2>1. ASSUME NEW t \in TxTabs, validateBody(t) PROVE TxInv'
      BY <2>1, TxAnswerStep DEF validateBody, OnlyReq, SendsOnly
    <2>2. ASSUME NEW t \in TxTabs, postApply(t) PROVE TxInv'
      <3>1. PICK i \in TxIssues :
              IF txDb[i] # "none" THEN TxAnswer(t, "refused")
              ELSE txReq' = [txReq EXCEPT ![t] = [IdleReq EXCEPT !.pc = "hasApplied", !.tx = [NoTx EXCEPT !.issue = i]]]
        BY <2>2 DEF postApply
      <3>2. UNCHANGED <<txNow, txLedger>>
        BY <2>2 DEF postApply, OnlyReq
      <3>3. CASE txDb[i] # "none"
        BY <3>1, <3>2, <3>3, TxAnswerStep DEF SendsOnly
      <3>4. CASE txDb[i] = "none"
        <4> DEFINE x == [NoTx EXCEPT !.issue = i]
                   q == [IdleReq EXCEPT !.pc = "hasApplied"]
                   r == [q EXCEPT !.tx = x]
        <4>1. x \in TxRec
          BY TxAssumption DEF NoTx, TxRec
        <4>2. txReq' = [txReq EXCEPT ![t] = r]
          BY <3>1, <3>4
        <4> HIDE DEF x
        <4>3. q \in TxReqs /\ q.fate = "open" /\ q.answer = "none"
          <5>1. NoTx \in TxRec
            BY TxAssumption DEF NoTx, TxRec
          <5>2. QED
            BY <5>1 DEF IdleReq, TxReqs
        <4> HIDE DEF q
        <4>4. r \in TxReqs /\ r.fate = "open" /\ r.answer = "none"
          BY <4>1, <4>3 DEF TxReqs
        <4> HIDE DEF r
        <4>5. QED
          BY <3>2, <4>2, <4>4, TxReqStep DEF SendsOnly
      <3>5. QED
        BY <3>3, <3>4
    <2>3. ASSUME NEW t \in TxTabs, buildAndSimulate(t) PROVE TxInv'
      <3>1. PICK fn \in TxCalls, i \in TxIssues :
              \/ Built(t, buildRaw(fn, i, txLedger.seq))
              \/ TxAnswer(t, "refused")
        BY <2>3 DEF buildAndSimulate
      <3>2. UNCHANGED <<txNow, txLedger>> /\ txLedger.seq \in Nat /\ fn \in TxFunctions
        BY <2>3 DEF buildAndSimulate, OnlyReq, TxInv, TxLedgers, TxFunctions
      <3>3. QED
        BY <3>1, <3>2, BuiltStep, TxAnswerStep DEF SendsOnly
    <2>4. ASSUME NEW t \in TxTabs, postSubmit(t) PROVE TxInv'
      <3>1. UNCHANGED <<txNow, txLedger>> /\ (Fut(t, "send", txReq[t].tx) \/ TxAnswer(t, "refused"))
        BY <2>4 DEF postSubmit, OnlyReq
      <3>2. QED
        BY <3>1, FutStep, TxAnswerStep DEF SendsOnly
    <2>5. ASSUME NEW t \in TxTabs, getTransactionThrows(t) PROVE TxInv'
      BY <2>5, TxAnswerStep DEF getTransactionThrows, OnlyReq, SendsOnly
    <2>6. ASSUME NEW t \in TxTabs, hasApplied(t) PROVE TxInv'
      <3>1. UNCHANGED <<txNow, txLedger>> /\ (Fut(t, "caps", txReq[t].tx) \/ TxAnswer(t, "refused"))
        BY <2>6 DEF hasApplied, OnlyReq
      <3>2. QED
        BY <3>1, FutStep, TxAnswerStep DEF SendsOnly
    <2>7. ASSUME NEW t \in TxTabs, checkCaps(t) PROVE TxInv'
      <3>1. UNCHANGED <<txNow, txLedger>> /\ (Fut(t, "sequence", txReq[t].tx) \/ TxAnswer(t, "refused"))
        BY <2>7 DEF checkCaps, OnlyReq
      <3>2. QED
        BY <3>1, FutStep, TxAnswerStep DEF SendsOnly
    <2>8. ASSUME NEW t \in TxTabs, buildApplyTx(t) PROVE TxInv'
      <3>1. UNCHANGED <<txNow, txLedger>>
        BY <2>8 DEF buildApplyTx, OnlyReq
      <3>2. PICK s \in getAccountSequence : Built(t, buildRaw("apply_for_issue", txReq[t].tx.issue, s))
        BY <2>8 DEF buildApplyTx
      <3>3. s \in Nat /\ txReq[t].tx.issue \in TxIssues \cup {<<>>} /\ "apply_for_issue" \in TxFunctions
        BY <3>2 DEF getAccountSequence, TxInv, TxLedgers, TxReqs, TxRec, TxFunctions
      <3>4. QED
        BY <3>1, <3>2, <3>3, BuiltStep
    <2>9. ASSUME NEW t \in TxTabs, sendTransaction(t) PROVE TxInv'
      <3>1. SendsOnly(t) /\ UNCHANGED txNow
        BY <2>9 DEF sendTransaction, Accepts, SendsOnly
      <3>2. Fut(t, "poll", txReq[t].tx) \/ TxAnswer(t, "lost") \/ TxAnswer(t, "assumed")
        BY <2>9 DEF sendTransaction
      <3>3. QED
        BY <3>1, <3>2, FutStep, TxAnswerStep
    <2>10. ASSUME NEW t \in TxTabs, getTransaction(t) PROVE TxInv'
      <3> DEFINE v == pollVerdict(txReq[t].fate, txReq[t].polls)
      <3>1. v \in {"none", "success", "failed", "assumed"} /\ (v = "failed" => txReq[t].fate = "failed")
            /\ (v = "success" => txReq[t].fate = "ok")
        BY DEF pollVerdict
      <3>2. UNCHANGED <<txNow, txLedger>>
        BY <2>10 DEF getTransaction, OnlyReq
      <3>3. CASE v # "none"
        <4>1. TxAnswer(t, v)
          BY <2>10, <3>3 DEF getTransaction
        <4> HIDE DEF v
        <4>2. QED
          BY <3>1, <3>2, <3>3, <4>1, TxAnswerStep DEF SendsOnly
      <3>4. CASE v = "none"
        <4> DEFINE r == [txReq[t] EXCEPT !.polls = nextPoll(@)]
        <4>1. txReq' = [txReq EXCEPT ![t] = r]
          BY <2>10, <3>4 DEF getTransaction
        <4>2. txReq[t] \in TxReqs /\ TxReqOK(t)
          BY DEF TxInv
        <4>3. /\ r \in TxReqs /\ r.fate = txReq[t].fate /\ r.tx = txReq[t].tx
              /\ r.answer = txReq[t].answer
          BY <4>2 DEF TxReqs, nextPoll
        <4> HIDE DEF r
        <4>4. QED
          BY <3>2, <4>1, <4>2, <4>3, TxReqStep DEF SendsOnly, TxReqOK
      <3>5. QED
        BY <3>3, <3>4
    <2>11. CASE MirrorApplications \/ UNCHANGED txVars
      BY <2>11 DEF MirrorApplications, txVars, TxInv, TxReqOK, TxPoolOK, inTime
    <2>12. CASE TxTick
      <3>1. /\ txLedger' = [txLedger EXCEPT !.pool = {p \in @ : inTime(p, txNow + 1)}]
            /\ txNow' = txNow + 1 /\ txNow' \in Nat /\ UNCHANGED txReq
        BY <2>12 DEF TxTick, TxInv
      <3>2. /\ txLedger' \in TxLedgers /\ txLedger'.seq = txLedger.seq
            /\ \A p \in txLedger'.pool : p \in txLedger.pool /\ inTime(p, txNow + 1)
        BY <3>1 DEF TxInv, TxLedgers
      <3>3. TxPoolOK'
        BY <3>1, <3>2 DEF TxInv, TxPoolOK, inTime
      <3>4. QED
        BY <3>1, <3>2, <3>3 DEF TxInv, TxReqOK
    <2>13. QED
      BY <2>1, <2>2, <2>3, <2>4, <2>5, <2>6, <2>7, <2>8, <2>9, <2>10, <2>11, <2>12, CloseLedgerStep
         DEF TxNext, TxRequest
  <1>3. QED
    BY <1>1, <1>2, PTL

-----------------------------------------------------------------------------
(* The issue cache and the GitHub webhook (IssueCache). *)

\* What a 'closed' delivery owes has a handler that will settle it; the handler
\* between two statements knows its issue.
IcRow == [status : {"none", "open", "closed"}, label : BOOLEAN,
          asgn : {"none", "active", "pending-review"}]
IcHandler == [pc : {"idle", "label", "assignments", "invalidate"}, issue : IcIssues \cup {0}]

IcInv ==
  /\ icRow \in [IcIssues -> IcRow]
  /\ icOwed \in [IcIssues -> {"no", "owed", "torn"}]
  /\ icHook \in [IcHooks -> IcHandler]
  /\ \A h \in IcHooks : icHook[h].pc \in {"label", "assignments"} => icHook[h].issue \in IcIssues
  /\ IcClosedMeansReview

\* A statement that sets one field of one row keeps the rows' type.
LEMMA IcUpdate ==
  ASSUME NEW R \in [IcIssues -> IcRow], NEW i \in IcIssues,
         NEW s \in {"none", "open", "closed"}, NEW b \in BOOLEAN,
         NEW a \in {"none", "active", "pending-review"}
  PROVE  /\ [R EXCEPT ![i]["status"] = s] \in [IcIssues -> IcRow]
         /\ [R EXCEPT ![i]["label"] = b] \in [IcIssues -> IcRow]
         /\ [R EXCEPT ![i]["asgn"] = a] \in [IcIssues -> IcRow]
  <1>1. R[i] \in IcRow
    OBVIOUS
  <1>2. /\ [R[i] EXCEPT !["status"] = s] \in IcRow /\ [R[i] EXCEPT !["label"] = b] \in IcRow
        /\ [R[i] EXCEPT !["asgn"] = a] \in IcRow
    BY <1>1 DEF IcRow
  <1>3. QED
    BY <1>2

\* A delivery is taken up by an idle handler, so no handler leaves the assignments.
LEMMA IcDelivered ==
  ASSUME icHook \in [IcHooks -> IcHandler], NEW h \in IcHooks, NEW i \in IcIssues \cup {0},
         NEW pc \in {"idle", "label", "assignments", "invalidate"}, Deliver(h, pc, i)
  PROVE  /\ icHook' \in [IcHooks -> IcHandler]
         /\ icHook'[h].pc = pc /\ icHook'[h].issue = i /\ icHook[h].pc = "idle"
         /\ \A k \in IcHooks : k # h => icHook'[k] = icHook[k]
  <1>1. [pc |-> pc, issue |-> i] \in IcHandler
    BY DEF IcHandler
  <1>2. icHook' = [icHook EXCEPT ![h] = [pc |-> pc, issue |-> i]] /\ icHook[h].pc = "idle"
    BY DEF Deliver
  <1>3. icHook'[h] = [pc |-> pc, issue |-> i]
    BY <1>2
  <1>4. QED
    BY <1>1, <1>2, <1>3

LEMMA IcInductive == IcInit /\ [][IcNext]_icVars => []IcInv
  <1>1. IcInit => IcInv
    BY DEF IcInit, IcRow, IcHandler, IcInv, NoHook, IcClosedMeansReview
  <1>2. IcInv /\ [IcNext]_icVars => IcInv'
    <2> SUFFICES ASSUME IcInv, [IcNext]_icVars PROVE IcInv'
      OBVIOUS
    <2>1. CASE UNCHANGED <<icRow, icHook, icOwed>>
      BY <2>1 DEF IcInv, IcClosedMeansReview
    <2>2. ASSUME NEW h \in IcHooks, NEW i \in IcIssues \cup {0}, NEW pc \in {"idle", "label", "invalidate"},
                 Deliver(h, pc, i), pc = "label" => i \in IcIssues,
                 icRow' \in [IcIssues -> IcRow], UNCHANGED icOwed
          PROVE  IcInv'
      <3>1. /\ icHook' \in [IcHooks -> IcHandler]
            /\ icHook'[h].pc = pc /\ icHook'[h].issue = i /\ icHook[h].pc = "idle"
            /\ \A k \in IcHooks : k # h => icHook'[k] = icHook[k]
        BY <2>2, IcDelivered DEF IcInv
      <3>2. \A k \in IcHooks : icHook'[k].pc \in {"label", "assignments"} => icHook'[k].issue \in IcIssues
        BY <2>2, <3>1 DEF IcInv
      <3>3. IcClosedMeansReview'
        BY <2>2, <3>1 DEF IcInv, IcClosedMeansReview
      <3>4. QED
        BY <2>2, <3>1, <3>2, <3>3 DEF IcInv
    <2>3. ASSUME NEW h \in IcHooks, insertIssue(h) PROVE IcInv'
      <3>1. PICK i \in IcIssues, s \in {"open", "closed"}, n \in IcIssues, pc \in {"invalidate", "label"} :
              Update(i, "status", s) /\ Deliver(h, pc, n)
        BY <2>3 DEF insertIssue
      <3>2. icRow' \in [IcIssues -> IcRow]
        BY <3>1, IcUpdate DEF IcInv, Update
      <3>3. QED
        BY <2>2, <2>3, <3>1, <3>2 DEF insertIssue
    <2>4. ASSUME NEW h \in IcHooks, removeLabel(h) PROVE IcInv'
      <3>1. PICK i \in IcIssues : Update(i, "label", FALSE) /\ Deliver(h, "invalidate", i)
        BY <2>4 DEF removeLabel
      <3>2. icRow' \in [IcIssues -> IcRow]
        BY <3>1, IcUpdate DEF IcInv, Update
      <3>3. QED
        BY <2>2, <2>4, <3>1, <3>2 DEF removeLabel
    <2>5. ASSUME NEW h \in IcHooks, issueEdited(h) PROVE IcInv'
      <3>1. PICK i \in IcIssues, s \in {"open", "closed"} : setStatus(h, i, s, "invalidate")
        BY <2>5 DEF issueEdited
      <3>2. icRow' \in [IcIssues -> IcRow]
        BY <3>1 DEF setStatus, IcInv, IcRow
      <3>3. QED
        BY <2>2, <2>5, <3>1, <3>2 DEF issueEdited, setStatus
    <2>6. ASSUME NEW h \in IcHooks, ignoreDelivery(h) PROVE IcInv'
      <3>1. icRow' \in [IcIssues -> IcRow] /\ Deliver(h, "idle", 0) /\ UNCHANGED icOwed
        BY <2>6 DEF ignoreDelivery, IcInv
      <3>2. QED
        BY <2>2, <3>1
    <2>7. ASSUME NEW h \in IcHooks, issueClosed(h) PROVE IcInv'
      <3>1. PICK i \in IcIssues :
              /\ setStatus(h, i, "closed", "assignments")
              /\ icOwed' = [icOwed EXCEPT ![i] = IF icRow[i].asgn = "active" THEN "owed" ELSE @]
        BY <2>7 DEF issueClosed
      <3>2. icRow' \in [IcIssues -> IcRow]
        BY <3>1 DEF setStatus, IcInv, IcRow
      <3>3. /\ icHook' \in [IcHooks -> IcHandler]
            /\ icHook'[h].pc = "assignments" /\ icHook'[h].issue = i /\ icHook[h].pc = "idle"
            /\ \A k \in IcHooks : k # h => icHook'[k] = icHook[k]
        BY <3>1, IcDelivered DEF IcInv, setStatus
      <3>4. /\ icOwed' \in [IcIssues -> {"no", "owed", "torn"}]
            /\ \A j \in IcIssues : j # i => icOwed'[j] = icOwed[j]
        BY <3>1 DEF IcInv
      <3>5. IcClosedMeansReview'
        BY <3>3, <3>4 DEF IcInv, IcClosedMeansReview
      <3>6. QED
        BY <3>2, <3>3, <3>4, <3>5 DEF IcInv
    <2>8. ASSUME NEW h \in IcHooks, recordLabel(h) \/ recordLabelFails(h) \/ finishDelivery(h) PROVE IcInv'
      <3>1. /\ icHook[h].pc \in {"label", "invalidate"} /\ icHook[h] \in IcHandler /\ UNCHANGED icOwed
            /\ \/ icHook' = [icHook EXCEPT ![h].pc = "invalidate"]
               \/ icHook' = [icHook EXCEPT ![h] = NoHook]
        BY <2>8 DEF recordLabel, recordLabelFails, finishDelivery, IcInv
      <3>2. NoHook \in IcHandler /\ [icHook[h] EXCEPT !.pc = "invalidate"] \in IcHandler
        BY <3>1 DEF NoHook, IcHandler
      <3>3. /\ icHook' \in [IcHooks -> IcHandler] /\ icHook'[h].pc \in {"idle", "invalidate"}
            /\ \A k \in IcHooks : k # h => icHook'[k] = icHook[k]
        BY <3>1, <3>2 DEF IcInv, NoHook, IcHandler
      <3>4. icRow' \in [IcIssues -> IcRow]
        <4>1. CASE recordLabel(h)
          <5>1. icRow' = [icRow EXCEPT ![icHook[h].issue]["label"] = TRUE] /\ icHook[h].issue \in IcIssues
            BY <4>1 DEF recordLabel, Update, IcInv
          <5>2. QED
            BY <5>1, IcUpdate DEF IcInv
        <4>2. QED
          BY <2>8, <4>1 DEF recordLabelFails, finishDelivery, IcInv
      <3>5. IcClosedMeansReview'
        BY <3>1, <3>3 DEF IcInv, IcClosedMeansReview
      <3>6. QED
        BY <3>1, <3>3, <3>4, <3>5 DEF IcInv
    <2>9. ASSUME NEW h \in IcHooks, markPendingReview(h) PROVE IcInv'
      <3>1. PICK i \in IcIssues : i = icHook[h].issue
        BY <2>9 DEF markPendingReview, IcInv
      <3>2. PICK a \in {"none", "pending-review"} : icRow' = [icRow EXCEPT ![i]["asgn"] = a]
        BY <2>9, <3>1 DEF markPendingReview, Update
      <3>3. icRow' \in [IcIssues -> IcRow]
        BY <3>2, IcUpdate DEF IcInv
      <3>4. icHook' = [icHook EXCEPT ![h].pc = "invalidate"] /\ icOwed' = [icOwed EXCEPT ![i] = "no"]
        BY <2>9, <3>1 DEF markPendingReview
      <3>5. /\ icHook' \in [IcHooks -> IcHandler] /\ icHook'[h].pc = "invalidate"
            /\ \A k \in IcHooks : k # h => icHook'[k] = icHook[k]
        BY <3>4 DEF IcInv, IcHandler
      <3>6. /\ icOwed' \in [IcIssues -> {"no", "owed", "torn"}] /\ icOwed'[i] = "no"
            /\ \A j \in IcIssues : j # i => icOwed'[j] = icOwed[j]
        BY <3>4 DEF IcInv
      <3>7. IcClosedMeansReview'
        BY <3>1, <3>5, <3>6 DEF IcInv, IcClosedMeansReview
      <3>8. QED
        BY <3>3, <3>5, <3>6, <3>7 DEF IcInv
    <2>10. ASSUME NEW h \in IcHooks, markPendingReviewFails(h) PROVE IcInv'
      <3>1. PICK i \in IcIssues : i = icHook[h].issue
        BY <2>10 DEF markPendingReviewFails, IcInv
      <3>2. /\ icHook' = [icHook EXCEPT ![h] = NoHook] /\ UNCHANGED icRow
            /\ icOwed' = [icOwed EXCEPT ![i] =
                 IF @ = "owed" /\ ~\E k \in IcHooks \ {h} : icHook[k].pc = "assignments" /\ icHook[k].issue = i
                 THEN "torn" ELSE @]
        BY <2>10, <3>1 DEF markPendingReviewFails
      <3>3. NoHook \in IcHandler /\ NoHook.pc = "idle"
        BY DEF NoHook, IcHandler
      <3>4. /\ icHook' \in [IcHooks -> IcHandler] /\ icHook'[h].pc = "idle"
            /\ \A k \in IcHooks : k # h => icHook'[k] = icHook[k]
        BY <3>2, <3>3 DEF IcInv
      <3>5. /\ icOwed' \in [IcIssues -> {"no", "owed", "torn"}]
            /\ \A j \in IcIssues : j # i => icOwed'[j] = icOwed[j]
            /\ icOwed'[i] = "owed" =>
                 \E k \in IcHooks \ {h} : icHook[k].pc = "assignments" /\ icHook[k].issue = i
        BY <3>2 DEF IcInv
      <3>6. IcClosedMeansReview'
        BY <3>1, <3>4, <3>5 DEF IcInv, IcClosedMeansReview
      <3>7. QED
        BY <3>2, <3>4, <3>5, <3>6 DEF IcInv
    <2>11. CASE AssignIssue
      <3>1. PICK i \in IcIssues : icRow' = [icRow EXCEPT ![i]["asgn"] = "active"]
        BY <2>11 DEF AssignIssue, Update
      <3>2. icRow' \in [IcIssues -> IcRow]
        BY <3>1, IcUpdate DEF IcInv
      <3>3. QED
        BY <2>11, <3>2 DEF AssignIssue, IcInv, IcClosedMeansReview
    <2>12. QED
      BY <2>1, <2>3, <2>4, <2>5, <2>6, <2>7, <2>8, <2>9, <2>10, <2>11
         DEF IcNext, IcHookStep, icVars, getFromCache, IcReaderStep, countIssues, selectIssues, setCache,
             IcTick
  <1>3. QED
    BY <1>1, <1>2, PTL

-----------------------------------------------------------------------------
(* Health (Health). *)

LEMMA HealthInductive == HealthInit /\ [][HealthNext]_healthVars => []HealthTypeOK
  <1> USE DEF HealthTypeOK
  <1>1. HealthInit => HealthTypeOK
    BY DEF HealthInit
  <1>2. HealthTypeOK /\ [HealthNext]_healthVars => HealthTypeOK'
    <2> SUFFICES ASSUME HealthTypeOK, [HealthNext]_healthVars PROVE HealthTypeOK'
      OBVIOUS
    <2>1. CASE healthHandler
      BY <2>1 DEF healthHandler
    <2>2. CASE sendHealth
      <3>1. hcSent' \in {200, 503} /\ UNCHANGED <<hcCheck, hcLate>>
        BY <2>2 DEF sendHealth, httpStatus
      <3>2. QED
        BY <2>2, <3>1 DEF sendHealth
    <2>3. ASSUME NEW d \in HealthDeps, probe(d) \/ timeout(d) PROVE HealthTypeOK'
      <3>1. /\ UNCHANGED hcSent /\ hcLate' \subseteq HealthDeps
            /\ \E r \in {"healthy", "unhealthy"} : hcCheck' = settle(d, r)
        BY <2>3 DEF probe, timeout
      <3>2. CASE hcCheck[d] = "pending"
        BY <3>1, <3>2 DEF settle
      <3>3. CASE hcCheck[d] # "pending"
        BY <3>1, <3>3 DEF settle
      <3>4. QED
        BY <3>2, <3>3
    <2>4. CASE UNCHANGED healthVars
      BY <2>4 DEF healthVars
    <2>5. QED
      BY <2>1, <2>2, <2>3, <2>4 DEF HealthNext
  <1>3. QED
    BY <1>1, <1>2, PTL

-----------------------------------------------------------------------------
(* Live updates (LiveUpdates). *)

LvTabs == [status : {"connected", "reconnecting", "polling"}, retry : Nat,
           retryTimer : BOOLEAN, pollTimer : BOOLEAN, stopped : BOOLEAN]

LvInv == lvTab \in LvTabs /\ LvFed

LEMMA LvInductive == LvInit /\ [][LvNext]_lvVars => []LvFed
  <1>1. LvInit => LvInv
    BY DEF LvInit, LvInv, LvTabs, LvFed
  <1>2. LvInv /\ [LvNext]_lvVars => LvInv'
    <2> SUFFICES ASSUME lvTab \in LvTabs, LvFed, [LvNext]_lvVars PROVE LvInv'
      BY DEF LvInv
    <2>1. CASE UNCHANGED <<lvTab, lvConn>>
      BY <2>1 DEF LvInv, LvFed
    <2>2. CASE onopen
      <3>1. lvTab' = [lvTab EXCEPT !.status = "connected", !.retry = 0] /\ lvConn' = "open"
        BY <2>2 DEF onopen
      <3>2. lvTab' \in LvTabs
        BY <3>1 DEF LvTabs
      <3>3. QED
        BY <3>1, <3>2 DEF LvInv, LvFed
    <2>3. CASE onerror
      <3>1. lvTab' = afterError(lvTab)
        BY <2>3 DEF onerror
      <3>2. lvTab' \in LvTabs
        <4>1. CASE lvTab.retry >= LvRetries
          <5>1. lvTab' = [lvTab EXCEPT !.status = "polling", !.pollTimer = TRUE]
            BY <3>1, <4>1 DEF afterError
          <5>2. QED
            BY <5>1 DEF LvTabs
        <4>2. CASE ~(lvTab.retry >= LvRetries)
          <5>1. lvTab' = [lvTab EXCEPT !.retry = @ + 1, !.retryTimer = TRUE]
            BY <3>1, <4>2 DEF afterError
          <5>2. lvTab.retry + 1 \in Nat
            BY DEF LvTabs
          <5>3. QED
            BY <5>1, <5>2 DEF LvTabs
        <4>3. QED
          BY <4>1, <4>2
      <3>3. lvTab'.retryTimer \/ lvTab'.pollTimer
        BY <3>1 DEF afterError, LvTabs
      <3>4. QED
        BY <3>2, <3>3 DEF LvInv, LvFed
    <2>4. CASE connect
      BY <2>4 DEF connect, LvInv, LvFed, LvTabs
    <2>5. CASE unmount
      BY <2>5 DEF unmount, LvInv, LvFed, LvTabs
    <2>6. QED
      BY <2>1, <2>2, <2>3, <2>4, <2>5 DEF LvNext, publishLiveEvent, onClose, handleLiveEvent,
         fetchEvents, pollEvents, lvVars
  <1>3. LvInv => LvFed
    BY DEF LvInv
  <1>4. QED
    BY <1>1, <1>2, <1>3, PTL

-----------------------------------------------------------------------------
(* The Redis rate limit (ApiKeyLimiter). *)

\* Every INCR on the connection belongs to a request that waits for it, and to
\* that one alone.
KeyWire ==
  \A k \in DOMAIN wire : wire[k].op = "incr" =>
    /\ wire[k].by \in Requests /\ req[wire[k].by].pc = "waiting"
    /\ \A l \in DOMAIN wire : wire[l].op = "incr" /\ wire[l].by = wire[k].by => l = k

KeyReqs == [pc : {"idle", "waiting", "answered"}, n : Counted, late : BOOLEAN]

KeyInv == /\ count \in Counted /\ ttl \in 0..WINDOW /\ keyFaults \in Nat
          /\ wire \in Seq(Command) /\ req \in [Requests -> KeyReqs]
          /\ keyFaults = 0 => KeyWire
          /\ ExpiryUnderWay

LEMMA MinOfTwo == ASSUME NEW a \in Int, NEW b \in Int
                  PROVE  Min({a, b}) = IF a <= b THEN a ELSE b
  <1> DEFINE m == IF a <= b THEN a ELSE b
  <1>1. m \in {a, b} /\ \A y \in {a, b} : m <= y
    OBVIOUS
  <1>2. \A x \in {a, b} : (\A y \in {a, b} : x <= y) => x = m
    OBVIOUS
  <1>3. QED
    BY <1>1, <1>2, Zenon DEF Min

LEMMA KeyStart == KeyInit => KeyInv
  <1>0. LIMIT \in Nat /\ LIMIT >= 1 /\ WINDOW \in Nat /\ WINDOW >= 1 /\ Nobody \notin Requests
    BY LimiterAssumption
  <1>1. ASSUME KeyInit PROVE count = 0 /\ ttl = 0 /\ keyFaults = 0 /\ wire = <<>> /\ req = [r \in Requests |-> Idle]
    BY <1>1 DEF KeyInit
  <1>2. Idle \in KeyReqs
    BY <1>0 DEF Idle, KeyReqs, Counted
  <1>3. QED
    BY <1>1, <1>2, <1>0 DEF KeyInv, KeyWire, ExpiryUnderWay, Counted

LEMMA KeyStepInv == KeyInv /\ [KeyNext]_keyVars => KeyInv'
  <1>0. LIMIT \in Nat /\ LIMIT >= 1 /\ WINDOW \in Nat /\ WINDOW >= 1 /\ Nobody \notin Requests
    BY LimiterAssumption
  <1> SUFFICES ASSUME KeyInv, [KeyNext]_keyVars PROVE KeyInv'
    OBVIOUS
  <1>1. /\ count \in Counted /\ ttl \in 0..WINDOW /\ keyFaults \in Nat
        /\ wire \in Seq(Command) /\ req \in [Requests -> KeyReqs]
        /\ keyFaults = 0 => KeyWire
        /\ ExpiryUnderWay
    BY DEF KeyInv
  <1>2. CASE UNCHANGED keyVars
    BY <1>1, <1>2 DEF KeyInv, KeyWire, ExpiryUnderWay, keyVars
  <1>3. ASSUME NEW r \in Requests, sendIncr(r) PROVE KeyInv'
    <2> DEFINE c == [op |-> "incr", by |-> r]
    <2>1. /\ req[r].pc = "idle" /\ req' = [req EXCEPT ![r] = Waiting] /\ wire' = Append(wire, c)
          /\ UNCHANGED <<count, ttl, keyFaults>>
      BY <1>3 DEF sendIncr
    <2>2. c \in Command /\ c.op = "incr" /\ c.by = r
      BY DEF Command
    <2>3. Waiting \in KeyReqs /\ Waiting.pc = "waiting"
      BY <1>0 DEF Waiting, KeyReqs, Counted
    <2> HIDE DEF c
    <2>4. /\ wire' \in Seq(Command) /\ DOMAIN wire' = 1..(Len(wire) + 1) /\ DOMAIN wire = 1..Len(wire) /\ Len(wire) \in Nat
          /\ wire'[Len(wire) + 1] = c /\ \A k \in DOMAIN wire : wire'[k] = wire[k]
      BY <1>1, <2>1, <2>2
    <2>5. req' \in [Requests -> KeyReqs] /\ req'[r].pc = "waiting" /\ \A s \in Requests \ {r} : req'[s] = req[s]
      BY <1>1, <2>1, <2>3
    <2>6. keyFaults' = 0 => KeyWire'
      BY <1>1, <2>1, <2>2, <2>4, <2>5 DEF KeyWire
    <2>7. ExpiryUnderWay'
      BY <1>1, <2>1, <2>4, <2>5 DEF ExpiryUnderWay
    <2>8. QED
      BY <1>1, <2>1, <2>4, <2>5, <2>6, <2>7 DEF KeyInv
  <1>4. ASSUME NEW r \in Requests, checkRedisLimit(r) PROVE KeyInv'
    <2> DEFINE c == [op |-> "expire", by |-> r]
    <2>1. /\ req[r].pc = "answered" /\ req' = [req EXCEPT ![r] = Idle] /\ UNCHANGED <<count, ttl, keyFaults>>
          /\ IF req[r].n = 1 THEN wire' = Append(wire, c) ELSE UNCHANGED wire
      BY <1>4 DEF checkRedisLimit, afterIncr
    <2>2. c \in Command /\ c.op = "expire"
      BY DEF Command
    <2>3. Idle \in KeyReqs /\ Idle.pc = "idle"
      BY <1>0 DEF Idle, KeyReqs, Counted
    <2> HIDE DEF c
    <2>4. req' \in [Requests -> KeyReqs] /\ \A s \in Requests \ {r} : req'[s] = req[s]
      BY <1>1, <2>1, <2>3
    <2>5. /\ wire' \in Seq(Command) /\ \A k \in DOMAIN wire : k \in DOMAIN wire' /\ wire'[k] = wire[k]
          /\ \A k \in DOMAIN wire' : k \in DOMAIN wire \/ wire'[k].op = "expire"
          /\ req[r].n = 1 => \E k \in DOMAIN wire' : wire'[k].op = "expire"
      <3>1. CASE req[r].n = 1
        <4>1. /\ wire' \in Seq(Command) /\ DOMAIN wire' = 1..(Len(wire) + 1) /\ DOMAIN wire = 1..Len(wire) /\ Len(wire) \in Nat
              /\ wire'[Len(wire) + 1] = c /\ \A k \in DOMAIN wire : wire'[k] = wire[k]
          BY <1>1, <2>1, <2>2, <3>1
        <4>2. QED
          BY <2>2, <4>1
      <3>2. CASE req[r].n # 1
        BY <1>1, <2>1, <3>2
      <3>3. QED
        BY <3>1, <3>2
    <2>6. keyFaults' = 0 => KeyWire'
      BY <1>1, <2>1, <2>4, <2>5 DEF KeyWire
    <2>7. ExpiryUnderWay'
      BY <1>1, <2>1, <2>4, <2>5 DEF ExpiryUnderWay
    <2>8. QED
      BY <1>1, <2>1, <2>4, <2>5, <2>6, <2>7 DEF KeyInv
  <1>5. ASSUME NEW r \in Requests, incrTimesOut(r) PROVE KeyInv'
    <2>1. keyFaults' = keyFaults + 1 /\ UNCHANGED <<count, ttl>> /\ req' = [req EXCEPT ![r] = Idle]
      BY <1>5 DEF incrTimesOut, KeyFault
    <2>2. Idle \in KeyReqs
      BY <1>0 DEF Idle, KeyReqs, Counted
    <2>3. wire' \in Seq(Command)
      <3>1. /\ DOMAIN wire = 1..Len(wire) /\ Len(wire) \in Nat
            /\ wire' = [k \in 1..Len(wire) |->
              IF wire[k] = [op |-> "incr", by |-> r] THEN [wire[k] EXCEPT !.by = Nobody] ELSE wire[k]]
        BY <1>1, <1>5 DEF incrTimesOut
      <3>2. ASSUME NEW k \in 1..Len(wire) PROVE wire'[k] \in Command
        <4>1. wire[k] \in Command
          BY <1>1
        <4>2. [wire[k] EXCEPT !.by = Nobody] \in Command
          BY <4>1 DEF Command
        <4>3. QED
          BY <3>1, <4>1, <4>2
      <3>3. QED
        BY <3>1, <3>2
    <2>4. QED
      BY <1>1, <2>1, <2>2, <2>3 DEF KeyInv, ExpiryUnderWay
  <1>6. CASE KeyCrash
    <2>1. keyFaults' = keyFaults + 1 /\ UNCHANGED <<count, ttl>> /\ req' = [r \in Requests |-> Idle] /\ wire' = <<>>
      BY <1>6 DEF KeyCrash, KeyFault
    <2>2. Idle \in KeyReqs
      BY <1>0 DEF Idle, KeyReqs, Counted
    <2>3. QED
      BY <1>1, <2>1, <2>2 DEF KeyInv, ExpiryUnderWay
  <1>7. ASSUME wire # <<>>, wire' = Tail(wire)
        PROVE  /\ wire' \in Seq(Command) /\ Head(wire) = wire[1] /\ 1 \in DOMAIN wire /\ wire[1] \in Command
               /\ \A k \in DOMAIN wire' : k + 1 \in DOMAIN wire /\ wire'[k] = wire[k + 1] /\ k + 1 # 1 /\ k \in Int
               /\ \A k \in DOMAIN wire : k # 1 => k - 1 \in DOMAIN wire' /\ wire'[k - 1] = wire[k]
    BY <1>1, <1>7
  <1>8. CASE redisIncr
    <2> DEFINE n == Min({count + 1, LIMIT + 1})
               r == Head(wire).by
    <2>1. /\ wire # <<>> /\ wire' = Tail(wire) /\ Head(wire).op = "incr" /\ UNCHANGED <<ttl, keyFaults>> /\ count' = n
          /\ req' = IF r = Nobody THEN req ELSE [req EXCEPT ![r].pc = "answered", ![r].n = n]
      BY <1>8 DEF redisIncr
    <2>2. n = IF count + 1 <= LIMIT + 1 THEN count + 1 ELSE LIMIT + 1
      BY <1>0, <1>1, MinOfTwo DEF Counted
    <2>3. n \in Counted /\ n > 0 /\ (count = 0 => n = 1)
      BY <1>0, <1>1, <2>2 DEF Counted
    <2>4. r = Nobody \/ r \in Requests
      BY <2>1, <1>7 DEF Command
    <2> HIDE DEF n, r
    <2>5. /\ req' \in [Requests -> KeyReqs] /\ \A s \in Requests \ {r} : req'[s] = req[s]
          /\ r # Nobody => req'[r].pc = "answered" /\ req'[r].n = n
      <3>1. CASE r = Nobody
        BY <1>1, <2>1, <3>1
      <3>2. CASE r \in Requests
        <4> DEFINE q == [req[r] EXCEPT !.pc = "answered", !.n = n]
        <4>1. req[r] \in KeyReqs
          BY <1>1, <3>2
        <4>2. q \in KeyReqs /\ q.pc = "answered" /\ q.n = n
          BY <4>1, <2>3 DEF KeyReqs
        <4>3. req' = [req EXCEPT ![r] = q]
          BY <1>1, <2>1, <3>2, <1>0
        <4> HIDE DEF q
        <4>4. QED
          BY <1>1, <4>2, <4>3, <3>2
      <3>3. QED
        BY <2>4, <3>1, <3>2
    <2>6. keyFaults = 0 => KeyWire' /\ r \in Requests /\ req[r].pc = "waiting"
      <3> SUFFICES ASSUME keyFaults = 0 PROVE KeyWire' /\ r \in Requests /\ req[r].pc = "waiting"
        OBVIOUS
      <3>1. wire[1].op = "incr" /\ wire[1].by = r /\ 1 \in DOMAIN wire
        BY <2>1, <1>7 DEF r
      <3>2. r \in Requests /\ req[r].pc = "waiting"
        BY <1>1, <3>1 DEF KeyWire
      <3>3. ASSUME NEW k \in DOMAIN wire', wire'[k].op = "incr"
            PROVE  /\ wire'[k].by \in Requests /\ req'[wire'[k].by].pc = "waiting"
                   /\ \A l \in DOMAIN wire' : wire'[l].op = "incr" /\ wire'[l].by = wire'[k].by => l = k
        <4>1. k + 1 \in DOMAIN wire /\ wire'[k] = wire[k + 1] /\ k + 1 # 1 /\ k \in Int
          BY <2>1, <1>7
        <4>2. wire[k + 1].by \in Requests /\ req[wire[k + 1].by].pc = "waiting" /\ wire[k + 1].by # r
          BY <1>1, <3>1, <3>3, <4>1 DEF KeyWire
        <4>3. ASSUME NEW l \in DOMAIN wire', wire'[l].op = "incr", wire'[l].by = wire'[k].by PROVE l = k
          <5>1. l + 1 \in DOMAIN wire /\ wire'[l] = wire[l + 1] /\ l \in Int
            BY <2>1, <1>7
          <5>2. l + 1 = k + 1
            BY <1>1, <3>3, <4>1, <4>3, <5>1 DEF KeyWire
          <5>3. QED
            BY <4>1, <5>1, <5>2
        <4>4. QED
          BY <2>5, <4>1, <4>2, <4>3
      <3>4. QED
        BY <3>2, <3>3 DEF KeyWire
    <2>7. ExpiryUnderWay'
      <3> SUFFICES ASSUME keyFaults = 0, ttl = 0
                   PROVE  \/ \E s \in Requests : req'[s].pc = "answered" /\ req'[s].n = 1
                          \/ \E k \in DOMAIN wire' : wire'[k].op = "expire"
        BY <2>1 DEF ExpiryUnderWay
      <3>1. CASE count = 0
        BY <3>1, <2>3, <2>5, <2>6, <1>0
      <3>2. CASE count # 0
        <4>1. \/ \E s \in Requests : req[s].pc = "answered" /\ req[s].n = 1
              \/ \E k \in DOMAIN wire : wire[k].op = "expire"
          BY <1>1, <3>2 DEF ExpiryUnderWay, Counted
        <4>2. ASSUME NEW s \in Requests, req[s].pc = "answered", req[s].n = 1
              PROVE  req'[s].pc = "answered" /\ req'[s].n = 1
          BY <4>2, <2>5, <2>6
        <4>3. ASSUME NEW k \in DOMAIN wire, wire[k].op = "expire"
              PROVE  \E j \in DOMAIN wire' : wire'[j].op = "expire"
          BY <4>3, <2>1, <1>7, ZenonT(40)
        <4>4. QED
          BY <4>1, <4>2, <4>3
      <3>3. QED
        BY <3>1, <3>2
    <2>8. QED
      BY <1>1, <1>7, <2>1, <2>3, <2>5, <2>6, <2>7 DEF KeyInv
  <1>9. CASE redisExpire
    <2>1. /\ wire # <<>> /\ wire' = Tail(wire) /\ Head(wire).op = "expire" /\ UNCHANGED <<count, req, keyFaults>>
          /\ ttl' = IF count > 0 THEN WINDOW ELSE 0
      BY <1>9 DEF redisExpire
    <2>2. ttl' \in 0..WINDOW /\ ~(count > 0 /\ ttl' = 0)
      BY <1>0, <1>1, <2>1 DEF Counted
    <2>3. keyFaults' = 0 => KeyWire'
      <3> SUFFICES ASSUME keyFaults = 0, NEW k \in DOMAIN wire', wire'[k].op = "incr"
                   PROVE  /\ wire'[k].by \in Requests /\ req[wire'[k].by].pc = "waiting"
                          /\ \A l \in DOMAIN wire' : wire'[l].op = "incr" /\ wire'[l].by = wire'[k].by => l = k
        BY <2>1 DEF KeyWire
      <3>1. k + 1 \in DOMAIN wire /\ wire'[k] = wire[k + 1] /\ k \in Int
        BY <2>1, <1>7
      <3>2. wire[k + 1].by \in Requests /\ req[wire[k + 1].by].pc = "waiting"
        BY <1>1, <3>1 DEF KeyWire
      <3>3. ASSUME NEW l \in DOMAIN wire', wire'[l].op = "incr", wire'[l].by = wire'[k].by PROVE l = k
        <4>1. l + 1 \in DOMAIN wire /\ wire'[l] = wire[l + 1] /\ l \in Int
          BY <2>1, <1>7
        <4>2. l + 1 = k + 1
          BY <1>1, <3>1, <3>3, <4>1 DEF KeyWire
        <4>3. QED
          BY <3>1, <4>1, <4>2
      <3>4. QED
        BY <3>1, <3>2, <3>3
    <2>4. QED
      BY <1>1, <1>7, <2>1, <2>2, <2>3 DEF KeyInv, ExpiryUnderWay
  <1>10. CASE Tick
    <2>1. /\ req' = [r \in Requests |-> [req[r] EXCEPT !.late = req[r].pc # "idle"]]
          /\ count' = IF ttl = 1 THEN 0 ELSE count
          /\ ttl' = IF ttl > 0 THEN ttl - 1 ELSE 0
          /\ UNCHANGED <<wire, keyFaults>>
      BY <1>10 DEF Tick
    <2>2. ASSUME NEW r \in Requests PROVE req'[r] \in KeyReqs /\ req'[r].pc = req[r].pc /\ req'[r].n = req[r].n
      <3> DEFINE b == req[r].pc # "idle"
      <3>1. b \in BOOLEAN /\ req[r] \in KeyReqs
        BY <1>1
      <3>2. req'[r] = [req[r] EXCEPT !.late = b]
        BY <2>1
      <3> HIDE DEF b
      <3>3. QED
        BY <3>1, <3>2 DEF KeyReqs
    <2>3. req' \in [Requests -> KeyReqs]
      BY <2>1, <2>2
    <2>4. count' \in Counted /\ ttl' \in 0..WINDOW /\ (count' > 0 /\ ttl' = 0 => count > 0 /\ ttl = 0)
      BY <1>0, <1>1, <2>1 DEF Counted
    <2>5. keyFaults' = 0 => KeyWire'
      BY <1>1, <2>1, <2>2 DEF KeyWire
    <2>6. ASSUME keyFaults' = 0, count' > 0, ttl' = 0
          PROVE  \/ \E r \in Requests : req'[r].pc = "answered" /\ req'[r].n = 1
                 \/ \E k \in DOMAIN wire : wire[k].op = "expire"
      <3>1. \/ \E r \in Requests : req[r].pc = "answered" /\ req[r].n = 1
            \/ \E k \in DOMAIN wire : wire[k].op = "expire"
        BY <1>1, <2>1, <2>4, <2>6 DEF ExpiryUnderWay
      <3>2. QED
        BY <3>1, <2>2
    <2>7. ExpiryUnderWay'
      BY <2>1, <2>6 DEF ExpiryUnderWay
    <2>8. QED
      BY <1>1, <2>1, <2>3, <2>4, <2>5, <2>7 DEF KeyInv
  <1>11. QED
    BY <1>2, <1>3, <1>4, <1>5, <1>6, <1>8, <1>9, <1>10 DEF KeyNext

LEMMA KeyInductive == KeyInit /\ [][KeyNext]_keyVars => []KeyInv
  BY KeyStart, KeyStepInv, PTL

-----------------------------------------------------------------------------
(* API keys (RequestGate). *)

\* The countdown of a row and the one its owner was told run together, unless
\* the row was stored without its expiry.
GateRow(row) == /\ row \in [present : BOOLEAN, left : 0..Never, told : 0..GateTtl]
                /\ row.left = Never \/ row.left = row.told

\* A request that was let through was shown a row that had not expired.
GateInv ==
  /\ GateRow(gateKey)
  /\ gateCall \in [GateCalls -> [pc : {"idle", "check"}, row : [present : BOOLEAN, left : 0..Never, told : 0..GateTtl],
                                 answer : {"none", "next", "401"}]]
  /\ \A c \in GateCalls : GateRow(gateCall[c].row)
  /\ \A c \in GateCalls : gateCall[c].pc = "check" => gateCall[c].answer = "none"
  /\ GateExpiredIsRefused

LEMMA GateAge == ASSUME NEW row, GateRow(row) PROVE GateRow(age(row))
  <1> DEFINE less(n) == IF n > 0 THEN n - 1 ELSE 0
  <1>1. GateTtl \in Nat \ {0}
    BY GateAssumption
  <1>2. row.told \in 0..GateTtl /\ row.left \in 0..Never /\ row.present \in BOOLEAN
    BY DEF GateRow
  <1>3. CASE row.left = Never
    <2>1. age(row) = [row EXCEPT !.told = less(row.told)]
      BY <1>3 DEF age
    <2>2. less(row.told) \in 0..GateTtl
      BY <1>1, <1>2
    <2> HIDE DEF less
    <2>3. QED
      BY <2>1, <2>2, <1>3 DEF GateRow
  <1>4. CASE row.left # Never
    <2>1. age(row) = [row EXCEPT !.left = less(row.left), !.told = less(row.told)]
      BY <1>4 DEF age
    <2>2. less(row.told) \in 0..GateTtl /\ less(row.left) \in 0..Never /\ less(row.left) = less(row.told)
      BY <1>1, <1>2, <1>4 DEF GateRow, Never
    <2> HIDE DEF less
    <2>3. QED
      BY <2>1, <2>2, <1>4 DEF GateRow
  <1>5. QED
    BY <1>3, <1>4

LEMMA GateInductive == GateInit /\ [][GateNext]_gateVars => []GateInv
  <1> DEFINE Rows == [present : BOOLEAN, left : 0..Never, told : 0..GateTtl]
  <1> DEFINE Calls == [pc : {"idle", "check"}, row : Rows, answer : {"none", "next", "401"}]
  <1>0. GateTtl \in Nat \ {0} /\ GateRow(NoRow)
    BY GateAssumption DEF GateRow, NoRow, Never
  <1>1. GateInit => GateInv
    <2>1. NoCall \in Calls
      BY <1>0 DEF NoCall, GateRow
    <2>2. NoCall.row = NoRow /\ NoCall.answer = "none"
      BY DEF NoCall
    <2> HIDE DEF Calls
    <2>3. ASSUME GateInit PROVE gateCall = [c \in GateCalls |-> NoCall] /\ gateKey = NoRow
      BY <2>3 DEF GateInit
    <2>4. QED
      BY <1>0, <2>1, <2>2, <2>3 DEF GateInv, GateExpiredIsRefused, Calls
  <1>2. GateInv /\ [GateNext]_gateVars => GateInv'
    <2> SUFFICES ASSUME GateInv, [GateNext]_gateVars PROVE GateInv'
      OBVIOUS
    <2>1. /\ GateRow(gateKey) /\ gateCall \in [GateCalls -> Calls]
          /\ \A c \in GateCalls : GateRow(gateCall[c].row)
          /\ \A c \in GateCalls : gateCall[c].pc = "check" => gateCall[c].answer = "none"
          /\ GateExpiredIsRefused
      BY DEF GateInv
    <2>2. ASSUME UNCHANGED gateCall, GateRow(gateKey') PROVE GateInv'
      BY <2>1, <2>2 DEF GateInv, GateExpiredIsRefused, GateRow
    <2>3. CASE UNCHANGED gateVars
      BY <2>1, <2>2, <2>3 DEF gateVars
    <2>4. CASE walletLimiter \/ noWallet \/ cleanupExpiredLimits
      BY <2>1, <2>2, <2>4 DEF walletLimiter, noWallet, gateVars, cleanupExpiredLimits
    <2>5. CASE createKey
      <3>1. PICK l \in {GateTtl, Never} : gateKey' = [present |-> TRUE, left |-> l, told |-> GateTtl]
        BY <2>5 DEF createKey
      <3>2. QED
        BY <3>1, <2>2, <2>5, <1>0 DEF createKey, GateRow, Never
    <2>6. CASE revokeKey
      BY <2>6, <2>2, <1>0 DEF revokeKey
    <2>7. ASSUME NEW c \in GateCalls, NEW d \in Calls, gateCall' = [gateCall EXCEPT ![c] = d], UNCHANGED gateKey,
                 GateRow(d.row), d.pc = "check" => d.answer = "none",
                 d.answer = "next" => d.row.present /\ (d.row.told > 0 \/ d.row.left = Never)
          PROVE GateInv'
      <3> HIDE DEF Calls
      <3>1. gateCall' \in [GateCalls -> Calls]
        BY <2>1, <2>7
      <3>2. \A b \in GateCalls : gateCall'[b] = IF b = c THEN d ELSE gateCall[b]
        BY <2>1, <2>7
      <3>3. QED
        BY <2>1, <2>7, <3>1, <3>2 DEF GateInv, GateExpiredIsRefused, Calls
    <2>8. ASSUME NEW c \in GateCalls, lookupApiKey(c) PROVE GateInv'
      <3> DEFINE d == [pc |-> "check", row |-> gateKey, answer |-> "none"]
      <3>1. d \in Calls
        BY <2>1 DEF GateRow
      <3>2. GateRow(d.row)
        BY <2>1
      <3>3. gateCall' = [gateCall EXCEPT ![c] = d] /\ UNCHANGED gateKey
        BY <2>8 DEF lookupApiKey
      <3>4. d.pc = "check" /\ d.answer = "none"
        OBVIOUS
      <3> HIDE DEF d, Calls
      <3>5. QED
        BY <2>7, <3>1, <3>2, <3>3, <3>4
    <2>9. ASSUME NEW c \in GateCalls, apiKeyAuth(c) PROVE GateInv'
      <3>1. PICK a \in {"next", "401"} :
              /\ a = "next" => gateCall[c].row.present /\ ~keyExpired(gateCall[c].row)
              /\ gateCall' = [gateCall EXCEPT ![c] = [pc |-> "idle", row |-> gateCall[c].row, answer |-> a]]
        BY <2>9 DEF apiKeyAuth
      <3> DEFINE row == gateCall[c].row
                 d == [pc |-> "idle", row |-> row, answer |-> a]
      <3>2. row \in Rows /\ GateRow(row)
        BY <2>1
      <3>3. d = [pc |-> "idle", row |-> row, answer |-> a]
        OBVIOUS
      <3>4. d \in Calls
        BY <3>2, <3>3
      <3>5. a = "next" => row.present /\ (row.told > 0 \/ row.left = Never)
        BY <3>1, <3>2 DEF keyExpired, GateRow
      <3> HIDE DEF row, d
      <3>6. GateRow(d.row) /\ (d.pc = "check" => d.answer = "none") /\
            (d.answer = "next" => d.row.present /\ (d.row.told > 0 \/ d.row.left = Never))
        BY <3>2, <3>3, <3>5
      <3>7. gateCall' = [gateCall EXCEPT ![c] = d] /\ UNCHANGED gateKey
        BY <3>1, <2>9 DEF d, row, apiKeyAuth
      <3>8. QED
        BY <2>7, <3>4, <3>6, <3>7
    <2>10. CASE GateTick
      <3>1. GateRow(gateKey')
        BY <2>1, <2>10, GateAge DEF GateTick
      <3>2. ASSUME NEW c \in GateCalls
            PROVE /\ gateCall'[c] \in Calls /\ GateRow(gateCall'[c].row)
                  /\ gateCall'[c].pc = gateCall[c].pc /\ gateCall'[c].answer = gateCall[c].answer
                  /\ gateCall[c].pc # "check" => gateCall'[c] = gateCall[c]
        <4>1. gateCall'[c] = IF gateCall[c].pc = "check"
                             THEN [gateCall[c] EXCEPT !.row = age(gateCall[c].row)] ELSE gateCall[c]
          BY <2>10 DEF GateTick
        <4>2. GateRow(age(gateCall[c].row)) /\ age(gateCall[c].row) \in Rows
          BY <2>1, GateAge DEF GateRow
        <4>3. gateCall[c] \in Calls /\ GateRow(gateCall[c].row)
          BY <2>1
        <4>4. QED
          BY <4>1, <4>2, <4>3
      <3> HIDE DEF Calls
      <3>3. gateCall' \in [GateCalls -> Calls]
        BY <3>2, <2>10 DEF GateTick
      <3>4. QED
        BY <2>1, <3>1, <3>2, <3>3 DEF GateInv, GateExpiredIsRefused, Calls
    <2>11. QED
      BY <2>3, <2>4, <2>5, <2>6, <2>8, <2>9, <2>10 DEF GateNext
  <1>3. QED
    BY <1>1, <1>2, PTL

-----------------------------------------------------------------------------
(* The maintainer page (MaintainerDesk). *)

\* What a load under way is, and, once it has read, that it read the contract as
\* it still is.
MgLoad(l) == /\ DOMAIN l = {"by", "org", "read", "lists"}
             /\ l.org = mgOrg /\ (l.read => l.lists = chainLists(mgOrg))

\* As long as no two loads overlapped, none failed and the route stayed: at most
\* one load runs, the page shows it, and without one the lists are the contract's.
MgQuiet == mgCalm /\ ~mgMoved /\ mgOrg \in MgOrgs
MgInv ==
  MgQuiet => /\ \A l \in mgLoads : MgLoad(l)
             /\ \A l, m \in mgLoads : l = m
             /\ mgLoads # {} => mgLoading
             /\ \A c \in mgCalls : c.org = mgOrg
             /\ mgChecked /\ mgLoads = {} => mgLists = chainLists(mgOrg)

LEMMA MgInductive == MgInit /\ [][MgNext]_mgVars => []MgInv
  <1>1. MgInit => MgInv
    BY DEF MgInit, MgInv
  <1>2. MgInv /\ [MgNext]_mgVars => MgInv'
    <2> SUFFICES ASSUME MgInv, [MgNext]_mgVars, MgQuiet' PROVE MgInv'
      BY DEF MgInv
    <2>1. ASSUME UNCHANGED <<mgChain, mgOrg>> PROVE chainLists(mgOrg)' = chainLists(mgOrg)
      BY <2>1 DEF chainLists
    <2>2. ASSUME UNCHANGED <<mgChain, mgOrg, mgMoved, mgCalm, mgLoads, mgLoading, mgChecked, mgLists>>,
                 \A c \in mgCalls' : c.org = mgOrg
          PROVE  MgInv'
      BY <2>1, <2>2 DEF MgInv, MgQuiet, MgLoad
    <2>3. CASE UNCHANGED mgVars
      BY <2>1, <2>3 DEF MgInv, MgQuiet, MgLoad, mgVars
    <2>4. ASSUME NEW org \in MgOrgs, setRoute(org) PROVE FALSE
      BY <2>4 DEF setRoute, MgQuiet
    <2>5. CASE MgQuiet
      <3>1. /\ \A l \in mgLoads : MgLoad(l)
            /\ \A l, m \in mgLoads : l = m
            /\ mgLoads # {} => mgLoading
            /\ \A c \in mgCalls : c.org = mgOrg
            /\ mgChecked /\ mgLoads = {} => mgLists = chainLists(mgOrg)
        BY <2>5 DEF MgInv
      <3>2. CASE openRevoke \/ closeRevoke
        BY <3>1, <3>2, <2>2 DEF openRevoke, closeRevoke
      <3>3. ASSUME NEW by, AddLoad(by, mgOrg), UNCHANGED mgOrg, \A c \in mgCalls' : c.org = mgOrg PROVE MgInv'
        <4>1. mgLoads = {}
          BY <3>3 DEF AddLoad, MgQuiet
        <4>2. mgLoads' = {newLoad(by, mgOrg)} /\ mgLoading' = TRUE
          BY <3>3, <4>1 DEF AddLoad
        <4>3. MgLoad(newLoad(by, mgOrg))'
          <5> DEFINE q == [by |-> by, org |-> mgOrg, read |-> FALSE, lists |-> NoLists]
          <5>1. newLoad(by, mgOrg) = q
            BY DEF newLoad
          <5>2. DOMAIN q = {"by", "org", "read", "lists"} /\ q.org = mgOrg /\ ~q.read
            OBVIOUS
          <5> HIDE DEF q
          <5>3. QED
            BY <3>3, <4>2, <5>1, <5>2 DEF MgLoad
        <4>4. QED
          BY <3>3, <4>2, <4>3 DEF MgInv
      <3>4. ASSUME NEW org \in MgOrgs, NEW answered \in BOOLEAN, verify(org, answered) PROVE MgInv'
        <4>1. CASE verdict(org, answered) = "checked"
          <5>1. mgChecked' = TRUE /\ UNCHANGED <<mgOrg, mgCalls, mgChain, mgLists, mgMoved>>
            BY <3>4, <4>1 DEF verify
          <5>2. CASE mgChecked
            <6>1. UNCHANGED <<mgLoads, mgLoading, mgCalm>>
              BY <3>4, <4>1, <5>2 DEF verify
            <6>2. QED
              BY <3>1, <5>1, <5>2, <6>1, <2>1 DEF MgInv, MgQuiet, MgLoad
          <5>3. CASE ~mgChecked
            BY <3>1, <3>3, <3>4, <4>1, <5>1, <5>3 DEF verify
          <5>4. QED
            BY <5>2, <5>3
        <4>2. CASE verdict(org, answered) # "checked"
          BY <3>4, <4>2 DEF verify, MgQuiet, MgOrgs, MgForbidden
        <4>3. QED
          BY <4>1, <4>2
      <3>5. ASSUME NEW l \in mgLoads, loadReads(l) PROVE MgInv'
        <4>0. PICK q : q = [l EXCEPT !.read = TRUE, !.lists = chainLists(l.org)]
          OBVIOUS
        <4>1. mgLoads = {l} /\ DOMAIN l = {"by", "org", "read", "lists"} /\ l.org = mgOrg
          BY <3>1 DEF MgLoad
        <4>2. DOMAIN q = {"by", "org", "read", "lists"} /\ q.org = mgOrg /\ q.lists = chainLists(mgOrg)
          BY <4>0, <4>1
        <4>3. /\ mgLoads' = (mgLoads \ {l}) \cup {q}
              /\ UNCHANGED <<mgChain, mgOrg, mgChecked, mgLists, mgLoading, mgCalls, mgCalm, mgMoved>>
          BY <3>5, <4>0, Zenon DEF loadReads
        <4>4. MgLoad(q)'
          BY <4>2, <4>3, <2>1 DEF MgLoad
        <4>5. QED
          BY <3>1, <4>1, <4>3, <4>4 DEF MgInv
      <3>6. ASSUME NEW l \in mgLoads, NEW ok \in BOOLEAN, loadEnds(l, ok) PROVE MgInv'
        <4>1. ok /\ l.read /\ mgLoads = {l}
          BY <3>1, <3>6 DEF loadEnds, MgQuiet
        <4>2. /\ mgLoads' = {} /\ mgLists' = l.lists /\ UNCHANGED <<mgChain, mgOrg, mgChecked, mgMoved>>
              /\ \A c \in mgCalls' : c \in mgCalls
          BY <3>6, <4>1 DEF loadEnds
        <4>3. l.lists = chainLists(mgOrg)
          BY <3>1, <4>1 DEF MgLoad
        <4>4. QED
          BY <3>1, <4>2, <4>3, <2>1 DEF MgInv
      <3>7. ASSUME NEW i \in MgIssues, NEW op, NEW n, handleCall(i, op, n) PROVE MgInv'
        <4> DEFINE c == [n |-> n, issue |-> i, op |-> op, org |-> mgOrg, phase |-> "call"]
        <4>1. c.org = mgOrg
          OBVIOUS
        <4> HIDE DEF c
        <4>2. mgCalls' = mgCalls \cup {c}
          BY <3>7 DEF handleCall, c
        <4>3. QED
          BY <3>1, <3>7, <4>1, <4>2, <2>2 DEF handleCall
      <3>8. ASSUME NEW c \in mgCalls, callAnswered(c) PROVE MgInv'
        <4>1. CASE afterCall(c)
          <5>1. c.org = mgOrg /\ UNCHANGED mgOrg /\ AddLoad(c.n, mgOrg)
            BY <3>1, <3>8, <4>1 DEF callAnswered, afterCall
          <5>2. [c EXCEPT !.phase = "load"].org = mgOrg
            BY <5>1
          <5>3. \A d \in mgCalls' : d.org = mgOrg
            BY <3>1, <4>1, <5>2 DEF afterCall
          <5>4. QED
            BY <5>1, <5>3, <3>3
        <4>2. CASE mgCalls' = mgCalls \ {c} /\ UNCHANGED <<mgChain, mgLoads, mgLoading, mgCalm>>
          BY <3>1, <3>8, <4>2, <2>2 DEF callAnswered
        <4>3. QED
          BY <3>8, <4>1, <4>2 DEF callAnswered
      <3>9. QED
        BY <2>3, <2>4, <3>2, <3>4, <3>5, <3>6, <3>7, <3>8 DEF MgNext, MgProgress
    <2>6. CASE ~MgQuiet
      \* Nothing brings calm, the first route or a page that was left back.
      <3>1. ASSUME NEW org \in MgOrgs, NEW answered \in BOOLEAN, verify(org, answered) PROVE ~MgQuiet'
        BY <2>6, <3>1 DEF verify, AddLoad, MgQuiet, MgOrgs, MgForbidden
      <3>2. ASSUME NEW c \in mgCalls, callAnswered(c) PROVE ~MgQuiet'
        BY <2>6, <3>2 DEF callAnswered, afterCall, AddLoad, MgQuiet
      <3>3. ASSUME NEW l \in mgLoads, NEW ok \in BOOLEAN, loadReads(l) \/ loadEnds(l, ok) PROVE ~MgQuiet'
        BY <2>6, <3>3 DEF loadReads, loadEnds, MgQuiet
      <3>4. ASSUME NEW i, NEW op, NEW n, handleCall(i, op, n) PROVE ~MgQuiet'
        BY <2>6, <3>4 DEF handleCall, MgQuiet
      <3>5. CASE openRevoke \/ closeRevoke
        BY <2>6, <3>5 DEF openRevoke, closeRevoke, MgQuiet
      <3>6. QED
        BY <2>3, <2>4, <3>1, <3>2, <3>3, <3>4, <3>5 DEF MgNext, MgProgress
    <2>7. QED
      BY <2>5, <2>6
  <1>3. QED
    BY <1>1, <1>2, PTL

LEMMA MgResult == MgInv => MgReread
  BY DEF MgInv, MgReread, MgQuiet, pageShown

-----------------------------------------------------------------------------
(* The onboarding wizard (Notices). *)

\* A wizard shown although it was completed was asked for with the button.
ObInv == /\ obDone \in BOOLEAN /\ obVisible \in BOOLEAN
         /\ obVisible /\ obDone => obButton

\* The step of every action of the wizard.
ObStepOK == /\ (obDone /\ obVisible') => obButton
            /\ (~obDone /\ obDone') => obStep >= 1

LEMMA ObInductive == ObInit /\ [][ObNext]_obVars => ObShownOnce
  <1>1. ObInit => ObInv
    BY DEF ObInit, ObInv
  <1>2. ObInv /\ [ObNext]_obVars => ObInv' /\ [ObStepOK]_obVars
    <2> SUFFICES ASSUME ObInv, [ObNext]_obVars PROVE ObInv' /\ [ObStepOK]_obVars
      OBVIOUS
    <2>1. CASE UNCHANGED obVars
      BY <2>1 DEF ObInv, obVars
    <2>2. ASSUME NEW p \in BOOLEAN, dismiss(p), p => obStep >= 1 PROVE ObInv' /\ ObStepOK
      <3>1. obVisible' = FALSE /\ obDone' = (obDone \/ p) /\ obStep' = obStep
        BY <2>2 DEF dismiss, dismissed
      <3>2. obDone' \in BOOLEAN /\ (obDone' <=> obDone \/ p)
        BY <3>1, Zenon
      <3>3. QED
        BY <3>1, <3>2, <2>2, Zenon DEF ObInv, ObStepOK
    <2>3. CASE nextStep
      <3>1. CASE isLast
        <4>1. dismiss(TRUE)
          BY <3>1, <2>3 DEF nextStep
        <4>2. obStep >= 1
          BY <3>1, ObAssumption DEF isLast
        <4>3. QED
          BY <4>1, <4>2, <2>2, Zenon
      <3>2. CASE ~isLast
        BY <3>2, <2>3 DEF nextStep, ObInv, ObStepOK
      <3>3. QED
        BY <3>1, <3>2
    <2>4. CASE prevStep \/ exitTimer \/ enterTimer
      BY <2>4 DEF prevStep, exitTimer, enterTimer, ObInv, ObStepOK
    <2>5. CASE closeWizard
      BY <2>5, <2>2 DEF closeWizard
    <2>6. CASE skip
      BY <2>6, <2>2 DEF skip
    <2>7. CASE replay
      BY <2>7 DEF replay, obPageLoad, ObInv, ObStepOK
    <2>8. CASE visitAgain
      BY <2>8 DEF visitAgain, obPageLoad, ObInv, ObStepOK
    <2>9. QED
      BY <2>1, <2>3, <2>4, <2>5, <2>6, <2>7, <2>8 DEF ObNext
  <1>3. QED
    BY <1>1, <1>2, PTL DEF ObShownOnce, ObStepOK

-----------------------------------------------------------------------------
(* The Redis window (ApiKeyLimiter). *)

\* Requests of S that Redis has answered within the limit and that are still to be
\* admitted.
Vouched(S) == {r \in S : req[r].pc = "answered" /\ withinLimit(req[r].n)}

\* pre[k] counts the admissions of the last k slots.
KeySums(pre) ==
  /\ recent \in [1..WINDOW -> Nat] /\ pre \in [0..WINDOW -> Nat] /\ pre[0] = 0
  /\ \A k \in 1..WINDOW : pre[k] = pre[k - 1] + recent[k]

\* The key was created s slots ago, x of its admissions were made in that slot;
\* old are the requests answered by its predecessor.  The admissions of either
\* key, those to come included, stay within the limit, and a key that is about
\* to expire was created almost a window ago.
KeyEpochs(pre, s, x, old) ==
  /\ KeySums(pre)
  /\ s \in 1..(WINDOW + 1) /\ x \in Nat
  /\ old \in SUBSET Requests /\ (\A r \in old : req[r].late) /\ (s # 1 => old = {})
  /\ count = 0 => /\ ttl = 0
                  /\ \A r \in Requests : req[r].pc = "answered" => req[r].late
                  /\ pre[WINDOW] + Cardinality(Vouched(Requests)) <= LIMIT
  /\ count > 0 => /\ pre[s - 1] + x + Cardinality(Vouched(Requests \ old)) <= count
                  /\ pre[s - 1] + x + Cardinality(Vouched(Requests \ old)) <= LIMIT
                  /\ pre[WINDOW] - pre[s - 1] - x + Cardinality(Vouched(old)) <= LIMIT
                  /\ ttl > 0 => s >= WINDOW - ttl + 1

KeyBurst == /\ KeyInv
            /\ \E pre, s, x, old : KeyEpochs(pre, s, x, old)

LEMMA VouchedFinite ==
  ASSUME NEW S \in SUBSET Requests
  PROVE  IsFiniteSet(Vouched(S)) /\ Cardinality(Vouched(S)) \in Nat
  <1>1. Vouched(S) \in SUBSET Requests
    BY DEF Vouched
  <1>2. IsFiniteSet(Requests)
    BY LimiterAssumption
  <1>3. QED
    BY <1>1, <1>2, FS_Subset, FS_CardinalityType

LEMMA VouchedFiniteNext ==
  ASSUME NEW S \in SUBSET Requests
  PROVE  IsFiniteSet(Vouched(S)') /\ Cardinality(Vouched(S)') \in Nat
  <1>1. Vouched(S)' \in SUBSET Requests
    BY DEF Vouched
  <1>2. IsFiniteSet(Requests)
    BY LimiterAssumption
  <1>3. QED
    BY <1>1, <1>2, FS_Subset, FS_CardinalityType

\* Fewer requests are vouched for.
LEMMA VouchedShrinks ==
  ASSUME NEW S \in SUBSET Requests, NEW T \in SUBSET Requests,
         Vouched(T)' \subseteq Vouched(S)
  PROVE  Cardinality(Vouched(T)') <= Cardinality(Vouched(S))
  BY VouchedFinite, FS_Subset

\* One request is no longer vouched for.
LEMMA VouchedLoses ==
  ASSUME NEW S \in SUBSET Requests, NEW T \in SUBSET Requests, NEW r \in Vouched(S),
         Vouched(T)' \subseteq Vouched(S) \ {r}
  PROVE  Cardinality(Vouched(T)') + 1 <= Cardinality(Vouched(S))
  <1> DEFINE V == Vouched(S)
  <1>1. IsFiniteSet(V) /\ Cardinality(V) \in Nat
    BY VouchedFinite
  <1>2. IsFiniteSet(V \ {r}) /\ Cardinality(V \ {r}) = Cardinality(V) - 1
    BY <1>1, FS_RemoveElement
  <1>3. Cardinality(Vouched(T)') <= Cardinality(V \ {r}) /\ Cardinality(Vouched(T)') \in Nat
    BY <1>2, FS_Subset, VouchedFiniteNext
  <1> HIDE DEF V
  <1>4. QED
    BY <1>1, <1>2, <1>3 DEF V

\* At most one more request is vouched for.
LEMMA VouchedGains ==
  ASSUME NEW S \in SUBSET Requests, NEW T \in SUBSET Requests, NEW r,
         Vouched(T)' \subseteq Vouched(S) \cup {r}
  PROVE  Cardinality(Vouched(T)') <= Cardinality(Vouched(S)) + 1
  <1> DEFINE V == Vouched(S)
  <1>1. IsFiniteSet(V) /\ Cardinality(V) \in Nat
    BY VouchedFinite
  <1>2. IsFiniteSet(V \cup {r}) /\ Cardinality(V \cup {r}) <= Cardinality(V) + 1
    <2> HIDE DEF V
    <2>1. IsFiniteSet(V \cup {r}) /\ Cardinality(V \cup {r}) = IF r \in V THEN Cardinality(V) ELSE Cardinality(V) + 1
      BY <1>1, FS_AddElement
    <2>2. QED
      BY <1>1, <2>1
  <1>3. Cardinality(Vouched(T)') <= Cardinality(V \cup {r}) /\ Cardinality(Vouched(T)') \in Nat
    BY <1>2, FS_Subset, VouchedFiniteNext
  <1>4. Cardinality(V \cup {r}) \in Nat
    BY <1>2, FS_CardinalityType
  <1> HIDE DEF V
  <1>5. QED
    BY <1>1, <1>2, <1>3, <1>4 DEF V

\* Steps that neither admit a request, nor move the clock or the counter.
LEMMA KeyQuiet ==
  ASSUME KeyInv, KeyInv', NEW pre, NEW s, NEW x, NEW old, KeyEpochs(pre, s, x, old),
         UNCHANGED <<count, recent>>, ttl' = ttl \/ (count > 0 /\ ttl' = WINDOW),
         NEW gone \in SUBSET Requests,
         \A r \in Requests \ gone : (req'[r] = req[r] \/ req'[r].pc # "answered") /\ (req[r].late => req'[r].late),
         \A r \in gone : req'[r].pc # "answered"
  PROVE  KeyEpochs(pre, s, x, old \ gone)'
  <1> DEFINE o == old \ gone
  <1>1. Vouched(Requests)' \subseteq Vouched(Requests) /\ Vouched(o)' \subseteq Vouched(old)
        /\ Vouched(Requests \ o)' \subseteq Vouched(Requests \ old)
    BY DEF Vouched, KeyEpochs
  <1>2. o \in SUBSET Requests /\ old \in SUBSET Requests /\ Requests \ o \in SUBSET Requests /\ Requests \ old \in SUBSET Requests
    BY DEF KeyEpochs
  <1>3. /\ Cardinality(Vouched(Requests)') <= Cardinality(Vouched(Requests))
        /\ Cardinality(Vouched(o)') <= Cardinality(Vouched(old))
        /\ Cardinality(Vouched(Requests \ o)') <= Cardinality(Vouched(Requests \ old))
    BY <1>1, <1>2, VouchedShrinks
  <1>4. /\ Cardinality(Vouched(Requests)') \in Nat /\ Cardinality(Vouched(Requests)) \in Nat
        /\ Cardinality(Vouched(o)') \in Nat /\ Cardinality(Vouched(old)) \in Nat
        /\ Cardinality(Vouched(Requests \ o)') \in Nat /\ Cardinality(Vouched(Requests \ old)) \in Nat
    BY <1>2, VouchedFinite, VouchedFiniteNext
  <1>5. WINDOW \in Nat \ {0} /\ LIMIT \in Nat /\ count \in Nat /\ ttl \in 0..WINDOW /\ count' = count
    BY LimiterAssumption DEF KeyInv, Counted
  <1>6. \A r \in o : req'[r].late
    BY DEF KeyEpochs
  <1>7. s # 1 => o = {}
    BY DEF KeyEpochs
  <1>8. KeySums(pre)' /\ s \in 1..(WINDOW + 1) /\ x \in Nat /\ KeySums(pre)
    BY DEF KeyEpochs, KeySums
  <1>9. pre[WINDOW] \in Nat /\ pre[s - 1] \in Nat
    <2>1. WINDOW \in 0..WINDOW /\ s - 1 \in 0..WINDOW
      BY <1>5, <1>8
    <2>2. QED
      BY <1>8, <2>1 DEF KeySums
  <1> HIDE DEF o
  <1>10. ASSUME count = 0
         PROVE  /\ ttl' = 0
                /\ \A r \in Requests : req'[r].pc = "answered" => req'[r].late
                /\ pre[WINDOW] + Cardinality(Vouched(Requests)') <= LIMIT
    <2>1. ttl = 0 /\ ttl' = ttl
      BY <1>5, <1>10 DEF KeyEpochs
    <2>2. \A r \in Requests : req[r].pc = "answered" => req[r].late
      BY <1>10 DEF KeyEpochs
    <2>3. pre[WINDOW] + Cardinality(Vouched(Requests)) <= LIMIT
      BY <1>10 DEF KeyEpochs
    <2>4. \A r \in Requests : req'[r].pc = "answered" => req'[r].late
      BY <2>2
    <2>5. QED
      BY <2>1, <2>3, <2>4, <1>3, <1>4, <1>5, <1>9
  <1>11. ASSUME count > 0
         PROVE  /\ pre[s - 1] + x + Cardinality(Vouched(Requests \ o)') <= count
                /\ pre[s - 1] + x + Cardinality(Vouched(Requests \ o)') <= LIMIT
                /\ pre[WINDOW] - pre[s - 1] - x + Cardinality(Vouched(o)') <= LIMIT
                /\ ttl' > 0 => s >= WINDOW - ttl' + 1
    <2>2. /\ pre[s - 1] + x + Cardinality(Vouched(Requests \ old)) <= count
          /\ pre[s - 1] + x + Cardinality(Vouched(Requests \ old)) <= LIMIT
          /\ pre[WINDOW] - pre[s - 1] - x + Cardinality(Vouched(old)) <= LIMIT
          /\ ttl > 0 => s >= WINDOW - ttl + 1
      BY <1>11 DEF KeyEpochs
    <2>3. ttl' = ttl \/ ttl' = WINDOW
      BY <1>11, <1>5
    <2>4. ttl' > 0 => s >= WINDOW - ttl' + 1
      BY <2>2, <2>3, <1>5, <1>8
    <2>5. QED
      BY <2>2, <2>4, <1>3, <1>4, <1>5, <1>8, <1>9
  <1>12. QED
    BY <1>2, <1>5, <1>6, <1>7, <1>8, <1>10, <1>11 DEF KeyEpochs, o

\* An answer within the limit is admitted: the request is counted in the first slot
\* instead of among those to come.
LEMMA KeyAdmits ==
  ASSUME KeyInv, KeyInv', NEW pre, NEW s, NEW x, NEW old, KeyEpochs(pre, s, x, old),
         NEW r \in Requests, checkRedisLimit(r), withinLimit(req[r].n)
  PROVE  KeyBurst'
  <1> DEFINE q == [k \in 0..WINDOW |-> IF k = 0 THEN 0 ELSE pre[k] + 1]
             o == old \ {r}
             y == IF s = 1 /\ r \notin old THEN x + 1 ELSE x
  <1>1. /\ req[r].pc = "answered" /\ req' = [req EXCEPT ![r] = Idle] /\ UNCHANGED <<count, ttl>>
        /\ recent' = [recent EXCEPT ![1] = @ + 1]
    BY DEF checkRedisLimit
  <1>2. WINDOW \in Nat \ {0} /\ LIMIT \in Nat /\ count \in Nat /\ req \in [Requests -> KeyReqs] /\ ttl \in 0..WINDOW
    BY LimiterAssumption DEF KeyInv, Counted
  <1>3. KeySums(pre) /\ s \in 1..(WINDOW + 1) /\ x \in Nat /\ old \in SUBSET Requests /\ (s # 1 => old = {})
        /\ \A t \in old : req[t].late
    BY DEF KeyEpochs
  <1>4. Idle.pc = "idle"
    BY DEF Idle
  <1>5. req'[r].pc = "idle" /\ \A t \in Requests \ {r} : req'[t] = req[t]
    BY <1>1, <1>2, <1>4
  <1>6. KeySums(q)'
    <2>1. recent \in [1..WINDOW -> Nat] /\ pre \in [0..WINDOW -> Nat] /\ pre[0] = 0
          /\ \A k \in 1..WINDOW : pre[k] = pre[k - 1] + recent[k]
      BY <1>3 DEF KeySums
    <2>2. recent' \in [1..WINDOW -> Nat] /\ recent'[1] = recent[1] + 1 /\ \A k \in 2..WINDOW : recent'[k] = recent[k]
      BY <1>1, <1>2, <2>1
    <2>3. q \in [0..WINDOW -> Nat] /\ q[0] = 0
      BY <1>2, <2>1
    <2>4. \A k \in 1..WINDOW : q[k] = q[k - 1] + recent'[k]
      <3> SUFFICES ASSUME NEW k \in 1..WINDOW PROVE q[k] = q[k - 1] + recent'[k]
        OBVIOUS
      <3>1. CASE k = 1
        BY <1>2, <2>1, <2>2, <3>1
      <3>2. CASE k # 1
        <4>1. k \in 2..WINDOW /\ k - 1 \in 0..WINDOW /\ k - 1 # 0 /\ k \in 0..WINDOW /\ k # 0
          BY <1>2, <3>2
        <4>2. q[k] = pre[k] + 1 /\ q[k - 1] = pre[k - 1] + 1 /\ recent'[k] = recent[k]
          BY <2>2, <4>1
        <4>3. pre[k] = pre[k - 1] + recent[k] /\ pre[k - 1] \in Nat /\ recent[k] \in Nat
          BY <2>1, <4>1
        <4> HIDE DEF q
        <4>4. QED
          BY <4>2, <4>3
      <3>3. QED
        BY <3>1, <3>2
    <2>5. QED
      BY <2>2, <2>3, <2>4 DEF KeySums
  <1>7. pre[WINDOW] \in Nat /\ pre[s - 1] \in Nat /\ q[WINDOW] = pre[WINDOW] + 1
        /\ q[s - 1] = (IF s = 1 THEN 0 ELSE pre[s - 1] + 1) /\ (s = 1 => pre[s - 1] = 0)
    <2>1. WINDOW \in 0..WINDOW /\ s - 1 \in 0..WINDOW /\ (s - 1 = 0 <=> s = 1)
      BY <1>2, <1>3
    <2>2. QED
      BY <1>2, <1>3, <2>1 DEF KeySums
  <1>8. o \in SUBSET Requests /\ Requests \ o \in SUBSET Requests /\ Requests \ old \in SUBSET Requests
    BY <1>3
  <1> DEFINE all == Cardinality(Vouched(Requests))
             new == Cardinality(Vouched(Requests \ old))
             prev == Cardinality(Vouched(old))
             all1 == Cardinality(Vouched(Requests)')
             new1 == Cardinality(Vouched(Requests \ o)')
             prev1 == Cardinality(Vouched(o)')
  <1>9. all \in Nat /\ new \in Nat /\ prev \in Nat /\ all1 \in Nat /\ new1 \in Nat /\ prev1 \in Nat
    BY <1>3, <1>8, VouchedFinite, VouchedFiniteNext
  <1>10. all1 + 1 <= all
    <2>1. r \in Vouched(Requests) /\ Vouched(Requests)' \subseteq Vouched(Requests) \ {r}
      BY <1>1, <1>5 DEF Vouched
    <2>2. QED
      BY <2>1, VouchedLoses
  <1>11. ASSUME r \in old PROVE prev1 + 1 <= prev /\ new1 <= new
    <2>1. r \in Vouched(old) /\ Vouched(o)' \subseteq Vouched(old) \ {r} /\ Vouched(Requests \ o)' \subseteq Vouched(Requests \ old)
      BY <1>1, <1>3, <1>5, <1>11 DEF Vouched
    <2>2. QED
      BY <1>3, <1>8, <2>1, VouchedLoses, VouchedShrinks
  <1>12. ASSUME r \notin old PROVE prev1 <= prev /\ new1 + 1 <= new
    <2>1. r \in Vouched(Requests \ old) /\ Vouched(Requests \ o)' \subseteq Vouched(Requests \ old) \ {r} /\ Vouched(o)' \subseteq Vouched(old)
      BY <1>1, <1>3, <1>5, <1>12 DEF Vouched
    <2>2. QED
      BY <1>3, <1>8, <2>1, VouchedLoses, VouchedShrinks
  <1>13. /\ count = 0 => pre[WINDOW] + all <= LIMIT
         /\ count > 0 => /\ pre[s - 1] + x + new <= count
                         /\ pre[s - 1] + x + new <= LIMIT
                         /\ pre[WINDOW] - pre[s - 1] - x + prev <= LIMIT
                         /\ ttl > 0 => s >= WINDOW - ttl + 1
         /\ count = 0 => ttl = 0 /\ \A t \in Requests : req[t].pc = "answered" => req[t].late
    BY DEF KeyEpochs
  <1>14. y \in Nat
    BY <1>3
  <1> HIDE DEF all, new, prev, all1, new1, prev1, q
  <1>15. count = 0 => q[WINDOW] + all1 <= LIMIT
    BY <1>2, <1>7, <1>9, <1>10, <1>13
  <1>16. ASSUME count > 0 PROVE /\ q[s - 1] + y + new1 <= count
                                /\ q[s - 1] + y + new1 <= LIMIT
                                /\ q[WINDOW] - q[s - 1] - y + prev1 <= LIMIT
    <2>1. CASE r \in old
      <3>1. s = 1 /\ y = x /\ q[s - 1] = 0 /\ pre[s - 1] = 0 /\ prev1 + 1 <= prev /\ new1 <= new
        BY <1>3, <1>7, <1>11, <2>1
      <3> HIDE DEF y
      <3>2. QED
        BY <1>2, <1>3, <1>7, <1>9, <1>13, <1>16, <3>1
    <2>2. CASE r \notin old /\ s = 1
      <3>1. y = x + 1 /\ q[s - 1] = 0 /\ pre[s - 1] = 0 /\ prev1 <= prev /\ new1 + 1 <= new
        BY <1>7, <1>12, <2>2
      <3> HIDE DEF y
      <3>2. QED
        BY <1>2, <1>3, <1>7, <1>9, <1>13, <1>16, <3>1
    <2>3. CASE r \notin old /\ s # 1
      <3>1. y = x /\ q[s - 1] = pre[s - 1] + 1 /\ prev1 <= prev /\ new1 + 1 <= new
        BY <1>7, <1>12, <2>3
      <3> HIDE DEF y
      <3>2. QED
        BY <1>2, <1>3, <1>7, <1>9, <1>13, <1>16, <3>1
    <2>4. QED
      BY <2>1, <2>2, <2>3
  <1>17. (\A t \in o : req'[t].late) /\ (s # 1 => o = {}) /\ (count = 0 => \A t \in Requests : req'[t].pc = "answered" => req'[t].late)
    BY <1>3, <1>5, <1>13
  <1> HIDE DEF y, o
  <1>18. KeyEpochs(q, s, y, o)'
    BY <1>1, <1>3, <1>6, <1>8, <1>13, <1>14, <1>15, <1>16, <1>17 DEF KeyEpochs, all1, new1, prev1
  <1>19. QED
    BY <1>18 DEF KeyBurst

\* INCR: the first answer of a key begins a new epoch, with every request that is
\* still to be admitted in the old one; any other one is counted among those to come.
LEMMA KeyIncrs ==
  ASSUME KeyInv, KeyInv', NEW pre, NEW s, NEW x, NEW old, KeyEpochs(pre, s, x, old), redisIncr
  PROVE  KeyBurst'
  <1>0. PICK r, n : r = Head(wire).by /\ n = Min({count + 1, LIMIT + 1})
    OBVIOUS
  <1>1. /\ wire # <<>> /\ UNCHANGED <<ttl, recent>> /\ count' = n
        /\ req' = IF r = Nobody THEN req ELSE [req EXCEPT ![r].pc = "answered", ![r].n = n]
    BY <1>0 DEF redisIncr
  <1>2. /\ WINDOW \in Nat \ {0} /\ LIMIT \in Nat \ {0} /\ count \in 0..(LIMIT + 1) /\ req \in [Requests -> KeyReqs]
        /\ ttl \in 0..WINDOW /\ wire \in Seq(Command) /\ Nobody \notin Requests
    BY LimiterAssumption DEF KeyInv, Counted
  <1>3. n = IF count + 1 <= LIMIT + 1 THEN count + 1 ELSE LIMIT + 1
    BY <1>0, <1>2, MinOfTwo
  <1>4. r = Nobody \/ r \in Requests
    <2>1. Head(wire) \in Command
      BY <1>1, <1>2
    <2>2. QED
      BY <1>0, <2>1 DEF Command
  <1>5. KeySums(pre) /\ s \in 1..(WINDOW + 1) /\ x \in Nat /\ old \in SUBSET Requests /\ (s # 1 => old = {})
        /\ \A t \in old : req[t].late
    BY DEF KeyEpochs
  <1>6. pre[WINDOW] \in Nat /\ pre[s - 1] \in Nat /\ pre[0] = 0 /\ KeySums(pre)'
    <2>1. WINDOW \in 0..WINDOW /\ s - 1 \in 0..WINDOW
      BY <1>2, <1>5
    <2>2. QED
      BY <1>1, <1>5, <2>1 DEF KeySums
  <1>7. /\ \A t \in Requests : t # r => req'[t] = req[t]
        /\ \A t \in Requests : req'[t].late = req[t].late
        /\ r \in Requests => req'[r].pc = "answered" /\ req'[r].n = n
    <2>1. CASE r = Nobody
      BY <1>1, <1>2, <2>1
    <2>2. CASE r \in Requests
      BY <1>1, <1>2, <2>2 DEF KeyReqs
    <2>3. QED
      BY <1>4, <2>1, <2>2
  <1>8. CASE count = 0
    <2>0. PICK o : o = {t \in Requests : req[t].late} \ {r}
      OBVIOUS
    <2>1. n = 1 /\ pre[WINDOW] + Cardinality(Vouched(Requests)) <= LIMIT
          /\ \A t \in Requests : req[t].pc = "answered" => req[t].late
      BY <1>2, <1>3, <1>8 DEF KeyEpochs
    <2>2. Vouched(Requests \ o)' \subseteq {} \cup {r}
      BY <1>7, <2>0, <2>1 DEF Vouched
    <2>3. Cardinality(Vouched(Requests \ o)') <= 1
      <3>1. Cardinality(Vouched({})) = 0 /\ {} \in SUBSET Requests /\ Requests \ o \in SUBSET Requests /\ Vouched({}) = {}
        BY FS_EmptySet DEF Vouched
      <3>2. Cardinality(Vouched(Requests \ o)') <= Cardinality(Vouched({})) + 1
        BY <2>2, <3>1, VouchedGains
      <3>3. QED
        BY <3>1, <3>2
    <2>4. Vouched(o)' \subseteq Vouched(Requests) /\ o \in SUBSET Requests /\ Requests \ o \in SUBSET Requests
      BY <1>7, <2>0 DEF Vouched
    <2>5. Cardinality(Vouched(o)') <= Cardinality(Vouched(Requests))
      BY <2>4, VouchedShrinks
    <2>6. Cardinality(Vouched(o)') \in Nat /\ Cardinality(Vouched(Requests)) \in Nat /\ Cardinality(Vouched(Requests \ o)') \in Nat
      BY <2>4, VouchedFinite, VouchedFiniteNext
    <2>7. \A t \in o : req'[t].late
      BY <1>7, <2>0
    <2>9. ttl' = 0
      BY <1>1, <1>8 DEF KeyEpochs
    <2>10. pre[1 - 1] + 0 + Cardinality(Vouched(Requests \ o)') <= 1
           /\ pre[WINDOW] - pre[1 - 1] - 0 + Cardinality(Vouched(o)') <= LIMIT
      BY <1>2, <1>6, <2>1, <2>3, <2>5, <2>6
    <2>11. KeyEpochs(pre, 1, 0, o)'
      <3>1. count' = 1 /\ KeySums(pre)' /\ 1 \in 1..(WINDOW + 1) /\ 0 \in Nat
        BY <1>1, <1>2, <1>6, <2>1
      <3>2. pre[1 - 1] + 0 + Cardinality(Vouched(Requests \ o)') <= LIMIT
        BY <1>2, <1>6, <2>3, <2>6
      <3>3. QED
        BY <2>4, <2>7, <2>9, <2>10, <3>1, <3>2 DEF KeyEpochs
    <2>12. QED
      BY <2>11 DEF KeyBurst
  <1>9. CASE count > 0
    <2> DEFINE o == old \ {r}
               new == Cardinality(Vouched(Requests \ old))
               prev == Cardinality(Vouched(old))
               new1 == Cardinality(Vouched(Requests \ o)')
               prev1 == Cardinality(Vouched(o)')
    <2>1. /\ pre[s - 1] + x + new <= count
          /\ pre[s - 1] + x + new <= LIMIT
          /\ pre[WINDOW] - pre[s - 1] - x + prev <= LIMIT
          /\ ttl > 0 => s >= WINDOW - ttl + 1
      BY <1>9 DEF KeyEpochs
    <2>2. o \in SUBSET Requests /\ Requests \ o \in SUBSET Requests /\ Requests \ old \in SUBSET Requests /\ (s # 1 => o = {})
          /\ \A t \in o : req'[t].late
      BY <1>5, <1>7
    <2>3. new \in Nat /\ prev \in Nat /\ new1 \in Nat /\ prev1 \in Nat
      BY <1>5, <2>2, VouchedFinite, VouchedFiniteNext
    <2>4. prev1 <= prev
      <3>1. Vouched(o)' \subseteq Vouched(old)
        BY <1>5, <1>7 DEF Vouched
      <3>2. QED
        BY <1>5, <2>2, <3>1, VouchedShrinks
    <2>5. new1 <= new + 1
      <3>1. Vouched(Requests \ o)' \subseteq Vouched(Requests \ old) \cup {r}
        BY <1>5, <1>7 DEF Vouched
      <3>2. QED
        BY <2>2, <3>1, VouchedGains
    <2>6. n > LIMIT => new1 <= new
      <3>1. ASSUME n > LIMIT PROVE Vouched(Requests \ o)' \subseteq Vouched(Requests \ old)
        <4>1. r \in Requests => ~withinLimit(req'[r].n)
          BY <1>2, <1>3, <1>7, <3>1 DEF withinLimit
        <4>2. QED
          BY <1>5, <1>7, <4>1 DEF Vouched
      <3>2. QED
        BY <2>2, <3>1, VouchedShrinks
    <2> HIDE DEF new, prev, new1, prev1, o
    <2>7. n > 0 /\ n >= count /\ (n <= LIMIT => n = count + 1) /\ n \in Nat
      BY <1>2, <1>3
    <2>0. count \in Int /\ LIMIT \in Int /\ x \in Int /\ pre[WINDOW] \in Int /\ pre[s - 1] \in Int
      BY <1>2, <1>5, <1>6
    <2>8. /\ pre[s - 1] + x + new1 <= n
          /\ pre[s - 1] + x + new1 <= LIMIT
          /\ pre[WINDOW] - pre[s - 1] - x + prev1 <= LIMIT
      <3>1. CASE n > LIMIT
        BY <2>0, <2>1, <2>3, <2>4, <2>6, <2>7, <3>1
      <3>2. CASE n <= LIMIT
        BY <2>0, <2>1, <2>3, <2>4, <2>5, <2>7, <3>2
      <3>3. QED
        BY <1>2, <2>7, <3>1, <3>2
    <2>9. KeyEpochs(pre, s, x, o)'
      <3>1. count' = n /\ ttl' = ttl /\ count' # 0
        BY <1>1, <2>7
      <3>2. s \in 1..(WINDOW + 1) /\ x \in Nat /\ KeySums(pre)'
        BY <1>5, <1>6
      <3>3. ttl' > 0 => s >= WINDOW - ttl' + 1
        BY <2>1, <3>1
      <3>4. QED
        BY <2>2, <2>8, <3>1, <3>2, <3>3 DEF KeyEpochs, new1, prev1
    <2>10. QED
      BY <2>9 DEF KeyBurst
  <1>10. QED
    BY <1>2, <1>8, <1>9

\* The clock: no request is late, so all admissions to come are of the present key,
\* the slots move on by one, and a key that expires takes only slots of its own along.
LEMMA KeyTicks ==
  ASSUME KeyInv, KeyInv', NEW pre, NEW s, NEW x, NEW old, KeyEpochs(pre, s, x, old), Tick
  PROVE  KeyBurst'
  <1> DEFINE q == [k \in 0..WINDOW |-> IF k = 0 THEN 0 ELSE pre[k - 1]]
             u == IF s <= WINDOW THEN s + 1 ELSE s
             new == Cardinality(Vouched(Requests))
             new1 == Cardinality(Vouched(Requests)')
  <1>1. /\ req' = [r \in Requests |-> [req[r] EXCEPT !.late = req[r].pc # "idle"]]
        /\ count' = IF ttl = 1 THEN 0 ELSE count
        /\ ttl' = IF ttl > 0 THEN ttl - 1 ELSE 0
        /\ recent' = [k \in 1..WINDOW |-> IF k = 1 THEN 0 ELSE recent[k - 1]]
        /\ \A r \in Requests : ~req[r].late
    BY DEF Tick
  <1>2. WINDOW \in Nat \ {0} /\ LIMIT \in Nat \ {0} /\ count \in Nat /\ ttl \in 0..WINDOW
    BY LimiterAssumption DEF KeyInv, Counted
  <1>3. KeySums(pre) /\ s \in 1..(WINDOW + 1) /\ x \in Nat /\ old = {}
    BY <1>1 DEF KeyEpochs
  <1>4. recent \in [1..WINDOW -> Nat] /\ pre \in [0..WINDOW -> Nat] /\ pre[0] = 0
        /\ \A k \in 1..WINDOW : pre[k] = pre[k - 1] + recent[k]
    BY <1>3 DEF KeySums
  <1>5. KeySums(q)'
    <2>1. recent' \in [1..WINDOW -> Nat] /\ recent'[1] = 0 /\ \A k \in 2..WINDOW : recent'[k] = recent[k - 1]
      <3>1. \A k \in 1..WINDOW : k # 1 => k - 1 \in 1..WINDOW
        BY <1>2
      <3>2. QED
        BY <1>1, <1>2, <1>4, <3>1
    <2>2. q \in [0..WINDOW -> Nat] /\ q[0] = 0
      <3>1. \A k \in 0..WINDOW : k # 0 => k - 1 \in 0..WINDOW
        BY <1>2
      <3>2. QED
        BY <1>2, <1>4, <3>1
    <2>3. \A k \in 1..WINDOW : q[k] = q[k - 1] + recent'[k]
      <3> SUFFICES ASSUME NEW k \in 1..WINDOW PROVE q[k] = q[k - 1] + recent'[k]
        OBVIOUS
      <3>1. CASE k = 1
        BY <1>2, <1>4, <2>1, <3>1
      <3>2. CASE k # 1
        <4>1. k \in 2..WINDOW /\ k - 1 \in 0..WINDOW /\ k - 1 # 0 /\ k \in 0..WINDOW /\ k # 0 /\ k - 1 \in 1..WINDOW
          BY <1>2, <3>2
        <4>2. q[k] = pre[k - 1] /\ q[k - 1] = pre[k - 1 - 1] /\ recent'[k] = recent[k - 1]
          BY <2>1, <4>1
        <4>3. pre[k - 1] = pre[k - 1 - 1] + recent[k - 1]
          BY <1>4, <4>1
        <4>4. QED
          BY <4>2, <4>3
      <3>3. QED
        BY <3>1, <3>2
    <2>4. QED
      BY <2>1, <2>2, <2>3 DEF KeySums
  <1>6. pre[WINDOW] \in Nat /\ pre[s - 1] \in Nat /\ pre[WINDOW - 1] \in Nat /\ pre[WINDOW - 1] <= pre[WINDOW]
        /\ q[WINDOW] = pre[WINDOW - 1]
    <2>1. WINDOW \in 0..WINDOW /\ s - 1 \in 0..WINDOW /\ WINDOW - 1 \in 0..WINDOW /\ WINDOW \in 1..WINDOW
      BY <1>2, <1>3
    <2>2. pre[WINDOW] = pre[WINDOW - 1] + recent[WINDOW] /\ recent[WINDOW] \in Nat /\ pre[WINDOW - 1] \in Nat
      BY <1>4, <2>1
    <2>3. q[WINDOW] = pre[WINDOW - 1]
      BY <1>2, <2>1
    <2> HIDE DEF q
    <2>4. pre[WINDOW] \in Nat /\ pre[s - 1] \in Nat
      BY <1>4, <2>1
    <2>5. QED
      BY <2>2, <2>3, <2>4
  <1>7. s <= WINDOW => q[s] = pre[s - 1]
    BY <1>2, <1>3
  <1>8. s > WINDOW => s - 1 = WINDOW
    BY <1>2, <1>3
  <1>9. new \in Nat /\ new1 \in Nat /\ new1 <= new
    <2>1. Vouched(Requests)' \subseteq Vouched(Requests)
      <3>1. \A r \in Requests : req'[r].pc = req[r].pc /\ req'[r].n = req[r].n
        BY <1>1 DEF KeyInv, KeyReqs
      <3>2. QED
        BY <3>1 DEF Vouched
    <2>2. QED
      BY <2>1, VouchedShrinks, VouchedFinite, VouchedFiniteNext
  <1>10. /\ count = 0 => ttl = 0 /\ pre[WINDOW] + new <= LIMIT
         /\ count > 0 => /\ pre[s - 1] + x + new <= count
                         /\ pre[s - 1] + x + new <= LIMIT
                         /\ ttl > 0 => s >= WINDOW - ttl + 1
                         /\ pre[WINDOW] - pre[s - 1] - x <= LIMIT
    <2>1. Requests \ old = Requests
      BY <1>3
    <2>2. Cardinality(Vouched(old)) = 0
      BY <1>3, FS_EmptySet DEF Vouched
    <2>3. /\ count = 0 => ttl = 0 /\ pre[WINDOW] + new <= LIMIT
          /\ count > 0 => /\ pre[s - 1] + x + new <= count
                          /\ pre[s - 1] + x + new <= LIMIT
                          /\ ttl > 0 => s >= WINDOW - ttl + 1
                          /\ pre[WINDOW] - pre[s - 1] - x + 0 <= LIMIT
      BY <2>1, <2>2 DEF KeyEpochs
    <2> HIDE DEF new
    <2>4. QED
      BY <1>2, <1>3, <1>6, <2>3
  <1>11. \A r \in Requests : req'[r].pc = "answered" => req'[r].late
    BY <1>1 DEF KeyInv, KeyReqs
  <1>12. Cardinality(Vouched({})') = 0 /\ Requests \ {} = Requests
    BY FS_EmptySet DEF Vouched
  <1> HIDE DEF new, new1, q
  <1>13. CASE ttl = 1 \/ count = 0
    <2>1. count' = 0 /\ ttl' = 0
      BY <1>1, <1>2, <1>10, <1>13
    <2>2. q[WINDOW] + new1 <= LIMIT
      <3>1. CASE count = 0
        BY <1>2, <1>6, <1>9, <1>10, <3>1
      <3>2. CASE count # 0
        <4>1. ttl = 1 /\ count > 0 /\ s >= WINDOW
          BY <1>2, <1>3, <1>10, <1>13, <3>2
        <4>2. s - 1 = WINDOW \/ s - 1 = WINDOW - 1
          BY <1>2, <1>3, <4>1
        <4>3. pre[s - 1] >= pre[WINDOW - 1]
          BY <1>6, <4>2
        <4>4. QED
          BY <1>2, <1>3, <1>6, <1>9, <1>10, <4>1, <4>3
      <3>3. QED
        BY <3>1, <3>2
    <2>3. 1 \in 1..(WINDOW + 1) /\ 0 \in Nat /\ {} \in SUBSET Requests
      BY <1>2
    <2>4. KeyEpochs(q, 1, 0, {})'
      BY <1>5, <1>11, <2>1, <2>2, <2>3 DEF KeyEpochs, new1
    <2>5. QED
      BY <2>4 DEF KeyBurst
  <1>14. CASE ~(ttl = 1 \/ count = 0)
    <2>1. count' = count /\ count > 0 /\ ttl # 1
      BY <1>1, <1>2, <1>14
    <2>2. u \in 1..(WINDOW + 1) /\ (ttl' > 0 => u >= WINDOW - ttl' + 1)
      <3>1. ttl' \in 0..WINDOW /\ (ttl' > 0 => ttl > 0 /\ ttl = ttl' + 1)
        BY <1>1, <1>2
      <3>2. ttl > 0 => s >= WINDOW - ttl + 1
        BY <1>10, <2>1
      <3>3. u \in 1..(WINDOW + 1)
        BY <1>2, <1>3
      <3>4. ASSUME ttl' > 0 PROVE u >= WINDOW - ttl' + 1
        <4>1. PICK n, m : n = ttl' /\ m = ttl
          OBVIOUS
        <4>2. n \in Int /\ n > 0 /\ m = n + 1 /\ WINDOW \in Int /\ s \in Int
          BY <1>2, <1>3, <3>1, <3>4, <4>1
        <4>6. s >= WINDOW - n
          <5>1. s >= WINDOW - m + 1
            BY <3>1, <3>2, <3>4, <4>1
          <5>2. QED
            BY <4>2, <5>1
        <4>7. WINDOW - ttl' + 1 = WINDOW - n + 1
          BY <4>1
        <4>3. CASE s <= WINDOW
          <5>1. u = s + 1
            BY <4>3
          <5> HIDE DEF u
          <5>2. u >= WINDOW - n + 1
            BY <4>2, <4>6, <5>1
          <5>3. QED
            BY <4>7, <5>2
        <4>4. CASE ~(s <= WINDOW)
          <5>1. u = s /\ s > WINDOW
            BY <4>2, <4>4
          <5> HIDE DEF u
          <5>2. u >= WINDOW - n + 1
            BY <4>2, <5>1
          <5>3. QED
            BY <4>7, <5>2
        <4>5. QED
          BY <4>3, <4>4
      <3>5. QED
        BY <3>3, <3>4
    <2>3. q[u - 1] \in Nat /\ q[u - 1] <= pre[s - 1] /\ q[WINDOW] - q[u - 1] - x <= LIMIT
      <3>1. CASE s <= WINDOW
        <4>1. u - 1 = s /\ q[u - 1] = pre[s - 1]
          BY <1>3, <1>7, <3>1
        <4> HIDE DEF u
        <4>2. QED
          BY <1>2, <1>3, <1>6, <1>10, <2>1, <4>1
      <3>2. CASE s > WINDOW
        <4>1. u - 1 = WINDOW /\ s - 1 = WINDOW
          BY <1>2, <1>3, <1>8, <3>2
        <4>2. q[u - 1] = pre[WINDOW - 1] /\ pre[s - 1] = pre[WINDOW]
          BY <1>6, <4>1
        <4> HIDE DEF u
        <4>3. QED
          BY <1>2, <1>3, <1>6, <4>1, <4>2
      <3>3. QED
        BY <1>2, <1>3, <3>1, <3>2
    <2> HIDE DEF u
    <2>4. q[u - 1] + x + new1 <= count /\ q[u - 1] + x + new1 <= LIMIT
      BY <1>2, <1>3, <1>6, <1>9, <1>10, <2>1, <2>3
    <2>5. q[WINDOW] - q[u - 1] - x + 0 <= LIMIT
      BY <1>3, <1>6, <2>3
    <2>6. KeyEpochs(q, u, x, {})'
      BY <1>3, <1>5, <1>12, <2>1, <2>2, <2>4, <2>5 DEF KeyEpochs, new1
    <2>7. QED
      BY <2>6 DEF KeyBurst
  <1>15. QED
    BY <1>13, <1>14

LEMMA KeyBurstInductive == KeyInit /\ [][KeyNext]_keyVars => []KeyBurst
  <1>1. KeyInit => KeyBurst
    <2> SUFFICES ASSUME KeyInit PROVE KeyBurst
      OBVIOUS
    <2>1. KeyInv
      BY KeyStart
    <2> DEFINE q == [k \in 0..WINDOW |-> 0]
    <2>2. KeySums(q) /\ q[WINDOW] = 0
      BY LimiterAssumption DEF KeyInit, KeySums
    <2>3. Vouched(Requests) = {} /\ \A r \in Requests : req[r].pc # "answered"
      BY DEF KeyInit, Vouched, Idle
    <2>4. Cardinality(Vouched(Requests)) = 0
      BY <2>3, FS_EmptySet
    <2>5. count = 0 /\ ttl = 0 /\ 1 \in 1..(WINDOW + 1) /\ 0 \in Nat /\ LIMIT >= 0
      BY LimiterAssumption DEF KeyInit
    <2>6. KeyEpochs(q, 1, 0, {})
      <3> HIDE DEF q
      <3>1. q[WINDOW] + Cardinality(Vouched(Requests)) <= LIMIT
        BY <2>2, <2>4, <2>5
      <3>2. QED
        BY <2>2, <2>3, <2>5, <3>1 DEF KeyEpochs
    <2>7. QED
      BY <2>1, <2>6 DEF KeyBurst
  <1>2. KeyBurst /\ [KeyNext]_keyVars => KeyBurst'
    <2> SUFFICES ASSUME KeyBurst, [KeyNext]_keyVars PROVE KeyBurst'
      OBVIOUS
    <2>1. KeyInv /\ KeyInv'
      BY KeyStepInv DEF KeyBurst
    <2>2. PICK pre, s, x, old : KeyEpochs(pre, s, x, old)
      BY DEF KeyBurst
    <2>3. req \in [Requests -> KeyReqs] /\ count \in Nat /\ Idle.pc = "idle" /\ Waiting.pc = "waiting"
      BY <2>1, LimiterAssumption DEF KeyInv, Counted, Idle, Waiting
    <2>4. ASSUME NEW gone \in SUBSET Requests, UNCHANGED <<count, recent>>,
                 ttl' = ttl \/ (count > 0 /\ ttl' = WINDOW),
                 \A r \in Requests \ gone : (req'[r] = req[r] \/ req'[r].pc # "answered") /\ (req[r].late => req'[r].late),
                 \A r \in gone : req'[r].pc # "answered"
          PROVE  KeyBurst'
      BY <2>1, <2>2, <2>4, KeyQuiet DEF KeyBurst
    <2>5. CASE UNCHANGED keyVars
      <3>1. UNCHANGED <<count, recent>> /\ ttl' = ttl /\ req' = req
        BY <2>5 DEF keyVars
      <3>2. {} \in SUBSET Requests
        OBVIOUS
      <3>3. QED
        BY <2>4, <3>1, <3>2
    <2>6. ASSUME NEW r \in Requests, sendIncr(r) PROVE KeyBurst'
      <3>1. UNCHANGED <<count, recent>> /\ ttl' = ttl /\ req' = [req EXCEPT ![r] = Waiting] /\ {r} \in SUBSET Requests
        BY <2>6 DEF sendIncr
      <3>2. req'[r].pc = "waiting" /\ \A t \in Requests \ {r} : req'[t] = req[t]
        BY <2>3, <3>1
      <3>3. QED
        BY <2>4, <3>1, <3>2
    <2>7. ASSUME NEW r \in Requests, checkRedisLimit(r) PROVE KeyBurst'
      <3>1. CASE withinLimit(req[r].n)
        BY <2>1, <2>2, <2>7, <3>1, KeyAdmits
      <3>2. CASE ~withinLimit(req[r].n)
        <4>1. UNCHANGED <<count, recent>> /\ ttl' = ttl /\ req' = [req EXCEPT ![r] = Idle] /\ {r} \in SUBSET Requests
          BY <2>7, <3>2 DEF checkRedisLimit
        <4>2. req'[r].pc = "idle" /\ \A t \in Requests \ {r} : req'[t] = req[t]
          BY <2>3, <4>1
        <4>3. QED
          BY <2>4, <4>1, <4>2
      <3>3. QED
        BY <3>1, <3>2
    <2>8. ASSUME NEW r \in Requests, incrTimesOut(r) PROVE KeyBurst'
      <3>1. UNCHANGED <<count, recent>> /\ ttl' = ttl /\ req' = [req EXCEPT ![r] = Idle] /\ {r} \in SUBSET Requests
        BY <2>8 DEF incrTimesOut
      <3>2. req'[r].pc = "idle" /\ \A t \in Requests \ {r} : req'[t] = req[t]
        BY <2>3, <3>1
      <3>3. QED
        BY <2>4, <3>1, <3>2
    <2>9. CASE KeyCrash
      <3>1. UNCHANGED <<count, recent>> /\ ttl' = ttl /\ req' = [r \in Requests |-> Idle] /\ Requests \in SUBSET Requests
        BY <2>9 DEF KeyCrash
      <3>2. \A t \in Requests : req'[t].pc = "idle"
        BY <2>3, <3>1
      <3>3. QED
        BY <2>4, <3>1, <3>2
    <2>10. CASE redisIncr
      BY <2>1, <2>2, <2>10, KeyIncrs
    <2>11. CASE redisExpire
      <3>1. UNCHANGED <<count, recent, req>> /\ ttl' = (IF count > 0 THEN WINDOW ELSE 0) /\ {} \in SUBSET Requests
        BY <2>11 DEF redisExpire
      <3>2. count = 0 => ttl = 0
        BY <2>2 DEF KeyEpochs
      <3>3. ttl' = ttl \/ (count > 0 /\ ttl' = WINDOW)
        BY <2>3, <3>1, <3>2
      <3>4. QED
        BY <2>4, <3>1, <3>3
    <2>12. CASE Tick
      BY <2>1, <2>2, <2>12, KeyTicks
    <2>13. QED
      BY <2>5, <2>6, <2>7, <2>8, <2>9, <2>10, <2>11, <2>12 DEF KeyNext
  <1>3. QED
    BY <1>1, <1>2, PTL

LEMMA KeyBurstResult == KeyBurst => BurstBounded
  <1> SUFFICES ASSUME KeyBurst PROVE BurstBounded
    OBVIOUS
  <1>1. PICK pre, s, x, old : KeyEpochs(pre, s, x, old)
    BY DEF KeyBurst
  <1>2. WINDOW \in Nat /\ LIMIT \in Nat /\ count \in Nat
    BY LimiterAssumption DEF KeyBurst, KeyInv, Counted
  <1>3. KeySums(pre) /\ s \in 1..(WINDOW + 1) /\ x \in Nat /\ old \in SUBSET Requests
    BY <1>1 DEF KeyEpochs
  <1>4. pre[WINDOW] \in Nat /\ pre[s - 1] \in Nat
    <2>1. WINDOW \in 0..WINDOW /\ s - 1 \in 0..WINDOW
      BY <1>2, <1>3
    <2>2. QED
      BY <1>3, <2>1 DEF KeySums
  <1>5. Cardinality(Vouched(Requests)) \in Nat /\ Cardinality(Vouched(old)) \in Nat /\ Cardinality(Vouched(Requests \ old)) \in Nat
    BY <1>3, VouchedFinite
  <1>6. /\ count = 0 => pre[WINDOW] + Cardinality(Vouched(Requests)) <= LIMIT
        /\ count > 0 => /\ pre[s - 1] + x + Cardinality(Vouched(Requests \ old)) <= LIMIT
                        /\ pre[WINDOW] - pre[s - 1] - x + Cardinality(Vouched(old)) <= LIMIT
    BY <1>1 DEF KeyEpochs
  <1>7. pre[WINDOW] <= 2 * LIMIT
    BY <1>2, <1>3, <1>4, <1>5, <1>6
  <1>8. SumFunctionOnSet(recent, 1..WINDOW) = pre[WINDOW]
    <2>1. (\A k \in 1..WINDOW : recent[k] \in Int) /\ pre[0] = 0 /\ \A k \in 1..WINDOW : pre[k] = pre[k - 1] + recent[k]
      BY <1>3 DEF KeySums
    <2>2. QED
      BY <1>2, <2>1, SumInterval
  <1>9. DOMAIN recent = 1..WINDOW
    BY <1>3 DEF KeySums
  <1>10. Admitted = pre[WINDOW]
    BY <1>8, <1>9 DEF Admitted, SumFunction
  <1>11. QED
    BY <1>7, <1>10 DEF BurstBounded

-----------------------------------------------------------------------------
(* The wallet's window (RequestGate). *)

GateEntries == [present : BOOLEAN, count : 0..GateWalletLimit, left : -1..GateWindow]

\* pre[k] counts the admissions of an age below k.
GateSums(pre) ==
  /\ gateLog \in [0..GateWindow -> Nat] /\ pre \in [0..(GateWindow + 1) -> Nat] /\ pre[0] = 0
  /\ \A k \in 0..GateWindow : pre[k + 1] = pre[k] + gateLog[k]

\* The open window began a ticks ago, x of its admissions were made in that tick:
\* its own and those before it each stay within the limit.  After a window only
\* its own admissions are young enough to count.
GateEpochs(pre, a, x) ==
  /\ GateSums(pre) /\ a \in 0..GateWindow /\ x \in Nat
  /\ windowOver(gateEntry) => pre[GateWindow + 1] <= GateWalletLimit
  /\ ~windowOver(gateEntry) => /\ a = GateWindow - gateEntry.left
                               /\ pre[a] + x <= gateEntry.count
                               /\ pre[GateWindow + 1] - pre[a] - x <= GateWalletLimit

GateBurst == /\ gateEntry \in GateEntries
             /\ \E pre, a, x : GateEpochs(pre, a, x)

\* A window with room for one more admission.
GateRoom(pre, a, x, n) ==
  /\ GateSums(pre) /\ a \in 0..GateWindow /\ x \in Nat
  /\ n \in Nat /\ n < GateWalletLimit
  /\ pre[a] + x <= n /\ pre[GateWindow + 1] - pre[a] - x <= GateWalletLimit

LEMMA GateAdmits ==
  ASSUME NEW pre, NEW a, NEW x, NEW n, GateRoom(pre, a, x, n),
         gateLog' = [gateLog EXCEPT ![0] = @ + 1],
         gateEntry' = [present |-> TRUE, count |-> n + 1, left |-> GateWindow - a]
  PROVE  GateBurst'
  <1> DEFINE q == [k \in 0..(GateWindow + 1) |-> IF k = 0 THEN 0 ELSE pre[k] + 1]
             y == IF a = 0 THEN x + 1 ELSE x
  <1>1. GateWindow \in Nat \ {0} /\ GateWalletLimit \in Nat \ {0}
    BY GateAssumption
  <1>2. gateLog \in [0..GateWindow -> Nat] /\ pre \in [0..(GateWindow + 1) -> Nat] /\ pre[0] = 0
        /\ \A k \in 0..GateWindow : pre[k + 1] = pre[k] + gateLog[k]
    BY DEF GateSums, GateRoom
  <1>0. /\ a \in 0..GateWindow /\ x \in Nat /\ n \in Nat /\ n < GateWalletLimit
        /\ pre[a] + x <= n /\ pre[GateWindow + 1] - pre[a] - x <= GateWalletLimit
    BY DEF GateRoom
  <1>3. gateLog' \in [0..GateWindow -> Nat] /\ gateLog'[0] = gateLog[0] + 1 /\ \A k \in 1..GateWindow : gateLog'[k] = gateLog[k]
    BY <1>1, <1>2
  <1>4. q \in [0..(GateWindow + 1) -> Nat] /\ q[0] = 0 /\ \A k \in 1..(GateWindow + 1) : q[k] = pre[k] + 1
    <2>1. pre \in [0..(GateWindow + 1) -> Nat]
      BY <1>2
    <2>2. \A k \in 0..(GateWindow + 1) : (IF k = 0 THEN 0 ELSE pre[k] + 1) \in Nat
      BY <2>1
    <2>3. q \in [0..(GateWindow + 1) -> Nat]
      BY <2>2
    <2>4. 0 \in 0..(GateWindow + 1) /\ \A k \in 1..(GateWindow + 1) : k \in 0..(GateWindow + 1) /\ k # 0
      BY <1>1
    <2>5. QED
      BY <2>3, <2>4
  <1> HIDE DEF q
  <1>5. \A k \in 0..GateWindow : q[k + 1] = q[k] + gateLog'[k]
    <2> SUFFICES ASSUME NEW k \in 0..GateWindow PROVE q[k + 1] = q[k] + gateLog'[k]
      OBVIOUS
    <2>0. k + 1 \in 1..(GateWindow + 1) /\ k \in 0..(GateWindow + 1)
      BY <1>1
    <2>1. pre[k + 1] = pre[k] + gateLog[k] /\ pre[k] \in Nat /\ gateLog[k] \in Nat
      BY <1>2, <2>0
    <2>2. q[k + 1] = pre[k + 1] + 1
      BY <1>4, <2>0
    <2>3. CASE k = 0
      BY <1>2, <1>3, <1>4, <2>1, <2>2, <2>3
    <2>4. CASE k # 0
      <3>1. k \in 1..GateWindow /\ k \in 1..(GateWindow + 1)
        BY <1>1, <2>4
      <3>2. q[k] = pre[k] + 1 /\ gateLog'[k] = gateLog[k]
        BY <1>3, <1>4, <3>1
      <3>3. QED
        BY <2>1, <2>2, <3>2
    <2>5. QED
      BY <2>3, <2>4
  <1>6. GateSums(q)'
    BY <1>3, <1>4, <1>5 DEF GateSums
  <1>7. pre[a] \in Nat /\ pre[GateWindow + 1] \in Nat /\ q[GateWindow + 1] = pre[GateWindow + 1] + 1
        /\ (a = 0 => pre[a] = 0 /\ q[a] = 0) /\ (a # 0 => q[a] = pre[a] + 1)
    <2>1. GateWindow + 1 \in 0..(GateWindow + 1) /\ GateWindow + 1 \in 1..(GateWindow + 1) /\ a \in 0..(GateWindow + 1)
          /\ (a # 0 => a \in 1..(GateWindow + 1))
      BY <1>0, <1>1
    <2>2. QED
      BY <1>2, <1>4, <2>1
  <1>8. y \in Nat /\ q[a] + y <= n + 1 /\ q[GateWindow + 1] - q[a] - y <= GateWalletLimit
    <2>1. CASE a = 0
      <3>1. y = x + 1 /\ pre[a] = 0 /\ q[a] = 0
        BY <1>7, <2>1
      <3> HIDE DEF y
      <3>2. QED
        BY <1>0, <1>1, <1>7, <3>1
    <2>2. CASE a # 0
      <3>1. y = x /\ q[a] = pre[a] + 1
        BY <1>7, <2>2
      <3> HIDE DEF y
      <3>2. QED
        BY <1>0, <1>1, <1>7, <3>1
    <2>3. QED
      BY <2>1, <2>2
  <1> HIDE DEF y
  <1>9. GateWindow - a \in 0..GateWindow /\ GateWindow - a \in -1..GateWindow /\ ~(GateWindow - a < 0)
        /\ a = GateWindow - (GateWindow - a) /\ n + 1 \in 0..GateWalletLimit
    BY <1>0, <1>1
  <1>10. gateEntry' \in GateEntries /\ ~windowOver(gateEntry)'
    BY <1>9 DEF GateEntries, windowOver
  <1>11. gateEntry'.left = GateWindow - a /\ gateEntry'.count = n + 1
    OBVIOUS
  <1>12. GateEpochs(q, a, y)'
    BY <1>0, <1>6, <1>8, <1>9, <1>10, <1>11 DEF GateEpochs
  <1>13. QED
    BY <1>10, <1>12 DEF GateBurst

\* The clock: admissions age by one.
LEMMA GateTicks ==
  ASSUME gateEntry \in GateEntries, NEW pre, NEW a, NEW x, GateEpochs(pre, a, x), GateTick
  PROVE  GateBurst'
  <1> DEFINE q == [k \in 0..(GateWindow + 1) |-> IF k = 0 THEN 0 ELSE pre[k - 1]]
  <1>1. GateWindow \in Nat \ {0} /\ GateWalletLimit \in Nat \ {0}
    BY GateAssumption
  <1>2. GateSums(pre) /\ a \in 0..GateWindow /\ x \in Nat
    BY DEF GateEpochs
  <1>3. gateLog \in [0..GateWindow -> Nat] /\ pre \in [0..(GateWindow + 1) -> Nat] /\ pre[0] = 0
        /\ \A k \in 0..GateWindow : pre[k + 1] = pre[k] + gateLog[k]
    BY <1>2 DEF GateSums
  <1>4. /\ gateEntry' = [gateEntry EXCEPT !.left = IF gateEntry.present /\ @ >= 0 THEN @ - 1 ELSE @]
        /\ gateLog' = [k \in 0..GateWindow |-> IF k = 0 THEN 0 ELSE gateLog[k - 1]]
    BY DEF GateTick
  <1>5. gateLog' \in [0..GateWindow -> Nat] /\ gateLog'[0] = 0 /\ \A k \in 1..GateWindow : gateLog'[k] = gateLog[k - 1]
    BY <1>1, <1>3, <1>4
  <1>6. q \in [0..(GateWindow + 1) -> Nat] /\ q[0] = 0 /\ \A k \in 1..(GateWindow + 1) : q[k] = pre[k - 1]
    BY <1>1, <1>3, SMTT(30)
  <1> HIDE DEF q
  <1>7. \A k \in 0..GateWindow : q[k + 1] = q[k] + gateLog'[k]
    <2> SUFFICES ASSUME NEW k \in 0..GateWindow PROVE q[k + 1] = q[k] + gateLog'[k]
      OBVIOUS
    <2>1. k + 1 \in 1..(GateWindow + 1) /\ k + 1 - 1 = k
      BY <1>1
    <2>2. q[k + 1] = pre[k]
      BY <1>6, <2>1
    <2>3. CASE k = 0
      BY <1>3, <1>5, <1>6, <2>2, <2>3
    <2>4. CASE k # 0
      <3>1. k \in 1..GateWindow /\ k \in 1..(GateWindow + 1) /\ k - 1 \in 0..GateWindow /\ k - 1 + 1 = k
        BY <1>1, <2>4
      <3>2. q[k] = pre[k - 1] /\ gateLog'[k] = gateLog[k - 1] /\ pre[k] = pre[k - 1] + gateLog[k - 1]
        BY <1>3, <1>5, <1>6, <3>1
      <3>3. QED
        BY <2>2, <3>2
    <2>5. QED
      BY <2>3, <2>4
  <1>8. GateSums(q)'
    BY <1>5, <1>6, <1>7 DEF GateSums
  <1>9. /\ pre[GateWindow] \in Nat /\ pre[GateWindow + 1] \in Nat /\ pre[GateWindow] <= pre[GateWindow + 1] /\ pre[a] \in Nat
        /\ q[GateWindow + 1] = pre[GateWindow] /\ q[a + 1] = pre[a]
    <2>1. GateWindow \in 0..GateWindow /\ GateWindow \in 0..(GateWindow + 1) /\ a \in 0..(GateWindow + 1)
          /\ a + 1 \in 1..(GateWindow + 1) /\ a + 1 - 1 = a /\ GateWindow + 1 \in 1..(GateWindow + 1)
          /\ GateWindow + 1 - 1 = GateWindow
      BY <1>1, <1>2
    <2>2. pre[GateWindow + 1] = pre[GateWindow] + gateLog[GateWindow] /\ gateLog[GateWindow] \in Nat /\ pre[GateWindow] \in Nat
      BY <1>3, <2>1
    <2>3. q[GateWindow + 1] = pre[GateWindow] /\ q[a + 1] = pre[a] /\ pre[a] \in Nat
      <3>1. q[GateWindow + 1] = pre[GateWindow + 1 - 1] /\ q[a + 1] = pre[a + 1 - 1]
        BY <1>6, <2>1
      <3>2. pre[a] \in Nat
        BY <1>3, <2>1
      <3>3. QED
        BY <2>1, <3>1, <3>2
    <2>4. QED
      BY <2>2, <2>3
  <1>10. /\ gateEntry.left \in -1..GateWindow /\ gateEntry.count \in 0..GateWalletLimit /\ gateEntry.present \in BOOLEAN
    BY DEF GateEntries
  <1>11. /\ gateEntry' \in GateEntries
         /\ gateEntry'.present = gateEntry.present /\ gateEntry'.count = gateEntry.count
         /\ gateEntry'.left = IF gateEntry.present /\ gateEntry.left >= 0 THEN gateEntry.left - 1 ELSE gateEntry.left
    <2>1. (IF gateEntry.present /\ gateEntry.left >= 0 THEN gateEntry.left - 1 ELSE gateEntry.left) \in -1..GateWindow
      BY <1>1, <1>10
    <2>2. QED
      BY <1>4, <2>1 DEF GateEntries
  <1>12. CASE windowOver(gateEntry)
    <2>1. windowOver(gateEntry)'
      BY <1>10, <1>11, <1>12 DEF windowOver
    <2>2. q[GateWindow + 1] <= GateWalletLimit
      <3>1. pre[GateWindow + 1] <= GateWalletLimit
        BY <1>12 DEF GateEpochs
      <3>2. QED
        BY <1>1, <1>9, <3>1
    <2>3. GateEpochs(q, a, x)'
      BY <1>2, <1>8, <2>1, <2>2 DEF GateEpochs
    <2>4. QED
      BY <1>11, <2>3 DEF GateBurst
  <1>13. CASE ~windowOver(gateEntry)
    <2>1. /\ a = GateWindow - gateEntry.left /\ pre[a] + x <= gateEntry.count
          /\ pre[GateWindow + 1] - pre[a] - x <= GateWalletLimit
      BY <1>13 DEF GateEpochs
    <2>2. gateEntry.present /\ gateEntry.left >= 0
      BY <1>10, <1>13 DEF windowOver
    <2>3. CASE gateEntry.left = 0
      <3>1. a = GateWindow /\ windowOver(gateEntry)'
        BY <1>1, <1>11, <2>1, <2>2, <2>3 DEF windowOver
      <3>2. q[GateWindow + 1] <= GateWalletLimit
        BY <1>1, <1>2, <1>9, <1>10, <2>1, <3>1
      <3>3. GateEpochs(q, a, x)'
        BY <1>2, <1>8, <3>1, <3>2 DEF GateEpochs
      <3>4. QED
        BY <1>11, <3>3 DEF GateBurst
    <2>4. CASE gateEntry.left # 0
      <3>1. gateEntry'.left = gateEntry.left - 1 /\ gateEntry'.left >= 0 /\ gateEntry.left >= 1
        BY <1>10, <1>11, <2>2, <2>4
      <3>2. ~windowOver(gateEntry)'
        BY <1>10, <1>11, <2>2, <3>1 DEF windowOver
      <3>3. a + 1 \in 0..GateWindow /\ a + 1 = GateWindow - gateEntry'.left
        BY <1>1, <1>2, <1>10, <2>1, <3>1
      <3>4. q[a + 1] + x <= gateEntry'.count /\ q[GateWindow + 1] - q[a + 1] - x <= GateWalletLimit
        <4>1. q[a + 1] + x <= gateEntry'.count
          BY <1>9, <1>11, <2>1
        <4>2. pre[GateWindow] - pre[a] - x <= GateWalletLimit
          BY <1>1, <1>2, <1>9, <2>1
        <4>3. QED
          BY <1>9, <4>1, <4>2
      <3>5. GateEpochs(q, a + 1, x)'
        BY <1>2, <1>8, <3>2, <3>3, <3>4 DEF GateEpochs
      <3>6. QED
        BY <1>11, <3>5 DEF GateBurst
    <2>5. QED
      BY <2>3, <2>4
  <1>14. QED
    BY <1>12, <1>13

LEMMA GateBurstInductive == GateInit /\ [][GateNext]_gateVars => []GateBurst
  <1>0. GateWindow \in Nat \ {0} /\ GateWalletLimit \in Nat \ {0}
    BY GateAssumption
  <1>1. GateInit => GateBurst
    <2> SUFFICES ASSUME GateInit PROVE GateBurst
      OBVIOUS
    <2> DEFINE q == [k \in 0..(GateWindow + 1) |-> 0]
    <2>1. gateLog = [a \in 0..GateWindow |-> 0] /\ gateEntry = [present |-> FALSE, count |-> 0, left |-> 0]
      BY DEF GateInit
    <2>2. GateSums(q) /\ q[GateWindow + 1] = 0
      BY <1>0, <2>1 DEF GateSums
    <2>3. gateEntry \in GateEntries /\ windowOver(gateEntry) /\ 0 \in 0..GateWindow /\ 0 \in Nat
      BY <1>0, <2>1 DEF GateEntries, windowOver
    <2> HIDE DEF q
    <2>4. GateEpochs(q, 0, 0)
      BY <1>0, <2>2, <2>3 DEF GateEpochs
    <2>5. QED
      BY <2>3, <2>4 DEF GateBurst
  <1>2. GateBurst /\ [GateNext]_gateVars => GateBurst'
    <2> SUFFICES ASSUME GateBurst, [GateNext]_gateVars PROVE GateBurst'
      OBVIOUS
    <2>1. gateEntry \in GateEntries
      BY DEF GateBurst
    <2>2. PICK pre, a, x : GateEpochs(pre, a, x)
      BY DEF GateBurst
    <2>3. GateSums(pre) /\ a \in 0..GateWindow /\ x \in Nat
      BY <2>2 DEF GateEpochs
    <2>4. ASSUME UNCHANGED <<gateEntry, gateLog>> PROVE GateBurst'
      <3>1. GateSums(pre)' /\ windowOver(gateEntry)' = windowOver(gateEntry) /\ gateEntry' = gateEntry
        BY <2>3, <2>4 DEF GateSums, windowOver
      <3>2. GateEpochs(pre, a, x)'
        BY <2>2, <3>1 DEF GateEpochs
      <3>3. QED
        BY <2>1, <3>1, <3>2 DEF GateBurst
    <2>5. CASE walletLimiter
      <3>1. PICK e : e = IF windowOver(gateEntry) THEN [present |-> TRUE, count |-> 0, left |-> GateWindow] ELSE gateEntry
        OBVIOUS
      <3>2. \/ overLimit(e) /\ gateEntry' = e /\ UNCHANGED gateLog
            \/ ~overLimit(e) /\ gateEntry' = [e EXCEPT !.count = @ + 1] /\ gateLog' = [gateLog EXCEPT ![0] = @ + 1]
        BY <2>5, <3>1 DEF walletLimiter, refusedEntry
      <3>3. CASE windowOver(gateEntry)
        <4>1. e = [present |-> TRUE, count |-> 0, left |-> GateWindow] /\ e.count = 0 /\ ~overLimit(e)
          BY <1>0, <3>1, <3>3 DEF overLimit
        <4>2. gateEntry' = [present |-> TRUE, count |-> 0 + 1, left |-> GateWindow - 0] /\ gateLog' = [gateLog EXCEPT ![0] = @ + 1]
          BY <1>0, <3>2, <4>1
        <4>3. pre[0] = 0 /\ pre[GateWindow + 1] \in Nat /\ pre[GateWindow + 1] <= GateWalletLimit
          BY <1>0, <2>2, <2>3, <3>3 DEF GateSums, GateEpochs
        <4>4. /\ 0 \in 0..GateWindow /\ 0 \in Nat /\ 0 < GateWalletLimit
              /\ pre[0] + 0 <= 0 /\ pre[GateWindow + 1] - pre[0] - 0 <= GateWalletLimit
          BY <1>0, <4>3
        <4>5. GateRoom(pre, 0, 0, 0)
          BY <2>3, <4>4 DEF GateRoom
        <4>6. QED
          BY <4>2, <4>5, GateAdmits
      <3>4. CASE ~windowOver(gateEntry)
        <4>1. e = gateEntry /\ a = GateWindow - e.left /\ pre[a] + x <= e.count /\ pre[GateWindow + 1] - pre[a] - x <= GateWalletLimit
          BY <2>2, <3>1, <3>4 DEF GateEpochs
        <4>2. CASE overLimit(e)
          BY <2>4, <3>2, <4>1, <4>2
        <4>3. CASE ~overLimit(e)
          <5>1. e.count \in Nat /\ e.count < GateWalletLimit /\ e.present = TRUE /\ e.left \in 0..GateWindow
            BY <1>0, <2>1, <3>4, <4>1, <4>3 DEF GateEntries, windowOver, overLimit
          <5>2. GateWindow - a = e.left
            BY <1>0, <4>1, <5>1
          <5>3. gateEntry' = [present |-> TRUE, count |-> e.count + 1, left |-> GateWindow - a]
            BY <2>1, <3>2, <4>1, <4>3, <5>1, <5>2 DEF GateEntries
          <5>4. gateLog' = [gateLog EXCEPT ![0] = @ + 1]
            BY <3>2, <4>3
          <5>5. GateRoom(pre, a, x, e.count)
            BY <2>3, <4>1, <5>1 DEF GateRoom
          <5>6. QED
            BY <5>3, <5>4, <5>5, GateAdmits
        <4>4. QED
          BY <4>2, <4>3
      <3>5. QED
        BY <3>3, <3>4
    <2>6. CASE cleanupExpiredLimits
      <3>1. gateEntry' = [present |-> FALSE, count |-> 0, left |-> 0] /\ gateLog' = gateLog /\ windowOver(gateEntry)
        BY <2>6 DEF cleanupExpiredLimits, windowOver
      <3>2. gateEntry' \in GateEntries /\ windowOver(gateEntry)'
        BY <1>0, <3>1 DEF GateEntries, windowOver
      <3>3. GateSums(pre)' /\ pre[GateWindow + 1] <= GateWalletLimit
        BY <2>2, <2>3, <3>1 DEF GateSums, GateEpochs
      <3>4. GateEpochs(pre, a, x)'
        BY <2>3, <3>2, <3>3 DEF GateEpochs
      <3>5. QED
        BY <3>2, <3>4 DEF GateBurst
    <2>7. CASE GateTick
      BY <2>1, <2>2, <2>7, GateTicks
    <2>8. QED
      BY <2>4, <2>5, <2>6, <2>7 DEF GateNext, noWallet, gateVars, createKey, revokeKey, lookupApiKey, apiKeyAuth
  <1>3. QED
    BY <1>1, <1>2, PTL

LEMMA GateBurstResult == GateBurst => GateBurstBounded
  <1> SUFFICES ASSUME GateBurst PROVE GateBurstBounded
    OBVIOUS
  <1>0. GateWindow \in Nat \ {0} /\ GateWalletLimit \in Nat \ {0} /\ gateEntry \in GateEntries
    BY GateAssumption DEF GateBurst
  <1>1. PICK pre, a, x : GateEpochs(pre, a, x)
    BY DEF GateBurst
  <1>2. GateSums(pre) /\ a \in 0..GateWindow /\ x \in Nat
    BY <1>1 DEF GateEpochs
  <1>3. gateLog \in [0..GateWindow -> Nat] /\ pre \in [0..(GateWindow + 1) -> Nat] /\ pre[0] = 0
        /\ \A k \in 0..GateWindow : pre[k + 1] = pre[k] + gateLog[k]
    BY <1>2 DEF GateSums
  <1>4. pre[a] \in Nat /\ pre[GateWindow + 1] \in Nat
    BY <1>0, <1>2, <1>3
  <1>5. gateEntry.count \in 0..GateWalletLimit
    BY <1>0 DEF GateEntries
  <1>6. pre[GateWindow + 1] <= 2 * GateWalletLimit
    <2>1. \/ pre[GateWindow + 1] <= GateWalletLimit
          \/ pre[a] + x <= gateEntry.count /\ pre[GateWindow + 1] - pre[a] - x <= GateWalletLimit
      BY <1>1 DEF GateEpochs
    <2>2. QED
      BY <1>0, <1>2, <1>4, <1>5, <2>1
  <1>7. 0..GateWindow = 0..((GateWindow + 1) - 1) /\ GateWindow + 1 \in Nat
    BY <1>0
  <1>8. SumFunctionOnSet(gateLog, 0..((GateWindow + 1) - 1)) = pre[GateWindow + 1]
    <2>1. \A k \in 0..((GateWindow + 1) - 1) : gateLog[k] \in Int
      <3>1. \A k \in 0..GateWindow : gateLog[k] \in Nat
        BY <1>3
      <3>2. \A k \in 0..GateWindow : gateLog[k] \in Int
        BY <3>1
      <3>3. QED
        BY <1>7, <3>2
    <2>2. \A k \in 0..((GateWindow + 1) - 1) : pre[k + 1] = pre[k] + gateLog[k]
      BY <1>3, <1>7
    <2>3. pre[0] = 0
      BY <1>3
    <2> HIDE <1>3, <1>7
    <2>4. QED
      BY <1>7, <2>1, <2>2, <2>3, SumIntervalFromZero
  <1>9. DOMAIN gateLog = 0..((GateWindow + 1) - 1)
    BY <1>3, <1>7
  <1>10. QED
    BY <1>6, <1>8, <1>9 DEF GateBurstBounded, SumFunction

-----------------------------------------------------------------------------
(* The live counter (LiveUpdates). *)

LvTabsBounded == [status : {"connected", "reconnecting", "polling"}, retry : 0..LvRetries,
                  retryTimer : BOOLEAN, pollTimer : BOOLEAN, stopped : BOOLEAN]

\* The counter never runs ahead of the log, and connections are closed once.
LvBounds ==
  /\ lvLog \in Seq(LvTypes) /\ lvWire \in Seq(LvTypes) /\ lvShown \in Nat
  /\ lvShown + Len(lvWire) <= Len(lvLog) /\ Len(lvLog) <= LvMaxEvents
  /\ lvConn \in {"none", "opening", "open"} /\ lvTab \in LvTabsBounded
  /\ lvStale \in 0..(LvMaxStale + 1) /\ (~lvTab.stopped => lvStale <= LvMaxStale)
  /\ lvConn # "open" => lvWire = <<>>
  /\ lvTab.retryTimer \/ lvTab.stopped => lvConn = "none"
  /\ lvTab.stopped => ~lvTab.retryTimer

\* h is the part of the log the tab has handled.
LvHandled(h) == h \in Seq(LvTypes) /\ lvLog = h \o lvWire /\ Outstanding(lvShown, h)

LvCount == LvBounds /\ (~lvGap => \E h : LvHandled(h))

\* What the tab adds for an event.
LEMMA LvCounts ==
  ASSUME NEW n \in Nat, NEW type \in LvTypes
  PROVE  updateCounts(n, type) \in Nat /\ updateCounts(n, type) <= n + 1
  BY DEF updateCounts, PlusZero, LvTypes

\* Positions of a kind of event: one more event adds its own position or none.
LEMMA LvPositions ==
  ASSUME NEW h \in Seq(LvTypes), NEW type \in LvTypes, NEW kind \in LvTypes, NEW j \in 0..Len(h),
         NEW g \in {Append(h, type)}
  PROVE  /\ Cardinality(eventsAfter(h, j, kind)) \in Nat
         /\ Cardinality(eventsAfter(g, j, kind)) = IF type = kind THEN Cardinality(eventsAfter(h, j, kind)) + 1
                                                   ELSE Cardinality(eventsAfter(h, j, kind))
  <1>1. PICK n : n = Len(h)
    OBVIOUS
  <1>2. n \in Nat /\ j \in 0..n /\ Len(g) = n + 1 /\ g[n + 1] = type /\ \A i \in 1..n : g[i] = h[i]
    BY <1>1
  <1>3. PICK A, B : A = {i \in (j + 1)..n : h[i] = kind} /\ B = {i \in (j + 1)..(n + 1) : g[i] = kind}
    OBVIOUS
  <1>4. \A i \in A : i \in (j + 1)..n /\ i # n + 1
    BY <1>2, <1>3
  <1>5. B = IF type = kind THEN A \cup {n + 1} ELSE A
    <2>1. \A i : i \in (j + 1)..(n + 1) <=> i \in (j + 1)..n \/ i = n + 1
      BY <1>2
    <2>2. \A i \in (j + 1)..n : g[i] = h[i] /\ i # n + 1
      BY <1>2
    <2>3. CASE type = kind
      BY <1>2, <1>3, <2>1, <2>2, <2>3
    <2>4. CASE type # kind
      BY <1>2, <1>3, <2>1, <2>2, <2>4
    <2>5. QED
      BY <2>3, <2>4
  <1>6. IsFiniteSet(A)
    <2>1. j + 1 \in Int /\ n \in Int
      BY <1>2
    <2>2. IsFiniteSet((j + 1)..n)
      BY <2>1, FS_Interval
    <2>3. A \in SUBSET ((j + 1)..n)
      BY <1>3
    <2>4. QED
      BY <2>2, <2>3, FS_Subset
  <1>7. Cardinality(A) \in Nat /\ Cardinality(A \cup {n + 1}) = Cardinality(A) + 1
    <2>1. n + 1 \notin A
      BY <1>4
    <2>2. QED
      BY <1>6, <2>1, FS_AddElement, FS_CardinalityType
  <1>8. Cardinality(B) = IF type = kind THEN Cardinality(A) + 1 ELSE Cardinality(A)
    BY <1>5, <1>7
  <1>9. A = eventsAfter(h, j, kind) /\ B = eventsAfter(g, j, kind)
    BY <1>1, <1>2, <1>3 DEF eventsAfter
  <1>10. QED
    BY <1>7, <1>8, <1>9

\* Nothing comes after the last event.
LEMMA LvNoSurplus == ASSUME NEW h \in Seq(LvTypes) PROVE surplus(h, Len(h)) = 0
  <1>1. PICK n : n = Len(h)
    OBVIOUS
  <1>2. n \in Nat
    BY <1>1
  <1>3. (n + 1)..n = {}
    BY <1>2
  <1>4. eventsAfter(h, n, "applied") = {} /\ eventsAfter(h, n, "assigned") = {}
    BY <1>1, <1>3 DEF eventsAfter
  <1>5. Cardinality({}) = 0
    BY FS_EmptySet
  <1>6. surplus(h, n) = Cardinality({}) - Cardinality({})
    BY <1>4, Zenon DEF surplus
  <1>7. surplus(h, n) = 0
    BY <1>5, <1>6
  <1>8. QED
    BY <1>1, <1>7

\* The counter stays the largest surplus when one more event is counted.
LEMMA LvFolds ==
  ASSUME NEW h \in Seq(LvTypes), NEW type \in LvTypes, NEW n \in Nat, Outstanding(n, h)
  PROVE  Outstanding(updateCounts(n, type), Append(h, type))
  <1>1. PICK g, m, u : g = Append(h, type) /\ m = Len(h) /\ u = updateCounts(n, type)
    OBVIOUS
  <1>2. PICK d : d = CASE type = "applied" -> 1 [] type = "assigned" -> -1 [] OTHER -> 0
    OBVIOUS
  <1>3. d \in Int /\ (u = n + d \/ (u = 0 /\ n + d < 0)) /\ u \in Nat /\ (u # n + d => n = 0 /\ d = -1)
    BY <1>1, <1>2 DEF updateCounts, PlusZero, LvTypes
  <1>4. g \in Seq(LvTypes) /\ m \in Nat /\ Len(g) = m + 1
    BY <1>1
  <1>5. ASSUME NEW j \in 0..m PROVE surplus(h, j) \in Int /\ surplus(g, j) = surplus(h, j) + d
    <2>1. PICK a, b, c, e : /\ a = Cardinality(eventsAfter(h, j, "applied"))
                            /\ b = Cardinality(eventsAfter(h, j, "assigned"))
                            /\ c = Cardinality(eventsAfter(g, j, "applied"))
                            /\ e = Cardinality(eventsAfter(g, j, "assigned"))
      OBVIOUS
    <2>2. j \in 0..Len(h)
      BY <1>1
    <2>3. a \in Nat /\ c = IF type = "applied" THEN a + 1 ELSE a
      <3>1. g = Append(h, type)
        BY <1>1
      <3>2. /\ Cardinality(eventsAfter(h, j, "applied")) \in Nat
            /\ Cardinality(eventsAfter(g, j, "applied")) = IF type = "applied" THEN Cardinality(eventsAfter(h, j, "applied")) + 1
                                                       ELSE Cardinality(eventsAfter(h, j, "applied"))
        <4>1. PICK q \in LvTypes : q = "applied"
          BY DEF LvTypes
        <4>2. g \in {Append(h, type)}
          BY <3>1
        <4>3. /\ Cardinality(eventsAfter(h, j, q)) \in Nat
              /\ Cardinality(eventsAfter(g, j, q)) = IF type = q THEN Cardinality(eventsAfter(h, j, q)) + 1
                                                     ELSE Cardinality(eventsAfter(h, j, q))
          BY <2>2, <4>2, LvPositions
        <4>4. QED
          BY <4>1, <4>3
      <3>3. QED
        BY <2>1, <3>2
    <2>4. b \in Nat /\ e = IF type = "assigned" THEN b + 1 ELSE b
      <3>1. g = Append(h, type)
        BY <1>1
      <3>2. /\ Cardinality(eventsAfter(h, j, "assigned")) \in Nat
            /\ Cardinality(eventsAfter(g, j, "assigned")) = IF type = "assigned" THEN Cardinality(eventsAfter(h, j, "assigned")) + 1
                                                       ELSE Cardinality(eventsAfter(h, j, "assigned"))
        <4>1. PICK q \in LvTypes : q = "assigned"
          BY DEF LvTypes
        <4>2. g \in {Append(h, type)}
          BY <3>1
        <4>3. /\ Cardinality(eventsAfter(h, j, q)) \in Nat
              /\ Cardinality(eventsAfter(g, j, q)) = IF type = q THEN Cardinality(eventsAfter(h, j, q)) + 1
                                                     ELSE Cardinality(eventsAfter(h, j, q))
          BY <2>2, <4>2, LvPositions
        <4>4. QED
          BY <4>1, <4>3
      <3>3. QED
        BY <2>1, <3>2
    <2>5. surplus(h, j) = a - b /\ surplus(g, j) = c - e
      BY <2>1 DEF surplus
    <2>6. a - b \in Int /\ c - e = (a - b) + d
      BY <1>2, <2>3, <2>4 DEF LvTypes
    <2>7. QED
      BY <2>5, <2>6
  <1>6. surplus(g, m + 1) = 0
    BY <1>4, LvNoSurplus
  <1>7. PICK k \in 0..m : n = surplus(h, k)
    BY <1>1 DEF Outstanding
  <1>8. \A j \in 0..m : surplus(h, j) <= n
    BY <1>1 DEF Outstanding
  <1>9. ASSUME NEW j \in 0..(m + 1) PROVE surplus(g, j) <= u
    <2>1. CASE j \in 0..m
      <3>1. PICK x, y : x = surplus(h, j) /\ y = surplus(g, j)
        OBVIOUS
      <3>2. x \in Int /\ y = x + d /\ x <= n
        BY <1>5, <1>8, <2>1, <3>1
      <3>3. y <= u
        BY <1>3, <3>2
      <3>4. QED
        BY <3>1, <3>3
    <2>2. CASE j = m + 1
      BY <1>3, <1>6, <2>2
    <2>3. QED
      BY <1>4, <2>1, <2>2
  <1>10. \E j \in 0..(m + 1) : u = surplus(g, j)
    <2>1. CASE u = n + d
      <3>1. surplus(g, k) = n + d
        BY <1>5, <1>7
      <3>2. k \in 0..(m + 1)
        BY <1>4, <1>7
      <3>3. QED
        BY <2>1, <3>1, <3>2
    <2>2. CASE u # n + d
      <3>1. u = 0 /\ m + 1 \in 0..(m + 1)
        BY <1>3, <1>4, <2>2
      <3>2. QED
        BY <1>6, <3>1
    <2>3. QED
      BY <2>1, <2>2
  <1>11. Outstanding(u, g)
    BY <1>4, <1>9, <1>10 DEF Outstanding
  <1>12. QED
    BY <1>1, <1>11

LEMMA LvShifts ==
  ASSUME NEW h \in Seq(LvTypes), NEW w \in Seq(LvTypes), w # <<>>
  PROVE  Append(h, Head(w)) \in Seq(LvTypes) /\ h \o w = Append(h, Head(w)) \o Tail(w)
  <1>1. Head(w) \in LvTypes /\ Tail(w) \in Seq(LvTypes) /\ Len(w) \in Nat /\ Len(h) \in Nat /\ Len(w) # 0
        /\ Len(Tail(w)) = Len(w) - 1 /\ Head(w) = w[1] /\ \A i \in 1..(Len(w) - 1) : Tail(w)[i] = w[i + 1]
    OBVIOUS
  <1>2. Append(h, Head(w)) \in Seq(LvTypes) /\ Len(Append(h, Head(w))) = Len(h) + 1
        /\ Append(h, Head(w))[Len(h) + 1] = Head(w) /\ \A i \in 1..Len(h) : Append(h, Head(w))[i] = h[i]
    BY <1>1
  <1> DEFINE a == h \o w
             b == Append(h, Head(w)) \o Tail(w)
  <1>3. a \in Seq(LvTypes) /\ b \in Seq(LvTypes) /\ Len(a) = Len(h) + Len(w) /\ Len(b) = Len(h) + Len(w)
    BY <1>1, <1>2
  <1>4. ASSUME NEW i \in 1..Len(a) PROVE a[i] = b[i]
    <2>1. CASE i <= Len(h)
      BY <1>1, <1>2, <1>3, <2>1
    <2>2. CASE i = Len(h) + 1
      BY <1>1, <1>2, <1>3, <2>2
    <2>3. CASE i > Len(h) + 1
      <3>1. a[i] = w[i - Len(h)] /\ i - Len(h) - 1 \in 1..(Len(w) - 1)
        BY <1>1, <1>3, <2>3
      <3>2. b[i] = Tail(w)[i - (Len(h) + 1)]
        BY <1>1, <1>2, <1>3, <2>3
      <3>3. Tail(w)[i - Len(h) - 1] = w[(i - Len(h) - 1) + 1] /\ i - (Len(h) + 1) = i - Len(h) - 1 /\ (i - Len(h) - 1) + 1 = i - Len(h)
        BY <1>1, <1>3, <3>1
      <3>4. QED
        BY <3>1, <3>2, <3>3
    <2>4. QED
      BY <1>1, <1>3, <2>1, <2>2, <2>3
  <1> HIDE DEF a, b
  <1>5. a = b
    BY <1>3, <1>4, SeqEqual
  <1>6. QED
    BY <1>2, <1>5 DEF a, b

LEMMA LvExtends ==
  ASSUME NEW h \in Seq(LvTypes), NEW w \in Seq(LvTypes), NEW type \in LvTypes
  PROVE  Append(h \o w, type) = h \o Append(w, type)
  <1> DEFINE a == Append(h \o w, type)
             b == h \o Append(w, type)
  <1>1. a \in Seq(LvTypes) /\ b \in Seq(LvTypes) /\ Len(a) = Len(h) + Len(w) + 1 /\ Len(b) = Len(h) + Len(w) + 1
        /\ Len(h) \in Nat /\ Len(w) \in Nat
    OBVIOUS
  <1>2. ASSUME NEW i \in 1..Len(a) PROVE a[i] = b[i]
    <2>1. CASE i <= Len(h)
      BY <1>1, <2>1
    <2>2. CASE i > Len(h) /\ i <= Len(h) + Len(w)
      BY <1>1, <2>2
    <2>3. CASE i = Len(h) + Len(w) + 1
      BY <1>1, <2>3
    <2>4. QED
      BY <1>1, <2>1, <2>2, <2>3
  <1> HIDE DEF a, b
  <1>3. a = b
    BY <1>1, <1>2, SeqEqual
  <1>4. QED
    BY <1>3 DEF a, b

LEMMA LvCountInductive == LvInit /\ [][LvNext]_lvVars => []LvCount
  <1>0. LvMaxEvents \in Nat /\ LvMaxStale \in Nat /\ LvRetries \in Nat
    BY LvAssumption
  <1>1. LvInit => LvCount
    <2> SUFFICES ASSUME LvInit PROVE LvCount
      OBVIOUS
    <2>1. LvBounds
      BY <1>0 DEF LvInit, LvBounds, LvTabsBounded
    <2>2. lvLog = <<>> /\ lvWire = <<>> /\ lvShown = 0
      BY DEF LvInit
    <2>3. <<>> \in Seq(LvTypes) /\ <<>> = <<>> \o <<>> /\ "applied" \in LvTypes
      BY DEF LvTypes
    <2>4. Outstanding(0, <<>>)
      <3>1. Len(<<>>) = 0 /\ surplus(<<>>, 0) = 0
        BY <2>3, LvNoSurplus
      <3>2. PICK e : e = <<>>
        OBVIOUS
      <3>3. Len(e) = 0 /\ surplus(e, 0) = 0
        BY <3>1, <3>2
      <3>4. 0..Len(e) = {0}
        BY <3>3
      <3>5. Outstanding(0, e)
        BY <3>3, <3>4 DEF Outstanding
      <3>6. QED
        BY <3>2, <3>5
    <2>5. LvHandled(<<>>)
      BY <2>2, <2>3, <2>4 DEF LvHandled
    <2>6. QED
      BY <2>1, <2>5 DEF LvCount
  <1>2. LvCount /\ [LvNext]_lvVars => LvCount'
    <2> SUFFICES ASSUME LvCount, [LvNext]_lvVars PROVE LvCount'
      OBVIOUS
    <2>0. LvBounds
      BY DEF LvCount
    <2>1. /\ lvLog \in Seq(LvTypes) /\ lvWire \in Seq(LvTypes) /\ lvShown \in Nat
          /\ lvShown + Len(lvWire) <= Len(lvLog) /\ Len(lvLog) <= LvMaxEvents
          /\ Len(lvWire) \in Nat /\ Len(lvLog) \in Nat
      BY DEF LvCount, LvBounds
    <2>2. /\ lvConn \in {"none", "opening", "open"} /\ lvTab \in LvTabsBounded
          /\ lvStale \in 0..(LvMaxStale + 1) /\ (~lvTab.stopped => lvStale <= LvMaxStale)
          /\ lvConn # "open" => lvWire = <<>>
          /\ lvTab.retryTimer \/ lvTab.stopped => lvConn = "none"
          /\ lvTab.stopped => ~lvTab.retryTimer
      BY DEF LvCount, LvBounds
    <2>3. ASSUME UNCHANGED <<lvLog, lvWire, lvShown>>, lvGap' = lvGap PROVE ~lvGap' => \E h : LvHandled(h)'
      BY <2>3 DEF LvCount, LvHandled
    <2>4. CASE UNCHANGED lvVars
      <3>1. LvBounds'
        BY <2>0, <2>4 DEF LvBounds, lvVars
      <3>2. QED
        BY <2>3, <2>4, <3>1 DEF LvCount, lvVars
    <2>5. CASE publishLiveEvent
      <3>1. PICK type \in LvTypes : lvLog' = Append(lvLog, type) /\ lvWire' = IF lvConn = "open" THEN Append(lvWire, type) ELSE lvWire
        BY <2>5 DEF publishLiveEvent
      <3>2. Len(lvLog) < LvMaxEvents /\ lvGap' = (lvGap \/ lvConn # "open") /\ UNCHANGED <<lvStale, lvConn, lvTab, lvShown>>
        BY <2>5 DEF publishLiveEvent
      <3>3. lvLog' \in Seq(LvTypes) /\ Len(lvLog') = Len(lvLog) + 1 /\ lvWire' \in Seq(LvTypes)
            /\ Len(lvWire') \in Nat /\ Len(lvWire') <= Len(lvWire) + 1
        BY <2>1, <3>1
      <3>4. lvShown' + Len(lvWire') <= Len(lvLog') /\ Len(lvLog') <= LvMaxEvents /\ lvShown' \in Nat
        BY <1>0, <2>1, <3>2, <3>3
      <3>5. LvBounds'
        BY <2>2, <3>1, <3>2, <3>3, <3>4 DEF LvBounds
      <3>6. ASSUME ~lvGap' PROVE \E h : LvHandled(h)'
        <4>1. lvConn = "open" /\ lvWire' = Append(lvWire, type)
          BY <3>1, <3>2, <3>6
        <4>2. PICK h : LvHandled(h)
          BY <3>2, <3>6 DEF LvCount
        <4>3. h \in Seq(LvTypes) /\ lvLog = h \o lvWire /\ Outstanding(lvShown, h)
          BY <4>2 DEF LvHandled
        <4>4. Append(h \o lvWire, type) = h \o Append(lvWire, type)
          BY <2>1, <4>3, LvExtends
        <4>5. LvHandled(h)'
          BY <3>1, <3>2, <4>1, <4>3, <4>4 DEF LvHandled
        <4>6. QED
          BY <4>5
      <3>7. QED
        BY <3>5, <3>6 DEF LvCount
    <2>6. CASE onClose
      <3>1. lvStale > 0 /\ lvStale' = lvStale - 1 /\ UNCHANGED <<lvLog, lvConn, lvWire, lvTab, lvShown, lvGap>>
        BY <2>6 DEF onClose, unsubscribe
      <3>2. lvStale' \in 0..(LvMaxStale + 1) /\ (~lvTab.stopped => lvStale' <= LvMaxStale)
        BY <1>0, <2>2, <3>1
      <3>3. LvBounds'
        BY <2>1, <2>2, <3>1, <3>2 DEF LvBounds
      <3>4. QED
        BY <2>3, <3>1, <3>3 DEF LvCount
    <2>7. CASE onopen
      <3>1. /\ lvConn = "opening" /\ lvConn' = "open" /\ lvTab' = [lvTab EXCEPT !.status = "connected", !.retry = 0]
            /\ UNCHANGED <<lvLog, lvStale, lvWire, lvShown, lvGap>>
        BY <2>7 DEF onopen
      <3>2. lvTab' \in LvTabsBounded /\ lvTab'.stopped = lvTab.stopped /\ lvTab'.retryTimer = lvTab.retryTimer
        <4>1. 0 \in 0..LvRetries
          BY <1>0
        <4>2. QED
          BY <2>2, <3>1, <4>1 DEF LvTabsBounded
      <3>3. LvBounds'
        BY <2>1, <2>2, <3>1, <3>2 DEF LvBounds
      <3>4. QED
        BY <2>3, <3>1, <3>3 DEF LvCount
    <2>8. CASE handleLiveEvent
      <3>1. /\ lvWire # <<>> /\ lvShown' = updateCounts(lvShown, Head(lvWire)) /\ lvWire' = Tail(lvWire)
            /\ UNCHANGED <<lvLog, lvStale, lvConn, lvTab, lvGap>>
        BY <2>8 DEF handleLiveEvent
      <3>2. Head(lvWire) \in LvTypes /\ lvWire' \in Seq(LvTypes) /\ Len(lvWire') = Len(lvWire) - 1
        BY <2>1, <3>1
      <3>3. lvShown' \in Nat /\ lvShown' <= lvShown + 1
        BY <2>1, <3>1, <3>2, LvCounts
      <3>4. lvShown' + Len(lvWire') <= Len(lvLog')
        BY <2>1, <3>1, <3>2, <3>3
      <3>5. lvConn = "open"
        BY <2>2, <3>1
      <3>6. LvBounds'
        BY <2>1, <2>2, <3>1, <3>2, <3>3, <3>4, <3>5 DEF LvBounds
      <3>7. ASSUME ~lvGap' PROVE \E h : LvHandled(h)'
        <4>1. PICK h : LvHandled(h)
          BY <3>1, <3>7 DEF LvCount
        <4>2. h \in Seq(LvTypes) /\ lvLog = h \o lvWire /\ Outstanding(lvShown, h)
          BY <4>1 DEF LvHandled
        <4>3. PICK k : k = Append(h, Head(lvWire))
          OBVIOUS
        <4>4. k \in Seq(LvTypes) /\ lvLog = k \o Tail(lvWire)
          BY <2>1, <3>1, <4>2, <4>3, LvShifts
        <4>5. Outstanding(updateCounts(lvShown, Head(lvWire)), k)
          BY <2>1, <3>2, <4>2, <4>3, LvFolds
        <4>6. LvHandled(k)'
          BY <3>1, <4>4, <4>5 DEF LvHandled
        <4>7. QED
          BY <4>6
      <3>8. QED
        BY <3>6, <3>7 DEF LvCount
    <2>9. ASSUME Hangup, UNCHANGED <<lvLog, lvShown>>, lvTab' \in LvTabsBounded,
                 lvTab'.stopped => ~lvTab'.retryTimer, lvTab.stopped => lvTab'.stopped,
                 lvTab'.stopped = lvTab.stopped => lvStale < LvMaxStale \/ lvConn # "open"
          PROVE  LvCount'
      <3>1. lvConn' = "none" /\ lvWire' = <<>> /\ lvStale' = (IF lvConn = "open" THEN lvStale + 1 ELSE lvStale) /\ lvGap' = (lvGap \/ lvWire # <<>>)
        BY <2>9 DEF Hangup
      <3>2. lvTab.stopped \in BOOLEAN /\ lvTab'.stopped \in BOOLEAN
        BY <2>2, <2>9 DEF LvTabsBounded
      <3>3. lvStale' \in 0..(LvMaxStale + 1) /\ (~lvTab'.stopped => lvStale' <= LvMaxStale)
        <4>1. CASE lvConn = "open"
          <5>1. ~lvTab.stopped /\ lvStale <= LvMaxStale /\ lvStale' = lvStale + 1
            BY <2>2, <3>1, <4>1
          <5>2. ~lvTab'.stopped => lvStale < LvMaxStale
            BY <2>9, <3>2, <4>1, <5>1
          <5>3. QED
            BY <1>0, <2>2, <5>1, <5>2
        <4>2. CASE lvConn # "open"
          BY <2>2, <2>9, <3>1, <3>2, <4>2
        <4>3. QED
          BY <4>1, <4>2
      <3>4. <<>> \in Seq(LvTypes) /\ Len(<<>>) = 0
        OBVIOUS
      <3>5. lvShown' + Len(lvWire') <= Len(lvLog')
        BY <2>1, <2>9, <3>1, <3>4
      <3>6. LvBounds'
        BY <2>1, <2>9, <3>1, <3>3, <3>4, <3>5 DEF LvBounds
      <3>7. ASSUME ~lvGap' PROVE \E h : LvHandled(h)'
        <4>1. ~lvGap /\ lvWire' = lvWire
          BY <3>1, <3>7
        <4>2. QED
          BY <2>9, <4>1 DEF LvCount, LvHandled
      <3>8. QED
        BY <3>6, <3>7 DEF LvCount
    <2>10. CASE onerror
      <3>1. lvConn # "none" /\ lvStale < LvMaxStale /\ Hangup /\ lvTab' = afterError(lvTab) /\ UNCHANGED <<lvLog, lvShown>>
        BY <2>10 DEF onerror
      <3>2. ~lvTab.stopped /\ lvTab.retry \in 0..LvRetries /\ lvTab.stopped \in BOOLEAN
        BY <2>2, <3>1 DEF LvTabsBounded
      <3>3. lvTab' \in LvTabsBounded /\ lvTab'.stopped = lvTab.stopped
        <4>1. CASE lvTab.retry >= LvRetries
          <5>1. lvTab' = [lvTab EXCEPT !.status = "polling", !.pollTimer = TRUE]
            BY <3>1, <4>1 DEF afterError
          <5>2. QED
            BY <2>2, <5>1 DEF LvTabsBounded
        <4>2. CASE ~(lvTab.retry >= LvRetries)
          <5>1. lvTab' = [lvTab EXCEPT !.retry = @ + 1, !.retryTimer = TRUE]
            BY <3>1, <4>2 DEF afterError
          <5>2. lvTab.retry + 1 \in 0..LvRetries
            BY <1>0, <3>2, <4>2
          <5>3. QED
            BY <2>2, <5>1, <5>2 DEF LvTabsBounded
        <4>3. QED
          BY <4>1, <4>2
      <3>4. QED
        BY <2>9, <3>1, <3>2, <3>3
    <2>11. CASE connect
      <3>1. /\ lvTab.retryTimer /\ lvConn' = "opening" /\ lvTab' = [lvTab EXCEPT !.retryTimer = FALSE, !.status = "reconnecting"]
            /\ UNCHANGED <<lvLog, lvStale, lvWire, lvShown, lvGap>>
        BY <2>11 DEF connect
      <3>2. lvTab' \in LvTabsBounded /\ lvTab'.stopped = lvTab.stopped /\ ~lvTab'.retryTimer /\ ~lvTab.stopped
        BY <2>2, <3>1 DEF LvTabsBounded
      <3>3. lvWire = <<>>
        BY <2>2, <3>1
      <3>4. LvBounds'
        BY <2>1, <2>2, <3>1, <3>2, <3>3 DEF LvBounds
      <3>5. QED
        BY <2>3, <3>1, <3>4 DEF LvCount
    <2>12. CASE fetchEvents
      <3>1. UNCHANGED <<lvLog, lvStale, lvConn, lvWire, lvTab, lvShown, lvGap>>
        BY <2>12 DEF fetchEvents
      <3>2. LvBounds'
        BY <2>0, <3>1 DEF LvBounds
      <3>3. QED
        BY <2>3, <3>1, <3>2 DEF LvCount
    <2>13. CASE pollEvents
      <3>1. lvShown' \in {0, lvShown} /\ lvGap' = TRUE /\ UNCHANGED <<lvLog, lvStale, lvConn, lvWire, lvTab>>
        BY <2>13 DEF pollEvents, polledCount
      <3>2. lvShown' \in Nat /\ lvShown' <= lvShown
        BY <2>1, <3>1
      <3>3. lvShown' + Len(lvWire') <= Len(lvLog')
        BY <2>1, <3>1, <3>2
      <3>4. LvBounds'
        BY <2>1, <2>2, <3>1, <3>2, <3>3 DEF LvBounds
      <3>5. QED
        BY <3>1, <3>4 DEF LvCount
    <2>14. CASE unmount
      <3>1. /\ ~lvTab.stopped /\ Hangup /\ UNCHANGED <<lvLog, lvShown>>
            /\ lvTab' = [lvTab EXCEPT !.stopped = TRUE, !.retryTimer = FALSE, !.pollTimer = FALSE]
        BY <2>14 DEF unmount
      <3>2. lvTab' \in LvTabsBounded /\ lvTab'.stopped = TRUE /\ lvTab'.retryTimer = FALSE
        BY <2>2, <3>1 DEF LvTabsBounded
      <3>3. QED
        BY <2>9, <3>1, <3>2
    <2>15. QED
      BY <2>4, <2>5, <2>6, <2>7, <2>8, <2>10, <2>11, <2>12, <2>13, <2>14 DEF LvNext
  <1>3. QED
    BY <1>1, <1>2, PTL

LEMMA LvCountResult == LvCount => LvTypeOK /\ LvExact
  <1> SUFFICES ASSUME LvCount PROVE LvTypeOK /\ LvExact
    OBVIOUS
  <1>0. LvMaxEvents \in Nat /\ LvMaxStale \in Nat /\ LvRetries \in Nat /\ LvBounds
    BY LvAssumption DEF LvCount
  <1>1. /\ lvLog \in Seq(LvTypes) /\ lvWire \in Seq(LvTypes) /\ lvShown \in Nat
        /\ lvShown + Len(lvWire) <= Len(lvLog) /\ Len(lvLog) <= LvMaxEvents
        /\ Len(lvWire) \in Nat /\ Len(lvLog) \in Nat
    BY <1>0 DEF LvBounds
  <1>2. lvShown \in 0..LvMaxEvents
    BY <1>0, <1>1
  <1>3. LvTypeOK
    BY <1>0, <1>1, <1>2 DEF LvTypeOK, LvBounds, LvTabsBounded
  <1>4. ASSUME ~lvGap PROVE Outstanding(lvShown, SubSeq(lvLog, 1, Len(lvLog) - Len(lvWire)))
    <2>1. PICK h : LvHandled(h)
      BY <1>4 DEF LvCount
    <2>2. h \in Seq(LvTypes) /\ lvLog = h \o lvWire /\ Outstanding(lvShown, h)
      BY <2>1 DEF LvHandled
    <2>3. Len(lvLog) - Len(lvWire) = Len(h) /\ Len(h) \in Nat
      BY <1>1, <2>2
    <2>4. SubSeq(lvLog, 1, Len(h)) = h
      BY <1>1, <2>2, <2>3
    <2>5. QED
      BY <2>2, <2>3, <2>4
  <1>5. LvExact
    BY <1>4 DEF LvExact
  <1>6. QED
    BY <1>3, <1>5

-----------------------------------------------------------------------------
(* Notifications (Notices). *)

\* A toast is shown, waits or is gone; every one that is shown has a timer, and
\* the other timers belong to toasts closed by hand.
ToPlaces(vis, que, timers, closed, next) ==
  /\ vis \in Seq(Nat) /\ que \in Seq(Nat) /\ Distinct(vis) /\ Distinct(que)
  /\ Values(vis) \cap Values(que) = {} /\ Values(vis) \cup Values(que) \subseteq 1..next
  /\ Values(vis) \subseteq timers /\ timers \subseteq Values(vis) \cup closed
  /\ closed \subseteq 1..next /\ closed \cap (Values(vis) \cup Values(que)) = {}

\* The screen overflows by the late timers that have fired.
ToFull(vis, que, timers, closed) ==
  /\ que # <<>> => Len(vis) >= ToCap
  /\ Len(vis) <= ToCap + Cardinality(closed \ timers)

ToInv ==
  /\ toNext \in 0..ToMax
  /\ ToPlaces(toVisible, toQueued, toTimers, toClosed, toNext)
  /\ ToFull(toVisible, toQueued, toTimers, toClosed)

LEMMA ToFinite ==
  ASSUME NEW next \in Nat, NEW S, S \subseteq 1..next
  PROVE  IsFiniteSet(S) /\ Cardinality(S) \in Nat
  <1>1. IsFiniteSet(1..next)
    BY FS_Interval
  <1>2. IsFiniteSet(S)
    BY <1>1, FS_Subset
  <1>3. QED
    BY <1>2, FS_CardinalityType

\* A timer fires, or a toast that is shown is closed by hand.
ToEnds(vis, timers, closed, id, left, gone) ==
  \/ id \in timers /\ left = timers \ {id} /\ gone = closed
  \/ id \in Values(vis) /\ left = timers /\ gone = closed \cup {id}

ToPromotes(vis, que, id, left, vis1, que1, timers1) ==
  \/ que = <<>> /\ vis1 = Without(vis, id) /\ que1 = <<>> /\ timers1 = left
  \/ /\ que # <<>> /\ vis1 = Append(Without(vis, id), Head(que)) /\ que1 = Tail(que)
     /\ timers1 = left \cup {Head(que)}

\* A toast that is not waiting leaves, and the head of the queue takes its place.
LEMMA ToRemoves ==
  ASSUME NEW next \in Nat, NEW vis, NEW que, NEW timers, NEW closed,
         ToPlaces(vis, que, timers, closed, next), ToFull(vis, que, timers, closed),
         NEW id, NEW left, NEW gone,
         ToEnds(vis, timers, closed, id, left, gone),
         NEW vis1, NEW que1, NEW timers1, ToPromotes(vis, que, id, left, vis1, que1, timers1)
  PROVE  ToPlaces(vis1, que1, timers1, gone, next) /\ ToFull(vis1, que1, timers1, gone)
  <1>0. ToCap \in Nat
    BY ToAssumption
  <1>1. /\ vis \in Seq(Nat) /\ que \in Seq(Nat) /\ Distinct(vis) /\ Distinct(que)
        /\ Values(vis) \cap Values(que) = {} /\ Values(vis) \cup Values(que) \subseteq 1..next
        /\ Values(vis) \subseteq timers /\ timers \subseteq Values(vis) \cup closed
        /\ closed \subseteq 1..next /\ closed \cap (Values(vis) \cup Values(que)) = {}
    BY DEF ToPlaces
  <1>2. PICK w : w = Without(vis, id)
    OBVIOUS
  <1>3. /\ w \in Seq(Nat) /\ Values(w) = Values(vis) \ {id} /\ Distinct(w)
        /\ Len(w) = (IF id \in Values(vis) THEN Len(vis) - 1 ELSE Len(vis)) /\ Len(w) \in Nat /\ Len(vis) \in Nat
    BY <1>1, <1>2, WithoutValues
  <1>4. /\ id \notin Values(que) /\ gone \subseteq 1..next
        /\ Values(w) \subseteq left /\ left \subseteq Values(w) \cup gone /\ gone \cap (Values(w) \cup Values(que)) = {}
    BY <1>1, <1>3 DEF ToEnds
  <1>5. /\ id \in Values(vis) => gone \ left = closed \ timers
        /\ id \notin Values(vis) => id \in closed /\ id \in timers /\ gone \ left = (closed \ timers) \cup {id}
    BY <1>1 DEF ToEnds
  <1>6. IsFiniteSet(closed \ timers) /\ Cardinality(closed \ timers) \in Nat
    BY <1>1, ToFinite
  <1>7. Len(w) + 1 <= ToCap + Cardinality(gone \ left)
    <2>2. Len(vis) <= ToCap + Cardinality(closed \ timers)
      BY DEF ToFull
    <2>3. CASE id \in Values(vis)
      <3>1. Cardinality(gone \ left) = Cardinality(closed \ timers) /\ Len(w) = Len(vis) - 1
        BY <1>3, <1>5, <2>3
      <3>2. QED
        BY <1>0, <1>3, <1>6, <2>2, <3>1
    <2>4. CASE id \notin Values(vis)
      <3>1. gone \ left = (closed \ timers) \cup {id} /\ id \notin closed \ timers /\ Len(w) = Len(vis)
        BY <1>3, <1>5, <2>4
      <3>2. Cardinality(gone \ left) = Cardinality(closed \ timers) + 1
        BY <1>6, <3>1, FS_AddElement
      <3>3. QED
        BY <1>0, <1>3, <1>6, <2>2, <3>1, <3>2
    <2>5. QED
      BY <2>3, <2>4
  <1>10. Cardinality(gone \ left) \in Nat
    BY <1>4, ToFinite
  <1>8. CASE que = <<>>
    <2>1. vis1 = w /\ que1 = <<>> /\ timers1 = left /\ que1 = que
      BY <1>2, <1>8 DEF ToPromotes
    <2>2. ToPlaces(vis1, que1, timers1, gone, next)
      BY <1>1, <1>3, <1>4, <2>1 DEF ToPlaces
    <2>3. Len(w) <= ToCap + Cardinality(gone \ left)
      BY <1>0, <1>3, <1>7, <1>10
    <2>4. QED
      BY <2>1, <2>2, <2>3 DEF ToFull
  <1>9. CASE que # <<>>
    <2>1. PICK h : h = Head(que)
      OBVIOUS
    <2>2. vis1 = Append(w, h) /\ que1 = Tail(que) /\ timers1 = left \cup {h}
      BY <1>2, <1>9, <2>1 DEF ToPromotes
    <2>3. /\ que1 \in Seq(Nat) /\ h \in Nat /\ h \in Values(que) /\ Distinct(que1) /\ Values(que1) = Values(que) \ {h}
      BY <1>1, <1>9, <2>1, <2>2, TailValues
    <2>4. h \notin Values(w) /\ vis1 \in Seq(Nat) /\ Len(vis1) = Len(w) + 1
      BY <1>1, <1>3, <2>2, <2>3
    <2>5. Values(vis1) = Values(w) \cup {h} /\ Distinct(vis1)
      BY <1>3, <2>2, <2>3, <2>4, AppendValues
    <2>6. ToPlaces(vis1, que1, timers1, gone, next)
      BY <1>1, <1>3, <1>4, <2>2, <2>3, <2>4, <2>5 DEF ToPlaces
    <2>7. gone \ timers1 = gone \ left
      BY <1>4, <2>2, <2>3
    <2>8. Len(vis1) >= ToCap /\ Len(vis1) <= ToCap + Cardinality(gone \ timers1)
      <3>1. Len(vis) >= ToCap
        BY <1>9 DEF ToFull
      <3>2. Len(w) + 1 <= ToCap + Cardinality(gone \ left)
        BY <1>7
      <3>3. Len(w) >= Len(vis) - 1
        BY <1>3
      <3>4. PICK a, b, c, m : a = Len(w) /\ b = Len(vis) /\ c = Len(vis1) /\ m = Cardinality(gone \ left)
        OBVIOUS
      <3>5. a \in Nat /\ b \in Nat /\ m \in Nat /\ c = a + 1 /\ b >= ToCap /\ a + 1 <= ToCap + m /\ a >= b - 1
        BY <1>3, <1>10, <2>4, <3>1, <3>2, <3>3, <3>4
      <3>6. c >= ToCap /\ c <= ToCap + m
        BY <1>0, <3>5
      <3>7. QED
        BY <2>7, <3>4, <3>6
    <2>9. QED
      BY <2>6, <2>8 DEF ToFull
  <1>11. QED
    BY <1>8, <1>9

LEMMA ToRemoveToast ==
  ASSUME ToInv, NEW id, NEW left, removeToast(id, left),
         \/ id \in toTimers /\ left = toTimers \ {id} /\ toClosed' = toClosed
         \/ id \in Values(toVisible) /\ left = toTimers /\ toClosed' = toClosed \cup {id}
  PROVE  ToInv'
  <1>1. toNext \in 0..ToMax /\ toNext' = toNext /\ toNext \in Nat
    BY ToAssumption DEF ToInv, removeToast
  <1>2. toQueued \in Seq(Nat) /\ toVisible \in Seq(Nat)
    BY DEF ToInv, ToPlaces
  <1>3. Without(toVisible, id) \in Seq(Nat)
    BY <1>2, WithoutValues
  <1>4. /\ toVisible' = Without(toVisible, id) \o promoted
        /\ toQueued' = SubSeq(toQueued, Len(promoted) + 1, Len(toQueued)) /\ toTimers' = timersAfter(left)
    BY DEF removeToast, others, Without
  <1>5. \/ toQueued = <<>> /\ toVisible' = Without(toVisible, id) /\ toQueued' = <<>> /\ toTimers' = left
        \/ toQueued # <<>> /\ toVisible' = Append(Without(toVisible, id), Head(toQueued)) /\ toQueued' = Tail(toQueued)
           /\ toTimers' = left \cup {Head(toQueued)}
    <2>1. CASE toQueued = <<>>
      <3>1. promoted = <<>> /\ toTimers' = left /\ Len(promoted) = 0 /\ Len(toQueued) = 0
        BY <1>4, <2>1 DEF promoted, timersAfter
      <3>2. Without(toVisible, id) \o <<>> = Without(toVisible, id)
        BY <1>3, ConcatEmptySeq
      <3>3. SubSeq(toQueued, 0 + 1, 0) = <<>>
        BY SubSeqEmpty
      <3>4. QED
        BY <1>4, <2>1, <3>1, <3>2, <3>3
    <2>2. CASE toQueued # <<>>
      <3>1. promoted = <<Head(toQueued)>> /\ toTimers' = left \cup {Head(toQueued)} /\ Len(promoted) = 1 /\ Head(toQueued) \in Nat
        BY <1>2, <1>4, <2>2 DEF promoted, timersAfter
      <3>2. PICK w, h : w = Without(toVisible, id) /\ h = Head(toQueued)
        OBVIOUS
      <3>3. w \in Seq(Nat) /\ h \in Nat
        BY <1>3, <3>1, <3>2
      <3>4. w \o <<h>> = Append(w, h)
        BY <3>3
      <3>5. SubSeq(toQueued, 2, Len(toQueued)) = Tail(toQueued)
        BY <1>2, <2>2, TailIsSubSeq
      <3>6. toQueued' = Tail(toQueued)
        BY <1>4, <3>1, <3>5
      <3>7. toVisible' = Append(w, h)
        BY <1>4, <3>1, <3>2, <3>4
      <3>8. QED
        BY <2>2, <3>1, <3>2, <3>6, <3>7
    <2>3. QED
      BY <2>1, <2>2
  <1>6. ToPlaces(toVisible, toQueued, toTimers, toClosed, toNext) /\ ToFull(toVisible, toQueued, toTimers, toClosed)
    BY DEF ToInv
  <1>7. PICK vis1, que1, timers1, gone : vis1 = toVisible' /\ que1 = toQueued' /\ timers1 = toTimers' /\ gone = toClosed'
    OBVIOUS
  <1>8. ToPlaces(vis1, que1, timers1, gone, toNext) /\ ToFull(vis1, que1, timers1, gone)
    <2>1. ToPromotes(toVisible, toQueued, id, left, vis1, que1, timers1)
      BY <1>5, <1>7 DEF ToPromotes
    <2>2. ToEnds(toVisible, toTimers, toClosed, id, left, gone)
      BY <1>7 DEF ToEnds
    <2>3. QED
      BY <1>1, <1>6, <2>1, <2>2, ToRemoves
  <1>9. QED
    BY <1>1, <1>7, <1>8 DEF ToInv

LEMMA ToInductive == ToInit /\ [][ToNext]_toVars => []ToInv
  <1>0. ToCap \in Nat \ {0} /\ ToMax \in Nat
    BY ToAssumption
  <1>1. ToInit => ToInv
    <2> SUFFICES ASSUME ToInit PROVE ToInv
      OBVIOUS
    <2>1. toVisible = <<>> /\ toQueued = <<>> /\ toTimers = {} /\ toNext = 0 /\ toClosed = {}
      BY DEF ToInit
    <2>2. <<>> \in Seq(Nat) /\ Distinct(<<>>) /\ Values(<<>>) = {} /\ Len(<<>>) = 0
      BY DEF Distinct, Values
    <2>3. Cardinality({} \ {}) = 0
      BY FS_EmptySet
    <2>4. ToPlaces(<<>>, <<>>, {}, {}, 0)
      BY <2>2 DEF ToPlaces
    <2>5. ToFull(<<>>, <<>>, {}, {})
      BY <1>0, <2>2, <2>3 DEF ToFull
    <2>6. 0 \in 0..ToMax
      BY <1>0
    <2>7. QED
      BY <2>1, <2>4, <2>5, <2>6 DEF ToInv
  <1>2. ToInv /\ [ToNext]_toVars => ToInv'
    <2> SUFFICES ASSUME ToInv, [ToNext]_toVars PROVE ToInv'
      OBVIOUS
    <2>1. CASE UNCHANGED toVars
      BY <2>1 DEF ToInv, toVars
    <2>2. CASE addToast
      <3>1. toNext < ToMax /\ toNext' = toNext + 1 /\ toClosed' = toClosed
        BY <2>2 DEF addToast
      <3>2. /\ toVisible \in Seq(Nat) /\ toQueued \in Seq(Nat) /\ Distinct(toVisible) /\ Distinct(toQueued)
            /\ Values(toVisible) \cap Values(toQueued) = {} /\ Values(toVisible) \cup Values(toQueued) \subseteq 1..toNext
            /\ Values(toVisible) \subseteq toTimers /\ toTimers \subseteq Values(toVisible) \cup toClosed
            /\ toClosed \subseteq 1..toNext /\ toClosed \cap (Values(toVisible) \cup Values(toQueued)) = {}
        BY DEF ToInv, ToPlaces
      <3>3. (toQueued # <<>> => Len(toVisible) >= ToCap) /\ Len(toVisible) <= ToCap + Cardinality(toClosed \ toTimers)
        BY DEF ToInv, ToFull
      <3>4. toNext \in 0..ToMax /\ toNext \in Nat /\ toNext' \in 0..ToMax
        BY <1>0, <3>1 DEF ToInv
      <3>5. PICK id : id = toNext + 1
        OBVIOUS
      <3>6. id \in Nat /\ id \notin 1..toNext /\ id \in 1..toNext' /\ 1..toNext \subseteq 1..toNext'
        BY <3>1, <3>4, <3>5
      <3>7. id \notin Values(toVisible) /\ id \notin Values(toQueued) /\ id \notin toClosed
        BY <3>2, <3>6
      <3>8. CASE mustQueue
        <4>1. Len(toVisible) >= ToCap /\ toQueued' = Append(toQueued, id) /\ UNCHANGED <<toVisible, toTimers>>
          BY <2>2, <3>5, <3>8 DEF addToast, mustQueue, freshId
        <4>2. toQueued' \in Seq(Nat) /\ Values(toQueued') = Values(toQueued) \cup {id} /\ Distinct(toQueued')
          BY <3>2, <3>6, <3>7, <4>1, AppendValues
        <4>3. ToPlaces(toVisible, toQueued, toTimers, toClosed, toNext)'
          BY <3>1, <3>2, <3>6, <3>7, <4>1, <4>2 DEF ToPlaces
        <4>4. ToFull(toVisible, toQueued, toTimers, toClosed)'
          BY <3>1, <3>3, <4>1 DEF ToFull
        <4>5. QED
          BY <3>4, <4>3, <4>4 DEF ToInv
      <3>9. CASE ~mustQueue
        <4>1. ~(Len(toVisible) >= ToCap) /\ toVisible' = Append(toVisible, id) /\ toTimers' = toTimers \cup {id} /\ toQueued' = toQueued
          BY <2>2, <3>5, <3>9 DEF addToast, mustQueue, freshId
        <4>2. toVisible' \in Seq(Nat) /\ Values(toVisible') = Values(toVisible) \cup {id} /\ Distinct(toVisible')
          BY <3>2, <3>6, <3>7, <4>1, AppendValues
        <4>3. ToPlaces(toVisible, toQueued, toTimers, toClosed, toNext)'
          BY <3>1, <3>2, <3>6, <3>7, <4>1, <4>2 DEF ToPlaces
        <4>4. Len(toVisible') = Len(toVisible) + 1 /\ Len(toVisible) \in Nat /\ toQueued = <<>>
          BY <3>2, <3>3, <4>1
        <4>5. toClosed \ toTimers' \subseteq 1..toNext
          BY <3>2
        <4>6. Cardinality(toClosed \ toTimers') \in Nat
          BY <3>4, <4>5, ToFinite
        <4>7. Len(toVisible') <= ToCap + Cardinality(toClosed \ toTimers')
          BY <1>0, <4>1, <4>4, <4>6
        <4>8. ToFull(toVisible, toQueued, toTimers, toClosed)'
          BY <3>1, <4>1, <4>4, <4>7 DEF ToFull
        <4>9. QED
          BY <3>4, <4>3, <4>8 DEF ToInv
      <3>10. QED
        BY <3>8, <3>9
    <2>3. ASSUME NEW id, timerFires(id) PROVE ToInv'
      <3>1. id \in toTimers /\ removeToast(id, toTimers \ {id}) /\ toClosed' = toClosed
        BY <2>3 DEF timerFires
      <3>2. QED
        BY <3>1, ToRemoveToast
    <2>4. ASSUME NEW id, closeToast(id) PROVE ToInv'
      <3>1. id \in Values(toVisible) /\ removeToast(id, toTimers) /\ toClosed' = toClosed \cup {id}
        BY <2>4 DEF closeToast, ToIds, Values
      <3>2. QED
        BY <3>1, ToRemoveToast
    <2>5. QED
      BY <2>1, <2>2, <2>3, <2>4 DEF ToNext
  <1>3. QED
    BY <1>1, <1>2, PTL

LEMMA ToResult == ToInv => ToTypeOK /\ ToQueueMeansFull
  <1> SUFFICES ASSUME ToInv PROVE ToTypeOK /\ ToQueueMeansFull
    OBVIOUS
  <1>0. ToCap \in Nat /\ toNext \in Nat /\ toNext \in 0..ToMax
    BY ToAssumption DEF ToInv
  <1>1. /\ toVisible \in Seq(Nat) /\ Values(toVisible) \cup Values(toQueued) \subseteq 1..toNext
        /\ toTimers \subseteq Values(toVisible) \cup toClosed /\ toClosed \subseteq 1..toNext
    BY DEF ToInv, ToPlaces
  <1>2. ToTypeOK
    BY <1>0, <1>1 DEF ToTypeOK, ToIds, Values
  <1>3. IsFiniteSet(toClosed) /\ Cardinality(toClosed) \in Nat /\ toClosed \ toTimers \subseteq 1..toNext
    BY <1>0, <1>1, ToFinite
  <1>4. Cardinality(toClosed \ toTimers) \in Nat
    BY <1>0, <1>3, ToFinite
  <1>5. Cardinality(toClosed \ toTimers) <= Cardinality(toClosed)
    BY <1>3, FS_Subset
  <1>6. (toQueued # <<>> => Len(toVisible) >= ToCap) /\ Len(toVisible) <= ToCap + Cardinality(toClosed \ toTimers)
    BY DEF ToInv, ToFull
  <1>7. Len(toVisible) \in Nat
    BY <1>1
  <1>8. QED
    BY <1>0, <1>2, <1>3, <1>4, <1>5, <1>6, <1>7 DEF ToQueueMeansFull

-----------------------------------------------------------------------------
(* Types. *)

\* An absent counter has no expiry, and no more faults happen than the bound allows.
LEMMA KeyTypesInductive == KeyInit /\ [][KeyNext]_keyVars => []KeyTypeOK
  <1>0. LIMIT \in Nat \ {0} /\ WINDOW \in Nat /\ KeyMaxFaults \in Nat
    BY LimiterAssumption
  <1> DEFINE Small == (count = 0 => ttl = 0) /\ keyFaults <= KeyMaxFaults
  <1>1. KeyInit => Small
    BY <1>0 DEF KeyInit
  <1>2. Small /\ KeyBurst /\ [KeyNext]_keyVars => Small'
    <2> SUFFICES ASSUME Small, KeyBurst, [KeyNext]_keyVars PROVE Small'
      OBVIOUS
    <2>1. count \in Nat /\ ttl \in Nat /\ keyFaults \in Nat
      BY <1>0 DEF KeyBurst, KeyInv, Counted
    <2>2. ASSUME NEW r \in Requests, sendIncr(r) \/ checkRedisLimit(r) PROVE Small'
      BY <2>2 DEF sendIncr, checkRedisLimit
    <2>3. ASSUME NEW r \in Requests, incrTimesOut(r) PROVE Small'
      BY <1>0, <2>1, <2>3 DEF incrTimesOut, KeyFault
    <2>4. CASE KeyCrash
      BY <1>0, <2>1, <2>4 DEF KeyCrash, KeyFault
    <2>5. CASE redisIncr
      <3>1. count' = Min({count + 1, LIMIT + 1}) /\ UNCHANGED <<ttl, keyFaults>>
        BY <2>5 DEF redisIncr
      <3>2. Min({count + 1, LIMIT + 1}) = IF count + 1 <= LIMIT + 1 THEN count + 1 ELSE LIMIT + 1
        BY <1>0, <2>1, MinOfTwo
      <3>3. count' # 0
        BY <1>0, <2>1, <3>1, <3>2
      <3>4. QED
        BY <3>1, <3>3
    <2>6. CASE redisExpire
      BY <2>1, <2>6 DEF redisExpire
    <2>7. CASE Tick
      BY <2>1, <2>7 DEF Tick
    <2>8. CASE UNCHANGED keyVars
      BY <2>8 DEF keyVars
    <2>9. QED
      BY <2>2, <2>3, <2>4, <2>5, <2>6, <2>7, <2>8 DEF KeyNext
  <1>3. KeyBurst /\ Small => KeyTypeOK
    <2> SUFFICES ASSUME KeyBurst, Small PROVE KeyTypeOK
      OBVIOUS
    <2>1. /\ count \in Counted /\ ttl \in 0..WINDOW /\ keyFaults \in Nat
          /\ wire \in Seq(Command) /\ req \in [Requests -> KeyReqs]
      BY DEF KeyBurst, KeyInv
    <2>2. recent \in [1..WINDOW -> Nat]
      BY DEF KeyBurst, KeyEpochs, KeySums
    <2>3. keyFaults \in 0..KeyMaxFaults
      BY <1>0, <2>1
    <2>4. \A k \in DOMAIN wire : wire[k] \in Command
      BY <2>1
    <2>5. QED
      BY <2>1, <2>2, <2>3, <2>4 DEF KeyTypeOK, KeyReqs
  <1>4. QED
    BY <1>1, <1>2, <1>3, KeyBurstInductive, PTL

LEMMA GateTypes == GateInv /\ GateBurst => GateTypeOK
  BY DEF GateInv, GateBurst, GateEntries, GateRow, GateTypeOK

\* The step the timer of "Back" will set is one before the last.
LEMMA ObTypes == ObInit /\ [][ObNext]_obVars => []ObTypeOK
  <1>0. ObSteps \in Nat /\ ObSteps >= 2
    BY ObAssumption
  <1>1. ObInit => ObTypeOK
    BY <1>0 DEF ObInit, ObTypeOK
  <1>2. ObTypeOK /\ [ObNext]_obVars => ObTypeOK'
    <2> SUFFICES ASSUME ObTypeOK, [ObNext]_obVars PROVE ObTypeOK'
      OBVIOUS
    <2>1. ASSUME UNCHANGED <<obStep, obPhase, obTarget>> PROVE ObTypeOK'
      BY <2>1 DEF ObTypeOK
    <2>2. ASSUME NEW p, dismiss(p) PROVE ObTypeOK'
      BY <2>1, <2>2 DEF dismiss
    <2>3. CASE nextStep
      <3>1. CASE isLast
        BY <2>1, <2>3, <3>1 DEF nextStep, dismiss
      <3>2. CASE ~isLast
        <4>1. obStep' = obStep + 1 /\ UNCHANGED <<obPhase, obTarget>>
          BY <2>3, <3>2 DEF nextStep
        <4>2. obStep # ObSteps - 1 /\ obStep \in 0..(ObSteps - 1)
          BY <3>2 DEF isLast, ObTypeOK
        <4>3. obStep' \in 0..(ObSteps - 1)
          BY <1>0, <4>1, <4>2
        <4>4. QED
          BY <4>1, <4>3 DEF ObTypeOK
      <3>3. QED
        BY <3>1, <3>2
    <2>4. CASE prevStep
      BY <1>0, <2>4 DEF prevStep, ObTypeOK
    <2>5. CASE exitTimer
      BY <1>0, <2>5 DEF exitTimer, ObTypeOK
    <2>6. CASE enterTimer
      BY <2>6 DEF enterTimer, afterEntering, ObTypeOK
    <2>7. CASE closeWizard \/ skip
      BY <2>2, <2>7 DEF closeWizard, skip
    <2>8. CASE replay \/ visitAgain
      BY <1>0, <2>8 DEF replay, visitAgain, obPageLoad, ObTypeOK
    <2>9. CASE UNCHANGED obVars
      BY <2>1, <2>9 DEF obVars
    <2>10. QED
      BY <2>3, <2>4, <2>5, <2>6, <2>7, <2>8, <2>9 DEF ObNext
  <1>3. QED
    BY <1>1, <1>2, PTL

IcReads == [pc : {"idle", "count", "select", "setCache"}, list : IcLists \cup {"none"},
            total : 0..Cardinality(IcIssues), rows : SUBSET IcIssues]
IcEntries == [rows : SUBSET IcIssues, ttl : 0..IcTtl]
IcTypes == icCache \in [IcLists -> IcEntries] /\ icReader \in [IcReaders -> IcReads]

\* A list never has more rows than the table.
LEMMA IcCounts == ASSUME NEW l
                  PROVE  rowsOf(l) \in SUBSET IcIssues /\ Cardinality(rowsOf(l)) \in 0..Cardinality(IcIssues)
  <1>1. IsFiniteSet(IcIssues)
    BY IcAssumption
  <1>2. rowsOf(l) \in SUBSET IcIssues
    BY DEF rowsOf
  <1>3. /\ IsFiniteSet(rowsOf(l)) /\ Cardinality(rowsOf(l)) <= Cardinality(IcIssues)
        /\ Cardinality(IcIssues) \in Nat /\ Cardinality(rowsOf(l)) \in Nat
    BY <1>1, <1>2, FS_Subset, FS_CardinalityType
  <1>4. QED
    BY <1>2, <1>3

LEMMA IcTypesInductive == IcInit /\ [][IcNext]_icVars => []IcTypeOK
  <1>0. IcTtl \in Nat /\ IcTtl >= 1 /\ Cardinality(IcIssues) \in Nat
    BY IcAssumption, FS_CardinalityType
  <1>1. NoEntry \in IcEntries /\ IcIdle \in IcReads
    BY <1>0 DEF NoEntry, IcEntries, IcIdle, IcReads
  <1>2. IcInit => IcTypes
    BY <1>1 DEF IcInit, IcTypes
  <1>3. IcTypes /\ [IcNext]_icVars => IcTypes'
    <2> SUFFICES ASSUME icCache \in [IcLists -> IcEntries], icReader \in [IcReaders -> IcReads], [IcNext]_icVars
                 PROVE  IcTypes'
      BY DEF IcTypes
    <2>1. ASSUME UNCHANGED <<icCache, icReader>> PROVE IcTypes'
      BY <2>1 DEF IcTypes
    <2>2. ASSUME NEW r \in IcReaders, getFromCache(r) PROVE IcTypes'
      <3>1. PICK l \in IcLists :
              \/ icReader' = [icReader EXCEPT ![r] = IcIdle]
              \/ icReader' = [icReader EXCEPT ![r] = [IcIdle EXCEPT !.pc = "count", !.list = l]]
        BY <2>2 DEF getFromCache
      <3>2. [IcIdle EXCEPT !.pc = "count", !.list = l] \in IcReads
        BY <1>1 DEF IcReads
      <3>3. UNCHANGED icCache
        BY <2>2 DEF getFromCache
      <3>4. QED
        BY <1>1, <3>1, <3>2, <3>3 DEF IcTypes
    <2>3. ASSUME NEW r \in IcReaders, countIssues(r) PROVE IcTypes'
      <3>1. PICK n : n = Cardinality(rowsOf(icReader[r].list))
        OBVIOUS
      <3>2. n \in 0..Cardinality(IcIssues)
        BY <3>1, IcCounts
      <3>3. icReader' = [icReader EXCEPT ![r] = [@ EXCEPT !.pc = "select", !.total = n]] /\ UNCHANGED icCache
        BY <2>3, <3>1 DEF countIssues
      <3>4. [icReader[r] EXCEPT !.pc = "select", !.total = n] \in IcReads
        BY <3>2 DEF IcReads
      <3>5. QED
        BY <3>3, <3>4 DEF IcTypes
    <2>4. ASSUME NEW r \in IcReaders, selectIssues(r) PROVE IcTypes'
      <3>1. PICK rows : rows = rowsOf(icReader[r].list)
        OBVIOUS
      <3>2. rows \in SUBSET IcIssues
        BY <3>1, IcCounts
      <3>3. icReader' = [icReader EXCEPT ![r] = [@ EXCEPT !.pc = "setCache", !.rows = rows]] /\ UNCHANGED icCache
        BY <2>4, <3>1 DEF selectIssues
      <3>4. [icReader[r] EXCEPT !.pc = "setCache", !.rows = rows] \in IcReads
        BY <3>2 DEF IcReads
      <3>5. QED
        BY <3>3, <3>4 DEF IcTypes
    <2>5. ASSUME NEW r \in IcReaders, setCache(r) PROVE IcTypes'
      <3>1. [rows |-> icReader[r].rows, ttl |-> IcTtl] \in IcEntries
        BY <1>0 DEF IcReads, IcEntries
      <3>2. icCache' \in [IcLists -> IcEntries]
        BY <2>5, <3>1 DEF setCache, entryTtl
      <3>3. icReader' = [icReader EXCEPT ![r] = IcIdle]
        BY <2>5 DEF setCache
      <3>4. QED
        BY <1>1, <3>2, <3>3 DEF IcTypes
    <2>6. ASSUME NEW h \in IcHooks,
                 \/ ignoreDelivery(h) \/ insertIssue(h) \/ removeLabel(h) \/ issueEdited(h) \/ issueClosed(h)
                 \/ recordLabel(h) \/ recordLabelFails(h) \/ markPendingReview(h) \/ markPendingReviewFails(h)
          PROVE  IcTypes'
      BY <2>1, <2>6 DEF ignoreDelivery, insertIssue, removeLabel, issueEdited, issueClosed, setStatus,
                        recordLabel, recordLabelFails, markPendingReview, markPendingReviewFails
    <2>7. ASSUME NEW h \in IcHooks, finishDelivery(h) PROVE IcTypes'
      BY <1>1, <2>7 DEF finishDelivery, invalidateCache, IcTypes
    <2>11. CASE AssignIssue
      BY <2>1, <2>11 DEF AssignIssue
    <2>8. CASE IcTick
      <3> DEFINE e(l) == IF icCache[l].ttl \in 2..IcTtl THEN [icCache[l] EXCEPT !.ttl = @ - 1]
                         ELSE IF icCache[l].ttl = 1 THEN NoEntry ELSE icCache[l]
      <3>1. icCache' = [l \in IcLists |-> e(l)] /\ UNCHANGED icReader
        BY <2>8 DEF IcTick
      <3>2. ASSUME NEW l \in IcLists PROVE e(l) \in IcEntries
        BY <1>0, <1>1 DEF IcEntries
      <3> HIDE DEF e
      <3>3. QED
        BY <3>1, <3>2 DEF IcTypes
    <2>9. CASE UNCHANGED icVars
      BY <2>1, <2>9 DEF icVars
    <2>10. QED
      BY <2>2, <2>3, <2>4, <2>5, <2>6, <2>7, <2>8, <2>9, <2>11 DEF IcNext, IcHookStep, IcReaderStep
  <1>4. IcInv /\ IcTypes => IcTypeOK
    BY DEF IcInv, IcRow, IcHandler, IcTypes, IcReads, IcEntries, IcTypeOK
  <1>5. QED
    BY <1>2, <1>3, <1>4, IcInductive, PTL

\* Calls have a number of their own, and what a load has read are issues.
MgPlaces == MgOrgs \cup {MgForbidden}
MgRead == [apps : SUBSET MgIssues, asgs : SUBSET MgIssues]
MgCallOK(c) == c \in [n : Nat \ {0}, issue : MgIssues, op : {"assign", "complete", "revoke"}, org : MgPlaces, phase : {"call", "load"}]
MgListsOK(x) == x \in MgRead
MgLoadTyped(l) == l \in [by : Nat, org : MgPlaces, read : BOOLEAN, lists : MgRead]
MgTypes == /\ MgTypeOK /\ MgListsOK(mgLists)
           /\ \A c \in mgCalls : MgCallOK(c)
           /\ \A l \in mgLoads : MgLoadTyped(l)

LEMMA MgNewLoads == ASSUME NEW org \in MgPlaces, NEW by \in Nat PROVE MgLoadTyped(newLoad(by, org))
  BY DEF MgLoadTyped, newLoad, NoLists, MgRead

LEMMA MgTypesInductive == MgInit /\ [][MgNext]_mgVars => []MgTypeOK
  <1>1. MgInit => MgTypes
    BY DEF MgInit, MgTypes, MgTypeOK, NoLists, MgOrgs, MgListsOK, MgRead
  <1>2. MgTypes /\ [MgNext]_mgVars => MgTypes'
    <2> SUFFICES ASSUME MgTypes, [MgNext]_mgVars PROVE MgTypes'
      OBVIOUS
    <2>0. \A org : MgListsOK(chainLists(org))
      BY DEF chainLists, MgListsOK, MgRead
    <2>a. /\ \A by \in Nat, org \in MgPlaces : MgLoadTyped(newLoad(by, org))
          /\ mgOrg \in MgPlaces /\ MgOrgs \subseteq MgPlaces
      BY MgNewLoads DEF MgPlaces, MgTypes, MgTypeOK
    <2>1. CASE openRevoke \/ closeRevoke
      BY <2>1 DEF openRevoke, closeRevoke, MgTypes, MgTypeOK
    <2>2. ASSUME NEW org \in MgOrgs, setRoute(org) PROVE MgTypes'
      <3>1. /\ mgOrg' = org /\ mgVerify' = mgVerify \cup {org}
            /\ mgLoads' = mgLoads \/ mgLoads' = mgLoads \cup {newLoad(0, org)}
            /\ UNCHANGED <<mgChain, mgLists, mgCalls, mgBusy>>
        BY <2>2 DEF setRoute, AddLoad
      <3>2. MgTypeOK'
        BY <3>1 DEF MgTypes, MgTypeOK
      <3>3. QED
        BY <2>a, <3>1, <3>2 DEF MgTypes
    <2>3. ASSUME NEW org \in MgOrgs, NEW answered \in BOOLEAN, verify(org, answered) PROVE MgTypes'
      <3>1. /\ mgVerify' = mgVerify \ {org} /\ UNCHANGED <<mgChain, mgLists>>
            /\ \/ /\ UNCHANGED <<mgOrg, mgCalls, mgBusy>>
                  /\ mgLoads' = mgLoads \/ mgLoads' = mgLoads \cup {newLoad(0, mgOrg)}
               \/ mgOrg' = MgForbidden /\ mgLoads' = {} /\ mgCalls' = {} /\ mgBusy' = 0
        BY <2>3 DEF verify, AddLoad
      <3>2. MgTypeOK'
        BY <3>1 DEF MgTypes, MgTypeOK
      <3>3. QED
        BY <2>a, <3>1, <3>2 DEF MgTypes
    <2>4. ASSUME NEW l \in mgLoads, loadReads(l) PROVE MgTypes'
      <3> DEFINE m == [l EXCEPT !.read = TRUE, !.lists = chainLists(l.org)]
      <3>1. mgLoads' = (mgLoads \ {l}) \cup {m} /\ UNCHANGED <<mgChain, mgOrg, mgVerify, mgLists, mgCalls, mgBusy>>
        BY <2>4 DEF loadReads
      <3>2. PICK x : x = chainLists(l.org) /\ x \in MgRead
        BY <2>0 DEF MgListsOK
      <3>3. l \in [by : Nat, org : MgPlaces, read : BOOLEAN, lists : MgRead]
        BY DEF MgTypes, MgLoadTyped
      <3>4. MgLoadTyped(m)
        BY <3>2, <3>3 DEF MgLoadTyped
      <3> HIDE DEF m
      <3>5. MgTypeOK'
        BY <3>1 DEF MgTypes, MgTypeOK
      <3>6. QED
        BY <3>1, <3>4, <3>5 DEF MgTypes
    <2>5. ASSUME NEW l \in mgLoads, NEW ok \in BOOLEAN, loadEnds(l, ok) PROVE MgTypes'
      <3>1. /\ mgLoads' = mgLoads \ {l} /\ mgCalls' = {c \in mgCalls : c.n # l.by}
            /\ mgLists' = l.lists \/ mgLists' = mgLists
            /\ mgBusy' = IF l.by # 0 THEN 0 ELSE mgBusy
            /\ UNCHANGED <<mgChain, mgOrg, mgVerify>>
        BY <2>5 DEF loadEnds
      <3>2. MgListsOK(mgLists')
        BY <3>1 DEF MgTypes, MgLoadTyped, MgListsOK
      <3>3. mgBusy' # 0 => \E c \in mgCalls' : c.issue = mgBusy'
        BY <3>1 DEF MgTypes, MgTypeOK, MgCallOK
      <3>4. QED
        BY <3>1, <3>2, <3>3 DEF MgTypes, MgTypeOK, MgListsOK, MgRead
    <2>6. ASSUME NEW i \in MgIssues, NEW op \in {"assign", "complete", "revoke"}, NEW n \in 1..MgMaxCalls, handleCall(i, op, n) PROVE MgTypes'
      <3> DEFINE c == [n |-> n, issue |-> i, op |-> op, org |-> mgOrg, phase |-> "call"]
      <3>1. mgBusy' = i /\ mgCalls' = mgCalls \cup {c} /\ UNCHANGED <<mgChain, mgOrg, mgVerify, mgLists, mgLoads>>
        BY <2>6 DEF handleCall
      <3>2. MgCallOK(c) /\ c.issue = i
        BY <2>a DEF MgCallOK
      <3> HIDE DEF c
      <3>3. QED
        BY <3>1, <3>2 DEF MgTypes, MgTypeOK
    <2>7. ASSUME NEW c \in mgCalls, callAnswered(c) PROVE MgTypes'
      <3>0. MgCallOK(c)
        BY DEF MgTypes
      <3> DEFINE d == [c EXCEPT !.phase = "load"]
      <3>2. MgCallOK(d) /\ d.issue = c.issue /\ c.n \in Nat /\ c.org \in MgPlaces
        BY <3>0 DEF MgCallOK
      <3> HIDE DEF d
      <3>3. UNCHANGED <<mgOrg, mgVerify, mgLists>>
        BY <2>7 DEF callAnswered
      <3>4. CASE mgCalls' = mgCalls \ {c} /\ mgBusy' = 0 /\ UNCHANGED <<mgChain, mgLoads>>
        BY <3>3, <3>4 DEF MgTypes, MgTypeOK
      <3>5. CASE /\ mgChain' = [mgChain EXCEPT ![c.org][c.issue] = IF c.op = "assign" THEN "assigned" ELSE "none"]
                 /\ afterCall(c)
        <4>1. mgCalls' = (mgCalls \ {c}) \cup {d} /\ mgLoads' = mgLoads \cup {newLoad(c.n, c.org)} /\ UNCHANGED mgBusy
          BY <3>5 DEF afterCall, AddLoad, d
        <4>2. mgChain' \in [MgOrgs -> [MgIssues -> {"none", "pending", "assigned"}]]
          BY <3>5 DEF MgTypes, MgTypeOK
        <4>3. mgBusy' # 0 => \E b \in mgCalls' : b.issue = mgBusy'
          BY <3>2, <4>1 DEF MgTypes, MgTypeOK
        <4>4. MgTypeOK'
          BY <3>3, <4>2, <4>3 DEF MgTypes, MgTypeOK
        <4>5. QED
          BY <2>a, <3>2, <3>3, <4>1, <4>4 DEF MgTypes, MgListsOK
      <3>6. QED
        BY <2>7, <3>4, <3>5 DEF callAnswered, finally
    <2>8. CASE UNCHANGED mgVars
      BY <2>8 DEF mgVars, MgTypes, MgTypeOK
    <2>9. QED
      BY <2>1, <2>2, <2>3, <2>4, <2>5, <2>6, <2>7, <2>8 DEF MgNext, MgProgress
  <1>3. QED
    BY <1>1, <1>2, PTL DEF MgTypes

\* A transaction that was built is about an issue; only such a one is sent.
TxMade(x) == x \in Txs /\ x.fn # "none" /\ x.issue \in TxIssues
TxTight(q) ==
  /\ q \in [pc : {"idle", "hasApplied", "caps", "sequence", "send", "poll"}, tx : Txs, polls : 0..(TxMaxPolls - 1),
            fate : {"open", "ok", "failed"},
            answer : {"none", "refused", "xdr", "success", "failed", "assumed", "lost"}]
  /\ q.tx.fn # "none" => TxMade(q.tx)
  /\ q.pc \in {"hasApplied", "caps", "sequence"} => q.tx.issue \in TxIssues
  /\ q.pc \in {"send", "poll"} => TxMade(q.tx)
TxBooks == /\ txLedger \in [seq : Nat, applied : SUBSET TxIssues, assigned : SUBSET TxIssues, pool : SUBSET Txs]
           /\ txLedger.applied \cap txLedger.assigned = {}
           /\ \A x \in txLedger.pool : TxMade(x)
TxTypes == /\ DOMAIN txReq = TxTabs /\ \A t \in TxTabs : TxTight(txReq[t])
           /\ txDb \in [TxIssues -> {"none", "pending", "other"}] /\ txNow \in 0..TxMaxTime /\ TxBooks

LEMMA TxNumbers == TxMaxPolls \in Nat /\ TxMaxPolls >= 1 /\ TxMaxSeq \in Nat /\ TxMaxSeq >= 1 /\ TxMaxTime \in Nat /\ TxMaxTime >= 1 /\ TxLifetime \in Nat
  BY TxAssumption

\* One request changes.
LEMMA TxTabStep ==
  ASSUME TxTypes, NEW t \in TxTabs, NEW q, TxTight(q), txReq' = [txReq EXCEPT ![t] = q],
         TxBooks', UNCHANGED <<txDb, txNow>>
  PROVE  TxTypes'
  BY DEF TxTypes

LEMMA TxAnswerTight ==
  ASSUME NEW q, TxTight(q), NEW a \in {"refused", "success", "failed", "assumed", "lost"}
  PROVE  TxTight([q EXCEPT !.pc = "idle", !.answer = a, !.polls = 0])
  <1>1. 0 \in 0..(TxMaxPolls - 1)
    BY TxNumbers
  <1>2. QED
    BY <1>1 DEF TxTight

LEMMA TxFutTight ==
  ASSUME NEW q, TxTight(q), NEW pc \in {"caps", "sequence", "send", "poll"},
         pc \in {"caps", "sequence"} => q.tx.issue \in TxIssues,
         pc \in {"send", "poll"} => TxMade(q.tx)
  PROVE  TxTight([q EXCEPT !.pc = pc, !.tx = q.tx])
  BY DEF TxTight

LEMMA TxBuilt ==
  ASSUME TxTypes, NEW t \in TxTabs, NEW fn \in TxFunctions, NEW i \in TxIssues, NEW s \in Nat, s <= TxMaxSeq + 1,
         Built(t, buildRaw(fn, i, s)), OnlyReq
  PROVE  TxTypes'
  <1> DEFINE x == [fn |-> fn, issue |-> i, seq |-> s + 1, maxTime |-> txNow + TxLifetime, at |-> txNow]
             q == [pc |-> "idle", tx |-> x, polls |-> 0, fate |-> "open", answer |-> "xdr"]
  <1>0. 0 \in 0..(TxMaxPolls - 1)
    BY TxNumbers
  <1>1. s + 1 \in 0..(TxMaxSeq + 2) /\ txNow + TxLifetime \in 0..(TxMaxTime + TxLifetime) /\ txNow \in 0..TxMaxTime
    BY TxNumbers DEF TxTypes
  <1>2. fn # "none"
    BY TxAssumption DEF TxFunctions
  <1>3. TxMade(x)
    BY <1>1, <1>2 DEF TxMade, Txs
  <1>4. txReq' = [txReq EXCEPT ![t] = q] /\ UNCHANGED <<txDb, txNow, txLedger>>
    BY DEF Built, buildRaw, OnlyReq
  <1> HIDE DEF x
  <1>5. TxTight(q)
    BY <1>0, <1>3 DEF TxTight, TxMade
  <1> HIDE DEF q
  <1>6. TxBooks'
    BY <1>4 DEF TxTypes, TxBooks
  <1>7. QED
    BY <1>4, <1>5, <1>6, TxTabStep

LEMMA TxAnswered1 ==
  ASSUME TxTypes, NEW t \in TxTabs, NEW a \in {"refused", "success", "failed", "assumed", "lost"},
         TxAnswer(t, a), TxBooks', UNCHANGED <<txDb, txNow>>
  PROVE  TxTypes'
  <1>1. PICK q : q = [txReq[t] EXCEPT !.pc = "idle", !.answer = a, !.polls = 0]
    OBVIOUS
  <1>2. TxTight(q)
    BY <1>1, TxAnswerTight DEF TxTypes
  <1>3. txReq' = [txReq EXCEPT ![t] = q]
    BY <1>1 DEF TxAnswer
  <1>4. QED
    BY <1>2, <1>3, TxTabStep

LEMMA TxMoved ==
  ASSUME TxTypes, NEW t \in TxTabs, NEW pc \in {"caps", "sequence", "send", "poll"},
         pc \in {"caps", "sequence"} => txReq[t].tx.issue \in TxIssues,
         pc \in {"send", "poll"} => TxMade(txReq[t].tx),
         Fut(t, pc, txReq[t].tx), TxBooks', UNCHANGED <<txDb, txNow>>
  PROVE  TxTypes'
  <1>1. PICK q : q = [txReq[t] EXCEPT !.pc = pc, !.tx = txReq[t].tx]
    OBVIOUS
  <1>2. TxTight(q)
    BY <1>1, TxFutTight DEF TxTypes
  <1>3. txReq' = [txReq EXCEPT ![t] = q]
    BY <1>1 DEF Fut
  <1>4. QED
    BY <1>2, <1>3, TxTabStep

\* A ledger closes.
LEMMA TxCloses == ASSUME TxTypes, CloseTxLedger PROVE TxTypes'
  <1>1. PICK tx \in txLedger.pool :
          LET accepted == contractAccepts(tx.fn, tx.issue)
              rest == [txLedger EXCEPT !.seq = tx.seq, !.pool = {p \in @ : p.seq > tx.seq}]
          IN /\ txLedger' =
                  IF ~accepted THEN rest
                  ELSE [rest EXCEPT
                          !.applied = IF tx.fn = "apply_for_issue" THEN @ \cup {tx.issue} ELSE @ \ {tx.issue},
                          !.assigned = IF tx.fn = "assign_issue" THEN @ \cup {tx.issue} ELSE @ \ {tx.issue}]
             /\ txReq' = [t \in TxTabs |->
                           IF txReq[t].tx = tx THEN [txReq[t] EXCEPT !.fate = IF accepted THEN "ok" ELSE "failed"]
                           ELSE txReq[t]]
             /\ UNCHANGED <<txDb, txNow>>
    BY DEF CloseTxLedger
  <1>3. PICK rest : rest = [txLedger EXCEPT !.seq = tx.seq, !.pool = {p \in @ : p.seq > tx.seq}]
    OBVIOUS
  <1>4. TxMade(tx) /\ tx.seq \in Nat /\ txLedger \in [seq : Nat, applied : SUBSET TxIssues, assigned : SUBSET TxIssues, pool : SUBSET Txs]
    <2>1. TxMade(tx) /\ txLedger \in [seq : Nat, applied : SUBSET TxIssues, assigned : SUBSET TxIssues, pool : SUBSET Txs]
      BY DEF TxTypes, TxBooks
    <2>2. tx.seq \in 0..(TxMaxSeq + 2)
      BY <2>1 DEF TxMade, Txs
    <2>3. tx.seq \in Nat
      BY <2>2
    <2>4. QED
      BY <2>1, <2>3
  <1>5. /\ rest \in [seq : Nat, applied : SUBSET TxIssues, assigned : SUBSET TxIssues, pool : SUBSET Txs]
        /\ rest.applied = txLedger.applied /\ rest.assigned = txLedger.assigned /\ rest.pool \subseteq txLedger.pool
    <2>1. PICK P : P = {p \in txLedger.pool : p.seq > tx.seq}
      OBVIOUS
    <2>2. rest = [txLedger EXCEPT !.seq = tx.seq, !.pool = P]
      BY <1>3, <2>1
    <2>3. P \subseteq txLedger.pool
      BY <2>1
    <2>4. QED
      BY <1>4, <2>2, <2>3
  <1>6. \A x \in rest.pool : TxMade(x)
    BY <1>5 DEF TxTypes, TxBooks
  <1>7. TxBooks'
    <2>1. CASE ~contractAccepts(tx.fn, tx.issue)
      <3>1. txLedger' = rest
        BY <1>1, <1>3, <2>1
      <3>2. QED
        BY <1>5, <1>6, <3>1 DEF TxTypes, TxBooks
    <2>2. CASE contractAccepts(tx.fn, tx.issue)
      <3>1. PICK A : A = IF tx.fn = "apply_for_issue" THEN rest.applied \cup {tx.issue} ELSE rest.applied \ {tx.issue}
        OBVIOUS
      <3>2. PICK B : B = IF tx.fn = "assign_issue" THEN rest.assigned \cup {tx.issue} ELSE rest.assigned \ {tx.issue}
        OBVIOUS
      <3>3. txLedger' = [rest EXCEPT !.applied = A, !.assigned = B]
        BY <1>1, <1>3, <2>2, <3>1, <3>2
      <3>4. A \subseteq TxIssues /\ B \subseteq TxIssues
        BY <1>4, <1>5, <3>1, <3>2 DEF TxMade
      <3>5. A \cap B = {}
        <4>1. rest.applied \cap rest.assigned = {}
          BY <1>5 DEF TxTypes, TxBooks
        <4>2. QED
          BY <3>1, <3>2, <4>1
      <3>6. txLedger' \in [seq : Nat, applied : SUBSET TxIssues, assigned : SUBSET TxIssues, pool : SUBSET Txs]
            /\ txLedger'.applied = A /\ txLedger'.assigned = B /\ txLedger'.pool = rest.pool
        BY <1>5, <3>3, <3>4
      <3>7. QED
        BY <1>6, <3>5, <3>6 DEF TxBooks
    <2>3. QED
      BY <2>1, <2>2
  <1>8. PICK f \in {"ok", "failed"} :
          txReq' = [t \in TxTabs |-> IF txReq[t].tx = tx THEN [txReq[t] EXCEPT !.fate = f] ELSE txReq[t]]
    BY <1>1
  <1>9. ASSUME NEW t \in TxTabs PROVE TxTight(txReq'[t])
    <2>1. TxTight(txReq[t])
      BY DEF TxTypes
    <2>2. TxTight([txReq[t] EXCEPT !.fate = f])
      BY <2>1 DEF TxTight
    <2>3. QED
      BY <1>8, <2>1, <2>2
  <1>10. QED
    BY <1>1, <1>7, <1>8, <1>9 DEF TxTypes

LEMMA TxTypesInductive == TxInit /\ [][TxNext]_txVars => []TxTypeOK
  <1>1. TxInit => TxTypes
    <2> SUFFICES ASSUME TxInit PROVE TxTypes
      OBVIOUS
    <2>1. 0 \in 0..(TxMaxPolls - 1) /\ 0 \in 0..(TxMaxSeq + 2) /\ 0 \in 0..(TxMaxTime + TxLifetime) /\ 0 \in 0..TxMaxTime /\ 1 \in 0..TxMaxTime
      BY TxNumbers
    <2>2. NoTx \in Txs /\ NoTx.fn = "none"
      BY <2>1 DEF NoTx, Txs
    <2>3. TxTight(IdleReq)
      BY <2>1, <2>2 DEF IdleReq, TxTight
    <2>4. TxBooks
      BY DEF TxInit, TxBooks
    <2>5. QED
      BY <2>1, <2>3, <2>4 DEF TxInit, TxTypes
  <1>2. TxTypes /\ [TxNext]_txVars => TxTypes'
    <2> SUFFICES ASSUME TxTypes, [TxNext]_txVars PROVE TxTypes'
      OBVIOUS
    <2>0. OnlyReq => TxBooks' /\ UNCHANGED <<txDb, txNow>>
      BY DEF TxTypes, TxBooks, OnlyReq
    <2>1. ASSUME NEW t \in TxTabs, validateBody(t) PROVE TxTypes'
      BY <2>0, <2>1, TxAnswered1 DEF validateBody
    <2>2. ASSUME NEW t \in TxTabs, postApply(t) PROVE TxTypes'
      <3>1. PICK i \in TxIssues :
              IF txDb[i] # "none" THEN TxAnswer(t, "refused")
              ELSE txReq' = [txReq EXCEPT ![t] = [IdleReq EXCEPT !.pc = "hasApplied", !.tx = [NoTx EXCEPT !.issue = i]]]
        BY <2>2 DEF postApply
      <3>2. TxBooks' /\ UNCHANGED <<txDb, txNow>>
        BY <2>0, <2>2 DEF postApply
      <3>3. CASE txDb[i] # "none"
        BY <3>1, <3>2, <3>3, TxAnswered1
      <3>4. CASE txDb[i] = "none"
        <4>0. 0 \in 0..(TxMaxPolls - 1) /\ 0 \in 0..(TxMaxSeq + 2) /\ 0 \in 0..(TxMaxTime + TxLifetime) /\ 0 \in 0..TxMaxTime
          BY TxNumbers
        <4>1. PICK x : x = [NoTx EXCEPT !.issue = i]
          OBVIOUS
        <4>2. x = [fn |-> "none", issue |-> i, seq |-> 0, maxTime |-> 0, at |-> 0]
          BY <4>1 DEF NoTx
        <4>3. x \in Txs /\ x.fn = "none" /\ x.issue = i
          BY <4>0, <4>2 DEF Txs
        <4>4. PICK q : q = [IdleReq EXCEPT !.pc = "hasApplied", !.tx = x]
          OBVIOUS
        <4>5. q = [pc |-> "hasApplied", tx |-> x, polls |-> 0, fate |-> "open", answer |-> "none"]
          BY <4>4 DEF IdleReq
        <4>6. TxTight(q)
          BY <4>0, <4>3, <4>5 DEF TxTight
        <4>7. txReq' = [txReq EXCEPT ![t] = q]
          BY <3>1, <3>4, <4>1, <4>4
        <4>8. QED
          BY <3>2, <4>6, <4>7, TxTabStep
      <3>5. QED
        BY <3>3, <3>4
    <2>3. ASSUME NEW t \in TxTabs, buildAndSimulate(t) PROVE TxTypes'
      <3>1. PICK fn \in TxCalls, i \in TxIssues :
              \/ Built(t, buildRaw(fn, i, txLedger.seq))
              \/ TxAnswer(t, "refused")
        BY <2>3 DEF buildAndSimulate
      <3>2. OnlyReq /\ txLedger.seq \in Nat /\ txLedger.seq < TxMaxSeq /\ fn \in TxFunctions
        BY <2>3 DEF buildAndSimulate, TxTypes, TxBooks, TxFunctions
      <3>3. txLedger.seq <= TxMaxSeq + 1
        BY <3>2, TxNumbers
      <3>4. QED
        BY <2>0, <3>1, <3>2, <3>3, TxBuilt, TxAnswered1
    <2>4. ASSUME NEW t \in TxTabs, postSubmit(t) PROVE TxTypes'
      <3>1. OnlyReq /\ txReq[t].tx.fn # "none" /\ (Fut(t, "send", txReq[t].tx) \/ TxAnswer(t, "refused"))
        BY <2>4 DEF postSubmit
      <3>2. TxMade(txReq[t].tx)
        BY <3>1 DEF TxTypes, TxTight
      <3>3. QED
        BY <2>0, <3>1, <3>2, TxMoved, TxAnswered1
    <2>5. ASSUME NEW t \in TxTabs, getTransactionThrows(t) PROVE TxTypes'
      BY <2>0, <2>5, TxAnswered1 DEF getTransactionThrows
    <2>6. ASSUME NEW t \in TxTabs, hasApplied(t) PROVE TxTypes'
      <3>1. OnlyReq /\ txReq[t].pc = "hasApplied" /\ (Fut(t, "caps", txReq[t].tx) \/ TxAnswer(t, "refused"))
        BY <2>6 DEF hasApplied
      <3>2. txReq[t].tx.issue \in TxIssues
        BY <3>1 DEF TxTypes, TxTight
      <3>3. QED
        BY <2>0, <3>1, <3>2, TxMoved, TxAnswered1
    <2>7. ASSUME NEW t \in TxTabs, checkCaps(t) PROVE TxTypes'
      <3>1. OnlyReq /\ txReq[t].pc = "caps" /\ (Fut(t, "sequence", txReq[t].tx) \/ TxAnswer(t, "refused"))
        BY <2>7 DEF checkCaps
      <3>2. txReq[t].tx.issue \in TxIssues
        BY <3>1 DEF TxTypes, TxTight
      <3>3. QED
        BY <2>0, <3>1, <3>2, TxMoved, TxAnswered1
    <2>8. ASSUME NEW t \in TxTabs, buildApplyTx(t) PROVE TxTypes'
      <3>1. OnlyReq /\ txReq[t].pc = "sequence" /\ txLedger.seq < TxMaxSeq
        BY <2>8 DEF buildApplyTx
      <3>2. PICK s \in {txLedger.seq, 1} : Built(t, buildRaw("apply_for_issue", txReq[t].tx.issue, s))
        BY <2>8 DEF buildApplyTx, getAccountSequence
      <3>3. txReq[t].tx.issue \in TxIssues /\ txLedger.seq \in Nat /\ "apply_for_issue" \in TxFunctions
        BY <3>1 DEF TxTypes, TxTight, TxBooks, TxFunctions
      <3>4. s \in Nat /\ s <= TxMaxSeq + 1
        BY <3>1, <3>2, <3>3, TxNumbers
      <3>5. QED
        BY <3>1, <3>2, <3>3, <3>4, TxBuilt
    <2>9. ASSUME NEW t \in TxTabs, sendTransaction(t) PROVE TxTypes'
      <3>1. /\ txReq[t].pc = "send" /\ UNCHANGED <<txDb, txNow>>
            /\ txLedger' = [txLedger EXCEPT !.pool = @ \cup {txReq[t].tx}] \/ UNCHANGED txLedger
            /\ Fut(t, "poll", txReq[t].tx) \/ TxAnswer(t, "lost") \/ TxAnswer(t, "assumed")
        BY <2>9 DEF sendTransaction
      <3>2. TxMade(txReq[t].tx) /\ txReq[t].tx \in Txs
        BY <3>1 DEF TxTypes, TxTight
      <3>3. TxBooks'
        <4>1. CASE UNCHANGED txLedger
          BY <4>1 DEF TxTypes, TxBooks
        <4>2. CASE txLedger' = [txLedger EXCEPT !.pool = @ \cup {txReq[t].tx}]
          <5>1. /\ txLedger' \in [seq : Nat, applied : SUBSET TxIssues, assigned : SUBSET TxIssues, pool : SUBSET Txs]
                /\ txLedger'.applied = txLedger.applied /\ txLedger'.assigned = txLedger.assigned
                /\ txLedger'.pool = txLedger.pool \cup {txReq[t].tx}
            BY <3>2, <4>2 DEF TxTypes, TxBooks
          <5>2. QED
            BY <3>2, <5>1 DEF TxTypes, TxBooks
        <4>3. QED
          BY <3>1, <4>1, <4>2
      <3>4. QED
        BY <3>1, <3>2, <3>3, TxMoved, TxAnswered1
    <2>10. ASSUME NEW t \in TxTabs, getTransaction(t) PROVE TxTypes'
      <3>1. PICK v : v = pollVerdict(txReq[t].fate, txReq[t].polls)
        OBVIOUS
      <3>2. TxTight(txReq[t])
        BY DEF TxTypes
      <3>3. txReq[t].fate \in {"open", "ok", "failed"} /\ txReq[t].polls \in 0..(TxMaxPolls - 1)
        BY <3>2 DEF TxTight
      <3>4. v \in {"none", "success", "failed", "assumed"} /\ (v = "none" => txReq[t].polls + 1 # TxMaxPolls)
        BY <3>1, <3>3 DEF pollVerdict
      <3>5. TxBooks' /\ UNCHANGED <<txDb, txNow>>
        BY <2>0, <2>10 DEF getTransaction
      <3>6. CASE v # "none"
        <4>1. TxAnswer(t, v)
          BY <2>10, <3>1, <3>6 DEF getTransaction
        <4>2. QED
          BY <3>4, <3>5, <3>6, <4>1, TxAnswered1
      <3>7. CASE v = "none"
        <4>1. PICK n : n = txReq[t].polls + 1
          OBVIOUS
        <4>2. n \in 0..(TxMaxPolls - 1)
          BY <3>3, <3>4, <3>7, <4>1, TxNumbers
        <4>3. txReq' = [txReq EXCEPT ![t] = [@ EXCEPT !.polls = n]]
          BY <2>10, <3>1, <3>7, <4>1 DEF getTransaction, nextPoll
        <4>4. TxTight([txReq[t] EXCEPT !.polls = n])
          BY <3>2, <4>2 DEF TxTight
        <4>5. QED
          BY <3>5, <4>3, <4>4, TxTabStep
      <3>8. QED
        BY <3>6, <3>7
    <2>11. CASE CloseTxLedger
      BY <2>11, TxCloses
    <2>12. CASE MirrorApplications
      BY <2>12 DEF MirrorApplications, TxTypes, TxBooks
    <2>13. CASE TxTick
      <3>1. /\ txNow < TxMaxTime /\ txNow' = txNow + 1 /\ UNCHANGED <<txReq, txDb>>
            /\ txLedger' = [txLedger EXCEPT !.pool = {p \in @ : inTime(p, txNow + 1)}]
        BY <2>13 DEF TxTick
      <3>2. /\ txLedger' \in [seq : Nat, applied : SUBSET TxIssues, assigned : SUBSET TxIssues, pool : SUBSET Txs]
            /\ txLedger'.applied = txLedger.applied /\ txLedger'.assigned = txLedger.assigned
            /\ txLedger'.pool \subseteq txLedger.pool
        BY <3>1 DEF TxTypes, TxBooks
      <3>3. TxBooks'
        BY <3>2 DEF TxTypes, TxBooks
      <3>4. txNow' \in 0..TxMaxTime
        BY <3>1, TxNumbers DEF TxTypes
      <3>5. QED
        BY <3>1, <3>3, <3>4 DEF TxTypes
    <2>14. CASE UNCHANGED txVars
      BY <2>14 DEF txVars, TxTypes, TxBooks
    <2>15. QED
      BY <2>1, <2>2, <2>3, <2>4, <2>5, <2>6, <2>7, <2>8, <2>9, <2>10, <2>11, <2>12, <2>13, <2>14 DEF TxNext, TxRequest
  <1>3. TxTypes => TxTypeOK
    BY DEF TxTypes, TxTight, TxBooks, TxTypeOK
  <1>4. QED
    BY <1>1, <1>2, <1>3, PTL

-----------------------------------------------------------------------------
(* The run: every behaviour of Spec is, for each component, a behaviour of that
   component. *)

LEMMA Parts ==
  Spec => /\ SyncInit /\ [][SyncNext]_syncVars
          /\ HookInit /\ [][HookNext]_hookVars
          /\ TxInit /\ [][TxNext]_txVars
          /\ IcInit /\ [][IcNext]_icVars
          /\ HealthInit /\ [][HealthNext]_healthVars
          /\ LvInit /\ [][LvNext]_lvVars
          /\ KeyInit /\ [][KeyNext]_keyVars
          /\ GateInit /\ [][GateNext]_gateVars
          /\ MgInit /\ [][MgNext]_mgVars
          /\ ObInit /\ [][ObNext]_obVars
          /\ ToInit /\ [][ToNext]_toVars
  <1>1. Init => /\ SyncInit /\ HookInit /\ TxInit /\ IcInit /\ HealthInit /\ LvInit
                /\ KeyInit /\ GateInit /\ MgInit /\ ObInit /\ ToInit
    BY DEF Init
  <1>2. [Next]_allVars => [SyncNext]_syncVars
    BY DEF Next, allVars, syncVars
  <1>3. [Next]_allVars => [HookNext]_hookVars
    BY DEF Next, allVars, hookVars
  <1>4. [Next]_allVars => [TxNext]_txVars
    BY DEF Next, allVars, txVars
  <1>5. [Next]_allVars => [IcNext]_icVars
    BY DEF Next, allVars, icVars
  <1>6. [Next]_allVars => [HealthNext]_healthVars
    BY DEF Next, allVars, healthVars
  <1>7. [Next]_allVars => [LvNext]_lvVars
    BY DEF Next, allVars, lvVars
  <1>8. [Next]_allVars => [KeyNext]_keyVars
    BY DEF Next, allVars, keyVars
  <1>9. [Next]_allVars => [GateNext]_gateVars
    BY DEF Next, allVars, gateVars
  <1>10. [Next]_allVars => [MgNext]_mgVars
    BY DEF Next, allVars, mgVars
  <1>11. [Next]_allVars => [ObNext]_obVars
    BY DEF Next, allVars, obVars
  <1>12. [Next]_allVars => [ToNext]_toVars
    BY DEF Next, allVars, toVars
  <1>13. QED
    BY <1>1, <1>2, <1>3, <1>4, <1>5, <1>6, <1>7, <1>8, <1>9, <1>10, <1>11, <1>12, PTL DEF Spec

\* Organisation sync (sync.ts): whatever arrives during a save, every event is
\* saved at most once and in order, by one drain per queue; for any number of
\* organisations, events and failures.
THEOREM QueuesDrain == Spec => []QueuesDrainInOrder
  <1>1. SyncInv => QueuesDrainInOrder
    BY SyncResult DEF QueuesDrainInOrder
  <1>2. QED
    BY <1>1, Parts, SyncInductive, PTL

\* What is told stands: a delivery that is over reached its endpoint or is a dead
\* letter (webhook-dispatcher.ts); the verdict POST /submit reports is the network's,
\* and a transaction answered without one can take effect only within its lifetime
\* (soroban.ts); and an assignment that a closed delivery found active is in review,
\* about to be, or its update failed, however deliveries overlap (webhooks.ts).
THEOREM OutcomesAreTold == Spec => []OutcomesTold
  <1>1. HookInv /\ TxInv /\ IcInv => OutcomesTold
    BY HookResult, TxResult DEF OutcomesTold, IcInv
  <1>2. QED
    BY <1>1, Parts, HookInductive, TxInductive, IcInductive, PTL

\* The expiry of a Redis counter is under way unless something failed, an expired
\* key is refused although it expires during the lookup (api-key-auth.ts), a live
\* tab is always fed (useLiveUpdates.tsx), and the maintainer page at rest shows
\* the contract (MaintainerPage.tsx).
THEOREM NothingIsStale == Spec => []NothingGoesStale
  <1>1. KeyInv /\ GateInv /\ LvFed /\ MgInv => NothingGoesStale
    BY MgResult DEF NothingGoesStale, KeyInv, GateInv
  <1>2. QED
    BY <1>1, Parts, KeyInductive, GateInductive, LvInductive, MgInductive, PTL

\* A completed wizard is shown again only when asked for, and it is completed only
\* by going through or skipping it, never by closing it (OnboardingWizard.tsx).
THEOREM WizardShownOnce == Spec => ObShownOnce
  BY Parts, ObInductive, PTL

\* Counts stay exact and within their bounds: a client is let through at most twice
\* the limit in any window, over the expiry of a key and failures of Redis
\* (api-key-auth.ts), and the same for a wallet (rate-limit.ts); a tab that missed
\* nothing shows the applications the log leaves open (useLiveUpdates.tsx); and toasts wait only behind
\* a full screen (Toast.tsx); for any limit, window and number of requests and events.
THEOREM CountsStayExact == Spec => []CountsAreExact
  <1>1. KeyBurst /\ GateBurst /\ LvCount /\ ToInv => CountsAreExact
    BY KeyBurstResult, GateBurstResult, LvCountResult, ToResult DEF CountsAreExact
  <1>2. QED
    BY <1>1, Parts, KeyBurstInductive, GateBurstInductive, LvCountInductive, ToInductive, PTL

\* Every variable keeps to its type in every component of this run, the bounds of its
\* numbers included: a cached total is never above the number of issues
\* (issueService.ts), a key that is not in Redis has no expiry (api-key-auth.ts),
\* only a transaction that was built is sent or polled for (soroban.ts), and
\* the wizard stays within its steps (OnboardingWizard.tsx); for any value of the constants.
THEOREM ProgressTypes == Spec => []ProgressTypeOK
  <1>1. /\ KeyTypeOK /\ SyncInv /\ HookInv /\ TxTypeOK /\ IcTypeOK /\ GateInv /\ GateBurst
        /\ LvCount /\ HealthTypeOK /\ MgTypeOK /\ ObTypeOK /\ ToInv
        => ProgressTypeOK
    BY GateTypes, LvCountResult, ToResult DEF ProgressTypeOK, SyncInv, HookInv
  <1>2. QED
    BY <1>1, Parts, KeyTypesInductive, SyncInductive, HookInductive, TxTypesInductive,
       IcTypesInductive, GateInductive, GateBurstInductive, LvCountInductive, HealthInductive,
       MgTypesInductive, ObTypes, ToInductive, PTL
=============================================================================
