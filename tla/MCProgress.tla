----------------------------- MODULE MCProgress -----------------------------
(***************************************************************************)
(* The components with liveness properties side by side, for TLC: each     *)
(* behaviour follows one of them, chosen at the start.                     *)
(***************************************************************************)
EXTENDS ApiKeyLimiter, OrgSync, WebhookDispatcher, TxService, IssueCache,
        RequestGate, LiveUpdates, Health, MaintainerDesk, Notices

MCTxIssues == {<<"a", 1>>}

VARIABLE focus   \* the component this behaviour is about

allVars == <<focus, keyVars, syncVars, hookVars, txVars, icVars, gateVars,
             lvVars, healthVars, mgVars, obVars, toVars>>

Init ==
  /\ focus \in {"key", "sync", "hook", "tx", "ic", "gate", "lv", "health",
               "mg", "ob", "to"}
  /\ KeyInit
  /\ SyncInit /\ (focus # "sync" => registered = {})
  /\ HookInit
  /\ TxInit
  /\ IcInit
  /\ GateInit
  /\ LvInit
  /\ HealthInit
  /\ MgInit /\ (focus # "mg" => mgOrg = "own")
  /\ ObInit /\ (focus # "ob" => obDone)
  /\ ToInit

\* The component in focus takes a step, the others wait in a state they start in.
Next ==
  /\ IF focus = "key" THEN KeyNext ELSE UNCHANGED keyVars
  /\ IF focus = "sync" THEN SyncNext ELSE UNCHANGED syncVars
  /\ IF focus = "hook" THEN HookNext ELSE UNCHANGED hookVars
  /\ IF focus = "tx" THEN TxNext ELSE UNCHANGED txVars
  /\ IF focus = "ic" THEN IcNext ELSE UNCHANGED icVars
  /\ IF focus = "gate" THEN GateNext ELSE UNCHANGED gateVars
  /\ IF focus = "lv" THEN LvNext ELSE UNCHANGED lvVars
  /\ IF focus = "health" THEN HealthNext ELSE UNCHANGED healthVars
  /\ IF focus = "mg" THEN MgNext ELSE UNCHANGED mgVars
  /\ IF focus = "ob" THEN ObNext ELSE UNCHANGED obVars
  /\ IF focus = "to" THEN ToNext ELSE UNCHANGED toVars
  /\ UNCHANGED focus

\* Timers fire, Redis, PostgreSQL and the network answer, time passes.
Fairness ==
  /\ WF_keyVars(focus = "key" /\ (redisIncr \/ redisExpire)) /\ WF_keyVars(focus = "key" /\ Tick)
  /\ \A r \in Requests : WF_keyVars(focus = "key" /\ checkRedisLimit(r))
  /\ \A p \in Loads : /\ WF_syncVars(focus = "sync" /\ startLoad(p))
                      /\ SF_syncVars(focus = "sync" /\ getRegisteredOrgs(p))
                      /\ WF_syncVars(focus = "sync" /\ loadAndRegisterOrgs(p))
  /\ \A o \in Orgs \ Hung : WF_syncVars(focus = "sync" /\ SaveSettles(o))
  /\ \A e \in Events, w \in Hooks : WF_hookVars(focus = "hook" /\ Progress(e, w))
  /\ WF_txVars(focus = "tx" /\ \E t \in TxTabs : getTransaction(t))
  /\ WF_icVars(focus = "ic" /\ IcTick)
  /\ WF_gateVars(focus = "gate" /\ GateTick)
  /\ WF_lvVars(focus = "lv" /\ onClose)
  /\ WF_healthVars(focus = "health" /\ HealthProgress)
  /\ WF_mgVars(focus = "mg" /\ MgProgress)
  /\ WF_obVars(focus = "ob" /\ (exitTimer \/ enterTimer))
  /\ \A id \in 1..ToMax : WF_toVars(focus = "to" /\ timerFires(id))

Spec == Init /\ [][Next]_allVars /\ Fairness

-----------------------------------------------------------------------------
\* The type invariants of the components, with the bounds on attempts, polls,
\* steps and windows that the code sets.
ProgressTypeOK == /\ KeyTypeOK
                  /\ SyncTypeOK
                  /\ HookTypeOK
                  /\ TxTypeOK
                  /\ IcTypeOK
                  /\ GateTypeOK
                  /\ LvTypeOK
                  /\ HealthTypeOK
                  /\ MgTypeOK
                  /\ ObTypeOK
                  /\ ToTypeOK

\* Counts under interleaving: at most two windows' worth of requests pass in the
\* time of one (api-key-auth.ts, rate-limit.ts), a tab that missed nothing shows
\* the applications the log leaves open (useLiveUpdates.tsx), and a notification
\* waits only behind a full screen (Toast.tsx).
CountsAreExact == BurstBounded /\ GateBurstBounded /\ LvExact /\ ToQueueMeansFull

\* State kept for a time passes with it: a client refused by a rate limit is let
\* through again, by the wallet window always, by the Redis window unless a
\* timeout or a crash tore INCR and EXPIRE apart, and a cached list that no
\* longer shows the table is not served for ever (issueService.ts).
OldStatePasses == FreedWithoutFaults /\ GateWalletFreed /\ IcStaleIsDropped

\* Organisation sync (sync.ts): every event is saved at most once and in order,
\* and a queue with events is drained by exactly one drain, whatever arrives
\* during a save.
QueuesDrainInOrder == SavedOnceInOrder /\ OneDrainPerQueue

\* An organisation whose saves hang or fail holds up no other one, and one added
\* to the database is listened to without a restart (sync.ts).
OrgsAreServed == ErrorsAreIsolated /\ NewOrgsAreFound

\* Outcomes are accounted for: a delivery that is over reached its endpoint or is
\* a dead letter (webhook-dispatcher.ts); what POST /submit says with a verdict
\* of the network stands, and a transaction answered without one can take effect
\* only in its 30 seconds (soroban.ts); an assignment that a closed delivery
\* found active is in review, on its way there, or its update failed
\* (webhooks.ts).
OutcomesTold == AccountedFor /\ TxVerdictStands /\ IcClosedMeansReview

\* What was started ends: every webhook delivery, every POST /submit although the
\* network never answers, the subscription of every live connection, and every
\* health request although all services hang.
RequestsEnd == DeliveriesEnd /\ TxAnswered /\ LvForgotten /\ HealthAnswers

\* Nothing is relied on past its time: a Redis counter without expiry has one on
\* its way as long as nothing failed, a key that expires between lookup and
\* answer is refused (api-key-auth.ts), a tab always has a stream, a timer or a
\* poll to feed it (useLiveUpdates.tsx), and the maintainer page at rest shows
\* the contract (MaintainerPage.tsx).
NothingGoesStale == ExpiryUnderWay /\ GateExpiredIsRefused /\ LvFed /\ MgReread

\* The shell of the front end comes to rest: a stranger leaves the maintainer
\* page, the wizard moves again, and all notifications go.
ShellSettles == MgStrangerLeaves /\ ObMovesAgain /\ ToAllGo
=============================================================================
