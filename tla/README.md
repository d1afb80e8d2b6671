# Formal model of the workload governor

TLA+ modules, TLC runs and TLAPS proofs for `workload-governor`: a Soroban
contract that caps how many issues a contributor may apply for and be assigned,
the Node services that index, sync and deliver around it, the API in front of it
and the React front end. Paths below are relative to the repository root.

## 1. The system

| Part | Code | State | What is hard |
|---|---|---|---|
| Contract | `src/lib.rs`, `src/storage.rs` | caps, roles, application sentinels and counter (temporary), assignment sentinels and counter (persistent), instance TTL | entries expire one by one with no code running; caps change under existing work |
| Events and their decoding | `src/events.rs`, `src/eventIndexer.ts` | the event stream, `contract_events` | two programs agree on a tuple by position |
| Event indexer | `src/eventIndexer.ts`, `src/services/event-bus.ts` | cursor (memory), `contract_events` | crash in mid-ledger, two loops on one cursor |
| GitHub sync | `backend/src/github.ts`, `backend/src/scheduler.ts` | ETag cache (memory), `github_issues` | overlap of runs, failure between two writes, restarts |
| TTL extension job | `backend/src/scheduler.ts`, `backend/src/soroban.ts` | `active_applications` | one bad row fails its batch |
| Organisation sync | `src/sync.ts` | queues and listeners (memory), `events` | arrivals during an await, overlapping loads |
| Webhook dispatcher | `src/services/webhook-dispatcher.ts`, part of `src/routes/webhooks.ts` | deliveries (memory), `webhook_dead_letters` | late answers, failing queries |
| Request gate | `src/middleware/api-key-auth.ts`, `src/routes/api-keys.ts`, `src/middleware/rate-limit.ts` | Redis counters, `api_keys`, in-process windows | commands torn apart, window edges, keys that expire during a lookup |
| Transactions | `src/soroban.ts`, `src/routes/transactions.ts`, `src/xdrVerifier.ts` | none of its own | timeout against a late result, account sequence numbers |
| Admin routes | `src/routes/admin.ts` | `orgs`, contract | rollback of some of several steps |
| Issue cache, GitHub webhook | `src/services/issueService.ts`, `src/services/redis.ts`, `src/routes/webhooks.ts`, `src/routes/issues.ts` | Redis cache, `issues`, `assignments` | invalidation racing a fill, deliveries out of order |
| Read-only routes | `src/routes/contributors.ts`, `events.ts`, `issues.ts`, `orgs.ts`, `src/services/auditService.ts` | none | several queries that are no transaction, pages that shift |
| Health, Horizon | `backend/src/health.ts`, `src/horizon.ts`, `backend/src/HorizonService.ts` | none | timers racing answers, retries |
| Front end | `frontend/src` | component state, localStorage, URL | late and cancelled answers, optimistic updates, timers |

Interaction: the front end asks the API for a transaction, the wallet signs it,
the API submits it to the contract. The contract emits events; the indexer
copies them into PostgreSQL and publishes them to the live stream, which the
front end follows. The scheduler of the backend keeps pending applications alive
on chain (`extend_application_ttl`) and copies issues from GitHub. PostgreSQL,
Redis, GitHub, the RPC node and the Soroban host are external; each is modelled
inside the module of its user, by what that code relies on.

## 2. Modules and their code

A JavaScript handler runs to its next `await`; that is a step. What it does
between two awaits is one action, named after the function. Requests, timers and
answers of one component interleave freely. Names that several components share
carry a prefix per module (`Tx`, `Ic`, `Mb` ...), so that one module can extend
many.

### Contract

`WorkloadGovernor`: one action per entry point, named after it. The host undoes
every invocation that panics, so failing calls are stuttering steps; the order
of the code's checks is kept in `apply_error`, `assign_error`, `complete_error`
and `revoke_error`. `complete_assignment` and `revoke_assignment` share
`release_assignment`, `withdraw_application` and `assign_issue` share
`consume_application`, as in the code their last steps are the same statements.

* Temporary entries carry the number of ledgers they are still readable in.
  `extend_ttl(key, TTL, TTL)` sets it to `TTL + 1`, a plain `set` of a live entry
  leaves it, `CloseLedger` takes one off everywhere and deletes what reaches 0.
  This relative form has a finite state space without bounding time.
* Persistent entries are archived when their TTL runs out, never lost; a call
  that meets one fails. Only the instance's TTL is kept (`Invocable`,
  `RestoreInstance`).
* `set_global_cap` stands for `emergency_set_global_cap` too: they write the same
  and differ in the event.
* At this commit `src/storage.rs` defines the global-cap functions twice, and
  `src/lib.rs` uses names that are not defined (`CounterInconsistency`,
  `InvalidOrgCap`, `ORG_CAP_MIN`, `ORG_CAP_MAX`). The copies agree; the range of
  the organisation cap, 1 to 20, is taken from the comment at `src/lib.rs:602`.

`FairnessModel` is what the contract is for: sets of pending applications and of
assignments that grow by one element, only while the set itself is below the cap
in force. `ImplementsFairness` is the refinement, with the sets of live
sentinels as mapping. `MCWorkloadGovernor` instantiates both and states what the
documentation says and the code does not do (section 6).

`EventDecode`: `events.rs` as a writer of topics and data tuples, `parseRpcEvent`
as their reader, by name and position. The rows it makes are replayed and
compared with what the contract holds.

### Services

* `EventIndexer`: `chain` is the event stream; the cursor is a paging token, a
  ledger number or absent. `storeEvent` is two steps, the committed INSERT and
  the announcement, because the process can die in between. `start` takes a free
  loop slot, so that `stop` and `start` yield two live loops, as in the code. The
  file has the remains of a merge in it; the module models the evident nesting.
* `GitHubSync`: `job[j]` is the control state of one run of `runFullSync`.
  `Restart` clears memory. An ETag is the content of the first page. Runs overlap
  (start-up and cron) and a repository may have several pages; `large` remembers
  that one ever had, because the ETag says nothing of the rows behind the first.
* `TtlJob`: load, batches in any order of ties, one transaction per batch,
  against entries that run out. A tick is the six hours between two starts.
  `active_applications` is written by no code of the repository, so its rows are
  external.
* `OrgSync`: steps end at `getRegisteredOrgs` and `saveEvent`. `drain` allows
  several activations of `processNext` so that "only one" follows from the guard
  and not from the shape of the model.
* `WebhookDispatcher`: one delivery per event and webhook, registration and
  removal of webhooks by the routes, lookup and dead letter that can fail.
* `ApiKeyLimiter`: `checkRedisLimit` for one identifier. Commands travel over one
  FIFO connection; a timed-out INCR stays on the wire; a crash loses the wire.
* `RequestGate`: keys that are created, revoked and expire around the lookup, and
  the wallet window with its clean-up timer. Times are countdowns.
* `TxService`: build, simulate, verify, send and poll for two tabs of one
  contributor, with the network's ledger, its time bounds and the account's
  sequence number. `TxLifetime` is the 30 seconds of `setTimeout(30)`; in the run
  it is 0, a tick being longer than that.
* `OrgRegistration`: the GitHub check, the duplicate check, the INSERT, one
  contract call per maintainer and the rollback, for concurrent requests.
* `IssueCache`: a reader's lookup, queries and cache write, and the statements of
  the webhook handler, each a step. Two handlers run at once; assignments are made
  at any time, since no code of the repository writes their table.
* `ContributorRoutes`, `ListPaging`: profiles put together from several queries;
  limit, offset and end of every paginated list while rows are inserted and, in the
  filtered list of issues, leave.
* `Health`: five probes each against a timer. `StellarClients`: the fee in stroops
  and its text, digit by digit, and the Horizon clients' retries by status.

### Front end

`RegisterOrg` (wizard), `OrgManagement` (administrator's page), `MaintainerPanel`,
`MaintainerBoard` and `MaintainerDesk` (the three maintainer views),
`OrgIssues`, `IssueDetail`, `IssueCard`, `Dashboard`, `Profile`,
`ActiveAssignments`, `EventViews` (event table and activity feed), `TxForms`
(validators and forms; a text is what the validators can tell of it), `TxControls` (confirmation
dialog and buttons), `Session` (wallet, settings, bookmarks), `LiveUpdates`
(stream, reconnects, polling), and the shell: `OrgSelector`,
`Notices` (onboarding wizard and toasts), `Navigation` (keyboard shortcuts and
view transitions). `Session` has two holders of a wallet key, the bar and the page
on screen, because every `useWallet()` has a state of its own. `TxControls` lets any
caller call `confirm()` at any time; the repository has none. `IssueDetail` and
`OrgIssues` take any answer that a server behind the contract may give. Each keeps the component's state, one
action per handler, effect, timer or answer, and a small contract or server
behind it. An effect that re-runs because a dependency changed is part of the
action that changed it. Most of these components are mounted by nothing at this
commit (`App.tsx` has two default exports), so they are modelled one by one.

### Harnesses

`MCProgress` and `MCSafety` put components side by side. They share no variable,
so every behaviour follows one of them, `focus`, chosen at the start, and the
others wait in a state they start in: the state space is the sum of the
components' and not their product. A property of a harness is the conjunction of
the components' properties on one theme, each stated and explained in its own
module.

## 3. Runs

| Run | Bounds | Result |
|---|---|---|
| governor_caps | 1 address in all roles, 2 organisations, 2 issues, application TTL 1, caps to 3 and 2 | nine properties hold, `BlockedIsFreed` (liveness) among them |
| governor_teams | 2 symmetric addresses, 1 organisation, 2 issues | the contract implements FairnessModel |
| github_sync | 1 repository, 3 issues on pages of 2, 2 jobs, 2 faults of every kind, 2 changes | the first page converges, and no ETag without its rows, except where the last transaction was rolled back or an answer of another ETag was stored last (history variable `missed`) |
| event_indexer | 2 loops, page of 2, 3 events in 1 to 4 ledgers, 2 faults | no hole, nothing skipped, all announced |
| progress | 11 components, constants in `MCProgress.cfg` | ten theme properties hold |
| safety | 25 components, constants in `MCSafety.cfg` | twelve theme properties hold |
| claim_counter_equals_pending, claim_one_assignee, claim_registrations_indexed, github_sync_db_fault, github_sync_overlap, api_key_limiter_stuck | 1 or 2 actors | violated, see section 6 |

The themes of `progress`:

| Property | Parts |
|---|---|
| ProgressTypeOK | type invariants, with bounds on attempts, polls and windows |
| CountsAreExact | `BurstBounded`, `GateBurstBounded`, `LvExact`, `ToQueueMeansFull` |
| OldStatePasses | `FreedWithoutFaults`, `GateWalletFreed`, `IcStaleIsDropped` |
| QueuesDrainInOrder | `SavedOnceInOrder`, `OneDrainPerQueue` |
| OrgsAreServed | `ErrorsAreIsolated`, `NewOrgsAreFound` |
| OutcomesTold | `AccountedFor`, `TxVerdictStands`, `IcClosedMeansReview` |
| RequestsEnd | `DeliveriesEnd`, `TxAnswered`, `LvForgotten`, `HealthAnswers` |
| NothingGoesStale | `ExpiryUnderWay`, `GateExpiredIsRefused`, `LvFed`, `MgReread` |
| ObShownOnce | action property of the wizard (Notices) |
| ShellSettles | `MgStrangerLeaves`, `ObMovesAgain`, `ToAllGo` |

The themes of `safety`:

| Property | Parts |
|---|---|
| SafetyTypeOK | type invariants, with busy flags, page numbers and call counts |
| ReportsAreRight | `FeShownIsExact`, `UpGivesUpLate`, `CrKnownIsFound`, `CrTotalsAgree`, `OiRowExact`, `AaExact` |
| RegistrationStands | `RegSuccessStands`, `RegNoOrphanRow` |
| WalksComplete | `PgWalkComplete`, `OiAllLoaded`, `EtWalkComplete`, `EtNeverBlank`, `AfFirstPageOnce` |
| TtlJobKeeps | `TtlKept`, `TtlAllTried` |
| EdRebuilt | the property of EventDecode itself |
| RestIsExact | `MpExact`, `MbRestExact`, `DaExact`, `CpRowsExact`, `OmListExact` |
| LateAnswersIgnored | `MpGate`, `MbRoleHeld`, `IdShowsRoute`, `IdActionSeen` |
| OneAtATime | `RoOneRequest`, `TfOneCall`, `TcOneWithdrawal`, `OmOneByAdmin`, `CaOneAtATime`, `CaNoRepeat` |
| RoBodyValid | the property of RegisterOrg itself |
| SessionAgrees | `SeKeyIsStored`, `SeSettingsScoped`, `OsSelectionAgrees` |
| TimersHonoured | `TcDecisionIsOwn`, `TcExtendInTime`, `KsSequence`, `VtReleased`, `VtLastWins` |

Where the code breaks the plain form of such a property in a case one can name
(two loads that overlapped, a failed query, a stale wallet), the property says
so in its hypothesis and its comment; section 6 lists these cases. Each part has
a mutant in `PROJECT.json`, a plausible slip in the code that breaks it.

Why the bounds are enough: with two issues in two organisations a contributor can
have applications of different ages, sit at the cap, lose one to expiry and apply
again, which is every way the counter and the sentinels can drift apart; caps of
0 to 3 let a cap drop below the current number and rise again. The indexer's
three events with a page of two give a batch that ends in mid-ledger, and two
faults a crash after a double start. The limiters need two overlapping requests
and a window longer than one tick. The services need two concurrent requests,
sends or loads, lists of two pages, and one more fault than the code retries.
The pages need two issues (the one acted on and another), two organisations or
wallets (the old and the new; `Session` has one address and none), and two loads or
calls under way together (`MpLoads`, `TcCallers`, `IcHooks`; the profile's section
has one of each kind besides the loads of the page). The dashboard's applications
have one issue number in two organisations, and the issue list loses up to two rows
(`PgLeaves`). Counters
that only bound a run are named `...Max...`, or `OmLoads`, `OmOutside`, `VtMax`,
`IcDeliveries`, `PgInserts`, `PgLeaves`. The state space of every component is finite and
explored completely.

Deadlock checking is off where the system may stop: an indexer that has indexed
everything polls empty pages, which changes nothing; a dispatcher whose
deliveries are over is done; and the components of the two harnesses stop when
the events, calls and navigations their bounds allow are used up.

## 4. Fairness

* Contract: weak fairness of `CloseLedger` only. The network closes ledgers;
  nobody has to call the contract.
* GitHubSync: the job's own steps. Cron starts it for ever and each await settles
  (`fetch` fails or answers, timers fire). None for faults, restarts or changes.
* EventIndexer: each loop's steps, and `start`: a service that went down is
  started again.
* `MCProgress.Fairness`: Redis works through its connection, handlers go on and
  time passes (limiters, cache expiry); the sync timer fires and saves settle,
  except for the organisations in `Hung`, and the organisation query may fail but
  not every time, which is the one strong fairness; `AbortSignal.timeout` ends
  every delivery; `getTransaction` answers or fails, since the loop sleeps and
  counts; a closed socket is noticed; a probe's timer fires (the probe itself need
  not); the role check of the maintainer page settles and redirects; the timers
  of the wizard and of each toast fire. Users, outside changes and faults have
  no fairness.

## 5. Proofs

Every theorem holds for all values of the constants that satisfy the named
assumptions of the modules, each evaluated by TLC on every run that extends its
module:

* what is counted is finite: addresses, organisations and issues of the contract,
  repositories' issues, the rows of the cache, of the profiles, of the dashboard,
  the applications of the TTL job, the requests of the limiter;
* limits, windows, page and batch sizes, TTLs and retries are positive, as the
  constants of the code are; default caps lie in their ranges; the wizard has at
  least two steps; bounds that only limit a run are natural numbers;
* `TtlAssumption`: an entry lives longer than the runs of the job it may miss,
  `TtlMaxMisses + 1 < TtlLife` (a day, four ticks, against a start every six hours);
* markers are not values: `"none"` is not an administrator, `"null"` not a wallet,
  the empty text and `"bad"` not an address or organisation;
* lists given as constants are sequences, and an empty query matches every
  organisation (`OsAssumption`), as `"".includes` does.

`WorkloadGovernorProofs`:

* `TypeCorrect`: the type invariant.
* `AppCounterSound` and `CounterOutlives`: `CounterCoversLive` and
  `CounterOutlivesEntries`. The first is not inductive: when the counter entry
  expires its value drops to 0, which is right only if no sentinel is live, and
  that is what the second says; the second needs "stored exactly while positive"
  to survive `consume_application`. They are proved together. The case `n = 0` of
  a decrement uses the first: if the counter reaches 0 the last live sentinel was
  the one removed.
* `AsgnCounterExact`: counter equals number of sentinels; the step for
  `assign_issue` rests on its `AlreadyAssigned` check, the one for release on
  `AssignmentNotFound`.
* `ConsistencyHolds`: from exactness, the inconsistency branches are dead.
* `CountersStayBounded`: needs the caps' ranges (`TypeOK`) and the order of checks.
* `ContractIsFair`: the initial condition and every action map to a step or a
  stutter of `FairnessModel`. The interesting case is `apply_for_issue`: the
  contract compares the counter, the abstract rule compares the set, and
  `CounterCoversLive` closes the gap.
* `AdmissionHolds`, `ConsumptionHolds`: the action properties.

`EventIndexerProofs`: `IndexerTypes`, `IndexerInvariant`, `TableHasNoHoles`,
`CursorSkipsNothing` for any number of loops, any page size and any faults. The
invariant adds `BatchBacked` (everything before the event in a loop's hand is
stored, also while another loop moves the shared cursor), `CursorInChain` (the
cursor never points beyond the stream, so new events lie after it) and
`LedgersSorted`, which ties a ledger number to a prefix of the stream.

`GitHubSyncProofs`: `SyncTypes` for any number of overlapping runs, with the fact
that a run waits for the rate limit once per repository. `EtagIsAPromise` holds for
any overlap and any number of pages. Its exceptions are the two gaps that the
violation runs show, a rolled back transaction and an answer stored over the one of
the cached ETag, and it says that there is no third. The invariant adds that what a
run has read, or is about to store, contains the page its ETag stands for, and is
that page as long as the repository never had a second one.

`FoldLemmas` is the library the other proofs cite: what folds, filters, sums and
cardinalities do when an element is added or taken away. The provers cannot
instantiate an induction theorem with an operator of the model, so a fold is
related to the recursive function it follows by taking the least length at which
they differ, which exists because the natural numbers are well-founded. The same
argument gives `KeepValues` (a filter keeps exactly the elements it should) and
`RanksCover` (a strict total order on `1..n` has each rank once), from which a
stable sort is a permutation. For this the model writes filters as folds and sorts
by ranks: `SelectSeq` and `SortSeq` have no definition the provers can use.

`ProgressProofs` proves the themes of `MCProgress`; `SafetyProofs` and, for the
components that read, count and replay, `ReadingProofs` those of `MCSafety`. For
each component they have an inductive invariant and a lemma `...Inductive` about the
component's own `Init` and `Next`; the lemmas `Parts` and `ReadingParts` show that a
behaviour of the harness is, for each component, a behaviour of that component; the
theorems combine them.

| Theorem | Property | What the invariant adds |
|---|---|---|
| `QueuesDrain` | QueuesDrainInOrder | the queue is the tail of what was emitted, `processing` is on exactly while it is not empty, and the drain holds its head |
| `OutcomesAreTold` | OutcomesTold | attempts against the state of a delivery; sequence numbers of settled transactions lie at or below the account's, and an answered transaction was built in the past with its lifetime as bound; a review that is owed has its handler before the second statement |
| `NothingIsStale` | NothingGoesStale | without faults, whose EXPIRE follows for a window without one; countdowns of keys against the rows looked up; at most one load of a quiet page |
| `WizardShownOnce` | ObShownOnce | a finished wizard that is shown was asked for with the button |
| `RegistrationIsKept` | RegistrationStands | a request between INSERT and answer owns its row, so a rollback deletes only its own |
| `OneRequestAtATime` | OneAtATime | busy flag, dialog and calls exclude each other |
| `LateAnswersChangeNothing` | LateAnswersIgnored | the request that still counts is about the wallet or route of now, and was asked for after the last action that succeeded |
| `TimersAreHonoured` | TimersHonoured | a call that was neither settled nor overtaken is the one whose resolver the dialog holds; without an overlap every callback left belongs to the last navigation, and one is left that shows it |
| `SessionIsConsistent` | SessionAgrees | which holder of a key acted or was mounted last; addresses of the calls under way, scopes of the store, nothing selected before the list is loaded |
| `ListsAtRest` | RestIsExact | a load that is not stale has read what the server still holds; an optimistic change has its call under way |
| `OnlyValidIsSent` | RoBodyValid | the list of maintainers has none twice at every step of the wizard, and the steps passed before the last one hold their checks |
| `CountsStayExact` | CountsAreExact | the requests let through split into two windows of the Redis key, each at most the limit, one whose answer is on the wire counted with its own; the log is what the tab handled followed by what is on the wire, and the count is the largest surplus of a final part of it; more toasts than the cap only by those closed before their timer |
| `ReportsTheTruth` | ReportsAreRight | the decimals of a number add up to it; what a profile without writes in between has read is what the tables hold; a fetch is about the organisation shown, and a row without overlaps has the status last told of its number; a load nothing touched has read what is on chain |
| `PagesMissNothing` | WalksComplete | the rows before the offset were seen but for one per row that left, since insertions only move rows to later pages; at the end only rows that raced a count are missing besides; at most one request of a feed that did not overlap |
| `ApplicationsAreKept` | TtlJobKeeps | the batches cover the list loaded; the life left of each entry against its misses in a row, before and after its batch |
| `TableTellsTheContract` | EdRebuilt | there is a history of replayed states, one per row, from the empty one to the contract's |
| `ProgressTypes` | ProgressTypeOK | a cached total is the size of a set of issues; expiry, steps and polls against the state they belong to |
| `SafetyTypes` | SafetyTypeOK | the kinds of calls and reads under way and the flags that wait for them; stored orders and pins of every wallet; the length of a list and of what a filter leaves of it |

Only model-checked: the liveness properties (`BlockedIsFreed`, `Converges`,
`AllAnnounced`, `OldStatePasses`, `OrgsAreServed`, `RequestsEnd`, `ShellSettles`),
which rest on fairness and are beyond the proof system, and the six violations of
section 6. Every invariant and every action property of the passing runs is
stated by a theorem.

## 6. Where the code and its documentation disagree

Found by a run:

* `CounterEqualsPending`: of two applications of different ages one expires, the
  counter still says two until it expires itself. The caps stay safe
  (`AppCounterSound`), but a contributor can be refused below the cap for up to
  one TTL.
* `OneAssigneePerIssue`: the sentinel is keyed by contributor too, so an issue
  can be assigned to two contributors.
* `ClosedIsMarked`: the ETag is cached before the transaction, so a transaction
  that fails is never repeated (`github_sync_db_fault`); and runs that overlap
  can store the older answer last, under the newer ETag (`github_sync_overlap`).
* `NotBlockedForever`: a window whose first INCR timed out (and still ran) or
  whose process died before EXPIRE never ends.
* `EdRegistrationsIndexed`: the contract publishes `maint_reg`, the indexer looks
  for `maintainer_registered`, so registrations are never stored.

Seen while modelling, plain from one place of the code, and not given a run.
Contract and services:

* `extend_application_ttl` does not call `bump_instance`, which
  `src/storage.rs:111` says every state-changing call does.
* The ETag of the first page stands for all pages (`backend/src/github.ts:123`),
  so a change behind the first page is missed. `Converges` and `EtagMeansStored`
  are therefore about the rows of the first page only.
* `storeEvent` reads the type of the event to publish from `event`
  (`src/eventIndexer.ts:391`), which is not defined there; `EventIndexer` models the
  publication as it is meant.
* The paginated routes: an insertion shifts rows to the next page, where they come a
  second time; one between the count and the rows of a request, or a row that leaves
  the list, makes a reader miss one; the audit route caps the limit and not the
  offset; the GitHub client takes a page with a pull request for the last one.
  `PgWalkComplete` says how much is lost where, and leaves the last two out.
* `POST /admin/orgs` calls `registerMaintainer`, which `SorobanService` does not
  have (`src/routes/admin.ts:232`), and inserts columns `github_org` and `org_cap`
  that no migration creates (`:222`): today no request gets its 201. The module
  models both as calls that may fail or succeed.
* The browser's registration wizard sends no `github_org`, which the schema of the
  route wants, and does not limit the maintainers to ten.
* `POST /transactions/...` only build a transaction. The maintainer board and the
  issue browser never submit what they get and show the action as done; the next
  list brings the item back.
* `contributors.ts` has no DELETE route: a withdrawal from the profile page gets 404.
* Both limiters are called sliding windows and are fixed ones; the wallet limit
  is 60 in the comment and 100 in the code. The wallet limiter reads `wallet`,
  the bodies carry `contributor`.
* The webhook dispatcher only logs a failed lookup or dead-letter insert, so
  `AccountedFor` is about fault-free behaviours. No migration creates its tables,
  and the second copies of its routes (`src/routes/webhooks.ts:242-310`) are
  never reached.
* `assembleTransaction` takes transactions of one operation only, so every batch
  of two or more applications of the TTL job (`backend/src/scheduler.ts:7`,
  "batches of max 10 per transaction") fails. Nobody writes `ttl_expires_at`.
* `src/routes/issues.ts:131-202` does not await its cached value and answers
  `{}`; the webhook's statements name a column and a constraint that no migration
  creates; a failed `contract_events` query answers 404 for a known contributor.
* The signed header of an administrator is refused by `apiKeyAuth` first.
* `estimateFee`, `verifyAndSubmit` and `issueService` are called by no route; the
  apply and withdraw routes of `orgs.ts` are stubs.

Front end:

* RegisterOrg sends the untrimmed name while the trimmed one is checked; a 401 of
  an old request wipes a newly entered key.
* MaintainerBoard: page number not clamped, an old organisation's fetch is
  applied, the dialog survives a change of organisation. MaintainerDesk: one busy
  id for all rows; a late refusal about another organisation redirects.
  MaintainerPanel: an item can be in both lists.
* OrgIssues: filters that hide all rows hide the sentinel; a failed later page is
  retried endlessly; counts are not updated after Apply. Applications and
  assignments are matched by the number alone, whatever their organisation, and when
  their requests fail the rows say "open". A fetch under way when the organisation
  or the wallet changes is not cancelled: its rows land under the new route, whose
  own fetch never starts (`OiAllLoaded` and `OiRowExact` leave this out). After Apply
  the detail page usually still offers Apply, as indexer and cache lag behind. IssueDetail: an old
  "applied" event keeps `hasApplied` after a withdrawal; buttons of old data act
  on the new route's issue. IssueCard: `applied` stays set after a withdrawal.
* Dashboard and Profile remove rows by issue number only, so that of another
  organisation with the same number goes too; Profile's section loads
  once and two clicks can delete twice. Without a contract client, or without two of
  its methods, ActiveAssignments says "no assignments" whatever the chain holds;
  ActiveAssignments and EventTable do not
  cancel the load of the wallet before. ActivityFeed never loads a second page
  (`hasMore` against `has_more`). EventTable asks for 500 rows and gets 100,
  without the fields it sorts by.
* TxForms lets "042" pass the already-applied check; the Retry of TxControls does
  nothing in the error state. `useTxModal` has no caller; a second `confirm()`, or
  `close()`, would leave the first caller waiting for ever. A late `connect` undoes a
  disconnect, and a disconnect in the bar leaves the key of the page in use, since
  every `useWallet()` has its own. OrgManagement
  wipes fields typed during a submission, and overlapping loads end in any order.
* Toasts (Notices): the late timer of a toast closed by hand promotes one too many.
  Shortcuts (Navigation): keys typed in a field do not cancel a pending G. View transitions: the
  exit timer runs the update again and brings back an older view. The wizard
  uses `useCallback` without importing it. OrgSelector ignores a URL cleared from
  outside. The error catalogue lacks codes 12 and 17 and has a 13 that
  `src/errors.rs` does not.

## 7. Not modelled

Contract `upgrade` (it replaces the code), `seed_assignment` (tests only) and
queries that restate one storage read; XDR encoding, HMAC and wallet signatures;
HTTP parsing and response formats; SQL beyond the rows the properties mention;
rendering, styles, stories and wording; start-up, logging and the connection
pool; read-only routes of one query or constant; the IP limit (a library); the
cancellation audit (`src/cancellation_audit.rs`), an append-only list nothing
calls; infrastructure, Helm charts and dashboards.

## 8. Plan

The safety cores of the liveness properties can be stated and proved: for
`AllAnnounced`, that what is stored and not announced is in a loop's hand. The
parts of the front end that only present data (section 7) come next if they gain
state of their own.
