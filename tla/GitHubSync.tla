----------------------------- MODULE GitHubSync -----------------------------
(***************************************************************************)
(* The GitHub sync job of the backend (backend/src/github.ts, started by   *)
(* backend/src/scheduler.ts): copy the open, labelled issues of every      *)
(* registered repository into PostgreSQL, page by page, with a conditional *)
(* request on an ETag kept in process memory.                              *)
(*                                                                         *)
(* The awaits are the step boundaries: GitHub changes between two pages,   *)
(* another run of the job (the scheduler starts one at boot and one every  *)
(* 15 minutes, without looking whether the last one is over) interleaves   *)
(* anywhere, and the ETag is stored before the database transaction.       *)
(***************************************************************************)
EXTENDS Integers, FiniteSets

CONSTANTS
  Repos,        \* registered repositories
  Issues,       \* issue ids; GitHub lists the highest (newest) first
  Jobs,         \* runs of the job that may be in flight together
  PageSize,     \* per_page: 100
  FaultKinds,   \* which of "ratelimit", "http", "db", "crash" may happen
  MaxFaults,    \* bound: faults in a behaviour
  MaxChanges,   \* bound: issues opened or closed on GitHub
  NoEtag

ASSUME SyncAssumption ==
  /\ Issues \subseteq Nat /\ IsFiniteSet(Issues)
  /\ PageSize \in Nat \ {0}
  /\ MaxFaults \in Nat /\ MaxChanges \in Nat
  /\ FaultKinds \subseteq {"ratelimit", "http", "db", "crash"}

VARIABLES
  gh,         \* repository -> open labelled issues on GitHub
  etagCache,  \* repository -> ETag of the first page last fetched, or NoEtag
  db,         \* repository -> issue -> row state
  job,        \* one record per run of the job
  missed,     \* history: the answer behind the cached ETag was rolled back or overwritten
  large,      \* history: repositories that have listed more than one page
  faults, changes

vars == <<gh, etagCache, db, job, missed, large, faults, changes>>

\* page k of GitHub's listing of the open issues S
PageOf(S, k) == {i \in S : Cardinality({n \in S : n > i}) \div PageSize = k - 1}
HasNext(S, k) == Cardinality(S) > k * PageSize

\* An ETag identifies the content of the first page.
EtagOf(S) == PageOf(S, 1)

Idle == [pc |-> "idle", todo |-> {}, repo |-> {}, attempt |-> 0, ifNoneMatch |-> NoEtag,
         page |-> 0, issues |-> {}, etag |-> NoEtag]

JobState ==
  [pc : {"idle", "pick", "fetch", "wait", "store"}, todo : SUBSET Repos,
   repo : SUBSET Repos, attempt : 0..2, ifNoneMatch : (SUBSET Issues) \cup {NoEtag},
   page : 0..(Cardinality(Issues) + 1), issues : SUBSET Issues,
   etag : (SUBSET Issues) \cup {NoEtag}]

TypeOK ==
  /\ gh \in [Repos -> SUBSET Issues]
  /\ etagCache \in [Repos -> (SUBSET Issues) \cup {NoEtag}]
  /\ db \in [Repos -> [Issues -> {"absent", "open", "closed"}]]
  /\ job \in [Jobs -> JobState]
  /\ missed \subseteq Repos /\ large \subseteq Repos
  /\ faults \in 0..MaxFaults /\ changes \in 0..MaxChanges

OpenRows(r) == {i \in Issues : db[r][i] = "open"}

Init ==
  /\ gh \in [Repos -> SUBSET Issues]
  /\ etagCache = [r \in Repos |-> NoEtag]
  /\ db = [r \in Repos |-> [i \in Issues |-> "absent"]]
  /\ job = [j \in Jobs |-> Idle]
  /\ missed = {} /\ large = {r \in Repos : HasNext(gh[r], 1)}
  /\ faults = 0 /\ changes = 0

Fault(kind) ==
  /\ kind \in FaultKinds /\ faults < MaxFaults
  /\ faults' = faults + 1

-----------------------------------------------------------------------------
(* The job *)

\* runFullSync: the schema exists, the repositories to do are loaded
runFullSync(j) ==
  /\ job[j].pc = "idle"
  /\ job' = [job EXCEPT ![j] = [Idle EXCEPT !.pc = "pick", !.todo = Repos]]
  /\ UNCHANGED <<gh, etagCache, db, missed, large, faults, changes>>

\* enter fetchIssuesForRepo: the ETag of this request is read once, here
Fetching(j, r, attempt) ==
  [job[j] EXCEPT !.pc = "fetch", !.todo = @ \ {r}, !.repo = {r}, !.attempt = attempt,
                 !.ifNoneMatch = etagCache[r], !.page = 1, !.issues = {}, !.etag = NoEtag]

\* a repository is done with, synced or not: the loop goes on
Picking(j) == [Idle EXCEPT !.pc = "pick", !.todo = job[j].todo]

syncRepo(j, r) ==
  /\ job[j].pc = "pick" /\ r \in job[j].todo
  /\ job' = [job EXCEPT ![j] = Fetching(j, r, 1)]
  /\ UNCHANGED <<gh, etagCache, db, missed, large, faults, changes>>

finishSync(j) ==
  /\ job[j].pc = "pick" /\ job[j].todo = {}
  /\ job' = [job EXCEPT ![j] = Idle]
  /\ UNCHANGED <<gh, etagCache, db, missed, large, faults, changes>>

\* a 200 answer; on the last page the ETag of the first one is cached
fetchPage(j, r) ==
  LET content == PageOf(gh[r], job[j].page)
      etag == IF job[j].page = 1 THEN EtagOf(gh[r]) ELSE job[j].etag
  IN
  /\ job[j].pc = "fetch" /\ job[j].repo = {r}
  /\ ~(job[j].page = 1 /\ job[j].ifNoneMatch = EtagOf(gh[r]))
  /\ IF content # {} /\ HasNext(gh[r], job[j].page)
     THEN /\ job' = [job EXCEPT ![j].page = @ + 1, ![j].issues = @ \cup content, ![j].etag = etag]
          /\ UNCHANGED etagCache
     ELSE /\ job' = [job EXCEPT ![j].pc = "store", ![j].issues = @ \cup content, ![j].etag = etag]
          /\ etagCache' = [etagCache EXCEPT ![r] = etag]
  /\ UNCHANGED <<gh, db, missed, large, faults, changes>>

\* 304: the repository is skipped
notModified(j, r) ==
  /\ job[j].pc = "fetch" /\ job[j].repo = {r} /\ job[j].page = 1
  /\ job[j].ifNoneMatch = EtagOf(gh[r])
  /\ job' = [job EXCEPT ![j] = Picking(j)]
  /\ UNCHANGED <<gh, etagCache, db, missed, large, faults, changes>>

\* mutant: the retry is not limited to one
rateLimited_retryForever(j) ==
  /\ Fault("ratelimit")
  /\ job[j].pc = "fetch"
  /\ job' = [job EXCEPT ![j].pc = "wait"]
  /\ UNCHANGED <<gh, etagCache, db, missed, large, changes>>

\* 429 / 403: wait for the reset and retry once, if the answer named the reset
rateLimited(j) ==
  /\ Fault("ratelimit")
  /\ job[j].pc = "fetch"
  /\ \/ job[j].attempt = 1 /\ job' = [job EXCEPT ![j].pc = "wait"]
     \/ job' = [job EXCEPT ![j] = Picking(j)]
  /\ UNCHANGED <<gh, etagCache, db, missed, large, changes>>

waitUntil(j, r) ==
  /\ job[j].pc = "wait" /\ job[j].repo = {r}
  /\ job' = [job EXCEPT ![j] = Fetching(j, r, job[j].attempt + 1)]
  /\ UNCHANGED <<gh, etagCache, db, missed, large, faults, changes>>

\* any other failed request: logged, on to the next repository
fetchFails(j) ==
  /\ Fault("http")
  /\ job[j].pc = "fetch"
  /\ job' = [job EXCEPT ![j] = Picking(j)]
  /\ UNCHANGED <<gh, etagCache, db, missed, large, changes>>

\* history: is the answer just committed the one the cached ETag belongs to?  If
\* not, another run has cached its own in the meantime.
Committed(j, r) ==
  missed' = IF etagCache[r] = job[j].etag THEN missed \ {r} ELSE missed \cup {r}

\* mutant: the UPDATE that closes the missing issues is lost
syncIssuesToDb_noClose(j, r) ==
  /\ job[j].pc = "store" /\ job[j].repo = {r}
  /\ db' = [db EXCEPT ![r] = [i \in Issues |-> IF i \in job[j].issues THEN "open" ELSE @[i]]]
  /\ job' = [job EXCEPT ![j] = Picking(j)]
  /\ Committed(j, r)
  /\ UNCHANGED <<gh, etagCache, large, faults, changes>>

\* one transaction: upsert what was fetched, close what was not
syncIssuesToDb(j, r) ==
  /\ job[j].pc = "store" /\ job[j].repo = {r}
  /\ db' = [db EXCEPT ![r] = [i \in Issues |->
              IF i \in job[j].issues THEN "open"
              ELSE IF @[i] = "open" THEN "closed" ELSE @[i]]]
  /\ job' = [job EXCEPT ![j] = Picking(j)]
  /\ Committed(j, r)
  /\ UNCHANGED <<gh, etagCache, large, faults, changes>>

\* the transaction fails and is rolled back; the error is logged
syncIssuesToDbFails(j) ==
  /\ Fault("db")
  /\ job[j].pc = "store"
  /\ job' = [job EXCEPT ![j] = Picking(j)]
  /\ missed' = missed \cup {r \in job[j].repo : etagCache[r] = job[j].etag}
  /\ UNCHANGED <<gh, etagCache, db, large, changes>>

-----------------------------------------------------------------------------
(* The environment *)

\* The backend process restarts: its memory, the ETags included, is gone.
Restart ==
  /\ Fault("crash")
  /\ job' = [j \in Jobs |-> Idle]
  /\ etagCache' = [r \in Repos |-> NoEtag]
  /\ UNCHANGED <<gh, db, missed, large, changes>>

GitHubChanges(r, i) ==
  /\ changes < MaxChanges
  /\ changes' = changes + 1
  /\ gh' = [gh EXCEPT ![r] = IF i \in @ THEN @ \ {i} ELSE @ \cup {i}]
  /\ large' = IF HasNext(gh'[r], 1) THEN large \cup {r} ELSE large
  /\ UNCHANGED <<etagCache, db, job, missed, faults>>

\* what the job does when nothing fails
Progress(j) ==
  \/ runFullSync(j)
  \/ finishSync(j)
  \/ \E r \in Repos : \/ syncRepo(j, r)
                      \/ fetchPage(j, r)
                      \/ notModified(j, r)
                      \/ waitUntil(j, r)
                      \/ syncIssuesToDb(j, r)

Next ==
  \/ \E j \in Jobs : Progress(j) \/ rateLimited(j) \/ fetchFails(j) \/ syncIssuesToDbFails(j)
  \/ Restart
  \/ \E r \in Repos, i \in Issues : GitHubChanges(r, i)

\* The cron entry starts the job for ever and every await of it settles.
Spec == Init /\ [][Next]_vars /\ \A j \in Jobs : WF_vars(Progress(j))

-----------------------------------------------------------------------------

\* The rows a listing with first page E asks for: E is open, and, as long as the
\* repository never had a second page, nothing else is.  Rows behind the first
\* page are not covered: the ETag does not change when they do (github.ts:123).
Covers(r, E) == E \subseteq OpenRows(r) /\ (r \notin large => OpenRows(r) = E)

\* Once GitHub stops changing, the rows cover its first page and stay so: no failed
\* request, rate limit, restart or overlap of runs makes the ETag hide a difference
\* there for ever.  Two things can, until the repository's next committed answer:
\* a rolled back transaction, and an older answer that another run stores under
\* the newer ETag.
Converges == \A r \in Repos : <>[](Covers(r, EtagOf(gh[r])) \/ r \in missed)

\* A remembered ETag is a promise that its issues are stored, for any number of
\* pages and of overlapping runs: the rows cover the page it stands for, unless the
\* run that fetched it is about to store them, its transaction was rolled back, or
\* another run stored an answer that belongs to a different ETag after it.
EtagMeansStored ==
  \A r \in Repos :
    \/ etagCache[r] = NoEtag
    \/ \E j \in Jobs : job[j].pc = "store" /\ job[j].repo = {r} /\ job[j].etag = etagCache[r]
    \/ Covers(r, etagCache[r])
    \/ r \in missed

\* github.ts: the sync "marks issues closed in DB when they no longer appear in
\* the API response".  An issue that is closed on GitHub for good does not stay
\* open in the database for good.
ClosedIsMarked ==
  \A r \in Repos, i \in Issues : <>[](i \notin gh[r]) => <>[](i \notin OpenRows(r))
=============================================================================
