-------------------------- MODULE GitHubSyncProofs --------------------------
(***************************************************************************)
(* What the GitHub sync job keeps true, for every set of repositories and  *)
(* issues and every sequence of failed requests, rate limits, rolled back  *)
(* transactions and restarts.                                              *)
(*                                                                         *)
(* Type correctness holds for any number of overlapping runs; it needs     *)
(* that a run waits for the rate limit at most once per repository         *)
(* (WaitsOnce).  So does EtagMeansStored, for any number of pages.  Alone  *)
(* it is not inductive: the step from "store" to "pick" keeps the promise  *)
(* only because what is stored then holds the page its ETag stands for     *)
(* (HoldsPage), which is true on every page of the fetch before it.        *)
(***************************************************************************)
EXTENDS GitHubSync, FiniteSetTheorems, TLAPS

WaitsOnce == \A j \in Jobs : job[j].pc = "wait" => job[j].attempt = 1

-----------------------------------------------------------------------------
(* The listing of GitHub and the records of the runs *)

\* There is no page after the last issue: one more page means one more issue.
LEMMA PageBound ==
  ASSUME NEW S \in SUBSET Issues, NEW k \in Nat, HasNext(S, k)
  PROVE  k + 1 \in 0..(Cardinality(Issues) + 1)
  <1>1. IsFiniteSet(S) /\ Cardinality(S) <= Cardinality(Issues)
    BY SyncAssumption, FS_Subset
  <1>2. Cardinality(S) \in Nat /\ Cardinality(Issues) \in Nat
    BY <1>1, SyncAssumption, FS_CardinalityType
  <1>3. k * PageSize >= k
    BY SyncAssumption
  <1>4. k * PageSize \in Nat
    BY SyncAssumption
  <1>5. QED
    BY <1>1, <1>2, <1>3, <1>4 DEF HasNext

LEMMA PageType ==
  ASSUME NEW S \in SUBSET Issues, NEW k
  PROVE  PageOf(S, k) \in SUBSET Issues
  BY DEF PageOf

LEMMA IdleType == Idle \in JobState
  <1>1. Cardinality(Issues) \in Nat
    BY SyncAssumption, FS_CardinalityType
  <1>2. QED
    BY <1>1 DEF Idle, JobState

LEMMA PickingType ==
  ASSUME TypeOK, NEW j \in Jobs
  PROVE  /\ Picking(j) \in JobState
         /\ Picking(j).pc = "pick"
  BY IdleType DEF Picking, TypeOK, JobState, Idle

LEMMA FetchingType ==
  ASSUME TypeOK, NEW j \in Jobs, NEW r \in Repos, NEW a \in 0..2
  PROVE  /\ Fetching(j, r, a) \in JobState
         /\ Fetching(j, r, a).pc = "fetch"
  <1>1. Cardinality(Issues) \in Nat
    BY SyncAssumption, FS_CardinalityType
  <1>2. job[j] \in JobState /\ etagCache[r] \in (SUBSET Issues) \cup {NoEtag}
    BY DEF TypeOK
  <1>3. /\ job[j].todo \ {r} \in SUBSET Repos
        /\ {r} \in SUBSET Repos /\ {} \in SUBSET Issues
        /\ 1 \in 0..(Cardinality(Issues) + 1)
    BY <1>1, <1>2 DEF JobState
  <1>4. QED
    BY <1>2, <1>3 DEF Fetching, JobState

-----------------------------------------------------------------------------
(* Type correctness *)

TypeInv == TypeOK /\ WaitsOnce

LEMMA FetchPageType ==
  ASSUME TypeInv, NEW j \in Jobs, NEW r \in Repos, fetchPage(j, r)
  PROVE  TypeInv'
  <1> DEFINE content == PageOf(gh[r], job[j].page)
             etag == IF job[j].page = 1 THEN EtagOf(gh[r]) ELSE job[j].etag
  <1>1. gh[r] \in SUBSET Issues /\ job[j] \in JobState
    BY DEF TypeInv, TypeOK
  <1>2. content \in SUBSET Issues /\ etag \in (SUBSET Issues) \cup {NoEtag}
    BY <1>1, PageType DEF EtagOf, JobState
  <1>3. CASE content # {} /\ HasNext(gh[r], job[j].page)
    <2>1. job[j].page \in Nat
      BY <1>1 DEF JobState
    <2>2. job[j].page + 1 \in 0..(Cardinality(Issues) + 1)
      BY <1>1, <1>3, <2>1, PageBound
    <2>3. job' = [job EXCEPT ![j].page = @ + 1, ![j].issues = @ \cup content, ![j].etag = etag]
      BY <1>3 DEF fetchPage
    <2>4. UNCHANGED <<gh, etagCache, db, missed, large, faults, changes>>
      BY <1>3 DEF fetchPage
    <2> HIDE DEF content, etag
    <2>5. QED
      BY <1>1, <1>2, <2>2, <2>3, <2>4 DEF TypeInv, TypeOK, WaitsOnce, JobState
  <1>4. CASE ~(content # {} /\ HasNext(gh[r], job[j].page))
    <2>1. job' = [job EXCEPT ![j].pc = "store", ![j].issues = @ \cup content, ![j].etag = etag]
      BY <1>4 DEF fetchPage
    <2>2. etagCache' = [etagCache EXCEPT ![r] = etag] /\ UNCHANGED <<gh, db, missed, large, faults, changes>>
      BY <1>4 DEF fetchPage
    <2> HIDE DEF content, etag
    <2>3. QED
      BY <1>1, <1>2, <2>1, <2>2 DEF TypeInv, TypeOK, WaitsOnce, JobState
  <1>5. QED
    BY <1>3, <1>4

LEMMA TypeInvHolds == Spec => []TypeInv
  <1>1. Init => TypeInv
    BY IdleType, SyncAssumption DEF Init, TypeInv, TypeOK, WaitsOnce, Idle
  <1>2. TypeInv /\ [Next]_vars => TypeInv'
    <2> SUFFICES ASSUME TypeInv, [Next]_vars PROVE TypeInv'
      OBVIOUS
    <2> USE DEF TypeInv
    <2>1. ASSUME NEW j \in Jobs, runFullSync(j) PROVE TypeInv'
      <3>1. [Idle EXCEPT !.pc = "pick", !.todo = Repos] \in JobState
        BY IdleType DEF Idle, JobState
      <3>2. [Idle EXCEPT !.pc = "pick", !.todo = Repos].pc = "pick"
        BY DEF Idle
      <3>3. QED
        BY <2>1, <3>1, <3>2 DEF runFullSync, TypeOK, WaitsOnce
    <2>2. ASSUME NEW j \in Jobs, finishSync(j) PROVE TypeInv'
      BY <2>2, IdleType DEF finishSync, TypeOK, WaitsOnce, Idle
    <2>3. ASSUME NEW j \in Jobs, NEW r \in Repos, syncRepo(j, r) PROVE TypeInv'
      BY <2>3, FetchingType DEF syncRepo, TypeOK, WaitsOnce
    <2>4. ASSUME NEW j \in Jobs, NEW r \in Repos, fetchPage(j, r) PROVE TypeInv'
      BY <2>4, FetchPageType
    <2>5. ASSUME NEW j \in Jobs, NEW r \in Repos, notModified(j, r) PROVE TypeInv'
      BY <2>5, PickingType DEF notModified, TypeOK, WaitsOnce
    <2>6. ASSUME NEW j \in Jobs, NEW r \in Repos, waitUntil(j, r) PROVE TypeInv'
      <3>1. job[j].attempt + 1 \in 0..2
        BY <2>6 DEF waitUntil, WaitsOnce
      <3>2. QED
        BY <2>6, <3>1, FetchingType DEF waitUntil, TypeOK, WaitsOnce
    <2>7. ASSUME NEW j \in Jobs, NEW r \in Repos, syncIssuesToDb(j, r) PROVE TypeInv'
      BY <2>7, PickingType DEF syncIssuesToDb, Committed, TypeOK, WaitsOnce
    <2>8. ASSUME NEW j \in Jobs, rateLimited(j) PROVE TypeInv'
      <3>1. CASE job[j].attempt = 1 /\ job' = [job EXCEPT ![j].pc = "wait"]
        <4>1. [job[j] EXCEPT !.pc = "wait"] \in JobState
          BY DEF TypeOK, JobState
        <4>2. job' \in [Jobs -> JobState]
          BY <3>1, <4>1 DEF TypeOK
        <4>3. WaitsOnce'
          BY <3>1 DEF TypeOK, WaitsOnce, JobState
        <4>4. QED
          BY <2>8, <4>2, <4>3, SyncAssumption DEF rateLimited, Fault, TypeOK
      <3>2. CASE job' = [job EXCEPT ![j] = Picking(j)]
        BY <2>8, <3>2, PickingType, SyncAssumption DEF rateLimited, Fault, TypeOK, WaitsOnce
      <3>3. QED
        BY <2>8, <3>1, <3>2 DEF rateLimited
    <2>9. ASSUME NEW j \in Jobs, fetchFails(j) PROVE TypeInv'
      BY <2>9, PickingType, SyncAssumption DEF fetchFails, Fault, TypeOK, WaitsOnce
    <2>10. ASSUME NEW j \in Jobs, syncIssuesToDbFails(j) PROVE TypeInv'
      <3>1. job[j].repo \subseteq Repos
        BY DEF TypeOK, JobState
      <3>2. QED
        BY <2>10, <3>1, PickingType, SyncAssumption DEF syncIssuesToDbFails, Fault, TypeOK, WaitsOnce
    <2>11. CASE Restart
      BY <2>11, IdleType, SyncAssumption DEF Restart, Fault, TypeOK, WaitsOnce, Idle
    <2>12. ASSUME NEW r \in Repos, NEW i \in Issues, GitHubChanges(r, i) PROVE TypeInv'
      BY <2>12, SyncAssumption DEF GitHubChanges, TypeOK, WaitsOnce
    <2>13. CASE UNCHANGED vars
      BY <2>13 DEF vars, TypeOK, WaitsOnce
    <2>14. QED
      BY <2>1, <2>2, <2>3, <2>4, <2>5, <2>6, <2>7, <2>8, <2>9, <2>10, <2>11, <2>12, <2>13
         DEF Next, Progress
  <1>3. QED
    BY <1>1, <1>2, PTL DEF Spec

\* Type correctness of the sync job: page numbers stay within the listing, a
\* request is tried at most twice, and rows, ETags and lists hold issues only,
\* however runs of the job overlap.
THEOREM SyncTypes == Spec => []TypeOK
  <1>1. TypeInv => TypeOK
    BY DEF TypeInv
  <1>2. QED
    BY <1>1, TypeInvHolds, PTL

-----------------------------------------------------------------------------
(* The ETag is a promise *)

\* A fetch starts empty, and from its second page on it holds the issues of the
\* page its ETag stands for; a repository that never had a second page is read to
\* the end by the first request.
HoldsPage ==
  \A j \in Jobs, r \in Repos : job[j].repo = {r} =>
    /\ job[j].pc = "fetch" => job[j].page # 0
    /\ job[j].pc = "fetch" /\ job[j].page = 1 => job[j].issues = {}
    /\ job[j].pc = "fetch" /\ job[j].page # 1 => job[j].etag \subseteq job[j].issues /\ r \in large
    /\ job[j].pc = "store" => /\ job[j].etag \subseteq job[j].issues
                              /\ r \notin large => job[j].issues = job[j].etag

\* What does not fit on a page was noticed when it appeared.
LargeKnown == \A r \in Repos : HasNext(gh[r], 1) => r \in large

LEMMA WholeListing ==
  ASSUME NEW S \in SUBSET Issues, ~HasNext(S, 1)
  PROVE  PageOf(S, 1) = S
  <1>1. IsFiniteSet(S)
    BY SyncAssumption, FS_Subset
  <1>2. Cardinality(S) \in Nat /\ Cardinality(S) <= PageSize
    BY <1>1, SyncAssumption, FS_CardinalityType DEF HasNext
  <1>3. ASSUME NEW i \in S PROVE Cardinality({n \in S : n > i}) \div PageSize = 0
    <2> DEFINE Newer == {n \in S : n > i}
    <2>1. i \in Nat
      BY SyncAssumption
    <2>2. Newer \subseteq S \ {i}
      BY <2>1
    <2>3. IsFiniteSet(S \ {i}) /\ Cardinality(S \ {i}) = Cardinality(S) - 1
      BY <1>1, FS_RemoveElement
    <2>4. IsFiniteSet(Newer) /\ Cardinality(Newer) <= Cardinality(S \ {i})
      BY <2>2, <2>3, FS_Subset
    <2>5. Cardinality(Newer) \in Nat
      BY <2>4, FS_CardinalityType
    <2> HIDE DEF Newer
    <2>6. Cardinality(Newer) < PageSize
      BY <1>2, <2>3, <2>4, <2>5, SyncAssumption
    <2>7. Cardinality(Newer) \div PageSize = 0
      BY <2>5, <2>6, SyncAssumption
    <2>8. QED
      BY <2>7 DEF Newer
  <1>4. QED
    BY <1>3 DEF PageOf

EtagInv == EtagMeansStored /\ HoldsPage /\ LargeKnown

\* A step of a run that is not about to store, which leaves rows, ETags and history
\* alone, keeps the promise.
LEMMA EtagFrame ==
  ASSUME EtagMeansStored, UNCHANGED <<etagCache, db, missed, large>>,
         \A k \in Jobs : job[k].pc = "store" => job'[k] = job[k]
  PROVE  EtagMeansStored'
  BY DEF EtagMeansStored, Covers, OpenRows

\* A run that neither fetches nor stores holds nothing.
LEMMA HoldsFrame ==
  ASSUME HoldsPage, UNCHANGED large, NEW j \in Jobs, job'[j].pc \notin {"fetch", "store"},
         \A k \in Jobs : k # j => job'[k] = job[k]
  PROVE  HoldsPage'
  BY DEF HoldsPage

LEMMA FetchKeepsPromise ==
  ASSUME TypeOK, EtagInv, NEW j \in Jobs, NEW r \in Repos, fetchPage(j, r)
  PROVE  EtagInv'
  <1> DEFINE content == PageOf(gh[r], job[j].page)
             etag == IF job[j].page = 1 THEN EtagOf(gh[r]) ELSE job[j].etag
             more == content # {} /\ HasNext(gh[r], job[j].page)
  <1>1. gh[r] \in SUBSET Issues /\ job[j] \in JobState
    BY DEF TypeOK
  <1>2. job[j].repo = {r} /\ job[j].pc = "fetch" /\ UNCHANGED <<gh, db, missed, large>>
    BY DEF fetchPage
  <1>3. \A k \in Jobs : k # j => job'[k] = job[k]
    BY DEF fetchPage, TypeOK
  <1>4. /\ job'[j].repo = {r} /\ job'[j].etag = etag /\ job'[j].issues = job[j].issues \cup content
        /\ job'[j].pc = IF more THEN "fetch" ELSE "store"
        /\ more => job'[j].page = job[j].page + 1
    BY <1>1, <1>2 DEF fetchPage, TypeOK, JobState
  <1>5. etag \subseteq job[j].issues \cup content
    BY <1>2 DEF EtagInv, HoldsPage, EtagOf
  <1>6. job[j].page = 1 => job[j].issues = {}
    BY <1>2 DEF EtagInv, HoldsPage
  <1>7. job[j].page # 1 => r \in large
    BY <1>2 DEF EtagInv, HoldsPage
  <1>8. r \notin large => /\ ~HasNext(gh[r], 1) /\ job[j].page = 1
                          /\ content = gh[r] /\ etag = gh[r] /\ job[j].issues = {}
    BY <1>1, <1>6, <1>7, WholeListing DEF EtagInv, LargeKnown, EtagOf
  <1>9. job[j].page \in Nat
    BY <1>1 DEF JobState
  <1>10. more => job'[j].page # 1 /\ r \in large
    <2>1. job[j].page # 0
      BY <1>2 DEF EtagInv, HoldsPage
    <2>2. more => job'[j].page # 1
      BY <1>4, <1>9, <2>1
    <2>3. more /\ job[j].page = 1 => HasNext(gh[r], 1)
      OBVIOUS
    <2>4. QED
      <3>1. CASE job[j].page = 1
        BY <2>2, <2>3, <3>1 DEF EtagInv, LargeKnown
      <3>2. CASE job[j].page # 1
        BY <1>7, <2>2, <3>2
      <3>3. QED
        BY <3>1, <3>2
  <1> HIDE DEF content, etag, more
  <1>11. HoldsPage'
    <2>1. job[j].page # 0
      BY <1>2 DEF EtagInv, HoldsPage
    <2>2. more => job'[j].page # 0
      BY <1>4, <1>9
    <2>3. QED
      <3> SUFFICES ASSUME NEW k \in Jobs, NEW s \in Repos, job'[k].repo = {s}
                   PROVE  /\ job'[k].pc = "fetch" => job'[k].page # 0
                          /\ job'[k].pc = "fetch" /\ job'[k].page = 1 => job'[k].issues = {}
                          /\ job'[k].pc = "fetch" /\ job'[k].page # 1 =>
                               job'[k].etag \subseteq job'[k].issues /\ s \in large'
                          /\ job'[k].pc = "store" =>
                               /\ job'[k].etag \subseteq job'[k].issues
                               /\ s \notin large' => job'[k].issues = job'[k].etag
        BY DEF HoldsPage
      <3>1. CASE k # j
        BY <1>2, <1>3, <3>1 DEF EtagInv, HoldsPage
      <3>2. CASE k = j /\ more
        BY <1>2, <1>4, <1>5, <1>10, <2>2, <3>2
      <3>3. CASE k = j /\ ~more
        <4>1. s = r /\ job'[k].pc = "store" /\ large' = large
          BY <1>2, <1>4, <3>3
        <4>2. r \notin large => job'[k].issues = job'[k].etag
          BY <1>4, <1>8, <3>3
        <4>3. QED
          BY <1>4, <1>5, <3>3, <4>1, <4>2
      <3>4. QED
        BY <3>1, <3>2, <3>3
  <1>12. LargeKnown'
    BY <1>2 DEF EtagInv, LargeKnown
  <1>13. CASE more
    <2>1. UNCHANGED etagCache
      BY <1>13 DEF fetchPage, more, content
    <2>2. EtagMeansStored'
      BY <1>2, <1>3, <2>1, EtagFrame DEF EtagInv
    <2>3. QED
      BY <1>11, <1>12, <2>2 DEF EtagInv
  <1>14. CASE ~more
    <2>1. etagCache' = [etagCache EXCEPT ![r] = etag]
      BY <1>14 DEF fetchPage, more, content, etag
    <2>2. etagCache'[r] = etag /\ \A s \in Repos : s # r => etagCache'[s] = etagCache[s]
      BY <2>1 DEF TypeOK
    <2>3. \A k \in Jobs : job[k].pc = "store" => job'[k] = job[k]
      BY <1>2, <1>3
    <2>4. EtagMeansStored'
      BY <1>2, <1>4, <1>14, <2>2, <2>3 DEF EtagInv, EtagMeansStored, Covers, OpenRows
    <2>5. QED
      BY <1>11, <1>12, <2>4 DEF EtagInv
  <1>15. QED
    BY <1>13, <1>14

LEMMA StoreKeepsPromise ==
  ASSUME TypeOK, EtagInv, NEW j \in Jobs, NEW r \in Repos, syncIssuesToDb(j, r)
  PROVE  EtagInv'
  <1>1. job'[j].pc = "pick" /\ \A k \in Jobs : k # j => job'[k] = job[k]
    BY PickingType DEF syncIssuesToDb, TypeOK
  <1>2. job[j].issues \subseteq Issues /\ job[j].etag \subseteq job[j].issues
        /\ (r \notin large => job[j].issues = job[j].etag) /\ job[j].repo = {r}
    BY DEF TypeOK, JobState, EtagInv, HoldsPage, syncIssuesToDb
  <1>3. OpenRows(r)' = job[j].issues
    BY <1>2 DEF syncIssuesToDb, OpenRows, TypeOK
  <1>4. \A s \in Repos : s # r => OpenRows(s)' = OpenRows(s)
    BY DEF syncIssuesToDb, OpenRows, TypeOK
  <1>5. UNCHANGED <<gh, etagCache, large>> /\ Committed(j, r)
    BY DEF syncIssuesToDb
  <1>6. CASE etagCache[r] = job[j].etag
    <2>1. missed' = missed \ {r} /\ Covers(r, etagCache[r])'
      BY <1>2, <1>3, <1>5, <1>6 DEF Committed, Covers
    <2>2. QED
      BY <1>1, <1>2, <1>4, <1>5, <2>1, HoldsFrame DEF EtagInv, EtagMeansStored, Covers, LargeKnown
  <1>7. CASE etagCache[r] # job[j].etag
    <2>1. missed' = missed \cup {r}
      BY <1>5, <1>7 DEF Committed
    <2>2. QED
      BY <1>1, <1>2, <1>4, <1>5, <2>1, HoldsFrame DEF EtagInv, EtagMeansStored, Covers, LargeKnown
  <1>8. QED
    BY <1>6, <1>7

\* A remembered ETag is a promise that its issues are stored, however runs overlap
\* and however many pages a repository has: the open rows cover the page it stands
\* for, unless they are about to be stored, their transaction was rolled back, or an
\* answer of another ETag was stored over them.  The last two are the gaps that
\* github_sync_db_fault and github_sync_overlap show; there is no third.
THEOREM EtagIsAPromise == Spec => []EtagMeansStored
  <1>1. Init => EtagInv
    BY DEF Init, EtagInv, EtagMeansStored, HoldsPage, LargeKnown, Idle
  <1>2. TypeInv /\ EtagInv /\ [Next]_vars => EtagInv'
    <2> SUFFICES ASSUME TypeOK, WaitsOnce, EtagInv, [Next]_vars PROVE EtagInv'
      BY DEF TypeInv
    <2>1. ASSUME NEW j \in Jobs, job[j].pc # "store", job'[j].pc \notin {"fetch", "store"},
                 \A k \in Jobs : k # j => job'[k] = job[k],
                 UNCHANGED <<gh, etagCache, db, missed, large>>
          PROVE  EtagInv'
      BY <2>1, EtagFrame, HoldsFrame DEF EtagInv, LargeKnown
    <2>2. ASSUME NEW j \in Jobs, runFullSync(j) \/ finishSync(j) PROVE EtagInv'
      <3> PICK new \in {Idle, [Idle EXCEPT !.pc = "pick", !.todo = Repos]} :
                 /\ job' = [job EXCEPT ![j] = new]
                 /\ UNCHANGED <<gh, etagCache, db, missed, large>>
                 /\ job[j].pc \in {"idle", "pick"}
        BY <2>2 DEF runFullSync, finishSync
      <3>6. Idle.pc = "idle" /\ [Idle EXCEPT !.pc = "pick", !.todo = Repos].pc = "pick"
        BY DEF Idle
      <3>0. new.pc \in {"idle", "pick"}
        BY <3>6
      <3>1. job'[j].pc \in {"idle", "pick"} /\ job[j].pc # "store"
        BY <3>0 DEF TypeOK
      <3>2. (\A k \in Jobs : k # j => job'[k] = job[k]) /\ UNCHANGED <<gh, etagCache, db, missed, large>>
        BY DEF TypeOK
      <3>3. job'[j].pc \notin {"fetch", "store"}
        BY <3>1
      <3>4. job[j].pc # "store"
        BY <3>1
      <3>5. QED
        BY <2>1, <3>2, <3>3, <3>4
    <2>3. ASSUME NEW j \in Jobs, NEW r \in Repos, NEW a \in 0..2, job[j].pc # "store",
                 job' = [job EXCEPT ![j] = Fetching(j, r, a)],
                 UNCHANGED <<gh, etagCache, db, missed, large>>
          PROVE  EtagInv'
      <3>1. job'[j].pc = "fetch" /\ job'[j].page = 1 /\ job'[j].issues = {} /\ job'[j].repo = {r}
        BY <2>3 DEF TypeOK, JobState, Fetching
      <3>2. \A k \in Jobs : k # j => job'[k] = job[k]
        BY <2>3 DEF TypeOK
      <3>3. HoldsPage'
        BY <2>3, <3>1, <3>2 DEF EtagInv, HoldsPage
      <3>4. EtagMeansStored' /\ LargeKnown'
        BY <2>3, <3>2, EtagFrame DEF EtagInv, LargeKnown
      <3>5. QED
        BY <3>3, <3>4 DEF EtagInv
    <2>4. ASSUME NEW j \in Jobs, job[j].pc # "store",
                 job' = [job EXCEPT ![j] = Picking(j)],
                 UNCHANGED <<gh, etagCache, db, missed, large>>
          PROVE  EtagInv'
      <3>1. job'[j].pc = "pick" /\ \A k \in Jobs : k # j => job'[k] = job[k]
        BY <2>4, PickingType DEF TypeOK
      <3>2. QED
        BY <2>1, <2>4, <3>1
    <2>5. ASSUME NEW j \in Jobs, job[j].pc = "fetch", job' = [job EXCEPT ![j].pc = "wait"],
                 UNCHANGED <<gh, etagCache, db, missed, large>>
          PROVE  EtagInv'
      <3>1. job'[j].pc = "wait" /\ \A k \in Jobs : k # j => job'[k] = job[k]
        BY <2>5 DEF TypeOK, JobState
      <3>2. QED
        BY <2>1, <2>5, <3>1
    <2>6. ASSUME NEW j \in Jobs, syncIssuesToDbFails(j) PROVE EtagInv'
      <3>1. job'[j].pc = "pick" /\ \A k \in Jobs : k # j => job'[k] = job[k]
        BY <2>6, PickingType DEF syncIssuesToDbFails, TypeOK
      <3>2. /\ UNCHANGED <<gh, etagCache, db, large>>
            /\ missed' = missed \cup {r \in job[j].repo : etagCache[r] = job[j].etag}
        BY <2>6 DEF syncIssuesToDbFails
      <3>3. EtagMeansStored'
        BY <3>1, <3>2 DEF EtagInv, EtagMeansStored, Covers, OpenRows
      <3>4. QED
        BY <3>1, <3>2, <3>3, HoldsFrame DEF EtagInv, LargeKnown
    <2>7. CASE Restart
      <3>1. \A r \in Repos : etagCache'[r] = NoEtag
        BY <2>7 DEF Restart
      <3>2. (\A j \in Jobs : job'[j].pc = "idle") /\ UNCHANGED <<gh, large>>
        BY <2>7 DEF Restart, Idle
      <3>3. QED
        BY <3>1, <3>2 DEF EtagInv, EtagMeansStored, HoldsPage, LargeKnown
    <2>8. ASSUME NEW r \in Repos, NEW i \in Issues, GitHubChanges(r, i) PROVE EtagInv'
      <3>1. UNCHANGED <<etagCache, db, job, missed>> /\ large \subseteq large'
        BY <2>8 DEF GitHubChanges
      <3>2. EtagMeansStored' /\ HoldsPage'
        BY <3>1 DEF EtagInv, EtagMeansStored, HoldsPage, Covers, OpenRows
      <3>3. \A s \in Repos : s # r => gh'[s] = gh[s]
        BY <2>8 DEF GitHubChanges, TypeOK
      <3>4. LargeKnown'
        BY <2>8, <3>1, <3>3 DEF EtagInv, LargeKnown, GitHubChanges, HasNext
      <3>5. QED
        BY <3>2, <3>4 DEF EtagInv
    <2>9. ASSUME NEW j \in Jobs, Progress(j) PROVE EtagInv'
      <3>1. ASSUME NEW r \in Repos, syncRepo(j, r) PROVE EtagInv'
        <4>1. /\ job[j].pc # "store" /\ job' = [job EXCEPT ![j] = Fetching(j, r, 1)]
              /\ UNCHANGED <<gh, etagCache, db, missed, large>> /\ 1 \in 0..2
          BY <3>1 DEF syncRepo
        <4>2. QED
          BY <4>1, <2>3
      <3>2. ASSUME NEW r \in Repos, waitUntil(j, r) PROVE EtagInv'
        <4>1. job[j].attempt + 1 \in 0..2
          BY <3>2 DEF waitUntil, WaitsOnce
        <4>2. /\ job[j].pc # "store"
              /\ job' = [job EXCEPT ![j] = Fetching(j, r, job[j].attempt + 1)]
              /\ UNCHANGED <<gh, etagCache, db, missed, large>>
          BY <3>2 DEF waitUntil
        <4>3. QED
          BY <4>1, <4>2, <2>3
      <3>3. ASSUME NEW r \in Repos, notModified(j, r) PROVE EtagInv'
        BY <3>3, <2>4 DEF notModified
      <3>4. QED
        BY <2>2, <2>9, <3>1, <3>2, <3>3, FetchKeepsPromise, StoreKeepsPromise DEF Progress
    <2>10. ASSUME NEW j \in Jobs, rateLimited(j) \/ fetchFails(j) PROVE EtagInv'
      BY <2>4, <2>5, <2>10 DEF rateLimited, fetchFails
    <2>11. CASE UNCHANGED vars
      BY <2>11 DEF vars, EtagInv, EtagMeansStored, HoldsPage, LargeKnown, Covers, OpenRows
    <2>12. QED
      BY <2>6, <2>7, <2>8, <2>9, <2>10, <2>11 DEF Next
  <1>3. EtagInv => EtagMeansStored
    BY DEF EtagInv
  <1>4. QED
    BY <1>1, <1>2, <1>3, TypeInvHolds, PTL DEF Spec
=============================================================================
