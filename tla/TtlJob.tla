------------------------------- MODULE TtlJob --------------------------------
(***************************************************************************)
(* The job that keeps applications alive on chain (backend/src/scheduler.ts *)
(* with extendApplicationTtlBatch of backend/src/soroban.ts), against the  *)
(* entries of the contract.  One tick is the six hours between two starts  *)
(* of the job; a run lasts seconds per batch, so no tick falls into a run. *)
(* Table active_applications is written by no code of the repository: its  *)
(* rows are external.                                                      *)
(***************************************************************************)
EXTENDS Integers, Sequences, SequencesExt, FiniteSets

CONSTANTS
  TtlApps,       \* applications with a pending row
  TtlGone,       \* those of them that are gone on chain: withdrawn, assigned, expired
  TtlBatchSize,  \* BATCH_SIZE
  TtlLife,       \* APP_TTL_LEDGERS, in ticks: four
  TtlMaxMisses   \* failures in a row an application can bear

ASSUME TtlAssumption == /\ IsFiniteSet(TtlApps) /\ TtlBatchSize \in Nat \ {0}
                        /\ {TtlLife, TtlMaxMisses} \subseteq Nat /\ TtlMaxMisses + 1 < TtlLife

VARIABLES
  ttlChain,    \* ticks each entry has left on chain, 0 when it is gone
  ttlRow,      \* ticks until ttl_expires_at of each row
  ttlJob,      \* where the run is, its batches still to do and its two counters
  ttlMisses,   \* for each application, failed calls in a row (one too many is as good as more)
  ttlOn        \* the cron task is scheduled

ttlVars == <<ttlChain, ttlRow, ttlJob, ttlMisses, ttlOn>>

TtlIdle == [pc |-> "idle", left |-> <<>>, loaded |-> 0, extended |-> 0, failed |-> 0]

\* startScheduler runs the job at once.
startScheduler == /\ ttlChain = [a \in TtlApps |-> IF a \in TtlGone THEN 0 ELSE TtlLife]
                  /\ ttlRow = [a \in TtlApps |-> TtlLife]
                  /\ ttlJob = [TtlIdle EXCEPT !.pc = "load"]
                  /\ ttlMisses = [a \in TtlApps |-> 0]
                  /\ ttlOn = TRUE

-----------------------------------------------------------------------------
dueRow_future(a) == ttlRow[a] \in 1..TtlLife

\* The threshold is a whole life, so a row is due from the day it is written.
dueRow(a) == ttlRow[a] <= TtlLife

batchEnd(arr, i) == IF i * TtlBatchSize < Len(arr) THEN i * TtlBatchSize ELSE Len(arr)

chunk_inclusive(arr) == LET n == (Len(arr) + TtlBatchSize - 1) \div TtlBatchSize
                        IN [i \in 1..n |-> SubSeq(arr, (i - 1) * TtlBatchSize + 1, batchEnd(arr, i + 1))]

chunk(arr) == LET n == (Len(arr) + TtlBatchSize - 1) \div TtlBatchSize
              IN [i \in 1..n |-> SubSeq(arr, (i - 1) * TtlBatchSize + 1, batchEnd(arr, i))]

Missed(apps) == [a \in TtlApps |-> IF a \in apps /\ ttlMisses[a] <= TtlMaxMisses
                                   THEN ttlMisses[a] + 1 ELSE ttlMisses[a]]

\* Rows with the same ttl_expires_at come in any order.
DueOrders(due) == {s \in SetToSeqs(due) : \A i, j \in DOMAIN s : i < j => ttlRow[s[i]] <= ttlRow[s[j]]}

loadExpiringApplications ==
  /\ ttlJob.pc = "load"
  /\ \/ LET due == {a \in TtlApps : dueRow(a)}
        IN /\ \E ordered \in DueOrders(due) :
                ttlJob' = IF due = {} THEN TtlIdle
                          ELSE [TtlIdle EXCEPT !.pc = "batches", !.left = chunk(ordered), !.loaded = Len(ordered)]
           /\ UNCHANGED ttlMisses
     \/ ttlMisses' = Missed(TtlApps) /\ ttlJob' = TtlIdle      \* the query fails
  /\ UNCHANGED <<ttlChain, ttlRow, ttlOn>>

\* assembleTransaction of the SDK takes a transaction of one operation only, and
\* extend_application_ttl of an entry that is gone fails the simulation.
assembles(batch) == Len(batch) = 1 /\ ttlChain[batch[1]] > 0

afterFailure_stop(batches) == <<>>

\* A failed batch is logged, and the next one is taken.
afterFailure(batches) == Tail(batches)

\* One batch, its polls included.  A transaction that is rejected, that fails on
\* chain or whose polls throw is counted as failed; one the node has not found
\* after 31 polls counts as extended, and since it is valid for 30 s it is lost.
extendApplicationTtlBatch ==
  LET batch == Head(ttlJob.left)
      apps == Range(batch)
      n == Len(batch)
      failed == [ttlJob EXCEPT !.left = afterFailure(@), !.failed = @ + n]
      extended == [ttlJob EXCEPT !.left = Tail(@), !.extended = @ + n]
  IN /\ ttlJob.pc = "batches" /\ ttlJob.left # <<>>
     /\ \/ /\ ~assembles(batch)
           /\ ttlJob' = failed /\ ttlMisses' = Missed(apps)
           /\ UNCHANGED ttlChain
        \/ /\ assembles(batch)
           /\ ttlChain' = [a \in TtlApps |-> IF a \in apps THEN TtlLife ELSE ttlChain[a]]
           /\ ttlMisses' = [a \in TtlApps |-> IF a \in apps THEN 0 ELSE ttlMisses[a]]
           /\ ttlJob' = extended
        \/ /\ assembles(batch)
           /\ ttlMisses' = Missed(apps)
           /\ ttlJob' \in {failed, extended}
           /\ UNCHANGED ttlChain
     /\ UNCHANGED <<ttlRow, ttlOn>>

jobComplete == /\ ttlJob.pc = "batches" /\ ttlJob.left = <<>>
               /\ ttlJob' = [ttlJob EXCEPT !.pc = "idle"]
               /\ UNCHANGED <<ttlChain, ttlRow, ttlMisses, ttlOn>>

\* The cron task, six hours later; nobody writes ttl_expires_at.
ttlTask == LET older(f) == [a \in TtlApps |-> IF f[a] = 0 THEN 0 ELSE f[a] - 1]
           IN /\ ttlOn /\ ttlJob.pc = "idle"
              /\ ttlChain' = older(ttlChain)
              /\ ttlRow' = older(ttlRow)
              /\ ttlJob' = [TtlIdle EXCEPT !.pc = "load"]
              /\ UNCHANGED <<ttlMisses, ttlOn>>

\* shutdown: no further run starts, the one under way goes on.
stop == ttlOn /\ ttlOn' = FALSE /\ UNCHANGED <<ttlChain, ttlRow, ttlJob, ttlMisses>>

TtlNext == loadExpiringApplications \/ extendApplicationTtlBatch \/ jobComplete \/ ttlTask \/ stop

-----------------------------------------------------------------------------
\* Type invariant.
TtlTypeOK ==
  /\ ttlChain \in [TtlApps -> 0..TtlLife] /\ ttlRow \in [TtlApps -> 0..TtlLife]
  /\ ttlJob.pc \in {"idle", "load", "batches"}
  /\ ttlJob.extended + ttlJob.failed <= ttlJob.loaded
  /\ ttlMisses \in [TtlApps -> 0..(TtlMaxMisses + 1)]

\* A pending application stays alive on chain while the scheduler runs, as long as
\* no more calls in a row failed for it than its life has room for, and a failure
\* of another batch is none of its own.
TtlKept == \A a \in TtlApps \ TtlGone : ttlMisses[a] <= TtlMaxMisses => ttlChain[a] > 0

\* A run that is complete has tried every application it loaded: a batch that
\* fails does not keep the ones after it from being sent.
TtlAllTried == ttlJob.pc = "idle" => ttlJob.extended + ttlJob.failed = ttlJob.loaded
=============================================================================
