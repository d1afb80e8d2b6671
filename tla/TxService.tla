----------------------------- MODULE TxService -----------------------------
(***************************************************************************)
(* POST /api/transactions/*: building an unsigned contract call for one    *)
(* contributor, verifying the signed envelope, sending it and polling the  *)
(* network for its fate (src/routes/transactions.ts, src/soroban.ts,       *)
(* src/xdrVerifier.ts).  Each request is a process whose awaits are steps: *)
(* two tabs of the same contributor interleave with each other, with the   *)
(* network and with the job that mirrors applications in the database.     *)
(***************************************************************************)
EXTENDS Integers, FiniteSets

CONSTANTS
  TxTabs,       \* requests that may be under way at the same time
  TxCalls,      \* functions, besides apply, that the instance calls
  TxIssues,     \* <<organisation, issue number>>
  TxGlobalCap,  \* GLOBAL_CAP
  TxOrgCap,     \* orgs.org_cap
  TxMaxPolls,   \* maxPolls
  TxLifetime,   \* setTimeout(30) of the builder, in clock ticks (0: a tick is longer)
  TxMaxTime,    \* bound of the clock
  TxMaxSeq      \* bound of the account's sequence number

ASSUME TxAssumption ==
  /\ {TxGlobalCap, TxOrgCap, TxMaxPolls, TxMaxTime, TxMaxSeq} \subseteq Nat \ {0} /\ TxLifetime \in Nat
  /\ TxCalls \subseteq {"withdraw_application", "assign_issue",
                       "complete_assignment", "revoke_assignment"}

VARIABLES
  txReq,      \* request of each tab: where it is, its transaction, its answer
  txDb,       \* row of each issue in table applications: none, pending, other
  txNow,      \* wall clock
  txLedger    \* the network: account sequence, contract state, transactions

txVars == <<txReq, txDb, txNow, txLedger>>

TxFunctions == {"apply_for_issue"} \cup TxCalls

\* Field `at` is a history: the wall clock when the transaction was built.
NoTx == [fn |-> "none", issue |-> <<>>, seq |-> 0, maxTime |-> 0, at |-> 0]
IdleReq == [pc |-> "idle", tx |-> NoTx, polls |-> 0, fate |-> "open", answer |-> "none"]

TxInit ==
  /\ txReq = [t \in TxTabs |-> IdleReq]
  /\ txDb = [i \in TxIssues |-> "none"]
  /\ txNow = 1
  /\ txLedger = [seq |-> 0, applied |-> {}, assigned |-> {},
                 pool |-> {}]

Fut(t, pc, tx) == txReq' = [txReq EXCEPT ![t] = [@ EXCEPT !.pc = pc, !.tx = tx]]
Built(t, tx) == txReq' = [txReq EXCEPT ![t] = [pc |-> "idle", tx |-> tx, polls |-> 0,
                                               fate |-> "open", answer |-> "xdr"]]
TxAnswer(t, a) == txReq' = [txReq EXCEPT ![t] = [@ EXCEPT !.pc = "idle", !.answer = a, !.polls = 0]]
OnlyReq == UNCHANGED <<txDb, txNow, txLedger>>

-----------------------------------------------------------------------------
(* The network. *)

contractAccepts(fn, i) ==
  CASE fn = "apply_for_issue" -> i \notin txLedger.applied \cup txLedger.assigned
    [] fn \in {"withdraw_application", "assign_issue"} -> i \in txLedger.applied
    [] OTHER -> i \in txLedger.assigned

\* The next ledger takes the transaction with the next sequence number; whoever
\* holds that transaction can learn its fate.
CloseTxLedger ==
  \E tx \in {p \in txLedger.pool : p.seq = txLedger.seq + 1} :
    LET accepted == contractAccepts(tx.fn, tx.issue)
        rest == [txLedger EXCEPT !.seq = tx.seq, !.pool = {p \in @ : p.seq > tx.seq}]
    IN /\ txLedger' =
            IF ~accepted THEN rest
            ELSE [rest EXCEPT
                    !.applied = IF tx.fn = "apply_for_issue" THEN @ \cup {tx.issue} ELSE @ \ {tx.issue},
                    !.assigned = IF tx.fn = "assign_issue" THEN @ \cup {tx.issue} ELSE @ \ {tx.issue}]
       /\ txReq' = [t \in TxTabs |->
                     IF txReq[t].tx = tx THEN [txReq[t] EXCEPT !.fate = IF accepted THEN "ok" ELSE "failed"]
                     ELSE txReq[t]]
       /\ UNCHANGED <<txDb, txNow>>

\* The mirror of the chain in table applications catches up; a row once made
\* stays, with another status when its application is gone.
MirrorApplications ==
  /\ txDb' = [i \in TxIssues |-> CASE i \in txLedger.applied -> "pending"
                                   [] txDb[i] = "none" -> "none"
                                   [] OTHER -> "other"]
  /\ txDb' # txDb
  /\ UNCHANGED <<txReq, txNow, txLedger>>

\* The network takes a transaction without an upper time bound at any time.
inTime(tx, now) == tx.maxTime = 0 \/ tx.maxTime >= now

\* Expired transactions leave the pool without a verdict.
TxTick == /\ txNow < TxMaxTime
          /\ txNow' = txNow + 1
          /\ txLedger' = [txLedger EXCEPT !.pool = {p \in @ : inTime(p, txNow + 1)}]
          /\ UNCHANGED <<txReq, txDb>>

-----------------------------------------------------------------------------
(* Building: every route answers with the unsigned transaction ("xdr"). *)

buildRaw_noTimeout(fn, i, s) == [fn |-> fn, issue |-> i, seq |-> s + 1, maxTime |-> 0, at |-> txNow]

buildRaw(fn, i, s) == [fn |-> fn, issue |-> i, seq |-> s + 1, maxTime |-> txNow + TxLifetime, at |-> txNow]

\* A body by which of its fields are well formed; every schema wants all of
\* its own.
Bodies == [address : BOOLEAN, org_id : BOOLEAN, issue_id : BOOLEAN, sequence : BOOLEAN]
applySchema(body) == body.address /\ body.org_id /\ body.issue_id /\ body.sequence

\* A body the schema refuses changes nothing.
validateBody(t) == /\ txReq[t].pc = "idle"
                   /\ {body \in Bodies : ~applySchema(body)} # {}
                   /\ TxAnswer(t, "refused")
                   /\ OnlyReq

\* POST /apply, up to the first await: the row lookup, whatever the row's status.
postApply(t) ==
  \E i \in TxIssues :
    /\ txReq[t].pc = "idle"
    /\ IF txDb[i] # "none"
         THEN TxAnswer(t, "refused")
         ELSE txReq' = [txReq EXCEPT ![t] = [IdleReq EXCEPT !.pc = "hasApplied", !.tx = [NoTx EXCEPT !.issue = i]]]
    /\ OnlyReq

\* Outcomes of a read-only call whose value on chain is v.
callReadOnly(v) == {v, "SorobanRpcError", "SorobanParseError"}

hasAppliedOnChain(i) == callReadOnly(IF i \in txLedger.applied THEN "true" ELSE "false")

\* An error of the lookup on chain is ignored.
hasApplied(t) ==
  /\ txReq[t].pc = "hasApplied"
  /\ \E r \in hasAppliedOnChain(txReq[t].tx.issue) :
       IF r = "true" THEN TxAnswer(t, "refused") ELSE Fut(t, "caps", txReq[t].tx)
  /\ OnlyReq

pendingRows == {i \in TxIssues : txDb[i] = "pending"}

capReached(i) == \/ Cardinality(pendingRows) >= TxGlobalCap
                 \/ Cardinality({j \in pendingRows : j[1] = i[1]}) >= TxOrgCap

checkCaps(t) ==
  /\ txReq[t].pc = "caps"
  /\ IF capReached(txReq[t].tx.issue) THEN TxAnswer(t, "refused")
                                      ELSE Fut(t, "sequence", txReq[t].tx)
  /\ OnlyReq

\* It answers 1 when the account cannot be read.
getAccountSequence == {txLedger.seq, 1}

\* The build follows without an await, and a failed simulation only costs the
\* estimate.
buildApplyTx(t) ==
  /\ txReq[t].pc = "sequence"
  /\ txLedger.seq < TxMaxSeq
  /\ \E s \in getAccountSequence :
       Built(t, buildRaw("apply_for_issue", txReq[t].tx.issue, s))
  /\ OnlyReq

\* What the simulation says of a call: the contract's verdict, or an RPC error.
simulate(fn, i) == {"error"} \cup IF contractAccepts(fn, i) THEN {"estimate"} ELSE {}

\* The other four routes take the sequence of the caller and refuse (400) what
\* the simulation refuses.
buildAndSimulate(t) ==
  \E fn \in TxCalls, i \in TxIssues :
    /\ txReq[t].pc = "idle"
    /\ \E r \in simulate(fn, i) :
         IF r = "estimate" THEN Built(t, buildRaw(fn, i, txLedger.seq)) ELSE TxAnswer(t, "refused")
    /\ txLedger.seq < TxMaxSeq
    /\ OnlyReq

-----------------------------------------------------------------------------
(* POST /submit. *)

\* What a decoded envelope shows: the contract it calls, the hints of its
\* signatures, whether its lower time bound lies ahead, whether the first
\* argument is an account.
Envelopes == [decodes : BOOLEAN, contract : {"ours", "other"}, early : BOOLEAN,
              hints : SUBSET {"contributor", "stranger"}, arg : BOOLEAN]

checkTimeBounds(env, tx) == CASE tx.maxTime # 0 /\ tx.maxTime < txNow -> "TRANSACTION_EXPIRED"
                              [] env.early -> "TRANSACTION_NOT_YET_VALID"
                              [] OTHER -> "ok"

checkSignerMatchesContributor(env) ==
  CASE env.hints = {} -> "MISSING_SIGNATURE"
    [] "contributor" \notin env.hints -> "SIGNER_MISMATCH"
    [] OTHER -> "ok"

verifyTransactionXdr(env, tx) ==
  CASE ~env.decodes -> "MALFORMED_XDR"
    [] env.contract # "ours" -> "WRONG_CONTRACT"
    [] checkTimeBounds(env, tx) # "ok" -> checkTimeBounds(env, tx)
    [] ~env.arg -> "MISSING_CONTRIBUTOR_ARG"
    [] OTHER -> checkSignerMatchesContributor(env)

\* The contributor may submit the transaction in hand again and again.
postSubmit(t) ==
  /\ txReq[t].pc = "idle" /\ txReq[t].tx.fn # "none"
  /\ \E verdict \in {verifyTransactionXdr(env, txReq[t].tx) : env \in Envelopes} :
       IF verdict = "ok"
         THEN Fut(t, "send", txReq[t].tx) ELSE TxAnswer(t, "refused")
  /\ OnlyReq

Accepts(tx) == /\ tx \notin txLedger.pool
               /\ tx.seq = txLedger.seq + 1
               /\ inTime(tx, txNow)

\* sendTransaction: anything but PENDING is reported as a success at once, an
\* exception as an error without a hash, whether or not the network has it.
sendTransaction(t) ==
  LET tx == txReq[t].tx
      taken == [txLedger EXCEPT !.pool = @ \cup {tx}]
  IN /\ txReq[t].pc = "send"
     /\ \/ Accepts(tx) /\ txLedger' = taken /\ Fut(t, "poll", tx)
        \/ Accepts(tx) /\ txLedger' = taken /\ TxAnswer(t, "lost")
        \/ UNCHANGED txLedger /\ TxAnswer(t, "lost")
        \/ UNCHANGED txLedger /\ TxAnswer(t, "assumed")
     /\ UNCHANGED <<txDb, txNow>>

pollVerdict_giveUp(fate, polls) ==
  CASE fate = "ok" -> "success"
    [] fate = "failed" \/ polls + 1 = TxMaxPolls -> "failed"
    [] OTHER -> "none"

pollVerdict_offByOne(fate, polls) ==
  CASE fate = "ok" -> "success"
    [] fate = "failed" -> "failed"
    [] fate = "open" /\ polls = TxMaxPolls -> "assumed"
    [] OTHER -> "none"

\* One turn of the polling loop.
pollVerdict(fate, polls) ==
  CASE fate = "ok" -> "success"
    [] fate = "failed" -> "failed"
    [] fate = "open" /\ polls + 1 = TxMaxPolls -> "assumed"
    [] OTHER -> "none"

nextPoll_never(p) == p

nextPoll(p) == p + 1

getTransaction(t) ==
  /\ txReq[t].pc = "poll"
  /\ IF pollVerdict(txReq[t].fate, txReq[t].polls) = "none"
       THEN txReq' = [txReq EXCEPT ![t].polls = nextPoll(@)]
       ELSE TxAnswer(t, pollVerdict(txReq[t].fate, txReq[t].polls))
  /\ OnlyReq

getTransactionThrows(t) == /\ txReq[t].pc = "poll"
                           /\ TxAnswer(t, "lost")
                           /\ OnlyReq

-----------------------------------------------------------------------------
TxRequest(t) == \/ hasApplied(t) \/ checkCaps(t) \/ buildApplyTx(t)
                \/ sendTransaction(t) \/ getTransaction(t)

TxNext == \/ \E t \in TxTabs : \/ validateBody(t) \/ postApply(t) \/ buildAndSimulate(t)
                                 \/ postSubmit(t) \/ getTransactionThrows(t)
                                 \/ TxRequest(t)
          \/ CloseTxLedger \/ MirrorApplications \/ TxTick

-----------------------------------------------------------------------------
Txs == [fn : TxFunctions \cup {"none"}, issue : TxIssues \cup {<<>>},
        seq : 0..(TxMaxSeq + 2), maxTime : 0..(TxMaxTime + TxLifetime), at : 0..TxMaxTime]

\* A request is where its handler can be, and no loop polls beyond maxPolls.
TxTypeOK ==
  /\ \A t \in TxTabs :
       /\ txReq[t].pc \in {"idle", "hasApplied", "caps", "sequence", "send", "poll"}
       /\ txReq[t].tx \in Txs
       /\ txReq[t].polls \in 0..(TxMaxPolls - 1)
       /\ txReq[t].fate \in {"open", "ok", "failed"}
       /\ txReq[t].answer \in {"none", "refused", "xdr",
                               "success", "failed", "assumed", "lost"}
  /\ txDb \in [TxIssues -> {"none", "pending", "other"}]
  /\ txLedger.applied \cap txLedger.assigned = {}

\* Nothing can come of the transaction any more.
Over(tx) == tx \notin txLedger.pool /\ ~Accepts(tx)

\* What POST /submit answers stands.  'success' with a verdict of the network:
\* the transaction has taken effect.  'error' with a hash: it has not, and never
\* will, so the contributor may build another one.  The other two answers (no
\* hash because a call threw; 'success' assumed after the last poll or because
\* sendTransaction did not say PENDING) hold no verdict: the transaction may
\* still take effect, yet only while its 30 seconds last; then it is over.
TxVerdictStands ==
  \A t \in TxTabs :
    LET q == txReq[t]
    IN /\ q.answer = "success" => q.fate = "ok"
       /\ q.answer = "failed" => q.fate # "ok" /\ Over(q.tx)
       /\ q.answer \in {"lost", "assumed"} /\ txNow > q.tx.at + TxLifetime => Over(q.tx)

\* POST /submit answers, whatever the network does with the transaction: the
\* polling loop of submitTransaction gives up.
TxAnswered == \A t \in TxTabs : (txReq[t].pc = "poll") ~> (txReq[t].pc = "idle")
=============================================================================
