----------------------------- MODULE TxControls -----------------------------
(***************************************************************************)
(* The controls a contributor signs transactions with (frontend/src):      *)
(* the confirmation dialog a caller awaits (hooks/useTxModal.ts,           *)
(* components/TxConfirmModal.tsx), the apply buttons (hooks/               *)
(* useApplyForIssue.ts, ApplyButton.tsx, ApplyForIssueButton.tsx), the     *)
(* withdraw button (hooks/useWithdrawApplication.ts, WithdrawButton.tsx)   *)
(* and the button that extends an application's lifetime                   *)
(* (TTLExtensionButton.tsx).                                               *)
(***************************************************************************)
EXTENDS Naturals

CONSTANTS
  TcCallers,  \* callers of confirm(): external, no code under src/ calls it yet
  TcCap,      \* maxGlobalLimit
  TcExpiry,   \* expiryTimestamp
  TcNear,     \* nearExpiryThresholdSeconds
  TcMaxTime   \* bound of the clock

ASSUME TcAssumption == {TcCap, TcExpiry, TcNear} \subseteq Nat /\ TcMaxTime \in Nat \ {0}

VARIABLES
  tcModal,    \* status of the dialog
  tcDetails,  \* whose details the dialog shows: {} or {caller}
  tcResolver, \* whose promise the buttons resolve or reject: {} or {caller}
  tcAwait,    \* callers that await confirm()
  tcLeft,     \* history: callers overtaken, while they waited, by another confirm() or by close()
  tcApply,    \* ApplyButton: state, calls under way, reason (applyDisabledReason)
  tcLimit,    \* ApplyForIssueButton: isSubmitting, calls under way, globalAppCount
  tcWithdraw, \* WithdrawButton: state, calls under way
  tcTtl,      \* TTLExtensionButton: isSubmitting, sent (clock of the last call), shown (nowSeconds)
  tcNow       \* the clock

tcDialog == <<tcModal, tcDetails, tcResolver, tcAwait, tcLeft>>
tcVars == <<tcModal, tcDetails, tcResolver, tcAwait, tcLeft, tcApply, tcLimit, tcWithdraw, tcTtl, tcNow>>

TcInit == /\ tcModal = "idle" /\ tcDetails = {} /\ tcResolver = {} /\ tcAwait = {} /\ tcLeft = {}
          /\ tcApply = [state |-> "idle", calls |-> 0, reason |-> FALSE]
          /\ tcLimit = [busy |-> FALSE, calls |-> 0, count |-> 0]
          /\ tcWithdraw = [state |-> "idle", calls |-> 0]
          /\ tcTtl = [busy |-> FALSE, sent |-> 0, shown |-> 1]
          /\ tcNow = 1

-----------------------------------------------------------------------------
(* useTxModal: confirm() opens the dialog and is awaited. *)

OnlyModal == UNCHANGED <<tcApply, tcLimit, tcWithdraw, tcTtl, tcNow>>

resolverOf_first(k) == IF tcResolver = {} THEN {k} ELSE tcResolver

\* setResolver: the promise of the last call, whoever waits on an earlier one.
resolverOf(k) == {k}

confirm(k) == /\ k \notin tcAwait
              /\ tcModal' = "confirming" /\ tcDetails' = {k} /\ tcResolver' = resolverOf(k)
              /\ tcAwait' = tcAwait \cup {k} /\ tcLeft' = (tcLeft \cup tcAwait) \ {k}
              /\ OnlyModal

\* setLoading and setError, which a caller is meant to call, change the status alone.
setStatus == /\ \/ tcModal \in {"confirming", "error"} /\ tcModal' = "loading"
                \/ tcModal = "loading" /\ tcModal' = "error"
             /\ UNCHANGED <<tcDetails, tcResolver, tcAwait, tcLeft>> /\ OnlyModal

closed == tcModal' = "idle" /\ tcDetails' = {} /\ tcResolver' = {}

\* close(), by a caller or by Dismiss: whoever waits is neither resolved nor rejected.
close == /\ tcModal # "idle" /\ closed
         /\ tcLeft' = tcLeft \cup tcAwait /\ UNCHANGED tcAwait /\ OnlyModal

\* Confirm and Retry.  A promise that is settled stays so.
resolveConfirm == /\ tcModal \in {"confirming", "error"}
                  /\ tcAwait' = tcAwait \ tcResolver
                  /\ UNCHANGED <<tcModal, tcDetails, tcResolver, tcLeft>> /\ OnlyModal

\* Cancel, Escape and the backdrop, while nothing is being signed: the await throws.
rejectConfirm == /\ tcModal \in {"confirming", "error"}
                 /\ tcAwait' = tcAwait \ tcResolver /\ closed
                 /\ UNCHANGED tcLeft /\ OnlyModal

-----------------------------------------------------------------------------
(* Applying. *)

OnlyApply == UNCHANGED <<tcDialog, tcWithdraw, tcTtl, tcNow>>

\* The parent learns a new count; at the cap it also passes a reason.
setCounts(n) == /\ tcLimit.count # n
                /\ tcLimit' = [tcLimit EXCEPT !.count = n]
                /\ tcApply' = [tcApply EXCEPT !.reason = (n >= TcCap)]
                /\ OnlyApply

\* The button is shown until applied, and enabled unless a reason is given.
applyShown == tcApply.state # "applied" /\ ~tcApply.reason

apply == /\ applyShown /\ tcApply.state # "submitting"
         /\ \/ tcApply' = [tcApply EXCEPT !.state = "submitting", !.calls = @ + 1]
            \/ tcApply' = [tcApply EXCEPT !.state = "error"]   \* no contract client
         /\ UNCHANGED tcLimit /\ OnlyApply

\* Every failure ends in a message (mapContractError).
applyEnds(ok) == /\ tcApply.calls > 0
                 /\ tcApply' = [tcApply EXCEPT !.calls = @ - 1,
                                               !.state = IF ok THEN "applied" ELSE "error"]
                 /\ UNCHANGED tcLimit /\ OnlyApply

handleApplyGuard_unguarded == tcLimit.count < TcCap

handleApplyGuard == tcLimit.count < TcCap /\ ~tcLimit.busy

limitApply == /\ handleApplyGuard /\ tcLimit.calls < 2
              /\ tcLimit' = [tcLimit EXCEPT !.busy = TRUE, !.calls = @ + 1]
              /\ UNCHANGED tcApply /\ OnlyApply

\* Success, refusal or exception: the button is released.
limitApplyEnds == /\ tcLimit.calls > 0
                  /\ tcLimit' = [tcLimit EXCEPT !.busy = FALSE, !.calls = @ - 1]
                  /\ UNCHANGED tcApply /\ OnlyApply

-----------------------------------------------------------------------------
(* Withdrawing. *)

OnlyWithdraw == UNCHANGED <<tcDialog, tcApply, tcLimit, tcTtl, tcNow>>
setWithdraw(state, calls) == tcWithdraw' = [state |-> state, calls |-> calls] /\ OnlyWithdraw

triggerEnabled_always == tcWithdraw.state # "withdrawn"

\* WithdrawButton renders nothing once withdrawn; disabled while submitting.
triggerEnabled == tcWithdraw.state \notin {"submitting", "withdrawn"}

requestWithdraw == triggerEnabled /\ setWithdraw("confirming", tcWithdraw.calls)
cancelWithdraw == tcWithdraw.state = "confirming" /\ setWithdraw("idle", tcWithdraw.calls)
confirmWithdraw == /\ tcWithdraw.state = "confirming" /\ tcWithdraw.calls < 2
                   /\ \/ setWithdraw("submitting", tcWithdraw.calls + 1)
                      \/ setWithdraw("error", tcWithdraw.calls)   \* no contract client
withdrawEnds(ok) == /\ tcWithdraw.calls > 0
                    /\ setWithdraw(IF ok THEN "withdrawn" ELSE "error", tcWithdraw.calls - 1)

-----------------------------------------------------------------------------
(* Extending. *)

OnlyTtl == UNCHANGED <<tcDialog, tcApply, tcLimit, tcWithdraw>>

remainingSeconds == IF TcExpiry > tcTtl.shown THEN TcExpiry - tcTtl.shown ELSE 0
isNearExpiry == remainingSeconds <= TcNear

extendEnabled_nearOnly == isNearExpiry /\ ~tcTtl.busy

extendEnabled == isNearExpiry /\ ~tcTtl.busy /\ remainingSeconds > 0

handleExtend == /\ extendEnabled
                /\ tcTtl' = [tcTtl EXCEPT !.busy = TRUE, !.sent = tcNow]
                /\ OnlyTtl /\ UNCHANGED tcNow

extendEnds == /\ tcTtl.busy /\ tcTtl' = [tcTtl EXCEPT !.busy = FALSE]
              /\ OnlyTtl /\ UNCHANGED tcNow

\* The interval timer runs at some moment of each second.
TcTick == /\ tcNow < TcMaxTime /\ tcNow' = tcNow + 1
          /\ \E s \in {tcNow, tcNow + 1} : tcTtl' = [tcTtl EXCEPT !.shown = s]
          /\ OnlyTtl

TcNext == \/ \E k \in TcCallers : confirm(k)
          \/ setStatus \/ close \/ resolveConfirm \/ rejectConfirm
          \/ \E ok \in BOOLEAN : applyEnds(ok) \/ withdrawEnds(ok)
          \/ \E n \in 0..TcCap : setCounts(n)
          \/ apply \/ limitApply \/ limitApplyEnds
          \/ requestWithdraw \/ cancelWithdraw \/ confirmWithdraw
          \/ handleExtend \/ extendEnds \/ TcTick

-----------------------------------------------------------------------------
\* Type invariant; one call of each apply button at a time, shown as such.
TcTypeOK == /\ tcModal \in {"idle", "confirming", "loading", "error"}
            /\ tcAwait \subseteq TcCallers /\ tcLeft \subseteq TcCallers
            /\ tcApply.calls = (IF tcApply.state = "submitting" THEN 1 ELSE 0)
            /\ tcLimit.calls = (IF tcLimit.busy THEN 1 ELSE 0)
            /\ tcNow \in 1..TcMaxTime

\* A decision reaches the caller it was taken for: the buttons settle the
\* promise of the call whose details are shown, and whoever awaits confirm() has
\* the dialog open on its own call, unless another confirm() or close() overtook
\* it; such a caller waits for ever.
TcDecisionIsOwn == /\ tcDetails = tcResolver
                   /\ \A k \in tcAwait \ tcLeft : tcModal # "idle" /\ tcResolver = {k}

\* No second withdrawal is sent while one is under way, through the dialog, the
\* trigger behind it, cancelling and failing.
TcOneWithdrawal == tcWithdraw.calls = (IF tcWithdraw.state = "submitting" THEN 1 ELSE 0)

\* An extension is sent before the application has expired, up to the one
\* second by which the countdown may lag.
TcExtendInTime == tcTtl.sent <= TcExpiry
=============================================================================
