----------------------------- MODULE IssueCard ------------------------------
(***************************************************************************)
(* The issue card (frontend/src/components/IssueCard.tsx): Apply, behind   *)
(* an optional confirmation dialog, and Withdraw.  The card's status and   *)
(* its slot counts are properties that the parent passes from what it last *)
(* read of the contract, so they may be old; busy and applied are the      *)
(* card's own.                                                             *)
(***************************************************************************)
EXTENDS Integers, FiniteSets

CONSTANT CaMaxCalls   \* bound on the calls of a session

ASSUME CaAssumption == CaMaxCalls \in Nat

VARIABLES
  caStatus,   \* status: open, applied, assigned, completed
  caFull,     \* whether a cap is reached by the counts passed in
  caBusy,     \* busy
  caApplied,  \* applied
  caError,    \* whether an error is shown
  caModal,    \* calls of openTxModal not settled
  caCalls,    \* calls of onApply and onWithdraw under way
  caChain,    \* the contract's status of the issue for this contributor
  caSent,     \* calls started
  caRepeat    \* history: an apply was sent after one had succeeded, with no withdrawal between

caVars == <<caStatus, caFull, caBusy, caApplied, caError, caModal, caCalls, caChain, caSent, caRepeat>>
caOwn == <<caBusy, caApplied, caError, caModal, caCalls, caSent, caRepeat>>

CaStatuses == {"open", "applied", "assigned", "completed"}

CaInit == /\ caChain \in CaStatuses /\ caStatus = caChain /\ caFull \in BOOLEAN
          /\ caBusy = FALSE /\ caApplied = FALSE /\ caError = FALSE
          /\ caModal = 0 /\ caCalls = {} /\ caSent = 0 /\ caRepeat = FALSE

-----------------------------------------------------------------------------
\* External: the parent reads the contract again and passes what it says.
parentRenders == /\ caStatus' = caChain /\ caFull' \in BOOLEAN
                 /\ UNCHANGED <<caOwn, caChain>>

\* External: a maintainer assigns the issue, the work is completed or revoked, or
\* the application expires.
ContractMoves ==
  /\ \/ caChain = "applied" /\ caChain' \in {"open", "assigned"}
     \/ caChain = "assigned" /\ caChain' \in {"open", "completed"}
  /\ UNCHANGED <<caStatus, caFull, caOwn>>

isApplyDisabled_capOnly == caFull

isApplyDisabled == caBusy \/ caFull

renderApplyButton_noApplied == caStatus = "open" /\ ~isApplyDisabled

\* The button is there for an open issue and takes clicks.
renderApplyButton == caStatus = "open" /\ ~isApplyDisabled /\ ~caApplied

CaSend(kind) == caCalls' = caCalls \cup {<<kind, caSent + 1>>} /\ caSent' = caSent + 1

\* Without openTxModal the call goes out at once.
handleApplyClick ==
  /\ renderApplyButton /\ caSent < CaMaxCalls
  /\ caError' = FALSE /\ caBusy' = TRUE
  /\ \/ caModal' = caModal + 1 /\ UNCHANGED <<caCalls, caSent, caRepeat>>
     \/ CaSend("apply") /\ caRepeat' = (caRepeat \/ caApplied) /\ UNCHANGED caModal
  /\ UNCHANGED <<caStatus, caFull, caApplied, caChain>>

\* openTxModal resolves: on to onApply, whatever the parent has passed meanwhile.
modalConfirmed ==
  /\ caModal > 0 /\ caModal' = caModal - 1 /\ caSent < CaMaxCalls
  /\ CaSend("apply") /\ caRepeat' = (caRepeat \/ caApplied)
  /\ UNCHANGED <<caStatus, caFull, caBusy, caApplied, caError, caChain>>

\* It rejects, with AbortError or anything else: no error is shown.
modalCancelled ==
  /\ caModal > 0 /\ caModal' = caModal - 1 /\ caBusy' = FALSE
  /\ UNCHANGED <<caStatus, caFull, caApplied, caError, caCalls, caChain, caSent, caRepeat>>

withdrawEnabled_whileBusy == caStatus = "applied"

withdrawEnabled == caStatus = "applied" /\ ~caBusy

handleWithdrawClick ==
  /\ withdrawEnabled /\ caSent < CaMaxCalls
  /\ caError' = FALSE /\ caBusy' = TRUE /\ CaSend("withdraw")
  /\ UNCHANGED <<caStatus, caFull, caApplied, caModal, caChain, caRepeat>>

\* The contract grants an application for an open issue, and a withdrawal of a
\* pending one; applied stays set when the application is withdrawn.
callSucceeds(c) ==
  /\ c \in caCalls /\ caCalls' = caCalls \ {c} /\ caBusy' = FALSE
  /\ IF c[1] = "apply" THEN caChain = "open" /\ caChain' = "applied" /\ caApplied' = TRUE
                       ELSE caChain = "applied" /\ caChain' = "open" /\ UNCHANGED caApplied
  /\ UNCHANGED <<caStatus, caFull, caError, caModal, caSent, caRepeat>>

callFails(c) ==
  /\ c \in caCalls /\ caCalls' = caCalls \ {c} /\ caBusy' = FALSE /\ caError' = TRUE
  /\ UNCHANGED <<caStatus, caFull, caApplied, caModal, caChain, caSent, caRepeat>>

CaNext == \/ parentRenders \/ ContractMoves \/ handleApplyClick \/ modalConfirmed \/ modalCancelled
          \/ handleWithdrawClick \/ \E c \in caCalls : callSucceeds(c) \/ callFails(c)

-----------------------------------------------------------------------------
\* Type invariant.
CaTypeOK == /\ caStatus \in CaStatuses /\ caChain \in CaStatuses /\ caModal \in 0..1
            /\ caSent \in 0..CaMaxCalls /\ caCalls \subseteq {"apply", "withdraw"} \X (1..caSent)

\* One thing at a time: a dialog, an application or a withdrawal, although the
\* parent may turn Apply into Withdraw while the call is under way; and the card
\* is busy exactly that long.
CaOneAtATime == caModal + Cardinality(caCalls) = IF caBusy THEN 1 ELSE 0

\* A card that applied does not apply again, although the parent still says open.
CaNoRepeat == ~caRepeat
=============================================================================
