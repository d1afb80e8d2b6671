--------------------------- MODULE StellarClients ---------------------------
(***************************************************************************)
(* What the services compute and retry on their own when they talk to      *)
(* Stellar: SorobanService.estimateFee (src/soroban.ts), one simulation of *)
(* a dummy call, a 20 % cushion on its resource fee and three amounts      *)
(* written in XLM, digit by digit; and the two Horizon clients with their  *)
(* retries (src/horizon.ts, backend/src/HorizonService.ts), where a delay  *)
(* between two attempts is a step of its own and Horizon may answer each   *)
(* attempt in any way.                                                     *)
(***************************************************************************)
EXTENDS Integers, FiniteSets, FiniteSetsExt, Functions

(* Fee estimates. *)

CONSTANTS FeFunctions,  \* names a caller may ask for, supported or not
          FeFees        \* resource fees (stroops) a simulation may report

ASSUME FeAssumption == FeFees \subseteq Nat

VARIABLES feAsked,   \* function being simulated, or "none"
          feShown    \* the estimate last returned, with the fee it was made from

feVars == <<feAsked, feShown>>

SUPPORTED_FUNCTIONS == {"apply_for_issue", "withdraw_application", "assign_issue",
                        "complete_assignment", "revoke_assignment"}
BASE_FEE_STROOPS == 100
STROOPS_DIGITS == 7

digit(frac, width, j) == (frac \div 10^(width - j)) % 10

fracWidth_unpadded(frac) == CHOOSE w \in 1..STROOPS_DIGITS :
                              frac < 10^w /\ \A v \in 1..(w - 1) : frac >= 10^v

\* padStart(7, '0')
fracWidth(frac) == STROOPS_DIGITS

\* The fraction as digits, most significant first; trailing zeros are cut off
\* but for one digit.
toXlm(stroops) ==
  LET frac == stroops % 10^STROOPS_DIGITS
      w == fracWidth(frac)
      kept == Max({1} \cup {j \in 1..w : digit(frac, w, j) # 0})
  IN [whole |-> stroops \div 10^STROOPS_DIGITS, frac |-> [j \in 1..kept |-> digit(frac, w, j)]]

cushioned(f) == f + (f * 20) \div 100

feeEstimate(f) == [fee |-> f, base |-> toXlm(BASE_FEE_STROOPS), resource |-> toXlm(cushioned(f)),
                   total |-> toXlm(BASE_FEE_STROOPS + cushioned(f))]

FeInit == feAsked = "none" /\ feShown = {}

\* A name outside the switch leaves no transaction to simulate.
estimateFee(fn) == /\ feAsked = "none" /\ fn \in SUPPORTED_FUNCTIONS
                   /\ feAsked' = fn
                   /\ feShown' = {}

simulated(f) == /\ feAsked # "none"
                /\ feAsked' = "none"
                /\ feShown' = {feeEstimate(f)}

simulationFails == /\ feAsked # "none"
                   /\ feAsked' = "none"
                   /\ UNCHANGED feShown

FeNext == \/ \E fn \in FeFunctions : estimateFee(fn)
          \/ \E f \in FeFees : simulated(f)
          \/ simulationFails

-----------------------------------------------------------------------------
\* What a reader makes of "whole.frac".
fromXlm(x) == x.whole * 10^STROOPS_DIGITS
              + SumFunction([j \in DOMAIN x.frac |-> x.frac[j] * 10^(STROOPS_DIGITS - j)])

\* The amounts shown, read back as decimals, add up, and they cover the fee the
\* simulation reported: padding and the cut of trailing zeros lose nothing.
FeShownIsExact == \A e \in feShown :
                    /\ fromXlm(e.base) = BASE_FEE_STROOPS
                    /\ fromXlm(e.base) + fromXlm(e.resource) = fromXlm(e.total)
                    /\ fromXlm(e.resource) >= e.fee

-----------------------------------------------------------------------------
(* The Horizon clients. *)

CONSTANTS UpMaxRetries,      \* maxRetries of src/horizon.ts (5)
          UpBackendRetries   \* MAX_RETRIES of backend HorizonService.ts (3)

ASSUME UpAssumption == {UpMaxRetries, UpBackendRetries} \subseteq Nat \ {0}

UpKinds == {"fetchAccount", "fetchTransactionHistory", "backend.fetchAccount"}

VARIABLES
  upCall,     \* a client call: its kind, pc, attempts made, what it returned
  upSaid      \* the last status Horizon answered to it

upVars == <<upCall, upSaid>>

UpInit == /\ upCall = [kind |-> "fetchAccount", pc |-> "idle", attempt |-> 0, result |-> "none"]
          /\ upSaid = 0

-----------------------------------------------------------------------------
UpStatuses == {200, 404, 429, 500, 503}
Retryable(k) == IF k = "backend.fetchAccount" THEN {429} ELSE {429, 503}
Attempts(k) == IF k = "backend.fetchAccount" THEN UpBackendRetries ELSE UpMaxRetries

\* Only the account clients tell a missing account apart: an error in one, null in
\* the other.
NotFound(k) == CASE k = "fetchAccount" -> "Account not found"
                 [] k = "backend.fetchAccount" -> "null"
                 [] OTHER -> "thrown"

fetchAccount(k) == /\ upCall.pc = "idle"
                   /\ upCall' = [kind |-> k, pc |-> "sent", attempt |-> 1, result |-> "none"]
                   /\ upSaid' = 0

mayRetry_offByOne(status) == status \in Retryable(upCall.kind) /\ upCall.attempt <= Attempts(upCall.kind)

mayRetry_early(status) == status \in Retryable(upCall.kind) /\ upCall.attempt < Attempts(upCall.kind) - 1

mayRetry(status) == status \in Retryable(upCall.kind) /\ upCall.attempt < Attempts(upCall.kind)

\* A body that is not an account is an error as well.
Results(status) == CASE status = 200 -> {"value", "thrown"}
                     [] status = 404 -> {NotFound(upCall.kind)}
                     [] OTHER -> {"thrown"}

answered ==
  /\ upCall.pc = "sent"
  /\ \E status \in UpStatuses :
       /\ upSaid' = status
       /\ \/ mayRetry(status) /\ upCall' = [upCall EXCEPT !.pc = "delay"]
          \/ /\ ~mayRetry(status)
             /\ \E r \in Results(status) : upCall' = [upCall EXCEPT !.pc = "idle", !.result = r]

sleepOver == /\ upCall.pc = "delay"
             /\ upCall' = [upCall EXCEPT !.pc = "sent", !.attempt = @ + 1]
             /\ UNCHANGED upSaid

UpNext == (\E k \in UpKinds : fetchAccount(k)) \/ answered \/ sleepOver

-----------------------------------------------------------------------------
\* Type invariant.
UpTypeOK == /\ upCall.kind \in UpKinds /\ upCall.pc \in {"idle", "sent", "delay"}
            /\ upCall.attempt \in 0..Attempts(upCall.kind) /\ upSaid \in UpStatuses \cup {0}

\* A client gives up only after all of its attempts or on a status that no retry
\* can mend.
UpGivesUpLate ==
  upCall.result = "thrown" /\ upSaid \in Retryable(upCall.kind) => upCall.attempt = Attempts(upCall.kind)
=============================================================================
