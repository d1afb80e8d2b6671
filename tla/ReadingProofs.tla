--------------------------- MODULE ReadingProofs ----------------------------
(***************************************************************************)
(* Proofs about the components of MCSafety that read, count and replay, for*)
(* every value of their constants: reports and conversions, lists read page*)
(* by page, the table of events, and the TTL job.  Laid out as             *)
(* SafetyProofs, whose results the theorem on types takes in.              *)
(***************************************************************************)
EXTENDS SafetyProofs, FoldLemmas, SequenceTheorems, TLAPS

-----------------------------------------------------------------------------
(* Arithmetic. *)

\* Division rounds down.
LEMMA DivBounds ==
  ASSUME NEW a \in Nat, NEW b \in Nat \ {0}
  PROVE  /\ a \div b \in Nat
         /\ (a \div b) * b <= a /\ a < (a \div b) * b + b
  OBVIOUS

LEMMA TimesGrows ==
  ASSUME NEW k \in Nat, NEW n \in Nat, NEW b \in Nat \ {0}
  PROVE  k * b \in Nat /\ (k + 1) * b = k * b + b /\ (k < n => k * b + b <= n * b)
  OBVIOUS

-----------------------------------------------------------------------------
(* Fee estimates (StellarClients). *)

LEMMA TenTo == /\ 10^0 = 1 /\ 10^1 = 10 /\ 10^2 = 100 /\ 10^3 = 1000
               /\ 10^4 = 10000 /\ 10^5 = 100000 /\ 10^6 = 1000000 /\ 10^7 = 10000000
  BY SMT

\* The powers of ten a digit stands for.
Weight == <<1000000, 100000, 10000, 1000, 100, 10, 1>>

LEMMA WeightAt ==
  /\ Weight[1] = 1000000 /\ Weight[2] = 100000 /\ Weight[3] = 10000 /\ Weight[4] = 1000
  /\ Weight[5] = 100 /\ Weight[6] = 10 /\ Weight[7] = 1
  BY SMT DEF Weight

LEMMA WeightIs == ASSUME NEW j \in 1..7
                  PROVE  10^(7 - j) = Weight[j] /\ Weight[j] \in Nat
  <1>1. j = 1 \/ j = 2 \/ j = 3 \/ j = 4 \/ j = 5 \/ j = 6 \/ j = 7
    BY SMT
  <1>2. CASE j = 1
    <2>1. 7 - j = 6
      BY <1>2, SMT
    <2>2. 10^(7 - j) = 1000000 /\ Weight[j] = 1000000
      BY <1>2, <2>1, TenTo, WeightAt, SMT
    <2>3. QED
      BY <2>2, SMT
  <1>3. CASE j = 2
    <2>1. 7 - j = 5
      BY <1>3, SMT
    <2>2. 10^(7 - j) = 100000 /\ Weight[j] = 100000
      BY <1>3, <2>1, TenTo, WeightAt, SMT
    <2>3. QED
      BY <2>2, SMT
  <1>4. CASE j = 3
    <2>1. 7 - j = 4
      BY <1>4, SMT
    <2>2. 10^(7 - j) = 10000 /\ Weight[j] = 10000
      BY <1>4, <2>1, TenTo, WeightAt, SMT
    <2>3. QED
      BY <2>2, SMT
  <1>5. CASE j = 4
    <2>1. 7 - j = 3
      BY <1>5, SMT
    <2>2. 10^(7 - j) = 1000 /\ Weight[j] = 1000
      BY <1>5, <2>1, TenTo, WeightAt, SMT
    <2>3. QED
      BY <2>2, SMT
  <1>6. CASE j = 5
    <2>1. 7 - j = 2
      BY <1>6, SMT
    <2>2. 10^(7 - j) = 100 /\ Weight[j] = 100
      BY <1>6, <2>1, TenTo, WeightAt, SMT
    <2>3. QED
      BY <2>2, SMT
  <1>7. CASE j = 6
    <2>1. 7 - j = 1
      BY <1>7, SMT
    <2>2. 10^(7 - j) = 10 /\ Weight[j] = 10
      BY <1>7, <2>1, TenTo, WeightAt, SMT
    <2>3. QED
      BY <2>2, SMT
  <1>8. CASE j = 7
    <2>1. 7 - j = 0
      BY <1>8, SMT
    <2>2. 10^(7 - j) = 1 /\ Weight[j] = 1
      BY <1>8, <2>1, TenTo, WeightAt, SMT
    <2>3. QED
      BY <2>2, SMT
  <1>9. QED
    BY <1>1, <1>2, <1>3, <1>4, <1>5, <1>6, <1>7, <1>8

\* The first j digits, read as a number.
Lead(n, j) == IF j = 0 THEN 0 ELSE (n \div Weight[j]) * Weight[j]

LEMMA DigitIs == \A n : \A j \in 1..7 : digit(n, 7, j) = (n \div Weight[j]) % 10
  BY WeightIs, Zenon DEF digit

LEMMA LeadStep ==
  ASSUME NEW n \in Nat, n < 10000000
  PROVE  /\ \A j \in 1..7 : /\ digit(n, 7, j) = (n \div Weight[j]) % 10 /\ digit(n, 7, j) \in 0..9
                            /\ Lead(n, j) = Lead(n, j - 1) + digit(n, 7, j) * Weight[j]
                            /\ Lead(n, j) \in Nat
         /\ Lead(n, 0) = 0 /\ Lead(n, 7) = n
  <1>0. \A j \in 1..7 : digit(n, 7, j) = (n \div Weight[j]) % 10
    BY DigitIs, SMT
  <1>1. /\ Weight[1] = 1000000 /\ Weight[2] = 100000 /\ Weight[3] = 10000 /\ Weight[4] = 1000
        /\ Weight[5] = 100 /\ Weight[6] = 10 /\ Weight[7] = 1
    BY SMT DEF Weight
  <1>2. /\ 1 - 1 = 0 /\ 2 - 1 = 1 /\ 3 - 1 = 2 /\ 4 - 1 = 3 /\ 5 - 1 = 4 /\ 6 - 1 = 5 /\ 7 - 1 = 6
    BY SMT
  <1>3. /\ (n \div 1000000) * 1000000 = 0 + ((n \div 1000000) % 10) * 1000000
        /\ (n \div 100000) * 100000 = (n \div 1000000) * 1000000 + ((n \div 100000) % 10) * 100000
        /\ (n \div 10000) * 10000 = (n \div 100000) * 100000 + ((n \div 10000) % 10) * 10000
    BY SMT
  <1>4. /\ (n \div 1000) * 1000 = (n \div 10000) * 10000 + ((n \div 1000) % 10) * 1000
        /\ (n \div 100) * 100 = (n \div 1000) * 1000 + ((n \div 100) % 10) * 100
    BY SMT
  <1>5. /\ (n \div 10) * 10 = (n \div 100) * 100 + ((n \div 10) % 10) * 10
        /\ (n \div 1) * 1 = (n \div 10) * 10 + ((n \div 1) % 10) * 1
        /\ (n \div 1) * 1 = n
    BY SMT
  <1>6. Lead(n, 0) = 0 /\ Lead(n, 7) = n
    BY <1>1, <1>5, SMT DEF Lead
  <1>7. ASSUME NEW j \in 1..7
        PROVE  Lead(n, j) = Lead(n, j - 1) + ((n \div Weight[j]) % 10) * Weight[j]
    <2>1. j = 1 \/ j = 2 \/ j = 3 \/ j = 4 \/ j = 5 \/ j = 6 \/ j = 7
      BY SMT
    <2>2. QED
      BY <1>1, <1>2, <1>3, <1>4, <1>5, <2>1, SMT DEF Lead
  <1>8. ASSUME NEW j \in 1..7
        PROVE  (n \div Weight[j]) % 10 \in 0..9 /\ Lead(n, j) \in Nat
    <2>1. j = 1 \/ j = 2 \/ j = 3 \/ j = 4 \/ j = 5 \/ j = 6 \/ j = 7
      BY SMT
    <2>2. QED
      BY <1>1, <2>1, SMT DEF Lead
  <1>9. QED
    BY <1>0, <1>6, <1>7, <1>8, SMT

\* Zeros at the end add nothing.
LEMMA LeadEnds ==
  ASSUME NEW n \in Nat, n < 10000000, NEW kept \in 1..7, \A j \in 1..7 : j > kept => digit(n, 7, j) = 0
  PROVE  Lead(n, kept) = n
  <1>1. \A j \in 1..7 : Lead(n, j) = Lead(n, j - 1) + digit(n, 7, j) * Weight[j] /\ Lead(n, j) \in Nat
    BY LeadStep, SMT
  <1>2. ASSUME NEW j \in 2..7, j > kept PROVE Lead(n, j) = Lead(n, j - 1)
    <2>1. digit(n, 7, j) = 0 /\ j \in 1..7 /\ j - 1 \in 1..7
      BY <1>2, SMT
    <2>2. 0 * Weight[j] = 0
      BY <2>1, WeightIs, SMT
    <2>3. Lead(n, j) = Lead(n, j - 1) + 0 /\ Lead(n, j - 1) \in Nat
      BY <1>1, <2>1, <2>2, SMT
    <2>4. QED
      BY <2>3, SMT
  <1>3. /\ kept < 7 => Lead(n, 7) = Lead(n, 6)
        /\ kept < 6 => Lead(n, 6) = Lead(n, 5)
        /\ kept < 5 => Lead(n, 5) = Lead(n, 4)
        /\ kept < 4 => Lead(n, 4) = Lead(n, 3)
        /\ kept < 3 => Lead(n, 3) = Lead(n, 2)
        /\ kept < 2 => Lead(n, 2) = Lead(n, 1)
    <2>1. /\ 7 - 1 = 6 /\ 6 - 1 = 5 /\ 5 - 1 = 4 /\ 4 - 1 = 3 /\ 3 - 1 = 2 /\ 2 - 1 = 1
      BY SMT
    <2>2. QED
      BY <1>2, <2>1, SMT
  <1>4. kept = 1 \/ kept = 2 \/ kept = 3 \/ kept = 4 \/ kept = 5 \/ kept = 6 \/ kept = 7
    BY SMT
  <1>5. Lead(n, 7) = n
    BY LeadStep, SMT
  <1>6. QED
    BY <1>3, <1>4, <1>5, SMT

\* An amount written in XLM reads as the stroops it was.
LEMMA XlmReads == ASSUME NEW s \in Nat PROVE fromXlm(toXlm(s)) = s
  <1>1. PICK n, w : n = s % 10000000 /\ w = s \div 10000000
    BY SMT
  <1>2. n \in Nat /\ n < 10000000 /\ w \in Nat /\ s = w * 10000000 + n
    BY <1>1, SMT
  <1>3. PICK kept : kept = Max({1} \cup {j \in 1..7 : digit(n, 7, j) # 0})
    BY SMT
  <1>4. kept \in 1..7 /\ \A j \in 1..7 : j > kept => digit(n, 7, j) = 0
    <2>1. PICK t : t = {1} \cup {j \in 1..7 : digit(n, 7, j) # 0}
      OBVIOUS
    <2>2. t \in SUBSET (1..7) /\ t # {} /\ \A j \in 1..7 : digit(n, 7, j) # 0 => j \in t
      BY <2>1, SMT
    <2>3. kept \in t /\ \A y \in t : y <= kept
      BY <1>3, <2>1, <2>2, MaxIn, SMT
    <2>4. QED
      BY <2>2, <2>3, SMT
  <1>5. PICK x : x = toXlm(s)
    BY SMT
  <1>6. x = [whole |-> w, frac |-> [j \in 1..kept |-> digit(n, 7, j)]]
    BY <1>1, <1>3, <1>5, TenTo, SMT DEF toXlm, STROOPS_DIGITS, fracWidth
  <1>7. x.whole = w /\ DOMAIN x.frac = 1..kept /\ \A j \in 1..kept : x.frac[j] = digit(n, 7, j)
    BY <1>6, SMT
  <1>8. PICK f : f = [j \in DOMAIN x.frac |-> x.frac[j] * 10^(7 - j)]
    OBVIOUS
  <1>9. DOMAIN f = 1..kept /\ \A j \in 1..kept : f[j] = digit(n, 7, j) * Weight[j]
    <2>1. \A j \in 1..kept : j \in 1..7
      BY <1>4, SMT
    <2>2. DOMAIN f = 1..kept /\ \A j \in 1..kept : f[j] = x.frac[j] * 10^(7 - j)
      BY <1>7, <1>8
    <2>3. \A j \in 1..kept : 10^(7 - j) = Weight[j]
      BY <2>1, WeightIs
    <2>4. QED
      BY <1>7, <2>2, <2>3
  <1>10. PICK pre : pre = [j \in 0..7 |-> Lead(n, j)]
    OBVIOUS
  <1>11. pre[0] = 0 /\ \A j \in 1..kept : f[j] \in Int /\ pre[j] = pre[j - 1] + f[j]
    <2>1. pre[0] = 0
      BY <1>2, <1>10, LeadStep, SMT
    <2>2. ASSUME NEW j \in 1..kept PROVE f[j] \in Int /\ pre[j] = pre[j - 1] + f[j]
      <3>1. j \in 1..7 /\ j \in 0..7 /\ j - 1 \in 0..7
        BY <1>4, SMT
      <3>2. pre[j] = Lead(n, j) /\ pre[j - 1] = Lead(n, j - 1)
        BY <1>10, <3>1, SMT
      <3>3. Lead(n, j) = Lead(n, j - 1) + digit(n, 7, j) * Weight[j] /\ digit(n, 7, j) \in 0..9
        BY <1>2, <3>1, LeadStep, SMT
      <3>4. Weight[j] \in Nat
        BY <3>1, WeightIs, SMT
      <3>5. digit(n, 7, j) * Weight[j] \in Int
        BY <3>3, <3>4, SMT
      <3>6. QED
        BY <1>9, <3>2, <3>3, <3>5, SMT
    <2>3. QED
      BY <2>1, <2>2, SMT
  <1>12. SumFunctionOnSet(f, 1..kept) = pre[kept]
    <2>1. kept \in Nat
      BY <1>4, SMT
    <2>2. QED
      BY <1>11, <2>1, SumInterval, SMT
  <1>13. pre[kept] = n
    <2>1. Lead(n, kept) = n
      BY <1>2, <1>4, LeadEnds, SMT
    <2>2. kept \in 0..7
      BY <1>4, SMT
    <2>3. QED
      BY <1>10, <2>1, <2>2, SMT
  <1>14. SumFunction(f) = n
    BY <1>9, <1>12, <1>13, SMT DEF SumFunction
  <1>15. fromXlm(x) = w * 10000000 + n
    BY <1>7, <1>8, <1>14, TenTo, SMT DEF fromXlm, STROOPS_DIGITS
  <1>16. QED
    BY <1>2, <1>5, <1>15, SMT

\* What is shown was computed from a fee the simulation reported.
FeInv == feShown \subseteq {feeEstimate(f) : f \in FeFees}

LEMMA FeInductive == FeInit /\ [][FeNext]_feVars => []FeInv
  <1>1. FeInit => FeInv
    BY SMT DEF FeInit, FeInv
  <1>2. FeInv /\ [FeNext]_feVars => FeInv'
    BY SMT DEF FeInv, FeNext, feVars, estimateFee, simulated, simulationFails
  <1>3. QED
    BY <1>1, <1>2, PTL

LEMMA FeResult == FeInv => FeShownIsExact
  <1> SUFFICES ASSUME FeInv, NEW e \in feShown
               PROVE  /\ fromXlm(e.base) = BASE_FEE_STROOPS
                      /\ fromXlm(e.base) + fromXlm(e.resource) = fromXlm(e.total)
                      /\ fromXlm(e.resource) >= e.fee
    BY SMT DEF FeShownIsExact
  <1>1. PICK f \in FeFees : e = feeEstimate(f)
    BY SMT DEF FeInv
  <1>2. f \in Nat
    BY FeAssumption, SMT
  <1>3. PICK c : c = cushioned(f)
    BY SMT
  <1>4. c \in Nat /\ c >= f
    BY <1>2, <1>3, SMT DEF cushioned
  <1>5. e.fee = f /\ e.base = toXlm(100) /\ e.resource = toXlm(c) /\ e.total = toXlm(100 + c)
    BY <1>1, <1>3, SMT DEF feeEstimate, BASE_FEE_STROOPS
  <1>6. fromXlm(e.base) = 100
    BY <1>5, XlmReads, SMT
  <1>7. fromXlm(e.resource) = c
    BY <1>4, <1>5, XlmReads, SMT
  <1>8. fromXlm(e.total) = 100 + c
    <2>1. 100 + c \in Nat
      BY <1>4, SMT
    <2>2. QED
      BY <1>5, <2>1, XlmReads, SMT
  <1>9. QED
    BY <1>2, <1>4, <1>5, <1>6, <1>7, <1>8, SMT DEF BASE_FEE_STROOPS

-----------------------------------------------------------------------------
(* The Horizon clients (StellarClients). *)

UpCalls == [kind : UpKinds, pc : {"idle", "sent", "delay"}, attempt : Nat,
            result : {"none", "value", "thrown", "null", "Account not found"}]

\* A call under way has no result and an attempt to its number.
UpInv == /\ upCall \in UpCalls /\ upSaid \in UpStatuses \cup {0}
         /\ upCall.attempt <= Attempts(upCall.kind)
         /\ upCall.pc = "delay" => upCall.attempt < Attempts(upCall.kind)
         /\ upCall.pc # "idle" => upCall.result = "none"
         /\ UpGivesUpLate

LEMMA UpAttempts == \A k \in UpKinds : Attempts(k) \in Nat \ {0} /\ NotFound(k) \in {"thrown", "null", "Account not found"}
  BY UpAssumption DEF UpKinds, Attempts, NotFound

LEMMA UpTypes == UpInv => UpTypeOK
  <1> SUFFICES ASSUME UpInv PROVE UpTypeOK
    OBVIOUS
  <1>1. /\ upCall.kind \in UpKinds /\ upCall.pc \in {"idle", "sent", "delay"} /\ upCall.attempt \in Nat
        /\ upSaid \in UpStatuses \cup {0} /\ upCall.attempt <= Attempts(upCall.kind)
    BY DEF UpInv, UpCalls
  <1>2. Attempts(upCall.kind) \in Nat
    BY <1>1, UpAttempts
  <1>3. upCall.attempt \in 0..Attempts(upCall.kind)
    BY <1>1, <1>2
  <1>4. QED
    BY <1>1, <1>3 DEF UpTypeOK

LEMMA UpInductive == UpInit /\ [][UpNext]_upVars => []UpInv
  <1>1. UpInit => UpInv
    <2> SUFFICES ASSUME UpInit PROVE UpInv
      OBVIOUS
    <2>1. upCall = [kind |-> "fetchAccount", pc |-> "idle", attempt |-> 0, result |-> "none"] /\ upSaid = 0
      BY DEF UpInit
    <2>2. /\ upCall \in UpCalls /\ upCall.kind = "fetchAccount" /\ upCall.pc = "idle" /\ upCall.attempt = 0
          /\ upCall.result = "none"
      BY <2>1 DEF UpCalls, UpKinds
    <2>3. PICK n : n = Attempts("fetchAccount")
      OBVIOUS
    <2>4. n \in Nat
      BY <2>3, UpAttempts DEF UpKinds
    <2>5. QED
      BY <2>1, <2>2, <2>3, <2>4 DEF UpInv, UpGivesUpLate
  <1>2. UpInv /\ [UpNext]_upVars => UpInv'
    <2> SUFFICES ASSUME UpInv, [UpNext]_upVars PROVE UpInv'
      OBVIOUS
    <2>0. upCall \in UpCalls /\ upCall.kind \in UpKinds /\ upCall.attempt \in Nat /\ Attempts(upCall.kind) \in Nat \ {0}
      BY UpAttempts DEF UpInv, UpCalls
    <2>1. CASE UNCHANGED upVars
      BY <2>1 DEF upVars, UpInv, UpGivesUpLate
    <2>2. ASSUME NEW k \in UpKinds, fetchAccount(k) PROVE UpInv'
      <3>1. upCall' = [kind |-> k, pc |-> "sent", attempt |-> 1, result |-> "none"] /\ upSaid' = 0
        BY <2>2 DEF fetchAccount
      <3>2. /\ upCall' \in UpCalls /\ upCall'.kind = k /\ upCall'.pc = "sent" /\ upCall'.attempt = 1 /\ upCall'.result = "none"
        BY <3>1 DEF UpCalls
      <3>3. 1 <= Attempts(k)
        <4>1. PICK n : n = Attempts(k)
          OBVIOUS
        <4>2. n \in Nat \ {0}
          BY <4>1, UpAttempts
        <4>3. QED
          BY <4>1, <4>2
      <3>4. QED
        BY <3>1, <3>2, <3>3 DEF UpInv, UpGivesUpLate
    <2>3. CASE answered
      <3>1. PICK status \in UpStatuses :
              /\ upSaid' = status
              /\ \/ mayRetry(status) /\ upCall' = [upCall EXCEPT !.pc = "delay"]
                 \/ /\ ~mayRetry(status)
                    /\ \E r \in Results(status) : upCall' = [upCall EXCEPT !.pc = "idle", !.result = r]
        BY <2>3 DEF answered
      <3>2. upCall.pc = "sent" /\ upCall.result = "none" /\ upCall.attempt <= Attempts(upCall.kind)
        BY <2>3 DEF answered, UpInv
      <3>3. CASE mayRetry(status) /\ upCall' = [upCall EXCEPT !.pc = "delay"]
        <4>1. /\ upCall' \in UpCalls /\ upCall'.kind = upCall.kind /\ upCall'.pc = "delay"
              /\ upCall'.attempt = upCall.attempt /\ upCall'.result = "none"
          BY <2>0, <3>2, <3>3 DEF UpCalls
        <4>2. QED
          BY <3>1, <3>2, <3>3, <4>1 DEF UpInv, UpGivesUpLate, mayRetry
      <3>4. ASSUME ~mayRetry(status), NEW r \in Results(status), upCall' = [upCall EXCEPT !.pc = "idle", !.result = r]
            PROVE  UpInv'
        <4>1. r \in {"none", "value", "thrown", "null", "Account not found"}
          BY <2>0, <3>1, UpAttempts, ZenonT(60) DEF Results, UpStatuses
        <4>2. /\ upCall' \in UpCalls /\ upCall'.kind = upCall.kind /\ upCall'.pc = "idle"
              /\ upCall'.attempt = upCall.attempt
          BY <2>0, <3>4, <4>1 DEF UpCalls
        <4>3. status \in Retryable(upCall.kind) => upCall.attempt = Attempts(upCall.kind)
          BY <2>0, <3>2, <3>4 DEF mayRetry
        <4>4. QED
          BY <3>1, <3>2, <4>2, <4>3 DEF UpInv, UpGivesUpLate
      <3>5. QED
        BY <3>1, <3>3, <3>4
    <2>4. CASE sleepOver
      <3>1. upCall.pc = "delay" /\ upCall.attempt < Attempts(upCall.kind) /\ upCall.result = "none" /\ upSaid' = upSaid
        BY <2>4 DEF sleepOver, UpInv
      <3>2. PICK n : n = upCall.attempt + 1
        OBVIOUS
      <3>3. n \in Nat /\ n <= Attempts(upCall.kind)
        BY <2>0, <3>1, <3>2
      <3>4. upCall' = [upCall EXCEPT !.pc = "sent", !.attempt = n]
        BY <2>4, <3>2 DEF sleepOver
      <3>5. /\ upCall' \in UpCalls /\ upCall'.kind = upCall.kind /\ upCall'.pc = "sent"
            /\ upCall'.attempt = n /\ upCall'.result = "none"
        BY <2>0, <3>1, <3>3, <3>4 DEF UpCalls
      <3>6. QED
        BY <3>1, <3>3, <3>5 DEF UpInv, UpGivesUpLate
    <2>5. QED
      BY <2>1, <2>2, <2>3, <2>4 DEF UpNext
  <1>3. QED
    BY <1>1, <1>2, PTL

-----------------------------------------------------------------------------
(* A contributor's profile (ContributorRoutes). *)

CrReqs == [pc : {"idle", "profile", "orgs", "counts"}, todo : SUBSET {"apps", "asgs", "appOrgs", "asgOrgs"},
           apps : 0..Cardinality(CrIssues), asgs : 0..Cardinality(CrIssues), appOrgs : SUBSET CrIssues, asgOrgs : SUBSET CrIssues,
           known : BOOLEAN, quiet : BOOLEAN, blind : BOOLEAN, answer : {"none", "200", "400", "404", "500"}]

\* What a request that nobody wrote under has read is what the tables hold.
CrHasRead == /\ "apps" \notin crReq.todo => crReq.apps = Cardinality(crApps)
             /\ "asgs" \notin crReq.todo => crReq.asgs = Cardinality(crAsgs)
             /\ crReq.pc # "profile" /\ "appOrgs" \notin crReq.todo => crReq.appOrgs = crApps
             /\ crReq.pc # "profile" /\ "asgOrgs" \notin crReq.todo => crReq.asgOrgs = crAsgs

CrTables == crApps \in SUBSET CrIssues /\ crAsgs \in SUBSET CrIssues /\ crApps \cap crAsgs = {} /\ crEvents \in 0..CrEventMax

CrInv == /\ CrTables /\ crReq \in CrReqs
         /\ crReq.pc = "idle" => crReq.todo = {}
         /\ crReq.known => crEvents > 0
         /\ crReq.answer = "404" => crReq.blind \/ ~crReq.known
         /\ crReq.pc # "idle" => crReq.answer = "none"
         /\ crReq.pc # "idle" /\ crReq.quiet => CrHasRead
         /\ crReq.answer = "200" /\ crReq.quiet =>
              crReq.apps = Cardinality(crReq.appOrgs) /\ crReq.asgs = Cardinality(crReq.asgOrgs)

LEMMA CrCounts == /\ \A S \in SUBSET CrIssues : IsFiniteSet(S) /\ Cardinality(S) \in Nat
                  /\ \A S \in SUBSET CrIssues : Cardinality(S) \in 0..Cardinality(CrIssues)
  <1>1. \A S \in SUBSET CrIssues : IsFiniteSet(S) /\ Cardinality(S) <= Cardinality(CrIssues)
    BY CrAssumption, FS_Subset
  <1>2. Cardinality(CrIssues) \in Nat /\ \A S \in SUBSET CrIssues : Cardinality(S) \in Nat
    BY <1>1, CrAssumption, FS_CardinalityType
  <1>3. QED
    BY <1>1, <1>2

\* A step that only ends the request with an answer.
LEMMA CrEnds ==
  ASSUME CrInv, Tables, NEW blind \in BOOLEAN, NEW a \in {"200", "400", "404", "500"},
         crReq' = [crReq EXCEPT !.pc = "idle", !.todo = {}, !.answer = a, !.blind = blind],
         a = "404" => blind \/ ~crReq.known,
         a = "200" => (crReq.quiet => crReq.apps = Cardinality(crReq.appOrgs) /\ crReq.asgs = Cardinality(crReq.asgOrgs))
  PROVE  CrInv'
  <1>1. crReq \in CrReqs
    BY DEF CrInv
  <1>2. /\ crReq' \in CrReqs /\ crReq'.pc = "idle" /\ crReq'.todo = {} /\ crReq'.answer = a /\ crReq'.blind = blind
        /\ crReq'.known = crReq.known /\ crReq'.quiet = crReq.quiet /\ crReq'.apps = crReq.apps /\ crReq'.asgs = crReq.asgs
        /\ crReq'.appOrgs = crReq.appOrgs /\ crReq'.asgOrgs = crReq.asgOrgs
    BY <1>1 DEF CrReqs
  <1>3. QED
    BY <1>2 DEF CrInv, CrTables, Tables

LEMMA CrDone ==
  ASSUME CrInv, Tables, NEW a \in {"200", "400", "404", "500"}, Done(a),
         a = "404" => ~crReq.known,
         a = "200" => (crReq.quiet => crReq.apps = Cardinality(crReq.appOrgs) /\ crReq.asgs = Cardinality(crReq.asgOrgs))
  PROVE  CrInv'
  <1>1. PICK blind : blind = crReq.blind
    OBVIOUS
  <1>2. blind \in BOOLEAN /\ crReq \in CrReqs
    BY <1>1 DEF CrInv, CrReqs
  <1>3. crReq' = [crReq EXCEPT !.pc = "idle", !.todo = {}, !.answer = a, !.blind = blind]
    BY <1>1, <1>2 DEF Done, CrReqs
  <1>4. QED
    BY <1>2, <1>3, CrEnds

LEMMA CrZero == 0 \in 0..Cardinality(CrIssues) /\ 0 \in 0..CrEventMax
  BY CrAssumption, FS_CardinalityType

LEMMA CrInductive == CrInit /\ [][CrNext]_crVars => []CrInv
  <1>1. CrInit => CrInv
    BY CrZero DEF CrInit, CrInv, CrTables, CrReqs, CrIdle
  <1>2. CrInv /\ [CrNext]_crVars => CrInv'
    <2> SUFFICES ASSUME CrInv, [CrNext]_crVars PROVE CrInv'
      OBVIOUS
    <2>0. CrTables /\ crReq \in CrReqs
      BY DEF CrInv
    <2>1. CASE UNCHANGED crVars
      BY <2>1 DEF crVars, CrInv, CrTables, CrHasRead
    <2>2. ASSUME NEW apps \in SUBSET CrIssues, NEW asgs \in SUBSET CrIssues, apps \cap asgs = {}, Write(apps, asgs)
          PROVE  CrInv'
      <3>1. /\ crReq' \in CrReqs /\ crReq'.pc = crReq.pc /\ crReq'.todo = crReq.todo /\ crReq'.answer = crReq.answer
            /\ crReq'.blind = crReq.blind /\ crReq'.known = crReq.known /\ crReq'.quiet = FALSE
        BY <2>0, <2>2 DEF Write, CrReqs
      <3>2. crEvents' \in 0..CrEventMax /\ crEvents' > 0 /\ crApps' = apps /\ crAsgs' = asgs
        BY <2>0, <2>2, CrAssumption DEF Write, CrTables
      <3>3. QED
        BY <2>2, <3>1, <3>2 DEF CrInv, CrTables
    <2>3. CASE RowsChange
      <3>1. PICK i \in CrIssues :
              \/ i \notin crApps \cup crAsgs /\ Write(crApps \cup {i}, crAsgs)
              \/ i \in crApps /\ Write(crApps \ {i}, crAsgs)
              \/ i \in crApps /\ Write(crApps \ {i}, crAsgs \cup {i})
              \/ i \in crAsgs /\ Write(crApps, crAsgs \ {i})
        BY <2>3 DEF RowsChange
      <3>2. /\ crApps \in SUBSET CrIssues /\ crAsgs \in SUBSET CrIssues /\ crApps \cap crAsgs = {}
            /\ crApps \cup {i} \in SUBSET CrIssues /\ crApps \ {i} \in SUBSET CrIssues
            /\ crAsgs \cup {i} \in SUBSET CrIssues /\ crAsgs \ {i} \in SUBSET CrIssues
        BY <2>0 DEF CrTables
      <3>3. QED
        BY <2>2, <3>1, <3>2
    <2>4. CASE getProfile
      <3>1. CASE Done("400")
        BY <2>4, <3>1, CrDone DEF getProfile
      <3>2. ASSUME NEW pc \in {"profile", "counts"}, NEW todo \in SUBSET {"apps", "asgs", "appOrgs", "asgOrgs"},
                   {"apps", "asgs"} \subseteq todo, pc = "counts" => {"appOrgs", "asgOrgs"} \subseteq todo,
                   crReq' = [[CrIdle EXCEPT !.pc = pc, !.todo = todo] EXCEPT !.known = crEvents > 0], Tables
            PROVE  CrInv'
        <4>1. PICK known : known = (crEvents > 0)
          OBVIOUS
        <4>2. known \in BOOLEAN
          BY <4>1
        <4>3. crReq' = [pc |-> pc, todo |-> todo, apps |-> 0, asgs |-> 0, appOrgs |-> {}, asgOrgs |-> {},
                        known |-> known, quiet |-> TRUE, blind |-> FALSE, answer |-> "none"]
          BY <3>2, <4>1 DEF CrIdle
        <4>4. crReq' \in CrReqs /\ crReq'.pc = pc /\ crReq'.todo = todo /\ crReq'.answer = "none" /\ crReq'.known = known
          BY <4>2, <4>3, CrZero DEF CrReqs
        <4>5. CrHasRead'
          BY <3>2, <4>4 DEF CrHasRead
        <4>6. QED
          BY <2>0, <3>2, <4>1, <4>4, <4>5 DEF CrInv, CrTables, Tables
      <3>3. CASE crReq' = [[CrIdle EXCEPT !.pc = "profile", !.todo = {"apps", "asgs"}] EXCEPT !.known = crEvents > 0]
        BY <2>4, <3>2, <3>3 DEF getProfile
      <3>4. CASE crReq' = [[CrIdle EXCEPT !.pc = "counts", !.todo = {"apps", "asgs", "appOrgs", "asgOrgs"}]
                             EXCEPT !.known = crEvents > 0]
        <4>1. PICK todo : todo = {"apps", "asgs", "appOrgs", "asgOrgs"}
          OBVIOUS
        <4>2. /\ todo \in SUBSET {"apps", "asgs", "appOrgs", "asgOrgs"} /\ {"apps", "asgs"} \subseteq todo
              /\ {"appOrgs", "asgOrgs"} \subseteq todo
          BY <4>1
        <4>3. crReq' = [[CrIdle EXCEPT !.pc = "counts", !.todo = todo] EXCEPT !.known = crEvents > 0]
          BY <3>4, <4>1
        <4>4. Tables
          BY <2>4 DEF getProfile
        <4>5. QED
          BY <3>2, <4>2, <4>3, <4>4
      <3>5. PICK p, c : /\ p = [CrIdle EXCEPT !.pc = "profile", !.todo = {"apps", "asgs"}]
                        /\ c = [CrIdle EXCEPT !.pc = "counts", !.todo = {"apps", "asgs", "appOrgs", "asgOrgs"}]
        OBVIOUS
      <3>6. Done("400") \/ \E q \in {p, c} : crReq' = [q EXCEPT !.known = crEvents > 0]
        BY <2>4, <3>5 DEF getProfile
      <3>7. Done("400") \/ crReq' = [p EXCEPT !.known = crEvents > 0] \/ crReq' = [c EXCEPT !.known = crEvents > 0]
        BY <3>6, Zenon
      <3>8. QED
        BY <3>1, <3>3, <3>4, <3>5, <3>7, Zenon
    <2>5. ASSUME NEW q \in {"apps", "asgs", "appOrgs", "asgOrgs"}, NEW v, Read(q, v),
                 v = CASE q = "apps" -> Cardinality(crApps) [] q = "asgs" -> Cardinality(crAsgs)
                       [] q = "appOrgs" -> crApps [] q = "asgOrgs" -> crAsgs
          PROVE  CrInv'
      <3>1. q \in crReq.todo /\ crReq' = [crReq EXCEPT !.todo = crReq.todo \ {q}, ![q] = v] /\ Tables
        BY <2>5 DEF Read
      <3>2. crReq.pc # "idle"
        BY <3>1 DEF CrInv
      <3>3. Cardinality(crApps) \in 0..Cardinality(CrIssues) /\ Cardinality(crAsgs) \in 0..Cardinality(CrIssues)
        BY <2>0, CrCounts DEF CrTables
      <3>4. /\ crReq' \in CrReqs /\ crReq'.pc = crReq.pc /\ crReq'.todo = crReq.todo \ {q} /\ crReq'.answer = crReq.answer
            /\ crReq'.blind = crReq.blind /\ crReq'.known = crReq.known /\ crReq'.quiet = crReq.quiet
            /\ crReq'.apps = IF q = "apps" THEN v ELSE crReq.apps
            /\ crReq'.asgs = IF q = "asgs" THEN v ELSE crReq.asgs
            /\ crReq'.appOrgs = IF q = "appOrgs" THEN v ELSE crReq.appOrgs
            /\ crReq'.asgOrgs = IF q = "asgOrgs" THEN v ELSE crReq.asgOrgs
        <4>1. CASE q = "apps"
          BY <2>0, <2>5, <3>1, <3>3, <4>1 DEF CrReqs, CrTables
        <4>2. CASE q = "asgs"
          BY <2>0, <2>5, <3>1, <3>3, <4>2 DEF CrReqs, CrTables
        <4>3. CASE q = "appOrgs"
          BY <2>0, <2>5, <3>1, <3>3, <4>3 DEF CrReqs, CrTables
        <4>4. CASE q = "asgOrgs"
          BY <2>0, <2>5, <3>1, <3>3, <4>4 DEF CrReqs, CrTables
        <4>5. QED
          BY <4>1, <4>2, <4>3, <4>4
      <3>5. crReq.quiet => CrHasRead'
        BY <2>5, <3>1, <3>2, <3>4 DEF CrInv, CrHasRead, Tables
      <3>6. QED
        BY <2>0, <3>1, <3>2, <3>4, <3>5 DEF CrInv, CrTables, Tables
    <2>6. CASE checkActivity
      <3>1. CASE isUnknown(crReq.apps, crReq.asgs, crEvents) /\ Done("404")
        <4>1. ~crReq.known
          BY <2>0, <3>1 DEF isUnknown, CrInv, CrTables
        <4>2. QED
          BY <2>6, <3>1, <4>1, CrDone DEF checkActivity
      <3>2. CASE crReq' = [crReq EXCEPT !.pc = "orgs", !.todo = {"appOrgs", "asgOrgs"}]
        <4>1. crReq.pc = "profile" /\ crReq.todo = {} /\ Tables
          BY <2>6 DEF checkActivity
        <4>2. /\ crReq' \in CrReqs /\ crReq'.pc = "orgs" /\ crReq'.todo = {"appOrgs", "asgOrgs"} /\ crReq'.answer = crReq.answer
              /\ crReq'.blind = crReq.blind /\ crReq'.known = crReq.known /\ crReq'.quiet = crReq.quiet
              /\ crReq'.apps = crReq.apps /\ crReq'.asgs = crReq.asgs
          BY <2>0, <3>2 DEF CrReqs
        <4>3. crReq.quiet => CrHasRead'
          BY <4>1, <4>2 DEF CrInv, CrHasRead, Tables
        <4>4. QED
          BY <2>0, <4>1, <4>2, <4>3 DEF CrInv, CrTables, Tables
      <3>3. QED
        BY <2>6, <3>1, <3>2 DEF checkActivity
    <2>7. CASE checkActivityFails
      <3>1. crReq' = [crReq EXCEPT !.pc = "idle", !.todo = {}, !.answer = "404", !.blind = TRUE]
        BY <2>0, <2>7 DEF checkActivityFails, CrReqs
      <3>2. QED
        BY <2>7, <3>1, CrEnds DEF checkActivityFails
    <2>8. CASE answerProfile \/ answerCounts
      <3>1. crReq.pc \in {"orgs", "counts"} /\ crReq.todo = {} /\ Done("200") /\ Tables
        BY <2>8 DEF answerProfile, answerCounts
      <3>2. crReq.quiet => crReq.apps = Cardinality(crReq.appOrgs) /\ crReq.asgs = Cardinality(crReq.asgOrgs)
        BY <3>1 DEF CrInv, CrHasRead
      <3>3. QED
        BY <3>1, <3>2, CrDone
    <2>9. CASE anyFails
      BY <2>9, CrDone DEF anyFails
    <2>10. QED
      BY <2>1, <2>3, <2>4, <2>5, <2>6, <2>7, <2>8, <2>9
         DEF CrNext, countApplications, countAssignments, readAppOrgs, readAsgOrgs
  <1>3. QED
    BY <1>1, <1>2, PTL

LEMMA CrTypes == CrInv => CrTypeOK
  BY DEF CrInv, CrTables, CrReqs, CrTypeOK

LEMMA CrResult == CrInv => CrKnownIsFound /\ CrTotalsAgree
  <1> SUFFICES ASSUME CrInv PROVE CrKnownIsFound /\ CrTotalsAgree
    OBVIOUS
  <1>1. CrKnownIsFound
    BY DEF CrInv, CrKnownIsFound, CrReqs
  <1>2. ASSUME crReq.answer = "200", crReq.quiet
        PROVE  LET b == getOrgBreakdown(crReq.appOrgs, crReq.asgOrgs)
               IN /\ SumFunction([o \in DOMAIN b |-> b[o].applications]) = crReq.apps
                  /\ SumFunction([o \in DOMAIN b |-> b[o].assignments]) = crReq.asgs
    <2>1. PICK P, Q : P = crReq.appOrgs /\ Q = crReq.asgOrgs
      OBVIOUS
    <2>2. P \in SUBSET CrIssues /\ Q \in SUBSET CrIssues /\ crReq.apps = Cardinality(P) /\ crReq.asgs = Cardinality(Q)
      BY <1>2, <2>1 DEF CrInv, CrReqs
    <2>3. PICK D : D = orgsOf(P, Q)
      OBVIOUS
    <2>4. D = {i[1] : i \in P \cup Q} /\ IsFiniteSet(P) /\ IsFiniteSet(Q) /\ IsFiniteSet(P \cup Q)
      BY <2>2, <2>3, CrCounts DEF orgsOf
    <2>5. IsFiniteSet(D)
      <3>1. PICK h : h = [i \in P \cup Q |-> i[1]]
        OBVIOUS
      <3>2. h \in Surjection(P \cup Q, D)
        BY <2>4, <3>1 DEF Surjection
      <3>3. QED
        BY <2>4, <3>2, FS_Surjection
    <2>6. PICK b : b = getOrgBreakdown(P, Q)
      OBVIOUS
    <2>7. PICK f, g : f = [o \in D |-> Cardinality({i \in P : i[1] = o})] /\ g = [o \in D |-> Cardinality({i \in Q : i[1] = o})]
      OBVIOUS
    <2>8. DOMAIN b = D /\ [o \in DOMAIN b |-> b[o].applications] = f /\ [o \in DOMAIN b |-> b[o].assignments] = g
      BY <2>3, <2>6, <2>7 DEF getOrgBreakdown
    <2>9. SumFunction(f) = Cardinality(P)
      BY <2>4, <2>5, <2>7, SumParts
    <2>10. SumFunction(g) = Cardinality(Q)
      BY <2>4, <2>5, <2>7, SumParts
    <2>11. QED
      BY <2>1, <2>2, <2>6, <2>8, <2>9, <2>10
  <1>3. QED
    BY <1>1, <1>2 DEF CrTotalsAgree

-----------------------------------------------------------------------------
(* The issue browser (OrgIssues). *)

OiStatuses == {"open", "applied", "assigned"}
OiRows == [org : OiOrgs, id : Nat, status : OiStatuses]

\* The rows are the first issues of the organisation, as many as the offset says, and
\* the fetch under way is for the next page.
OiListOK == /\ oiIssues \in Seq(OiRows) /\ Len(oiIssues) = oiRef.offset
            /\ oiRef.offset <= OiCount[oiOrg]
            /\ \A k \in 1..Len(oiIssues) : oiIssues[k].org = oiOrg /\ oiIssues[k].id = k
            /\ ~oiMore => oiRef.offset = OiCount[oiOrg]
OiFetchOK == \/ oiFetch = <<>>
             \/ \E w, s : /\ oiFetch = <<[org |-> oiOrg, wallet |-> w, offset |-> oiRef.offset, stats |-> s]>>
                          /\ s => oiRef.offset = 0
\* The request of an issue without interference is the only one, its row shows what
\* it asks for, and the server's last word is what the row showed before.
OiCallOK(c) == /\ oiFetch = <<>> /\ c.org = oiOrg /\ c.id \in 1..Len(oiIssues)
               /\ oiIssues[c.id].status = shown(c.op)
               /\ oiTold[c.id] = before(c.op)
               /\ \A d \in oiCalls : d.id = c.id => d = c
OiCallsOK == \A c \in oiCalls : c.id \in oiClean => OiCallOK(c)
OiRowsOK == \A k \in 1..Len(oiIssues) :
              (k \in oiClean /\ \A c \in oiCalls : c.id # k) => oiIssues[k].status = oiTold[k]
\* What was read of the issues that are still to come holds.
OiAppliedOK == \A i \in oiClean : i \notin 1..Len(oiIssues) => readStatus(oiRef, i) = oiTold[i]
OiShapes == /\ oiOrg \in OiOrgs /\ oiWallet \in BOOLEAN /\ oiCut \in BOOLEAN
            /\ oiRef = [offset |-> oiRef.offset, applied |-> oiRef.applied, assigned |-> oiRef.assigned, full |-> oiRef.full]
            /\ DOMAIN oiTold = OiIds /\ oiClean \subseteq OiIds
            /\ \A c \in oiCalls : c.op \in {"apply", "withdraw"} /\ c.id \in OiIds
OiGood == OiListOK /\ OiFetchOK /\ OiCallsOK /\ OiRowsOK /\ OiAppliedOK
OiInv == OiShapes /\ (~oiCut => OiGood)

\* A list that was just emptied, with the fetch of its first page.
OiEmptied(org, wallet) ==
  /\ org \in OiOrgs /\ wallet \in BOOLEAN
  /\ oiOrg' = org /\ oiWallet' = wallet
  /\ oiRef' = [OiNoRef EXCEPT !.full = oiRef.full] /\ oiIssues' = <<>> /\ oiMore' = TRUE
  /\ oiTold' = OiUntold /\ oiClean' \subseteq OiIds
  /\ oiFetch' = startFetch(org, wallet, 0)
  /\ \A c \in oiCalls' : c.id \notin oiClean'

LEMMA OiStarts == ASSUME NEW org, NEW wallet, OiEmptied(org, wallet) PROVE OiGood'
  <1>0. /\ oiOrg' = org /\ oiWallet' = wallet /\ oiIssues' = <<>> /\ oiMore' = TRUE
        /\ oiFetch' = startFetch(org, wallet, 0) /\ org \in OiOrgs /\ wallet \in BOOLEAN
        /\ \A c \in oiCalls' : c.id \notin oiClean'
    BY DEF OiEmptied
  <1>1. oiRef'.offset = 0
    BY DEF OiEmptied, OiNoRef
  <1>2. oiIssues' \in Seq(OiRows) /\ Len(oiIssues') = 0
    BY <1>0
  <1>3. 0 <= OiCount[org]
    BY <1>0, OiAssumption DEF OiOrgs
  <1>4. OiListOK'
    BY <1>0, <1>1, <1>2, <1>3 DEF OiListOK
  <1>5. oiFetch' = <<[org |-> org, wallet |-> wallet, offset |-> 0, stats |-> wallet]>>
    BY <1>0 DEF startFetch
  <1>6. OiFetchOK'
    BY <1>0, <1>1, <1>5 DEF OiFetchOK
  <1>7. OiCallsOK'
    BY <1>0 DEF OiCallsOK
  <1>8. OiRowsOK'
    BY <1>2 DEF OiRowsOK
  <1>9. OiAppliedOK'
    <2>1. oiRef'.applied = {} /\ oiRef'.assigned = {}
      BY DEF OiEmptied, OiNoRef
    <2>2. oiTold' = OiUntold /\ oiClean' \subseteq OiIds
      BY DEF OiEmptied
    <2>3. QED
      BY <2>1, <2>2 DEF OiAppliedOK, readStatus, OiUntold
  <1>10. QED
    BY <1>4, <1>6, <1>7, <1>8, <1>9 DEF OiGood

LEMMA OiStarted == OiInit => OiInv
  <1> SUFFICES ASSUME OiInit PROVE OiInv
    OBVIOUS
  <1>0. /\ oiOrg \in OiOrgs /\ oiWallet \in BOOLEAN /\ oiFetch = startFetch(oiOrg, oiWallet, 0)
        /\ oiRef = OiNoRef /\ oiIssues = <<>> /\ oiMore = TRUE /\ oiCalls = {} /\ oiCut = FALSE
        /\ oiTold = OiUntold /\ oiClean = OiIds
    BY DEF OiInit
  <1>1. oiRef.offset = 0 /\ oiIssues \in Seq(OiRows) /\ Len(oiIssues) = 0
    BY <1>0 DEF OiNoRef
  <1>2. 0 <= OiCount[oiOrg]
    BY <1>0, OiAssumption DEF OiOrgs
  <1>3. OiListOK
    BY <1>0, <1>1, <1>2 DEF OiListOK
  <1>4. oiFetch = <<[org |-> oiOrg, wallet |-> oiWallet, offset |-> 0, stats |-> oiWallet]>>
    BY <1>0 DEF startFetch
  <1>5. OiFetchOK
    BY <1>0, <1>1, <1>4 DEF OiFetchOK
  <1>6. OiCallsOK /\ OiRowsOK
    BY <1>0, <1>1 DEF OiCallsOK, OiRowsOK
  <1>7. OiAppliedOK
    <2>1. oiRef.applied = {} /\ oiRef.assigned = {}
      BY <1>0 DEF OiNoRef
    <2>2. QED
      BY <1>0, <2>1 DEF OiAppliedOK, readStatus, OiUntold
  <1>8. OiShapes
    BY <1>0 DEF OiShapes, OiNoRef, OiUntold
  <1>9. QED
    BY <1>3, <1>5, <1>6, <1>7, <1>8 DEF OiInv, OiGood

LEMMA OiSetContext ==
  ASSUME OiInv, NEW org \in OiOrgs, NEW wallet \in BOOLEAN, setContext(org, wallet) PROVE OiInv'
  <1>1. OiShapes'
    BY DEF OiInv, OiShapes, setContext, ResetList, OiNoRef, OiUntold
  <1>2. ASSUME ~oiCut' PROVE OiGood'
    <2>1. oiFetch = <<>>
      BY <1>2 DEF setContext
    <2>2. OiEmptied(org, wallet)
      <3>1. oiFetch' = startFetch(org, wallet, 0)
        BY <2>1 DEF setContext, fetchPage, fetchGuard
      <3>2. \A c \in oiCalls' : c.id \notin oiClean'
        BY DEF setContext
      <3>3. QED
        BY <3>1, <3>2 DEF OiEmptied, setContext, ResetList
    <2>3. QED
      BY <2>2, OiStarts
  <1>3. QED
    BY <1>1, <1>2 DEF OiInv

LEMMA OiRefresh == ASSUME OiInv, refresh PROVE OiInv'
  <1>1. OiShapes'
    BY DEF OiInv, OiShapes, refresh, ResetList, OiNoRef, OiUntold
  <1>2. OiEmptied(oiOrg, oiWallet)
    <2>1. oiFetch' = startFetch(oiOrg, oiWallet, 0)
      BY DEF refresh, fetchPage, fetchGuard
    <2>2. \A c \in oiCalls' : c.id \notin oiClean'
      BY DEF refresh
    <2>3. QED
      BY <2>1, <2>2 DEF OiEmptied, refresh, ResetList, OiInv, OiShapes
  <1>3. QED
    BY <1>1, <1>2, OiStarts DEF OiInv

LEMMA OiStats == ASSUME OiInv, fetchContributorState PROVE OiInv'
  <1>0. /\ oiFetch # <<>> /\ oiFetch[1].stats
        /\ oiTold' = [i \in OiIds |-> readStatus(oiRef', i)]
        /\ oiFetch' = <<[oiFetch[1] EXCEPT !.stats = FALSE]>>
        /\ UNCHANGED <<oiOrg, oiWallet, oiIssues, oiMore, oiCalls, oiCut, oiClean>>
    BY DEF fetchContributorState
  <1>1. PICK apps, asgs, full :
          oiRef' \in [offset : {oiRef.offset}, applied : {oiRef.applied, apps},
                     assigned : {oiRef.assigned, asgs}, full : {oiRef.full, full}]
    BY DEF fetchContributorState
  <1>2. oiRef' = [offset |-> oiRef'.offset, applied |-> oiRef'.applied, assigned |-> oiRef'.assigned, full |-> oiRef'.full]
    BY <1>1
  <1>3. oiRef'.offset = oiRef.offset
    BY <1>1
  <1>4. OiShapes'
    BY <1>0, <1>2 DEF OiInv, OiShapes
  <1>5. ASSUME ~oiCut PROVE OiGood'
    <2>1. OiGood
      BY <1>5 DEF OiInv
    <2>2. PICK w, s : /\ oiFetch = <<[org |-> oiOrg, wallet |-> w, offset |-> oiRef.offset, stats |-> s]>>
                      /\ s => oiRef.offset = 0
      BY <1>0, <2>1 DEF OiGood, OiFetchOK
    <2>3. oiFetch' = <<[org |-> oiOrg, wallet |-> w, offset |-> oiRef.offset, stats |-> FALSE]>>
      <3>1. PICK f, off : off = oiRef.offset /\ f = [org |-> oiOrg, wallet |-> w, offset |-> off, stats |-> s]
        OBVIOUS
      <3>2. oiFetch[1] = f
        BY <2>2, <3>1
      <3>3. [f EXCEPT !.stats = FALSE] = [org |-> oiOrg, wallet |-> w, offset |-> off, stats |-> FALSE]
        <4>1. ASSUME NEW b PROVE [f EXCEPT !.stats = b] = [org |-> oiOrg, wallet |-> w, offset |-> off, stats |-> b]
          BY <3>1
        <4>2. QED
          BY <4>1, Zenon
      <3>4. QED
        BY <1>0, <3>1, <3>2, <3>3
    <2>4. OiListOK'
      BY <1>0, <1>3, <2>1 DEF OiGood, OiListOK
    <2>5. OiFetchOK'
      BY <1>0, <1>3, <2>3 DEF OiFetchOK
    <2>6. \A c \in oiCalls : c.id \notin oiClean
      BY <1>0, <2>1 DEF OiGood, OiCallsOK, OiCallOK
    <2>7. OiCallsOK'
      BY <1>0, <2>6 DEF OiCallsOK
    <2>8. OiRowsOK'
      <3>1. oiRef.offset = 0
        BY <1>0, <2>2
      <3>2. Len(oiIssues') = 0
        BY <1>0, <2>1, <3>1 DEF OiGood, OiListOK
      <3>3. QED
        BY <3>2 DEF OiRowsOK
    <2>9. OiAppliedOK'
      BY <1>0 DEF OiAppliedOK, OiInv, OiShapes
    <2>10. QED
      BY <2>4, <2>5, <2>7, <2>8, <2>9 DEF OiGood
  <1>6. QED
    BY <1>0, <1>4, <1>5 DEF OiInv

\* The part of OiInv that a step leaves alone when it changes only what is not in it.
LEMMA OiSame ==
  ASSUME OiInv, UNCHANGED <<oiTold, oiOrg, oiWallet, oiFetch, oiRef, oiIssues, oiMore, oiCalls, oiCut, oiClean>>
  PROVE  OiInv'
  <1>1. OiShapes'
    BY DEF OiInv, OiShapes
  <1>2. ASSUME ~oiCut PROVE OiGood'
    <2>1. OiGood
      BY <1>2 DEF OiInv
    <2>2. OiListOK' /\ OiFetchOK'
      BY <2>1 DEF OiGood, OiListOK, OiFetchOK
    <2>3. OiCallsOK' /\ OiRowsOK' /\ OiAppliedOK'
      BY <2>1 DEF OiGood, OiCallsOK, OiCallOK, OiRowsOK, OiAppliedOK
    <2>4. QED
      BY <2>2, <2>3 DEF OiGood
  <1>3. QED
    BY <1>1, <1>2 DEF OiInv

LEMMA OiPageFailed == ASSUME OiInv, pageFailed PROVE OiInv'
  <1>0. /\ oiFetch # <<>> /\ ~oiFetch[1].stats /\ oiFetch' = <<>>
        /\ UNCHANGED <<oiTold, oiOrg, oiWallet, oiRef, oiIssues, oiMore, oiCalls, oiCut, oiClean>>
    BY DEF pageFailed
  <1>1. OiShapes'
    BY <1>0 DEF OiInv, OiShapes
  <1>2. ASSUME ~oiCut PROVE OiGood'
    <2>1. OiGood
      BY <1>2 DEF OiInv
    <2>2. OiListOK' /\ OiFetchOK'
      BY <1>0, <2>1 DEF OiGood, OiListOK, OiFetchOK
    <2>3. \A c \in oiCalls : c.id \notin oiClean
      BY <1>0, <2>1 DEF OiGood, OiCallsOK, OiCallOK
    <2>4. OiCallsOK' /\ OiRowsOK'
      BY <1>0, <2>1, <2>3 DEF OiGood, OiCallsOK, OiRowsOK
    <2>5. OiAppliedOK'
      BY <1>0, <2>1 DEF OiGood, OiAppliedOK
    <2>6. QED
      BY <2>2, <2>4, <2>5 DEF OiGood
  <1>3. QED
    BY <1>0, <1>1, <1>2 DEF OiInv

LEMMA OiLoadMore == ASSUME OiInv, loadMore PROVE OiInv'
  <1>0. /\ oiFetch = <<>> /\ oiFetch' = startFetch(oiOrg, oiWallet, oiRef.offset)
        /\ oiClean' = {i \in oiClean : \A c \in oiCalls : c.id # i}
        /\ UNCHANGED <<oiTold, oiOrg, oiWallet, oiRef, oiIssues, oiMore, oiCalls, oiCut>>
    BY DEF loadMore, sentinel, fetchPage, fetchGuard
  <1>1. OiShapes'
    BY <1>0 DEF OiInv, OiShapes
  <1>2. ASSUME ~oiCut PROVE OiGood'
    <2>1. OiGood
      BY <1>2 DEF OiInv
    <2>2. PICK s \in BOOLEAN : s = (oiRef.offset = 0 /\ oiWallet)
      OBVIOUS
    <2>3. oiFetch' = <<[org |-> oiOrg, wallet |-> oiWallet, offset |-> oiRef.offset, stats |-> s]>>
      BY <1>0, <2>2 DEF startFetch
    <2>4. OiListOK' /\ OiFetchOK'
      BY <1>0, <2>1, <2>2, <2>3 DEF OiGood, OiListOK, OiFetchOK
    <2>5. OiCallsOK'
      BY <1>0 DEF OiCallsOK
    <2>6. OiRowsOK'
      BY <1>0, <2>1 DEF OiGood, OiRowsOK
    <2>7. OiAppliedOK'
      BY <1>0, <2>1 DEF OiGood, OiAppliedOK
    <2>8. QED
      BY <2>4, <2>5, <2>6, <2>7 DEF OiGood
  <1>3. QED
    BY <1>0, <1>1, <1>2 DEF OiInv

LEMMA JoinIs ==
  ASSUME NEW S, NEW s \in Seq(S), NEW t \in Seq(S)
  PROVE  /\ s \o t \in Seq(S) /\ Len(s \o t) = Len(s) + Len(t)
         /\ \A k \in 1..Len(s) : (s \o t)[k] = s[k]
         /\ \A k \in 1..Len(t) : (s \o t)[Len(s) + k] = t[k]
  <1>1. s \o t \in Seq(S) /\ Len(s \o t) = Len(s) + Len(t) /\ Len(s) \in Nat /\ Len(t) \in Nat
    BY ConcatProperties, LenProperties
  <1>2. \A i \in 1..Len(s) + Len(t) : (s \o t)[i] = IF i <= Len(s) THEN s[i] ELSE t[i - Len(s)]
    BY ConcatProperties
  <1>3. \A k \in 1..Len(s) : (s \o t)[k] = s[k]
    BY <1>1, <1>2
  <1>4. ASSUME NEW k \in 1..Len(t) PROVE (s \o t)[Len(s) + k] = t[k]
    <2>1. Len(s) + k \in 1..Len(s) + Len(t) /\ ~(Len(s) + k <= Len(s)) /\ Len(s) + k - Len(s) = k
      BY <1>1
    <2>2. QED
      BY <1>2, <2>1
  <1>5. QED
    BY <1>1, <1>3, <1>4

LEMMA OiPageLoaded == ASSUME OiInv, pageLoaded PROVE OiInv'
  <1>0. /\ oiFetch # <<>> /\ ~oiFetch[1].stats /\ oiFetch' = <<>>
        /\ oiIssues' = IF oiFetch[1].offset = 0 THEN pageOf(oiFetch[1]) ELSE oiIssues \o pageOf(oiFetch[1])
        /\ oiRef' = [oiRef EXCEPT !.offset = oiFetch[1].offset + Len(pageOf(oiFetch[1]))]
        /\ oiMore' = moreAfter(pageOf(oiFetch[1]))
        /\ UNCHANGED <<oiTold, oiOrg, oiWallet, oiCalls, oiCut, oiClean>>
    BY DEF pageLoaded
  <1>1. PICK at : at = oiFetch[1].offset + Len(pageOf(oiFetch[1]))
    OBVIOUS
  <1>2. oiRef' = [offset |-> at, applied |-> oiRef.applied, assigned |-> oiRef.assigned, full |-> oiRef.full]
    <2>1. oiRef' = [oiRef EXCEPT !.offset = at]
      BY <1>0, <1>1
    <2>2. QED
      BY <2>1 DEF OiInv, OiShapes
  <1>3. oiRef'.offset = at /\ oiRef'.applied = oiRef.applied /\ oiRef'.assigned = oiRef.assigned
    BY <1>2
  <1>4. OiShapes'
    BY <1>0, <1>2 DEF OiInv, OiShapes
  <1>5. ASSUME ~oiCut PROVE OiGood'
    <2>1. OiGood /\ oiOrg \in OiOrgs
      BY <1>5 DEF OiInv, OiShapes
    <2>2. PICK w, s : oiFetch = <<[org |-> oiOrg, wallet |-> w, offset |-> oiRef.offset, stats |-> s]>>
      BY <1>0, <2>1 DEF OiGood, OiFetchOK
    <2>3. PICK f : f = oiFetch[1]
      OBVIOUS
    <2>4. f.org = oiOrg /\ f.offset = oiRef.offset
      BY <2>2, <2>3
    <2>5. PICK off, cnt, m : /\ off = oiRef.offset /\ cnt = OiCount[oiOrg]
                             /\ m = (IF off + OiPageSize < cnt THEN off + OiPageSize ELSE cnt) - off
      OBVIOUS
    <2>6. off \in Nat /\ cnt \in Nat /\ off <= cnt /\ OiPageSize \in Nat /\ OiPageSize > 0 /\ Len(oiIssues) = off
      BY <2>1, <2>5, OiAssumption DEF OiGood, OiListOK, OiOrgs
    <2>7. m \in Nat /\ off + m <= cnt /\ (m # OiPageSize => off + m = cnt)
      BY <2>5, <2>6
    <2>8. PICK rows : rows = pageOf(f)
      OBVIOUS
    <2>9. rows = [k \in 1..m |-> row(oiOrg, off + k, readStatus(oiRef, off + k))]
      BY <2>4, <2>5, <2>8 DEF pageOf
    <2>10. /\ rows \in Seq(OiRows) /\ Len(rows) = m
           /\ \A k \in 1..m : /\ rows[k].org = oiOrg /\ rows[k].id = off + k
                              /\ rows[k].status = readStatus(oiRef, off + k)
      <3>1. \A k \in 1..m : /\ rows[k].org = oiOrg /\ rows[k].id = off + k
                            /\ rows[k].status = readStatus(oiRef, off + k)
        BY <2>9 DEF row
      <3>2. \A k \in 1..m : rows[k] \in OiRows
        <4>1. ASSUME NEW k \in 1..m PROVE rows[k] \in OiRows
          <5>1. off + k \in Nat
            BY <2>6, <2>7
          <5>2. PICK st : st = readStatus(oiRef, off + k)
            OBVIOUS
          <5>3. rows[k] = [org |-> oiOrg, id |-> off + k, status |-> st] /\ st \in OiStatuses
            BY <2>9, <5>2 DEF row, readStatus, OiStatuses
          <5>4. QED
            BY <2>1, <5>1, <5>3 DEF OiRows
        <4>2. QED
          BY <4>1
      <3>3. rows \in [1..m -> OiRows]
        BY <2>9, <3>2
      <3>4. rows \in Seq(OiRows) /\ Len(rows) = m
        BY <2>7, <3>3
      <3>5. QED
        BY <3>1, <3>4
    <2>11. PICK old, new : old = oiIssues /\ new = oiIssues'
      OBVIOUS
    <2>12. old \in Seq(OiRows) /\ Len(old) = off /\ \A k \in 1..off : old[k].org = oiOrg /\ old[k].id = k
      BY <2>1, <2>5, <2>11 DEF OiGood, OiListOK
    <2>13. new = old \o rows
      <3>1. off = 0 => old = <<>>
        BY <2>12
      <3>2. <<>> \o rows = rows
        BY <2>10
      <3>3. QED
        BY <1>0, <2>3, <2>4, <2>5, <2>8, <2>11, <3>1, <3>2
    <2>14. /\ new \in Seq(OiRows) /\ Len(new) = off + m
           /\ \A k \in 1..off : new[k] = old[k]
           /\ \A k \in 1..m : new[off + k] = rows[k]
      <3>1. new \in Seq(OiRows) /\ Len(new) = off + m
        <4>1. PICK R : R = OiRows
          OBVIOUS
        <4>2. old \in Seq(R) /\ rows \in Seq(R) /\ Len(old) = off /\ Len(rows) = m
          BY <2>10, <2>12, <4>1
        <4>3. new \in Seq(R) /\ Len(new) = off + m
          BY <2>13, <4>2, JoinIs
        <4>4. QED
          BY <4>1, <4>3
      <3>2. \A k \in 1..off : new[k] = old[k]
        BY <2>10, <2>12, <2>13, JoinIs
      <3>3. \A k \in 1..m : new[off + k] = rows[k]
        BY <2>10, <2>12, <2>13, JoinIs
      <3>4. QED
        BY <3>1, <3>2, <3>3
    <2>15. ASSUME NEW k \in 1..off + m
           PROVE  k \in 1..off \/ \E j \in 1..m : k = off + j /\ k \notin 1..off
      <3>1. CASE k <= off
        BY <2>6, <2>7, <3>1
      <3>2. CASE k > off
        <4>1. k - off \in 1..m /\ k = off + (k - off) /\ k \notin 1..off
          BY <2>6, <2>7, <3>2
        <4>2. QED
          BY <4>1
      <3>3. QED
        BY <2>6, <2>7, <3>1, <3>2
    <2>16. at = off + m
      BY <1>1, <2>3, <2>4, <2>5, <2>8, <2>10
    <2>17. OiListOK'
      <3>1. \A k \in 1..off + m : new[k].org = oiOrg /\ new[k].id = k
        <4>1. ASSUME NEW k \in 1..off + m PROVE new[k].org = oiOrg /\ new[k].id = k
          <5>1. CASE k \in 1..off
            BY <2>12, <2>14, <5>1
          <5>2. CASE \E j \in 1..m : k = off + j
            BY <2>10, <2>14, <5>2
          <5>3. QED
            BY <2>15, <5>1, <5>2
        <4>2. QED
          BY <4>1
      <3>2. ~oiMore' => off + m = cnt
        BY <1>0, <2>3, <2>7, <2>8, <2>10 DEF moreAfter
      <3>3. QED
        BY <1>0, <1>3, <2>5, <2>7, <2>11, <2>14, <2>16, <3>1, <3>2 DEF OiListOK
    <2>18. OiFetchOK'
      BY <1>0 DEF OiFetchOK
    <2>19. \A c \in oiCalls : c.id \notin oiClean
      BY <1>0, <2>1 DEF OiGood, OiCallsOK, OiCallOK
    <2>20. OiCallsOK'
      BY <1>0, <2>19 DEF OiCallsOK
    <2>21. \A i \in oiClean : i \notin 1..off => readStatus(oiRef, i) = oiTold[i]
      BY <1>0, <2>1, <2>6 DEF OiGood, OiAppliedOK
    <2>22. \A k \in 1..off : k \in oiClean => old[k].status = oiTold[k]
      BY <2>1, <2>6, <2>11, <2>19 DEF OiGood, OiRowsOK
    <2>23. OiRowsOK'
      <3>1. ASSUME NEW k \in 1..off + m, k \in oiClean
            PROVE  new[k].status = oiTold[k]
        <4>1. CASE k \in 1..off
          BY <2>14, <2>22, <3>1, <4>1
        <4>2. CASE \E j \in 1..m : k = off + j /\ k \notin 1..off
          <5>1. PICK j \in 1..m : k = off + j /\ k \notin 1..off
            BY <4>2
          <5>2. new[k].status = readStatus(oiRef, k)
            BY <2>10, <2>14, <5>1
          <5>3. QED
            BY <2>21, <3>1, <5>1, <5>2
        <4>3. QED
          BY <2>15, <4>1, <4>2
      <3>2. QED
        BY <1>0, <2>11, <2>14, <3>1 DEF OiRowsOK
    <2>24. OiAppliedOK'
      <3>1. \A i : i \notin 1..off + m => i \notin 1..off
        BY <2>6, <2>7
      <3>2. \A i : readStatus(oiRef', i) = readStatus(oiRef, i)
        BY <1>3 DEF readStatus
      <3>3. QED
        BY <1>0, <2>11, <2>14, <2>21, <3>1, <3>2 DEF OiAppliedOK
    <2>25. QED
      BY <2>17, <2>18, <2>20, <2>23, <2>24 DEF OiGood
  <1>6. QED
    BY <1>0, <1>4, <1>5 DEF OiInv

\* The rows after setIssueStatus.
OiWith(old, id, st) == [k \in DOMAIN old |-> IF old[k].id = id THEN [old[k] EXCEPT !.status = st] ELSE old[k]]
OiSet(org, old, new, id, st) ==
  /\ new \in Seq(OiRows) /\ Len(new) = Len(old)
  /\ \A k \in 1..Len(new) : /\ new[k].org = org /\ new[k].id = k
                            /\ new[k].status = IF k = id THEN st ELSE old[k].status

LEMMA OiStatusIs ==
  ASSUME NEW org \in OiOrgs, NEW old \in Seq(OiRows), NEW id, NEW st \in OiStatuses,
         \A k \in 1..Len(old) : old[k].org = org /\ old[k].id = k
  PROVE  OiSet(org, old, OiWith(old, id, st), id, st)
  <1>1. PICK n : n = Len(old) /\ n \in Nat /\ DOMAIN old = 1..n /\ \A k \in 1..n : old[k] \in OiRows
    OBVIOUS
  <1>2. PICK new : new = OiWith(old, id, st)
    OBVIOUS
  <1>3. ASSUME NEW k \in 1..n
        PROVE  /\ new[k] \in OiRows /\ new[k].org = org /\ new[k].id = k
               /\ new[k].status = IF k = id THEN st ELSE old[k].status
    <2>1. old[k] \in OiRows /\ old[k].org = org /\ old[k].id = k
      BY <1>1
    <2>2. new[k] = IF k = id THEN [old[k] EXCEPT !.status = st] ELSE old[k]
      BY <1>1, <1>2, <2>1 DEF OiWith
    <2>3. [old[k] EXCEPT !.status = st] = [org |-> org, id |-> k, status |-> st] /\ k \in Nat
      BY <1>1, <2>1 DEF OiRows
    <2>4. QED
      BY <2>1, <2>2, <2>3 DEF OiRows
  <1>4. new \in [1..n -> OiRows]
    BY <1>1, <1>2, <1>3 DEF OiWith
  <1>5. new \in Seq(OiRows) /\ Len(new) = n
    BY <1>1, <1>4
  <1>6. QED
    BY <1>1, <1>2, <1>3, <1>5 DEF OiSet

LEMMA OiHandleRow ==
  ASSUME OiInv, NEW id \in OiIds, NEW op \in {"apply", "withdraw"}, NEW n, handleRow(id, op, n) PROVE OiInv'
  <1>1. PICK c : c = [n |-> n, id |-> id, op |-> op, org |-> oiOrg]
    OBVIOUS
  <1>2. c.n = n /\ c.id = id /\ c.op = op /\ c.org = oiOrg
    BY <1>1
  <1>3. /\ \E k \in DOMAIN oiIssues : oiIssues[k].id = id /\ oiIssues[k].status = before(op)
        /\ oiWallet /\ setIssueStatus(id, shown(op)) /\ oiCalls' = oiCalls \cup {c}
        /\ oiClean' = IF oiFetch = <<>> /\ \A d \in oiCalls : d.id # id THEN oiClean ELSE oiClean \ {id}
        /\ UNCHANGED <<oiTold, oiOrg, oiWallet, oiFetch, oiRef, oiMore, oiCut>>
    BY <1>1 DEF handleRow
  <1>4. OiShapes'
    BY <1>2, <1>3 DEF OiInv, OiShapes
  <1>5. ASSUME ~oiCut PROVE OiGood'
    <2>1. OiGood /\ oiOrg \in OiOrgs
      BY <1>5 DEF OiInv, OiShapes
    <2>2. PICK st, old, org : st = shown(op) /\ old = oiIssues /\ org = oiOrg
      OBVIOUS
    <2>3. st \in OiStatuses
      BY <2>2 DEF shown, OiStatuses
    <2>4. old \in Seq(OiRows) /\ org \in OiOrgs /\ \A k \in 1..Len(old) : old[k].org = org /\ old[k].id = k
      BY <2>1, <2>2 DEF OiGood, OiListOK
    <2>5. PICK new : new = OiWith(old, id, st) /\ OiSet(org, old, new, id, st)
       BY <2>3, <2>4, OiStatusIs
    <2>6. oiIssues' = new
      BY <1>3, <2>2, <2>5 DEF setIssueStatus, OiWith
    <2>7. id \in 1..Len(old) /\ old[id].status = before(op)
      BY <1>3, <2>2, <2>4
    <2>8. OiListOK'
      BY <1>3, <2>1, <2>2, <2>5, <2>6 DEF OiGood, OiListOK, OiSet
    <2>9. OiFetchOK'
      BY <1>3, <2>1 DEF OiGood, OiFetchOK
    <2>10. oiClean' \subseteq oiClean /\ (id \in oiClean' => oiFetch = <<>> /\ \A d \in oiCalls : d.id # id)
      BY <1>3
    <2>11. id \in oiClean' => oiTold[id] = before(op)
      BY <1>3, <2>1, <2>2, <2>7, <2>10 DEF OiGood, OiRowsOK
    <2>12. OiCallsOK'
      <3>1. ASSUME NEW d \in oiCalls', d.id \in oiClean' PROVE OiCallOK(d)'
        <4>1. CASE d = c
          <5>1. \A e \in oiCalls' : e.id = id => e = c
            BY <1>2, <1>3, <2>10, <3>1, <4>1
          <5>2. /\ oiFetch = <<>> /\ oiTold[id] = before(op)
                /\ id \in 1..Len(new) /\ new[id].status = shown(op)
            BY <1>2, <2>2, <2>5, <2>7, <2>10, <2>11, <3>1, <4>1 DEF OiSet
          <5>3. QED
            BY <1>2, <1>3, <2>6, <4>1, <5>1, <5>2 DEF OiCallOK
        <4>2. CASE d # c
          <5>1. d \in oiCalls /\ OiCallOK(d)
            BY <1>3, <2>1, <2>10, <3>1, <4>2 DEF OiGood, OiCallsOK
          <5>2. d.id # id
            <6>1. ASSUME d.id = id PROVE FALSE
              BY <2>10, <3>1, <5>1, <6>1
            <6>2. QED
              BY <6>1
          <5>3. \A e \in oiCalls' : e.id = d.id => e = d
            BY <1>2, <1>3, <5>1, <5>2 DEF OiCallOK
          <5>4. d.id \in 1..Len(new) /\ new[d.id].status = shown(d.op)
            <6>1. d.id \in 1..Len(old) /\ old[d.id].status = shown(d.op)
              BY <2>2, <5>1 DEF OiCallOK
            <6>2. Len(new) = Len(old)
              BY <2>5 DEF OiSet
            <6>3. QED
              BY <2>5, <5>2, <6>1, <6>2 DEF OiSet
          <5>5. QED
            BY <1>3, <2>6, <5>1, <5>3, <5>4 DEF OiCallOK
        <4>3. QED
          BY <4>1, <4>2
      <3>2. QED
        BY <3>1 DEF OiCallsOK
    <2>13. OiRowsOK'
      <3>1. ASSUME NEW k \in 1..Len(new), k \in oiClean', \A d \in oiCalls' : d.id # k
            PROVE  new[k].status = oiTold[k]
        <4>1. k # id /\ \A d \in oiCalls : d.id # k
          BY <1>2, <1>3, <3>1
        <4>2. new[k].status = old[k].status
          BY <2>5, <4>1 DEF OiSet
        <4>3. old[k].status = oiTold[k]
          BY <1>3, <2>1, <2>2, <2>5, <2>10, <3>1, <4>1 DEF OiGood, OiRowsOK, OiSet
        <4>4. QED
          BY <4>2, <4>3
      <3>2. QED
        BY <1>3, <2>6, <3>1 DEF OiRowsOK
    <2>14. OiAppliedOK'
      BY <1>3, <2>1, <2>2, <2>5, <2>6, <2>10 DEF OiGood, OiAppliedOK, OiSet
    <2>15. QED
      BY <2>8, <2>9, <2>12, <2>13, <2>14 DEF OiGood
  <1>6. QED
    BY <1>3, <1>4, <1>5 DEF OiInv

\* What an answered request changes: its own row or its own word, not both.
OiAnswer(c, new) ==
  /\ new \in Seq(OiRows) /\ Len(new) = Len(oiIssues)
  /\ \A k \in 1..Len(new) : new[k].org = oiOrg /\ new[k].id = k
  /\ \A k \in 1..Len(new) : k # c.id => new[k].status = oiIssues[k].status
  /\ \A i : i \in OiIds /\ i # c.id => oiTold'[i] = oiTold[i]
  /\ (c.id \in oiClean /\ c.id \in 1..Len(new)) => new[c.id].status = oiTold'[c.id]

LEMMA OiRowAnswered == ASSUME OiInv, NEW c \in oiCalls, rowAnswered(c) PROVE OiInv'
  <1>1. /\ \/ UNCHANGED oiIssues /\ oiTold' = [oiTold EXCEPT ![c.id] = shown(c.op)]
           \/ setIssueStatus(c.id, before(c.op)) /\ UNCHANGED oiTold
        /\ oiCalls' = oiCalls \ {c}
        /\ UNCHANGED <<oiOrg, oiWallet, oiFetch, oiRef, oiMore, oiCut, oiClean>>
    BY DEF rowAnswered, undo
  <1>2. DOMAIN oiTold = OiIds /\ oiClean \subseteq OiIds /\ c.id \in OiIds
    BY DEF OiInv, OiShapes
  <1>3. OiShapes'
    BY <1>1, <1>2 DEF OiInv, OiShapes
  <1>4. ASSUME ~oiCut PROVE OiGood'
    <2>1. OiGood /\ oiOrg \in OiOrgs /\ c.op \in {"apply", "withdraw"}
      BY <1>4 DEF OiInv, OiShapes
    <2>2. PICK old, org, id, op : old = oiIssues /\ org = oiOrg /\ id = c.id /\ op = c.op
      OBVIOUS
    <2>3. old \in Seq(OiRows) /\ org \in OiOrgs /\ \A k \in 1..Len(old) : old[k].org = org /\ old[k].id = k
      BY <2>1, <2>2 DEF OiGood, OiListOK
    <2>4. id \in oiClean => /\ c.org = org /\ id \in 1..Len(old) /\ old[id].status = shown(op)
                            /\ oiTold[id] = before(op)
      BY <2>1, <2>2 DEF OiGood, OiCallsOK, OiCallOK
    <2>5. \E new : oiIssues' = new /\ OiAnswer(c, new)
      <3>1. CASE UNCHANGED oiIssues /\ oiTold' = [oiTold EXCEPT ![c.id] = shown(c.op)]
        <4>1. (\A i : i \in OiIds /\ i # id => oiTold'[i] = oiTold[i]) /\ oiTold'[id] = shown(op)
          BY <1>2, <2>2, <3>1
        <4>2. id \in oiClean => old[id].status = oiTold'[id]
          BY <2>4, <4>1
        <4>3. OiAnswer(c, old)
          BY <2>2, <2>3, <4>1, <4>2 DEF OiAnswer
        <4>4. QED
          BY <2>2, <3>1, <4>3
      <3>2. CASE setIssueStatus(c.id, before(c.op)) /\ UNCHANGED oiTold
        <4>1. PICK st : st = before(op)
          OBVIOUS
        <4>2. st \in OiStatuses
          BY <2>1, <2>2, <4>1 DEF before, OiStatuses
        <4>3. PICK new : new = OiWith(old, id, st) /\ OiSet(org, old, new, id, st)
           BY <2>3, <4>2, OiStatusIs
        <4>4. oiIssues' = new
          BY <2>2, <3>2, <4>1, <4>3 DEF setIssueStatus, OiWith
        <4>5. (id \in oiClean /\ id \in 1..Len(new)) => new[id].status = oiTold'[id]
          BY <2>4, <3>2, <4>1, <4>3 DEF OiSet
        <4>6. OiAnswer(c, new)
          BY <2>2, <3>2, <4>3, <4>5 DEF OiAnswer, OiSet
        <4>7. QED
          BY <4>4, <4>6
      <3>3. QED
        BY <1>1, <3>1, <3>2
    <2>6. PICK new : oiIssues' = new /\ OiAnswer(c, new)
      BY <2>5
    <2>7. OiListOK'
      BY <1>1, <2>1, <2>6 DEF OiGood, OiListOK, OiAnswer
    <2>8. OiFetchOK'
      BY <1>1, <2>1 DEF OiGood, OiFetchOK
    <2>9. OiCallsOK'
      <3>1. ASSUME NEW d \in oiCalls', d.id \in oiClean' PROVE OiCallOK(d)'
        <4>1. d \in oiCalls /\ d # c /\ OiCallOK(d)
          BY <1>1, <2>1, <3>1 DEF OiGood, OiCallsOK
        <4>2. d.id # id
          <5>1. ASSUME d.id = id PROVE FALSE
            BY <2>2, <4>1, <5>1 DEF OiCallOK
          <5>2. QED
            BY <5>1
        <4>3. d.id \in 1..Len(new) /\ new[d.id].status = shown(d.op)
          BY <2>2, <2>6, <4>1, <4>2 DEF OiCallOK, OiAnswer
        <4>4. oiTold'[d.id] = before(d.op)
          BY <1>1, <1>2, <2>2, <2>6, <3>1, <4>1, <4>2 DEF OiCallOK, OiAnswer
        <4>5. \A e \in oiCalls' : e.id = d.id => e = d
          BY <1>1, <4>1 DEF OiCallOK
        <4>6. QED
          BY <1>1, <2>6, <4>1, <4>3, <4>4, <4>5 DEF OiCallOK
      <3>2. QED
        BY <3>1 DEF OiCallsOK
    <2>10. OiRowsOK'
      <3>1. ASSUME NEW k \in 1..Len(new), k \in oiClean, \A d \in oiCalls' : d.id # k
            PROVE  new[k].status = oiTold'[k]
        <4>1. CASE k = id
          BY <2>2, <2>6, <3>1, <4>1 DEF OiAnswer
        <4>2. CASE k # id
          <5>1. \A d \in oiCalls : d.id # k
            BY <1>1, <2>2, <3>1, <4>2
          <5>2. oiIssues[k].status = oiTold[k]
            BY <2>1, <2>6, <3>1, <5>1 DEF OiGood, OiRowsOK, OiAnswer
          <5>3. QED
            BY <1>2, <2>2, <2>6, <3>1, <4>2, <5>2 DEF OiAnswer
        <4>3. QED
          BY <4>1, <4>2
      <3>2. QED
        BY <1>1, <2>6, <3>1 DEF OiRowsOK
    <2>11. OiAppliedOK'
      <3>1. ASSUME NEW i \in oiClean, i \notin 1..Len(new)
            PROVE  readStatus(oiRef, i) = oiTold'[i]
        <4>1. readStatus(oiRef, i) = oiTold[i]
          BY <2>1, <2>6, <3>1 DEF OiGood, OiAppliedOK, OiAnswer
        <4>2. i # id
          BY <2>2, <2>4, <2>6, <3>1 DEF OiAnswer
        <4>3. QED
          BY <1>2, <2>2, <2>6, <4>1, <4>2 DEF OiAnswer
      <3>2. QED
        BY <1>1, <2>6, <3>1 DEF OiAppliedOK
    <2>12. QED
      BY <2>7, <2>8, <2>9, <2>10, <2>11 DEF OiGood
  <1>5. QED
    BY <1>1, <1>3, <1>4 DEF OiInv

LEMMA OiInductive == OiInit /\ [][OiNext]_oiVars => []OiInv
  <1>1. OiInv /\ [OiNext]_oiVars => OiInv'
    <2> SUFFICES ASSUME OiInv, [OiNext]_oiVars PROVE OiInv'
      OBVIOUS
    <2>1. CASE fetchContributorState
      BY <2>1, OiStats
    <2>2. CASE pageLoaded
      BY <2>2, OiPageLoaded
    <2>3. CASE pageFailed
      BY <2>3, OiPageFailed
    <2>4. CASE loadMore
      BY <2>4, OiLoadMore
    <2>5. CASE refresh
      BY <2>5, OiRefresh
    <2>6. CASE setFilters \/ clearFilters
      <3>1. UNCHANGED <<oiTold, oiOrg, oiWallet, oiFetch, oiRef, oiIssues, oiMore, oiCalls, oiCut, oiClean>>
        BY <2>6 DEF setFilters, clearFilters, FilterTo
      <3>2. QED
        BY <3>1, OiSame
    <2>7. CASE \E org \in OiOrgs, wallet \in BOOLEAN : setContext(org, wallet)
      BY <2>7, OiSetContext
    <2>8. CASE \E id \in OiIds, op \in {"apply", "withdraw"}, n \in 1..OiMaxCalls : handleRow(id, op, n)
      BY <2>8, OiHandleRow
    <2>9. CASE \E c \in oiCalls : rowAnswered(c)
      BY <2>9, OiRowAnswered
    <2>10. CASE UNCHANGED oiVars
      BY <2>10, OiSame DEF oiVars
    <2>11. QED
      BY <2>1, <2>2, <2>3, <2>4, <2>5, <2>6, <2>7, <2>8, <2>9, <2>10 DEF OiNext
  <1>2. QED
    BY <1>1, OiStarted, PTL

LEMMA OiResult == OiInv => OiAllLoaded /\ OiRowExact
  <1> SUFFICES ASSUME OiInv PROVE OiAllLoaded /\ OiRowExact
    OBVIOUS
  <1>1. OiAllLoaded
    <2> SUFFICES ASSUME ~oiMore, ~oiCut
                 PROVE  [k \in DOMAIN oiIssues |-> <<oiIssues[k].org, oiIssues[k].id>>]
                          = [k \in 1..OiCount[oiOrg] |-> <<oiOrg, k>>]
      BY DEF OiAllLoaded
    <2>1. DOMAIN oiIssues = 1..OiCount[oiOrg] /\ \A k \in DOMAIN oiIssues : oiIssues[k].org = oiOrg /\ oiIssues[k].id = k
      BY DEF OiInv, OiGood, OiListOK
    <2>2. QED
      BY <2>1
  <1>2. OiRowExact
    <2> SUFFICES ASSUME ~oiCut, NEW k \in DOMAIN oiIssues, oiIssues[k].id \in oiClean,
                        \A c \in oiCalls : c.id # oiIssues[k].id
                 PROVE  oiIssues[k].status = oiTold[oiIssues[k].id]
      BY DEF OiRowExact
    <2>1. k \in 1..Len(oiIssues) /\ oiIssues[k].org = oiOrg /\ oiIssues[k].id = k
      BY DEF OiInv, OiGood, OiListOK
    <2>2. QED
      BY <2>1 DEF OiInv, OiGood, OiRowsOK
  <1>3. QED
    BY <1>1, <1>2

-----------------------------------------------------------------------------
(* The assignments of a contributor (ActiveAssignments). *)

\* What the two calls for an organisation return of the chain as it is.
AaSeen(org) == IF "get_org_assignment_count" \in aaClient THEN onChain(aaWho, org) ELSE {}
AaRead(org) == [org |-> org, count |-> countRead(aaWho, org), rows |-> rowsRead(aaWho, org)]
AaFirst(n) == [k \in 1..n |-> AaRead(listed[k])]
\* A load that nothing interfered with has read the organisations before its own.
AaLoadOK(l) == /\ l = [n |-> l.n, who |-> aaWho, at |-> l.at, count |-> l.count, groups |-> AaFirst(l.at - 1)]
               /\ l.at \in Nat \ {0} /\ l.at <= Len(listed) + 1
               /\ l.count # AaNone => l.count = countRead(aaWho, listed[l.at])
AaNonEmpty(all) == withoutGroups(all, {g \in Range(all) : AaSeen(g.org) = {}})
\* What is to be shown depends on the client, the chain and the wallet.
AaRight == AaNonEmpty(AaFirst(Len(listed)))
AaInv == /\ aaTouched \in BOOLEAN /\ aaState \in {"idle", "loading", "loaded", "error"}
         /\ ~aaTouched => /\ \A l \in aaLoads : AaLoadOK(l)
                          /\ aaState = "loaded" => aaGroups = AaRight

LEMMA AaLen == Len(listed) \in Nat /\ DOMAIN listed = 1..Len(listed)
  <1>1. Len(AaOrgs) \in Nat /\ DOMAIN AaOrgs = 1..Len(AaOrgs)
    BY AaAssumption
  <1>2. QED
    BY <1>1 DEF listed

LEMMA AaCard == ASSUME NEW who, NEW org
                PROVE  LET c == Cardinality(onChain(who, org)) IN c \in Nat /\ (c > 0) = (onChain(who, org) # {})
  <1>1. onChain(who, org) = {} \/ onChain(who, org) = {<<who, org>>}
    BY DEF onChain
  <1>2. Cardinality({}) = 0 /\ Cardinality({<<who, org>>}) = 1
    BY FS_EmptySet, FS_Singleton
  <1>3. CASE onChain(who, org) = {}
    BY <1>2, <1>3
  <1>4. CASE onChain(who, org) = {<<who, org>>}
    <2>1. onChain(who, org) # {}
      BY <1>4
    <2>2. QED
      BY <1>2, <1>4, <2>1
  <1>5. QED
    BY <1>1, <1>3, <1>4

\* The count of a bar is positive when it counts something.
LEMMA AaOne == ASSUME NEW org
               PROVE  LET c == countRead(aaWho, org)
                      IN c \in Nat /\ (c > 0) = (AaSeen(org) # {}) /\ c = Cardinality(AaSeen(org))
  <1>1. Cardinality({}) = 0
    BY FS_EmptySet
  <1>2. QED
    BY <1>1, AaCard DEF countRead, AaSeen

LEMMA AaStill == ASSUME UNCHANGED <<aaClient, aaChain, aaWho>> PROVE AaRight' = AaRight
  BY DEF AaRight, AaNonEmpty, AaSeen, AaFirst, AaRead, countRead, rowsRead, listed, onChain

LEMMA AaLoadGroups ==
  ASSUME AaInv, NEW who, loadGroups(who), aaWho' = who, UNCHANGED <<aaClient, aaChain>> PROVE AaInv'
  <1>1. aaTouched' = (aaLoads # {}) /\ aaState' # "loaded"
    BY DEF loadGroups
  <1>a. aaState' \in {"idle", "loading"}
    BY DEF loadGroups
  <1>2. ASSUME ~aaTouched', NEW l \in aaLoads' PROVE AaLoadOK(l)'
    <2>1. aaLoads = {}
      BY <1>1, <1>2
    <2>2. PICK n : l = [n |-> n, who |-> who, at |-> 1, count |-> AaNone, groups |-> <<>>]
      BY <1>2, <2>1 DEF loadGroups
    <2>3. l.n = n /\ l.at = 1 /\ l.count = AaNone
      BY <2>2
    <2>4. AaFirst(l.at - 1)' = <<>>
      BY <2>3 DEF AaFirst
    <2>5. QED
      BY <2>2, <2>3, <2>4, AaLen DEF AaLoadOK
  <1>3. QED
    BY <1>1, <1>a, <1>2 DEF AaInv

\* A load that goes on with another organisation, while the others stand still.
LEMMA AaGoesOn ==
  ASSUME AaInv, NEW l \in aaLoads, NEW m, AaLoadOK(l) => AaLoadOK(m), aaLoads' = (aaLoads \ {l}) \cup {m},
         UNCHANGED <<aaClient, aaChain, aaWho, aaGroups, aaState, aaTouched>>
  PROVE  AaInv'
  <1>2. \A k : AaLoadOK(k) => AaLoadOK(k)'
    BY DEF AaLoadOK, AaFirst, AaRead, countRead, rowsRead, listed, onChain
  <1>3. ASSUME ~aaTouched PROVE \A k \in aaLoads' : AaLoadOK(k)'
    BY <1>2, <1>3 DEF AaInv
  <1>4. QED
    BY <1>3, AaStill DEF AaInv

LEMMA AaCount == ASSUME AaInv, NEW l, get_org_assignment_count(l) PROVE AaInv'
  <1>1. PICK c : c = countRead(l.who, listed[l.at])
    OBVIOUS
  <1>2. PICK m : m = [l EXCEPT !.count = c]
    OBVIOUS
  <1>3. /\ l \in aaLoads /\ l.at \in DOMAIN listed /\ aaLoads' = (aaLoads \ {l}) \cup {m}
        /\ UNCHANGED <<aaClient, aaChain, aaWho, aaGroups, aaState, aaTouched>>
    BY <1>1, <1>2 DEF get_org_assignment_count
  <1>4. ASSUME AaLoadOK(l) PROVE AaLoadOK(m)
    <2>1. PICK n, who, at, gs : /\ l = [n |-> n, who |-> who, at |-> at, count |-> l.count, groups |-> gs]
                                /\ n = l.n /\ who = aaWho /\ at = l.at /\ gs = AaFirst(at - 1)
      BY <1>4 DEF AaLoadOK
    <2>2. m = [n |-> n, who |-> who, at |-> at, count |-> c, groups |-> gs]
      BY <1>2, <2>1
    <2>3. m.n = n /\ m.at = at /\ m.count = c /\ l.who = who
      BY <2>1, <2>2
    <2>4. QED
      BY <1>1, <1>4, <2>1, <2>2, <2>3 DEF AaLoadOK
  <1>5. QED
    BY <1>3, <1>4, AaGoesOn

LEMMA AaList == ASSUME AaInv, NEW l, list_org_assignments(l) PROVE AaInv'
  <1>1. PICK g : g = [org |-> listed[l.at], count |-> l.count, rows |-> rowsRead(l.who, listed[l.at])]
    OBVIOUS
  <1>2. PICK m : m = [l EXCEPT !.at = @ + 1, !.count = AaNone, !.groups = Append(@, g)]
    OBVIOUS
  <1>3. /\ l \in aaLoads /\ l.at \in DOMAIN listed /\ l.count # AaNone /\ aaLoads' = (aaLoads \ {l}) \cup {m}
        /\ UNCHANGED <<aaClient, aaChain, aaWho, aaGroups, aaState, aaTouched>>
    BY <1>1, <1>2 DEF list_org_assignments
  <1>4. ASSUME AaLoadOK(l) PROVE AaLoadOK(m)
    <2>1. PICK n, who, at, gs : /\ l = [n |-> n, who |-> who, at |-> at, count |-> l.count, groups |-> gs]
                                /\ n = l.n /\ who = aaWho /\ at = l.at /\ gs = AaFirst(at - 1)
      BY <1>4 DEF AaLoadOK
    <2>2. l.who = who /\ l.groups = gs
      BY <2>1
    <2>3. PICK more : more = Append(gs, g)
      OBVIOUS
    <2>4. PICK at1, none : at1 = at + 1 /\ none = AaNone
      OBVIOUS
    <2>a. m = [n |-> n, who |-> who, at |-> at1, count |-> none, groups |-> more]
      <3>1. m = [l EXCEPT !.at = at1, !.count = none, !.groups = more]
        BY <1>2, <2>1, <2>2, <2>3, <2>4
      <3>2. PICK cnt : l = [n |-> n, who |-> who, at |-> at, count |-> cnt, groups |-> gs]
        BY <2>1
      <3>3. QED
        BY <3>1, <3>2, Zenon
    <2>5. m.n = n /\ m.at = at1 /\ m.count = none /\ m.groups = more
      BY <2>a
    <2>6. at \in Nat /\ at > 0 /\ at <= Len(listed) /\ at \in 1..at
      BY <1>3, <1>4, <2>1, AaLen DEF AaLoadOK
    <2>7. g = AaRead(listed[at])
      BY <1>1, <1>3, <1>4, <2>1, <2>2 DEF AaLoadOK, AaRead
    <2>8. more = AaFirst(at)
      <3>1. PICK X : X = {AaRead(listed[k]) : k \in 1..at}
        OBVIOUS
      <3>2. gs \in [1..(at - 1) -> X] /\ at - 1 \in Nat /\ \A k \in 1..(at - 1) : gs[k] = AaRead(listed[k])
        BY <2>1, <2>6, <3>1 DEF AaFirst
      <3>3. gs \in Seq(X) /\ Len(gs) = at - 1 /\ g \in X
        BY <2>6, <2>7, <3>1, <3>2
      <3>4. more \in Seq(X) /\ Len(more) = at /\ DOMAIN more = 1..at
        BY <2>3, <2>6, <3>3
      <3>5. \A k \in 1..at : more[k] = AaRead(listed[k])
        <4>1. ASSUME NEW k \in 1..at PROVE more[k] = AaRead(listed[k])
          <5>1. CASE k = at
            BY <2>3, <2>6, <2>7, <3>3, <5>1
          <5>2. CASE k # at
            <6>1. k \in 1..(at - 1)
              BY <2>6, <5>2
            <6>2. QED
              BY <2>3, <2>6, <3>2, <3>3, <6>1
          <5>3. QED
            BY <5>1, <5>2
        <4>2. QED
          BY <4>1
      <3>6. DOMAIN AaFirst(at) = 1..at /\ \A k \in 1..at : AaFirst(at)[k] = AaRead(listed[k])
        BY DEF AaFirst
      <3>7. more = [k \in 1..at |-> more[k]] /\ AaFirst(at) = [k \in 1..at |-> AaFirst(at)[k]]
        BY <3>4, <3>6 DEF AaFirst
      <3>8. QED
        BY <3>5, <3>6, <3>7
    <2>9. at1 - 1 = at /\ at1 \in Nat \ {0} /\ at1 <= Len(listed) + 1
      BY <2>4, <2>6, AaLen
    <2>10. m = [n |-> m.n, who |-> aaWho, at |-> m.at, count |-> m.count, groups |-> AaFirst(m.at - 1)]
      BY <2>1, <2>a, <2>5, <2>8, <2>9
    <2>11. QED
      BY <2>4, <2>5, <2>9, <2>10 DEF AaLoadOK
  <1>5. QED
    BY <1>3, <1>4, AaGoesOn

LEMMA AaLoaded == ASSUME AaInv, NEW l, groupsLoaded(l) PROVE AaInv'
  <1>1. /\ l \in aaLoads /\ l.at = Len(listed) + 1
        /\ aaGroups' = withoutGroups(l.groups, {g \in Range(l.groups) : ~keepGroup(g)})
        /\ aaLoads' = aaLoads \ {l} /\ UNCHANGED <<aaClient, aaChain, aaWho, aaTouched>> /\ aaState' = "loaded"
    BY DEF groupsLoaded, stateAfter
  <1>3. ASSUME ~aaTouched PROVE aaGroups' = AaRight'
    <2>1. l.groups = AaFirst(l.at - 1)
      BY <1>1, <1>3 DEF AaInv, AaLoadOK
    <2>2. l.at - 1 = Len(listed)
      BY <1>1, AaLen
    <2>3. PICK all : all = AaFirst(Len(listed))
      OBVIOUS
    <2>4. \A g \in Range(all) : (~keepGroup(g)) = (AaSeen(g.org) = {})
      <3>1. ASSUME NEW g \in Range(all) PROVE (~keepGroup(g)) = (AaSeen(g.org) = {})
        <4>1. PICK org : g = AaRead(org)
          BY <2>3, <3>1 DEF Range, AaFirst
        <4>2. g.count = countRead(aaWho, org) /\ g.org = org
          BY <4>1 DEF AaRead
        <4>3. QED
          BY <4>2, AaOne DEF keepGroup
      <3>2. QED
        BY <3>1
    <2>5. {g \in Range(all) : ~keepGroup(g)} = {g \in Range(all) : AaSeen(g.org) = {}}
      BY <2>4
    <2>6. aaGroups' = AaNonEmpty(all)
      BY <1>1, <2>1, <2>2, <2>3, <2>5 DEF AaNonEmpty
    <2>7. QED
      BY <1>1, <2>3, <2>6, AaStill DEF AaRight
  <1>4. \A k : AaLoadOK(k) => AaLoadOK(k)'
    BY <1>1 DEF AaLoadOK, AaFirst, AaRead, countRead, rowsRead, listed, onChain
  <1>5. QED
    BY <1>1, <1>3, <1>4 DEF AaInv

\* Steps that finish no load with groups.
LEMMA AaRest ==
  ASSUME AaInv, \/ aaTouched' = TRUE /\ aaState' = aaState
                \/ /\ UNCHANGED <<aaClient, aaChain, aaWho, aaGroups, aaTouched>> /\ aaLoads' \subseteq aaLoads
                   /\ aaState' = aaState \/ aaState' = "error"
  PROVE  AaInv'
  <1>1. CASE aaTouched' = TRUE /\ aaState' = aaState
    BY <1>1 DEF AaInv
  <1>2. CASE /\ UNCHANGED <<aaClient, aaChain, aaWho, aaGroups, aaTouched>> /\ aaLoads' \subseteq aaLoads
             /\ aaState' = aaState \/ aaState' = "error"
    <2>2. \A k : AaLoadOK(k) => AaLoadOK(k)'
      BY <1>2 DEF AaLoadOK, AaFirst, AaRead, countRead, rowsRead, listed, onChain
    <2>3. QED
      BY <1>2, <2>2, AaStill DEF AaInv
  <1>3. QED
    BY <1>1, <1>2

LEMMA AaInductive == AaInit /\ [][AaNext]_aaVars => []AaInv
  <1>1. AaInit => AaInv
    BY DEF AaInit, AaInv
  <1>2. AaInv /\ [AaNext]_aaVars => AaInv'
    <2> SUFFICES ASSUME AaInv, [AaNext]_aaVars PROVE AaInv'
      OBVIOUS
    <2>1. CASE AaChange
      BY <2>1, AaRest DEF AaChange
    <2>2. CASE reloadGroups
      BY <2>2, AaLoadGroups DEF reloadGroups
    <2>3. CASE \E who \in AaWho \cup {"null"} : setWallet(who)
      BY <2>3, AaLoadGroups DEF setWallet
    <2>4. CASE \E l \in aaLoads : get_org_assignment_count(l)
      BY <2>4, AaCount
    <2>5. CASE \E l \in aaLoads : list_org_assignments(l)
      BY <2>5, AaList
    <2>6. CASE \E l \in aaLoads : groupsLoaded(l)
      BY <2>6, AaLoaded
    <2>7. CASE \E l \in aaLoads : groupsFailed(l)
      BY <2>7, AaRest DEF groupsFailed, stateAfter
    <2>8. CASE UNCHANGED aaVars
      BY <2>8, AaRest DEF aaVars
    <2>9. QED
      BY <2>1, <2>2, <2>3, <2>4, <2>5, <2>6, <2>7, <2>8 DEF AaNext
  <1>3. QED
    BY <1>1, <1>2, PTL

LEMMA AaResult == AaInv => AaExact
  <1> SUFFICES ASSUME AaInv, assignmentsShown \in {"groups", "empty"}, ~aaTouched PROVE AaExact
    BY DEF AaExact
  <1>1. aaState = "loaded"
    <2>1. aaState \in {"idle", "loading", "loaded", "error"}
      BY DEF AaInv
    <2>2. CASE aaWho = "null"
      BY <2>2 DEF assignmentsShown
    <2>3. CASE aaWho # "null" /\ aaState \in {"idle", "loading"}
      BY <2>3 DEF assignmentsShown
    <2>4. CASE aaWho # "null" /\ aaState = "error"
      BY <2>4 DEF assignmentsShown
    <2>5. QED
      BY <2>1, <2>2, <2>3, <2>4
  <1>2. aaGroups = AaRight
    BY <1>1 DEF AaInv
  <1> DEFINE bar(org) == [org |-> org, count |-> Cardinality(AaSeen(org)),
                          rows |-> IF "list_org_assignments" \in aaClient THEN onChain(aaWho, org) ELSE {}]
  <1>3. ASSUME NEW org PROVE AaRead(org) = bar(org)
    BY AaOne DEF AaRead, rowsRead
  <1>4. AaFirst(Len(listed)) = [k \in DOMAIN listed |-> bar(listed[k])]
    <2>1. AaFirst(Len(listed)) = [k \in DOMAIN listed |-> AaRead(listed[k])]
      BY AaLen DEF AaFirst
    <2> HIDE DEF bar
    <2>2. QED
      BY <1>3, <2>1
  <1>5. QED
    BY <1>2, <1>4 DEF AaExact, AaRight, AaNonEmpty, AaSeen

-----------------------------------------------------------------------------
(* Reading a list page by page (ListPaging). *)

PgLists == {"issues", "events", "applications", "audit", "github"}

\* The size of the pages of a walk.
PgSize == IF pgList = "issues" /\ pgAsk = 0 THEN clampLimit(PgDefault) ELSE clampLimit(pgAsk)
PgCapped == pgList = "audit" => pgAsk <= PgCap
PgPullLast == (pgList = "github" /\ pgPull > 0) =>
                (pgTotal - pgPull) \div clampLimit(pgAsk) = (pgTotal - 1) \div clampLimit(pgAsk)

PgTypes == /\ pgList \in PgLists /\ pgFirst \in Nat /\ pgTotal \in Nat /\ pgFirst <= pgTotal
           /\ pgAsk \in Nat /\ (pgList = "audit" => pgAsk >= 1)
           /\ pgPull \in Nat /\ pgPull <= pgFirst /\ (pgList # "github" => pgPull = 0)
           /\ pgPage \in Nat /\ pgPage >= 1 /\ pgCount \in Int /\ pgRaced \in Nat
           /\ pgPos \in [1..pgTotal -> Nat] /\ pgLeft \in Nat /\ pgLeft <= pgTotal
           /\ pgList = "github" => pgTotal = pgFirst /\ pgPos = [r \in 1..pgTotal |-> pgTotal - r + 1]
\* Every row in the list has a position of its own, within the length of the list.
PgPlaced == /\ \A r, s \in 1..pgTotal : (pgPos[r] = pgPos[s] /\ pgPos[r] > 0) => r = s
            /\ \A r \in 1..pgTotal : pgPos[r] <= pgTotal - pgLeft
\* What was inserted since the count was inserted between a count and its rows.
PgCounted == pgCount >= 0 => \A r \in 1..pgTotal : pgPos[r] <= pgCount + pgRaced
\* The pages read so far were read, but for a row for each one that left: the others
\* only move to later pages.
PgReadTo(B, S) == /\ IsFiniteSet(S) /\ Cardinality(S) <= pgLeft
                  /\ \A r \in 1..pgFirst : (pgPos[r] > 0 /\ pgPos[r] <= B) => r \in pgSeen \cup {pgPull} \cup S
PgReadUp == \E S : PgReadTo((pgPage - 1) * PgSize, S)
\* At the end the others have the positions behind the last count.
PgBehind(c, S) == /\ c \in Nat /\ IsFiniteSet(S) /\ Cardinality(S) <= pgLeft
                  /\ \A r \in 1..pgFirst : (pgPos[r] > 0 /\ r \notin pgSeen \cup {pgPull} \cup S)
                                             => pgPos[r] \in (c + 1)..(c + pgRaced)
PgEnded == (~pgMore /\ PgPullLast) => \E c, S : PgBehind(c, S)
PgInv == PgTypes /\ PgPlaced /\ PgCounted /\ (PgCapped => PgReadUp /\ PgEnded)

LEMMA PgClamp == ASSUME NEW n \in Nat
                 PROVE  clampLimit(n) \in Nat /\ clampLimit(n) >= 1 /\ (1 <= n /\ n <= PgCap => clampLimit(n) = n)
  BY PgAssumption DEF clampLimit, PgMin, PgMax

LEMMA PgSizeType == ASSUME PgTypes PROVE PgSize \in Nat /\ PgSize >= 1
  <1>1. PgDefault \in Nat /\ pgAsk \in Nat
    BY PgAssumption DEF PgTypes
  <1>2. QED
    BY <1>1, PgClamp DEF PgSize

\* The last page by the count.
LEMMA CeilIs == ASSUME NEW c \in Nat, NEW l \in Nat, l >= 1, NEW p \in Nat, ~(p < Ceil(c, l)) PROVE p * l >= c
  <1>1. PICK q : q = (c + l - 1) \div l
    OBVIOUS
  <1>2. q \in Nat /\ c + l - 1 < q * l + l
    BY <1>1, DivBounds
  <1>3. q <= p
    BY <1>1, <1>2 DEF Ceil
  <1>4. q * l <= p * l /\ q * l \in Int /\ p * l \in Int
    BY <1>2, <1>3
  <1>5. QED
    BY <1>2, <1>4

\* The rows of a page.
LEMMA SliceIs ==
  ASSUME PgTypes, NEW l \in Nat, l >= 1, NEW p \in Nat, p >= 1
  PROVE  \A r \in 1..pgTotal : ((p - 1) * l < pgPos[r] /\ pgPos[r] <= p * l) <=> r \in pgSlice((p - 1) * l, l)
  <1>1. PICK o : o = (p - 1) * l
    OBVIOUS
  <1>2. o \in Nat /\ p * l = o + l
    BY <1>1
  <1>3. QED
    BY <1>1, <1>2 DEF pgSlice

\* A page of GitHub's with items behind it is full.
LEMMA SliceFull ==
  ASSUME PgTypes, pgList = "github", NEW l \in Nat, l >= 1, NEW p \in Nat, p >= 1, p * l < pgTotal
  PROVE  Cardinality(pgSlice((p - 1) * l, l)) = l
  <1>1. PICK o, T : o = (p - 1) * l /\ T = pgTotal
    OBVIOUS
  <1>2. o \in Nat /\ T \in Nat /\ p * l = o + l /\ o + l < T
    BY <1>1 DEF PgTypes
  <1>3. pgSlice(o, l) = {r \in 1..T : o < T - r + 1 /\ T - r + 1 <= o + l}
    BY <1>1 DEF pgSlice, PgTypes
  <1>4. PICK lo, hi : lo = T - o - l + 1 /\ hi = T - o
    OBVIOUS
  <1>5. lo \in Int /\ hi \in Int /\ lo >= 1 /\ hi <= T /\ hi - lo + 1 = l /\ ~(lo > hi)
    BY <1>2, <1>4
  <1>6. pgSlice(o, l) = lo..hi
    <2>1. \A r \in pgSlice(o, l) : r \in lo..hi
      BY <1>2, <1>3, <1>4, <1>5
    <2>2. \A r \in lo..hi : r \in pgSlice(o, l)
      BY <1>2, <1>3, <1>4, <1>5
    <2>3. QED
      BY <2>1, <2>2
  <1>7. Cardinality(lo..hi) = hi - lo + 1
    BY <1>5, FS_Interval
  <1>8. QED
    BY <1>1, <1>5, <1>6, <1>7

\* What an answer says: it has the rows of its page, but for a pull request, and says
\* that there is no more only at the end.
LEMMA PgAnswers ==
  ASSUME PgTypes, PgCapped, pgCount >= 0, NEW a, a = pgAnswer(pgList, pgPage, pgAsk)
  PROVE  /\ \A r \in 1..pgTotal : ((pgPage - 1) * PgSize < pgPos[r] /\ pgPos[r] <= pgPage * PgSize)
                                    => r \in a.rows \cup {pgPull}
         /\ (~a.more /\ PgPullLast) => pgPage * PgSize >= pgCount \/ pgPage * PgSize >= pgTotal
  <1>1. PICK l, p, T, c : l = PgSize /\ p = pgPage /\ T = pgTotal /\ c = pgCount
    OBVIOUS
  <1>2. l \in Nat /\ l >= 1 /\ p \in Nat /\ p >= 1 /\ T \in Nat /\ c \in Nat
    BY <1>1, PgSizeType DEF PgTypes
  <1>3. (p - 1) * l \in Nat /\ p * l = (p - 1) * l + l /\ p * l \in Nat
    BY <1>2
  <1>4. \A r \in 1..T : ((p - 1) * l < pgPos[r] /\ pgPos[r] <= p * l) => r \in pgSlice((p - 1) * l, l)
    BY <1>1, <1>2, SliceIs
  <1>5. pgList \in PgLists
    BY DEF PgTypes
  <1>6. CASE pgList = "issues"
    <2>1. a = issuesPage(p, pgAsk)
      BY <1>1, <1>6 DEF pgAnswer
    <2>2. l = clampLimit(IF pgAsk = 0 THEN PgDefault ELSE pgAsk)
      BY <1>1, <1>6 DEF PgSize
    <2>3. a = [rows |-> pgSlice((p - 1) * l, l), more |-> p < Ceil(c, l)]
      BY <1>1, <2>1, <2>2 DEF issuesPage
    <2>4. a.rows = pgSlice((p - 1) * l, l) /\ a.more = (p < Ceil(c, l))
      BY <2>3
    <2>5. ~a.more => p * l >= c
      BY <1>2, <2>4, CeilIs
    <2>6. QED
      BY <1>1, <1>4, <2>4, <2>5
  <1>7. CASE pgList = "events"
    <2>1. a = eventsPage(p, pgAsk)
      BY <1>1, <1>7 DEF pgAnswer
    <2>2. l = clampLimit(pgAsk)
      BY <1>1, <1>7 DEF PgSize
    <2>3. a = [rows |-> pgSlice((p - 1) * l, l), more |-> (p - 1) * l + l < c]
      BY <1>1, <2>1, <2>2 DEF eventsPage, hasMore
    <2>4. a.rows = pgSlice((p - 1) * l, l) /\ a.more = ((p - 1) * l + l < c)
      BY <2>3
    <2>5. ~a.more => p * l >= c
      <3>1. ~a.more => ~((p - 1) * l + l < c)
        BY <2>4, Zenon
      <3>2. QED
        BY <1>2, <1>3, <3>1
    <2>6. QED
      BY <1>1, <1>4, <2>4, <2>5
  <1>8. CASE pgList = "applications"
    <2>1. a = applicationsPage(p, pgAsk)
      BY <1>1, <1>8 DEF pgAnswer
    <2>2. l = clampLimit(pgAsk)
      BY <1>1, <1>8 DEF PgSize
    <2>3. a = [rows |-> pgSlice((p - 1) * l, l), more |-> p * l < c]
      BY <1>1, <2>1, <2>2 DEF applicationsPage
    <2>4. a.rows = pgSlice((p - 1) * l, l) /\ a.more = (p * l < c)
      BY <2>3
    <2>5. ~a.more => p * l >= c
      <3>1. ~a.more => ~(p * l < c)
        BY <2>4, Zenon
      <3>2. QED
        BY <1>2, <1>3, <3>1
    <2>6. QED
      BY <1>1, <1>4, <2>4, <2>5
  <1>9. CASE pgList = "audit"
    <2>1. a = auditPage(p, pgAsk)
      BY <1>1, <1>9 DEF pgAnswer
    <2>2. pgAsk \in Nat /\ 1 <= pgAsk /\ pgAsk <= PgCap
      BY <1>9 DEF PgTypes, PgCapped
    <2>3. l = clampLimit(pgAsk)
      BY <1>1, <1>9 DEF PgSize
    <2>4. l = pgAsk
      BY <2>2, <2>3, PgClamp
    <2>5. PgMin(pgAsk, PgCap) = pgAsk
      BY <2>2, PgAssumption DEF PgMin
    <2>6. a = [rows |-> pgSlice((p - 1) * l, l), more |-> p < Ceil(c, l)]
      BY <1>1, <2>1, <2>4, <2>5 DEF auditPage
    <2>7. a.rows = pgSlice((p - 1) * l, l) /\ a.more = (p < Ceil(c, l))
      BY <2>6
    <2>8. ~a.more => p * l >= c
      BY <1>2, <2>7, CeilIs
    <2>9. QED
      BY <1>1, <1>4, <2>7, <2>8
  <1>10. CASE pgList = "github"
    <2>1. a = githubPage(p, pgAsk)
      BY <1>1, <1>10 DEF pgAnswer
    <2>2. l = clampLimit(pgAsk)
      BY <1>1, <1>10 DEF PgSize
    <2>3. PICK items : items = pgSlice((p - 1) * l, l)
      OBVIOUS
    <2>4. a = [rows |-> items \ {pgPull}, more |-> p * l < T /\ Cardinality(items \ {pgPull}) = l]
      BY <1>1, <2>1, <2>2, <2>3 DEF githubPage
    <2>5. a.rows = items \ {pgPull} /\ a.more = (p * l < T /\ Cardinality(items \ {pgPull}) = l)
      BY <2>4
    <2>6. ASSUME ~a.more, PgPullLast, p * l < T PROVE FALSE
      <3>1. Cardinality(items) = l
        BY <1>1, <1>2, <1>10, <2>3, <2>6, SliceFull
      <3>2. pgPull \in items
        <4>1. ASSUME pgPull \notin items PROVE FALSE
          <5>1. items \ {pgPull} = items
            BY <4>1
          <5>2. QED
            BY <2>5, <2>6, <3>1, <5>1
        <4>2. QED
          BY <4>1
      <3>3. PICK x : x = pgPull
        OBVIOUS
      <3>4. x \in 1..T /\ (p - 1) * l < T - x + 1 /\ T - x + 1 <= p * l
        <4>1. x \in 1..T /\ pgPos[x] = T - x + 1
          BY <1>1, <1>10, <2>3, <3>2, <3>3 DEF pgSlice, PgTypes
        <4>2. QED
          BY <1>1, <1>2, <2>3, <3>2, <3>3, <4>1, SliceIs
      <3>5. (T - x) \div l = (T - 1) \div l
        BY <1>1, <1>10, <2>2, <2>6, <3>3, <3>4 DEF PgPullLast
      <3>6. PICK q : q = (T - 1) \div l
        OBVIOUS
      <3>7. q \in Nat /\ q * l <= T - 1 /\ T - 1 < q * l + l
        BY <1>2, <3>4, <3>6, DivBounds
      <3>8. q * l <= T - x
        <4>1. T - x \in Nat
          BY <1>2, <3>4
        <4>2. QED
          BY <1>2, <3>5, <3>6, <4>1, DivBounds
      <3>9. q >= p
        <4>1. ASSUME q < p PROVE FALSE
          <5>1. q + 1 <= p /\ (q + 1) * l = q * l + l
            BY <1>2, <3>7, <4>1
          <5>2. (q + 1) * l <= p * l
            BY <1>2, <3>7, <5>1
          <5>3. QED
            BY <1>2, <1>3, <2>6, <3>7, <5>1, <5>2
        <4>2. QED
          BY <1>2, <3>7, <4>1
      <3>10. q * l >= p * l
        BY <1>2, <3>7, <3>9
      <3>11. QED
        BY <1>2, <1>3, <3>4, <3>7, <3>8, <3>10
    <2>7. (~a.more /\ PgPullLast) => p * l >= T
      BY <1>2, <1>3, <2>6
    <2>8. QED
      BY <1>1, <1>4, <2>3, <2>5, <2>7
  <1>11. QED
    BY <1>5, <1>6, <1>7, <1>8, <1>9, <1>10 DEF PgLists

LEMMA PgRead == ASSUME PgInv, readPage PROVE PgInv'
  <1>1. PICK a : a = pgAnswer(pgList, pgPage, pgAsk)
    OBVIOUS
  <1>2. /\ pgCount >= 0 /\ pgSeen' = pgSeen \cup a.rows /\ pgPage' = pgPage + 1 /\ pgCount' = -1
        /\ pgMore' = a.more
        /\ UNCHANGED <<pgList, pgFirst, pgTotal, pgPos, pgLeft, pgPull, pgAsk, pgRaced>>
    BY <1>1 DEF readPage
  <1>3. PgPlaced'
    BY <1>2 DEF PgInv, PgPlaced
  <1>4. PgTypes'
    BY <1>2 DEF PgInv, PgTypes
  <1>5. PgCounted'
    BY <1>2 DEF PgCounted
  <1>6. PgCapped' = PgCapped /\ PgSize' = PgSize /\ PgPullLast' = PgPullLast
    BY <1>2 DEF PgCapped, PgSize, PgPullLast
  <1>7. ASSUME PgCapped PROVE PgReadUp' /\ PgEnded'
    <2>1. PICK l, p, T, c : l = PgSize /\ p = pgPage /\ T = pgTotal /\ c = pgCount
      OBVIOUS
    <2>2. l \in Nat /\ l >= 1 /\ p \in Nat /\ p >= 1 /\ T \in Nat /\ c \in Nat
      BY <1>2, <2>1, PgSizeType DEF PgInv, PgTypes
    <2>3. (p - 1) * l \in Nat /\ p * l \in Nat
      BY <2>2
    <2>4. /\ \A r \in 1..T : ((p - 1) * l < pgPos[r] /\ pgPos[r] <= p * l) => r \in a.rows \cup {pgPull}
          /\ (~a.more /\ PgPullLast) => p * l >= c \/ p * l >= T
      BY <1>1, <1>2, <1>7, <2>1, PgAnswers DEF PgInv
    <2>5. PICK S : PgReadTo((p - 1) * l, S)
      BY <1>7, <2>1 DEF PgInv, PgReadUp
    <2>6. pgFirst \in Nat /\ pgFirst <= T /\ pgRaced \in Nat /\ pgLeft \in Nat /\ \A r \in 1..T : pgPos[r] \in Nat
      BY <2>1 DEF PgInv, PgTypes
    <2>7. ASSUME NEW r \in 1..pgFirst, pgPos[r] > 0, pgPos[r] <= p * l PROVE r \in pgSeen' \cup {pgPull} \cup S
      <3>1. r \in 1..T
        BY <2>2, <2>6
      <3>2. CASE pgPos[r] <= (p - 1) * l
        BY <1>2, <2>5, <2>7, <3>2 DEF PgReadTo
      <3>3. CASE (p - 1) * l < pgPos[r]
        BY <1>2, <2>4, <2>7, <3>1, <3>3
      <3>4. QED
        BY <2>3, <2>6, <3>1, <3>2, <3>3
    <2>8. PgReadUp'
      <3>1. pgPage' - 1 = p
        BY <1>2, <2>1, <2>2
      <3>2. PgReadTo(p * l, S)'
        BY <1>2, <2>5, <2>7 DEF PgReadTo
      <3>3. QED
        BY <1>6, <2>1, <3>1, <3>2 DEF PgReadUp
    <2>9. PgEnded'
      <3>1. ASSUME ~a.more, PgPullLast, NEW r \in 1..pgFirst, pgPos[r] > 0, r \notin pgSeen' \cup {pgPull} \cup S
            PROVE  pgPos[r] \in (c + 1)..(c + pgRaced)
        <4>1. r \in 1..T
          BY <2>2, <2>6
        <4>2. ~(pgPos[r] <= p * l) /\ pgPos[r] \in Nat
          BY <2>6, <2>7, <3>1, <4>1
        <4>3. p * l >= c \/ p * l >= T
          BY <2>4, <3>1
        <4>4. pgPos[r] <= c + pgRaced /\ pgPos[r] <= T
          BY <1>2, <2>1, <2>2, <2>6, <4>1, <4>2 DEF PgInv, PgCounted, PgPlaced
        <4>5. QED
          BY <2>2, <2>3, <2>6, <4>2, <4>3, <4>4
      <3>2. ASSUME ~a.more, PgPullLast PROVE PgBehind(c, S)'
        <4>1. c \in Nat /\ IsFiniteSet(S) /\ Cardinality(S) <= pgLeft
          BY <2>2, <2>5 DEF PgReadTo
        <4>2. QED
          BY <1>2, <3>1, <3>2, <4>1 DEF PgBehind
      <3>3. QED
        BY <1>2, <1>6, <3>2 DEF PgEnded
    <2>10. QED
      BY <2>8, <2>9
  <1>8. QED
    BY <1>3, <1>4, <1>5, <1>6, <1>7 DEF PgInv

LEMMA PgInsert == ASSUME PgInv, insertRow PROVE PgInv'
  <1>1. /\ pgList \in {"issues", "events", "audit"} /\ pgMore /\ pgTotal' = pgTotal + 1
        /\ pgPos' = [r \in 1..(pgTotal + 1) |-> IF r = pgTotal + 1 THEN 1
                                                ELSE IF pgPos[r] = 0 THEN 0 ELSE pgPos[r] + 1]
        /\ pgRaced' = IF pgCount >= 0 THEN pgRaced + 1 ELSE pgRaced
        /\ UNCHANGED <<pgList, pgFirst, pgLeft, pgPull, pgAsk, pgPage, pgCount, pgSeen, pgMore>>
    BY DEF insertRow
  <1>2. /\ pgTotal \in Nat /\ pgLeft \in Nat /\ pgLeft <= pgTotal /\ pgFirst \in Nat /\ pgFirst <= pgTotal /\ pgRaced \in Nat
        /\ pgCount \in Int /\ \A r \in 1..pgTotal : pgPos[r] \in Nat
    BY DEF PgInv, PgTypes
  <1>3. ASSUME NEW r \in 1..(pgTotal + 1)
        PROVE  \/ r = pgTotal + 1 /\ pgPos'[r] = 1
               \/ r \in 1..pgTotal /\ pgPos[r] = 0 /\ pgPos'[r] = 0
               \/ r \in 1..pgTotal /\ pgPos[r] > 0 /\ pgPos'[r] = pgPos[r] + 1
    BY <1>1, <1>2
  <1>4. PgTypes'
    <2>1. pgPos' \in [1..pgTotal' -> Nat]
      BY <1>1, <1>2
    <2>2. QED
      BY <1>1, <2>1 DEF PgInv, PgTypes
  <1>5. PgPlaced'
    <2>0. pgTotal' = pgTotal + 1 /\ pgLeft' = pgLeft
      BY <1>1
    <2>1. ASSUME NEW r \in 1..(pgTotal + 1), NEW s \in 1..(pgTotal + 1), pgPos'[r] = pgPos'[s], pgPos'[r] > 0 PROVE r = s
      <3>1. \A q \in 1..pgTotal : pgPos[q] + 1 > 1 \/ pgPos[q] = 0
        BY <1>2
      <3>2. CASE r = pgTotal + 1
        BY <1>2, <1>3, <2>1, <3>1, <3>2
      <3>3. CASE s = pgTotal + 1
        BY <1>2, <1>3, <2>1, <3>1, <3>3
      <3>4. CASE r # pgTotal + 1 /\ s # pgTotal + 1
        <4>1. r \in 1..pgTotal /\ s \in 1..pgTotal /\ pgPos'[r] = pgPos[r] + 1 /\ pgPos'[s] = pgPos[s] + 1 /\ pgPos[r] > 0
          BY <1>2, <1>3, <2>1, <3>4
        <4>2. pgPos[r] = pgPos[s]
          <5>1. PICK a, b : a = pgPos[r] /\ b = pgPos[s]
            OBVIOUS
          <5>2. a \in Nat /\ b \in Nat /\ a + 1 = b + 1
            BY <1>2, <2>1, <4>1, <5>1
          <5>3. QED
            BY <5>1, <5>2
        <4>3. QED
          BY <4>1, <4>2 DEF PgInv, PgPlaced
      <3>5. QED
        BY <3>2, <3>3, <3>4
    <2>2. ASSUME NEW r \in 1..(pgTotal + 1) PROVE pgPos'[r] <= pgTotal + 1 - pgLeft
      BY <1>2, <1>3 DEF PgInv, PgPlaced
    <2>3. \A r, s \in 1..pgTotal' : (pgPos'[r] = pgPos'[s] /\ pgPos'[r] > 0) => r = s
      BY <2>0, <2>1
    <2>4. \A r \in 1..pgTotal' : pgPos'[r] <= pgTotal' - pgLeft'
      BY <1>2, <2>0, <2>2
    <2>5. QED
      BY <2>3, <2>4 DEF PgPlaced
  <1>6. PgCounted'
    <2>1. ASSUME pgCount >= 0, NEW r \in 1..(pgTotal + 1) PROVE pgPos'[r] <= pgCount + (pgRaced + 1)
      BY <1>2, <1>3, <2>1 DEF PgInv, PgCounted
    <2>2. QED
      BY <1>1, <2>1 DEF PgCounted
  <1>7. PgCapped' = PgCapped /\ PgSize' = PgSize
    BY <1>1 DEF PgCapped, PgSize
  <1>8. ASSUME PgCapped PROVE PgReadUp'
    <2>1. PICK z : z = (pgPage - 1) * PgSize
      OBVIOUS
    <2>2. z \in Int
      BY <2>1, PgSizeType DEF PgInv, PgTypes
    <2>3. PICK S : PgReadTo(z, S)
      BY <1>8, <2>1 DEF PgInv, PgReadUp
    <2>4. ASSUME NEW r \in 1..pgFirst, pgPos'[r] > 0, pgPos'[r] <= z PROVE r \in pgSeen \cup {pgPull} \cup S
      <3>1. r \in 1..pgTotal /\ pgPos[r] > 0 /\ pgPos'[r] = pgPos[r] + 1
        BY <1>2, <1>3, <2>4
      <3>2. QED
        BY <1>2, <2>2, <2>3, <2>4, <3>1 DEF PgReadTo
    <2>5. PgReadTo(z, S)'
      BY <1>1, <2>3, <2>4 DEF PgReadTo
    <2>6. QED
      BY <1>1, <1>7, <2>1, <2>5 DEF PgReadUp
  <1>9. PgEnded'
    BY <1>1 DEF PgEnded
  <1>10. QED
    BY <1>4, <1>5, <1>6, <1>7, <1>8, <1>9 DEF PgInv

\* The row right behind the pages read moves onto them.
LEMMA PgLeave == ASSUME PgInv, NEW x \in 1..pgTotal, rowLeaves(x) PROVE PgInv'
  <1>1. /\ pgList = "issues" /\ pgMore /\ pgPos[x] > 0 /\ pgLeft' = pgLeft + 1
        /\ pgPos' = [r \in 1..pgTotal |-> IF r = x THEN 0
                                          ELSE IF pgPos[r] > pgPos[x] THEN pgPos[r] - 1 ELSE pgPos[r]]
        /\ UNCHANGED <<pgList, pgFirst, pgTotal, pgPull, pgAsk, pgPage, pgCount, pgRaced, pgSeen, pgMore>>
    BY DEF rowLeaves
  <1>2. /\ pgTotal \in Nat /\ pgLeft \in Nat /\ pgLeft <= pgTotal /\ pgFirst \in Nat /\ pgFirst <= pgTotal /\ pgRaced \in Nat
        /\ pgCount \in Int /\ \A r \in 1..pgTotal : pgPos[r] \in Nat
    BY DEF PgInv, PgTypes
  <1>3. ASSUME NEW r \in 1..pgTotal
        PROVE  \/ r = x /\ pgPos'[r] = 0
               \/ r # x /\ pgPos[r] > pgPos[x] /\ pgPos'[r] = pgPos[r] - 1
               \/ r # x /\ pgPos[r] < pgPos[x] /\ pgPos'[r] = pgPos[r]
    <2>1. r # x => pgPos[r] # pgPos[x]
      BY <1>1 DEF PgInv, PgPlaced
    <2>2. QED
      BY <1>1, <1>2, <2>1
  <1>4. PgTypes'
    <2>1. pgPos' \in [1..pgTotal -> Nat]
      BY <1>1, <1>2
    <2>2. pgLeft + 1 <= pgTotal
      BY <1>1, <1>2 DEF PgInv, PgPlaced
    <2>3. QED
      BY <1>1, <2>1, <2>2 DEF PgInv, PgTypes
  <1>5. PgPlaced'
    <2>1. ASSUME NEW r \in 1..pgTotal, NEW s \in 1..pgTotal, pgPos'[r] = pgPos'[s], pgPos'[r] > 0 PROVE r = s
      BY <1>1, <1>2, <1>3, <2>1 DEF PgInv, PgPlaced
    <2>2. ASSUME NEW r \in 1..pgTotal PROVE pgPos'[r] <= pgTotal - (pgLeft + 1)
      BY <1>1, <1>2, <1>3 DEF PgInv, PgPlaced
    <2>3. QED
      BY <1>1, <2>1, <2>2 DEF PgPlaced
  <1>6. PgCounted'
    <2>1. ASSUME pgCount >= 0, NEW r \in 1..pgTotal PROVE pgPos'[r] <= pgCount + pgRaced
      BY <1>1, <1>2, <1>3, <2>1 DEF PgInv, PgCounted
    <2>2. QED
      BY <1>1, <2>1 DEF PgCounted
  <1>7. PgCapped' = PgCapped /\ PgSize' = PgSize
    BY <1>1 DEF PgCapped, PgSize
  <1>8. ASSUME PgCapped PROVE PgReadUp'
    <2>1. PICK z : z = (pgPage - 1) * PgSize
      OBVIOUS
    <2>2. z \in Int
      BY <2>1, PgSizeType DEF PgInv, PgTypes
    <2>3. PICK S : PgReadTo(z, S)
      BY <1>8, <2>1 DEF PgInv, PgReadUp
    <2>4. IsFiniteSet(S) /\ Cardinality(S) <= pgLeft /\ Cardinality(S) \in Nat
      BY <2>3, FS_CardinalityType DEF PgReadTo
    <2>5. PICK y : \A r \in 1..pgTotal : pgPos[r] = z + 1 /\ pgPos[r] > 0 => r = y
      BY DEF PgInv, PgPlaced
    <2>6. IsFiniteSet(S \cup {y}) /\ Cardinality(S \cup {y}) <= pgLeft + 1
      <3>1. IsFiniteSet(S \cup {y}) /\ Cardinality(S \cup {y}) = IF y \in S THEN Cardinality(S) ELSE Cardinality(S) + 1
        BY <2>4, FS_AddElement
      <3>2. QED
        BY <1>2, <2>4, <3>1
    <2>7. ASSUME NEW r \in 1..pgFirst, pgPos'[r] > 0, pgPos'[r] <= z PROVE r \in pgSeen \cup {pgPull} \cup (S \cup {y})
      <3>1. r \in 1..pgTotal /\ pgPos[r] \in Nat
        BY <1>2
      <3>2. pgPos[r] > 0 /\ (pgPos[r] <= z \/ pgPos[r] = z + 1)
        BY <1>1, <1>2, <1>3, <2>2, <2>7, <3>1
      <3>3. QED
        BY <2>3, <2>5, <3>1, <3>2 DEF PgReadTo
    <2>8. PgReadTo(z, S \cup {y})'
      BY <1>1, <2>6, <2>7 DEF PgReadTo
    <2>9. QED
      BY <1>1, <1>7, <2>1, <2>8 DEF PgReadUp
  <1>9. PgEnded'
    BY <1>1 DEF PgEnded
  <1>10. QED
    BY <1>4, <1>5, <1>6, <1>7, <1>8, <1>9 DEF PgInv

LEMMA PgInductive == PgInit /\ [][PgNext]_pgVars => []PgInv
  <1>1. PgInit => PgInv
    <2> SUFFICES ASSUME PgInit PROVE PgInv
      OBVIOUS
    <2>1. PgTypes
      BY PgAssumption DEF PgInit, PgTypes, PgLists
    <2>2. PgCounted /\ PgEnded
      BY DEF PgInit, PgCounted, PgEnded
    <2>3. PgPlaced
      BY <2>1 DEF PgInit, PgPlaced, PgTypes
    <2>4. PgReadUp
      <3>1. (pgPage - 1) * PgSize = 0
        BY <2>1, PgSizeType DEF PgInit
      <3>2. PgReadTo(0, {})
        BY <2>1, FS_EmptySet DEF PgInit, PgReadTo, PgTypes
      <3>3. QED
        BY <3>1, <3>2 DEF PgReadUp
    <2>5. QED
      BY <2>1, <2>2, <2>3, <2>4 DEF PgInv
  <1>2. PgInv /\ [PgNext]_pgVars => PgInv'
    <2> SUFFICES ASSUME PgInv, [PgNext]_pgVars PROVE PgInv'
      OBVIOUS
    <2>1. ASSUME UNCHANGED <<pgList, pgFirst, pgTotal, pgPos, pgLeft, pgPull, pgAsk, pgPage, pgRaced, pgSeen, pgMore>>,
                 pgCount' = pgTotal - pgLeft \/ pgCount' = pgCount
          PROVE  PgInv'
      <3>1. PgTypes' /\ PgPlaced'
        BY <2>1 DEF PgInv, PgTypes, PgPlaced
      <3>2. PgCounted'
        BY <2>1 DEF PgInv, PgTypes, PgPlaced, PgCounted
      <3>3. PgCapped' = PgCapped /\ PgReadUp' = PgReadUp /\ PgEnded' = PgEnded
        BY <2>1 DEF PgCapped, PgReadUp, PgReadTo, PgBehind, PgEnded, PgSize, PgPullLast
      <3>4. QED
        BY <3>1, <3>2, <3>3 DEF PgInv
    <2>2. CASE countRows
      BY <2>1, <2>2 DEF countRows
    <2>3. CASE readPage
      BY <2>3, PgRead
    <2>4. CASE insertRow
      BY <2>4, PgInsert
    <2>5. CASE \E x \in 1..pgTotal : rowLeaves(x)
      BY <2>5, PgLeave
    <2>6. CASE UNCHANGED pgVars
      BY <2>1, <2>6 DEF pgVars
    <2>7. QED
      BY <2>2, <2>3, <2>4, <2>5, <2>6 DEF PgNext
  <1>3. QED
    BY <1>1, <1>2, PTL

LEMMA PgResult == PgInv => PgWalkComplete
  <1> SUFFICES ASSUME PgInv, ~pgMore, PgCapped, PgPullLast
               PROVE  Cardinality({r \in 1..pgFirst : pgPos[r] > 0} \ (pgSeen \cup {pgPull})) <= pgRaced + pgLeft
    BY DEF PgWalkComplete, PgCapped, PgPullLast
  <1>1. PICK missed : missed = {r \in 1..pgFirst : pgPos[r] > 0} \ (pgSeen \cup {pgPull})
    OBVIOUS
  <1>2. pgRaced \in Nat /\ pgFirst \in Nat /\ pgTotal \in Nat /\ pgFirst <= pgTotal /\ pgLeft \in Nat
    BY DEF PgInv, PgTypes
  <1>3. PICK c, S : PgBehind(c, S)
    BY DEF PgInv, PgEnded
  <1>4. PICK rest, spots : rest = missed \ S /\ spots = (c + 1)..(c + pgRaced)
    OBVIOUS
  <1>5. IsFiniteSet(spots) /\ Cardinality(spots) = pgRaced
    <2>1. PICK lo, hi : lo = c + 1 /\ hi = c + pgRaced
      OBVIOUS
    <2>2. lo \in Int /\ hi \in Int /\ c \in Nat
      BY <1>2, <1>3, <2>1 DEF PgBehind
    <2>3. IsFiniteSet(lo..hi) /\ Cardinality(lo..hi) = IF lo > hi THEN 0 ELSE hi - lo + 1
      BY <2>2, FS_Interval
    <2>4. (IF lo > hi THEN 0 ELSE hi - lo + 1) = pgRaced
      BY <1>2, <2>1, <2>2
    <2>5. QED
      BY <1>4, <2>1, <2>3, <2>4
  <1>6. IsFiniteSet(rest) /\ Cardinality(rest) <= pgRaced
    <2>1. PICK f : f = [r \in rest |-> pgPos[r]]
      OBVIOUS
    <2>2. \A r \in rest : r \in 1..pgFirst /\ r \in 1..pgTotal /\ pgPos[r] > 0 /\ pgPos[r] \in spots
      BY <1>1, <1>2, <1>3, <1>4 DEF PgBehind
    <2>3. f \in Injection(rest, spots)
      BY <2>1, <2>2 DEF Injection, IsInjective, PgInv, PgPlaced
    <2>4. QED
      BY <1>5, <2>3, FS_Injection
  <1>7. IsFiniteSet(S) /\ Cardinality(S) <= pgLeft
    BY <1>3 DEF PgBehind
  <1>8. /\ IsFiniteSet(rest \cup S) /\ IsFiniteSet(rest \cap S)
        /\ Cardinality(rest \cup S) = Cardinality(rest) + Cardinality(S) - Cardinality(rest \cap S)
    BY <1>6, <1>7, FS_Union, FS_Intersection
  <1>9. Cardinality(rest) \in Nat /\ Cardinality(S) \in Nat /\ Cardinality(rest \cap S) \in Nat
    BY <1>6, <1>7, <1>8, FS_CardinalityType
  <1>10. missed \subseteq rest \cup S
    BY <1>4
  <1>11. Cardinality(missed) <= Cardinality(rest \cup S) /\ Cardinality(missed) \in Nat
    BY <1>8, <1>10, FS_Subset, FS_CardinalityType
  <1>12. Cardinality(missed) <= pgRaced + pgLeft
    BY <1>2, <1>6, <1>7, <1>8, <1>9, <1>11
  <1>13. QED
    BY <1>1, <1>12

-----------------------------------------------------------------------------
(* The event history table (EventViews). *)

EtListOK(rows) == Len(rows) \in Nat /\ DOMAIN rows = 1..Len(rows)
EtViewOK(view) == /\ view = [loading |-> view.loading, error |-> view.error, dir |-> view.dir,
                             filter |-> view.filter, page |-> view.page]
                  /\ view.page \in Nat \ {0}
\* A reader who came with Next only has seen all rows up to the end of the page.
EtReadOn(rows, view, seen) ==
  LET s == tableRows(rows, view) IN \A k \in 1..Len(s) : k <= view.page * EtPageSize => s[k].pos \in seen
EtInv == /\ EtListOK(etEvents) /\ EtViewOK(etView)
         /\ etWalk => EtReadOn(etEvents, etView, etSeen)

LEMMA EtSizes == EtPageSize \in Nat /\ EtPageSize > 0
  BY EtAssumption

\* The rows of the table are a sequence, whatever the filter and the order.
LEMMA EtTable ==
  ASSUME NEW rows, EtListOK(rows), NEW view
  PROVE  \E X : tableRows(rows, view) \in Seq(X)
  <1>1. PICK kept : kept = filteredRows(rows, view.filter)
    OBVIOUS
  <1>2. PICK c : c = Cardinality(kept)
    OBVIOUS
  <1>3. c \in Nat
    <2>1. IsFiniteSet(1..Len(rows))
      BY FS_Interval DEF EtListOK
    <2>2. kept \subseteq 1..Len(rows)
      BY <1>1 DEF filteredRows, EtListOK
    <2>3. IsFiniteSet(kept)
      BY <2>1, <2>2, FS_Subset
    <2>4. QED
      BY <1>2, <2>3, FS_CardinalityType
  <1>4. PICK s : s = tableRows(rows, view)
    OBVIOUS
  <1>5. DOMAIN s = 1..c /\ s = [n \in 1..c |-> s[n]]
    BY <1>1, <1>2, <1>4 DEF tableRows, sortedRows
  <1>6. PICK X : X = {s[n] : n \in 1..c}
    OBVIOUS
  <1>7. s \in [1..c -> X]
    BY <1>5, <1>6
  <1>8. s \in Seq(X)
    BY <1>3, <1>7
  <1>9. QED
    BY <1>4, <1>8

LEMMA EtPages ==
  ASSUME NEW n \in Nat
  PROVE  /\ totalPages(n) \in Nat /\ totalPages(n) >= 1 /\ n <= totalPages(n) * EtPageSize
         /\ n > 0 => (totalPages(n) - 1) * EtPageSize < n
  <1>1. PICK p, q : p = EtPageSize /\ q = (n + p - 1) \div p
    OBVIOUS
  <1>2. p \in Nat /\ p > 0
    BY <1>1, EtSizes
  <1>3. CASE n = 0
    <2>1. totalPages(n) = 1
      BY <1>3 DEF totalPages
    <2>2. QED
      BY <1>1, <1>2, <1>3, <2>1
  <1>4. CASE n > 0
    <2>1. totalPages(n) = q
      BY <1>1, <1>4 DEF totalPages
    <2>2. q \in Nat /\ q * p <= n + p - 1 /\ n + p - 1 < q * p + p
      BY <1>1, <1>2, <1>4, DivBounds
    <2>3. q # 0
      <3>1. ASSUME q = 0 PROVE FALSE
        <4>1. q * p = 0
          BY <1>2, <3>1
        <4>2. QED
          BY <1>2, <1>4, <2>2, <4>1
      <3>2. QED
        BY <3>1
    <2>4. (q - 1) * p = q * p - p /\ q * p \in Nat
      BY <1>2, <2>2
    <2>5. (q - 1) * p < n /\ n <= q * p
      BY <1>2, <1>4, <2>2, <2>4
    <2>6. QED
      BY <1>1, <2>1, <2>2, <2>3, <2>5
  <1>5. QED
    BY <1>3, <1>4

\* What the page on the screen has.
LEMMA EtShown ==
  ASSUME NEW rows, EtListOK(rows), NEW view, view.page \in Nat \ {0},
         NEW s, s = tableRows(rows, view), NEW at, at = safePage(view.page, Len(s))
  PROVE  /\ Len(s) \in Nat /\ DOMAIN s = 1..Len(s) /\ at \in Nat /\ at >= 1 /\ at <= totalPages(Len(s)) /\ at <= view.page
         /\ \A k \in 1..Len(s) : ((at - 1) * EtPageSize < k /\ k <= at * EtPageSize) => s[k].pos \in shownIn(rows, view)
         /\ s # <<>> => pageItemsOf(rows, view) # <<>>
  <1>1. PICK X : s \in Seq(X)
    BY EtTable
  <1>2. PICK n, p, t : n = Len(s) /\ p = EtPageSize /\ t = totalPages(n)
    OBVIOUS
  <1>3. n \in Nat /\ DOMAIN s = 1..n /\ p \in Nat /\ p > 0
    BY <1>1, <1>2, EtSizes
  <1>4. t \in Nat /\ t >= 1 /\ (n > 0 => (t - 1) * p < n)
    BY <1>2, <1>3, EtPages
  <1>5. at \in Nat /\ at >= 1 /\ at <= t /\ at <= view.page
    BY <1>2, <1>4 DEF safePage, EtMin
  <1>6. PICK lo, hi : lo = (at - 1) * p + 1 /\ hi = EtMin(at * p, n)
    OBVIOUS
  <1>7. (at - 1) * p \in Nat /\ at * p = (at - 1) * p + p /\ (at - 1) * p <= (t - 1) * p
    BY <1>3, <1>4, <1>5
  <1>8. lo \in Nat /\ lo >= 1 /\ hi \in Nat /\ hi <= n /\ (n > 0 => lo <= hi)
    BY <1>3, <1>4, <1>6, <1>7 DEF EtMin
  <1>9. PICK items : items = pageItemsOf(rows, view)
    OBVIOUS
  <1>10. items = SubSeq(s, lo, hi)
    BY <1>2, <1>6, <1>9 DEF pageItemsOf, sliceOf
  <1>11. lo <= hi => Len(items) = hi - lo + 1 /\ DOMAIN items = 1..(hi - lo + 1)
                     /\ \A i \in 1..(hi - lo + 1) : items[i] = s[lo + i - 1]
    BY <1>1, <1>2, <1>3, <1>8, <1>10
  <1>12. s # <<>> => items # <<>>
    <2>1. ASSUME s # <<>> PROVE items # <<>>
      <3>1. n > 0
        BY <1>1, <1>2, <2>1
      <3>2. Len(items) = hi - lo + 1 /\ hi - lo + 1 > 0
        BY <1>8, <1>11, <3>1
      <3>3. QED
        BY <3>2
    <2>2. QED
      BY <2>1
  <1>13. ASSUME NEW k \in 1..n, (at - 1) * p < k, k <= at * p PROVE s[k].pos \in shownIn(rows, view)
    <2>1. lo <= k /\ k <= hi /\ k \in Int
      BY <1>3, <1>6, <1>7, <1>13 DEF EtMin
    <2>2. PICK i : i = k - lo + 1
      OBVIOUS
    <2>3. i \in 1..(hi - lo + 1) /\ lo + i - 1 = k /\ lo <= hi
      BY <1>8, <2>1, <2>2
    <2>4. items[i] = s[k] /\ i \in DOMAIN items
      BY <1>11, <2>3
    <2>5. QED
      BY <1>9, <2>4 DEF shownIn
  <1>14. QED
    BY <1>2, <1>3, <1>5, <1>9, <1>12, <1>13


\* A list shown anew, or its next page.
LEMMA EtShow ==
  ASSUME NEW rows, EtListOK(rows), NEW view, EtViewOK(view), NEW following,
         following => EtReadOn(rows, view, etSeen \cup shownIn(rows, view)) \/ ~etWalk,
         Show(rows, view, following)
  PROVE  EtInv'
  <1>1. etEvents' = rows /\ etView' = view
    BY DEF Show
  <1>2. ASSUME etWalk' PROVE EtReadOn(rows, view, etSeen')
    <2>1. CASE following
      BY <1>2, <2>1 DEF Show
    <2>2. CASE ~following
      <3>1. view.page = 1 /\ etSeen' = shownIn(rows, view)
        BY <1>2, <2>2 DEF Show
      <3>2. PICK s, at : s = tableRows(rows, view) /\ at = safePage(view.page, Len(s))
        OBVIOUS
      <3>3. /\ at \in Nat /\ at >= 1 /\ at <= 1 /\ Len(s) \in Nat
            /\ \A k \in 1..Len(s) : ((at - 1) * EtPageSize < k /\ k <= at * EtPageSize) => s[k].pos \in shownIn(rows, view)
        BY <3>1, <3>2, EtShown
      <3>4. at = 1 /\ (at - 1) * EtPageSize = 0
        BY <3>3, EtSizes
      <3>5. \A k \in 1..Len(s) : k <= view.page * EtPageSize => s[k].pos \in shownIn(rows, view)
        BY <3>1, <3>3, <3>4, EtSizes
      <3>6. QED
        BY <3>1, <3>2, <3>5 DEF EtReadOn
    <2>3. QED
      BY <2>1, <2>2
  <1>3. QED
    BY <1>1, <1>2 DEF EtInv

\* Changing a part of the view leaves a view.
EtSays(view, dir, filter, page) == view.dir = dir /\ view.filter = filter /\ view.page = page

LEMMA EtEdits ==
  ASSUME NEW view, EtViewOK(view), NEW a, NEW b, NEW p \in Nat \ {0}
  PROVE  /\ EtViewOK([view EXCEPT !.loading = a, !.error = b])
         /\ EtViewOK([view EXCEPT !.dir = a, !.page = p])
         /\ EtViewOK([view EXCEPT !.filter = a, !.page = p])
         /\ EtViewOK([view EXCEPT !.page = p])
         /\ EtSays([view EXCEPT !.loading = a, !.error = b], view.dir, view.filter, view.page)
         /\ EtSays([view EXCEPT !.dir = a, !.page = p], a, view.filter, p)
         /\ EtSays([view EXCEPT !.filter = a, !.page = p], view.dir, a, p)
         /\ EtSays([view EXCEPT !.page = p], view.dir, view.filter, p)
  <1>1. PICK l, e, d, f, q : /\ view = [loading |-> l, error |-> e, dir |-> d, filter |-> f, page |-> q]
                             /\ q \in Nat \ {0}
    BY DEF EtViewOK
  <1>2. \A l1, e1, d1, f1 : \A q1 \in Nat \ {0} :
          EtViewOK([loading |-> l1, error |-> e1, dir |-> d1, filter |-> f1, page |-> q1])
    BY DEF EtViewOK
  <1>3. PICK v1, v2, v3, v4 : /\ v1 = [view EXCEPT !.loading = a, !.error = b]
                             /\ v2 = [view EXCEPT !.dir = a, !.page = p]
                             /\ v3 = [view EXCEPT !.filter = a, !.page = p]
                             /\ v4 = [view EXCEPT !.page = p]
    OBVIOUS
  <1>4. v1 = [loading |-> a, error |-> b, dir |-> d, filter |-> f, page |-> q]
    BY <1>1, <1>3, Zenon
  <1>5. v2 = [loading |-> l, error |-> e, dir |-> a, filter |-> f, page |-> p]
    BY <1>1, <1>3, Zenon
  <1>6. v3 = [loading |-> l, error |-> e, dir |-> d, filter |-> a, page |-> p]
    BY <1>1, <1>3, Zenon
  <1>7. v4 = [loading |-> l, error |-> e, dir |-> d, filter |-> f, page |-> p]
    BY <1>1, <1>3, Zenon
  <1>8. EtViewOK(v1) /\ EtViewOK(v2) /\ EtViewOK(v3) /\ EtViewOK(v4)
    BY <1>1, <1>2, <1>4, <1>5, <1>6, <1>7
  <1>9. /\ EtSays(v1, view.dir, view.filter, view.page) /\ EtSays(v2, a, view.filter, p)
        /\ EtSays(v3, view.dir, a, p) /\ EtSays(v4, view.dir, view.filter, p)
    BY <1>1, <1>4, <1>5, <1>6, <1>7 DEF EtSays
  <1>10. QED
    BY <1>3, <1>8, <1>9, Zenon

LEMMA EtFetch == ASSUME EtInv, NEW who, fetchEventRows(who) PROVE EtInv'
  <1>1. PICK a, b : a = TRUE /\ b = FALSE
    OBVIOUS
  <1>2. PICK view : view = [etView EXCEPT !.loading = a, !.error = b]
    OBVIOUS
  <1>3. EtViewOK(view)
    <2>1. 1 \in Nat \ {0}
      OBVIOUS
    <2>2. QED
      BY <1>2, <2>1, EtEdits DEF EtInv
  <1>4. Show(etEvents, view, FALSE)
    BY <1>1, <1>2 DEF fetchEventRows
  <1>5. QED
    BY <1>3, <1>4, EtShow DEF EtInv

LEMMA EtAnswered == ASSUME EtInv, NEW who \in DOMAIN EtLog, NEW ok \in BOOLEAN, eventsAnswered(who, ok) PROVE EtInv'
  <1>1. PICK a, b : a = FALSE /\ b = (etView.error \/ ~ok)
    OBVIOUS
  <1>2. PICK view, rows : view = [etView EXCEPT !.loading = a, !.error = b] /\ rows = IF ok THEN apiRows(who) ELSE etEvents
    OBVIOUS
  <1>3. EtViewOK(view)
    <2>1. 1 \in Nat \ {0}
      OBVIOUS
    <2>2. QED
      BY <1>2, <2>1, EtEdits DEF EtInv
  <1>4. Show(rows, view, FALSE)
    BY <1>1, <1>2 DEF eventsAnswered
  <1>5. EtListOK(rows)
    <2>1. PICK m : m = EtMin(EtLog[who], EtServerCap)
      OBVIOUS
    <2>2. m \in Nat
      BY <2>1, EtAssumption DEF EtMin
    <2>3. PICK api : api = apiRows(who)
      OBVIOUS
    <2>4. api = [k \in 1..m |-> [type |-> "undefined", ts |-> 0, pos |-> k]]
      BY <2>1, <2>3 DEF apiRows
    <2>5. PICK X : X = {[type |-> "undefined", ts |-> 0, pos |-> k] : k \in 1..m}
      OBVIOUS
    <2>6. api \in [1..m -> X]
      BY <2>4, <2>5
    <2>7. Len(api) = m /\ DOMAIN api = 1..m
      BY <2>2, <2>6
    <2>8. QED
      BY <1>2, <2>2, <2>3, <2>7 DEF EtInv, EtListOK
  <1>6. QED
    BY <1>3, <1>4, <1>5, EtShow DEF EtInv

LEMMA EtSort == ASSUME EtInv, toggleSort PROVE EtInv'
  <1>1. PICK d, view : d = (IF etView.dir = "desc" THEN "asc" ELSE "desc") /\ view = [etView EXCEPT !.dir = d, !.page = 1]
    OBVIOUS
  <1>2. 1 \in Nat \ {0}
    OBVIOUS
  <1>3. EtViewOK(view)
    BY <1>1, <1>2, EtEdits DEF EtInv
  <1>4. Show(etEvents, view, FALSE)
    BY <1>1 DEF toggleSort
  <1>5. QED
    BY <1>3, <1>4, EtShow DEF EtInv

LEMMA EtFilter == ASSUME EtInv, NEW filter, handleFilterChange(filter) PROVE EtInv'
  <1>1. PICK view : view = [etView EXCEPT !.filter = filter, !.page = 1]
    OBVIOUS
  <1>2. 1 \in Nat \ {0}
    OBVIOUS
  <1>3. EtViewOK(view)
    BY <1>1, <1>2, EtEdits DEF EtInv
  <1>4. Show(etEvents, view, FALSE)
    BY <1>1 DEF handleFilterChange
  <1>5. QED
    BY <1>3, <1>4, EtShow DEF EtInv

LEMMA EtTurn == ASSUME EtInv, turnPage PROVE EtInv'
  <1>1. PICK s, n, at, t : s = tableRows(etEvents, etView) /\ n = Len(s) /\ at = safePage(etView.page, n) /\ t = totalPages(n)
    OBVIOUS
  <1>2. etView.page \in Nat \ {0} /\ EtViewOK(etView) /\ EtListOK(etEvents)
    BY DEF EtInv, EtViewOK
  <1>3. n \in Nat /\ at \in Nat /\ at >= 1 /\ at <= t /\ at <= etView.page
    BY <1>1, <1>2, EtShown
  <1>4. t \in Nat /\ t >= 1
    BY <1>1, <1>3, EtPages
  <1>5. \/ at # 1 /\ (Show(etEvents, [etView EXCEPT !.page = 1], FALSE) \/ Show(etEvents, [etView EXCEPT !.page = at - 1], FALSE))
        \/ at # t /\ Show(etEvents, [etView EXCEPT !.page = at + 1], at = etView.page)
        \/ at # t /\ Show(etEvents, [etView EXCEPT !.page = t], FALSE)
    BY <1>1 DEF turnPage, nextPageEnabled
  <1>6. ASSUME NEW p \in Nat \ {0}, Show(etEvents, [etView EXCEPT !.page = p], FALSE) PROVE EtInv'
    <2>1. PICK view : view = [etView EXCEPT !.page = p]
      OBVIOUS
    <2>2. EtViewOK(view)
      BY <1>2, <2>1, EtEdits
    <2>3. Show(etEvents, view, FALSE)
      BY <1>6, <2>1
    <2>4. QED
      BY <1>2, <2>2, <2>3, EtShow
  <1>7. ASSUME at # t, Show(etEvents, [etView EXCEPT !.page = at + 1], at = etView.page) PROVE EtInv'
    <2>1. PICK q : q = at + 1
      OBVIOUS
    <2>2. PICK view, rows : view = [etView EXCEPT !.page = q] /\ rows = etEvents
      OBVIOUS
    <2>3. q \in Nat \ {0} /\ q <= t
      BY <1>3, <1>4, <1>7, <2>1
    <2>4. EtViewOK(view) /\ view.page = q /\ view.filter = etView.filter /\ view.dir = etView.dir
      BY <1>2, <2>2, <2>3, EtEdits DEF EtSays
    <2>5. tableRows(rows, view) = s
      BY <1>1, <2>2, <2>4 DEF tableRows
    <2>6. safePage(view.page, Len(s)) = q
      BY <1>1, <1>4, <2>3, <2>4 DEF safePage, EtMin
    <2>7. \A k \in 1..n : ((q - 1) * EtPageSize < k /\ k <= q * EtPageSize) => s[k].pos \in shownIn(rows, view)
      BY <1>1, <1>2, <2>2, <2>3, <2>4, <2>5, <2>6, EtShown
    <2>8. PICK following, seen : following = (at = etView.page) /\ seen = etSeen \cup shownIn(rows, view)
      OBVIOUS
    <2>9. ASSUME at = etView.page, etWalk PROVE EtReadOn(rows, view, seen)
      <3>1. \A k \in 1..n : k <= etView.page * EtPageSize => s[k].pos \in etSeen
        BY <1>1, <2>9 DEF EtInv, EtReadOn
      <3>2. q - 1 = etView.page
        BY <1>2, <1>3, <2>1, <2>8, <2>9
      <3>3. ASSUME NEW k \in 1..n, k <= q * EtPageSize PROVE s[k].pos \in seen
        <4>1. PICK z : z = (q - 1) * EtPageSize
          OBVIOUS
        <4>2. z \in Int /\ k \in Int
          BY <2>3, <4>1, EtSizes
        <4>3. CASE k <= z
          BY <2>8, <3>1, <3>2, <4>1, <4>3
        <4>4. CASE z < k
          BY <2>7, <2>8, <3>3, <4>1, <4>4
        <4>5. QED
          BY <4>2, <4>3, <4>4
      <3>4. QED
        BY <1>1, <2>4, <2>5, <3>3 DEF EtReadOn
    <2>10. Show(rows, view, following)
      BY <1>7, <2>1, <2>2, <2>8
    <2>11. EtListOK(rows)
      BY <1>2, <2>2
    <2>12. following => EtReadOn(rows, view, etSeen \cup shownIn(rows, view)) \/ ~etWalk
      BY <2>8, <2>9
    <2>13. QED
      BY <2>4, <2>10, <2>11, <2>12, EtShow
  <1>8. at # 1 => at - 1 \in Nat \ {0}
    BY <1>3
  <1>9. 1 \in Nat \ {0} /\ t \in Nat \ {0}
    BY <1>4
  <1>10. QED
    BY <1>5, <1>6, <1>7, <1>8, <1>9

LEMMA EtInductive == EtInit /\ [][EtNext]_etVars => []EtInv
  <1>1. EtInit => EtInv
    <2> SUFFICES ASSUME EtInit PROVE EtInv
      OBVIOUS
    <2>1. EtListOK(etEvents)
      <3>1. Len(<<>>) = 0 /\ DOMAIN <<>> = 1..0
        OBVIOUS
      <3>2. etEvents \in EtLists \/ etEvents = <<>>
        BY DEF EtInit
      <3>3. QED
        BY <3>1, <3>2, EtAssumption DEF EtListOK
    <2>2. PICK a : a = ~etInjected
      OBVIOUS
    <2>3. etView = [loading |-> a, error |-> FALSE, dir |-> "desc", filter |-> "all", page |-> 1]
      BY <2>2 DEF EtInit, EtFirst
    <2>4. etView.page = 1 /\ EtViewOK(etView)
      BY <2>3 DEF EtViewOK
    <2>5. EtReadOn(etEvents, etView, etSeen)
      <3>1. PICK s, at : s = tableRows(etEvents, etView) /\ at = safePage(etView.page, Len(s))
        OBVIOUS
      <3>2. /\ at \in Nat /\ at >= 1 /\ at <= 1 /\ Len(s) \in Nat
            /\ \A k \in 1..Len(s) : ((at - 1) * EtPageSize < k /\ k <= at * EtPageSize) => s[k].pos \in shownIn(etEvents, etView)
        BY <2>1, <2>4, <3>1, EtShown
      <3>3. at = 1 /\ (at - 1) * EtPageSize = 0
        BY <3>2, EtSizes
      <3>4. \A k \in 1..Len(s) : k <= etView.page * EtPageSize => s[k].pos \in shownIn(etEvents, etView)
        BY <2>4, <3>2, <3>3, EtSizes
      <3>5. etSeen = shownIn(etEvents, etView)
        BY DEF EtInit
      <3>6. QED
        BY <3>1, <3>4, <3>5 DEF EtReadOn
    <2>6. QED
      BY <2>1, <2>4, <2>5 DEF EtInv
  <1>2. EtInv /\ [EtNext]_etVars => EtInv'
    <2> SUFFICES ASSUME EtInv, [EtNext]_etVars PROVE EtInv'
      OBVIOUS
    <2>1. CASE \E rows \in EtLists : setPropEvents(rows)
      <3>1. PICK rows \in EtLists : Show(rows, etView, FALSE)
        BY <2>1 DEF setPropEvents
      <3>2. EtListOK(rows)
        BY EtAssumption DEF EtListOK
      <3>3. QED
        BY <3>1, <3>2, EtShow DEF EtInv
    <2>2. CASE \E who \in DOMAIN EtLog : setContributor(who)
      BY <2>2, EtFetch DEF setContributor
    <2>3. CASE \E who \in DOMAIN EtLog, ok \in BOOLEAN : eventsAnswered(who, ok)
      BY <2>3, EtAnswered
    <2>4. CASE retryEvents
      BY <2>4, EtFetch DEF retryEvents
    <2>5. CASE toggleSort
      BY <2>5, EtSort
    <2>6. CASE turnPage
      BY <2>6, EtTurn
    <2>7. CASE \E filter \in EtFilters : handleFilterChange(filter)
      BY <2>7, EtFilter
    <2>8. CASE UNCHANGED etVars
      BY <2>8 DEF etVars, EtInv
    <2>9. QED
      BY <2>1, <2>2, <2>3, <2>4, <2>5, <2>6, <2>7, <2>8 DEF EtNext
  <1>3. QED
    BY <1>1, <1>2, PTL

LEMMA EtResult == EtInv => EtNeverBlank /\ EtWalkComplete
  <1> SUFFICES ASSUME EtInv PROVE EtNeverBlank /\ EtWalkComplete
    OBVIOUS
  <1>1. PICK s, n, at, t : s = tableRows(etEvents, etView) /\ n = Len(s) /\ at = safePage(etView.page, n) /\ t = totalPages(n)
    OBVIOUS
  <1>2. etView.page \in Nat \ {0} /\ EtListOK(etEvents)
    BY DEF EtInv, EtViewOK
  <1>3. n \in Nat /\ DOMAIN s = 1..n /\ (s # <<>> => pageItemsOf(etEvents, etView) # <<>>)
    BY <1>1, <1>2, EtShown
  <1>4. EtNeverBlank
    BY <1>1, <1>3 DEF EtNeverBlank
  <1>5. ASSUME etWalk, etView.page >= t, NEW k \in DOMAIN s PROVE s[k].pos \in etSeen
    <2>1. t \in Nat /\ n <= t * EtPageSize
      BY <1>1, <1>3, EtPages
    <2>2. t * EtPageSize <= etView.page * EtPageSize /\ t * EtPageSize \in Int /\ etView.page * EtPageSize \in Int
      <3>1. PICK p, x : p = EtPageSize /\ x = etView.page
        OBVIOUS
      <3>2. p \in Nat /\ x \in Nat /\ t <= x
        BY <1>2, <1>5, <2>1, <3>1, EtSizes
      <3>3. t * p <= x * p /\ t * p \in Int /\ x * p \in Int
        BY <2>1, <3>2
      <3>4. QED
        BY <3>1, <3>3
    <2>3. k \in 1..n /\ k <= etView.page * EtPageSize
      BY <1>3, <2>1, <2>2
    <2>4. QED
      BY <1>1, <1>5, <2>3 DEF EtInv, EtReadOn
  <1>6. EtWalkComplete
    BY <1>1, <1>5 DEF EtWalkComplete
  <1>7. QED
    BY <1>4, <1>6

-----------------------------------------------------------------------------
(* The activity feed (EventViews). *)

\* Unless requests overlapped, at most one is under way, for the filter chosen, and
\* the list is empty until an answer came.
AfInv == /\ afFilter \in DOMAIN AfCount /\ afOverlap \in BOOLEAN /\ afMore \in BOOLEAN /\ afError \in BOOLEAN
         /\ ~afOverlap => /\ \A l, m \in afLoads : l = m
                          /\ \A l \in afLoads : l.filter = afFilter /\ afMore
                          /\ IF afMore THEN afEvents = <<>> /\ (afLoads # {} \/ afError)
                             ELSE afEvents = feedPage(afFilter, 0)

LEMMA AfPage == ASSUME NEW filter \in DOMAIN AfCount, NEW offset
                PROVE  <<>> \o feedPage(filter, offset) = feedPage(filter, 0)
  <1>1. PICK m, s : m = (IF AfCount[filter] < AfPageSize THEN AfCount[filter] ELSE AfPageSize) /\ s = feedPage(filter, 0)
    OBVIOUS
  <1>2. m \in Nat /\ s = [k \in 1..m |-> <<filter, k>>] /\ feedPage(filter, offset) = s
    BY <1>1, AfAssumption DEF feedPage
  <1>3. PICK X : X = {<<filter, k>> : k \in 1..m}
    OBVIOUS
  <1>4. s \in [1..m -> X]
    BY <1>2, <1>3
  <1>5. s \in Seq(X)
    BY <1>2, <1>4
  <1>6. <<>> \o s = s
    BY <1>5, ConcatEmptySeq
  <1>7. QED
    BY <1>1, <1>2, <1>6

LEMMA AfRequest ==
  ASSUME NEW filter, NEW offset, NEW reset, feedRequest(filter, offset, reset)
  PROVE  \E l : l.filter = filter /\ afLoads' = afLoads \cup {l} /\ afError' = FALSE
  BY DEF feedRequest

LEMMA AfInductive == AfInit /\ [][AfNext]_afVars => []AfInv
  <1>1. AfInit => AfInv
    <2> SUFFICES ASSUME AfInit PROVE AfInv
      OBVIOUS
    <2>1. PICK l : l = [n |-> 1, filter |-> afFilter, offset |-> 0, reset |-> TRUE]
      OBVIOUS
    <2>2. afLoads = {l}
      BY <2>1 DEF AfInit
    <2>3. l.filter = afFilter
      BY <2>1
    <2>4. QED
      BY <2>2, <2>3 DEF AfInit, AfInv
  <1>2. AfInv /\ [AfNext]_afVars => AfInv'
    <2> SUFFICES ASSUME AfInv, [AfNext]_afVars PROVE AfInv'
      OBVIOUS
    <2>1. ASSUME NEW filter \in DOMAIN AfCount, startFeed(filter) PROVE AfInv'
      <3>1. PICK l : l.filter = filter /\ afLoads' = afLoads \cup {l} /\ afError' = FALSE
        BY <2>1, AfRequest DEF startFeed
      <3>2. afFilter' = filter /\ afEvents' = <<>> /\ afMore' = TRUE /\ afOverlap' = (afLoads # {})
        BY <2>1 DEF startFeed
      <3>3. QED
        BY <3>1, <3>2 DEF AfInv
    <2>2. CASE feedScroll
      <3>1. PICK l : l.filter = afFilter /\ afLoads' = afLoads \cup {l} /\ afError' = FALSE
        BY <2>2, AfRequest DEF feedScroll
      <3>2. afMore /\ afOverlap' = (afOverlap \/ afLoads # {}) /\ UNCHANGED <<afFilter, afEvents, afMore>>
        BY <2>2 DEF feedScroll
      <3>3. QED
        BY <3>1, <3>2 DEF AfInv
    <2>3. ASSUME NEW l \in afLoads, feedAnswered(l) PROVE AfInv'
      <3>1. afLoads' = afLoads \ {l} /\ UNCHANGED <<afFilter, afOverlap>>
        BY <2>3 DEF feedAnswered
      <3>2. CASE /\ afEvents' = (IF l.reset THEN <<>> ELSE afEvents) \o feedPage(l.filter, l.offset)
                 /\ afMore' = FALSE /\ UNCHANGED afError
        <4>1. ASSUME ~afOverlap PROVE afLoads' = {} /\ afEvents' = feedPage(afFilter, 0)
          <5>1. l.filter = afFilter /\ afEvents = <<>> /\ afFilter \in DOMAIN AfCount
            BY <4>1 DEF AfInv
          <5>2. afEvents' = <<>> \o feedPage(afFilter, l.offset)
            BY <3>2, <5>1
          <5>3. afLoads' = {}
            BY <3>1, <4>1 DEF AfInv
          <5>4. QED
            BY <5>1, <5>2, <5>3, AfPage
        <4>2. QED
          BY <3>1, <3>2, <4>1 DEF AfInv
      <3>3. CASE afError' = TRUE /\ UNCHANGED <<afEvents, afMore>>
        BY <3>1, <3>3 DEF AfInv
      <3>4. QED
        BY <2>3, <3>2, <3>3 DEF feedAnswered, moreRead
    <2>4. CASE UNCHANGED afVars
      BY <2>4 DEF afVars, AfInv
    <2>5. QED
      <3>1. CASE \E filter \in DOMAIN AfCount : setFeedFilter(filter)
        BY <2>1, <3>1 DEF setFeedFilter
      <3>2. CASE retryFeed
        <4>1. afFilter \in DOMAIN AfCount
          BY DEF AfInv
        <4>2. QED
          BY <2>1, <3>2, <4>1 DEF retryFeed
      <3>3. QED
        BY <2>2, <2>3, <2>4, <3>1, <3>2 DEF AfNext
  <1>3. QED
    BY <1>1, <1>2, PTL

LEMMA AfResult == AfInv => AfFirstPageOnce
  BY DEF AfInv, AfFirstPageOnce

-----------------------------------------------------------------------------
(* The TTL job (TtlJob). *)

\* Batch k of a list holds what lies between its two bounds, the batches end where
\* the list ends, and none of them is empty.
LEMMA ChunkIs ==
  ASSUME NEW s \in Seq(TtlApps)
  PROVE  \E n \in Nat :
           /\ chunk(s) \in Seq(Seq(TtlApps)) /\ Len(chunk(s)) = n /\ Len(s) <= n * TtlBatchSize
           /\ \A k \in 0..n : k < n =>
                /\ k * TtlBatchSize < Len(s)
                /\ Len(chunk(s)[k + 1]) = batchEnd(s, k + 1) - k * TtlBatchSize
                /\ Range(chunk(s)[k + 1]) = {s[j] : j \in (k * TtlBatchSize + 1)..batchEnd(s, k + 1)}
  <1>1. PICK n, m, b : n = (Len(s) + TtlBatchSize - 1) \div TtlBatchSize /\ m = Len(s) /\ b = TtlBatchSize
    OBVIOUS
  <1>2. m \in Nat /\ b \in Nat \ {0} /\ m + b - 1 \in Nat
    BY <1>1, TtlAssumption
  <1>3. n \in Nat /\ n * b <= m + b - 1 /\ m + b - 1 < n * b + b
    BY <1>1, <1>2, DivBounds
  <1>4. n * b \in Nat /\ m <= n * b
    BY <1>2, <1>3
  <1>5. PICK c : c = chunk(s)
    OBVIOUS
  <1>6. c = [i \in 1..n |-> SubSeq(s, (i - 1) * b + 1, batchEnd(s, i))]
    BY <1>1, <1>5 DEF chunk
  <1>7. ASSUME NEW i \in 1..n
        PROVE  /\ (i - 1) * b \in Nat /\ (i - 1) * b < m /\ batchEnd(s, i) \in (i - 1) * b + 1..m
    <2>1. i - 1 \in Nat /\ i - 1 < n /\ (i - 1) + 1 = i
      BY <1>3
    <2>2. (i - 1) * b \in Nat /\ ((i - 1) + 1) * b = (i - 1) * b + b /\ (i - 1) * b + b <= n * b
      BY <1>2, <1>3, <2>1, TimesGrows
    <2>3. PICK p, q : p = (i - 1) * b /\ q = n * b
      OBVIOUS
    <2>4. p \in Nat /\ q \in Nat /\ p + b <= q /\ q <= m + b - 1 /\ i * b = p + b
      BY <1>3, <1>4, <2>1, <2>2, <2>3
    <2>5. p < m
      BY <1>2, <2>4
    <2>6. batchEnd(s, i) = IF p + b < m THEN p + b ELSE m
      BY <1>1, <2>4 DEF batchEnd
    <2>7. QED
      BY <1>2, <2>3, <2>4, <2>5, <2>6
  <1>8. ASSUME NEW i \in 1..n
        PROVE  /\ c[i] \in Seq(TtlApps)
               /\ Len(c[i]) = batchEnd(s, i) - (i - 1) * b
               /\ Range(c[i]) = {s[j] : j \in ((i - 1) * b + 1)..batchEnd(s, i)}
    <2>1. PICK p, e, r : p = (i - 1) * b /\ e = batchEnd(s, i) /\ r = c[i]
      OBVIOUS
    <2>2. p \in Nat /\ e \in p + 1..m
      BY <1>7, <2>1
    <2>3. r = SubSeq(s, p + 1, e)
      BY <1>6, <2>1
    <2>4. /\ r \in Seq(TtlApps) /\ Len(r) = e - p /\ DOMAIN r = 1..(e - p)
          /\ \A j \in 1..(e - p) : r[j] = s[p + j]
      <3>1. DOMAIN s = 1..m /\ \A j \in 1..m : s[j] \in TtlApps
        BY <1>1
      <3>2. \A j \in 1..(e - p) : p + j \in 1..m
        BY <1>2, <2>2
      <3>3. r = [j \in 1..(e - p) |-> s[p + j]]
        BY <1>2, <2>2, <2>3
      <3>4. e - p \in Nat
        BY <1>2, <2>2
      <3>5. \A j \in 1..(e - p) : r[j] \in TtlApps
        BY <3>1, <3>2, <3>3
      <3>6. QED
        BY <3>3, <3>4, <3>5
    <2>5. Range(r) = {s[j] : j \in (p + 1)..e}
      <3>1. Range(r) = {s[p + j] : j \in 1..(e - p)}
        BY <2>4 DEF Range
      <3>2. \A j \in 1..(e - p) : p + j \in (p + 1)..e
        BY <1>2, <2>2
      <3>3. \A j \in (p + 1)..e : j - p \in 1..(e - p) /\ p + (j - p) = j
        BY <1>2, <2>2
      <3>4. QED
        BY <3>1, <3>2, <3>3
    <2>6. QED
      BY <2>1, <2>4, <2>5
  <1>9. c \in Seq(Seq(TtlApps)) /\ Len(c) = n
    BY <1>3, <1>6, <1>8
  <1>10. ASSUME NEW k \in 0..n, k < n
         PROVE  /\ k * b < m
                /\ Len(c[k + 1]) = batchEnd(s, k + 1) - k * b
                /\ Range(c[k + 1]) = {s[j] : j \in (k * b + 1)..batchEnd(s, k + 1)}
    <2>1. k + 1 \in 1..n /\ (k + 1) - 1 = k
      BY <1>3, <1>10
    <2>2. QED
      BY <1>7, <1>8, <2>1
  <1>11. QED
    BY <1>1, <1>3, <1>4, <1>5, <1>9, <1>10

\* Every application is in the list that is loaded, and in no other place twice.
LEMMA OrdersAre ==
  ASSUME NEW s \in SetToSeqs(TtlApps)
  PROVE  s \in Seq(TtlApps) /\ {s[j] : j \in 1..Len(s)} = TtlApps
  <1>1. PICK n : n = Cardinality(TtlApps)
    OBVIOUS
  <1>2. n \in Nat /\ IsFiniteSet(TtlApps)
    BY <1>1, TtlAssumption, FS_CardinalityType
  <1>3. s \in [1..n -> TtlApps] /\ \A i, j \in 1..n : i # j => s[i] # s[j]
    BY <1>1 DEF SetToSeqs
  <1>4. s \in Injection(1..n, TtlApps)
    BY <1>3 DEF Injection, IsInjective
  <1>5. IsFiniteSet(1..n) /\ Cardinality(1..n) = n
    BY <1>2, FS_Interval
  <1>6. s \in Surjection(1..n, TtlApps)
    BY <1>1, <1>2, <1>4, <1>5, FS_Injection
  <1>7. \A a \in TtlApps : \E j \in 1..n : s[j] = a
    BY <1>6 DEF Surjection
  <1>8. s \in Seq(TtlApps) /\ Len(s) = n
    BY <1>2, <1>3
  <1>9. QED
    BY <1>3, <1>7, <1>8

TtlJobs == [pc : {"idle", "load", "batches"}, left : Seq(Seq(TtlApps)), loaded : Nat, extended : Nat, failed : Nat]

TtlTypes == /\ ttlChain \in [TtlApps -> 0..TtlLife] /\ ttlRow \in [TtlApps -> 0..TtlLife]
            /\ ttlJob \in TtlJobs /\ ttlMisses \in [TtlApps -> 0..(TtlMaxMisses + 1)]

\* Ticks an application has lost are failures in a row, and one more while the run
\* owes it a call.
TtlSafe(owed) == \A a \in TtlApps \ TtlGone :
                   ttlMisses[a] <= TtlMaxMisses =>
                     ttlChain[a] + ttlMisses[a] + (IF a \in owed THEN 1 ELSE 0) >= TtlLife

\* k batches of the list s are done: their applications are counted, the others
\* owed.
TtlAfter(s, k) == {s[j] : j \in (k * TtlBatchSize + 1)..Len(s)}
TtlDone(s, k) == IF k * TtlBatchSize < Len(s) THEN k * TtlBatchSize ELSE Len(s)

TtlWalk(s, k) ==
  /\ s \in Seq(TtlApps) /\ k \in 0..Len(chunk(s))
  /\ ttlJob.loaded = Len(s) /\ ttlJob.extended + ttlJob.failed = TtlDone(s, k)
  /\ Len(ttlJob.left) = Len(chunk(s)) - k
  /\ \A i \in 1..(Len(chunk(s)) - k) : ttlJob.left[i] = chunk(s)[k + i]

TtlRun == \/ ttlJob.pc = "load" /\ ttlJob.extended + ttlJob.failed = ttlJob.loaded /\ TtlSafe(TtlApps)
          \/ ttlJob.pc = "idle" /\ ttlJob.extended + ttlJob.failed = ttlJob.loaded /\ TtlSafe({})
          \/ ttlJob.pc = "batches" /\ \E s, k : TtlWalk(s, k) /\ TtlSafe(TtlAfter(s, k))

TtlInv == TtlTypes /\ TtlRun

LEMMA TtlIdleIs ==
  /\ TtlIdle \in TtlJobs /\ TtlIdle.pc = "idle" /\ TtlIdle.extended + TtlIdle.failed = TtlIdle.loaded
  /\ [TtlIdle EXCEPT !.pc = "load"] \in TtlJobs /\ [TtlIdle EXCEPT !.pc = "load"].pc = "load"
  /\ [TtlIdle EXCEPT !.pc = "load"].extended + [TtlIdle EXCEPT !.pc = "load"].failed = [TtlIdle EXCEPT !.pc = "load"].loaded
  <1>0. PICK S : S = Seq(TtlApps)
    OBVIOUS
  <1>1. PICK none : none = <<>> /\ none \in Seq(Seq(TtlApps))
    <2>1. <<>> \in Seq(S)
      OBVIOUS
    <2>2. QED
      BY <1>0, <2>1
  <1>2. TtlIdle = [pc |-> "idle", left |-> none, loaded |-> 0, extended |-> 0, failed |-> 0]
    BY <1>1 DEF TtlIdle
  <1>3. [TtlIdle EXCEPT !.pc = "load"] = [pc |-> "load", left |-> none, loaded |-> 0, extended |-> 0, failed |-> 0]
    BY <1>2
  <1>4. 0 + 0 = 0
    OBVIOUS
  <1>5. QED
    BY <1>1, <1>2, <1>3, <1>4 DEF TtlJobs

\* A failed call costs an application nothing it was not owed.
LEMMA MissedIs ==
  ASSUME TtlTypes, NEW owed, TtlSafe(owed), NEW apps \in SUBSET TtlApps, NEW left, owed \subseteq left \cup apps,
         ttlMisses' = Missed(apps), UNCHANGED ttlChain
  PROVE  ttlMisses' \in [TtlApps -> 0..(TtlMaxMisses + 1)] /\ TtlSafe(left)'
  <1>1. ttlMisses' = [a \in TtlApps |-> IF a \in apps /\ ttlMisses[a] <= TtlMaxMisses
                                        THEN ttlMisses[a] + 1 ELSE ttlMisses[a]]
    BY DEF Missed
  <1>2. ASSUME NEW a \in TtlApps PROVE ttlMisses[a] \in 0..(TtlMaxMisses + 1) /\ ttlChain[a] \in 0..TtlLife
    BY DEF TtlTypes
  <1>3. ttlMisses' \in [TtlApps -> 0..(TtlMaxMisses + 1)]
    <2>1. ASSUME NEW a \in TtlApps
          PROVE  (IF a \in apps /\ ttlMisses[a] <= TtlMaxMisses THEN ttlMisses[a] + 1 ELSE ttlMisses[a]) \in 0..(TtlMaxMisses + 1)
      BY <1>2, TtlAssumption
    <2>2. QED
      BY <1>1, <2>1
  <1>4. ASSUME NEW a \in TtlApps \ TtlGone, ttlMisses'[a] <= TtlMaxMisses
        PROVE  ttlChain'[a] + ttlMisses'[a] + (IF a \in left THEN 1 ELSE 0) >= TtlLife
    <2>1. PICK c, m, d : c = ttlChain[a] /\ m = ttlMisses[a] /\ d = ttlMisses'[a]
      OBVIOUS
    <2>2. c \in Nat /\ m \in Nat /\ d \in Nat /\ ttlChain'[a] = c /\ TtlMaxMisses \in Nat /\ TtlLife \in Nat
      BY <1>2, <1>3, <2>1, TtlAssumption
    <2>3. d = IF a \in apps /\ m <= TtlMaxMisses THEN m + 1 ELSE m
      BY <1>1, <2>1
    <2>4. m <= TtlMaxMisses
      BY <1>4, <2>1, <2>2, <2>3
    <2>5. c + m + (IF a \in owed THEN 1 ELSE 0) >= TtlLife
      BY <2>1, <2>4 DEF TtlSafe
    <2>6. QED
      BY <2>1, <2>2, <2>3, <2>4, <2>5
  <1>5. QED
    BY <1>3, <1>4 DEF TtlSafe

\* A call that succeeds starts a new life.
LEMMA RenewedIs ==
  ASSUME TtlTypes, NEW owed, TtlSafe(owed), NEW apps \in SUBSET TtlApps, NEW left, owed \subseteq left \cup apps,
         ttlChain' = [a \in TtlApps |-> IF a \in apps THEN TtlLife ELSE ttlChain[a]],
         ttlMisses' = [a \in TtlApps |-> IF a \in apps THEN 0 ELSE ttlMisses[a]]
  PROVE  /\ ttlMisses' \in [TtlApps -> 0..(TtlMaxMisses + 1)] /\ ttlChain' \in [TtlApps -> 0..TtlLife]
         /\ TtlSafe(left)'
  <1>2. ASSUME NEW a \in TtlApps PROVE ttlMisses[a] \in 0..(TtlMaxMisses + 1) /\ ttlChain[a] \in 0..TtlLife
    BY DEF TtlTypes
  <1>3. ttlMisses' \in [TtlApps -> 0..(TtlMaxMisses + 1)] /\ ttlChain' \in [TtlApps -> 0..TtlLife]
    BY <1>2, TtlAssumption
  <1>4. ASSUME NEW a \in TtlApps \ TtlGone, ttlMisses'[a] <= TtlMaxMisses
        PROVE  ttlChain'[a] + ttlMisses'[a] + (IF a \in left THEN 1 ELSE 0) >= TtlLife
    <2>1. CASE a \in apps
      <3>1. ttlChain'[a] = TtlLife /\ ttlMisses'[a] = 0
        BY <2>1
      <3>2. QED
        BY <3>1, TtlAssumption
    <2>2. CASE a \notin apps
      <3>1. ttlChain'[a] = ttlChain[a] /\ ttlMisses'[a] = ttlMisses[a] /\ (a \in owed => a \in left)
        BY <2>2
      <3>2. PICK c, m : c = ttlChain[a] /\ m = ttlMisses[a]
        OBVIOUS
      <3>3. c \in Nat /\ m \in Nat
        BY <1>2, <3>2
      <3>4. c + m + (IF a \in owed THEN 1 ELSE 0) >= TtlLife
        BY <1>4, <3>1, <3>2 DEF TtlSafe
      <3>5. QED
        BY <3>1, <3>2, <3>3, <3>4, TtlAssumption
    <2>3. QED
      BY <2>1, <2>2
  <1>5. QED
    BY <1>3, <1>4 DEF TtlSafe

LEMMA TtlLoads == ASSUME TtlInv, loadExpiringApplications PROVE TtlInv'
  <1>1. TtlTypes /\ ttlJob.pc = "load" /\ TtlSafe(TtlApps) /\ UNCHANGED <<ttlChain, ttlRow, ttlOn>>
    BY DEF TtlInv, TtlRun, loadExpiringApplications
  <1>2. CASE ttlMisses' = Missed(TtlApps) /\ ttlJob' = TtlIdle
    <2>1. ttlMisses' \in [TtlApps -> 0..(TtlMaxMisses + 1)] /\ TtlSafe({})'
      BY <1>1, <1>2, MissedIs
    <2>2. QED
      BY <1>1, <1>2, <2>1, TtlIdleIs DEF TtlInv, TtlTypes, TtlRun
  <1>3. ASSUME NEW s \in DueOrders({a \in TtlApps : dueRow(a)}), UNCHANGED ttlMisses,
               ttlJob' = IF {a \in TtlApps : dueRow(a)} = {} THEN TtlIdle
                         ELSE [TtlIdle EXCEPT !.pc = "batches", !.left = chunk(s), !.loaded = Len(s)]
        PROVE  TtlInv'
    <2>1. {a \in TtlApps : dueRow(a)} = TtlApps
      <3>1. ASSUME NEW a \in TtlApps PROVE ttlRow[a] <= TtlLife
        <4>1. ttlRow[a] \in 0..TtlLife
          BY <1>1 DEF TtlTypes
        <4>2. QED
          BY <4>1, TtlAssumption
      <3>2. QED
        BY <3>1 DEF dueRow
    <2>2. s \in Seq(TtlApps) /\ {s[j] : j \in 1..Len(s)} = TtlApps /\ Len(s) \in Nat
      <3>1. s \in SetToSeqs(TtlApps)
        BY <1>3, <2>1 DEF DueOrders
      <3>2. s \in Seq(TtlApps) /\ {s[j] : j \in 1..Len(s)} = TtlApps
        BY <3>1, OrdersAre
      <3>3. QED
        BY <3>2
    <2>3. CASE TtlApps = {}
      <3>1. ttlJob' = TtlIdle
        BY <1>3, <2>1, <2>3
      <3>2. TtlSafe({})'
        BY <2>3 DEF TtlSafe
      <3>3. QED
        BY <1>1, <1>3, <3>1, <3>2, TtlIdleIs DEF TtlInv, TtlTypes, TtlRun
    <2>4. CASE TtlApps # {}
      <3>1. PICK c : c = chunk(s)
        OBVIOUS
      <3>2. c \in Seq(Seq(TtlApps)) /\ Len(c) \in Nat
        BY <2>2, <3>1, ChunkIs
      <3>3. ttlJob' = [pc |-> "batches", left |-> c, loaded |-> Len(s), extended |-> 0, failed |-> 0]
        BY <1>3, <2>1, <2>4, <3>1 DEF TtlIdle
      <3>4. ttlJob' \in TtlJobs
        BY <2>2, <3>2, <3>3 DEF TtlJobs
      <3>5. 0 * TtlBatchSize = 0 /\ TtlDone(s, 0) = 0 /\ TtlAfter(s, 0) = TtlApps
        <4>1. 0 * TtlBatchSize = 0
          BY TtlAssumption
        <4>2. TtlDone(s, 0) = 0
          BY <2>2, <4>1 DEF TtlDone
        <4>3. 0 * TtlBatchSize + 1 = 1
          BY <4>1
        <4>4. QED
          BY <2>2, <4>1, <4>2, <4>3 DEF TtlAfter
      <3>6. ttlJob'.pc = "batches" /\ ttlJob'.left = c /\ ttlJob'.loaded = Len(s) /\ ttlJob'.extended + ttlJob'.failed = 0
        BY <3>3
      <3>7. 0 \in 0..Len(c) /\ Len(c) - 0 = Len(c) /\ \A i \in 1..Len(c) : c[i] = c[0 + i]
        BY <3>2
      <3>8. TtlWalk(s, 0)'
        BY <2>2, <3>1, <3>5, <3>6, <3>7 DEF TtlWalk
      <3>9. TtlSafe(TtlAfter(s, 0))'
        BY <1>1, <1>3, <3>5 DEF TtlSafe
      <3>10. TtlRun'
        BY <3>6, <3>8, <3>9 DEF TtlRun
      <3>11. QED
        BY <1>1, <1>3, <3>4, <3>10 DEF TtlInv, TtlTypes
    <2>5. QED
      BY <2>3, <2>4
  <1>4. QED
    BY <1>2, <1>3 DEF loadExpiringApplications

\* The first of the batches still to do, and what is owed after it.
LEMMA TtlNextBatch ==
  ASSUME TtlTypes, NEW s, NEW k, TtlWalk(s, k), ttlJob.left # <<>>
  PROVE  /\ Len(Head(ttlJob.left)) \in Nat /\ Range(Head(ttlJob.left)) \in SUBSET TtlApps
         /\ TtlAfter(s, k) \subseteq TtlAfter(s, k + 1) \cup Range(Head(ttlJob.left))
         /\ TtlDone(s, k) + Len(Head(ttlJob.left)) = TtlDone(s, k + 1)
         /\ k + 1 \in 0..Len(chunk(s)) /\ Tail(ttlJob.left) \in Seq(Seq(TtlApps))
         /\ Len(Tail(ttlJob.left)) = Len(chunk(s)) - (k + 1)
         /\ \A i \in 1..(Len(chunk(s)) - (k + 1)) : Tail(ttlJob.left)[i] = chunk(s)[(k + 1) + i]
  <1>1. PICK left, c, b, m : left = ttlJob.left /\ c = chunk(s) /\ b = TtlBatchSize /\ m = Len(s)
    OBVIOUS
  <1>2. PICK n \in Nat : /\ c \in Seq(Seq(TtlApps)) /\ Len(c) = n
                         /\ \A j \in 0..n : j < n =>
                              /\ j * b < m
                              /\ Len(c[j + 1]) = batchEnd(s, j + 1) - j * b
                              /\ Range(c[j + 1]) = {s[i] : i \in (j * b + 1)..batchEnd(s, j + 1)}
    <2>1. s \in Seq(TtlApps)
      BY DEF TtlWalk
    <2>2. QED
      BY <1>1, <2>1, ChunkIs
  <1>3. /\ left \in Seq(Seq(TtlApps)) /\ left # <<>> /\ s \in Seq(TtlApps) /\ k \in 0..n /\ Len(left) = n - k
        /\ \A i \in 1..(n - k) : left[i] = c[k + i]
    BY <1>1, <1>2 DEF TtlWalk, TtlTypes, TtlJobs
  <1>4. Len(left) > 0 /\ Len(left) \in Nat /\ Head(left) = left[1] /\ Len(Tail(left)) = Len(left) - 1
        /\ Tail(left) \in Seq(Seq(TtlApps)) /\ \A i \in 1..(Len(left) - 1) : Tail(left)[i] = left[i + 1]
    BY <1>3
  <1>5. k < n /\ k \in Nat /\ k + 1 \in 0..n /\ 1 \in 1..(n - k)
    BY <1>2, <1>3, <1>4
  <1>6. PICK h : h = Head(left)
    OBVIOUS
  <1>7. h = c[k + 1]
    BY <1>3, <1>4, <1>5, <1>6
  <1>8. h \in Seq(TtlApps) /\ Len(h) \in Nat /\ Range(h) \in SUBSET TtlApps
    <2>1. h \in Seq(TtlApps)
      BY <1>3, <1>4, <1>6
    <2>2. QED
      BY <2>1 DEF Range
  <1>9. PICK p, e : p = k * b /\ e = batchEnd(s, k + 1)
    OBVIOUS
  <1>10. p \in Nat /\ (k + 1) * b = p + b /\ b \in Nat \ {0} /\ m \in Nat
    <2>1. b \in Nat \ {0} /\ m \in Nat
      BY <1>1, <1>3, TtlAssumption
    <2>2. QED
      BY <1>5, <1>9, <2>1, TimesGrows
  <1>11. p < m /\ Len(h) = e - p /\ Range(h) = {s[i] : i \in (p + 1)..e}
    <2>1. k \in 0..n /\ k < n
      BY <1>3, <1>5
    <2>2. /\ k * b < m /\ Len(c[k + 1]) = batchEnd(s, k + 1) - k * b
          /\ Range(c[k + 1]) = {s[i] : i \in (k * b + 1)..batchEnd(s, k + 1)}
      BY <1>2, <2>1
    <2>3. QED
      BY <1>7, <1>9, <2>2
  <1>12. e = IF p + b < m THEN p + b ELSE m
    BY <1>1, <1>9, <1>10 DEF batchEnd
  <1>13. TtlDone(s, k) = p /\ TtlDone(s, k + 1) = e
    BY <1>1, <1>9, <1>10, <1>11, <1>12 DEF TtlDone
  <1>14. TtlAfter(s, k) = {s[j] : j \in (p + 1)..m} /\ TtlAfter(s, k + 1) = {s[j] : j \in (p + b + 1)..m}
    BY <1>1, <1>9, <1>10 DEF TtlAfter
  <1>15. \A j \in (p + 1)..m : j \in (p + b + 1)..m \/ j \in (p + 1)..e
    BY <1>10, <1>12
  <1>16. TtlAfter(s, k) \subseteq TtlAfter(s, k + 1) \cup Range(h)
    BY <1>11, <1>14, <1>15
  <1>17. p + Len(h) = e
    BY <1>8, <1>10, <1>11, <1>12
  <1>18. Len(Tail(left)) = n - (k + 1)
    BY <1>3, <1>4, <1>5
  <1>19. ASSUME NEW i \in 1..(n - (k + 1)) PROVE Tail(left)[i] = c[(k + 1) + i]
    <2>1. i \in 1..(Len(left) - 1) /\ i + 1 \in 1..(n - k) /\ k + (i + 1) = (k + 1) + i
      BY <1>3, <1>5
    <2>2. QED
      BY <1>3, <1>4, <2>1
  <1>20. QED
    BY <1>1, <1>2, <1>4, <1>5, <1>6, <1>8, <1>13, <1>16, <1>17, <1>18, <1>19

LEMMA TtlBatchDone == ASSUME TtlInv, extendApplicationTtlBatch PROVE TtlInv'
  <1>1. PICK s, k : TtlWalk(s, k) /\ TtlSafe(TtlAfter(s, k))
    BY DEF TtlInv, TtlRun, extendApplicationTtlBatch
  <1>2. PICK batch, apps, n, job : batch = Head(ttlJob.left) /\ apps = Range(Head(ttlJob.left))
                                   /\ n = Len(Head(ttlJob.left)) /\ job = ttlJob
    OBVIOUS
  <1>3. TtlTypes /\ ttlJob.pc = "batches" /\ ttlJob.left # <<>> /\ UNCHANGED <<ttlRow, ttlOn>>
    BY DEF TtlInv, extendApplicationTtlBatch
  <1>4. PICK rest : rest = Tail(job.left)
    OBVIOUS
  <1>5. /\ n \in Nat /\ apps \in SUBSET TtlApps /\ TtlAfter(s, k) \subseteq TtlAfter(s, k + 1) \cup apps
        /\ TtlDone(s, k) + n = TtlDone(s, k + 1) /\ k + 1 \in 0..Len(chunk(s)) /\ rest \in Seq(Seq(TtlApps))
        /\ Len(rest) = Len(chunk(s)) - (k + 1)
        /\ \A i \in 1..(Len(chunk(s)) - (k + 1)) : rest[i] = chunk(s)[(k + 1) + i]
    BY <1>1, <1>2, <1>3, <1>4, TtlNextBatch
  <1>6. job \in TtlJobs /\ job.pc = "batches" /\ s \in Seq(TtlApps) /\ job.loaded = Len(s)
        /\ job.extended + job.failed = TtlDone(s, k)
    BY <1>1, <1>2, <1>3 DEF TtlTypes, TtlWalk
  <1>7. PICK bad, good : bad = [job EXCEPT !.left = rest, !.failed = @ + n] /\ good = [job EXCEPT !.left = rest, !.extended = @ + n]
    OBVIOUS
  <1>8. ttlJob' = bad \/ ttlJob' = good
    BY <1>2, <1>4, <1>7 DEF extendApplicationTtlBatch, afterFailure
  <1>9. /\ ttlJob' \in TtlJobs /\ ttlJob'.pc = "batches" /\ ttlJob'.left = rest /\ ttlJob'.loaded = job.loaded
        /\ ttlJob'.extended + ttlJob'.failed = (job.extended + job.failed) + n
    <2>1. PICK x, f : x = job.extended /\ f = job.failed
      OBVIOUS
    <2>2. x \in Nat /\ f \in Nat
      BY <1>6, <2>1 DEF TtlJobs
    <2>3. CASE ttlJob' = bad
      <3>1. /\ bad \in TtlJobs /\ bad.pc = "batches" /\ bad.left = rest /\ bad.loaded = job.loaded
            /\ bad.extended = x /\ bad.failed = f + n
        <4>1. bad = [job EXCEPT !.left = rest, !.failed = f + n]
          BY <1>7, <2>1
        <4>2. rest \in Seq(Seq(TtlApps)) /\ f + n \in Nat
          BY <1>5, <2>2
        <4>3. QED
          BY <1>6, <2>1, <2>2, <4>1, <4>2 DEF TtlJobs
      <3>2. x + (f + n) = (x + f) + n
        BY <1>5, <2>2
      <3>3. QED
        BY <2>1, <2>3, <3>1, <3>2
    <2>4. CASE ttlJob' = good
      <3>1. /\ good \in TtlJobs /\ good.pc = "batches" /\ good.left = rest /\ good.loaded = job.loaded
            /\ good.extended = x + n /\ good.failed = f
        <4>1. good = [job EXCEPT !.left = rest, !.extended = x + n]
          BY <1>7, <2>1
        <4>2. rest \in Seq(Seq(TtlApps)) /\ x + n \in Nat
          BY <1>5, <2>2
        <4>3. QED
          BY <1>6, <2>1, <2>2, <4>1, <4>2 DEF TtlJobs
      <3>2. (x + n) + f = (x + f) + n
        BY <1>5, <2>2
      <3>3. QED
        BY <2>1, <2>4, <3>1, <3>2
    <2>5. QED
      BY <1>8, <2>3, <2>4
  <1>10. TtlWalk(s, k + 1)'
    BY <1>5, <1>6, <1>9 DEF TtlWalk
  <1>11. ttlMisses' \in [TtlApps -> 0..(TtlMaxMisses + 1)] /\ ttlChain' \in [TtlApps -> 0..TtlLife] /\ TtlSafe(TtlAfter(s, k + 1))'
    <2>0. PICK owed, left : owed = TtlAfter(s, k) /\ left = TtlAfter(s, k + 1)
      OBVIOUS
    <2>1. TtlSafe(owed) /\ owed \subseteq left \cup apps /\ apps \in SUBSET TtlApps
      BY <1>1, <1>5, <2>0
    <2>2. CASE ttlMisses' = Missed(apps) /\ UNCHANGED ttlChain
      <3>1. ttlMisses' \in [TtlApps -> 0..(TtlMaxMisses + 1)] /\ TtlSafe(left)'
        BY <1>3, <2>1, <2>2, MissedIs
      <3>2. QED
        BY <1>3, <2>0, <2>2, <3>1 DEF TtlTypes
    <2>3. CASE /\ ttlChain' = [a \in TtlApps |-> IF a \in apps THEN TtlLife ELSE ttlChain[a]]
               /\ ttlMisses' = [a \in TtlApps |-> IF a \in apps THEN 0 ELSE ttlMisses[a]]
      BY <1>3, <2>0, <2>1, <2>3, RenewedIs
    <2>4. QED
      BY <1>2, <2>2, <2>3 DEF extendApplicationTtlBatch
  <1>12. TtlRun'
    BY <1>9, <1>10, <1>11 DEF TtlRun
  <1>13. QED
    BY <1>3, <1>9, <1>11, <1>12 DEF TtlInv, TtlTypes

LEMMA TtlCompletes == ASSUME TtlInv, jobComplete PROVE TtlInv'
  <1>1. PICK s, k : TtlWalk(s, k) /\ TtlSafe(TtlAfter(s, k))
    BY DEF TtlInv, TtlRun, jobComplete
  <1>2. PICK c, b, m, p : c = chunk(s) /\ b = TtlBatchSize /\ m = Len(s) /\ p = k * TtlBatchSize
    OBVIOUS
  <1>3. s \in Seq(TtlApps) /\ ttlJob.left = <<>> /\ Len(ttlJob.left) = Len(c) - k /\ k \in 0..Len(c)
    BY <1>1, <1>2 DEF TtlWalk, jobComplete
  <1>4. Len(c) \in Nat /\ m <= Len(c) * b
    BY <1>2, <1>3, ChunkIs
  <1>5. k = Len(c)
    <2>1. Len(<<>>) = 0
      OBVIOUS
    <2>2. QED
      BY <1>3, <1>4, <2>1
  <1>6. p \in Nat /\ m \in Nat /\ m <= p
    <2>1. b \in Nat \ {0} /\ m \in Nat
      BY <1>2, <1>3, TtlAssumption
    <2>2. p \in Nat
      BY <1>2, <1>4, <1>5, <2>1, TimesGrows
    <2>3. QED
      BY <1>2, <1>4, <1>5, <2>1, <2>2
  <1>7. TtlDone(s, k) = m /\ TtlAfter(s, k) = {}
    <2>1. TtlDone(s, k) = m
      BY <1>2, <1>6 DEF TtlDone
    <2>2. (p + 1)..m = {}
      BY <1>6
    <2>3. QED
      BY <1>2, <2>1, <2>2 DEF TtlAfter
  <1>8. TtlTypes /\ ttlJob' = [ttlJob EXCEPT !.pc = "idle"] /\ UNCHANGED <<ttlChain, ttlRow, ttlMisses, ttlOn>>
    BY DEF TtlInv, jobComplete
  <1>9. /\ ttlJob' \in TtlJobs /\ ttlJob'.pc = "idle" /\ ttlJob'.loaded = ttlJob.loaded
        /\ ttlJob'.extended = ttlJob.extended /\ ttlJob'.failed = ttlJob.failed
    BY <1>8 DEF TtlTypes, TtlJobs
  <1>10. ttlJob.extended + ttlJob.failed = ttlJob.loaded
    BY <1>1, <1>2, <1>7 DEF TtlWalk
  <1>11. TtlSafe({})'
    BY <1>1, <1>7, <1>8 DEF TtlSafe
  <1>12. QED
    BY <1>8, <1>9, <1>10, <1>11 DEF TtlInv, TtlTypes, TtlRun

LEMMA TtlTicks == ASSUME TtlInv, ttlTask PROVE TtlInv'
  <1>1. /\ TtlTypes /\ ttlJob.pc = "idle" /\ TtlSafe({})
        /\ ttlJob' = [TtlIdle EXCEPT !.pc = "load"] /\ UNCHANGED <<ttlMisses, ttlOn>>
        /\ ttlChain' = [a \in TtlApps |-> IF ttlChain[a] = 0 THEN 0 ELSE ttlChain[a] - 1]
        /\ ttlRow' = [a \in TtlApps |-> IF ttlRow[a] = 0 THEN 0 ELSE ttlRow[a] - 1]
    BY DEF TtlInv, TtlRun, ttlTask
  <1>2. ASSUME NEW a \in TtlApps PROVE ttlChain[a] \in 0..TtlLife /\ ttlRow[a] \in 0..TtlLife /\ ttlMisses[a] \in 0..(TtlMaxMisses + 1)
    BY <1>1 DEF TtlTypes
  <1>3. ttlChain' \in [TtlApps -> 0..TtlLife] /\ ttlRow' \in [TtlApps -> 0..TtlLife]
    <2>1. \A x \in 0..TtlLife : (IF x = 0 THEN 0 ELSE x - 1) \in 0..TtlLife
      BY TtlAssumption
    <2>2. QED
      BY <1>1, <1>2, <2>1
  <1>4. ASSUME NEW a \in TtlApps \ TtlGone, ttlMisses[a] <= TtlMaxMisses
        PROVE  ttlChain'[a] + ttlMisses[a] + (IF a \in TtlApps THEN 1 ELSE 0) >= TtlLife
    <2>1. PICK c, m : c = ttlChain[a] /\ m = ttlMisses[a]
      OBVIOUS
    <2>2. c \in Nat /\ m \in Nat
      BY <1>2, <2>1
    <2>3. c + m + 0 >= TtlLife
      BY <1>1, <1>4, <2>1 DEF TtlSafe
    <2>4. ttlChain'[a] = IF c = 0 THEN 0 ELSE c - 1
      BY <1>1, <2>1
    <2>5. QED
      BY <2>1, <2>2, <2>3, <2>4, TtlAssumption
  <1>5. TtlSafe(TtlApps)'
    BY <1>1, <1>4 DEF TtlSafe
  <1>6. QED
    BY <1>1, <1>3, <1>5, TtlIdleIs DEF TtlInv, TtlTypes, TtlRun

LEMMA TtlInductive == startScheduler /\ [][TtlNext]_ttlVars => []TtlInv
  <1>1. startScheduler => TtlInv
    <2> SUFFICES ASSUME startScheduler PROVE TtlInv
      OBVIOUS
    <2>1. /\ ttlChain = [a \in TtlApps |-> IF a \in TtlGone THEN 0 ELSE TtlLife] /\ ttlRow = [a \in TtlApps |-> TtlLife]
          /\ ttlJob = [TtlIdle EXCEPT !.pc = "load"] /\ ttlMisses = [a \in TtlApps |-> 0]
      BY DEF startScheduler
    <2>2. TtlTypes
      BY <2>1, TtlAssumption, TtlIdleIs DEF TtlTypes
    <2>3. TtlSafe(TtlApps)
      BY <2>1, TtlAssumption DEF TtlSafe
    <2>4. QED
      BY <2>1, <2>2, <2>3, TtlIdleIs DEF TtlInv, TtlRun
  <1>2. TtlInv /\ [TtlNext]_ttlVars => TtlInv'
    <2> SUFFICES ASSUME TtlInv, [TtlNext]_ttlVars PROVE TtlInv'
      OBVIOUS
    <2>1. CASE UNCHANGED <<ttlChain, ttlRow, ttlJob, ttlMisses>>
      BY <2>1 DEF TtlInv, TtlTypes, TtlRun, TtlWalk, TtlSafe
    <2>2. QED
      BY <2>1, TtlLoads, TtlBatchDone, TtlCompletes, TtlTicks DEF TtlNext, stop, ttlVars
  <1>3. QED
    BY <1>1, <1>2, PTL

LEMMA TtlResult == TtlInv => TtlKept /\ TtlAllTried
  <1> SUFFICES ASSUME TtlInv PROVE TtlKept /\ TtlAllTried
    OBVIOUS
  <1>1. TtlAllTried
    BY DEF TtlInv, TtlRun, TtlAllTried
  <1>2. PICK owed : TtlSafe(owed)
    BY DEF TtlInv, TtlRun
  <1>3. ASSUME NEW a \in TtlApps \ TtlGone, ttlMisses[a] <= TtlMaxMisses PROVE ttlChain[a] > 0
    <2>1. PICK c, m : c = ttlChain[a] /\ m = ttlMisses[a]
      OBVIOUS
    <2>2. c \in Nat /\ m \in Nat /\ m <= TtlMaxMisses
      BY <1>3, <2>1 DEF TtlInv, TtlTypes
    <2>3. c + m + (IF a \in owed THEN 1 ELSE 0) >= TtlLife
      BY <1>2, <1>3, <2>1 DEF TtlSafe
    <2>4. QED
      BY <2>1, <2>2, <2>3, TtlAssumption
  <1>4. QED
    BY <1>1, <1>3 DEF TtlKept

-----------------------------------------------------------------------------
(* The table of events (EventDecode). *)

EdTypes == {"applied", "withdrew", "assigned", "completed", "revoked"}
EdRow(type, c, o, i) == [event_type |-> type, contributor |-> str(c), org_id |-> str(o), issue_id |-> num(i)]

\* Events of the contract that become a row, and the ones that are skipped.
EdTold(raw, type, c, o, i) == parseRpcEvent(raw) = <<EdRow(type, c, o, i)>>
EdSkipped(raw) == parseRpcEvent(raw) = <<>>

\* How the state a reader knows goes on with an event.
EdGoesOn(s, raw, t) ==
  \/ EdSkipped(raw) /\ t = s
  \/ \E r \in EdRows : parseRpcEvent(raw) = <<r>> /\ t = EdRowMeans[<<s, r>>]

\* hist[k] is what the first k events tell; all of them tell the contract's state,
\* expired applications included, and the table tells what those read tell.
EdHistory(hist) ==
  /\ hist \in [0..Len(edLog) -> EdStates] /\ hist[0] = EdNothing
  /\ \A k \in 1..Len(edLog) : EdGoesOn(hist[k - 1], edLog[k], hist[k])
  /\ hist[Len(edLog)] = [pending |-> edPending \cup edExpired, assigned |-> edAssigned]
  /\ FoldFrom(EdRowMeans, EdNothing, edTable) = hist[edRead]

EdTypes0 == /\ (\E X : edLog \in Seq(X)) /\ edRead \in 0..Len(edLog) /\ edTable \in Seq(EdRows) /\ Len(edTable) <= edRead
            /\ edPending \in SUBSET EdKeys /\ edExpired \in SUBSET EdKeys /\ edAssigned \in SUBSET EdKeys
            /\ edPending \cap edExpired = {}

EdInv == EdTypes0 /\ \E hist : EdHistory(hist)

LEMMA EdParsesPair ==
  ASSUME NEW type \in {"applied", "withdrew"}, NEW c, NEW o, NEW i,
         NEW raw, raw = [topics |-> <<str(type), str(c)>>, data |-> tuple(<<str(o), num(i)>>)]
  PROVE  EdTold(raw, type, c, o, i)
  <1>1. raw.topics = <<str(type), str(c)>> /\ raw.data = tuple(<<str(o), num(i)>>)
    OBVIOUS
  <1>2. PICK topics, data : topics = raw.topics /\ data = raw.data
    OBVIOUS
  <1>3. Len(topics) = 2 /\ topics[1] = str(type) /\ topics[2] = str(c)
    BY <1>1, <1>2
  <1>4. extractEventType(topics) = type
    BY <1>3 DEF extractEventType, str
  <1>5. extractContributorFromTopic(topics) = str(c)
    BY <1>3 DEF extractContributorFromTopic, str
  <1>6. data.t = "array" /\ data.v[1] = str(o) /\ data.v[2] = num(i)
    BY <1>1, <1>2 DEF tuple
  <1>7. typed(str(o), "string") = str(o) /\ typed(num(i), "number") = num(i)
    BY DEF typed, str, num
  <1>8. parseEventData(data, type) = [org_id |-> str(o), issue_id |-> num(i)]
    BY <1>6, <1>7 DEF parseEventData
  <1>9. type # "null" /\ type # "maintainer_registered"
    OBVIOUS
  <1>10. QED
    BY <1>2, <1>4, <1>5, <1>8, <1>9 DEF EdTold, EdRow, parseRpcEvent

LEMMA EdParsesTriple ==
  ASSUME NEW type \in {"assigned", "completed", "revoked"}, NEW m, NEW c, NEW o, NEW i,
         NEW raw, raw = [topics |-> <<str(type), str(c)>>, data |-> tuple(<<str(m), str(o), num(i)>>)]
  PROVE  EdTold(raw, type, c, o, i)
  <1>1. raw.topics = <<str(type), str(c)>> /\ raw.data = tuple(<<str(m), str(o), num(i)>>)
    OBVIOUS
  <1>2. PICK topics, data : topics = raw.topics /\ data = raw.data
    OBVIOUS
  <1>3. Len(topics) = 2 /\ topics[1] = str(type) /\ topics[2] = str(c)
    BY <1>1, <1>2
  <1>4. extractEventType(topics) = type
    BY <1>3 DEF extractEventType, str
  <1>5. extractContributorFromTopic(topics) = str(c)
    BY <1>3 DEF extractContributorFromTopic, str
  <1>6. data.t = "array" /\ data.v[2] = str(o) /\ data.v[3] = num(i)
    BY <1>1, <1>2 DEF tuple
  <1>7. typed(str(o), "string") = str(o) /\ typed(num(i), "number") = num(i)
    BY DEF typed, str, num
  <1>8. parseEventData(data, type) = [org_id |-> str(o), issue_id |-> num(i)]
    BY <1>6, <1>7 DEF parseEventData
  <1>9. type # "null" /\ type # "maintainer_registered"
    OBVIOUS
  <1>10. QED
    BY <1>2, <1>4, <1>5, <1>8, <1>9 DEF EdTold, EdRow, parseRpcEvent

LEMMA EdParsesOther ==
  ASSUME NEW type \in {"maint_reg", "adm_xfer"}, NEW who, NEW data,
         NEW raw, raw = [topics |-> <<str(type), str(who)>>, data |-> data]
  PROVE  EdSkipped(raw)
  <1>1. PICK topics : topics = raw.topics
    OBVIOUS
  <1>2. topics[1] = str(type)
    BY <1>1
  <1>3. extractEventType(topics) = "null"
    BY <1>2 DEF extractEventType, str
  <1>4. QED
    BY <1>1, <1>3 DEF EdSkipped, parseRpcEvent

LEMMA EdRowIs ==
  ASSUME NEW type \in EdTypes, NEW c \in EdContributors, NEW o \in EdOrgs, NEW i \in EdIssues
  PROVE  /\ EdRow(type, c, o, i) \in EdRows
         /\ <<c, o, i>> \in EdKeys
         /\ \A s \in EdStates :
              /\ type = "applied" => EdRowMeans[<<s, EdRow(type, c, o, i)>>] = [pending |-> s.pending \cup {<<c, o, i>>}, assigned |-> s.assigned]
              /\ type = "withdrew" => EdRowMeans[<<s, EdRow(type, c, o, i)>>] = [pending |-> s.pending \ {<<c, o, i>>}, assigned |-> s.assigned]
              /\ type = "assigned" => EdRowMeans[<<s, EdRow(type, c, o, i)>>] = [pending |-> s.pending \ {<<c, o, i>>}, assigned |-> s.assigned \cup {<<c, o, i>>}]
              /\ type = "completed" \/ type = "revoked" => EdRowMeans[<<s, EdRow(type, c, o, i)>>] = [pending |-> s.pending, assigned |-> s.assigned \ {<<c, o, i>>}]
  <1>1. PICK r, x : r = EdRow(type, c, o, i) /\ x = <<c, o, i>>
    OBVIOUS
  <1>2. r \in EdRows /\ x \in EdKeys
    BY <1>1 DEF EdRow, EdRows, EdKeys, EdTypes
  <1>3. r.event_type = type /\ <<r.contributor.v, r.org_id.v, r.issue_id.v>> = x
    BY <1>1 DEF EdRow, str, num
  <1>4. ASSUME NEW s \in EdStates
        PROVE  EdRowMeans[<<s, r>>] =
                 CASE type = "applied"   -> [s EXCEPT !.pending = @ \cup {x}]
                   [] type = "withdrew"  -> [s EXCEPT !.pending = @ \ {x}]
                   [] type = "assigned"  -> [pending |-> s.pending \ {x}, assigned |-> s.assigned \cup {x}]
                   [] type \in {"completed", "revoked"} -> [s EXCEPT !.assigned = @ \ {x}]
    <2>1. <<s, r>> \in EdStates \X EdRows
      BY <1>2
    <2>2. <<s, r>>[1] = s /\ <<s, r>>[2] = r
      OBVIOUS
    <2>3. QED
      BY <1>3, <2>1, <2>2 DEF EdRowMeans
  <1>5. \A s \in EdStates : /\ [s EXCEPT !.pending = @ \cup {x}] = [pending |-> s.pending \cup {x}, assigned |-> s.assigned]
                            /\ [s EXCEPT !.pending = @ \ {x}] = [pending |-> s.pending \ {x}, assigned |-> s.assigned]
                            /\ [s EXCEPT !.assigned = @ \ {x}] = [pending |-> s.pending, assigned |-> s.assigned \ {x}]
    BY DEF EdStates
  <1>6. QED
    BY <1>1, <1>2, <1>4, <1>5

LEMMA EdRowEnds ==
  ASSUME NEW type \in {"completed", "revoked"}, NEW c \in EdContributors, NEW o \in EdOrgs, NEW i \in EdIssues,
         NEW s \in EdStates
  PROVE  EdRowMeans[<<s, EdRow(type, c, o, i)>>] = [pending |-> s.pending, assigned |-> s.assigned \ {<<c, o, i>>}]
  <1>1. PICK r, x : r = EdRow(type, c, o, i) /\ x = <<c, o, i>>
    OBVIOUS
  <1>2. r \in EdRows
    BY <1>1 DEF EdRow, EdRows
  <1>3. r.event_type = type /\ <<r.contributor.v, r.org_id.v, r.issue_id.v>> = x
    BY <1>1 DEF EdRow, str, num
  <1>4. <<s, r>> \in EdStates \X EdRows /\ <<s, r>>[1] = s /\ <<s, r>>[2] = r
    BY <1>2
  <1>5. EdRowMeans[<<s, r>>] = [s EXCEPT !.assigned = @ \ {x}]
    BY <1>3, <1>4 DEF EdRowMeans
  <1>6. [s EXCEPT !.assigned = @ \ {x}] = [pending |-> s.pending, assigned |-> s.assigned \ {x}]
    BY DEF EdStates
  <1>7. QED
    BY <1>1, <1>5, <1>6

LEMMA EdMeansType == \A s \in EdStates, r \in EdRows : EdRowMeans[<<s, r>>] \in EdStates
  <1> SUFFICES ASSUME NEW s \in EdStates, NEW r \in EdRows PROVE EdRowMeans[<<s, r>>] \in EdStates
    OBVIOUS
  <1>1. PICK c \in EdContributors, o \in EdOrgs, i \in EdIssues, type \in EdTypes :
          r.contributor = str(c) /\ r.org_id = str(o) /\ r.issue_id = num(i) /\ r.event_type = type
    BY DEF EdRows, EdTypes
  <1>2. r = EdRow(type, c, o, i)
    BY <1>1 DEF EdRows, EdRow
  <1>3. <<c, o, i>> \in EdKeys
    BY EdRowIs
  <1>4. PICK x : x = <<c, o, i>> /\ x \in EdKeys
    BY <1>3
  <1>5. PICK t : t = EdRowMeans[<<s, r>>]
    OBVIOUS
  <1>6. \/ t = [pending |-> s.pending \cup {x}, assigned |-> s.assigned]
        \/ t = [pending |-> s.pending \ {x}, assigned |-> s.assigned]
        \/ t = [pending |-> s.pending \ {x}, assigned |-> s.assigned \cup {x}]
        \/ t = [pending |-> s.pending, assigned |-> s.assigned \ {x}]
    BY <1>2, <1>4, <1>5, EdRowIs DEF EdTypes
  <1>7. t \in EdStates
    BY <1>4, <1>6 DEF EdStates
  <1>8. QED
    BY <1>5, <1>7

EdKnown == [pending |-> edPending \cup edExpired, assigned |-> edAssigned]
EdSets == /\ edPending \in SUBSET EdKeys /\ edExpired \in SUBSET EdKeys /\ edAssigned \in SUBSET EdKeys
          /\ edPending \cap edExpired = {}

LEMMA EdPublishes ==
  ASSUME EdInv, NEW raw, edLog' = Append(edLog, raw), UNCHANGED <<edRead, edTable>>, EdSets',
         EdGoesOn(EdKnown, raw, EdKnown')
  PROVE  EdInv'
  <1>1. PICK hist : EdHistory(hist)
    BY DEF EdInv
  <1>2. PICK n, log, t : n = Len(edLog) /\ log = edLog /\ t = EdKnown'
    OBVIOUS
  <1> PICK X : log \in Seq(X)
    BY <1>2 DEF EdInv, EdTypes0
  <1>3. log \in Seq(X) /\ n \in Nat /\ n = Len(log) /\ DOMAIN log = 1..n /\ edRead \in 0..n
    BY <1>2 DEF EdInv, EdTypes0
  <1>4. PICK more : more = Append(log, raw)
    OBVIOUS
  <1>5. /\ edLog' = more /\ Len(more) = n + 1 /\ DOMAIN more = 1..(n + 1) /\ more[n + 1] = raw
        /\ \A k \in 1..n : more[k] = log[k]
    BY <1>2, <1>3, <1>4
  <1>6. \E Y : more \in Seq(Y)
    <2>1. log \in Seq(X \cup {raw})
      BY <1>3
    <2>2. more \in Seq(X \cup {raw})
      BY <1>4, <2>1
    <2>3. QED
      BY <2>2
  <1>7. EdTypes0'
    <2>1. Len(edLog') = n + 1 /\ edRead' = edRead /\ edTable' = edTable
      BY <1>5
    <2>2. edRead' \in 0..(n + 1)
      BY <1>3, <2>1
    <2>3. QED
      BY <1>5, <1>6, <2>1, <2>2 DEF EdInv, EdTypes0, EdSets
  <1>8. /\ hist \in [0..n -> EdStates] /\ hist[0] = EdNothing
        /\ \A k \in 1..n : EdGoesOn(hist[k - 1], log[k], hist[k])
        /\ hist[n] = EdKnown
        /\ FoldFrom(EdRowMeans, EdNothing, edTable) = hist[edRead]
    BY <1>1, <1>2 DEF EdHistory, EdKnown
  <1>9. t \in EdStates
    <2>1. edPending' \cup edExpired' \in SUBSET EdKeys /\ edAssigned' \in SUBSET EdKeys
      BY DEF EdSets
    <2>2. t = [pending |-> edPending' \cup edExpired', assigned |-> edAssigned']
      BY <1>2 DEF EdKnown
    <2>3. QED
      BY <2>1, <2>2 DEF EdStates
  <1>10. PICK h : h = [k \in 0..(n + 1) |-> IF k = n + 1 THEN t ELSE hist[k]]
    OBVIOUS
  <1>11. /\ h \in [0..(n + 1) -> EdStates] /\ h[n + 1] = t
         /\ \A k \in 0..n : h[k] = hist[k]
    BY <1>3, <1>8, <1>9, <1>10
  <1>12. \A k \in 1..(n + 1) : EdGoesOn(h[k - 1], more[k], h[k])
    <2> SUFFICES ASSUME NEW k \in 1..(n + 1) PROVE EdGoesOn(h[k - 1], more[k], h[k])
      OBVIOUS
    <2>1. CASE k = n + 1
      <3>1. h[k - 1] = EdKnown /\ more[k] = raw /\ h[k] = t
        BY <1>3, <1>5, <1>8, <1>11, <2>1
      <3>2. EdGoesOn(EdKnown, raw, t)
        BY <1>2
      <3>3. QED
        BY <3>1, <3>2
    <2>2. CASE k # n + 1
      <3>1. k \in 1..n /\ k - 1 \in 0..n /\ k \in 0..n
        BY <1>3, <2>2
      <3>2. h[k - 1] = hist[k - 1] /\ more[k] = log[k] /\ h[k] = hist[k]
        BY <1>5, <1>11, <3>1
      <3>3. QED
        BY <1>8, <3>1, <3>2
    <2>3. QED
      BY <2>1, <2>2
  <1>13. h[0] = EdNothing /\ h[edRead] = hist[edRead]
    BY <1>3, <1>8, <1>11
  <1>14. EdHistory(h)'
    <2>1. t = [pending |-> edPending' \cup edExpired', assigned |-> edAssigned']
      BY <1>2 DEF EdKnown
    <2>2. FoldFrom(EdRowMeans, EdNothing, edTable') = h[edRead']
      BY <1>8, <1>13
    <2>3. QED
      BY <1>5, <1>11, <1>12, <1>13, <2>1, <2>2 DEF EdHistory
  <1>15. QED
    BY <1>7, <1>14 DEF EdInv

LEMMA EdIndexes == ASSUME EdInv, EdIndex PROVE EdInv'
  <1>1. PICK hist : EdHistory(hist)
    BY DEF EdInv
  <1>2. PICK n, m, raw, table : n = Len(edLog) /\ m = edRead + 1 /\ raw = edLog[edRead + 1] /\ table = edTable
    OBVIOUS
  <1>3. n \in Nat /\ m \in 1..n /\ m - 1 = edRead /\ edRead' = m /\ edTable' = table \o parseRpcEvent(raw)
        /\ UNCHANGED <<edPending, edAssigned, edRegistered, edExpired, edLog>> /\ edRead < m
    BY <1>2 DEF EdIndex, EdInv, EdTypes0
  <1>4. /\ hist \in [0..n -> EdStates] /\ hist[m - 1] \in EdStates
        /\ EdGoesOn(hist[m - 1], raw, hist[m])
        /\ FoldFrom(EdRowMeans, EdNothing, table) = hist[m - 1]
    <2>1. hist \in [0..n -> EdStates] /\ (\A k \in 1..n : EdGoesOn(hist[k - 1], edLog[k], hist[k]))
          /\ FoldFrom(EdRowMeans, EdNothing, edTable) = hist[edRead]
      BY <1>1, <1>2 DEF EdHistory
    <2>2. m - 1 \in 0..n /\ raw = edLog[m]
      BY <1>2, <1>3
    <2>3. QED
      BY <1>2, <1>3, <2>1, <2>2
  <1>5. table \in Seq(EdRows) /\ Len(table) <= edRead /\ EdSets
    BY <1>2 DEF EdInv, EdTypes0, EdSets
  <1>6. /\ edTable' \in Seq(EdRows) /\ Len(edTable') <= Len(table) + 1
        /\ FoldFrom(EdRowMeans, EdNothing, edTable') = hist[m]
    <2>1. CASE EdSkipped(raw) /\ hist[m] = hist[m - 1]
      <3>1. edTable' = table
        BY <1>3, <1>5, <2>1 DEF EdSkipped
      <3>2. QED
        BY <1>4, <1>5, <2>1, <3>1
    <2>2. ASSUME NEW r \in EdRows, parseRpcEvent(raw) = <<r>>, hist[m] = EdRowMeans[<<hist[m - 1], r>>]
          PROVE  /\ edTable' \in Seq(EdRows) /\ Len(edTable') <= Len(table) + 1
                 /\ FoldFrom(EdRowMeans, EdNothing, edTable') = hist[m]
      <3>1. edTable' = Append(table, r)
        <4>1. table \o <<r>> = Append(table, r)
          BY <1>5
        <4>2. QED
          BY <1>3, <2>2, <4>1
      <3>2. FoldFrom(EdRowMeans, EdNothing, Append(table, r)) = EdRowMeans[<<FoldFrom(EdRowMeans, EdNothing, table), r>>]
        <4>1. PICK V, X, st, base : V = EdStates /\ X = EdRows /\ st = EdRowMeans /\ base = EdNothing
          OBVIOUS
        <4>2. base \in V
          BY <4>1 DEF EdNothing, EdStates
        <4>3. \A v \in V, x \in X : st[<<v, x>>] \in V
          BY <4>1, EdMeansType
        <4>4. table \in Seq(X) /\ r \in X
          BY <1>5, <4>1
        <4>5. FoldFrom(st, base, Append(table, r)) = st[<<FoldFrom(st, base, table), r>>]
          BY <4>2, <4>3, <4>4, FoldAppend
        <4>6. QED
          BY <4>1, <4>5
      <3>3. Append(table, r) \in Seq(EdRows) /\ Len(Append(table, r)) = Len(table) + 1 /\ Len(table) \in Nat
        BY <1>5
      <3>4. QED
        BY <1>4, <2>2, <3>1, <3>2, <3>3
    <2>3. QED
      BY <1>4, <2>1, <2>2 DEF EdGoesOn
  <1>7. EdTypes0'
    <2>1. Len(table) \in Nat /\ Len(edTable') \in Nat /\ edRead \in Nat /\ Len(edTable') <= m /\ m \in 0..n
      <3>1. Len(table) \in Nat /\ Len(edTable') \in Nat /\ edRead \in Nat
        BY <1>5, <1>6 DEF EdInv, EdTypes0
      <3>2. QED
        BY <1>3, <1>5, <1>6, <3>1
    <2>2. QED
      BY <1>2, <1>3, <1>6, <2>1 DEF EdInv, EdTypes0
  <1>8. EdHistory(hist)'
    BY <1>1, <1>2, <1>3, <1>6 DEF EdHistory
  <1>9. QED
    BY <1>7, <1>8 DEF EdInv

LEMMA EdActs == ASSUME EdInv, EdContract PROVE EdInv'
  <1>0. EdSets /\ EdKnown \in EdStates /\ EdKnown.pending = edPending \cup edExpired /\ EdKnown.assigned = edAssigned
    BY DEF EdInv, EdTypes0, EdSets, EdKnown, EdStates
  <1>1. ASSUME NEW type \in EdTypes, NEW c \in EdContributors, NEW o \in EdOrgs, NEW i \in EdIssues, NEW raw,
               EdTold(raw, type, c, o, i), edLog' = Append(edLog, raw), UNCHANGED <<edRead, edTable>>, EdSets',
               EdKnown' = EdRowMeans[<<EdKnown, EdRow(type, c, o, i)>>]
        PROVE  EdInv'
    <2>1. PICK r : r = EdRow(type, c, o, i)
      OBVIOUS
    <2>2. r \in EdRows
      BY <2>1, EdRowIs
    <2>3. parseRpcEvent(raw) = <<r>>
      BY <1>1, <2>1 DEF EdTold
    <2>4. EdKnown' = EdRowMeans[<<EdKnown, r>>]
      BY <1>1, <2>1
    <2>5. EdGoesOn(EdKnown, raw, EdKnown')
      BY <2>2, <2>3, <2>4 DEF EdGoesOn
    <2>6. QED
      BY <1>1, <2>5, EdPublishes
  <1>2. ASSUME NEW name \in {"maint_reg", "adm_xfer"}, NEW who, NEW data, publish(name, who, data),
               UNCHANGED <<edPending, edAssigned, edExpired>>
        PROVE  EdInv'
    <2>1. PICK raw : raw = [topics |-> <<str(name), str(who)>>, data |-> data]
      OBVIOUS
    <2>2. edLog' = Append(edLog, raw) /\ UNCHANGED <<edRead, edTable>>
      BY <1>2, <2>1 DEF publish
    <2>3. EdKnown' = EdKnown /\ EdSets'
      BY <1>0, <1>2 DEF EdKnown, EdSets
    <2>4. EdGoesOn(EdKnown, raw, EdKnown')
      BY <2>1, <2>3, EdParsesOther DEF EdGoesOn
    <2>5. QED
      BY <2>2, <2>3, <2>4, EdPublishes
  <1>3. ASSUME NEW c \in EdContributors, NEW o \in EdOrgs, NEW i \in EdIssues, NEW x \in EdKeys, x = <<c, o, i>>,
               x \notin edPending, edPending' = edPending \cup {x}, edExpired' = edExpired \ {x},
               emit_application_submitted(c, o, i), UNCHANGED edAssigned
        PROVE  EdInv'
    <2>1. PICK raw : raw = [topics |-> <<str("applied"), str(c)>>, data |-> tuple(<<str(o), num(i)>>)]
      OBVIOUS
    <2>2. edLog' = Append(edLog, raw) /\ UNCHANGED <<edRead, edTable>>
      BY <1>3, <2>1 DEF emit_application_submitted, publish
    <2>3. EdTold(raw, "applied", c, o, i)
      BY <2>1, EdParsesPair
    <2>4. EdSets'
      BY <1>0, <1>3 DEF EdSets
    <2>5. EdRowMeans[<<EdKnown, EdRow("applied", c, o, i)>>]
            = [pending |-> (edPending \cup edExpired) \cup {x}, assigned |-> edAssigned]
      BY <1>0, <1>3, EdRowIs DEF EdTypes
    <2>6. edPending' \cup edExpired' = (edPending \cup edExpired) \cup {x}
      BY <1>3
    <2>7. EdKnown' = EdRowMeans[<<EdKnown, EdRow("applied", c, o, i)>>]
      BY <1>3, <2>5, <2>6 DEF EdKnown
    <2>8. QED
      BY <1>1, <2>2, <2>3, <2>4, <2>7 DEF EdTypes
  <1>4. ASSUME NEW c \in EdContributors, NEW o \in EdOrgs, NEW i \in EdIssues, NEW x \in EdKeys, x = <<c, o, i>>,
               x \in edPending, edPending' = edPending \ {x}, emit_application_withdrawn(c, o, i),
               UNCHANGED <<edAssigned, edExpired>>
        PROVE  EdInv'
    <2>1. PICK raw : raw = [topics |-> <<str("withdrew"), str(c)>>, data |-> tuple(<<str(o), num(i)>>)]
      OBVIOUS
    <2>2. edLog' = Append(edLog, raw) /\ UNCHANGED <<edRead, edTable>>
      BY <1>4, <2>1 DEF emit_application_withdrawn, publish
    <2>3. EdTold(raw, "withdrew", c, o, i)
      BY <2>1, EdParsesPair
    <2>4. EdSets'
      BY <1>0, <1>4 DEF EdSets
    <2>5. EdRowMeans[<<EdKnown, EdRow("withdrew", c, o, i)>>]
            = [pending |-> (edPending \cup edExpired) \ {x}, assigned |-> edAssigned]
      BY <1>0, <1>4, EdRowIs DEF EdTypes
    <2>6. edPending' \cup edExpired' = (edPending \cup edExpired) \ {x}
      BY <1>0, <1>4 DEF EdSets
    <2>7. EdKnown' = EdRowMeans[<<EdKnown, EdRow("withdrew", c, o, i)>>]
      BY <1>4, <2>5, <2>6 DEF EdKnown
    <2>8. QED
      BY <1>1, <2>2, <2>3, <2>4, <2>7 DEF EdTypes
  <1>5. ASSUME NEW m, NEW c \in EdContributors, NEW o \in EdOrgs, NEW i \in EdIssues, NEW x \in EdKeys, x = <<c, o, i>>,
               x \in edPending, edPending' = edPending \ {x}, edAssigned' = edAssigned \cup {x},
               emit_issue_assigned(m, c, o, i), UNCHANGED edExpired
        PROVE  EdInv'
    <2>1. PICK raw : raw = [topics |-> <<str("assigned"), str(c)>>, data |-> tuple(<<str(m), str(o), num(i)>>)]
      OBVIOUS
    <2>2. edLog' = Append(edLog, raw) /\ UNCHANGED <<edRead, edTable>>
      BY <1>5, <2>1 DEF emit_issue_assigned, publish
    <2>3. EdTold(raw, "assigned", c, o, i)
      BY <2>1, EdParsesTriple
    <2>4. EdSets'
      BY <1>0, <1>5 DEF EdSets
    <2>5. EdRowMeans[<<EdKnown, EdRow("assigned", c, o, i)>>]
            = [pending |-> (edPending \cup edExpired) \ {x}, assigned |-> edAssigned \cup {x}]
      BY <1>0, <1>5, EdRowIs DEF EdTypes
    <2>6. edPending' \cup edExpired' = (edPending \cup edExpired) \ {x}
      BY <1>0, <1>5 DEF EdSets
    <2>7. EdKnown' = EdRowMeans[<<EdKnown, EdRow("assigned", c, o, i)>>]
      BY <1>5, <2>5, <2>6 DEF EdKnown
    <2>8. QED
      BY <1>1, <2>2, <2>3, <2>4, <2>7 DEF EdTypes
  <1>6. ASSUME NEW type \in {"completed", "revoked"}, NEW m,
               NEW c \in EdContributors, NEW o \in EdOrgs, NEW i \in EdIssues, NEW x \in EdKeys, x = <<c, o, i>>,
               edAssigned' = edAssigned \ {x}, publish(type, c, tuple(<<str(m), str(o), num(i)>>)),
               UNCHANGED <<edPending, edExpired>>
        PROVE  EdInv'
    <2>1. PICK raw : raw = [topics |-> <<str(type), str(c)>>, data |-> tuple(<<str(m), str(o), num(i)>>)]
      OBVIOUS
    <2>2. edLog' = Append(edLog, raw) /\ UNCHANGED <<edRead, edTable>>
      BY <1>6, <2>1 DEF publish
    <2>3. EdTold(raw, type, c, o, i)
      BY <2>1, EdParsesTriple
    <2>4. EdSets'
      BY <1>0, <1>6 DEF EdSets
    <2>5. EdRowMeans[<<EdKnown, EdRow(type, c, o, i)>>]
            = [pending |-> edPending \cup edExpired, assigned |-> edAssigned \ {x}]
      <3>1. type \in EdTypes
        BY DEF EdTypes
      <3>2. EdRowMeans[<<EdKnown, EdRow(type, c, o, i)>>] = [pending |-> EdKnown.pending, assigned |-> EdKnown.assigned \ {<<c, o, i>>}]
        BY <1>0, EdRowEnds
      <3>3. QED
        BY <1>0, <1>6, <3>2
    <2>6. EdKnown' = EdRowMeans[<<EdKnown, EdRow(type, c, o, i)>>]
      BY <1>6, <2>5 DEF EdKnown
    <2>7. QED
      BY <1>1, <2>2, <2>3, <2>4, <2>6 DEF EdTypes
  <1>7. ASSUME NEW c \in EdContributors, NEW o \in EdOrgs, NEW i \in EdIssues PROVE <<c, o, i>> \in EdKeys
    BY DEF EdKeys
  <1>8. ASSUME NEW m, NEW c \in EdContributors, NEW o \in EdOrgs, NEW i \in EdIssues, NEW x \in EdKeys, x = <<c, o, i>>,
               \/ /\ x \in edPending \ edAssigned
                  /\ edPending' = edPending \ {x} /\ edAssigned' = edAssigned \cup {x}
                  /\ emit_issue_assigned(m, c, o, i)
               \/ /\ x \in edAssigned /\ edAssigned' = edAssigned \ {x} /\ UNCHANGED edPending
                  /\ emit_assignment_completed(m, c, o, i) \/ emit_assignment_revoked(m, c, o, i),
               UNCHANGED edExpired
        PROVE  EdInv'
    <2>1. CASE emit_issue_assigned(m, c, o, i) /\ x \in edPending /\ edPending' = edPending \ {x} /\ edAssigned' = edAssigned \cup {x}
      BY <1>5, <1>8, <2>1
    <2>2. ASSUME edAssigned' = edAssigned \ {x}, UNCHANGED edPending, NEW type \in {"completed", "revoked"},
                 publish(type, c, tuple(<<str(m), str(o), num(i)>>))
          PROVE  EdInv'
      BY <1>6, <1>8, <2>2
    <2>3. QED
      BY <1>8, <2>1, <2>2 DEF emit_assignment_completed, emit_assignment_revoked
  <1>9. ASSUME NEW c \in EdContributors, NEW o \in EdOrgs, NEW i \in EdIssues, NEW x, x = <<c, o, i>>,
               \/ /\ x \notin edPending /\ edPending' = edPending \cup {x} /\ edExpired' = edExpired \ {x}
                  /\ emit_application_submitted(c, o, i) /\ UNCHANGED <<edAssigned, edRegistered>>
               \/ /\ x \in edPending /\ edPending' = edPending \ {x}
                  /\ emit_application_withdrawn(c, o, i) /\ UNCHANGED <<edAssigned, edRegistered, edExpired>>
               \/ \E m \in EdMaintainers :
                    /\ <<m, o>> \in edRegistered
                    /\ \/ /\ x \in edPending \ edAssigned
                          /\ edPending' = edPending \ {x} /\ edAssigned' = edAssigned \cup {x}
                          /\ emit_issue_assigned(m, c, o, i)
                       \/ /\ x \in edAssigned /\ edAssigned' = edAssigned \ {x} /\ UNCHANGED edPending
                          /\ emit_assignment_completed(m, c, o, i) \/ emit_assignment_revoked(m, c, o, i)
                    /\ UNCHANGED <<edRegistered, edExpired>>
        PROVE  EdInv'
    <2>1. x \in EdKeys
      BY <1>7, <1>9
    <2>2. QED
      BY <1>3, <1>4, <1>8, <1>9, <2>1
  <1>10. ASSUME NEW m, NEW o, emit_maintainer_registered(m, o) \/ emit_admin_transferred(m, o),
                UNCHANGED <<edPending, edAssigned, edExpired>>
         PROVE  EdInv'
    BY <1>2, <1>10 DEF emit_maintainer_registered, emit_admin_transferred
  <1>11. QED
    BY <1>9, <1>10, ZenonT(40) DEF EdContract

LEMMA EdInductive == EdInit /\ [][EdNext]_edVars => []EdInv
  <1>1. EdInit => EdInv
    <2> SUFFICES ASSUME EdInit PROVE EdInv
      OBVIOUS
    <2>1. edLog = <<>> /\ edRead = 0 /\ edTable = <<>> /\ edPending = {} /\ edExpired = {} /\ edAssigned = {}
      BY DEF EdInit
    <2>2. EdTypes0
      BY <2>1 DEF EdTypes0
    <2>3. PICK hist : hist = [k \in 0..0 |-> EdNothing]
      OBVIOUS
    <2>4. EdNothing \in EdStates
      BY DEF EdNothing, EdStates
    <2>5. FoldFrom(EdRowMeans, EdNothing, <<>>) = EdNothing
      <3>1. PICK V, X, st, base : V = EdStates /\ X = EdRows /\ st = EdRowMeans /\ base = EdNothing
        OBVIOUS
      <3>2. base \in V /\ \A v \in V, x \in X : st[<<v, x>>] \in V
        BY <2>4, <3>1, EdMeansType
      <3>3. <<>> \in Seq(X)
        OBVIOUS
      <3>4. FoldFrom(st, base, <<>>) = base
        BY <3>2, <3>3, FoldType
      <3>5. QED
        BY <3>1, <3>4
    <2>6. Len(<<>>) = 0
      OBVIOUS
    <2>7. hist \in [0..0 -> EdStates] /\ hist[0] = EdNothing
      BY <2>3, <2>4
    <2>8. [pending |-> {} \cup {}, assigned |-> {}] = EdNothing
      BY DEF EdNothing
    <2>9. EdHistory(hist)
      BY <2>1, <2>5, <2>6, <2>7, <2>8 DEF EdHistory
    <2>10. QED
      BY <2>2, <2>9 DEF EdInv
  <1>2. EdInv /\ [EdNext]_edVars => EdInv'
    <2> SUFFICES ASSUME EdInv, [EdNext]_edVars PROVE EdInv'
      OBVIOUS
    <2>1. CASE UNCHANGED edVars
      BY <2>1 DEF edVars, EdInv, EdTypes0, EdHistory
    <2>2. CASE EdExpire
      <3>1. PICK x \in edPending : /\ edPending' = edPending \ {x} /\ edExpired' = edExpired \cup {x}
                                   /\ UNCHANGED <<edAssigned, edRegistered, edLog, edRead, edTable>>
        BY <2>2 DEF EdExpire
      <3>2. edPending' \cup edExpired' = edPending \cup edExpired
        BY <3>1
      <3>3. EdTypes0'
        BY <3>1 DEF EdInv, EdTypes0
      <3>4. \A hist : EdHistory(hist) => EdHistory(hist)'
        BY <3>1, <3>2 DEF EdHistory
      <3>5. QED
        BY <3>3, <3>4 DEF EdInv
    <2>3. QED
      BY <2>1, <2>2, EdIndexes, EdActs DEF EdNext
  <1>3. QED
    BY <1>1, <1>2, PTL

LEMMA EdResult == EdInv => EdRebuilt
  <1> SUFFICES ASSUME EdInv, edRead = Len(edLog)
               PROVE  EdReplay = [pending |-> edPending \cup edExpired, assigned |-> edAssigned]
    BY DEF EdRebuilt
  <1>1. PICK hist : EdHistory(hist)
    BY DEF EdInv
  <1>2. EdReplay = FoldFrom(EdRowMeans, EdNothing, edTable)
    BY DEF EdReplay, FoldFrom
  <1>3. QED
    BY <1>1, <1>2 DEF EdHistory

-----------------------------------------------------------------------------
(* Types. *)

LEMMA AaTypes == AaInit /\ [][AaNext]_aaVars => []AaTypeOK
  <1> DEFINE Typed == /\ aaWho \in AaWho \cup {"null"} /\ aaState \in {"idle", "loading", "loaded", "error"}
                      /\ (aaWho # "null" /\ aaState \in {"idle", "loading"}) => aaLoads # {}
  <1>1. AaInit => Typed
    BY DEF AaInit
  <1>2. Typed /\ [AaNext]_aaVars => Typed'
    <2> SUFFICES ASSUME Typed, [AaNext]_aaVars PROVE Typed'
      OBVIOUS
    <2>1. ASSUME NEW who \in AaWho \cup {"null"}, aaWho' = who, loadGroups(who) PROVE Typed'
      BY <2>1 DEF loadGroups
    <2>2. CASE AaChange
      BY <2>2 DEF AaChange
    <2>3. CASE reloadGroups
      BY <2>1, <2>3 DEF reloadGroups
    <2>4. CASE \E who \in AaWho \cup {"null"} : setWallet(who)
      BY <2>1, <2>4 DEF setWallet
    <2>5. ASSUME NEW l \in aaLoads, get_org_assignment_count(l) PROVE Typed'
      BY <2>5 DEF get_org_assignment_count
    <2>6. ASSUME NEW l \in aaLoads, list_org_assignments(l) PROVE Typed'
      BY <2>6 DEF list_org_assignments
    <2>7. ASSUME NEW l \in aaLoads, groupsLoaded(l) \/ groupsFailed(l) PROVE Typed'
      BY <2>7 DEF groupsLoaded, groupsFailed, stateAfter
    <2>8. CASE UNCHANGED aaVars
      BY <2>8 DEF aaVars
    <2>9. QED
      BY <2>2, <2>3, <2>4, <2>5, <2>6, <2>7, <2>8 DEF AaNext
  <1>3. Typed => AaTypeOK
    BY DEF AaTypeOK, assignmentsShown
  <1>4. QED
    BY <1>1, <1>2, <1>3, PTL

\* A request has a number of its own, and as the answer never says that there is more,
\* all of them ask for the beginning.
AfLoadsOK(loads) == /\ \A l \in loads : l.n \in 1..AfMaxLoads /\ l.offset = 0
                    /\ \A l, m \in loads : l.n = m.n => l = m

LEMMA AfFewLoads == ASSUME NEW loads, AfLoadsOK(loads) PROVE Cardinality(loads) <= AfMaxLoads
  <1> DEFINE f == [l \in loads |-> l.n]
  <1>1. f \in Injection(loads, 1..AfMaxLoads)
    BY DEF AfLoadsOK, Injection, IsInjective
  <1>2. IsFiniteSet(1..AfMaxLoads) /\ Cardinality(1..AfMaxLoads) = AfMaxLoads
    BY AfAssumption, FS_Interval
  <1>3. QED
    BY <1>1, <1>2, FS_Injection

LEMMA AfTypes == AfInit /\ [][AfNext]_afVars => []AfTypeOK
  <1> DEFINE Typed == /\ afFilter \in DOMAIN AfCount /\ afMore \in BOOLEAN /\ afLoading \in BOOLEAN
                      /\ afError \in BOOLEAN /\ afOverlap \in BOOLEAN
                      /\ afOffset \in {0, AfPageSize} /\ (afMore => afOffset = 0) /\ (afLoading => afLoads # {})
                      /\ AfLoadsOK(afLoads)
  <1>0. AfMaxLoads \in Nat \ {0} /\ AfPageSize \in Nat \ {0}
    BY AfAssumption
  <1>1. AfInit => Typed
    <2> SUFFICES ASSUME AfInit PROVE Typed
      OBVIOUS
    <2>1. PICK l : l = [n |-> 1, filter |-> afFilter, offset |-> 0, reset |-> TRUE]
      OBVIOUS
    <2>2. afLoads = {l} /\ l.n = 1 /\ l.offset = 0 /\ 1 \in 1..AfMaxLoads
      BY <1>0, <2>1 DEF AfInit
    <2>3. AfLoadsOK(afLoads)
      BY <2>2 DEF AfLoadsOK
    <2>4. QED
      BY <2>2, <2>3 DEF AfInit
  <1>2. Typed /\ [AfNext]_afVars => Typed'
    <2> SUFFICES ASSUME Typed, [AfNext]_afVars PROVE Typed'
      OBVIOUS
    <2>1. ASSUME NEW filter, NEW reset, feedRequest(filter, 0, reset)
          PROVE  AfLoadsOK(afLoads') /\ afLoads' # {} /\ afLoading' = TRUE /\ afError' = FALSE
      <3>1. PICK n \in 1..AfMaxLoads :
               /\ \A l \in afLoads : l.n # n
               /\ afLoads' = afLoads \cup {[n |-> n, filter |-> filter, offset |-> 0, reset |-> reset]}
               /\ afLoading' = TRUE /\ afError' = FALSE
        BY <2>1 DEF feedRequest
      <3>2. PICK l : l = [n |-> n, filter |-> filter, offset |-> 0, reset |-> reset]
        OBVIOUS
      <3>3. l.n = n /\ l.offset = 0
        BY <3>2
      <3>4. QED
        BY <3>1, <3>2, <3>3 DEF AfLoadsOK
    <2>2. ASSUME NEW filter \in DOMAIN AfCount, startFeed(filter) PROVE Typed'
      BY <2>1, <2>2 DEF startFeed
    <2>3. CASE feedScroll
      <3>1. afMore /\ feedRequest(afFilter, afOffset, FALSE) /\ afOverlap' = (afOverlap \/ afLoads # {}) /\ UNCHANGED <<afFilter, afOffset, afMore>>
        BY <2>3 DEF feedScroll
      <3>2. feedRequest(afFilter, 0, FALSE)
        BY <3>1
      <3>3. AfLoadsOK(afLoads') /\ afLoads' # {} /\ afLoading' = TRUE /\ afError' = FALSE
        BY <2>1, <3>2
      <3>4. QED
        BY <3>1, <3>3
    <2>4. ASSUME NEW l \in afLoads, feedAnswered(l) PROVE Typed'
      <3>1. afLoads' = afLoads \ {l} /\ afLoading' = FALSE /\ UNCHANGED <<afFilter, afOverlap>>
        BY <2>4 DEF feedAnswered, loadingAfter
      <3>2. AfLoadsOK(afLoads') /\ l.offset = 0
        BY <3>1 DEF AfLoadsOK
      <3>3. CASE afMore' = FALSE /\ afOffset' = l.offset + AfPageSize /\ UNCHANGED afError
        <4>1. afOffset' = AfPageSize
          BY <1>0, <3>2, <3>3
        <4>2. QED
          BY <3>1, <3>2, <3>3, <4>1
      <3>4. CASE afError' = TRUE /\ UNCHANGED <<afMore, afOffset>>
        BY <3>1, <3>2, <3>4
      <3>5. QED
        BY <2>4, <3>3, <3>4 DEF feedAnswered, moreRead
    <2>5. CASE UNCHANGED afVars
      BY <2>5 DEF afVars
    <2>6. QED
      <3>1. CASE \E filter \in DOMAIN AfCount : setFeedFilter(filter)
        BY <2>2, <3>1 DEF setFeedFilter
      <3>2. CASE retryFeed
        BY <2>2, <3>2 DEF retryFeed
      <3>3. QED
        BY <2>3, <2>4, <2>5, <3>1, <3>2 DEF AfNext
  <1>3. Typed => AfTypeOK
    <2>1. ASSUME NEW o \in {0, AfPageSize} PROVE o % AfPageSize = 0
      BY <1>0
    <2>2. QED
      BY <2>1, AfFewLoads DEF AfTypeOK
  <1>4. QED
    BY <1>1, <1>2, <1>3, PTL

\* Batches that are done are part of the list.
LEMMA TtlTypesHold == TtlInv => TtlTypeOK
  <1> SUFFICES ASSUME TtlInv PROVE TtlTypeOK
    OBVIOUS
  <1>1. ttlJob \in TtlJobs /\ TtlTypes
    BY DEF TtlInv, TtlTypes
  <1>2. ttlJob.extended + ttlJob.failed <= ttlJob.loaded
    <2>1. ttlJob.loaded \in Nat
      BY <1>1 DEF TtlJobs
    <2>2. CASE ttlJob.extended + ttlJob.failed = ttlJob.loaded
      BY <2>1, <2>2
    <2>3. CASE \E s, k : TtlWalk(s, k)
      <3>1. PICK s, k : TtlWalk(s, k)
        BY <2>3
      <3>2. ttlJob.loaded = Len(s) /\ ttlJob.extended + ttlJob.failed = TtlDone(s, k)
        BY <3>1 DEF TtlWalk
      <3>3. PICK d : d = k * TtlBatchSize
        OBVIOUS
      <3>4. k \in Int /\ TtlBatchSize \in Nat
        BY <3>1, TtlAssumption DEF TtlWalk
      <3>5. d \in Int
        BY <3>3, <3>4
      <3>6. TtlDone(s, k) = IF d < Len(s) THEN d ELSE Len(s)
        BY <3>3 DEF TtlDone
      <3>7. QED
        BY <2>1, <3>2, <3>5, <3>6
    <2>4. QED
      BY <2>2, <2>3 DEF TtlInv, TtlRun
  <1>3. ttlJob.pc \in {"idle", "load", "batches"}
    BY <1>1 DEF TtlJobs
  <1>4. QED
    BY <1>1, <1>2, <1>3 DEF TtlTypes, TtlTypeOK

LEMMA EdTypesHold == EdInv => EdTypeOK
  <1> SUFFICES ASSUME EdInv PROVE EdTypeOK
    OBVIOUS
  <1>1. edRead \in 0..Len(edLog) /\ edTable \in Seq(EdRows) /\ Len(edTable) <= edRead
    BY DEF EdInv, EdTypes0
  <1>2. \A k \in DOMAIN edTable : edTable[k] \in EdRows
    BY <1>1
  <1>3. \A r \in EdRows : /\ r.contributor \in {str(c) : c \in EdContributors}
                          /\ r.org_id \in {str(o) : o \in EdOrgs}
                          /\ r.issue_id \in {num(i) : i \in EdIssues}
    BY DEF EdRows
  <1>4. QED
    BY <1>1, <1>2, <1>3 DEF EdTypeOK

\* A page with more behind it is not the last row.
LEMMA PgStops ==
  ASSUME NEW l \in Nat, l >= 1, NEW p \in Nat, NEW c \in Nat
  PROVE  (p * l < c => p < c) /\ (p < Ceil(c, l) => p < c)
  <1>1. p * l >= p /\ p * l \in Nat /\ c * l >= c /\ c * l \in Nat
    BY SMT
  <1>2. PICK q : q = (c + l - 1) \div l
    OBVIOUS
  <1>3. c + l - 1 \in Nat
    OBVIOUS
  <1>4. q \in Nat /\ q * l <= c + l - 1
    BY <1>2, <1>3, DivBounds
  <1>5. ASSUME p < q PROVE p < c
    <2>1. ASSUME c < q PROVE FALSE
      <3>1. (c + 1) * l <= q * l /\ (c + 1) * l = c * l + l
        BY <1>4, <2>1
      <3>2. QED
        BY <1>1, <1>4, <3>1
    <2>2. QED
      BY <1>4, <1>5, <2>1
  <1>6. QED
    BY <1>1, <1>2, <1>5 DEF Ceil

LEMMA PgGoesOn ==
  ASSUME PgTypes, pgCount \in 0..pgTotal, NEW a, a = pgAnswer(pgList, pgPage, pgAsk)
  PROVE  a.rows \subseteq 1..pgTotal /\ (a.more => pgPage < pgTotal)
  <1>1. PICK p, T, c, k, m : /\ p = pgPage /\ T = pgTotal /\ c = pgCount /\ k = clampLimit(pgAsk)
                             /\ m = clampLimit(IF pgAsk = 0 THEN PgDefault ELSE pgAsk)
    OBVIOUS
  <1>2. p \in Nat /\ p >= 1 /\ T \in Nat /\ c \in Nat /\ c <= T
    BY <1>1 DEF PgTypes
  <1>3. PgCap \in Nat \ {0} /\ PgDefault \in Nat \ {0} /\ pgAsk \in Nat
    BY PgAssumption DEF PgTypes
  <1>4. k \in Nat /\ k >= 1 /\ m \in Nat /\ m >= 1
    BY <1>1, <1>3 DEF clampLimit, PgMin, PgMax
  <1>5. \A o, l : pgSlice(o, l) \subseteq 1..pgTotal
    BY DEF pgSlice
  <1>6. ASSUME NEW l \in Nat, l >= 1, p * l < c \/ p < Ceil(c, l) \/ p * l < T PROVE p < T
    BY <1>2, <1>6, PgStops
  <1>7. CASE pgList = "issues"
    <2>1. a = [rows |-> pgSlice((p - 1) * m, m), more |-> p < Ceil(c, m)]
      BY <1>1, <1>7 DEF pgAnswer, issuesPage
    <2>2. a.rows = pgSlice((p - 1) * m, m) /\ a.more = (p < Ceil(c, m))
      BY <2>1
    <2>3. QED
      BY <1>1, <1>4, <1>5, <1>6, <2>2
  <1>8. CASE pgList = "events"
    <2>1. a = [rows |-> pgSlice((p - 1) * k, k), more |-> (p - 1) * k + k < c]
      BY <1>1, <1>8 DEF pgAnswer, eventsPage, hasMore
    <2>2. a.rows = pgSlice((p - 1) * k, k) /\ a.more = ((p - 1) * k + k < c)
      BY <2>1
    <2>3. (p - 1) * k + k = p * k
      BY <1>2, <1>4
    <2>4. QED
      BY <1>1, <1>4, <1>5, <1>6, <2>2, <2>3
  <1>9. CASE pgList = "applications"
    <2>1. a = [rows |-> pgSlice((p - 1) * k, k), more |-> p * k < c]
      BY <1>1, <1>9 DEF pgAnswer, applicationsPage
    <2>2. a.rows = pgSlice((p - 1) * k, k) /\ a.more = (p * k < c)
      BY <2>1
    <2>3. QED
      BY <1>1, <1>4, <1>5, <1>6, <2>2
  <1>10. CASE pgList = "audit"
    <2>1. PICK l : l = PgMin(pgAsk, PgCap)
      OBVIOUS
    <2>2. l \in Nat /\ l >= 1
      BY <1>3, <1>10, <2>1 DEF PgMin, PgTypes
    <2>3. a = [rows |-> pgSlice((p - 1) * pgAsk, l), more |-> p < Ceil(c, l)]
      BY <1>1, <1>10, <2>1 DEF pgAnswer, auditPage
    <2>4. a.rows = pgSlice((p - 1) * pgAsk, l) /\ a.more = (p < Ceil(c, l))
      BY <2>3
    <2>5. QED
      BY <1>1, <1>5, <1>6, <2>2, <2>4
  <1>11. CASE pgList = "github"
    <2>1. PICK items : items = pgSlice((p - 1) * k, k)
      OBVIOUS
    <2>2. a = [rows |-> items \ {pgPull}, more |-> p * k < T /\ Cardinality(items \ {pgPull}) = k]
      BY <1>1, <1>11, <2>1 DEF pgAnswer, githubPage
    <2>3. a.rows = items \ {pgPull} /\ a.more = (p * k < T /\ Cardinality(items \ {pgPull}) = k)
      BY <2>2
    <2>4. a.more => p * k < T
      BY <2>3, Zenon
    <2>5. QED
      BY <1>1, <1>4, <1>5, <1>6, <2>1, <2>3, <2>4
  <1>12. QED
    BY <1>7, <1>8, <1>9, <1>10, <1>11 DEF PgTypes, PgLists

LEMMA PgTypesHold == PgInit /\ [][PgNext]_pgVars => []PgTypeOK
  <1> DEFINE Top == IF pgTotal > 1 THEN pgTotal ELSE 1
             Typed == /\ pgSeen \subseteq 1..pgTotal /\ pgCount \in -1..pgTotal /\ (pgCount >= 0 => pgMore)
                      /\ pgPage <= Top + 1 /\ (pgMore => pgPage <= Top)
  <1>1. PgInit => Typed
    <2> SUFFICES ASSUME PgInit PROVE Typed
      OBVIOUS
    <2>1. pgTotal \in Nat
      BY PgAssumption DEF PgInit
    <2>2. QED
      BY <2>1 DEF PgInit
  <1>2. PgInv /\ Typed /\ [PgNext]_pgVars => Typed'
    <2> SUFFICES ASSUME PgInv, Typed, [PgNext]_pgVars PROVE Typed'
      OBVIOUS
    <2>0. pgTotal \in Nat /\ pgPage \in Nat /\ pgPage >= 1 /\ PgTypes /\ Top \in Nat
      BY DEF PgInv, PgTypes
    <2>1. CASE countRows
      <3>1. pgMore /\ pgCount' = pgTotal - pgLeft /\ UNCHANGED <<pgTotal, pgPage, pgSeen, pgMore>>
        BY <2>1 DEF countRows
      <3>2. pgCount' \in -1..pgTotal
        BY <2>0, <3>1 DEF PgTypes
      <3>3. QED
        BY <3>1, <3>2
    <2>2. CASE insertRow
      <3>1. pgTotal' = pgTotal + 1 /\ UNCHANGED <<pgPage, pgCount, pgSeen, pgMore>>
        BY <2>2 DEF insertRow
      <3>2. pgSeen' \subseteq 1..pgTotal' /\ pgCount' \in -1..pgTotal' /\ Top <= Top'
        BY <2>0, <3>1
      <3>3. pgPage' <= Top' + 1 /\ (pgMore => pgPage' <= Top')
        BY <2>0, <3>1, <3>2
      <3>4. QED
        BY <3>1, <3>2, <3>3
    <2>3. CASE readPage
      <3>1. PICK a : a = pgAnswer(pgList, pgPage, pgAsk)
        OBVIOUS
      <3>2. /\ pgCount >= 0 /\ pgSeen' = pgSeen \cup a.rows /\ pgPage' = pgPage + 1 /\ pgCount' = -1
            /\ pgMore' = a.more /\ pgTotal' = pgTotal
        BY <2>3, <3>1 DEF readPage
      <3>3. pgCount \in 0..pgTotal /\ pgPage <= Top
        BY <2>0, <3>2
      <3>4. a.rows \subseteq 1..pgTotal /\ (a.more => pgPage < pgTotal)
        BY <2>0, <3>1, <3>3, PgGoesOn
      <3>5. pgPage' <= Top' + 1 /\ (a.more => pgPage' <= Top')
        BY <2>0, <3>2, <3>3, <3>4
      <3>6. pgCount' \in -1..pgTotal' /\ ~(pgCount' >= 0)
        BY <2>0, <3>2
      <3>7. QED
        BY <3>2, <3>4, <3>5, <3>6
    <2>4. CASE (\E x \in 1..pgTotal : rowLeaves(x)) \/ UNCHANGED pgVars
      <3>1. UNCHANGED <<pgTotal, pgPage, pgCount, pgSeen, pgMore>>
        BY <2>4 DEF rowLeaves, pgVars
      <3>2. QED
        BY <3>1
    <2>5. QED
      BY <2>1, <2>2, <2>3, <2>4 DEF PgNext
  <1>3. PgInv /\ Typed => PgTypeOK
    <2> SUFFICES ASSUME PgInv, Typed PROVE PgTypeOK
      OBVIOUS
    <2>0. pgTotal \in Nat /\ pgPage \in Nat /\ pgPage >= 1
      BY DEF PgInv, PgTypes
    <2>1. PgMax(1, pgTotal) = Top /\ Top \in Nat
      BY <2>0 DEF PgMax
    <2>2. pgPage \in 1..(PgMax(1, pgTotal) + 1)
      BY <2>0, <2>1
    <2>3. QED
      BY <2>2 DEF PgTypeOK
  <1>4. QED
    BY <1>1, <1>2, <1>3, PgInductive, PTL

-----------------------------------------------------------------------------
\* The list held is one there is, or the beginning of one.
EtPageOK(page) == \E n \in EtLengths : n \in Nat /\ page \in 1..totalPages(n)
EtListed(rows) == EtListOK(rows) /\ \E n \in EtLengths : n \in Nat /\ Len(rows) <= n

LEMMA EtMorePages == ASSUME NEW m \in Nat, NEW n \in Nat, m <= n
                     PROVE  totalPages(m) \in Nat /\ totalPages(m) >= 1 /\ totalPages(m) <= totalPages(n)
  <1> DEFINE q(x) == (x + EtPageSize - 1) \div EtPageSize
  <1>0. EtPageSize \in Nat /\ EtPageSize >= 1
    BY EtAssumption
  <1>1. ASSUME NEW x \in Nat, x >= 1 PROVE q(x) \in Nat /\ q(x) >= 1 /\ q(x) * EtPageSize <= x + EtPageSize - 1 /\ x + EtPageSize - 1 < q(x) * EtPageSize + EtPageSize
    <2>1. x + EtPageSize - 1 \in Nat
      BY <1>0
    <2>2. q(x) \in Nat /\ q(x) * EtPageSize <= x + EtPageSize - 1 /\ x + EtPageSize - 1 < q(x) * EtPageSize + EtPageSize
      BY <1>0, <2>1, DivBounds
    <2>3. q(x) # 0
      BY <1>0, <1>1, <2>2
    <2>4. QED
      BY <2>2, <2>3
  <1>2. ASSUME m >= 1 PROVE q(m) <= q(n)
    <2>1. PICK a, b : a = q(m) /\ b = q(n)
      OBVIOUS
    <2>2. /\ a \in Nat /\ b \in Nat /\ a * EtPageSize <= m + EtPageSize - 1 /\ n + EtPageSize - 1 < b * EtPageSize + EtPageSize
      BY <1>1, <1>2, <2>1
    <2>3. ASSUME b < a PROVE FALSE
      <3>1. (b + 1) * EtPageSize <= a * EtPageSize /\ (b + 1) * EtPageSize = b * EtPageSize + EtPageSize
        BY <1>0, <2>2, <2>3
      <3>2. a * EtPageSize \in Nat /\ b * EtPageSize \in Nat
        BY <1>0, <2>2
      <3>3. QED
        BY <1>0, <2>2, <3>1, <3>2
    <2>4. QED
      BY <2>1, <2>2, <2>3
  <1>3. CASE m = 0
    BY <1>1, <1>3 DEF totalPages
  <1>4. CASE m >= 1
    BY <1>1, <1>2, <1>4 DEF totalPages
  <1>5. QED
    BY <1>3, <1>4

\* The pages of the table are pages of a list there is.
LEMMA EtTablePages ==
  ASSUME NEW rows, EtListed(rows), NEW view, NEW n, n = Len(tableRows(rows, view))
  PROVE  n \in Nat /\ \A page \in 1..totalPages(n) : EtPageOK(page)
  <1>1. Len(rows) \in Nat /\ DOMAIN rows = 1..Len(rows)
    BY DEF EtListed, EtListOK
  <1>2. PICK kept : kept = filteredRows(rows, view.filter)
    OBVIOUS
  <1>3. kept \subseteq 1..Len(rows)
    BY <1>1, <1>2 DEF filteredRows
  <1>4. IsFiniteSet(1..Len(rows)) /\ Cardinality(1..Len(rows)) = Len(rows)
    <2>1. PICK len : len = Len(rows)
      OBVIOUS
    <2>2. IsFiniteSet(1..len) /\ Cardinality(1..len) = len
      <3>1. len \in Nat
        BY <1>1, <2>1
      <3>2. QED
        BY <3>1, FS_Interval
    <2>3. QED
      BY <2>1, <2>2
  <1>5. IsFiniteSet(kept) /\ Cardinality(kept) <= Len(rows) /\ Cardinality(kept) \in Nat
    <2>1. IsFiniteSet(kept) /\ Cardinality(kept) <= Cardinality(1..Len(rows))
      BY <1>3, <1>4, FS_Subset
    <2>2. QED
      BY <1>4, <2>1, FS_CardinalityType
  <1>6. PICK t, c : t = tableRows(rows, view) /\ c = Cardinality(kept)
    OBVIOUS
  <1>7. DOMAIN t = 1..c
    BY <1>2, <1>6 DEF tableRows, sortedRows
  <1>8. (\E X : t \in Seq(X)) /\ c \in Nat
    BY <1>5, <1>6, EtTable DEF EtListed
  <1>9. Len(t) = c
    BY <1>7, <1>8, LenProperties
  <1>10. PICK m \in EtLengths : m \in Nat /\ Len(rows) <= m
    BY DEF EtListed
  <1>11. n \in Nat /\ n <= m
    BY <1>1, <1>5, <1>6, <1>9, <1>10
  <1>12. totalPages(n) \in Nat /\ totalPages(n) <= totalPages(m) /\ totalPages(m) \in Nat
    BY <1>10, <1>11, EtMorePages
  <1>13. \A page \in 1..totalPages(n) : page \in 1..totalPages(m)
    BY <1>12
  <1>14. QED
    BY <1>10, <1>11, <1>13 DEF EtPageOK

LEMMA EtTypes == EtInit /\ [][EtNext]_etVars => []EtTypeOK
  <1> DEFINE Typed == /\ etWho \in DOMAIN EtLog /\ etLoads \subseteq DOMAIN EtLog /\ EtListed(etEvents)
                      /\ EtPageOK(etView.page) /\ etView.filter \in EtFilters /\ etView.dir \in {"asc", "desc"}
  <1>0. EtPageOK(1)
    <2>1. 0 \in EtLengths
      BY DEF EtLengths
    <2>2. QED
      BY <2>1 DEF EtPageOK, totalPages
  <1>01. \A rows \in EtLists \cup {<<>>} : EtListed(rows)
    <2>1. \A rows \in EtLists : EtListed(rows)
      BY EtAssumption DEF EtListed, EtListOK, EtLengths
    <2>2. Len(<<>>) = 0 /\ DOMAIN <<>> = 1..0
      OBVIOUS
    <2>3. EtListed(<<>>)
      BY <2>2 DEF EtListed, EtListOK, EtLengths
    <2>4. QED
      BY <2>1, <2>3
  <1>1. EtInit => Typed
    <2> SUFFICES ASSUME EtInit PROVE Typed
      OBVIOUS
    <2>1. PICK a : a = ~etInjected
      OBVIOUS
    <2>2. etView = [loading |-> a, error |-> FALSE, dir |-> "desc", filter |-> "all", page |-> 1]
      BY <2>1 DEF EtInit, EtFirst
    <2>3. etView.page = 1 /\ etView.dir = "desc" /\ etView.filter = "all"
      BY <2>2
    <2>4. QED
      BY <1>0, <1>01, <2>3, EtAssumption DEF EtInit
  <1>2. EtInv /\ Typed /\ [EtNext]_etVars => Typed'
    <2> SUFFICES ASSUME EtInv, Typed, [EtNext]_etVars PROVE Typed'
      OBVIOUS
    <2>0. EtViewOK(etView)
      BY DEF EtInv
    <2>01. 1 \in Nat \ {0}
      OBVIOUS
    <2>1. ASSUME NEW rows, EtListed(rows), NEW dir \in {"asc", "desc"}, NEW filter \in EtFilters,
                 NEW page, EtPageOK(page), NEW following, NEW view, EtSays(view, dir, filter, page),
                 Show(rows, view, following), etWho' \in DOMAIN EtLog, etLoads' \subseteq DOMAIN EtLog
          PROVE  Typed'
      <3>1. etEvents' = rows /\ etView' = view
        BY <2>1 DEF Show
      <3>2. QED
        BY <2>1, <3>1 DEF EtSays
    <2>2. CASE \E rows \in EtLists : setPropEvents(rows)
      <3>1. PICK rows \in EtLists : Show(rows, etView, FALSE) /\ UNCHANGED <<etWho, etLoads>>
        BY <2>2 DEF setPropEvents
      <3>2. etEvents' = rows /\ etView' = etView
        BY <3>1 DEF Show
      <3>3. QED
        BY <1>01, <3>1, <3>2
    <2>3. ASSUME NEW who \in DOMAIN EtLog, fetchEventRows(who), etWho' \in DOMAIN EtLog PROVE Typed'
      <3>1. PICK a, b, view : a = TRUE /\ b = FALSE /\ view = [etView EXCEPT !.loading = a, !.error = b]
        OBVIOUS
      <3>2. etLoads' = etLoads \cup {who} /\ Show(etEvents, view, FALSE)
        BY <2>3, <3>1 DEF fetchEventRows
      <3>3. EtSays(view, etView.dir, etView.filter, etView.page)
        BY <2>0, <2>01, <3>1, EtEdits, Zenon
      <3>4. QED
        BY <2>1, <2>3, <3>2, <3>3
    <2>4. CASE \E who \in DOMAIN EtLog : setContributor(who)
      BY <2>3, <2>4 DEF setContributor
    <2>5. CASE retryEvents
      BY <2>3, <2>5 DEF retryEvents
    <2>6. ASSUME NEW who \in DOMAIN EtLog, NEW ok \in BOOLEAN, eventsAnswered(who, ok) PROVE Typed'
      <3>1. PICK rows, a, b, view : /\ rows = IF ok THEN apiRows(who) ELSE etEvents
                                    /\ a = FALSE /\ b = (etView.error \/ ~ok)
                                    /\ view = [etView EXCEPT !.loading = a, !.error = b]
        OBVIOUS
      <3>2. etLoads' = etLoads \ {who} /\ UNCHANGED etWho /\ Show(rows, view, FALSE)
        BY <2>6, <3>1 DEF eventsAnswered
      <3>3. EtSays(view, etView.dir, etView.filter, etView.page)
        BY <2>0, <2>01, <3>1, EtEdits, Zenon
      <3>5. EtListed(rows)
        <4>1. PICK n : n = EtMin(EtLog[who], EtServerCap)
          OBVIOUS
        <4>2. n \in Nat /\ n <= EtLog[who] /\ EtLog[who] \in Nat
          BY <4>1, EtAssumption DEF EtMin
        <4>3. PICK s, X : s = apiRows(who) /\ X = {[type |-> "undefined", ts |-> 0, pos |-> k] : k \in 1..n}
          OBVIOUS
        <4>4. s \in [1..n -> X]
          BY <4>1, <4>3 DEF apiRows
        <4>5. DOMAIN s = 1..n /\ Len(s) = n
          BY <4>2, <4>4
        <4>6. EtLog[who] \in EtLengths
          BY DEF EtLengths
        <4>7. EtListed(s)
          BY <4>2, <4>5, <4>6 DEF EtListed, EtListOK
        <4>8. QED
          BY <3>1, <4>3, <4>7
      <3>6. QED
        BY <2>1, <3>2, <3>3, <3>5
    <2>7. CASE toggleSort
      <3>1. PICK dir, view : /\ dir = (IF etView.dir = "desc" THEN "asc" ELSE "desc")
                             /\ view = [etView EXCEPT !.dir = dir, !.page = 1]
        OBVIOUS
      <3>2. dir \in {"asc", "desc"}
        BY <3>1
      <3>3. Show(etEvents, view, FALSE) /\ UNCHANGED <<etWho, etLoads>>
        BY <2>7, <3>1 DEF toggleSort
      <3>4. EtSays(view, dir, etView.filter, 1)
        BY <2>0, <2>01, <3>1, EtEdits, Zenon
      <3>5. QED
        BY <1>0, <2>1, <3>2, <3>3, <3>4
    <2>8. ASSUME NEW filter \in EtFilters, handleFilterChange(filter) PROVE Typed'
      <3>1. PICK view : view = [etView EXCEPT !.filter = filter, !.page = 1]
        OBVIOUS
      <3>2. Show(etEvents, view, FALSE) /\ UNCHANGED <<etWho, etLoads>>
        BY <2>8, <3>1 DEF handleFilterChange
      <3>3. EtSays(view, etView.dir, filter, 1)
        BY <2>0, <2>01, <3>1, EtEdits, Zenon
      <3>4. QED
        BY <1>0, <2>1, <3>2, <3>3
    <2>9. CASE turnPage
      <3>1. PICK n, at, last : n = Len(tableRows(etEvents, etView)) /\ at = safePage(etView.page, n) /\ last = totalPages(n)
        OBVIOUS
      <3>2. n \in Nat /\ \A page \in 1..last : EtPageOK(page)
        BY <3>1, EtTablePages
      <3>3. last \in Nat /\ last >= 1
        BY <3>1, <3>2, EtMorePages
      <3>4. at \in 1..last
        BY <2>0, <3>1, <3>3 DEF safePage, EtMin, EtViewOK
      <3>5. ASSUME NEW page \in 1..last, NEW following, Show(etEvents, [etView EXCEPT !.page = page], following)
            PROVE  Typed'
        <4>1. PICK view : view = [etView EXCEPT !.page = page]
          OBVIOUS
        <4>2. page \in Nat \ {0}
          OBVIOUS
        <4>3. EtSays(view, etView.dir, etView.filter, page)
          BY <2>0, <4>1, <4>2, EtEdits
        <4>4. UNCHANGED <<etWho, etLoads>>
          BY <2>9 DEF turnPage
        <4>5. QED
          BY <2>1, <3>2, <3>5, <4>1, <4>3, <4>4
      <3>6. \/ at # 1 /\ (Show(etEvents, [etView EXCEPT !.page = 1], FALSE) \/ Show(etEvents, [etView EXCEPT !.page = at - 1], FALSE))
            \/ at # last /\ Show(etEvents, [etView EXCEPT !.page = at + 1], at = etView.page)
            \/ at # last /\ Show(etEvents, [etView EXCEPT !.page = last], FALSE)
        BY <2>9, <3>1 DEF turnPage, nextPageEnabled
      <3>7. 1 \in 1..last /\ last \in 1..last /\ (at # 1 => at - 1 \in 1..last) /\ (at # last => at + 1 \in 1..last)
        BY <3>3, <3>4
      <3>8. QED
        BY <3>5, <3>6, <3>7
    <2>10. CASE UNCHANGED etVars
      BY <2>10 DEF etVars
    <2>11. QED
      BY <2>2, <2>4, <2>5, <2>6, <2>7, <2>8, <2>9, <2>10 DEF EtNext
  <1>3. Typed => EtTypeOK
    BY DEF EtTypeOK, EtPageOK
  <1>4. QED
    BY <1>1, <1>2, <1>3, EtInductive, PTL

\* A route that changes while a page is read leaves the offset of another organisation.
OiReached(n) == \E o \in OiOrgs : n \in 0..OiCount[o]
OiFetches == [org : OiOrgs, wallet : BOOLEAN, offset : Nat, stats : BOOLEAN]
OiFetchTyped(fetch) == fetch = <<>> \/ \E f \in OiFetches : fetch = <<f>> /\ OiReached(f.offset)
OiBusyOK(busy, calls) == busy # 0 => \E c \in calls : c.id = busy
OiCallsTyped(calls) == \A c \in calls : c.org \in OiOrgs /\ c.id \in OiIds /\ c.op \in {"apply", "withdraw"}
OiTyped == /\ oiOrg \in OiOrgs /\ oiWallet \in BOOLEAN
           /\ OiFetchTyped(oiFetch) /\ oiIssues \in Seq(OiRows)
           /\ OiReached(oiRef.offset) /\ OiBusyOK(oiBusy, oiCalls) /\ OiCallsTyped(oiCalls)

LEMMA OiReachedNat == \A n : OiReached(n) => n \in Nat
  BY OiAssumption DEF OiReached, OiOrgs

LEMMA OiReachedZero == OiOrgs # {} => OiReached(0)
  BY OiAssumption DEF OiReached, OiOrgs

LEMMA OiStartTyped ==
  ASSUME NEW org \in OiOrgs, NEW wallet \in BOOLEAN, NEW offset, OiReached(offset)
  PROVE  OiFetchTyped(startFetch(org, wallet, offset))
  <1>1. PICK stats : stats = (offset = 0 /\ wallet)
    OBVIOUS
  <1>2. PICK f : f = [org |-> org, wallet |-> wallet, offset |-> offset, stats |-> stats]
    OBVIOUS
  <1>3. stats \in BOOLEAN /\ offset \in Nat
    BY <1>1, OiReachedNat
  <1>4. f \in OiFetches /\ f.offset = offset
    BY <1>2, <1>3 DEF OiFetches
  <1>5. QED
    BY <1>1, <1>2, <1>4 DEF OiFetchTyped, startFetch

\* Rows keep their type when a status is set.
LEMMA OiStatusTyped ==
  ASSUME oiIssues \in Seq(OiRows), NEW id, NEW st \in OiStatuses, setIssueStatus(id, st)
  PROVE  oiIssues' \in Seq(OiRows)
  <1>1. PICK old, new : old = oiIssues /\ new = oiIssues'
    OBVIOUS
  <1>2. PICK n : n = Len(old) /\ n \in Nat /\ DOMAIN old = 1..n /\ \A k \in 1..n : old[k] \in OiRows
    BY <1>1
  <1>3. new = [k \in 1..n |-> IF old[k].id = id THEN [old[k] EXCEPT !.status = st] ELSE old[k]]
    BY <1>1, <1>2 DEF setIssueStatus
  <1>4. \A r \in OiRows : [r EXCEPT !.status = st] \in OiRows
    BY DEF OiRows
  <1>5. new \in [1..n -> OiRows]
    BY <1>2, <1>3, <1>4
  <1>6. QED
    BY <1>1, <1>2, <1>5

\* The rows of a page, and where the next one begins.
LEMMA OiPageTyped ==
  ASSUME NEW f \in OiFetches, OiReached(f.offset)
  PROVE  pageOf(f) \in Seq(OiRows) /\ OiReached(f.offset + Len(pageOf(f)))
  <1>1. PICK off, cnt, org : off = f.offset /\ org = f.org /\ cnt = OiCount[org]
    OBVIOUS
  <1>2. off \in Nat /\ cnt \in Nat /\ org \in OiOrgs /\ OiPageSize \in Nat /\ OiPageSize > 0
    BY <1>1, OiAssumption DEF OiFetches, OiOrgs
  <1>3. PICK last : last = IF off + OiPageSize < cnt THEN off + OiPageSize ELSE cnt
    OBVIOUS
  <1>4. last \in Nat /\ last <= cnt
    BY <1>2, <1>3
  <1>5. PICK rows : rows = pageOf(f)
    OBVIOUS
  <1>6. rows = [k \in 1..last - off |-> row(org, off + k, readStatus(oiRef, off + k))]
    BY <1>1, <1>3, <1>5 DEF pageOf
  <1>7. PICK m : m = IF off < last THEN last - off ELSE 0
    OBVIOUS
  <1>8. m \in Nat /\ 1..last - off = 1..m /\ (off + m = off \/ off + m = last)
    BY <1>2, <1>4, <1>7
  <1>9. ASSUME NEW k \in 1..m PROVE rows[k] \in OiRows
    <2>1. off + k \in Nat
      BY <1>2, <1>8
    <2>2. PICK st : st = readStatus(oiRef, off + k)
      OBVIOUS
    <2>3. rows[k] = [org |-> org, id |-> off + k, status |-> st] /\ st \in OiStatuses
      BY <1>6, <1>8, <2>2 DEF row, readStatus, OiStatuses
    <2>4. QED
      BY <1>2, <2>1, <2>3 DEF OiRows
  <1>10. rows \in [1..m -> OiRows]
    BY <1>6, <1>8, <1>9
  <1>11. rows \in Seq(OiRows) /\ Len(rows) = m
    BY <1>8, <1>10
  <1>12. OiReached(off + m)
    <2>1. OiReached(last)
      BY <1>1, <1>2, <1>4 DEF OiReached
    <2>2. QED
      BY <1>1, <1>8, <2>1
  <1>13. QED
    BY <1>1, <1>5, <1>11, <1>12

LEMMA OiTypesHold == OiInit /\ [][OiNext]_oiVars => []OiTypeOK
  <1>1. OiInit => OiTyped
    <2> SUFFICES ASSUME OiInit PROVE OiTyped
      OBVIOUS
    <2>1. OiReached(0) /\ oiRef.offset = 0
      BY OiReachedZero DEF OiInit, OiNoRef
    <2>2. OiFetchTyped(oiFetch)
      BY <2>1, OiStartTyped DEF OiInit
    <2>3. oiIssues \in Seq(OiRows)
      BY DEF OiInit
    <2>4. QED
      BY <2>1, <2>2, <2>3 DEF OiInit, OiTyped, OiBusyOK, OiCallsTyped
  <1>2. OiInv /\ OiTyped /\ [OiNext]_oiVars => OiTyped'
    <2> SUFFICES ASSUME OiInv, OiTyped, [OiNext]_oiVars PROVE OiTyped'
      OBVIOUS
    <2>0. OiReached(0) /\ oiOrg \in OiOrgs
      BY OiReachedZero DEF OiTyped
    <2>01. oiRef = [offset |-> oiRef.offset, applied |-> oiRef.applied, assigned |-> oiRef.assigned, full |-> oiRef.full]
      BY DEF OiInv, OiShapes
    <2>1. CASE fetchContributorState
      <3>3. oiRef'.offset = oiRef.offset
        BY <2>1 DEF fetchContributorState
      <3>4. PICK f \in OiFetches : oiFetch = <<f>> /\ OiReached(f.offset)
        BY <2>1 DEF fetchContributorState, OiTyped, OiFetchTyped
      <3>5. PICK g : g = [f EXCEPT !.stats = FALSE]
        OBVIOUS
      <3>6. g \in OiFetches /\ g.offset = f.offset
        BY <3>5 DEF OiFetches
      <3>7. oiFetch' = <<g>> /\ UNCHANGED <<oiOrg, oiWallet, oiIssues, oiBusy, oiCalls>>
        BY <2>1, <3>4, <3>5 DEF fetchContributorState
      <3>8. OiFetchTyped(oiFetch')
        BY <3>4, <3>6, <3>7 DEF OiFetchTyped
      <3>9. QED
        BY <3>3, <3>7, <3>8 DEF OiTyped
    <2>2. CASE pageLoaded
      <3>1. PICK f \in OiFetches : oiFetch = <<f>> /\ OiReached(f.offset)
        BY <2>2 DEF pageLoaded, OiTyped, OiFetchTyped
      <3>2. PICK rows, at : rows = pageOf(f) /\ at = f.offset + Len(rows)
        OBVIOUS
      <3>3. rows \in Seq(OiRows) /\ OiReached(at)
        BY <3>1, <3>2, OiPageTyped
      <3>4. oiFetch[1] = f
        BY <3>1
      <3>5. /\ oiIssues' = (IF f.offset = 0 THEN rows ELSE oiIssues \o rows) /\ oiRef' = [oiRef EXCEPT !.offset = at]
            /\ oiFetch' = <<>> /\ UNCHANGED <<oiOrg, oiWallet, oiBusy, oiCalls>>
        BY <2>2, <3>2, <3>4 DEF pageLoaded
      <3>6. oiRef'.offset = at
        BY <2>01, <3>5
      <3>7. oiIssues' \in Seq(OiRows)
        <4>1. oiIssues \in Seq(OiRows)
          BY DEF OiTyped
        <4>2. oiIssues \o rows \in Seq(OiRows)
          BY <3>3, <4>1, ConcatProperties
        <4>3. QED
          BY <3>3, <3>5, <4>2
      <3>8. QED
        BY <3>3, <3>5, <3>6, <3>7 DEF OiTyped, OiFetchTyped
    <2>3. CASE pageFailed
      BY <2>3 DEF pageFailed, OiTyped, OiFetchTyped
    <2>4. CASE loadMore
      <3>1. /\ oiFetch' = startFetch(oiOrg, oiWallet, oiRef.offset)
            /\ UNCHANGED <<oiOrg, oiWallet, oiRef, oiIssues, oiBusy, oiCalls>>
        BY <2>4 DEF loadMore, sentinel, fetchPage, fetchGuard
      <3>2. OiFetchTyped(oiFetch')
        BY <3>1, OiStartTyped DEF OiTyped
      <3>3. QED
        BY <3>1, <3>2 DEF OiTyped
    <2>5. ASSUME NEW org \in OiOrgs, NEW wallet \in BOOLEAN, ResetList, fetchPage(org, wallet, 0),
                 oiOrg' = org, oiWallet' = wallet, UNCHANGED <<oiBusy, oiCalls>>
          PROVE  OiTyped'
      <3>1. oiRef'.offset = 0 /\ oiIssues' = <<>>
        BY <2>5 DEF ResetList, OiNoRef
      <3>2. OiFetchTyped(oiFetch')
        BY <2>0, <2>5, OiStartTyped DEF fetchPage, OiTyped
      <3>3. oiIssues' \in Seq(OiRows)
        BY <3>1
      <3>4. QED
        BY <2>0, <2>5, <3>1, <3>2, <3>3 DEF OiTyped
    <2>6. CASE refresh
      BY <2>5, <2>6 DEF refresh, OiTyped
    <2>7. CASE \E org \in OiOrgs, wallet \in BOOLEAN : setContext(org, wallet)
      BY <2>5, <2>7 DEF setContext
    <2>8. CASE setFilters \/ clearFilters
      BY <2>8 DEF setFilters, clearFilters, FilterTo, OiTyped
    <2>9. ASSUME NEW id \in OiIds, NEW op \in {"apply", "withdraw"}, NEW n, handleRow(id, op, n) PROVE OiTyped'
      <3>1. PICK c : c = [n |-> n, id |-> id, op |-> op, org |-> oiOrg]
        OBVIOUS
      <3>2. c.id = id /\ c.op = op /\ c.org = oiOrg
        BY <3>1
      <3>3. /\ oiBusy' = id /\ setIssueStatus(id, shown(op)) /\ oiCalls' = oiCalls \cup {c}
            /\ UNCHANGED <<oiOrg, oiWallet, oiFetch, oiRef>>
        BY <2>9, <3>1 DEF handleRow
      <3>4. shown(op) \in OiStatuses
        BY DEF shown, OiStatuses
      <3>5. oiIssues' \in Seq(OiRows)
        BY <3>3, <3>4, OiStatusTyped DEF OiTyped
      <3>6. OiBusyOK(oiBusy', oiCalls') /\ OiCallsTyped(oiCalls')
        BY <2>0, <3>2, <3>3 DEF OiTyped, OiBusyOK, OiCallsTyped
      <3>7. QED
        BY <3>3, <3>5, <3>6 DEF OiTyped
    <2>10. ASSUME NEW c \in oiCalls, rowAnswered(c) PROVE OiTyped'
      <3>1. c.org \in OiOrgs /\ c.id \in OiIds /\ c.op \in {"apply", "withdraw"}
        BY DEF OiTyped, OiCallsTyped
      <3>2. /\ oiCalls' = oiCalls \ {c} /\ oiBusy' = 0 /\ UNCHANGED <<oiOrg, oiWallet, oiFetch, oiRef>>
            /\ UNCHANGED oiIssues \/ setIssueStatus(c.id, before(c.op))
        BY <2>10 DEF rowAnswered, finallyBusy, undo
      <3>3. before(c.op) \in OiStatuses
        BY DEF before, OiStatuses
      <3>4. oiIssues' \in Seq(OiRows)
        BY <3>2, <3>3, OiStatusTyped DEF OiTyped
      <3>6. OiBusyOK(oiBusy', oiCalls') /\ OiCallsTyped(oiCalls')
        BY <3>2 DEF OiTyped, OiBusyOK, OiCallsTyped
      <3>7. QED
        BY <3>2, <3>4, <3>6 DEF OiTyped
    <2>11. CASE UNCHANGED oiVars
      BY <2>11 DEF oiVars, OiTyped
    <2>12. QED
      BY <2>1, <2>2, <2>3, <2>4, <2>6, <2>7, <2>8, <2>9, <2>10, <2>11 DEF OiNext
  <1>3. OiTyped => OiTypeOK
    <2> SUFFICES ASSUME OiTyped PROVE OiTypeOK
      OBVIOUS
    <2>1. Len(oiFetch) \in 0..1
      BY DEF OiTyped, OiFetchTyped
    <2>2. \A k \in DOMAIN oiIssues : oiIssues[k].status \in OiStatuses
      <3>1. \A k \in DOMAIN oiIssues : oiIssues[k] \in OiRows
        BY DEF OiTyped
      <3>2. QED
        BY <3>1 DEF OiRows
    <2>3. QED
      BY <2>1, <2>2 DEF OiTyped, OiTypeOK, OiReached, OiBusyOK, OiStatuses
  <1>4. QED
    BY <1>1, <1>2, <1>3, OiInductive, PTL

-----------------------------------------------------------------------------
(* The run: every behaviour of Spec is, for each component, a behaviour of that
   component. *)

LEMMA ReadingParts ==
  Spec => /\ FeInit /\ [][FeNext]_feVars
          /\ UpInit /\ [][UpNext]_upVars
          /\ CrInit /\ [][CrNext]_crVars
          /\ OiInit /\ [][OiNext]_oiVars
          /\ AaInit /\ [][AaNext]_aaVars
          /\ PgInit /\ [][PgNext]_pgVars
          /\ EtInit /\ [][EtNext]_etVars
          /\ AfInit /\ [][AfNext]_afVars
          /\ startScheduler /\ [][TtlNext]_ttlVars
          /\ EdInit /\ [][EdNext]_edVars
  <1>1. Init => /\ FeInit /\ UpInit /\ CrInit /\ OiInit /\ AaInit
                /\ PgInit /\ EtInit /\ AfInit /\ startScheduler /\ EdInit
    BY DEF Init
  <1>2. [Next]_allVars => [FeNext]_feVars
    BY DEF Next, allVars, feVars
  <1>3. [Next]_allVars => [UpNext]_upVars
    BY DEF Next, allVars, upVars
  <1>4. [Next]_allVars => [CrNext]_crVars
    BY DEF Next, allVars, crVars
  <1>5. [Next]_allVars => [OiNext]_oiVars
    BY DEF Next, allVars, oiVars
  <1>6. [Next]_allVars => [AaNext]_aaVars
    BY DEF Next, allVars, aaVars
  <1>7. [Next]_allVars => [PgNext]_pgVars
    BY DEF Next, allVars, pgVars
  <1>8. [Next]_allVars => [EtNext]_etVars
    BY DEF Next, allVars, etVars
  <1>9. [Next]_allVars => [AfNext]_afVars
    BY DEF Next, allVars, afVars
  <1>10. [Next]_allVars => [TtlNext]_ttlVars
    BY DEF Next, allVars, ttlVars
  <1>11. [Next]_allVars => [EdNext]_edVars
    BY DEF Next, allVars, edVars
  <1>12. QED
    BY <1>1, <1>2, <1>3, <1>4, <1>5, <1>6, <1>7, <1>8, <1>9, <1>10, <1>11, PTL DEF Spec

\* What is reported is what was read, for any fee, issues, organisations and
\* writes in between: the decimals of a fee add up and cover what the simulation
\* said (soroban.ts); a Horizon client gives up on a passing failure only after its
\* last attempt (HorizonService.ts, horizon.ts); a contributor with activity is
\* found unless the events cannot be read, and the numbers per organisation add up
\* when nothing is written meanwhile (contributors.ts); a row of the issue browser
\* says the last word of the server about its number, unless calls about it overlapped
\* (OrgIssuesPage.tsx), and the groups of assignments what the client at hand can read
\* of a chain that did not change meanwhile (useActiveAssignments.ts).
THEOREM ReportsTheTruth == Spec => []ReportsAreRight
  <1>1. FeInv /\ UpInv /\ CrInv /\ OiInv /\ AaInv => ReportsAreRight
    BY FeResult, CrResult, OiResult, AaResult DEF ReportsAreRight, UpInv
  <1>2. QED
    BY <1>1, ReadingParts, FeInductive, UpInductive, CrInductive, OiInductive, AaInductive, PTL

\* What reading page by page may miss, for any length and page size.  From the list
\* endpoints at most one row for each one inserted between count and rows of a request
\* and for each one that left the list (events.ts, issues.ts, orgs.ts, auditService.ts,
\* github.ts; audit pages over the cap and GitHub pages after a pull request are left
\* out); nothing, and nothing twice, in the issue browser unless the route or the
\* wallet changed during a fetch, and in the feed unless requests overlapped, although
\* pages fail and are asked again (useInfiniteOrgIssues.ts, ActivityFeed.tsx), nor in
\* the event table under any filter and order, which never shows an empty page of a
\* list that is not empty (EventHistoryTable.tsx).
THEOREM PagesMissNothing == Spec => []WalksComplete
  <1>1. PgInv /\ OiInv /\ EtInv /\ AfInv => WalksComplete
    BY PgResult, OiResult, EtResult, AfResult DEF WalksComplete
  <1>2. QED
    BY <1>1, ReadingParts, PgInductive, OiInductive, EtInductive, AfInductive, PTL

\* The TTL job (scheduler.ts) goes through all batches although some fail, and an
\* application it did not miss too often in a row stays alive; for any number of
\* applications and any batch size.
THEOREM ApplicationsAreKept == Spec => []TtlJobKeeps
  <1>1. TtlInv => TtlJobKeeps
    BY TtlResult DEF TtlJobKeeps
  <1>2. QED
    BY <1>1, ReadingParts, TtlInductive, PTL

\* The table of events (events.rs, eventIndexer.ts) tells a reader the open
\* applications and the assignments of the contract, but for applications that
\* expired without an event; for any number of contributors, issues and events.
THEOREM TableTellsTheContract == Spec => []EdRebuilt
  <1>1. EdInv => EdRebuilt
    BY EdResult
  <1>2. QED
    BY <1>1, ReadingParts, EdInductive, PTL

\* Every variable keeps to its type in every component of this run, and to what goes
\* with it: whatever is shown as busy or loading has its call or read under way, so
\* that it ends (OrgIssuesPage.tsx, ContributorProfilePage.tsx, IssueDetailPage.tsx,
\* OrgManagementPage.tsx, useActiveAssignments.ts, useWallet.ts); the highlighted option
\* exists while the list is open (OrgSelector.tsx); dragging, pinning and switching the
\* wallet lose no organisation and keep the number of pins (OrgBookmarkList.tsx); and
\* the page number is one that some list has (EventHistoryTable.tsx); for any value
\* of the constants.
THEOREM SafetyTypes == Spec => []SafetyTypeOK
  <1>1. Spec => [](UpInv /\ CrInv /\ TtlInv /\ EdInv /\ TfInv)
    BY Parts, ReadingParts, UpInductive, CrInductive, TtlInductive, EdInductive, TfInductive, PTL
  <1>2. UpInv /\ CrInv /\ TtlInv /\ EdInv /\ TfInv => UpTypeOK /\ CrTypeOK /\ TtlTypeOK /\ EdTypeOK /\ TfTypeOK
    BY UpTypes, CrTypes, TtlTypesHold, EdTypesHold DEF TfInv
  <1>3. Spec => [](AaTypeOK /\ AfTypeOK /\ PgTypeOK /\ EtTypeOK /\ OiTypeOK)
    BY ReadingParts, AaTypes, AfTypes, PgTypesHold, EtTypes, OiTypesHold, PTL
  <1>4. Spec => [](RegTypeOK /\ RoTypeOK /\ MpTypeOK /\ IdTypeOK /\ TcTypeOK /\ DaTypeOK /\ CaTypeOK)
    BY Parts, RegTypes, RoTypes, MpTypes, IdTypes, TcTypes, DaTypes, CaTypes, PTL
  <1>5. Spec => [](KsTypeOK /\ VtTypeOK /\ OmTypeOK /\ CpTypeOK /\ OsTypeOK /\ MbTypeOK /\ SeTypeOK)
    BY Parts, KsTypes, VtTypes, OmTypes, CpTypes, OsTypes, MbTypes, SeTypes, PTL
  <1>6. /\ UpTypeOK /\ CrTypeOK /\ TtlTypeOK /\ EdTypeOK /\ TfTypeOK
        /\ AaTypeOK /\ AfTypeOK /\ PgTypeOK /\ EtTypeOK /\ OiTypeOK
        /\ RegTypeOK /\ RoTypeOK /\ MpTypeOK /\ IdTypeOK /\ TcTypeOK /\ DaTypeOK /\ CaTypeOK
        /\ KsTypeOK /\ VtTypeOK /\ OmTypeOK /\ CpTypeOK /\ OsTypeOK /\ MbTypeOK /\ SeTypeOK
        => SafetyTypeOK
    BY Zenon DEF SafetyTypeOK
  <1>7. QED
    BY <1>1, <1>2, <1>3, <1>4, <1>5, <1>6, PTL
=============================================================================
