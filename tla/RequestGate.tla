----------------------------- MODULE RequestGate -----------------------------
(***************************************************************************)
(* What a request passes before its route: apiKeyAuth against table        *)
(* api_keys (src/middleware/api-key-auth.ts, src/routes/api-keys.ts) and   *)
(* walletLimiter (src/middleware/rate-limit.ts).  Times are countdowns     *)
(* from now, so that the clock never stops; the key lookup is an await, so *)
(* that keys expire and are revoked between the lookup and the answer.     *)
(* Redis limits are the subject of module ApiKeyLimiter.                   *)
(***************************************************************************)
EXTENDS Integers, FiniteSets, Functions

CONSTANTS
  GateWalletLimit,   \* WALLET_LIMIT
  GateWindow,        \* WALLET_WINDOW_MS, in ticks
  GateTtl,           \* life of a new key, in ticks
  GateCalls          \* requests that may be under way at the same time

ASSUME GateAssumption == {GateWalletLimit, GateWindow, GateTtl} \subseteq Nat \ {0}

VARIABLES
  gateEntry,   \* walletLimitStore of one wallet: count, ticks left (-1: over)
  gateLog,     \* requests the limiter let through, by their age in ticks
  gateKey,     \* row of an API key: present, ticks left, and what its owner was told
  gateCall     \* each request with a token: where it is, the row it was shown

gateVars == <<gateEntry, gateLog, gateKey, gateCall>>

Never == GateTtl + 1
NoRow == [present |-> FALSE, left |-> 0, told |-> 0]
NoCall == [pc |-> "idle", row |-> NoRow, answer |-> "none"]

GateInit == /\ gateEntry = [present |-> FALSE, count |-> 0, left |-> 0]
            /\ gateLog = [a \in 0..GateWindow |-> 0]
            /\ gateKey = NoRow
            /\ gateCall = [c \in GateCalls |-> NoCall]

-----------------------------------------------------------------------------
(* walletLimiter: a window that is fixed from its first request on. *)

windowOver_early(e) == ~e.present \/ e.left < GateWindow

windowOver(e) == ~e.present \/ e.left < 0

overLimit_offByOne(e) == e.count > GateWalletLimit

overLimit(e) == e.count >= GateWalletLimit

refusedEntry_renewed(e) == [e EXCEPT !.left = GateWindow]

\* A refused request leaves the window as it is.
refusedEntry(e) == e

walletLimiter ==
  LET e == IF windowOver(gateEntry) THEN [present |-> TRUE, count |-> 0, left |-> GateWindow]
           ELSE gateEntry
  IN /\ \/ /\ overLimit(e)
           /\ gateEntry' = refusedEntry(e)
           /\ UNCHANGED gateLog
        \/ /\ ~overLimit(e)
           /\ gateEntry' = [e EXCEPT !.count = @ + 1]
           /\ gateLog' = [gateLog EXCEPT ![0] = @ + 1]
     /\ UNCHANGED <<gateKey, gateCall>>

\* A request that names no wallet is let through and counted for nobody.
noWallet == UNCHANGED gateVars

cleanupExpiredLimits == /\ gateEntry.present /\ gateEntry.left < 0
                        /\ gateEntry' = [present |-> FALSE, count |-> 0, left |-> 0]
                        /\ UNCHANGED <<gateLog, gateKey, gateCall>>

-----------------------------------------------------------------------------
(* Keys. *)

\* POST /api-keys: a failed INSERT is tried again without the optional columns,
\* and the answer names an expiry in both cases.
createKey == /\ ~gateKey.present
             /\ \E l \in {GateTtl, Never} : gateKey' = [present |-> TRUE, left |-> l, told |-> GateTtl]
             /\ UNCHANGED <<gateEntry, gateLog, gateCall>>

revokeKey == /\ gateKey.present
             /\ gateKey' = NoRow
             /\ UNCHANGED <<gateEntry, gateLog, gateCall>>

\* apiKeyAuth, up to the await of lookupApiKey.
lookupApiKey(c) == /\ gateCall[c].pc = "idle"
                   /\ gateCall' = [gateCall EXCEPT ![c] = [pc |-> "check", row |-> gateKey, answer |-> "none"]]
                   /\ UNCHANGED <<gateEntry, gateLog, gateKey>>

keyExpired_ignored(row) == FALSE

keyExpired(row) == row.left = 0

\* Unknown or expired: 401, and so for any error of the database or of Redis.
apiKeyAuth(c) ==
  /\ gateCall[c].pc = "check"
  /\ \E a \in {"next", "401"} :
       /\ a = "next" => gateCall[c].row.present /\ ~keyExpired(gateCall[c].row)
       /\ gateCall' = [gateCall EXCEPT ![c] = [pc |-> "idle", row |-> gateCall[c].row, answer |-> a]]
  /\ UNCHANGED <<gateEntry, gateLog, gateKey>>

\* The clock: windows and keys run down, admissions age.
age(row) == IF row.left = Never THEN [row EXCEPT !.told = IF @ > 0 THEN @ - 1 ELSE 0]
            ELSE [row EXCEPT !.left = IF @ > 0 THEN @ - 1 ELSE 0, !.told = IF @ > 0 THEN @ - 1 ELSE 0]
GateTick ==
  /\ gateEntry' = [gateEntry EXCEPT !.left = IF gateEntry.present /\ @ >= 0 THEN @ - 1 ELSE @]
  /\ gateLog' = [a \in 0..GateWindow |-> IF a = 0 THEN 0 ELSE gateLog[a - 1]]
  /\ gateKey' = age(gateKey)
  /\ gateCall' = [c \in GateCalls |-> IF gateCall[c].pc = "check"
                                      THEN [gateCall[c] EXCEPT !.row = age(@)] ELSE gateCall[c]]

GateNext == \/ walletLimiter \/ noWallet \/ cleanupExpiredLimits \/ createKey \/ revokeKey \/ GateTick
            \/ \E c \in GateCalls : lookupApiKey(c) \/ apiKeyAuth(c)

-----------------------------------------------------------------------------
\* Type invariant.
GateTypeOK ==
  /\ gateEntry \in [present : BOOLEAN, count : 0..GateWalletLimit, left : -1..GateWindow]
  /\ gateKey \in [present : BOOLEAN, left : 0..Never, told : 0..GateTtl]
  /\ \A c \in GateCalls : gateCall[c].pc \in {"idle", "check"}

\* The window is fixed, not sliding: a wallet may spend one window's limit at its
\* end and the next one's at its beginning, but never more than twice the limit
\* within the time of one window.
GateBurstBounded == SumFunction(gateLog) <= 2 * GateWalletLimit

\* A key is refused once it has expired, even when it expires between the lookup
\* and the answer; only a row stored without its expiry outlives the date its
\* owner was told.
GateExpiredIsRefused ==
  \A c \in GateCalls : gateCall[c].answer = "next" =>
    gateCall[c].row.present /\ (gateCall[c].row.told > 0 \/ gateCall[c].row.left = Never)

\* A wallet that is refused is let through again after its window.
GateWalletFreed == (gateEntry.count >= GateWalletLimit) ~> (windowOver(gateEntry))
=============================================================================
