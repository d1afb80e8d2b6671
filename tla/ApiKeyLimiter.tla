--------------------------- MODULE ApiKeyLimiter ---------------------------
(***************************************************************************)
(* The Redis rate limiter behind API keys and anonymous addresses          *)
(* (checkRedisLimit in src/middleware/api-key-auth.ts), for one identifier.*)
(*                                                                         *)
(* The window is made of two Redis commands sent apart: INCR, and, when    *)
(* the answer was 1, an EXPIRE nobody waits for.  withTimeout gives up on  *)
(* an answer after 300 ms but the command still runs.  Requests, the       *)
(* connection (a FIFO of commands) and the Redis clock interleave.         *)
(***************************************************************************)
EXTENDS Integers, Sequences, FiniteSetsExt, Functions, TLC

CONSTANTS
  Requests,    \* requests of the identifier that may be in progress together
  LIMIT,       \* KEY_LIMIT 120, IP_LIMIT 30
  WINDOW,      \* WINDOW_SEC in ticks of the Redis clock
  FaultKinds,  \* which of "timeout", "crash" may happen
  KeyMaxFaults,   \* bound: faults in a behaviour
  Nobody       \* the owner of a command whose request gave up on it

ASSUME LimiterAssumption ==
  /\ LIMIT \in Nat \ {0} /\ WINDOW \in Nat \ {0} /\ KeyMaxFaults \in Nat
  /\ Nobody \notin Requests /\ IsFiniteSet(Requests)
  /\ FaultKinds \subseteq {"timeout", "crash"}

VARIABLES
  count,   \* the Redis counter, 0 when the key is absent
  ttl,     \* ticks the key has left; 0 when it has no expiry
  wire,    \* commands on the connection, oldest first
  req,     \* per request: idle, waiting for INCR, or its answer
  recent,  \* admissions Redis vouched for in each of the last WINDOW ticks
  keyFaults

keyVars == <<count, ttl, wire, req, recent, keyFaults>>

\* Values above LIMIT all mean refusal; the model counts to LIMIT + 1.
Counted == 0..(LIMIT + 1)

\* late: the clock has ticked since the request sent its INCR
Idle == [pc |-> "idle", n |-> 0, late |-> FALSE]
Waiting == [pc |-> "waiting", n |-> 0, late |-> FALSE]

Command == [op : {"incr", "expire"}, by : Requests \cup {Nobody}]

KeyTypeOK ==
  /\ count \in Counted
  /\ ttl \in 0..WINDOW /\ (count = 0 => ttl = 0)
  /\ \A k \in DOMAIN wire : wire[k] \in Command
  /\ req \in [Requests -> [pc : {"idle", "waiting", "answered"}, n : Counted, late : BOOLEAN]]
  /\ recent \in [1..WINDOW -> Nat]
  /\ keyFaults \in 0..KeyMaxFaults

KeyInit ==
  /\ count = 0 /\ ttl = 0
  /\ wire = <<>>
  /\ req = [r \in Requests |-> Idle]
  /\ recent = [k \in 1..WINDOW |-> 0]
  /\ keyFaults = 0

KeyFault(kind) ==
  /\ kind \in FaultKinds /\ keyFaults < KeyMaxFaults
  /\ keyFaults' = keyFaults + 1

-----------------------------------------------------------------------------
(* checkRedisLimit *)

sendIncr(r) ==
  /\ req[r].pc = "idle"
  /\ req' = [req EXCEPT ![r] = Waiting]
  /\ wire' = Append(wire, [op |-> "incr", by |-> r])
  /\ UNCHANGED <<count, ttl, recent, keyFaults>>

\* mutant: the request that reaches the limit is refused only if it is far above
withinLimit_offByOne(n) == n <= LIMIT + 1

withinLimit(n) == n <= LIMIT

\* mutant: every request renews the expiry
afterIncr_renew(r) ==
  wire' = Append(wire, [op |-> "expire", by |-> r])

\* mutant: the expiry is left out
afterIncr_never(r) ==
  UNCHANGED wire

\* the first hit of a window sends the expiry and does not wait for it
afterIncr(r) ==
  IF req[r].n = 1 THEN wire' = Append(wire, [op |-> "expire", by |-> r])
                  ELSE UNCHANGED wire

\* the answer arrives: admit, or refuse with 429
checkRedisLimit(r) ==
  /\ req[r].pc = "answered"
  /\ afterIncr(r)
  /\ recent' = IF withinLimit(req[r].n) THEN [recent EXCEPT ![1] = @ + 1] ELSE recent
  /\ req' = [req EXCEPT ![r] = Idle]
  /\ UNCHANGED <<count, ttl, keyFaults>>

\* withTimeout: no answer in time; the request passes (fail open) and the
\* command, if Redis has not run it yet, runs for nobody
incrTimesOut(r) ==
  /\ KeyFault("timeout")
  /\ req[r].pc \in {"waiting", "answered"}
  /\ req' = [req EXCEPT ![r] = Idle]
  /\ wire' = [k \in DOMAIN wire |->
                IF wire[k] = [op |-> "incr", by |-> r] THEN [wire[k] EXCEPT !.by = Nobody]
                                                      ELSE wire[k]]
  /\ UNCHANGED <<count, ttl, recent>>

\* the API process dies with whatever it had not sent or heard
KeyCrash ==
  /\ KeyFault("crash")
  /\ wire' = <<>>
  /\ req' = [r \in Requests |-> Idle]
  /\ UNCHANGED <<count, ttl, recent>>

-----------------------------------------------------------------------------
(* Redis *)

\* INCR creates the key without expiry, or keeps the expiry it has
redisIncr ==
  /\ wire # <<>> /\ Head(wire).op = "incr"
  /\ LET n == Min({count + 1, LIMIT + 1})
         r == Head(wire).by
     IN /\ count' = n
        /\ req' = IF r = Nobody THEN req
                  ELSE [req EXCEPT ![r].pc = "answered", ![r].n = n]
  /\ wire' = Tail(wire)
  /\ UNCHANGED <<ttl, recent, keyFaults>>

\* mutant: the window given in milliseconds
redisExpire_ms ==
  /\ wire # <<>> /\ Head(wire).op = "expire"
  /\ ttl' = IF count > 0 THEN 1000 * WINDOW ELSE 0
  /\ wire' = Tail(wire)
  /\ UNCHANGED <<count, req, recent, keyFaults>>

\* EXPIRE key WINDOW_SEC
redisExpire ==
  /\ wire # <<>> /\ Head(wire).op = "expire"
  /\ ttl' = IF count > 0 THEN WINDOW ELSE 0
  /\ wire' = Tail(wire)
  /\ UNCHANGED <<count, req, recent, keyFaults>>

\* A tick is longer than the 300 ms a request waits: none spans two.
Tick ==
  /\ \A r \in Requests : ~req[r].late
  /\ req' = [r \in Requests |-> [req[r] EXCEPT !.late = req[r].pc # "idle"]]
  /\ count' = IF ttl = 1 THEN 0 ELSE count
  /\ ttl' = IF ttl > 0 THEN ttl - 1 ELSE 0
  /\ recent' = [k \in 1..WINDOW |-> IF k = 1 THEN 0 ELSE recent[k - 1]]
  /\ UNCHANGED <<wire, keyFaults>>

KeyNext ==
  \/ \E r \in Requests : sendIncr(r) \/ checkRedisLimit(r) \/ incrTimesOut(r)
  \/ KeyCrash
  \/ redisIncr \/ redisExpire
  \/ Tick

\* Redis answers, the handlers go on, and time passes.
KeySpec ==
  /\ KeyInit /\ [][KeyNext]_keyVars
  /\ WF_keyVars(redisIncr \/ redisExpire)
  /\ \A r \in Requests : WF_keyVars(checkRedisLimit(r))
  /\ WF_keyVars(Tick)

-----------------------------------------------------------------------------

Admitted == SumFunction(recent)

\* However requests, expiries and clock interleave, Redis vouches for at most
\* two windows' worth of requests in any WINDOW ticks: the last ones of a
\* window and the first ones of the next.
BurstBounded == Admitted <= 2 * LIMIT

\* As long as nothing failed, a key without expiry has one on its way: the
\* request that created it is about to send it, or it is on the connection.
ExpiryUnderWay ==
  keyFaults = 0 /\ count > 0 /\ ttl = 0 =>
    \/ \E r \in Requests : req[r].pc = "answered" /\ req[r].n = 1
    \/ \E k \in DOMAIN wire : wire[k].op = "expire"

\* api-key-auth.ts: a refusal carries a retryAfter, and the limit is one "per
\* minute".  A client that was refused is not refused for ever: the counter
\* goes back to 0 some time after it passed the limit.
NotBlockedForever == (count > LIMIT) ~> (count = 0)

\* Without a timeout or a crash, a counter that passed the limit always goes
\* back to 0, also under a load that never lets up.
FreedWithoutFaults == [](keyFaults = 0) => NotBlockedForever
=============================================================================
