------------------------------ MODULE Health --------------------------------
(***************************************************************************)
(* GET /api/health (backend/src/health.ts): five checks run concurrently,  *)
(* each against a timer.  Any number of requests may be under way; the     *)
(* module follows one of them at a time.                                   *)
(***************************************************************************)
EXTENDS Integers

HealthDeps == {"postgres", "redis", "soroban_rpc", "horizon", "github"}
CRITICAL_DEPS == {"postgres", "soroban_rpc"}

VARIABLES
  hcCheck,    \* each health check: pending, or its result
  hcLate,     \* checks whose probe is still to answer
  hcSent      \* the status healthHandler answered, 0 before

healthVars == <<hcCheck, hcLate, hcSent>>

HealthInit == hcCheck = [d \in HealthDeps |-> "none"] /\ hcLate = {} /\ hcSent = 0

-----------------------------------------------------------------------------
\* A request, after the one followed before was answered: requests share nothing,
\* and what is left of the probes of the old one settles promises nobody awaits.
healthHandler == /\ hcSent # 0 \/ \A d \in HealthDeps : hcCheck[d] = "none"
                 /\ hcCheck' = [d \in HealthDeps |-> "pending"]
                 /\ hcLate' = HealthDeps /\ hcSent' = 0

\* Promise.race: the first to settle decides.
settle(d, result) == IF hcCheck[d] = "pending" THEN [hcCheck EXCEPT ![d] = result] ELSE hcCheck

\* A probe answers, at once or long after its timer; a false answer and an error
\* are both unhealthy.
probe(d) == /\ d \in hcLate
            /\ hcLate' = hcLate \ {d}
            /\ \E result \in {"healthy", "unhealthy"} : hcCheck' = settle(d, result)
            /\ UNCHANGED hcSent

timeout_dropped(d) == FALSE /\ UNCHANGED healthVars

timeout(d) == /\ hcCheck[d] = "pending"
              /\ hcCheck' = settle(d, "unhealthy")
              /\ UNCHANGED <<hcLate, hcSent>>

httpStatus(down) == IF down \cap CRITICAL_DEPS # {} THEN 503 ELSE 200

sendHealth_any == /\ hcSent = 0
                  /\ \E d \in HealthDeps : hcCheck[d] \in {"healthy", "unhealthy"}
                  /\ hcSent' = httpStatus({d \in HealthDeps : hcCheck[d] = "unhealthy"})
                  /\ UNCHANGED <<hcCheck, hcLate>>

\* Promise.all: every check has settled.
sendHealth == /\ hcSent = 0
              /\ \A d \in HealthDeps : hcCheck[d] \in {"healthy", "unhealthy"}
              /\ hcSent' = httpStatus({d \in HealthDeps : hcCheck[d] = "unhealthy"})
              /\ UNCHANGED <<hcCheck, hcLate>>

\* Timers fire, and Node runs what is ready; whether a service answers is its own
\* affair.
HealthProgress == sendHealth \/ \E d \in HealthDeps : timeout(d)

HealthNext == \/ healthHandler \/ sendHealth
              \/ \E d \in HealthDeps : probe(d) \/ timeout(d)

-----------------------------------------------------------------------------
\* Type invariant; the answer covers all five checks.
HealthTypeOK == /\ hcCheck \in [HealthDeps -> {"none", "pending", "healthy", "unhealthy"}]
                /\ hcLate \subseteq HealthDeps /\ hcSent \in {0, 200, 503}
                /\ hcSent # 0 => \A d \in HealthDeps : hcCheck[d] \in {"healthy", "unhealthy"}

\* The health route answers although every service hangs.
HealthAnswers == (\E d \in HealthDeps : hcCheck[d] = "pending") ~> (hcSent # 0)
=============================================================================
