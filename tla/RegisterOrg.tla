----------------------------- MODULE RegisterOrg -----------------------------
(***************************************************************************)
(* The organisation registration wizard                                    *)
(* (frontend/src/pages/RegisterOrgPage.tsx): the admin key kept in         *)
(* localStorage, the debounced GitHub check of step 1, the maintainer list *)
(* of step 2, the cap of step 3 and the submission of step 4.  What the    *)
(* server does with the request is module OrgRegistration.                 *)
(***************************************************************************)
EXTENDS Integers, Sequences, SequencesExt, FiniteSets

CONSTANTS
  RoGitHub,   \* the organisations GitHub knows
  RoAddrs     \* well-formed Stellar addresses

VARIABLES
  roKey,      \* apiKey, in localStorage and in the page
  roForm,     \* step, orgId, maintainers, cap, Step3's error
  roStatus,   \* githubStatus
  roTimer,    \* the debounced name, or None
  roChecks,   \* names GitHub is being asked about
  roSent,     \* the requests under way
  roBusy      \* submitting

roVars == <<roKey, roForm, roStatus, roTimer, roChecks, roSent, roBusy>>

RoNone  == "none"
\* What the user types in step 1, and what trim() leaves of it.
RoTyped == {"", "known", " known", "unknown"}
roTrim(name) == IF name = " known" THEN "known" ELSE name

RoEmptyForm == [step |-> 1, orgId |-> "", maintainers |-> <<>>, cap |-> 4, capError |-> FALSE]

RoInit == /\ roKey \in {"", "key"}
          /\ roForm = RoEmptyForm /\ roStatus = "idle"
          /\ roTimer = RoNone /\ roChecks = {} /\ roSent = <<>> /\ roBusy = FALSE

roPage == roKey # ""                      \* authenticated
roAt(step) == roPage /\ roForm.step = step
RoGo(step) == roForm' = [roForm EXCEPT !.step = step, !.capError = FALSE]

-----------------------------------------------------------------------------
(* Key form. *)

handleSaveKey == /\ ~roPage
                 /\ roKey' = "key"
                 /\ UNCHANGED <<roForm, roStatus, roTimer, roChecks, roSent, roBusy>>

clearKey == /\ roPage
            /\ roKey' = ""
            /\ roForm' = [roForm EXCEPT !.capError = FALSE]
            /\ UNCHANGED <<roStatus, roTimer, roChecks, roSent, roBusy>>

-----------------------------------------------------------------------------
(* Step 1. *)

\* clearTimeout, then a new timer.
debounce(name) == roTimer' = name /\ roStatus' = "checking"

triggerGithubCheck(name) ==
  IF name = "" THEN roTimer' = RoNone /\ roStatus' = "idle" ELSE debounce(name)

handleOrgIdChange(value) ==
  /\ roAt(1) /\ value # roForm.orgId
  /\ roForm' = [roForm EXCEPT !.orgId = value]
  /\ triggerGithubCheck(roTrim(value))
  /\ UNCHANGED <<roKey, roChecks, roSent, roBusy>>

\* The timer fires.
checkGitHubOrg == /\ roTimer # RoNone
                  /\ roChecks' = roChecks \cup {roTimer}
                  /\ roTimer' = RoNone
                  /\ UNCHANGED <<roKey, roForm, roStatus, roSent, roBusy>>

defaultCheckGitHubOrg(org) == {IF org \in RoGitHub THEN "found" ELSE "not_found", "error"}

\* The answer sets the status whatever the field holds by now.
setGithubStatus == \E org \in roChecks :
                     /\ roStatus' \in defaultCheckGitHubOrg(org)
                     /\ roChecks' = roChecks \ {org}
                     /\ UNCHANGED <<roKey, roForm, roTimer, roSent, roBusy>>

next1 == roAt(1) /\ roStatus = "found" /\ RoGo(2)

-----------------------------------------------------------------------------
(* Steps 2 and 3. *)

acceptable_duplicate(addr, list) == addr \in RoAddrs

acceptable(addr, list) == addr \in RoAddrs /\ ~Contains(list, addr)

handleAdd(addr) == /\ roAt(2) /\ acceptable(addr, roForm.maintainers)
                   /\ roForm' = [roForm EXCEPT !.maintainers = Append(@, addr)]

\* maintainers.filter
otherMaintainers(list, addr) ==
  FoldLeft(LAMBDA kept, a : IF a = addr THEN kept ELSE Append(kept, a), <<>>, list)

onRemove(addr) == /\ roAt(2) /\ Contains(roForm.maintainers, addr)
                  /\ roForm' = [roForm EXCEPT !.maintainers = otherMaintainers(@, addr)]

nextEnabled2(list) == list # <<>>

next2 == roAt(2) /\ nextEnabled2(roForm.maintainers) /\ RoGo(3)

clampCap_low(n) == IF n < 1 THEN 1 ELSE n

clampCap(n) == IF n < 1 THEN 1 ELSE IF n > 20 THEN 20 ELSE n

\* <<>> stands for what parseInt does not read.
handleChange(raw) ==
  /\ roAt(3)
  /\ roForm' = IF raw = <<>> THEN [roForm EXCEPT !.capError = TRUE]
               ELSE [roForm EXCEPT !.cap = clampCap(raw[1]), !.capError = clampCap(raw[1]) # raw[1]]

next3 == roAt(3) /\ ~roForm.capError /\ RoGo(4)

goBack == roPage /\ roForm.step > 1 /\ (roForm.step = 4 => ~roBusy) /\ RoGo(roForm.step - 1)

wizardStep == /\ \/ next1 \/ next2 \/ next3 \/ goBack
                 \/ \E addr \in RoAddrs \cup {"bad"} : handleAdd(addr) \/ onRemove(addr)
                 \/ handleChange(<<>>) \/ \E n \in {0, 4, 21} : handleChange(<<n>>)
              /\ UNCHANGED <<roKey, roStatus, roTimer, roChecks, roSent, roBusy>>

-----------------------------------------------------------------------------
(* Step 4. *)

submitEnabled_always == roAt(4)

submitEnabled == roAt(4) /\ ~roBusy

handleSubmit == /\ submitEnabled
                /\ roBusy' = TRUE
                /\ roSent' = Append(roSent, [org |-> roForm.orgId, maintainers |-> roForm.maintainers, cap |-> roForm.cap])
                /\ UNCHANGED <<roKey, roForm, roStatus, roTimer, roChecks>>

\* 401 and 403 wipe the key.
refuseKey(reply) == IF reply = "denied" THEN "" ELSE roKey

\* The reply; on success the page is left and its state with it.
submitReply(reply) ==
  /\ roSent # <<>>
  /\ roSent' = Tail(roSent) /\ roBusy' = FALSE
  /\ roKey' = refuseKey(reply)
  /\ IF reply = "created"
     THEN roForm' = RoEmptyForm /\ roStatus' = "idle" /\ roTimer' = RoNone /\ roChecks' = {}
     ELSE /\ roForm' = IF roKey' = "" THEN [roForm EXCEPT !.capError = FALSE] ELSE roForm
          /\ UNCHANGED <<roStatus, roTimer, roChecks>>

RoNext == \/ handleSaveKey \/ clearKey \/ checkGitHubOrg \/ setGithubStatus \/ wizardStep \/ handleSubmit
          \/ \E value \in RoTyped : handleOrgIdChange(value)
          \/ \E reply \in {"denied", "error", "created"} : submitReply(reply)

-----------------------------------------------------------------------------
\* Type invariant.
RoTypeOK == /\ roForm.step \in 1..4 /\ roForm.orgId \in RoTyped /\ roForm.cap \in 1..20
            /\ roForm.maintainers \in Seq(RoAddrs) /\ roForm.capError \in BOOLEAN
            /\ roStatus \in {"idle", "checking", "found", "not_found", "error"}
            /\ roBusy \in BOOLEAN

\* Every request under way keeps the wizard's rules, however often the user went
\* back and changed a step, cleared the key or was refused: at least one
\* maintainer, none twice, and a cap from 1 to 20.  (registerOrgSchema also wants
\* github_org, which the wizard does not send, and at most ten maintainers.)
RoBodyValid == \A i \in DOMAIN roSent :
                 /\ roSent[i].maintainers # <<>> /\ IsInjective(roSent[i].maintainers)
                 /\ roSent[i].cap \in 1..20

\* One request at a time, also when the key is cleared and entered again while
\* the first is under way: the page is busy exactly as long as one is out.
RoOneRequest == Len(roSent) = IF roBusy THEN 1 ELSE 0
=============================================================================
