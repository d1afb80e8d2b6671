------------------------------ MODULE Notices -------------------------------
EXTENDS Integers, Sequences, FiniteSets, SequencesExt

(***************************************************************************)
(* The onboarding wizard (frontend/src/components/OnboardingWizard.tsx):   *)
(* "Back" runs an animation of two timers before the step changes, "Next"  *)
(* and the arrow keys change it at once.                                   *)
(***************************************************************************)

CONSTANT ObSteps    \* STEPS.length

ASSUME ObAssumption == ObSteps \in Nat \ {0, 1}

VARIABLES
  obDone,     \* localStorage has wg_onboarding_done
  obButton,   \* GetStartedButton is shown: the key was there when the page loaded
  obVisible,  \* visible
  obStep,     \* step
  obPhase,    \* stepPhase: idle, exiting, entering
  obTarget    \* step the timer under way will set: {} or {step}

obVars == <<obDone, obButton, obVisible, obStep, obPhase, obTarget>>

obPageLoad(done) == /\ obDone' = done /\ obButton' = done /\ obVisible' = ~done
                    /\ obStep' = 0 /\ obPhase' = "idle" /\ obTarget' = {}

ObInit == /\ obDone \in BOOLEAN /\ obButton = obDone /\ obVisible = ~obDone
          /\ obStep = 0 /\ obPhase = "idle" /\ obTarget = {}

dismissed_written(permanent) == TRUE

\* What dismiss(permanent) leaves in localStorage.
dismissed(permanent) == obDone \/ permanent

dismiss(permanent) == /\ obVisible /\ obVisible' = FALSE
                      /\ obDone' = dismissed(permanent)
                      /\ UNCHANGED <<obButton, obStep, obPhase, obTarget>>

isLast_beyond == obStep = ObSteps

isLast == obStep = ObSteps - 1

\* The button is disabled during the animation, the arrow key is not.
nextStep == /\ obVisible
            /\ IF isLast THEN dismiss(TRUE)
               ELSE /\ obStep' = obStep + 1
                    /\ UNCHANGED <<obDone, obButton, obVisible, obPhase, obTarget>>

\* goToStep(step - 1): refused while an animation runs.
prevStep == /\ obVisible /\ obStep > 0 /\ obPhase = "idle"
            /\ obPhase' = "exiting" /\ obTarget' = {obStep - 1}
            /\ UNCHANGED <<obDone, obButton, obVisible, obStep>>

\* After 200 ms the step is set, whatever it has become meanwhile.
exitTimer == /\ obPhase = "exiting"
             /\ obPhase' = "entering" /\ obTarget' = {}
             /\ \E t \in obTarget : obStep' = t
             /\ UNCHANGED <<obDone, obButton, obVisible>>

afterEntering_stuck == "entering"

afterEntering == "idle"

enterTimer == /\ obPhase = "entering" /\ obPhase' = afterEntering
              /\ UNCHANGED <<obDone, obButton, obVisible, obStep, obTarget>>

\* Escape and the close button do not write; Skip is offered from the second step on.
closeWizard == dismiss(FALSE)
skip == obStep >= 1 /\ ~isLast /\ dismiss(TRUE)

\* GetStartedButton forgets the key and reloads the page.
replay == obButton /\ obPageLoad(FALSE)
visitAgain == ~obVisible /\ obPageLoad(obDone)

ObNext == \/ nextStep \/ prevStep \/ exitTimer \/ enterTimer \/ closeWizard \/ skip
          \/ replay \/ visitAgain

-----------------------------------------------------------------------------
\* Type invariant: the step shown exists, whatever the arrow keys and the timer
\* of a "Back" do to it together.
ObTypeOK == /\ obStep \in 0..(ObSteps - 1)
            /\ obPhase \in {"idle", "exiting", "entering"}
            /\ obTarget \subseteq 0..(ObSteps - 2)

\* "Onboarding never shown again after completion or skip", and only then: the
\* key is written by finishing or skipping, so a wizard that was merely closed
\* comes back, and a finished one does not until it is asked for.
ObShownOnce == [][/\ (obDone /\ obVisible') => obButton
                  /\ (~obDone /\ obDone') => obStep >= 1]_obVars

\* The animation ends, so that Next and Back work again.
ObMovesAgain == (obPhase # "idle") ~> (obPhase = "idle")

-----------------------------------------------------------------------------
(***************************************************************************)
(* The notifications of the front end (components/Toast.tsx): at most      *)
(* three are shown, the others wait in a queue, and each is removed by a   *)
(* timer started when it is shown.  Closing one by hand leaves its timer   *)
(* running; the late timer removes nothing but still takes the next toast  *)
(* from the queue.                                                         *)
(***************************************************************************)

CONSTANTS
  ToCap,  \* toasts shown at a time (3)
  ToMax   \* bound on the toasts of a session

ASSUME ToAssumption == ToCap \in Nat \ {0} /\ ToMax \in Nat

VARIABLES
  toVisible,  \* visibleRef: ids, oldest first
  toQueued,   \* queuedRef
  toTimers,   \* toasts whose timer is running
  toNext,     \* _nextId
  toClosed    \* history: toasts closed by hand

toVars == <<toVisible, toQueued, toTimers, toNext, toClosed>>

ToIds(s) == {s[k] : k \in DOMAIN s}

ToInit == toVisible = <<>> /\ toQueued = <<>> /\ toTimers = {} /\ toNext = 0 /\ toClosed = {}

-----------------------------------------------------------------------------
mustQueue_late == Len(toVisible) > ToCap

mustQueue == Len(toVisible) >= ToCap

freshId_postIncrement == toNext

freshId == toNext + 1

addToast == /\ toNext < ToMax
            /\ toNext' = toNext + 1
            /\ IF mustQueue
               THEN toQueued' = Append(toQueued, freshId) /\ UNCHANGED <<toVisible, toTimers>>
               ELSE /\ toVisible' = Append(toVisible, freshId)
                    /\ toTimers' = toTimers \cup {freshId}
                    /\ UNCHANGED toQueued
            /\ UNCHANGED toClosed

timersAfter_promotedOnly(timers) == timers

\* The promoted toast gets a timer of its own.
timersAfter(timers) == IF toQueued = <<>> THEN timers ELSE timers \cup {Head(toQueued)}

\* filter(t => t.id !== id)
others(list, id) == FoldLeft(LAMBDA kept, t : IF t = id THEN kept ELSE Append(kept, t), <<>>, list)

promoted == IF toQueued = <<>> THEN <<>> ELSE <<Head(toQueued)>>

\* Whether or not the toast was still there, the head of the queue is shown.
removeToast(id, timers) ==
  /\ toVisible' = others(toVisible, id) \o promoted
  /\ toQueued' = SubSeq(toQueued, Len(promoted) + 1, Len(toQueued))
  /\ toTimers' = timersAfter(timers)
  /\ UNCHANGED toNext

timerFires(id) == id \in toTimers /\ removeToast(id, toTimers \ {id}) /\ UNCHANGED toClosed

closeToast(id) == /\ id \in ToIds(toVisible)
                  /\ removeToast(id, toTimers)
                  /\ toClosed' = toClosed \cup {id}

ToNext == addToast \/ \E id \in 1..ToMax : timerFires(id) \/ closeToast(id)

-----------------------------------------------------------------------------
\* Type invariant.
ToTypeOK == /\ toNext \in 0..ToMax /\ toTimers \cup toClosed \subseteq 1..toNext
            /\ ToIds(toVisible) \cup ToIds(toQueued) \subseteq 1..toNext

\* Toasts wait only behind a full screen, and the screen overflows by no more
\* toasts than were closed by hand: each left one timer behind.
ToQueueMeansFull == /\ toQueued # <<>> => Len(toVisible) >= ToCap
                    /\ Len(toVisible) <= ToCap + Cardinality(toClosed)

\* Every toast is shown and goes away by itself, however long the queue is and
\* whatever is closed by hand.
ToAllGo == \A id \in 1..ToMax : (id \in ToIds(toVisible) \cup ToIds(toQueued))
                                  ~> (id \notin ToIds(toVisible) \cup ToIds(toQueued))
=============================================================================
