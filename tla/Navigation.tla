----------------------------- MODULE Navigation -----------------------------
EXTENDS Integers

(***************************************************************************)
(* Keyboard shortcuts of the front end (hooks/useKeyboardShortcuts.ts):    *)
(* J and K move the focus through the issue cards, "/" goes to the search  *)
(* field, "?" toggles the help, and G followed by O within a second opens  *)
(* the organisation selector.                                              *)
(***************************************************************************)

CONSTANTS
  KsSecond,   \* beats of the clock in a second
  KsMaxCards  \* bound on the cards of the list

ASSUME KsAssumption == KsSecond \in Nat \ {0} /\ KsMaxCards \in Nat \ {0}

VARIABLES
  ksEnabled,  \* the listener is attached
  ksPending,  \* pendingGRef
  ksTimer,    \* beats left of the timer in pendingGTimerRef, 0 without one
  ksCards,    \* cards in the document
  ksFocus,    \* card with the focus, or 0 (body), -1 (search field), -2 (selector)
  ksModal,    \* an open modal: "none", "help", "apply" or "org"
  ksSinceG    \* history: beats since a G that no other handled key followed, -1 without one

ksVars == <<ksEnabled, ksPending, ksTimer, ksCards, ksFocus, ksModal, ksSinceG>>

KsBody == 0
KsSearch == -1
KsSelector == -2

KsInit == /\ ksEnabled \in BOOLEAN /\ ksPending = FALSE /\ ksTimer = 0
          /\ ksCards \in 0..KsMaxCards /\ ksFocus = KsBody /\ ksModal = "none" /\ ksSinceG = -1

-----------------------------------------------------------------------------
isTyping == ksFocus = KsSearch

clearPendingG_flagOnly == ksPending' = FALSE /\ UNCHANGED ksTimer

clearPendingG == ksPending' = FALSE /\ ksTimer' = 0

nextIndex_unclamped(direction) == IF ksFocus \in 1..ksCards THEN ksFocus + direction
                                  ELSE IF direction = 1 THEN 1 ELSE ksCards

\* Clamped to the list, without wrap-around.
nextIndex(direction) == IF ksFocus \in 1..ksCards
                        THEN IF ksFocus + direction \in 1..ksCards THEN ksFocus + direction ELSE ksFocus
                        ELSE IF direction = 1 THEN 1 ELSE ksCards

moveFocus(direction) == ksFocus' = (IF ksCards = 0 THEN ksFocus ELSE nextIndex(direction)) /\ UNCHANGED ksModal

\* The branches of the switch other than G.
keyEffect(key) ==
  CASE key = "j" -> moveFocus(1)
    [] key = "k" -> moveFocus(-1)
    [] key = "Enter" -> ksModal' = (IF ksFocus \in 1..ksCards THEN "apply" ELSE ksModal) /\ UNCHANGED ksFocus
    [] key = "Escape" -> ksModal' = "none" /\ UNCHANGED ksFocus
    [] key = "/" -> ksFocus' = KsSearch /\ UNCHANGED ksModal
    [] key = "?" -> ksModal' = (IF ksModal = "help" THEN "none" ELSE "help") /\ UNCHANGED ksFocus
    [] OTHER -> UNCHANGED <<ksFocus, ksModal>>

openOrgSelector == \/ ksFocus' = KsSelector /\ UNCHANGED ksModal
                   \/ ksModal' = "org" /\ UNCHANGED ksFocus

\* A text field keeps every key but Escape, and a pending G with it.
keyWhileTyping(key) == /\ ksEnabled /\ isTyping /\ key = "Escape"
                       /\ ksModal' = "none" /\ clearPendingG
                       /\ ksSinceG' = -1
                       /\ UNCHANGED <<ksEnabled, ksCards, ksFocus>>

handleKeyDown(key) ==
  /\ ksEnabled /\ ~isTyping
  /\ \/ ksPending /\ key = "o" /\ openOrgSelector /\ clearPendingG /\ ksSinceG' = -1
     \/ /\ ~(ksPending /\ key = "o") /\ key # "g"
        /\ keyEffect(key) /\ clearPendingG
        /\ ksSinceG' = -1
     \/ /\ key = "g" /\ ksPending' = TRUE /\ ksTimer' = KsSecond
        /\ ksSinceG' = 0
        /\ UNCHANGED <<ksFocus, ksModal>>
  /\ UNCHANGED <<ksEnabled, ksCards>>

\* Time passes; the timer runs out.
KsTick == /\ ksTimer > 0
          /\ IF ksTimer = 1 THEN clearPendingG ELSE ksTimer' = ksTimer - 1 /\ UNCHANGED ksPending
          /\ ksSinceG' = IF ksSinceG \in 0..KsSecond THEN ksSinceG + 1 ELSE ksSinceG
          /\ UNCHANGED <<ksEnabled, ksCards, ksFocus, ksModal>>

\* The effect runs again when its options change: cleanup clears the sequence.
setShortcutsEnabled == /\ ksEnabled' = ~ksEnabled /\ clearPendingG
                       /\ ksSinceG' = -1
                       /\ UNCHANGED <<ksCards, ksFocus, ksModal>>

\* The list or the focus change by other means than the keyboard.
KsOutside == /\ \/ ksCards' \in 0..KsMaxCards /\ ksFocus' = (IF ksFocus > ksCards' THEN KsBody ELSE ksFocus)
                \/ ksFocus' \in {KsBody, KsSearch} /\ UNCHANGED ksCards
             /\ UNCHANGED <<ksEnabled, ksPending, ksTimer, ksModal, ksSinceG>>

KsNext == \/ \E key \in {"j", "k", "Enter", "Escape", "/", "?", "g", "o", "x"} : handleKeyDown(key) \/ keyWhileTyping(key)
          \/ KsTick \/ setShortcutsEnabled \/ KsOutside

-----------------------------------------------------------------------------
\* Type invariant; the focus is on a card that exists.
KsTypeOK == /\ {ksEnabled, ksPending} \subseteq BOOLEAN /\ ksTimer \in 0..KsSecond
            /\ ksFocus \in -2..ksCards /\ ksModal \in {"none", "help", "apply", "org"}

\* A pending G is the last key handled, not a second old, and its timer runs: no
\* timer of an earlier G ends it early, none is missing.
KsSequence == /\ ksPending <=> ksTimer > 0
              /\ ksPending => ksSinceG = KsSecond - ksTimer

-----------------------------------------------------------------------------
(***************************************************************************)
(* Animated navigation (frontend/src/useViewTransition.ts): the View       *)
(* Transitions API where the browser has it, classes and animationend      *)
(* where it has not, and no animation without an element to animate.       *)
(* Neither the listener nor the timer of a phase is cancelled when the     *)
(* other one fires, so a phase may run twice.  Animations may be switched  *)
(* off or end early, and animationend bubbles up from the content: it may  *)
(* come at any time or not at all.                                         *)
(***************************************************************************)

CONSTANT VtMax   \* bound on the navigations

ASSUME VtAssumption == VtMax \in Nat

VARIABLES
  vtMode,     \* what the browser offers: native, fallback, bare
  vtView,     \* the navigation whose update was applied last, 0 at the start
  vtAsked,    \* navigations so far; the last one asked for view vtAsked
  vtFlight,   \* inFlightRef: the navigation being animated, or 0
  vtPend,     \* callbacks still to run: [nav, kind, from]
  vtOverlap   \* history: a navigation began before the callbacks of the last were gone

vtVars == <<vtMode, vtView, vtAsked, vtFlight, vtPend, vtOverlap>>

VtCallback(n, kind, from) == [nav |-> n, kind |-> kind, from |-> from]

VtInit == /\ vtMode \in {"native", "fallback", "bare"}
          /\ vtView = 0 /\ vtAsked = 0 /\ vtFlight = 0 /\ vtPend = {} /\ vtOverlap = FALSE

-----------------------------------------------------------------------------
\* Phase 1: animationend or 250 ms, whichever comes first, and then the other one.
exitPhase(n) == {VtCallback(n, "exitListener", "start"), VtCallback(n, "exitTimer", "start")}

bareFlight_kept == IF vtFlight = 0 THEN vtAsked + 1 ELSE vtFlight

\* Without an element to animate, inFlightRef is set and reset in one go.
bareFlight == vtFlight

\* A navigation while one is animated is applied at once.
navigate ==
  /\ vtAsked < VtMax
  /\ vtAsked' = vtAsked + 1
  /\ vtOverlap' = (vtOverlap \/ vtPend # {})
  /\ IF vtFlight # 0 \/ vtMode = "bare"
     THEN vtView' = vtAsked + 1 /\ vtFlight' = bareFlight /\ UNCHANGED vtPend
     ELSE /\ vtFlight' = vtAsked + 1 /\ UNCHANGED vtView
          /\ vtPend' = vtPend \cup IF vtMode = "native"
                                   THEN {VtCallback(vtAsked + 1, "capture", "start")}
                                   ELSE exitPhase(vtAsked + 1)
  /\ UNCHANGED vtMode

\* The browser calls update once it has captured the old view, and later
\* resolves transition.finished.
startViewTransition(c) ==
  /\ c \in vtPend
  /\ \/ /\ c.kind = "capture" /\ vtView' = c.nav /\ UNCHANGED vtFlight
        /\ vtPend' = (vtPend \ {c}) \cup {VtCallback(c.nav, "finished", "start")}
     \/ /\ c.kind = "finished" /\ vtFlight' = 0 /\ UNCHANGED vtView
        /\ vtPend' = vtPend \ {c}
  /\ UNCHANGED <<vtMode, vtAsked, vtOverlap>>

\* Phases 2 and 3: apply the update, and ask for a frame to enter in.
afterExit(cs) == {VtCallback(c.nav, "frame", c.kind) : c \in cs}

enterPhase_listenerOnly(c) == {VtCallback(c.nav, "enterListener", c.from)}

enterPhase(c) == {VtCallback(c.nav, "enterListener", c.from), VtCallback(c.nav, "enterTimer", c.from)}

requestAnimationFrame(c) ==
  /\ c \in vtPend /\ c.kind = "frame"
  /\ vtPend' = (vtPend \ {c}) \cup enterPhase(c)
  /\ UNCHANGED <<vtMode, vtView, vtAsked, vtFlight, vtOverlap>>

afterEnter_unresolved(cs) == vtFlight

\* afterEnter resolves the promise of its navigation, if it is still open.
afterEnter(cs) == IF \E c \in cs : c.nav = vtFlight THEN 0 ELSE vtFlight

\* The timer runs afterExit although the listener did: update is called again.
vtTimer(c) ==
  /\ c \in vtPend
  /\ \/ /\ c.kind = "exitTimer" /\ vtView' = c.nav /\ UNCHANGED vtFlight
        /\ vtPend' = (vtPend \ {c}) \cup afterExit({c})
     \/ /\ c.kind = "enterTimer" /\ vtFlight' = afterEnter({c}) /\ UNCHANGED vtView
        /\ vtPend' = vtPend \ {c}
  /\ UNCHANGED <<vtMode, vtAsked, vtOverlap>>

\* One animationend runs every listener of the element, in the order they were
\* added, the exit listener of a phase that its timer had ended included.
animationend ==
  LET exits  == {c \in vtPend : c.kind = "exitListener"}
      enters == {c \in vtPend : c.kind = "enterListener"}
  IN /\ exits \cup enters # {}
     /\ vtView' = IF exits = {} THEN vtView
                  ELSE (CHOOSE c \in exits : \A d \in exits : d.nav <= c.nav).nav
     /\ vtFlight' = afterEnter(enters)
     /\ vtPend' = (vtPend \ (exits \cup enters)) \cup afterExit(exits)
     /\ UNCHANGED <<vtMode, vtAsked, vtOverlap>>

VtNext == \/ navigate \/ animationend
          \/ \E c \in vtPend : startViewTransition(c) \/ requestAnimationFrame(c) \/ vtTimer(c)

-----------------------------------------------------------------------------
\* Type invariant.
VtTypeOK == /\ vtAsked \in 0..VtMax /\ vtView \in 0..vtAsked /\ vtFlight \in 0..vtAsked
            /\ \A c \in vtPend : c.nav \in 1..vtAsked
            /\ vtMode = "bare" => vtFlight = 0 /\ vtPend = {}

\* A transition never waits for an animation alone: as long as one is in flight, a
\* timer, a frame or the browser will move it on, so that navigation is animated
\* again later even when no animationend ever comes.
VtReleased == vtFlight # 0 => \E c \in vtPend : c.nav = vtFlight /\ c.kind \notin {"exitListener", "enterListener"}

\* When all callbacks have run the view is the one asked for last, unless a
\* navigation began while callbacks of the one before were left: their second run
\* brings the older view back.
VtLastWins == (vtPend = {} /\ ~vtOverlap) => vtView = vtAsked /\ vtFlight = 0
=============================================================================
