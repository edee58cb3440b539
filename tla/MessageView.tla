----------------------------- MODULE MessageView ----------------------------
(***************************************************************************)
(* The scrolling list of messages (components/inputs/chat-messages.tsx):   *)
(* it follows the stream until the user scrolls up. Positions are counted  *)
(* in steps larger than the tolerances of the code. The browser clamps the *)
(* position when the list shrinks, animates scrollTo, lets a gesture of    *)
(* the user end an animation, and reports a moved position later, as one   *)
(* event.                                                                  *)
(***************************************************************************)
EXTENDS Naturals

CONSTANTS
    MaxHeight,    \* bound: the largest position
    MaxUpdates,   \* bound: changes of the messages
    MaxGestures   \* bound: gestures of the user

ASSUME ViewAssumption == MaxHeight \in Nat /\ MaxUpdates \in Nat /\ MaxGestures \in Nat

VARIABLES
    top, max,   \* the position and the largest one, at the bottom
    target,     \* where the animation goes, or max + 1 for none
    moved,      \* a scroll event is due
    frame,      \* a requestAnimationFrame callback is due
    isBottom,   \* state: hides the button
    userUp,     \* userScrolledUpRef
    auto,       \* autoScrollingRef
    prev,       \* prevScrollTopRef
    late,       \* timers of scrollToBottom that run; nothing clears them
    timer,      \* the effect's timer runs
    raised,     \* the user or a cut has moved the position up since onScroll
                \* last saw it (history)
    astray,     \* what last moved the view away from the bottom is a gesture that
                \* only onScroll notices (history)
    updates, gestures

viewVars == <<top, max, target, moved, frame, isBottom, userUp, auto, prev, late, timer,
              raised, astray, updates, gestures>>

Still == MaxHeight + 1

\* The list is mounted without messages, and the effect has run.
ViewInit ==
    /\ top = 0 /\ max = 0 /\ target = Still
    /\ moved = FALSE /\ frame = TRUE /\ isBottom = TRUE
    /\ userUp = FALSE /\ auto = TRUE /\ prev = 0
    /\ late = 1 /\ timer = TRUE
    /\ raised = FALSE /\ astray = FALSE
    /\ updates = 0 /\ gestures = 0

\* scrollToBottom
ScrollToBottom ==
    /\ userUp' = FALSE /\ auto' = TRUE
    /\ frame' = TRUE
    /\ late' = late + 1
    /\ astray' = FALSE

\* Mutant: the effect leaves the scrolling to the browser.
EffectWithoutScroll ==
    IF userUp THEN timer' = FALSE /\ UNCHANGED <<userUp, auto, frame, late, astray>>
    ELSE timer' = TRUE /\ auto' = TRUE /\ UNCHANGED <<userUp, frame, late, astray>>

\* The effect on the messages, with the cleanup of the one before.
MessagesEffect ==
    IF userUp THEN timer' = FALSE /\ UNCHANGED <<userUp, auto, frame, late, astray>>
    ELSE ScrollToBottom /\ timer' = TRUE

Update == updates < MaxUpdates /\ updates' = updates + 1

\* A message is added or grows.
Grow ==
    /\ Update
    /\ max' \in {max, max + 1} /\ max' <= MaxHeight
    /\ MessagesEffect
    /\ UNCHANGED <<top, target, moved, isBottom, prev, raised, gestures>>

\* Messages go, for a regeneration or when the chat is cleared.
Cut ==
    /\ Update
    /\ max' \in 0..max \ {max}
    /\ top' = (IF top > max' THEN max' ELSE top)
    /\ target' = (IF target # Still /\ target > max' THEN max' ELSE target)
    /\ moved' = (moved \/ top' # top) /\ raised' = (raised \/ top' < top)
    /\ MessagesEffect
    /\ UNCHANGED <<isBottom, prev, gestures>>

\* The animation frame: scrollTo, smoothly, to the height of this moment.
Frame ==
    /\ frame /\ frame' = FALSE
    /\ target' = (IF top < max THEN max ELSE Still)
    /\ UNCHANGED <<top, max, moved, isBottom, userUp, auto, prev, late, timer,
                   raised, astray, updates, gestures>>

Animate ==
    /\ target # Still
    /\ \/ top < target /\ top' = top + 1 /\ moved' = TRUE /\ UNCHANGED target
       \/ top >= target /\ target' = Still /\ UNCHANGED <<top, moved>>
    /\ UNCHANGED <<max, frame, isBottom, userUp, auto, prev, late, timer,
                   raised, astray, updates, gestures>>

\* Mutant: any other position than the last one counts as scrolled up.
OnScroll_moved ==
    /\ moved /\ moved' = FALSE
    /\ isBottom' = (top = max)
    /\ userUp' = (top # max /\ (userUp \/ (~auto /\ top # prev)))
    /\ prev' = top
    /\ raised' = FALSE /\ astray' = (astray /\ top # max)
    /\ UNCHANGED <<top, max, target, frame, auto, late, timer, updates, gestures>>

\* onScroll
OnScroll ==
    /\ moved /\ moved' = FALSE
    /\ isBottom' = (top = max)
    /\ userUp' = (top # max /\ (userUp \/ (~auto /\ top < prev)))
    /\ prev' = top
    /\ raised' = FALSE /\ astray' = (astray /\ top # max)
    /\ UNCHANGED <<top, max, target, frame, auto, late, timer, updates, gestures>>

\* The timer of a scrollToBottom, 250 ms, or of the effect, 200 ms.
Timeout ==
    /\ \/ late > 0 /\ late' = late - 1 /\ UNCHANGED timer
       \/ timer /\ timer' = FALSE /\ UNCHANGED late
    /\ auto' = FALSE
    /\ UNCHANGED <<top, max, target, moved, frame, isBottom, userUp, prev,
                   raised, astray, updates, gestures>>

-----------------------------------------------------------------------------
(* The user.                                                               *)

Gesture == gestures < MaxGestures /\ gestures' = gestures + 1

MovesTo(p) ==
    /\ top' = p /\ target' = Still
    /\ moved' = (moved \/ p # top) /\ raised' = (raised \/ p < top)

\* onWheel, upwards, or onTouchMove. At the top nothing moves.
ScrollUp ==
    /\ Gesture
    /\ userUp' = TRUE
    /\ \E p \in 0..max : (p < top \/ (top = 0 /\ p = 0)) /\ MovesTo(p)
    /\ UNCHANGED <<max, frame, isBottom, auto, prev, late, timer, astray, updates>>

\* onWheel, downwards, or touched downwards after a ScrollUp.
ScrollDown ==
    /\ Gesture /\ userUp
    /\ \E p \in 0..max : p > top /\ MovesTo(p)
    /\ UNCHANGED <<max, frame, isBottom, userUp, auto, prev, late, timer, astray, updates>>

\* With the keyboard, or downwards while the view follows: only onScroll notices.
ScrollOtherwise ==
    /\ Gesture
    /\ \E p \in 0..max \ {top} : MovesTo(p)
    /\ astray' = (top' # max)
    /\ UNCHANGED <<max, frame, isBottom, userUp, auto, prev, late, timer, updates>>

\* The button, which is there when the last event was not at the bottom.
ClickBottom ==
    /\ Gesture /\ ~isBottom
    /\ ScrollToBottom
    /\ UNCHANGED <<top, max, target, moved, isBottom, prev, timer, raised, updates>>

Browser == Frame \/ Animate \/ OnScroll \/ Timeout
UserScrolls == ScrollUp \/ ScrollDown \/ ScrollOtherwise \/ ClickBottom

-----------------------------------------------------------------------------
(* A user who has not scrolled up, or has come back to the bottom, has the *)
(* end of the messages in view in the end, whatever timers, frames and     *)
(* events of earlier updates were still due. This leaves out the gestures  *)
(* that onWheel and onTouchMove do not take for scrolling up (with the     *)
(* keyboard, or downwards during an animation, which they end): they may   *)
(* leave the view short of the bottom until the next message or click.     *)
FollowsStream == <>[](~userUp /\ ~astray) => <>[](top = max)

(* The view stops following only in a step in which the user scrolls up,   *)
(* or when onScroll sees a position that the user or a cut of the messages *)
(* has moved up since it last looked: never for the view's own animations, *)
(* for messages that grow or for the timers that reset the auto-scroll     *)
(* flag too soon.                                                          *)
StopsOnlyWhenMoved == [][~userUp /\ userUp' => ScrollUp \/ raised]_viewVars
=============================================================================
