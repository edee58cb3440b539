------------------------------- MODULE ChatView -----------------------------
(***************************************************************************)
(* The chat page as the user meets it: the list of messages under a dialog *)
(* of the layout. The dialog is modal: while it is open no gesture reaches *)
(* the list; the stream goes on behind it.                                 *)
(***************************************************************************)
EXTENDS AlertDialog, MessageView

vars == <<dialogVars, viewVars>>

Init == DialogInit /\ ViewInit

\* What happens to the dialog, and to the list behind or without it.
Dialog   == DialogNext /\ UNCHANGED viewVars
Stream   == (Grow \/ Cut) /\ UNCHANGED dialogVars
Renders  == Browser /\ UNCHANGED dialogVars
Gestures == ~open /\ UserScrolls /\ UNCHANGED dialogVars

Next == Dialog \/ Stream \/ Renders \/ Gestures

\* The browser draws frames and reports positions, and timers fire.
Fairness ==
    /\ WF_vars(Frame /\ UNCHANGED dialogVars)
    /\ WF_vars(Animate /\ UNCHANGED dialogVars)
    /\ WF_vars(OnScroll /\ UNCHANGED dialogVars)
    /\ WF_vars(Timeout /\ UNCHANGED dialogVars)

Spec == Init /\ [][Next]_vars /\ Fairness
=============================================================================
