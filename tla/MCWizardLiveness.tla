-------------------------- MODULE MCWizardLiveness --------------------------
(***************************************************************************)
(* A chat that must come to rest, and the page its owner looks at it by.   *)
(* The page knows the chat by its contract only, so the two share no       *)
(* variable: each is explored with the other as it begins, when neither    *)
(* has a step that fairness speaks of.                                     *)
(***************************************************************************)
EXTENDS MCAgentWizard, WizardPage

WizardStep == PageInit /\ Next /\ UNCHANGED pageVars

PageStep == Init /\ PageNext /\ UNCHANGED vars

\* The loop of a tab that is open and shown goes round.
Polling == WF_pageVars(chatStatus # "none" /\ PollLoop)

LivenessSpec ==
    /\ Init /\ PageInit
    /\ [][WizardStep \/ PageStep]_<<vars, pageVars>>
    /\ Fairness /\ Polling
=============================================================================
