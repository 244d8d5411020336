-------------------------- MODULE CountDownScreen --------------------------
(***************************************************************************)
(* When the countdown is on which screen, the interface between Today's    *)
(* Flic, which brings CountDownCard up, and CountDownCard, which counts:   *)
(* it comes up while Today's Flic is on screen and stays until the process *)
(* ends.                                                                   *)
(***************************************************************************)

VARIABLES
    tab,     \* the tab on screen, "none" without a process
    card     \* is CountDownCard part of the body?

screenVars == <<tab, card>>

ScreenInit == tab = "none" /\ card = FALSE

Open ==
    /\ tab = "none"
    /\ tab' = "home"
    /\ card' = card

Close ==
    /\ tab # "none"
    /\ tab' = "none"
    /\ card' = FALSE

Turn ==
    /\ {tab, tab'} = {"home", "history"}
    /\ card' = card

\* With a photo of today, or with a submit, which also turns to History.
Raise ==
    /\ tab = "home"
    /\ ~card
    /\ card' = TRUE
    /\ tab' \in {"home", "history"}

ScreenNext == Open \/ Close \/ Turn \/ Raise

ScreenSpec == ScreenInit /\ [][ScreenNext]_screenVars
=============================================================================
