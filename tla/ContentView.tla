---------------------------- MODULE ContentView ----------------------------
(***************************************************************************)
(* The navigation state ContentView owns and hands to its two tabs as      *)
(* bindings: the selected tab, and whether History was reached by          *)
(* submitting a reflection.                                                *)
(***************************************************************************)
EXTENDS Persistence

VARIABLES
    tabSelection, \* 0: Today's Flic (DailyHomeView), 1: History (HistoryView)
    fromSubmit    \* raised by submit(), lowered by HistoryView

Home == 0
History == 1

NavigationTypeOK ==
    /\ tabSelection \in {Home, History}
    /\ fromSubmit \in BOOLEAN

NavigationInit ==
    /\ tabSelection = Home
    /\ fromSubmit = FALSE
=============================================================================
