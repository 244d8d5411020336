----------------------------- MODULE HistoryTab -----------------------------
(***************************************************************************)
(* The History tab: HistoryView with the list its HistoryViewModel         *)
(* fetched, the loading indicator shown after a submit, and the card       *)
(* (HistoryCardView) that a row opens on top of the list.                  *)
(*                                                                         *)
(* The list is a copy of the context's reflections, refreshed only by      *)
(* fetchReflections.  timeRemaining is shared by the three views: seconds  *)
(* left to load, -1 while a card is open, 0 once a card was closed.        *)
(***************************************************************************)
EXTENDS ContentView, Functions

VARIABLE history    \* the @State of HistoryView and its view model

HistoryView ==
    [reflections: Seq(Reflection), isLoading: BOOLEAN,
     timeRemaining: -1..3, cardOpen: BOOLEAN]

\* Mutant: the sort descriptor is ascending.
OldestFirst(s, p) ==
    \A i, j \in DOMAIN s : i < j => s[p[i]].date <= s[p[j]].date

\* The rows of s in the order p, the newest photo first.
NewestFirst(s, p) ==
    \A i, j \in DOMAIN s : i < j => s[p[i]].date >= s[p[j]].date

\* The lists that fetchReflections can leave: the context's objects, the
\* saved and the pending ones, sorted by the date of the photo.  How photos
\* of one day are ordered is left open.
fetchReflections(objs) ==
    LET s == objs.reflections
    IN  {[i \in DOMAIN s |-> s[p[i]]] :
            p \in {q \in Bijection(DOMAIN s, DOMAIN s) : NewestFirst(s, q)}}

\* A HistoryView whose view model has just fetched list.
FreshHistory(list) ==
    [reflections |-> list, isLoading |-> TRUE,
     timeRemaining |-> 3, cardOpen |-> FALSE]

NoHistory == FreshHistory(<<>>)

\* Is the loading indicator shown in place of the list?
Loading(fs, h) == fs /\ h.isLoading /\ h.timeRemaining > 0

\* Does drawing the list unwrap a nil image?
ListTraps(fs, h) ==
    /\ ~h.cardOpen
    /\ ~Loading(fs, h)
    /\ \E i \in DOMAIN h.reflections : h.reflections[i].image = NoPhoto

----------------------------------------------------------------------------
\* Mutant: closing a card leaves its mark.
HistoryAppearsKeepsMark(h) ==
    [h EXCEPT !.timeRemaining = IF @ # -1 THEN 3 ELSE @,
              !.isLoading = TRUE,
              !.cardOpen = FALSE]

\* onAppear of HistoryView.
HistoryAppears(h) ==
    [h EXCEPT !.timeRemaining = IF @ # -1 THEN 3 ELSE 0,
              !.isLoading = TRUE,
              !.cardOpen = FALSE]

\* Mutant: off by one, the countdown starts at 3.
LoadingAppearsLate(objs, seen, h) ==
    IF seen > 3
    THEN {[h EXCEPT !.reflections = l] : l \in fetchReflections(objs)}
    ELSE {h}

\* onAppear of the loading indicator, which fetches if it finds at least 3
\* seconds left; objs is the context, seen the time it finds.
LoadingAppears(objs, seen, h) ==
    IF seen >= 3
    THEN {[h EXCEPT !.reflections = l] : l \in fetchReflections(objs)}
    ELSE {h}

\* The list comes on screen.  An indicator that was already part of the view
\* appears with it, before or after HistoryView's own onAppear; one that
\* HistoryView's onAppear brings in, appears after it.
ListAppears(objs, fs, h) ==
    LET a == HistoryAppears(h)
        seen == {a.timeRemaining} \cup
                    (IF Loading(fs, h) THEN {h.timeRemaining} ELSE {})
    IN  IF Loading(fs, a)
        THEN UNION {LoadingAppears(objs, s, a) : s \in seen}
        ELSE {a}

\* The tab comes on screen, with the card that was left open on it or with
\* the list.
TabAppears(objs, fs, h) ==
    IF h.cardOpen
    THEN {[h EXCEPT !.timeRemaining = -1]}
    ELSE ListAppears(objs, fs, h)

----------------------------------------------------------------------------
(* The user's and the timer's steps                                        *)

ListOnScreen ==
    /\ running
    /\ tabSelection = History
    /\ ~history.cardOpen
    /\ ~Loading(fromSubmit, history)

\* A second of the loading indicator, whether or not the tab is on screen.
TickDown ==
    /\ running
    /\ Loading(fromSubmit, history)
    /\ history.timeRemaining > 1
    /\ history' = [history EXCEPT !.timeRemaining = @ - 1]
    /\ UNCHANGED <<running, context, store, tabSelection, fromSubmit>>

Loaded(h) == [h EXCEPT !.isLoading = FALSE, !.timeRemaining = 3]

\* Mutant: the last second only starts the countdown again.
TickLastStartsOver ==
    /\ running
    /\ Loading(fromSubmit, history)
    /\ history.timeRemaining <= 1
    /\ history' = [history EXCEPT !.timeRemaining = 3]
    /\ UNCHANGED <<running, context, store, tabSelection, fromSubmit>>

\* The last second: the list takes the indicator's place.
TickLast ==
    /\ running
    /\ Loading(fromSubmit, history)
    /\ history.timeRemaining <= 1
    /\ tabSelection = History => ~ListTraps(FALSE, Loaded(history))
    /\ history' = Loaded(history)
    /\ fromSubmit' = FALSE
    /\ UNCHANGED <<running, context, store, tabSelection>>

\* A row of the list is tapped; onAppear of HistoryCardView marks the card.
OpenCard ==
    /\ ListOnScreen
    /\ history.reflections # <<>>
    /\ history' = [history EXCEPT !.cardOpen = TRUE, !.timeRemaining = -1]
    /\ UNCHANGED <<running, context, store, tabSelection, fromSubmit>>

\* Mutant: going back asks for the indicator again.
CloseCardReloads ==
    /\ running
    /\ tabSelection = History
    /\ history.cardOpen
    /\ history' \in ListAppears(context, fromSubmit, history)
    /\ fromSubmit' = TRUE
    /\ UNCHANGED <<running, context, store, tabSelection>>

\* Back from the card.
CloseCard ==
    /\ running
    /\ tabSelection = History
    /\ history.cardOpen
    /\ history' \in ListAppears(context, fromSubmit, history)
    /\ UNCHANGED <<running, context, store, tabSelection, fromSubmit>>
=============================================================================
