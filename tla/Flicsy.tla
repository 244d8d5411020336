------------------------------- MODULE Flicsy -------------------------------
(***************************************************************************)
(* The app: both tabs over one context.  Every step of Today's Flic is one *)
(* of DailyHome; where it brings the History tab on screen, the tab        *)
(* appears in the same step.  The steps of the History tab leave Today's   *)
(* Flic alone.                                                             *)
(***************************************************************************)
EXTENDS DailyHome, HistoryTab

flicsyVars == <<homeVars, history>>

\* The variables of Today's Flic that the History tab does not share.
onlyHomeVars == <<day, home, geocoding, skipsToday>>

FlicsyInit == HomeInit /\ history = NoHistory

\* HistoryView and its view model are created with the process ...
LaunchApp ==
    /\ Launch
    /\ \E l \in fetchReflections(store) : history' = FreshHistory(l)

\* ... and end with it.
EndApp ==
    /\ \/ Kill
       \/ \E p \in Photos : GeocodeFails(p)
       \/ SubmitInterrupted
    /\ history' = NoHistory

\* Steps of Today's Flic that the History tab does not notice.
StayOnTab ==
    /\ \/ EnterBackground \/ DayPasses
       \/ \E p \in Images : TapReveal(p)
       \/ \E p \in Photos : GeocodeReplies(p)
       \/ TapCard \/ FlipSettles
       \/ TapSkip \/ DismissAlert \/ CancelSkip \/ ConfirmSkip
    /\ UNCHANGED history

GoHome == SelectTab(Home) /\ UNCHANGED history

GoToHistory ==
    /\ SelectTab(History)
    /\ history' \in TabAppears(context, fromSubmit, history)
    /\ ~ListTraps(fromSubmit, history')

\* submit() selects the History tab, which sees the new reflection in the
\* context.
SubmitAndShow ==
    /\ Submit
    /\ history' \in TabAppears(context', TRUE, history)

\* The list is drawn with a reflection that has no image, and i.image! ends
\* the process: as the tab comes on screen ...
ShowingListCrashes ==
    /\ running
    /\ tabSelection = Home
    /\ NoModal
    /\ \E h \in TabAppears(context, fromSubmit, history) :
           ListTraps(fromSubmit, h)
    /\ store' = store
    /\ ProcessEnds
    /\ history' = NoHistory

\* ... or as the list takes the indicator's place.
LoadedListCrashes ==
    /\ running
    /\ tabSelection = History
    /\ Loading(fromSubmit, history)
    /\ history.timeRemaining <= 1
    /\ ListTraps(FALSE, Loaded(history))
    /\ store' = store
    /\ ProcessEnds
    /\ history' = NoHistory

UseHistory ==
    /\ TickDown \/ TickLast \/ OpenCard \/ CloseCard
    /\ UNCHANGED onlyHomeVars

FlicsyNext ==
    \/ LaunchApp \/ EndApp \/ StayOnTab \/ GoHome \/ GoToHistory
    \/ SubmitAndShow \/ ShowingListCrashes \/ LoadedListCrashes \/ UseHistory

FlicsySpec == FlicsyInit /\ [][FlicsyNext]_flicsyVars

\* The timer fires while the tab it draws on is on screen.  Nothing is
\* assumed of the user, the calendar or the system.
TimerFires ==
    /\ tabSelection = History
    /\ \/ (TickDown \/ TickLast) /\ UNCHANGED onlyHomeVars
       \/ LoadedListCrashes

FairFlicsySpec == FlicsySpec /\ WF_flicsyVars(TimerFires)

----------------------------------------------------------------------------
(* Correctness                                                             *)

\* Type correctness of both tabs: in particular every tab and card path
\* leaves timeRemaining in its range.
FlicsyTypeOK == HomeTypeOK /\ history \in HistoryView

\* The mark -1 that HistoryCardView leaves in HistoryView's timer stands for
\* an open card exactly, however tabs were changed and cards left open.
CardMatchesTimer == history.cardOpen <=> history.timeRemaining = -1

\* A list that is not all the reflections of the context, the newest first,
\* is never forgotten: as long as it is stale, fromSubmit stays up, so that
\* the next appearance of the list fetches.
StaleListIsPending ==
    running /\ history.reflections \notin fetchReflections(context) => fromSubmit

\* What fetchReflections is for: unless a submit is still to be loaded, the
\* list is the journal of this process, every reflection in a row of its own,
\* and reads from the newest photo to the oldest.
ListShowsJournal ==
    running /\ ~fromSubmit =>
        LET list == history.reflections
            all == context.reflections
        IN  /\ Len(list) = Len(all)
            /\ Range(list) = Range(all)
            /\ \A i \in 1..(Len(list) - 1) : list[i].date >= list[i + 1].date

\* "Loading your reflection history..." ends while the user waits for it.
LoadingEnds ==
    (tabSelection = History /\ Loading(fromSubmit, history))
        ~> (tabSelection # History \/ ~Loading(fromSubmit, history))

\* The app is Today's Flic with a History tab beside it: nothing the History
\* tab does changes what DailyHome allows, so what holds of it holds here.
FlicsyImplementsHome == HomeSpec
=============================================================================
