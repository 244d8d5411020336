----------------------------- MODULE App_proofs -----------------------------
(***************************************************************************)
(* Proofs about the whole app: it implements Flicsy and AppShell, so what  *)
(* is proved of them holds of it, and a journal on disk never lacks its    *)
(* User object.                                                            *)
(***************************************************************************)
EXTENDS App, Flicsy_proofs, AppShell_proofs

----------------------------------------------------------------------------
(* The tabs                                                                *)

\* Every step of the app is a step of the tabs or leaves them alone.
LEMMA StepIsFlicsyStep == [AppNext]_appVars => [FlicsyNext]_flicsyVars
  <1> SUFFICES ASSUME [AppNext]_appVars PROVE [FlicsyNext]_flicsyVars
    OBVIOUS
  <1>1. CASE FirstScreens
    BY <1>1 DEF FirstScreens, WithTabs, FlicsyNext
  <1>2. CASE Prompts \/ Noon
    BY <1>2 DEF Prompts, Noon
  <1>3. CASE Midnight
    BY <1>3 DEF Midnight, StayOnTab, FlicsyNext
  <1>4. CASE TabSaves
    BY <1>4 DEF TabSaves, StayOnTab, FlicsyNext
  <1>5. CASE TabRuns
    BY <1>5 DEF TabRuns, StayOnTab, UseHistory, FlicsyNext
  <1>6. CASE TabsEnd
    BY <1>6 DEF TabsEnd, KillTabs, EndApp, FlicsyNext
  <1>7. CASE SubmitEnds
    BY <1>7 DEF SubmitEnds, EndApp, FlicsyNext
  <1>8. CASE SettingsEndTabs
    BY <1>8 DEF SettingsEndTabs, KillTabs, EndApp, FlicsyNext
  <1>9. CASE UNCHANGED appVars
    BY <1>9 DEF appVars
  <1> QED
    BY <1>1, <1>2, <1>3, <1>4, <1>5, <1>6, <1>7, <1>8, <1>9 DEF AppNext

\* Behind the first screens, the tabs are Flicsy.
LEMMA ImplementsFlicsy == AppSpec => FlicsySpec
  <1>1. AppInit => FlicsyInit
    BY DEF AppInit
  <1> QED
    BY <1>1, StepIsFlicsyStep, PTL DEF AppSpec, FlicsySpec

----------------------------------------------------------------------------
(* The first screens                                                       *)

\* The tabs run while they are the screen of a living process.
OnScreenInv == running <=> alive /\ shell.screen = "tabs"

\* What a step of the tabs does to running.
LEMMA TabStepRuns ==
    ASSUME TabSaves \/ TabRuns
    PROVE  running /\ running'
  <1> SUFFICES running /\ running' = running
    OBVIOUS
  <1>1. CASE EnterBackground
    BY <1>1 DEF EnterBackground
  <1>2. ASSUME NEW p \in Images, TapReveal(p)
        PROVE  running /\ running' = running
    BY <1>2 DEF TapReveal, HomeOnScreen
  <1>3. CASE ConfirmSkip
    BY <1>3 DEF ConfirmSkip
  <1>4. CASE SubmitAndShow
    BY <1>4 DEF SubmitAndShow, Submit, CanSubmit, HomeOnScreen
  <1>5. CASE TapCard \/ TapSkip \/ DismissAlert \/ CancelSkip
    BY <1>5 DEF TapCard, TapSkip, CanSkip, HomeOnScreen, DismissAlert, CancelSkip
  <1>6. CASE GoHome \/ GoToHistory
    BY <1>6 DEF GoHome, GoToHistory, SelectTab
  <1>7. CASE OpenCard \/ CloseCard \/ TickDown \/ TickLast
    BY <1>7 DEF OpenCard, CloseCard, ListOnScreen, TickDown, TickLast
  <1>8. CASE FlipSettles
    BY <1>8 DEF FlipSettles
  <1>9. ASSUME NEW p \in Photos, GeocodeReplies(p)
        PROVE  running /\ running' = running
    BY <1>9 DEF GeocodeReplies
  <1> QED
    BY <1>1, <1>2, <1>3, <1>4, <1>5, <1>6, <1>7, <1>8, <1>9 DEF TabSaves, TabRuns

\* What an end of the process does to running.
LEMMA EndStops ==
    ASSUME TabsEnd \/ SubmitEnds \/ SettingsEndTabs
    PROVE  running /\ ~running' /\ ~alive'
  <1>1. ~alive'
    BY DEF TabsEnd, SubmitEnds, SettingsEndTabs, Quit,
           ChangeInSettings, Exit
  <1>2. CASE TabsEnd
    BY <1>1, <1>2 DEF TabsEnd, KillTabs, Kill, GeocodeFails, ShowingListCrashes,
                      LoadedListCrashes, ProcessEnds
  <1>3. CASE SubmitEnds
    BY <1>1, <1>3 DEF SubmitEnds, SubmitInterrupted, CanSubmit, HomeOnScreen,
                      ProcessEnds
  <1>4. CASE SettingsEndTabs
    BY <1>1, <1>4 DEF SettingsEndTabs, KillTabs, Kill, ProcessEnds
  <1> QED
    BY <1>2, <1>3, <1>4

\* Only a living process shows the tabs.
LEMMA TabsNeedProcess ==
    ASSUME FirstScreens, shell'.screen = "tabs"
    PROVE  alive'
  <1>1. CASE Start
    BY <1>1 DEF Start
  <1>2. CASE Quit \/ ChangeInSettings
    <2>1. shell' = FreshShell(0)
      BY <1>2 DEF Quit, ChangeInSettings, Exit
    <2> QED
      BY <2>1 DEF FreshShell
  <1>3. CASE SceneToBackground \/ SceneChanges
    BY <1>3 DEF SceneToBackground, SceneChanges
  <1>4. CASE TickLoading \/ StopLoading
    BY <1>4 DEF TickLoading, StopLoading
  <1>5. CASE \/ PreviousPage \/ GetStarted
             \/ NextAsksForPhotos \/ NextSchedules \/ Finish
    BY <1>5 DEF PreviousPage, GetStarted, NextAsksForPhotos,
                NextSchedules, Finish, OnPage
  <1> QED
    BY <1>1, <1>2, <1>3, <1>4, <1>5 DEF FirstScreens

LEMMA InitOnScreen == AppInit => OnScreenInv
  BY DEF AppInit, FlicsyInit, HomeInit, PersistenceInit, ShellInit,
         OnScreenInv

LEMMA NextOnScreen == OnScreenInv /\ [AppNext]_appVars => OnScreenInv'
  <1> SUFFICES ASSUME OnScreenInv, [AppNext]_appVars PROVE OnScreenInv'
    OBVIOUS
  <1>1. CASE FirstScreens
    <2>1. CASE shell'.screen = "tabs"
      BY <1>1, <2>1, TabsNeedProcess
      DEF FirstScreens, WithTabs, LaunchApp, Launch, OnScreenInv
    <2>2. CASE shell'.screen # "tabs"
      BY <1>1, <2>2 DEF FirstScreens, WithTabs, flicsyVars, homeVars, OnScreenInv
    <2> QED
      BY <2>1, <2>2
  <1>2. CASE Prompts
    BY <1>2 DEF Prompts, PhotoPromptShows, AnswerPhotoPrompt,
                AlertPromptShows, AnswerAlertPrompt, flicsyVars,
                homeVars, OnScreenInv
  <1>3. CASE Noon
    BY <1>3 DEF Noon, HalfDayPasses, flicsyVars, homeVars, OnScreenInv
  <1>4. CASE Midnight
    BY <1>4 DEF Midnight, HalfDayPasses, DayPasses, OnScreenInv
  <1>5. CASE TabSaves \/ TabRuns
    <2>1. alive' = alive /\ shell' = shell
      BY <1>5 DEF TabSaves, TabRuns, screenVars, shellVars
    <2> QED
      BY <1>5, <2>1, TabStepRuns DEF OnScreenInv
  <1>6. CASE TabsEnd \/ SubmitEnds \/ SettingsEndTabs
    BY <1>6, EndStops DEF OnScreenInv
  <1>7. CASE UNCHANGED appVars
    BY <1>7 DEF appVars, shellVars, flicsyVars, homeVars, OnScreenInv
  <1> QED
    BY <1>1, <1>2, <1>3, <1>4, <1>5, <1>6, <1>7 DEF AppNext

LEMMA OnScreenHolds == AppSpec => []OnScreenInv
  BY InitOnScreen, NextOnScreen, PTL DEF AppSpec

\* Every step of the app is one of the first screens or leaves them alone; a
\* save of the tabs is, for the User object, like the save of the scene.
LEMMA StepIsShellStep ==
    OnScreenInv /\ [AppNext]_appVars => [ShellNext]_shellVars
  <1> SUFFICES ASSUME OnScreenInv, [AppNext]_appVars
               PROVE  [ShellNext]_shellVars
    OBVIOUS
  <1>1. CASE FirstScreens
    BY <1>1 DEF FirstScreens, ShellNext
  <1>2. CASE Prompts
    BY <1>2 DEF Prompts, ShellNext
  <1>3. CASE Noon \/ Midnight
    BY <1>3 DEF Noon, Midnight, ShellNext
  <1>4. CASE TabSaves
    <2>1. CASE savedUsers' = savedUsers
      BY <1>4, <2>1 DEF TabSaves, screenVars, shellVars
    <2>2. CASE savedUsers' = users
      <3>1. alive
        BY <1>4, TabStepRuns DEF OnScreenInv
      <3>2. SceneToBackground
        BY <1>4, <2>2, <3>1 DEF TabSaves, screenVars, SceneToBackground,
                                SaveUsers
      <3> QED
        BY <3>2 DEF ShellNext
    <2> QED
      BY <1>4, <2>1, <2>2 DEF TabSaves, SavesUser
  <1>5. CASE TabRuns
    BY <1>5 DEF TabRuns, shellVars
  <1>6. CASE TabsEnd \/ SubmitEnds \/ SettingsEndTabs
    BY <1>6 DEF TabsEnd, SubmitEnds, SettingsEndTabs, ShellNext
  <1>7. CASE UNCHANGED appVars
    BY <1>7 DEF appVars, shellVars
  <1> QED
    BY <1>1, <1>2, <1>3, <1>4, <1>5, <1>6, <1>7 DEF AppNext

\* In front of the tabs, the first screens are AppShell.
THEOREM ImplementsShell == AppSpec => AppImplementsShell
  <1>1. AppInit => ShellInit
    BY DEF AppInit
  <1> QED
    BY <1>1, OnScreenHolds, StepIsShellStep, PTL
       DEF AppSpec, ShellSpec, AppImplementsShell

----------------------------------------------------------------------------
(* What the parts guarantee together                                       *)

LEMMA ShellInvInApp == AppSpec => []ShellInv
  BY ImplementsShell, ShellInvHolds, PTL DEF AppImplementsShell

\* The tabs change the disk only together with the User object.
DiskHasUser == store # NoObjects => savedUsers = 1

LEMMA DiskChangesWithUser ==
    ASSUME ShellInv, OnScreenInv, [AppNext]_appVars, store' # store
    PROVE  savedUsers' = 1
  <1>1. TabSaves \/ SubmitEnds
    <2>1. CASE FirstScreens
      BY <2>1 DEF FirstScreens, WithTabs, LaunchApp, Launch, flicsyVars, homeVars
    <2>2. CASE Prompts \/ Noon \/ Midnight \/ UNCHANGED appVars
      BY <2>2 DEF Prompts, Noon, Midnight, DayPasses, appVars, flicsyVars, homeVars
    <2>3. CASE TabRuns
      BY <2>3 DEF TabRuns, TapCard, TapSkip, DismissAlert, CancelSkip, GoHome,
                  GoToHistory, SelectTab, OpenCard, CloseCard, FlipSettles,
                  GeocodeReplies, TickDown, TickLast
    <2>4. CASE TabsEnd \/ SettingsEndTabs
      BY <2>4 DEF TabsEnd, SettingsEndTabs, KillTabs, Kill, GeocodeFails,
                  ShowingListCrashes, LoadedListCrashes
    <2> QED
      BY <2>1, <2>2, <2>3, <2>4 DEF AppNext
  <1>2. running
    BY <1>1, TabStepRuns, EndStops
  <1>3. users = 1
    <2>1. alive /\ ~shell.inOnboarding
      BY <1>2 DEF OnScreenInv, ShellInv, UserInv
    <2> QED
      BY <2>1 DEF ShellInv, UserInv, OneUser, ShellTypeOK
  <1>4. savedUsers' = users
    BY <1>1 DEF TabSaves, SavesUser, SubmitEnds
  <1> QED
    BY <1>3, <1>4

LEMMA NextDiskUser ==
    ShellInv /\ OnScreenInv /\ DiskHasUser /\ [AppNext]_appVars => DiskHasUser'
  <1> SUFFICES ASSUME ShellInv, OnScreenInv, DiskHasUser, [AppNext]_appVars
               PROVE  DiskHasUser'
    OBVIOUS
  <1>1. CASE store' # store
    BY <1>1, DiskChangesWithUser DEF DiskHasUser
  <1>2. CASE store' = store
    BY <1>2, StepIsShellStep, UserStays DEF DiskHasUser
  <1> QED
    BY <1>1, <1>2

\* A journal on disk has its User object, and the onboarding is not shown to
\* who has one, also when saves fail.
THEOREM JournalHasUser == AppSpec => []JournalMeansUser
  <1>1. AppInit => DiskHasUser
    BY DEF AppInit, FlicsyInit, HomeInit, PersistenceInit, DiskHasUser
  <1>2. ShellInv /\ DiskHasUser => JournalMeansUser
    BY DEF ShellInv, UserInv, OneUser, ShellTypeOK, DiskHasUser, JournalMeansUser
  <1> QED
    BY <1>1, <1>2, NextDiskUser, OnScreenHolds, ShellInvInApp, PTL DEF AppSpec

\* What is proved of the tabs holds of the whole app: whatever saves do, the
\* skip sheet is justified, at most one reflection is at risk and the disk
\* gets the journal in order, ...
THEOREM AppUnderFaults ==
    AppSpec => /\ [](SheetOnlyIfNoSkip /\ AtMostOneReflectionAtRisk)
               /\ DiskIsLateJournal
  BY ImplementsFlicsy, ImplementsHome, SheetIsJustified, OneAtRisk,
     DiskImplementsLateJournal, PTL DEF FlicsyImplementsHome

\* ... the History tab shows the journal, its timer marks an open card, and
\* the countdown stays once it is up, also with the first screens and the
\* prompts of the system around them, ...
THEOREM AppTabsAgree ==
    AppSpec => /\ [](FlicsyTypeOK /\ ListShowsJournal /\ CardMatchesTimer)
               /\ CountDownStays
  BY ImplementsFlicsy, ImplementsHome, FlicsyTypeCorrect, ListShows, CardMatches,
     CountDownPlaced, PTL DEF FlicsyImplementsHome

\* ... and with a store that takes valid objects the disk is a journal.
THEOREM WholeAppKeepsJournal ==
    ASSUME ~SaveMayFail PROVE AppSpec => DiskIsJournal /\ []SkipOncePerDay
  BY ImplementsFlicsy, AppKeepsJournal, PTL
=============================================================================
