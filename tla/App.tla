-------------------------------- MODULE App --------------------------------
(***************************************************************************)
(* The whole app: AppShell in front, Flicsy behind it.  The tabs exist     *)
(* while ContentView shows them, so the screen that draws them first also  *)
(* launches them, and both end with the process.                           *)
(*                                                                         *)
(* There is one managed object context: the User object that ends the      *)
(* onboarding is saved by the same save() as the controllers and the       *)
(* reflections, and refused with them.                                     *)
(***************************************************************************)
EXTENDS Flicsy, AppShell

appVars == <<flicsyVars, shellVars>>

\* What a step of the tabs leaves alone, but for the User object on disk.
screenVars == <<alive, users, shell, photos, alerts, reminders, clock, finished>>

AppInit == FlicsyInit /\ ShellInit

----------------------------------------------------------------------------
(* In front of the tabs                                                    *)

\* The body of ContentView creates the tabs when it comes to show them.
WithTabs ==
    IF shell'.screen = "tabs" THEN LaunchApp ELSE UNCHANGED flicsyVars

FirstScreens ==
    /\ ~running
    /\ \/ Start \/ Quit \/ ChangeInSettings
       \/ SceneToBackground \/ SceneChanges
       \/ TickLoading \/ StopLoading
       \/ PreviousPage \/ GetStarted
       \/ NextAsksForPhotos \/ NextSchedules \/ Finish
    /\ WithTabs

\* Prompts of the system, over whatever screen; one that was asked for on the
\* last pages can come up over the tabs.
Prompts ==
    /\ \/ PhotoPromptShows \/ AnswerPhotoPrompt
       \/ AlertPromptShows \/ AnswerAlertPrompt
    /\ UNCHANGED flicsyVars

Noon == clock.morning /\ HalfDayPasses /\ UNCHANGED flicsyVars

Midnight ==
    /\ ~clock.morning
    /\ HalfDayPasses
    /\ DayPasses
    /\ UNCHANGED history

----------------------------------------------------------------------------
(* On the tabs                                                             *)

\* The app takes no tap while a prompt is up.
Tap == Idle

\* Mutant: the tabs save a context of their own.
SavesUserApart == savedUsers' = savedUsers

\* The User object goes to disk with the rest of the context: if one of the
\* handler's saves succeeded.  Not if all were refused.
SavesUser ==
    \/ (store' = context' \/ store' # store) /\ savedUsers' = users
    \/ /\ store' = store
       /\ SaveMayFail \/ context' # store
       /\ savedUsers' = savedUsers

\* Mutant: a save that fails rolls the context back.
TabSavesOrRollsBack ==
    /\ \/ EnterBackground /\ UNCHANGED history
       \/ Tap /\ (\E p \in Images : TapReveal(p)) /\ UNCHANGED history
       \/ Tap /\ ConfirmSkip /\ UNCHANGED history
       \/ Tap /\ SubmitAndShow
    /\ SavesUser
    /\ users' = savedUsers'
    /\ UNCHANGED <<alive, shell, photos, alerts, reminders, clock, finished>>

\* Handlers that save.
TabSaves ==
    /\ \/ EnterBackground /\ UNCHANGED history
       \/ Tap /\ (\E p \in Images : TapReveal(p)) /\ UNCHANGED history
       \/ Tap /\ ConfirmSkip /\ UNCHANGED history
       \/ Tap /\ SubmitAndShow
    /\ SavesUser
    /\ UNCHANGED screenVars

\* Handlers, callbacks and timers that do not.
TabRuns ==
    /\ \/ /\ Tap
          /\ TapCard \/ TapSkip \/ DismissAlert \/ CancelSkip
          /\ UNCHANGED history
       \/ Tap /\ (GoHome \/ GoToHistory)
       \/ Tap /\ (OpenCard \/ CloseCard) /\ UNCHANGED onlyHomeVars
       \/ (FlipSettles \/ \E p \in Photos : GeocodeReplies(p)) /\ UNCHANGED history
       \/ (TickDown \/ TickLast) /\ UNCHANGED onlyHomeVars
    /\ UNCHANGED shellVars

----------------------------------------------------------------------------
(* The end of the process                                                  *)

KillTabs == Kill /\ history' = NoHistory

TabsEnd ==
    /\ \/ KillTabs
       \/ (\E p \in Photos : GeocodeFails(p)) /\ history' = NoHistory
       \/ Tap /\ ShowingListCrashes
       \/ LoadedListCrashes
    /\ savedUsers' = savedUsers
    /\ Quit

\* The end between the two saves of a submit; the first one held the new
\* reflection, so that the disk tells whether it succeeded.
SubmitEnds ==
    /\ Tap
    /\ SubmitInterrupted
    /\ history' = NoHistory
    /\ savedUsers' = IF store' # store THEN users ELSE savedUsers
    /\ Quit

SettingsEndTabs == KillTabs /\ ChangeInSettings

----------------------------------------------------------------------------
AppNext ==
    \/ FirstScreens \/ Prompts \/ Noon \/ Midnight
    \/ TabSaves \/ TabRuns
    \/ TabsEnd \/ SubmitEnds \/ SettingsEndTabs

AppSpec == AppInit /\ [][AppNext]_appVars

----------------------------------------------------------------------------
(* Correctness                                                             *)

\* Who has anything on disk is known as a user there, and no launch shows the
\* onboarding over it, although each of the saves may have failed: a journal
\* gets to the disk only with the User object that precedes it.
JournalMeansUser ==
    store # NoObjects => savedUsers = 1 /\ (alive => ~shell.inOnboarding)

\* In front of the tabs the first screens do what AppShell allows, although the
\* tabs' saves take the User object along.
AppImplementsShell == ShellSpec
=============================================================================
