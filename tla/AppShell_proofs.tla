-------------------------- MODULE AppShell_proofs --------------------------
(***************************************************************************)
(* Proofs about the screens in front of the tabs, for every length of the  *)
(* week and every number of reminders.                                     *)
(***************************************************************************)
EXTENDS AppShell, TLAPS

\* The User object decides about the onboarding: while it is shown there is
\* none in the context, and on disk there are no more than in the context.
UserInv ==
    /\ OneUser
    /\ alive => (shell.inOnboarding <=> users = 0)
    /\ shell.screen = "onboarding" => shell.inOnboarding
    /\ shell.screen = "tabs" => ~shell.inOnboarding
    /\ ~alive => shell.screen = "loading"
    /\ ~SaveMayFail /\ finished # "no" => savedUsers = 1

\* A prompt comes up only before the first answer, so that no answer takes
\* away an access that the tabs were shown with.
AccessInv ==
    /\ TabsNeedAccess
    /\ photos.prompt # "none" => photos.status = "notDetermined"

ShellInv == ShellTypeOK /\ UserInv /\ AccessInv

----------------------------------------------------------------------------
LEMMA FreshShellOK ==
    ASSUME NEW n \in Nat
    PROVE  /\ FreshShell(n) \in Shell
           /\ FreshShell(n).screen = "loading"
           /\ FreshShell(n).inOnboarding <=> n = 0
  <1> DEFINE b == n = 0
  <1>1. b \in BOOLEAN /\ 3 \in 1..3 /\ 0 \in 0..LastPage
    BY DEF LastPage, Pages
  <1> HIDE DEF b
  <1>2. [loading |-> TRUE, loadingTimeRemaining |-> 3, inOnboarding |-> b,
         currentPageIndex |-> 0, screen |-> "loading"] \in Shell
    BY <1>1 DEF Shell
  <1>3. FreshShell(n) \in Shell
    BY <1>2 DEF FreshShell, b
  <1> QED
    BY <1>3, Zenon DEF FreshShell

\* What drawing the body leaves alone, and what the screen stands for.
LEMMA DrawnOK ==
    ASSUME NEW s \in Shell
    PROVE  /\ Drawn(s) \in Shell
           /\ Drawn(s).inOnboarding = s.inOnboarding
           /\ Drawn(s).screen = "onboarding" => s.inOnboarding
           /\ Drawn(s).screen = "tabs"
                => photos.status = "authorized" /\ ~s.inOnboarding
  BY DEF Drawn, Shell

LEMMA RequestedOK ==
    ASSUME NEW p \in Permission
    PROVE  /\ Requested(p) \in Permission
           /\ Requested(p).status = p.status
           /\ (p.prompt # "none" => p.status = "notDetermined")
                => (Requested(p).prompt # "none"
                      => Requested(p).status = "notDetermined")
  BY DEF Requested, Permission

LEMMA InitShellInv == ShellInit => ShellInv
  <1> SUFFICES ASSUME ShellInit PROVE ShellInv
    OBVIOUS
  <1>1. ShellTypeOK
    <2>1. NotAsked \in Permission
      BY DEF NotAsked, Permission
    <2>2. reminders \in [Weekdays -> 0..MaxReminders]
      BY ShellAssumption DEF ShellInit
    <2> QED
      BY <2>1, <2>2, FreshShellOK DEF ShellInit, ShellTypeOK
  <1>2. UserInv
    BY FreshShellOK DEF ShellInit, UserInv, OneUser
  <1>3. AccessInv
    BY FreshShellOK DEF ShellInit, AccessInv, TabsNeedAccess, NotAsked
  <1> QED
    BY <1>1, <1>2, <1>3 DEF ShellInv

LEMMA NextShellInv == ShellInv /\ [ShellNext]_shellVars => ShellInv'
  <1> SUFFICES ASSUME ShellInv, [ShellNext]_shellVars PROVE ShellInv'
    OBVIOUS
  <1> USE DEF ShellInv
  <1> DEFINE Redraws == shell' = shell \/ shell' = Drawn(shell)
  <1>e. ASSUME Exit, photos' \in Permission, photos'.prompt = "none",
               savedUsers' \in {savedUsers, users}
        PROVE  ShellInv'
    <2>1. shell' = FreshShell(0)
      BY <1>e DEF Exit
    <2>2. ShellTypeOK'
      BY <1>e, <2>1, FreshShellOK DEF Exit, ShellTypeOK, Permission
    <2>3. UserInv'
      BY <1>e, <2>1, FreshShellOK DEF Exit, UserInv, OneUser, ShellTypeOK
    <2>4. AccessInv'
      BY <1>e, <2>1, FreshShellOK DEF Exit, AccessInv, TabsNeedAccess
    <2> QED
      BY <2>2, <2>3, <2>4
  <1>s. ASSUME Redraws
        PROVE  /\ shell' \in Shell
               /\ shell'.inOnboarding = shell.inOnboarding
               /\ alive /\ shell'.screen = "onboarding" => shell'.inOnboarding
               /\ shell'.screen = "tabs"
                    => photos.status = "authorized" /\ ~shell'.inOnboarding
    BY <1>s, DrawnOK DEF ShellTypeOK, UserInv, AccessInv, TabsNeedAccess
  <1>p. ASSUME NEW i \in 0..LastPage, shell' = Turned(i)
        PROVE  /\ shell' \in Shell
               /\ shell'.inOnboarding = shell.inOnboarding
               /\ shell'.screen = shell.screen
    BY <1>p DEF Turned, ShellTypeOK, Shell
  <1>l. 0 \in 0..LastPage /\ 1 \in 0..LastPage /\ 2 \in 0..LastPage /\ 3 \in 0..LastPage
    BY DEF LastPage, Pages
  <1>1. CASE Start
    <2>1. shell' = FreshShell(savedUsers) /\ savedUsers \in Nat
      BY <1>1 DEF Start, ShellTypeOK
    <2>2. ShellTypeOK'
      BY <1>1, <2>1, FreshShellOK DEF Start, ShellTypeOK
    <2>3. UserInv'
      <3>1. /\ shell'.inOnboarding <=> savedUsers = 0
            /\ shell'.screen = "loading"
        BY <2>1, FreshShellOK
      <3>2. savedUsers <= 1
        BY DEF UserInv, OneUser, ShellTypeOK
      <3> QED
        BY <1>1, <2>1, <3>1, <3>2 DEF Start, UserInv, OneUser
    <2>4. AccessInv'
      BY <1>1, <2>1, FreshShellOK DEF Start, AccessInv, TabsNeedAccess
    <2> QED
      BY <2>2, <2>3, <2>4
  <1>2. CASE Quit
    BY <1>2, <1>e DEF Quit, ShellTypeOK, Permission
  <1>3. CASE ChangeInSettings
    BY <1>3, <1>e DEF ChangeInSettings, ShellTypeOK, Permission
  <1>4. CASE SceneToBackground
    <2>1. savedUsers' = users \/ (SaveMayFail /\ savedUsers' = savedUsers)
      BY <1>4, SaveMayFailAssumption DEF SceneToBackground, SaveUsers
    <2>2. Redraws
      BY <1>4 DEF SceneToBackground
    <2>3. ShellTypeOK'
      BY <1>4, <2>1, <2>2, <1>s DEF SceneToBackground, ShellTypeOK
    <2>4. UserInv'
      BY <1>4, <2>1, <2>2, <1>s
      DEF SceneToBackground, UserInv, OneUser, ShellTypeOK
    <2>5. AccessInv'
      BY <1>4, <2>2, <1>s DEF SceneToBackground, AccessInv, TabsNeedAccess
    <2> QED
      BY <2>3, <2>4, <2>5
  <1>5. CASE SceneChanges
    BY <1>5, <1>s
    DEF SceneChanges, ShellTypeOK, UserInv, OneUser, AccessInv, TabsNeedAccess
  <1>6. CASE HalfDayPasses
    <2>1. ShellTypeOK'
      BY <1>6, ShellAssumption DEF HalfDayPasses, ShellTypeOK, Weekdays
    <2> QED
      BY <1>6, <2>1
      DEF HalfDayPasses, UserInv, OneUser, AccessInv, TabsNeedAccess
  <1>7. CASE TickLoading
    <2>1. shell' \in Shell
      BY <1>7 DEF TickLoading, ShellTypeOK, Shell
    <2>2. shell'.screen = shell.screen /\ shell'.inOnboarding = shell.inOnboarding
      BY <1>7 DEF TickLoading, ShellTypeOK, Shell
    <2> QED
      BY <1>7, <2>1, <2>2
      DEF TickLoading, ShellTypeOK, UserInv, OneUser, AccessInv, TabsNeedAccess
  <1>8. CASE StopLoading
    <2> DEFINE s == [shell EXCEPT !.loading = FALSE, !.loadingTimeRemaining = 3]
    <2>0. 3 \in 1..3
      OBVIOUS
    <2>1. s \in Shell
      BY <2>0 DEF ShellTypeOK, Shell
    <2>3. s.inOnboarding = shell.inOnboarding
      BY DEF ShellTypeOK, Shell
    <2>2. shell' = Drawn(s)
      BY <1>8 DEF StopLoading
    <2> HIDE DEF s
    <2> QED
      BY <1>8, <2>1, <2>2, <2>3, DrawnOK
      DEF StopLoading, ShellTypeOK, UserInv, OneUser, AccessInv, TabsNeedAccess
  <1>9. CASE PhotoPromptShows
    BY <1>9 DEF PhotoPromptShows, ShellTypeOK, Permission, UserInv, OneUser,
                AccessInv, TabsNeedAccess
  <1>10. CASE AnswerPhotoPrompt
    BY <1>10 DEF AnswerPhotoPrompt, Answers, ShellTypeOK, Permission, UserInv,
                 OneUser, AccessInv, TabsNeedAccess
  <1>11. CASE AlertPromptShows
    BY <1>11 DEF AlertPromptShows, ShellTypeOK, Permission, UserInv, OneUser,
                 AccessInv, TabsNeedAccess
  <1>12. CASE AnswerAlertPrompt
    BY <1>12 DEF AnswerAlertPrompt, Answers, ShellTypeOK, Permission, UserInv,
                 OneUser, AccessInv, TabsNeedAccess
  <1>13. CASE PreviousPage
    <2>1. PICK i \in 1..LastPage : shell' = Turned(i - 1)
      BY <1>13 DEF PreviousPage
    <2>2. i - 1 \in 0..LastPage
      BY DEF LastPage, Pages
    <2> QED
      BY <1>13, <2>1, <2>2, <1>p
      DEF PreviousPage, ShellTypeOK, UserInv, OneUser, AccessInv, TabsNeedAccess
  <1>14. CASE GetStarted
    BY <1>14, <1>l, <1>p
    DEF GetStarted, ShellTypeOK, UserInv, OneUser, AccessInv, TabsNeedAccess
  <1>15. CASE NextAsksForPhotos
    <2>1. shell' = Turned(2) /\ photos' = Requested(photos)
      BY <1>15 DEF NextAsksForPhotos
    <2> QED
      BY <1>15, <2>1, <1>l, <1>p, RequestedOK
      DEF NextAsksForPhotos, ShellTypeOK, UserInv, OneUser, AccessInv,
          TabsNeedAccess
  <1>16. CASE NextSchedules
    <2>1. shell' = Turned(3) /\ alerts' = Requested(alerts)
      BY <1>16 DEF NextSchedules
    <2>2. getLunchTime \in Weekdays
      BY ShellAssumption DEF getLunchTime, ShellTypeOK, Weekdays
    <2>3. reminders' \in [Weekdays -> 0..MaxReminders]
      BY <1>16, <2>2, ShellAssumption DEF NextSchedules, Scheduled, ShellTypeOK
    <2> QED
      BY <1>16, <2>1, <2>3, <1>l, <1>p, RequestedOK
      DEF NextSchedules, ShellTypeOK, UserInv, OneUser, AccessInv, TabsNeedAccess
  <1>17. CASE Finish
    <2> DEFINE s == [shell EXCEPT !.inOnboarding = FALSE]
    <2>1. s \in Shell /\ ~s.inOnboarding
      BY DEF ShellTypeOK, Shell
    <2>2. shell' = Drawn(s)
      BY <1>17 DEF Finish
    <2>3. users = 0 /\ users' = 1 /\ alive /\ alive'
      BY <1>17 DEF Finish, OnPage, UserInv
    <2>4. savedUsers' = 1 \/ (SaveMayFail /\ savedUsers' = savedUsers)
      BY <1>17, <2>3, SaveMayFailAssumption DEF Finish, SaveUsers
    <2>5. ShellTypeOK'
      BY <1>17, <2>1, <2>2, <2>3, <2>4, DrawnOK DEF Finish, Finished, ShellTypeOK
    <2>6. UserInv'
      <3>1. ~shell'.inOnboarding /\ shell'.screen # "onboarding"
        BY <2>1, <2>2, DrawnOK
      <3>2. savedUsers' <= 1
        BY <2>3, <2>4 DEF UserInv, OneUser, ShellTypeOK
      <3> QED
        BY <2>3, <2>4, <3>1, <3>2 DEF UserInv, OneUser
    <2>7. AccessInv'
      BY <1>17, <2>1, <2>2, DrawnOK DEF Finish, AccessInv, TabsNeedAccess
    <2> QED
      BY <2>5, <2>6, <2>7
  <1>18. CASE UNCHANGED shellVars
    BY <1>18 DEF shellVars, ShellTypeOK, UserInv, OneUser, AccessInv,
                 TabsNeedAccess
  <1> QED
    BY <1>1, <1>2, <1>3, <1>4, <1>5, <1>6, <1>7, <1>8, <1>9, <1>10, <1>11,
       <1>12, <1>13, <1>14, <1>15, <1>16, <1>17, <1>18 DEF ShellNext

\* A User object on disk stays there.
LEMMA UserStays ==
    ShellInv /\ [ShellNext]_shellVars => (savedUsers = 1 => savedUsers' = 1)
  <1> SUFFICES ASSUME ShellInv, [ShellNext]_shellVars, savedUsers = 1
               PROVE  savedUsers' = 1
    OBVIOUS
  <1>1. users = 1
    BY DEF ShellInv, ShellTypeOK, UserInv, OneUser
  <1>2. CASE SceneToBackground
    BY <1>1, <1>2, SaveMayFailAssumption DEF SceneToBackground, SaveUsers
  <1>3. CASE Quit
    BY <1>1, <1>3 DEF Quit
  <1>4. CASE Finish
    BY <1>1, <1>4 DEF Finish, OnPage, ShellInv, UserInv
  <1>5. CASE \/ Start \/ ChangeInSettings \/ SceneChanges \/ HalfDayPasses
             \/ TickLoading \/ StopLoading \/ UNCHANGED shellVars
    BY <1>5 DEF Start, ChangeInSettings, SceneChanges, HalfDayPasses,
                TickLoading, StopLoading, shellVars
  <1>6. CASE \/ PhotoPromptShows \/ AnswerPhotoPrompt
             \/ AlertPromptShows \/ AnswerAlertPrompt
             \/ PreviousPage \/ GetStarted \/ NextAsksForPhotos \/ NextSchedules
    BY <1>6 DEF PhotoPromptShows, AnswerPhotoPrompt, AlertPromptShows,
                AnswerAlertPrompt, PreviousPage, GetStarted, NextAsksForPhotos,
                NextSchedules
  <1> QED
    BY <1>2, <1>3, <1>4, <1>5, <1>6 DEF ShellNext

LEMMA ShellInvHolds == ShellSpec => []ShellInv
  BY InitShellInv, NextShellInv, PTL DEF ShellSpec

----------------------------------------------------------------------------
(* Who is sent to the Settings                                             *)

\* An answer is never taken back, and who is not in onboarding has finished
\* it: so the no-access screen before an answer means an early "Finish".
AskedInv ==
    /\ finished = "answered" => photos.status # "notDetermined"
    /\ users > 0 => finished # "no"
    /\ shell.screen = "noAccess" => alive /\ ~shell.inOnboarding
    /\ AskedAfterRefusal

\* Whom a drawn no-access screen is for.
LEMMA DrawnNoAccess ==
    ASSUME NEW s \in Shell, Drawn(s).screen = "noAccess"
    PROVE  photos.status # "authorized" /\ ~s.inOnboarding
  BY DEF Drawn, Shell

LEMMA InitAsked == ShellInit => AskedInv
  BY FreshShellOK DEF ShellInit, AskedInv, AskedAfterRefusal, NotAsked

LEMMA NextAsked == ShellInv /\ AskedInv /\ [ShellNext]_shellVars => AskedInv'
  <1> SUFFICES ASSUME ShellInv, AskedInv, [ShellNext]_shellVars PROVE AskedInv'
    OBVIOUS
  <1>t. /\ shell \in Shell /\ users \in Nat /\ savedUsers \in Nat
        /\ photos \in Permission /\ finished \in {"no", "early", "answered"}
        /\ savedUsers <= users
        /\ alive => (shell.inOnboarding <=> users = 0)
    BY DEF ShellInv, ShellTypeOK, UserInv, OneUser
  <1>f. /\ photos.status \in {"notDetermined", "denied", "authorized"}
        /\ alive /\ ~shell.inOnboarding /\ photos.status = "notDetermined"
             => finished = "early"
    BY <1>t DEF AskedInv, Permission
  <1>d. ASSUME NEW s \in Shell, alive, s.inOnboarding = shell.inOnboarding,
               Drawn(s).screen = "noAccess"
        PROVE  /\ ~shell.inOnboarding
               /\ photos.status = "denied" \/ finished = "early"
    BY <1>d, <1>f, DrawnNoAccess
  <1>1. CASE Start
    BY <1>1, <1>t, FreshShellOK DEF Start, AskedInv, AskedAfterRefusal
  <1>2. CASE Quit \/ ChangeInSettings
    <2>1. /\ shell'.screen = "loading" /\ finished' = finished
          /\ users' > 0 => users > 0
      BY <1>2, <1>t, FreshShellOK DEF Quit, ChangeInSettings, Exit
    <2>2. photos'.status = "notDetermined" => photos.status = "notDetermined"
      BY <1>2, <1>t DEF Quit, ChangeInSettings, Permission
    <2> QED BY <1>t, <2>1, <2>2 DEF AskedInv, AskedAfterRefusal
  <1>3. CASE SceneToBackground \/ SceneChanges
    <2>1. /\ alive /\ alive' /\ users' = users /\ photos' = photos
          /\ finished' = finished /\ shell' \in {shell, Drawn(shell)}
      BY <1>3 DEF SceneToBackground, SceneChanges
    <2>2. CASE shell' = shell
      BY <2>1, <2>2 DEF AskedInv, AskedAfterRefusal
    <2>3. CASE shell' = Drawn(shell)
      BY <1>t, <1>d, <2>1, <2>3, DrawnOK DEF AskedInv, AskedAfterRefusal
    <2> QED BY <2>1, <2>2, <2>3
  <1>4. CASE StopLoading
    <2> DEFINE s == [shell EXCEPT !.loading = FALSE, !.loadingTimeRemaining = 3]
    <2>1. 3 \in 1..3
      OBVIOUS
    <2>2. s \in Shell /\ s.inOnboarding = shell.inOnboarding
      BY <1>t, <2>1 DEF Shell
    <2>3. /\ alive /\ alive' /\ users' = users /\ photos' = photos
          /\ finished' = finished /\ shell' = Drawn(s)
      BY <1>4 DEF StopLoading
    <2> HIDE DEF s
    <2> QED
      BY <1>d, <2>2, <2>3, DrawnOK DEF AskedInv, AskedAfterRefusal
  <1>5. CASE AnswerPhotoPrompt
    <2>1. /\ photos'.status \in {"denied", "authorized"}
          /\ photos.status = "notDetermined"
      BY <1>5 DEF AnswerPhotoPrompt, Answers, ShellInv, AccessInv
    <2> QED
      BY <1>5, <1>f, <2>1 DEF AnswerPhotoPrompt, AskedInv, AskedAfterRefusal
  <1>6. CASE Finish
    <2> DEFINE s == [shell EXCEPT !.inOnboarding = FALSE]
    <2>1. s \in Shell /\ ~s.inOnboarding
      BY <1>t DEF Shell
    <2>2. /\ alive /\ alive' /\ photos' = photos /\ finished' = Finished
          /\ shell' = Drawn(s)
      BY <1>6 DEF Finish, OnPage
    <2> HIDE DEF s
    <2>3. shell'.screen = "noAccess" => photos.status # "authorized"
      BY <2>1, <2>2, DrawnNoAccess
    <2> QED
      BY <1>f, <2>1, <2>2, <2>3, DrawnOK
         DEF Finished, AskedInv, AskedAfterRefusal
  <1>7. CASE TickLoading
    <2>1. shell'.screen = shell.screen /\ shell'.inOnboarding = shell.inOnboarding
      BY <1>7, <1>t DEF TickLoading, Shell
    <2> QED BY <1>7, <2>1 DEF TickLoading, AskedInv, AskedAfterRefusal
  <1>8. CASE PreviousPage \/ GetStarted \/ NextAsksForPhotos \/ NextSchedules
    <2>1. shell.screen = "onboarding" /\ shell'.screen = shell.screen
      BY <1>8, <1>t DEF PreviousPage, GetStarted, NextAsksForPhotos,
                        NextSchedules, OnPage, Turned, Shell
    <2>2. photos'.status = photos.status /\ users' = users /\ finished' = finished
      BY <1>8, <1>t, RequestedOK
         DEF PreviousPage, GetStarted, NextAsksForPhotos, NextSchedules
    <2> QED BY <2>1, <2>2 DEF AskedInv, AskedAfterRefusal
  <1>9. CASE \/ HalfDayPasses \/ PhotoPromptShows \/ AlertPromptShows
             \/ AnswerAlertPrompt \/ UNCHANGED shellVars
    <2>1. /\ shell' = shell /\ alive' = alive /\ users' = users
          /\ finished' = finished /\ photos'.status = photos.status
      BY <1>9, <1>t DEF HalfDayPasses, PhotoPromptShows, AlertPromptShows,
                        AnswerAlertPrompt, shellVars, Permission
    <2> QED BY <2>1 DEF AskedInv, AskedAfterRefusal
  <1> QED
    BY <1>1, <1>2, <1>3, <1>4, <1>5, <1>6, <1>7, <1>8, <1>9 DEF ShellNext

\* Only a user who refused is sent to the Settings, unless "Finish" was tapped
\* before the prompt was answered, whatever saves are refused.
THEOREM SentAfterRefusal == ShellSpec => []AskedAfterRefusal
  <1>1. AskedInv => AskedAfterRefusal
    BY DEF AskedInv
  <1> QED
    BY <1>1, InitAsked, NextAsked, ShellInvHolds, PTL DEF ShellSpec

----------------------------------------------------------------------------
(* The other theorems                                                      *)

\* The page stays an index of the onboarding's texts.
THEOREM ShellTypes == ShellSpec => []ShellTypeOK
  <1>1. ShellInv => ShellTypeOK
    BY DEF ShellInv
  <1> QED
    BY <1>1, ShellInvHolds, PTL

\* Finish inserts the User object once, whatever becomes of its save.
THEOREM AtMostOneUser == ShellSpec => []OneUser
  <1>1. ShellInv => OneUser
    BY DEF ShellInv, UserInv
  <1> QED
    BY <1>1, ShellInvHolds, PTL

\* Once finished, the onboarding does not come back, if saves succeed.
THEOREM OnboardingEndsForGood == ShellSpec => []OnboardedOnce
  <1>1. ShellInv => OnboardedOnce
    BY DEF ShellInv, UserInv, OneUser, OnboardedOnce, ShellTypeOK
  <1> QED
    BY <1>1, ShellInvHolds, PTL

\* The tabs are never on screen without access to the photos.
THEOREM TabsHaveAccess == ShellSpec => []TabsNeedAccess
  <1>1. ShellInv => TabsNeedAccess
    BY DEF ShellInv, AccessInv
  <1> QED
    BY <1>1, ShellInvHolds, PTL
=============================================================================
