------------------------------ MODULE AppShell ------------------------------
(***************************************************************************)
(* What stands in front of the tabs: the loading screen, the onboarding    *)
(* pages with the two permissions they ask for and the reminder they       *)
(* schedule, and the screen for a user who refused access to the photos.   *)
(*                                                                         *)
(* ContentView chooses the screen when its body is drawn, that is when one *)
(* of its own @State variables changes, or when the scene phase changes;   *)
(* nothing observes the permissions.  They and the reminders belong to the *)
(* system and outlive the process.                                         *)
(***************************************************************************)
EXTENDS Naturals, SaveFaults

CONSTANTS
    Week,          \* days of a week (7 in the calendar)
    MaxReminders   \* bound: reminders are counted up to here

ASSUME ShellAssumption ==
    /\ Week \in Nat \ {0}
    /\ MaxReminders \in Nat \ {0}

VARIABLES
    alive,         \* is there a process?
    users,         \* User objects in the context
    savedUsers,    \* User objects on disk
    shell,         \* the @State of ContentView and its first screens
    photos,        \* access to the photo library, and the prompt for it
    alerts,        \* permission for notifications, and the prompt for it
    reminders,     \* repeating reminders per weekday, held by the system
    clock,         \* the weekday, and whether it is before noon
    finished       \* history variable: how "Finish" was tapped last

shellVars == <<alive, users, savedUsers, shell, photos, alerts, reminders,
               clock, finished>>

Weekdays == 0..(Week - 1)
Pages == 4
LastPage == Pages - 1

Shell ==
    [loading: BOOLEAN, loadingTimeRemaining: 1..3, inOnboarding: BOOLEAN,
     currentPageIndex: 0..LastPage,
     screen: {"loading", "onboarding", "noAccess", "tabs"}]

\* A permission as the system keeps it, and the way of a request for it: the
\* request is asynchronous, and the app takes no tap while the prompt is up.
Permission ==
    [status: {"notDetermined", "denied", "authorized"},
     prompt: {"none", "requested", "shown"}]

NotAsked == [status |-> "notDetermined", prompt |-> "none"]

\* A ContentView whose onAppear found that many User objects.
FreshShell(n) ==
    [loading |-> TRUE, loadingTimeRemaining |-> 3, inOnboarding |-> n = 0,
     currentPageIndex |-> 0, screen |-> "loading"]

\* Mutant: the tabs do not wait for the permission.
DrawnUnchecked(s) ==
    [s EXCEPT !.screen =
        IF s.loading THEN "loading"
        ELSE IF s.inOnboarding THEN "onboarding"
        ELSE "tabs"]

\* Mutant: the permission is looked at before the onboarding.
DrawnAccessFirst(s) ==
    [s EXCEPT !.screen =
        IF s.loading THEN "loading"
        ELSE IF photos.status # "authorized" THEN "noAccess"
        ELSE IF s.inOnboarding THEN "onboarding"
        ELSE "tabs"]

\* The body of ContentView is drawn with the state s.
Drawn(s) ==
    [s EXCEPT !.screen =
        IF s.loading THEN "loading"
        ELSE IF s.inOnboarding THEN "onboarding"
        ELSE IF photos.status # "authorized" THEN "noAccess"
        ELSE "tabs"]

ShellInit ==
    /\ alive = FALSE
    /\ users = 0
    /\ savedUsers = 0
    /\ shell = FreshShell(0)
    /\ photos = NotAsked
    /\ alerts = NotAsked
    /\ reminders = [w \in Weekdays |-> 0]
    /\ clock \in [weekday: Weekdays, morning: BOOLEAN]
    /\ finished = "no"

----------------------------------------------------------------------------
(* Process, scene and clock                                                *)

Start ==
    /\ ~alive
    /\ alive' = TRUE
    /\ users' = savedUsers
    /\ shell' = FreshShell(savedUsers)
    /\ UNCHANGED <<savedUsers, photos, alerts, reminders, clock, finished>>

\* The end of the process takes its prompts along.
Exit ==
    /\ alive' = FALSE
    /\ users' = savedUsers'
    /\ shell' = FreshShell(0)
    /\ alerts' = [alerts EXCEPT !.prompt = "none"]
    /\ UNCHANGED <<reminders, clock, finished>>

\* It may come in the middle of a handler, right after a save.
Quit ==
    /\ alive
    /\ savedUsers' \in {savedUsers, users}
    /\ photos' = [photos EXCEPT !.prompt = "none"]
    /\ Exit

\* The user changes the access in the Settings; the system then ends the app.
ChangeInSettings ==
    /\ photos.status # "notDetermined"
    /\ photos.prompt = "none"
    /\ photos' = [photos EXCEPT !.status =
                     IF @ = "denied" THEN "authorized" ELSE "denied"]
    /\ savedUsers' = savedUsers
    /\ Exit

\* A save of the context; its error goes to a completion that drops it.
SaveUsers(n) == savedUsers' \in {n} \cup (IF SaveMayFail THEN {savedUsers} ELSE {})

\* scenePhase changes to .background, which saves, ...
SceneToBackground ==
    /\ alive
    /\ SaveUsers(users)
    /\ shell' \in {shell, Drawn(shell)}
    /\ UNCHANGED <<alive, users, photos, alerts, reminders, clock, finished>>

\* ... or to another phase; ContentView may be drawn again with it.
SceneChanges ==
    /\ alive
    /\ shell' \in {shell, Drawn(shell)}
    /\ UNCHANGED <<alive, users, savedUsers, photos, alerts, reminders, clock,
                   finished>>

HalfDayPasses ==
    /\ clock' = [weekday |-> IF clock.morning THEN clock.weekday
                             ELSE (clock.weekday + 1) % Week,
                 morning |-> ~clock.morning]
    /\ UNCHANGED <<alive, users, savedUsers, shell, photos, alerts, reminders,
                   finished>>

----------------------------------------------------------------------------
(* The loading screen                                                      *)

TickLoading ==
    /\ alive
    /\ shell.screen = "loading"
    /\ shell.loadingTimeRemaining > 1
    /\ shell' = [shell EXCEPT !.loadingTimeRemaining = @ - 1]
    /\ UNCHANGED <<alive, users, savedUsers, photos, alerts, reminders, clock,
                   finished>>

\* Mutant: loading is kept in LoadController only.
StopLoadingKeeps ==
    /\ alive
    /\ shell.screen = "loading"
    /\ shell.loadingTimeRemaining <= 1
    /\ shell' = Drawn([shell EXCEPT !.loadingTimeRemaining = 3])
    /\ UNCHANGED <<alive, users, savedUsers, photos, alerts, reminders, clock,
                   finished>>

\* The last second.  loadController.stopLoading() has no effect: isLoading is
\* an @State that no view owns.
StopLoading ==
    /\ alive
    /\ shell.screen = "loading"
    /\ shell.loadingTimeRemaining <= 1
    /\ shell' = Drawn([shell EXCEPT !.loading = FALSE,
                                    !.loadingTimeRemaining = 3])
    /\ UNCHANGED <<alive, users, savedUsers, photos, alerts, reminders, clock,
                   finished>>

----------------------------------------------------------------------------
(* Prompts of the system                                                   *)

Idle == photos.prompt # "shown" /\ alerts.prompt # "shown"

\* requestAuthorization: only the first request leads to a prompt.
Requested(p) ==
    IF p.status = "notDetermined" /\ p.prompt = "none"
    THEN [p EXCEPT !.prompt = "requested"]
    ELSE p

Answers(p) == {[status |-> s, prompt |-> "none"] : s \in {"denied", "authorized"}}

PhotoPromptShows ==
    /\ Idle
    /\ photos.prompt = "requested"
    /\ photos' = [photos EXCEPT !.prompt = "shown"]
    /\ UNCHANGED <<alive, users, savedUsers, shell, alerts, reminders, clock,
                   finished>>

\* The completion handlers of both requests change nothing in the app.
AnswerPhotoPrompt ==
    /\ photos.prompt = "shown"
    /\ photos' \in Answers(photos)
    /\ UNCHANGED <<alive, users, savedUsers, shell, alerts, reminders, clock,
                   finished>>

AlertPromptShows ==
    /\ Idle
    /\ alerts.prompt = "requested"
    /\ alerts' = [alerts EXCEPT !.prompt = "shown"]
    /\ UNCHANGED <<alive, users, savedUsers, shell, photos, reminders, clock,
                   finished>>

AnswerAlertPrompt ==
    /\ alerts.prompt = "shown"
    /\ alerts' \in Answers(alerts)
    /\ UNCHANGED <<alive, users, savedUsers, shell, photos, reminders, clock,
                   finished>>

----------------------------------------------------------------------------
(* Onboarding                                                              *)

OnPage(i) ==
    /\ alive
    /\ Idle
    /\ shell.screen = "onboarding"
    /\ shell.currentPageIndex = i

\* Mutant: the pages are counted from 1.
TurnedFromOne(i) == [shell EXCEPT !.currentPageIndex = i + 1]

\* The buttons turn one page.
Turned(i) == [shell EXCEPT !.currentPageIndex = i]

PreviousPage ==
    /\ \E i \in 1..LastPage : OnPage(i) /\ shell' = Turned(i - 1)
    /\ UNCHANGED <<alive, users, savedUsers, photos, alerts, reminders, clock,
                   finished>>

GetStarted ==
    /\ OnPage(0)
    /\ shell' = Turned(1)
    /\ UNCHANGED <<alive, users, savedUsers, photos, alerts, reminders, clock,
                   finished>>

NextAsksForPhotos ==
    /\ OnPage(1)
    /\ photos' = Requested(photos)
    /\ shell' = Turned(2)
    /\ UNCHANGED <<alive, users, savedUsers, alerts, reminders, clock, finished>>

\* getLunchTime: the weekday of the next noon.
getLunchTime ==
    IF clock.morning THEN clock.weekday ELSE (clock.weekday + 1) % Week

\* scheduleLocal: a new identifier each time, so nothing is replaced.
Scheduled(w) ==
    [reminders EXCEPT ![w] = IF @ < MaxReminders THEN @ + 1 ELSE @]

\* The permission is asked for and the reminder scheduled without waiting for
\* the answer; the system may refuse a reminder it has no permission for.
NextSchedules ==
    /\ OnPage(2)
    /\ alerts' = Requested(alerts)
    /\ \/ reminders' = Scheduled(getLunchTime)
       \/ alerts.status # "authorized" /\ reminders' = reminders
    /\ shell' = Turned(3)
    /\ UNCHANGED <<alive, users, savedUsers, photos, clock, finished>>

\* Was the prompt of the second page answered by the time of "Finish"?
Finished == IF photos.status = "notDetermined" THEN "early" ELSE "answered"

\* Mutant: the User object is not saved.
FinishUnsaved ==
    /\ OnPage(LastPage)
    /\ users' = users + 1
    /\ shell' = Drawn([shell EXCEPT !.inOnboarding = FALSE])
    /\ finished' = Finished
    /\ UNCHANGED <<alive, savedUsers, photos, alerts, reminders, clock>>

\* Mutant: only the next launch leaves the onboarding.
FinishStays ==
    /\ OnPage(LastPage)
    /\ users' = users + 1
    /\ SaveUsers(users + 1)
    /\ finished' = Finished
    /\ UNCHANGED <<alive, shell, photos, alerts, reminders, clock>>

Finish ==
    /\ OnPage(LastPage)
    /\ users' = users + 1
    /\ SaveUsers(users + 1)
    /\ shell' = Drawn([shell EXCEPT !.inOnboarding = FALSE])
    /\ finished' = Finished
    /\ UNCHANGED <<alive, photos, alerts, reminders, clock>>

----------------------------------------------------------------------------
ShellNext ==
    \/ Start \/ Quit \/ ChangeInSettings
    \/ SceneToBackground \/ SceneChanges \/ HalfDayPasses
    \/ TickLoading \/ StopLoading
    \/ PhotoPromptShows \/ AnswerPhotoPrompt
    \/ AlertPromptShows \/ AnswerAlertPrompt
    \/ PreviousPage \/ GetStarted \/ NextAsksForPhotos \/ NextSchedules
    \/ Finish

ShellSpec == ShellInit /\ [][ShellNext]_shellVars

\* The timer fires while the loading screen is up.
FairShellSpec == ShellSpec /\ WF_shellVars(TickLoading \/ StopLoading)

----------------------------------------------------------------------------
(* Correctness                                                             *)

\* Type correctness; the page is an index of titles, headlines and
\* subheadlines after any order of the two buttons, restarts and prompts.
ShellTypeOK ==
    /\ alive \in BOOLEAN
    /\ users \in Nat
    /\ savedUsers \in Nat
    /\ shell \in Shell
    /\ photos \in Permission
    /\ alerts \in Permission
    /\ reminders \in [Weekdays -> 0..MaxReminders]
    /\ clock \in [weekday: Weekdays, morning: BOOLEAN]
    /\ finished \in {"no", "early", "answered"}

\* The User object that ends the onboarding is inserted at most once, in the
\* context and on disk, also when its save failed and the onboarding had to
\* be gone through again.
OneUser == users <= 1 /\ savedUsers <= users

\* A user who finished the onboarding never sees it again, if saves succeed.
OnboardedOnce == ~SaveMayFail /\ alive /\ finished # "no" => ~shell.inOnboarding

\* The tabs are on screen only with access to the photos, although the
\* screen was chosen earlier and the user can change the access any time.
TabsNeedAccess == shell.screen = "tabs" => photos.status = "authorized"

\* "To continue, you'll need to allow photo access in Settings" is said only to
\* who refused it, in this or an earlier process, unless "Finish" was tapped
\* before the prompt was answered: the screen drawn then may stay when the access
\* is granted, and after an end of the process nothing ever asks again.
AskedAfterRefusal ==
    shell.screen = "noAccess" => photos.status = "denied" \/ finished = "early"

\* A launch gets past "relive, reflect, remember" (LoadingScreen).
LoadingScreenEnds ==
    (alive /\ shell.screen = "loading")
        ~> (~alive \/ shell.screen # "loading")

----------------------------------------------------------------------------
(* What the app's texts say and the code does not keep                     *)

\* "Reveal your daily photo": if there is a reminder at all, every day has
\* one, and only one.  The trigger repeats on one weekday, and turning the
\* third page again adds another.
DailyReminder ==
    (\E w \in Weekdays : reminders[w] > 0)
        => \A w \in Weekdays : reminders[w] = 1
=============================================================================
