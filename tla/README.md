# flicsy in TLA+

flicsy is an iOS app (SwiftUI, Core Data) that shows its user one random photo
of the camera roll a day, lets them turn it over and write a reflection on the
back, and keeps the reflections in a history. This directory models the app's
own code, `src/flicsy/flicsy/*.swift`; model-checks it with TLC on small
libraries; and proves its main invariants with TLAPS for every library, every
number of days and every number of reflections.

## 1. The system

| Part | State | Operations |
|---|---|---|
| `PersistenceController`, `FlicsyModel` | the managed object context (memory), the persistent store (disk); entities `RevealController`, `Reflection`, `User` | `save`, `saveData`, fetches |
| `flicsyApp` | – | a save when the scene enters the background |
| `ContentView` | `tabSelection`, `fromSubmit`, `loading`, `inOnboarding` | selecting a tab; choosing between loading screen, onboarding, no-access screen and tabs |
| `DailyHomeView`, its cards, `SkipView` | 11 `@State` flags and values of today's photo | reveal, turn the card, skip (alert or sheet), submit, countdown |
| `retrieveTodaysFlic` | the drawn index | fetch, draw, request, draw again |
| `HistoryView`, `HistoryViewModel`, `HistoryCardView` | the fetched list, `isLoading`, `timeRemaining`, the open card | fetch, loading countdown, open and close a card |
| `OnboardingView`, `PageControl`, `Subview` | the page, the `User` object | next page, allow photos, allow reminders, finish |
| `NotificationsController` | the pending reminders | schedule |
| `LoadingScreen`, `NoPhotoAccessView`, static views | seconds shown | – |

**How they interact.** Both tabs are created by `ContentView` and share
`tabSelection` and `fromSubmit` as bindings and the one `viewContext` as an
environment value. `submit()` in the first tab writes to the context, raises
`fromSubmit` and selects the second tab, which lowers it when its indicator has
run down. `SkipView` is a sheet that writes to bindings of `DailyHomeView`.
`HistoryCardView` writes `timeRemaining` of `HistoryView`. Nothing else is shared.

**What is hard.** There is one user and one main thread, yet much interleaves:

- the calendar: every "today" is evaluated when a handler runs, while the flags
  in memory were set on some earlier day, and nothing observes midnight;
- the end of the process at any point: only the store survives, and `onAppear`
  restores one of the flags;
- saves: two per submit, errors swallowed, failed objects stay in the context;
- callbacks: reverse geocoding answers late, never, or with an error that traps;
  the flip effect posts to the main queue; `onAppear` handlers of nested views
  run in an order SwiftUI does not promise;
- double use of state: `timeRemaining` is a countdown and a mark; the side of the
  card is kept in three flags;
- ranges: the retry of the picker draws from `1..<fetched`;
- permissions: asked for asynchronously, read only when a body is drawn, and
  changed by the user outside the app.

**What correctness means here.** At most one skip a day; the journal on disk only
grows, with complete entries about earlier days; what the user saved is not lost;
a submit is final; the flags of a view agree with one another; the History list
is not stale without anything remembering it; indicators and loops end.
`PROJECT.json` lists the hazards line by line with the properties aimed at each.

## 2. The modules

    SaveFaults           may the store refuse a save?
      Persistence        context, store, validation, save
        ContentView      the navigation state of the tabs
          DailyHome      Today's Flic; DailyHome!Disk is an INSTANCE of Journal
          HistoryTab     History
            Flicsy       both tabs composed over one context
      AppShell           loading screen, onboarding, permissions, reminders
              App        AppShell in front of Flicsy: the whole app
    Journal              abstract: what the user is promised about the disk,
                         and what is left of it when writes are refused
    PhotoPicker          retrieveTodaysFlic on its own
      Retrieval          abstract: what it looks like to the reveal
    CountDownCard        the countdown by the second
    CountDownScreen      abstract: when DailyHome shows CountDownCard
    ReflectionCard       writing a reflection
    MCDailyHome, MCFlicsy, MCApp           small photo libraries for TLC
    DailyHome_proofs, Flicsy_proofs, PhotoPicker_proofs, AppShell_proofs,
    App_proofs, CountDownCard_proofs, ReflectionCard_proofs

**Persistence** (`PersistenceController.swift`, the data model). `context` and
`store` are records of two sequences, the `RevealController`s and the
`Reflection`s. `Validates` is Core Data's check at save time: `image` is not
optional. `SaveOutcomes` is what the disk can hold after a save; with
`SaveMayFail` any save may be refused, otherwise only one that does not validate.
A `Date` is its day number, since every reader of a stored date asks only whether
it is in today or before the end of its day; 0 is nil, or "before day 1" for the
creation date of a photo. Titles, texts and emotions are data no handler behind
the submit branches on; what becomes of them before it is ReflectionCard's subject.

**DailyHome** (`DailyHomeView.swift`, `SkipView.swift`, `flicsyApp.swift`).
`home` is the `@State` of the view with the source's names.

| Action | Code |
|---|---|
| `Launch` | opening the app up to `onAppear` of `DailyHomeView` |
| `Kill`, `EnterBackground`, `DayPasses` | process end, scene phase, midnight |
| `SelectTab(t)` | the tab bar; `onAppear` re-reads `alreadySkipped` |
| `TapReveal(p)` | `RevealCard` tapped: `retrieveTodaysFlic`, the flags, the controller, the save, and `CountDownCard.onAppear` for a photo of today |
| `GeocodeReplies(p)`, `GeocodeFails(p)` | the geocoder's completion handler; an error traps on `placemarks!` |
| `TapCard`, `FlipSettles` | the tap gesture; `FlipEffect` posting `flipped` |
| `TapSkip`, `DismissAlert`, `CancelSkip`, `ConfirmSkip` | the Skip button, the alert, `SkipView` |
| `Submit`, `SubmitInterrupted` | "Save to History": `addReflection`, `submit`, `setSubmitted`; the second is a process end between its two saves |
| `LoadingDone` | the only effect of History on this tab's state |

`skipsToday` is a history variable: it counts skips, restarts at midnight, and
saturates at 2, as the property only asks for more than one.

**HistoryTab** and **Flicsy** (`HistoryView.swift`, `HistoryViewModel.swift`,
`HistoryCardView.swift`, `ContentView.swift`). A tab change, a submit or a step
back from a card runs the `onAppear` handlers in the same step. Where SwiftUI
does not promise whether an outer or an inner handler runs first,
`ListAppears` is a set with both outcomes. `fetchReflections` is the set of lists
that the fetch can leave: the reflections of the context in any order that its sort
descriptor allows. `i.image!` over an object without an
image ends the process (`ShowingListCrashes`, `LoadedListCrashes`).

**PhotoPicker**. The loop of `retrieveTodaysFlic` step by step, for every library
of up to `MaxCount` photos and every subset of images on the phone. In DailyHome
the whole call is one step that ends with any photo taken by then, or none
(`Fetchable`): it blocks the main thread, so no other handler runs meanwhile.
**Retrieval** is that one step, over the photos that may be read and those of them
with an image: it shows one of the latter, keeps the view if there are none to read,
or traps. `PickerIsOneStep` is the refinement; the draws and requests stutter.

**AppShell** (`ContentView.swift`, `LoadingScreen.swift`, `OnboardingView.swift`,
`NotificationsController.swift`, `NoPhotoAccessView.swift`, `flicsyApp.swift`).
`shell` is the `@State` of the views and the screen that was drawn last; `Drawn`
is the body of `ContentView`. The buttons of the pages are `GetStarted`,
`NextAsksForPhotos`, `NextSchedules`, `Finish` and `PreviousPage`. A permission is
its status and the way of a request for it (requested, prompt shown, answered):
the requests are asynchronous, and the app takes taps until the prompt is up. The
reminders are counted per weekday. `users` and `savedUsers` are the `User` objects
in the context and on disk.

**App** composes AppShell and Flicsy. The screen that draws the tabs first also
launches them (`WithTabs`); a process end takes both (`TabsEnd`, `SettingsEndTabs`);
the calendar moves both (`Noon`, `Midnight`). The `User` object lives in the one
context that every handler saves, so a handler of the tabs may bring to disk the
`User` that a refused save at "Finish" left pending (`SavesUser`), and is refused
together with it. Prompts asked for on the onboarding pages may come up over the
tabs. `AppImplementsShell` says that the tabs, which save the `User` object too, do
nothing to the first screens that these do not do alone; that the tabs in company do
only what Flicsy allows holds by the shape of the actions (lemma
`ImplementsFlicsy`). AppShell's `Quit` is therefore allowed to save the
`User`, which only the composition makes happen (`SubmitEnds`).

**CountDownCard** (`DailyHomeView.swift`: `timeInSeconds`, `onAppear`,
`CountDownCard`). Time passes by the second; a day may be an hour longer or shorter,
and the wall clock then jumps at `ChangeAt`. `ReadClock` is `onAppear` of the tab,
the only place that reads the clock; `Submit` and `RevealToday` bring the card up
without it. The timer falls due once a second while the app is active, and its event
may be delivered late (`TimerFallsDue`, `Tick`). `left` is a history variable, the
seconds to the midnight that was next when the clock was read. The lengths of
minute, hour and day are constants (60, 60 and 24 in the code).

**CountDownScreen** is the interface between the two: the tab on screen, and whether
the body holds CountDownCard. DailyHome computes the latter from `revealed`,
`submitted` and the date of the photo (`CountDownShown`), and must keep to the
interface (`CountDownStays`) although a midnight changes what is today; CountDownCard
takes each step of it when the app is active, and its end at any time, and no other
(`ClockOnScreen`).

**ReflectionCard** (`DailyHomeView.swift`: `ReflectionCard`,
`EmotionScrollButtonView`, `hideKeyboard`; `HistoryViewModel.addReflection`). A text
is the empty one, the placeholder, or any other; each edit leaves one of them in the
editor, so that a user may type the placeholder too, which the code cannot tell from
its own. The keyboard notification and its observers are two steps (`hiding`,
`Observe`), and taps and edits may come between; a hardware keyboard moves the focus without a tap.
The observers of one card are equal and idempotent, so the number of them (one more
for each appearance, none removed) does not matter; those of cards that are gone
write to a state nobody shows. `written` is a history variable, what the user
entered.

**Journal** has three actions: a new day, an entry whose photo is from an earlier
day, and a skip on a day without one. When writes may be refused, what was refused
stays in the context and reaches the disk with a later write: `LateJournalSpec` lets
one write bring an entry and a skip of any day since the last one together, and still
takes nothing back.

### Modelling decisions

- `Launch` includes the loading screen, which offers nothing to tap.
- `HistoryView` and its view model are created with the tabs, so its list is
  fetched once at launch; afterwards only the indicator's `onAppear` fetches.
- The loading timer may tick while its tab is off screen (`Timer.publish` on the
  main run loop keeps firing); fairness is assumed only while it is on screen.
- A card left open stays on the History tab when the user goes to the other tab.
- Each reveal of a photo has one geocoding request in flight at most; two reveals
  of the same photo share one, since their answers are equal.
- `setSubmitted` reads `@Environment` outside a view, so with no controller it
  would insert into a context that is not the app's. The model drops that insert,
  and `ControllerPresent` shows that the branch is never taken.
- Photos carry no creation date in the future.
- The sort of the History list is by the moment a photo was taken; with dates being
  days, the order of photos of one day is left open.
- Each day the calendar moves by one; the app's clock is not set back.
- `LoadController.isLoading` is an `@State` of a struct that no view owns: writes to
  it are lost, so `startLoading` and `stopLoading` are no steps of their own.
- A scene phase change may or may not draw `ContentView` again, as SwiftUI decides.
- A change of the photo access in the Settings ends the process (iOS does that).
- A reminder scheduled without permission may be kept or refused by the system.
- The place `NoPlace` stands for a geocoder answer with empty strings, and for no
  answer.

## 3. The runs

Passing runs:

| Run | Instance | Shows |
|---|---|---|
| `daily_home` | 3 photos, 3 days, 2 reflections, saves of valid objects succeed; 118 000 states | `HomeTypeOK`, `SkipOncePerDay`, `NoUnsavedWork`, `SideMatchesFlag`, `ControllerPresent`, `OldPhotoOnly`, `SubmitIsFinal`, and the refinement `DiskIsJournal` |
| `flicsy` | both tabs, 2 photos, 2 days, 2 reflections; 122 000 states | `FlicsyTypeOK`, `CardMatchesTimer`, `StaleListIsPending`, `ListShowsJournal`, the liveness property `LoadingEnds`, and the refinements `FlicsyImplementsHome` and `CountDownStays` |
| `photo_picker` | libraries of 0 to 4 photos, fetch limit 3; 259 states | `PickerTypeOK`, `TrapsOnlyAlone`, `EndsIfRedrawable`, and the refinement `PickerIsOneStep` |
| `app_shell` | a week of 3 days, up to 2 reminders a day, saves succeed; 35 000 states | `ShellTypeOK`, `OnboardedOnce`, `TabsNeedAccess`, `AskedAfterRefusal`, and `LoadingScreenEnds` |
| `app` | the whole app, 1 photo, 2 days, 2 reflections, any save may be refused; 2 820 000 states | `OneUser`, `JournalMeansUser`, the refinement `AppImplementsShell`, and how much refused saves can cost: `SheetOnlyIfNoSkip`, `AtMostOneReflectionAtRisk`, `DiskIsLateJournal` |
| `countdown_clock` | a day of 4 hours of 2 minutes of 3 seconds, an hour more or less on some days; 55 000 states | `ClockTypeOK`, `NeverEarly`, `TextIsTime`, `ReadingIsExact`, and `CountdownFinishes` |
| `reflection_card` | 2 titles, one of them the prompt; 4 texts, the empty one, the placeholder, one with the placeholder in front and one without; 93 000 states | `WritingTypeOK`, `TypedIsKept`, `SavedAsWritten` |

Runs that end in a violation, each of a sentence the app shows or its code
says (quoted in `PROJECT.json`, "findings"):

| Run | What happens |
|---|---|
| `stale_alert` | skip on day 1, midnight, reveal, Skip: "You already skipped a flic today!" on a day without a skip |
| `countdown` | submit on day 1 and never end the process: "Next reveal in..." leads to no reveal however often the user comes back |
| `place_of_photo` | reveal, geocode, skip, reveal, submit: the second photo is saved with the first one's place |
| `missing_image` | launch, midnight, reveal from an emptied library, submit: a reflection without an image stays in the context, every later save fails, and the list traps on it |
| `daily_reminder` | the reminder of the daily photo repeats on one weekday; a page turned back and forth adds another for the same minute |

More limits of the code are part of the models without a run of their own:

- each process offers its own reveal, since `onAppear` does not restore `revealed`
  (the call of `getRevealed` is commented out);
- with `SaveMayFail`, a skip whose save failed is forgotten by a restart, so
  `SkipOncePerDay` holds only without it;
- "Finish" tapped before the photo prompt is answered leads to the no-access screen
  although nothing was refused. The answer that grants the access draws no other (a
  change of the scene phase may); and if the process ends before the answer, the next launch shows the screen again,
  no page asks any more, and the Settings, to which it sends the user, offer no access
  that was never asked for. `AskedAfterRefusal` says that this is the only way to get
  there without refusing; `finished` remembers it;
- a submit while a history card is open lands on that card; going back sets
  `timeRemaining` to 0, which skips the indicator and its fetch, and the list lacks
  the new reflection. `StaleListIsPending` is what holds: `fromSubmit` stays up, and
  the next change of tab loads the list;
- when the newest photo is the only one with an image and another is drawn first,
  the picker's loop never ends, since `1..<fetched` does not contain index 0;
  `EndsIfRedrawable` has the hypothesis that excludes it;
- before the clocks go back the countdown is an hour short, before they go forward
  an hour long, until the tab appears again (`ReadingIsExact`, `NeverEarly`);
- a photo of today brings the countdown up with the time that the tab's `onAppear`
  had read, and a suspension stops it: it can be late by any amount, never early;
- who types behind the placeholder with a hardware keyboard, without a tap, saves
  the placeholder as part of the text; `SavedAsWritten` excludes only the
  placeholder alone;
- a text that a user types to read exactly "Write reflection..." is erased by the next
  tap into the editor (`DailyHomeView.swift:435`) and saved as ""
  (`HistoryViewModel.swift:39`); `TypedIsKept` and `SavedAsWritten` except it, and
  nothing else of the text;
- a title that reads "Add Title" is erased by the next tap into its field;
- a reflection in the making is lost with the process: nothing of it is stored
  before the submit.

**Bounds.** Three photos are one of each kind the code tells apart: older than the
app, taken while the app is in use (on day 2), without a creation date. Three days
give a day before, of and after a midnight that some flag outlives. Two
reflections make a list with an order and a second submit after a restart.
Reflections are bounded in the guard `CanSubmit`, days in `DayPasses`. Libraries
of four with a limit of three include a photo beyond the limit, and every case of
the empty, singleton and longer retry range. A week of three days has a next, a
previous and a third weekday (`daily_reminder` has seven); reminders are
counted to two, as the property only asks for more than one. `app` needs one old
photo (a reveal may also find none, which gives the object that never validates), a
midnight, and two reflections, one to be pending and one to be saved over it; its
parts are checked on larger instances by their own runs. The day of `countdown_clock`
has more than one of each unit, so that carries happen, and the change of the clocks
has an hour on either side. The code tells three kinds of
text apart, and one with the placeholder in front shows that it is none of the first
two. The proofs remove these bounds for the invariants. No symmetry is declared: the photos differ, and properties with
fairness are checked.

**Deadlock** is checked for the tabs, which can always be killed or launched. The
picker stops when it is done or trapped, so `photo_picker` does not check it.

**Fairness.**

- `FairFlicsySpec`: weak fairness of the timer while its tab is on screen, since
  the run loop fires it every second. Nothing is assumed of the user.
- `FairPickerSpec`: the loop keeps running (weak fairness of its steps), and every
  index of the retry range is drawn again and again (strong fairness of each
  `Retry(i)`): `Int.random` is uniform, so this has probability 1.
- `FairShellSpec`: weak fairness of the loading screen's timer, as above.
- `FairClockSpec`: time passes, and the run loop of an active app whose countdown is
  on screen lets its timer fall due and delivers the event. Nothing is assumed of a
  suspended app or of the other tab.
- `FairHomeSpec`, for `countdown` only: days pass, the user keeps changing tabs,
  and the loading indicator ends. It makes the counterexample a real one: not even a
  user who keeps coming back sees the reveal.

## 4. The proofs

Assumptions: `SaveMayFailAssumption` (SaveFaults), `PhotosAssumption`,
`PlacesAssumption` (Persistence), `LibraryAssumption`, `BoundsAssumption`
(DailyHome), `PickerAssumption` (PhotoPicker), `ShellAssumption` (AppShell),
`ClockAssumption` (CountDownCard); ReflectionCard needs none. They say
what the constants are and nothing about sizes, but for an hour of the day on either
side of the change of the clocks.

**DailyHome_proofs.** None of the properties is inductive by itself. The
inductive invariant is a conjunction of four groups, each proved action by action:

- `TypeInv`, with at most one controller: this turns "the first controller with a
  date decides" into a fact about one record (`getSkippedOK`, `SetSkippedOK`, ...);
- `ScreenInv`, how the flags of the view depend on one another: the sheet is up
  only over an unsubmitted photo and with `alreadySkipped` down; a card that is not
  revealed is not turned, because the Skip button is on the front only;
- `SkipInv`: `alreadySkipped` is stale in one direction only. When it is down, the
  context's last skip is not today. Days only move a stored skip into the past,
  and every skip raises the flag;
- `DiskInv`: the disk is the context, or the context without its last reflection,
  and the latter only once `submitted` is up. As `submitted` cannot be lowered
  without ending the process (`SubmitFinal`), a second pending reflection is
  impossible.

They give `TypeCorrect`, `SideMatches`, `OldPhoto`, `OneController`,
`SubmitFinal`, `SheetIsJustified` and `OneAtRisk`, all of them also when saves may
fail. With `~SaveMayFail` a fifth group, `NoFaultInv`, is inductive on top: context
and store agree on the last skip, and a skip counted today is on disk. It gives
`NothingUnsaved`, `AtMostOneSkip` and `DiskImplementsJournal`. The hypothesis is
needed: a skip whose save failed can be repeated after a restart. `NothingUnsaved` and
`DiskImplementsJournal` stay true in spite of objects that never validate, since
a skip after a failed submit is impossible in the same process.

`DiskImplementsLateJournal` has no hypothesis on saves. A write that succeeds brings
everything the context carried along, so `LateInv` says what that can be: nothing, or
one reflection of a day that is over (`AheadOfDisk`; only a complete one can reach the
disk, for an incomplete one never validates), and a last skip not older than the one on
disk. `DiskStep` shows that every step leaves the store alone or replaces it with such
a context.

`CountDownPlaced` maps Today's Flic to CountDownScreen. By `ScreenInv` the card is up
exactly while `submitted` is (`CountDownIsSubmitted`): a revealed photo that is not
submitted is of an earlier day and stays so, which is why no midnight moves the card.
A skip, which lowers `submitted`, is confirmed only where it is down already.
`TabInv` adds that a process starts on Today's Flic.

**Flicsy_proofs.** `ImplementsHome`: every step of the app is a step of Today's
Flic or a stutter, so `AppKeepsJournal` follows from the theorems above.
`ListInv` is inductive on top of them: the list is a sequence of reflections, the
timer is in {-1, 0, 3} when no submit is pending, a visible indicator stands over a
fresh list, and a stale list has `fromSubmit` up. It gives `FlicsyTypeCorrect`,
`StaleListPending` and `CardMatches`. `ListShows` adds what a fetched list is
(`FetchedRows`): as long as the context's, with the same reflections, from the newest
photo to the oldest. `FetchFinds` shows that a fetch always has a result, so that no
step of the model is lost to an empty set of lists: the place of a row is the number of
rows that come before it, counted with `FiniteSetTheorems`.

**PhotoPicker_proofs.** `PickInv` remembers that the index of a redraw had no
image, and that the loop runs with access only; it gives `PickerTypes`, `TrapsAlone`,
and the refinement `PickerImplementsOneStep`: the library does not change under the call, and `shown` changes with its return only.

**AppShell_proofs.** `ShellInv` has `UserInv`: a living process is in onboarding
exactly while its context holds no `User`, so that `Finish` inserts the first one,
and the tabs are never drawn without one; `AccessInv`: a prompt is pending
only before the first answer, so that no answer takes away the access the tabs were
drawn with. On top of them, `AskedInv`: an answer is never taken back, and who is not
in onboarding has finished it; it gives `SentAfterRefusal`. The two give `ShellTypes`,
`AtMostOneUser`, `TabsHaveAccess`, and, when saves succeed, `OnboardingEndsForGood`. `AtMostOneUser` covers refused saves too,
which `app` has and `app_shell` leaves out.

**App_proofs.** `ImplementsFlicsy` and `ImplementsShell` go action by action: each
step of the app is one of Flicsy's (AppShell's) or leaves its variables alone. With
them, what is proved of a part holds of the whole (`AppUnderFaults`, `AppTabsAgree`,
`WholeAppKeepsJournal`). What only the composition can say needs an invariant of both:
`OnScreenInv` that the tabs run exactly on their screen, so that a save of theirs is
one of a living process; `JournalHasUser` that the disk is empty or holds the `User`.
The latter is inductive because everything that puts an object to disk runs on the tabs, the tabs run with one `User` in the context
(`ShellInv`), and one save writes both or neither.

**CountDownCard_proofs.** `NeverEarly` is not inductive: a late tick must be paid
for. `ClockInv` keeps a credit, the ticks that may still come in this second (one
pending, one not yet due), and says that `left` exceeds the countdown by no more than
two less that credit, plus the hour by which the day was longer when read. It gives
`NeverAhead`; with the types it gives `ClockTypes`; and `ReadsExactly` needs that hours,
minutes and seconds add up to the wall clock, for units of any length. `TextExact`
needs in addition that dividing by the seconds of an hour is dividing by the seconds
of a minute and then by the minutes of an hour (`HoursOf`). `ClockKeepsScreen` is
CountDownCard's side of the interface with Today's Flic.

**ReflectionCard_proofs.** The text is the one written, or one of the two is empty
and the other the placeholder (`Alike`); the title is the one written unless that reads
like the prompt; and the selected number is that of the button pressed last (`Agree`). As the dictionary gives no number twice, the label found
at the submit is the one pressed. They give `WritingTypes`, `NothingTypedIsLost` and
`SavesWhatWasWritten`.

**Only model-checked.** The liveness properties `LoadingEnds`, `EndsIfRedrawable`,
`LoadingScreenEnds` and `CountdownFinishes` (fairness is out of the prover's reach),
and the counterexamples. Every invariant, action property and refinement that a
passing run checks is also proved.

## 5. What is not modelled

- The vendored Pods (Firebase, gRPC, BoringSSL, leveldb, ...): nearly all the lines of
  the repository, and all of its C and C++. It is third-party code with projects of its
  own; the app's code, which is Swift throughout, calls it to configure Firebase and to
  log analytics events, and never for its data. A model of a piece of it would say
  nothing of flicsy.
- Layout, wording, colours, animation curves, analytics. The reasons ticked in
  `SkipView` go into an analytics event only.
- `DailyHomeView1`, `ReflectionWritingView`, `CountDown`, `AppState`,
  `AppDelegate.swift`: not compiled into the app. `SceneDelegate`: never
  instantiated under the SwiftUI life cycle.
- `PersistenceController.delete`: no caller.
- The flip of a history card, its share button, and the captions of date and place:
  they read and show, and no other state depends on them. Two oddities a reader should
  know: a place with only a country has no caption, and the date format `YYYY` is the
  year of the week, which `DateFormatter` decides by locale and calendar.
- The geocoder, the photo library and Core Data themselves: what the app can
  see of them is modelled, marked external in `PROJECT.json`.

## 6. Plan

Done: every part of the app whose state another part or a later step depends on has its
module, both tabs and the screens in front of them are composed to the whole app, and
every safety property of the passing runs is proved. What could still be added:

1. **The picker inside TapReveal** - that the call is one step is proved; that the
   photos it can end with are `Fetchable` would need PhotoPicker's indices tied to
   photos, for a library that changes from day to day.
2. **App with ReflectionCard** - all it takes from Today's Flic is when the card is
   shown, and its own module lets that change at any time.
