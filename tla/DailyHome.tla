----------------------------- MODULE DailyHome -----------------------------
(***************************************************************************)
(* Today's Flic: DailyHomeView with its cards, SkipView and setSubmitted,  *)
(* over the persisted RevealController.  One user holds the phone; what    *)
(* interleaves with the taps is the calendar, the asynchronous callbacks   *)
(* (reverse geocoding, the flip animation), saves that fail, and the end   *)
(* of the process at any moment.                                           *)
(*                                                                         *)
(* home is the @State of DailyHomeView: gone with the process, and never   *)
(* told that midnight passed.                                              *)
(***************************************************************************)
EXTENDS ContentView

CONSTANTS
    CreationDay,    \* the day each photo was taken (0: before day 1)
    Undated,        \* the photos without a creationDate
    PlaceOf,        \* what reverse geocoding answers for each photo
    MaxDay,         \* bound: the calendar stops here
    MaxReflections  \* bound: reflections in the context

ASSUME LibraryAssumption ==
    /\ CreationDay \in [Photos -> Date]
    /\ Undated \subseteq Photos
    /\ PlaceOf \in [Photos -> Locations]
ASSUME BoundsAssumption == MaxDay \in Nat /\ MaxReflections \in Nat

VARIABLES
    day,            \* today
    home,           \* the @State of DailyHomeView
    geocoding,      \* the photos whose reverse geocoding is in flight
    skipsToday      \* history variable: photos skipped today, counted to 2

homeVars == <<running, context, store, tabSelection, fromSubmit,
              day, home, geocoding, skipsToday>>

HomeView ==
    [revealed: BOOLEAN, submitted: BOOLEAN, alreadySkipped: BOOLEAN,
     showSkipModalView: BOOLEAN, showAlert: BOOLEAN,
     onDailyFlicCard: BOOLEAN, flip: BOOLEAN, flipped: BOOLEAN,
     dailyImage: Images, photoDateData: Date, place: Locations]

\* The initial @State of a DailyHomeView created on day d.
FreshHome(d) ==
    [revealed |-> FALSE, submitted |-> FALSE, alreadySkipped |-> FALSE,
     showSkipModalView |-> FALSE, showAlert |-> FALSE,
     onDailyFlicCard |-> FALSE, flip |-> FALSE, flipped |-> FALSE,
     dailyImage |-> NoPhoto, photoDateData |-> d, place |-> NoPlace]

NoHome == FreshHome(NoDate)

----------------------------------------------------------------------------
(* The persisted RevealController                                          *)

isDateInToday(d) == d = day

\* Mutant: every reveal inserts a controller.
InsertNextReveal(cs, d) == Append(cs, [NewController EXCEPT !.nextReveal = d])

\* Mutant: every reveal starts from a new controller.
RenewNextReveal(cs, d) == <<[NewController EXCEPT !.nextReveal = d]>>

\* "FIRST use" inserts the controller, "UPDATE existing" writes to all.
SetNextReveal(cs, d) ==
    IF cs = <<>>
    THEN <<[NewController EXCEPT !.nextReveal = d]>>
    ELSE [i \in DOMAIN cs |-> [cs[i] EXCEPT !.nextReveal = d]]

SetSkipped(cs, d) ==
    IF cs = <<>>
    THEN <<[NewController EXCEPT !.lastSkip = d]>>
    ELSE [i \in DOMAIN cs |-> [cs[i] EXCEPT !.nextReveal = NoDate,
                                            !.lastSkip = d]]

\* With no controller, setSubmitted inserts into the default context of an
\* @Environment read outside a view: nothing reaches the app's context.
SetSubmitted(cs, d) ==
    [i \in DOMAIN cs |-> [cs[i] EXCEPT !.submitted = d]]

\* The first controller with a lastSkip decides.
getSkipped(cs) ==
    \E i \in DOMAIN cs :
        /\ cs[i].lastSkip # NoDate
        /\ \A j \in 1..(i - 1) : cs[j].lastSkip = NoDate
        /\ isDateInToday(cs[i].lastSkip)

----------------------------------------------------------------------------
(* The process                                                             *)

HomeInit ==
    /\ PersistenceInit
    /\ NavigationInit
    /\ day = 1
    /\ home = NoHome
    /\ geocoding = {}
    /\ skipsToday = 0

\* The end of the process takes everything in memory with it.
ProcessEnds ==
    /\ running' = FALSE
    /\ context' = store'
    /\ tabSelection' = Home
    /\ fromSubmit' = FALSE
    /\ home' = NoHome
    /\ geocoding' = {}
    /\ UNCHANGED <<day, skipsToday>>

\* The user or the system ends the process, or it crashes.
Kill ==
    /\ running
    /\ store' = store
    /\ ProcessEnds

\* The app is opened and DailyHomeView appears: revealed and submitted keep
\* their defaults, alreadySkipped is read from the store.
Launch ==
    /\ ~running
    /\ running' = TRUE
    /\ context' = store
    /\ home' = [FreshHome(day) EXCEPT
                   !.alreadySkipped = getSkipped(store.controllers)]
    /\ UNCHANGED <<store, tabSelection, fromSubmit, day, geocoding, skipsToday>>

\* scenePhase .background: one more save of whatever is pending.
EnterBackground ==
    /\ running
    /\ Save(context)
    /\ UNCHANGED <<running, tabSelection, fromSubmit, day, home, geocoding,
                   skipsToday>>

\* Midnight.  Nothing in the app observes it.
DayPasses ==
    /\ day < MaxDay
    /\ day' = day + 1
    /\ skipsToday' = 0
    /\ UNCHANGED <<running, context, store, tabSelection, fromSubmit, home,
                   geocoding>>

----------------------------------------------------------------------------
(* Tabs                                                                    *)

NoModal == ~home.showSkipModalView /\ ~home.showAlert

HomeOnScreen == running /\ tabSelection = Home /\ NoModal

\* Mutant: the tabs are tagged from 1.
SelectTabTaggedFromOne(t) ==
    /\ running
    /\ NoModal
    /\ t # tabSelection
    /\ tabSelection' = t + 1
    /\ UNCHANGED <<running, context, store, fromSubmit, day, home, geocoding,
                   skipsToday>>

\* onAppear of Today's Flic reads alreadySkipped again.
SelectTab(t) ==
    /\ running
    /\ NoModal
    /\ t # tabSelection
    /\ tabSelection' = t
    /\ home' = IF t = Home
               THEN [home EXCEPT
                        !.alreadySkipped = getSkipped(context.controllers)]
               ELSE home
    /\ UNCHANGED <<running, context, store, fromSubmit, day, geocoding,
                   skipsToday>>

\* HistoryView has shown its loading indicator for a submit (module
\* HistoryTab has the steps that lead here).
LoadingDone ==
    /\ running
    /\ fromSubmit
    /\ fromSubmit' = FALSE
    /\ UNCHANGED <<running, context, store, tabSelection, day, home, geocoding,
                   skipsToday>>

----------------------------------------------------------------------------
(* Reveal                                                                  *)

\* What the picker can end with (module PhotoPicker): a photo taken by now,
\* or none, for the user may have emptied the library.
Fetchable == {NoPhoto} \cup {p \in Photos : CreationDay[p] <= day}

\* asset.creationDate ?? Date()
PhotoDate(p) == IF p \in Undated THEN day ELSE CreationDay[p]

\* retrieveTodaysFlic with the photo p.
Retrieved(p) ==
    IF p = NoPhoto
    THEN home
    ELSE [home EXCEPT !.dailyImage = p, !.photoDateData = PhotoDate(p)]

\* Mutant: the tap does not say which side is up.
TapRevealForgetsSide(p) ==
    /\ HomeOnScreen
    /\ ~home.revealed
    /\ p \in Fetchable
    /\ home' = [Retrieved(p) EXCEPT !.revealed = TRUE,
                                    !.submitted = @ \/ isDateInToday(Retrieved(p).photoDateData)]
    /\ geocoding' = geocoding \cup ({p} \ {NoPhoto})
    /\ Save([context EXCEPT !.controllers = SetNextReveal(@, day)])
    /\ UNCHANGED <<running, tabSelection, fromSubmit, day, skipsToday>>

\* Mutant: a photo of today is shown like any other.
TapRevealShowsToday(p) ==
    /\ HomeOnScreen
    /\ ~home.revealed
    /\ p \in Fetchable
    /\ home' = [Retrieved(p) EXCEPT !.revealed = TRUE, !.onDailyFlicCard = TRUE]
    /\ geocoding' = geocoding \cup ({p} \ {NoPhoto})
    /\ Save([context EXCEPT !.controllers = SetNextReveal(@, day)])
    /\ UNCHANGED <<running, tabSelection, fromSubmit, day, skipsToday>>

\* The tap on RevealCard.  The body is drawn again at once: for a photo of
\* today it shows CountDownCard, whose onAppear sets submitted.
TapReveal(p) ==
    /\ HomeOnScreen
    /\ ~home.revealed
    /\ p \in Fetchable
    /\ home' = [Retrieved(p) EXCEPT
                   !.revealed = TRUE,
                   !.onDailyFlicCard = TRUE,
                   !.submitted = @ \/ isDateInToday(Retrieved(p).photoDateData)]
    /\ geocoding' = geocoding \cup ({p} \ {NoPhoto})
    /\ Save([context EXCEPT !.controllers = SetNextReveal(@, day)])
    /\ UNCHANGED <<running, tabSelection, fromSubmit, day, skipsToday>>

\* The geocoder answers for p: with a place, or with no placemark.
GeocodeReplies(p) ==
    /\ running
    /\ p \in geocoding
    /\ geocoding' = geocoding \ {p}
    /\ home' \in {home, [home EXCEPT !.place = PlaceOf[p]]}
    /\ UNCHANGED <<running, context, store, tabSelection, fromSubmit, day,
                   skipsToday>>

\* The geocoder answers with an error: placemarks! unwraps nil.
GeocodeFails(p) ==
    /\ running
    /\ p \in geocoding
    /\ store' = store
    /\ ProcessEnds

----------------------------------------------------------------------------
(* Turning the card                                                        *)

\* The tap on the card; once submitted it still toggles onDailyFlicCard.
TapCard ==
    /\ HomeOnScreen
    /\ home.revealed
    /\ home' = [home EXCEPT !.onDailyFlicCard = ~@,
                            !.flip = IF home.submitted THEN @ ELSE ~@]
    /\ UNCHANGED <<running, context, store, tabSelection, fromSubmit, day,
                   geocoding, skipsToday>>

\* FlipEffect posts flipped to the main queue as the angle passes 90.
FlipSettles ==
    /\ running
    /\ home.flipped = home.flip
    /\ home' = [home EXCEPT !.flipped = ~home.flip]
    /\ UNCHANGED <<running, context, store, tabSelection, fromSubmit, day,
                   geocoding, skipsToday>>

----------------------------------------------------------------------------
(* Skip                                                                    *)

\* Mutant: the button stays after the submit.
CanSkipSubmitted ==
    HomeOnScreen /\ home.revealed /\ home.onDailyFlicCard

\* The Skip button is there when its opacity is 1.
CanSkip ==
    HomeOnScreen /\ home.revealed /\ ~home.submitted /\ home.onDailyFlicCard

TapSkip ==
    /\ CanSkip
    /\ home' = IF home.alreadySkipped
               THEN [home EXCEPT !.showAlert = TRUE]
               ELSE [home EXCEPT !.showSkipModalView = TRUE]
    /\ UNCHANGED <<running, context, store, tabSelection, fromSubmit, day,
                   geocoding, skipsToday>>

DismissAlert ==
    /\ running
    /\ home.showAlert
    /\ home' = [home EXCEPT !.showAlert = FALSE]
    /\ UNCHANGED <<running, context, store, tabSelection, fromSubmit, day,
                   geocoding, skipsToday>>

CancelSkip ==
    /\ running
    /\ home.showSkipModalView
    /\ home' = [home EXCEPT !.showSkipModalView = FALSE]
    /\ UNCHANGED <<running, context, store, tabSelection, fromSubmit, day,
                   geocoding, skipsToday>>

\* Mutant: alreadySkipped is left to the next onAppear.
AfterSkipForgets ==
    [home EXCEPT !.revealed = FALSE, !.submitted = FALSE,
                 !.showSkipModalView = FALSE]

\* What "Skip Photo" leaves in the view.
AfterSkip ==
    [home EXCEPT !.revealed = FALSE, !.submitted = FALSE,
                 !.showSkipModalView = FALSE, !.alreadySkipped = TRUE]

CountSkip == IF skipsToday < 2 THEN skipsToday + 1 ELSE skipsToday

\* Mutant: the skip is not saved.
ConfirmSkipUnsaved ==
    /\ running
    /\ home.showSkipModalView
    /\ home' = AfterSkip
    /\ context' = [context EXCEPT !.controllers = SetSkipped(@, day)]
    /\ skipsToday' = CountSkip
    /\ UNCHANGED <<running, store, tabSelection, fromSubmit, day, geocoding>>

\* "Skip Photo" in SkipView.
ConfirmSkip ==
    /\ running
    /\ home.showSkipModalView
    /\ home' = AfterSkip
    /\ Save([context EXCEPT !.controllers = SetSkipped(@, day)])
    /\ skipsToday' = CountSkip
    /\ UNCHANGED <<running, tabSelection, fromSubmit, day, geocoding>>

----------------------------------------------------------------------------
(* Submit                                                                  *)

\* "Save to History" can be tapped while ReflectionCard is opaque.
CanSubmit ==
    /\ HomeOnScreen
    /\ home.revealed /\ ~home.submitted
    /\ ~isDateInToday(home.photoDateData)
    /\ ~home.flipped
    /\ Len(context.reflections) < MaxReflections

\* addReflection: a new object in the context.
WithReflection ==
    [context EXCEPT !.reflections =
        Append(@, [image |-> home.dailyImage, date |-> home.photoDateData,
                   place |-> home.place])]

\* setSubmitted: the controllers are marked.
WithSubmitted ==
    [WithReflection EXCEPT !.controllers = SetSubmitted(@, day)]

\* Mutant: setSubmitted does not save.
SubmitSavesOnce ==
    /\ CanSubmit
    /\ home' = [home EXCEPT !.submitted = TRUE]
    /\ context' = WithSubmitted
    /\ store' \in SaveOutcomes(WithReflection, store)
    /\ fromSubmit' = TRUE
    /\ tabSelection' = History
    /\ UNCHANGED <<running, day, geocoding, skipsToday>>

\* submit() saves the reflection, then setSubmitted() saves the controllers.
Submit ==
    /\ CanSubmit
    /\ home' = [home EXCEPT !.submitted = TRUE]
    /\ context' = WithSubmitted
    /\ \E s \in SaveOutcomes(WithReflection, store) :
           store' \in SaveOutcomes(WithSubmitted, s)
    /\ fromSubmit' = TRUE
    /\ tabSelection' = History
    /\ UNCHANGED <<running, day, geocoding, skipsToday>>

\* The process ends between the two saves of a submit.
SubmitInterrupted ==
    /\ CanSubmit
    /\ store' \in SaveOutcomes(WithReflection, store)
    /\ ProcessEnds

----------------------------------------------------------------------------
HomeNext ==
    \/ Launch \/ Kill \/ EnterBackground \/ DayPasses
    \/ \E t \in {Home, History} : SelectTab(t)
    \/ LoadingDone
    \/ \E p \in Images : TapReveal(p)
    \/ \E p \in Photos : GeocodeReplies(p)
    \/ \E p \in Photos : GeocodeFails(p)
    \/ TapCard \/ FlipSettles
    \/ TapSkip \/ DismissAlert \/ CancelSkip \/ ConfirmSkip
    \/ Submit \/ SubmitInterrupted

HomeSpec == HomeInit /\ [][HomeNext]_homeVars

----------------------------------------------------------------------------
(* Correctness                                                             *)

\* Type correctness of the two tabs' shared state and of DailyHomeView's
\* @State: in particular tabSelection is always the tag of an existing tab.
HomeTypeOK ==
    /\ PersistenceTypeOK
    /\ NavigationTypeOK
    /\ day \in Nat
    /\ home \in HomeView
    /\ geocoding \subseteq Photos
    /\ skipsToday \in 0..2

\* "Skips are limited to 1 per day": whatever the order of skips, tab
\* changes, midnights and process ends, no day sees two skips.  It holds when
\* the store never refuses valid objects.
SkipOncePerDay == skipsToday <= 1

\* The skip sheet is up only on a day that has no skip yet, as far as this
\* process can know, even when saves fail: what alreadySkipped cached in
\* onAppear may be too strict after midnight, but never too lax.
SheetOnlyIfNoSkip ==
    home.showSkipModalView => ~getSkipped(context.controllers)

\* Between two handlers a process that ends loses nothing: the context is on
\* disk unless it holds an object the data model refuses.
NoUnsavedWork == ~SaveMayFail /\ Validates(context) => store = context

\* When saves fail, what the end of the process can take is at most the
\* reflection submitted last: submit() can run only once per process, and
\* reflections on disk are never lost or reordered.
AtMostOneReflectionAtRisk ==
    /\ Len(context.reflections) <= Len(store.reflections) + 1
    /\ SubSeq(context.reflections, 1, Len(store.reflections)) = store.reflections

\* onDailyFlicCard, which shows the Skip button and the hint, and flip, which
\* turns the card, are toggled apart, but agree on the side that is up
\* whenever a photo is shown, after skips and second reveals too.
SideMatchesFlag ==
    home.revealed /\ ~home.submitted => (home.onDailyFlicCard <=> ~home.flip)

\* Once submitted, a process stays on the countdown: the skip sheet, which
\* clears revealed and submitted, cannot be confirmed any more.
SubmitIsFinal ==
    [][home.submitted /\ running /\ running'
         => home'.submitted /\ home'.revealed]_homeVars

\* The body shows CountDownCard: for a submitted photo, or for one of today.
CountDownShown ==
    /\ running
    /\ home.revealed
    /\ home.submitted \/ isDateInToday(home.photoDateData)

Countdown == INSTANCE CountDownScreen WITH
    tab <- CASE ~running -> "none"
             [] running /\ tabSelection = Home -> "home"
             [] running /\ tabSelection # Home -> "history",
    card <- CountDownShown

\* The body chooses the card anew from revealed, submitted and what is today,
\* yet CountDownCard comes up only with a reveal or a submit on Today's Flic,
\* and neither a midnight, a skip nor a change of tab takes it away or brings
\* it up.  It is what module CountDownCard assumes of Today's Flic.
CountDownStays == Countdown!ScreenSpec

\* There is never a second RevealController, and there is one by the time
\* SkipView or setSubmitted look for it: the "FIRST use" branch of
\* setSubmitted, which inserts into a detached context, is never taken.
ControllerPresent ==
    /\ Len(context.controllers) <= 1
    /\ home.revealed => context.controllers # <<>>

\* The photo on the card, and so a submitted one, is never one of today:
\* also after a midnight, a skip or an undated photo.
OldPhotoOnly == home.revealed /\ ~home.submitted => home.photoDateData < day

\* The disk as a journal.
LastSkip(cs) == IF cs = <<>> THEN NoDate ELSE cs[1].lastSkip

Disk == INSTANCE Journal WITH today <- day,
                              entries <- store.reflections,
                              lastSkip <- LastSkip(store.controllers)

\* Through every interleaving of handlers, midnights and process ends, the
\* disk only changes as Journal allows: reflections are appended one at a
\* time, complete and with a picture of an earlier day, a skip is written at
\* most once a day, and nothing is ever taken back.
DiskIsJournal == Disk!JournalSpec

\* Also over a store that refuses saves, what the context carries along until
\* a save succeeds reaches the disk in order: at most one reflection at a
\* time, complete and still of an earlier day, never a skip older than the
\* one on disk, and nothing that is on disk is taken back.
DiskIsLateJournal == Disk!LateJournalSpec

----------------------------------------------------------------------------
(* What the app's texts promise and the code does not keep.  Each is the   *)
(* property of a run that shows how it fails.                              *)

\* "You already skipped a flic today!" comes up only on a day with a skip.
\* TapSkip goes by alreadySkipped, which onAppear last read before midnight.
AlertOnlyAfterSkip ==
    [][~home.showAlert /\ home'.showAlert
         => getSkipped(context.controllers)]_homeVars

\* The place of a reflection is the one found for its photo, or none.  A late
\* answer of the geocoder, or none at all, leaves that of another photo.
PlaceOfItsPhoto ==
    \A i \in DOMAIN context.reflections :
        LET r == context.reflections[i]
        IN  r.image \in Photos => r.place \in {NoPlace, PlaceOf[r.image]}

\* Every reflection that HistoryView can list has an image to unwrap.
EveryReflectionHasImage ==
    \A i \in DOMAIN context.reflections :
        context.reflections[i].image \in Photos

\* Days pass, and the user comes back to the tab again and again.
ComeAndGo ==
    /\ WF_homeVars(DayPasses)
    /\ SF_homeVars(SelectTab(Home))
    /\ SF_homeVars(SelectTab(History))
    /\ WF_homeVars(LoadingDone)

FairHomeSpec == HomeSpec /\ ComeAndGo

\* "Next reveal in...": the countdown of day 1 ends in a new reveal, without
\* the process having to end first.
CountDownEnds ==
    (running /\ day = 1 /\ home.submitted) ~> (~running \/ ~home.revealed)

=============================================================================
