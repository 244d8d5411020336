-------------------------- MODULE DailyHome_proofs --------------------------
(***************************************************************************)
(* Proofs about Today's Flic, for every photo library, number of days and  *)
(* number of reflections.                                                  *)
(***************************************************************************)
EXTENDS DailyHome, SequenceTheorems, TLAPS

----------------------------------------------------------------------------
(* The inductive invariant                                                 *)

\* None or one RevealController.
Controllers == {<<>>} \cup {<<c>> : c \in RevealController}

TypeInv ==
    /\ running \in BOOLEAN
    /\ context \in [controllers: Controllers, reflections: Seq(Reflection)]
    /\ store \in [controllers: Controllers, reflections: Seq(Reflection)]
    /\ NavigationTypeOK
    /\ day \in Nat \ {0}
    /\ home \in HomeView
    /\ geocoding \subseteq Photos
    /\ skipsToday \in 0..2

\* What the flags of the view have to do with each other, the calendar and
\* the controllers.
ScreenInv ==
    /\ home.submitted => home.revealed
    /\ home.showSkipModalView => /\ running
                                 /\ home.revealed /\ ~home.submitted
                                 /\ home.onDailyFlicCard
                                 /\ ~home.alreadySkipped
    /\ SideMatchesFlag
    /\ ~home.revealed => ~home.flip
    /\ home.photoDateData <= day
    /\ OldPhotoOnly
    /\ home.revealed => context.controllers # <<>>

\* alreadySkipped may be stale in one direction only.
SkipInv ==
    /\ LastSkip(context.controllers) <= day
    /\ LastSkip(store.controllers) <= day
    /\ running /\ ~home.alreadySkipped => LastSkip(context.controllers) # day

\* How far the context can be ahead of the disk.
DiskInv ==
    /\ Validates(store)
    /\ ~home.submitted => context.reflections = store.reflections
    /\ \/ context.reflections = store.reflections
       \/ \E r \in Reflection :
              context.reflections = Append(store.reflections, r)

\* What holds on top of it when saves of valid objects succeed.
NoFaultInv ==
    /\ NoUnsavedWork
    /\ LastSkip(store.controllers) = LastSkip(context.controllers)
    /\ skipsToday >= 1 => LastSkip(store.controllers) = day
    /\ SkipOncePerDay

----------------------------------------------------------------------------
(* What the handlers do to the RevealControllers                           *)

\* A sequence of one element.
LEMMA Singleton ==
    ASSUME NEW S, NEW e \in S
    PROVE  /\ <<e>> \in Seq(S)
           /\ Len(<<e>>) = 1
           /\ <<e>> # <<>>
           /\ <<e>>[1] = e
  <1>1. <<e>> \in Seq(S) /\ Len(<<e>>) = 1 /\ <<e>>[1] = e
    OBVIOUS
  <1>2. Len(<<>>) = 0
    OBVIOUS
  <1> QED
    BY <1>1, <1>2

\* A sequence of at most one controller is a sequence of controllers.
LEMMA ControllersAreSeq ==
    ASSUME NEW cs \in Controllers
    PROVE  cs \in Seq(RevealController) /\ Len(cs) <= 1
  <1>1. CASE cs = <<>>
    BY <1>1
  <1>2. ASSUME NEW c \in RevealController, cs = <<c>>
        PROVE  cs \in Seq(RevealController) /\ Len(cs) <= 1
    BY <1>2, Singleton
  <1> QED
    BY <1>1, <1>2 DEF Controllers

\* The reveal writes nextReveal to the one controller, new or not.
LEMMA SetNextRevealOK ==
    ASSUME NEW cs \in Controllers, NEW d \in Nat
    PROVE  /\ SetNextReveal(cs, d) \in Controllers \ {<<>>}
           /\ LastSkip(SetNextReveal(cs, d)) = LastSkip(cs)
  <1>1. CASE cs = <<>>
    BY <1>1 DEF SetNextReveal, NewController, RevealController, Controllers,
                LastSkip, Date, NoDate
  <1>2. ASSUME NEW c \in RevealController, cs = <<c>>
        PROVE  /\ SetNextReveal(cs, d) \in Controllers \ {<<>>}
               /\ LastSkip(SetNextReveal(cs, d)) = LastSkip(cs)
    <2> DEFINE e == [c EXCEPT !.nextReveal = d]
    <2>1. e \in RevealController /\ e.lastSkip = c.lastSkip
      BY <1>2 DEF RevealController, Date
    <2>2. SetNextReveal(cs, d) = <<e>>
      BY <1>2 DEF SetNextReveal
    <2> HIDE DEF e
    <2>3. <<c>> # <<>> /\ <<e>> # <<>> /\ <<c>>[1] = c /\ <<e>>[1] = e
      BY <2>1, Singleton
    <2> QED
      BY <1>2, <2>1, <2>2, <2>3 DEF LastSkip, Controllers
  <1> QED
    BY <1>1, <1>2 DEF Controllers

\* The skip writes lastSkip to the one controller, new or not.
LEMMA SetSkippedOK ==
    ASSUME NEW cs \in Controllers, NEW d \in Nat
    PROVE  /\ SetSkipped(cs, d) \in Controllers \ {<<>>}
           /\ LastSkip(SetSkipped(cs, d)) = d
  <1>1. CASE cs = <<>>
    BY <1>1 DEF SetSkipped, NewController, RevealController, Controllers,
                LastSkip, Date, NoDate
  <1>2. ASSUME NEW c \in RevealController, cs = <<c>>
        PROVE  /\ SetSkipped(cs, d) \in Controllers \ {<<>>}
               /\ LastSkip(SetSkipped(cs, d)) = d
    <2> DEFINE e == [c EXCEPT !.nextReveal = NoDate, !.lastSkip = d]
    <2>1. e \in RevealController /\ e.lastSkip = d
      BY <1>2 DEF RevealController, Date, NoDate
    <2>2. SetSkipped(cs, d) = <<e>>
      <3>1. cs # <<>> /\ DOMAIN cs = {1} /\ cs[1] = c
        BY <1>2
      <3>2. SetSkipped(cs, d) = [i \in {1} |-> [cs[i] EXCEPT !.nextReveal = NoDate,
                                                           !.lastSkip = d]]
        BY <3>1 DEF SetSkipped
      <3>3. \A i \in {1} : [cs[i] EXCEPT !.nextReveal = NoDate, !.lastSkip = d] = e
        BY <3>1
      <3> HIDE DEF e
      <3>4. [i \in {1} |-> [cs[i] EXCEPT !.nextReveal = NoDate, !.lastSkip = d]]
              = [i \in {1} |-> e]
        BY <3>3, Zenon
      <3>5. [i \in {1} |-> e] = <<e>>
        OBVIOUS
      <3> QED
        BY <3>2, <3>4, <3>5
    <2> HIDE DEF e
    <2>3. <<c>> # <<>> /\ <<e>> # <<>> /\ <<c>>[1] = c /\ <<e>>[1] = e
      BY <2>1, Singleton
    <2> QED
      BY <1>2, <2>1, <2>2, <2>3 DEF LastSkip, Controllers
  <1> QED
    BY <1>1, <1>2 DEF Controllers

\* The submit marks the controller that is there, and inserts none.
LEMMA SetSubmittedOK ==
    ASSUME NEW cs \in Controllers, NEW d \in Nat
    PROVE  /\ SetSubmitted(cs, d) \in Controllers
           /\ SetSubmitted(cs, d) = <<>> <=> cs = <<>>
           /\ LastSkip(SetSubmitted(cs, d)) = LastSkip(cs)
  <1>1. CASE cs = <<>>
    BY <1>1 DEF SetSubmitted, Controllers, LastSkip, NoDate
  <1>2. ASSUME NEW c \in RevealController, cs = <<c>>
        PROVE  /\ SetSubmitted(cs, d) \in Controllers
               /\ SetSubmitted(cs, d) = <<>> <=> cs = <<>>
               /\ LastSkip(SetSubmitted(cs, d)) = LastSkip(cs)
    <2> DEFINE e == [c EXCEPT !.submitted = d]
    <2>1. e \in RevealController /\ e.lastSkip = c.lastSkip
      BY <1>2 DEF RevealController, Date
    <2>2. SetSubmitted(cs, d) = <<e>>
      BY <1>2 DEF SetSubmitted
    <2> HIDE DEF e
    <2>3. <<c>> # <<>> /\ <<e>> # <<>> /\ <<c>>[1] = c /\ <<e>>[1] = e
      BY <2>1, Singleton
    <2> QED
      BY <1>2, <2>1, <2>2, <2>3 DEF LastSkip, Controllers
  <1> QED
    BY <1>1, <1>2 DEF Controllers

LEMMA LastSkipType == ASSUME NEW cs \in Controllers PROVE LastSkip(cs) \in Nat
  <1>1. CASE cs = <<>>
    BY <1>1 DEF LastSkip, NoDate
  <1>2. ASSUME NEW c \in RevealController, cs = <<c>> PROVE LastSkip(cs) \in Nat
    BY <1>2, Singleton DEF LastSkip, RevealController, Date
  <1> QED
    BY <1>1, <1>2 DEF Controllers

\* With at most one controller, getSkipped compares its lastSkip.
LEMMA getSkippedOK ==
    ASSUME NEW cs \in Controllers, day \in Nat \ {0}
    PROVE  getSkipped(cs) <=> LastSkip(cs) = day
  <1>1. CASE cs = <<>>
    BY <1>1 DEF getSkipped, LastSkip, NoDate
  <1>2. ASSUME NEW c \in RevealController, cs = <<c>>
        PROVE  getSkipped(cs) <=> LastSkip(cs) = day
    BY <1>2 DEF getSkipped, LastSkip, NoDate, isDateInToday
  <1> QED
    BY <1>1, <1>2 DEF Controllers

----------------------------------------------------------------------------
(* Types                                                                   *)

\* What a save leaves on disk is one of the two.
LEMMA SaveOutcomesOK ==
    ASSUME NEW objs, NEW disk, NEW s \in SaveOutcomes(objs, disk)
    PROVE  \/ s = objs /\ Validates(objs)
           \/ s = disk /\ (SaveMayFail \/ ~Validates(objs))
  BY DEF SaveOutcomes

LEMMA FreshHomeType == ASSUME NEW d \in Nat PROVE FreshHome(d) \in HomeView
  BY DEF FreshHome, HomeView, Images, Locations, Date

LEMMA InitType == HomeInit => TypeInv
  <1> SUFFICES ASSUME HomeInit PROVE TypeInv
    OBVIOUS
  <1>1. NoObjects \in [controllers: Controllers, reflections: Seq(Reflection)]
    BY DEF NoObjects, Controllers
  <1>2. NoHome \in HomeView
    BY FreshHomeType DEF NoHome, NoDate
  <1>3. NavigationTypeOK
    BY DEF HomeInit, NavigationInit, NavigationTypeOK
  <1>4. day \in Nat \ {0} /\ skipsToday \in 0..2
    BY DEF HomeInit
  <1>5. running \in BOOLEAN
    BY Zenon DEF HomeInit, PersistenceInit
  <1>6. context = NoObjects /\ store = NoObjects /\ home = NoHome /\ geocoding = {}
    BY DEF HomeInit, PersistenceInit
  <1> QED
    BY <1>1, <1>2, <1>3, <1>4, <1>5, <1>6 DEF TypeInv

\* Every step keeps the types, and at most one controller.
LEMMA NextType == TypeInv /\ [HomeNext]_homeVars => TypeInv'
  <1> SUFFICES ASSUME TypeInv, [HomeNext]_homeVars PROVE TypeInv'
    OBVIOUS
  <1> DEFINE Objs == [controllers: Controllers, reflections: Seq(Reflection)]
  <1>e. ASSUME ProcessEnds, store' \in Objs PROVE TypeInv'
    <2>1. NoHome \in HomeView
      BY FreshHomeType DEF NoHome, NoDate
    <2> QED
      BY <1>e, <2>1 DEF ProcessEnds, TypeInv, NavigationTypeOK, Home, History
  <1>s. ASSUME NEW objs \in Objs, NEW disk \in Objs,
               NEW s \in SaveOutcomes(objs, disk)
        PROVE  s \in Objs
    BY <1>s, SaveOutcomesOK
  <1>1. CASE Launch
    <2>1. FreshHome(day) \in HomeView
      BY FreshHomeType DEF TypeInv
    <2>2. home' \in HomeView
      BY <1>1, <2>1 DEF Launch, HomeView, getSkipped
    <2> QED
      BY <1>1, <2>2 DEF Launch, TypeInv, NavigationTypeOK
  <1>2. CASE Kill
    BY <1>2, <1>e DEF Kill, TypeInv
  <1>3. CASE EnterBackground
    BY <1>3, <1>s DEF EnterBackground, Save, TypeInv, NavigationTypeOK
  <1>4. CASE DayPasses
    BY <1>4 DEF DayPasses, TypeInv, NavigationTypeOK
  <1>5. ASSUME NEW t \in {Home, History}, SelectTab(t) PROVE TypeInv'
    <2>1. home' \in HomeView
      BY <1>5 DEF SelectTab, TypeInv, HomeView, getSkipped
    <2> QED
      BY <1>5, <2>1 DEF SelectTab, TypeInv, NavigationTypeOK
  <1>6. CASE LoadingDone
    BY <1>6 DEF LoadingDone, TypeInv, NavigationTypeOK
  <1>7. ASSUME NEW p \in Images, TapReveal(p) PROVE TypeInv'
    <2>1. PhotoDate(p) \in Nat \/ p = NoPhoto
      BY <1>7, LibraryAssumption DEF PhotoDate, TypeInv, Images, Date
    <2>2. Retrieved(p) \in HomeView
      BY <1>7, <2>1 DEF Retrieved, TypeInv, HomeView, Date
    <2>3. home' \in HomeView
      BY <1>7, <2>2 DEF TapReveal, HomeView, isDateInToday
    <2>4. [context EXCEPT !.controllers = SetNextReveal(@, day)] \in Objs
      BY SetNextRevealOK DEF TypeInv
    <2>5. context' \in Objs /\ store' \in Objs
      BY <1>7, <2>4, <1>s DEF TapReveal, Save, TypeInv
    <2>6. geocoding' \subseteq Photos
      BY <1>7 DEF TapReveal, TypeInv, Images
    <2> QED
      BY <1>7, <2>3, <2>5, <2>6 DEF TapReveal, TypeInv, NavigationTypeOK
  <1>8. ASSUME NEW p \in Photos, GeocodeReplies(p) PROVE TypeInv'
    <2>1. home' \in HomeView
      BY <1>8, LibraryAssumption DEF GeocodeReplies, TypeInv, HomeView
    <2> QED
      BY <1>8, <2>1 DEF GeocodeReplies, TypeInv, NavigationTypeOK
  <1>9. ASSUME NEW p \in Photos, GeocodeFails(p) PROVE TypeInv'
    BY <1>9, <1>e DEF GeocodeFails, TypeInv
  <1>10. CASE TapCard
    <2>1. home' \in HomeView
      BY <1>10 DEF TapCard, TypeInv, HomeView
    <2> QED
      BY <1>10, <2>1 DEF TapCard, TypeInv, NavigationTypeOK
  <1>11. CASE FlipSettles
    <2>1. home' \in HomeView
      BY <1>11 DEF FlipSettles, TypeInv, HomeView
    <2> QED
      BY <1>11, <2>1 DEF FlipSettles, TypeInv, NavigationTypeOK
  <1>12. CASE TapSkip
    <2>1. home' \in HomeView
      BY <1>12 DEF TapSkip, TypeInv, HomeView
    <2> QED
      BY <1>12, <2>1 DEF TapSkip, TypeInv, NavigationTypeOK
  <1>13. CASE DismissAlert
    <2>1. home' \in HomeView
      BY <1>13 DEF DismissAlert, TypeInv, HomeView
    <2> QED
      BY <1>13, <2>1 DEF DismissAlert, TypeInv, NavigationTypeOK
  <1>14. CASE CancelSkip
    <2>1. home' \in HomeView
      BY <1>14 DEF CancelSkip, TypeInv, HomeView
    <2> QED
      BY <1>14, <2>1 DEF CancelSkip, TypeInv, NavigationTypeOK
  <1>15. CASE ConfirmSkip
    <2>1. home' \in HomeView
      BY <1>15 DEF ConfirmSkip, AfterSkip, TypeInv, HomeView
    <2>2. [context EXCEPT !.controllers = SetSkipped(@, day)] \in Objs
      BY SetSkippedOK DEF TypeInv
    <2>3. context' \in Objs /\ store' \in Objs
      BY <1>15, <2>2, <1>s DEF ConfirmSkip, Save, TypeInv
    <2>4. skipsToday' \in 0..2
      BY <1>15 DEF ConfirmSkip, CountSkip, TypeInv
    <2> QED
      BY <1>15, <2>1, <2>3, <2>4 DEF ConfirmSkip, TypeInv, NavigationTypeOK
  <1>w. WithReflection \in Objs /\ WithSubmitted \in Objs
    <2>1. [image |-> home.dailyImage, date |-> home.photoDateData,
           place |-> home.place] \in Reflection
      BY DEF TypeInv, HomeView, Reflection
    <2>2. WithReflection \in Objs
      BY <2>1, AppendProperties DEF WithReflection, TypeInv
    <2> QED
      BY <2>2, SetSubmittedOK DEF WithSubmitted, TypeInv
  <1>16. CASE Submit
    <2>1. home' \in HomeView
      BY <1>16 DEF Submit, TypeInv, HomeView
    <2>2. context' \in Objs /\ store' \in Objs
      BY <1>16, <1>w, <1>s DEF Submit, TypeInv
    <2> QED
      BY <1>16, <2>1, <2>2 DEF Submit, TypeInv, NavigationTypeOK
  <1>17. CASE SubmitInterrupted
    BY <1>17, <1>w, <1>s, <1>e DEF SubmitInterrupted, TypeInv
  <1>18. CASE UNCHANGED homeVars
    BY <1>18 DEF homeVars, TypeInv, NavigationTypeOK
  <1> QED
    BY <1>1, <1>2, <1>3, <1>4, <1>5, <1>6, <1>7, <1>8, <1>9, <1>10, <1>11,
       <1>12, <1>13, <1>14, <1>15, <1>16, <1>17, <1>18 DEF HomeNext

\* A type-correct process stays type-correct: HomeTypeOK holds for every
\* library and bound, whatever the order of taps, callbacks and restarts.
THEOREM TypeCorrect == HomeSpec => []HomeTypeOK
  <1>1. TypeInv => HomeTypeOK
    BY ControllersAreSeq DEF TypeInv, HomeTypeOK, PersistenceTypeOK, Objects
  <1> QED
    BY <1>1, InitType, NextType, PTL DEF HomeSpec

----------------------------------------------------------------------------
(* The flags of the view                                                   *)

\* The view of a new process satisfies everything the view has to.
LEMMA FreshScreen ==
    ASSUME NEW d \in Nat
    PROVE  LET h == FreshHome(d)
           IN  /\ ~h.revealed /\ ~h.submitted /\ ~h.showSkipModalView
               /\ ~h.flip /\ h.photoDateData = d
  BY DEF FreshHome

LEMMA InitScreen == HomeInit => ScreenInv
  <1> SUFFICES ASSUME HomeInit PROVE ScreenInv
    OBVIOUS
  <1>1. home = FreshHome(0) /\ day = 1
    BY DEF HomeInit, NoHome, NoDate
  <1> QED
    BY <1>1, FreshScreen DEF ScreenInv, SideMatchesFlag, OldPhotoOnly

\* Every step keeps the flags in their relation.
LEMMA NextScreen == TypeInv /\ ScreenInv /\ [HomeNext]_homeVars => ScreenInv'
  <1> SUFFICES ASSUME TypeInv, ScreenInv, [HomeNext]_homeVars PROVE ScreenInv'
    OBVIOUS
  <1> USE DEF SideMatchesFlag, OldPhotoOnly
  <1>d. day \in Nat
    BY DEF TypeInv
  <1>e. ASSUME ProcessEnds PROVE ScreenInv'
    <2>1. home' = FreshHome(0) /\ day' = day
      BY <1>e DEF ProcessEnds, NoHome, NoDate
    <2> QED
      BY <1>d, <2>1, FreshScreen DEF ScreenInv
  <1>1. CASE Launch
    <2>1. /\ ~home'.revealed /\ ~home'.submitted /\ ~home'.showSkipModalView
          /\ ~home'.flip /\ home'.photoDateData = day
      BY <1>1 DEF Launch, FreshHome
    <2>2. day' = day
      BY <1>1 DEF Launch
    <2> QED
      BY <1>d, <2>1, <2>2 DEF ScreenInv
  <1>2. CASE Kill
    BY <1>2, <1>e DEF Kill
  <1>3. CASE EnterBackground
    BY <1>3 DEF EnterBackground, Save, ScreenInv
  <1>4. CASE DayPasses
    BY <1>4, <1>d DEF DayPasses, ScreenInv, TypeInv, HomeView, Date
  <1>5. ASSUME NEW t \in {Home, History}, SelectTab(t) PROVE ScreenInv'
    BY <1>5 DEF SelectTab, NoModal, ScreenInv, TypeInv, HomeView
  <1>6. CASE LoadingDone
    BY <1>6 DEF LoadingDone, ScreenInv
  <1>7. ASSUME NEW p \in Images, TapReveal(p) PROVE ScreenInv'
    <2>1. (PhotoDate(p) \in Nat /\ PhotoDate(p) <= day) \/ p = NoPhoto
      BY <1>7, <1>d, LibraryAssumption DEF TapReveal, Fetchable, PhotoDate, Date
    <2> DEFINE r == Retrieved(p)
    <2>2. /\ r \in HomeView
          /\ r.photoDateData <= day
          /\ r.submitted = home.submitted /\ r.flip = home.flip
          /\ r.showSkipModalView = home.showSkipModalView
      BY <2>1 DEF Retrieved, ScreenInv, TypeInv, HomeView, Date, Images
    <2>3. ~home.revealed /\ ~home.submitted /\ ~home.showSkipModalView /\ ~home.flip
      BY <1>7 DEF TapReveal, HomeOnScreen, NoModal, ScreenInv
    <2> HIDE DEF r
    <2>4. home' = [r EXCEPT !.revealed = TRUE, !.onDailyFlicCard = TRUE,
                            !.submitted = @ \/ isDateInToday(r.photoDateData)]
      BY <1>7 DEF TapReveal, r
    <2>5. /\ home'.revealed /\ home'.onDailyFlicCard /\ ~home'.flip
          /\ ~home'.showSkipModalView
          /\ home'.submitted <=> r.photoDateData = day
          /\ home'.photoDateData = r.photoDateData
      BY <2>2, <2>3, <2>4 DEF HomeView, isDateInToday
    <2>6. day' = day /\ context'.controllers # <<>>
      BY <1>7, <1>d, SetNextRevealOK DEF TapReveal, Save, TypeInv
    <2>7. r.photoDateData \in Nat
      BY <2>2 DEF HomeView, Date
    <2> QED
      BY <1>d, <2>2, <2>5, <2>6, <2>7 DEF ScreenInv
  <1>8. ASSUME NEW p \in Photos, GeocodeReplies(p) PROVE ScreenInv'
    BY <1>8 DEF GeocodeReplies, ScreenInv, TypeInv, HomeView
  <1>9. ASSUME NEW p \in Photos, GeocodeFails(p) PROVE ScreenInv'
    BY <1>9, <1>e DEF GeocodeFails
  <1>10. CASE TapCard
    BY <1>10 DEF TapCard, HomeOnScreen, NoModal, ScreenInv, TypeInv, HomeView
  <1>11. CASE FlipSettles
    BY <1>11 DEF FlipSettles, ScreenInv, TypeInv, HomeView
  <1>12. CASE TapSkip
    BY <1>12 DEF TapSkip, CanSkip, HomeOnScreen, NoModal, ScreenInv, TypeInv, HomeView
  <1>13. CASE DismissAlert
    BY <1>13 DEF DismissAlert, ScreenInv, TypeInv, HomeView
  <1>14. CASE CancelSkip
    BY <1>14 DEF CancelSkip, ScreenInv, TypeInv, HomeView
  <1>15. CASE ConfirmSkip
    BY <1>15 DEF ConfirmSkip, AfterSkip, ScreenInv, TypeInv, HomeView
  <1>16. CASE Submit
    <2>1. context'.controllers = SetSubmitted(context.controllers, day)
      BY <1>16 DEF Submit, WithSubmitted, WithReflection, TypeInv
    <2>2. context'.controllers # <<>>
      BY <1>16, <1>d, <2>1, SetSubmittedOK DEF Submit, CanSubmit, ScreenInv, TypeInv
    <2> QED
      BY <1>16, <2>2 DEF Submit, CanSubmit, HomeOnScreen, NoModal, ScreenInv,
                         TypeInv, HomeView
  <1>17. CASE SubmitInterrupted
    BY <1>17, <1>e DEF SubmitInterrupted
  <1>18. CASE UNCHANGED homeVars
    BY <1>18 DEF homeVars, ScreenInv
  <1> QED
    BY <1>1, <1>2, <1>3, <1>4, <1>5, <1>6, <1>7, <1>8, <1>9, <1>10, <1>11,
       <1>12, <1>13, <1>14, <1>15, <1>16, <1>17, <1>18 DEF HomeNext

----------------------------------------------------------------------------
(* alreadySkipped                                                          *)

LEMMA InitSkip == HomeInit => SkipInv
  BY DEF HomeInit, PersistenceInit, NoObjects, SkipInv, LastSkip, NoDate

\* Every step keeps alreadySkipped on the safe side.
LEMMA NextSkip ==
    TypeInv /\ ScreenInv /\ SkipInv /\ [HomeNext]_homeVars => SkipInv'
  <1> SUFFICES ASSUME TypeInv, ScreenInv, SkipInv, [HomeNext]_homeVars
               PROVE  SkipInv'
    OBVIOUS
  <1>d. /\ day \in Nat \ {0}
        /\ context.controllers \in Controllers /\ store.controllers \in Controllers
    BY DEF TypeInv
  <1>l. /\ LastSkip(context.controllers) \in Nat
        /\ LastSkip(store.controllers) \in Nat
    BY <1>d, LastSkipType
  <1>e. ASSUME ProcessEnds, LastSkip(store'.controllers) <= day PROVE SkipInv'
    BY <1>e, Zenon DEF ProcessEnds, SkipInv
  <1>v. ASSUME context' = context, store' = store, day' = day, running' = running,
               home'.alreadySkipped = home.alreadySkipped
        PROVE  SkipInv'
    BY <1>v DEF SkipInv
  <1>1. CASE Launch
    <2>1. home'.alreadySkipped = getSkipped(store.controllers)
      BY <1>1 DEF Launch, FreshHome
    <2>2. day' = day /\ context' = store /\ store' = store
      BY <1>1 DEF Launch
    <2> QED
      BY <1>d, <2>1, <2>2, getSkippedOK DEF SkipInv
  <1>2. CASE Kill
    BY <1>2, <1>e DEF Kill, SkipInv
  <1>3. CASE EnterBackground
    <2>1. store' = context \/ store' = store
      BY <1>3, SaveOutcomesOK DEF EnterBackground, Save
    <2> QED
      BY <1>3, <2>1 DEF EnterBackground, Save, SkipInv
  <1>4. CASE DayPasses
    BY <1>4, <1>d, <1>l DEF DayPasses, SkipInv
  <1>5. ASSUME NEW t \in {Home, History}, SelectTab(t) PROVE SkipInv'
    <2>1. CASE t = Home
      <3>1. home'.alreadySkipped = getSkipped(context.controllers)
        BY <1>5, <2>1 DEF SelectTab, TypeInv, HomeView
      <3> QED
        BY <1>5, <1>d, <3>1, getSkippedOK DEF SelectTab, SkipInv
    <2>2. CASE t # Home
      BY <1>5, <2>2, <1>v DEF SelectTab
    <2> QED
      BY <2>1, <2>2
  <1>6. CASE LoadingDone
    BY <1>6, <1>v DEF LoadingDone
  <1>7. ASSUME NEW p \in Images, TapReveal(p) PROVE SkipInv'
    <2>1. context'.controllers = SetNextReveal(context.controllers, day)
      BY <1>7 DEF TapReveal, Save, TypeInv
    <2>2. LastSkip(context'.controllers) = LastSkip(context.controllers)
      BY <1>d, <2>1, SetNextRevealOK
    <2>3. store' = context' \/ store' = store
      BY <1>7, SaveOutcomesOK DEF TapReveal, Save
    <2>4. home'.alreadySkipped = home.alreadySkipped
      BY <1>7 DEF TapReveal, Retrieved, TypeInv, HomeView
    <2> QED
      BY <1>7, <2>2, <2>3, <2>4 DEF TapReveal, SkipInv
  <1>8. ASSUME NEW p \in Photos, GeocodeReplies(p) PROVE SkipInv'
    <2>1. home'.alreadySkipped = home.alreadySkipped
      BY <1>8 DEF GeocodeReplies, TypeInv, HomeView
    <2> QED
      BY <1>8, <1>v, <2>1 DEF GeocodeReplies
  <1>9. ASSUME NEW p \in Photos, GeocodeFails(p) PROVE SkipInv'
    BY <1>9, <1>e DEF GeocodeFails, SkipInv
  <1>10. CASE TapCard
    BY <1>10, <1>v DEF TapCard, TypeInv, HomeView
  <1>11. CASE FlipSettles
    BY <1>11, <1>v DEF FlipSettles, TypeInv, HomeView
  <1>12. CASE TapSkip
    BY <1>12, <1>v DEF TapSkip, TypeInv, HomeView
  <1>13. CASE DismissAlert
    BY <1>13, <1>v DEF DismissAlert, TypeInv, HomeView
  <1>14. CASE CancelSkip
    BY <1>14, <1>v DEF CancelSkip, TypeInv, HomeView
  <1>15. CASE ConfirmSkip
    <2>1. context'.controllers = SetSkipped(context.controllers, day)
      BY <1>15 DEF ConfirmSkip, Save, TypeInv
    <2>2. LastSkip(context'.controllers) = day
      BY <1>d, <2>1, SetSkippedOK
    <2>3. store' = context' \/ store' = store
      BY <1>15, SaveOutcomesOK DEF ConfirmSkip, Save
    <2>4. home'.alreadySkipped
      BY <1>15 DEF ConfirmSkip, AfterSkip, TypeInv, HomeView
    <2> QED
      BY <1>15, <1>d, <2>2, <2>3, <2>4 DEF ConfirmSkip, SkipInv
  <1>w. /\ LastSkip(WithReflection.controllers) = LastSkip(context.controllers)
        /\ LastSkip(WithSubmitted.controllers) = LastSkip(context.controllers)
    <2>1. WithReflection.controllers = context.controllers
      BY DEF WithReflection, TypeInv
    <2>2. WithSubmitted.controllers = SetSubmitted(context.controllers, day)
      BY DEF WithSubmitted, WithReflection, TypeInv
    <2> QED
      BY <1>d, <2>1, <2>2, SetSubmittedOK
  <1>16. CASE Submit
    <2>1. PICK s \in SaveOutcomes(WithReflection, store) :
              store' \in SaveOutcomes(WithSubmitted, s)
      BY <1>16 DEF Submit
    <2>2. store' \in {WithSubmitted, WithReflection, store}
      BY <2>1, SaveOutcomesOK
    <2>3. home'.alreadySkipped = home.alreadySkipped
      BY <1>16 DEF Submit, TypeInv, HomeView
    <2> QED
      BY <1>16, <1>w, <2>2, <2>3 DEF Submit, SkipInv
  <1>17. CASE SubmitInterrupted
    <2>1. store' = WithReflection \/ store' = store
      BY <1>17, SaveOutcomesOK DEF SubmitInterrupted
    <2> QED
      BY <1>17, <1>w, <1>e, <2>1 DEF SubmitInterrupted, SkipInv
  <1>18. CASE UNCHANGED homeVars
    BY <1>18, <1>v DEF homeVars
  <1> QED
    BY <1>1, <1>2, <1>3, <1>4, <1>5, <1>6, <1>7, <1>8, <1>9, <1>10, <1>11,
       <1>12, <1>13, <1>14, <1>15, <1>16, <1>17, <1>18 DEF HomeNext

----------------------------------------------------------------------------
(* The context and the disk                                                *)

LEMMA InitDisk == HomeInit => DiskInv
  BY DEF HomeInit, PersistenceInit, NoObjects, DiskInv, Validates

\* What a submit puts in the context, and what it can leave on disk.
LEMMA SubmitObjects ==
    ASSUME TypeInv
    PROVE  \E r \in Reflection :
              /\ r = [image |-> home.dailyImage, date |-> home.photoDateData,
                      place |-> home.place]
              /\ WithReflection.reflections = Append(context.reflections, r)
              /\ WithSubmitted.reflections = Append(context.reflections, r)
              /\ WithReflection.controllers = context.controllers
              /\ WithSubmitted.controllers = SetSubmitted(context.controllers, day)
  <1> DEFINE r == [image |-> home.dailyImage, date |-> home.photoDateData,
                   place |-> home.place]
  <1>1. r \in Reflection
    BY DEF TypeInv, HomeView, Reflection
  <1>2. /\ WithReflection.reflections = Append(context.reflections, r)
        /\ WithReflection.controllers = context.controllers
    BY DEF WithReflection, TypeInv
  <1>3. /\ WithSubmitted.reflections = Append(context.reflections, r)
        /\ WithSubmitted.controllers = SetSubmitted(context.controllers, day)
    BY DEF WithSubmitted, WithReflection, TypeInv
  <1> QED
    BY <1>1, <1>2, <1>3

\* Validation looks at the reflections alone.
LEMMA ValidatesReflections ==
    ASSUME NEW a, NEW b, a.reflections = b.reflections
    PROVE  Validates(a) <=> Validates(b)
  BY DEF Validates

\* Every step keeps the context at most one reflection ahead of the disk.
LEMMA NextDisk ==
    TypeInv /\ ScreenInv /\ DiskInv /\ [HomeNext]_homeVars => DiskInv'
  <1> SUFFICES ASSUME TypeInv, ScreenInv, DiskInv, [HomeNext]_homeVars
               PROVE  DiskInv'
    OBVIOUS
  <1>e. ASSUME ProcessEnds, Validates(store') PROVE DiskInv'
    <2>1. context' = store'
      BY <1>e DEF ProcessEnds
    <2> QED
      BY <1>e, <2>1 DEF DiskInv, Validates
  <1>v. ASSUME context' = context, store' = store,
               home'.submitted = home.submitted
        PROVE  DiskInv'
    BY <1>v DEF DiskInv, Validates
  <1>s. ASSUME NEW objs, objs.reflections = context.reflections,
               ~home.submitted, Save(objs)
        PROVE  DiskInv'
    <2>1. context' = objs /\ \/ store' = objs /\ Validates(objs)
                             \/ store' = store
      BY <1>s, SaveOutcomesOK DEF Save
    <2>2. context.reflections = store.reflections
      BY <1>s DEF DiskInv
    <2> QED
      BY <1>s, <2>1, <2>2 DEF DiskInv, Validates
  <1>1. CASE Launch
    BY <1>1 DEF Launch, DiskInv, Validates
  <1>2. CASE Kill
    BY <1>2, <1>e DEF Kill, DiskInv
  <1>3. CASE EnterBackground
    <2>1. context' = context /\ \/ store' = context /\ Validates(context)
                                \/ store' = store
      BY <1>3, SaveOutcomesOK DEF EnterBackground, Save
    <2>2. home' = home
      BY <1>3 DEF EnterBackground
    <2> QED
      BY <2>1, <2>2 DEF DiskInv, Validates
  <1>4. CASE DayPasses
    BY <1>4, <1>v DEF DayPasses
  <1>5. ASSUME NEW t \in {Home, History}, SelectTab(t) PROVE DiskInv'
    BY <1>5, <1>v DEF SelectTab, TypeInv, HomeView
  <1>6. CASE LoadingDone
    BY <1>6, <1>v DEF LoadingDone
  <1>7. ASSUME NEW p \in Images, TapReveal(p) PROVE DiskInv'
    <2> DEFINE objs == [context EXCEPT !.controllers = SetNextReveal(@, day)]
    <2>1. Save(objs) /\ ~home.submitted
      BY <1>7 DEF TapReveal, ScreenInv
    <2>2. objs.reflections = context.reflections
      BY DEF TypeInv
    <2> QED
      BY <1>s, <2>1, <2>2
  <1>8. ASSUME NEW p \in Photos, GeocodeReplies(p) PROVE DiskInv'
    BY <1>8, <1>v DEF GeocodeReplies, TypeInv, HomeView
  <1>9. ASSUME NEW p \in Photos, GeocodeFails(p) PROVE DiskInv'
    BY <1>9, <1>e DEF GeocodeFails, DiskInv
  <1>10. CASE TapCard
    BY <1>10, <1>v DEF TapCard, TypeInv, HomeView
  <1>11. CASE FlipSettles
    BY <1>11, <1>v DEF FlipSettles, TypeInv, HomeView
  <1>12. CASE TapSkip
    BY <1>12, <1>v DEF TapSkip, TypeInv, HomeView
  <1>13. CASE DismissAlert
    BY <1>13, <1>v DEF DismissAlert, TypeInv, HomeView
  <1>14. CASE CancelSkip
    BY <1>14, <1>v DEF CancelSkip, TypeInv, HomeView
  <1>15. CASE ConfirmSkip
    <2> DEFINE objs == [context EXCEPT !.controllers = SetSkipped(@, day)]
    <2>1. Save(objs) /\ ~home.submitted
      BY <1>15 DEF ConfirmSkip, ScreenInv
    <2>2. objs.reflections = context.reflections
      BY DEF TypeInv
    <2> QED
      BY <1>s, <2>1, <2>2
  <1>16. CASE Submit
    <2>1. PICK r \in Reflection :
              /\ WithReflection.reflections = Append(context.reflections, r)
              /\ WithSubmitted.reflections = Append(context.reflections, r)
      BY SubmitObjects
    <2>2. context.reflections = store.reflections
      BY <1>16 DEF Submit, CanSubmit, DiskInv
    <2>3. PICK s \in SaveOutcomes(WithReflection, store) :
              store' \in SaveOutcomes(WithSubmitted, s)
      BY <1>16 DEF Submit
    <2>4. (s = WithReflection /\ Validates(s)) \/ s = store
      BY <2>3, SaveOutcomesOK
    <2>5. (store' = WithSubmitted /\ Validates(store')) \/ store' = s
      BY <2>3, SaveOutcomesOK
    <2>6. Validates(store')
      BY <2>4, <2>5 DEF DiskInv
    <2>7. context'.reflections = Append(store.reflections, r)
      BY <1>16, <2>1, <2>2 DEF Submit
    <2>8. store'.reflections \in {Append(store.reflections, r), store.reflections}
      BY <2>1, <2>2, <2>4, <2>5
    <2>9. home'.submitted
      BY <1>16 DEF Submit, TypeInv, HomeView
    <2> QED
      BY <2>6, <2>7, <2>8, <2>9 DEF DiskInv, Validates
  <1>17. CASE SubmitInterrupted
    <2>1. Validates(store')
      BY <1>17, SaveOutcomesOK DEF SubmitInterrupted, DiskInv
    <2> QED
      BY <1>17, <1>e, <2>1 DEF SubmitInterrupted
  <1>18. CASE UNCHANGED homeVars
    BY <1>18, <1>v DEF homeVars
  <1> QED
    BY <1>1, <1>2, <1>3, <1>4, <1>5, <1>6, <1>7, <1>8, <1>9, <1>10, <1>11,
       <1>12, <1>13, <1>14, <1>15, <1>16, <1>17, <1>18 DEF HomeNext

----------------------------------------------------------------------------
(* When saves of valid objects succeed                                     *)

LEMMA InitNoFault == HomeInit => NoFaultInv
  BY DEF HomeInit, PersistenceInit, NoObjects, NoFaultInv, NoUnsavedWork,
         SkipOncePerDay, LastSkip, NoDate

\* A handler that adds no reflection, in a process that submitted none, gets
\* its changes on disk.
LEMMA SaveSucceeds ==
    ASSUME ~SaveMayFail, DiskInv, ~home.submitted, NEW objs,
           objs.reflections = context.reflections, Save(objs)
    PROVE  context' = objs /\ store' = objs
  <1>1. Validates(objs)
    BY DEF DiskInv, Validates
  <1> QED
    BY <1>1, SaveOutcomesOK DEF Save

\* The reveal and the skip reach the disk.
LEMMA RevealOnDisk ==
    ASSUME ~SaveMayFail, TypeInv, ScreenInv, DiskInv,
           NEW p \in Images, TapReveal(p)
    PROVE  /\ store' = context'
           /\ store'.reflections = store.reflections
           /\ LastSkip(store'.controllers) = LastSkip(context.controllers)
  <1> DEFINE objs == [context EXCEPT !.controllers = SetNextReveal(@, day)]
  <1>1. /\ Save(objs) /\ ~home.submitted
        /\ context.reflections = store.reflections
    BY DEF TapReveal, ScreenInv, DiskInv
  <1>2. /\ objs.reflections = context.reflections
        /\ objs.controllers = SetNextReveal(context.controllers, day)
        /\ context.controllers \in Controllers /\ day \in Nat
    BY DEF TypeInv
  <1>3. context' = objs /\ store' = objs
    BY <1>1, <1>2, SaveSucceeds
  <1>4. LastSkip(objs.controllers) = LastSkip(context.controllers)
    BY <1>2, SetNextRevealOK
  <1> QED
    BY <1>1, <1>2, <1>3, <1>4

LEMMA SkipOnDisk ==
    ASSUME ~SaveMayFail, TypeInv, ScreenInv, DiskInv, ConfirmSkip
    PROVE  /\ store' = context'
           /\ store'.reflections = store.reflections
           /\ LastSkip(store'.controllers) = day
  <1> DEFINE objs == [context EXCEPT !.controllers = SetSkipped(@, day)]
  <1>1. /\ Save(objs) /\ ~home.submitted
        /\ context.reflections = store.reflections
    BY DEF ConfirmSkip, ScreenInv, DiskInv
  <1>2. /\ objs.reflections = context.reflections
        /\ objs.controllers = SetSkipped(context.controllers, day)
        /\ context.controllers \in Controllers /\ day \in Nat
    BY DEF TypeInv
  <1>3. context' = objs /\ store' = objs
    BY <1>1, <1>2, SaveSucceeds
  <1>4. LastSkip(objs.controllers) = day
    BY <1>2, SetSkippedOK
  <1> QED
    BY <1>1, <1>2, <1>3, <1>4

\* A submit leaves on disk the new reflection, if it has an image, or what
\* was there; it writes no skip.  When the first save of a submit succeeds,
\* so does the second.
LEMMA SubmitOnDisk ==
    ASSUME ~SaveMayFail, TypeInv, DiskInv, NoFaultInv, CanSubmit
    PROVE  \E r \in Reflection :
             /\ r = [image |-> home.dailyImage, date |-> home.photoDateData,
                     place |-> home.place]
             /\ \A s \in SaveOutcomes(WithReflection, store) :
                  /\ \/ s = store
                     \/ /\ r.image # NoPhoto
                        /\ s.reflections = Append(store.reflections, r)
                        /\ Validates(s)
                  /\ LastSkip(s.controllers) = LastSkip(store.controllers)
             /\ \A s \in SaveOutcomes(WithReflection, store) :
                  \A f \in SaveOutcomes(WithSubmitted, s) :
                    \/ f = store /\ ~Validates(WithSubmitted)
                    \/ /\ r.image # NoPhoto
                       /\ f = WithSubmitted
                       /\ f.reflections = Append(store.reflections, r)
             /\ LastSkip(WithSubmitted.controllers) = LastSkip(store.controllers)
  <1>1. PICK r \in Reflection :
            /\ r = [image |-> home.dailyImage, date |-> home.photoDateData,
                    place |-> home.place]
            /\ WithReflection.reflections = Append(context.reflections, r)
            /\ WithSubmitted.reflections = Append(context.reflections, r)
            /\ WithReflection.controllers = context.controllers
            /\ WithSubmitted.controllers = SetSubmitted(context.controllers, day)
    BY SubmitObjects
  <1>2. ~home.submitted /\ context.reflections = store.reflections
    BY DEF CanSubmit, DiskInv
  <1>3. store = context
    BY <1>2, ValidatesReflections DEF NoFaultInv, NoUnsavedWork, DiskInv
  <1>4. Validates(WithReflection) <=> Validates(WithSubmitted)
    BY <1>1, ValidatesReflections
  <1>5. Validates(WithReflection) => r.image # NoPhoto
    <2>1. /\ context.reflections \in Seq(Reflection)
          /\ Len(context.reflections) \in Nat
      BY DEF TypeInv
    <2>2. /\ Len(context.reflections) + 1 \in DOMAIN Append(context.reflections, r)
          /\ Append(context.reflections, r)[Len(context.reflections) + 1] = r
      BY <2>1
    <2> QED
      BY <1>1, <2>2 DEF Validates
  <1>6. LastSkip(WithSubmitted.controllers) = LastSkip(store.controllers)
    BY <1>1, <1>3, SetSubmittedOK DEF TypeInv
  <1>7. ASSUME NEW s \in SaveOutcomes(WithReflection, store)
        PROVE  /\ \/ s = store /\ ~Validates(WithReflection)
                  \/ s = WithReflection /\ Validates(WithReflection)
               /\ LastSkip(s.controllers) = LastSkip(store.controllers)
    BY <1>1, <1>3, <1>7, SaveOutcomesOK
  <1>8. ASSUME NEW s \in SaveOutcomes(WithReflection, store),
               NEW f \in SaveOutcomes(WithSubmitted, s)
        PROVE  \/ f = store /\ ~Validates(WithSubmitted)
               \/ f = WithSubmitted /\ Validates(WithSubmitted)
    BY <1>4, <1>7, <1>8, SaveOutcomesOK
  <1> QED
    BY <1>1, <1>2, <1>4, <1>5, <1>6, <1>7, <1>8

\* Every step keeps valid work on disk, and the count of skips to one.
LEMMA NextNoFault ==
    ASSUME ~SaveMayFail
    PROVE  /\ TypeInv /\ ScreenInv /\ SkipInv /\ DiskInv /\ NoFaultInv
           /\ [HomeNext]_homeVars
           => NoFaultInv'
  <1> SUFFICES ASSUME TypeInv, ScreenInv, SkipInv, DiskInv, NoFaultInv,
                      [HomeNext]_homeVars
               PROVE  NoFaultInv'
    OBVIOUS
  <1> USE DEF NoUnsavedWork, SkipOncePerDay
  <1>e. ASSUME ProcessEnds, LastSkip(store'.controllers) = LastSkip(store.controllers)
        PROVE  NoFaultInv'
    <2>1. /\ context' = store' /\ day' = day /\ skipsToday' = skipsToday
      BY <1>e DEF ProcessEnds
    <2> QED
      BY <1>e, <2>1 DEF NoFaultInv
  <1>v. ASSUME UNCHANGED <<context, store, day, skipsToday>> PROVE NoFaultInv'
    BY <1>v DEF NoFaultInv, Validates
  <1>1. CASE Launch
    BY <1>1 DEF Launch, NoFaultInv
  <1>2. CASE Kill
    BY <1>2, <1>e DEF Kill
  <1>3. CASE EnterBackground
    <2>1. /\ context' = context /\ day' = day /\ skipsToday' = skipsToday
          /\ \/ store' = context
             \/ store' = store /\ ~Validates(context)
      BY <1>3, SaveOutcomesOK DEF EnterBackground, Save
    <2> QED
      BY <2>1 DEF NoFaultInv
  <1>4. CASE DayPasses
    BY <1>4 DEF DayPasses, NoFaultInv, Validates
  <1>5. ASSUME NEW t \in {Home, History}, SelectTab(t) PROVE NoFaultInv'
    BY <1>5, <1>v DEF SelectTab
  <1>6. CASE LoadingDone
    BY <1>6, <1>v DEF LoadingDone
  <1>7. ASSUME NEW p \in Images, TapReveal(p) PROVE NoFaultInv'
    <2>1. /\ store' = context'
          /\ LastSkip(store'.controllers) = LastSkip(context.controllers)
      BY <1>7, RevealOnDisk
    <2>2. day' = day /\ skipsToday' = skipsToday
      BY <1>7 DEF TapReveal
    <2> QED
      BY <2>1, <2>2 DEF NoFaultInv
  <1>8. ASSUME NEW p \in Photos, GeocodeReplies(p) PROVE NoFaultInv'
    BY <1>8, <1>v DEF GeocodeReplies
  <1>9. ASSUME NEW p \in Photos, GeocodeFails(p) PROVE NoFaultInv'
    BY <1>9, <1>e DEF GeocodeFails
  <1>10. CASE TapCard
    BY <1>10, <1>v DEF TapCard
  <1>11. CASE FlipSettles
    BY <1>11, <1>v DEF FlipSettles
  <1>12. CASE TapSkip
    BY <1>12, <1>v DEF TapSkip
  <1>13. CASE DismissAlert
    BY <1>13, <1>v DEF DismissAlert
  <1>14. CASE CancelSkip
    BY <1>14, <1>v DEF CancelSkip
  <1>15. CASE ConfirmSkip
    <2>1. store' = context' /\ LastSkip(store'.controllers) = day
      BY <1>15, SkipOnDisk
    <2>2. LastSkip(context.controllers) # day
      BY <1>15 DEF ConfirmSkip, ScreenInv, SkipInv
    <2>3. skipsToday = 0
      BY <2>2 DEF NoFaultInv, TypeInv
    <2>4. day' = day /\ skipsToday' = 1
      BY <1>15, <2>3 DEF ConfirmSkip, CountSkip
    <2> QED
      BY <2>1, <2>4 DEF NoFaultInv
  <1>16. CASE Submit
    <2>1. CanSubmit /\ context' = WithSubmitted /\ day' = day /\ skipsToday' = skipsToday
      BY <1>16 DEF Submit
    <2>2. /\ LastSkip(WithSubmitted.controllers) = LastSkip(store.controllers)
          /\ \/ store' = store /\ ~Validates(WithSubmitted)
             \/ store' = WithSubmitted
      BY <1>16, <2>1, SubmitOnDisk DEF Submit
    <2> QED
      BY <2>1, <2>2 DEF NoFaultInv
  <1>17. CASE SubmitInterrupted
    <2>1. LastSkip(store'.controllers) = LastSkip(store.controllers)
      BY <1>17, SubmitOnDisk DEF SubmitInterrupted
    <2> QED
      BY <1>17, <1>e, <2>1 DEF SubmitInterrupted
  <1>18. CASE UNCHANGED homeVars
    BY <1>18, <1>v DEF homeVars
  <1> QED
    BY <1>1, <1>2, <1>3, <1>4, <1>5, <1>6, <1>7, <1>8, <1>9, <1>10, <1>11,
       <1>12, <1>13, <1>14, <1>15, <1>16, <1>17, <1>18 DEF HomeNext

----------------------------------------------------------------------------
(* Theorems                                                                *)

\* The part of the inductive invariant that needs nothing of the saves.
Inv == TypeInv /\ ScreenInv /\ SkipInv /\ DiskInv

LEMMA InvHolds == HomeSpec => []Inv
  <1>1. HomeInit => Inv
    BY InitType, InitScreen, InitSkip, InitDisk DEF Inv
  <1>2. Inv /\ [HomeNext]_homeVars => Inv'
    BY NextType, NextScreen, NextSkip, NextDisk DEF Inv
  <1> QED
    BY <1>1, <1>2, PTL DEF HomeSpec

\* The Skip button, the hint and the card agree on the side that is up.
THEOREM SideMatches == HomeSpec => []SideMatchesFlag
  <1>1. Inv => SideMatchesFlag
    BY DEF Inv, ScreenInv
  <1> QED
    BY <1>1, InvHolds, PTL

\* A card never shows, and submit() never writes, a photo of today.
THEOREM OldPhoto == HomeSpec => []OldPhotoOnly
  <1>1. Inv => OldPhotoOnly
    BY DEF Inv, ScreenInv
  <1> QED
    BY <1>1, InvHolds, PTL

\* There is one controller once a photo is revealed, so that the "FIRST use"
\* branch of setSubmitted is dead code.
THEOREM OneController == HomeSpec => []ControllerPresent
  <1>1. Inv => ControllerPresent
    BY ControllersAreSeq DEF Inv, TypeInv, ScreenInv, ControllerPresent
  <1> QED
    BY <1>1, InvHolds, PTL

\* Even with failing saves the skip sheet is up only on a day whose skip, if
\* any, this process has not seen.
THEOREM SheetIsJustified == HomeSpec => []SheetOnlyIfNoSkip
  <1>1. Inv => SheetOnlyIfNoSkip
    BY getSkippedOK DEF Inv, TypeInv, ScreenInv, SkipInv, SheetOnlyIfNoSkip
  <1> QED
    BY <1>1, InvHolds, PTL

\* Even with failing saves at most the last reflection is at risk.
THEOREM OneAtRisk == HomeSpec => []AtMostOneReflectionAtRisk
  <1>1. Inv => AtMostOneReflectionAtRisk
    <2> SUFFICES ASSUME Inv PROVE AtMostOneReflectionAtRisk
      OBVIOUS
    <2>1. store.reflections \in Seq(Reflection)
      BY DEF Inv, TypeInv
    <2>2. CASE context.reflections = store.reflections
      BY <2>1, <2>2, SubSeqFull, LenProperties DEF AtMostOneReflectionAtRisk
    <2>3. ASSUME NEW r \in Reflection,
                 context.reflections = Append(store.reflections, r)
          PROVE  AtMostOneReflectionAtRisk
      <3> DEFINE t == store.reflections
                 u == SubSeq(Append(t, r), 1, Len(t))
      <3>1. /\ Append(t, r) \in Seq(Reflection)
            /\ Len(Append(t, r)) = Len(t) + 1 /\ Len(t) \in Nat
            /\ \A i \in 1..Len(t) : Append(t, r)[i] = t[i]
        BY <2>1, AppendProperties, LenProperties
      <3>2. \A i \in 1..Len(t) : Append(t, r)[i] \in Reflection
        BY <2>1, <3>1, ElementOfSeq
      <3>3. /\ u \in Seq(Reflection)
            /\ Len(u) = Len(t)
            /\ \A i \in 1..Len(t) : u[i] = t[i]
        BY <3>1, <3>2, SubSeqProperties
      <3>4. u = t
        BY <2>1, <3>3, SeqEqual
      <3> QED
        BY <2>3, <3>1, <3>4 DEF AtMostOneReflectionAtRisk
    <2> QED
      BY <2>2, <2>3 DEF Inv, DiskInv
  <1> QED
    BY <1>1, InvHolds, PTL

\* No step takes a running process off the countdown.
LEMMA SubmitFinalStep ==
    ASSUME Inv, HomeNext, home.submitted, running, running'
    PROVE  home'.submitted /\ home'.revealed
  <1>1. home.revealed /\ ~home.showSkipModalView /\ home \in HomeView
    BY DEF Inv, TypeInv, ScreenInv
  <1>e. ~ProcessEnds
    BY DEF ProcessEnds
  <1>2. home' = home \/ TapCard \/ FlipSettles \/ TapSkip \/ DismissAlert
          \/ (\E t \in {Home, History} : SelectTab(t))
          \/ (\E p \in Photos : GeocodeReplies(p))
    <2>1. ~Launch /\ ~Kill /\ ~SubmitInterrupted
      BY <1>e DEF Launch, Kill, SubmitInterrupted
    <2>2. ~ \E p \in Photos : GeocodeFails(p)
      BY <1>e DEF GeocodeFails
    <2>3. ~ \E p \in Images : TapReveal(p)
      BY <1>1 DEF TapReveal
    <2>4. ~CancelSkip /\ ~ConfirmSkip /\ ~Submit
      BY <1>1 DEF CancelSkip, ConfirmSkip, Submit, CanSubmit
    <2>5. EnterBackground \/ DayPasses \/ LoadingDone => home' = home
      BY DEF EnterBackground, DayPasses, LoadingDone
    <2> QED
      BY <2>1, <2>2, <2>3, <2>4, <2>5 DEF HomeNext
  <1>3. CASE home' = home
    BY <1>1, <1>3
  <1>4. CASE TapCard \/ FlipSettles \/ TapSkip \/ DismissAlert
    BY <1>1, <1>4 DEF TapCard, FlipSettles, TapSkip, DismissAlert, HomeView
  <1>5. ASSUME NEW t \in {Home, History}, SelectTab(t)
        PROVE  home'.submitted /\ home'.revealed
    BY <1>1, <1>5 DEF SelectTab, HomeView
  <1>6. ASSUME NEW p \in Photos, GeocodeReplies(p)
        PROVE  home'.submitted /\ home'.revealed
    BY <1>1, <1>6 DEF GeocodeReplies, HomeView
  <1> QED
    BY <1>2, <1>3, <1>4, <1>5, <1>6

\* Once submitted, a process stays on the countdown.
THEOREM SubmitFinal == HomeSpec => SubmitIsFinal
  <1>1. Inv /\ [HomeNext]_homeVars
          => [home.submitted /\ running /\ running'
                => home'.submitted /\ home'.revealed]_homeVars
    BY SubmitFinalStep
  <1> QED
    BY <1>1, InvHolds, PTL DEF HomeSpec, SubmitIsFinal

LEMMA NoFaultHolds == ASSUME ~SaveMayFail PROVE HomeSpec => []NoFaultInv
  <1>1. Inv /\ NoFaultInv /\ [HomeNext]_homeVars => NoFaultInv'
    BY NextNoFault DEF Inv
  <1> QED
    BY <1>1, InitNoFault, InvHolds, PTL DEF HomeSpec

\* "Skips are limited to 1 per day", for a store that takes valid objects.
THEOREM AtMostOneSkip == ASSUME ~SaveMayFail PROVE HomeSpec => []SkipOncePerDay
  <1>1. NoFaultInv => SkipOncePerDay
    BY DEF NoFaultInv
  <1> QED
    BY <1>1, NoFaultHolds, PTL

\* Between two handlers nothing valid is only in memory.
THEOREM NothingUnsaved == HomeSpec => []NoUnsavedWork
  <1>1. CASE SaveMayFail
    <2>1. NoUnsavedWork
      BY <1>1 DEF NoUnsavedWork
    <2> QED
      BY <2>1, PTL
  <1>2. CASE ~SaveMayFail
    <2>1. NoFaultInv => NoUnsavedWork
      BY DEF NoFaultInv
    <2> QED
      BY <1>2, <2>1, NoFaultHolds, PTL
  <1> QED
    BY <1>1, <1>2

----------------------------------------------------------------------------
(* The disk implements Journal                                             *)

\* The written entry is one that Journal allows.
LEMMA EntryAllowed ==
    ASSUME TypeInv, ScreenInv, CanSubmit, NEW r \in Reflection,
           r = [image |-> home.dailyImage, date |-> home.photoDateData,
                place |-> home.place],
           r.image # NoPhoto
    PROVE  r \in Disk!Entry(day)
  <1>1. r.image \in Photos /\ r.place \in Locations
    BY DEF Reflection, Images
  <1>2. home.photoDateData < day /\ home.photoDateData \in Nat /\ day \in Nat
    BY DEF CanSubmit, ScreenInv, OldPhotoOnly, TypeInv, HomeView, Date
  <1>3. r.date \in 0..(day - 1)
    BY <1>2
  <1> QED
    BY <1>1, <1>3 DEF Disk!Entry, Reflection

\* Whatever happens to handlers and process, the disk changes as Journal
\* allows.
THEOREM DiskImplementsJournal ==
    ASSUME ~SaveMayFail PROVE HomeSpec => DiskIsJournal
  <1>1. HomeInit => Disk!JournalInit
    BY DEF HomeInit, PersistenceInit, NoObjects, LastSkip, NoDate, Disk!JournalInit
  <1>2. Inv /\ NoFaultInv /\ [HomeNext]_homeVars
          => [Disk!JournalNext]_(Disk!journalVars)
    <2> SUFFICES ASSUME Inv, NoFaultInv, [HomeNext]_homeVars
                 PROVE  \/ Disk!JournalNext
                        \/ /\ day' = day
                           /\ store'.reflections = store.reflections
                           /\ LastSkip(store'.controllers) = LastSkip(store.controllers)
      BY DEF Disk!journalVars
    <2> DEFINE Stutter == /\ day' = day
                          /\ store'.reflections = store.reflections
                          /\ LastSkip(store'.controllers) = LastSkip(store.controllers)
    <2>i. TypeInv /\ ScreenInv /\ SkipInv /\ DiskInv
      BY DEF Inv
    <2>1. CASE day' = day /\ store' = store
      BY <2>1
    <2>2. CASE EnterBackground
      <3>1. day' = day /\ (store' = store \/ (store' = context /\ Validates(context)))
        BY <2>2, SaveOutcomesOK DEF EnterBackground, Save
      <3> QED
        BY <3>1 DEF NoFaultInv, NoUnsavedWork
    <2>3. CASE DayPasses
      BY <2>3 DEF DayPasses, Disk!JournalNext, Disk!NewDay
    <2>4. ASSUME NEW p \in Images, TapReveal(p) PROVE Stutter
      <3>1. day' = day
        BY <2>4 DEF TapReveal
      <3> QED
        BY <2>i, <2>4, <3>1, RevealOnDisk DEF NoFaultInv
    <2>5. CASE ConfirmSkip
      <3>1. LastSkip(context.controllers) # day /\ day' = day
        BY <2>5, <2>i DEF ConfirmSkip, ScreenInv, SkipInv
      <3> QED
        BY <2>i, <2>5, <3>1, SkipOnDisk
           DEF NoFaultInv, Disk!JournalNext, Disk!Skip
    <2>6. CASE Submit
      <3>1. CanSubmit /\ day' = day
        BY <2>6 DEF Submit
      <3>2. PICK r \in Reflection :
                /\ r = [image |-> home.dailyImage, date |-> home.photoDateData,
                        place |-> home.place]
                /\ \/ store' = store
                   \/ /\ r.image # NoPhoto
                      /\ store'.reflections = Append(store.reflections, r)
                      /\ LastSkip(store'.controllers) = LastSkip(store.controllers)
        BY <2>i, <2>6, <3>1, SubmitOnDisk DEF Submit
      <3>3. CASE store' = store
        BY <3>1, <3>3
      <3>4. CASE store' # store
        BY <2>i, <3>1, <3>2, <3>4, EntryAllowed
           DEF Disk!JournalNext, Disk!AddEntry
      <3> QED
        BY <3>3, <3>4
    <2>7. CASE SubmitInterrupted
      <3>1. CanSubmit /\ day' = day
        BY <2>7 DEF SubmitInterrupted, ProcessEnds
      <3>2. PICK r \in Reflection :
                /\ r = [image |-> home.dailyImage, date |-> home.photoDateData,
                        place |-> home.place]
                /\ \/ store' = store
                   \/ /\ r.image # NoPhoto
                      /\ store'.reflections = Append(store.reflections, r)
                      /\ LastSkip(store'.controllers) = LastSkip(store.controllers)
        BY <2>i, <2>7, <3>1, SubmitOnDisk DEF SubmitInterrupted
      <3>3. CASE store' = store
        BY <3>1, <3>3
      <3>4. CASE store' # store
        BY <2>i, <3>1, <3>2, <3>4, EntryAllowed
           DEF Disk!JournalNext, Disk!AddEntry
      <3> QED
        BY <3>3, <3>4
    <2>8. ASSUME HomeNext, ~EnterBackground, ~DayPasses, ~ConfirmSkip,
                 ~Submit, ~SubmitInterrupted, ~ \E p \in Images : TapReveal(p)
          PROVE  day' = day /\ store' = store
      BY <2>8 DEF HomeNext, Launch, Kill, SelectTab, LoadingDone,
                  GeocodeReplies, GeocodeFails, TapCard, FlipSettles, TapSkip,
                  DismissAlert, CancelSkip, ProcessEnds
    <2>9. CASE UNCHANGED homeVars
      BY <2>9 DEF homeVars
    <2> QED
      BY <2>1, <2>2, <2>3, <2>4, <2>5, <2>6, <2>7, <2>8, <2>9
  <1> QED
    BY <1>1, <1>2, InvHolds, NoFaultHolds, PTL
       DEF HomeSpec, DiskIsJournal, Disk!JournalSpec

----------------------------------------------------------------------------
(* The disk under refused saves                                            *)

\* seq is what the disk has, or that and one more reflection of an earlier
\* day.
AheadOfDisk(seq) ==
    \/ seq = store.reflections
    \/ \E r \in Reflection : /\ r.date < day
                             /\ seq = Append(store.reflections, r)

\* What the context carries along is newer than what the disk has.
LateInv ==
    /\ LastSkip(store.controllers) <= LastSkip(context.controllers)
    /\ AheadOfDisk(context.reflections)

\* What a step writes to the disk, if anything: all reflections of a context
\* that is AheadOfDisk, all complete, and a skip date of that context.
LEMMA DiskStep ==
    ASSUME Inv, LateInv, HomeNext
    PROVE  \/ /\ store' = store
              /\ \/ /\ context'.reflections = context.reflections
                    /\ LastSkip(context'.controllers)
                         \in {LastSkip(context.controllers), day}
                 \/ context' = store
                 \/ /\ AheadOfDisk(context'.reflections)
                    /\ LastSkip(context'.controllers) = LastSkip(context.controllers)
           \/ /\ Validates(store') /\ AheadOfDisk(store'.reflections)
              /\ store'.reflections = context'.reflections
              /\ LastSkip(store'.controllers) = LastSkip(context'.controllers)
              /\ LastSkip(context'.controllers)
                   \in {LastSkip(context.controllers), day}
  <1>t. /\ context.controllers \in Controllers /\ day \in Nat
        /\ context.reflections \in Seq(Reflection)
    BY DEF Inv, TypeInv
  <1>s. ASSUME NEW objs, Save(objs), objs.reflections = context.reflections,
               LastSkip(objs.controllers) \in {LastSkip(context.controllers), day}
        PROVE  \/ /\ store' = store
                  /\ context'.reflections = context.reflections
                  /\ LastSkip(context'.controllers)
                       \in {LastSkip(context.controllers), day}
               \/ /\ Validates(store') /\ AheadOfDisk(store'.reflections)
                  /\ store'.reflections = context'.reflections
                  /\ LastSkip(store'.controllers) = LastSkip(context'.controllers)
                  /\ LastSkip(context'.controllers)
                       \in {LastSkip(context.controllers), day}
    <2>1. context' = objs /\ (store' = store \/ (store' = objs /\ Validates(objs)))
      BY <1>s, SaveOutcomesOK DEF Save
    <2> QED
      BY <1>s, <2>1 DEF LateInv
  <1>w. ASSUME CanSubmit
        PROVE  /\ AheadOfDisk(WithReflection.reflections)
               /\ WithSubmitted.reflections = WithReflection.reflections
               /\ LastSkip(WithReflection.controllers)
                    = LastSkip(context.controllers)
               /\ LastSkip(WithSubmitted.controllers)
                    = LastSkip(context.controllers)
    <2>1. PICK r \in Reflection :
              /\ r = [image |-> home.dailyImage, date |-> home.photoDateData,
                      place |-> home.place]
              /\ WithReflection.reflections = Append(context.reflections, r)
              /\ WithSubmitted.reflections = Append(context.reflections, r)
              /\ WithReflection.controllers = context.controllers
              /\ WithSubmitted.controllers = SetSubmitted(context.controllers, day)
      BY SubmitObjects DEF Inv
    <2>2. context.reflections = store.reflections /\ r.date < day
      BY <1>w, <2>1 DEF CanSubmit, Inv, DiskInv, ScreenInv, OldPhotoOnly
    <2> QED
      BY <1>t, <2>1, <2>2, SetSubmittedOK DEF AheadOfDisk
  <1>1. CASE EnterBackground
    BY <1>1, <1>s DEF EnterBackground
  <1>2. ASSUME NEW p \in Images, TapReveal(p)
        PROVE  \E objs : /\ Save(objs) /\ objs.reflections = context.reflections
                         /\ LastSkip(objs.controllers) = LastSkip(context.controllers)
    <2> DEFINE objs == [context EXCEPT !.controllers = SetNextReveal(@, day)]
    <2>1. Save(objs)
      BY <1>2 DEF TapReveal
    <2>2. /\ objs.reflections = context.reflections
          /\ objs.controllers = SetNextReveal(context.controllers, day)
      BY DEF Inv, TypeInv
    <2> QED
      BY <1>t, <2>1, <2>2, SetNextRevealOK
  <1>3. ASSUME ConfirmSkip
        PROVE  \E objs : /\ Save(objs) /\ objs.reflections = context.reflections
                         /\ LastSkip(objs.controllers) = day
    <2> DEFINE objs == [context EXCEPT !.controllers = SetSkipped(@, day)]
    <2>1. Save(objs)
      BY <1>3 DEF ConfirmSkip
    <2>2. /\ objs.reflections = context.reflections
          /\ objs.controllers = SetSkipped(context.controllers, day)
      BY DEF Inv, TypeInv
    <2> QED
      BY <1>t, <2>1, <2>2, SetSkippedOK
  <1>4. CASE Submit
    <2>1. CanSubmit /\ context' = WithSubmitted
      BY <1>4 DEF Submit
    <2>2. PICK d \in SaveOutcomes(WithReflection, store) :
              store' \in SaveOutcomes(WithSubmitted, d)
      BY <1>4 DEF Submit
    <2>3. \/ store' = store
          \/ store' \in {WithReflection, WithSubmitted} /\ Validates(store')
      BY <2>2, SaveOutcomesOK
    <2> QED
      BY <1>w, <2>1, <2>3
  <1>5. CASE SubmitInterrupted
    <2>1. CanSubmit /\ context' = store'
      BY <1>5 DEF SubmitInterrupted, ProcessEnds
    <2>2. store' = store \/ (store' = WithReflection /\ Validates(store'))
      BY <1>5, SaveOutcomesOK DEF SubmitInterrupted
    <2> QED
      BY <1>w, <2>1, <2>2
  <1>6. ASSUME ~EnterBackground, ~ConfirmSkip, ~Submit, ~SubmitInterrupted,
               ~ \E p \in Images : TapReveal(p)
        PROVE  store' = store /\ (context' = context \/ context' = store)
    BY <1>6 DEF HomeNext, Launch, Kill, DayPasses, SelectTab, LoadingDone,
                GeocodeReplies, GeocodeFails, TapCard, FlipSettles, TapSkip,
                DismissAlert, CancelSkip, ProcessEnds
  <1> QED
    BY <1>s, <1>1, <1>2, <1>3, <1>4, <1>5, <1>6

LEMMA InitLate == HomeInit => LateInv
  BY DEF HomeInit, PersistenceInit, NoObjects, LateInv, AheadOfDisk, LastSkip,
         NoDate

\* The calendar only goes forward.
LEMMA DayStep ==
    ASSUME Inv, HomeNext
    PROVE  day \in Nat /\ \/ day' = day
                          \/ day' = day + 1 /\ store' = store /\ context' = context
  BY DEF Inv, TypeInv, HomeNext, Launch, Kill, EnterBackground, DayPasses,
         SelectTab, LoadingDone, TapReveal, GeocodeReplies, GeocodeFails,
         TapCard, FlipSettles, TapSkip, DismissAlert, CancelSkip, ConfirmSkip,
         Submit, SubmitInterrupted, ProcessEnds

\* Every step keeps the context ahead of the disk.
LEMMA NextLate == Inv /\ LateInv /\ [HomeNext]_homeVars => LateInv'
  <1> SUFFICES ASSUME Inv, LateInv, HomeNext PROVE LateInv'
    <2>1. CASE UNCHANGED homeVars
      BY <2>1 DEF homeVars, LateInv, AheadOfDisk
    <2> QED
      BY <2>1
  <1>t. /\ LastSkip(context.controllers) \in Nat
        /\ LastSkip(store.controllers) \in Nat
        /\ LastSkip(context.controllers) <= day
        /\ LastSkip(store.controllers) <= LastSkip(context.controllers)
        /\ day \in Nat
    BY LastSkipType DEF Inv, TypeInv, SkipInv, LateInv
  <1>a. ASSUME NEW seq, AheadOfDisk(seq), store' = store
        PROVE  AheadOfDisk(seq)'
    <2>1. CASE seq = store.reflections
      BY <1>a, <2>1 DEF AheadOfDisk
    <2>2. ASSUME NEW r \in Reflection, r.date < day,
                 seq = Append(store.reflections, r)
          PROVE  AheadOfDisk(seq)'
      <3>1. r.date \in Nat
        BY DEF Reflection, Date
      <3>2. r.date < day'
        BY <2>2, <3>1, DayStep
      <3> QED
        BY <1>a, <2>2, <3>2 DEF AheadOfDisk
    <2> QED
      BY <1>a, <2>1, <2>2 DEF AheadOfDisk
  <1> QED
    BY <1>t, <1>a, DiskStep DEF LateInv, AheadOfDisk

LEMMA LateInvHolds == HomeSpec => []LateInv
  BY InitLate, NextLate, InvHolds, PTL DEF HomeSpec

\* A complete reflection of an earlier day is one that Journal allows.
LEMMA LateEntryAllowed ==
    ASSUME Inv, NEW r \in Reflection, r.date < day, NEW s \in Seq(Reflection),
           NEW objs, objs.reflections = Append(s, r), Validates(objs)
    PROVE  r \in Disk!Entry(day)
  <1>1. Len(s) + 1 \in DOMAIN Append(s, r) /\ Append(s, r)[Len(s) + 1] = r
    OBVIOUS
  <1>2. r.image # NoPhoto
    BY <1>1 DEF Validates
  <1>3. r.image \in Photos /\ r.place \in Locations
    BY <1>2 DEF Reflection, Images
  <1>4. r.date \in Nat /\ day \in Nat
    BY DEF Reflection, Date, Inv, TypeInv
  <1>5. r.date \in 0..(day - 1)
    BY <1>4
  <1> QED
    BY <1>3, <1>5 DEF Disk!Entry, Reflection

\* Whatever saves do, the disk gets what the context carried along in order,
\* and nothing is taken back: no assumption on SaveMayFail.
THEOREM DiskImplementsLateJournal == HomeSpec => DiskIsLateJournal
  <1>1. HomeInit => Disk!JournalInit
    BY DEF HomeInit, PersistenceInit, NoObjects, LastSkip, NoDate, Disk!JournalInit
  <1>2. Inv /\ LateInv /\ [HomeNext]_homeVars
          => [Disk!LateJournalNext]_(Disk!journalVars)
    <2> DEFINE Stutter == /\ day' = day
                          /\ store'.reflections = store.reflections
                          /\ LastSkip(store'.controllers) = LastSkip(store.controllers)
    <2> SUFFICES ASSUME Inv, LateInv, [HomeNext]_homeVars
                 PROVE  Disk!LateJournalNext \/ Stutter
      BY DEF Disk!journalVars
    <2>1. CASE UNCHANGED homeVars
      BY <2>1 DEF homeVars
    <2>2. CASE HomeNext /\ store' = store
      BY <2>2, DayStep DEF Disk!LateJournalNext, Disk!NewDay
    <2>3. CASE HomeNext /\ store' # store
      <3>1. /\ Validates(store') /\ AheadOfDisk(store'.reflections)
            /\ LastSkip(store'.controllers) \in {LastSkip(context.controllers), day}
        BY <2>3, DiskStep
      <3>2. day' = day
        BY <2>3, DayStep
      <3>3. LastSkip(store'.controllers) \in LastSkip(store.controllers)..day
        <4>1. /\ LastSkip(context.controllers) \in Nat
              /\ LastSkip(store.controllers) \in Nat
              /\ LastSkip(context.controllers) <= day
              /\ LastSkip(store.controllers) <= LastSkip(context.controllers)
              /\ day \in Nat
          BY LastSkipType DEF Inv, TypeInv, SkipInv, LateInv
        <4> QED
          BY <3>1, <4>1
      <3>4. \/ store'.reflections = store.reflections
            \/ \E e \in Disk!Entry(day) :
                   store'.reflections = Append(store.reflections, e)
        <4>1. store.reflections \in Seq(Reflection)
          BY DEF Inv, TypeInv
        <4> QED
          BY <3>1, <4>1, LateEntryAllowed DEF AheadOfDisk
      <3>5. Disk!LateWrite
        BY <3>2, <3>3, <3>4 DEF Disk!LateWrite
      <3> QED
        BY <3>5 DEF Disk!LateJournalNext
    <2> QED
      BY <2>1, <2>2, <2>3
  <1> QED
    BY <1>1, <1>2, InvHolds, LateInvHolds, PTL
       DEF HomeSpec, DiskIsLateJournal, Disk!LateJournalSpec

----------------------------------------------------------------------------
(* Where the countdown is                                                  *)

\* A process starts on Today's Flic.
TabInv == ~running => tabSelection = Home

LEMMA InitTab == HomeInit => TabInv
  BY DEF HomeInit, NavigationInit, TabInv

LEMMA NextTab == TabInv /\ [HomeNext]_homeVars => TabInv'
  <1> SUFFICES ASSUME TabInv, [HomeNext]_homeVars PROVE TabInv'
    OBVIOUS
  <1>1. CASE Launch
    BY <1>1 DEF Launch, TabInv
  <1>2. CASE Kill \/ SubmitInterrupted \/ \E p \in Photos : GeocodeFails(p)
    BY <1>2 DEF Kill, SubmitInterrupted, GeocodeFails, ProcessEnds, TabInv
  <1>3. CASE EnterBackground \/ DayPasses \/ LoadingDone
    BY <1>3 DEF EnterBackground, DayPasses, LoadingDone, TabInv
  <1>4. CASE (\E t \in {Home, History} : SelectTab(t)) \/ Submit
    BY <1>4 DEF SelectTab, Submit, CanSubmit, HomeOnScreen, TabInv
  <1>5. CASE \/ \E p \in Images : TapReveal(p)
             \/ \E p \in Photos : GeocodeReplies(p)
    BY <1>5 DEF TapReveal, GeocodeReplies, TabInv
  <1>6. CASE TapCard \/ FlipSettles
    BY <1>6 DEF TapCard, FlipSettles, TabInv
  <1>7. CASE TapSkip \/ DismissAlert \/ CancelSkip \/ ConfirmSkip
    BY <1>7 DEF TapSkip, DismissAlert, CancelSkip, ConfirmSkip, TabInv
  <1>8. CASE UNCHANGED homeVars
    BY <1>8 DEF homeVars, TabInv
  <1> QED
    BY <1>1, <1>2, <1>3, <1>4, <1>5, <1>6, <1>7, <1>8 DEF HomeNext

LEMMA TabInvHolds == HomeSpec => []TabInv
  BY InitTab, NextTab, PTL DEF HomeSpec

\* In a process, the card is up exactly when submitted is: a photo that is
\* not submitted is of an earlier day, and stays so.
LEMMA CountDownIsSubmitted ==
    ASSUME ScreenInv, home \in HomeView, day \in Nat
    PROVE  CountDownShown <=> running /\ home.submitted
  <1>1. home.photoDateData \in Nat
    BY DEF HomeView, Date
  <1>2. home.revealed /\ ~home.submitted => home.photoDateData # day
    BY <1>1 DEF ScreenInv, OldPhotoOnly
  <1> QED
    BY <1>2 DEF ScreenInv, CountDownShown, isDateInToday

\* CountDownCard comes up with a reveal or a submit on Today's Flic, and goes
\* with the process.
THEOREM CountDownPlaced == HomeSpec => CountDownStays
  <1> DEFINE t == CASE ~running -> "none"
                    [] running /\ tabSelection = Home -> "home"
                    [] running /\ tabSelection # Home -> "history"
  <1>1. HomeInit => Countdown!ScreenInit
    BY DEF HomeInit, PersistenceInit, Countdown!ScreenInit, CountDownShown
  <1>2. /\ Inv /\ TabInv /\ [HomeNext]_homeVars /\ Inv'
        => [Countdown!ScreenNext]_(Countdown!screenVars)
    <2> SUFFICES ASSUME Inv, TabInv, [HomeNext]_homeVars, Inv'
                 PROVE  \/ Countdown!ScreenNext
                        \/ t' = t /\ CountDownShown' = CountDownShown
      BY DEF Countdown!screenVars
    <2>a. /\ CountDownShown = (running /\ home.submitted)
          /\ CountDownShown' = (running' /\ home'.submitted)
      <3>1. ScreenInv /\ home \in HomeView /\ day \in Nat
        BY DEF Inv, TypeInv
      <3>2. ScreenInv' /\ home' \in HomeView /\ day' \in Nat
        BY DEF Inv, TypeInv
      <3>3. /\ CountDownShown \in BOOLEAN /\ CountDownShown' \in BOOLEAN
            /\ (running /\ home.submitted) \in BOOLEAN
            /\ (running' /\ home'.submitted) \in BOOLEAN
        BY DEF CountDownShown
      <3>4. CountDownShown <=> (running /\ home.submitted)
        BY <3>1, CountDownIsSubmitted
      <3>5. CountDownShown' <=> (running' /\ home'.submitted)
        BY <3>2 DEF HomeView, Date, ScreenInv, OldPhotoOnly, CountDownShown,
                    isDateInToday
      <3> QED
        BY <3>3, <3>4, <3>5
    <2>t. /\ home \in HomeView /\ running \in BOOLEAN
          /\ tabSelection \in {Home, History} /\ Home # History
      BY DEF Inv, TypeInv, NavigationTypeOK, Home, History
    <2> HIDE DEF t
    <2>w. /\ ~running => t = "none"
          /\ running /\ tabSelection = Home => t = "home"
          /\ running /\ tabSelection # Home => t = "history"
          /\ ~running' => t' = "none"
          /\ running' /\ tabSelection' = Home => t' = "home"
          /\ running' /\ tabSelection' # Home => t' = "history"
      BY DEF t
    <2>s. ASSUME UNCHANGED <<running, tabSelection>>, home'.submitted = home.submitted
          PROVE  t' = t /\ CountDownShown' = CountDownShown
      BY <2>s, <2>a DEF t
    <2>e. ASSUME running, ProcessEnds PROVE Countdown!Close
      <3>1. ~running' /\ running
        BY <2>e DEF ProcessEnds
      <3>2. t # "none" /\ t' = "none" /\ CountDownShown' = FALSE
        BY <2>a, <2>w, <3>1
      <3> QED
        BY <3>2 DEF Countdown!Close, t
    <2>1. CASE Launch
      <3>1. /\ ~running /\ running' /\ tabSelection' = Home
            /\ home'.submitted = FALSE
        BY <2>1 DEF Launch, FreshHome, TabInv
      <3>2. t = "none" /\ t' = "home" /\ CountDownShown' = CountDownShown
        BY <2>a, <2>w, <3>1
      <3>3. Countdown!Open
        BY <3>2 DEF Countdown!Open, t
      <3> QED
        BY <3>3 DEF Countdown!ScreenNext
    <2>2. CASE Kill \/ SubmitInterrupted \/ \E p \in Photos : GeocodeFails(p)
      BY <2>2, <2>e DEF Kill, SubmitInterrupted, CanSubmit, HomeOnScreen,
                        GeocodeFails, Countdown!ScreenNext
    <2>3. CASE EnterBackground \/ DayPasses \/ LoadingDone
      BY <2>3, <2>s DEF EnterBackground, DayPasses, LoadingDone
    <2>4. ASSUME NEW u \in {Home, History}, SelectTab(u)
          PROVE  Countdown!ScreenNext
      <3>1. /\ running /\ running' /\ tabSelection # tabSelection'
            /\ tabSelection' \in {Home, History}
            /\ home'.submitted = home.submitted
        BY <2>4, <2>t DEF SelectTab, HomeView
      <3>2. CountDownShown' = CountDownShown /\ {t, t'} = {"home", "history"}
        BY <2>a, <2>t, <2>w, <3>1
      <3>3. Countdown!Turn
        BY <3>2 DEF Countdown!Turn, t
      <3> QED
        BY <3>3 DEF Countdown!ScreenNext
    \* Both raise the card, a reveal only for a photo of today.
    <2>r. ASSUME running, tabSelection = Home, running', ~home.submitted,
                 home'.submitted, tabSelection' \in {Home, History}
          PROVE  Countdown!ScreenNext
      <3>1. /\ t = "home" /\ ~CountDownShown /\ CountDownShown' = TRUE
            /\ t' \in {"home", "history"}
        BY <2>a, <2>w, <2>r
      <3>2. Countdown!Raise
        BY <3>1 DEF Countdown!Raise, t
      <3> QED
        BY <3>2 DEF Countdown!ScreenNext
    <2>5. ASSUME NEW p \in Images, TapReveal(p)
          PROVE  Countdown!ScreenNext \/ (t' = t /\ CountDownShown' = CountDownShown)
      <3>1. /\ running /\ running' /\ tabSelection = Home /\ tabSelection' = tabSelection
            /\ ~home.revealed
        BY <2>5 DEF TapReveal, HomeOnScreen
      <3>2. ~home.submitted
        BY <3>1 DEF Inv, ScreenInv
      <3>3. home.submitted \in BOOLEAN /\ home'.submitted \in BOOLEAN
        BY DEF Inv, TypeInv, HomeView
      <3>4. CASE home'.submitted
        BY <2>r, <2>t, <3>1, <3>2, <3>4
      <3>5. CASE ~home'.submitted
        BY <2>s, <3>1, <3>2, <3>3, <3>5
      <3> QED
        BY <3>4, <3>5
    <2>6. ASSUME NEW p \in Photos, GeocodeReplies(p)
          PROVE  t' = t /\ CountDownShown' = CountDownShown
      BY <2>6, <2>t, <2>s DEF GeocodeReplies, HomeView
    <2>7. CASE TapCard \/ FlipSettles
      BY <2>7, <2>t, <2>s DEF TapCard, FlipSettles, HomeView
    <2>8. CASE TapSkip \/ DismissAlert \/ CancelSkip
      BY <2>8, <2>t, <2>s DEF TapSkip, DismissAlert, CancelSkip, HomeView
    <2>9. CASE ConfirmSkip
      <3>1. ~home.submitted /\ home.submitted \in BOOLEAN
        BY <2>9, <2>t DEF ConfirmSkip, Inv, ScreenInv, HomeView
      <3>2. UNCHANGED <<running, tabSelection>> /\ home'.submitted = FALSE
        BY <2>9, <2>t DEF ConfirmSkip, AfterSkip, HomeView
      <3> QED
        BY <2>s, <3>1, <3>2
    <2>10. CASE Submit
      BY <2>10, <2>t, <2>r DEF Submit, CanSubmit, HomeOnScreen, HomeView
    <2>11. CASE UNCHANGED homeVars
      BY <2>11, <2>s DEF homeVars
    <2> QED
      BY <2>1, <2>2, <2>3, <2>4, <2>5, <2>6, <2>7, <2>8, <2>9, <2>10, <2>11
         DEF HomeNext
  <1> QED
    BY <1>1, <1>2, InvHolds, TabInvHolds, PTL
       DEF HomeSpec, CountDownStays, Countdown!ScreenSpec

=============================================================================
