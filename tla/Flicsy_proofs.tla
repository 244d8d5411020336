--------------------------- MODULE Flicsy_proofs ---------------------------
(***************************************************************************)
(* Proofs about the whole app: it implements Today's Flic, and the History *)
(* list is never stale without a pending reload.                           *)
(***************************************************************************)
EXTENDS Flicsy, DailyHome_proofs, FunctionTheorems, FiniteSetTheorems

\* Every step of the app is a step of Today's Flic or leaves it alone.
LEMMA StepIsHomeStep == [FlicsyNext]_flicsyVars => [HomeNext]_homeVars
  <1> SUFFICES ASSUME [FlicsyNext]_flicsyVars PROVE [HomeNext]_homeVars
    OBVIOUS
  <1>1. CASE LaunchApp
    BY <1>1 DEF LaunchApp, HomeNext
  <1>2. CASE EndApp
    BY <1>2 DEF EndApp, HomeNext
  <1>3. CASE StayOnTab
    BY <1>3 DEF StayOnTab, HomeNext
  <1>4. CASE GoHome
    BY <1>4 DEF GoHome, HomeNext
  <1>5. CASE GoToHistory
    BY <1>5 DEF GoToHistory, HomeNext
  <1>6. CASE SubmitAndShow
    BY <1>6 DEF SubmitAndShow, HomeNext
  <1>7. CASE ShowingListCrashes \/ LoadedListCrashes
    <2>1. Kill
      BY <1>7 DEF ShowingListCrashes, LoadedListCrashes, Kill
    <2> QED
      BY <2>1 DEF HomeNext
  <1>8. CASE UseHistory
    <2>1. CASE TickLast
      <3>1. LoadingDone
        BY <1>8, <2>1 DEF UseHistory, TickLast, Loading, LoadingDone, onlyHomeVars
      <3> QED
        BY <3>1 DEF HomeNext
    <2>2. CASE TickDown \/ OpenCard \/ CloseCard
      BY <1>8, <2>2 DEF UseHistory, TickDown, OpenCard, CloseCard, homeVars,
                        onlyHomeVars
    <2> QED
      BY <1>8, <2>1, <2>2 DEF UseHistory
  <1>9. CASE UNCHANGED flicsyVars
    BY <1>9 DEF flicsyVars
  <1> QED
    BY <1>1, <1>2, <1>3, <1>4, <1>5, <1>6, <1>7, <1>8, <1>9 DEF FlicsyNext

\* The History tab beside it does not let Today's Flic do anything new: what
\* is proved of DailyHome holds of the app.
THEOREM ImplementsHome == FlicsySpec => FlicsyImplementsHome
  <1>1. FlicsyInit => HomeInit
    BY DEF FlicsyInit
  <1> QED
    BY <1>1, StepIsHomeStep, PTL DEF FlicsySpec, HomeSpec, FlicsyImplementsHome

\* So the app keeps the journal on disk, when saves of valid objects succeed.
THEOREM AppKeepsJournal ==
    ASSUME ~SaveMayFail PROVE FlicsySpec => DiskIsJournal /\ []SkipOncePerDay
  BY ImplementsHome, DiskImplementsJournal, AtMostOneSkip, PTL
     DEF FlicsyImplementsHome

----------------------------------------------------------------------------
(* The History list                                                        *)

\* What a fetch finds is a list of reflections, as long as the journal.
LEMMA FetchedType ==
    ASSUME NEW objs, objs.reflections \in Seq(Reflection),
           NEW l \in fetchReflections(objs)
    PROVE  l \in Seq(Reflection) /\ Len(l) = Len(objs.reflections)
  <1> DEFINE s == objs.reflections
             n == Len(s)
  <1>1. n \in Nat /\ DOMAIN s = 1..n /\ \A i \in 1..n : s[i] \in Reflection
    BY SeqDef, LenProperties, ElementOfSeq
  <1>2. PICK p \in Bijection(1..n, 1..n) : l = [i \in 1..n |-> s[p[i]]]
    BY <1>1 DEF fetchReflections
  <1> HIDE DEF n, s
  <1>3. p \in [1..n -> 1..n]
    BY Fun_BijectionProperties, Zenon
  <1>4. l \in [1..n -> Reflection]
    BY <1>1, <1>2, <1>3
  <1> QED
    BY <1>1, <1>4, SeqDef, LenProperties DEF n, s

\* Its rows are the reflections of the journal, the newest photo first.
LEMMA FetchedRows ==
    ASSUME NEW objs, objs.reflections \in Seq(Reflection),
           NEW l \in fetchReflections(objs)
    PROVE  /\ Range(l) = Range(objs.reflections)
           /\ \A i \in 1..(Len(l) - 1) : l[i].date >= l[i + 1].date
  <1> DEFINE s == objs.reflections
             n == Len(s)
  <1>1. n \in Nat /\ DOMAIN s = 1..n /\ Len(l) = n
    BY FetchedType, LenProperties
  <1>2. PICK p \in Bijection(1..n, 1..n) :
           l = [i \in 1..n |-> s[p[i]]] /\ NewestFirst(s, p)
    BY <1>1 DEF fetchReflections
  <1> HIDE DEF n, s
  <1>3. p \in [1..n -> 1..n] /\ \A t \in 1..n : \E i \in 1..n : p[i] = t
    BY DEF Bijection, Surjection
  <1>4. DOMAIN l = 1..n /\ \A i \in 1..n : l[i] = s[p[i]]
    BY <1>2
  <1>5. Range(l) = Range(s)
    BY <1>1, <1>3, <1>4 DEF Range
  <1>6. \A i \in 1..(n - 1) : i \in 1..n /\ i + 1 \in 1..n /\ i < i + 1
    BY <1>1
  <1>7. \A i \in 1..(n - 1) : l[i].date >= l[i + 1].date
    BY <1>1, <1>2, <1>4, <1>6 DEF NewestFirst
  <1> QED
    BY <1>1, <1>5, <1>7 DEF s

\* A fetch always finds a list: the rows can be put in order, so that no
\* launch and no reload is stuck on what the journal holds.  The row k comes
\* after the rows of a later photo, and after the earlier rows of its day.
LEMMA FetchFinds ==
    ASSUME NEW objs, objs.reflections \in Seq(Reflection)
    PROVE  fetchReflections(objs) # {}
  <1> DEFINE s == objs.reflections
             n == Len(s)
             date(k) == s[k].date
             Before(j, k) == date(j) > date(k) \/ (date(j) = date(k) /\ j < k)
             Ahead(k) == {j \in 1..n : Before(j, k)}
             rank == [k \in 1..n |-> Cardinality(Ahead(k)) + 1]
  <1>1. n \in Nat /\ DOMAIN s = 1..n /\ \A i \in 1..n : s[i] \in Reflection
    BY SeqDef, LenProperties, ElementOfSeq
  <1>2. \A k \in 1..n : date(k) \in Nat
    BY <1>1 DEF Reflection, Date
  <1> HIDE DEF n, s, date
  <1>3. IsFiniteSet(1..n) /\ Cardinality(1..n) = n
    BY <1>1, FS_Interval
  <1>4. \A k \in 1..n : Ahead(k) \subseteq (1..n) \ {k}
    BY <1>1, <1>2
  <1>5. \A k \in 1..n : /\ IsFiniteSet(Ahead(k))
                        /\ Cardinality(Ahead(k)) \in 0..(n - 1)
    <2> SUFFICES ASSUME NEW k \in 1..n
                 PROVE  /\ IsFiniteSet(Ahead(k))
                        /\ Cardinality(Ahead(k)) \in 0..(n - 1)
      OBVIOUS
    <2> DEFINE A == Ahead(k)
               B == (1..n) \ {k}
    <2>1. A \in SUBSET B
      BY <1>4
    <2>2. IsFiniteSet(B) /\ Cardinality(B) = n - 1
      BY <1>3, FS_RemoveElement
    <2> HIDE DEF A, B
    <2>3. IsFiniteSet(A) /\ Cardinality(A) <= Cardinality(B)
      BY <2>1, <2>2, FS_Subset
    <2>4. Cardinality(A) \in Nat
      BY <2>3, FS_CardinalityType
    <2>5. IsFiniteSet(A) /\ Cardinality(A) \in 0..(n - 1)
      BY <1>1, <2>2, <2>3, <2>4
    <2> QED
      BY <2>5 DEF A
  <1>6. \A j, k \in 1..n : Before(j, k) => rank[j] < rank[k]
    <2> SUFFICES ASSUME NEW j \in 1..n, NEW k \in 1..n, Before(j, k)
                 PROVE  rank[j] < rank[k]
      OBVIOUS
    <2> DEFINE A == Ahead(j)
               B == Ahead(k)
    <2>1. A \cup {j} \in SUBSET B /\ j \notin A
      BY <1>1, <1>2
    <2>2. /\ IsFiniteSet(A) /\ Cardinality(A) \in Nat
          /\ IsFiniteSet(B) /\ Cardinality(B) \in Nat
      <3> HIDE DEF Ahead
      <3> QED
        BY <1>1, <1>5
    <2>3. rank[j] = Cardinality(A) + 1 /\ rank[k] = Cardinality(B) + 1
      OBVIOUS
    <2> HIDE DEF A, B, rank
    <2>4. Cardinality(A \cup {j}) = Cardinality(A) + 1
      BY <2>1, <2>2, FS_AddElement
    <2>5. Cardinality(A \cup {j}) <= Cardinality(B)
      BY <2>1, <2>2, FS_Subset
    <2> QED
      BY <2>2, <2>3, <2>4, <2>5
  <1>7. rank \in [1..n -> 1..n]
    <2> HIDE DEF Ahead
    <2>1. \A k \in 1..n : Cardinality(Ahead(k)) + 1 \in 1..n
      BY <1>1, <1>5
    <2> QED
      BY <2>1
  <1>8. \A j, k \in 1..n : j # k => Before(j, k) \/ Before(k, j)
    BY <1>1, <1>2
  <1> HIDE DEF rank
  <1>9. \A j, k \in 1..n : rank[j] = rank[k] => j = k
    <2> HIDE DEF Before
    <2> QED
      BY <1>1, <1>6, <1>7, <1>8
  <1>10. rank \in Bijection(1..n, 1..n)
    <2>1. rank \in Injection(1..n, 1..n)
      BY <1>7, <1>9, Fun_IsInj
    <2>2. rank \in Surjection(1..n, 1..n)
      BY <1>3, <2>1, FS_Injection
    <2> QED
      BY <2>1, <2>2, Fun_IsBij
  <1> DEFINE p == Inverse(rank, 1..n, 1..n)
  <1>11. p \in Bijection(1..n, 1..n) /\ p \in [1..n -> 1..n]
    <2>1. p \in Bijection(1..n, 1..n)
      BY <1>10, Fun_BijInverse
    <2> HIDE DEF p
    <2> QED
      BY <2>1, Fun_BijectionProperties, Zenon
  <1>12. \A i \in 1..n : rank[p[i]] = i
    <2>1. Range(rank) = 1..n
      BY <1>10, Fun_BijectionProperties, Fun_SurjectionProperties
    <2> QED
      BY <1>7, <2>1, Fun_InverseProperties
  <1> HIDE DEF p
  <1>13. NewestFirst(s, p)
    <2> SUFFICES ASSUME NEW i \in 1..n, NEW j \in 1..n, i < j
                 PROVE  date(p[i]) >= date(p[j])
      BY <1>1 DEF NewestFirst, date
    <2>1. p[i] \in 1..n /\ p[j] \in 1..n
      BY <1>11
    <2>2. ~ Before(p[j], p[i])
      <3> HIDE DEF Before
      <3> QED
        BY <1>1, <1>6, <1>12, <2>1
    <2> QED
      BY <1>2, <2>1, <2>2
  <1> QED
    BY <1>1, <1>11, <1>13 DEF fetchReflections, s

Fresh == history.reflections \in fetchReflections(context)

\* fromSubmit is up only after the submit of this process, the timer has
\* moved only then, and what the indicator announces is already fetched.
ListInv ==
    /\ history \in HistoryView
    /\ CardMatchesTimer
    /\ fromSubmit => running /\ home.submitted
    /\ ~fromSubmit => history.timeRemaining \in {-1, 0, 3}
    /\ StaleListIsPending
    /\ running /\ Loading(fromSubmit, history) => Fresh

\* A new view model has everything the context has.
LEMMA FreshHistoryOK ==
    ASSUME NEW list \in Seq(Reflection)
    PROVE  LET h == FreshHistory(list)
           IN  /\ h \in HistoryView
               /\ h.cardOpen <=> h.timeRemaining = -1
               /\ h.timeRemaining = 3
               /\ h.reflections = list
  BY DEF FreshHistory, HistoryView

\* The list appears with what it had, or with what a fetch found.
LEMMA ListAppearsOK ==
    ASSUME history \in HistoryView, CardMatchesTimer,
           NEW objs, objs.reflections \in Seq(Reflection), NEW fs \in BOOLEAN,
           NEW h \in ListAppears(objs, fs, history)
    PROVE  /\ h \in HistoryView
           /\ ~h.cardOpen
           /\ h.timeRemaining = IF history.cardOpen THEN 0 ELSE 3
           /\ \/ h.reflections \in fetchReflections(objs)
              \/ /\ h.reflections = history.reflections
                 /\ Loading(fs, h)
                      => Loading(fs, history) /\ history.timeRemaining < 3
  <1> DEFINE a == HistoryAppears(history)
             f(l) == [a EXCEPT !.reflections = l]
  <1>1. /\ a \in HistoryView
        /\ a.reflections = history.reflections
        /\ a.timeRemaining = IF history.cardOpen THEN 0 ELSE 3
        /\ ~a.cardOpen /\ a.isLoading
    <2> DEFINE t == IF history.timeRemaining # -1 THEN 3 ELSE 0
    <2>1. t \in -1..3 /\ t = IF history.cardOpen THEN 0 ELSE 3
      BY DEF HistoryView, CardMatchesTimer
    <2>2. a = [history EXCEPT !.timeRemaining = t, !.isLoading = TRUE,
                              !.cardOpen = FALSE]
      BY DEF HistoryAppears
    <2> HIDE DEF a, t
    <2> QED
      BY <2>1, <2>2 DEF HistoryView
  <1> HIDE DEF a
  <1>2. ASSUME NEW l \in fetchReflections(objs)
        PROVE  /\ f(l) \in HistoryView
               /\ f(l).reflections = l
               /\ f(l).timeRemaining = a.timeRemaining
               /\ ~f(l).cardOpen
    BY <1>1, FetchedType DEF HistoryView
  <1>3. CASE ~Loading(fs, a)
    <2>1. h = a
      BY <1>3 DEF ListAppears, a
    <2> QED
      BY <1>1, <1>3, <2>1
  <1>4. CASE Loading(fs, a)
    <2>1. \/ \E l \in fetchReflections(objs) : h = f(l)
          \/ h = a /\ Loading(fs, history) /\ history.timeRemaining < 3
      <3>1. PICK seen \in {a.timeRemaining} \cup
                     (IF Loading(fs, history) THEN {history.timeRemaining} ELSE {}) :
              h \in LoadingAppears(objs, seen, a)
        BY <1>4 DEF ListAppears, a
      <3>2. CASE seen >= 3
        BY <3>1, <3>2 DEF LoadingAppears
      <3>3. CASE ~(seen >= 3)
        <4>1. a.timeRemaining = 3
          BY <1>1, <1>4 DEF Loading
        <4>2. seen = history.timeRemaining /\ Loading(fs, history)
          BY <3>1, <3>3, <4>1
        <4>3. history.timeRemaining \in -1..3
          BY DEF HistoryView
        <4> QED
          BY <3>1, <3>3, <4>2, <4>3 DEF LoadingAppears
      <3> QED
        BY <3>2, <3>3
    <2> QED
      BY <1>1, <1>2, <2>1
  <1> QED
    BY <1>3, <1>4

\* The list shows the reflections only: a change of controllers is no change.
LEMMA FetchSame ==
    ASSUME NEW a, NEW b, a.reflections = b.reflections
    PROVE  fetchReflections(a) = fetchReflections(b)
  BY DEF fetchReflections

\* Steps of Today's Flic that stay on their tab change no reflection.
LEMMA StayKeepsReflections ==
    ASSUME TypeInv, StayOnTab \/ GoHome
    PROVE  /\ context'.reflections = context.reflections
           /\ running' = running /\ fromSubmit' = fromSubmit
           /\ history' = history
  <1>1. CASE EnterBackground \/ DayPasses \/ TapCard \/ FlipSettles \/ TapSkip
               \/ DismissAlert \/ CancelSkip
    BY <1>1 DEF EnterBackground, Save, DayPasses, TapCard, FlipSettles, TapSkip,
                DismissAlert, CancelSkip, StayOnTab, GoHome
  <1>2. ASSUME NEW p \in Images, TapReveal(p)
        PROVE  context'.reflections = context.reflections /\ running' = running
               /\ fromSubmit' = fromSubmit
    BY <1>2 DEF TapReveal, Save, TypeInv
  <1>3. ASSUME NEW p \in Photos, GeocodeReplies(p)
        PROVE  context'.reflections = context.reflections /\ running' = running
               /\ fromSubmit' = fromSubmit
    BY <1>3 DEF GeocodeReplies
  <1>4. CASE ConfirmSkip
    BY <1>4 DEF ConfirmSkip, Save, TypeInv, StayOnTab, GoHome
  <1>5. CASE GoHome
    BY <1>5 DEF GoHome, SelectTab
  <1>6. history' = history
    BY DEF StayOnTab, GoHome
  <1> QED
    BY <1>1, <1>2, <1>3, <1>4, <1>5, <1>6 DEF StayOnTab

LEMMA InitList == FlicsyInit => ListInv
  <1> SUFFICES ASSUME FlicsyInit PROVE ListInv
    OBVIOUS
  <1>1. history = FreshHistory(<<>>) /\ ~fromSubmit /\ ~running
    BY DEF FlicsyInit, HomeInit, PersistenceInit, NavigationInit, NoHistory
  <1>2. <<>> \in Seq(Reflection)
    OBVIOUS
  <1> QED
    BY <1>1, <1>2, FreshHistoryOK
       DEF ListInv, StaleListIsPending, Loading, CardMatchesTimer

\* Every step keeps a stale list announced by fromSubmit.
LEMMA NextList == Inv /\ ListInv /\ [FlicsyNext]_flicsyVars => ListInv'
  <1> SUFFICES ASSUME Inv, ListInv, [FlicsyNext]_flicsyVars PROVE ListInv'
    OBVIOUS
  <1>h. [HomeNext]_homeVars /\ TypeInv
    BY StepIsHomeStep DEF Inv
  <1>f. fromSubmit \in BOOLEAN /\ running \in BOOLEAN
    BY <1>h DEF TypeInv, NavigationTypeOK
  <1>r. /\ store.reflections \in Seq(Reflection)
        /\ context.reflections \in Seq(Reflection)
        /\ context'.reflections \in Seq(Reflection)
    BY <1>h, NextType DEF TypeInv
  <1>e. ASSUME ProcessEnds, history' = NoHistory PROVE ListInv'
    <2>1. ~running' /\ ~fromSubmit'
      BY <1>e DEF ProcessEnds
    <2>2. <<>> \in Seq(Reflection)
      OBVIOUS
    <2>3. /\ history' \in HistoryView /\ CardMatchesTimer'
          /\ history'.timeRemaining = 3
      BY <1>e, <2>2, FreshHistoryOK DEF NoHistory, CardMatchesTimer
    <2> QED
      BY <2>1, <2>3 DEF ListInv, StaleListIsPending
  <1>s. ASSUME HomeNext, fromSubmit, running' PROVE home'.submitted
    BY <1>s, SubmitFinalStep DEF ListInv
  <1>1. CASE LaunchApp
    <2>1. /\ running' /\ fromSubmit' = fromSubmit /\ ~running
          /\ context' = store
      BY <1>1 DEF LaunchApp, Launch
    <2>l. PICK l \in fetchReflections(store) : history' = FreshHistory(l)
      BY <1>1 DEF LaunchApp
    <2>2. ~fromSubmit'
      BY <2>1 DEF ListInv
    <2>3. /\ history' \in HistoryView /\ CardMatchesTimer'
          /\ history'.timeRemaining = 3
          /\ history'.reflections \in fetchReflections(context')
      BY <1>r, <2>1, <2>l, FetchedType, FreshHistoryOK DEF CardMatchesTimer
    <2> QED
      BY <2>2, <2>3 DEF ListInv, StaleListIsPending, Fresh
  <1>2. CASE EndApp \/ ShowingListCrashes \/ LoadedListCrashes
    BY <1>2, <1>e DEF EndApp, Kill, GeocodeFails, SubmitInterrupted,
                      ShowingListCrashes, LoadedListCrashes
  <1>3. CASE StayOnTab \/ GoHome
    <2>1. /\ fetchReflections(context') = fetchReflections(context)
          /\ running' = running /\ fromSubmit' = fromSubmit /\ history' = history
      BY <1>3, <1>h, StayKeepsReflections, FetchSame
    <2>2. HomeNext
      BY <1>3 DEF StayOnTab, GoHome, HomeNext
    <2>3. fromSubmit' => running' /\ home'.submitted
      BY <1>s, <2>1, <2>2 DEF ListInv
    <2> QED
      BY <2>1, <2>3 DEF ListInv, StaleListIsPending, Fresh, Loading,
                        CardMatchesTimer, HistoryView
  <1>4. CASE GoToHistory
    <2>1. /\ context' = context /\ running' = running /\ fromSubmit' = fromSubmit
          /\ home' = home /\ history' \in TabAppears(context, fromSubmit, history)
      BY <1>4 DEF GoToHistory, SelectTab, Home, History
    <2>2. CASE history.cardOpen
      <3>1. history' = [history EXCEPT !.timeRemaining = -1]
        BY <2>1, <2>2 DEF TabAppears
      <3>2. history' = history
        BY <2>2, <3>1 DEF ListInv, CardMatchesTimer, HistoryView
      <3> QED
        BY <2>1, <3>2 DEF ListInv, StaleListIsPending, Fresh, Loading,
                          CardMatchesTimer, HistoryView
    <2>3. CASE ~history.cardOpen
      <3>1. history' \in ListAppears(context, fromSubmit, history)
        BY <2>1, <2>3 DEF TabAppears
      <3>2. /\ history' \in HistoryView /\ ~history'.cardOpen
            /\ history'.timeRemaining = 3
            /\ \/ history'.reflections \in fetchReflections(context)
               \/ /\ history'.reflections = history.reflections
                  /\ Loading(fromSubmit, history') => Loading(fromSubmit, history)
        BY <1>f, <1>r, <2>3, <3>1, ListAppearsOK DEF ListInv
      <3> QED
        BY <2>1, <3>2 DEF ListInv, StaleListIsPending, Fresh, CardMatchesTimer
    <2> QED
      BY <2>2, <2>3
  <1>5. CASE SubmitAndShow
    <2>1. /\ running' = running /\ running /\ fromSubmit' /\ home'.submitted
          /\ ~home.submitted
          /\ history' \in TabAppears(context', TRUE, history)
      BY <1>5, <1>h DEF SubmitAndShow, Submit, CanSubmit, HomeOnScreen, TypeInv,
                        HomeView
    <2>2. ~fromSubmit /\ history.timeRemaining \in {-1, 0, 3}
      BY <2>1 DEF ListInv
    <2>3. CASE history.cardOpen
      <3>1. history' = [history EXCEPT !.timeRemaining = -1]
        BY <2>1, <2>3 DEF TabAppears
      <3>2. history' = history
        BY <2>3, <3>1 DEF ListInv, CardMatchesTimer, HistoryView
      <3>3. history.timeRemaining = -1
        BY <2>3 DEF ListInv, CardMatchesTimer
      <3> QED
        BY <2>1, <3>2, <3>3 DEF ListInv, StaleListIsPending, Loading,
                                CardMatchesTimer, HistoryView
    <2>4. CASE ~history.cardOpen
      <3>1. history' \in ListAppears(context', TRUE, history)
        BY <2>1, <2>4 DEF TabAppears
      <3>2. /\ history' \in HistoryView /\ ~history'.cardOpen
            /\ history'.timeRemaining = 3
            /\ \/ history'.reflections \in fetchReflections(context')
               \/ Loading(TRUE, history')
                    => Loading(TRUE, history) /\ history.timeRemaining < 3
        BY <1>r, <2>4, <3>1, ListAppearsOK DEF ListInv
      <3>3. Loading(TRUE, history') => history'.reflections \in fetchReflections(context')
        BY <2>2, <3>2 DEF Loading
      <3> QED
        BY <2>1, <3>2, <3>3 DEF ListInv, StaleListIsPending, Fresh,
                                CardMatchesTimer, Loading
    <2> QED
      BY <2>3, <2>4
  <1>6. CASE UseHistory
    <2>1. context' = context /\ running' = running /\ home' = home
      BY <1>6 DEF UseHistory, onlyHomeVars, TickDown, TickLast, OpenCard, CloseCard
    <2>2. CASE TickDown
      <3>1. /\ fromSubmit /\ fromSubmit' = fromSubmit
            /\ Loading(fromSubmit, history) /\ running
            /\ history.timeRemaining > 1
            /\ history' = [history EXCEPT !.timeRemaining = @ - 1]
        BY <2>2 DEF TickDown, Loading
      <3>2. /\ history' \in HistoryView /\ CardMatchesTimer'
            /\ history'.reflections = history.reflections
        BY <3>1 DEF ListInv, HistoryView, CardMatchesTimer
      <3> QED
        BY <2>1, <3>1, <3>2 DEF ListInv, StaleListIsPending, Fresh
    <2>3. CASE TickLast
      <3>1. /\ Loading(fromSubmit, history) /\ running /\ ~fromSubmit'
            /\ history' = [history EXCEPT !.isLoading = FALSE, !.timeRemaining = 3]
        BY <2>3 DEF TickLast, Loaded
      <3>2. ~history.cardOpen
        BY <3>1 DEF Loading, ListInv, CardMatchesTimer
      <3>3. /\ history' \in HistoryView /\ CardMatchesTimer'
            /\ history'.reflections = history.reflections
            /\ history'.timeRemaining = 3
        <4>1. /\ history'.reflections = history.reflections
              /\ history'.timeRemaining = 3 /\ ~history'.cardOpen
          BY <3>1, <3>2 DEF ListInv, HistoryView
        <4>2. history' \in HistoryView
          <5> DEFINE t == 3
          <5>1. t \in -1..3 /\ history' = [history EXCEPT !.isLoading = FALSE, !.timeRemaining = t]
            BY <3>1
          <5> HIDE DEF t
          <5> QED
            BY <5>1 DEF ListInv, HistoryView
        <4> QED
          BY <4>1, <4>2 DEF HistoryView, CardMatchesTimer
      <3> QED
        BY <2>1, <3>1, <3>3 DEF ListInv, StaleListIsPending, Fresh, Loading
    <2>4. CASE OpenCard
      <3>1. /\ fromSubmit' = fromSubmit
            /\ history' = [history EXCEPT !.cardOpen = TRUE, !.timeRemaining = -1]
        BY <2>4 DEF OpenCard
      <3>2. /\ history' \in HistoryView /\ CardMatchesTimer'
            /\ history'.reflections = history.reflections
            /\ history'.timeRemaining = -1
        <4>1. /\ history'.reflections = history.reflections
              /\ history'.timeRemaining = -1 /\ history'.cardOpen
          BY <3>1 DEF ListInv, HistoryView
        <4>2. history' \in HistoryView
          <5> DEFINE t == -1
          <5>1. t \in -1..3 /\ history' = [history EXCEPT !.cardOpen = TRUE, !.timeRemaining = t]
            BY <3>1
          <5> HIDE DEF t
          <5> QED
            BY <5>1 DEF ListInv, HistoryView
        <4> QED
          BY <4>1, <4>2 DEF HistoryView, CardMatchesTimer
      <3> QED
        BY <2>1, <3>1, <3>2 DEF ListInv, StaleListIsPending, Fresh, Loading
    <2>5. CASE CloseCard
      <3>1. /\ fromSubmit' = fromSubmit /\ history.cardOpen
            /\ history' \in ListAppears(context, fromSubmit, history)
        BY <2>5 DEF CloseCard
      <3>2. /\ history' \in HistoryView /\ ~history'.cardOpen
            /\ history'.timeRemaining = 0
            /\ \/ history'.reflections \in fetchReflections(context)
               \/ history'.reflections = history.reflections
        BY <1>f, <1>r, <3>1, ListAppearsOK DEF ListInv
      <3> QED
        BY <2>1, <3>1, <3>2 DEF ListInv, StaleListIsPending, Fresh, Loading,
                                CardMatchesTimer
    <2> QED
      BY <1>6, <2>2, <2>3, <2>4, <2>5 DEF UseHistory
  <1>7. CASE UNCHANGED flicsyVars
    BY <1>7 DEF flicsyVars, homeVars, ListInv, StaleListIsPending, Fresh, Loading,
                CardMatchesTimer, HistoryView
  <1> QED
    BY <1>1, <1>2, <1>3, <1>4, <1>5, <1>6, <1>7 DEF FlicsyNext

LEMMA ListInvHolds == FlicsySpec => []ListInv
  BY InitList, NextList, ImplementsHome, InvHolds, PTL
     DEF FlicsySpec, FlicsyImplementsHome

\* Both tabs keep their types: the list is one of reflections, and no path
\* through tabs, cards and loading takes timeRemaining out of -1..3.
THEOREM FlicsyTypeCorrect == FlicsySpec => []FlicsyTypeOK
  <1>1. ListInv => history \in HistoryView
    BY DEF ListInv
  <1> QED
    BY <1>1, ListInvHolds, ImplementsHome, TypeCorrect, PTL
       DEF FlicsyTypeOK, FlicsyImplementsHome

\* As long as the History list lacks a reflection, fromSubmit stays up and
\* the next appearance of the list fetches.
THEOREM StaleListPending == FlicsySpec => []StaleListIsPending
  <1>1. ListInv => StaleListIsPending
    BY DEF ListInv
  <1> QED
    BY <1>1, ListInvHolds, PTL

\* Unless a submit is still to be loaded, the list is the whole journal of
\* the process, the newest photo first.
THEOREM ListShows == FlicsySpec => []ListShowsJournal
  <1>1. TypeInv /\ StaleListIsPending => ListShowsJournal
    <2> SUFFICES ASSUME TypeInv, history.reflections \in fetchReflections(context)
                 PROVE  ListShowsJournal
      BY DEF StaleListIsPending, ListShowsJournal
    <2>1. context.reflections \in Seq(Reflection)
      BY DEF TypeInv
    <2> QED
      BY <2>1, FetchedType, FetchedRows DEF ListShowsJournal
  <1>2. Inv => TypeInv
    BY DEF Inv
  <1> QED
    BY <1>1, <1>2, StaleListPending, ImplementsHome, InvHolds, PTL
       DEF FlicsyImplementsHome

\* The mark in the timer and the open card never come apart.
THEOREM CardMatches == FlicsySpec => []CardMatchesTimer
  <1>1. ListInv => CardMatchesTimer
    BY DEF ListInv
  <1> QED
    BY <1>1, ListInvHolds, PTL

=============================================================================
