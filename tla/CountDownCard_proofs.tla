------------------------ MODULE CountDownCard_proofs ------------------------
(***************************************************************************)
(* Proofs about the countdown, for every length of minute, hour and day    *)
(* and every moment at which the clocks can change.                        *)
(***************************************************************************)
EXTENDS CountDownCard, TLAPS

LEMMA HourOK == Hour \in Nat \ {0}
  BY ClockAssumption DEF Hour

LEMMA DayOK == totalSecondsInDay \in Nat /\ ChangeAt \in Nat
  BY ClockAssumption, HourOK DEF totalSecondsInDay

LEMMA ChangeOK == Hour <= ChangeAt /\ ChangeAt <= totalSecondsInDay - Hour
  BY ClockAssumption, HourOK, DayOK

\* The components of a time of day make it up again.
LEMMA ComponentsOK ==
    ASSUME NEW w \in Nat
    PROVE  hour(w) * Hour + minute(w) * SecondsPerMinute + second(w) = w
  <1> DEFINE s == SecondsPerMinute
             m == MinutesPerHour
             q == w \div s
             a == q \div m
             b == q % m
  <1>1. s \in Nat \ {0} /\ m \in Nat \ {0}
    BY ClockAssumption
  <1>2. q \in Nat /\ w = q * s + (w % s) /\ w % s \in Nat
    BY <1>1
  <1> HIDE DEF q
  <1>3. a \in Nat /\ b \in Nat /\ q = a * m + b
    BY <1>1, <1>2
  <1> HIDE DEF a, b
  <1>4. a * (m * s) + b * s = (a * m + b) * s
    BY <1>1, <1>3
  <1>5. hour(w) = a /\ minute(w) = b /\ second(w) = w % s /\ Hour = m * s
    BY DEF hour, minute, second, Hour, a, b, q
  <1> QED
    BY <1>2, <1>3, <1>4, <1>5

\* Multiples of z are z apart.
LEMMA Multiples ==
    \A x, y \in Nat : x < y => \A z \in Nat : y * z >= x * z + z
  OBVIOUS

\* A quotient is determined by its remainder's range.
LEMMA QuotientIs ==
    ASSUME NEW n \in Nat, NEW k \in Nat \ {0}, NEW a \in Nat, NEW c \in Nat,
           n = a * k + c, c < k
    PROVE  n \div k = a
  <1> DEFINE q == n \div k
             d == n % k
  <1>1. q \in Nat /\ d \in Nat /\ d < k /\ n = q * k + d
    OBVIOUS
  <1> HIDE DEF q, d
  <1>2. ~(q < a)
    <2> SUFFICES ASSUME q < a PROVE FALSE
      OBVIOUS
    <2>1. a * k >= q * k + k
      BY <1>1, Multiples
    <2>2. a * k \in Nat /\ q * k \in Nat
      BY <1>1
    <2> QED BY <1>1, <2>1, <2>2
  <1>3. ~(a < q)
    <2> SUFFICES ASSUME a < q PROVE FALSE
      OBVIOUS
    <2>1. q * k >= a * k + k
      BY <1>1, Multiples
    <2>2. a * k \in Nat /\ q * k \in Nat
      BY <1>1
    <2> QED BY <1>1, <2>1, <2>2
  <1>4. q = a
    BY <1>1, <1>2, <1>3
  <1> QED BY <1>4 DEF q

\* Dividing by the seconds of an hour is dividing by its seconds, then minutes.
LEMMA HoursOf == ASSUME NEW t \in Nat PROVE t \div Hour = hour(t)
  <1> DEFINE s == SecondsPerMinute
             m == MinutesPerHour
             q == t \div s
             a == q \div m
             b == q % m
             r == t % s
  <1>1. s \in Nat \ {0} /\ m \in Nat \ {0}
    BY ClockAssumption
  <1>2. q \in Nat /\ t = q * s + r /\ r \in Nat /\ r < s
    BY <1>1
  <1> HIDE DEF q, r
  <1>3. a \in Nat /\ b \in Nat /\ b < m /\ q = a * m + b
    BY <1>1, <1>2
  <1> HIDE DEF a, b
  <1>4. q * s = a * (m * s) + b * s
    BY <1>1, <1>3
  <1>5. b * s + r < m * s
    <2>1. m * s >= b * s + s
      BY <1>1, <1>3, Multiples
    <2>2. m * s \in Nat /\ b * s \in Nat
      BY <1>1, <1>3
    <2> QED BY <1>1, <1>2, <2>1, <2>2
  <1>6. Hour = m * s /\ a * Hour \in Nat /\ b * s \in Nat
    BY <1>1, <1>3, HourOK DEF Hour
  <1>7. t = a * Hour + (b * s + r) /\ b * s + r \in Nat /\ b * s + r < Hour
    BY <1>2, <1>4, <1>5, <1>6
  <1> DEFINE c == b * s + r
  <1>8. c \in Nat /\ t = a * Hour + c /\ c < Hour
    BY <1>7
  <1> HIDE DEF c, s, m
  <1>9. t \div Hour = a
    BY <1>3, <1>8, HourOK, QuotientIs
  <1> QED BY <1>9 DEF a, q, m, s, hour

----------------------------------------------------------------------------
(* The inductive invariant                                                 *)

\* Ticks that this second may still bring.
Credit == (IF timer.pending THEN 1 ELSE 0) + (IF timer.due THEN 0 ELSE 1)

Early == IF shift > 0 THEN shift ELSE 0

\* The day that was read is today as long as something is left of it, and
\* each tick that is still to come has its second in hand.
ClockInv ==
    /\ ClockTypeOK
    /\ elapsed < Length
    /\ left > 0 => left = Length - elapsed
    /\ left + Credit <= countDownTime + TimerSlack + Early

\* What a reading gives.
LEMMA ReadOK ==
    ASSUME ClockTypeOK, elapsed < Length
    PROVE  /\ timeInSeconds \in 0..totalSecondsInDay
           /\ timeInSeconds = IF elapsed < ChangeAt THEN Length - elapsed - shift
                              ELSE Length - elapsed
  <1>1. /\ elapsed \in Nat /\ shift \in {-Hour, 0, Hour}
        /\ elapsed < totalSecondsInDay + shift
    BY DEF ClockTypeOK, Length
  <1>2. Wall(elapsed) \in 0..totalSecondsInDay
    BY <1>1, HourOK, DayOK, ChangeOK DEF Wall
  <1>3. timeInSeconds = totalSecondsInDay - Wall(elapsed)
    BY <1>2, ComponentsOK, DayOK DEF timeInSeconds
  <1> QED
    BY <1>1, <1>2, <1>3, HourOK, DayOK DEF Wall, Length

LEMMA InitClock == ClockInit => ClockInv
  <1> SUFFICES ASSUME ClockInit PROVE ClockInv
    OBVIOUS
  <1>0. 0 \in 0..totalSecondsInDay /\ Idle \in [due: BOOLEAN, pending: BOOLEAN]
    BY DayOK DEF Idle
  <1>1. ClockTypeOK
    BY <1>0 DEF ClockInit, ClockTypeOK
  <1>2. elapsed < Length
    BY HourOK, DayOK, ChangeOK DEF ClockInit, Length
  <1>3. Credit = 1
    BY DEF ClockInit, Idle, Credit
  <1> QED
    BY <1>1, <1>2, <1>3, HourOK DEF ClockInit, ClockInv, TimerSlack, Early

LEMMA NextClock == ClockInv /\ [ClockNext]_clockVars => ClockInv'
  <1> SUFFICES ASSUME ClockInv, [ClockNext]_clockVars PROVE ClockInv'
    OBVIOUS
  <1>t. /\ elapsed \in Nat /\ shift \in {-Hour, 0, Hour}
        /\ tab \in {"none", "home", "history"}
        /\ active \in BOOLEAN /\ card \in BOOLEAN
        /\ timer \in [due: BOOLEAN, pending: BOOLEAN]
        /\ countDownTime \in 0..totalSecondsInDay /\ left \in Nat
        /\ elapsed < Length /\ Length \in Int
    BY HourOK, DayOK DEF ClockInv, ClockTypeOK, Length
  <1>c. Credit \in 0..2 /\ Early \in Nat
    BY <1>t, HourOK DEF Credit, Early
  <1>r. ASSUME ReadClock, tab' \in {"none", "home", "history"}, active' \in BOOLEAN,
               UNCHANGED <<elapsed, shift, card, timer>>
        PROVE  ClockInv'
    <2>1. countDownTime' \in 0..totalSecondsInDay /\ left' = Length - elapsed
      BY <1>r, ReadOK DEF ReadClock, ClockInv
    <2>2. ClockTypeOK'
      BY <1>r, <1>t, <2>1 DEF ClockTypeOK
    <2>3. left' <= countDownTime' + Early
      BY <1>r, <1>t, <2>1, ReadOK, HourOK, DayOK DEF ReadClock, ClockInv, Early
    <2>4. Credit' = Credit /\ Early' = Early /\ Length' = Length
      BY <1>r DEF Credit, Early, Length
    <2>5. left' + Credit <= countDownTime' + TimerSlack + Early
      <3>1. left' \in Int /\ countDownTime' \in Int
        BY <1>t, <2>1, DayOK
      <3>2. Credit \in Int /\ Credit <= 2 /\ Early \in Int
        BY <1>c
      <3>3. \A l, c, k, e \in Int :
              l <= c + e /\ k <= 2 => l + k <= c + 2 + e
        OBVIOUS
      <3> QED
        BY <2>3, <3>1, <3>2, <3>3 DEF TimerSlack
    <2>6. elapsed' = elapsed
      BY <1>r
    <2> QED
      BY <1>t, <2>1, <2>2, <2>4, <2>5, <2>6 DEF ClockInv, TimerSlack
  <1>k. ASSUME UNCHANGED <<elapsed, shift, timer, countDownTime, left>>,
               tab' \in {"none", "home", "history"}, active' \in BOOLEAN,
               card' \in BOOLEAN
        PROVE  ClockInv'
    BY <1>k DEF ClockInv, ClockTypeOK, Credit, Early, Length
  <1>1. CASE SecondPasses
    <2>1. /\ timer' = [timer EXCEPT !.due = FALSE]
          /\ timer' \in [due: BOOLEAN, pending: BOOLEAN]
          /\ left' = IF left > 0 THEN left - 1 ELSE 0
          /\ tab' = tab /\ active' = active /\ card' = card
          /\ countDownTime' = countDownTime
      BY <1>1, <1>t DEF SecondPasses
    <2>2. Credit' \in 0..2 /\ Credit' <= Credit + 1
      BY <1>t, <2>1 DEF Credit
    <2>3. CASE elapsed + 1 < Length
      <3>1. elapsed' = elapsed + 1 /\ shift' = shift
        BY <1>1, <2>3 DEF SecondPasses
      <3>2. ClockTypeOK' /\ Early' = Early /\ Length' = Length
        BY <1>t, <2>1, <3>1 DEF ClockTypeOK, Early, Length
      <3> QED
        BY <1>t, <1>c, <2>1, <2>2, <2>3, <3>1, <3>2, DayOK DEF ClockInv, TimerSlack
    <2>4. CASE ~(elapsed + 1 < Length)
      <3>1. elapsed' = 0 /\ shift' \in {-Hour, 0, Hour}
        BY <1>1, <2>4 DEF SecondPasses
      <3>2. left' = 0
        BY <1>t, <2>1, <2>4 DEF ClockInv
      <3>3. ClockTypeOK'
        BY <1>t, <2>1, <3>1, <3>2 DEF ClockTypeOK
      <3>4. elapsed' < Length'
        <4>1. Length' = totalSecondsInDay + shift'
          BY DEF Length
        <4>2. 0 < totalSecondsInDay + shift'
          <5>1. /\ 0 < totalSecondsInDay - Hour
                /\ 0 < totalSecondsInDay + 0 /\ 0 < totalSecondsInDay + Hour
            BY HourOK, DayOK, ChangeOK
          <5>2. shift' = -Hour => totalSecondsInDay + shift' = totalSecondsInDay - Hour
            BY HourOK, DayOK
          <5> QED
            BY <3>1, <5>1, <5>2
        <4> QED
          BY <3>1, <4>1, <4>2
      <3>5. Early' \in Nat
        BY <3>1, HourOK DEF Early
      <3> QED
        BY <1>t, <2>1, <2>2, <3>2, <3>3, <3>4, <3>5, DayOK DEF ClockInv, TimerSlack
    <2> QED
      BY <2>3, <2>4
  <1>2. CASE Launch \/ SelectHome
    BY <1>2, <1>r, <1>t DEF Launch, SelectHome
  <1>3. CASE End
    <2>0. 0 \in 0..totalSecondsInDay /\ Idle \in [due: BOOLEAN, pending: BOOLEAN]
      BY DayOK DEF Idle
    <2>1. ClockTypeOK'
      BY <1>3, <1>t, <2>0 DEF End, ClockTypeOK
    <2>2. Credit' = 1 /\ Early' = Early /\ Length' = Length
      BY <1>3 DEF End, Idle, Credit, Early, Length
    <2> QED
      BY <1>3, <1>t, <1>c, <2>1, <2>2 DEF End, ClockInv, TimerSlack
  <1>4. CASE Suspend \/ Resume \/ SelectHistory \/ Submit \/ RevealToday
    BY <1>4, <1>t, <1>k DEF Suspend, Resume, SelectHistory, Submit, RevealToday
  <1>5. CASE TimerFallsDue
    <2>1. /\ timer' = [due |-> TRUE, pending |-> TRUE] /\ ~timer.due
          /\ UNCHANGED <<elapsed, shift, tab, active, card, countDownTime, left>>
      BY <1>5 DEF TimerFallsDue
    <2>2. Credit' = 1 /\ Credit >= 1 /\ Early' = Early /\ Length' = Length
      BY <1>t, <2>1 DEF Credit, Early, Length
    <2>3. ClockTypeOK'
      BY <1>t, <2>1 DEF ClockTypeOK
    <2> QED
      BY <1>t, <1>c, <2>1, <2>2, <2>3, DayOK DEF ClockInv, TimerSlack
  <1>6. CASE Tick
    <2>1. /\ timer.pending /\ timer' = [timer EXCEPT !.pending = FALSE]
          /\ countDownTime' = IF countDownTime > 0 THEN countDownTime - 1
                              ELSE countDownTime
          /\ UNCHANGED <<elapsed, shift, tab, active, card, left>>
      BY <1>6 DEF Tick, Counted
    <2>2. Credit' = Credit - 1 /\ Early' = Early /\ Length' = Length
      BY <1>t, <2>1 DEF Credit, Early, Length
    <2>3. ClockTypeOK'
      <3>1. countDownTime' \in 0..totalSecondsInDay
        BY <1>t, <2>1, DayOK
      <3>2. timer' \in [due: BOOLEAN, pending: BOOLEAN]
        BY <1>t, <2>1
      <3> QED
        BY <1>t, <2>1, <3>1, <3>2 DEF ClockTypeOK
    <2> QED
      BY <1>t, <1>c, <2>1, <2>2, <2>3, DayOK DEF ClockInv, TimerSlack
  <1>7. CASE UNCHANGED clockVars
    BY <1>7, <1>t, <1>k DEF clockVars
  <1> QED
    BY <1>1, <1>2, <1>3, <1>4, <1>5, <1>6, <1>7 DEF ClockNext

LEMMA ClockInvHolds == ClockSpec => []ClockInv
  BY InitClock, NextClock, PTL DEF ClockSpec

----------------------------------------------------------------------------
\* The countdown stays between zero and a whole day.
THEOREM ClockTypes == ClockSpec => []ClockTypeOK
  <1>1. ClockInv => ClockTypeOK
    BY DEF ClockInv
  <1> QED
    BY <1>1, ClockInvHolds, PTL

\* The countdown does not end before the midnight it was read for, by more
\* than two late ticks and the hour of a longer day.
THEOREM NeverAhead == ClockSpec => []NeverEarly
  <1>1. ClockInv => NeverEarly
    <2> SUFFICES ASSUME ClockInv PROVE NeverEarly
      OBVIOUS
    <2>1. /\ Credit \in 0..2 /\ Early \in Nat
          /\ countDownTime \in Int /\ left \in Nat
      BY HourOK, DayOK DEF ClockInv, ClockTypeOK, Credit, Early
    <2> QED
      BY <2>1 DEF ClockInv, NeverEarly, Early, TimerSlack
  <1> QED
    BY <1>1, ClockInvHolds, PTL

\* onAppear reads the time that is left, but for clocks still to change.
THEOREM ReadsExactly == ClockSpec => ReadingIsExact
  <1> DEFINE Read == tab # "home" /\ tab' = "home"
                       => \/ countDownTime' = left'
                          \/ elapsed < ChangeAt /\ countDownTime' = left' - shift
  <1>1. ClockInv /\ [ClockNext]_clockVars => [Read]_clockVars
    <2> SUFFICES ASSUME ClockInv, ClockNext, tab # "home", tab' = "home"
                 PROVE  \/ countDownTime' = left'
                        \/ elapsed < ChangeAt /\ countDownTime' = left' - shift
      OBVIOUS
    <2>1. Launch \/ SelectHome
      BY DEF ClockNext, SecondPasses, End, Suspend, Resume, SelectHistory, Submit,
             RevealToday, TimerFallsDue, Tick
    <2>2. countDownTime' = timeInSeconds /\ left' = Length - elapsed
      BY <2>1 DEF Launch, SelectHome, ReadClock
    <2> QED
      BY <2>2, ReadOK DEF ClockInv
  <1> QED
    BY <1>1, ClockInvHolds, PTL DEF ClockSpec, ReadingIsExact

\* The text of the countdown says its time, for units of any length.
THEOREM TextExact == ClockSpec => []TextIsTime
  <1>1. ClockInv => TextIsTime
    <2> SUFFICES ASSUME ClockInv PROVE TextIsTime
      OBVIOUS
    <2> DEFINE t == countDownTime
    <2>1. t \in Nat
      BY DayOK DEF ClockInv, ClockTypeOK
    <2> HIDE DEF t
    <2>2. timeString(t) = [hours |-> hour(t), minutes |-> minute(t),
                           seconds |-> second(t)]
      BY <2>1, HoursOf DEF timeString, minute, second
    <2>3. minute(t) < MinutesPerHour /\ second(t) < SecondsPerMinute
      BY <2>1, ClockAssumption DEF minute, second
    <2>4. t = hour(t) * Hour + minute(t) * SecondsPerMinute + second(t)
      BY <2>1, ComponentsOK
    <2>5. LET u == timeString(t)
          IN  /\ u.minutes < MinutesPerHour /\ u.seconds < SecondsPerMinute
              /\ t = u.hours * Hour + u.minutes * SecondsPerMinute + u.seconds
      BY <2>2, <2>3, <2>4
    <2> QED BY <2>5 DEF t, TextIsTime
  <1> QED
    BY <1>1, ClockInvHolds, PTL

----------------------------------------------------------------------------
(* The interface with Today's Flic                                         *)

\* Suspensions, the clock and its timer leave the screen alone, and every
\* other step is one of the interface that Today's Flic keeps.
THEOREM ClockKeepsScreen == ClockSpec => ClockOnScreen
  <1>1. ClockInit => Screen!ScreenInit
    BY DEF ClockInit, Screen!ScreenInit
  <1>2. [ClockNext]_clockVars => [Screen!ScreenNext]_(Screen!screenVars)
    <2> SUFFICES ASSUME [ClockNext]_clockVars
                 PROVE  Screen!ScreenNext \/ UNCHANGED <<tab, card>>
      BY DEF Screen!screenVars
    <2>1. CASE Launch
      BY <2>1 DEF Launch, Screen!Open, Screen!ScreenNext
    <2>2. CASE End
      BY <2>2 DEF End, Screen!Close, Screen!ScreenNext
    <2>3. CASE SelectHistory \/ SelectHome
      BY <2>3 DEF SelectHistory, SelectHome, Screen!Turn, Screen!ScreenNext
    <2>4. CASE Submit \/ RevealToday
      BY <2>4 DEF Submit, RevealToday, Screen!Raise, Screen!ScreenNext
    <2>5. CASE SecondPasses \/ Suspend \/ Resume \/ TimerFallsDue \/ Tick
      BY <2>5 DEF SecondPasses, Suspend, Resume, TimerFallsDue, Tick
    <2>6. CASE UNCHANGED clockVars
      BY <2>6 DEF clockVars
    <2> QED
      BY <2>1, <2>2, <2>3, <2>4, <2>5, <2>6 DEF ClockNext
  <1> QED
    BY <1>1, <1>2, PTL DEF ClockSpec, ClockOnScreen, Screen!ScreenSpec
=============================================================================
