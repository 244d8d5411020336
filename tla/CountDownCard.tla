--------------------------- MODULE CountDownCard ---------------------------
(***************************************************************************)
(* "Next reveal in...": countDownTime, which onAppear of Today's Flic      *)
(* reads from the wall clock and the timer of CountDownCard counts down.   *)
(* Neither the end of a suspension nor the card's own appearance reads it  *)
(* again, and the wall clock may jump under it: on the days on which the   *)
(* clocks change, a day is an hour longer or shorter.                      *)
(***************************************************************************)
EXTENDS Integers

CONSTANTS
    SecondsPerMinute,   \* 60
    MinutesPerHour,     \* 60
    HoursPerDay,        \* 24
    ChangeAt            \* when in the day the clocks change, if they do

Hour == MinutesPerHour * SecondsPerMinute

totalSecondsInDay == HoursPerDay * Hour

ASSUME ClockAssumption ==
    /\ SecondsPerMinute \in Nat \ {0}
    /\ MinutesPerHour \in Nat \ {0}
    /\ HoursPerDay \in Nat \ {0}
    /\ ChangeAt \in Hour..(totalSecondsInDay - Hour)

VARIABLES
    elapsed,        \* seconds of today that have passed
    shift,          \* by how much today is longer than totalSecondsInDay
    tab,            \* the tab on screen, "none" without a process
    active,         \* does the app run, or is it suspended?
    card,           \* is CountDownCard part of the body?
    timer,          \* its timer: did it fall due in this second, is the
                    \* event still to be delivered
    countDownTime,
    left            \* history variable: seconds left of the day on which
                    \* countDownTime was read

clockVars == <<elapsed, shift, tab, active, card, timer, countDownTime, left>>

Idle == [due |-> FALSE, pending |-> FALSE]

Length == totalSecondsInDay + shift

----------------------------------------------------------------------------
(* The clock on the wall                                                   *)

\* Seconds since midnight as the wall clock shows them.
Wall(e) == IF e < ChangeAt THEN e ELSE e - shift

\* Calendar.component
second(w) == w % SecondsPerMinute
minute(w) == (w \div SecondsPerMinute) % MinutesPerHour
hour(w) == (w \div SecondsPerMinute) \div MinutesPerHour

\* Mutant: the minutes are not converted.
timeInSecondsWrong ==
    LET w == Wall(elapsed)
    IN  totalSecondsInDay - (hour(w) * Hour + minute(w) + second(w))

timeInSeconds ==
    LET w == Wall(elapsed)
    IN  totalSecondsInDay
            - (hour(w) * Hour + minute(w) * SecondsPerMinute + second(w))

\* onAppear of Today's Flic.
ReadClock ==
    /\ countDownTime' = timeInSeconds
    /\ left' = Length - elapsed

\* A second passes, the last one of a day into any kind of day.
SecondPasses ==
    /\ IF elapsed + 1 < Length
       THEN elapsed' = elapsed + 1 /\ shift' = shift
       ELSE elapsed' = 0 /\ shift' \in {-Hour, 0, Hour}
    /\ left' = IF left > 0 THEN left - 1 ELSE 0
    /\ timer' = [timer EXCEPT !.due = FALSE]
    /\ UNCHANGED <<tab, active, card, countDownTime>>

----------------------------------------------------------------------------
(* The app                                                                 *)

\* A process starts with nothing revealed.
Launch ==
    /\ tab = "none"
    /\ tab' = "home"
    /\ active' = TRUE
    /\ ReadClock
    /\ UNCHANGED <<elapsed, shift, card, timer>>

End ==
    /\ tab # "none"
    /\ tab' = "none"
    /\ active' = FALSE
    /\ card' = FALSE
    /\ timer' = Idle
    /\ countDownTime' = 0
    /\ left' = 0
    /\ UNCHANGED <<elapsed, shift>>

\* No view appears or disappears with a suspension.
Suspend ==
    /\ active
    /\ active' = FALSE
    /\ UNCHANGED <<elapsed, shift, tab, card, timer, countDownTime, left>>

Resume ==
    /\ tab # "none"
    /\ ~active
    /\ active' = TRUE
    /\ UNCHANGED <<elapsed, shift, tab, card, timer, countDownTime, left>>

SelectHistory ==
    /\ active
    /\ tab = "home"
    /\ tab' = "history"
    /\ UNCHANGED <<elapsed, shift, active, card, timer, countDownTime, left>>

SelectHome ==
    /\ active
    /\ tab = "history"
    /\ tab' = "home"
    /\ ReadClock
    /\ UNCHANGED <<elapsed, shift, active, card, timer>>

\* submit() brings the card into the body and leaves for History.
Submit ==
    /\ active
    /\ tab = "home"
    /\ ~card
    /\ card' = TRUE
    /\ tab' = "history"
    /\ UNCHANGED <<elapsed, shift, active, timer, countDownTime, left>>

\* A photo of today: the card is there at once, with what onAppear of the tab
\* had read.
RevealToday ==
    /\ active
    /\ tab = "home"
    /\ ~card
    /\ card' = TRUE
    /\ UNCHANGED <<elapsed, shift, tab, active, timer, countDownTime, left>>

----------------------------------------------------------------------------
(* The timer                                                               *)

\* Mutant: each redraw starts a timer beside the old one.
TimerFallsDueTwice ==
    /\ card
    /\ active
    /\ timer' = [due |-> TRUE, pending |-> TRUE]
    /\ UNCHANGED <<elapsed, shift, tab, active, card, countDownTime, left>>

\* Once a second; an event that is late is not delivered twice.
TimerFallsDue ==
    /\ card
    /\ active
    /\ ~timer.due
    /\ timer' = [due |-> TRUE, pending |-> TRUE]
    /\ UNCHANGED <<elapsed, shift, tab, active, card, countDownTime, left>>

\* Mutant: the last second is not counted.
CountedToOne(t) == IF t > 1 THEN t - 1 ELSE t

\* Mutant: off by one at the end.
CountedBelow(t) == IF t >= 0 THEN t - 1 ELSE t

\* At zero, timer.upstream.connect().cancel() stops the timer.  A tick would
\* change nothing there, so the model lets it go on; the next reading of the
\* clock changes countDownTime, and the card is redrawn with a new timer.
Counted(t) == IF t > 0 THEN t - 1 ELSE t

Tick ==
    /\ card
    /\ active
    /\ timer.pending
    /\ timer' = [timer EXCEPT !.pending = FALSE]
    /\ countDownTime' = Counted(countDownTime)
    /\ UNCHANGED <<elapsed, shift, tab, active, card, left>>

\* Mutant: the minutes run on.
timeStringLong(t) ==
    [hours |-> t \div Hour,
     minutes |-> t \div SecondsPerMinute,
     seconds |-> t % SecondsPerMinute]

\* The three numbers of the text.
timeString(t) ==
    [hours |-> t \div Hour,
     minutes |-> (t \div SecondsPerMinute) % MinutesPerHour,
     seconds |-> t % SecondsPerMinute]

----------------------------------------------------------------------------
ClockInit ==
    /\ elapsed = 0
    /\ shift \in {-Hour, 0, Hour}
    /\ tab = "none"
    /\ active = FALSE
    /\ card = FALSE
    /\ timer = Idle
    /\ countDownTime = 0
    /\ left = 0

ClockNext ==
    \/ SecondPasses
    \/ Launch \/ End \/ Suspend \/ Resume
    \/ SelectHistory \/ SelectHome \/ Submit \/ RevealToday
    \/ TimerFallsDue \/ Tick

ClockSpec == ClockInit /\ [][ClockNext]_clockVars

OnScreen == card /\ active /\ tab = "home"

\* Time passes, and the run loop of an active app delivers the timer of the
\* screen.
FairClockSpec ==
    /\ ClockSpec
    /\ WF_clockVars(SecondPasses)
    /\ WF_clockVars(OnScreen /\ TimerFallsDue)
    /\ WF_clockVars(OnScreen /\ Tick)

----------------------------------------------------------------------------
(* Correctness                                                             *)

\* Type correctness; the countdown stays in the range that its text can show,
\* and stops at zero.
ClockTypeOK ==
    /\ elapsed \in Nat
    /\ shift \in {-Hour, 0, Hour}
    /\ tab \in {"none", "home", "history"}
    /\ active \in BOOLEAN
    /\ card \in BOOLEAN
    /\ timer \in [due: BOOLEAN, pending: BOOLEAN]
    /\ countDownTime \in 0..totalSecondsInDay
    /\ left \in Nat

\* Two ticks can come right after a reading: a late one, and this second's.
TimerSlack == 2

\* The countdown may stand still or be stale, but it never runs ahead: it
\* does not announce the next reveal before the midnight it was read for,
\* apart from the hour by which a day is longer when the clocks go back.
NeverEarly ==
    left <= countDownTime + TimerSlack + (IF shift > 0 THEN shift ELSE 0)

\* What onAppear reads is the time that really is left, unless the clocks
\* are still to change on this day.
ReadingIsExact ==
    [][tab # "home" /\ tab' = "home"
         => \/ countDownTime' = left'
            \/ elapsed < ChangeAt /\ countDownTime' = left' - shift]_clockVars

\* The text of timeString says countDownTime, with minutes and seconds
\* below 60.
TextIsTime ==
    LET s == timeString(countDownTime)
    IN  /\ s.minutes < MinutesPerHour /\ s.seconds < SecondsPerMinute
        /\ countDownTime = s.hours * Hour + s.minutes * SecondsPerMinute + s.seconds

\* The tab and the card change only as the interface with Today's Flic says.
Screen == INSTANCE CountDownScreen
ClockOnScreen == Screen!ScreenSpec

\* A countdown that is looked at comes to its end.
CountdownFinishes == OnScreen ~> (countDownTime = 0 \/ ~OnScreen)
=============================================================================
