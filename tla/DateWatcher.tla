---------------------------- MODULE DateWatcher -----------------------------
(***************************************************************************)
(* What day it is (src/cpp/async/timeprovider.cpp, mocktimeprovider.cpp)   *)
(* and telling the app that it changed (datewatcher.cpp).  Time is a day   *)
(* and a half of it: the timer goes off a second after midnight, so at the *)
(* beginning of half 0 it has not yet.  It counts the time the machine is  *)
(* awake.  The mock clock has a date and a half of its own or none, and    *)
(* then tells the machine's.                                               *)
(***************************************************************************)
EXTENDS Integers

CONSTANT MaxDay   \* the days of a run

VARIABLE watch

NoTime == [day |-> 0, half |-> 0]
Days   == 1..MaxDay

Init ==
  watch = [now |-> [day |-> 1, half |-> 1], mocked |-> FALSE, mock |-> NoTime, date |-> 1,
           started |-> FALSE, slept |-> FALSE, silent |-> FALSE, left |-> 0, told |-> 1]

CurrentTime(w) == IF w.mocked /\ w.mock # NoTime THEN w.mock ELSE w.now
CurrentDate(w) == CurrentTime(w).day

\* DateWatcher::check: tells the date when it is another one than the one told last.
Checked(w) ==
  LET current == CurrentDate(w)
  IN  IF current = w.date THEN w ELSE [w EXCEPT !.date = current, !.told = current, !.silent = FALSE]

\* The awake halves until the next midnight.
UntilMidnight(w) == 2 - w.now.half

Later(time, halves) ==
  LET h == 2 * time.day + time.half + halves IN [day |-> h \div 2, half |-> h % 2]

\* start() takes the date as it is and tells nobody.
Start ==
  watch' = [watch EXCEPT !.date = CurrentDate(watch), !.started = TRUE, !.slept = FALSE,
                         !.silent = @ \/ CurrentDate(watch) # watch.date,
                         !.left = UntilMidnight(watch)]

Due == watch.started /\ watch.left = 0

\* Half a day passes, unless the timer is due; a machine that sleeps does not count it.
Pass(asleep) ==
  /\ ~Due /\ watch.now.day <= MaxDay
  /\ watch' = [watch EXCEPT !.now = Later(@, 1), !.slept = @ \/ asleep,
                         !.left = IF asleep \/ @ = 0 THEN @ ELSE @ - 1]

Timeout ==
  /\ Due
  /\ watch' = [Checked(watch) EXCEPT !.left = UntilMidnight(watch), !.slept = FALSE]

\* TimeProvider::setInstance checks at once; a new mock has no time of its own.
SetInstance(mocked) == watch' = Checked([watch EXCEPT !.mocked = mocked, !.mock = NoTime])

\* A mock that is set tells the watcher; the half of the day it had is kept.
Mocked(time) == watch.mocked /\ watch' = Checked([watch EXCEPT !.mock = time])
SetCurrentDate(day) == Mocked([day |-> day, half |-> watch.mock.half])

\* A mock without a time of its own starts from the machine's.
Advance(halves) ==
  LET time == Later(IF watch.mock = NoTime THEN watch.now ELSE watch.mock, halves)
  IN  time.day <= MaxDay /\ Mocked(time)

\* advanceDate: the days up to the date, or noon of it.
AdvanceDate(day) == Mocked([day |-> day, half |-> IF watch.mock = NoTime THEN 1 ELSE watch.mock.half])

Next ==
  \/ Start
  \/ \E asleep \in BOOLEAN : Pass(asleep)
  \/ Timeout
  \/ \E mocked \in BOOLEAN : SetInstance(mocked)
  \/ \E day \in Days : SetCurrentDate(day)
  \/ \E halves \in 1..3 : Advance(halves)
  \/ \E day \in Days : AdvanceDate(day)

-----------------------------------------------------------------------------

\* Listeners heard of the watcher's date, but for one that start() took without telling.
Heard == watch.told = watch.date \/ watch.silent

\* A second after midnight the watcher has the machine's new date, unless the machine slept since
\* the timer was set; a date the mock clock is set to it has at once.
KnowsTheDay ==
  /\ watch.mocked /\ watch.mock # NoTime => watch.date = watch.mock.day
  /\ watch.started /\ ~watch.slept /\ ~Due => watch.date = CurrentDate(watch)

TellsTheDay == Heard /\ KnowsTheDay
=============================================================================
