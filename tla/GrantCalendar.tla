---------------------------- MODULE GrantCalendar ----------------------------
(***************************************************************************)
(* GrantCalendar.sol: the Gregorian anniversaries of a grant's start.  The *)
(* search for the start's year is stepped through; what follows it is      *)
(* arithmetic, compared with a calendar of months and days.                *)
(*                                                                         *)
(* A day has DAY seconds here: the code only divides by the length of a    *)
(* day and multiplies it back.                                             *)
(***************************************************************************)
EXTENDS Integers, FiniteSetsExt

CONSTANTS DAY,     \* seconds in a day, not zero
          Starts   \* timestamps to search for: natural numbers

VARIABLES start, low, high

vars == <<start, low, high>>

_leap(year) == year % 4 = 0 /\ (year % 100 # 0 \/ year % 400 = 0)

\* Days from 1 January 1970 to 1 January of the year.
_yearDay(year) ==
  LET prior == year - 1
  IN  (year - 1970) * 365 + prior \div 4 - prior \div 100 + prior \div 400 - 477

\* The last start accepted: anniversary() reverts above it.
LastStart == _yearDay(9996) * DAY - 1

day == start \div DAY

Init == start \in Starts /\ start <= LastStart /\ low = 1970 /\ high = 9996

OnOrAfter(middle) == _yearDay(middle) <= day

Iterate ==
  /\ low + 1 < high
  /\ LET middle == (low + high) \div 2
     IN  IF OnOrAfter(middle) THEN low' = middle /\ high' = high
                              ELSE low' = low /\ high' = middle
  /\ UNCHANGED start

Next == Iterate

Spec == Init /\ [][Next]_vars

Found == low + 1 >= high

\* Slip: March and later are not moved between leap and other years.
OffsetUnadjusted(offset, target, march1) == offset

\* The day of the year, moved between leap and other years.
AdjustedOffset(offset, target, march1) ==
  IF _leap(low) /\ ~ _leap(target)
    THEN IF offset > 59 \/ (offset = 59 /\ ~ march1) THEN offset - 1 ELSE offset
  ELSE IF ~ _leap(low) /\ _leap(target) /\ offset >= 59 THEN offset + 1
  ELSE offset

\* anniversary(), once the year is found.
anniversary(yearsLater, march1) ==
  LET target == low + yearsLater
      offset == AdjustedOffset(day - _yearDay(low), target, march1)
  IN  (_yearDay(target) + offset) * DAY + (start % DAY)

\* validate() of a schedule that starts at start.
validate(cliff, end) ==
  \E march1 \in BOOLEAN : cliff = anniversary(1, march1) /\ end = anniversary(4, march1)

----------------------------------------------------------------------------
(* The calendar by months, for reference.                                  *)

MonthLength(y, m) == CASE m \in {4, 6, 9, 11} -> 30
                       [] m = 2 -> IF y % 4 = 0 /\ (y % 100 = 0 => y % 400 = 0) THEN 29 ELSE 28
                       [] OTHER -> 31

YearLength(y) == IF MonthLength(y, 2) = 29 THEN 366 ELSE 365

\* Days of year y before its month m.
BeforeMonth(y, m) == MapThenSumSet(LAMBDA k : MonthLength(y, k), 1 .. m - 1)

\* <<month, day of the month>> of the k-th day of year y, counted from zero.
MonthAndDay(y, k) ==
  LET m == CHOOSE i \in 1 .. 12 : BeforeMonth(y, i) <= k /\ k < BeforeMonth(y, i + 1)
  IN  <<m, k - BeforeMonth(y, m) + 1>>

\* The same month and day n years on; 29 February falls on the day the
\* convention names when the target year has none.
SameDate(n, march1) ==
  LET date == MonthAndDay(low, day - _yearDay(low))
      y    == low + n
      leapDay == date = <<2, 29>> /\ MonthLength(y, 2) = 28
      m    == IF leapDay /\ march1 THEN 3 ELSE date[1]
      d    == IF leapDay THEN (IF march1 THEN 1 ELSE 28) ELSE date[2]
  IN  <<m, d>>

\* The date an instant of year y falls on.
DateIn(y, instant) == MonthAndDay(y, instant \div DAY - _yearDay(y))

----------------------------------------------------------------------------

\* The year found is the start's year (26-32): its first day is not after the
\* start, the next year's is, and the years between are as long as years are.
FindsYear ==
  Found => /\ _yearDay(low) <= day /\ day < _yearDay(low + 1)
           /\ \A n \in 0 .. 4 : _yearDay(low + n + 1) - _yearDay(low + n) = YearLength(low + n)

\* Cliff and end are the start's calendar date one and four years on, at the
\* same second of the day, under either convention for 29 February (33-40).
AnniversariesAreDates ==
  Found => \A n \in {1, 4}, march1 \in BOOLEAN :
             /\ DateIn(low + n, anniversary(n, march1)) = SameDate(n, march1)
             /\ anniversary(n, march1) % DAY = start % DAY

\* validate() accepts one schedule, or two for 29 February (8-13), and every
\* one it accepts is in the order GrantAccounting demands.
ValidateIsConsistent ==
  LET cliffs == {anniversary(1, m) : m \in BOOLEAN}
      ends   == {anniversary(4, m) : m \in BOOLEAN}
  IN  Found =>
        /\ \A c \in cliffs, e \in ends :
             validate(c, e) =>
               /\ start < c /\ c < e
               /\ DateIn(low + 4, e) \in {<<2, 28>>, <<3, 1>>} => DateIn(low + 1, c) = DateIn(low + 4, e)
        /\ \A c \in cliffs : \E e \in ends : validate(c, e)

\* What GrantCalendar promises a vault's constructor: the year of the start is
\* found, the anniversaries are calendar dates, and validate() accepts them and
\* nothing else.
SchedulesAreCalendarDates == FindsYear /\ AnniversariesAreDates /\ ValidateIsConsistent
=============================================================================
