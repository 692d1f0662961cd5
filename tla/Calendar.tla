------------------------------ MODULE Calendar ------------------------------
(***************************************************************************)
(* The calendar of date.h held against a calendar on the wall: one step is  *)
(* a day, and the wall calendar knows only how many days a month has and    *)
(* that weekdays follow one another.  The functions of Chrono, which know   *)
(* of no day before, have to give the same dates from the number of the day *)
(* and the same number from the date.                                       *)
(***************************************************************************)
EXTENDS Chrono

CONSTANTS
    Starts,                 (* [point, year, weekday, days]: a 1 January,    *)
                            (* and how many days to go from it              *)
    Months                  (* numbers of months that are added             *)

(* A start is the 1 January of its year: so many days of 365 to a year, and *)
(* leap days, from that of 1970, a Thursday.                                *)
LeapDays(y) == (y - 1) \div 4 - (y - 1) \div 100 + (y - 1) \div 400

ASSUME StartsAssumption ==
    \A s \in Starts :
        /\ s.year \in Int /\ YearOk(s.year) /\ s.days \in Nat
        /\ s.point = 365 * (s.year - 1970) + LeapDays(s.year) - LeapDays(1970)
        /\ s.weekday = (s.point + 4) % 7

ASSUME MonthsAssumption == Months \subseteq Int

VARIABLES
    left,                   (* days to go                                   *)
    point,                  (* days since 1970-01-01                        *)
    today,                  (* the date on the wall                         *)
    weekday,
    seen                    (* how often this month has had each weekday    *)

vars == <<left, point, today, weekday, seen>>

None == [w \in 0..6 |-> 0]

Init ==
    \E s \in Starts :
        /\ left = s.days
        /\ point = s.point
        /\ today = Ymd(s.year, 1, 1)
        /\ weekday = s.weekday
        /\ seen = [None EXCEPT ![s.weekday] = 1]

Leap(y) == 4 * (y \div 4) = y /\ (100 * (y \div 100) = y => 400 * (y \div 400) = y)

Days(t) ==
    IF t.month \in {4, 6, 9, 11} THEN 30
    ELSE IF t.month # 2 THEN 31
    ELSE IF Leap(t.year) THEN 29 ELSE 28

DayAfter(t) ==
    IF t.day < Days(t) THEN Ymd(t.year, t.month, t.day + 1)
    ELSE IF t.month < 12 THEN Ymd(t.year, t.month + 1, 1)
    ELSE Ymd(t.year + 1, 1, 1)

(* The next day.  The last one of year 32767 has none that fits.            *)
Midnight ==
    /\ left > 0
    /\ YearOk(DayAfter(today).year)
    /\ left' = left - 1
    /\ point' = point + 1
    /\ today' = DayAfter(today)
    /\ weekday' = (weekday + 1) % 7
    /\ seen' = [(IF today'.day = 1 THEN None ELSE seen) EXCEPT ![weekday'] = @ + 1]

Next == Midnight

Spec == Init /\ [][Next]_vars

-----------------------------------------------------------------------------
(* The years a little before and after are years, too.                      *)
Fits(y) == YearOk(y - 1) /\ YearOk(y + 1)

(* The date of a day_point is the date on the wall and has its weekday.     *)
DateOfPoint ==
    /\ FromDayPoint(point) = today
    /\ weekday_from_days(point) = weekday

(* A date on the wall is a good date, its day_point is the number of the    *)
(* day, and the last date of its month is the last on the wall.             *)
PointOfDate ==
    /\ YmdOk(today)
    /\ DayPoint(today) = point
    /\ LastDayPoint(today.year, today.month) = point + (Days(today) - today.day)

(* The n-th weekday of a month is the one counted on the wall.  It is a     *)
(* good date exactly if there are as many of them, and the last one is the  *)
(* last.  Months later it is good exactly if it is still in the month, and  *)
(* the last one is in the last seven days of its month.                     *)
NthWeekday ==
    LET t        == Ymw(today.year, today.month, weekday, seen[weekday])
        next     == [t EXCEPT !.index = @ + 1]
        moreThis == today.day + 7 <= Days(today)
    IN  /\ YmwFromDayPoint(point) = t
        /\ YmwOk(t) /\ (YmwOk(next) <=> moreThis)
        /\ YmwDayPoint(t) = point /\ YmwDayPoint(next) = point + 7
        /\ YmwLastDayPoint(today.year, today.month, weekday) = point <=> ~moreThis
        /\ \A n \in Months : Fits(today.year + n \div 12) =>
              LET later == YmwAddMonths(t, n)
                  lastOf == YmwlAddMonths(Ymwl(today.year, today.month, weekday), n)
                  point2 == YmwLastDayPoint(lastOf.year, lastOf.month, weekday)
              IN  /\ YmwOk(later) <=> FromDayPoint(YmwDayPoint(later)).month = later.month
                  /\ YmwlOk(lastOf) /\ weekday_from_days(point2) = weekday
                  /\ LastDayPoint(lastOf.year, lastOf.month) - point2 \in 0..6
                  /\ n % 12 = 0 =>
                        /\ YmwAddYears(t, n \div 12) = later
                        /\ YmwlAddYears(Ymwl(today.year, today.month, weekday), n \div 12)
                              = lastOf

(* Months added are months counted and can be taken off again; the order is *)
(* theirs; a date with months added is good exactly if the month it lands   *)
(* in has such a day, and years are twelve of them.  The last day of a      *)
(* month stays the last, the day before the first of the month after.       *)
MonthsAddUp ==
    \A n \in Months : Fits(today.year + n \div 12) =>
        LET sum == YearMonthAdd(today, n)
        IN  /\ YearMonthMinus(sum, today) = n
            /\ YearMonthAdd(sum, -n) = [year |-> today.year, month |-> today.month]
            /\ MonthMinus(sum.month, today.month) = n % 12
            /\ MonthAdd(today.month, n) = sum.month
            /\ n = 1 => MonthNext(today.month) = sum.month
            /\ n = -1 => MonthPrev(today.month) = sum.month
            /\ YearMonthLess(today, sum) <=> n > 0
            /\ YmdOk(YmdAddMonths(today, n)) <=>
                  MonthDayOk(sum.month, today.day) /\
                     (sum.month = 2 /\ today.day = 29 => Leap(sum.year))
            /\ LET end == YmdlAddMonths(today, n)
                   after == YearMonthAdd(end, 1)
               IN  /\ YmdlOk(end)
                   /\ LastDayPoint(end.year, end.month) + 1
                         = DayPoint(Ymd(after.year, after.month, 1))
                   /\ YmdlLess(today, end) <=> n > 0
            /\ n % 12 = 0 =>
                  /\ YmdAddYears(today, n \div 12) = YmdAddMonths(today, n)
                  /\ YearMonthAddYears(today, n \div 12) = sum
                  /\ YmdlAddYears(today, n \div 12) = YmdlAddMonths(today, n)

(* Days added to a weekday and to the day of a month are days gone by, and  *)
(* a week that is rounded to is the nearest one.                            *)
DaysAddUp ==
    /\ WeekdayNext(weekday) = weekday_from_days(point + 1)
    /\ WeekdayPrev(weekday) = weekday_from_days(point - 1)
    /\ \A n \in Months :
          /\ WeekdayAdd(weekday, n) = weekday_from_days(point + n)
          /\ WeekdayMinus(weekday_from_days(point + n), weekday) = n % 7
          /\ today.day + n \in 1..Days(today) =>
                /\ DayAdd(today.day, n) = FromDayPoint(point + n).day
                /\ n > 0 => /\ YmdLess(today, FromDayPoint(point + n))
                            /\ MonthDayLess(today, FromDayPoint(point + n))
    /\ \A k \in {7, 14} :
          /\ point - Floor(point, k) * k \in 0..(k - 1)
          /\ Ceil(point, k) = -Floor(-point, k)
          /\ LET off == point - Round(point, k) * k
             IN  2 * off \in -k..k /\ (2 * off \in {-k, k} => Round(point, k) % 2 = 0)

=============================================================================
