------------------------------- MODULE Chrono -------------------------------
(***************************************************************************)
(* The calendar types of date.h and their arithmetic, as functions of       *)
(* integers.  A month, a day and a weekday are kept in an unsigned char, a  *)
(* year in a short; a day_point is a number of days since 1970-01-01.       *)
(* Division and remainder are C's, towards zero.  A difference of unsigned  *)
(* values that wraps and is converted to int again is the difference.       *)
(***************************************************************************)
EXTENDS Integers

TDiv(a, b) == IF a >= 0 THEN a \div b ELSE -((-a) \div b)
TRem(a, b) == a - b * TDiv(a, b)

Byte(n) == n % 256
Short(n) == ((n + 32768) % 65536) - 32768

-----------------------------------------------------------------------------
(* duration_cast, floor, ceil and round of n units to multiples of k.       *)
Truncate(n, k) == TDiv(n, k)

Floor(n, k) ==
    LET t == Truncate(n, k) IN IF t * k > n THEN t - 1 ELSE t

Ceil(n, k) ==
    LET t == Truncate(n, k) IN IF t * k < n THEN t + 1 ELSE t

Round(n, k) ==
    LET t0    == Floor(n, k)
        diff0 == n - t0 * k
        diff1 == (t0 + 1) * k - n
    IN  IF diff0 < diff1 \/ (diff0 = diff1 /\ t0 % 2 = 0) THEN t0 ELSE t0 + 1

-----------------------------------------------------------------------------
(* day                                                                      *)
DayAdd(d, n) == Byte(d + n)
DayMinus(x, y) == x - y

(* month                                                                    *)
MonthOk(m) == m \in 1..12
MonthNext(m) == IF Byte(m + 1) = 13 THEN 1 ELSE Byte(m + 1)
MonthPrev(m) == IF Byte(m - 1) = 0 THEN 12 ELSE Byte(m - 1)

MonthMinus(x, y) == IF x - y \in 0..11 THEN x - y ELSE x - y + 12

(* A slip: the quotient as it is.                                           *)
TwelfthTowardsZero(mu) == TDiv(mu, 12)

(* The quotient the code writes as (mu >= 0 ? mu : mu - 11) / 12.           *)
Twelfth(mu) == TDiv(IF mu >= 0 THEN mu ELSE mu - 11, 12)

MonthAdd(m, n) ==
    LET mu == m - 1 + n IN Byte(mu - Twelfth(mu) * 12 + 1)

(* year                                                                     *)
is_leap(y) == y % 4 = 0 /\ (y % 100 # 0 \/ y % 400 = 0)
YearOk(y) == -32768 <= y /\ y <= 32767
YearAdd(y, n) == Short(y + n)
YearMinus(x, y) == x - y

(* weekday, 0 for Sunday                                                    *)
WeekdayOk(w) == w \in 0..6
weekday_from_days(z) ==
    Byte(IF z >= -4 THEN TRem(z + 4, 7) ELSE TRem(z + 5, 7) + 6)
WeekdayNext(w) == IF Byte(w + 1) = 7 THEN 0 ELSE Byte(w + 1)

(* A slip: the test of month::operator--, which is after the decrement.     *)
WeekdayPrevAfter(w) == IF Byte(w - 1) = 0 THEN 6 ELSE Byte(w - 1)

WeekdayPrev(w) == IF w = 0 THEN 6 ELSE w - 1

WeekdayMinus(x, y) == IF x - y \in 0..6 THEN x - y ELSE x - y + 7
WeekdayAdd(w, n) ==
    LET wdu == w + n
        wk  == TDiv(IF wdu >= 0 THEN wdu ELSE wdu - 6, 7)
    IN  Byte(wdu - wk * 7)

-----------------------------------------------------------------------------
(* year_month                                                               *)
YearMonthAdd(ym, n) ==
    LET dmi == ym.month - 1 + n
        dy  == Twelfth(dmi)
    IN  [year |-> YearAdd(ym.year, dy), month |-> Byte(dmi - dy * 12 + 1)]

YearMonthMinus(x, y) == YearMinus(x.year, y.year) * 12 + (x.month - y.month)

YearMonthLess(x, y) ==
    x.year < y.year \/ (x.year = y.year /\ x.month < y.month)

YearMonthAddYears(ym, n) == [year |-> YearAdd(ym.year, n), month |-> ym.month]

(* month_day: 29 February is one.                                           *)
MonthDayOk(m, d) ==
    /\ MonthOk(m)
    /\ d \in 1..(<<31, 29, 31, 30, 31, 30, 31, 31, 30, 31, 30, 31>>[m])

MonthDayLess(s, t) == s.month < t.month \/ (s.month = t.month /\ s.day < t.day)

(* year_month_day_last::day, for a month that is ok                         *)
LastDay(y, m) ==
    IF m # 2 \/ ~is_leap(y)
    THEN <<31, 28, 31, 30, 31, 30, 31, 31, 30, 31, 30, 31>>[m]
    ELSE 29

-----------------------------------------------------------------------------
(* year_month_day                                                           *)
Ymd(y, m, d) == [year |-> y, month |-> m, day |-> d]

YmdOk(t) ==
    YearOk(t.year) /\ MonthOk(t.month) /\ t.day \in 1..LastDay(t.year, t.month)

YmdLess(s, t) ==
    \/ YearMonthLess(s, t)
    \/ s.year = t.year /\ s.month = t.month /\ s.day < t.day

(* The sum is composed again by operator/, and its day is not looked at.    *)
YmdAddMonths(t, n) ==
    LET ym == YearMonthAdd(t, n) IN Ymd(ym.year, ym.month, t.day)

YmdAddYears(t, n) == Ymd(YearAdd(t.year, n), t.month, t.day)

(* A slip: the quotient as it is.                                           *)
EraTowardsZero(y) == TDiv(y, 400)

(* operator day_point: years begin in March and come in eras of 400.        *)
Era(y) == TDiv(IF y >= 0 THEN y ELSE y - 399, 400)

MarchYear(t) == t.year - (IF t.month <= 2 THEN 1 ELSE 0)

DayOfYear(t) ==
    (153 * (t.month + (IF t.month > 2 THEN -3 ELSE 9)) + 2) \div 5 + t.day - 1

DaysBefore(y) ==
    LET yoe == y - Era(y) * 400
    IN  Era(y) * 146097 + yoe * 365 + yoe \div 4 - yoe \div 100

DayPoint(t) == DaysBefore(MarchYear(t)) + DayOfYear(t) - 719468

(* A slip: the quotient as it is.                                           *)
DayEraTowardsZero(z) == TDiv(z, 146097)

DayEra(z) == TDiv(IF z >= 0 THEN z ELSE z - 146096, 146097)

(* The years of an era that are over, from its days, with the leap days     *)
(* among them taken off.                                                    *)
CommonDays(doe) == doe - doe \div 1460 + doe \div 36524 - doe \div 146096
YearOfEra(doe) == CommonDays(doe) \div 365

(* Months, from March, before a day of the year.                            *)
MonthsBefore(doy) == (5 * doy + 2) \div 153

(* The date of a day of a year that begins in March.                        *)
MarchDate(y, doy) ==
    LET mp == MonthsBefore(doy)
        m  == mp + (IF mp < 10 THEN 3 ELSE -9)
    IN  Ymd(Short(y + (IF m <= 2 THEN 1 ELSE 0)),
            Byte(m), Byte(doy - (153 * mp + 2) \div 5 + 1))

FromEra(era, doe) ==
    LET yoe == YearOfEra(doe)
    IN  MarchDate(yoe + era * 400, doe - (365 * yoe + yoe \div 4 - yoe \div 100))

FromDayPoint(dp) ==
    LET z == dp + 719468 IN FromEra(DayEra(z), z - DayEra(z) * 146097)

(* operator day_point of year_month_day_last                                *)
LastDayPoint(y, m) == DayPoint(Ymd(y, m, LastDay(y, m)))

(* year_month_day_last, a year and a month: the day moves with them.        *)
YmdlOk(t) == YearOk(t.year) /\ MonthOk(t.month)
YmdlLess(s, t) == s.year < t.year \/ (s.year = t.year /\ s.month < t.month)
YmdlAddMonths(t, n) ==
    LET ym == YearMonthAdd(t, n) IN [year |-> ym.year, month |-> ym.month]
YmdlAddYears(t, n) == [year |-> YearAdd(t.year, n), month |-> t.month]

-----------------------------------------------------------------------------
(* year_month_weekday: the index-th weekday of a month                      *)
Ymw(y, m, w, i) == [year |-> y, month |-> m, weekday |-> w, index |-> i]

YmwFromDayPoint(dp) ==
    LET t == FromDayPoint(dp)
    IN  Ymw(t.year, t.month, weekday_from_days(dp), (t.day - 1) \div 7 + 1)

FirstOf(t) == DayPoint(Ymd(t.year, t.month, 1))

YmwDayPoint(t) ==
    FirstOf(t) + WeekdayMinus(t.weekday, weekday_from_days(FirstOf(t)))
               + (t.index - 1) * 7

(* A slip: any of five, as for the weekday_indexed by itself.               *)
YmwOkIndexed(t) ==
    YearOk(t.year) /\ MonthOk(t.month) /\ WeekdayOk(t.weekday) /\ t.index \in 1..5

YmwOk(t) ==
    /\ YearOk(t.year) /\ MonthOk(t.month) /\ WeekdayOk(t.weekday) /\ t.index >= 1
    /\ \/ t.index <= 4
       \/ WeekdayMinus(t.weekday, weekday_from_days(FirstOf(t)))
             + (t.index - 1) * 7 + 1 <= LastDay(t.year, t.month)

YmwAddMonths(t, n) ==
    LET ym == YearMonthAdd(t, n) IN Ymw(ym.year, ym.month, t.weekday, t.index)

YmwAddYears(t, n) == Ymw(YearAdd(t.year, n), t.month, t.weekday, t.index)

(* year_month_weekday_last: the last such weekday of a month                *)
Ymwl(y, m, w) == [year |-> y, month |-> m, weekday |-> w]
YmwlOk(t) == YearOk(t.year) /\ MonthOk(t.month) /\ WeekdayOk(t.weekday)
YmwlAddMonths(t, n) ==
    LET ym == YearMonthAdd(t, n) IN Ymwl(ym.year, ym.month, t.weekday)
YmwlAddYears(t, n) == Ymwl(YearAdd(t.year, n), t.month, t.weekday)
YmwLastDayPoint(y, m, w) ==
    LET d == LastDayPoint(y, m) IN d - WeekdayMinus(weekday_from_days(d), w)

=============================================================================
