-------------------------- MODULE CalendarProofs ---------------------------
(***************************************************************************)
(* Proofs about date.h, by Calendar and Logger: from any 1 January on, for  *)
(* any number of days, its conversions between dates and numbers of days    *)
(* agree with the calendar that counts days; a time of day is told as it    *)
(* is, and the log's stamps with it.                                        *)
(*                                                                         *)
(* The inductive invariant says that today is a date and that the formula   *)
(* of operator day_point gives the number of the day.  DayPointAfter is its *)
(* step: the formula grows by one from a date to the next.  The way back,   *)
(* from_day_point, is shown to undo the formula (FromDayPointInverts).      *)
(* SeenInv says how often each weekday has come this month.  SumIs is what  *)
(* adding months to a year and a month gives, and the arithmetic of months, *)
(* days and weekdays is proved from it and from these.                      *)
(*                                                                         *)
(* Parts says which fields a duration falls into, Tells that a face has     *)
(* them, on either dial, and Shows that a text does; a reader of the text   *)
(* then has the duration again (ReadShown).  A date that day_point maps to  *)
(* a given day is made from the day (DateOfDay), so that from_day_point is  *)
(* right on every day (DayPointInverts), and with it a stamp.               *)
(***************************************************************************)
EXTENDS Calendar, Logger, TLAPS

LEMMA EraFloor ==
  ASSUME NEW y \in Int
  PROVE  Era(y) = y \div 400
<1>1. CASE y >= 0
  BY <1>1 DEF Era, TDiv
<1>2. CASE y < 0
  BY <1>2 DEF Era, TDiv
<1> QED BY <1>1, <1>2

LEMMA LeapIsLeap ==
  ASSUME NEW y \in Int
  PROVE  is_leap(y) <=> Leap(y)
BY DEF is_leap, Leap

(* The same with the floor of a division.                                   *)
DaysFlat(y) ==
    (y \div 400) * 146097 + (y - (y \div 400) * 400) * 365
        + (y - (y \div 400) * 400) \div 4 - (y - (y \div 400) * 400) \div 100

LEMMA DaysBeforeFlat ==
  ASSUME NEW y \in Int
  PROVE  DaysBefore(y) = DaysFlat(y)
<1>1. PICK e \in Int : e = Era(y) /\ e = y \div 400
  BY EraFloor
<1>2. DaysBefore(y) = e * 146097 + (y - e * 400) * 365 + (y - e * 400) \div 4 - (y - e * 400) \div 100
  BY <1>1, SMT DEF DaysBefore
<1> QED
  BY <1>1, <1>2, SMT DEF DaysFlat

(* A March year has a day more if it ends in a leap February.               *)
LEMMA YearLength ==
  ASSUME NEW y \in Int
  PROVE  /\ DaysBefore(y) \in Int
         /\ DaysBefore(y + 1) = DaysBefore(y) + (IF Leap(y + 1) THEN 366 ELSE 365)
<1>1. DaysBefore(y) = DaysFlat(y) /\ DaysBefore(y + 1) = DaysFlat(y + 1)
  BY DaysBeforeFlat
<1>2. DaysFlat(y) \in Int /\ DaysFlat(y + 1) = DaysFlat(y) + (IF Leap(y + 1) THEN 366 ELSE 365)
  BY SMT DEF Leap, DaysFlat
<1> QED
  BY <1>1, <1>2

Dates == [year : Int, month : 1..12, day : 1..31]

LEMMA DayPointAfter ==
  ASSUME NEW t \in Dates, t.day <= Days(t)
  PROVE  /\ DayAfter(t) \in Dates
         /\ DayAfter(t).day <= Days(DayAfter(t))
         /\ DayPoint(DayAfter(t)) = DayPoint(t) + 1
<1> DEFINE u == DayAfter(t)
<1>1. t.year \in Int /\ t.month \in 1..12 /\ t.day \in 1..31
  BY DEF Dates
<1>2. u \in Dates /\ u.day <= Days(u)
  BY <1>1 DEF Dates, DayAfter, Days, Ymd
<1>3. DayPoint(t) = DaysBefore(MarchYear(t)) + DayOfYear(t) - 719468
      /\ DayPoint(u) = DaysBefore(MarchYear(u)) + DayOfYear(u) - 719468
  BY SMT DEF DayPoint
<1>4. MarchYear(t) \in Int /\ DaysBefore(MarchYear(t)) \in Int
  BY <1>1, YearLength, SMT DEF MarchYear
<1>5. CASE t.day < Days(t)
  <2>1. u = Ymd(t.year, t.month, t.day + 1)
    BY <1>5 DEF DayAfter
  <2> QED
    BY <1>1, <1>2, <1>3, <1>4, <2>1 DEF Ymd, MarchYear, DayOfYear
<1>6. CASE t.day = Days(t) /\ t.month = 12
  <2>1. u = Ymd(t.year + 1, 1, 1) /\ t.day = 31
    BY <1>1, <1>6 DEF DayAfter, Days
  <2>2. MarchYear(u) = t.year /\ MarchYear(t) = t.year
        /\ DayOfYear(u) = 306 /\ DayOfYear(t) = 305
    BY <1>1, <1>6, <2>1 DEF Ymd, MarchYear, DayOfYear
  <2> QED
    BY <1>2, <1>3, <1>4, <2>2
<1>7. CASE t.day = Days(t) /\ t.month = 2
  <2>1. u = Ymd(t.year, 3, 1) /\ t.day = (IF Leap(t.year) THEN 29 ELSE 28)
    BY <1>1, <1>7 DEF DayAfter, Days
  <2>2. MarchYear(u) = t.year /\ MarchYear(t) = t.year - 1
        /\ DayOfYear(u) = 0 /\ DayOfYear(t) = 336 + t.day
    BY <1>1, <1>7, <2>1 DEF Ymd, MarchYear, DayOfYear
  <2>3. DaysBefore(t.year) = DaysBefore(t.year - 1) + (IF Leap(t.year) THEN 366 ELSE 365)
    BY <1>1, YearLength
  <2> QED
    BY <1>1, <1>2, <1>3, <1>4, <2>1, <2>2, <2>3
<1>8. CASE t.day = Days(t) /\ t.month \notin {2, 12}
  <2>1. u = Ymd(t.year, t.month + 1, 1)
    BY <1>1, <1>8 DEF DayAfter
  <2>2. MarchYear(u) = MarchYear(t)
    BY <1>1, <1>8, <2>1 DEF Ymd, MarchYear
  <2>3. DayOfYear(u) = DayOfYear(t) + 1
    BY <1>1, <1>8, <2>1 DEF Ymd, DayOfYear, Days
  <2> QED
    BY <1>1, <1>2, <1>3, <1>4, <2>2, <2>3 DEF DayOfYear
<1> QED
  BY <1>1, <1>5, <1>6, <1>7, <1>8 DEF Days

LEMMA Quotient ==
  ASSUME NEW w \in Int, NEW y \in Int, NEW z \in 0..364, w = 365 * y + z
  PROVE  w \div 365 = y
BY SMT

(* The year of the era, by the division of from_day_point: c centuries, q   *)
(* times four years and s years into it.                                    *)
YearSplit(c, q, s, doy, yoe, doe) ==
    /\ doy <= 365
    /\ doy = 365 => s = 3 /\ (q = 24 => c = 3)
    /\ yoe = 100 * c + 4 * q + s
    /\ doe = 365 * yoe + yoe \div 4 - yoe \div 100 + doy

InEra(doe, yoe) == 0 <= doe /\ doe <= 146096 /\ YearOfEra(doe) = yoe

LEMMA YearOfEraRight ==
  ASSUME NEW c \in 0..3, NEW q \in 0..24, NEW s \in 0..3,
         NEW doy \in Nat, NEW yoe \in Int, NEW doe \in Int
  PROVE  YearSplit(c, q, s, doy, yoe, doe) => InEra(doe, yoe)
<1>1. SUFFICES ASSUME doy <= 365,
                      doy = 365 => s = 3 /\ (q = 24 => c = 3),
                      yoe = 100 * c + 4 * q + s,
                      doe = 365 * yoe + yoe \div 4 - yoe \div 100 + doy
               PROVE  InEra(doe, yoe)
  BY SMT DEF YearSplit
<1> DEFINE e == IF 24 * c + q + 365 * s + doy >= 1460 THEN 1 ELSE 0
           l == IF doe = 146096 THEN 1 ELSE 0
<1>2. yoe \div 4 = 25 * c + q /\ yoe \div 100 = c
  BY <1>1, SMT
<1>3. doe = 36524 * c + 1461 * q + 365 * s + doy
  BY <1>1, <1>2, SMT
<1>4. 0 <= doe /\ doe <= 146096
  BY <1>1, <1>3, SMT
<1>5. doe \div 1460 = 25 * c + q + e
  BY <1>1, <1>3, SMT
<1>6. doe \div 36524 = c + l
  BY <1>1, <1>3, SMT
<1>7. doe \div 146096 = l
  BY <1>4, SMT
<1>8. PICK z \in 0..364 : z = doy - e
  BY <1>1, SMT
<1>9. CommonDays(doe) = 365 * yoe + z
  BY <1>1, <1>3, <1>5, <1>6, <1>7, <1>8, SMT DEF CommonDays
<1>10. YearOfEra(doe) = yoe
  <2> HIDE DEF e, l
  <2> QED BY <1>9, Quotient, SMT DEF YearOfEra
<1> QED
  BY <1>4, <1>10 DEF InEra

EraDay(e, doe) == e * 146097 + doe

LEMMA DayEraFloor ==
  ASSUME NEW e \in Int, NEW doe \in Int, 0 <= doe /\ doe <= 146096
  PROVE  DayEra(EraDay(e, doe)) = e
<1>1. CASE e >= 0
  BY <1>1, SMT DEF DayEra, TDiv, EraDay
<1>2. CASE e < 0
  BY <1>2, SMT DEF DayEra, TDiv, EraDay
<1> QED
  BY <1>1, <1>2

(* The month and the day from the day of the March year.                    *)
LEMMA MonthAndDay ==
  ASSUME NEW t \in Dates, t.day <= Days(t)
  PROVE  /\ DayOfYear(t) \in Nat /\ DayOfYear(t) <= 365
         /\ DayOfYear(t) = 365 => t.month = 2 /\ Leap(t.year)
         /\ \E mp \in 0..11 :
               /\ MonthsBefore(DayOfYear(t)) = mp
               /\ mp + (IF mp < 10 THEN 3 ELSE -9) = t.month
               /\ DayOfYear(t) - (153 * mp + 2) \div 5 + 1 = t.day
<1> DEFINE mp == t.month + (IF t.month > 2 THEN -3 ELSE 9)
<1>1. t.month \in 1..12 /\ t.day \in 1..31
  BY DEF Dates
<1>2. Days(t) \in 28..31 /\ (Days(t) = 31 => t.month \notin {2, 4, 6, 9, 11})
      /\ (t.month = 2 => Days(t) <= 29) /\ (t.month = 2 /\ Days(t) = 29 => Leap(t.year))
  BY <1>1, SMT DEF Days
<1>3. PICK m \in 0..11 : m = mp
  BY <1>1
<1>4. DayOfYear(t) = (153 * m + 2) \div 5 + t.day - 1
  BY <1>1, <1>3, SMT DEF DayOfYear
<1>5. MonthsBefore(DayOfYear(t)) = m
  BY <1>1, <1>2, <1>3, <1>4, SMT DEF MonthsBefore
<1>6. DayOfYear(t) \in Nat /\ DayOfYear(t) <= 365 /\ (DayOfYear(t) = 365 => t.month = 2 /\ t.day = 29)
  BY <1>1, <1>2, <1>3, <1>4, SMT
<1>7. m + (IF m < 10 THEN 3 ELSE -9) = t.month
  BY <1>1, <1>3, SMT
<1>8. DayOfYear(t) - (153 * m + 2) \div 5 + 1 = t.day
  BY <1>1, <1>4, SMT
<1> HIDE DEF mp
<1>9. DayOfYear(t) = 365 => Leap(t.year)
  BY <1>1, <1>2, <1>6
<1> QED
  BY <1>5, <1>6, <1>7, <1>8, <1>9

LEMMA LeapInEra ==
  ASSUME NEW e \in Int, NEW c \in 0..3, NEW q \in 0..24, NEW s \in 0..3,
         Leap(400 * e + 100 * c + 4 * q + s + 1)
  PROVE  s = 3 /\ (q = 24 => c = 3)
<1>1. s = 3
  BY SMT DEF Leap
<1>2. CASE q = 24
  BY <1>1, <1>2, SMT DEF Leap
<1> QED
  BY <1>1, <1>2

(* from_day_point undoes operator day_point.                                *)
LEMMA FromDayPointInverts ==
  ASSUME NEW t \in Dates, t.day <= Days(t), YearOk(t.year)
  PROVE  FromDayPoint(DayPoint(t)) = t
<1> DEFINE y   == MarchYear(t)
           doy == DayOfYear(t)
<1>1. t.year \in Int /\ t.month \in 1..12 /\ t.day \in 1..31
  BY DEF Dates
<1>2. y \in Int /\ t.year = y + (IF t.month <= 2 THEN 1 ELSE 0)
  BY <1>1, SMT DEF MarchYear
<1>3. doy \in Nat /\ doy <= 365 /\ (doy = 365 => t.month = 2 /\ Leap(y + 1))
  BY <1>2, MonthAndDay
<1> DEFINE e   == y \div 400
           yoe == y - 400 * e
<1>4. e \in Int /\ yoe \in Nat /\ yoe <= 399 /\ y = 400 * e + yoe
  BY <1>2, SMT
<1>4a. Era(y) = e
  BY <1>2, EraFloor
<1> HIDE DEF e, yoe
<1>5. PICK c \in 0..3, q \in 0..24, s \in 0..3 : yoe = 100 * c + 4 * q + s
  <2> DEFINE c == yoe \div 100
             q == (yoe - 100 * c) \div 4
             s == yoe - 100 * c - 4 * q
  <2>1. c \in 0..3 /\ q \in 0..24 /\ s \in 0..3 /\ yoe = 100 * c + 4 * q + s
    BY <1>4, SMT
  <2> HIDE DEF c, q, s
  <2> QED
    BY <2>1
<1>6. doy = 365 => s = 3 /\ (q = 24 => c = 3)
  <2> HIDE DEF y, doy
  <2>1. y + 1 = 400 * e + 100 * c + 4 * q + s + 1
    BY <1>4, <1>5, SMT
  <2> QED
    BY <1>3, <1>4, <2>1, LeapInEra
<1>7. PICK doe \in Int : doe = 365 * yoe + yoe \div 4 - yoe \div 100 + doy
  BY <1>3, <1>4, SMT
<1>8. InEra(doe, yoe)
  <2> HIDE DEF doy
  <2>1. yoe \in Int
    BY <1>4
  <2>2. YearSplit(c, q, s, doy, yoe, doe)
    BY <1>3, <1>5, <1>6, <1>7, SMT DEF YearSplit
  <2> QED
    BY <1>3, <2>1, <2>2, YearOfEraRight
<1>9. DayPoint(t) + 719468 = EraDay(e, doe) /\ EraDay(e, doe) \in Int
  <2>1. PICK n \in Int : n = DaysBefore(y)
    BY <1>2, YearLength
  <2> HIDE DEF y, doy
  <2>2. n = e * 146097 + yoe * 365 + yoe \div 4 - yoe \div 100
    BY <1>2, <1>4, <1>4a, <2>1, SMT DEF DaysBefore
  <2>3. DayPoint(t) = n + doy - 719468
    BY <2>1 DEF DayPoint, y, doy
  <2> QED
    BY <1>3, <1>4, <1>7, <2>2, <2>3, SMT DEF EraDay
<1>10. DayEra(DayPoint(t) + 719468) = e
  BY <1>4, <1>8, <1>9, DayEraFloor DEF InEra
<1>11. doe - (365 * yoe + yoe \div 4 - yoe \div 100) = doy
  BY <1>3, <1>4, <1>7, SMT
<1>12. PICK mp \in 0..11 :
         /\ MonthsBefore(doy) = mp
         /\ mp + (IF mp < 10 THEN 3 ELSE -9) = t.month
         /\ doy - (153 * mp + 2) \div 5 + 1 = t.day
  BY MonthAndDay
<1> HIDE DEF y, doy
<1>13. FromDayPoint(DayPoint(t)) = FromEra(e, doe)
  <2>1. EraDay(e, doe) - e * 146097 = doe
    BY <1>4, SMT DEF EraDay
  <2> QED
    BY <1>9, <1>10, <2>1, SMT DEF FromDayPoint
<1>14. FromEra(e, doe) =
         Ymd(Short(yoe + e * 400 + (IF t.month <= 2 THEN 1 ELSE 0)), Byte(t.month), Byte(t.day))
  <2>1. FromEra(e, doe) = MarchDate(yoe + e * 400, doy)
    BY <1>8, <1>11, SMT DEF FromEra, InEra
  <2> QED
    BY <1>12, <2>1 DEF MarchDate
<1>15. yoe + e * 400 + (IF t.month <= 2 THEN 1 ELSE 0) = t.year
  BY <1>1, <1>2, <1>4, SMT
<1>16. Short(t.year) = t.year /\ Byte(t.month) = t.month /\ Byte(t.day) = t.day
  BY <1>1, SMT DEF Short, Byte, YearOk
<1>17. Ymd(t.year, t.month, t.day) = t
  BY DEF Ymd, Dates
<1> QED
  BY <1>13, <1>14, <1>15, <1>16, <1>17

-----------------------------------------------------------------------------
LEMMA WeekdayMod ==
  ASSUME NEW z \in Int
  PROVE  weekday_from_days(z) = (z + 4) % 7
<1>1. CASE z >= -4
  BY <1>1, SMT DEF weekday_from_days, TRem, TDiv, Byte
<1>2. CASE z < -4
  BY <1>2, SMT DEF weekday_from_days, TRem, TDiv, Byte
<1> QED
  BY <1>1, <1>2

LEMMA LastDayIsDays ==
  ASSUME NEW t \in Dates
  PROVE  LastDay(t.year, t.month) = Days(t)
<1>1. t.year \in Int /\ t.month \in 1..12
  BY DEF Dates
<1>2. LastDay(t.year, t.month) = IF t.month # 2 \/ ~Leap(t.year)
                                 THEN <<31, 28, 31, 30, 31, 30, 31, 31, 30, 31, 30, 31>>[t.month]
                                 ELSE 29
  BY <1>1, LeapIsLeap DEF LastDay
<1>3. \A m \in 1..12 : <<31, 28, 31, 30, 31, 30, 31, 31, 30, 31, 30, 31>>[m] =
          IF m \in {4, 6, 9, 11} THEN 30 ELSE IF m # 2 THEN 31 ELSE 28
  OBVIOUS
<1> QED
  BY <1>1, <1>2, <1>3 DEF Days

(* The last day of the month is as many days away as its number says.       *)
LEMMA LastDayAway ==
  ASSUME NEW t \in Dates
  PROVE  LastDayPoint(t.year, t.month) = DayPoint(t) + (Days(t) - t.day)
<1> DEFINE u == Ymd(t.year, t.month, Days(t))
<1>1. t.year \in Int /\ t.month \in 1..12 /\ t.day \in 1..31 /\ Days(t) \in 28..31
  BY DEF Dates, Days
<1>2. MarchYear(u) = MarchYear(t) /\ DayOfYear(u) = DayOfYear(t) + (Days(t) - t.day)
  BY <1>1, SMT DEF Ymd, MarchYear, DayOfYear
<1>3. PICK n \in Int : n = DaysBefore(MarchYear(t))
  BY <1>1, YearLength, SMT DEF MarchYear
<1>4. PICK k \in Int : k = DayOfYear(t)
  BY <1>1, SMT DEF DayOfYear
<1>5. LastDayPoint(t.year, t.month) = DayPoint(u)
  BY LastDayIsDays DEF LastDayPoint
<1> HIDE DEF u
<1> QED
  BY <1>1, <1>2, <1>3, <1>4, <1>5, SMT DEF DayPoint

LEMMA StartPoint ==
  ASSUME NEW y \in Int
  PROVE  /\ Ymd(y, 1, 1) \in Dates
         /\ DayPoint(Ymd(y, 1, 1)) = 365 * (y - 1970) + LeapDays(y) - LeapDays(1970)
<1> DEFINE t == Ymd(y, 1, 1)
<1>1. t \in Dates /\ MarchYear(t) = y - 1 /\ DayOfYear(t) = 306
  BY SMT DEF Ymd, Dates, MarchYear, DayOfYear
<1>2. DaysBefore(y - 1) = DaysFlat(y - 1)
  BY DaysBeforeFlat
<1>3. DaysFlat(y - 1) + 306 - 719468 = 365 * (y - 1970) + LeapDays(y) - LeapDays(1970)
  BY SMT DEF DaysFlat, LeapDays
<1>4. DayPoint(t) = DaysBefore(y - 1) + 306 - 719468
  BY <1>1, SMT DEF DayPoint
<1> QED
  BY <1>1, <1>2, <1>3, <1>4, SMT

-----------------------------------------------------------------------------
IInv ==
    /\ left \in Nat /\ point \in Int
    /\ today \in Dates /\ YearOk(today.year) /\ today.day <= Days(today)
    /\ DayPoint(today) = point
    /\ weekday = (point + 4) % 7

LEMMA InitIInv == Init => IInv
<1> SUFFICES ASSUME Init PROVE IInv
  OBVIOUS
<1>1. PICK s \in Starts :
        /\ left = s.days /\ point = s.point
        /\ today = Ymd(s.year, 1, 1) /\ weekday = s.weekday
  BY DEF Init
<1>2. s.year \in Int /\ YearOk(s.year) /\ s.days \in Nat
      /\ s.point = 365 * (s.year - 1970) + LeapDays(s.year) - LeapDays(1970)
      /\ s.weekday = (s.point + 4) % 7
  BY StartsAssumption
<1>3. today \in Dates /\ DayPoint(today) = point
  BY <1>1, <1>2, StartPoint
<1>4. point \in Int
  BY <1>1, <1>2, SMT DEF LeapDays
<1>5. today.year = s.year /\ today.day <= Days(today)
  BY <1>1, <1>2, SMT DEF Ymd, Days
<1> QED
  BY <1>1, <1>2, <1>3, <1>4, <1>5 DEF IInv

LEMMA NextIInv == IInv /\ [Next]_vars => IInv'
<1> SUFFICES ASSUME IInv, [Next]_vars PROVE IInv'
  OBVIOUS
<1>1. CASE Midnight
  <2>1. left' \in Nat /\ point' \in Int /\ point' = point + 1
    BY <1>1, SMT DEF IInv, Midnight
  <2>2. today' = DayAfter(today) /\ YearOk(today'.year)
    BY <1>1 DEF Midnight
  <2>3. today' \in Dates /\ today'.day <= Days(today') /\ DayPoint(today') = DayPoint(today) + 1
    BY <2>2, DayPointAfter DEF IInv
  <2>4. weekday' = (point' + 4) % 7
    <3>1. weekday' = (((point + 4) % 7) + 1) % 7 /\ point \in Int
      BY <1>1 DEF IInv, Midnight
    <3> QED
      BY <2>1, <3>1, SMT
  <2>5. DayPoint(today') = point'
    BY <2>1, <2>3 DEF IInv
  <2> QED
    BY <2>1, <2>2, <2>3, <2>4, <2>5 DEF IInv
<1>2. CASE UNCHANGED vars
  BY <1>2 DEF IInv, vars
<1> QED
  BY <1>1, <1>2 DEF Next

LEMMA SpecIInv == Spec => []IInv
BY InitIInv, NextIInv, PTL DEF Spec

(* The date from_day_point computes of a day is the one reached by counting *)
(* the days one by one from any 1 January, for every year a short holds,    *)
(* and so is its weekday.                                                   *)
THEOREM DateOfPointAlways == Spec => []DateOfPoint
<1>1. IInv => DateOfPoint
  <2> SUFFICES ASSUME IInv PROVE DateOfPoint
    OBVIOUS
  <2>1. FromDayPoint(point) = today
    BY FromDayPointInverts DEF IInv
  <2>2. weekday_from_days(point) = weekday
    BY WeekdayMod DEF IInv
  <2> QED
    BY <2>1, <2>2 DEF DateOfPoint
<1> QED
  BY <1>1, SpecIInv, PTL

(* The day_point of a date counts the days, and the end of its month is     *)
(* where the counting finds it, for every year a short holds.               *)
THEOREM PointOfDateAlways == Spec => []PointOfDate
<1>1. IInv => PointOfDate
  <2> SUFFICES ASSUME IInv PROVE PointOfDate
    OBVIOUS
  <2>1. LastDayPoint(today.year, today.month) = point + (Days(today) - today.day)
    BY LastDayAway DEF IInv
  <2>2. today.month \in 1..12 /\ today.day \in 1..31
    BY DEF IInv, Dates
  <2>3. YmdOk(today)
    <3>1. LastDay(today.year, today.month) = Days(today) /\ Days(today) \in Int
      BY LastDayIsDays DEF IInv, Days
    <3> QED
      BY <2>2, <3>1, SMT DEF IInv, YmdOk, MonthOk
  <2> QED
    BY <2>1, <2>3 DEF IInv, PointOfDate
<1> QED
  BY <1>1, SpecIInv, PTL

-----------------------------------------------------------------------------
(* How often each weekday has come this month: the last w was as many days  *)
(* ago as the weekdays differ, and one comes every seven days.              *)
SeenInv ==
    /\ seen \in [0..6 -> Int]
    /\ \A w \in 0..6 : seen[w] = (today.day - 1 - ((weekday - w) % 7)) \div 7 + 1

LEMMA SeenStep ==
  ASSUME IInv, SeenInv, Midnight, IInv'
  PROVE  SeenInv'
<1>1. /\ today.day \in 1..31 /\ today'.day \in 1..31
      /\ weekday \in 0..6 /\ weekday' = (weekday + 1) % 7 /\ weekday' \in 0..6
      /\ seen \in [0..6 -> Int]
  BY SMT DEF IInv, Dates, Midnight, SeenInv
<1>2. today'.day = 1 \/ today'.day = today.day + 1
  BY DEF Midnight, DayAfter, Ymd
<1>3. /\ seen' \in [0..6 -> Int]
      /\ \A w \in 0..6 :
            seen'[w] = (IF today'.day = 1 THEN 0 ELSE seen[w])
                          + (IF w = weekday' THEN 1 ELSE 0)
  BY <1>1 DEF Midnight, None
<1>4. ASSUME NEW w \in 0..6
      PROVE  seen'[w] = (today'.day - 1 - ((weekday' - w) % 7)) \div 7 + 1
  <2>1. CASE today'.day = 1
    <3>1. w = weekday' => (weekday' - w) % 7 = 0
      BY <1>1, SMT
    <3>2. w # weekday' => (weekday' - w) % 7 \in 1..6
      BY <1>1, SMT
    <3> QED
      BY <1>1, <1>3, <2>1, <3>1, <3>2, SMT
  <2>2. CASE today'.day # 1
    <3>1. seen[w] = (today.day - 1 - ((weekday - w) % 7)) \div 7 + 1 /\ today'.day = today.day + 1
      BY <1>2, <2>2 DEF SeenInv
    <3>2. w = weekday' => (weekday' - w) % 7 = 0 /\ (weekday - w) % 7 = 6
      BY <1>1, SMT
    <3>3. w # weekday' => /\ (weekday' - w) % 7 = ((weekday - w) % 7) + 1
                          /\ (weekday - w) % 7 \in 0..5
      BY <1>1, SMT
    <3> QED
      BY <1>1, <1>3, <2>2, <3>1, <3>2, <3>3, SMT
  <2> QED
    BY <2>1, <2>2
<1> QED
  BY <1>3, <1>4 DEF SeenInv

LEMMA SpecSeenInv == Spec => []SeenInv
<1>1. Init => SeenInv
  <2> SUFFICES ASSUME Init PROVE SeenInv
    OBVIOUS
  <2>1. PICK s \in Starts :
          /\ today = Ymd(s.year, 1, 1) /\ weekday = s.weekday
          /\ seen = [None EXCEPT ![s.weekday] = 1]
    BY DEF Init
  <2>2. s.weekday \in 0..6
    <3>1. s.year \in Int /\ s.weekday = (s.point + 4) % 7
          /\ s.point = 365 * (s.year - 1970) + LeapDays(s.year) - LeapDays(1970)
      BY StartsAssumption
    <3>2. s.point \in Int
      BY <3>1, SMT DEF LeapDays
    <3> QED
      BY <3>1, <3>2, SMT
  <2>3. /\ seen \in [0..6 -> Int]
        /\ \A w \in 0..6 : seen[w] = IF w = weekday THEN 1 ELSE 0
    BY <2>1, <2>2 DEF None
  <2>4. today.day = 1
    BY <2>1 DEF Ymd
  <2>5. ASSUME NEW w \in 0..6
        PROVE  (w = weekday => (weekday - w) % 7 = 0)
                  /\ (w # weekday => (weekday - w) % 7 \in 1..6)
    BY <2>1, <2>2, SMT
  <2> QED
    BY <2>3, <2>4, <2>5, SMT DEF SeenInv
<1>2. IInv /\ IInv' /\ SeenInv /\ [Next]_vars => SeenInv'
  <2> SUFFICES ASSUME IInv, IInv', SeenInv, [Next]_vars PROVE SeenInv'
    OBVIOUS
  <2>1. CASE UNCHANGED vars
    BY <2>1 DEF SeenInv, vars
  <2> QED
    BY <2>1, SeenStep DEF Next
<1> QED
  BY <1>1, <1>2, SpecIInv, PTL DEF Spec

-----------------------------------------------------------------------------
LEMMA TwelfthFloor ==
  ASSUME NEW n \in Int
  PROVE  Twelfth(n) = n \div 12
<1>1. CASE n >= 0
  BY <1>1, SMT DEF Twelfth, TDiv
<1>2. CASE n < 0
  BY <1>2, SMT DEF Twelfth, TDiv
<1> QED
  BY <1>1, <1>2

LEMMA YearKept ==
  ASSUME NEW y \in Int, YearOk(y)
  PROVE  Short(y) = y
BY SMT DEF YearOk, Short

(* A year and a month, after months were added: as many months further on.  *)
LEMMA SumIs ==
  ASSUME NEW y \in Int, NEW m \in 1..12, NEW t, t.year = y, t.month = m,
         NEW n \in Int, Fits(y + n \div 12)
  PROVE  LET s == YearMonthAdd(t, n)
         IN  /\ s = [year |-> s.year, month |-> s.month]
             /\ s.year \in Int /\ s.month \in 1..12
             /\ YearOk(s.year)
             /\ 12 * s.year + s.month = 12 * y + m + n
             /\ s.month = 12 => YearOk(s.year + 1)
             /\ s.year \in {y + n \div 12, y + n \div 12 + 1}
<1> DEFINE k == m - 1 + n
<1>1. PICK q \in Int : q = k \div 12 /\ k - q * 12 \in 0..11
  BY SMT
<1>2. PICK p \in Int : p = n \div 12 /\ n - p * 12 \in 0..11
  BY SMT
<1>3. /\ q \in {p, p + 1}
      /\ k - q * 12 = 11 => q = p
  BY <1>1, <1>2, SMT
<1>4. YearOk(y + q) /\ (k - q * 12 = 11 => YearOk(y + q + 1))
  BY <1>2, <1>3, SMT DEF Fits, YearOk
<1>5. Byte(k - q * 12 + 1) = k - q * 12 + 1
  BY <1>1, SMT DEF Byte
<1>6. Twelfth(k) = q /\ Short(y + q) = y + q
  BY <1>1, <1>4, TwelfthFloor, YearKept
<1>7. YearMonthAdd(t, n) = [year |-> y + q, month |-> k - q * 12 + 1]
  BY <1>5, <1>6 DEF YearMonthAdd, YearAdd
<1>8. PICK s : s = YearMonthAdd(t, n)
  OBVIOUS
<1>9. s = [year |-> y + q, month |-> k - q * 12 + 1]
  BY <1>7, <1>8
<1>10. s.year = y + q /\ s.month = k - q * 12 + 1
  BY <1>9
<1>11. s = [year |-> s.year, month |-> s.month]
  BY <1>9, <1>10
<1>12. /\ s.year \in Int /\ s.month \in 1..12
       /\ 12 * s.year + s.month = 12 * y + m + n
       /\ s.month = 12 => YearOk(s.year + 1)
       /\ s.year \in {y + n \div 12, y + n \div 12 + 1}
  BY <1>1, <1>2, <1>3, <1>4, <1>10, SMT
<1> QED
  BY <1>4, <1>8, <1>10, <1>11, <1>12

-----------------------------------------------------------------------------
(* The day after the last of a month is the first of the next.              *)
LEMMA FirstAfter ==
  ASSUME NEW y \in Int, NEW m \in 1..12
  PROVE  LET u == IF m = 12 THEN Ymd(y + 1, 1, 1) ELSE Ymd(y, m + 1, 1)
         IN  DayPoint(u) = LastDayPoint(y, m) + 1
<1> DEFINE t == Ymd(y, m, LastDay(y, m))
           u == IF m = 12 THEN Ymd(y + 1, 1, 1) ELSE Ymd(y, m + 1, 1)
<1>1. Ymd(y, m, 1) \in Dates /\ Ymd(y, m, 1).year = y /\ Ymd(y, m, 1).month = m
  BY DEF Ymd, Dates
<1>2. LastDay(y, m) = Days(Ymd(y, m, 1))
  BY <1>1, LastDayIsDays
<1>3. /\ t.year = y /\ t.month = m /\ t.day = LastDay(y, m)
      /\ LastDay(y, m) \in 28..31
  BY <1>1, <1>2 DEF Ymd, Days
<1>4. Days(t) = LastDay(y, m)
  BY <1>1, <1>2, <1>3 DEF Days
<1>5. t \in Dates
  BY <1>3 DEF Dates, Ymd
<1>6. DayAfter(t) = u
  BY <1>3, <1>4, SMT DEF DayAfter
<1> HIDE DEF t, u
<1>7. t.day <= Days(t)
  BY <1>3, <1>4, SMT
<1>8. DayPoint(DayAfter(t)) = DayPoint(t) + 1
  BY <1>5, <1>7, DayPointAfter
<1> QED
  BY <1>6, <1>8 DEF LastDayPoint, t, u

(* What the invariant says of today, for the sums.                          *)
LEMMA TodayIs ==
  ASSUME IInv
  PROVE  /\ today.year \in Int /\ today.month \in 1..12 /\ today.day \in 1..31
         /\ YearOk(today.year) /\ today.day <= Days(today) /\ Days(today) \in 28..31
         /\ today = [year |-> today.year, month |-> today.month, day |-> today.day]
         /\ Days(today) = LastDay(today.year, today.month)
         /\ DayPoint(today) = point /\ point \in Int
         /\ weekday = (point + 4) % 7 /\ weekday \in 0..6
<1>1. today \in Dates
  BY DEF IInv
<1>2. weekday \in 0..6
  BY SMT DEF IInv
<1> QED
  BY <1>1, <1>2, LastDayIsDays DEF IInv, Dates, Days

(* The month b of the year a is n months after the month m of the year y.   *)
MonthsOn(y, m, a, b, n) == 12 * a + b = 12 * y + m + n

Earlier(y, m, a, b) == y < a \/ (y = a /\ m < b)

Parted(y, m, a, b, n) ==
    /\ (a - y) * 12 + (b - m) = n
    /\ (m - 1 + n) \div 12 = a - y
    /\ (m - 1 + n) - (a - y) * 12 + 1 = b
    /\ (b - 1 + (-n)) \div 12 = y - a
    /\ (b - 1 + (-n)) - (y - a) * 12 + 1 = m
    /\ (IF b - m \in 0..11 THEN b - m ELSE b - m + 12) = n % 12
    /\ Earlier(y, m, a, b) <=> n > 0
    /\ n % 12 = 0 => b = m /\ n \div 12 = a - y

LEMMA MonthsApart ==
  ASSUME NEW y \in Int, NEW m \in 1..12, NEW a \in Int, NEW b \in 1..12,
         NEW n \in Int, MonthsOn(y, m, a, b, n)
  PROVE  Parted(y, m, a, b, n)
<1>1. (a - y) * 12 + (b - m) = n
  BY SMT DEF MonthsOn
<1>2. (m - 1 + n) - (a - y) * 12 + 1 = b /\ (b - 1 + (-n)) - (y - a) * 12 + 1 = m
  BY SMT DEF MonthsOn
<1>3. (m - 1 + n) \div 12 = a - y
  BY <1>2, SMT
<1>4. (b - 1 + (-n)) \div 12 = y - a
  BY <1>2, SMT
<1>5. (IF b - m \in 0..11 THEN b - m ELSE b - m + 12) = n % 12
  BY <1>1, SMT
<1>6. Earlier(y, m, a, b) <=> n > 0
  BY SMT DEF MonthsOn, Earlier
<1>7. n % 12 = 0 => b = m /\ n \div 12 = a - y
  BY <1>1, SMT
<1> QED
  BY <1>1, <1>2, <1>3, <1>4, <1>5, <1>6, <1>7 DEF Parted

(* Whole years are twelve months each.                                      *)
LEMMA WholeYears ==
  ASSUME NEW y \in Int, NEW m \in 1..12, NEW t, t.year = y, t.month = m,
         NEW n \in Int, Fits(y + n \div 12), n % 12 = 0
  PROVE  YearMonthAdd(t, n) = [year |-> YearAdd(y, n \div 12), month |-> m]
<1>1. PICK p \in Int : p = n \div 12 /\ n = 12 * p
  BY SMT
<1>2. PICK s : s = YearMonthAdd(t, n)
  OBVIOUS
<1>3. /\ s = [year |-> s.year, month |-> s.month]
      /\ s.year \in Int /\ s.month \in 1..12
      /\ 12 * s.year + s.month = 12 * y + m + n
  BY <1>2, SumIs
<1>4. s.year = y + p /\ s.month = m
  <2>1. s.month = m /\ n \div 12 = s.year - y
    <3>1. MonthsOn(y, m, s.year, s.month, n)
      BY <1>3 DEF MonthsOn
    <3> QED
      BY <1>3, <3>1, MonthsApart DEF Parted
  <2> QED
    BY <1>1, <1>3, <2>1
<1>5. YearOk(y + p)
  BY <1>1, SMT DEF Fits, YearOk
<1>6. YearAdd(y, n \div 12) = y + p
  BY <1>1, <1>5, YearKept DEF YearAdd
<1> QED
  BY <1>2, <1>3, <1>4, <1>6

-----------------------------------------------------------------------------
LEMMA MonthsInv ==
  ASSUME IInv, NEW n \in Int, Fits(today.year + n \div 12)
  PROVE  LET sum == YearMonthAdd(today, n)
         IN  /\ YearMonthMinus(sum, today) = n
             /\ YearMonthAdd(sum, -n) = [year |-> today.year, month |-> today.month]
             /\ MonthMinus(sum.month, today.month) = n % 12
             /\ MonthAdd(today.month, n) = sum.month
             /\ n = 1 => MonthNext(today.month) = sum.month
             /\ n = -1 => MonthPrev(today.month) = sum.month
             /\ YearMonthLess(today, sum) <=> n > 0
<1> DEFINE y == today.year
           m == today.month
<1>1. y \in Int /\ m \in 1..12 /\ YearOk(y)
  BY TodayIs
<1>2. PICK sum : sum = YearMonthAdd(today, n)
  OBVIOUS
<1>3. /\ sum.year \in Int /\ sum.month \in 1..12
      /\ 12 * sum.year + sum.month = 12 * y + m + n
  BY <1>1, <1>2, SumIs
<1> HIDE DEF y, m
<1>4. PICK a \in Int : a = sum.year
  BY <1>3
<1>5. PICK b \in 1..12 : b = sum.month
  BY <1>3
<1>6. /\ (a - y) * 12 + (b - m) = n
      /\ (m - 1 + n) \div 12 = a - y
      /\ (m - 1 + n) - (a - y) * 12 + 1 = b
      /\ (b - 1 + (-n)) \div 12 = y - a
      /\ (b - 1 + (-n)) - (y - a) * 12 + 1 = m
      /\ (IF b - m \in 0..11 THEN b - m ELSE b - m + 12) = n % 12
      /\ Earlier(y, m, a, b) <=> n > 0
  <2>1. MonthsOn(y, m, a, b, n)
    BY <1>3, <1>4, <1>5 DEF MonthsOn
  <2>2. Parted(y, m, a, b, n)
    BY <1>1, <2>1, MonthsApart
  <2> QED
    BY <2>2 DEF Parted
<1>7. Byte(b) = b /\ Byte(m) = m
  BY <1>1, SMT DEF Byte
<1>8. YearMonthMinus(sum, today) = n
  BY <1>4, <1>5, <1>6 DEF YearMonthMinus, YearMinus, y, m
<1>9. YearMonthAdd(sum, -n) = [year |-> y, month |-> m]
  <2>1. Twelfth(b - 1 + (-n)) = y - a
    BY <1>1, <1>6, TwelfthFloor
  <2>2. Short(a + (y - a)) = y
    BY <1>1, YearKept
  <2> QED
    BY <1>4, <1>5, <1>6, <1>7, <2>1, <2>2 DEF YearMonthAdd, YearAdd
<1>10. MonthMinus(b, m) = n % 12
  BY <1>6 DEF MonthMinus
<1>11. MonthAdd(m, n) = b
  <2>1. m - 1 + n \in Int
    BY <1>1
  <2>2. Twelfth(m - 1 + n) = a - y
    BY <1>6, <2>1, TwelfthFloor, Zenon
  <2> QED
    BY <1>6, <1>7, <2>2 DEF MonthAdd
<1>12. n = 1 => MonthNext(m) = b
  <2>1. ASSUME n = 1 PROVE b = IF m = 12 THEN 1 ELSE m + 1
    BY <1>1, <1>6, <2>1, SMT
  <2> QED
    BY <1>1, <2>1, SMT DEF MonthNext, Byte
<1>13. n = -1 => MonthPrev(m) = b
  <2>1. ASSUME n = -1 PROVE b = IF m = 1 THEN 12 ELSE m - 1
    BY <1>1, <1>6, <2>1, SMT
  <2> QED
    BY <1>1, <2>1, SMT DEF MonthPrev, Byte
<1>14. YearMonthLess(today, sum) <=> n > 0
  BY <1>4, <1>5, <1>6 DEF YearMonthLess, Earlier, y, m
<1> QED
  BY <1>2, <1>5, <1>8, <1>9, <1>10, <1>11, <1>12, <1>13, <1>14 DEF y, m

LEMMA DateMonthsInv ==
  ASSUME IInv, NEW n \in Int, Fits(today.year + n \div 12)
  PROVE  LET sum == YearMonthAdd(today, n)
             end == YmdlAddMonths(today, n)
             after == YearMonthAdd(end, 1)
         IN  /\ YmdOk(YmdAddMonths(today, n)) <=>
                   MonthDayOk(sum.month, today.day) /\
                      (sum.month = 2 /\ today.day = 29 => Leap(sum.year))
             /\ YmdlOk(end)
             /\ LastDayPoint(end.year, end.month) + 1
                   = DayPoint(Ymd(after.year, after.month, 1))
             /\ YmdlLess(today, end) <=> n > 0
<1> DEFINE y == today.year
           m == today.month
<1>1. y \in Int /\ m \in 1..12 /\ YearOk(y) /\ today.day \in 1..31
  BY TodayIs
<1>2. PICK sum : sum = YearMonthAdd(today, n)
  OBVIOUS
<1>3. /\ sum = [year |-> sum.year, month |-> sum.month]
      /\ sum.year \in Int /\ sum.month \in 1..12
      /\ 12 * sum.year + sum.month = 12 * y + m + n
      /\ YearOk(sum.year)
      /\ sum.month = 12 => YearOk(sum.year + 1)
  BY <1>1, <1>2, SumIs
<1> HIDE DEF y, m
<1>4. YmdlAddMonths(today, n) = sum
  BY <1>2, <1>3 DEF YmdlAddMonths
<1>5. YmdOk(YmdAddMonths(today, n)) <=>
         MonthDayOk(sum.month, today.day) /\
            (sum.month = 2 /\ today.day = 29 => Leap(sum.year))
  <2>1. YmdAddMonths(today, n) = Ymd(sum.year, sum.month, today.day)
    BY <1>2 DEF YmdAddMonths
  <2>2. YmdOk(YmdAddMonths(today, n)) <=> today.day \in 1..LastDay(sum.year, sum.month)
    BY <1>3, <2>1 DEF YmdOk, Ymd, MonthOk
  <2>3. is_leap(sum.year) <=> Leap(sum.year)
    BY <1>3, LeapIsLeap
  <2>4. \A k \in 1..12 :
           /\ <<31, 28, 31, 30, 31, 30, 31, 31, 30, 31, 30, 31>>[k] =
                 IF k \in {4, 6, 9, 11} THEN 30 ELSE IF k # 2 THEN 31 ELSE 28
           /\ <<31, 29, 31, 30, 31, 30, 31, 31, 30, 31, 30, 31>>[k] =
                 IF k \in {4, 6, 9, 11} THEN 30 ELSE IF k # 2 THEN 31 ELSE 29
    OBVIOUS
  <2>5. LastDay(sum.year, sum.month) =
           IF sum.month \in {4, 6, 9, 11} THEN 30 ELSE IF sum.month # 2 THEN 31
           ELSE IF Leap(sum.year) THEN 29 ELSE 28
    BY <1>3, <2>3, <2>4 DEF LastDay
  <2>6. MonthDayOk(sum.month, today.day) <=>
           today.day \in 1..(IF sum.month \in {4, 6, 9, 11} THEN 30
                             ELSE IF sum.month # 2 THEN 31 ELSE 29)
    BY <1>3, <2>4 DEF MonthDayOk, MonthOk
  <2>7. CASE sum.month # 2
    BY <2>2, <2>5, <2>6, <2>7
  <2>8. CASE sum.month = 2
    BY <1>1, <2>2, <2>5, <2>6, <2>8
  <2> QED
    BY <2>7, <2>8
<1>6. YmdlOk(sum)
  BY <1>3 DEF YmdlOk, MonthOk
<1>7. LET after == YearMonthAdd(sum, 1)
      IN  LastDayPoint(sum.year, sum.month) + 1 = DayPoint(Ymd(after.year, after.month, 1))
  <2> DEFINE q == IF sum.month = 12 THEN 1 ELSE 0
  <2>1. (sum.month - 1 + 1) \div 12 = q
    BY <1>3, SMT
  <2>2. Twelfth(sum.month - 1 + 1) = q
    BY <1>3, <2>1, TwelfthFloor
  <2>3. YearOk(sum.year + q) /\ Short(sum.year + q) = sum.year + q
    BY <1>3, YearKept
  <2>4. Byte((sum.month - 1 + 1) - q * 12 + 1) = IF sum.month = 12 THEN 1 ELSE sum.month + 1
    BY <1>3, SMT DEF Byte
  <2>5. PICK after : after = YearMonthAdd(sum, 1)
    OBVIOUS
  <2> HIDE DEF q
  <2>6. after = [year |-> sum.year + q, month |-> IF sum.month = 12 THEN 1 ELSE sum.month + 1]
    BY <2>2, <2>3, <2>4, <2>5 DEF YearMonthAdd, YearAdd
  <2>7. /\ after.year = IF sum.month = 12 THEN sum.year + 1 ELSE sum.year
        /\ after.month = IF sum.month = 12 THEN 1 ELSE sum.month + 1
    BY <1>3, <2>6 DEF q
  <2>8. Ymd(after.year, after.month, 1) = IF sum.month = 12 THEN Ymd(sum.year + 1, 1, 1)
                                          ELSE Ymd(sum.year, sum.month + 1, 1)
    BY <2>7
  <2> QED
    BY <1>3, <2>5, <2>8, FirstAfter
<1>8. YmdlLess(today, sum) <=> n > 0
  <2>1. Earlier(y, m, sum.year, sum.month) <=> n > 0
    <3>1. MonthsOn(y, m, sum.year, sum.month, n)
      BY <1>3 DEF MonthsOn
    <3> QED
      BY <1>1, <1>3, <3>1, MonthsApart DEF Parted
  <2> QED
    BY <2>1 DEF YmdlLess, Earlier, y, m
<1> QED
  BY <1>2, <1>4, <1>5, <1>6, <1>7, <1>8 DEF y, m

(* Months added to a year and a month, to a date, or to the last day of a   *)
(* month, are months counted, can be taken off again and come in their      *)
(* order, for every number of months and every year a short holds with room *)
(* for the sum; years are twelve of them, and the last day of a month is    *)
(* the one before the first of the next.                                    *)
THEOREM MonthsAlwaysAddUp == Spec => []MonthsAddUp
<1>1. IInv => MonthsAddUp
  <2> SUFFICES ASSUME IInv, NEW n \in Months, Fits(today.year + n \div 12)
               PROVE  LET sum == YearMonthAdd(today, n)
                      IN  /\ YearMonthMinus(sum, today) = n
                          /\ YearMonthAdd(sum, -n) = [year |-> today.year, month |-> today.month]
                          /\ MonthMinus(sum.month, today.month) = n % 12
                          /\ MonthAdd(today.month, n) = sum.month
                          /\ n = 1 => MonthNext(today.month) = sum.month
                          /\ n = -1 => MonthPrev(today.month) = sum.month
                          /\ YearMonthLess(today, sum) <=> n > 0
                          /\ YmdOk(YmdAddMonths(today, n)) <=>
                                MonthDayOk(sum.month, today.day) /\
                                   (sum.month = 2 /\ today.day = 29 => Leap(sum.year))
                          /\ LET end == YmdlAddMonths(today, n)
                                 after == YearMonthAdd(end, 1)
                             IN  /\ YmdlOk(end)
                                 /\ LastDayPoint(end.year, end.month) + 1
                                       = DayPoint(Ymd(after.year, after.month, 1))
                                 /\ YmdlLess(today, end) <=> n > 0
                          /\ n % 12 = 0 =>
                                /\ YmdAddYears(today, n \div 12) = YmdAddMonths(today, n)
                                /\ YearMonthAddYears(today, n \div 12) = sum
                                /\ YmdlAddYears(today, n \div 12) = YmdlAddMonths(today, n)
    BY DEF MonthsAddUp
  <2>1. n \in Int
    BY MonthsAssumption
  <2>2. ASSUME n % 12 = 0
        PROVE  /\ YmdAddYears(today, n \div 12) = YmdAddMonths(today, n)
               /\ YearMonthAddYears(today, n \div 12) = YearMonthAdd(today, n)
               /\ YmdlAddYears(today, n \div 12) = YmdlAddMonths(today, n)
    <3>1. YearMonthAdd(today, n) = [year |-> YearAdd(today.year, n \div 12), month |-> today.month]
      BY <2>1, <2>2, TodayIs, WholeYears
    <3> QED
      BY <3>1 DEF YmdAddYears, YmdAddMonths, YearMonthAddYears, YmdlAddYears, YmdlAddMonths
  <2> QED
    BY <2>1, <2>2, MonthsInv, DateMonthsInv
<1> QED
  BY <1>1, SpecIInv, PTL

-----------------------------------------------------------------------------
(* Days of one month are as far apart as their numbers.                     *)
LEMMA SameMonth ==
  ASSUME NEW t \in Dates, NEW d \in 1..31
  PROVE  LET u == Ymd(t.year, t.month, d)
         IN  /\ u \in Dates /\ u.year = t.year /\ u.month = t.month /\ u.day = d
             /\ Days(u) = Days(t)
             /\ DayPoint(u) = DayPoint(t) + (d - t.day)
<1> DEFINE u == Ymd(t.year, t.month, d)
<1>1. t.year \in Int /\ t.month \in 1..12 /\ t.day \in 1..31
  BY DEF Dates
<1>2. u \in Dates /\ u.year = t.year /\ u.month = t.month /\ u.day = d
  BY <1>1 DEF Dates, Ymd
<1>3. Days(u) = Days(t)
  BY <1>2 DEF Days
<1>4. MarchYear(u) = MarchYear(t) /\ DayOfYear(u) = DayOfYear(t) + (d - t.day)
  BY <1>1, <1>2, SMT DEF MarchYear, DayOfYear
<1>5. PICK n \in Int : n = DaysBefore(MarchYear(t))
  BY <1>1, YearLength, SMT DEF MarchYear
<1>6. PICK k \in Int : k = DayOfYear(t)
  BY <1>1, SMT DEF DayOfYear
<1> HIDE DEF u
<1>7. DayPoint(u) = DayPoint(t) + (d - t.day)
  BY <1>1, <1>4, <1>5, <1>6, SMT DEF DayPoint
<1> QED
  BY <1>2, <1>3, <1>7 DEF u

(* Multiples of a week or two, below and above.                             *)
LEMMA FloorIs ==
  ASSUME NEW n \in Int, NEW k \in {7, 14}
  PROVE  /\ Floor(n, k) = n \div k
         /\ Ceil(n, k) = -((-n) \div k)
<1>1. CASE k = 7
  <2>1. CASE n >= 0
    BY <1>1, <2>1, SMT DEF Floor, Ceil, Truncate, TDiv
  <2>2. CASE n < 0
    BY <1>1, <2>2, SMT DEF Floor, Ceil, Truncate, TDiv
  <2> QED
    BY <2>1, <2>2
<1>2. CASE k = 14
  <2>1. CASE n >= 0
    BY <1>2, <2>1, SMT DEF Floor, Ceil, Truncate, TDiv
  <2>2. CASE n < 0
    BY <1>2, <2>2, SMT DEF Floor, Ceil, Truncate, TDiv
  <2> QED
    BY <2>1, <2>2
<1> QED
  BY <1>1, <1>2

LEMMA RoundIs ==
  ASSUME NEW n \in Int, NEW k \in {7, 14}
  PROVE  /\ n - Floor(n, k) * k \in 0..(k - 1)
         /\ 2 * (n - Round(n, k) * k) \in -k..k
         /\ 2 * (n - Round(n, k) * k) \in {-k, k} => Round(n, k) % 2 = 0
<1>1. PICK f \in Int : f = Floor(n, k) /\ n - f * k \in 0..(k - 1)
  <2>1. n \div k \in Int /\ n - (n \div k) * k \in 0..(k - 1)
    <3>1. CASE k = 7
      BY <3>1, SMT
    <3>2. CASE k = 14
      BY <3>2, SMT
    <3> QED
      BY <3>1, <3>2
  <2> QED
    BY <2>1, FloorIs
<1>2. PICK r : r = Round(n, k)
  OBVIOUS
<1>3. r = IF n - f * k < (f + 1) * k - n \/ (n - f * k = (f + 1) * k - n /\ f % 2 = 0)
          THEN f ELSE f + 1
  BY <1>1, <1>2 DEF Round
<1>4. r \in Int
  BY <1>3
<1>5. 2 * (n - r * k) \in -k..k /\ (2 * (n - r * k) \in {-k, k} => r % 2 = 0)
  <2>1. CASE k = 7
    BY <1>1, <1>3, <1>4, <2>1, SMT
  <2>2. CASE k = 14
    BY <1>1, <1>3, <1>4, <2>2, SMT
  <2> QED
    BY <2>1, <2>2
<1> QED
  BY <1>1, <1>2, <1>5

(* The arithmetic of weekdays is that of the days of the week.              *)
LEMMA WeekdaysIs ==
  ASSUME NEW z \in Int, NEW w \in 0..6, w = (z + 4) % 7, NEW n \in Int
  PROVE  /\ WeekdayNext(w) = (z + 1 + 4) % 7
         /\ WeekdayPrev(w) = (z - 1 + 4) % 7
         /\ WeekdayAdd(w, n) = (z + n + 4) % 7
         /\ WeekdayMinus((z + n + 4) % 7, w) = n % 7
<1>1. WeekdayNext(w) = (z + 1 + 4) % 7
  BY SMT DEF WeekdayNext, Byte
<1>2. WeekdayPrev(w) = (z - 1 + 4) % 7
  BY SMT DEF WeekdayPrev
<1>3. WeekdayAdd(w, n) = (z + n + 4) % 7
  <2>1. PICK q \in Int : q = (w + n) \div 7 /\ w + n - q * 7 \in 0..6
    BY SMT
  <2>2. TDiv(IF w + n >= 0 THEN w + n ELSE w + n - 6, 7) = q
    BY <2>1, SMT DEF TDiv
  <2>3. Byte(w + n - q * 7) = w + n - q * 7
    BY <2>1, SMT DEF Byte
  <2>4. w + n - q * 7 = (z + n + 4) % 7
    BY <2>1, SMT
  <2> QED
    BY <2>2, <2>3, <2>4 DEF WeekdayAdd
<1>4. WeekdayMinus((z + n + 4) % 7, w) = n % 7
  BY SMT DEF WeekdayMinus
<1> QED
  BY <1>1, <1>2, <1>3, <1>4

(* Days added to a weekday and to the day of a month are days gone by, for  *)
(* any number of days and any date a short's year can hold, and a week, or  *)
(* two, that a day_point is rounded to is the nearest one, the even one of  *)
(* two.                                                                     *)
THEOREM DaysAlwaysAddUp == Spec => []DaysAddUp
<1>1. IInv => DaysAddUp
  <2> SUFFICES ASSUME IInv PROVE DaysAddUp
    OBVIOUS
  <2>1. /\ WeekdayNext(weekday) = weekday_from_days(point + 1)
        /\ WeekdayPrev(weekday) = weekday_from_days(point - 1)
    <3>1. point + 1 \in Int /\ point - 1 \in Int /\ 0 \in Int
      BY TodayIs
    <3>2. /\ WeekdayNext(weekday) = (point + 1 + 4) % 7
          /\ WeekdayPrev(weekday) = (point - 1 + 4) % 7
      BY <3>1, TodayIs, WeekdaysIs
    <3> QED
      BY <3>1, <3>2, WeekdayMod
  <2>2. ASSUME NEW n \in Months
        PROVE  /\ WeekdayAdd(weekday, n) = weekday_from_days(point + n)
               /\ WeekdayMinus(weekday_from_days(point + n), weekday) = n % 7
    <3>1. n \in Int /\ point + n \in Int
      BY MonthsAssumption, TodayIs
    <3>2. weekday_from_days(point + n) = (point + n + 4) % 7
      BY <3>1, WeekdayMod
    <3> QED
      BY <3>1, <3>2, TodayIs, WeekdaysIs
  <2>3. ASSUME NEW n \in Months, today.day + n \in 1..Days(today)
        PROVE  /\ DayAdd(today.day, n) = FromDayPoint(point + n).day
               /\ n > 0 => /\ YmdLess(today, FromDayPoint(point + n))
                           /\ MonthDayLess(today, FromDayPoint(point + n))
    <3>1. n \in Int /\ today \in Dates /\ today.day + n \in 1..31 /\ point \in Int
      BY <2>3, MonthsAssumption, TodayIs DEF IInv
    <3>2. PICK d \in 1..31 : d = today.day + n
      BY <3>1
    <3>3. PICK u : /\ u \in Dates /\ u.year = today.year /\ u.month = today.month
                   /\ u.day = d /\ Days(u) = Days(today)
                   /\ DayPoint(u) = DayPoint(today) + (d - today.day)
      BY <3>1, SameMonth
    <3>4. DayPoint(u) = point + n
      BY <3>1, <3>2, <3>3, TodayIs, SMT
    <3>5. FromDayPoint(point + n) = u
      BY <2>3, <3>2, <3>3, <3>4, TodayIs, FromDayPointInverts
    <3>6. Byte(today.day + n) = today.day + n
      BY <3>1, SMT DEF Byte
    <3>7. n > 0 => today.day < today.day + n
      BY <3>1, TodayIs, SMT
    <3> QED
      BY <3>2, <3>3, <3>5, <3>6, <3>7 DEF DayAdd, YmdLess, MonthDayLess
  <2>4. ASSUME NEW k \in {7, 14}
        PROVE  /\ point - Floor(point, k) * k \in 0..(k - 1)
               /\ Ceil(point, k) = -Floor(-point, k)
               /\ LET off == point - Round(point, k) * k
                  IN  2 * off \in -k..k /\ (2 * off \in {-k, k} => Round(point, k) % 2 = 0)
    <3>1. point \in Int /\ -point \in Int
      BY TodayIs
    <3>2. Ceil(point, k) = -((-point) \div k) /\ Floor(-point, k) = (-point) \div k
      BY <3>1, FloorIs
    <3> QED
      BY <3>1, <3>2, RoundIs
  <2> QED
    BY <2>1, <2>2, <2>3, <2>4 DEF DaysAddUp
<1> QED
  BY <1>1, SpecIInv, PTL

-----------------------------------------------------------------------------
LEMMA WeekdaysApart ==
  ASSUME NEW w \in 0..6, NEW z \in Int
  PROVE  /\ WeekdayMinus(w, weekday_from_days(z)) = (w - z - 4) % 7
         /\ WeekdayMinus(weekday_from_days(z), w) = (z + 4 - w) % 7
         /\ (w - z - 4) % 7 \in 0..6 /\ (z + 4 - w) % 7 \in 0..6
<1>1. PICK x \in 0..6 : x = (z + 4) % 7
  BY SMT
<1>2. weekday_from_days(z) = x
  BY <1>1, WeekdayMod
<1>3. WeekdayMinus(w, x) = (w - z - 4) % 7 /\ WeekdayMinus(x, w) = (z + 4 - w) % 7
  BY <1>1, SMT DEF WeekdayMinus
<1>4. (w - z - 4) % 7 \in 0..6 /\ (z + 4 - w) % 7 \in 0..6
  BY SMT
<1> QED
  BY <1>2, <1>3, <1>4

(* The days from the first of a month to the first w in it.                 *)
FirstDay(y, m) == DayPoint(Ymd(y, m, 1))
Wait(y, m, w) == (w - FirstDay(y, m) - 4) % 7

LEMMA FirstDayIs ==
  ASSUME NEW y \in Int, NEW m \in 1..12
  PROVE  /\ Ymd(y, m, 1) \in Dates
         /\ FirstDay(y, m) \in Int
         /\ LastDay(y, m) \in 28..31
         /\ LastDayPoint(y, m) = FirstDay(y, m) + LastDay(y, m) - 1
<1> DEFINE t == Ymd(y, m, 1)
<1>1. t \in Dates /\ t.year = y /\ t.month = m /\ t.day = 1
  BY DEF Ymd, Dates
<1>2. LastDay(y, m) = Days(t) /\ Days(t) \in 28..31
  BY <1>1, LastDayIsDays DEF Days
<1>3. PICK n \in Int : n = DaysBefore(MarchYear(t))
  BY <1>1, YearLength, SMT DEF MarchYear
<1>4. PICK k \in Int : k = DayOfYear(t)
  BY <1>1, SMT DEF DayOfYear
<1>5. LastDayPoint(y, m) = DayPoint(t) + (Days(t) - 1)
  BY <1>1, LastDayAway
<1> HIDE DEF t
<1>6. DayPoint(t) \in Int
  BY <1>3, <1>4, SMT DEF DayPoint
<1> QED
  BY <1>1, <1>2, <1>5, <1>6, SMT DEF FirstDay, t

(* The index-th w of a month: where it is, and whether it still is in it,   *)
(* when the month begins at f and its first w comes e days later.           *)
NthAt(y, m, w, i, f, e) ==
    /\ YmwDayPoint(Ymw(y, m, w, i)) = f + e + (i - 1) * 7
    /\ YmwOk(Ymw(y, m, w, i)) <=> e + (i - 1) * 7 + 1 <= LastDay(y, m)

LEMMA WaitIs ==
  ASSUME NEW y \in Int, NEW m \in 1..12, NEW w \in 0..6
  PROVE  Wait(y, m, w) \in 0..6
<1>1. PICK f \in Int : f = FirstDay(y, m)
  BY FirstDayIs
<1> QED
  BY <1>1, WeekdaysApart DEF Wait

LEMMA NthIs ==
  ASSUME NEW y \in Int, NEW m \in 1..12, NEW w \in 0..6, NEW i \in 1..6,
         YearOk(y), NEW f \in Int, f = FirstDay(y, m),
         NEW e \in 0..6, e = Wait(y, m, w)
  PROVE  NthAt(y, m, w, i, f, e)
<1>1. PICK t : t = Ymw(y, m, w, i)
  OBVIOUS
<1>2. t.year = y /\ t.month = m /\ t.weekday = w /\ t.index = i
  BY <1>1 DEF Ymw
<1>3. FirstOf(t) = f
  BY <1>2 DEF FirstOf, FirstDay
<1>4. WeekdayMinus(w, weekday_from_days(f)) = e
  BY WeekdaysApart DEF Wait
<1>5. YmwDayPoint(t) = f + e + (i - 1) * 7
  BY <1>2, <1>3, <1>4 DEF YmwDayPoint
<1>6. YmwOk(t) <=> i <= 4 \/ e + (i - 1) * 7 + 1 <= LastDay(y, m)
  BY <1>2, <1>3, <1>4 DEF YmwOk, MonthOk, WeekdayOk
<1>7. i <= 4 => e + (i - 1) * 7 + 1 <= LastDay(y, m)
  <2>1. PICK l \in 28..31 : l = LastDay(y, m)
    BY FirstDayIs
  <2>2. i <= 4 => e + (i - 1) * 7 + 1 <= 28
    BY SMT
  <2> QED
    BY <2>1, <2>2, SMT
<1> QED
  BY <1>1, <1>5, <1>6, <1>7 DEF NthAt

(* A day counted from the first of a month is in it if it is not beyond its *)
(* last, and otherwise, up to four weeks beyond, in the next.               *)
LEMMA MonthOfDay ==
  ASSUME NEW y \in Int, NEW m \in 1..12, NEW d \in 1..56, YearOk(y),
         m = 12 => YearOk(y + 1)
  PROVE  FromDayPoint(FirstDay(y, m) + d - 1).month = m <=> d <= LastDay(y, m)
<1>1. PICK l \in 28..31 : l = LastDay(y, m)
  BY FirstDayIs
<1>2. PICK f \in Int : f = FirstDay(y, m)
  BY FirstDayIs
<1>3. CASE d <= l
  <2>1. d \in 1..31
    BY <1>3
  <2>2. PICK t : /\ t \in Dates /\ t.year = y /\ t.month = m /\ t.day = 1
                 /\ DayPoint(t) = f /\ Days(t) = l
    <3>1. Ymd(y, m, 1).year = y /\ Ymd(y, m, 1).month = m /\ Ymd(y, m, 1).day = 1
      BY DEF Ymd
    <3>2. Ymd(y, m, 1) \in Dates
      BY FirstDayIs
    <3> QED
      BY <1>1, <1>2, <3>1, <3>2, LastDayIsDays DEF FirstDay
  <2>3. PICK u : /\ u \in Dates /\ u.year = t.year /\ u.month = t.month /\ u.day = d
                 /\ Days(u) = Days(t) /\ DayPoint(u) = DayPoint(t) + (d - t.day)
    BY <2>1, <2>2, SameMonth, SMTT(60)
  <2>4. DayPoint(u) = f + d - 1
    BY <2>2, <2>3, SMT
  <2>5. FromDayPoint(f + d - 1) = u
    BY <1>3, <2>2, <2>3, <2>4, FromDayPointInverts
  <2> QED
    BY <1>1, <1>2, <1>3, <2>2, <2>3, <2>5
<1>4. CASE d > l
  <2>1. PICK b \in 1..28 : b = d - l
    BY <1>4
  <2>2. PICK t : /\ t \in Dates /\ t.month # m /\ t.day = 1 /\ YearOk(t.year)
                 /\ DayPoint(t) = f + l
    <3> DEFINE u == IF m = 12 THEN Ymd(y + 1, 1, 1) ELSE Ymd(y, m + 1, 1)
    <3>1. DayPoint(u) = LastDayPoint(y, m) + 1
      BY FirstAfter
    <3>2. LastDayPoint(y, m) = f + l - 1
      BY <1>1, <1>2, FirstDayIs
    <3>3. u \in Dates /\ u.month # m /\ u.day = 1 /\ YearOk(u.year)
      BY DEF Dates, Ymd
    <3> HIDE DEF u
    <3>4. DayPoint(u) = f + l
      BY <3>1, <3>2, SMT
    <3> QED
      BY <3>3, <3>4
  <2>3. b \in 1..31
    OBVIOUS
  <2>4. PICK u : /\ u \in Dates /\ u.year = t.year /\ u.month = t.month /\ u.day = b
                 /\ Days(u) = Days(t) /\ DayPoint(u) = DayPoint(t) + (b - t.day)
    BY <2>2, <2>3, SameMonth
  <2>5. DayPoint(u) = f + d - 1
    BY <2>1, <2>2, <2>4, SMT
  <2>6. u.day <= Days(u)
    BY <2>4 DEF Days
  <2>7. FromDayPoint(f + d - 1) = u
    BY <2>2, <2>4, <2>5, <2>6, FromDayPointInverts
  <2> QED
    BY <1>1, <1>2, <1>4, <2>2, <2>4, <2>7
<1> QED
  BY <1>3, <1>4

(* The last w of a month is one, in its last seven days.                    *)
LEMMA LastIs ==
  ASSUME NEW y \in Int, NEW m \in 1..12, NEW w \in 0..6
  PROVE  LET p == YmwLastDayPoint(y, m, w)
         IN  /\ p = LastDayPoint(y, m) - ((LastDayPoint(y, m) + 4 - w) % 7)
             /\ weekday_from_days(p) = w
             /\ LastDayPoint(y, m) - p \in 0..6
<1>1. PICK d \in Int : d = LastDayPoint(y, m)
  <2>1. PICK f \in Int : f = FirstDay(y, m)
    BY FirstDayIs
  <2>2. PICK l \in 28..31 : l = LastDay(y, m)
    BY FirstDayIs
  <2>3. LastDayPoint(y, m) = f + l - 1
    BY <2>1, <2>2, FirstDayIs
  <2>4. f + l - 1 \in Int
    OBVIOUS
  <2> QED
    BY <2>3, <2>4
<1>2. PICK e \in 0..6 : e = (d + 4 - w) % 7 /\ WeekdayMinus(weekday_from_days(d), w) = e
  BY WeekdaysApart
<1>3. YmwLastDayPoint(y, m, w) = d - e
  BY <1>1, <1>2 DEF YmwLastDayPoint
<1>4. (d - e + 4) % 7 = w /\ d - e \in Int
  BY <1>2, SMT
<1>5. weekday_from_days(d - e) = w
  BY <1>4, WeekdayMod
<1> QED
  BY <1>1, <1>2, <1>3, <1>5

(* An index-th weekday is a good date exactly if it is in its month.        *)
LEMMA NthInMonth ==
  ASSUME NEW y \in Int, NEW m \in 1..12, NEW w \in 0..6, NEW i \in 1..6,
         YearOk(y), m = 12 => YearOk(y + 1)
  PROVE  LET t == Ymw(y, m, w, i)
         IN  YmwOk(t) <=> FromDayPoint(YmwDayPoint(t)).month = m
<1>1. PICK t : t = Ymw(y, m, w, i)
  OBVIOUS
<1>2. PICK e \in 0..6 : e = Wait(y, m, w)
  BY WaitIs
<1>3. PICK f \in Int : f = FirstDay(y, m)
  BY FirstDayIs
<1>4. YmwDayPoint(t) = f + e + (i - 1) * 7
      /\ (YmwOk(t) <=> e + (i - 1) * 7 + 1 <= LastDay(y, m))
  <2>1. NthAt(y, m, w, i, f, e)
    BY <1>2, <1>3, NthIs
  <2> QED
    BY <1>1, <2>1 DEF NthAt
<1>5. PICK d \in 1..56 : d = e + (i - 1) * 7 + 1
  BY SMT
<1>6. YmwDayPoint(t) = f + d - 1 /\ (YmwOk(t) <=> d <= LastDay(y, m))
  BY <1>4, <1>5, SMT
<1>7. FromDayPoint(f + d - 1).month = m <=> d <= LastDay(y, m)
  BY <1>3, MonthOfDay
<1> QED
  BY <1>1, <1>6, <1>7

(* The wall calendar has counted as many of today's weekday as there were.  *)
LEMMA CountedIs ==
  ASSUME IInv, SeenInv
  PROVE  /\ seen[weekday] = (today.day - 1) \div 7 + 1
         /\ seen[weekday] \in 1..5
         /\ FirstDay(today.year, today.month) = point - (today.day - 1)
         /\ Wait(today.year, today.month, weekday) + (seen[weekday] - 1) * 7 = today.day - 1
<1>1. /\ today \in Dates /\ today.day \in 1..31 /\ weekday \in 0..6
      /\ point \in Int /\ weekday = (point + 4) % 7 /\ DayPoint(today) = point
  BY TodayIs DEF IInv
<1>2. PICK i \in 1..5 : i = (today.day - 1) \div 7 + 1
  BY <1>1, SMT
<1>3. seen[weekday] = i
  <2>1. (weekday - weekday) % 7 = 0
    BY <1>1, SMT
  <2>2. seen[weekday] = (today.day - 1 - ((weekday - weekday) % 7)) \div 7 + 1
    BY <1>1 DEF SeenInv
  <2> QED
    BY <1>1, <1>2, <2>1, <2>2, SMT
<1>4. FirstDay(today.year, today.month) = point - (today.day - 1)
  <2>1. DayPoint(Ymd(today.year, today.month, 1)) = DayPoint(today) + (1 - today.day)
    BY <1>1, SameMonth
  <2> QED
    BY <1>1, <2>1, SMT DEF FirstDay
<1>5. Wait(today.year, today.month, weekday) + (i - 1) * 7 = today.day - 1
  <2>1. PICK d \in 1..31 : d = today.day
    BY <1>1
  <2>2. Wait(today.year, today.month, weekday) = (weekday - (point - (d - 1)) - 4) % 7
    BY <1>4, <2>1 DEF Wait
  <2>3. (weekday - (point - (d - 1)) - 4) % 7 = (d - 1) % 7
    BY <1>1, SMT
  <2>4. ((d - 1) % 7) + ((d - 1) \div 7) * 7 = d - 1
    BY SMT
  <2> QED
    BY <1>2, <2>1, <2>2, <2>3, <2>4, SMT
<1> QED
  BY <1>2, <1>3, <1>4, <1>5

LEMMA NthToday ==
  ASSUME IInv, SeenInv
  PROVE  LET t == Ymw(today.year, today.month, weekday, seen[weekday])
             next == [t EXCEPT !.index = @ + 1]
         IN  /\ YmwFromDayPoint(point) = t
             /\ YmwOk(t) /\ (YmwOk(next) <=> today.day + 7 <= Days(today))
             /\ YmwDayPoint(t) = point /\ YmwDayPoint(next) = point + 7
<1> DEFINE y == today.year
           m == today.month
<1>1. /\ y \in Int /\ m \in 1..12 /\ YearOk(y) /\ weekday \in 0..6 /\ point \in Int
      /\ today.day \in 1..31 /\ today.day <= Days(today) /\ Days(today) \in 28..31
      /\ Days(today) = LastDay(y, m)
  BY TodayIs
<1>2. PICK i \in 1..5 : i = seen[weekday]
  BY CountedIs
<1>3. PICK f \in Int : f = FirstDay(y, m) /\ f = point - (today.day - 1)
  BY <1>1, CountedIs, SMT
<1>4. PICK e \in 0..6 : e = Wait(y, m, weekday)
  BY <1>1, WaitIs
<1>5. e + (i - 1) * 7 = today.day - 1
  BY <1>2, <1>4, CountedIs
<1>6. PICK j \in 2..6 : j = i + 1
  OBVIOUS
<1>7. [Ymw(y, m, weekday, i) EXCEPT !.index = @ + 1] = Ymw(y, m, weekday, j)
  BY <1>6 DEF Ymw
<1>8. YmwFromDayPoint(point) = Ymw(y, m, weekday, i)
  <2>1. FromDayPoint(point) = today
    BY FromDayPointInverts DEF IInv
  <2>2. weekday_from_days(point) = weekday
    BY WeekdayMod DEF IInv
  <2>3. i = (today.day - 1) \div 7 + 1
    BY <1>2, CountedIs
  <2> QED
    BY <2>1, <2>2, <2>3 DEF YmwFromDayPoint
<1> HIDE DEF y, m
<1>9. YmwOk(Ymw(y, m, weekday, i)) /\ YmwDayPoint(Ymw(y, m, weekday, i)) = point
  <2>1. i \in 1..6
    OBVIOUS
  <2>1a. NthAt(y, m, weekday, i, f, e)
    BY <1>1, <1>3, <1>4, <2>1, NthIs
  <2>2. /\ YmwDayPoint(Ymw(y, m, weekday, i)) = f + e + (i - 1) * 7
        /\ YmwOk(Ymw(y, m, weekday, i)) <=> e + (i - 1) * 7 + 1 <= LastDay(y, m)
    BY <2>1a DEF NthAt
  <2>3. e + (i - 1) * 7 + 1 <= LastDay(y, m) /\ f + e + (i - 1) * 7 = point
    BY <1>1, <1>3, <1>5, SMT
  <2> QED
    BY <2>2, <2>3
<1>10. /\ YmwOk(Ymw(y, m, weekday, j)) <=> today.day + 7 <= Days(today)
       /\ YmwDayPoint(Ymw(y, m, weekday, j)) = point + 7
  <2>1. j \in 1..6
    OBVIOUS
  <2>1a. NthAt(y, m, weekday, j, f, e)
    BY <1>1, <1>3, <1>4, <2>1, NthIs
  <2>2. /\ YmwDayPoint(Ymw(y, m, weekday, j)) = f + e + (j - 1) * 7
        /\ YmwOk(Ymw(y, m, weekday, j)) <=> e + (j - 1) * 7 + 1 <= LastDay(y, m)
    BY <2>1a DEF NthAt
  <2>3. e + (j - 1) * 7 + 1 = today.day + 7 /\ f + e + (j - 1) * 7 = point + 7
    BY <1>1, <1>3, <1>5, <1>6, SMT
  <2> QED
    BY <1>1, <2>2, <2>3
<1> QED
  BY <1>2, <1>7, <1>8, <1>9, <1>10 DEF y, m

LEMMA LastToday ==
  ASSUME IInv
  PROVE  YmwLastDayPoint(today.year, today.month, weekday) = point
            <=> ~(today.day + 7 <= Days(today))
<1>1. /\ today \in Dates /\ today.year \in Int /\ today.month \in 1..12
      /\ weekday \in 0..6 /\ point \in Int /\ weekday = (point + 4) % 7
      /\ today.day \in 1..31 /\ today.day <= Days(today) /\ Days(today) \in 28..31
      /\ DayPoint(today) = point
  BY TodayIs DEF IInv
<1>2. PICK d \in Int : d = LastDayPoint(today.year, today.month)
                       /\ d = point + (Days(today) - today.day)
  BY <1>1, LastDayAway
<1>3. PICK k \in 0..30 : k = Days(today) - today.day
  BY <1>1
<1>4. YmwLastDayPoint(today.year, today.month, weekday) = d - ((d + 4 - weekday) % 7)
  <2> DEFINE z == LastDayPoint(today.year, today.month)
  <2>1. YmwLastDayPoint(today.year, today.month, weekday) = z - ((z + 4 - weekday) % 7)
    BY <1>1, LastIs
  <2> HIDE DEF z
  <2>2. z = d
    BY <1>2 DEF z
  <2> QED
    BY <2>1, <2>2
<1>5. d - ((d + 4 - weekday) % 7) = point <=> k < 7
  <2>1. (d + 4 - weekday) % 7 = k % 7
    BY <1>1, <1>2, <1>3, SMT
  <2>2. k % 7 = k <=> k < 7
    BY SMT
  <2>3. d - (k % 7) = point <=> k % 7 = k
    BY <1>1, <1>2, <1>3, SMT
  <2> QED
    BY <2>1, <2>2, <2>3
<1>6. k < 7 <=> ~(today.day + 7 <= Days(today))
  BY <1>1, <1>3, SMT
<1> QED
  BY <1>4, <1>5, <1>6

LEMMA NthLater ==
  ASSUME IInv, SeenInv, NEW n \in Int, Fits(today.year + n \div 12)
  PROVE  LET t == Ymw(today.year, today.month, weekday, seen[weekday])
             l == Ymwl(today.year, today.month, weekday)
             later == YmwAddMonths(t, n)
             lastOf == YmwlAddMonths(l, n)
             point2 == YmwLastDayPoint(lastOf.year, lastOf.month, weekday)
         IN  /\ YmwOk(later) <=> FromDayPoint(YmwDayPoint(later)).month = later.month
             /\ YmwlOk(lastOf) /\ weekday_from_days(point2) = weekday
             /\ LastDayPoint(lastOf.year, lastOf.month) - point2 \in 0..6
             /\ n % 12 = 0 => YmwAddYears(t, n \div 12) = later
                                 /\ YmwlAddYears(l, n \div 12) = lastOf
<1> DEFINE y == today.year
           m == today.month
<1>1. y \in Int /\ m \in 1..12 /\ weekday \in 0..6
  BY TodayIs
<1>2. PICK i \in 1..6 : i = seen[weekday]
  BY CountedIs
<1>3. PICK t : t = Ymw(y, m, weekday, i)
  OBVIOUS
<1>4. PICK l : l = Ymwl(y, m, weekday)
  OBVIOUS
<1>5. /\ t.year = y /\ t.month = m /\ t.weekday = weekday /\ t.index = i
      /\ l.year = y /\ l.month = m /\ l.weekday = weekday
  BY <1>3, <1>4 DEF Ymw, Ymwl
<1>6. PICK a \in Int, b \in 1..12 :
         /\ YearMonthAdd(t, n) = [year |-> a, month |-> b]
         /\ YearMonthAdd(l, n) = [year |-> a, month |-> b]
         /\ YearOk(a) /\ (b = 12 => YearOk(a + 1))
  <2>1. YearMonthAdd(t, n) = YearMonthAdd(l, n)
    BY <1>5 DEF YearMonthAdd
  <2>2. PICK s : s = YearMonthAdd(t, n)
    OBVIOUS
  <2>3. /\ s = [year |-> s.year, month |-> s.month]
        /\ s.year \in Int /\ s.month \in 1..12
        /\ YearOk(s.year) /\ (s.month = 12 => YearOk(s.year + 1))
    BY <1>1, <1>5, <2>2, SumIs
  <2> QED
    BY <2>1, <2>2, <2>3
<1>7. YmwAddMonths(t, n) = Ymw(a, b, weekday, i) /\ YmwlAddMonths(l, n) = Ymwl(a, b, weekday)
  BY <1>5, <1>6 DEF YmwAddMonths, YmwlAddMonths
<1>8. Ymw(a, b, weekday, i).month = b
  BY DEF Ymw
<1>9. YmwOk(Ymw(a, b, weekday, i)) <=> FromDayPoint(YmwDayPoint(Ymw(a, b, weekday, i))).month = b
  BY <1>1, <1>6, NthInMonth, ZenonT(60)
<1>10. Ymwl(a, b, weekday).year = a /\ Ymwl(a, b, weekday).month = b
       /\ YmwlOk(Ymwl(a, b, weekday))
  BY <1>1, <1>6 DEF Ymwl, YmwlOk, MonthOk, WeekdayOk
<1>11. /\ weekday_from_days(YmwLastDayPoint(a, b, weekday)) = weekday
       /\ LastDayPoint(a, b) - YmwLastDayPoint(a, b, weekday) \in 0..6
  BY <1>1, LastIs
<1>12. ASSUME n % 12 = 0
       PROVE  YmwAddYears(t, n \div 12) = Ymw(a, b, weekday, i)
                 /\ YmwlAddYears(l, n \div 12) = Ymwl(a, b, weekday)
  <2>1. YearMonthAdd(t, n) = [year |-> YearAdd(y, n \div 12), month |-> m]
    <3>1. y \in Int /\ m \in 1..12 /\ t.year = y /\ t.month = m
      BY <1>1, <1>5
    <3>2. Fits(y + n \div 12)
      OBVIOUS
    <3> HIDE DEF y, m
    <3> QED
      BY <1>12, <3>1, <3>2, WholeYears
  <2>2. a = YearAdd(y, n \div 12) /\ b = m
    BY <1>6, <2>1
  <2> QED
    BY <1>5, <2>2 DEF YmwAddYears, YmwlAddYears
<1> HIDE DEF y, m
<1>13. /\ YmwOk(YmwAddMonths(t, n))
             <=> FromDayPoint(YmwDayPoint(YmwAddMonths(t, n))).month = YmwAddMonths(t, n).month
       /\ YmwlAddMonths(l, n).year = a /\ YmwlAddMonths(l, n).month = b
       /\ YmwlOk(YmwlAddMonths(l, n))
  BY <1>7, <1>8, <1>9, <1>10
<1> QED
  BY <1>2, <1>3, <1>4, <1>7, <1>11, <1>12, <1>13 DEF y, m

(* The n-th weekday of a month and the last, for every date a short's year  *)
(* can hold: the index a day_point gets is the count of that weekday since  *)
(* the first; there is a next one exactly if a week later is in the month,  *)
(* and months and years later it is good exactly if it is in its month.     *)
THEOREM NthAlwaysRight == Spec => []NthWeekday
<1>1. IInv /\ SeenInv => NthWeekday
  <2> SUFFICES ASSUME IInv, SeenInv PROVE NthWeekday
    OBVIOUS
  <2>1. Months \subseteq Int
    BY MonthsAssumption
  <2> QED
    BY <2>1, NthToday, LastToday, NthLater DEF NthWeekday
<1> QED
  BY <1>1, SpecIInv, SpecSeenInv, PTL

-----------------------------------------------------------------------------
(* Quotients and remainders.                                                *)
LEMMA Divided ==
  ASSUME NEW n \in Int, NEW k \in Nat, k > 0
  PROVE  /\ n \div k \in Int
         /\ n - (n \div k) * k \in 0..(k - 1)
         /\ n >= 0 => n \div k \in Nat
<1>1. n \div k \in Int /\ n - (n \div k) * k >= 0 /\ n - (n \div k) * k < k
  OBVIOUS
<1>2. PICK q \in Int : q = n \div k
  BY <1>1
<1>3. n >= 0 => q >= 0
  <2> SUFFICES ASSUME n >= 0, q <= -1 PROVE FALSE
    BY <1>2
  <2>1. q * k <= -k
    OBVIOUS
  <2> QED
    BY <1>1, <1>2, <2>1
<1> QED
  BY <1>1, <1>2, <1>3

LEMMA DividedIs ==
  ASSUME NEW k \in Nat, NEW q \in Int, NEW r \in Nat, r < k
  PROVE  (q * k + r) \div k = q
OBVIOUS

(* The floor of date.h is a division rounded down, on both sides of 0.      *)
LEMMA FloorOf ==
  ASSUME NEW n \in Int, NEW k \in Nat, k > 0
  PROVE  Floor(n, k) = n \div k
<1>1. PICK q \in Int, r \in Nat : q = n \div k /\ r < k /\ n = q * k + r
  BY Divided
<1>2. CASE n >= 0
  BY <1>1, <1>2 DEF Floor, Truncate, TDiv
<1>3. CASE n < 0
  <2>1. CASE r = 0
    <3>1. -n = (-q) * k + 0
      BY <1>1, <2>1
    <3>2. (-n) \div k = -q
      BY <3>1, DividedIs
    <3>3. Truncate(n, k) = q
      BY <1>1, <1>3, <3>2 DEF Truncate, TDiv
    <3> QED
      BY <1>1, <2>1, <3>3 DEF Floor
  <2>2. CASE r # 0
    <3>1. PICK u \in Nat : u = k - r /\ u < k
      BY <1>1, <2>2
    <3>2. -n = (-q - 1) * k + u
      BY <1>1, <3>1
    <3>3. (-n) \div k = -q - 1
      <4>1. PICK p \in Int : p = -q - 1
        OBVIOUS
      <4> QED
        BY <3>1, <3>2, <4>1, DividedIs
    <3>4. Truncate(n, k) = q + 1
      BY <1>1, <1>3, <3>3 DEF Truncate, TDiv
    <3>5. (q + 1) * k > n
      BY <1>1
    <3> QED
      BY <1>1, <3>4, <3>5 DEF Floor
  <2> QED
    BY <2>1, <2>2
<1> QED
  BY <1>2, <1>3

(* The days of an era and of a March year, taken apart.                     *)
EraParts(doe, c, q, s, doy) ==
    /\ c \in 0..3 /\ q \in 0..24 /\ s \in 0..3 /\ doy >= 0 /\ doy <= 365
    /\ doe = 36524 * c + 1461 * q + 365 * s + doy
    /\ doy = 365 => s = 3 /\ (q = 24 => c = 3)

LEMMA EraSplit ==
  ASSUME NEW doe \in Nat, doe <= 146096
  PROVE  \E c, q, s, doy \in Int : EraParts(doe, c, q, s, doy)
<1>1. PICK c \in 0..3, x \in Nat : doe = 36524 * c + x /\ x <= 36524 /\ (x = 36524 => c = 3)
  <2>1. CASE doe < 36524
    <3>1. doe = 36524 * 0 + doe /\ doe <= 36524 /\ doe # 36524
      BY <2>1
    <3> QED
      BY <3>1
  <2>2. CASE doe >= 36524 /\ doe < 73048
    <3>1. PICK x \in Nat : x = doe - 36524 /\ x < 36524
      BY <2>2
    <3> QED
      BY <3>1
  <2>3. CASE doe >= 73048 /\ doe < 109572
    <3>1. PICK x \in Nat : x = doe - 73048 /\ x < 36524
      BY <2>3
    <3> QED
      BY <3>1
  <2>4. CASE doe >= 109572
    <3>1. PICK x \in Nat : x = doe - 109572 /\ x <= 36524
      BY <2>4
    <3> QED
      BY <3>1
  <2> QED
    BY <2>1, <2>2, <2>3, <2>4
<1>2. PICK q \in 0..24, y \in Nat : x = 1461 * q + y /\ y <= 1460
  <2>1. PICK q \in Int : q = x \div 1461
    OBVIOUS
  <2>2. PICK y \in Int : y = x - 1461 * q
    OBVIOUS
  <2>3. y \in Nat /\ y <= 1460 /\ x = 1461 * q + y
    BY <2>1, <2>2
  <2>4. q >= 0 /\ q <= 24
    BY <1>1, <2>3
  <2> QED
    BY <2>3, <2>4
<1>3. PICK s \in 0..3, doy \in Nat : y = 365 * s + doy /\ doy <= 365 /\ (doy = 365 => s = 3)
  <2>1. CASE y = 1460
    <3>1. y = 365 * 3 + 365
      BY <2>1
    <3> QED
      BY <3>1
  <2>2. CASE y < 1460
    <3>1. PICK s \in Int : s = y \div 365
      OBVIOUS
    <3>2. PICK doy \in Int : doy = y - 365 * s
      OBVIOUS
    <3>3. s \in 0..3 /\ doy \in Nat /\ doy <= 364 /\ y = 365 * s + doy
      BY <2>2, <3>1, <3>2
    <3> QED
      BY <3>3
  <2>3. y < 1460 \/ y = 1460
    BY <1>2
  <2> QED
    BY <2>1, <2>2, <2>3
<1>4. doy = 365 => s = 3 /\ (q = 24 => c = 3)
  BY <1>1, <1>2, <1>3
<1>5. EraParts(doe, c, q, s, doy)
  BY <1>1, <1>2, <1>3, <1>4 DEF EraParts
<1> QED
  BY <1>5

(* The day doy of the March year y is a date, but the last if February has  *)
(* none.                                                                    *)
InYear(t, y, doy) ==
    /\ t.day <= Days(t) /\ MarchYear(t) = y /\ DayOfYear(t) = doy
    /\ t.year \in {y, y + 1}

LEMMA DateInYear ==
  ASSUME NEW y \in Int, NEW doy \in Nat, doy <= 365, doy = 365 => Leap(y + 1)
  PROVE  \E t \in Dates : InYear(t, y, doy)
<1>1. PICK mp \in 0..11, d \in 1..31 :
          doy = (153 * mp + 2) \div 5 + d - 1 /\ doy < (153 * (mp + 1) + 2) \div 5
  <2>1. PICK mp \in Int : mp = (5 * doy + 2) \div 153
    OBVIOUS
  <2>2. PICK d \in Int : d = doy - (153 * mp + 2) \div 5 + 1
    BY <2>1
  <2>3. mp \in 0..11
    BY <2>1
  <2>4. d \in 1..31 /\ doy < (153 * (mp + 1) + 2) \div 5
    BY <2>1, <2>2, <2>3
  <2>5. doy = (153 * mp + 2) \div 5 + d - 1
    BY <2>2, <2>3
  <2> QED
    BY <2>3, <2>4, <2>5
<1>2. PICK m \in 1..12 : m = mp + (IF mp < 10 THEN 3 ELSE -9)
  <2>1. mp + (IF mp < 10 THEN 3 ELSE -9) \in 1..12
    OBVIOUS
  <2> QED
    BY <2>1
<1>3. PICK n \in Int : n = y + (IF m <= 2 THEN 1 ELSE 0)
  OBVIOUS
<1> DEFINE t == Ymd(n, m, d)
<1>4. t \in Dates /\ t.year = n /\ t.month = m /\ t.day = d
  BY DEF Ymd, Dates
<1> HIDE DEF t
<1>5. MarchYear(t) = y /\ n \in {y, y + 1}
  BY <1>3, <1>4 DEF MarchYear
<1>6. m + (IF m > 2 THEN -3 ELSE 9) = mp
  BY <1>2
<1>7. DayOfYear(t) = doy
  BY <1>1, <1>4, <1>6 DEF DayOfYear
<1>8. d <= Days(t)
  <2>1. CASE m = 2
    <3>1. mp = 11 /\ n = y + 1
      BY <1>2, <1>3, <2>1
    <3>2. d <= 29 /\ (d = 29 => doy = 365)
      BY <1>1, <3>1
    <3> QED
      BY <1>4, <2>1, <3>1, <3>2 DEF Days
  <2>2. CASE m \in {4, 6, 9, 11}
    <3>1. mp \in {1, 3, 6, 8}
      BY <1>2, <2>2
    <3>2. d <= 30
      BY <1>1, <3>1
    <3> QED
      BY <1>4, <2>2, <3>2 DEF Days
  <2>3. CASE m \notin {2, 4, 6, 9, 11}
    BY <1>4, <2>3 DEF Days
  <2> QED
    BY <2>1, <2>2, <2>3
<1> QED
  BY <1>4, <1>5, <1>7, <1>8 DEF InYear

(* Every day has its date.                                                  *)
DateOn(t, dp) ==
    /\ t.day <= Days(t) /\ DayPoint(t) = dp
    /\ t.year - 400 * ((dp + 719468) \div 146097) \in 0..400

LEMMA DateOfDay ==
  ASSUME NEW dp \in Int
  PROVE  \E t \in Dates : DateOn(t, dp)
<1>1. PICK e \in Int, doe \in Nat :
          doe <= 146096 /\ dp + 719468 = 146097 * e + doe /\ e = (dp + 719468) \div 146097
  <2>1. PICK e \in Int : e = (dp + 719468) \div 146097
    OBVIOUS
  <2>2. PICK doe \in Int : doe = dp + 719468 - 146097 * e
    OBVIOUS
  <2>3. doe \in Nat /\ doe <= 146096
    BY <2>1, <2>2
  <2> QED
    BY <2>1, <2>2, <2>3
<1>2. PICK c, q, s, doy \in Int : EraParts(doe, c, q, s, doy)
  BY <1>1, EraSplit
<1>3. PICK yoe \in 0..399 : yoe = 100 * c + 4 * q + s
  <2>1. 100 * c + 4 * q + s \in 0..399
    BY <1>2 DEF EraParts
  <2> QED
    BY <2>1
<1>4. PICK y \in Int : y = 400 * e + yoe
  OBVIOUS
<1>5. doy = 365 => Leap(y + 1)
  BY <1>2, <1>3, <1>4, SMT DEF Leap, EraParts
<1>6. PICK t \in Dates : InYear(t, y, doy)
  <2>1. doy \in Nat /\ doy <= 365
    BY <1>2 DEF EraParts
  <2> QED
    BY <1>5, <2>1, DateInYear
<1>7. DaysBefore(y) = e * 146097 + yoe * 365 + yoe \div 4 - yoe \div 100
  <2>1. y \div 400 = e /\ y - (y \div 400) * 400 = yoe
    BY <1>4
  <2>2. DaysFlat(y) = e * 146097 + yoe * 365 + yoe \div 4 - yoe \div 100
    BY <2>1 DEF DaysFlat
  <2> QED
    BY <2>2, DaysBeforeFlat
<1>8. yoe \div 4 = 25 * c + q /\ yoe \div 100 = c
  BY <1>2, <1>3 DEF EraParts
<1>9. DaysBefore(y) = 146097 * e + 36524 * c + 1461 * q + 365 * s
  BY <1>3, <1>7, <1>8
<1>10. DayPoint(t) = dp
  <2>1. MarchYear(t) = y /\ DayOfYear(t) = doy
    BY <1>6 DEF InYear
  <2>2. DayPoint(t) = DaysBefore(y) + doy - 719468
    BY <2>1 DEF DayPoint
  <2>3. DaysBefore(y) + doy = 146097 * e + doe
    <3>1. doe = 36524 * c + 1461 * q + 365 * s + doy
      BY <1>2 DEF EraParts
    <3> QED
      BY <1>9, <3>1, SMT
  <2>4. PICK b \in Int : b = DaysBefore(y)
    BY <1>9
  <2>5. dp = 146097 * e + doe - 719468
    BY <1>1
  <2>6. b + doy = 146097 * e + doe
    BY <2>3, <2>4
  <2>7. b + doy - 719468 = dp
    BY <2>5, <2>6
  <2> QED
    BY <2>2, <2>4, <2>7
<1>11. t.year - 400 * e \in 0..400
  BY <1>4, <1>6 DEF InYear
<1>12. t.day <= Days(t)
  BY <1>6 DEF InYear
<1>13. t.year - 400 * ((dp + 719468) \div 146097) \in 0..400
  <2>1. (dp + 719468) \div 146097 = e
    BY <1>1
  <2>2. PICK n \in Int : n = t.year
    BY DEF Dates
  <2>3. n - 400 * e \in 0..400
    BY <1>11, <2>2
  <2>4. n - 400 * ((dp + 719468) \div 146097) \in 0..400
    BY <2>1, <2>3
  <2> QED
    BY <2>2, <2>4
<1>14. DateOn(t, dp)
  BY <1>10, <1>12, <1>13 DEF DateOn
<1> QED
  BY <1>14

(* operator day_point undoes from_day_point on the days of three centuries  *)
(* about 1970.                                                              *)
LEMMA DayPointInverts ==
  ASSUME NEW dp \in Int, -106752 <= dp, dp <= 106751
  PROVE  DayPoint(FromDayPoint(dp)) = dp /\ YmdOk(FromDayPoint(dp))
<1>1. PICK t \in Dates : DateOn(t, dp)
  BY DateOfDay
<1>2. PICK y \in Int : y = t.year
  BY DEF Dates
<1>3. YearOk(t.year)
  <2>1. (dp + 719468) \div 146097 \in 4..5
    OBVIOUS
  <2> QED
    BY <1>1, <1>2, <2>1 DEF YearOk, DateOn
<1>4. FromDayPoint(dp) = t
  BY <1>1, <1>3, FromDayPointInverts DEF DateOn
<1>5. YmdOk(t)
  <2>1. t.month \in 1..12 /\ t.day \in 1..31
    BY DEF Dates
  <2>2. LastDay(t.year, t.month) = Days(t)
    BY <2>1, LastDayIsDays
  <2> QED
    BY <1>1, <1>3, <2>1, <2>2 DEF YmdOk, MonthOk, DateOn
<1> QED
  BY <1>1, <1>4, <1>5 DEF DateOn

(* A quotient below a bound.                                                *)
LEMMA DividedBelow ==
  ASSUME NEW n \in Nat, NEW k \in Nat, k > 0, NEW c \in Nat, n < c * k
  PROVE  n \div k < c
<1>1. PICK q \in Nat : q = n \div k /\ q * k <= n
  BY Divided
<1>2. SUFFICES ASSUME q >= c PROVE FALSE
  BY <1>1
<1>3. q * k >= c * k
  BY <1>2
<1> QED
  BY <1>1, <1>3

(* A cast is a division rounded towards 0.                                  *)
LEMMA Cast ==
  ASSUME NEW n \in Nat, NEW k \in Nat, k > 0
  PROVE  Truncate(n, k) = n \div k /\ Truncate(-n, k) = -(n \div k)
<1>1. PICK q \in Nat, r \in Nat : q = n \div k /\ r < k /\ n = q * k + r
  BY Divided
<1>2. Truncate(n, k) = q
  BY <1>1 DEF Truncate, TDiv
<1>3. CASE n <= 0
  <2>1. -n <= 0 /\ -n >= 0
    BY <1>3
  <2>2. PICK z \in Int : z = -n /\ z = n
    BY <1>3, <2>1
  <2>3. n = 0 * k + 0
    BY <1>3
  <2>4. q <= 0
    BY <1>1, <2>3, DividedIs
  <2>5. q = -q
    BY <2>4
  <2> QED
    BY <1>2, <2>2, <2>5
<1>4. CASE n > 0
  <2>1. -n < 0 /\ -(-n) = n
    BY <1>4
  <2> QED
    BY <1>1, <1>2, <2>1 DEF Truncate, TDiv
<1> QED
  BY <1>3, <1>4

(* n taken apart by k, on either side of 0.                                 *)
Quot(n, k, q, r) ==
    /\ r < k /\ n = q * k + r
    /\ Truncate(n, k) = q /\ n - q * k = r
    /\ Truncate(-n, k) = -q /\ -n - (-q) * k = -r
    /\ \A c \in Nat : n < c * k => q < c

LEMMA QuotOf ==
  ASSUME NEW n \in Nat, NEW k \in Nat, k > 0
  PROVE  \E q, r \in Nat : Quot(n, k, q, r)
<1>1. PICK q \in Nat : q = n \div k
  BY Divided
<1>2. PICK r \in Nat : r = n - q * k /\ r < k
  BY <1>1, Divided
<1>3. n = q * k + r /\ n - q * k = r /\ -n - (-q) * k = -r
  BY <1>2
<1>4. Truncate(n, k) = q /\ Truncate(-n, k) = -q
  BY <1>1, Cast
<1>5. \A c \in Nat : n < c * k => q < c
  BY <1>1, DividedBelow
<1>6. Quot(n, k, q, r)
  BY <1>2, <1>3, <1>4, <1>5 DEF Quot
<1> QED
  BY <1>6

(* The ticks of the precisions.                                             *)
LEMMA Units ==
  ASSUME NEW p \in Precisions
  PROVE  /\ PerSecond(p) \in Nat /\ PerSecond(p) > 0
         /\ PerMinute(p) \in Nat /\ PerMinute(p) > 0
         /\ PerHour(p) \in Nat /\ PerHour(p) > 0
         /\ p = "hour" => PerHour(p) = 1 /\ PerMinute(p) = 1 /\ PerSecond(p) = 1
         /\ p # "hour" => PerHour(p) = 60 * PerMinute(p)
         /\ p = "minute" => PerMinute(p) = 1 /\ PerSecond(p) = 1
         /\ p = "second" => PerMinute(p) = 60 /\ PerSecond(p) = 1
         /\ p = "subsecond" => PerMinute(p) = 60 * PerSecond(p) /\ PerSecond(p) = Den
BY DenAssumption DEF Precisions, PerSecond, PerMinute, PerHour

(* The fields of a duration, and of the one that is as long before midnight.*)
Parts(p, n, h, m, s, u) ==
    /\ n = h * PerHour(p) + m * PerMinute(p) + s * PerSecond(p) + u
    /\ m < 60 /\ s < 60 /\ u < PerSecond(p)
    /\ p = "hour" => m = 0 /\ s = 0
    /\ p = "minute" => s = 0
    /\ n < 24 * PerHour(p) => h < 24
    /\ SinceMidnight(p, n) = Time(p, h, m, s, u, "is24hr")
    /\ SinceMidnight(p, -n) = Time(p, -h, -m, -s, -u, "is24hr")

LEMMA PartsOf ==
  ASSUME NEW p \in Precisions, NEW n \in Nat
  PROVE  \E h, m, s, u \in Nat : Parts(p, n, h, m, s, u)
<1>1. PICK H \in Nat, M \in Nat, S \in Nat :
          /\ H = PerHour(p) /\ M = PerMinute(p) /\ S = PerSecond(p)
          /\ H > 0 /\ M > 0 /\ S > 0
  BY Units
<1>2. PICK h, a \in Nat : Quot(n, H, h, a)
  BY <1>1, QuotOf
<1>3. a < H /\ (n < 24 * H => h < 24)
  BY <1>2 DEF Quot
<1>4. PICK m, b \in Nat :
          IF p = "hour" THEN m = 0 /\ b = a /\ a = 0 ELSE Quot(a, M, m, b) /\ m < 60
  <2>1. CASE p = "hour"
    <3>1. a = 0
      BY <1>1, <1>3, <2>1, Units
    <3> QED
      BY <2>1, <3>1
  <2>2. CASE p # "hour"
    <3>1. PICK m, b \in Nat : Quot(a, M, m, b)
      BY <1>1, QuotOf
    <3>2. a < 60 * M
      BY <1>1, <1>3, <2>2, Units
    <3>3. m < 60
      BY <3>1, <3>2 DEF Quot
    <3> QED
      BY <2>2, <3>1, <3>3
  <2> QED
    BY <2>1, <2>2
<1>5. a = m * M + b /\ b < M
  BY <1>1, <1>4 DEF Quot
<1>6. PICK s, u \in Nat :
          IF p \in {"hour", "minute"} THEN s = 0 /\ u = b /\ b = 0
          ELSE Quot(b, S, s, u) /\ s < 60
  <2>1. CASE p \in {"hour", "minute"}
    <3>1. b = 0
      BY <1>1, <1>5, <2>1, Units
    <3> QED
      BY <2>1, <3>1
  <2>2. CASE p \notin {"hour", "minute"}
    <3>1. PICK s, u \in Nat : Quot(b, S, s, u)
      BY <1>1, QuotOf
    <3>2. M = 60 * S
      BY <1>1, <2>2, Units DEF Precisions
    <3>3. s < 60
      BY <1>5, <3>1, <3>2 DEF Quot
    <3> QED
      BY <2>2, <3>1, <3>3
  <2> QED
    BY <2>1, <2>2
<1>7. b = s * S + u /\ u < S
  BY <1>1, <1>6 DEF Quot
<1>8. SinceMidnight(p, n) = Time(p, h, m, s, u, "is24hr")
  <2>1. Truncate(n, H) = h /\ n - h * H = a
    BY <1>2 DEF Quot
  <2>2. (IF p = "hour" THEN 0 ELSE Truncate(a, M)) = m /\ a - m * M = b
    BY <1>1, <1>4 DEF Quot
  <2>3. (IF p \in {"hour", "minute"} THEN 0 ELSE Truncate(b, S)) = s /\ b - s * S = u
    BY <1>1, <1>6 DEF Quot
  <2> QED
    BY <1>1, <2>1, <2>2, <2>3, Zenon DEF SinceMidnight
<1>9. SinceMidnight(p, -n) = Time(p, -h, -m, -s, -u, "is24hr")
  <2>1. Truncate(-n, H) = -h /\ -n - (-h) * H = -a
    BY <1>2 DEF Quot
  <2>2. (IF p = "hour" THEN 0 ELSE Truncate(-a, M)) = -m /\ -a - (-m) * M = -b
    BY <1>1, <1>4 DEF Quot
  <2>3. (IF p \in {"hour", "minute"} THEN 0 ELSE Truncate(-b, S)) = -s /\ -b - (-s) * S = -u
    BY <1>1, <1>6 DEF Quot
  <2> QED
    BY <1>1, <2>1, <2>2, <2>3, Zenon DEF SinceMidnight
<1>10. n = h * H + m * M + s * S + u
  <2>1. n = h * H + a
    BY <1>2 DEF Quot
  <2> QED
    BY <1>1, <1>5, <1>7, <2>1
<1>11. /\ p = "hour" => m = 0 /\ s = 0
       /\ p = "minute" => s = 0
       /\ m < 60 /\ s < 60
  BY <1>4, <1>6
<1>12. Parts(p, n, h, m, s, u)
  BY <1>1, <1>3, <1>7, <1>8, <1>9, <1>10, <1>11 DEF Parts
<1> QED
  BY <1>12

(* The decimals of a subsecond are whole: a power of 10 is so many times    *)
(* the ticks of a second.                                                   *)
LEMMA TenToThe ==
  ASSUME NEW k \in Nat, k <= 9
  PROVE  10 ^ k \in Nat /\ 10 ^ k > 0
<1> DEFINE T(j) == 10 ^ j \in Nat /\ 10 ^ j > 0
<1>1. T(0) /\ T(1) /\ T(2) /\ T(3) /\ T(4) /\ T(5) /\ T(6) /\ T(7) /\ T(8) /\ T(9)
  BY SMT
<1>2. k = 0 \/ k = 1 \/ k = 2 \/ k = 3 \/ k = 4 \/ k = 5 \/ k = 6 \/ k = 7 \/ k = 8 \/ k = 9
  OBVIOUS
<1> HIDE DEF T
<1>3. T(k)
  BY <1>1, <1>2
<1> QED
  BY <1>3 DEF T

(* What ceil_log10 has left and has counted: less than e with at most b     *)
(* digits cast off.                                                         *)
LeftOver(x, e, b) == x.i \in Nat /\ x.n \in Nat /\ x.i < e /\ x.n <= b

LEMMA CeilLog10Small == CeilLog10(Den) \in Nat /\ CeilLog10(Den) <= 9
<1> DEFINE x0 == [i |-> Den - 1, n |-> 0]
           x1 == CastOff(x0, 100000000, 8)
           x2 == CastOff(x1, 10000, 4)
           x3 == CastOff(x2, 100, 2)
           x4 == CastOff(x3, 10, 1)
           x5 == CastOff(x4, 1, 1)
<1>1. CeilLog10(Den) = x5.n
  BY SMT DEF CeilLog10
<1>2. LeftOver(x0, 1000000000, 0)
  BY DenAssumption, SMT DEF LeftOver
<1> HIDE DEF x0
<1>3. LeftOver(x1, 10, 8) \/ LeftOver(x1, 100000000, 0)
  BY <1>2, SMT DEF CastOff, LeftOver
<1> HIDE DEF x1
<1>4. LeftOver(x2, 10, 8) \/ LeftOver(x2, 10000, 4)
  BY <1>3, SMT DEF CastOff, LeftOver
<1> HIDE DEF x2
<1>5. LeftOver(x3, 10, 8) \/ LeftOver(x3, 100, 6)
  BY <1>4, SMT DEF CastOff, LeftOver
<1> HIDE DEF x3
<1>6. LeftOver(x4, 10, 8)
  BY <1>5, SMT DEF CastOff, LeftOver
<1> HIDE DEF x4
<1>7. x5.n \in Nat /\ x5.n <= 9
  BY <1>6, SMT DEF CastOff, LeftOver
<1> QED
  BY <1>1, <1>7, SMT

LEMMA WholeDecimals ==
  \E w, g \in Nat : w = 10 ^ CeilLog10(Den) /\ w > 0 /\ w = g * Den
<1>1. PICK w \in Nat : w = 10 ^ CeilLog10(Den) /\ w > 0
  BY CeilLog10Small, TenToThe
<1>2. w % Den = 0
  BY <1>1, DecimalsAssumption
<1>3. PICK g \in Nat : g = w \div Den
  BY DenAssumption, Divided
<1>4. w = g * Den
  BY <1>2, <1>3, DenAssumption
<1> QED
  BY <1>1, <1>4

LEMMA AbsOf ==
  ASSUME NEW n \in Nat
  PROVE  Abs(n) = n /\ Abs(-n) = n
BY DEF Abs

(* Turning the face to 12 hours and back.                                   *)
LEMMA FaceTurned ==
  ASSUME NEW p, NEW h \in Int, h < 24, NEW m, NEW s, NEW u
  PROVE  LET f == Time(p, h, m, s, u, "is24hr")
             g == make12(f)
         IN  /\ make24(f) = f /\ make24(g) = f /\ make12(g) = g
             /\ to24hr(f) = h /\ to24hr(g) = h
             /\ g.precision = p /\ g.m = m /\ g.s = s /\ g.sub = u /\ g.mode # "is24hr"
<1> DEFINE f == Time(p, h, m, s, u, "is24hr")
           g == make12(f)
           a == IF h >= 12 THEN IF h > 12 THEN h - 12 ELSE h ELSE IF h = 0 THEN 12 ELSE h
           md == IF h >= 12 THEN "pm" ELSE "am"
<1>1. g = Time(p, a, m, s, u, md)
  BY DEF make12, Time
<1>2. to24hr(f) = h
  BY DEF to24hr, Time
<1>3. to24hr(g) = h
  <2>1. to24hr(g) = IF md = "pm" /\ a # 12 THEN a + 12
                    ELSE IF md = "am" /\ a = 12 THEN 0 ELSE a
    <3>1. g.h = a /\ g.mode = md
      BY <1>1 DEF Time
    <3> HIDE DEF g, a, md
    <3> QED
      BY <3>1 DEF to24hr
  <2> QED
    BY <2>1
<1>4. ASSUME NEW k, NEW c, NEW t, t = Time(p, k, m, s, u, c), to24hr(t) = h
      PROVE  make24(t) = f
  <2>1. make24(t) = [t EXCEPT !.h = h, !.mode = "is24hr"]
    BY <1>4 DEF make24
  <2> QED
    BY <1>4, <2>1 DEF Time
<1>5. make24(f) = f
  BY <1>2, <1>4
<1>6. make24(g) = f
  <2> HIDE DEF f, a, md, g
  <2> QED
    BY <1>1, <1>3, <1>4
<1>7. make12(g) = g /\ g.mode # "is24hr"
  BY <1>1 DEF make12, Time
<1>8. g.precision = p /\ g.m = m /\ g.s = s /\ g.sub = u
  <2> HIDE DEF a, md, g
  <2> QED
    BY <1>1 DEF Time
<1> QED
  BY <1>2, <1>3, <1>5, <1>6, <1>7, <1>8

(* The hour that is read from the face of 12 hours.                         *)
LEMMA HourRead ==
  ASSUME NEW p, NEW h \in Nat, h < 24, NEW m, NEW s, NEW u, NEW x,
         LET g == make12(Time(p, h, m, s, u, "is24hr"))
         IN  x.h = g.h /\ x.mode = g.mode
  PROVE  ReadHour(x) = h /\ make12(Time(p, h, m, s, u, "is24hr")).h \in Nat
<1>1. CASE h >= 12
  <2>1. x.mode = "pm" /\ x.h = (IF h > 12 THEN h - 12 ELSE h)
    BY <1>1 DEF make12, Time
  <2>2. ReadHour(x) = 12 + (x.h % 12)
    BY <2>1 DEF ReadHour
  <2> QED
    BY <1>1, <2>1, <2>2
<1>2. CASE h < 12
  <2>1. x.mode = "am" /\ x.h = (IF h = 0 THEN 12 ELSE h)
    BY <1>2 DEF make12, Time
  <2>2. ReadHour(x) = x.h % 12
    BY <2>1 DEF ReadHour
  <2> QED
    BY <1>2, <2>1, <2>2
<1> QED
  BY <1>1, <1>2

(* The decimals tell the subseconds they were made of.                      *)
LEMMA DecimalsTell ==
  ASSUME NEW u \in Nat
  PROVE  (((u * 10 ^ CeilLog10(Den)) \div Den) * Den) \div 10 ^ CeilLog10(Den) = u
<1>1. PICK w, g \in Nat : w = 10 ^ CeilLog10(Den) /\ w > 0 /\ w = g * Den
  BY WholeDecimals
<1>2. PICK D \in Nat : D = Den /\ D > 0
  BY DenAssumption
<1>3. PICK v \in Nat : v = u * g
  OBVIOUS
<1>4. u * w = v * D + 0
  BY <1>1, <1>2, <1>3
<1>5. (u * w) \div D = v
  BY <1>2, <1>4, DividedIs
<1>6. v * D = u * w + 0
  BY <1>4
<1>7. (v * D) \div w = u
  BY <1>1, <1>6, DividedIs
<1> QED
  BY <1>1, <1>2, <1>5, <1>7

(* What the reader of a text finds in it.                                   *)
Shows(x, e, h, m, s, u) ==
    /\ x.sign = e /\ ReadHour(x) = h /\ x.m = m /\ x.s = s
    /\ (x.frac * Den) \div 10 ^ x.digits = u

Signs == {-1, 1}

Signed(e, n) == IF e = 1 THEN n ELSE -n

(* The face t tells the fields of n, before midnight if e is -1.            *)
Tells(t, p, n, e, h, m, s, u) ==
    /\ t.precision = p /\ t.m = Signed(e, m) /\ t.s = Signed(e, s) /\ t.sub = Signed(e, u)
    /\ ToDuration(t) = Signed(e, n)
    /\ p = "hour" => t.h < 0 <=> e = -1
    /\ \A x : x.h = Abs(t.h) /\ x.mode = t.mode => ReadHour(x) = h

(* A text shows what the face tells.                                        *)
LEMMA TextShows ==
  ASSUME NEW p \in Precisions, NEW n \in Nat, NEW h \in Nat, NEW m \in Nat,
         NEW s \in Nat, NEW u \in Nat, Parts(p, n, h, m, s, u),
         NEW e \in Signs, n = 0 => e = 1, NEW t, Tells(t, p, n, e, h, m, s, u)
  PROVE  Shows(Text(t), e, h, m, s, u)
<1>1. ReadHour(Text(t)) = h
  <2>1. Text(t).h = Abs(t.h) /\ Text(t).mode = t.mode
    BY DEF Text, HourText
  <2> QED
    BY <2>1 DEF Tells
<1>2. CASE p = "hour"
  <2>1. m = 0 /\ s = 0 /\ u = 0
    BY <1>2, Units DEF Parts
  <2>2. Text(t) = HourText(t)
    BY <1>2 DEF Text, Tells
  <2>3. Text(t).sign = e
    BY <1>2, <2>2 DEF Signs, HourText, Tells
  <2>4. Text(t).m = 0 /\ Text(t).s = 0 /\ Text(t).frac = 0 /\ Text(t).digits = 0
    BY <2>2 DEF HourText
  <2>5. (0 * Den) \div 10 ^ 0 = 0
    BY DenAssumption, SMT
  <2> QED
    BY <1>1, <2>1, <2>3, <2>4, <2>5 DEF Shows
<1>3. CASE p # "hour"
  <2>1. /\ Text(t).sign = (IF ToDuration(t) < 0 THEN -1 ELSE 1)
        /\ Text(t).m = Abs(t.m) /\ Text(t).s = Abs(t.s)
        /\ Text(t).frac = (Abs(t.sub) * 10 ^ CeilLog10(Den)) \div Den
        /\ Text(t).digits = CeilLog10(Den)
    BY <1>3, Zenon DEF Text, Tells
  <2>2. Abs(t.m) = m /\ Abs(t.s) = s /\ Abs(t.sub) = u
    BY AbsOf DEF Tells, Signed
  <2>3. (IF ToDuration(t) < 0 THEN -1 ELSE 1) = e
    BY DEF Tells, Signed, Signs
  <2>4. (Text(t).frac * Den) \div 10 ^ Text(t).digits = u
    BY <2>1, <2>2, DecimalsTell, Zenon
  <2> QED
    BY <1>1, <2>1, <2>2, <2>3, <2>4, Zenon DEF Shows
<1> QED
  BY <1>2, <1>3

(* The ticks of a second in one of the precision p.                         *)
Ticks(p) == (3600 * Den) \div PerHour(p)

(* What the reader makes of it, in ticks of a second.                       *)
LEMMA ReadShown ==
  ASSUME NEW p \in Precisions, NEW n \in Nat, NEW h \in Nat, NEW m \in Nat,
         NEW s \in Nat, NEW u \in Nat, Parts(p, n, h, m, s, u),
         NEW e \in Signs, NEW x, Shows(x, e, h, m, s, u)
  PROVE  ReadTime(x) = Signed(e, n) * Ticks(p)
<1>1. PICK D \in Nat : D = Den /\ D > 0
  BY DenAssumption
<1>2. ReadTime(x) = e * (((h * 60 + m) * 60 + s) * D + u)
  BY <1>1, Zenon DEF ReadTime, Shows
<1>3. PICK k \in Nat :
          /\ k = Ticks(p)
          /\ ((h * 60 + m) * 60 + s) * D + u = n * k
  <2>1. PICK H \in Nat, M \in Nat, S \in Nat :
            /\ H = PerHour(p) /\ M = PerMinute(p) /\ S = PerSecond(p)
            /\ n = h * H + m * M + s * S + u /\ u < S
    BY Units DEF Parts
  <2>2. CASE p = "hour"
    <3>1. H = 1 /\ S = 1 /\ m = 0 /\ s = 0 /\ u = 0
      BY <2>1, <2>2, Units DEF Parts
    <3>2. (3600 * D) \div 1 = 3600 * D /\ n = h
      BY <2>1, <3>1
    <3>3. ((h * 60 + m) * 60 + s) * D + u = n * (3600 * D)
      BY <3>1, <3>2
    <3> QED
      BY <1>1, <2>1, <3>1, <3>2, <3>3 DEF Ticks
  <2>3. CASE p = "minute"
    <3>1. H = 60 /\ M = 1 /\ S = 1 /\ s = 0 /\ u = 0
      BY <2>1, <2>3, Units DEF Parts
    <3>2. (3600 * D) \div 60 = 60 * D /\ n = h * 60 + m
      BY <2>1, <3>1
    <3>3. ((h * 60 + m) * 60 + s) * D + u = n * (60 * D)
      BY <3>1, <3>2
    <3> QED
      BY <1>1, <2>1, <3>1, <3>2, <3>3 DEF Ticks
  <2>4. CASE p = "second"
    <3>1. H = 3600 /\ M = 60 /\ S = 1 /\ u = 0
      BY <2>1, <2>4, Units DEF Parts
    <3>2. (3600 * D) \div 3600 = D /\ n = (h * 60 + m) * 60 + s
      BY <2>1, <3>1
    <3>3. ((h * 60 + m) * 60 + s) * D + u = n * D
      BY <3>1, <3>2
    <3> QED
      BY <1>1, <2>1, <3>1, <3>2, <3>3 DEF Ticks
  <2>5. CASE p = "subsecond"
    <3>1. H = 3600 * D /\ M = 60 * D /\ S = D
      BY <1>1, <2>1, <2>5, Units
    <3>2. PICK E \in Nat : E = 3600 * D /\ E > 0
      BY <1>1
    <3>3. E = 1 * E + 0
      BY <3>2
    <3>4. E \div E = 1
      BY <3>2, <3>3, DividedIs
    <3>5. ((h * 60 + m) * 60 + s) * D + u = n * 1
      BY <2>1, <3>1
    <3> QED
      BY <1>1, <2>1, <3>1, <3>2, <3>4, <3>5 DEF Ticks
  <2> QED
    BY <2>2, <2>3, <2>4, <2>5 DEF Precisions
<1>4. e * (n * k) = Signed(e, n) * k
  BY DEF Signed, Signs
<1> QED
  BY <1>2, <1>3, <1>4

(* A duration as DurationsAssumption allows it, taken apart.                *)
Apart(p, d, n, e, h, m, s, u) ==
    /\ d = Signed(e, n) /\ (n = 0 => e = 1)
    /\ Parts(p, n, h, m, s, u) /\ (e = 1 => h < 24)

LEMMA ApartOf ==
  ASSUME NEW p \in Precisions, NEW d \in Durations[p]
  PROVE  /\ d \in Int
         /\ \E n, h, m, s, u \in Nat : \E e \in Signs : Apart(p, d, n, e, h, m, s, u)
<1>1. PICK H \in Nat : H = PerHour(p) /\ H > 0
  BY Units
<1>2. d \in Int /\ d < 24 * H
  BY <1>1, DurationsAssumption
<1>3. PICK n \in Nat, e \in Signs : d = Signed(e, n) /\ (n = 0 => e = 1)
  <2>1. CASE d >= 0
    BY <1>2, <2>1 DEF Signed, Signs
  <2>2. CASE d < 0
    <3>1. PICK n \in Nat : n = -d /\ n # 0
      BY <1>2, <2>2
    <3>2. d = Signed(-1, n)
      BY <1>2, <3>1 DEF Signed
    <3> QED
      BY <3>1, <3>2 DEF Signs
  <2> QED
    BY <1>2, <2>1, <2>2
<1>4. PICK h, m, s, u \in Nat : Parts(p, n, h, m, s, u)
  BY PartsOf
<1>5. e = 1 => h < 24
  BY <1>1, <1>2, <1>3, <1>4 DEF Parts, Signed
<1>6. Apart(p, d, n, e, h, m, s, u)
  BY <1>3, <1>4, <1>5 DEF Apart
<1> QED
  BY <1>2, <1>6

(* The fields of the face it is told on.                                    *)
LEMMA FaceIs ==
  ASSUME NEW p, NEW d, NEW n, NEW e \in Signs, NEW h, NEW m, NEW s, NEW u,
         Apart(p, d, n, e, h, m, s, u)
  PROVE  SinceMidnight(p, d) =
             Time(p, Signed(e, h), Signed(e, m), Signed(e, s), Signed(e, u), "is24hr")
<1>1. CASE e = 1
  BY <1>1 DEF Apart, Parts, Signed
<1>2. CASE e = -1
  <2>1. d = -n
    BY <1>2 DEF Apart, Signed
  <2>2. SinceMidnight(p, -n) = Time(p, -h, -m, -s, -u, "is24hr")
    BY DEF Apart, Parts
  <2>3. Signed(e, h) = -h /\ Signed(e, m) = -m /\ Signed(e, s) = -s /\ Signed(e, u) = -u
    BY <1>2 DEF Signed
  <2> QED
    BY <2>1, <2>2, <2>3, Zenon
<1> QED
  BY <1>1, <1>2 DEF Signs

(* The face of 24 hours, before and after midnight.                         *)
LEMMA FaceTells ==
  ASSUME NEW p \in Precisions, NEW d \in Int, NEW n \in Nat, NEW e \in Signs,
         NEW h \in Nat, NEW m \in Nat, NEW s \in Nat, NEW u \in Nat,
         Apart(p, d, n, e, h, m, s, u)
  PROVE  Tells(SinceMidnight(p, d), p, n, e, h, m, s, u)
<1>1. PICK t : t = SinceMidnight(p, d)
  OBVIOUS
<1>2. /\ t.precision = p /\ t.h = Signed(e, h) /\ t.m = Signed(e, m)
      /\ t.s = Signed(e, s) /\ t.sub = Signed(e, u) /\ t.mode = "is24hr"
  <2>1. t = Time(p, Signed(e, h), Signed(e, m), Signed(e, s), Signed(e, u), "is24hr")
    BY <1>1, FaceIs
  <2> QED
    BY <2>1, Zenon DEF Time
<1>3. ToDuration(t) = Signed(e, n)
  <2>1. PICK H \in Nat, M \in Nat, S \in Nat :
            H = PerHour(p) /\ M = PerMinute(p) /\ S = PerSecond(p)
    BY Units
  <2>2. n = h * H + m * M + s * S + u
    BY <2>1 DEF Apart, Parts
  <2>3. to24hr(t) = Signed(e, h)
    BY <1>2 DEF to24hr
  <2>4. ToDuration(t) = Signed(e, h) * H + Signed(e, m) * M + Signed(e, s) * S + Signed(e, u)
    BY <1>2, <2>1, <2>3, Zenon DEF ToDuration
  <2>5. CASE e = 1
    BY <2>2, <2>4, <2>5 DEF Signed
  <2>6. CASE e = -1
    <3>1. ToDuration(t) = (-h) * H + (-m) * M + (-s) * S + (-u)
      BY <2>4, <2>6 DEF Signed
    <3>2. -n = (-h) * H + (-m) * M + (-s) * S + (-u)
      BY <2>2
    <3>3. Signed(e, n) = -n
      BY <2>6 DEF Signed
    <3> QED
      BY <3>1, <3>2, <3>3
  <2> QED
    BY <2>5, <2>6 DEF Signs
<1>4. p = "hour" => t.h < 0 <=> e = -1
  <2> SUFFICES ASSUME p = "hour" PROVE t.h < 0 <=> e = -1
    OBVIOUS
  <2>1. n = h
    BY Units DEF Apart, Parts
  <2> QED
    BY <1>2, <2>1 DEF Apart, Signed, Signs
<1>5. ASSUME NEW x, x.h = Abs(t.h), x.mode = t.mode PROVE ReadHour(x) = h
  <2>1. Abs(t.h) = h
    BY <1>2, AbsOf DEF Signed
  <2> QED
    BY <1>2, <1>5, <2>1 DEF ReadHour
<1> QED
  BY <1>1, <1>2, <1>3, <1>4, <1>5 DEF Tells

(* The face of 12 hours, after midnight.                                    *)
LEMMA FaceTells12 ==
  ASSUME NEW p \in Precisions, NEW d \in Int, NEW n \in Nat,
         NEW h \in Nat, NEW m \in Nat, NEW s \in Nat, NEW u \in Nat,
         Apart(p, d, n, 1, h, m, s, u)
  PROVE  Tells(make12(SinceMidnight(p, d)), p, n, 1, h, m, s, u)
<1>1. PICK f : f = Time(p, h, m, s, u, "is24hr")
  OBVIOUS
<1>2. PICK t : t = make12(f)
  OBVIOUS
<1>3. SinceMidnight(p, d) = f /\ 1 \in Signs
  <2>1. 1 \in Signs
    BY DEF Signs
  <2>2. SinceMidnight(p, d) =
            Time(p, Signed(1, h), Signed(1, m), Signed(1, s), Signed(1, u), "is24hr")
    BY <2>1, FaceIs
  <2>3. Signed(1, h) = h /\ Signed(1, m) = m /\ Signed(1, s) = s /\ Signed(1, u) = u
    BY DEF Signed
  <2> QED
    BY <1>1, <2>1, <2>2, <2>3
<1>4. h < 24
  BY DEF Apart
<1>5. /\ to24hr(f) = h /\ to24hr(t) = h
      /\ t.precision = p /\ t.m = m /\ t.s = s /\ t.sub = u
  BY <1>1, <1>2, <1>4, FaceTurned
<1>6. f.precision = p /\ f.m = m /\ f.s = s /\ f.sub = u
  BY <1>1 DEF Time
<1>7. ToDuration(f) = Signed(1, n)
  <2>1. Tells(SinceMidnight(p, d), p, n, 1, h, m, s, u)
    BY <1>3, FaceTells
  <2> QED
    BY <1>3, <2>1 DEF Tells
<1>8. ToDuration(t) = Signed(1, n)
  BY <1>5, <1>6, <1>7, Zenon DEF ToDuration
<1>9. t.h \in Nat
  BY <1>1, <1>2, <1>4, HourRead
<1>10. ASSUME NEW x, x.h = Abs(t.h), x.mode = t.mode PROVE ReadHour(x) = h
  <2>1. x.h = t.h
    BY <1>9, <1>10, AbsOf
  <2> QED
    BY <1>1, <1>2, <1>4, <1>10, <2>1, HourRead
<1>11. t.h < 0 <=> 1 = -1
  BY <1>9
<1> QED
  BY <1>2, <1>3, <1>5, <1>8, <1>10, <1>11 DEF Tells, Signed

(* LogDestroyer has the Log while there is one, and has none that is gone.  *)
DestroyerHasLog == bound <=> L = "live"

(* So it is wherever the run stops: a Log is neither lost nor freed twice.  *)
THEOREM DestroyerAlwaysHasLog == LogSpec => []DestroyerHasLog
<1>1. LogInit => DestroyerHasLog
  BY DEF LogInit, DestroyerHasLog
<1>2. DestroyerHasLog /\ [LogNext]_logVars => DestroyerHasLog'
  <2> SUFFICES ASSUME DestroyerHasLog, [LogNext]_logVars PROVE DestroyerHasLog'
    OBVIOUS
  <2>1. ASSUME NEW tp \in Instants, LogAppend(tp) PROVE DestroyerHasLog'
    BY <2>1 DEF LogAppend, DestroyerHasLog
  <2>2. CASE Exit
    BY <2>2 DEF Exit, DestroyerHasLog
  <2>3. CASE Restart
    BY <2>3 DEF Restart, DestroyerHasLog
  <2>4. CASE UNCHANGED <<L, bound>>
    BY <2>4 DEF DestroyerHasLog
  <2> QED
    BY <2>1, <2>2, <2>3, <2>4 DEF LogNext, Make, Make12, Make24, logVars
<1> QED
  BY <1>1, <1>2, PTL DEF LogSpec

(* The face is the duration's, on the one dial or the other.                *)
FaceInv ==
    /\ face.precision \in Precisions
    /\ of \in Durations[face.precision]
    /\ \/ face = SinceMidnight(face.precision, of)
       \/ face = make12(SinceMidnight(face.precision, of))

LEMMA FaceFields ==
  ASSUME NEW p \in Precisions, NEW d \in Durations[p]
  PROVE  \E h \in Int, m, s, u \in Int :
            h < 24 /\ SinceMidnight(p, d) = Time(p, h, m, s, u, "is24hr")
<1>1. PICK n, h, m, s, u \in Nat, e \in Signs : Apart(p, d, n, e, h, m, s, u)
  BY ApartOf
<1>2. Apart(p, d, n, e, h, m, s, u)
  BY <1>1
<1>3. SinceMidnight(p, d) =
          Time(p, Signed(e, h), Signed(e, m), Signed(e, s), Signed(e, u), "is24hr")
  BY <1>1, <1>2, FaceIs
<1>4. /\ Signed(e, h) \in Int /\ Signed(e, h) < 24
      /\ Signed(e, m) \in Int /\ Signed(e, s) \in Int /\ Signed(e, u) \in Int
  BY <1>2 DEF Signed, Apart
<1> QED
  BY <1>3, <1>4

LEMMA FaceTurns ==
  ASSUME NEW p \in Precisions, NEW d \in Durations[p]
  PROVE  LET f == SinceMidnight(p, d)
             g == make12(f)
         IN  /\ make24(f) = f /\ make24(g) = f /\ make12(g) = g
             /\ f.precision = p /\ g.precision = p /\ f.mode = "is24hr" /\ g.mode # "is24hr"
             /\ ToDuration(g) = ToDuration(f)
<1>1. PICK h \in Int, m, s, u \in Int :
          h < 24 /\ SinceMidnight(p, d) = Time(p, h, m, s, u, "is24hr")
  BY FaceFields
<1>2. PICK f : f = Time(p, h, m, s, u, "is24hr")
  OBVIOUS
<1>3. PICK g : g = make12(f)
  OBVIOUS
<1>4. /\ make24(f) = f /\ make24(g) = f /\ make12(g) = g
      /\ to24hr(f) = h /\ to24hr(g) = h
      /\ g.precision = p /\ g.m = m /\ g.s = s /\ g.sub = u /\ g.mode # "is24hr"
  BY <1>1, <1>2, <1>3, FaceTurned
<1>5. f.precision = p /\ f.m = m /\ f.s = s /\ f.sub = u /\ f.mode = "is24hr"
  BY <1>2 DEF Time
<1>6. ToDuration(g) = ToDuration(f)
  BY <1>4, <1>5, Zenon DEF ToDuration
<1> QED
  BY <1>1, <1>2, <1>3, <1>4, <1>5, <1>6

LEMMA FaceAlways == LogSpec => []FaceInv
<1>1. LogInit => FaceInv
  BY FaceTurns DEF LogInit, FaceInv
<1>2. FaceInv /\ [LogNext]_logVars => FaceInv'
  <2> SUFFICES ASSUME FaceInv, [LogNext]_logVars PROVE FaceInv'
    OBVIOUS
  <2>1. PICK p : p = face.precision /\ p \in Precisions /\ of \in Durations[p]
    BY DEF FaceInv
  <2>2. PICK f, g : f = SinceMidnight(p, of) /\ g = make12(f)
    OBVIOUS
  <2>3. /\ make24(f) = f /\ make24(g) = f /\ make12(g) = g
        /\ f.precision = p /\ g.precision = p
    BY <2>1, <2>2, FaceTurns
  <2>4. face = f \/ face = g
    BY <2>1, <2>2 DEF FaceInv
  <2>5. ASSUME face' = f \/ face' = g, of' = of PROVE FaceInv'
    BY <2>1, <2>2, <2>3, <2>5 DEF FaceInv
  <2>6. ASSUME NEW q \in Precisions, NEW n \in Durations[q], Make(q, n) PROVE FaceInv'
    BY <2>6, FaceTurns DEF Make, FaceInv
  <2>7. CASE Make12
    BY <2>2, <2>3, <2>4, <2>5, <2>7 DEF Make12
  <2>8. CASE Make24
    BY <2>2, <2>3, <2>4, <2>5, <2>8 DEF Make24
  <2>9. CASE UNCHANGED <<face, of>>
    BY <2>4, <2>5, <2>9
  <2> QED
    BY <2>6, <2>7, <2>8, <2>9 DEF LogNext, LogAppend, Exit, Restart, logVars
<1> QED
  BY <1>1, <1>2, PTL DEF LogSpec

(* Whatever the precision and the duration, the face that is made of it,    *)
(* turned to 12 hours and back however often, gives it back and tells it.   *)
THEOREM FaceAlwaysTellsTime == LogSpec => []FaceTellsTime
<1>1. FaceInv => FaceTellsTime
  <2> SUFFICES ASSUME FaceInv PROVE FaceTellsTime
    OBVIOUS
  <2>1. PICK p : p = face.precision /\ p \in Precisions /\ of \in Durations[p]
    BY DEF FaceInv
  <2>2. PICK f, g : f = SinceMidnight(p, of) /\ g = make12(f)
    OBVIOUS
  <2>3. f.mode = "is24hr" /\ g.mode # "is24hr" /\ ToDuration(g) = ToDuration(f)
    BY <2>1, <2>2, FaceTurns
  <2>4. face = f \/ face = g
    BY <2>1, <2>2 DEF FaceInv
  <2>5. PICK n, h, m, s, u \in Nat : \E e \in Signs : Apart(p, of, n, e, h, m, s, u)
    BY <2>1, ApartOf
  <2>6. PICK e \in Signs : Apart(p, of, n, e, h, m, s, u)
    BY <2>5
  <2>7. of \in Int /\ of = Signed(e, n) /\ (n = 0 => e = 1) /\ Parts(p, n, h, m, s, u)
    BY <2>1, <2>6, ApartOf DEF Apart
  <2>8. Tells(f, p, n, e, h, m, s, u)
    BY <2>1, <2>2, <2>5, <2>6, <2>7, FaceTells
  <2>9. ToDuration(face) = of
    BY <2>3, <2>4, <2>7, <2>8 DEF Tells
  <2>10. ASSUME NEW t, Tells(t, p, n, e, h, m, s, u)
         PROVE  ReadTime(Text(t)) = of * Ticks(p)
    <3>1. PICK x : x = Text(t)
      OBVIOUS
    <3>2. Shows(x, e, h, m, s, u)
      BY <2>1, <2>5, <2>6, <2>7, <2>10, <3>1, TextShows
    <3>3. p \in Precisions /\ Parts(p, n, h, m, s, u)
      BY <2>1, <2>7
    <3>4. ReadTime(x) = Signed(e, n) * Ticks(p)
      BY <3>2, <3>3, ReadShown
    <3> QED
      BY <2>7, <3>1, <3>4
  <2>11. CASE face = f
    BY <2>1, <2>8, <2>9, <2>10, <2>11 DEF FaceTellsTime, Ticks
  <2>12. CASE face = g
    <3>1. CASE of >= 0
      <4>1. e = 1
        BY <2>7, <3>1 DEF Signed
      <4>2. Tells(g, p, n, e, h, m, s, u)
        BY <2>1, <2>2, <2>5, <2>6, <2>7, <4>1, FaceTells12
      <4> QED
        BY <2>1, <2>9, <2>10, <2>12, <4>2 DEF FaceTellsTime, Ticks
    <3>2. CASE ~(of >= 0)
      BY <2>3, <2>9, <2>12, <3>2 DEF FaceTellsTime
    <3> QED
      BY <3>1, <3>2
  <2> QED
    BY <2>4, <2>11, <2>12
<1> QED
  BY <1>1, FaceAlways, PTL

(* The days of 64 bits of nanoseconds.                                      *)
InReach(dp) == -106752 <= dp /\ dp <= 106751

(* An instant taken apart into its day and the time of the day.             *)
LEMMA DayAndTime ==
  ASSUME NEW tp \in Instants
  PROVE  \E dp \in Int : \E n \in Nat :
            /\ dp = Floor(tp, PerDay) /\ n = tp - dp * PerDay /\ tp = dp * PerDay + n
            /\ n < 24 * PerHour("subsecond")
            /\ InReach(dp)
<1>1. PICK P \in Nat : P = PerDay /\ P > 0 /\ P = 24 * PerHour("subsecond") /\ P = 86400 * Den
  <2>1. "subsecond" \in Precisions
    BY DEF Precisions
  <2>2. PICK H \in Nat, D \in Nat : H = PerHour("subsecond") /\ D = Den /\ H = 3600 * D /\ D > 0
    BY <2>1, Units, DenAssumption
  <2>3. 24 * H = 86400 * D /\ 24 * H \in Nat /\ 24 * H > 0
    BY <2>2
  <2> QED
    BY <2>2, <2>3 DEF PerDay
<1>2. tp \in Int
  BY InstantsAssumption
<1>3. PICK dp \in Int : dp = tp \div P
  BY <1>1, <1>2, Divided
<1>4. PICK n \in Nat : n = tp - dp * P /\ n < P
  BY <1>1, <1>2, <1>3, Divided
<1>5. tp = dp * P + n
  BY <1>2, <1>4
<1>6. dp = Floor(tp, PerDay)
  BY <1>1, <1>2, <1>3, FloorOf
<1>7. InReach(dp)
  BY <1>1, <1>3, InstantsAssumption, SMT DEF InReach
<1> QED
  BY <1>1, <1>4, <1>5, <1>6, <1>7

(* A stamp tells its instant.                                               *)
TellsInstant(x, tp) ==
    /\ ReadStamp(x) = tp
    /\ x.time.sign = 1 /\ x.time.h < 24
    /\ YmdOk(x.date)

LEMMA StampTells ==
  ASSUME NEW tp \in Instants
  PROVE  TellsInstant(Stamp(tp), tp)
<1>0. PICK p \in Precisions : p = "subsecond"
  BY DEF Precisions
<1>1. PICK dp \in Int, n \in Nat :
            /\ dp = Floor(tp, PerDay) /\ n = tp - dp * PerDay /\ tp = dp * PerDay + n
            /\ n < 24 * PerHour(p)
            /\ InReach(dp)
  BY <1>0, DayAndTime
<1>2. PICK t : t = SinceMidnight(p, n)
  OBVIOUS
<1>3. Stamp(tp).date = FromDayPoint(dp) /\ Stamp(tp).time = Text(t)
  BY <1>0, <1>1, <1>2, Zenon DEF Stamp
<1>4. DayPoint(FromDayPoint(dp)) = dp /\ YmdOk(FromDayPoint(dp))
  BY <1>1, DayPointInverts, SMT DEF InReach
<1>5. PICK h, m, s, u \in Nat : Parts(p, n, h, m, s, u)
  BY <1>0, PartsOf
<1>6. h < 24
  BY <1>0, <1>1, <1>5 DEF Parts
<1>7. PICK e \in Signs : e = 1
  BY DEF Signs
<1>8. Apart(p, n, n, e, h, m, s, u) /\ n \in Int
  BY <1>5, <1>6, <1>7 DEF Apart, Signed
<1>9. Shows(Text(t), e, h, m, s, u)
  <2>1. Tells(t, p, n, e, h, m, s, u)
    BY <1>0, <1>2, <1>8, FaceTells
  <2> QED
    BY <1>0, <1>5, <1>7, <2>1, TextShows
<1>10. ReadTime(Text(t)) = n
  <2>1. ReadTime(Text(t)) = Signed(e, n) * Ticks(p)
    BY <1>0, <1>5, <1>9, ReadShown
  <2>2. Ticks(p) = 1
    <3>1. PICK E \in Nat : E = 3600 * Den /\ E > 0
      BY DenAssumption
    <3>2. PerHour(p) = E
      <4>1. PICK D \in Nat, M \in Nat : D = Den /\ M = PerMinute(p) /\ M = 60 * D
        BY <1>0, Units, DenAssumption
      <4>2. PerHour(p) = 60 * M
        BY <1>0, <4>1, Units
      <4> QED
        BY <3>1, <4>1, <4>2
    <3>3. E = 1 * E + 0
      BY <3>1
    <3>4. E \div E = 1
      BY <3>1, <3>3, DividedIs
    <3> QED
      BY <3>1, <3>2, <3>4 DEF Ticks
  <2> QED
    BY <1>7, <2>1, <2>2 DEF Signed
<1>11. Text(t).sign = 1 /\ Text(t).h < 24
  <2>1. t = Time(p, Signed(e, h), Signed(e, m), Signed(e, s), Signed(e, u), "is24hr")
    BY <1>0, <1>2, <1>8, FaceIs
  <2>2. t.h = h
    BY <1>7, <2>1 DEF Signed, Time
  <2>3. Text(t).h = Abs(t.h)
    BY DEF Text, HourText
  <2> QED
    BY <1>6, <1>7, <1>9, <2>2, <2>3, AbsOf DEF Shows
<1>12. ReadStamp(Stamp(tp)) = tp
  BY <1>1, <1>3, <1>4, <1>10, Zenon DEF ReadStamp
<1> QED
  BY <1>3, <1>4, <1>11, <1>12 DEF TellsInstant

Stamps == {Stamp(tp) : tp \in Instants}

(* The file is this run's once there is a Log, and every line is the stamp  *)
(* of its instant.                                                          *)
LogInv ==
    /\ L = "null" <=> said = << >>
    /\ said \in Seq(Instants) /\ trace \in Seq(Stamps)
    /\ said # << >> =>
          /\ Len(trace) = Len(said)
          /\ \A k \in 1..Len(said) : trace[k] = Stamp(said[k])

LEMMA LogAlways == LogSpec => []LogInv
<1>1. LogInit => LogInv
  BY DEF LogInit, LogInv
<1>2. LogInv /\ DestroyerHasLog /\ [LogNext]_logVars => LogInv'
  <2> SUFFICES ASSUME LogInv, DestroyerHasLog, [LogNext]_logVars PROVE LogInv'
    OBVIOUS
  <2>1. ASSUME NEW tp \in Instants, LogAppend(tp) PROVE LogInv'
    <3>1. PICK base \in Seq(Stamps) :
              /\ base = (IF L = "null" THEN << >> ELSE trace)
              /\ Len(base) = Len(said)
              /\ \A k \in 1..Len(said) : base[k] = Stamp(said[k])
      BY DEF LogInv
    <3>2. trace' = Append(base, Stamp(tp)) /\ said' = Append(said, tp) /\ L' = "live"
      BY <2>1, <3>1 DEF LogAppend, Opened
    <3>3. Stamp(tp) \in Stamps /\ said \in Seq(Instants)
      BY DEF Stamps, LogInv
    <3>4. trace' \in Seq(Stamps) /\ said' \in Seq(Instants) /\ said' # << >>
      BY <3>1, <3>2, <3>3
    <3>5. Len(trace') = Len(said')
      BY <3>1, <3>2, <3>3
    <3>6. ASSUME NEW k \in 1..Len(said') PROVE trace'[k] = Stamp(said'[k])
      <4>1. CASE k <= Len(said)
        BY <3>1, <3>2, <3>3, <4>1
      <4>2. CASE k = Len(said) + 1
        <5>1. trace'[k] = Stamp(tp)
          BY <3>1, <3>2, <4>2
        <5>2. said'[k] = tp
          BY <3>2, <3>3, <4>2
        <5> QED
          BY <5>1, <5>2
      <4>3. k <= Len(said) \/ k = Len(said) + 1
        BY <3>2, <3>3
      <4> QED
        BY <4>1, <4>2, <4>3
    <3>7. ~(L' = "null")
      BY <3>2
    <3> QED
      BY <3>4, <3>5, <3>6, <3>7 DEF LogInv
  <2>2. CASE Exit
    <3>1. /\ L' = (IF bound THEN "freed" ELSE L)
          /\ trace' = trace /\ said' = said
      BY <2>2 DEF Exit
    <3>2. L = "null" => ~bound
      BY DEF DestroyerHasLog
    <3> QED
      BY <3>1, <3>2 DEF LogInv
  <2>3. CASE Restart
    BY <2>3 DEF Restart, LogInv
  <2>4. CASE UNCHANGED <<L, trace, said>>
    BY <2>4 DEF LogInv
  <2> QED
    BY <2>1, <2>2, <2>3, <2>4 DEF LogNext, Make, Make12, Make24, logVars
<1> QED
  BY <1>1, <1>2, DestroyerAlwaysHasLog, PTL DEF LogSpec

(* Whatever the resolution of the clock and whenever it is read within the  *)
(* reach of its 64 bits, once this run has logged its file has the lines of *)
(* this run in their order, and each tells its instant.                     *)
THEOREM LogAlwaysTellsThisRun == LogSpec => []LogTellsThisRun
<1>1. LogInv => LogTellsThisRun
  <2> SUFFICES ASSUME LogInv, said # << >> PROVE LogTellsThisRun
    BY DEF LogTellsThisRun
  <2>1. /\ Len(trace) = Len(said) /\ said \in Seq(Instants) /\ trace \in Seq(Stamps)
        /\ \A k \in 1..Len(said) : trace[k] = Stamp(said[k])
    BY DEF LogInv
  <2>2. ASSUME NEW k \in DOMAIN trace PROVE TellsInstant(trace[k], said[k])
    <3>1. k \in 1..Len(said) /\ said[k] \in Instants
      BY <2>1
    <3> QED
      BY <2>1, <3>1, StampTells
  <2> QED
    BY <2>1, <2>2 DEF LogTellsThisRun, TellsInstant
<1> QED
  BY <1>1, LogAlways, PTL

=============================================================================
