----------------------------- MODULE TimeOfDay ------------------------------
(***************************************************************************)
(* time_of_day of date.h: a duration since midnight split into its fields,  *)
(* on a face of 24 or of 12 hours, and its text.  There is a class for each *)
(* precision; a field below the precision is 0 here.                        *)
(***************************************************************************)
EXTENDS Chrono

CONSTANT Den                (* ticks of a second, in "subsecond" precision: *)
                            (* nanoseconds at the finest                    *)

ASSUME DenAssumption == Den \in Nat /\ Den > 1 /\ Den <= 1000000000

(* classify_duration; below, the ticks in an hour, a minute, a second.      *)
Precisions == {"hour", "minute", "second", "subsecond"}

PerSecond(p) == IF p = "subsecond" THEN Den ELSE 1
PerMinute(p) == IF p \in {"second", "subsecond"} THEN 60 * PerSecond(p) ELSE 1
PerHour(p)   == IF p = "hour" THEN 1 ELSE 60 * PerMinute(p)

Modes == {"is24hr", "am", "pm"}

Time(p, h, m, s, sub, md) ==
    [precision |-> p, h |-> h, m |-> m, s |-> s, sub |-> sub, mode |-> md]

(* The constructors from a duration: the fields cast off one by one.        *)
SinceMidnight(p, n) ==
    LET h == Truncate(n, PerHour(p))
        a == n - h * PerHour(p)
        m == IF p = "hour" THEN 0 ELSE Truncate(a, PerMinute(p))
        b == a - m * PerMinute(p)
        s == IF p \in {"hour", "minute"} THEN 0 ELSE Truncate(b, PerSecond(p))
    IN  Time(p, h, m, s, b - s * PerSecond(p), "is24hr")

-----------------------------------------------------------------------------
(* A slip: noon on the clock is 12 and 12 hours.                            *)
to24hrNoon(t) ==
    CASE t.mode = "pm" -> t.h + 12
      [] t.mode = "am" /\ t.h = 12 -> 0
      [] OTHER -> t.h

(* time_of_day_base                                                         *)
to24hr(t) ==
    CASE t.mode = "pm" /\ t.h # 12 -> t.h + 12
      [] t.mode = "am" /\ t.h = 12 -> 0
      [] OTHER -> t.h

make24(t) == [t EXCEPT !.h = to24hr(t), !.mode = "is24hr"]

make12(t) ==
    IF t.mode # "is24hr" THEN t
    ELSE IF t.h >= 12 THEN [t EXCEPT !.h = IF t.h > 12 THEN t.h - 12 ELSE t.h, !.mode = "pm"]
    ELSE [t EXCEPT !.h = IF t.h = 0 THEN 12 ELSE t.h, !.mode = "am"]

(* operator precision, to_duration                                          *)
ToDuration(t) ==
    to24hr(t) * PerHour(t.precision) + t.m * PerMinute(t.precision)
        + t.s * PerSecond(t.precision) + t.sub

-----------------------------------------------------------------------------
(* ceil_log10, but for its step for numbers of 17 digits; pow10 is 10^n.    *)
CastOff(x, power, n) ==
    IF x.i >= power THEN [i |-> x.i \div power, n |-> x.n + n] ELSE x

CeilLog10(i) ==
    CastOff(CastOff(CastOff(CastOff(CastOff([i |-> i - 1, n |-> 0],
        100000000, 8), 10000, 4), 100, 2), 10, 1), 1, 1).n

Abs(n) == IF n < 0 THEN -n ELSE n

(* operator<<: what a reader of the text reads in its places.  A class of   *)
(* whole hours prints the hours as they are; the others print a sign first  *)
(* and the fields without theirs.  The decimals are filled up with zeros.   *)
HourText(t) ==
    [sign |-> IF t.h < 0 THEN -1 ELSE 1, h |-> Abs(t.h), m |-> 0, s |-> 0,
     frac |-> 0, digits |-> 0, mode |-> t.mode]

Text(t) ==
    IF t.precision = "hour" THEN HourText(t)
    ELSE [sign   |-> IF ToDuration(t) < 0 THEN -1 ELSE 1,
          h      |-> Abs(t.h), m |-> Abs(t.m), s |-> Abs(t.s),
          frac   |-> (Abs(t.sub) * 10 ^ CeilLog10(Den)) \div Den,
          digits |-> CeilLog10(Den),
          mode   |-> t.mode]

=============================================================================
