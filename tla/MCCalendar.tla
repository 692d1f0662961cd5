----------------------------- MODULE MCCalendar -----------------------------
(***************************************************************************)
(* Model-checking instance of Calendar: the 400 years from -30, with the    *)
(* turn of the eras and year 0, the 400 years from 1970, and the first and  *)
(* the last years a short can hold.                                         *)
(***************************************************************************)
EXTENDS Calendar

Epoch    == [point |-> 0, year |-> 1970, weekday |-> 4, days |-> 146100]
YearZero == [point |-> -5 * 146097, year |-> -30, weekday |-> 4, days |-> 146100]
First    == [point |-> -12687794, year |-> -32768, weekday |-> 4, days |-> 1500]
Last     == [point |-> 11247277, year |-> 32764, weekday |-> 3, days |-> 1500]

AllStarts == {Epoch, YearZero, First, Last}

SomeMonths == {-25, -12, -1, 1, 13}

=============================================================================
