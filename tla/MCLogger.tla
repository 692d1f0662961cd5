------------------------------ MODULE MCLogger ------------------------------
(***************************************************************************)
(* Model-checking instance of Logger: instants on both sides of midnight    *)
(* around 1970-01-01 and the end of that February; durations of a day in    *)
(* either direction, with their first and last ticks and noon.              *)
(***************************************************************************)
EXTENDS Logger

SomeInstants ==
    {d * 24 * 3600 * Den + t : d \in {-1, 0, 58}, t \in {0, 1, 24 * 3600 * Den - 1}}

SomeDurations ==
    [p \in Precisions |->
        {h * PerHour(p) + t : h \in {-24, -13, -12, -1, 0, 1, 11, 12, 13, 23},
                              t \in {0, 1, PerHour(p) - 1} \cap 0..(PerHour(p) - 1)}]

=============================================================================
