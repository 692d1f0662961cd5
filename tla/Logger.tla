------------------------------- MODULE Logger -------------------------------
(***************************************************************************)
(* The log of the program, logger.h: Log::Append makes the one Log when it  *)
(* is first called, which empties the file of the run before, and writes a  *)
(* line that begins with the time as date.h prints it; LogDestroyer deletes *)
(* the Log when the program exits.  A line is flushed as it is written, so  *)
(* that it outlives a crash.                                                *)
(*                                                                         *)
(* The program also holds a time_of_day and turns its face to and fro.      *)
(***************************************************************************)
EXTENDS TimeOfDay, Sequences

CONSTANTS
    Instants,               (* readings of the system clock, in ticks       *)
    Durations,              (* arguments of make_time, by precision         *)
    MaxLines

(* The clock counts nanoseconds from 1970 in 64 bits: 2^63 of them are      *)
(* 106751 days and some hours.                                              *)
ASSUME InstantsAssumption ==
    \A tp \in Instants :
        /\ tp \in Int
        /\ -106752 <= tp \div (86400 * Den) /\ tp \div (86400 * Den) <= 106751

ASSUME DurationsAssumption ==
    \A p \in Precisions : \A n \in Durations[p] :
        n \in Int /\ n \in (-24 * PerHour(p))..(24 * PerHour(p) - 1)

(* The log's own precision keeps every tick in its decimals.                *)
ASSUME DecimalsAssumption == (10 ^ CeilLog10(Den)) % Den = 0

VARIABLES
    L,                      (* Log::L: "null", "live", "freed" (dangling)   *)
    bound,                  (* whether _destroyer has the Log               *)
    trace,                  (* trace.log: the stamps of its lines           *)
    said,                   (* history: what this run has appended, when    *)
    face, of                (* a time_of_day; the duration it is to tell    *)

logVars == <<L, bound, trace, said, face, of>>

LogInit ==
    /\ L = "null" /\ bound = FALSE
    /\ trace = << >> /\ said = << >>
    /\ \E p \in Precisions : of \in Durations[p] /\ face = SinceMidnight(p, of)

-----------------------------------------------------------------------------
PerDay == 24 * PerHour("subsecond")

(* A slip: the day cut off towards zero.                                    *)
StampTruncated(tp) ==
    LET dp == Truncate(tp, PerDay)
    IN  [date |-> FromDayPoint(dp),
         time |-> Text(SinceMidnight("subsecond", tp - dp * PerDay))]

(* operator<< for a time_point.                                             *)
Stamp(tp) ==
    LET dp == Floor(tp, PerDay)
    IN  [date |-> FromDayPoint(dp),
         time |-> Text(SinceMidnight("subsecond", tp - dp * PerDay))]

(* The constructor of Log opens the file twice, for output, which empties   *)
(* it, and to append.                                                       *)
Opened == << >>

LogAppend(tp) ==
    /\ L # "freed" /\ Len(said) < MaxLines
    /\ L' = "live"
    /\ bound' = TRUE
    /\ trace' = Append(IF L = "null" THEN Opened ELSE trace, Stamp(tp))
    /\ said' = Append(said, tp)
    /\ UNCHANGED <<face, of>>

(* Exit: static destructors, the Log's among them.  No Partition2 logs      *)
(* after it: _destroyer is constructed before any of them can be.           *)
Exit ==
    /\ L' = IF bound THEN "freed" ELSE L
    /\ bound' = FALSE
    /\ UNCHANGED <<trace, said, face, of>>

(* The program runs again, after an exit or a crash.                        *)
Restart ==
    /\ L' = "null" /\ bound' = FALSE
    /\ said' = << >>
    /\ UNCHANGED <<trace, face, of>>

Make(p, n) == face' = SinceMidnight(p, n) /\ of' = n /\ UNCHANGED <<L, bound, trace, said>>
Make12 == face' = make12(face) /\ UNCHANGED <<L, bound, trace, said, of>>
Make24 == face' = make24(face) /\ UNCHANGED <<L, bound, trace, said, of>>

LogNext ==
    \/ \E tp \in Instants : LogAppend(tp)
    \/ Exit \/ Restart
    \/ \E p \in Precisions : \E n \in Durations[p] : Make(p, n)
    \/ Make12 \/ Make24

LogSpec == LogInit /\ [][LogNext]_logVars

-----------------------------------------------------------------------------
(* What the reader of a text makes of it, in ticks of a second.             *)
ReadHour(x) ==
    CASE x.mode = "is24hr" -> x.h
      [] x.mode = "am" -> x.h % 12
      [] x.mode = "pm" -> 12 + (x.h % 12)

ReadTime(x) ==
    x.sign * (((ReadHour(x) * 60 + x.m) * 60 + x.s) * Den + (x.frac * Den) \div 10 ^ x.digits)

ReadStamp(x) == DayPoint(x.date) * PerDay + ReadTime(x.time)

(* Once this run has logged, the file has its lines and no others, in the   *)
(* order they were written, and each tells the time it was written at, to   *)
(* the tick and also before 1970; until then it has the last run's.         *)
LogTellsThisRun ==
    said # << >> =>
        /\ Len(trace) = Len(said)
        /\ \A k \in DOMAIN trace :
              /\ ReadStamp(trace[k]) = said[k]
              /\ trace[k].time.sign = 1 /\ trace[k].time.h < 24
              /\ YmdOk(trace[k].date)

(* However the face is turned, it tells the same time: as a duration, and   *)
(* in its text on the face of 24 hours, or on that of 12 after midnight.    *)
FaceTellsTime ==
    /\ ToDuration(face) = of
    /\ face.mode = "is24hr" \/ of >= 0 =>
          ReadTime(Text(face)) = of * ((3600 * Den) \div PerHour(face.precision))

=============================================================================
