------------------------------ MODULE Calendar ------------------------------
(***************************************************************************)
(* Times as src/src/exec.rs takes them apart: whole seconds since the      *)
(* beginning of 1970, which may be negative.  \div and % round towards     *)
(* minus infinity, as div_euclid and rem_euclid do for the divisors here.  *)
(***************************************************************************)
EXTENDS Integers, Sequences

CONSTANTS
    DaySeconds, HourSeconds, MinuteSeconds      \* 86400, 3600 and 60

ASSUME CalendarAssumption ==
    /\ MinuteSeconds \in Nat \ {0} /\ HourSeconds \in Nat \ {0} /\ DaySeconds \in Nat \ {0}
    /\ HourSeconds % MinuteSeconds = 0 /\ DaySeconds % HourSeconds = 0

\* Years are counted from the first of March, in eras of 400.
YearOfEra(doe) == (doe - doe \div 1460 + doe \div 36524 - doe \div 146096) \div 365
DayOfYear(doe, yoe) == doe - (365 * yoe + yoe \div 4 - yoe \div 100)
MonthOfYear(doy) == (5 * doy + 2) \div 153

\* <<year, month, day of the month>> of day doy of year y, mp months behind March.
FromMarch(y, doy, mp) ==
    <<IF mp < 10 THEN y ELSE y + 1, IF mp < 10 THEN mp + 3 ELSE mp - 9,
      doy - (153 * mp + 2) \div 5 + 1>>

CivilOfEra(era, doe, yoe) ==
    LET doy == DayOfYear(doe, yoe) IN FromMarch(yoe + era * 400, doy, MonthOfYear(doy))

CivilFromDays(days) ==
    LET z   == days + 719468
        doe == z % 146097
    IN  CivilOfEra(z \div 146097, doe, YearOfEra(doe))

Parts == {"hour", "minute", "day", "month", "year"}
Units == {"second", "minute", "hour", "day"}

\* Where the parts of a date stand in it.
DatePlace == [year |-> 1, month |-> 2, day |-> 3]

ExtractPart(part, ts) ==
    LET secs == ts % DaySeconds
    IN  CASE part = "hour"   -> secs \div HourSeconds
          [] part = "minute" -> (secs % HourSeconds) \div MinuteSeconds
          [] OTHER -> CivilFromDays(ts \div DaySeconds)[DatePlace[part]]

\* date_trunc of one time.
DateTrunc(unit, ts) ==
    LET step == CASE unit = "second" -> 1
                  [] unit = "minute" -> MinuteSeconds
                  [] unit = "hour"   -> HourSeconds
                  [] unit = "day"    -> DaySeconds
    IN  (ts \div step) * step

-----------------------------------------------------------------------------
(* The Gregorian calendar, by counting days.                               *)

IsLeap(y) == y % 4 = 0 /\ (y % 100 # 0 \/ y % 400 = 0)

\* Days from the first of January 1970 to that of year y.
DaysBefore(y) ==
    LET leaps(n) == n \div 4 - n \div 100 + n \div 400     \* leap years up to year n
    IN  365 * (y - 1970) + leaps(y - 1) - leaps(1969)

MonthDays(y) == <<31, IF IsLeap(y) THEN 29 ELSE 28, 31, 30, 31, 30, 31, 31, 30, 31, 30, 31>>

\* The date in year y that so many days lie before.
DateIn(y, days) ==
    LET before[m \in 1..13] == IF m = 1 THEN DaysBefore(y) ELSE before[m - 1] + MonthDays(y)[m - 1]
        month == CHOOSE m \in 1..12 : before[m] <= days /\ days < before[m + 1]
    IN  <<y, month, days - before[month] + 1>>

\* The only date that so many days lie before; exact for some thousand years around
\* 1970, in which the year is at most three off the quotient by 365.
CivilByCounting(days) ==
    LET guess == 1970 + days \div 365
    IN  DateIn(CHOOSE y \in (guess - 3)..(guess + 3) : DaysBefore(y) <= days /\ days < DaysBefore(y + 1),
               days)

\* What a part of a time and a time cut to a unit mean: the time is its day's
\* beginning, and so many hours, minutes and seconds.
PartMeant(part, ts) ==
    LET day    == CHOOSE d \in {(ts - s) \div DaySeconds : s \in 0..(DaySeconds - 1)} :
                     d * DaySeconds <= ts /\ ts < (d + 1) * DaySeconds
        minute == CHOOSE n \in 0..(DaySeconds \div MinuteSeconds) :
                     LET rest == ts - day * DaySeconds - n * MinuteSeconds
                     IN  0 <= rest /\ rest < MinuteSeconds
        perHour == HourSeconds \div MinuteSeconds
    IN  CASE part = "hour"   -> minute \div perHour
          [] part = "minute" -> minute % perHour
          [] OTHER -> CivilByCounting(day)[DatePlace[part]]

CutMeant(unit, ts) ==
    LET step == CASE unit = "second" -> 1 [] unit = "minute" -> MinuteSeconds
                  [] unit = "hour" -> HourSeconds [] unit = "day" -> DaySeconds
    IN  CHOOSE x \in (ts - step + 1)..ts : x % step = 0
=============================================================================
