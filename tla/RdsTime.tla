--------------------------------- MODULE RdsTime ---------------------------------
(***************************************************************************)
(* rds_decode_time of rds-timesync.c: the modified Julian date of a time    *)
(* frame becomes a day, month and year. The specification is a calendar      *)
(* that turns one day at a time, beginning with 1 March 1900; the formula   *)
(* must name the same day.                                                 *)
(*                                                                         *)
(* The constants of the formula are multiples of 1/10000, in which no date  *)
(* meets a whole number exactly, so that doubles truncate as \div does.     *)
(***************************************************************************)
EXTENDS Integers

CONSTANT LastMjd

ASSUME RdsTimeAssumption == LastMjd \in Int /\ LastMjd <= 88127

VARIABLES mjd, day, month, year   \* year counts from 1900, as tm_year does

dayVars == <<mjd, day, month, year>>

-------------------------------------------------------------------------------
(* rds_decode_time. *)

Yp(m) == (100 * m - 1507820) \div 36525

DaysOfYears(yp) == (yp * 36525) \div 100

Mp(m) == ((10 * (m - DaysOfYears(Yp(m))) - 149561) * 1000) \div 306001

(* Mutant: February is not taken for a month of the next year. *)
KJanuary(m) == IF Mp(m) = 14 THEN 1 ELSE 0

\* January and February are months 14 and 15 of the year before.
K(m) == IF Mp(m) \in {14, 15} THEN 1 ELSE 0

DayOf(m) == m - 14956 - DaysOfYears(Yp(m)) - (Mp(m) * 306001) \div 10000
MonthOf(m) == Mp(m) - 1 - 12 * K(m)
YearOf(m) == Yp(m) + K(m)

-------------------------------------------------------------------------------
(* The calendar. *)

\* From March 1900 to February 2100 every fourth year is a leap year.
DaysIn(mon, yr) == CASE mon = 2 -> IF yr % 4 = 0 THEN 29 ELSE 28
                     [] mon \in {4, 6, 9, 11} -> 30
                     [] OTHER -> 31

FirstDay == mjd = 15079 /\ day = 1 /\ month = 3 /\ year = 0

NextDay ==
  /\ day < DaysIn(month, year)
  /\ day' = day + 1
  /\ UNCHANGED <<month, year>>

NextMonth ==
  /\ day = DaysIn(month, year) /\ month < 12
  /\ day' = 1 /\ month' = month + 1
  /\ UNCHANGED year

NextYear ==
  /\ day = 31 /\ month = 12
  /\ day' = 1 /\ month' = 1 /\ year' = year + 1

Tomorrow == mjd < LastMjd /\ mjd' = mjd + 1 /\ (NextDay \/ NextMonth \/ NextYear)

CalendarSpec == FirstDay /\ [][Tomorrow]_dayVars

-------------------------------------------------------------------------------
(* rds_decode_time names the calendar's day for every date of two centuries,
   through every leap day and every turn of a year. *)
DecodesToday == DayOf(mjd) = day /\ MonthOf(mjd) = month /\ YearOf(mjd) = year
================================================================================
