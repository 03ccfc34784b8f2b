---------------------------- MODULE BriefingCalendar ----------------------------
(***************************************************************************)
(* The week that the date of a briefing lies in (weekIndex in internal/    *)
(* worker/briefing.go): it decides which lessons are held that day.  Weeks *)
(* are counted from the start of the semester or are those of the year,    *)
(* and begin on the day of the week the user has chosen.                   *)
(*                                                                         *)
(* A date is the number of days since 1 January of the year 1, a Monday,   *)
(* in the calendar of Go's package time.                                   *)
(***************************************************************************)
EXTENDS Integers

CONSTANTS
  FirstYear, LastYear,  \* bound: years of the dates
  Anchors               \* dates that a semester starts at

ASSUME YearsAssumption ==
  /\ FirstYear \in Nat \ {0, 1} /\ LastYear \in Nat
  /\ Anchors \subseteq Nat

VARIABLES
  target,   \* the date of the briefing, one day after the other
  year,     \* its year
  settings  \* weekNumberMode, semesterWeekStartDate and weekStartDay in the document

calendarVars == <<target, year, settings>>

YearStart(y) == 365 * (y - 1) + (y - 1) \div 4 - (y - 1) \div 100 + (y - 1) \div 400
Weekday(d)   == (d + 1) % 7  \* 0 for Sunday

Settings == [mode : {"SEMESTER", "NATURAL"}, anchor : Anchors, first : 0..6]

CalendarInit ==
  /\ year = FirstYear /\ target = YearStart(FirstYear)
  /\ settings \in Settings

-----------------------------------------------------------------------------
StartOfWeek(d, s) == d - ((7 + Weekday(d) - s) % 7)

\* The first week of a year is the first that has four days in it.
FirstWeekStartFifth(y, s) ==
  LET begin == StartOfWeek(YearStart(y), s) IN IF 7 - (YearStart(y) - begin) < 5 THEN begin + 7 ELSE begin
FirstWeekStart(y, s) ==
  LET begin == StartOfWeek(YearStart(y), s) IN IF 7 - (YearStart(y) - begin) < 4 THEN begin + 7 ELSE begin

WeekOfWeekBasedYear(d, y, s) ==
  LET begin == StartOfWeek(d, s)
  IN IF begin < FirstWeekStart(y, s) THEN (begin - FirstWeekStart(y - 1, s)) \div 7 + 1
     ELSE IF begin >= FirstWeekStart(y + 1, s) THEN 1
     ELSE (begin - FirstWeekStart(y, s)) \div 7 + 1

\* Go divides towards zero, floorDiv puts that right.
FloorDiv(value, divisor) ==
  LET quotient == IF value < 0 THEN -((-value) \div divisor) ELSE value \div divisor
  IN IF value % divisor # 0 /\ value < 0 THEN quotient - 1 ELSE quotient

SemesterWeek(d) == FloorDiv(d - StartOfWeek(settings.anchor, settings.first), 7) + 1

WeekIndex(d, y) ==
  IF settings.mode = "SEMESTER" THEN SemesterWeek(d) ELSE WeekOfWeekBasedYear(d, y, settings.first)

Week == WeekIndex(target, year)

-----------------------------------------------------------------------------
\* The next day comes.
NextDay ==
  /\ year' = IF target + 1 = YearStart(year + 1) THEN year + 1 ELSE year
  /\ year' <= LastYear
  /\ target' = target + 1
  /\ UNCHANGED settings

CalendarSpec == CalendarInit /\ [][NextDay]_calendarVars

-----------------------------------------------------------------------------
CalendarTypeOK ==
  /\ year \in Nat \ {0, 1} /\ target \in YearStart(year)..(YearStart(year + 1) - 1)
  /\ settings \in Settings

BeginsWeek(d)      == Weekday(d) = settings.first
\* 4 January of the year y is within the week that begins at d.
HasFourth(d, y)    == YearStart(y) + 3 \in d..(d + 6)
BeginsYear(d, y)   == settings.mode = "NATURAL" /\ (HasFourth(d, y) \/ HasFourth(d, y + 1))

\* Weeks follow each other: the number goes up by one on the first day of each week and on no other
\* day, also over the turn of the year and before the semester; it returns to one with the week that
\* has 4 January in it.  So no lesson is left out or doubled because a week was miscounted.
WeekAdvances ==
  [][target' # target =>
       Week' = IF ~BeginsWeek(target') THEN Week
               ELSE IF BeginsYear(target', year') THEN 1
               ELSE Week + 1]_calendarVars
=============================================================================
