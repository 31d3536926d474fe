------------------------------ MODULE Calendar ------------------------------
(***************************************************************************)
(* Anniversaries in the calendar (annual-allowance.scheduler.ts).  A date  *)
(* is a year, a month 0 .. 11 and a day; the time of day is carried over   *)
(* unchanged and left out.                                                 *)
(***************************************************************************)
EXTENDS Integers

CONSTANTS StartDates,  \* bound: the dates that are compared with each other
          FirstDays    \* bound: the dates a first period is tried on

Leap(year) == year % 4 = 0 /\ (year % 100 # 0 \/ year % 400 = 0)

DaysIn(year, month) == IF month = 1 THEN (IF Leap(year) THEN 29 ELSE 28)
                       ELSE IF month \in {3, 5, 8, 10} THEN 30 ELSE 31

Dates(years) == {d \in [year : years, month : 0 .. 11, day : 1 .. 31] :
                    d.day <= DaysIn(d.year, d.month)}

ASSUME DatesAssumption == StartDates \cup FirstDays \subseteq Dates(Nat)

Before(a, b) == \/ a.year < b.year
                \/ a.year = b.year /\ a.month < b.month
                \/ a.year = b.year /\ a.month = b.month /\ a.day < b.day

(* Mutant of AddCalendarMonths: a day that the month does not have runs on
   into the next month, as Date.UTC does by itself.                        *)
AddMonthsRunningOn(date, months) ==
    LET month == date.month + months
        year == date.year + month \div 12
        last == DaysIn(year, month % 12)
        over == date.day - last
    IN
    IF over <= 0 THEN [year |-> year, month |-> month % 12, day |-> date.day]
    ELSE [year |-> year + (IF month % 12 = 11 THEN 1 ELSE 0), month |-> (month + 1) % 12, day |-> over]

(* Whole months, the day clamped to the end of a shorter one.              *)
AddCalendarMonths(date, months) ==
    LET month == date.month + months
        year == date.year + month \div 12
        last == DaysIn(year, month % 12)
    IN
    [year |-> year, month |-> month % 12, day |-> IF date.day < last THEN date.day ELSE last]

(* dueAnnualMonths, for a period of any number of months: it stops at the
   first anniversary that is still to come or beyond the period.           *)
DueMonths(start, end, today, period) ==
    {m \in 1 .. period - 1 :
        \A k \in 1 .. m : LET anniversary == AddCalendarMonths(start, k) IN
                          ~ Before(today, anniversary) /\ Before(anniversary, end)}

(* How many months have passed, counted by the calendar's own fields: a
   month is over on the start's day, or on its last day if it is shorter.  *)
MonthsSince(start, today) ==
    12 * (today.year - start.year) + today.month - start.month
       - (IF today.day >= start.day \/ today.day = DaysIn(today.year, today.month) THEN 0 ELSE 1)

(* Every month that has begun since the start date is due exactly once, none
   is skipped or doubled at the end of a short month.                      *)
EveryDueIsCounted ==
    \A start \in StartDates : \A date \in StartDates :
       Before(start, date) /\ Before(date, AddCalendarMonths(start, 12)) =>
          DueMonths(start, AddCalendarMonths(start, 12), date, 12) = 1 .. MonthsSince(start, date)
=============================================================================
