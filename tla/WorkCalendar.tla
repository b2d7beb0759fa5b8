---------------------------- MODULE WorkCalendar ----------------------------
(***************************************************************************)
(* Working time: the same hours of every day but the last of a week.  Time *)
(* is counted in whole units from the midnight before the first day.  The  *)
(* code walks from day to day; holidays it does not know.                  *)
(***************************************************************************)
EXTENDS Integers, FiniteSetsExt

CONSTANTS
  DayLength,   \* units in a day
  WeekLength,  \* days in a week, the last one without working time
  OpensAt,     \* working time in a day: from this unit
  ClosesAt     \* up to this one

ASSUME CalendarAssumption ==
  /\ DayLength \in Nat /\ WeekLength \in Nat \ {0, 1}
  /\ OpensAt \in Nat /\ ClosesAt \in (OpensAt + 1)..DayLength

Day(t) == t \div DayLength
IsWorkday(day) == day % WeekLength # WeekLength - 1
BusinessStart(day) == day * DayLength + OpensAt
PeriodEnd(day) == day * DayLength + ClosesAt

\* _next_business_start(): t itself inside working time.
NextBusinessStart[t \in Nat] ==
  IF IsWorkday(Day(t)) /\ t < PeriodEnd(Day(t))
  THEN Max({t, BusinessStart(Day(t))})
  ELSE NextBusinessStart[BusinessStart(Day(t) + 1)]

\* add_work_hours(): an amount that just fits ends with the day.
AddWorkHours[amount \in Nat] ==
  [t \in Nat |->
    IF amount = 0 THEN t
    ELSE LET from == NextBusinessStart[t]
             available == PeriodEnd(Day(from)) - from
         IN  IF amount <= available
             THEN from + amount
             ELSE AddWorkHours[amount - available][BusinessStart(Day(from) + 1)]]

\* work_hours_between(): the part of every workday's period from start to end.
WorkHoursBetween(start, end) ==
  LET Window(day) == Max({0, Min({end, PeriodEnd(day)}) - Max({start, BusinessStart(day)})})
  IN  MapThenSumSet(Window, {day \in Day(start)..Day(end) : IsWorkday(day)})

\* What a unit of time is, for the properties: the code never asks.
Working(unit) ==
  /\ IsWorkday(Day(unit))
  /\ unit % DayLength \in OpensAt..(ClosesAt - 1)
=============================================================================
