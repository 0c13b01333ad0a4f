------------------------------ MODULE Calendar ------------------------------
(***************************************************************************)
(* The calendar (content/calendar.ts and its page): which days a view      *)
(* shows, which instants it asks the database for, and the steps from one  *)
(* period to the next, in a workspace's zone whose clocks change once.     *)
(*                                                                         *)
(* A day is counted from the start of a strip of months, an instant in     *)
(* hours of UTC, where an hour is what the clocks change by; DayHours,     *)
(* WeekLength and the starts of the months are parameters, so small ones   *)
(* have the same edges as the real ones.  Years are left out.              *)
(***************************************************************************)
EXTENDS Integers, Sequences

CONSTANTS
  DayHours, WeekLength,
  MonthStarts,     \* the first days, that of the month after the last included
  ListLength,      \* the days of the list view
  Zones,           \* [before, after, change]: hours ahead of UTC, and when
  Instants         \* those a post may be planned for

ASSUME CalendarConstants ==
  /\ DayHours \in Nat \ {0} /\ WeekLength \in Nat \ {0} /\ ListLength \in Nat \ {0}
  /\ MonthStarts \in Seq(Int) /\ Len(MonthStarts) > 3
  /\ \A m \in 1..(Len(MonthStarts) - 1) : MonthStarts[m] < MonthStarts[m + 1]
  /\ Zones \subseteq [before: Int, after: Int, change: Int]
  /\ \A z \in Zones : z.after - z.before \in {-1, 1}
  /\ Instants \subseteq Int

VARIABLES
  view,    \* in the address of the page
  anchor,  \* in the address: any day of the period
  zone     \* the workspace's

calendarVars == <<view, anchor, zone>>

Views == {"month", "week", "list"}
Months == 1..(Len(MonthStarts) - 1)

MonthStart(m) == MonthStarts[m]
MonthEnd(m) == MonthStarts[m + 1] - 1
MonthOf(day) == CHOOSE m \in Months : day \in MonthStart(m)..MonthEnd(m)

(* The months at the two ends only lend days to those between.             *)
Anchors == MonthStart(2)..MonthEnd(Len(MonthStarts) - 2)

-----------------------------------------------------------------------------
OffsetAt(t, z) == IF t < z.change THEN z.before ELSE z.after
WallClock(t, z) == t + OffsetAt(t, z)
LocalDay(t, z) == WallClock(t, z) \div DayHours

(* Two corrections of a guess that takes the wall clock for UTC.           *)
CorrectedOnce(day, z) == day * DayHours - OffsetAt(day * DayHours, z)
StartOfLocalDay(day, z) == day * DayHours - OffsetAt(CorrectedOnce(day, z), z)

DayOfWeek(day) == day % WeekLength
BackToWeekStart(day) == day - DayOfWeek(day)
OnToWeekEnd(day) == day + (WeekLength - 1 - DayOfWeek(day))

(* calendarRange                                                           *)
PeriodStart(v, a) ==
  CASE v = "month" -> MonthStart(MonthOf(a)) [] v = "week" -> BackToWeekStart(a) [] v = "list" -> a
PeriodEnd(v, a) ==
  CASE v = "month" -> MonthEnd(MonthOf(a))
    [] v = "week"  -> PeriodStart(v, a) + WeekLength - 1
    [] v = "list"  -> a + ListLength - 1

FirstDay(v, a) ==
  IF v = "month" THEN BackToWeekStart(PeriodStart(v, a)) ELSE PeriodStart(v, a)
LastDay(v, a) == IF v = "month" THEN OnToWeekEnd(PeriodEnd(v, a)) ELSE PeriodEnd(v, a)

Days(v, a) == FirstDay(v, a)..LastDay(v, a)
From(v, a, z) == StartOfLocalDay(FirstDay(v, a), z)
To(v, a, z) == StartOfLocalDay(LastDay(v, a) + 1, z)

(* shiftAnchor: a month keeps its day, or takes the last one it has.       *)
Lesser(a, b) == IF a < b THEN a ELSE b
SameDayOf(day, m) == MonthStart(m) + (day - MonthStart(MonthOf(day)))
DayInMonth(day, m) == Lesser(SameDayOf(day, m), MonthEnd(m))

ShiftAnchor(v, a, direction) ==
  CASE v = "month" -> DayInMonth(a, MonthOf(a) + direction)
    [] v = "week"  -> a + direction * WeekLength
    [] v = "list"  -> a + direction * ListLength

(* groupByLocalDay: the day's cell a post is put in; the grid has a cell   *)
(* for each of Days.                                                       *)
InCell(t, day, z) == LocalDay(t, z) = day

-----------------------------------------------------------------------------
CalendarInit ==
  /\ view = "month" /\ anchor \in Anchors /\ zone \in Zones

(* The links of the page: the period before and after, and other views.    *)
StepPeriod(direction) ==
  /\ anchor' = ShiftAnchor(view, anchor, direction)
  /\ anchor' \in Anchors                                  \* bound
  /\ UNCHANGED <<view, zone>>

ChangeView(v) == v # view /\ view' = v /\ UNCHANGED <<anchor, zone>>

CalendarNext ==
  \/ \E direction \in {-1, 1} : StepPeriod(direction)
  \/ \E v \in Views : ChangeView(v)

CalendarSpec == CalendarInit /\ [][CalendarNext]_calendarVars

-----------------------------------------------------------------------------
CalendarTypeOK == view \in Views /\ anchor \in Anchors /\ zone \in Zones

(* A post is asked for exactly if its local day is one of those shown      *)
(* (calendar.ts:4-8), on whichever day the clocks change.                  *)
EveryDayIsFetched ==
  \A t \in Instants :
    (\E day \in Days(view, anchor) : InCell(t, day, zone)) <=>
      t >= From(view, anchor, zone) /\ t < To(view, anchor, zone)

(* So it is, but where the clocks change at a boundary: behind UTC when    *)
(* they skip its midnight (the second correction is then one too many), at *)
(* or ahead of UTC when they repeat it (the later midnight is taken).      *)
MidnightsOf(day, z) ==
  {t \in {day * DayHours - z.before, day * DayHours - z.after} :
     WallClock(t, z) = day * DayHours}

UnsureMidnight(day, z) ==
  \/ z.before < 0 /\ MidnightsOf(day, z) = {}
  \/ z.after >= 0 /\ \E t, u \in MidnightsOf(day, z) : t # u

DaysShownAreFetched ==
  \/ \E day \in {FirstDay(view, anchor), LastDay(view, anchor) + 1} : UnsureMidnight(day, zone)
  \/ EveryDayIsFetched
=============================================================================
