------------------------------ MODULE SalesPeriod ------------------------------
(***************************************************************************)
(* The period of the sales card of the analysis page: four buttons and a     *)
(* picker set a range of days, and each render lights the buttons whose own  *)
(* range, computed from the clock, has the same first and last day. Today    *)
(* and the week are computed by adding days of a fixed length to midnight,   *)
(* so the calendar has days that are longer and shorter: the changes to and  *)
(* from summer time.                                                         *)
(***************************************************************************)
EXTENDS Integers, Sequences

CONSTANTS
  Lengths,   \* the days of each month
  Months,    \* months of a year
  Week,      \* days of a week
  Hours,     \* hours of a day, 24 in the code
  Clocks,    \* the days that may be an hour shorter or longer
  None

VARIABLES
  short, long,  \* the days of this calendar that are, or None
  today,
  rendered,     \* the day the page was rendered last
  range,        \* rangePickerValue: the first and the last day, or None
  picked        \* history: the button the range is from and its day, or None

vars == <<short, long, today, rendered, range, picked>>

Types == {"today", "week", "month", "year"}

-----------------------------------------------------------------------------
(* The calendar *)

\* First[m]: the first day of month m.
First[m \in 1..(Len(Lengths) + 1)] == IF m = 1 THEN 1 ELSE First[m - 1] + Lengths[m - 1]
Last == First[Len(Lengths) + 1] - 1
MonthOf(d) == CHOOSE m \in 1..Len(Lengths) : First[m] <= d /\ d < First[m + 1]
January(d) == ((MonthOf(d) - 1) \div Months) * Months + 1

HoursOf(d) == IF d = short THEN Hours - 1 ELSE IF d = long THEN Hours + 1 ELSE Hours

\* The hour day d begins with, and the day an hour is of.
Midnight(d) == (d - 1) * Hours - (IF short \in 1..(d - 1) THEN 1 ELSE 0)
                               + (IF long \in 1..(d - 1) THEN 1 ELSE 0)
DayOf(h) == CHOOSE d \in 1..Last : Midnight(d) <= h /\ h < Midnight(d) + HoursOf(d)

-----------------------------------------------------------------------------
(* getTimeDistance *)

\* A second less than n days of the fixed length from the hour h: their last hour.
Ends(h, n) == DayOf(h + n * Hours - 1)

\* getDay, with Sunday last.
DayOfWeek(d) == (d - 1) % Week

Today(d) == <<d, Ends(Midnight(d), 1)>>

\* Variant: the range ends where the last day begins.
ThisWeek_ToMidnight(d) ==
  LET begin == Midnight(d) - DayOfWeek(d) * Hours
  IN <<DayOf(begin), Ends(begin, Week - 1)>>

ThisWeek(d) ==
  LET begin == Midnight(d) - DayOfWeek(d) * Hours
  IN <<DayOf(begin), Ends(begin, Week)>>

\* Variant: the day of the month is kept where the next month has no such day.
AddMonth_Overflows(d) == First[MonthOf(d) + 1] + (d - First[MonthOf(d)])

\* add(1, 'months') of dayjs: the last day of the month where it is shorter.
AddMonth(d) ==
  LET m == MonthOf(d)
      kept == d - First[m]
  IN First[m + 1] + (IF kept < Lengths[m + 1] THEN kept ELSE Lengths[m + 1] - 1)

\* A second before the first of the month that a month from d is in.
ThisMonth(d) == <<First[MonthOf(d)], First[MonthOf(AddMonth(d))] - 1>>

ThisYear(d) == <<First[January(d)], First[January(d) + Months] - 1>>

GetTimeDistance(t, d) ==
  CASE t = "today" -> Today(d) [] t = "week" -> ThisWeek(d)
    [] t = "month" -> ThisMonth(d) [] t = "year" -> ThisYear(d)

-----------------------------------------------------------------------------
(* The page *)

Days == (Week + 1)..(First[Len(Lengths)] - 1)

TypeOK ==
  /\ short \in Clocks \cup {None} /\ long \in Clocks \cup {None}
  /\ today \in Days /\ rendered \in Days
  /\ range \in {None} \cup ((1..Last) \X (1..Last))
  /\ picked \in {None} \cup (Types \X Days)

\* The state begins with the year.
Init ==
  /\ short \in Clocks \cup {None} /\ long \in (Clocks \ {short}) \cup {None}
  /\ today \in Days /\ rendered = today
  /\ range = ThisYear(today) /\ picked = <<"year", today>>

\* Variant: the button that was used is lit.
IsActive_Picked(t) == picked # None /\ picked[1] = t

\* isActive, as of the last render.
IsActive(t) == range # None /\ range = GetTimeDistance(t, rendered)

SelectDate(t) ==
  /\ range' = GetTimeDistance(t, today) /\ picked' = <<t, today>> /\ rendered' = today
  /\ UNCHANGED <<short, long, today>>

\* The picker, where the user takes single days for all ranges, or clears it.
HandleRangePickerChange ==
  /\ \E r \in {None} \cup {<<d, d>> : d \in Days} : r # range /\ range' = r
  /\ picked' = None /\ rendered' = today
  /\ UNCHANGED <<short, long, today>>

\* The page is rendered for another reason: data, a tab, the sales type.
Rendered ==
  /\ rendered # today /\ rendered' = today
  /\ UNCHANGED <<short, long, today, range, picked>>

Midnights ==
  /\ today + 1 \in Days /\ today' = today + 1
  /\ UNCHANGED <<short, long, rendered, range, picked>>

Next ==
  \/ HandleRangePickerChange \/ Rendered \/ Midnights
  \/ \E t \in Types : SelectDate(t)

Spec == Init /\ [][Next]_vars

-----------------------------------------------------------------------------
(* Properties *)

\* The period of t that day d is in.
Period(t, d) ==
  LET m == MonthOf(d)
      monday == d - DayOfWeek(d)
  IN CASE t = "today" -> <<d, d>> [] t = "week" -> <<monday, monday + Week - 1>>
       [] t = "month" -> <<First[m], First[m + 1] - 1>>
       [] t = "year" -> <<First[January(d)], First[January(d) + Months] - 1>>

\* The range a button sets is the period the day is in. Where that is a day or
\* a week with a day of 23 hours, it may be a day too long at one end.
RangeIsPeriod ==
  picked # None =>
    LET p == Period(picked[1], picked[2]) IN
    \/ range = p
    \/ /\ picked[1] \in {"today", "week"} /\ short \in p[1]..p[2]
       /\ \/ range = <<p[1] - 1, p[2]>>
          \/ range = <<p[1], p[2] + 1>>

\* "This week" is not lit over the range of another week: the range of a button
\* that is lit has the day of the last render in it.
LitIsCurrent ==
  \A t \in Types : IsActive(t) => range[1] <= rendered /\ rendered <= range[2]
=============================================================================
