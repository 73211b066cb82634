-------------------------------- MODULE Period --------------------------------
(***************************************************************************)
(* The windows of days the dashboard asks for, and the ones it compares    *)
(* them with (dateRange and prevPeriod of the sales, products and          *)
(* customers services, resolvePeriod and comparisonPeriod of the           *)
(* comparison service).                                                    *)
(*                                                                         *)
(* A day is a number and so is a month, counted from January of the year   *)
(* 0: month 12 * y + i is the i-th, from 0, of the year y.  A window is    *)
(* the days from its start to its end, both of them in it: the queries     *)
(* select order_date BETWEEN start AND end.                                *)
(***************************************************************************)
EXTENDS Integers

CONSTANT MonthStart   \* the calendar: the first day of each month

\* What the windows rely on: months come one after the other, a year has 365 or 366 days, and a
\* month is at most a day longer or shorter than it was a year ago (February).
Calendar ==
  /\ MonthStart \in [Int -> Int]
  /\ \A i, j \in Int : i < j => MonthStart[i] < MonthStart[j]
  /\ \A m \in Int :
       /\ MonthStart[m + 12] - MonthStart[m] \in {365, 366}
       /\ (MonthStart[m + 13] - MonthStart[m + 12]) - (MonthStart[m + 1] - MonthStart[m]) \in {-1, 0, 1}

\* Day d is in month m.
InMonth(d, m) == MonthStart[m] <= d /\ d < MonthStart[m + 1]

Window == [start : Int, end : Int]
W(a, b) == [start |-> a, end |-> b]
Ordered(w) == w.start <= w.end
Days(w)    == w.start .. w.end
Length(w)  == w.end - w.start + 1

-----------------------------------------------------------------------------
(* The named windows, asked for on day d of month m.                       *)

QuarterOf(m) == m - (m % 3)
YearOf(m)    == m - (m % 12)
Year2000     == MonthStart[24000]

Today(d)           == W(d, d)
Yesterday(d)       == W(d - 1, d - 1)
ThisMonth(d, m)    == W(MonthStart[m], d)
PreviousMonth(m)   == W(MonthStart[m - 1], MonthStart[m] - 1)
ThisQuarter(d, m)  == W(MonthStart[QuarterOf(m)], d)
PreviousQuarter(m) == LET q == QuarterOf(m) - 3 IN W(MonthStart[q], MonthStart[q + 3] - 1)
ThisYear(d, m)     == W(MonthStart[YearOf(m)], d)
PreviousYear(m)    == W(MonthStart[YearOf(m) - 12], MonthStart[YearOf(m)] - 1)
Everything(d)      == W(Year2000, d)

\* The year to date starts with the year of the server's own time zone, whose month is lm, and
\* ends with the day of UTC.
YearToDate(d, lm) == W(MonthStart[YearOf(lm)], d)

\* "7D", "30D", "3M", "6M", "12M", "2Y", "5Y": n is the number of days in the code's table.
Lookback(d, n) == W(d - n, d)

-----------------------------------------------------------------------------
(* The windows they are compared with.                                     *)

Shifted(w, n) == W(w.start - n, w.end - n)

\* prevPeriod: as many days back as lie between the two ends, a year at most.
PrevPeriod(w) == Shifted(w, IF w.end - w.start < 365 THEN w.end - w.start ELSE 365)

\* comparisonPeriod, "previous_period": as many days back as the window has.
PreviousPeriod(w) == Shifted(w, IF Length(w) > 1 THEN Length(w) ELSE 1)

\* setUTCFullYear: the same day of the month, counted on into the next one where it does not exist.
YearBefore(d, m) == MonthStart[m - 12] + (d - MonthStart[m])

\* comparisonPeriod, "previous_year": of a window from a day of month ms to one of month me.
AYearEarlier(w, ms, me) == W(YearBefore(w.start, ms), YearBefore(w.end, me))

=============================================================================
