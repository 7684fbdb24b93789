------------------------------- MODULE MCJalali -------------------------------
(* The calendar's arithmetic against the plain rules of both calendars.    *)
EXTENDS Jalali

Checked == 1398 .. 1412
Known   == -60 .. 3176

\* The plain rules: the date of the next day, in either calendar.
NextJalali(d) ==
  IF d[3] < MonthLength(d[1], d[2]) THEN <<d[1], d[2], d[3] + 1>>
  ELSE IF d[2] < 12 THEN <<d[1], d[2] + 1, 1>>
  ELSE <<d[1] + 1, 1, 1>>

GregorianLength(y, m) ==
  CASE m \in {4, 6, 9, 11} -> 30
    [] m = 2 -> IF y % 4 = 0 /\ (y % 100 # 0 \/ y % 400 = 0) THEN 29 ELSE 28
    [] OTHER -> 31

NextGregorian(d) ==
  IF d[3] < GregorianLength(d[1], d[2]) THEN <<d[1], d[2], d[3] + 1>>
  ELSE IF d[2] < 12 THEN <<d[1], d[2] + 1, 1>>
  ELSE <<d[1] + 1, 1, 1>>

\* The first day of a year, from which _j2d counts its months.
NewYear(jy) == G2D(JalCal(jy).gy, 3, JalCal(jy).march)

\* In every year the table knows, the days of its months fill the year: no day
\* is skipped or counted twice at a year's end, at no break of the table.
ASSUME YearsAreFull == \A y \in Known :
  /\ NewYear(y) \in Int
  /\ NewYear(y + 1) = NewYear(y) + IF IsLeap(y) THEN 366 ELSE 365

\* Day by day both conversions count on as their calendars do, and each undoes
\* its inverse.
ASSUME ConversionsCount == \A day \in J2D(1398, 1, 1) .. J2D(1413, 1, 1) :
  LET j == D2J(day)
      g == D2G(day)
  IN /\ D2J(day + 1) = NextJalali(j) /\ J2D(j[1], j[2], j[3]) = day
     /\ D2G(day + 1) = NextGregorian(g) /\ G2D(g[1], g[2], g[3]) = day

\* The dates that src/tests/test_jalali.py knows, where the counts begin.
ASSUME DatesAreAnchored ==
  /\ D2J(G2D(2023, 3, 21)) = <<1402, 1, 1>> /\ D2J(G2D(2024, 3, 20)) = <<1403, 1, 1>>
  /\ IsLeap(1403) /\ ~IsLeap(1402)
  /\ Weekday(1403, 1, 1) = 4   \* a Wednesday

\* An income falls due on the last day of its own month: the day after is the
\* first of the next.
ASSUME DueAtMonthsEnd == \A y \in Checked, m \in 1 .. 12 :
  /\ D2J(DueDay(y, m)) = <<y, m, MonthLength(y, m)>>
  /\ D2J(DueDay(y, m) + 1) = IF m < 12 THEN <<y, m + 1, 1>> ELSE <<y + 1, 1, 1>>

\* "This week" ends on a Friday to come, never today.
ASSUME WeeksEndOnFriday == \A w \in 0 .. 6 :
  LET n == DaysAhead("this week", w) IN n \in 1 .. 7 /\ (w + n) % 7 = 4
=============================================================================
