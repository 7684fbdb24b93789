-------------------------------- MODULE Jalali --------------------------------
(***************************************************************************)
(* The Jalali calendar of app/utils/jalali.py, which gives incomes their   *)
(* months and their due dates, as pure operators. A date is a triple of    *)
(* year, month and day; a day is its Julian day number.                    *)
(***************************************************************************)
EXTENDS Integers, Sequences

\* Python's int(a / b) truncates towards zero.
Div(a, b) == IF a >= 0 THEN a \div b ELSE -((-a) \div b)
Mod(a, b) == a - Div(a, b) * b

Breaks == <<-61, 9, 38, 199, 426, 686, 756, 818, 1111, 1181, 1210,
            1635, 2060, 2097, 2192, 2262, 2324, 2394, 2456, 3178>>

Jump(i) == Breaks[i + 1] - Breaks[i]

\* The leap years before the i-th break.
LeapsTo[i \in 1 .. Len(Breaks) - 1] ==
  IF i = 1 THEN -14
  ELSE LeapsTo[i - 1] + Div(Jump(i - 1), 33) * 8 + Div(Mod(Jump(i - 1), 33), 4)

\* The break that a year follows. (The code raises for years out of range.)
BreakOf(jy) == CHOOSE i \in 1 .. Len(Breaks) - 1 : Breaks[i] <= jy /\ jy < Breaks[i + 1]

\* _jal_cal: the years since the last leap year, and the day of March on which the year begins.
JalCal(jy) ==
  LET i     == BreakOf(jy)
      n     == jy - Breaks[i]
      late  == IF Mod(Jump(i), 33) = 4 /\ Jump(i) - n = 4 THEN 1 ELSE 0
      leapJ == LeapsTo[i] + Div(n, 33) * 8 + Div(Mod(n, 33) + 3, 4) + late
      gy    == jy + 621
      leapG == Div(gy, 4) - Div((Div(gy, 100) + 1) * 3, 4) - 150
      m     == IF Jump(i) - n < 6 THEN n - Jump(i) + Div(Jump(i) + 4, 33) * 33 ELSE n
      leap  == Mod(Mod(m + 1, 33) - 1, 4)
  IN [leap |-> IF leap = -1 THEN 4 ELSE leap, gy |-> gy, march |-> 20 + leapJ - leapG]

IsLeap(jy) == JalCal(jy).leap = 0

G2D(gy, gm, gd) ==
  LET y == gy + Div(gm - 8, 6) + 100100
  IN Div(y * 1461, 4) + Div(153 * Mod(gm + 9, 12) + 2, 5) + gd - 34840408
       - Div(Div(y, 100) * 3, 4) + 752

D2G(day) ==
  LET j  == 4 * day + 139361631 + Div(Div(4 * day + 183187720, 146097) * 3, 4) * 4 - 3908
      i  == Div(Mod(j, 1461), 4) * 5 + 308
      gm == Mod(Div(i, 153), 12) + 1
  IN <<Div(j, 1461) - 100100 + Div(8 - gm, 6), gm, Div(Mod(i, 153), 5) + 1>>

J2D(jy, jm, jd) ==
  G2D(JalCal(jy).gy, 3, JalCal(jy).march) + (jm - 1) * 31 - Div(jm, 7) * (jm - 7) + jd - 1

D2J(day) ==
  LET gy == D2G(day)[1]
      r  == JalCal(gy - 621)
      k  == day - G2D(gy, 3, r.march)
      Second(jy, n) == <<jy, 7 + Div(n, 30), Mod(n, 30) + 1>>
  IN CASE k > 185 -> Second(gy - 621, k - 186)
       [] k < 0   -> Second(gy - 622, k + IF r.leap = 1 THEN 180 ELSE 179)
       [] OTHER   -> <<gy - 621, 1 + Div(k, 31), Mod(k, 31) + 1>>

MonthLength(jy, jm) ==
  IF jm <= 6 THEN 31 ELSE IF jm <= 11 THEN 30 ELSE IF IsLeap(jy) THEN 30 ELSE 29

\* jalali_weekday: 0 is Saturday. Day 0 was a Monday.
Weekday(jy, jm, jd) == (J2D(jy, jm, jd) + 2) % 7

\* create_income: an income without a due date is due on the last day of its month.
DueDay(jy, jm) == J2D(jy, jm, MonthLength(jy, jm))

\* parse_due_hint_to_timestamp: how many days from a day of the week (0 is
\* Monday) until a hint is due.
DaysAhead(hint, weekday) ==
  CASE hint = "today"     -> 0
    [] hint = "tomorrow"  -> 1
    [] hint = "this week" -> IF weekday = 4 THEN 7 ELSE (4 - weekday) % 7
    [] hint = "next week" -> 14
=============================================================================
