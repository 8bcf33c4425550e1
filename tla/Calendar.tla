------------------------------ MODULE Calendar ------------------------------
(***************************************************************************)
(* The date arithmetic of service/recurrence.go, and what a pattern means  *)
(* by the calendar.                                                        *)
(*                                                                         *)
(* A day is the number of days since 1 March of the year 0 (Gregorian), so *)
(* daysBetween is a subtraction and startOfDay has been applied.  Every    *)
(* date of a pattern is in one time zone.                                  *)
(***************************************************************************)
EXTENDS Integers

CONSTANT None    \* a nil pointer, the zero time, an empty row
ASSUME NoneIsNoDate == None \notin Int

\* anchor is StartFrom, or CreatedAt; weekdays, day and month are {} and 0 when
\* the request left them out.
Rec == [period : {"daily", "weekly", "monthly", "yearly"}, every : Nat \ {0},
        anchor : Nat \X (1..12) \X (1..31), weekdays : SUBSET (0..6), day : 0..31,
        month : 0..12, end : Int \cup {None}]

-----------------------------------------------------------------------------
(* What the code takes from Go's time package. *)

IsLeap(y) == y % 4 = 0 /\ (y % 100 # 0 \/ y % 400 = 0)
LastDay(y, m) == IF m = 2 THEN IF IsLeap(y) THEN 29 ELSE 28
                 ELSE IF m \in {4, 6, 9, 11} THEN 30 ELSE 31

\* time.Date of a day that exists; the year begins in March.
DayNo(y, m, d) ==
  LET a == IF m <= 2 THEN y - 1 ELSE y IN
  365 * a + a \div 4 - a \div 100 + a \div 400 + (153 * ((m + 9) % 12) + 2) \div 5 + d - 1

\* Sunday is 0.
Weekday(n) == (n + 3) % 7
WeekStart(n) == n - Weekday(n)

-----------------------------------------------------------------------------
(* recurrence.go *)

Anchor(r) == DayNo(r.anchor[1], r.anchor[2], r.anchor[3])

\* Fault: the day is not clamped, and overflows into the next month.
ClampDayOver(y, m, d) == DayNo(y, m, 1) + d - 1

ClampDay(y, m, d) == DayNo(y, m, IF d > LastDay(y, m) THEN LastDay(y, m) ELSE d)

\* The first of every n-th day from the anchor on that lies after `floor'.
EveryNth(anchor, n, floor) == IF floor < anchor THEN anchor
                              ELSE anchor + ((floor - anchor) \div n + 1) * n

NextDaily(r, floor) == EveryNth(Anchor(r), r.every, floor)

\* Fault: weeks are counted from the anchor, not from the Sunday before it.
NextWeeklyFromAnchor(r, floor) ==
  LET weekdays == IF r.weekdays = {} THEN {Weekday(Anchor(r))} ELSE r.weekdays
      hits == {n \in floor + 1 .. floor + r.every * 7 + 7 :
                 /\ Weekday(n) \in weekdays
                 /\ ((n - Anchor(r)) \div 7) % r.every = 0}
  IN  IF hits = {} THEN None ELSE CHOOSE n \in hits : \A k \in hits : n <= k

NextWeekly(r, floor) ==
  LET weekdays == IF r.weekdays = {} THEN {Weekday(Anchor(r))} ELSE r.weekdays
      weeks(n) == (WeekStart(n) - WeekStart(Anchor(r))) \div 7
      hits == {n \in floor + 1 .. floor + r.every * 7 + 7 :
                 /\ Weekday(n) \in weekdays
                 /\ weeks(n) >= 0 /\ weeks(n) % r.every = 0}
  IN  IF hits = {} THEN None ELSE CHOOSE n \in hits : \A k \in hits : n <= k

DayOf(r) == IF r.day < 1 THEN r.anchor[3] ELSE r.day
MonthOf(r) == IF r.month \in 1..12 THEN r.month ELSE r.anchor[2]

\* How many candidates a search by months or by years looks at before it gives up.
MonthsTried == 1200
YearsTried  == 200

\* Months are stepped by number, never by adding a month to a date; the first
\* candidate after `floor'.
NextMonthly(r, floor) ==
  LET candidate(i) ==
        LET total == r.anchor[2] - 1 + i * r.every
        IN  ClampDay(r.anchor[1] + total \div 12, (total % 12) + 1, DayOf(r))
      later(i) == candidate(i) > floor
  IN  IF \E i \in 0..MonthsTried - 1 : later(i)
      THEN candidate(CHOOSE i \in 0..MonthsTried - 1 : later(i) /\ \A j \in 0..i - 1 : ~later(j))
      ELSE None

NextYearly(r, floor) ==
  LET candidate(i) == ClampDay(r.anchor[1] + i * r.every, MonthOf(r), DayOf(r))
      later(i) == candidate(i) > floor
  IN  IF \E i \in 0..YearsTried - 1 : later(i)
      THEN candidate(CHOOSE i \in 0..YearsTried - 1 : later(i) /\ \A j \in 0..i - 1 : ~later(j))
      ELSE None

Within(r, next) == r.end = None \/ next <= r.end

NextOccurrence(r, last) ==
  LET floor == IF last < Anchor(r) THEN Anchor(r) - 1 ELSE last
      next  == CASE r.period = "daily"   -> NextDaily(r, floor)
                 [] r.period = "weekly"  -> NextWeekly(r, floor)
                 [] r.period = "monthly" -> NextMonthly(r, floor)
                 [] OTHER                -> NextYearly(r, floor)
  IN  IF next = None \/ ~Within(r, next) THEN None ELSE next

-----------------------------------------------------------------------------
(* What a pattern means, by the calendar. *)

\* The date of a day: <<year, month, day>>.
Date(n) ==
  LET c    == n % 146097
      yoc  == (c - c \div 1460 + c \div 36524 - c \div 146096) \div 365
      doy  == c - (365 * yoc + yoc \div 4 - yoc \div 100)
      k    == (5 * doy + 2) \div 153
      m    == IF k < 10 THEN k + 3 ELSE k - 9
  IN  <<(n \div 146097) * 400 + yoc + (IF m <= 2 THEN 1 ELSE 0), m,
        doy - (153 * k + 2) \div 5 + 1>>

\* The months between the anchor's month and day n's.
MonthsSince(r, n) == 12 * (Date(n)[1] - r.anchor[1]) + Date(n)[2] - r.anchor[2]

\* The day of the month the pattern asks for, or the last of a shorter month.
OnDayOfMonth(r, n) ==
  LET last == LastDay(Date(n)[1], Date(n)[2])
  IN  Date(n)[3] = IF DayOf(r) > last THEN last ELSE DayOf(r)

\* Day n is an occurrence of the pattern.
Occurs(r, n) ==
  /\ n >= Anchor(r) /\ (r.end = None \/ n <= r.end)
  /\ CASE r.period = "daily" -> (n - Anchor(r)) % r.every = 0
       [] r.period = "weekly" ->
            /\ IF r.weekdays = {} THEN Weekday(n) = Weekday(Anchor(r))
               ELSE Weekday(n) \in r.weekdays
            /\ \E k \in 0 .. (n - Anchor(r)) \div 7 + 1 :
                 WeekStart(n) = WeekStart(Anchor(r)) + 7 * r.every * k
       [] r.period = "monthly" -> MonthsSince(r, n) % r.every = 0 /\ OnDayOfMonth(r, n)
       [] OTHER -> /\ (Date(n)[1] - r.anchor[1]) % r.every = 0
                   /\ Date(n)[2] = MonthOf(r) /\ OnDayOfMonth(r, n)
=============================================================================
