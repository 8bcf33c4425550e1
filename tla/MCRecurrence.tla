---------------------------- MODULE MCRecurrence ----------------------------
(* Small instances of Recurrence for TLC. *)
EXTENDS Recurrence

CONSTANTS Everys, Windows

\* The anchors: the ends of long, short and leap months, the last leap day before
\* a year that is not one, and a Saturday and a Sunday.
Anchors == {<<2024, 1, 31>>, <<2024, 2, 29>>, <<2025, 11, 30>>, <<2096, 2, 29>>,
            <<2023, 12, 31>>, <<2026, 8, 15>>}

Ends(a) == {None} \cup {DayNo(a[1], a[2], a[3]) + w : w \in Windows}

Shapes ==
  [period : {"daily"}, weekdays : {{}}, day : {0}, month : {0}]
  \cup [period : {"weekly"}, weekdays : {{}, {0}, {6}, {1, 3, 5}, 0..6}, day : {0}, month : {0}]
  \cup [period : {"monthly"}, weekdays : {{}}, day : {0, 1, 29, 30, 31}, month : {0}]
  \cup [period : {"yearly"}, weekdays : {{}}, day : {0, 1, 31}, month : {0, 2, 12}]

\* Swept before it starts, on its first day and late.
MCDelays == {-3, 0, 45}

MCPatterns ==
  UNION {{[period |-> s.period, every |-> e, anchor |-> a, weekdays |-> s.weekdays,
           day |-> s.day, month |-> s.month, end |-> end] :
            s \in Shapes, e \in Everys, end \in Ends(a)} : a \in Anchors}

\* Date and DayNo are inverses over the years of the run.
ASSUME DatesAreDays ==
  \A n \in DayNo(2020, 1, 1) .. DayNo(2120, 1, 1) :
    LET d == Date(n) IN DayNo(d[1], d[2], d[3]) = n /\ d[3] \in 1..LastDay(d[1], d[2])
=============================================================================
