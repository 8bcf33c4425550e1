----------------------------- MODULE Recurrence -----------------------------
(***************************************************************************)
(* A pattern that spawns one occurrence after the other, by the date       *)
(* arithmetic of service/recurrence.go.                                    *)
(***************************************************************************)
EXTENDS Calendar

CONSTANTS
  Patterns,     \* the patterns a behaviour may start with
  Delays,       \* how many days before or after its anchor a pattern first spawns
  MaxSpawned    \* bound on the occurrences of a pattern without an end

ASSUME PatternsAreRows == Patterns \subseteq Rec /\ Delays \subseteq Int

VARIABLES
  series,    \* the pattern
  reached,   \* LastSpawnedAt, or the day before it is first swept
  spawned    \* how many occurrences there were, up to the bound
seriesVars == <<series, reached, spawned>>

-----------------------------------------------------------------------------
(* A pattern spawns, from the day before it is first swept. *)

SeriesInit ==
  /\ series \in Patterns
  /\ \E delay \in Delays : reached = Anchor(series) + delay - 1
  /\ spawned = 0

\* Fault: the search starts again from the day it was started from.
RecurFromSame ==
  /\ series.end = None => spawned < MaxSpawned
  /\ NextOccurrence(series, reached) # None
  /\ spawned' = IF spawned < MaxSpawned THEN spawned + 1 ELSE spawned
  /\ UNCHANGED <<series, reached>>

\* spawnIfDue: LastSpawnedAt becomes the date spawned, whatever happens to the
\* action in between.
Recur ==
  /\ series.end = None => spawned < MaxSpawned
  /\ NextOccurrence(series, reached) # None
  /\ reached' = NextOccurrence(series, reached)
  /\ spawned' = IF spawned < MaxSpawned THEN spawned + 1 ELSE spawned
  /\ UNCHANGED series

SeriesNext == Recur
SeriesSpec == SeriesInit /\ [][SeriesNext]_seriesVars /\ WF_seriesVars(SeriesNext)

-----------------------------------------------------------------------------
(* Properties *)

\* The next occurrence is an occurrence, none lies between it and the last one,
\* and the pattern ends only when none is left: nothing is skipped where a search
\* stops early, a month is short, a year is not a leap year or a week begins.
NextIsTheNext ==
  LET next == NextOccurrence(series, reached) IN
  /\ next = None => series.end # None /\ \A n \in reached + 1 .. series.end : ~Occurs(series, n)
  /\ next # None => /\ next > reached /\ Occurs(series, next)
                    /\ \A n \in reached + 1 .. next - 1 : ~Occurs(series, n)

\* A clamped date does not drift: from one occurrence to the next a monthly pattern
\* moves by exactly its interval, back to the day it asked for when the month has it.
MonthsKeepPace ==
  [][series.period = "monthly" /\ spawned > 0 =>
       /\ MonthsSince(series, reached') = MonthsSince(series, reached) + series.every
       /\ OnDayOfMonth(series, reached')]_seriesVars

\* A pattern with an end date comes to its end, where spawnIfDue marks it completed.
EndsWithWindow == series.end # None ~> NextOccurrence(series, reached) = None
=============================================================================
