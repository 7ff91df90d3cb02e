------------------------------ MODULE LocalDays ------------------------------
(***************************************************************************)
(* The property-local calendar of snapshots/localtime.py.                   *)
(*                                                                         *)
(* Instants are integers, local days are numbered from 0, and a local day   *)
(* has DayLength units when nothing happens to the clock.  A zone is a      *)
(* record [at, before, after]: its clock reads instant + before until the   *)
(* instant `at`, and instant + after from then on.  One change of the clock *)
(* is all that two consecutive days ever see; going back makes the day      *)
(* longer (25 hours), going forward shorter (23 hours), and going forward   *)
(* by a whole day makes a date that never existed.                          *)
(***************************************************************************)
EXTENDS Integers

CONSTANT DayLength      \* units of time in a day whose clock does not change

ASSUME DayLengthAssumption == DayLength \in Nat \ {0}

\* What the clock on the wall shows at an instant (datetime.astimezone(tz)).
WallClock(i, z) == i + (IF i < z.at THEN z.before ELSE z.after)

\* local_date_of: the calendar date of an instant.
LocalDateOf(i, z) == WallClock(i, z) \div DayLength

\* datetime(..., tzinfo=tz, fold=0).astimezone(UTC): the first of two readings
\* of a repeated wall time, and the offset before the jump for a wall time the
\* clock never shows.
InstantOf(w, z) ==
  LET early == w - z.before
      late  == w - z.after
  IN  IF early >= z.at /\ late >= z.at THEN late ELSE early

\* local_day_start: the earliest instant whose local date is d or later.
LocalDayStart(d, z) == InstantOf(d * DayLength, z)

\* require_existing_local_date refuses a date on which no instant exists.
LocalDateExists(d, z) == LocalDateOf(LocalDayStart(d, z), z) = d

\* Bug: the end of a day is its start plus a fixed number of hours.
FixedLengthEnd(d, z) == LocalDayStart(d, z) + DayLength

\* end_of_local_day: the exclusive cutoff, the start of the next local day.
EndOfLocalDay(d, z) == LocalDayStart(d + 1, z)

\* No clock is turned back over a midnight into the day before it: dates never go back.
DatesNeverGoBack(z) == LocalDateOf(z.at - 1, z) <= LocalDateOf(z.at, z)
==============================================================================
