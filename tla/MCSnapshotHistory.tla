--------------------------- MODULE MCSnapshotHistory -------------------------
(***************************************************************************)
(* SnapshotHistory over five local days of two units each, in a zone whose  *)
(* clock never changes, goes back, goes forward, or skips a whole date at   *)
(* the start of day 2.                                                      *)
(***************************************************************************)
EXTENDS SnapshotHistory, TLC

CONSTANTS Nothing, group, couple

\* A year of six days, seven when day 3 is its 29 February.
MCLeapPosition(d) == d + 1
MCCommonPosition(d) == IF d = 3 THEN 0 ELSE IF d < 3 THEN d + 1 ELSE d

MCZones ==
  {[at |-> 0, before |-> 0, after |-> 0],     \* the clock never changes
   [at |-> 4, before |-> 1, after |-> 0],     \* midnight of day 2 is repeated
   [at |-> 4, before |-> 0, after |-> 1],     \* midnight of day 2 does not exist
   [at |-> 4, before |-> 0, after |-> 2]}     \* day 2 does not exist

Kept == [cancelledAt |-> Nothing, noShowAt |-> Nothing, dated |-> FALSE]

Booking(at, in, out, rooms, fate) ==
  [bookedAt |-> at, checkIn |-> in, checkOut |-> out, rooms |-> rooms, revenue |-> 100 * rooms + 1,
   cancelledAt |-> fate.cancelledAt, noShowAt |-> fate.noShowAt, dated |-> fate.dated]

Cancelled(i, given) == [Kept EXCEPT !.cancelledAt = i, !.dated = given]
NoShow(i) == [Kept EXCEPT !.noShowAt = i]

\* A group that comes and a couple that cancels; a cancellation without a date
\* and a group that does not arrive.
MCHistories ==
  {(group :> Booking(1, 2, 5, 3, Kept)) @@ (couple :> Booking(0, 3, 5, 1, Cancelled(5, TRUE))),
   (group :> Booking(0, 2, 4, 3, NoShow(5))) @@ (couple :> Booking(2, 3, 5, 1, Cancelled(4, FALSE)))}

MCRanges == {<<0, 1>>, <<1, 1>>, <<1, 2>>}

MCCapacities == {(1 :> 2) @@ (2 :> 4) @@ (3 :> 6) @@ (4 :> 9)}
==============================================================================
