----------------------------- MODULE NightTotals -----------------------------
(***************************************************************************)
(* The arithmetic of a booking snapshot: snapshots/calculation.py and       *)
(* snapshots/aggregate.py.                                                  *)
(*                                                                         *)
(* `stays` is a function from bookings to StayRecords: [status, bookedAt,   *)
(* cancelledAt, checkIn, checkOut, rooms, revenue], revenue in whole cents. *)
(* The code spreads the windows of a reconstruction over difference arrays; *)
(* here each cell is what those arrays add up to.                           *)
(***************************************************************************)
EXTENDS Integers, Sequences, FiniteSetsExt

CONSTANTS
  NoInstant,      \* cancelled_at of a row that has none
  Unknown         \* a capacity, a rate or an occupancy nobody knows (None)

\* OBSERVED_STATUSES: every other status is excluded from an observation.
ObservedStatuses == {"CONFIRMED", "CHECKED_IN", "CHECKED_OUT"}

\* stay_nights and stay_night_overlap: the nights a booking occupies; the
\* check-out date is not one of them.
NightsOf(s) == s.checkIn .. (s.checkOut - 1)

\* night_revenue_cents: the stay's revenue spread evenly, the cents left over
\* one by one to the earliest nights.
NightRevenue(s, night) ==
  LET nights == s.checkOut - s.checkIn
  IN  s.revenue \div nights
        + (IF night - s.checkIn < s.revenue % nights THEN 1 ELSE 0)

\* ROUND_HALF_UP of a quotient of naturals.
RoundHalfUp(num, den) == (2 * num + den) \div (2 * den)

\* adr: None, never 0, when no room is on the books.
Adr(cents, rooms) == IF rooms <= 0 THEN Unknown ELSE RoundHalfUp(cents, rooms)

\* occupancy, in hundredths of a percent, not clamped.
Occupancy(rooms, capacity) ==
  IF capacity = Unknown \/ capacity = 0 THEN Unknown
  ELSE RoundHalfUp(rooms * 10000, capacity)

\* DayTotals of one night: the bookings that count and the uncertain ones.
Totals(stays, night, certain, uncertain) ==
  LET On(B) == {b \in B : night \in NightsOf(stays[b])}
      Rooms(b) == stays[b].rooms
      Cents(b) == NightRevenue(stays[b], night)
  IN  [bookings  |-> Cardinality(On(certain)),
       rooms     |-> MapThenSumSet(Rooms, On(certain)),
       cents     |-> MapThenSumSet(Cents, On(certain)),
       uncertainBookings |-> Cardinality(On(uncertain)),
       uncertain |-> MapThenSumSet(Rooms, On(uncertain))]

\* aggregate_observed: the bookings as they are now.
AggregateObserved(stays, night) ==
  Totals(stays, night,
         {b \in DOMAIN stays : stays[b].status \in ObservedStatuses}, {})

\* bisect_right and bisect_left of an increasing sequence: an index from 0.
BisectRight(seq, x) == Cardinality({k \in DOMAIN seq : seq[k] <= x})
BisectLeft(seq, x) == Cardinality({k \in DOMAIN seq : seq[k] < x})

Larger(a, b) == IF a >= b THEN a ELSE b

\* Bug: a cancellation without a date is taken for a booking that was never made.
UndatedNeverBooked(s, dates, cutoffs) ==
  LET booked == BisectRight(cutoffs, s.bookedAt)
      count  == Len(cutoffs)
      never  == <<0, 0>>
      known  == Larger(booked, BisectLeft(dates, s.checkIn))
  IN  IF s.status \in ObservedStatuses
      THEN [certain |-> <<booked, count>>, uncertain |-> never]
      ELSE IF s.status = "NO_SHOW"
      THEN [certain |-> <<booked, known>>, uncertain |-> <<known, count>>]
      ELSE IF s.cancelledAt = NoInstant
      THEN [certain |-> never, uncertain |-> never]
      ELSE [certain   |-> <<booked, Larger(booked, BisectRight(cutoffs, s.cancelledAt))>>,
            uncertain |-> never]

\* booking_certainty_window: the snapshot days, as a window of indexes
\* [from, to), at whose end the booking was certainly or perhaps on the books.
CertaintyWindow(s, dates, cutoffs) ==
  LET booked == BisectRight(cutoffs, s.bookedAt)
      count  == Len(cutoffs)
      never  == <<0, 0>>
      known  == Larger(booked, BisectLeft(dates, s.checkIn))
  IN  IF s.status \in ObservedStatuses
      THEN [certain |-> <<booked, count>>, uncertain |-> never]
      ELSE IF s.status = "NO_SHOW"
      THEN [certain |-> <<booked, known>>, uncertain |-> <<known, count>>]
      ELSE IF s.cancelledAt = NoInstant \/ s.cancelledAt < s.bookedAt
      THEN [certain |-> never, uncertain |-> <<booked, count>>]
      ELSE [certain   |-> <<booked, Larger(booked, BisectRight(cutoffs, s.cancelledAt))>>,
            uncertain |-> never]

Within(k, window) == window[1] <= k - 1 /\ k - 1 < window[2]

\* aggregate_reconstruction: the k-th snapshot day of a run, one stay night.
AggregateReconstruction(stays, dates, cutoffs, k, night) ==
  LET made == {b \in DOMAIN stays : BisectRight(cutoffs, stays[b].bookedAt) < Len(cutoffs)}
      W(b) == CertaintyWindow(stays[b], dates, cutoffs)
  IN  Totals(stays, night,
             {b \in made : Within(k, W(b).certain)}, {b \in made : Within(k, W(b).uncertain)})

\* build_content and fingerprint: all that makes two snapshots of a key the same.
BuildContent(origin, totals, capacity) ==
  [origin    |-> origin,
   bookings  |-> totals.bookings,
   rooms     |-> totals.rooms,
   cents     |-> totals.cents,
   capacity  |-> capacity,
   occupancy |-> Occupancy(totals.rooms, capacity),
   adr       |-> Adr(totals.cents, totals.rooms),
   uncertainBookings |-> totals.uncertainBookings,
   uncertain |-> totals.uncertain]
==============================================================================
