--------------------------- MODULE DetectorToolkit ---------------------------
(***************************************************************************)
(* What the expected engine and the five detectors have in common, each in *)
(* a copy of its own: robust statistics (statistics.py), observed evidence  *)
(* first (selection.py), the parts of a confidence (confidence.py), and     *)
(* which source may be read (service.py).                                   *)
(*                                                                         *)
(* Statistics are in quarters of the unit of the sample, an upper fence in  *)
(* eighths, so that quartiles are exact.  Scores are in hundredths of a     *)
(* point; the parts of a confidence are rounded down where the code keeps   *)
(* fifty digits.                                                            *)
(***************************************************************************)
EXTENDS Integers, FiniteSets, FiniteSetsExt

Observed == "OBSERVED"
Reconstructed == "RECONSTRUCTED_APPROXIMATE"

Least(a, b) == IF a <= b THEN a ELSE b
Most(a, b) == IF a >= b THEN a ELSE b
Magnitude(n) == IF n < 0 THEN -n ELSE n

----------------------------------------------------------------------------
(* Statistics: `sample` is a function from a finite set to integers *)

\* The sample in increasing order: its element number n (from 0).
Ordered(sample) ==
  [n \in 0 .. (Cardinality(DOMAIN sample) - 1) |->
     CHOOSE v \in {sample[k] : k \in DOMAIN sample} :
       /\ Cardinality({k \in DOMAIN sample : sample[k] < v}) <= n
       /\ n < Cardinality({k \in DOMAIN sample : sample[k] <= v})]

\* percentile at q quarters of the way, interpolated.
Quartile(sample, q) ==
  LET x    == Ordered(sample)
      last == Cardinality(DOMAIN sample) - 1
      low  == (last * q) \div 4
  IN  4 * x[low] + ((last * q) % 4) * (x[Least(low + 1, last)] - x[low])

\* median of the sample: the middle value, or the mean of the two.
Median(sample) ==
  LET x == Ordered(sample)
      n == Cardinality(DOMAIN sample)
  IN  IF n % 2 = 1 THEN 4 * x[n \div 2] ELSE 2 * (x[n \div 2 - 1] + x[n \div 2])

\* summarize.
Summarize(sample) ==
  LET lower == Quartile(sample, 1)
      upper == Quartile(sample, 3)
  IN  [expected |-> Median(sample), lower |-> lower, upper |-> upper, iqr |-> upper - lower]

\* The upper fence of a summary, P75 + 1.5 * IQR, in eighths.
UpperFence(statistics) == 2 * statistics.upper + 3 * statistics.iqr

----------------------------------------------------------------------------
(* Evidence: the periods of a selection are numbered by time *)

LatestOf(n, periods) == {p \in periods : Cardinality({q \in periods : q > p}) < n}

\* select_comparables and select_comparable_periods: enough observed periods
\* stand alone, fewer are completed with the latest approximate ones.
ObservedThenApproximate(exact, approximate, min, max) ==
  IF Cardinality(exact) >= min THEN LatestOf(max, exact)
  ELSE exact \cup LatestOf(max - Cardinality(exact), approximate)

----------------------------------------------------------------------------
(* The parts of a confidence *)

SampleScore(n, saturation) == Least(10000, (10000 * n) \div saturation)

\* A day or a period that is all observed is worth 100, one that is not 60.
ProvenanceScore(exact, approximate) ==
  (10000 * exact + 6000 * approximate) \div (exact + approximate)

\* Spread and level in one unit; `floor` is the least level divided by.
StabilityScore(iqr, level, floor) ==
  Most(0, 10000 - (5000 * iqr) \div Most(Magnitude(level), floor))

\* Mean of a function from a non-empty set to scores.
MeanScore(scores) ==
  MapThenSumSet(LAMBDA p : scores[p], DOMAIN scores) \div Cardinality(DOMAIN scores)

\* The sum of weighted scores, half up: weights in hundredths.
Blend(scores, weights) ==
  (MapThenSumSet(LAMBDA i : scores[i] * weights[i], DOMAIN scores) + 50) \div 100

\* The caps: approximate evidence at most 85, nothing observed at most 65.
Capped(score, exact, approximate) ==
  Least(score, IF exact = 0 THEN 6500 ELSE IF approximate > 0 THEN 8500 ELSE 10000)

----------------------------------------------------------------------------
(* Scope *)

\* _validate and _validate_booking_source: the hotel is not archived and the
\* source is an active one of this hotel and this domain.
ScopeRefusal(hotel, source, domain) ==
  IF ~hotel.found THEN "property not_found"
  ELSE IF hotel.archived THEN "property archived"
  ELSE IF ~source.found THEN "source not_found"
  ELSE IF source.domain # domain THEN "source wrong_domain"
  ELSE IF ~source.active THEN "source inactive"
  ELSE IF source.hotel # hotel.id THEN "source property_mismatch"
  ELSE "none"
==============================================================================
