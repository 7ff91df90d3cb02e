--------------------------- MODULE ExpectedBaseline --------------------------
(***************************************************************************)
(* The Expected Engine: intelligence/expected/seasonality.py, selection.py, *)
(* confidence.py and calculator.py; statistics.py is in DetectorToolkit.    *)
(*                                                                         *)
(* A snapshot is named by its key <<snapshot day, stay night>>; `rows` is a *)
(* partial function from keys to snapshot contents.  Rooms of statistics    *)
(* are in quarters of a room, so that quartiles are exact, and scores in    *)
(* hundredths of a point.                                                   *)
(***************************************************************************)
EXTENDS DetectorToolkit

CONSTANTS
  Week,                \* days of a week
  HorizonDays,         \* HORIZON_DAYS
  SeasonalWindow,      \* SEASONAL_WINDOW_DAYS
  LeapLength, CommonLength,             \* days of the two canonical years
  LeapPosition(_), CommonPosition(_),   \* place of a date's month/day in each; 0: none
  MinSample, MaxSample,                 \* MIN_SAMPLE and MAX_SAMPLE
  Saturation                            \* SAMPLE_SATURATION

----------------------------------------------------------------------------
(* Calendar rules *)

Circular(a, b, length) == Least(Magnitude(a - b), length - Magnitude(a - b))

\* seasonal_distance_days: between two month/days, on the kinder calendar;
\* 29 February is only in the leap one.
SeasonalDistance(d, e) ==
  LET leap == Circular(LeapPosition(d), LeapPosition(e), LeapLength)
  IN  IF CommonPosition(d) = 0 \/ CommonPosition(e) = 0 THEN leap
      ELSE Least(leap, Circular(CommonPosition(d), CommonPosition(e), CommonLength))

\* Bug: the horizon reaches as far forward as it reaches back.
SymmetricHorizon(target) ==
  {d \in (target - HorizonDays) .. (target + HorizonDays) \ {target} :
     (target - d) % Week = 0 /\ SeasonalDistance(d, target) <= SeasonalWindow}

\* eligible_stay_dates: same weekday, within the horizon, in season, before the
\* target.  calendar_exclusion checks the same rules again on each row found.
EligibleStays(target) ==
  {d \in (target - HorizonDays) .. (target - 1) :
     (target - d) % Week = 0 /\ SeasonalDistance(d, target) <= SeasonalWindow}

----------------------------------------------------------------------------
(* Selection *)

\* The n most recent stay nights of a set of keys, all of one lead time.
Newest(n, keys) == {k \in keys : Cardinality({j \in keys : j[2] > k[2]}) < n}

\* The provenance policy: enough observed evidence stands alone, less of it is
\* completed with the newest approximate evidence.
ObservedFirst(observed, approximate, min, max) ==
  IF Cardinality(observed) >= min THEN Newest(max, observed)
  ELSE observed \cup Newest(max - Cardinality(observed), approximate)

\* The keys the target can be compared with: eligible stays, same lead time.
CandidateKeys(target) == {<<d - (target[2] - target[1]), d>> : d \in EligibleStays(target[2])}

\* select_comparables.
SelectComparables(target, rows) ==
  LET found  == CandidateKeys(target) \cap DOMAIN rows
      clean  == {k \in found : rows[k].uncertain = 0}
      Of(o)  == {k \in clean : rows[k].origin = o}
      chosen == ObservedFirst(Of(Observed), Of(Reconstructed), MinSample, MaxSample)
  IN  [comparables   |-> chosen,
       observed      |-> Cardinality(chosen \cap Of(Observed)),
       reconstructed |-> Cardinality(chosen \ Of(Observed)),
       rejected      |-> Cardinality(found \ clean)]

----------------------------------------------------------------------------
(* Confidence *)

\* sample_score, provenance_score and stability_score weighted 40 / 35 / 25, in
\* hundredths, rounded half up once: `exact` and `approximate` members, a
\* spread and a level in quarters of a room.
WeightedScore(exact, approximate, iqr, level) ==
  LET n     == exact + approximate
      size  == 100 * Least(n, Saturation)                    \* over Saturation
      proof == 100 * exact + 60 * approximate                \* over n
      base  == Most(level, 4)
      calm  == Most(0, 100 * base - 50 * iqr)                \* over base
      num   == 40 * size * n * base + 35 * proof * Saturation * base + 25 * calm * Saturation * n
      den   == Saturation * n * base
  IN  (2 * num + den) \div (2 * den)

\* confidence of a baseline.
Confidence(observed, reconstructed, iqr, expected) ==
  Capped(WeightedScore(observed, reconstructed, iqr, expected), observed, reconstructed)

Band(score) == IF score >= 8000 THEN "HIGH" ELSE IF score >= 6000 THEN "MEDIUM" ELSE "LOW"

\* compute_expected: fewer than MinSample comparables give no number at all.
ComputeExpected(target, rows) ==
  LET selection == SelectComparables(target, rows)
      statistics == Summarize([k \in selection.comparables |-> rows[k].rooms])
      score == Confidence(selection.observed, selection.reconstructed,
                          statistics.iqr, statistics.expected)
  IN  IF Cardinality(selection.comparables) < MinSample
      THEN [status |-> "INSUFFICIENT_DATA", selection |-> selection,
            statistics |-> <<>>, confidence |-> 0, band |-> "NONE"]
      ELSE [status |-> "READY", selection |-> selection,
            statistics |-> statistics, confidence |-> score, band |-> Band(score)]
==============================================================================
