---------------------------- MODULE RevenueSignals ---------------------------
(***************************************************************************)
(* The two revenue detectors, intelligence/revenue: historical curve pairs  *)
(* (pairing.py), their pattern and confidence (pattern.py, confidence.py),  *)
(* REV_PICKUP_LOW (pickup.py), REV_OCCUPANCY_RISK (occupancy.py) and the    *)
(* proxy of what is at risk (impact.py).                                    *)
(*                                                                         *)
(* Thresholds are compared on exact values, never on what is displayed: a   *)
(* percentage is compared by multiplying out.  Rooms of statistics are in   *)
(* quarters, rates in cents, scores in hundredths.                          *)
(***************************************************************************)
EXTENDS ExpectedBaseline

CONSTANTS
  NoNumber,             \* a capacity or a rate nobody knows (None)
  PickupWindow,         \* PICKUP_WINDOW_DAYS
  MinPairs, MaxPairs    \* MIN_PAIRS and MAX_PAIRS

----------------------------------------------------------------------------
(* Pairs: two snapshots of one historical stay night *)

\* prior_key and final_key: where the other end of a pair lives.
PriorKey(key) == <<key[1] - PickupWindow, key[2]>>
FinalKey(key) == <<key[2], key[2]>>

\* The other end of each anchor of a set.
PriorOf(anchors) == [k \in anchors |-> PriorKey(k)]
FinalOf(anchors) == [k \in anchors |-> FinalKey(k)]

\* Bug: only the anchor has to be older than the target.
AnchorKnown(target, anchor, other) == anchor[1] < target[1]

\* known_at_target: both ends were stored before the target's snapshot day.
KnownAtTarget(target, anchor, other) == anchor[1] < target[1] /\ other[1] < target[1]

\* _select: both ends stored, both known before the target's snapshot day, both
\* certain; pairs observed at both ends first.  `other` maps each anchor to the
\* key of the other end of its pair.
SelectPairs(target, other, rows) ==
  LET anchors == DOMAIN other
      ended  == {k \in anchors : other[k] \in DOMAIN rows}
      known  == {k \in ended : KnownAtTarget(target, k, other[k])}
      clean  == {k \in known : rows[k].uncertain = 0 /\ rows[other[k]].uncertain = 0}
      Exact  == {k \in clean : rows[k].origin = Observed /\ rows[other[k]].origin = Observed}
      chosen == ObservedFirst(Exact, clean \ Exact, MinPairs, MaxPairs)
  IN  [anchors     |-> chosen,
       observed    |-> Cardinality(chosen \cap Exact),
       approximate |-> Cardinality(chosen \ Exact),
       uncertain   |-> Cardinality(known \ clean),
       missing     |-> Cardinality(anchors \ ended),
       future      |-> Cardinality(ended \ known)]

\* pattern_confidence: the level is a movement, so its magnitude counts.
PatternConfidence(pairs, statistics) ==
  Capped(WeightedScore(pairs.observed, pairs.approximate,
                       statistics.iqr, Magnitude(statistics.expected)),
         pairs.observed, pairs.approximate)

----------------------------------------------------------------------------
(* What is at risk *)

\* median_decimal of a non-empty sample of rates, half up.
MedianRate(rates) == (Median(rates) + 2) \div 4

\* reference_adr: the target's own rate, or the median of its comparables'.
ReferenceAdr(adr, comparables, rows) ==
  LET Rate(k) == IF rows[k].adr = NoNumber THEN 0 ELSE rows[k].adr
      usable == {k \in comparables : Rate(k) > 0}
  IN  IF adr # NoNumber /\ adr # 0 THEN adr
      ELSE IF usable # {} THEN MedianRate([k \in usable |-> Rate(k)])
      ELSE NoNumber

\* revenue_gap_proxy of a number of rooms in quarters.
GapProxy(rooms, reference) ==
  IF reference = NoNumber THEN NoNumber ELSE (rooms * reference + 2) \div 4

----------------------------------------------------------------------------
(* The evaluations *)

Verdict(status, reason, confidence, proxy, evidence) ==
  [status |-> status, reason |-> reason, confidence |-> confidence,
   proxy |-> proxy, evidence |-> evidence]

Silent(status, reason, evidence) == Verdict(status, reason, 0, NoNumber, evidence)

Insufficient(baseline, evidence) ==
  Silent("INSUFFICIENT_DATA",
         IF baseline.status = "MISSING" THEN "EXPECTED_BASELINE_MISSING"
         ELSE "EXPECTED_BASELINE_INSUFFICIENT", evidence)

Evidence(other) == DOMAIN other \cup {other[k] : k \in DOMAIN other}

\* classify_pickup: at least a fifth below and two rooms missing; then the gate.
ClassifyPickup(actual, expected, confidence) ==
  IF ~ (100 * (4 * actual - expected) <= -20 * expected /\ expected - 4 * actual >= 8)
  THEN <<"CLEAR", "CLEAR_WITHIN_EXPECTED_RANGE">>
  ELSE IF confidence < 5000 THEN <<"SUPPRESSED_LOW_CONFIDENCE", "LOW_CONFIDENCE">>
  ELSE <<"TRIGGERED", "TRIGGER_PICKUP_SHORTFALL">>

\* evaluate_pickup: the first check that applies decides.
EvaluatePickup(target, row, baseline, pairs, reference, rows) ==
  LET prior      == PriorKey(target)
      found      == IF prior \in DOMAIN rows THEN {target, prior} ELSE {target}
      statistics == Summarize([k \in pairs.anchors |-> rows[k].rooms - rows[PriorKey(k)].rooms])
      confidence == Least(baseline.confidence, PatternConfidence(pairs, statistics))
      actual     == row.rooms - rows[prior].rooms
      expected   == statistics.expected
      missing    == Most(0, expected - 4 * actual)
      evidence   == found \cup Evidence(PriorOf(pairs.anchors))
      class      == ClassifyPickup(actual, expected, confidence)
  IN  IF row.capacity = 0
      THEN Silent("NOT_APPLICABLE", "PROPERTY_CLOSED_FOR_STAY_DATE", found)
      ELSE IF row.capacity # NoNumber /\ row.capacity - row.rooms <= 1
      THEN Silent("NOT_APPLICABLE", "PICKUP_NEAR_SOLD_OUT", found)
      ELSE IF baseline.status # "READY" THEN Insufficient(baseline, found)
      ELSE IF prior \notin DOMAIN rows \/ rows[prior].origin # Observed
      THEN Silent("INSUFFICIENT_DATA", "PICKUP_PRIOR_OBSERVATION_MISSING", found)
      ELSE IF Cardinality(pairs.anchors) < MinPairs
      THEN Silent("INSUFFICIENT_DATA", "PAIR_SAMPLE_INSUFFICIENT", found)
      ELSE IF expected <= 0
      THEN Verdict("NOT_APPLICABLE", "PICKUP_EXPECTATION_NON_POSITIVE",
                   confidence, NoNumber, evidence)
      ELSE Verdict(class[1], class[2], confidence,
                   IF class[1] = "CLEAR" THEN NoNumber ELSE GapProxy(missing, reference),
                   evidence)

\* classify_occupancy: ten points of occupancy or three rooms; then the gate.
ClassifyOccupancy(shortfall, capacity, confidence) ==
  LET byGap   == 100 * shortfall >= 10 * 4 * capacity
      byRooms == shortfall >= 3 * 4
  IN  CASE ~ (byGap \/ byRooms) -> <<"CLEAR", "CLEAR_WITHIN_EXPECTED_RANGE">>
        [] (byGap \/ byRooms) /\ confidence < 5500 ->
             <<"SUPPRESSED_LOW_CONFIDENCE", "LOW_CONFIDENCE">>
        [] OTHER -> <<"TRIGGERED", IF byGap /\ byRooms THEN "TRIGGER_OCCUPANCY_AND_ROOM_SHORTFALL"
                                   ELSE IF byGap THEN "TRIGGER_OCCUPANCY_GAP"
                                   ELSE "TRIGGER_ROOM_SHORTFALL">>

\* forecast_rooms_from_pickup: no upper clamp.
ForecastRooms(rooms, pickup) == Most(0, 4 * rooms + pickup)

\* evaluate_occupancy: the first check that applies decides.
EvaluateOccupancy(target, row, baseline, pairs, reference, rows) ==
  LET remaining  == Summarize([k \in pairs.anchors |-> rows[FinalKey(k)].rooms - rows[k].rooms])
      confidence == Least(baseline.confidence, PatternConfidence(pairs, remaining))
      final      == Median([k \in pairs.anchors |-> rows[FinalKey(k)].rooms])
      shortfall  == Most(0, final - ForecastRooms(row.rooms, remaining.expected))
      class      == ClassifyOccupancy(shortfall, row.capacity, confidence)
  IN  IF row.capacity = NoNumber
      THEN Silent("NOT_APPLICABLE", "OCCUPANCY_INVENTORY_UNKNOWN", {target})
      ELSE IF row.capacity = 0
      THEN Silent("NOT_APPLICABLE", "PROPERTY_CLOSED_FOR_STAY_DATE", {target})
      ELSE IF row.rooms >= row.capacity
      THEN Silent("NOT_APPLICABLE", "OCCUPANCY_ALREADY_SOLD_OUT", {target})
      ELSE IF baseline.status # "READY" THEN Insufficient(baseline, {target})
      ELSE IF Cardinality(pairs.anchors) < MinPairs
      THEN Silent("INSUFFICIENT_DATA", "PAIR_SAMPLE_INSUFFICIENT", {target})
      ELSE Verdict(class[1], class[2], confidence,
                   IF class[1] = "CLEAR" THEN NoNumber ELSE GapProxy(shortfall, reference),
                   {target} \cup Evidence(FinalOf(pairs.anchors)))

\* _load and _prepare of the service: the stored baseline of the target, its
\* comparables as anchors, the snapshots its pairs need; then both detectors.
Signals(target, rows, baselines) ==
  LET row == rows[target]
      baseline == IF target \in DOMAIN baselines THEN baselines[target]
                  ELSE [status |-> "MISSING", confidence |-> 0, selection |-> [comparables |-> {}]]
      comparables == baseline.selection.comparables
      anchors == IF baseline.status = "READY" THEN comparables ELSE {}
      reference == ReferenceAdr(row.adr, comparables, rows)
  IN  [pickup    |-> EvaluatePickup(target, row, baseline,
                       SelectPairs(target, PriorOf(anchors), rows), reference, rows),
       occupancy |-> EvaluateOccupancy(target, row, baseline,
                       SelectPairs(target, FinalOf(anchors), rows), reference, rows)]
==============================================================================
