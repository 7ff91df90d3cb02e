--------------------------- MODULE LaborOverstaffing ---------------------------
(***************************************************************************)
(* LABOR_OVERSTAFFING: are the hours a category is scheduled for on a work  *)
(* date materially above what days of a like demand needed?                 *)
(* (app/modules/intelligence/labor, with the demand forecast it rests on).  *)
(*                                                                         *)
(* `entries` is a function from labor entries to [source, snapshot, work,   *)
(* category, planned, actual, plannedCost, actualCost, currency,            *)
(* confidence]: snapshot is the day its labor snapshot was taken (there is  *)
(* one for each source and day), work the day it is about, minutes and      *)
(* cents may be NoNumber, confidence is in points.  `rows` maps             *)
(* <<snapshot day, stay night>> to booking snapshots, as in ExpectedBaseline *)
(*                                                                         *)
(* Hours are minutes; statistics are quarters of a minute, rooms of a       *)
(* forecast quarters of a room, scores hundredths of a point.               *)
(***************************************************************************)
EXTENDS RevenueSignals

CONSTANTS
  OtherWork,            \* the category nothing is decided about
  MinDays, MaxDays,     \* MIN_COMPARABLES and MAX_COMPARABLES
  DaySaturation         \* SAMPLE_SATURATION

Total(amount) == MapThenSumSet(LAMBDA k : amount[k], DOMAIN amount)

--------------------------------------------------------------------------------
(* The demand of the target night *)

NoForecast == [status |-> "INSUFFICIENT_DATA", rooms |-> NoNumber, confidence |-> 0]

\* The forecast from a baseline: what is on the books and what the pairs of its
\* comparables still picked up.
ForecastFrom(target, rows, baseline) ==
  LET anchors    == baseline.selection.comparables \cap DOMAIN rows
      pairs      == SelectPairs(target, FinalOf(anchors), rows)
      remaining  == Summarize([k \in pairs.anchors |-> rows[FinalKey(k)].rooms - rows[k].rooms])
  IN  IF Cardinality(pairs.anchors) < MinPairs THEN NoForecast
      ELSE [status     |-> "READY",
            rooms      |-> ForecastRooms(rows[target].rooms, remaining.expected),
            confidence |-> Least(baseline.confidence, PatternConfidence(pairs, remaining))]

\* forecast_for_target: on the day of the stay the rooms on the books are the demand.
Forecast(target, rows, baselines) ==
  IF target[1] = target[2]
  THEN [status |-> "READY", rooms |-> 4 * rows[target].rooms, confidence |-> 10000]
  ELSE IF target \notin DOMAIN baselines \/ baselines[target].status # "READY" THEN NoForecast
  ELSE ForecastFrom(target, rows, baselines[target])

--------------------------------------------------------------------------------
(* Labor as it was known *)

\* entries_as_of: the entries of the snapshots taken up to a day.
EntriesAsOf(entries, source, asOf, days) ==
  {e \in DOMAIN entries : /\ entries[e].source = source
                          /\ entries[e].snapshot <= asOf
                          /\ entries[e].work \in days}

\* latest_snapshot_rows_by_work_date: of each work date, the entries of the most
\* recent snapshot that covers it, and no others.
LatestOfDay(entries, known, day) ==
  {e \in known : /\ entries[e].work = day
                 /\ \A f \in known : entries[f].work = day =>
                                       entries[f].snapshot <= entries[e].snapshot}

Minutes(entry, basis) == IF basis = "ACTUAL" THEN entry.actual ELSE entry.planned

\* Every one of these has minutes on this basis.
Covered(entries, set, basis) == \A e \in set : Minutes(entries[e], basis) # NoNumber

MinutesOf(entries, set, basis) == Total([e \in set |-> Minutes(entries[e], basis)])

\* classification_quality, on one basis: a row without it does not take part.
ClassificationQuality(entries, day, basis) ==
  LET part   == {e \in day : Minutes(entries[e], basis) # NoNumber}
      named  == {e \in part : entries[e].category # OtherWork}
      total  == MinutesOf(entries, part, basis)
      classified == MinutesOf(entries, named, basis)
  IN  [total      |-> total,
       classified |-> classified,
       confidence |-> IF classified = 0 THEN NoNumber
                      ELSE (100 * Total([e \in named |->
                              Minutes(entries[e], basis) * entries[e].confidence])) \div classified]

\* Less than 70 % of the minutes are of a known category, without rounding.
Unclassified(quality) == 100 * quality.classified < 70 * quality.total

\* target_plan_quality_of: 60 confidence, 40 coverage.
PlanQuality(quality) ==
  Blend(<<quality.confidence, (10000 * quality.classified) \div quality.total>>, <<60, 40>>)

InCategory(entries, day, category) == {e \in day : entries[e].category = category}

\* A cost in one currency, or none: never converted.
CostOf(entries, costed, amount) ==
  LET currencies == {entries[e].currency : e \in costed}
  IN  IF Cardinality(currencies) # 1 THEN NoNumber
      ELSE [cents |-> Total([e \in costed |-> amount[e]]), currency |-> CHOOSE c \in currencies : TRUE]

\* build_target_plan and _target_cost.
TargetPlan(entries, day, category) ==
  LET own == InCategory(entries, day, category)
      costed == {e \in own : entries[e].plannedCost # NoNumber}
  IN  [status  |-> IF day = {} THEN "MISSING"
                   ELSE IF own = {} THEN "NOT_SCHEDULED"
                   ELSE IF ~Covered(entries, own, "PLANNED_FALLBACK") THEN "INCOMPLETE"
                   ELSE "COMPLETE",
       minutes |-> IF Covered(entries, own, "PLANNED_FALLBACK")
                   THEN MinutesOf(entries, own, "PLANNED_FALLBACK") ELSE 0,
       quality |-> ClassificationQuality(entries, day, "PLANNED_FALLBACK"),
       cost    |-> CostOf(entries, costed, [e \in costed |-> entries[e].plannedCost])]

\* build_historical_day: actual minutes if all of the category has them, planned ones
\* if all of it has those, never half and half.  A category nobody worked is a zero.
HistoricalDay(entries, day, category) ==
  LET own     == InCategory(entries, day, category)
      basis   == IF Covered(entries, own, "ACTUAL") THEN "ACTUAL" ELSE "PLANNED_FALLBACK"
      costed  == {e \in own : entries[e].actualCost # NoNumber}
      quality == ClassificationQuality(entries, day, basis)
  IN  [usable  |-> Covered(entries, own, basis) /\ quality.total > 0,
       basis   |-> basis,
       minutes |-> IF Covered(entries, own, basis) THEN MinutesOf(entries, own, basis) ELSE 0,
       quality |-> quality,
       cost    |-> IF basis = "ACTUAL"
                   THEN CostOf(entries, costed, [e \in costed |-> entries[e].actualCost])
                   ELSE NoNumber]

--------------------------------------------------------------------------------
(* Comparable days *)

\* candidate_work_dates: before the day of the target's snapshot, not of its stay.
CandidateWorkDates(target) == {d \in EligibleStays(target[2]) : d < target[1]}

\* demand_tolerance, in quarters of a room: a fifth of the forecast, three rooms at
\* least.  Twentieths, so that it is compared without rounding.
WithinDemand(rooms, forecast) ==
  20 * Magnitude(4 * rooms - forecast) <= Most(20 * 12, 4 * Most(forecast, 4))

\* Why a candidate day cannot be compared with: the first that applies.
RejectionOf(day, rows, forecast, labor, historical) ==
  LET key == <<day, day>>
  IN  IF key \notin DOMAIN rows \/ rows[key].uncertain > 0 THEN "OCCUPANCY"
      ELSE IF ~WithinDemand(rows[key].rooms, forecast) THEN "DEMAND"
      ELSE IF labor = {} THEN "LABOR_MISSING"
      ELSE IF ~historical.usable THEN "LABOR_INCOMPLETE"
      ELSE IF Unclassified(historical.quality) THEN "CLASSIFICATION"
      ELSE "NONE"

\* pair_quality_score and is_fully_observed_pair.
PairQuality(historical, row) ==
  CASE historical.basis = "ACTUAL" /\ row.origin = Observed -> 10000
    [] historical.basis # "ACTUAL" /\ row.origin # Observed -> 6000
    [] OTHER -> 8000

\* select_comparables, over the labor of each candidate day.
SelectDays(target, rows, forecast, entries, known, category) ==
  LET days     == CandidateWorkDates(target)
      labor    == [d \in days |-> LatestOfDay(entries, known, d)]
      history  == [d \in days |-> HistoricalDay(entries, labor[d], category)]
      verdict  == [d \in days |-> RejectionOf(d, rows, forecast, labor[d], history[d])]
      eligible == {d \in days : verdict[d] = "NONE"}
      exact    == {d \in eligible : PairQuality(history[d], rows[<<d, d>>]) = 10000}
      chosen   == ObservedThenApproximate(exact, eligible \ exact, MinDays, MaxDays)
  IN  [history     |-> [d \in chosen |-> history[d]],
       quality     |-> [d \in chosen |-> PairQuality(history[d], rows[<<d, d>>])],
       observed    |-> Cardinality(chosen \cap exact),
       approximate |-> Cardinality(chosen \ exact),
       rejected    |-> [reason \in {verdict[d] : d \in days} \ {"NONE"} |->
                          Cardinality({d \in days : verdict[d] = reason})]]

--------------------------------------------------------------------------------
(* Confidence *)

KnownOrZero(score) == IF score = NoNumber THEN 0 ELSE score

\* baseline_confidence: 35 / 25 / 15 / 25, then the caps; the floor is one hour.
StaffingConfidence(selection, statistics) ==
  Capped(
    Blend(<<SampleScore(Cardinality(DOMAIN selection.history), DaySaturation),
            MeanScore(selection.quality),
            MeanScore([d \in DOMAIN selection.history |->
                         KnownOrZero(selection.history[d].quality.confidence)]),
            StabilityScore(statistics.iqr, statistics.expected, 240)>>,
          <<35, 25, 15, 25>>),
    selection.observed, selection.approximate)

\* final_confidence: the weakest of the three.
FinalConfidence(baseline, demand, plan) == Least(baseline, Least(demand, plan))

--------------------------------------------------------------------------------
(* What the excess may cost *)

\* Cents per hour, rounded down.
HourlyRate(cents, minutes) == (60 * cents) \div minutes

\* reference_hourly_cost: the plan's own rate, or the median of the comparable days
\* that were worked and paid in one currency.
ReferenceHourlyCost(plan, history) ==
  LET paid == {d \in DOMAIN history : /\ history[d].basis = "ACTUAL"
                                      /\ history[d].cost # NoNumber
                                      /\ history[d].cost.cents > 0
                                      /\ history[d].minutes > 0}
      currencies == {history[d].cost.currency : d \in paid}
  IN  IF plan.cost # NoNumber /\ plan.cost.cents > 0 /\ plan.minutes > 0
      THEN [rate |-> 4 * HourlyRate(plan.cost.cents, plan.minutes), currency |-> plan.cost.currency]
      ELSE IF Cardinality(currencies) # 1 THEN NoNumber
      ELSE [rate |-> Median([d \in paid |-> HourlyRate(history[d].cost.cents, history[d].minutes)]),
            currency |-> CHOOSE c \in currencies : TRUE]

\* labor_cost_gap_proxy, in cents, half up: quarters of a minute by quarters of a
\* cent an hour.
CostGapProxy(excess, reference) ==
  IF reference = NoNumber THEN NoNumber ELSE (excess * reference.rate + 480) \div 960

--------------------------------------------------------------------------------
(* The evaluation *)

StaffingHolds(minutes, statistics) ==
  LET over == 4 * minutes - statistics.expected
  IN  {c \in {"above", "relative", "excess", "fence"} :
         \/ c = "above" /\ over > 0
         \/ c = "relative" /\ 100 * over >= 20 * statistics.expected
         \/ c = "excess" /\ over >= 4 * 240
         \/ c = "fence" /\ 8 * minutes >= UpperFence(statistics)}

AllStaffing == {"above", "relative", "excess", "fence"}

StaffingEvaluation(status, reason, holds, confidence, proxy, history) ==
  [status |-> status, reason |-> reason, holds |-> holds, confidence |-> confidence,
   proxy |-> proxy, history |-> history]

NotJudged(status, reason) == StaffingEvaluation(status, reason, {}, 0, NoNumber, <<>>)

\* All four conditions, and then the gate.
ClassifyStaffing(holds, confidence) ==
  CASE holds # AllStaffing -> <<"CLEAR", "CLEAR_WITHIN_EXPECTED_RANGE">>
    [] holds = AllStaffing /\ confidence < 5500 -> <<"SUPPRESSED_LOW_CONFIDENCE", "LOW_CONFIDENCE">>
    [] OTHER -> <<"TRIGGERED", "TRIGGER_LABOR_OVERSTAFFING">>

JudgedStaffing(plan, selection, statistics, confidence) ==
  LET holds  == StaffingHolds(plan.minutes, statistics)
      class  == ClassifyStaffing(holds, confidence)
      excess == Most(0, 4 * plan.minutes - statistics.expected)
  IN  StaffingEvaluation(class[1], class[2], holds, confidence,
        CostGapProxy(excess, ReferenceHourlyCost(plan, selection.history)), selection.history)

\* The days it is compared with are looked at only when the plan can be judged.
AgainstDays(plan, demand, selection) ==
  LET statistics == Summarize([d \in DOMAIN selection.history |-> selection.history[d].minutes])
  IN  IF Cardinality(DOMAIN selection.history) < MinDays
      THEN NotJudged("INSUFFICIENT_DATA", "LABOR_COMPARABLE_SAMPLE_INSUFFICIENT")
      ELSE IF statistics.expected <= 0
      THEN NotJudged("NOT_APPLICABLE", "EXPECTED_LABOR_HOURS_NON_POSITIVE")
      ELSE JudgedStaffing(plan, selection, statistics,
             FinalConfidence(StaffingConfidence(selection, statistics), demand.confidence,
                             PlanQuality(plan.quality)))

\* evaluate_labor_overstaffing: the first check that applies decides.
EvaluateStaffing(category, demand, plan, selection) ==
  IF category = OtherWork
  THEN NotJudged("NOT_APPLICABLE", "LABOR_CATEGORY_OTHER_NOT_ACTIONABLE")
  ELSE IF demand.status # "READY"
  THEN NotJudged("INSUFFICIENT_DATA", "LABOR_DEMAND_FORECAST_INSUFFICIENT")
  ELSE IF plan.status = "MISSING" THEN NotJudged("INSUFFICIENT_DATA", "LABOR_PLAN_MISSING")
  ELSE IF plan.status = "NOT_SCHEDULED"
  THEN NotJudged("NOT_APPLICABLE", "LABOR_CATEGORY_NOT_SCHEDULED")
  ELSE IF plan.status = "INCOMPLETE" THEN NotJudged("INSUFFICIENT_DATA", "LABOR_PLAN_INCOMPLETE")
  ELSE IF plan.quality.total = 0 \/ Unclassified(plan.quality)
  THEN NotJudged("INSUFFICIENT_DATA", "LABOR_CLASSIFICATION_COVERAGE_LOW")
  ELSE AgainstDays(plan, demand, selection)

\* evaluate_overstaffing: of a target observed on or before its night.
EvaluateOverstaffing(target, rows, baselines, entries, source, category) ==
  LET demand == Forecast(target, rows, baselines)
      known  == EntriesAsOf(entries, source, target[1], CandidateWorkDates(target) \cup {target[2]})
  IN  EvaluateStaffing(category, demand,
        TargetPlan(entries, LatestOfDay(entries, known, target[2]), category),
        SelectDays(target, rows, demand.rooms, entries, known, category))

\* What the service refuses before it evaluates anything.
StaffingRefusal(target, rows, hotel, bookings, labor) ==
  IF target \notin DOMAIN rows THEN "target not_found"
  ELSE IF rows[target].origin # Observed THEN "target not_observed"
  ELSE IF target[2] < target[1] THEN "target invalid"
  ELSE IF ScopeRefusal(hotel, bookings, "BOOKINGS") # "none"
  THEN ScopeRefusal(hotel, bookings, "BOOKINGS")
  ELSE ScopeRefusal(hotel, labor, "LABOR")
================================================================================
