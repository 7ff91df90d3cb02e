------------------------------ MODULE CostAnomaly ------------------------------
(***************************************************************************)
(* COST_CPOR_ANOMALY: is the cost per occupied room of a category, in a     *)
(* calendar month that is over, materially above its history?               *)
(* (app/modules/intelligence/costs).                                        *)
(*                                                                         *)
(* Months are numbered one after the other.  `lines` is a function from     *)
(* invoice lines to [invoice, hotel, month, currency, category, total,      *)
(* confidence, credit]: total is signed, in whole units of the currency,    *)
(* confidence is that of the classification, in points, and credit tells    *)
(* the lines of credit notes.  `rows` is a partial function from            *)
(* <<snapshot day, stay night>> to snapshot contents, as in ExpectedBaseline *)
(*                                                                         *)
(* A CPOR is in cents, rounded down: it is exact whenever the rooms divide  *)
(* the cents.  Shares and confidences are in hundredths of a point.         *)
(***************************************************************************)
EXTENDS DetectorToolkit

CONSTANTS
  Other,                \* the category nothing is decided about
  NoValue,              \* a share or a confidence that is not defined (None)
  DaysOf(_),            \* the days of a month
  MonthsOfYear,         \* twelve
  LookbackMonths,       \* LOOKBACK_MONTHS
  SeasonMonths,         \* SEASON_WINDOW_MONTHS
  MinComparables, MaxComparables,  \* MIN_COMPARABLES and MAX_COMPARABLES
  SampleSaturation,     \* SAMPLE_SATURATION
  Gap                   \* CPOR_ABSOLUTE_GAP_THRESHOLD, in currency units

SumOf(amount) == MapThenSumSet(LAMBDA k : amount[k], DOMAIN amount)

--------------------------------------------------------------------------------
(* Costs of a month *)

\* What the database sums for one (month, currency, category).
Aggregate(lines, cell) ==
  [net      |-> SumOf([l \in cell |-> lines[l].total]),
   absolute |-> SumOf([l \in cell |-> Magnitude(lines[l].total)]),
   weighted |-> SumOf([l \in cell |-> Magnitude(lines[l].total) * lines[l].confidence]),
   invoices |-> Cardinality({lines[l].invoice : l \in cell}),
   lines    |-> Cardinality(cell),
   credits  |-> Cardinality({l \in cell : lines[l].credit}),
   credited |-> SumOf([l \in {m \in cell : lines[m].credit} |-> lines[l].total])]

\* monthly_aggregates and index_costs: the categories a month has lines of, in one
\* currency, whatever source their invoices came from.
MonthlyAggregates(lines, hotel, month, currency) ==
  LET own == {l \in DOMAIN lines : /\ lines[l].hotel = hotel
                                   /\ lines[l].month = month
                                   /\ lines[l].currency = currency}
  IN  [c \in {lines[l].category : l \in own} |->
         Aggregate(lines, {l \in own : lines[l].category = c})]

--------------------------------------------------------------------------------
(* Occupied room nights: what was on the books at the end of each stay night *)

\* build_denominator: every day must have a snapshot, and a certain one.
BuildDenominator(month, rows) ==
  LET keys  == {<<d, d>> : d \in DaysOf(month)}     \* lead_zero_keys
      clean == {k \in keys \cap DOMAIN rows : rows[k].uncertain = 0}
      seen  == {k \in clean : rows[k].origin = Observed}
      whole == clean = keys
  IN  [complete   |-> whole,
       nights     |-> IF whole THEN SumOf([k \in keys |-> rows[k].rooms]) ELSE NoValue,
       missing    |-> keys \ DOMAIN rows,
       uncertain  |-> (keys \cap DOMAIN rows) \ clean,
       approximate |-> clean \ seen,
       provenance |-> IF whole THEN ProvenanceScore(Cardinality(seen), Cardinality(keys \ seen))
                      ELSE NoValue]

--------------------------------------------------------------------------------
(* The metric of one month, category and currency *)

Classified(costs) == DOMAIN costs \ {Other}

TotalAbsolute(costs, categories) == SumOf([c \in categories |-> costs[c].absolute])

\* How much of the month's cost is not OTHER.
Coverage(costs) ==
  LET total == TotalAbsolute(costs, DOMAIN costs)
  IN  IF total = 0 THEN NoValue
      ELSE (10000 * TotalAbsolute(costs, Classified(costs))) \div total

\* The coverage is below MIN_CLASSIFICATION_COVERAGE, without rounding.
CoverageLow(costs) ==
  100 * TotalAbsolute(costs, Classified(costs)) < 70 * TotalAbsolute(costs, DOMAIN costs)

ClassificationQuality(costs) ==
  LET exposed == TotalAbsolute(costs, Classified(costs))
  IN  IF exposed = 0 THEN NoValue
      ELSE (100 * SumOf([c \in Classified(costs) |-> costs[c].weighted])) \div exposed

\* The first reason that applies: a month that is READY has none.
MetricReason(costs, category, denominator) ==
  CASE DOMAIN costs = {} -> "COST_CURRENCY_NOT_PRESENT"
    [] DOMAIN costs # {} /\ category \notin DOMAIN costs -> "COST_CATEGORY_NOT_PRESENT"
    [] category \in DOMAIN costs /\ ~denominator.complete -> "OCCUPANCY_PERIOD_INCOMPLETE"
    [] category \in DOMAIN costs /\ denominator.complete /\ denominator.nights = 0 ->
         "ZERO_OCCUPIED_ROOM_NIGHTS"
    [] OTHER -> IF Coverage(costs) = NoValue THEN "COST_CLASSIFICATION_COVERAGE_UNDEFINED"
                ELSE IF CoverageLow(costs) THEN "COST_CLASSIFICATION_COVERAGE_LOW"
                ELSE "READY"

\* build_period_metric.
BuildPeriodMetric(costs, category, denominator) ==
  LET reason == MetricReason(costs, category, denominator)
  IN  [reason         |-> reason,
       denominator    |-> denominator,
       coverage       |-> Coverage(costs),
       classification |-> ClassificationQuality(costs),
       own            |-> IF category \in DOMAIN costs THEN costs[category] ELSE NoValue,
       cpor           |-> IF reason # "READY" THEN NoValue
                          ELSE (100 * costs[category].net) \div denominator.nights]

\* _Dataset.metric.
Metric(lines, rows, hotel, month, category, currency) ==
  BuildPeriodMetric(MonthlyAggregates(lines, hotel, month, currency), category,
                    BuildDenominator(month, rows))

--------------------------------------------------------------------------------
(* Comparable months *)

CircularMonths(a, b) ==
  LET gap == Magnitude(a - b) % MonthsOfYear IN Least(gap, MonthsOfYear - gap)

\* candidate_months.
CandidateMonths(target) ==
  {m \in (target - LookbackMonths) .. (target - 1) : CircularMonths(m, target) <= SeasonMonths}

RejectedFor(metrics, reasons) == Cardinality({m \in DOMAIN metrics : metrics[m].reason \in reasons})

FullyObserved(metric) == metric.denominator.approximate = {}

\* select_comparables: `metrics` maps every candidate month to its metric.
SelectMonths(metrics) ==
  LET ready  == {m \in DOMAIN metrics : metrics[m].reason = "READY"}
      exact  == {m \in ready : FullyObserved(metrics[m])}
      chosen == ObservedThenApproximate(exact, ready \ exact, MinComparables, MaxComparables)
  IN  [months      |-> chosen,
       observed    |-> Cardinality(chosen \cap exact),
       approximate |-> Cardinality(chosen \ exact),
       noCost      |-> RejectedFor(metrics, {"COST_CURRENCY_NOT_PRESENT",
                                             "COST_CATEGORY_NOT_PRESENT"}),
       unclassified |-> RejectedFor(metrics, {"COST_CLASSIFICATION_COVERAGE_LOW",
                                              "COST_CLASSIFICATION_COVERAGE_UNDEFINED"}),
       incomplete  |-> RejectedFor(metrics, {"OCCUPANCY_PERIOD_INCOMPLETE"}),
       empty       |-> RejectedFor(metrics, {"ZERO_OCCUPIED_ROOM_NIGHTS"})]

--------------------------------------------------------------------------------
(* Confidence *)

OrZero(score) == IF score = NoValue THEN 0 ELSE score

\* classification_score: months with more money behind them weigh more.
ClassificationScore(metrics) ==
  LET weight == SumOf([m \in DOMAIN metrics |-> metrics[m].own.absolute])
  IN  IF weight = 0 THEN MeanScore([m \in DOMAIN metrics |-> OrZero(metrics[m].classification)])
      ELSE SumOf([m \in DOMAIN metrics |->
                    OrZero(metrics[m].classification) * metrics[m].own.absolute]) \div weight

\* baseline_confidence: 35 / 25 / 20 / 20, then the caps.
BaselineConfidence(metrics, statistics, selection) ==
  Capped(
    Blend(<<SampleScore(Cardinality(DOMAIN metrics), SampleSaturation),
            MeanScore([m \in DOMAIN metrics |-> metrics[m].denominator.provenance]),
            ClassificationScore(metrics),
            StabilityScore(statistics.iqr, statistics.expected, 4)>>,
          <<35, 25, 20, 20>>),
    selection.observed, selection.approximate)

\* target_quality.
TargetQuality(metric) ==
  Blend(<<metric.denominator.provenance, metric.classification>>, <<50, 50>>)

--------------------------------------------------------------------------------
(* The evaluation *)

\* The four conditions on a CPOR: quarters of a cent, and eighths for the fence.
Holds(metric, statistics) ==
  LET actual == 4 * metric.cpor
      over   == actual - statistics.expected
  IN  {c \in {"above", "relative", "fence", "gap"} :
         \/ c = "above" /\ over > 0
         \/ c = "relative" /\ 100 * over >= 20 * statistics.expected
         \/ c = "fence" /\ 2 * actual >= UpperFence(statistics)
         \/ c = "gap" /\ 400 * metric.own.net - statistics.expected * metric.denominator.nights
                           >= 400 * Gap}

AllFour == {"above", "relative", "fence", "gap"}

CostEvaluation(status, reason, metric, selection, statistics, holds, confidence) ==
  [status |-> status, reason |-> reason, metric |-> metric, selection |-> selection,
   statistics |-> statistics, holds |-> holds, confidence |-> confidence]

Unjudged(status, reason, metric, selection) ==
  CostEvaluation(status, reason, metric, selection, <<>>, {}, 0)

\* What a month that is not READY is answered.
NotReady(reason) ==
  IF reason \in {"COST_CURRENCY_NOT_PRESENT", "COST_CATEGORY_NOT_PRESENT",
                 "ZERO_OCCUPIED_ROOM_NIGHTS"}
  THEN "NOT_APPLICABLE" ELSE "INSUFFICIENT_DATA"

\* All four conditions, and then the gate.
ClassifyCost(holds, confidence) ==
  CASE holds # AllFour -> <<"CLEAR", "CLEAR_WITHIN_EXPECTED_RANGE">>
    [] holds = AllFour /\ confidence < 5500 -> <<"SUPPRESSED_LOW_CONFIDENCE", "LOW_CONFIDENCE">>
    [] OTHER -> <<"TRIGGERED", "TRIGGER_CPOR_ANOMALY">>

Judged(metric, selection, statistics, confidence) ==
  LET holds == Holds(metric, statistics)
      class == ClassifyCost(holds, confidence)
  IN  CostEvaluation(class[1], class[2], metric, selection, statistics, holds, confidence)

\* The months it is compared with are looked at only when it can be judged.
AgainstHistory(metric, metrics, selection) ==
  LET used       == [m \in selection.months |-> metrics[m]]
      statistics == Summarize([m \in selection.months |-> metrics[m].cpor])
  IN  IF Cardinality(selection.months) < MinComparables
      THEN Unjudged("INSUFFICIENT_DATA", "COMPARABLE_SAMPLE_INSUFFICIENT", metric, selection)
      ELSE IF statistics.expected <= 0
      THEN CostEvaluation("NOT_APPLICABLE", "EXPECTED_CPOR_NON_POSITIVE", metric, selection,
                          statistics, {}, 0)
      ELSE Judged(metric, selection, statistics,
                  Least(BaselineConfidence(used, statistics, selection), TargetQuality(metric)))

\* evaluate_cpor_anomaly: the first check that applies decides.
EvaluateCost(category, metric, metrics) ==
  IF category = Other
  THEN Unjudged("NOT_APPLICABLE", "COST_CATEGORY_OTHER_NOT_ACTIONABLE", metric, NoValue)
  ELSE IF metric.reason # "READY"
  THEN Unjudged(NotReady(metric.reason), metric.reason, metric, NoValue)
  ELSE AgainstHistory(metric, metrics, SelectMonths(metrics))

\* CostDecisionService.evaluate_cpor_anomaly: one month, category and currency.
EvaluateCostMonth(lines, rows, hotel, month, category, currency) ==
  EvaluateCost(category, Metric(lines, rows, hotel, month, category, currency),
    [m \in CandidateMonths(month) |-> Metric(lines, rows, hotel, m, category, currency)])

\* evaluate_month: every operating category, unless the hotel or the source of the
\* bookings cannot be used.
EvaluateMonth(hotel, source, lines, rows, month, currency, categories) ==
  IF ScopeRefusal(hotel, source, "BOOKINGS") # "none" THEN {}
  ELSE {<<c, EvaluateCostMonth(lines, rows, hotel.id, month, c, currency)>> :
          c \in categories \ {Other}}
================================================================================
