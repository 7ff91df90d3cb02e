------------------------------ MODULE DataOverview -----------------------------
(***************************************************************************)
(* The figures behind the Dati page of a hotel                              *)
(* (app/modules/data_overview, served by app/api/v1/data): what is on the   *)
(* books, the OTA share, the costs of the last month that is over and the   *)
(* hours planned for the coming week, next to what the stored run of the    *)
(* day decided.                                                             *)
(*                                                                         *)
(* It writes nothing and reads everything in one request, so it is a        *)
(* function of what is stored.  A run is [found, recorded, coverage, source, *)
(* importedAt, insufficient, suppressed]; `recorded` says that its coverage *)
(* can be read, which then names the four areas.  A decision of the feed is *)
(* [id, type, target, category], in the feed's order; books maps nights to  *)
(* [rooms, available, cents, bookings], the observed snapshots of one day.  *)
(*                                                                         *)
(* A percentage is in hundredths of a point, money in cents; both half up.  *)
(***************************************************************************)
EXTENDS CostAnomaly, Sequences

CONSTANTS
  NoDate,                   \* a decision without a target, a source without imports
  ShortPeriod, LongPeriod,  \* PERIOD_DAYS_SHORT and PERIOD_DAYS_LONG
  Lookback,                 \* COMPARISON_LOOKBACK_DAYS
  PlanDays,                 \* LABOR_WINDOW_DAYS
  MonthOf(_)                \* the calendar month of a day

Areas == {"REVENUE", "DISTRIBUTION", "COSTS", "LABOR"}

AreaOf(type) ==
  CASE type \in {"REV_PICKUP_LOW", "REV_OCCUPANCY_RISK"} -> "REVENUE"
    [] type = "REV_OTA_DEPENDENCY" -> "DISTRIBUTION"
    [] type = "COST_CPOR_ANOMALY" -> "COSTS"
    [] type = "LABOR_OVERSTAFFING" -> "LABOR"

\* n / d half up, away from zero.
HalfUp(n, d) == IF n >= 0 THEN (2 * n + d) \div (2 * d) ELSE -((d - 2 * n) \div (2 * d))

PercentOf(part, whole) == IF whole <= 0 THEN NoValue ELSE HalfUp(10000 * part, whole)

Window(asOf, days) == asOf .. (asOf + days - 1)

First(decisions) == decisions[1]
OfType(decisions, type) == SelectSeq(decisions, LAMBDA d : d.type = type)

Unavailable(reason) == [state |-> "NOT_AVAILABLE", reason |-> reason]
Available(figures) == [state |-> "AVAILABLE", reason |-> "none", figures |-> figures]

--------------------------------------------------------------------------------
(* Areas and nights, from the run alone *)

\* domain_states: a decision is evidence that its area was analysed.
DomainStates(run, feedState, decisions) ==
  LET decided == {AreaOf(decisions[i].type) : i \in DOMAIN decisions}
  IN  [a \in Areas |->
         CASE ~run.found \/ ~run.recorded -> "UNKNOWN"
           [] run.found /\ run.recorded /\ a \in decided -> "ANALYZED"
           [] OTHER -> IF run.coverage[a] = "SKIPPED" THEN "NOT_ANALYZED"
                       ELSE IF feedState = "DATA_QUALITY_LIMITED" THEN "PARTIAL"
                       ELSE "ANALYZED"]

RunIsInconclusive(run) == run.insufficient > 0 \/ run.suppressed > 0

\* index_decisions_by_night: of two decisions about a night the first of the feed.
DecisionsOfNight(decisions, night) ==
  SelectSeq(decisions, LAMBDA d : AreaOf(d.type) = "REVENUE" /\ d.target = night)

\* night_status.
NightStatus(run, decided, known, revenue) ==
  IF decided THEN "ATTENTION"
  ELSE IF ~run.found \/ ~known \/ revenue \in {"NOT_ANALYZED", "UNKNOWN"} THEN "NOT_EVALUATED"
  ELSE IF revenue = "PARTIAL" \/ RunIsInconclusive(run) THEN "PARTIAL"
  ELSE "REGULAR"

--------------------------------------------------------------------------------
(* Bookings *)

OrNoValue(defined, figure) == IF defined THEN figure ELSE NoValue

\* period_metrics: capacity is counted where it is known, and nights are compared with
\* what they were only when all of them are.
PeriodMetrics(books, nights, before) ==
  LET stored == nights \cap DOMAIN books
      sized  == {n \in stored : books[n].available > 0}
      rooms  == SumOf([n \in stored |-> books[n].rooms])
      held   == SumOf([n \in sized |-> books[n].rooms])
      seats  == SumOf([n \in sized |-> books[n].available])
      cents  == SumOf([n \in stored |-> books[n].cents])
      known  == stored # {}
      compared == known /\ stored = nights /\ nights \subseteq DOMAIN before
      then   == SumOf([n \in nights \cap DOMAIN before |-> before[n].rooms])
  IN  [nights       |-> nights,
       withData     |-> stored,
       withCapacity |-> sized,
       roomNights   |-> OrNoValue(known, rooms),
       held         |-> OrNoValue(sized # {}, held),
       available    |-> OrNoValue(sized # {}, seats),
       occupancy    |-> PercentOf(held, seats),
       revenue      |-> OrNoValue(known, cents),
       adr          |-> IF rooms > 0 THEN HalfUp(cents, rooms) ELSE NoValue,
       before       |-> OrNoValue(compared, then),
       delta        |-> OrNoValue(compared, rooms - then)]

\* night_rows: a night without a snapshot has a row, and no figure.
NightRow(night, books, before, run, revenue, decisions) ==
  LET known   == night \in DOMAIN books
      then    == night \in DOMAIN before
      decided == DecisionsOfNight(decisions, night)
  IN  [known    |-> known,
       rooms    |-> IF known THEN books[night].rooms ELSE NoValue,
       bookings |-> IF known THEN books[night].bookings ELSE NoValue,
       before   |-> IF then THEN before[night].rooms ELSE NoValue,
       delta    |-> IF known /\ then THEN books[night].rooms - before[night].rooms ELSE NoValue,
       status   |-> NightStatus(run, decided # <<>>, known, revenue),
       decision |-> IF decided = <<>> THEN NoValue ELSE First(decided).id]

\* DataOverviewService._occupancy: the observed snapshots of the day, and of Lookback
\* days before, for the long window; `observed` maps days to books.
Occupancy(run, asOf, period, observed, revenue, decisions) ==
  LET OnBooks(day) ==
        IF day \notin DOMAIN observed THEN <<>>
        ELSE [n \in DOMAIN observed[day] \cap Window(asOf, LongPeriod) |-> observed[day][n]]
      books  == OnBooks(asOf)
      before == OnBooks(asOf - Lookback)
  IN  IF ~run.found THEN Unavailable("NO_ANALYSIS")
      ELSE IF run.source = NoValue THEN Unavailable("NO_BOOKING_SOURCE")
      ELSE IF DOMAIN books = {} THEN Unavailable("NO_BOOKING_DATA")
      ELSE Available(
             [periods  |-> [days \in {1, ShortPeriod, LongPeriod} |->
                              PeriodMetrics(books, Window(asOf, days), before)],
              nights   |-> [n \in Window(asOf, period) |->
                              NightRow(n, books, before, run, revenue, decisions)]])

--------------------------------------------------------------------------------
(* Distribution *)

\* _from_decision: what was decided is shown as it was stored.
SharesOfDecision(decision) ==
  Available([outcome |-> "DECISION", decision |-> decision.id, ota |-> decision.facts.share,
             direct |-> OrNoValue(decision.facts.share # NoValue, 10000 - decision.facts.share),
             reasons |-> {}])

OutcomeOf(status) ==
  CASE status = "TRIGGERED" -> "CHANGED_AFTER_ANALYSIS"
    [] status = "SUPPRESSED_LOW_CONFIDENCE" -> "SUPPRESSED"
    [] OTHER -> status

\* _from_evaluation: a trigger the run did not have is not shown; neither is the share of
\* an evaluation that raised an exception.
SharesOfEvaluation(evaluation) ==
  LET share == IF evaluation.status = "TRIGGERED" THEN NoValue ELSE evaluation.share
  IN  IF evaluation.failed THEN Unavailable("EVALUATION_FAILED")
      ELSE Available([outcome |-> OutcomeOf(evaluation.status), decision |-> NoValue, ota |-> share,
                      direct  |-> OrNoValue(share # NoValue, 10000 - share),
                      reasons |-> IF evaluation.status = "INSUFFICIENT_DATA"
                                  THEN {evaluation.reason} ELSE {}])

\* DistributionReader.read.
Distribution(run, state, decisions, evaluation) ==
  LET decided == OfType(decisions, "REV_OTA_DEPENDENCY")
  IN  IF ~run.found THEN Unavailable("NO_ANALYSIS")
      ELSE IF state = "UNKNOWN" THEN Unavailable("COVERAGE_UNKNOWN")
      ELSE IF state = "NOT_ANALYZED" THEN Unavailable("NOT_ANALYZED")
      ELSE IF run.source = NoValue THEN Unavailable("NO_BOOKING_SOURCE")
      ELSE IF decided # <<>> THEN SharesOfDecision(First(decided))
      ELSE SharesOfEvaluation(evaluation)

--------------------------------------------------------------------------------
(* Costs: the last month that is over *)

LastConcludedMonth(asOf) == MonthOf(asOf) - 1

NetOf(costs) == SumOf([c \in DOMAIN costs |-> costs[c].net])

\* _delta_pct: only against a positive month.
DeltaPct(now, then) == IF then <= 0 THEN NoValue ELSE HalfUp(10000 * (now - then), then)

\* _category_row: the category's cost, its cost per room where it has one, and the
\* decision about it when it is of this month.
CategoryRow(category, costs, run, denominator, month, decided) ==
  LET metric == BuildPeriodMetric(costs, category, denominator)
      status == IF category = Other THEN "NOT_APPLICABLE"
                ELSE IF run.source = NoValue THEN "NO_OCCUPANCY_SOURCE"
                ELSE metric.reason
      about  == /\ decided # <<>>
                /\ First(decided).target = month
                /\ First(decided).category = category
  IN  [net      |-> costs[category].net,
       status   |-> status,
       cpor     |-> OrNoValue(status = "READY", metric.cpor),
       decision |-> IF about THEN First(decided).id ELSE NoValue]

\* CostOverviewReader.read.
CostBlock(run, hotel, asOf, decisions, lines, rows) ==
  LET month    == LastConcludedMonth(asOf)
      costs    == MonthlyAggregates(lines, hotel.id, month, hotel.currency)
      previous == MonthlyAggregates(lines, hotel.id, month - 1, hotel.currency)
      decided  == OfType(decisions, "COST_CPOR_ANOMALY")
  IN  [month    |-> month,
       foreign  |-> \E l \in DOMAIN lines : /\ lines[l].hotel = hotel.id
                                            /\ lines[l].month = month
                                            /\ lines[l].currency # hotel.currency,
       decision |-> IF decided = <<>> THEN NoValue ELSE First(decided).id,
       block    |->
         IF DOMAIN costs = {} THEN Unavailable("NO_DATA")
         ELSE Available(
                [total      |-> NetOf(costs),
                 previous   |-> OrNoValue(DOMAIN previous # {}, NetOf(previous)),
                 delta      |-> IF DOMAIN previous = {} THEN NoValue
                                ELSE DeltaPct(NetOf(costs), NetOf(previous)),
                 classified |-> PercentOf(TotalAbsolute(costs, Classified(costs)),
                                          TotalAbsolute(costs, DOMAIN costs)),
                 categories |-> [c \in DOMAIN costs |->
                    CategoryRow(c, costs, run, BuildDenominator(month, rows), month, decided)]])]

--------------------------------------------------------------------------------
(* Labor: the plan of the coming days *)

\* One day of one category, whose entries are all of the latest snapshot of the day: it
\* has planned hours only when every entry has.
PlannedDay(entries, own, currency) ==
  LET whole == \A e \in own : entries[e].planned # NoValue
  IN  [complete |-> whole,
       minutes  |-> IF whole THEN SumOf([e \in own |-> entries[e].planned]) ELSE 0,
       costed   |-> \A e \in own : /\ entries[e].plannedCost # NoValue
                                   /\ entries[e].currency = currency,
       cents    |-> SumOf([e \in own |-> entries[e].plannedCost])]

PlanRow(entries, latest, category, currency) ==
  LET Own(day)  == {e \in latest[day] : entries[e].category = category}
      days      == {d \in DOMAIN latest : Own(d) # {}}
      plan      == [d \in days |-> PlannedDay(entries, Own(d), currency)]
      complete  == {d \in days : plan[d].complete}
  IN  [minutes    |-> SumOf([d \in complete |-> plan[d].minutes]),
       complete   |-> Cardinality(complete),
       incomplete |-> Cardinality(days \ complete),
       cents      |-> OrNoValue(complete # {} /\ \A d \in complete : plan[d].costed,
                                SumOf([d \in complete |-> plan[d].cents]))]

\* LaborOverviewReader.read: `latest` maps the days that some snapshot covers to the
\* entries of the latest one.
LaborBlock(source, asOf, decisions, currency, entries, latest) ==
  LET decided == OfType(decisions, "LABOR_OVERSTAFFING")
      days    == DOMAIN latest \cap Window(asOf, PlanDays)
      plan    == [d \in days |-> latest[d]]
  IN  [decision |-> IF decided = <<>> THEN NoValue ELSE First(decided).id,
       block    |->
         IF source.id = NoValue THEN Unavailable(source.reason)
         ELSE IF days = {} THEN Unavailable("NO_DATA")
         ELSE Available(
                [days       |-> days,
                 categories |-> [c \in {entries[e].category : e \in UNION {plan[d] : d \in days}}
                                   |-> PlanRow(entries, plan, c, currency)]])]

--------------------------------------------------------------------------------
(* Sources and their freshness *)

\* PropertySources.resolve: exactly one active source, or none is chosen.
Resolve(sources, hotel, domain) ==
  LET active == {s \in DOMAIN sources : /\ sources[s].hotel = hotel
                                        /\ sources[s].domain = domain
                                        /\ sources[s].active}
  IN  IF active = {} THEN [id |-> NoValue, reason |-> "NO_SOURCE"]
      ELSE IF Cardinality(active) > 1 THEN [id |-> NoValue, reason |-> "SEVERAL_SOURCES"]
      ELSE [id |-> CHOOSE s \in active : TRUE, reason |-> "none"]

\* When the latest import of this very source that succeeded was finished.
Freshness(source, imports) ==
  LET finished == {imports[j].finishedAt : j \in {i \in DOMAIN imports :
                     imports[i].source = source.id /\ imports[i].status = "SUCCEEDED"}}
  IN  IF source.id = NoValue THEN [at |-> NoDate, reason |-> source.reason]
      ELSE IF finished = {} THEN [at |-> NoDate, reason |-> "NO_IMPORT"]
      ELSE [at |-> Max(finished), reason |-> "none"]

\* booking_freshness_of: what the run itself recorded.
BookingFreshness(run) ==
  IF run.found /\ run.importedAt # NoDate THEN [at |-> run.importedAt, reason |-> "none"]
  ELSE [at |-> NoDate,
        reason |-> IF ~run.found \/ run.source = NoValue THEN "NO_SOURCE" ELSE "NO_IMPORT"]

--------------------------------------------------------------------------------
(* DataOverviewService.overview *)

\* Why there is no page at all.
OverviewRefusal(hotel, period) ==
  IF period \notin {ShortPeriod, LongPeriod} THEN "INVALID_PERIOD"
  ELSE IF ~hotel.found \/ hotel.archived \/ ~hotel.zone THEN "PROPERTY_NOT_FOUND"
  ELSE "none"

\* `feed` is [run, state, decisions] and `stored` the tables the blocks are read from;
\* stored.evaluation is the OTA evaluation of the data as they are now.
Overview(hotel, asOf, period, feed, stored) ==
  LET run    == feed.run
      states == DomainStates(run, feed.state, feed.decisions)
      labor  == Resolve(stored.sources, hotel.id, "LABOR")
  IN  [states       |-> states,
       decisions    |-> feed.decisions,
       freshness    |->
         [bookings |-> BookingFreshness(run),
          costs    |-> Freshness(Resolve(stored.sources, hotel.id, "COSTS"), stored.imports),
          labor    |-> Freshness(labor, stored.imports)],
       occupancy    |-> Occupancy(run, asOf, period, stored.observed, states["REVENUE"],
                                  feed.decisions),
       distribution |-> Distribution(run, states["DISTRIBUTION"], feed.decisions,
                                     stored.evaluation),
       costs        |-> CostBlock(run, hotel, asOf, feed.decisions, stored.lines, stored.rows),
       labor        |-> LaborBlock(labor, asOf, feed.decisions, hotel.currency, stored.entries,
                                   stored.latest)]
================================================================================
