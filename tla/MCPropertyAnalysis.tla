------------------------ MODULE MCPropertyAnalysis ------------------------
(***************************************************************************)
(* A day of two instants and the first of the next, two-night windows.     *)
(* The second analysis of a day can meet unchanged rows, a conflict, and a *)
(* live mix that no longer reconciles or whose channels have moved.        *)
(* The assumptions below state what the detectors it calls, and the Dati page that *)
(* shows their results, must never do.                                      *)
(***************************************************************************)
EXTENDS PropertyAnalysis, Integers, Sequences, FiniteSets, TLC

CONSTANTS s1, s2

MCNight == 0 .. (MaxClock \div DayLength) + WindowDays - 1
MCContent(r, v, c) == [rooms |-> r, revenue |-> v, channel |-> c]
MCPlain == MCContent(1, 1, "direct")

MCFirst == [n \in MCNight |-> MCPlain]

\* An import leaves the bookings as they were, or sells two rooms more, or
\* moves one booking to another channel.
MCBooks ==
  {MCFirst,
   [MCFirst EXCEPT ![0] = MCContent(2, 2, "direct"), ![1] = MCContent(2, 2, "direct")],
   [MCFirst EXCEPT ![1] = MCContent(1, 1, "ota")]}

MCSymmetry == Permutations(Session)

MCManualWindow == {{0}, {0, 1}}

--------------------------------------------------------------------------------
(***************************************************************************)
(* What the detectors, and the page that shows what they judged, must never do.*)
(***************************************************************************)

(***************************************************************************)
(* What the cost, labor and OTA detectors must never do, checked over small *)
(* worlds of each.  They keep nothing, so there is no behaviour to explore: *)
(* a world is a past, and a variation of it that must not matter, or must.  *)
(***************************************************************************)
\* Sets as partial functions: f where it is defined, and g elsewhere.
Over(f, g) == [k \in DOMAIN f \cup DOMAIN g |-> IF k \in DOMAIN f THEN f[k] ELSE g[k]]
Without(f, keys) == [k \in DOMAIN f \ keys |-> f[k]]
Only(key, value) == [k \in {key} |-> value]

P == INSTANCE PriorityRanking

\* A triggered evaluation of a type at its own confidence, as the ranking reads it.
ToRank(type, evaluation, fence) ==
  [type |-> type, status |-> evaluation.status, workspace |-> 1, hotel |-> 1, fingerprint |-> 1,
   key |-> 1, confidence |-> evaluation.confidence \div 100, asOf |-> 8, target |-> 6,
   holds |-> evaluation.holds, size |-> 0, extent |-> 0, fence |-> fence]

Ranked(type, evaluation, fence, target) ==
  evaluation.status = "TRIGGERED" =>
    P!Refusals([day |-> 8, workspace |-> 1, hotel |-> 1],
               [ToRank(type, evaluation, fence) EXCEPT !.target = target]) = {}

--------------------------------------------------------------------------------
(* Costs: months of one day, years of four *)

OneDay(month) == {month}

C == INSTANCE CostAnomaly WITH
       Other <- "OTHER", NoValue <- -1, DaysOf <- OneDay, MonthsOfYear <- 4,
       LookbackMonths <- 5, SeasonMonths <- 1, MinComparables <- 2, MaxComparables <- 3,
       SampleSaturation <- 3, Gap <- 5

CostLine(month, category, total, credit) ==
  [invoice |-> month, hotel |-> 1, month |-> month, currency |-> "EUR", category |-> category,
   total |-> total, confidence |-> 100, credit |-> credit]

\* Month 6 is compared with months 1, 2, 3 and 5, which cost 100 each.
PastLines == [m \in {1, 2, 3, 5} |-> CostLine(m, "ENERGY", 90 + 5 * m, FALSE)]
MonthRow(origin, uncertain) == [origin |-> origin, uncertain |-> uncertain, rooms |-> 10]

CostWorlds ==
  {[lines |-> Over([l \in {10} |-> CostLine(6, "ENERGY", total, FALSE)],
                   Over([l \in {11} |-> CostLine(6, "OTHER", other, FALSE)], PastLines)),
    rows  |-> [k \in {<<m, m>> : m \in {1, 2, 3, 5, 6}} |->
                 MonthRow(IF k[1] \in observed THEN "OBSERVED" ELSE "RECONSTRUCTED_APPROXIMATE", 0)]]
     : total \in {110, 160, 300}, other \in {0, 60, 100},
       observed \in {{}, {1, 2}, {1, 2, 3, 5, 6}}}

CostOfWorld(lines, rows) == C!EvaluateCostMonth(lines, rows, 1, 6, "ENERGY", "EUR")

\* A credit note lowers what a month has cost: a month that was within its range does
\* not leave it.  ("Credit notes are already negative and are never re-signed",
\* costs/aggregation.py.)
ASSUME CreditNeverTriggers ==
  \A w \in CostWorlds : \A credit \in {-10, -60, -200} :
    CostOfWorld(w.lines, w.rows).status = "CLEAR" =>
      CostOfWorld(Over(Only(12, CostLine(6, "ENERGY", credit, TRUE)), w.lines), w.rows).status
        # "TRIGGERED"

\* A month whose rooms nobody knows is not a month of no cost or of no guests: judged
\* or compared with, it counts as if it had never been.  ("A missing day is never
\* zero rooms", costs/types.py.)
ASSUME UnknownRoomsAreNoRooms ==
  \A w \in CostWorlds :
    /\ CostOfWorld(w.lines, Without(w.rows, {<<6, 6>>})).reason = "OCCUPANCY_PERIOD_INCOMPLETE"
    /\ \A m \in {1, 2, 3, 5} :
         LET unknown == CostOfWorld(w.lines, Over(Only(<<m, m>>, MonthRow("OBSERVED", 1)), w.rows))
             missing == CostOfWorld(w.lines, Without(w.rows, {<<m, m>>}))
             never   == CostOfWorld(Without(w.lines, {m}), w.rows)
         IN  \A e \in {unknown, missing} :
               /\ e.status = never.status /\ e.holds = never.holds
               /\ e.confidence = never.confidence /\ e.statistics = never.statistics

\* What is triggered can be ranked, whatever the history: a positive fence, all four
\* conditions and a confidence past the gate.  One that could not would make the whole
\* analysis fail.  (_build_candidate, priority/service.py.)
ASSUME TriggeredCostIsRanked ==
  \A w \in CostWorlds :
    LET e == CostOfWorld(w.lines, w.rows)
    IN  e.status = "TRIGGERED" => Ranked("COST_CPOR_ANOMALY", e, C!UpperFence(e.statistics), 6)

--------------------------------------------------------------------------------
(* Labor: the plan of day 6 as it was on day 5, days one like the other *)

Place(day) == day + 1

L == INSTANCE LaborOverstaffing WITH
       Week <- 1, HorizonDays <- 4, SeasonalWindow <- 4, LeapLength <- 20, CommonLength <- 20,
       LeapPosition <- Place, CommonPosition <- Place, MinSample <- 2, MaxSample <- 4,
       Saturation <- 2, NoNumber <- -1, PickupWindow <- 1, MinPairs <- 2, MaxPairs <- 4,
       OtherWork <- "OTHER", MinDays <- 2, MaxDays <- 3, DaySaturation <- 3

Work(snapshot, day, planned, actual) ==
  [source |-> 1, snapshot |-> snapshot, work |-> day, category |-> "ROOMS", planned |-> planned,
   actual |-> actual, plannedCost |-> -1, actualCost |-> -1, currency |-> "EUR",
   confidence |-> 100]

Nights(origin) ==
  [k \in {<<d, d>> : d \in 2 .. 4} \cup {<<d - 1, d>> : d \in 2 .. 4} \cup {<<5, 6>>} |->
     [origin |-> origin, uncertain |-> 0, rooms |-> IF k[1] = k[2] THEN 10 ELSE 8]]

StaffWorlds ==
  {[entries |-> Over(Only(6, Work(5, 6, planned, -1)),
                     [d \in 2 .. 4 |-> Work(d, d, 540, IF d \in worked THEN 480 + 20 * d ELSE -1)]),
    rows |-> Nights(origin)]
     : planned \in {540, 700, 1200}, worked \in {{}, {2, 3}, {2, 3, 4}},
       origin \in {"OBSERVED", "RECONSTRUCTED_APPROXIMATE"}}

Ready ==
  Only(<<5, 6>>, [status |-> "READY", confidence |-> 9000,
                  selection |-> [comparables |-> {<<d - 1, d>> : d \in 2 .. 4}]])

StaffOfWorld(entries, rows) == L!EvaluateOverstaffing(<<5, 6>>, rows, Ready, entries, 1, "ROOMS")

\* Nothing recorded later than the day of the target's snapshot has a part in it, not
\* even about days before.  ("never the target's own day, never the future, whatever the
\* lead time", labor/selection.py.)
ASSUME StaffingKnowsNoFuture ==
  \A w \in StaffWorlds :
    LET before == StaffOfWorld(w.entries, w.rows)
    IN  /\ \A day \in {3, 6} :
             StaffOfWorld(Over(Only(7, Work(6, day, 9000, 9000)), w.entries), w.rows) = before
        /\ \A key \in {<<5, 5>>, <<6, 6>>} :
             StaffOfWorld(w.entries, Over(Only(key, [origin |-> "OBSERVED", uncertain |-> 0,
                                                     rooms |-> 90]), w.rows)) = before

\* A day nobody recorded is not a day nobody worked: the first is no evidence, the
\* second is evidence of no hours.  ("a labor snapshot covers H", labor/selection.py.)
ASSUME UnrecordedIsNotUnworked ==
  \A w \in StaffWorlds, d \in 2 .. 4 :
    LET elsewhere  == [w.entries[d] EXCEPT !.category = "KITCHEN"]
        unrecorded == StaffOfWorld(Without(w.entries, {d}), w.rows)
        unworked   == StaffOfWorld(Over(Only(d, elsewhere), w.entries), w.rows)
    IN  /\ d \notin DOMAIN unrecorded.history
        /\ d \in DOMAIN unworked.history => unworked.history[d].minutes = 0

\* What is triggered can be ranked.
ASSUME TriggeredStaffingIsRanked ==
  \A w \in StaffWorlds :
    Ranked("LABOR_OVERSTAFFING", [StaffOfWorld(w.entries, w.rows) EXCEPT !.proxy = 0], 1, 8)

--------------------------------------------------------------------------------
(* OTA dependency: windows of two nights, days of two instants *)

TwoInstants(day) == 2 * (day + 1)

O == INSTANCE OtaDependency WITH
       Week <- 1, HorizonDays <- 3, SeasonalWindow <- 3, LeapLength <- 20, CommonLength <- 20,
       LeapPosition <- Place, CommonPosition <- Place, MinSample <- 2, MaxSample <- 4,
       Saturation <- 2, NoInstant <- -1, Unknown <- -1, EndOfDay <- TwoInstants, PeriodDays <- 2,
       MinRoomNights <- 2, MinPeriods <- 2, MaxPeriods <- 3, PeriodSaturation <- 3

Guest(status, booked, cancelled, in, channel) ==
  [status |-> status, bookedAt |-> booked, cancelledAt |-> cancelled, checkIn |-> in,
   checkOut |-> in + 2, rooms |-> 2, revenue |-> 101, channel |-> channel]

Guests ==
  {Guest(status, booked, cancelled, in, "web")
     : status \in {"CONFIRMED", "NO_SHOW", "CANCELLED"}, booked \in 0 .. 7,
       cancelled \in {-1, 1, 4, 5, 6}, in \in 0 .. 4}

Days(first, count) == [k \in 1 .. count |-> first + k - 1]
Ends(dates) == [k \in DOMAIN dates |-> TwoInstants(dates[k])]

\* Rooms rebuilt for one day are those of a reconstruction of many: a window stored by a
\* reconstruction of these very bookings reconciles.  ("Zero semantic change to Gate 3",
\* distribution/temporal.py.)
ASSUME OneCertainty ==
  \A guest \in Guests, first \in 0 .. 2, count \in 1 .. 3 :
    \A k \in 1 .. count :
      LET dates == Days(first, count)
          mix   == O!ReconstructChannelMix(Only("guest", guest), <<>>, dates[k])
      IN  \A n \in O!Period(dates[k]) :
            mix.rooms[n] = O!AggregateReconstruction(Only("guest", guest), dates, Ends(dates), k, n).rooms

--------------------------------------------------------------------------------
(***************************************************************************)
(* What the Dati page must never say, over small worlds: nights with and    *)
(* without a snapshot, the worlds of the cost detector, coming windows sold  *)
(* by one channel or another, and plans of a week.  The page is put next to  *)
(* the detectors it must agree with.                                        *)
(***************************************************************************)
SameMonth(day) == day

\* Months and days have the same numbers: a month is one day long, as in CostWorlds.
D == INSTANCE DataOverview WITH
       Other <- "OTHER", NoValue <- -1, DaysOf <- OneDay, MonthsOfYear <- 4,
       LookbackMonths <- 5, SeasonMonths <- 1, MinComparables <- 2, MaxComparables <- 3,
       SampleSaturation <- 3, Gap <- 5, NoDate <- -1, ShortPeriod <- 2, LongPeriod <- 3,
       Lookback <- 1, PlanDays <- 3, MonthOf <- SameMonth

Run(source, recorded, insufficient) ==
  [found |-> TRUE, recorded |-> recorded, source |-> source, importedAt |-> 1,
   coverage |-> [a \in D!Areas |-> IF a = "COSTS" THEN "SKIPPED" ELSE "EVALUATED"],
   insufficient |-> insufficient, suppressed |-> 0]

Decided(id, type, target, category) ==
  [id |-> id, type |-> type, target |-> target, category |-> category,
   facts |-> [share |-> 8000]]

--------------------------------------------------------------------------------
(* Nights: the page of day 5, with nights 5, 6 and 7 *)

Snapshot(rooms, available) ==
  [rooms |-> rooms, available |-> available, cents |-> 100 * rooms, bookings |-> 1]

SomeBooks ==
  UNION {[S -> {Snapshot(10, 40), Snapshot(20, 40), Snapshot(20, -1)}] : S \in SUBSET (5 .. 7)}

EarlierBooks == {[n \in S |-> Snapshot(10, 40)] : S \in SUBSET (5 .. 7)}

Page(books, before) ==
  D!Occupancy(Run(1, TRUE, 0), 5, 3, Over(Only(5, books), Only(4, before)), "ANALYZED", <<>>)

\* A night nobody took a snapshot of is left out of every figure of its period, and its
\* period is compared with nothing: it never counts as a night with no rooms sold.  ("a
\* missing night is never a night with zero rooms", data_overview/types.py.)
ASSUME MissingNightIsNotZero ==
  \A books \in SomeBooks, n \in 5 .. 7 :
    LET left == Without(books, {n})
        page == Page(left, [m \in 5 .. 7 |-> Snapshot(10, 40)])
        rest == D!PeriodMetrics(left, (5 .. 7) \ {n}, <<>>)
    IN  DOMAIN left # {} =>
          LET month == page.figures.periods[3]
          IN  /\ <<month.roomNights, month.occupancy, month.adr>> =
                   <<rest.roomNights, rest.occupancy, rest.adr>>
              /\ month.delta = -1
              /\ page.figures.nights[n].rooms = -1
              /\ page.figures.nights[n].status = "NOT_EVALUATED"

\* A period changed by what its nights changed by, each against itself.  ("a partial
\* comparison would compare different nights", data_overview/metrics.py.)
ASSUME ChangeIsOfItsNights ==
  \A books \in SomeBooks, before \in EarlierBooks :
    LET page == Page(books, before)
    IN  page.state = "AVAILABLE" =>
          LET month == page.figures.periods[3]
              change == D!SumOf([n \in 5 .. 7 |-> page.figures.nights[n].delta])
          IN  month.delta # -1 =>
                month.delta = change /\ \A n \in 5 .. 7 : page.figures.nights[n].delta # -1

--------------------------------------------------------------------------------
(* Costs: the page of the month after the one that was judged *)

Hotel == [id |-> 1, found |-> TRUE, archived |-> FALSE, zone |-> TRUE, currency |-> "EUR"]

CostPage(w, run, decisions) == D!CostBlock(run, Hotel, 7, decisions, w.lines, w.rows)

\* What the detector said of a month the page shows next to the same figure, and nowhere
\* else; an invoice that comes in later moves the figure, and the decision stays.
ASSUME PageShowsWhatWasJudged ==
  \A w \in CostWorlds :
    LET e == CostOfWorld(w.lines, w.rows)
        decisions == IF e.status # "TRIGGERED" THEN <<>>
                     ELSE <<Decided(9, "COST_CPOR_ANOMALY", 6, "ENERGY")>>
        late  == [w EXCEPT !.lines = Over(Only(12, CostLine(6, "ENERGY", -60, TRUE)), w.lines)]
        rows  == CostPage(w, Run(1, TRUE, 0), decisions).block.figures.categories
        after == CostPage(late, Run(1, TRUE, 0), decisions).block.figures.categories
    IN  /\ e.metric.reason = "READY" => rows["ENERGY"].cpor = e.metric.cpor
        /\ \A c \in DOMAIN rows : rows[c].decision = 9 <=> e.status = "TRIGGERED" /\ c = "ENERGY"
        /\ after["ENERGY"].decision = rows["ENERGY"].decision
        /\ CostPage(w, Run(-1, TRUE, 0), decisions).block.figures.categories["ENERGY"].cpor = -1

--------------------------------------------------------------------------------
(* Distribution: windows of two nights, the target on day 6 *)

ChannelKinds ==
  [c \in {"web", "desk", "club"} |->
     [verified |-> FALSE, type |-> "OTHER",
      named |-> IF c = "web" THEN "OTA" ELSE IF c = "desk" THEN "DIRECT" ELSE "UNKNOWN"]]

\* A booking of two rooms for every night, and one of a channel nobody classified.
NightsSold(ChannelOf(_), unnamed) ==
  Over([n \in 0 .. 8 |->
          [status |-> "CONFIRMED", bookedAt |-> 0, cancelledAt |-> -1, checkIn |-> n,
           checkOut |-> n + 1, rooms |-> 2, revenue |-> 100, channel |-> ChannelOf(n)]],
       [n \in {20} |->
          [status |-> "CONFIRMED", bookedAt |-> 0, cancelledAt |-> -1, checkIn |-> 6,
           checkOut |-> 7, rooms |-> unnamed, revenue |-> 100, channel |-> "club"]])

Sold == {NightsSold(LAMBDA n : IF n >= 6 THEN late ELSE IF n % 2 = 0 THEN "desk" ELSE early, unnamed)
           : late \in {"web", "desk"}, early \in {"web", "desk"}, unnamed \in {0, 1, 2}}

Evaluated(stays) ==
  LET mix  == O!ReconstructChannelMix(stays, ChannelKinds, 6)
      rows == [k \in UNION {O!WindowKeys(d) : d \in 2 .. 6} |->
                 [origin |-> "OBSERVED", uncertain |-> 0,
                  rooms |-> O!ReconstructChannelMix(stays, ChannelKinds, k[1]).rooms[k[2]]]]
      e    == O!EvaluateWindow(6, rows, stays, ChannelKinds)
  IN  [status |-> e.status, reason |-> e.reason, failed |-> FALSE,
       share  |-> O!EvaluatedShare(e, mix)]

SharesPage(decisions, evaluation) ==
  D!Distribution(Run(1, TRUE, 0), "ANALYZED", decisions, evaluation)

\* While the bookings stay as the run read them the page never says that they changed,
\* and once they change it shows the figure that was decided, or none, but no figure that
\* contradicts the run, and none of a window too little of which is classified.  ("The
\* run is the authority - nothing is shown", data_overview/distribution.py.)
ASSUME RunIsTheAuthority ==
  \A then \in Sold, now \in Sold :
    LET e == Evaluated(then)
        decisions == IF e.status # "TRIGGERED" THEN <<>>
                     ELSE <<[Decided(9, "REV_OTA_DEPENDENCY", -1, "") EXCEPT !.facts.share = e.share]>>
        page == SharesPage(decisions, Evaluated(now)).figures
    IN  /\ page.outcome = "CHANGED_AFTER_ANALYSIS" => then # now /\ page.ota = -1
        /\ page.outcome = "DECISION" <=> e.status = "TRIGGERED"
        /\ page.outcome = "DECISION" => page.ota = e.share
        /\ page.outcome = "CLEAR" => page.ota # -1 /\ page.ota < 7000
        /\ page.outcome = "INSUFFICIENT_DATA" => page.ota = -1

\* The weights of the channels of a group are the room nights the evaluation gives that
\* group, so that the two shares differ by their denominator only.  ("a different metric
\* from the OTA share ... and the two are never mixed", data_overview/distribution.py.)
ASSUME WeightsAreOfTheMix ==
  \A stays \in Sold :
    LET weights == O!ChannelWeights(stays, ChannelKinds, 6)
        mix     == O!ReconstructChannelMix(stays, ChannelKinds, 6)
        Of(g)   == {c \in DOMAIN weights : weights[c].group = g}
    IN  /\ \A g \in O!ChannelGroups :
             D!SumOf([c \in Of(g) |-> weights[c].nights]) = mix.nights[g]
        /\ mix.nights["UNKNOWN"] > 0 /\ mix.nights["OTA"] > 0 =>
             D!SumOf([c \in Of("OTA") |-> weights[c].share]) < O!OtaShare(mix)

--------------------------------------------------------------------------------
(* Labor: the plan of days 5 to 7 as it was on day 5 *)

Shift(snapshot, day, planned) ==
  [Work(snapshot, day, planned, -1) EXCEPT !.plannedCost = 1000]

Plans ==
  {[e \in 1 .. 4 |-> CASE e = 1 -> Shift(4, 5, 480) [] e = 2 -> Shift(5, 5, first)
                       [] e = 3 -> Shift(5, 6, second) [] e = 4 -> Shift(later, 6, 60)]
     : first \in {-1, 240}, second \in {-1, 300}, later \in 4 .. 6}

LatestPlan(entries) ==
  LET known == L!EntriesAsOf(entries, 1, 5, 5 .. 7)
  IN  [d \in {entries[e].work : e \in known} |-> L!LatestOfDay(entries, known, d)]

\* The page adds up the days whose plan the detector would judge, and leaves out the ones
\* it would not.  ("the detector's own rule", data_overview/labor.py.)
ASSUME PageAddsUpJudgedPlans ==
  \A entries \in Plans :
    LET latest == LatestPlan(entries)
        page   == D!LaborBlock([id |-> 1, reason |-> "none"], 5, <<>>, "EUR", entries, latest)
        plan   == [d \in DOMAIN latest |-> L!TargetPlan(entries, latest[d], "ROOMS")]
        whole  == {d \in DOMAIN latest : plan[d].status = "COMPLETE"}
        row    == page.block.figures.categories["ROOMS"]
    IN  /\ row.complete = Cardinality(whole)
        /\ row.incomplete = Cardinality(DOMAIN latest \ whole)
        /\ row.minutes = D!SumOf([d \in whole |-> plan[d].minutes])

--------------------------------------------------------------------------------
(* Sources *)

\* What happens to another source, or fails, never moves the time a source's data are
\* said to be of; a second active source takes it away.  ("Never a property-wide maximum
\* across several sources", data_overview/sources.py.)
ASSUME FreshnessIsOfOneSource ==
  \A at \in 1 .. 3, status \in {"SUCCEEDED", "FAILED"}, source \in 1 .. 2 :
    LET sources(second) == [s \in 1 .. 2 |-> [hotel |-> 1, domain |-> "COSTS", active |-> s = 1 \/ second]]
        jobs == [j \in 1 .. 2 |->
                   IF j = 1 THEN [source |-> 1, status |-> "SUCCEEDED", finishedAt |-> 2]
                   ELSE [source |-> source, status |-> status, finishedAt |-> at]]
        fresh(second) == D!Freshness(D!Resolve(sources(second), 1, "COSTS"), jobs)
    IN  /\ source = 2 \/ status = "FAILED" => fresh(FALSE).at = 2
        /\ fresh(FALSE).at >= 2
        /\ fresh(TRUE) = [at |-> -1, reason |-> "SEVERAL_SOURCES"]
================================================================================
