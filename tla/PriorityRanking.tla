---------------------------- MODULE PriorityRanking ----------------------------
(***************************************************************************)
(* PriorityService.rank: triggered evaluations of the five detectors in, one *)
(* order out (app/modules/intelligence/priority).  Nothing is read or        *)
(* stored, so the module has no variables: DecisionLayer syncs whatever      *)
(* ranking the analysis hands over, and this is how that ranking comes.      *)
(*                                                                           *)
(* An evaluation is a record of what the adapters read:                      *)
(*   type, status, workspace, hotel, fingerprint, key, confidence (points),  *)
(*   asOf    the day it was computed for,                                    *)
(*   target  the stay or work date, or the last day of the month,            *)
(*   holds   the detector's own conditions that hold,                        *)
(*   size    the relative measure: percent, percentage points or share,      *)
(*   extent  the absolute one: rooms, hours, points of growth, or the CPOR,  *)
(*   fence   the upper fence of a cost.                                      *)
(* A score is a whole number of Points such that the progress of whole       *)
(* percents, rooms and hours is exact; the ratio of a cost is rounded down.  *)
(* Fingerprints and target keys are numbered in the order of their texts.    *)
(***************************************************************************)
EXTENDS Integers, Sequences, FiniteSets

Point == 1386
Half == 50 * Point
Full == 100 * Point

Types == {"REV_PICKUP_LOW", "REV_OCCUPANCY_RISK", "REV_OTA_DEPENDENCY",
          "COST_CPOR_ANOMALY", "LABOR_OVERSTAFFING"}

LeastOf(a, b) == IF a <= b THEN a ELSE b
GreatestOf(a, b) == IF a >= b THEN a ELSE b

-------------------------------------------------------------------------------
(* Impact: how far past the detector's own thresholds *)

\* threshold_progress: 50 at the threshold, 100 from the saturation on.
Progress(value, threshold, saturation) ==
    IF value <= 0 THEN 0
    ELSE IF value >= saturation THEN Full
    ELSE IF value <= threshold THEN (value * Half) \div threshold
    ELSE Half + ((value - threshold) * Half) \div (saturation - threshold)

\* Both conditions are needed: the weaker component caps the impact.
PickupImpact(percent, rooms) ==
    LeastOf(Progress(percent, 20, 40), Progress(rooms, 2, 4))

\* Either condition is enough: the stronger path wins.
OccupancyImpact(gap, rooms) ==
    GreatestOf(Progress(gap, 10, 20), Progress(rooms, 3, 6))

RisingImpact(share, growth) ==
    LeastOf(Progress(share, 55, 100), Progress(GreatestOf(growth, 0), 15, 30))

OtaImpact(share, growth, holds) ==
    LET structural == Progress(share, 70, 100) IN
    IF {"structural", "rising"} \subseteq holds
    THEN GreatestOf(structural, RisingImpact(share, growth))
    ELSE IF "structural" \in holds THEN structural
    ELSE RisingImpact(share, growth)

\* The fence is compared as a ratio, 1 to 1.5: no money enters a score.
CostImpact(percent, cpor, fence) ==
    LeastOf(Progress(GreatestOf(percent, 0), 20, 40),
            Progress(2 * cpor, 2 * fence, 3 * fence))

LaborImpact(percent, hours) ==
    LeastOf(Progress(GreatestOf(percent, 0), 20, 40), Progress(hours, 4, 8))

\* The pickup's percent is the size of a fall: a rise counts for nothing.
Impact(e) ==
    CASE e.type = "REV_PICKUP_LOW" -> PickupImpact(GreatestOf(0 - e.size, 0), e.extent)
      [] e.type = "REV_OCCUPANCY_RISK" -> OccupancyImpact(e.size, e.extent)
      [] e.type = "REV_OTA_DEPENDENCY" -> OtaImpact(e.size, e.extent, e.holds)
      [] e.type = "COST_CPOR_ANOMALY" -> CostImpact(e.size, e.extent, e.fence)
      [] e.type = "LABOR_OVERSTAFFING" -> LaborImpact(e.size, e.extent)

-------------------------------------------------------------------------------
(* Urgency: how soon *)

ForwardUrgency(days) ==
    CASE days <= 1 -> 100
      [] days \in 2 .. 3 -> 90
      [] days \in 4 .. 7 -> 80
      [] days \in 8 .. 14 -> 65
      [] days \in 15 .. 30 -> 50
      [] days \in 31 .. 60 -> 35
      [] OTHER -> 20

CostUrgency(days) ==
    CASE days \in 1 .. 7 -> 70
      [] days \in 8 .. 30 -> 55
      [] days \in 31 .. 60 -> 40
      [] days \in 61 .. 90 -> 25
      [] OTHER -> 10

Urgency(e) ==
    CASE e.type = "REV_OTA_DEPENDENCY" -> IF "rising" \in e.holds THEN 60 ELSE 40
      [] e.type = "COST_CPOR_ANOMALY" -> CostUrgency(e.asOf - e.target)
      [] OTHER -> ForwardUrgency(e.target - e.asOf)

-------------------------------------------------------------------------------
(* Policies: actionability, the detectors' confidence gates, the tie order *)

Actionability ==
    [t \in Types |-> CASE t = "REV_OCCUPANCY_RISK" -> 85
                       [] t = "REV_OTA_DEPENDENCY" -> 60
                       [] t = "COST_CPOR_ANOMALY" -> 70
                       [] OTHER -> 90]

Gate == [t \in Types |-> IF t = "REV_PICKUP_LOW" THEN 50 ELSE 55]

TieOrder ==
    [t \in Types |-> CASE t = "REV_OCCUPANCY_RISK" -> 0
                       [] t = "REV_PICKUP_LOW" -> 1
                       [] t = "LABOR_OVERSTAFFING" -> 2
                       [] t = "COST_CPOR_ANOMALY" -> 3
                       [] t = "REV_OTA_DEPENDENCY" -> 4]

-------------------------------------------------------------------------------
(* Adapting: a triggered evaluation must agree with its own status *)

Coherent(e) ==
    CASE e.type = "REV_PICKUP_LOW" -> {"percent", "rooms"} \subseteq e.holds
      [] e.type = "REV_OCCUPANCY_RISK" -> {"gap", "shortfall"} \cap e.holds # {}
      [] e.type = "REV_OTA_DEPENDENCY" -> {"structural", "rising"} \cap e.holds # {}
      [] e.type = "COST_CPOR_ANOMALY" ->
            {"above", "relative", "fence", "gap"} \subseteq e.holds /\ e.fence > 0
      [] e.type = "LABOR_OVERSTAFFING" ->
            {"above", "relative", "excess", "fence"} \subseteq e.holds

\* A cost is about a month that is over; every other type about today.
AsOf(context, e) ==
    IF e.type = "COST_CPOR_ANOMALY" THEN context.day > e.target
    ELSE e.asOf = context.day

Stale(context, e) ==
    e.type \notin {"COST_CPOR_ANOMALY", "REV_OTA_DEPENDENCY"} /\ e.target < context.day

\* Why one evaluation makes the whole run fail.
Refusals(context, e) ==
    {code \in {"TENANT_MISMATCH", "PROPERTY_MISMATCH", "AS_OF_MISMATCH",
               "STALE_SOURCE_EVALUATION", "INVALID_SOURCE_EVALUATION"} :
        \/ code = "TENANT_MISMATCH" /\ e.workspace # context.workspace
        \/ code = "PROPERTY_MISMATCH" /\ e.hotel # context.hotel
        \/ /\ e.status = "TRIGGERED"
           /\ \/ code = "AS_OF_MISMATCH" /\ ~AsOf(context, e)
              \/ code = "STALE_SOURCE_EVALUATION" /\ Stale(context, e)
              \/ /\ code = "INVALID_SOURCE_EVALUATION"
                 /\ \/ e.confidence \notin Gate[e.type] .. 100
                    \/ ~Coherent(e)}

\* _build_candidate, with the weighted sum of the four scores in hundredths.
Candidate(context, e) ==
    LET impact == Impact(e)
        urgency == Urgency([e EXCEPT !.asOf = context.day]) * Point
    IN [type |-> e.type, key |-> e.key, fingerprint |-> e.fingerprint,
        impact |-> impact, urgency |-> urgency,
        confidence |-> e.confidence * Point,
        actionability |-> Actionability[e.type] * Point,
        score |-> 40 * impact + 25 * urgency + 20 * e.confidence * Point
                  + 15 * Actionability[e.type] * Point]

-------------------------------------------------------------------------------
(* Ranking *)

\* _sort_key: eight keys, the last one different for every candidate.
SortKey(c) ==
    <<0 - c.score, 0 - c.impact, 0 - c.urgency, 0 - c.confidence,
      0 - c.actionability, TieOrder[c.type], c.key, c.fingerprint>>

\* Tuples are compared key by key.
LexLess(k, l) ==
    \E i \in 1 .. 8 : k[i] < l[i] /\ \A j \in 1 .. i - 1 : k[j] = l[j]

Precedes(c, d) == LexLess(SortKey(c), SortKey(d))

\* rank_candidates: ranks 1..n, whatever order the candidates came in.
Rank(candidates, c) == 1 + Cardinality({d \in candidates : Precedes(d, c)})

Group(evaluations, e) ==
    {f \in evaluations : f.type = e.type /\ f.key = e.key}

\* deduplicate_and_check_conflicts: two results for one target of one type.
Conflicting(evaluations) ==
    \E e \in evaluations : \E f \in Group(evaluations, e) :
        e.fingerprint # f.fingerprint

\* rank: one refusal refuses the run; otherwise every triggered evaluation is a
\* candidate once, and the others are counted by their status.
RankEvaluations(context, evaluations) ==
    LET given == {evaluations[i] : i \in DOMAIN evaluations}
        triggered == {e \in given : e.status = "TRIGGERED"}
        \* equal fingerprints are one evaluation seen twice
        candidates == {Candidate(context, CHOOSE f \in Group(triggered, e) : TRUE)
                       : e \in triggered}
        Count(status) == Cardinality({i \in DOMAIN evaluations :
                                        evaluations[i].status = status})
    IN  IF (\E e \in given : Refusals(context, e) # {}) \/ Conflicting(triggered)
        THEN [refused |-> TRUE, ranks |-> {}, duplicates |-> 0, excluded |-> {}]
        ELSE [refused |-> FALSE,
              ranks |-> {[rank |-> Rank(candidates, c), candidate |-> c]
                         : c \in candidates},
              duplicates |-> Count("TRIGGERED") - Cardinality(candidates),
              excluded |-> {<<s, Count(s)>> :
                             s \in {"CLEAR", "INSUFFICIENT_DATA", "NOT_APPLICABLE",
                                    "SUPPRESSED_LOW_CONFIDENCE"}}]
===============================================================================
