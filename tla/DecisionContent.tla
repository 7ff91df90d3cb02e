---------------------------- MODULE DecisionContent ----------------------------
(***************************************************************************)
(* What one observation of a Decision stores, what its readers let through,    *)
(* what is recommended from it and what the assistant is shown of it and may   *)
(* answer: serialization.py, whitelist.py, recommendations/ and ask_ninfa/.    *)
(*                                                                         *)
(* A stored value is its kind: a "word" (a date, a category, a currency), a    *)
(* "count" (a JSON integer), a "number" (an exact decimal, stored as text), a   *)
(* "flag" (a JSON boolean) or "none" (null).  A payload is a function from      *)
(* keys to kinds; a key out of its domain is absent.                         *)
(***************************************************************************)
EXTENDS Naturals, Sequences, SequencesExt, FiniteSets, TLC

Keyed(kind, keys) == [key \in keys |-> kind]

\* The fields each serializer writes, ordered by the step of the detector that fills them in: an
\* evaluation stopped at a step leaves the fields of the later ones null.
RevenueFacts == Keyed("word", {"stay_date", "kind"})
                  @@ Keyed("count", {"lead_time_days", "current_rooms_on_books", "rooms_available"})
PickupStages ==
  << RevenueFacts @@ Keyed("count", {"window_days", "prior_rooms_on_books"}),
     Keyed("count", {"actual_pickup"}) @@ Keyed("number", {"expected_pickup", "delta_rooms", "missing_rooms"}),
     Keyed("number", {"delta_percent_exact"}) @@ Keyed("flag", {"percent_condition", "rooms_condition"}) >>
OccupancyStages ==
  << RevenueFacts,
     Keyed("number", {"forecast_rooms", "expected_final_rooms", "occupancy_gap_pp_exact", "room_shortfall"})
       @@ Keyed("flag", {"gap_condition", "shortfall_condition"}) >>
OtaStages ==
  << Keyed("word", {"window_start", "window_end"}) @@ Keyed("count", {"window_days"}),
     Keyed("count", {"ota_room_nights", "direct_room_nights"}),
     Keyed("number", {"ota_share_exact"}),
     Keyed("number", {"expected_ota_share_exact", "upper_fence_exact", "delta_pp_exact"})
       @@ Keyed("flag", {"structural_condition", "rising_condition"}) >>
CostStages ==
  << Keyed("word", {"target_period_start", "target_period_end", "cost_category", "currency"}),
     Keyed("number", {"actual_cpor_exact"}),
     Keyed("number", {"expected_cpor_exact", "upper_fence_exact"}),
     Keyed("number", {"delta_cpor_exact", "delta_percent_exact", "cost_gap_proxy_exact"}) >>
LaborStages ==
  << Keyed("word", {"work_date", "labor_category"}),
     Keyed("number", {"forecast_rooms_exact"}),
     Keyed("number", {"scheduled_hours_exact"}),
     Keyed("number", {"expected_labor_hours_exact", "upper_fence_hours_exact"}),
     Keyed("number", {"excess_hours_exact", "delta_percent_exact"}) >>
Stages == [REV_PICKUP_LOW |-> PickupStages, REV_OCCUPANCY_RISK |-> OccupancyStages, REV_OTA_DEPENDENCY |-> OtaStages,
           COST_CPOR_ANOMALY |-> CostStages, LABOR_OVERSTAFFING |-> LaborStages]
DecisionTypes == DOMAIN Stages

\* serialize_facts: every key is written, whatever stage the evaluation stopped at; a pickup is
\* judged without knowing the rooms on sale, never without the prior snapshot.
Uncounted(type, reached) ==
  {key \in {"rooms_available", "prior_rooms_on_books"} \cap DOMAIN Stages[type][1] :
     reached = 1 \/ (type = "REV_PICKUP_LOW" /\ key = "rooms_available")}
SerializeFacts(type, reached, uncounted) ==
  LET Merged(stages) == FoldLeft(LAMBDA all, stage : all @@ stage, <<>>, stages)
      filled == Merged(SubSeq(Stages[type], 1, reached))
  IN  [key \in DOMAIN Merged(Stages[type]) |->
         IF key \in DOMAIN filled /\ key \notin uncounted THEN filled[key] ELSE "none"]

RevenueEvidence ==
  Keyed("word", {"booking_data_source_id", "reference_adr_source", "rules_version"}) @@ Keyed("count", {"pattern_pair_count"})
    @@ Keyed("number", {"baseline_confidence", "pattern_confidence", "confidence_score", "revenue_gap_proxy", "reference_adr"})
SerializeEvidence(type) ==
  CASE type \in {"REV_PICKUP_LOW", "REV_OCCUPANCY_RISK"} -> RevenueEvidence
    [] type = "REV_OTA_DEPENDENCY" ->
         Keyed("word", {"booking_data_source_id", "rules_version"})
           @@ Keyed("count", {"observed_day_count", "reconstructed_day_count", "sample_count"})
           @@ Keyed("number", {"classification_coverage_pct_exact", "baseline_confidence", "confidence_score",
                               "ota_room_revenue_exposure"})
    [] type = "COST_CPOR_ANOMALY" ->
         Keyed("word", {"booking_data_source_id", "rules_version"})
           @@ Keyed("count", {"sample_count", "observed_period_count"})
           @@ Keyed("number", {"classification_coverage_pct_exact", "occupancy_provenance_score_exact",
                               "baseline_confidence", "confidence_score"})
    [] OTHER ->
         Keyed("word", {"booking_data_source_id", "labor_data_source_id", "cost_currency", "rules_version"})
           @@ Keyed("count", {"sample_count", "fully_observed_count"})
           @@ Keyed("number", {"classification_coverage_pct_exact", "demand_confidence", "target_plan_quality",
                               "confidence_score", "labor_cost_gap_proxy_exact"})

-----------------------------------------------------------------------------
\* The one list of keys a reader lets through, written by hand beside the serializers.
FactsWhitelist ==
  [REV_PICKUP_LOW |-> {"stay_date", "lead_time_days", "current_rooms_on_books", "rooms_available", "kind", "window_days",
                       "prior_rooms_on_books", "actual_pickup", "expected_pickup", "delta_rooms", "missing_rooms",
                       "delta_percent_exact", "percent_condition", "rooms_condition"},
   REV_OCCUPANCY_RISK |-> {"stay_date", "lead_time_days", "current_rooms_on_books", "rooms_available", "kind",
                           "forecast_rooms", "expected_final_rooms", "occupancy_gap_pp_exact", "room_shortfall",
                           "gap_condition", "shortfall_condition"},
   REV_OTA_DEPENDENCY |-> {"window_start", "window_end", "window_days", "ota_room_nights", "direct_room_nights",
                           "ota_share_exact", "expected_ota_share_exact", "delta_pp_exact", "upper_fence_exact",
                           "structural_condition", "rising_condition"},
   COST_CPOR_ANOMALY |-> {"target_period_start", "target_period_end", "cost_category", "currency", "actual_cpor_exact",
                          "expected_cpor_exact", "delta_cpor_exact", "delta_percent_exact", "upper_fence_exact",
                          "cost_gap_proxy_exact"},
   LABOR_OVERSTAFFING |-> {"work_date", "labor_category", "forecast_rooms_exact", "scheduled_hours_exact",
                           "expected_labor_hours_exact", "excess_hours_exact", "delta_percent_exact",
                           "upper_fence_hours_exact"}]
RevenueEvidenceKeys == {"booking_data_source_id", "baseline_confidence", "pattern_confidence", "pattern_pair_count",
                        "confidence_score", "revenue_gap_proxy", "reference_adr", "reference_adr_source", "rules_version"}
EvidenceWhitelist ==
  [REV_PICKUP_LOW |-> RevenueEvidenceKeys, REV_OCCUPANCY_RISK |-> RevenueEvidenceKeys,
   REV_OTA_DEPENDENCY |-> {"booking_data_source_id", "classification_coverage_pct_exact", "observed_day_count",
                           "reconstructed_day_count", "sample_count", "baseline_confidence", "confidence_score",
                           "ota_room_revenue_exposure", "rules_version"},
   COST_CPOR_ANOMALY |-> {"booking_data_source_id", "classification_coverage_pct_exact",
                          "occupancy_provenance_score_exact", "sample_count", "observed_period_count",
                          "baseline_confidence", "confidence_score", "rules_version"},
   LABOR_OVERSTAFFING |-> {"booking_data_source_id", "labor_data_source_id", "classification_coverage_pct_exact",
                           "demand_confidence", "target_plan_quality", "sample_count", "fully_observed_count",
                           "confidence_score", "labor_cost_gap_proxy_exact", "cost_currency", "rules_version"}]
Only(keys, payload)        == [key \in DOMAIN payload \cap keys |-> payload[key]]
FactsOf(type, payload)     == Only(FactsWhitelist[type], payload)
EvidenceOf(type, payload)  == Only(EvidenceWhitelist[type], payload)

\* The amount a card shows: a cost Decision's from its facts, a labor Decision's from its evidence.
Given(payload, key) == key \in DOMAIN payload /\ payload[key] # "none"
HasProxy(type, facts, evidence) ==
  \/ type = "COST_CPOR_ANOMALY" /\ Given(facts, "cost_gap_proxy_exact") /\ Given(facts, "currency")
  \/ type = "LABOR_OVERSTAFFING" /\ Given(evidence, "labor_cost_gap_proxy_exact") /\ Given(evidence, "cost_currency")

-----------------------------------------------------------------------------
\* The recommendation: the facts a rule needs, its primary action, and each check with the fact
\* that calls for it.
Fact(key, kind) == [key |-> key, kind |-> kind]
Check(code, key, kind) == [code |-> code, fact |-> Fact(key, kind)]
Rule(needs, code, category, scope, risks, checks) ==
  [needs |-> needs, code |-> code, category |-> category, scope |-> scope, risks |-> risks, checks |-> checks]
PickupRule ==
  Rule({Fact("actual_pickup", "count"), Fact("expected_pickup", "number")}, "REVIEW_PRICING_AND_AVAILABILITY",
       "REVIEW_PRICING", "STAY_DATE", {"PRICING_CHANGE_MAY_AFFECT_REVENUE"},
       <<Check("CHECK_CHANNEL_VISIBILITY", "rooms_condition", "flag"),
         Check("CHECK_BOOKING_RESTRICTIONS", "missing_rooms", "number")>>)
OccupancyRule ==
  Rule({Fact("forecast_rooms", "number"), Fact("expected_final_rooms", "number")}, "REVIEW_DEMAND_POSITIONING",
       "REVIEW_AVAILABILITY", "STAY_DATE", {"PRICING_CHANGE_MAY_AFFECT_REVENUE"},
       <<Check("CHECK_PRICING", "occupancy_gap_pp_exact", "number"),
         Check("CHECK_AVAILABILITY_AND_RESTRICTIONS", "room_shortfall", "number")>>)
OtaRule ==
  Rule({Fact("ota_share_exact", "number"), Fact("expected_ota_share_exact", "number")}, "REVIEW_DISTRIBUTION_MIX",
       "REVIEW_DISTRIBUTION", "DISTRIBUTION_WINDOW", {"DISTRIBUTION_CHANGE_MAY_AFFECT_VISIBILITY"},
       <<Check("CHECK_DIRECT_CHANNEL_AVAILABILITY", "structural_condition", "flag"),
         Check("CHECK_DISTRIBUTION_CONFIGURATION", "rising_condition", "flag")>>)
CostRule ==
  Rule({Fact("actual_cpor_exact", "number"), Fact("expected_cpor_exact", "number")}, "REVIEW_COST_DRIVERS",
       "REVIEW_COST_DRIVERS", "COST_PERIOD", {},
       <<Check("CHECK_RECENT_COST_ENTRIES", "delta_cpor_exact", "number"),
         Check("CHECK_VOLUME_VS_COST", "delta_percent_exact", "number")>>)
LaborRule ==
  Rule({Fact("scheduled_hours_exact", "number"), Fact("expected_labor_hours_exact", "number")},
       "REVIEW_STAFFING_PLAN", "REVIEW_STAFFING", "WORK_DATE", {"STAFFING_CHANGE_MAY_AFFECT_SERVICE"},
       <<Check("CHECK_SHIFT_COVERAGE", "excess_hours_exact", "number"),
         Check("CHECK_SCHEDULED_HOURS", "scheduled_hours_exact", "number")>>)
RuleOf == [REV_PICKUP_LOW |-> PickupRule, REV_OCCUPANCY_RISK |-> OccupancyRule, REV_OTA_DEPENDENCY |-> OtaRule,
           COST_CPOR_ANOMALY |-> CostRule, LABOR_OVERSTAFFING |-> LaborRule]

\* A fact that is missing, null or of another kind counts as absent.
Reads(facts, fact) == fact.key \in DOMAIN facts /\ facts[fact.key] = fact.kind

MaxSupportingChecks == 2
Action(code, category, scope, cites, risks) ==
  [code |-> code, category |-> category, scope |-> scope, cites |-> cites, risks |-> risks]
Result(status, primary, checks, confidence) ==
  [status |-> status, primary |-> primary, checks |-> checks, confidence |-> confidence]
Recommend(type, sourceStatus, confidence, facts) ==
  LET rule   == RuleOf[type]
      called == SelectSeq(rule.checks, LAMBDA check : Reads(facts, check.fact))
      checks == [i \in DOMAIN called |->
                   Action(called[i].code, "VERIFY_DATA", rule.scope, {called[i].fact.key}, {})]
  IN  IF sourceStatus # "TRIGGERED" THEN Result("NOT_AVAILABLE", <<>>, <<>>, "none")
      ELSE IF confidence = "none" \/ \E fact \in rule.needs : ~Reads(facts, fact)
      THEN Result("INSUFFICIENT_CONTEXT", <<>>, <<>>, confidence)
      ELSE Result("AVAILABLE",
                  <<Action(rule.code, rule.category, rule.scope, {fact.key : fact \in rule.needs}, rule.risks)>>,
                  SubSeq(checks, 1, IF Len(checks) < MaxSupportingChecks THEN Len(checks) ELSE MaxSupportingChecks),
                  confidence)

-----------------------------------------------------------------------------
\* The assistant's context: the keys that have a label, in the order of the labels.
FactLabels ==
  [REV_PICKUP_LOW |-> <<"current_rooms_on_books", "rooms_available", "lead_time_days", "actual_pickup", "expected_pickup",
                        "delta_rooms", "missing_rooms", "delta_percent_exact">>,
   REV_OCCUPANCY_RISK |-> <<"current_rooms_on_books", "rooms_available", "lead_time_days", "forecast_rooms",
                            "expected_final_rooms", "occupancy_gap_pp_exact", "room_shortfall">>,
   REV_OTA_DEPENDENCY |-> <<"window_start", "window_end", "window_days", "ota_room_nights", "direct_room_nights",
                            "ota_share_exact", "expected_ota_share_exact", "delta_pp_exact", "structural_condition",
                            "rising_condition">>,
   COST_CPOR_ANOMALY |-> <<"target_period_end", "actual_cpor_exact", "expected_cpor_exact", "delta_cpor_exact",
                           "delta_percent_exact">>,
   LABOR_OVERSTAFFING |-> <<"forecast_rooms_exact", "scheduled_hours_exact", "expected_labor_hours_exact",
                            "excess_hours_exact", "delta_percent_exact">>]
RevenueEvidenceLabels == <<"baseline_confidence", "pattern_confidence", "pattern_pair_count", "revenue_gap_proxy",
                           "reference_adr">>
EvidenceLabels ==
  [REV_PICKUP_LOW |-> RevenueEvidenceLabels, REV_OCCUPANCY_RISK |-> RevenueEvidenceLabels,
   REV_OTA_DEPENDENCY |-> <<"classification_coverage_pct_exact", "observed_day_count", "reconstructed_day_count",
                            "sample_count", "baseline_confidence", "ota_room_revenue_exposure">>,
   COST_CPOR_ANOMALY |-> <<"classification_coverage_pct_exact", "occupancy_provenance_score_exact", "sample_count",
                           "observed_period_count", "baseline_confidence">>,
   LABOR_OVERSTAFFING |-> <<"classification_coverage_pct_exact", "demand_confidence", "sample_count",
                            "fully_observed_count", "labor_cost_gap_proxy_exact">>]
SourceIds == {"booking_data_source_id", "labor_data_source_id"}
DataPoints(labels, payload) == SelectSeq(labels, LAMBDA key : key \in DOMAIN payload \ SourceIds)
ObservationContext(type, facts, evidence) ==
  [facts    |-> DataPoints(FactLabels[type], FactsOf(type, facts)),
   evidence |-> DataPoints(EvidenceLabels[type], EvidenceOf(type, evidence))]

\* The history arrives newest first and is shown oldest first, at most ten observations of it.
MaxHistoryObservations == 10
HistoryContext(newestFirst) ==
  Reverse(SubSeq(newestFirst, 1,
                 IF Len(newestFirst) < MaxHistoryObservations THEN Len(newestFirst) ELSE MaxHistoryObservations))

\* One question: refused by its own words before anything is read, otherwise one call of the
\* provider, whose answer is shown whole or not at all.
MaxQuestion == 1000
MaxAnswer   == 700
MaxLimitations == 5
GroundingRefs == {"DECISION_STATUS", "LATEST_FACTS", "LATEST_EVIDENCE", "RECOMMENDATION", "HISTORY"}
Refusal(phrases) ==
  CASE "execution" \in phrases -> "EXECUTION_REQUEST"
    [] "personal" \in phrases  -> "PII_REQUEST"
    [] "injection" \in phrases -> "INJECTION_ATTEMPT"
    [] OTHER -> "none"
Answered(status, answer, refs, limitations) ==
  [status |-> status, answer |-> answer, refs |-> refs, limitations |-> limitations]
NoText == [chars |-> 0, leaks |-> FALSE]
Unavailable == Answered("UNAVAILABLE", NoText, <<>>, <<>>)
ValidRefs(refs) ==
  LET Add(seen, ref) == IF ref \in GroundingRefs \ Range(seen) THEN Append(seen, ref) ELSE seen
  IN  FoldLeft(Add, <<>>, refs)
ValidLimitations(notes) ==
  LET written == SelectSeq(notes, LAMBDA note : ~note.blank)
  IN  SubSeq(written, 1, IF Len(written) < MaxLimitations THEN Len(written) ELSE MaxLimitations)
ValidateAnswer(reply) ==
  LET notes == ValidLimitations(reply.limitations)
  IN  IF reply.answer.chars \notin 1 .. MaxAnswer \/ reply.answer.leaks \/ \E i \in DOMAIN notes : notes[i].leaks
      THEN Unavailable
      ELSE Answered(reply.status, reply.answer, ValidRefs(reply.refs), notes)
Ask(question, reply) ==
  CASE question.chars \notin 1 .. MaxQuestion -> Answered("INVALID_QUESTION", NoText, <<>>, <<>>)
    [] Refusal(question.phrases) # "none"     -> Answered("REFUSED", NoText, <<>>, <<Refusal(question.phrases)>>)
    [] reply.status = "failed"                -> Unavailable
    [] OTHER                                  -> ValidateAnswer(reply)

--------------------------------------------------------------------------------
(***************************************************************************)
(* What DecisionContent promises, for every type and every stage an            *)
(* evaluation can stop at, and for payloads a rule did not expect.            *)
(***************************************************************************)
Reached(type) == 1 .. Len(Stages[type])
Whole(type)   == Len(Stages[type])
NeedKeys(type)  == {fact.key : fact \in RuleOf[type].needs}
CheckKeys(type) == {RuleOf[type].checks[i].fact.key : i \in DOMAIN RuleOf[type].checks}

\* "Exactly the keys each one writes into facts_payload, never more", and as many: the readers'
\* list and the serializers agree key by key, so that no fact is stored and never shown, or
\* lets through what a later serializer might write.
WhatIsStoredIsWhatIsShown ==
  \A type \in DecisionTypes :
    /\ \A reached \in Reached(type) : \A uncounted \in SUBSET Uncounted(type, reached) :
         LET stored == SerializeFacts(type, reached, uncounted) IN FactsOf(type, stored) = stored
    /\ FactsWhitelist[type] = DOMAIN SerializeFacts(type, 1, {})
    /\ EvidenceWhitelist[type] = DOMAIN SerializeEvidence(type)
    /\ EvidenceOf(type, SerializeEvidence(type)) = SerializeEvidence(type)
ASSUME WhatIsStoredIsWhatIsShown

\* A Decision that triggers has been evaluated to its last stage, and then there is always advice:
\* its action, both its checks in their order, and for costs the amount on the card - whatever
\* rooms nobody counted.  Stopped at any earlier stage, a forecast is never enough to advise on.
TriggeredIsAdvised ==
  \A type \in DecisionTypes : \A reached \in Reached(type) : \A uncounted \in SUBSET Uncounted(type, reached) :
    LET facts  == SerializeFacts(type, reached, uncounted)
        result == Recommend(type, "TRIGGERED", "number", facts)
    IN  /\ reached = Whole(type) =>
             /\ result.status = "AVAILABLE"
             /\ [i \in DOMAIN result.checks |-> result.checks[i].code] =
                  [i \in 1 .. 2 |-> RuleOf[type].checks[i].code]
             /\ type = "COST_CPOR_ANOMALY" => HasProxy(type, facts, SerializeEvidence(type))
        /\ reached = 1 => result.status = "INSUFFICIENT_CONTEXT" /\ result.primary = <<>>
        /\ \A status \in {"CLEAR", "INSUFFICIENT_DATA", "SUPPRESSED_LOW_CONFIDENCE", "NOT_APPLICABLE"} :
             Recommend(type, status, "number", facts).status = "NOT_AVAILABLE"
ASSUME TriggeredIsAdvised

\* "Anything else - missing, wrong type, or not a parseable Decimal - is treated as absent, never
\* guessed": whatever a stored payload holds under the keys a rule reads, an action cites only
\* facts of that payload that readers may see, each of the kind it takes it for, and a fact the
\* action needs is never made up.
Kinds == {"absent", "none", "word", "count", "number", "flag"}
Malformed(type) ==
  {[key \in {k \in DOMAIN kinds : kinds[k] # "absent"} |-> kinds[key]] :
     kinds \in [NeedKeys(type) \cup CheckKeys(type) -> Kinds]}
KindTaken(type, key) ==
  {fact.kind : fact \in {f \in RuleOf[type].needs \cup {RuleOf[type].checks[i].fact : i \in DOMAIN RuleOf[type].checks} :
                           f.key = key}}
NothingIsGuessed ==
  \A type \in DecisionTypes : \A facts \in Malformed(type), confidence \in {"none", "number"} :
    LET result  == Recommend(type, "TRIGGERED", confidence, facts)
        actions == Range(result.primary \o result.checks)
        expected == SerializeFacts(type, Whole(type), {})
    IN  /\ \A action \in actions : \A key \in action.cites :
             key \in FactsWhitelist[type] /\ key \in DOMAIN facts /\ facts[key] = expected[key]
        /\ actions = {} <=> \/ confidence = "none"
                            \/ \E key \in NeedKeys(type) : key \notin DOMAIN facts \/ facts[key] # expected[key]
        /\ Cardinality({action.code : action \in actions}) = Len(result.primary) + Len(result.checks)
        /\ \A action \in actions : action.scope = RuleOf[type].scope
        /\ \A key \in NeedKeys(type) \cup CheckKeys(type) : KindTaken(type, key) = {expected[key]}
ASSUME NothingIsGuessed

\* The assistant can explain the action it is asked about: every fact the primary action cites is
\* a labelled point of its context at every stage, no label is of a fact that is not stored, and no
\* internal id is ever a point.
TheAdviceCanBeExplained ==
  \A type \in DecisionTypes : \A reached \in Reached(type) :
    LET context == ObservationContext(type, SerializeFacts(type, reached, {}), SerializeEvidence(type))
    IN  /\ context = [facts |-> FactLabels[type], evidence |-> EvidenceLabels[type]]
        /\ NeedKeys(type) \subseteq Range(context.facts)
        /\ (Range(context.facts) \cup Range(context.evidence)) \cap SourceIds = {}
ASSUME TheAdviceCanBeExplained

\* The history the model reads goes forward, ends with the newest observation and never skips one.
HistoryGoesForward ==
  \A n \in 0 .. 13 :
    LET newestFirst == [i \in 1 .. n |-> n + 1 - i]
        shown       == HistoryContext(newestFirst)
    IN  /\ n > 0 => shown[Len(shown)] = n
        /\ \A i \in 1 .. Len(shown) - 1 : shown[i + 1] = shown[i] + 1
        /\ n <= MaxHistoryObservations => Len(shown) = n
ASSUME HistoryGoesForward

\* "Fail closed, never truncate": an answer is shown whole or not at all, nothing shown carries an
\* internal identifier, a refused or failed question shows nothing the model wrote, and a good
\* answer is not lost to a note that would not be shown.
Prose(chars, leaks) == [chars |-> chars, leaks |-> leaks]
Note(blank, leaks) == [blank |-> blank, leaks |-> leaks]
Notes == {<<>>, <<Note(FALSE, FALSE), Note(TRUE, FALSE), Note(FALSE, TRUE)>>, <<Note(TRUE, FALSE)>>,
          [i \in 1 .. 6 |-> Note(FALSE, i = 6)], [i \in 1 .. 6 |-> Note(i = 1, i = 6)],
          [i \in 1 .. 7 |-> Note(FALSE, FALSE)]}
Replies == [status : {"failed", "ANSWERED", "INSUFFICIENT_CONTEXT"}, answer : {Prose(c, l) : c \in {0, 1, 700, 701}, l \in BOOLEAN},
            refs : {<<>>, <<"HISTORY", "GUESS", "LATEST_FACTS", "HISTORY">>}, limitations : Notes]
Questions == [chars : {0, 1, 1000, 1001}, phrases : SUBSET {"execution", "personal", "injection"}]
NothingLeakedIsShown ==
  \A question \in Questions, reply \in Replies :
    LET shown == Ask(question, reply)
        Written(notes) == {i \in DOMAIN notes : ~notes[i].blank}
        leaky == \E i \in Written(reply.limitations) :
                   reply.limitations[i].leaks /\ Cardinality({j \in Written(reply.limitations) : j <= i}) <= 5
    IN  /\ shown.status \in {"ANSWERED", "INSUFFICIENT_CONTEXT"} <=>
             /\ question.chars \in 1 .. 1000 /\ question.phrases = {} /\ reply.status # "failed"
             /\ reply.answer.chars \in 1 .. 700 /\ ~reply.answer.leaks /\ ~leaky
        /\ shown.status \in {"ANSWERED", "INSUFFICIENT_CONTEXT"} =>
             /\ shown.answer = reply.answer /\ Len(shown.limitations) <= 5
             /\ \A i \in DOMAIN shown.limitations : ~shown.limitations[i].leaks
             /\ Range(shown.refs) \subseteq GroundingRefs /\ IsInjective(shown.refs)
             /\ Range(shown.refs) = Range(reply.refs) \cap GroundingRefs
        /\ shown.status \in {"INVALID_QUESTION", "UNAVAILABLE"} => shown.limitations = <<>>
        /\ shown.answer # NoText => shown.status = reply.status
        /\ shown.status = "REFUSED" => shown.limitations = <<Refusal(question.phrases)>>
ASSUME NothingLeakedIsShown
================================================================================
