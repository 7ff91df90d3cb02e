----------------------------- MODULE OtaDependency -----------------------------
(***************************************************************************)
(* REV_OTA_DEPENDENCY: are the room nights of the coming stay window        *)
(* concentrated on OTA channels, or rising above comparable history?        *)
(* (app/modules/intelligence/distribution).                                 *)
(*                                                                         *)
(* `stays` maps bookings to StayRecords with their channel, `channels` maps *)
(* channels to [verified, type, named]: type is what the customer says, and *)
(* named the group the exact dictionary gives the label, "UNKNOWN" for a    *)
(* label it does not have.  `rows` maps <<snapshot day, stay night>> to     *)
(* booking snapshots.                                                       *)
(*                                                                         *)
(* A share is in hundredths of a point, rounded down, statistics in         *)
(* quarters of that; coverage and the fixed shares are compared exactly.    *)
(***************************************************************************)
EXTENDS ExpectedBaseline, NightTotals

CONSTANTS
  EndOfDay(_),             \* end_of_local_day in the property's time zone
  PeriodDays,              \* FORWARD_STAY_WINDOW_DAYS
  MinRoomNights,           \* MIN_CLASSIFIED_ROOM_NIGHTS
  MinPeriods, MaxPeriods,  \* MIN_COMPARABLES and MAX_COMPARABLES
  PeriodSaturation         \* SAMPLE_SATURATION

--------------------------------------------------------------------------------
(* Channels *)

ChannelGroups == {"OTA", "DIRECT", "OTHER", "UNKNOWN"}

\* classify_channel: the customer's own decision, or an exact label, or nothing.
ClassifyChannel(channel) ==
  IF ~channel.verified THEN channel.named
  ELSE IF channel.type \in {"OTA", "DIRECT"} THEN channel.type
  ELSE "OTHER"

\* The group of a booking; a channel that is not the property's is unknown.
GroupOf(stay, channels) ==
  IF stay.channel \in DOMAIN channels THEN ClassifyChannel(channels[stay.channel]) ELSE "UNKNOWN"

--------------------------------------------------------------------------------
(* The mix of a window, as of the end of its first day *)

\* booking_certainty_at: the window of a reconstruction, with a single cutoff.
BookingCertaintyAt(stay, day) ==
  LET window == CertaintyWindow(stay, <<day>>, <<EndOfDay(day)>>)
  IN  IF window.certain[1] < window.certain[2] THEN "CERTAIN"
      ELSE IF window.uncertain[1] < window.uncertain[2] THEN "UNCERTAIN"
      ELSE "NOT_ON_BOOKS"

Period(day) == day .. (day + PeriodDays - 1)

\* reconstruct_channel_mix: only what was certainly on the books has a channel.
ReconstructChannelMix(stays, channels, day) ==
  LET certain == {b \in DOMAIN stays : BookingCertaintyAt(stays[b], day) = "CERTAIN"}
      Of(g)   == {b \in certain : GroupOf(stays[b], channels) = g}
      On(n, bookings) == Totals(stays, n, bookings, {})
  IN  [rooms  |-> [n \in Period(day) |-> On(n, certain).rooms],
       nights |-> [g \in ChannelGroups |->
                     MapThenSumSet(LAMBDA n : On(n, Of(g)).rooms, Period(day))],
       cents  |-> [g \in {"OTA", "DIRECT"} |->
                     MapThenSumSet(LAMBDA n : On(n, Of(g)).cents, Period(day))]]

CertainNights(mix) == MapThenSumSet(LAMBDA g : mix.nights[g], ChannelGroups)
ClassifiedNights(mix) == mix.nights["OTA"] + mix.nights["DIRECT"]

\* Only below the bar when there is something to classify.
CoverageBelow(mix) == 100 * ClassifiedNights(mix) < 80 * CertainNights(mix)

CoverageOf(mix) ==
  IF CertainNights(mix) = 0 THEN 0 ELSE (10000 * ClassifiedNights(mix)) \div CertainNights(mix)

OtaShare(mix) == (10000 * mix.nights["OTA"]) \div ClassifiedNights(mix)

\* _channel_mix of the Dati page: the certain room nights of every channel that has
\* some, as a share of all of them, classified or not, half up; nothing without any.
ChannelWeights(stays, channels, day) ==
  LET certain == {b \in DOMAIN stays : BookingCertaintyAt(stays[b], day) = "CERTAIN"}
      nights  == [c \in {stays[b].channel : b \in certain} |->
                    MapThenSumSet(LAMBDA n : Totals(stays, n, {b \in certain : stays[b].channel = c},
                                                    {}).rooms, Period(day))]
      total   == MapThenSumSet(LAMBDA c : nights[c], DOMAIN nights)
  IN  IF DOMAIN channels = {} \/ total = 0 THEN <<>>
      ELSE [c \in {d \in DOMAIN nights : nights[d] > 0} |->
              [nights |-> nights[c], group |-> ClassifyChannel(channels[c]),
               share  |-> (20000 * nights[c] + total) \div (2 * total)]]

--------------------------------------------------------------------------------
(* A window's stored snapshots, and the mix rebuilt next to them *)

WindowKeys(day) == {<<day, n>> : n \in Period(day)}

\* rooms_on_books of every day, as stored and as rebuilt.
Reconciled(day, rows, mix) == \A n \in Period(day) : mix.rooms[n] = rows[<<day, n>>].rooms

ObservedDays(day, rows) == Cardinality({k \in WindowKeys(day) : rows[k].origin = Observed})

PeriodProvenance(day, rows) ==
  ProvenanceScore(ObservedDays(day, rows), PeriodDays - ObservedDays(day, rows))

--------------------------------------------------------------------------------
(* Comparable periods *)

\* candidate_as_of_dates: the calendar rule of the Expected Engine, on as-of days.
CandidateAsOfDates(day) == EligibleStays(day)

\* Why a period cannot be compared with: the first that applies.
PeriodRejection(day, rows, mix) ==
  IF ~ (WindowKeys(day) \subseteq DOMAIN rows) THEN "INCOMPLETE"
  ELSE IF \E k \in WindowKeys(day) : rows[k].uncertain > 0 THEN "UNCERTAIN"
  ELSE IF ~Reconciled(day, rows, mix) THEN "RECONCILIATION"
  ELSE IF CoverageBelow(mix) THEN "CLASSIFICATION"
  ELSE IF ClassifiedNights(mix) < MinRoomNights THEN "VOLUME"
  ELSE "NONE"

\* select_comparable_periods: observed periods first; the others are counted by the
\* reason they were left out.
SelectComparablePeriods(day, rows, mixes) ==
  LET days     == CandidateAsOfDates(day)
      verdict  == [d \in days |-> PeriodRejection(d, rows, mixes[d])]
      eligible == {d \in days : verdict[d] = "NONE"}
      exact    == {d \in eligible : ObservedDays(d, rows) = PeriodDays}
      chosen   == ObservedThenApproximate(exact, eligible \ exact, MinPeriods, MaxPeriods)
  IN  [shares      |-> [d \in chosen |-> OtaShare(mixes[d])],
       coverage    |-> [d \in chosen |-> CoverageOf(mixes[d])],
       provenance  |-> [d \in chosen |-> PeriodProvenance(d, rows)],
       observed    |-> Cardinality(chosen \cap exact),
       approximate |-> Cardinality(chosen \ exact),
       rejected    |-> [reason \in {verdict[d] : d \in days} \ {"NONE"} |->
                          Cardinality({d \in days : verdict[d] = reason})]]

--------------------------------------------------------------------------------
(* Confidence *)

\* baseline_confidence: 35 / 25 / 20 / 20, then the caps; the floor is one point.
MixConfidence(selection, statistics) ==
  Capped(
    Blend(<<SampleScore(Cardinality(DOMAIN selection.shares), PeriodSaturation),
            MeanScore(selection.provenance), MeanScore(selection.coverage),
            StabilityScore(statistics.iqr, statistics.expected, 400)>>,
          <<35, 25, 20, 20>>),
    selection.observed, selection.approximate)

\* target_quality.
WindowQuality(provenance, coverage) == Blend(<<provenance, coverage>>, <<50, 50>>)

--------------------------------------------------------------------------------
(* The evaluation *)

\* _revenue_share: an exposure, which no rule reads.
RevenueShare(mix) ==
  LET total == mix.cents["OTA"] + mix.cents["DIRECT"]
  IN  IF total <= 0 THEN Unknown ELSE (10000 * mix.cents["OTA"]) \div total

\* High whatever the past, or well above it: either is enough.
DependencyHolds(mix, statistics) ==
  LET ota   == 100 * mix.nights["OTA"]
      over  == 4 * OtaShare(mix) - statistics.expected
  IN  {c \in {"structural", "rising"} :
         \/ c = "structural" /\ ota >= 70 * ClassifiedNights(mix)
         \/ /\ c = "rising"
            /\ ota >= 55 * ClassifiedNights(mix)
            /\ over >= 4 * 1500
            /\ 8 * OtaShare(mix) >= UpperFence(statistics)}

DependencyEvaluation(status, reason, holds, confidence, exposure) ==
  [status |-> status, reason |-> reason, holds |-> holds, confidence |-> confidence,
   exposure |-> exposure]

NoDependency(status, reason) == DependencyEvaluation(status, reason, {}, 0, Unknown)

\* Either condition, and then the gate.
ClassifyDependency(holds, confidence) ==
  IF holds = {} THEN <<"CLEAR", "CLEAR_WITHIN_EXPECTED_RANGE">>
  ELSE IF confidence < 5500 THEN <<"SUPPRESSED_LOW_CONFIDENCE", "LOW_CONFIDENCE">>
  ELSE <<"TRIGGERED", IF holds = {"structural"} THEN "TRIGGER_STRUCTURAL_OTA_DEPENDENCY"
                      ELSE IF holds = {"rising"} THEN "TRIGGER_RISING_OTA_DEPENDENCY"
                      ELSE "TRIGGER_STRUCTURAL_AND_RISING_OTA_DEPENDENCY">>

JudgedDependency(mix, holds, confidence) ==
  LET class == ClassifyDependency(holds, confidence)
  IN  DependencyEvaluation(class[1], class[2], holds, confidence, RevenueShare(mix))

\* The periods it is compared with are looked at only when the target can be judged.
AgainstPeriods(mix, provenance, selection) ==
  LET statistics == Summarize(selection.shares)
  IN  IF Cardinality(DOMAIN selection.shares) < MinPeriods
      THEN NoDependency("INSUFFICIENT_DATA", "OTA_COMPARABLE_SAMPLE_INSUFFICIENT")
      ELSE JudgedDependency(mix, DependencyHolds(mix, statistics),
             Least(MixConfidence(selection, statistics), WindowQuality(provenance, CoverageOf(mix))))

\* evaluate_ota_dependency: the first check that applies decides.
EvaluateOtaDependency(day, rows, mix, selection) ==
  IF ~ (WindowKeys(day) \subseteq DOMAIN rows)
  THEN NoDependency("INSUFFICIENT_DATA", "OTA_SNAPSHOT_WINDOW_INCOMPLETE")
  ELSE IF \E k \in WindowKeys(day) : rows[k].uncertain > 0
  THEN NoDependency("INSUFFICIENT_DATA", "OTA_SNAPSHOT_WINDOW_UNCERTAIN")
  ELSE IF ~Reconciled(day, rows, mix)
  THEN NoDependency("INSUFFICIENT_DATA", "OTA_CHANNEL_MIX_RECONCILIATION_FAILED")
  ELSE IF CertainNights(mix) = 0 THEN NoDependency("NOT_APPLICABLE", "OTA_NO_ON_BOOKS_DEMAND")
  ELSE IF CoverageBelow(mix)
  THEN NoDependency("INSUFFICIENT_DATA", "OTA_CHANNEL_CLASSIFICATION_COVERAGE_LOW")
  ELSE IF ClassifiedNights(mix) < MinRoomNights
  THEN NoDependency("INSUFFICIENT_DATA", "OTA_BOOKING_VOLUME_LOW")
  ELSE AgainstPeriods(mix, PeriodProvenance(day, rows), selection)

\* The share an evaluation names: only of a window whose mix can be used, compared or not.
EvaluatedShare(evaluation, mix) ==
  IF \/ evaluation.status \in {"CLEAR", "SUPPRESSED_LOW_CONFIDENCE", "TRIGGERED"}
     \/ evaluation.reason = "OTA_COMPARABLE_SAMPLE_INSUFFICIENT"
  THEN OtaShare(mix) ELSE Unknown

\* OtaDependencyService.evaluate: bookings and channels as they are now, snapshots as
\* they were stored.
EvaluateWindow(day, rows, stays, channels) ==
  EvaluateOtaDependency(day, rows, ReconstructChannelMix(stays, channels, day),
    SelectComparablePeriods(day, rows,
      [d \in CandidateAsOfDates(day) |-> ReconstructChannelMix(stays, channels, d)]))

\* _validate_booking_source: only the bookings of an uploaded file, and days that have
\* an end.
DependencyRefusal(hotel, source) ==
  IF /\ hotel.found /\ ~hotel.archived /\ source.found
     /\ source.domain = "BOOKINGS" /\ source.type # "FILE_UPLOAD"
  THEN "source wrong_source_type"
  ELSE IF ScopeRefusal(hotel, source, "BOOKINGS") # "none"
  THEN ScopeRefusal(hotel, source, "BOOKINGS")
  ELSE IF ~hotel.zone THEN "property invalid_timezone"
  ELSE "none"
================================================================================
