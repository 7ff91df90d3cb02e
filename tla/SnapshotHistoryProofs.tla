-------------------------- MODULE SnapshotHistoryProofs --------------------------
(***************************************************************************)
(* What the booking history promises for every zone whose dates never go     *)
(* back, every past and every order of its runs: reconstructions are of days *)
(* that are over, what is stored is never rewritten, no baseline and no       *)
(* signal depends on what was observed on the day of its target or later, and *)
(* a reconstruction never claims more rooms than there were, and calls        *)
(* uncertain what it leaves out.                                              *)
(***************************************************************************)
EXTENDS SnapshotHistory, SequenceTheorems, FiniteSetTheorems, WellFoundedInduction, TLAPS

--------------------------------------------------------------------------------
(* The calendar *)

LEMMA QuotientsKeepOrder ==
    ASSUME NEW a \in Int, NEW b \in Int, NEW n \in Nat \ {0}, a <= b
    PROVE  a \div n <= b \div n
BY SMT

LEMMA QuotientOfAProduct ==
    ASSUME NEW d \in Int, NEW w \in Int, NEW n \in Nat \ {0}, d * n <= w
    PROVE  d <= w \div n
BY SMT

\* A later instant is never of an earlier date.
LEMMA DatesKeepOrder ==
    ASSUME NEW z \in Zones, NEW i \in Int, NEW j \in Int, i <= j
    PROVE  /\ LocalDateOf(i, z) \in Int
           /\ LocalDateOf(i, z) <= LocalDateOf(j, z)
<1> USE HistoryAssumption, DayLengthAssumption
<1>1. /\ WallClock(i, z) \in Int /\ WallClock(j, z) \in Int
      /\ WallClock(z.at - 1, z) \in Int /\ WallClock(z.at, z) \in Int
  BY DEF WallClock
<1>2. LocalDateOf(i, z) \in Int
  BY <1>1 DEF LocalDateOf
<1>3. CASE i < z.at /\ j >= z.at
  <2>1. WallClock(i, z) <= WallClock(z.at - 1, z) /\ WallClock(z.at, z) <= WallClock(j, z)
    BY <1>3 DEF WallClock
  <2>2. LocalDateOf(i, z) <= LocalDateOf(z.at - 1, z)
    BY <1>1, <2>1, QuotientsKeepOrder DEF LocalDateOf
  <2>3. LocalDateOf(z.at, z) <= LocalDateOf(j, z)
    BY <1>1, <2>1, QuotientsKeepOrder DEF LocalDateOf
  <2>4. LocalDateOf(z.at - 1, z) <= LocalDateOf(z.at, z)
    BY DEF DatesNeverGoBack
  <2>5. /\ LocalDateOf(z.at - 1, z) \in Int /\ LocalDateOf(z.at, z) \in Int
        /\ LocalDateOf(j, z) \in Int
    BY <1>1 DEF LocalDateOf
  <2> QED BY <1>2, <2>2, <2>3, <2>4, <2>5
<1>4. CASE ~(i < z.at /\ j >= z.at)
  <2>1. WallClock(i, z) <= WallClock(j, z)
    BY <1>4 DEF WallClock
  <2> QED BY <1>1, <1>2, <2>1, QuotientsKeepOrder DEF LocalDateOf
<1> QED BY <1>3, <1>4

\* At its cutoff a day is over.
LEMMA TheCutoffIsAfterTheDay ==
    ASSUME NEW z \in Zones, NEW d \in Int
    PROVE  EndOfLocalDay(d, z) \in Int /\ d < LocalDateOf(EndOfLocalDay(d, z), z)
<1> USE HistoryAssumption, DayLengthAssumption
<1> DEFINE w == (d + 1) * DayLength
<1>1. w \in Int
  OBVIOUS
<1>2. InstantOf(w, z) \in Int /\ w <= WallClock(InstantOf(w, z), z) /\ WallClock(InstantOf(w, z), z) \in Int
  <2> HIDE DEF w
  <2> QED BY <1>1 DEF InstantOf, WallClock
<1>3. d + 1 <= WallClock(InstantOf(w, z), z) \div DayLength
  BY <1>2, QuotientOfAProduct
<1> QED BY <1>2, <1>3 DEF EndOfLocalDay, LocalDayStart, LocalDateOf

--------------------------------------------------------------------------------
(* What a baseline looks at *)

LEMMA CandidatesAreEarlier ==
    ASSUME NEW target \in Int \X Int, NEW k \in CandidateKeys(target)
    PROVE  k \in Int \X Int /\ k[1] < target[1]
<1>1. PICK d \in EligibleStays(target[2]) : k = <<d - (target[2] - target[1]), d>>
  BY DEF CandidateKeys
<1>2. d \in Int /\ d < target[2]
  BY HistoryAssumption DEF EligibleStays
<1> QED BY <1>1, <1>2

LEMMA TheNewestAreAmong ==
    ASSUME NEW n, NEW keys
    PROVE  Newest(n, keys) \subseteq keys
BY DEF Newest

LEMMA TheChosenAreAmong ==
    ASSUME NEW observed, NEW approximate, NEW min, NEW max
    PROVE  ObservedFirst(observed, approximate, min, max) \subseteq observed \cup approximate
<1>1. \A n, keys : Newest(n, keys) \subseteq keys
  BY TheNewestAreAmong
<1> QED BY <1>1, Zenon DEF ObservedFirst

LEMMA ComparablesAreCandidates ==
    ASSUME NEW target, NEW rows
    PROVE  ComputeExpected(target, rows).selection.comparables
             \subseteq CandidateKeys(target) \cap DOMAIN rows
<1> DEFINE found == CandidateKeys(target) \cap DOMAIN rows
           clean == {k \in found : rows[k].uncertain = 0}
           Of(o) == {k \in clean : rows[k].origin = o}
<1>1. ComputeExpected(target, rows).selection = SelectComparables(target, rows)
  BY DEF ComputeExpected
<1>2. SelectComparables(target, rows).comparables
        = ObservedFirst(Of(Observed), Of(Reconstructed), MinSample, MaxSample)
  BY DEF SelectComparables
<1>3. Of(Observed) \cup Of(Reconstructed) \subseteq found
  OBVIOUS
<1> QED BY <1>1, <1>2, <1>3, TheChosenAreAmong

\* Two histories that agree on the candidates of a target give it the same baseline.
LEMMA OnlyCandidatesCount ==
    ASSUME NEW target, NEW rows, NEW others,
           \A k \in CandidateKeys(target) :
              /\ k \in DOMAIN rows <=> k \in DOMAIN others
              /\ k \in DOMAIN rows => rows[k] = others[k]
    PROVE  ComputeExpected(target, rows) = ComputeExpected(target, others)
<1> DEFINE found == CandidateKeys(target) \cap DOMAIN rows
           Of(o) == {k \in {k \in found : rows[k].uncertain = 0} : rows[k].origin = o}
           foundToo == CandidateKeys(target) \cap DOMAIN others
           OfToo(o) == {k \in {k \in foundToo : others[k].uncertain = 0} : others[k].origin = o}
<1>1. found = foundToo /\ \A k \in found : rows[k] = others[k]
  OBVIOUS
<1>2. {k \in found : rows[k].uncertain = 0} = {k \in foundToo : others[k].uncertain = 0}
  BY <1>1
<1>3. Of(Observed) = OfToo(Observed) /\ Of(Reconstructed) = OfToo(Reconstructed)
  BY <1>1, <1>2
<1>4. SelectComparables(target, rows) = SelectComparables(target, others)
  BY <1>1, <1>2, <1>3, Zenon DEF SelectComparables
<1>5. SelectComparables(target, rows).comparables \subseteq found
  BY ComparablesAreCandidates DEF ComputeExpected
<1>6. [k \in SelectComparables(target, rows).comparables |-> rows[k].rooms]
        = [k \in SelectComparables(target, others).comparables |-> others[k].rooms]
  BY <1>1, <1>4, <1>5
<1> QED BY <1>4, <1>6, Zenon DEF ComputeExpected

--------------------------------------------------------------------------------
(* What the signals of a target look at *)

\* A set of stored keys that are all older than the target.
Older(keys, target) == \A k \in keys : k \in DOMAIN snapshots /\ k[1] < target[1]

\* Until its day ends, a target is known with everything stored before it.
LEMMA KnownBefore ==
    ASSUME NEW target \in DOMAIN snapshots
    PROVE  /\ target \in DOMAIN KnownTo(target) /\ KnownTo(target)[target] = snapshots[target]
           /\ DOMAIN KnownTo(target) \subseteq DOMAIN snapshots
           /\ \A k : k[1] < target[1] =>
                /\ k \in DOMAIN snapshots <=> k \in DOMAIN KnownTo(target)
                /\ k \in DOMAIN snapshots => KnownTo(target)[k] = snapshots[k]
BY DEF KnownTo

\* The pairs chosen for a target are those that were known to it: only the
\* counts of what was left out tell when they are made.
LEMMA PairsAreKnown ==
    ASSUME NEW target \in DOMAIN snapshots, NEW other,
           \A k \in DOMAIN other : k \in DOMAIN snapshots /\ k[1] < target[1]
    PROVE  LET now_ == SelectPairs(target, other, snapshots)
               then == SelectPairs(target, other, KnownTo(target))
           IN  /\ now_.anchors = then.anchors
               /\ now_.observed = then.observed
               /\ now_.approximate = then.approximate
               /\ \A k \in now_.anchors : /\ k \in DOMAIN other
                                          /\ other[k] \in DOMAIN snapshots
                                          /\ other[k][1] < target[1]
<1> DEFINE rows == KnownTo(target)
           anchors == DOMAIN other
           known(r) == {k \in {k \in anchors : other[k] \in DOMAIN r} : KnownAtTarget(target, k, other[k])}
           clean(r) == {k \in known(r) : r[k].uncertain = 0 /\ r[other[k]].uncertain = 0}
           Exact(r) == {k \in clean(r) : r[k].origin = Observed /\ r[other[k]].origin = Observed}
           chosen(r) == ObservedFirst(Exact(r), clean(r) \ Exact(r), MinPairs, MaxPairs)
<1>1. known(snapshots) = known(rows)
  BY KnownBefore DEF KnownAtTarget
<1>2. \A k \in known(rows) : /\ rows[k] = snapshots[k] /\ rows[other[k]] = snapshots[other[k]]
                             /\ k \in DOMAIN other /\ other[k] \in DOMAIN snapshots
                             /\ other[k][1] < target[1]
  BY KnownBefore DEF KnownAtTarget
<1>3. clean(snapshots) = clean(rows)
  BY <1>1, <1>2
<1>4. Exact(snapshots) = Exact(rows)
  BY <1>2, <1>3
<1>5. chosen(snapshots) = chosen(rows)
  BY <1>3, <1>4
<1>6. chosen(rows) \subseteq known(rows)
  <2>1. chosen(rows) \subseteq Exact(rows) \cup (clean(rows) \ Exact(rows))
    BY TheChosenAreAmong
  <2> QED BY <2>1
<1>7. ASSUME NEW r
      PROVE  /\ SelectPairs(target, other, r).anchors = chosen(r)
             /\ SelectPairs(target, other, r).observed = Cardinality(chosen(r) \cap Exact(r))
             /\ SelectPairs(target, other, r).approximate = Cardinality(chosen(r) \ Exact(r))
  BY DEF SelectPairs
<1>8. chosen(snapshots) \cap Exact(snapshots) = chosen(rows) \cap Exact(rows)
      /\ chosen(snapshots) \ Exact(snapshots) = chosen(rows) \ Exact(rows)
  BY <1>4, <1>5
<1>9. \A k \in chosen(snapshots) : /\ k \in DOMAIN other
                                   /\ other[k] \in DOMAIN snapshots /\ other[k][1] < target[1]
  BY <1>2, <1>5, <1>6
<1> HIDE DEF known, clean, Exact, chosen, rows
<1>10. /\ SelectPairs(target, other, snapshots).anchors = chosen(snapshots)
       /\ SelectPairs(target, other, snapshots).observed
            = Cardinality(chosen(snapshots) \cap Exact(snapshots))
       /\ SelectPairs(target, other, snapshots).approximate
            = Cardinality(chosen(snapshots) \ Exact(snapshots))
  BY <1>7
<1>11. /\ SelectPairs(target, other, rows).anchors = chosen(rows)
       /\ SelectPairs(target, other, rows).observed = Cardinality(chosen(rows) \cap Exact(rows))
       /\ SelectPairs(target, other, rows).approximate = Cardinality(chosen(rows) \ Exact(rows))
  BY <1>7
<1> QED BY <1>5, <1>8, <1>9, <1>10, <1>11, Zenon DEF rows

\* Two selections of pairs that differ in nothing but what they left out.
SamePairs(pairs, others) ==
  /\ pairs.anchors = others.anchors
  /\ pairs.observed = others.observed /\ pairs.approximate = others.approximate

LEMMA ReferenceIsKnown ==
    ASSUME NEW target \in DOMAIN snapshots, NEW adr, NEW keys, Older(keys, target)
    PROVE  ReferenceAdr(adr, keys, snapshots) = ReferenceAdr(adr, keys, KnownTo(target))
<1> DEFINE Rate(r, k) == IF r[k].adr = NoNumber THEN 0 ELSE r[k].adr
           usable(r)  == {k \in keys : Rate(r, k) > 0}
<1>1. \A k \in keys : Rate(snapshots, k) = Rate(KnownTo(target), k)
  BY KnownBefore DEF Older
<1>2. usable(snapshots) = usable(KnownTo(target))
  BY <1>1
<1>3. [k \in usable(snapshots) |-> Rate(snapshots, k)]
        = [k \in usable(KnownTo(target)) |-> Rate(KnownTo(target), k)]
  BY <1>1, <1>2
<1> QED BY <1>2, <1>3, Zenon DEF ReferenceAdr

LEMMA PickupIsKnown ==
    ASSUME NEW target \in DOMAIN snapshots, target \in Int \X Int,
           NEW row, NEW baseline, NEW reference, NEW pairs, NEW others, SamePairs(pairs, others),
           Older(pairs.anchors, target), Older({PriorKey(k) : k \in pairs.anchors}, target)
    PROVE  EvaluatePickup(target, row, baseline, pairs, reference, snapshots)
             = EvaluatePickup(target, row, baseline, others, reference, KnownTo(target))
<1> DEFINE rows == KnownTo(target)
           prior == PriorKey(target)
<1>1. \A k \in pairs.anchors : /\ snapshots[k] = rows[k]
                               /\ snapshots[PriorKey(k)] = rows[PriorKey(k)]
  BY KnownBefore DEF Older
<1>2. Summarize([k \in pairs.anchors |-> snapshots[k].rooms - snapshots[PriorKey(k)].rooms])
        = Summarize([k \in others.anchors |-> rows[k].rooms - rows[PriorKey(k)].rooms])
  <2>1. [k \in pairs.anchors |-> snapshots[k].rooms - snapshots[PriorKey(k)].rooms]
          = [k \in others.anchors |-> rows[k].rooms - rows[PriorKey(k)].rooms]
    BY <1>1 DEF SamePairs
  <2> QED BY <2>1
<1>3. \A s : PatternConfidence(pairs, s) = PatternConfidence(others, s)
  BY DEF PatternConfidence, SamePairs
<1>4. prior[1] < target[1]
  BY HistoryAssumption DEF PriorKey
<1>5. /\ prior \in DOMAIN snapshots <=> prior \in DOMAIN rows
      /\ prior \in DOMAIN snapshots => snapshots[prior] = rows[prior]
  BY <1>4, KnownBefore
<1>6. pairs.anchors = others.anchors
  BY DEF SamePairs
<1> HIDE DEF rows, prior
<1>7. CASE prior \in DOMAIN snapshots
  <2>1. prior \in DOMAIN rows /\ snapshots[prior] = rows[prior]
    BY <1>5, <1>7
  <2> QED BY <1>2, <1>3, <1>6, <1>7, <2>1, Zenon DEF EvaluatePickup, prior, rows
<1>8. CASE prior \notin DOMAIN snapshots
  <2>1. prior \notin DOMAIN rows
    BY <1>5, <1>8
  <2> QED BY <1>8, <2>1, Zenon DEF EvaluatePickup, prior, rows
<1> QED BY <1>7, <1>8

LEMMA OccupancyIsKnown ==
    ASSUME NEW target \in DOMAIN snapshots,
           NEW row, NEW baseline, NEW reference, NEW pairs, NEW others, SamePairs(pairs, others),
           Older(pairs.anchors, target), Older({FinalKey(k) : k \in pairs.anchors}, target)
    PROVE  EvaluateOccupancy(target, row, baseline, pairs, reference, snapshots)
             = EvaluateOccupancy(target, row, baseline, others, reference, KnownTo(target))
<1> DEFINE rows == KnownTo(target)
<1>1. \A k \in pairs.anchors : /\ snapshots[k] = rows[k]
                               /\ snapshots[FinalKey(k)] = rows[FinalKey(k)]
  BY KnownBefore DEF Older
<1>2. Summarize([k \in pairs.anchors |-> snapshots[FinalKey(k)].rooms - snapshots[k].rooms])
        = Summarize([k \in others.anchors |-> rows[FinalKey(k)].rooms - rows[k].rooms])
  <2>1. [k \in pairs.anchors |-> snapshots[FinalKey(k)].rooms - snapshots[k].rooms]
          = [k \in others.anchors |-> rows[FinalKey(k)].rooms - rows[k].rooms]
    BY <1>1 DEF SamePairs
  <2> QED BY <2>1
<1>3. Median([k \in pairs.anchors |-> snapshots[FinalKey(k)].rooms])
        = Median([k \in others.anchors |-> rows[FinalKey(k)].rooms])
  <2>1. [k \in pairs.anchors |-> snapshots[FinalKey(k)].rooms]
          = [k \in others.anchors |-> rows[FinalKey(k)].rooms]
    BY <1>1 DEF SamePairs
  <2> QED BY <2>1
<1>4. \A s : PatternConfidence(pairs, s) = PatternConfidence(others, s)
  BY DEF PatternConfidence, SamePairs
<1>5. pairs.anchors = others.anchors
  BY DEF SamePairs
<1> QED BY <1>2, <1>3, <1>4, <1>5, Zenon DEF EvaluateOccupancy

\* The signals of a target whose comparables are older are those it had when its day ended.
LEMMA SignalsAreKnown ==
    ASSUME NEW target \in DOMAIN snapshots, target \in Int \X Int,
           target \in DOMAIN baselines => Older(baselines[target].selection.comparables, target)
    PROVE  Signals(target, snapshots, baselines) = Signals(target, KnownTo(target), baselines)
<1> DEFINE rows == KnownTo(target)
           baseline == IF target \in DOMAIN baselines THEN baselines[target]
                       ELSE [status |-> "MISSING", confidence |-> 0,
                             selection |-> [comparables |-> {}]]
           comparables == baseline.selection.comparables
           anchors == IF baseline.status = "READY" THEN comparables ELSE {}
           reference(r) == ReferenceAdr(r[target].adr, comparables, r)
           prior(r) == SelectPairs(target, PriorOf(anchors), r)
           final(r) == SelectPairs(target, FinalOf(anchors), r)
<1>1. Older(comparables, target) /\ Older(anchors, target)
  BY DEF Older
<1>2. snapshots[target] = rows[target]
  BY KnownBefore
<1>3. reference(snapshots) = reference(rows)
  BY <1>1, <1>2, ReferenceIsKnown
<1> HIDE DEF baseline, comparables, anchors
<1>4. /\ DOMAIN PriorOf(anchors) = anchors /\ \A k \in anchors : PriorOf(anchors)[k] = PriorKey(k)
      /\ DOMAIN FinalOf(anchors) = anchors /\ \A k \in anchors : FinalOf(anchors)[k] = FinalKey(k)
  BY DEF PriorOf, FinalOf
<1>5. /\ SamePairs(prior(snapshots), prior(rows))
      /\ Older(prior(snapshots).anchors, target)
      /\ Older({PriorKey(k) : k \in prior(snapshots).anchors}, target)
  BY <1>1, <1>4, PairsAreKnown DEF Older, SamePairs
<1>6. /\ SamePairs(final(snapshots), final(rows))
      /\ Older(final(snapshots).anchors, target)
      /\ Older({FinalKey(k) : k \in final(snapshots).anchors}, target)
  BY <1>1, <1>4, PairsAreKnown DEF Older, SamePairs
<1>7. EvaluatePickup(target, snapshots[target], baseline, prior(snapshots), reference(snapshots), snapshots)
        = EvaluatePickup(target, rows[target], baseline, prior(rows), reference(rows), rows)
  BY <1>2, <1>3, <1>5, PickupIsKnown
<1>8. EvaluateOccupancy(target, snapshots[target], baseline, final(snapshots), reference(snapshots), snapshots)
        = EvaluateOccupancy(target, rows[target], baseline, final(rows), reference(rows), rows)
  BY <1>2, <1>3, <1>6, OccupancyIsKnown
<1> QED BY <1>7, <1>8, Zenon DEF Signals, baseline, comparables, anchors

--------------------------------------------------------------------------------
(* Storing *)

LEMMA StoreOnlyAdds ==
    ASSUME NEW rows
    PROVE  /\ DOMAIN snapshots \subseteq DOMAIN Store(rows)
           /\ \A k \in DOMAIN snapshots : Store(rows)[k] = snapshots[k]
           /\ \A k \in DOMAIN Store(rows) \ DOMAIN snapshots :
                k \in DOMAIN rows /\ Store(rows)[k] = rows[k]
<1> DEFINE skipped(k) == snapshots[k].origin = Observed /\ rows[k].origin # Observed
           conflicts  == {k \in DOMAIN rows \cap DOMAIN snapshots :
                            ~ skipped(k) /\ ContentOf(rows[k]) # ContentOf(snapshots[k])}
<1>1. CASE conflicts # {}
  <2>1. Store(rows) = snapshots
    BY <1>1 DEF Store
  <2> QED BY <2>1
<1>2. CASE conflicts = {}
  <2>1. Store(rows) = [k \in DOMAIN snapshots \cup DOMAIN rows |->
                         IF k \in DOMAIN snapshots THEN snapshots[k] ELSE rows[k]]
    BY <1>2 DEF Store
  <2> QED BY <2>1
<1> QED BY <1>1, <1>2

LEMMA RowsKeepTheirOrigin ==
    ASSUME NEW origin, NEW totals, NEW rooms, NEW asOf
    PROVE  Row(NT!BuildContent(origin, totals, rooms), asOf).origin = origin
BY DEF Row, NT!BuildContent

--------------------------------------------------------------------------------
(* The invariant *)

\* Snapshots are kept under days; a baseline is of a day that has come and compares its target
\* with older stored keys only.
IInv ==
  /\ zone \in Zones /\ now \in Int
  /\ DOMAIN snapshots \subseteq Int \X Int
  /\ ReconstructionIsOfThePast
  /\ \A t \in DOMAIN baselines :
       /\ t \in Int \X Int /\ t[1] <= Today
       /\ baselines[t].selection.comparables \subseteq CandidateKeys(t) \cap DOMAIN snapshots

LEMMA KeysOfARange ==
    ASSUME NEW first \in Int, NEW last \in Int
    PROVE  (first .. last) \X Nights \subseteq Int \X Int
<1>1. Nights \subseteq Int
  BY HistoryAssumption
<1>2. \A d \in first .. last : d \in Int
  OBVIOUS
<1>3. \A days : (\A d \in days : d \in Int) => days \X Nights \subseteq Int \X Int
  BY <1>1, Zenon
<1> QED BY <1>2, <1>3, Zenon

LEMMA InitIInv == Init => IInv
<1> SUFFICES ASSUME Init PROVE IInv
  OBVIOUS
<1>1. DOMAIN snapshots = {} /\ DOMAIN baselines = {} /\ now = 0 /\ zone \in Zones
  BY DEF Init
<1> QED BY <1>1 DEF IInv, ReconstructionIsOfThePast, ReconstructedKeys

\* Storing rows of numbered days, the reconstructed ones of days that are over.
LEMMA StoringKeepsIInv ==
    ASSUME IInv, NEW rows, snapshots' = Store(rows), UNCHANGED <<zone, now, baselines>>,
           DOMAIN rows \subseteq Int \X Int,
           \A k \in DOMAIN rows : rows[k].origin = Reconstructed => k[1] < Today
    PROVE  IInv'
<1>1. DOMAIN snapshots' \subseteq Int \X Int /\ DOMAIN snapshots \subseteq DOMAIN snapshots'
  BY StoreOnlyAdds DEF IInv
<1>2. Today' = Today
  BY DEF Today
<1>3. \A k \in DOMAIN snapshots' : snapshots'[k].origin = Reconstructed => k[1] < Today
  BY StoreOnlyAdds DEF IInv, ReconstructionIsOfThePast, ReconstructedKeys
<1> QED BY <1>1, <1>2, <1>3 DEF IInv, ReconstructionIsOfThePast, ReconstructedKeys

LEMMA NextIInv == IInv /\ [Next]_vars => IInv'
<1> SUFFICES ASSUME IInv, [Next]_vars PROVE IInv'
  OBVIOUS
<1> USE HistoryAssumption
<1>0. Today \in Int
  BY DatesKeepOrder DEF IInv, Today
<1>1. CASE Tick
  <2>1. /\ now' \in Int /\ now <= now' /\ zone' = zone /\ snapshots' = snapshots
        /\ baselines' = baselines
    BY <1>1 DEF Tick, IInv
  <2>2. Today' \in Int /\ Today <= Today'
    BY <2>1, DatesKeepOrder DEF Today, IInv
  <2>3. \A k \in DOMAIN snapshots : snapshots[k].origin = Reconstructed => k[1] < Today'
    BY <1>0, <2>2 DEF IInv, ReconstructionIsOfThePast, ReconstructedKeys
  <2>4. \A t \in DOMAIN baselines : t[1] <= Today'
    BY <1>0, <2>2 DEF IInv
  <2> QED BY <2>1, <2>3, <2>4 DEF IInv, ReconstructionIsOfThePast, ReconstructedKeys
<1>2. CASE Import
  BY <1>2 DEF Import, IInv, Today, ReconstructionIsOfThePast, ReconstructedKeys
<1>3. CASE Observe
  <2> DEFINE rows == [k \in {Today} \X Nights |->
                        Row(NT!BuildContent(Observed, NT!AggregateObserved(Stays, k[2]),
                                            capacity[k[2]]), now)]
  <2>1. snapshots' = Store(rows) /\ UNCHANGED <<zone, now, baselines>>
    BY <1>3 DEF Observe
  <2>2. DOMAIN rows \subseteq Int \X Int
    BY <1>0
  <2>3. \A k \in DOMAIN rows : rows[k].origin # Reconstructed
    BY RowsKeepTheirOrigin DEF Observed, Reconstructed
  <2> HIDE DEF rows
  <2> QED BY <2>1, <2>2, <2>3, StoringKeepsIInv
<1>4. ASSUME NEW r \in Ranges, Reconstruct(r[1], r[2]) PROVE IInv'
  <2> DEFINE first == r[1]
             last  == r[2]
             dates == [k \in 1 .. (last - first + 1) |-> first + k - 1]
             cutoffs == [k \in DOMAIN dates |-> EndOfLocalDay(dates[k], zone)]
             Index(d) == d - first + 1
             rows == [key \in (first .. last) \X Nights |->
                        Row(NT!BuildContent(Reconstructed,
                              NT!AggregateReconstruction(Stays, dates, cutoffs, Index(key[1]), key[2]),
                              capacity[key[2]]), cutoffs[Index(key[1])])]
  <2>1. /\ cutoffs[Len(cutoffs)] <= now
        /\ snapshots' = Store(rows) /\ UNCHANGED <<zone, now, baselines>>
    BY <1>4 DEF Reconstruct
  <2>2. first \in Int /\ last \in Int
    OBVIOUS
  <2>3. DOMAIN rows \subseteq Int \X Int
    <3>1. DOMAIN rows = (first .. last) \X Nights
      OBVIOUS
    <3> HIDE DEF rows, first, last
    <3> QED BY <2>2, <3>1, KeysOfARange
  <2>4. ASSUME NEW k \in DOMAIN rows PROVE k[1] < Today
    <3>1. first <= k[1] /\ k[1] <= last /\ k[1] \in Int
      BY <2>2
    <3>2. Len(cutoffs) = last - first + 1 /\ cutoffs[Len(cutoffs)] = EndOfLocalDay(last, zone)
      BY <2>2, <3>1
    <3>3. EndOfLocalDay(last, zone) \in Int /\ EndOfLocalDay(last, zone) <= now
      BY <2>1, <2>2, <3>2, TheCutoffIsAfterTheDay DEF IInv
    <3>4. last < LocalDateOf(EndOfLocalDay(last, zone), zone)
      BY <2>2, TheCutoffIsAfterTheDay DEF IInv
    <3>5. LocalDateOf(EndOfLocalDay(last, zone), zone) \in Int
          /\ LocalDateOf(EndOfLocalDay(last, zone), zone) <= Today
      BY <3>3, DatesKeepOrder DEF IInv, Today
    <3> QED BY <1>0, <2>2, <3>1, <3>4, <3>5
  <2> HIDE DEF rows
  <2> QED BY <2>1, <2>3, <2>4, StoringKeepsIInv
<1>5. ASSUME NEW day \in 0 .. Today, Calculate(day) PROVE IInv'
  <2> DEFINE targets == TargetsOf(day)
             computed == [k \in targets |-> ComputeExpected(k, snapshots)]
  <2>1. UNCHANGED <<zone, now, snapshots>>
    BY <1>5 DEF Calculate
  <2>2. ASSUME NEW t \in DOMAIN baselines'
        PROVE  \/ t \in DOMAIN baselines /\ baselines'[t] = baselines[t]
               \/ t \in targets /\ baselines'[t] = ComputeExpected(t, snapshots)
    BY <1>5 DEF Calculate
  <2>3. ASSUME NEW t \in targets
        PROVE  t \in Int \X Int /\ t[1] <= Today
    BY <1>0, <1>5 DEF TargetsOf, IInv
  <2>4. \A t \in targets : ComputeExpected(t, snapshots).selection.comparables
                             \subseteq CandidateKeys(t) \cap DOMAIN snapshots
    BY ComparablesAreCandidates
  <2>5. Today' = Today
    BY <2>1 DEF Today
  <2> HIDE DEF targets
  <2>6. \A t \in DOMAIN baselines' :
          /\ t \in Int \X Int /\ t[1] <= Today
          /\ baselines'[t].selection.comparables \subseteq CandidateKeys(t) \cap DOMAIN snapshots
    BY <2>2, <2>3, <2>4 DEF IInv
  <2> QED BY <2>1, <2>5, <2>6 DEF IInv, ReconstructionIsOfThePast, ReconstructedKeys
<1>6. CASE UNCHANGED vars
  BY <1>6 DEF vars, IInv, Today, ReconstructionIsOfThePast, ReconstructedKeys
<1> QED BY <1>1, <1>2, <1>3, <1>4, <1>5, <1>6 DEF Next

THEOREM HistoryIsSound == Spec => []IInv
BY InitIInv, NextIInv, PTL DEF Spec

--------------------------------------------------------------------------------
(* The properties *)

\* A reconstruction only ever speaks of days that are over (reconstruct, which refuses a range
\* whose last cutoff is still to come), whatever the clock changes of the zone.
THEOREM ReconstructionsAreOver == Spec => []ReconstructionIsOfThePast
<1>1. IInv => ReconstructionIsOfThePast
  BY DEF IInv
<1> QED BY <1>1, HistoryIsSound, PTL

\* The comparables of a target and the signals of a target with a stored baseline come from what
\* was stored of earlier days.
LEMMA IInvNoHindsight == IInv => NoHindsight
<1> SUFFICES ASSUME IInv, NEW day \in 0 .. Today, NEW target \in TargetsOf(day)
             PROVE  /\ ComputeExpected(target, snapshots) = ComputeExpected(target, KnownTo(target))
                    /\ Signals(target, snapshots, baselines) = Signals(target, KnownTo(target), baselines)
  BY DEF NoHindsight
<1>1. target \in DOMAIN snapshots /\ target \in Int \X Int
  BY DEF TargetsOf, IInv
<1>2. \A k \in CandidateKeys(target) : k[1] < target[1]
  BY <1>1, CandidatesAreEarlier
<1>3. ComputeExpected(target, snapshots) = ComputeExpected(target, KnownTo(target))
  BY <1>1, <1>2, KnownBefore, OnlyCandidatesCount
<1>4. target \in DOMAIN baselines => Older(baselines[target].selection.comparables, target)
  BY <1>2 DEF IInv, Older
<1> QED BY <1>1, <1>3, <1>4, SignalsAreKnown

\* No baseline and no signal depends on what was observed on the day of its target or later,
\* however late it is calculated (pairing.py, "no temporal leakage, whatever the lead time").
THEOREM NothingIsSeenInHindsight == Spec => []NoHindsight
BY HistoryIsSound, IInvNoHindsight, PTL

\* A run that stores observations of today and reconstructions rewrites nothing, and what a baseline
\* was calculated from changes only by a reconstruction.
LEMMA StoringKeepsEvidence ==
    ASSUME IInv, Today \in Int, NEW rows, snapshots' = Store(rows), baselines' = baselines,
           \A k \in DOMAIN rows : rows[k].origin = Reconstructed \/ k[1] = Today
    PROVE  EvidenceStep
<1>1. \A k \in DOMAIN snapshots : k \in DOMAIN snapshots' /\ snapshots'[k] = snapshots[k]
  BY StoreOnlyAdds
<1>2. \A k \in DOMAIN snapshots' \ DOMAIN snapshots : k \in DOMAIN rows /\ snapshots'[k] = rows[k]
  BY StoreOnlyAdds
<1>3. ASSUME NEW t \in DOMAIN baselines, ReconstructedKeys' = ReconstructedKeys
      PROVE  ComputeExpected(t, snapshots') = ComputeExpected(t, snapshots)
  <2>1. ASSUME NEW c \in CandidateKeys(t), c \in DOMAIN snapshots'
        PROVE  c \in DOMAIN snapshots
    <3>1. t \in Int \X Int /\ t[1] <= Today
      BY DEF IInv
    <3>2. c[1] \in Int /\ c[1] < t[1]
      BY <3>1, CandidatesAreEarlier
    <3>3. c[1] # Today
      BY <3>1, <3>2
    <3>4. ASSUME c \notin DOMAIN snapshots PROVE FALSE
      <4>1. snapshots'[c].origin = Reconstructed
        BY <1>2, <2>1, <3>3, <3>4
      <4>2. c \in ReconstructedKeys' /\ c \notin ReconstructedKeys
        BY <2>1, <3>4, <4>1 DEF ReconstructedKeys
      <4> QED BY <1>3, <4>2
    <3> QED BY <3>4
  <2>2. \A c \in CandidateKeys(t) : /\ c \in DOMAIN snapshots' <=> c \in DOMAIN snapshots
                                    /\ c \in DOMAIN snapshots' => snapshots'[c] = snapshots[c]
    BY <1>1, <2>1
  <2> QED BY <2>2, OnlyCandidatesCount
<1> QED BY <1>1, <1>3 DEF EvidenceStep

LEMMA NextKeepsEvidence == IInv /\ Next => EvidenceStep
<1> SUFFICES ASSUME IInv, Next PROVE EvidenceStep
  OBVIOUS
<1>0. Today \in Int
  BY DatesKeepOrder DEF IInv, Today
<1>1. CASE Tick
  BY <1>1 DEF Tick, EvidenceStep
<1>2. CASE Import
  BY <1>2 DEF Import, EvidenceStep
<1>3. CASE Observe
  <2> DEFINE rows == [k \in {Today} \X Nights |->
                        Row(NT!BuildContent(Observed, NT!AggregateObserved(Stays, k[2]),
                                            capacity[k[2]]), now)]
  <2>1. snapshots' = Store(rows) /\ baselines' = baselines
    BY <1>3 DEF Observe
  <2>2. \A k \in DOMAIN rows : k[1] = Today
    OBVIOUS
  <2> HIDE DEF rows
  <2> QED BY <1>0, <2>1, <2>2, StoringKeepsEvidence
<1>4. ASSUME NEW r \in Ranges, Reconstruct(r[1], r[2]) PROVE EvidenceStep
  <2> DEFINE first == r[1]
             last  == r[2]
             dates == [k \in 1 .. (last - first + 1) |-> first + k - 1]
             cutoffs == [k \in DOMAIN dates |-> EndOfLocalDay(dates[k], zone)]
             Index(d) == d - first + 1
             rows == [key \in (first .. last) \X Nights |->
                        Row(NT!BuildContent(Reconstructed,
                              NT!AggregateReconstruction(Stays, dates, cutoffs, Index(key[1]), key[2]),
                              capacity[key[2]]), cutoffs[Index(key[1])])]
  <2>1. snapshots' = Store(rows) /\ baselines' = baselines
    BY <1>4 DEF Reconstruct
  <2>2. \A k \in DOMAIN rows : rows[k].origin = Reconstructed
    BY RowsKeepTheirOrigin
  <2> HIDE DEF rows
  <2> QED BY <1>0, <2>1, <2>2, StoringKeepsEvidence
<1>5. ASSUME NEW day \in 0 .. Today, Calculate(day) PROVE EvidenceStep
  <2> DEFINE computed == [k \in TargetsOf(day) |-> ComputeExpected(k, snapshots)]
             conflicts == {k \in TargetsOf(day) \cap DOMAIN baselines : baselines[k] # computed[k]}
  <2>1. snapshots' = snapshots
    BY <1>5 DEF Calculate
  <2>2. baselines' = IF conflicts # {} THEN baselines
                     ELSE [k \in DOMAIN baselines \cup TargetsOf(day) |->
                             IF k \in TargetsOf(day) THEN computed[k] ELSE baselines[k]]
    BY <1>5 DEF Calculate
  <2>3. \A k \in DOMAIN baselines : k \in DOMAIN baselines' /\ baselines'[k] = baselines[k]
    BY <2>2
  <2>4. \A k \in DOMAIN baselines : ComputeExpected(k, snapshots') = ComputeExpected(k, snapshots)
    BY <2>1
  <2>5. \A k \in DOMAIN snapshots : k \in DOMAIN snapshots' /\ snapshots'[k] = snapshots[k]
    BY <2>1
  <2> HIDE DEF computed, conflicts
  <2> QED BY <2>3, <2>4, <2>5 DEF EvidenceStep
<1> QED BY <1>1, <1>2, <1>3, <1>4, <1>5 DEF Next

\* What was stored as evidence is never rewritten, by no run and in no order (_store,
\* insert_if_absent, and the conflict that rolls a whole run back).
THEOREM EvidenceIsNeverRewritten == Spec => EvidenceStands
<1>1. IInv /\ [Next]_vars => [EvidenceStep]_vars
  BY NextKeepsEvidence
<1> QED BY <1>1, HistoryIsSound, PTL DEF Spec, EvidenceStands

--------------------------------------------------------------------------------
(* Sums                                                                     *)

\* What holds of 0, and of n + 1 when it holds of n, holds of every number.
LEMMA NumbersFromZero ==
    ASSUME NEW P, 0 \in P, \A n \in Nat : n \in P => n + 1 \in P
    PROVE  Nat \subseteq P
<1> SUFFICES ASSUME Nat \ P # {} PROVE FALSE
  OBVIOUS
<1>1. PICK n \in Nat \ P : \A m \in Nat \ P : ~(<<m, n>> \in OpToRel(<, Nat))
  BY NatLessThanWellFounded, WFMin, Zenon
<1>2. n \in Nat /\ n \notin P /\ n # 0
  BY <1>1
<1>3. n - 1 \in Nat /\ n = (n - 1) + 1
  BY <1>2
<1>4. n - 1 \notin P
  BY <1>2, <1>3
<1>5. <<n - 1, n>> \in OpToRel(<, Nat)
  BY <1>2, <1>3 DEF OpToRel
<1> QED BY <1>1, <1>3, <1>4, <1>5

\* The booking a sum takes first.
First(set) == CHOOSE x \in set : TRUE

\* g adds up the rooms of each of the sets, as MapThenSumSet does.
IsSum(g, t, sets) ==
  g = [s \in sets |-> IF s = {} THEN 0 ELSE t[First(s)].rooms + g[s \ {First(s)}]]

RoomsOf(t, S) == (CHOOSE g : IsSum(g, t, SUBSET S))[S]

UpTo(S, n) == {s \in SUBSET S : Cardinality(s) <= n}

\* A set without its first element.
LEMMA WithoutTheFirst ==
    ASSUME NEW S, IsFiniteSet(S), S # {}
    PROVE  /\ First(S) \in S /\ IsFiniteSet(S \ {First(S)})
           /\ Cardinality(S) \in Nat \ {0}
           /\ Cardinality(S \ {First(S)}) = Cardinality(S) - 1
<1>1. First(S) \in S
  BY DEF First
<1>2. Cardinality(S) \in Nat /\ Cardinality(S) # 0
  BY FS_CardinalityType, FS_EmptySet
<1> QED BY <1>1, <1>2, FS_RemoveElement

LEMMA SumsExist ==
    ASSUME NEW t, NEW S, IsFiniteSet(S)
    PROVE  \E g : IsSum(g, t, SUBSET S)
<1> DEFINE P == {n \in Nat : \E g : IsSum(g, t, UpTo(S, n))}
<1>0. \A s \in SUBSET S : IsFiniteSet(s) /\ Cardinality(s) \in Nat /\ Cardinality(s) <= Cardinality(S)
  BY FS_Subset, FS_CardinalityType
<1>1. 0 \in P
  <2>1. \A s \in UpTo(S, 0) : s = {}
    BY <1>0, FS_EmptySet DEF UpTo
  <2>2. IsSum([s \in UpTo(S, 0) |-> 0], t, UpTo(S, 0))
    BY <2>1 DEF IsSum
  <2> QED BY <2>2
<1>2. ASSUME NEW n \in Nat, n \in P PROVE n + 1 \in P
  <2>1. PICK g : IsSum(g, t, UpTo(S, n))
    BY <1>2
  <2> DEFINE h == [s \in UpTo(S, n + 1) |->
                     IF s \in UpTo(S, n) THEN g[s]
                     ELSE t[First(s)].rooms + g[s \ {First(s)}]]
  <2>2. ASSUME NEW s \in UpTo(S, n + 1), s # {}
        PROVE  s \ {First(s)} \in UpTo(S, n)
    <3>1. /\ IsFiniteSet(s) /\ s \subseteq S /\ Cardinality(s) \in Nat
          /\ Cardinality(s) <= n + 1
      BY <1>0, <2>2 DEF UpTo
    <3>2. Cardinality(s \ {First(s)}) = Cardinality(s) - 1
      BY <2>2, <3>1, WithoutTheFirst
    <3> QED BY <3>1, <3>2 DEF UpTo
  <2>3. {} \in UpTo(S, n) /\ UpTo(S, n) \subseteq UpTo(S, n + 1)
    BY <1>0, FS_EmptySet DEF UpTo
  <2>4. \A s \in UpTo(S, n + 1) :
          h[s] = IF s = {} THEN 0 ELSE t[First(s)].rooms + h[s \ {First(s)}]
    <3> TAKE s \in UpTo(S, n + 1)
    <3>1. \A r \in UpTo(S, n) : h[r] = g[r]
      BY <2>3, Zenon
    <3>2. \A r \in UpTo(S, n) : g[r] = IF r = {} THEN 0 ELSE t[First(r)].rooms + g[r \ {First(r)}]
      BY <2>1 DEF IsSum
    <3>3. CASE s \in UpTo(S, n)
      <4> HIDE DEF h
      <4> QED BY <2>2, <3>1, <3>2, <3>3
    <3>4. CASE s \notin UpTo(S, n)
      <4>1. s # {} /\ h[s] = t[First(s)].rooms + g[s \ {First(s)}]
        BY <2>3, <3>4
      <4> HIDE DEF h
      <4> QED BY <2>2, <3>1, <4>1
    <3> QED BY <3>3, <3>4
  <2>5. h = [s \in UpTo(S, n + 1) |-> h[s]]
    OBVIOUS
  <2> HIDE DEF h
  <2>6. h = [s \in UpTo(S, n + 1) |-> IF s = {} THEN 0 ELSE t[First(s)].rooms + h[s \ {First(s)}]]
    BY <2>4, <2>5, Zenon
  <2>7. IsSum(h, t, UpTo(S, n + 1))
    BY <2>6 DEF IsSum
  <2> QED BY <2>7
<1> HIDE DEF P
<1>3. Nat \subseteq P
  BY <1>1, <1>2, NumbersFromZero
<1>4. UpTo(S, Cardinality(S)) = SUBSET S
  BY <1>0 DEF UpTo
<1>5. \E g : IsSum(g, t, UpTo(S, Cardinality(S)))
  BY <1>3, FS_CardinalityType DEF P
<1> QED BY <1>4, <1>5

\* The sum over a part of S within the sum over S.
LEMMA SumsAreTheirParts ==
    ASSUME NEW t
    PROVE  \A S, s : IsFiniteSet(S) /\ s \subseteq S =>
             (CHOOSE g : IsSum(g, t, SUBSET S))[s] = RoomsOf(t, s)
<1> DEFINE G(S) == CHOOSE g : IsSum(g, t, SUBSET S)
           P == {n \in Nat : \A S, s : IsFiniteSet(S) /\ s \subseteq S /\ Cardinality(s) = n =>
                                         G(S)[s] = RoomsOf(t, s)}
<1>1. \A S : IsFiniteSet(S) => IsSum(G(S), t, SUBSET S)
  BY SumsExist
<1>2. \A s : G(s)[s] = RoomsOf(t, s)
  BY DEF RoomsOf
<1> HIDE DEF G
<1>3. \A S, s : IsFiniteSet(S) /\ s \subseteq S =>
        G(S)[s] = IF s = {} THEN 0 ELSE t[First(s)].rooms + G(S)[s \ {First(s)}]
  BY <1>1 DEF IsSum
<1>4. 0 \in P
  <2>1. ASSUME NEW S, NEW s, IsFiniteSet(S), s \subseteq S, Cardinality(s) = 0
        PROVE  G(S)[s] = RoomsOf(t, s)
    <3>1. IsFiniteSet(s) /\ s = {}
      BY <2>1, FS_Subset, FS_EmptySet
    <3>2. G(S)[s] = 0 /\ G(s)[s] = 0
      BY <1>3, <2>1, <3>1
    <3> QED BY <1>2, <3>2
  <2> QED BY <2>1
<1>5. ASSUME NEW n \in Nat, n \in P PROVE n + 1 \in P
  <2>1. ASSUME NEW S, NEW s, IsFiniteSet(S), s \subseteq S, Cardinality(s) = n + 1
        PROVE  G(S)[s] = RoomsOf(t, s)
    <3> DEFINE r == s \ {First(s)}
    <3>1. IsFiniteSet(s) /\ s # {}
      BY <2>1, FS_Subset, FS_EmptySet
    <3>2. r \subseteq s /\ r \subseteq S /\ Cardinality(r) = n
      BY <2>1, <3>1, WithoutTheFirst
    <3>3. G(S)[r] = RoomsOf(t, r) /\ G(s)[r] = RoomsOf(t, r)
      BY <1>5, <2>1, <3>1, <3>2
    <3>4. G(S)[s] = t[First(s)].rooms + G(S)[r] /\ G(s)[s] = t[First(s)].rooms + G(s)[r]
      BY <1>3, <2>1, <3>1
    <3> QED BY <1>2, <3>3, <3>4
  <2> QED BY <2>1
<1> HIDE DEF P
<1>6. Nat \subseteq P
  BY <1>4, <1>5, NumbersFromZero
<1> QED BY <1>6, FS_Subset, FS_CardinalityType DEF P, G

LEMMA RoomsOfASet ==
    ASSUME NEW t, NEW S, IsFiniteSet(S)
    PROVE  RoomsOf(t, S) = IF S = {} THEN 0
                           ELSE t[First(S)].rooms + RoomsOf(t, S \ {First(S)})
<1> DEFINE g == CHOOSE g : IsSum(g, t, SUBSET S)
<1>1. IsSum(g, t, SUBSET S)
  BY SumsExist
<1>2. g[S] = RoomsOf(t, S) /\ g[S \ {First(S)}] = RoomsOf(t, S \ {First(S)})
  BY SumsAreTheirParts DEF RoomsOf
<1> HIDE DEF g
<1>3. g[S] = IF S = {} THEN 0 ELSE t[First(S)].rooms + g[S \ {First(S)}]
  BY <1>1 DEF IsSum
<1> QED BY <1>2, <1>3

LEMMA NothingIsNoRooms == \A t : IsFiniteSet({}) /\ Cardinality({}) = 0 /\ RoomsOf(t, {}) = 0
BY FS_EmptySet, RoomsOfASet

\* One more booking.
LEMMA OneMoreBooking ==
    ASSUME NEW t
    PROVE  \A A, x : /\ IsFiniteSet(A) /\ x \notin A
                     /\ \A b \in A \cup {x} : t[b].rooms \in Nat
                     => /\ RoomsOf(t, A) \in Nat
                        /\ RoomsOf(t, A \cup {x}) = t[x].rooms + RoomsOf(t, A)
<1> DEFINE Numbered(S) == IsFiniteSet(S) /\ \A b \in S : t[b].rooms \in Nat
           Whole == {n \in Nat : \A S : Numbered(S) /\ Cardinality(S) = n => RoomsOf(t, S) \in Nat}
           P == {n \in Nat : \A A, x : /\ Numbered(A \cup {x}) /\ x \notin A
                                       /\ Cardinality(A) = n
                                       => RoomsOf(t, A \cup {x}) = t[x].rooms + RoomsOf(t, A)}
<1>1. \A S : Numbered(S) => RoomsOf(t, S) \in Nat
  <2>1. 0 \in Whole
    <3>1. \A S : Numbered(S) /\ Cardinality(S) = 0 => S = {}
      BY FS_EmptySet
    <3> QED BY <3>1, NothingIsNoRooms
  <2>2. ASSUME NEW n \in Nat, n \in Whole PROVE n + 1 \in Whole
    <3>1. ASSUME NEW S, Numbered(S), Cardinality(S) = n + 1 PROVE RoomsOf(t, S) \in Nat
      <4>1. S # {}
        BY <3>1, FS_EmptySet
      <4>2. Numbered(S \ {First(S)}) /\ Cardinality(S \ {First(S)}) = n /\ First(S) \in S
        BY <3>1, <4>1, WithoutTheFirst
      <4>3. RoomsOf(t, S \ {First(S)}) \in Nat
        BY <2>2, <4>2
      <4>4. t[First(S)].rooms \in Nat
        BY <3>1, <4>2
      <4> QED BY <3>1, <4>1, <4>3, <4>4, RoomsOfASet
    <3> QED BY <3>1
  <2> HIDE DEF Whole
  <2>3. Nat \subseteq Whole
    BY <2>1, <2>2, NumbersFromZero
  <2> QED BY <2>3, FS_CardinalityType DEF Whole
<1>2. 0 \in P
  <2>1. ASSUME NEW A, NEW x, Numbered(A \cup {x}), x \notin A, Cardinality(A) = 0
        PROVE  RoomsOf(t, A \cup {x}) = t[x].rooms + RoomsOf(t, A)
    <3>1. IsFiniteSet(A)
      BY <2>1, FS_Subset
    <3>2. A = {}
      BY <2>1, <3>1, FS_EmptySet
    <3>3. First({x}) = x /\ {x} \ {x} = {} /\ {x} # {}
      BY DEF First
    <3>4. IsFiniteSet({x}) /\ IsFiniteSet({})
      BY FS_EmptySet, FS_Singleton
    <3>5. RoomsOf(t, {x}) = t[x].rooms + RoomsOf(t, {})
      BY <3>3, <3>4, RoomsOfASet
    <3> QED BY <3>2, <3>5
  <2> QED BY <2>1
<1>3. ASSUME NEW n \in Nat, n \in P PROVE n + 1 \in P
  <2>1. ASSUME NEW A, NEW x, Numbered(A \cup {x}), x \notin A, Cardinality(A) = n + 1
        PROVE  RoomsOf(t, A \cup {x}) = t[x].rooms + RoomsOf(t, A)
    <3> DEFINE S == A \cup {x}
               c == First(S)
               B == A \ {c}
    <3>1. IsFiniteSet(A) /\ IsFiniteSet(S) /\ S # {} /\ c \in S
      BY <2>1, FS_Subset, WithoutTheFirst
    <3>2. RoomsOf(t, S) = t[c].rooms + RoomsOf(t, S \ {c})
      BY <3>1, RoomsOfASet
    <3>3. CASE c = x
      <4>1. S \ {c} = A
        BY <2>1, <3>3
      <4> QED BY <3>2, <3>3, <4>1
    <3>4. CASE c # x
      <4>1. c \in A /\ S \ {c} = B \cup {x} /\ A = B \cup {c} /\ c \notin B /\ x \notin B
        BY <2>1, <3>1, <3>4
      <4>2. Cardinality(B) = n
        <5> HIDE DEF c
        <5>1. c \in A
          BY <4>1
        <5>2. Cardinality(A \ {c}) = Cardinality(A) - 1
          BY <3>1, <5>1, FS_RemoveElement
        <5> QED BY <2>1, <5>2
      <4>3. Numbered(B \cup {x}) /\ Numbered(B \cup {c}) /\ Numbered(B)
        BY <2>1, <3>1, <4>1, FS_Subset
      <4> HIDE DEF c, B
      <4>4. /\ RoomsOf(t, B \cup {x}) = t[x].rooms + RoomsOf(t, B)
            /\ RoomsOf(t, B \cup {c}) = t[c].rooms + RoomsOf(t, B)
        BY <1>3, <4>1, <4>2, <4>3
      <4>5. RoomsOf(t, B) \in Nat /\ t[x].rooms \in Nat /\ t[c].rooms \in Nat
        BY <1>1, <2>1, <4>1, <4>3
      <4>6. RoomsOf(t, S) = t[c].rooms + (t[x].rooms + RoomsOf(t, B))
        BY <3>2, <4>1, <4>4
      <4>7. RoomsOf(t, A) = t[c].rooms + RoomsOf(t, B)
        BY <4>1, <4>4
      <4> QED BY <4>5, <4>6, <4>7
    <3> QED BY <3>3, <3>4
  <2> QED BY <2>1
<1> HIDE DEF P
<1>4. Nat \subseteq P
  BY <1>2, <1>3, NumbersFromZero
<1> SUFFICES ASSUME NEW A, NEW x, IsFiniteSet(A), x \notin A,
                    \A b \in A \cup {x} : t[b].rooms \in Nat
             PROVE  /\ RoomsOf(t, A) \in Nat
                    /\ RoomsOf(t, A \cup {x}) = t[x].rooms + RoomsOf(t, A)
  OBVIOUS
<1>5. Numbered(A \cup {x}) /\ Numbered(A)
  BY FS_AddElement
<1>6. Cardinality(A) \in P
  BY <1>4, FS_CardinalityType
<1> QED BY <1>1, <1>5, <1>6 DEF P

\* Two sets of bookings together have at least the rooms of one and at most
\* those of both.
LEMMA RoomsOfAUnion ==
    ASSUME NEW t
    PROVE  \A A, D : /\ IsFiniteSet(A) /\ IsFiniteSet(D)
                     /\ \A b \in A \cup D : t[b].rooms \in Nat
                     => /\ RoomsOf(t, A) \in Nat /\ RoomsOf(t, D) \in Nat
                        /\ RoomsOf(t, A \cup D) \in Nat
                        /\ RoomsOf(t, A) <= RoomsOf(t, A \cup D)
                        /\ RoomsOf(t, A \cup D) <= RoomsOf(t, A) + RoomsOf(t, D)
<1> DEFINE Numbered(S) == IsFiniteSet(S) /\ \A b \in S : t[b].rooms \in Nat
           Fine(A, D) == /\ RoomsOf(t, A) <= RoomsOf(t, A \cup D)
                         /\ RoomsOf(t, A \cup D) <= RoomsOf(t, A) + RoomsOf(t, D)
           P == {n \in Nat : \A A, D : Numbered(A) /\ Numbered(D) /\ Cardinality(D) = n => Fine(A, D)}
<1>0. \A S : Numbered(S) => RoomsOf(t, S) \in Nat
  <2>1. ASSUME NEW S, Numbered(S) PROVE RoomsOf(t, S) \in Nat
    <3>1. CASE S = {}
      BY <3>1, NothingIsNoRooms
    <3>2. CASE S # {}
      <4> DEFINE x == First(S)
                 A == S \ {x}
      <4>1. x \in S /\ IsFiniteSet(A)
        BY <2>1, <3>2, WithoutTheFirst
      <4>2. /\ x \notin A /\ S = A \cup {x} /\ t[x].rooms \in Nat
            /\ \A b \in A \cup {x} : t[b].rooms \in Nat
        BY <2>1, <4>1
      <4> HIDE DEF x, A
      <4>3. RoomsOf(t, A) \in Nat /\ RoomsOf(t, A \cup {x}) = t[x].rooms + RoomsOf(t, A)
        BY <4>1, <4>2, OneMoreBooking
      <4> QED BY <4>2, <4>3
    <3> QED BY <3>1, <3>2
  <2> QED BY <2>1
<1>1. 0 \in P
  <2>1. ASSUME NEW A, NEW D, Numbered(A), Numbered(D), Cardinality(D) = 0
        PROVE  Fine(A, D)
    <3>1. D = {} /\ A \cup D = A
      BY <2>1, FS_EmptySet
    <3>2. RoomsOf(t, D) = 0
      BY <2>1, <3>1, RoomsOfASet
    <3>3. RoomsOf(t, A) \in Nat
      BY <1>0, <2>1
    <3> QED BY <3>1, <3>2, <3>3
  <2> QED BY <2>1
<1>2. ASSUME NEW n \in Nat, n \in P PROVE n + 1 \in P
  <2>1. ASSUME NEW A, NEW D, Numbered(A), Numbered(D), Cardinality(D) = n + 1
        PROVE  Fine(A, D)
    <3> DEFINE d == First(D)
               E == D \ {d}
    <3>1. D # {}
      BY <2>1, FS_EmptySet
    <3>2. d \in D /\ IsFiniteSet(E) /\ Cardinality(E) = n
      BY <2>1, <3>1, WithoutTheFirst
    <3>3. d \notin E /\ D = E \cup {d} /\ t[d].rooms \in Nat /\ Numbered(E)
      BY <2>1, <3>2
    <3> HIDE DEF d, E
    <3>4. RoomsOf(t, D) = t[d].rooms + RoomsOf(t, E)
      BY <2>1, <3>2, <3>3, OneMoreBooking
    <3>5. Fine(A, E)
      BY <1>2, <2>1, <3>2, <3>3
    <3>6. Numbered(A \cup E)
      BY <2>1, <3>3, FS_Union
    <3>7. /\ RoomsOf(t, A) \in Nat /\ RoomsOf(t, E) \in Nat /\ RoomsOf(t, A \cup E) \in Nat
      BY <1>0, <2>1, <3>3, <3>6
    <3>8. CASE d \in A
      <4>1. A \cup D = A \cup E
        BY <3>3, <3>8
      <4>2. RoomsOf(t, A \cup D) = RoomsOf(t, A \cup E)
        BY <4>1
      <4>3. RoomsOf(t, E) <= RoomsOf(t, D)
        BY <3>3, <3>4, <3>7
      <4>4. RoomsOf(t, D) \in Nat
        BY <3>3, <3>4, <3>7
      <4> QED BY <3>5, <3>7, <4>2, <4>3, <4>4
    <3>9. CASE d \notin A
      <4>1. A \cup D = (A \cup E) \cup {d} /\ d \notin A \cup E
        BY <3>3, <3>9
      <4>2. RoomsOf(t, A \cup D) = t[d].rooms + RoomsOf(t, A \cup E)
        BY <3>3, <3>6, <4>1, OneMoreBooking
      <4> QED BY <3>3, <3>4, <3>5, <3>7, <4>2
    <3> QED BY <3>8, <3>9
  <2> QED BY <2>1
<1> HIDE DEF P
<1>3. Nat \subseteq P
  BY <1>1, <1>2, NumbersFromZero
<1> SUFFICES ASSUME NEW A, NEW D, Numbered(A), Numbered(D)
             PROVE  /\ RoomsOf(t, A) \in Nat /\ RoomsOf(t, D) \in Nat
                    /\ RoomsOf(t, A \cup D) \in Nat /\ Fine(A, D)
  OBVIOUS
<1>4. Cardinality(D) \in P
  BY <1>3, FS_CardinalityType
<1>5. Fine(A, D)
  BY <1>4 DEF P
<1>6. Numbered(A \cup D)
  BY FS_Union
<1> QED BY <1>0, <1>5, <1>6

\* The same rooms, the same sum.
LEMMA SameRoomsSameSum ==
    ASSUME NEW t, NEW u
    PROVE  \A S : IsFiniteSet(S) /\ (\A b \in S : t[b].rooms = u[b].rooms)
                    => RoomsOf(t, S) = RoomsOf(u, S)
<1> DEFINE Same(S) == IsFiniteSet(S) /\ \A b \in S : t[b].rooms = u[b].rooms
           P == {n \in Nat : \A S : Same(S) /\ Cardinality(S) = n => RoomsOf(t, S) = RoomsOf(u, S)}
<1>1. 0 \in P
  BY RoomsOfASet, FS_EmptySet
<1>2. ASSUME NEW n \in Nat, n \in P PROVE n + 1 \in P
  <2>1. ASSUME NEW S, Same(S), Cardinality(S) = n + 1 PROVE RoomsOf(t, S) = RoomsOf(u, S)
    <3> DEFINE x == First(S)
               E == S \ {x}
    <3>1. S # {}
      BY <2>1, FS_EmptySet
    <3>2. x \in S /\ IsFiniteSet(E) /\ Cardinality(E) = n
      BY <2>1, <3>1, WithoutTheFirst
    <3>3. Same(E) /\ t[x].rooms = u[x].rooms
      BY <2>1, <3>2
    <3>4. /\ RoomsOf(t, S) = t[x].rooms + RoomsOf(t, E)
          /\ RoomsOf(u, S) = u[x].rooms + RoomsOf(u, E)
      BY <2>1, <3>1, RoomsOfASet
    <3> HIDE DEF x, E
    <3> QED BY <1>2, <3>2, <3>3, <3>4
  <2> QED BY <2>1
<1> HIDE DEF P
<1>3. Nat \subseteq P
  BY <1>1, <1>2, NumbersFromZero
<1> QED BY <1>3, FS_CardinalityType DEF P

----------------------------------------------------------------------------
(* The order of the cutoffs *)

\* A later day starts later, or at the same instant when a whole day is skipped.
LEMMA DaysKeepOrder ==
    ASSUME NEW z \in Zones, NEW d \in Int, NEW e \in Int, d <= e
    PROVE  /\ LocalDayStart(d, z) \in Int /\ LocalDayStart(e, z) \in Int
           /\ LocalDayStart(d, z) <= LocalDayStart(e, z)
<1> DEFINE v == d * DayLength
           w == e * DayLength
<1>1. v \in Int /\ w \in Int /\ v <= w /\ (d # e => v + DayLength <= w)
  <2>1. v \in Int /\ w \in Int
    BY DayLengthAssumption
  <2>2. CASE d = e
    BY <2>1, <2>2
  <2>3. CASE d # e
    <3>1. e - d - 1 \in Nat /\ DayLength \in Nat
      BY <2>3, DayLengthAssumption
    <3>2. (e - d - 1) * DayLength >= 0
      <4>1. \A m, n \in Nat : m * n >= 0
        OBVIOUS
      <4> QED BY <3>1, <4>1
    <3>3. (e - d - 1) * DayLength = w - v - DayLength
      BY <3>1
    <3> QED BY <2>1, <3>1, <3>2, <3>3
  <2> QED BY <2>2, <2>3
<1>2. LocalDayStart(d, z) = InstantOf(v, z) /\ LocalDayStart(e, z) = InstantOf(w, z)
  BY DEF LocalDayStart
<1>3. d = e => v = w
  OBVIOUS
<1>4. DayLength \in Nat /\ z.at \in Int /\ z.before \in Int /\ z.after \in Int
      /\ z.after - z.before <= DayLength
  BY HistoryAssumption, DayLengthAssumption
<1> HIDE DEF v, w
<1> QED BY <1>1, <1>2, <1>3, <1>4 DEF InstantOf

\* Bisecting an increasing sequence: the k-th element is among the first ones
\* that are counted, or it is not.
LEMMA CountOfTheFirst ==
    ASSUME NEW n \in Nat, NEW S \in SUBSET (1 .. n), \A i \in S : \A j \in 1 .. i : j \in S,
           NEW k \in 1 .. n
    PROVE  /\ NT!Cardinality(S) \in Nat /\ NT!Cardinality(S) <= n
           /\ k \in S <=> k - 1 < NT!Cardinality(S)
<1>1. NT!Cardinality(S) = Cardinality(S)
  BY Zenon DEF NT!Cardinality, Cardinality, NT!IsFiniteSet, IsFiniteSet
<1>2. \A m \in Nat : IsFiniteSet(1 .. m) /\ Cardinality(1 .. m) = m
  BY FS_Interval
<1>3. IsFiniteSet(S) /\ Cardinality(S) \in Nat /\ Cardinality(S) <= n
  <2>1. S \subseteq 1 .. n /\ IsFiniteSet(1 .. n) /\ Cardinality(1 .. n) = n
    BY <1>2
  <2>2. IsFiniteSet(S) /\ Cardinality(S) <= Cardinality(1 .. n)
    BY <2>1, FS_Subset
  <2> QED BY <2>1, <2>2, FS_CardinalityType
<1>4. k \in S => k <= Cardinality(S)
  <2> SUFFICES ASSUME k \in S PROVE k <= Cardinality(S)
    OBVIOUS
  <2>1. 1 .. k \subseteq S
    OBVIOUS
  <2>2. Cardinality(1 .. k) <= Cardinality(S) /\ Cardinality(1 .. k) = k
    BY <1>2, <1>3, <2>1, FS_Subset
  <2> QED BY <2>2
<1>5. k \notin S => Cardinality(S) <= k - 1
  <2> SUFFICES ASSUME k \notin S PROVE Cardinality(S) <= k - 1
    OBVIOUS
  <2>1. S \subseteq 1 .. (k - 1)
    <3> SUFFICES ASSUME NEW i \in S, i >= k PROVE FALSE
      OBVIOUS
    <3>1. k \in 1 .. i
      OBVIOUS
    <3> QED BY <3>1
  <2>2. IsFiniteSet(1 .. (k - 1)) /\ Cardinality(1 .. (k - 1)) = k - 1
    BY <1>2
  <2>3. Cardinality(S) <= Cardinality(1 .. (k - 1))
    BY <2>1, <2>2, FS_Subset
  <2> QED BY <2>2, <2>3
<1> QED BY <1>1, <1>3, <1>4, <1>5

LEMMA BisectingCounts ==
    ASSUME NEW n \in Nat, NEW seq \in [1 .. n -> Int],
           \A i \in 1 .. n : \A j \in 1 .. i : seq[j] <= seq[i],
           NEW k \in 1 .. n, NEW x \in Int
    PROVE  /\ NT!BisectRight(seq, x) \in Nat /\ NT!BisectRight(seq, x) <= n
           /\ NT!BisectLeft(seq, x) \in Nat /\ NT!BisectLeft(seq, x) <= n
           /\ seq[k] <= x <=> k - 1 < NT!BisectRight(seq, x)
           /\ seq[k] < x <=> k - 1 < NT!BisectLeft(seq, x)
<1> DEFINE R == {i \in DOMAIN seq : seq[i] <= x}
           L == {i \in DOMAIN seq : seq[i] < x}
<1>1. /\ R \in SUBSET (1 .. n) /\ \A i \in R : \A j \in 1 .. i : j \in R
      /\ L \in SUBSET (1 .. n) /\ \A i \in L : \A j \in 1 .. i : j \in L
  OBVIOUS
<1>2. (seq[k] <= x <=> k \in R) /\ (seq[k] < x <=> k \in L)
  OBVIOUS
<1> HIDE DEF R, L
<1>3. /\ NT!Cardinality(R) \in Nat /\ NT!Cardinality(R) <= n
      /\ k \in R <=> k - 1 < NT!Cardinality(R)
      /\ NT!Cardinality(L) \in Nat /\ NT!Cardinality(L) <= n
      /\ k \in L <=> k - 1 < NT!Cardinality(L)
  BY <1>1, CountOfTheFirst
<1> QED BY <1>2, <1>3 DEF R, L, NT!BisectRight, NT!BisectLeft

----------------------------------------------------------------------------
(* What a reconstruction makes of one booking                               *)

\* The past of a booking that can have happened in a zone.
IsPast(made, z) ==
  /\ made.bookedAt \in Int /\ made.checkIn \in Int /\ made.rooms \in Nat
  /\ made.cancelledAt = NoInstant \/ made.cancelledAt \in Int
  /\ made.noShowAt = NoInstant \/ made.noShowAt \in Int
  /\ made.cancelledAt = NoInstant \/ made.noShowAt = NoInstant
  /\ made.noShowAt # NoInstant => LocalDayStart(made.checkIn, z) <= made.noShowAt

\* On the books at an instant.
IsOn(made, i) ==
  /\ made.bookedAt < i
  /\ made.cancelledAt = NoInstant \/ made.cancelledAt >= i
  /\ made.noShowAt = NoInstant \/ made.noShowAt >= i

\* What an import of an instant keeps of a booking.
KeptAt(made, i) ==
  [status      |-> StatusAt(made, i),
   bookedAt    |-> made.bookedAt,
   cancelledAt |-> IF StatusAt(made, i) = "CANCELLED" /\ made.dated
                   THEN made.cancelledAt ELSE NoInstant,
   checkIn |-> made.checkIn, checkOut |-> made.checkOut,
   rooms   |-> made.rooms, revenue |-> made.revenue]

\* The days of a range and their cutoffs.
Days(first, last) == [k \in 1 .. (last - first + 1) |-> first + k - 1]
Cutoffs(first, last, z) ==
  [k \in DOMAIN Days(first, last) |-> EndOfLocalDay(Days(first, last)[k], z)]

LEMMA RangesAreOrdered ==
    ASSUME NEW z \in Zones, NEW first \in Int, NEW last \in Int,
           NEW k \in DOMAIN Days(first, last)
    PROVE  LET n == last - first + 1
               dates == Days(first, last)
               cutoffs == Cutoffs(first, last, z)
           IN  /\ n \in Nat /\ k \in 1 .. n
               /\ dates \in [1 .. n -> Int] /\ \A i \in 1 .. n : \A j \in 1 .. i : dates[j] <= dates[i]
               /\ cutoffs \in [1 .. n -> Int]
               /\ \A i \in 1 .. n : \A j \in 1 .. i : cutoffs[j] <= cutoffs[i]
               /\ Len(cutoffs) = n
               /\ \A i \in 1 .. n : cutoffs[i] = LocalDayStart(dates[i] + 1, z)
<1> DEFINE n == last - first + 1
           dates == Days(first, last)
           cutoffs == Cutoffs(first, last, z)
<1>1. n \in Nat /\ k \in 1 .. n
  BY DEF Days
<1>2. dates \in [1 .. n -> Int] /\ \A i \in 1 .. n : \A j \in 1 .. i : dates[j] <= dates[i]
  BY DEF Days
<1>3. cutoffs = [i \in 1 .. n |-> LocalDayStart(dates[i] + 1, z)]
  BY DEF Cutoffs, Days, EndOfLocalDay
<1> HIDE DEF dates, cutoffs
<1>4. \A i \in 1 .. n : dates[i] + 1 \in Int
  BY <1>2
<1>5. cutoffs \in [1 .. n -> Int]
  BY <1>3, <1>4, DaysKeepOrder
<1>6. ASSUME NEW i \in 1 .. n, NEW j \in 1 .. i PROVE cutoffs[j] <= cutoffs[i]
  <2>1. j \in 1 .. n /\ dates[j] + 1 <= dates[i] + 1
    BY <1>1, <1>2
  <2> QED BY <1>3, <1>4, <2>1, DaysKeepOrder
<1>7. cutoffs \in Seq(Int) /\ Len(cutoffs) = n
  BY <1>1, <1>5, SeqDef
<1> QED BY <1>1, <1>2, <1>3, <1>5, <1>6, <1>7 DEF dates, cutoffs

\* The windows of one booking: certain only when it was on the books, and one of
\* the two whenever it was.
LEMMA WindowsBoundTheTruth ==
    ASSUME NEW z \in Zones, NEW first \in Int, NEW last \in Int,
           NEW k \in DOMAIN Days(first, last), NEW i \in Int,
           Cutoffs(first, last, z)[k] <= i, NEW made, IsPast(made, z), made.bookedAt <= i
    PROVE  LET dates == Days(first, last)
               cutoffs == Cutoffs(first, last, z)
               s == KeptAt(made, i)
               w == NT!CertaintyWindow(s, dates, cutoffs)
               among == NT!BisectRight(cutoffs, s.bookedAt) < Len(cutoffs)
           IN  /\ among /\ NT!Within(k, w.certain) => IsOn(made, cutoffs[k])
               /\ IsOn(made, cutoffs[k]) => among /\ (NT!Within(k, w.certain) \/ NT!Within(k, w.uncertain))
<1> DEFINE n == last - first + 1
           dates == Days(first, last)
           cutoffs == Cutoffs(first, last, z)
           s == KeptAt(made, i)
           w == NT!CertaintyWindow(s, dates, cutoffs)
           booked == NT!BisectRight(cutoffs, s.bookedAt)
           known == NT!Larger(booked, NT!BisectLeft(dates, s.checkIn))
           cancelled == NT!BisectRight(cutoffs, s.cancelledAt)
           c == cutoffs[k]
<1>1. /\ n \in Nat /\ k \in 1 .. n /\ c \in Int /\ c <= i /\ dates[k] \in Int
      /\ Len(cutoffs) = n /\ c = LocalDayStart(dates[k] + 1, z)
  BY RangesAreOrdered
<1>2. s.bookedAt = made.bookedAt /\ s.checkIn = made.checkIn /\ s.status = StatusAt(made, i)
  BY DEF KeptAt
<1>3. booked \in Nat /\ booked <= n /\ (c <= made.bookedAt <=> k - 1 < booked)
  <2>1. made.bookedAt \in Int
    BY DEF IsPast
  <2> QED BY <1>2, <2>1, RangesAreOrdered, BisectingCounts
<1>4. /\ NT!BisectLeft(dates, s.checkIn) \in Nat /\ NT!BisectLeft(dates, s.checkIn) <= n
      /\ dates[k] < made.checkIn <=> k - 1 < NT!BisectLeft(dates, s.checkIn)
  <2>1. made.checkIn \in Int
    BY DEF IsPast
  <2> QED BY <1>2, <2>1, RangesAreOrdered, BisectingCounts
<1>5. /\ known \in Nat /\ booked <= known
      /\ booked <= k - 1 => (k - 1 < known <=> dates[k] < made.checkIn)
  BY <1>1, <1>3, <1>4 DEF NT!Larger
<1>6. /\ s.status \in NT!ObservedStatuses =>
           w = [certain |-> <<booked, n>>, uncertain |-> <<0, 0>>]
      /\ s.status = "NO_SHOW" =>
           w = [certain |-> <<booked, known>>, uncertain |-> <<known, n>>]
      /\ s.status = "CANCELLED" /\ (s.cancelledAt = NoInstant \/ s.cancelledAt < s.bookedAt) =>
           w = [certain |-> <<0, 0>>, uncertain |-> <<booked, n>>]
      /\ s.status = "CANCELLED" /\ ~(s.cancelledAt = NoInstant \/ s.cancelledAt < s.bookedAt) =>
           w = [certain   |-> <<booked, NT!Larger(booked, cancelled)>>,
                uncertain |-> <<0, 0>>]
  BY <1>1 DEF NT!CertaintyWindow, NT!ObservedStatuses
<1> SUFFICES /\ booked < Len(cutoffs) /\ NT!Within(k, w.certain) => IsOn(made, c)
             /\ IsOn(made, c) => /\ booked < Len(cutoffs)
                                 /\ NT!Within(k, w.certain) \/ NT!Within(k, w.uncertain)
  OBVIOUS
<1>7. \A a, b : NT!Within(k, <<a, b>>) <=> a <= k - 1 /\ k - 1 < b
  BY DEF NT!Within
<1>8. s.cancelledAt = IF StatusAt(made, i) = "CANCELLED" /\ made.dated
                      THEN made.cancelledAt ELSE NoInstant
  BY DEF KeptAt
<1>9. s.cancelledAt \in Int =>
        cancelled \in Nat /\ cancelled <= n /\ (c <= s.cancelledAt <=> k - 1 < cancelled)
  BY RangesAreOrdered, BisectingCounts
<1> HIDE DEF booked, known, cancelled, c, n, w, dates, cutoffs, s
<1>10. CASE StatusAt(made, i) = "CONFIRMED"
  <2>1. w.certain = <<booked, n>> /\ w.uncertain = <<0, 0>>
    BY <1>2, <1>6, <1>10 DEF NT!ObservedStatuses
  <2>2. /\ made.cancelledAt = NoInstant \/ made.cancelledAt > i
        /\ made.noShowAt = NoInstant \/ made.noShowAt > i
    BY <1>10 DEF StatusAt, IsPast
  <2>3. NT!Within(k, w.certain) <=> made.bookedAt < c
    BY <1>1, <1>3, <1>7, <2>1 DEF IsPast
  <2>4. IsOn(made, c) <=> made.bookedAt < c
    BY <1>1, <2>2 DEF IsOn, IsPast
  <2> QED BY <1>1, <1>3, <2>3, <2>4 DEF IsPast
<1>11. CASE StatusAt(made, i) = "NO_SHOW"
  <2>1. w.certain = <<booked, known>> /\ w.uncertain = <<known, n>>
    BY <1>2, <1>6, <1>11
  <2>2. made.cancelledAt = NoInstant /\ made.noShowAt \in Int
    BY <1>11 DEF StatusAt, IsPast
  <2>3. dates[k] < made.checkIn => c <= made.noShowAt
    <3>1. ASSUME dates[k] < made.checkIn
          PROVE  LocalDayStart(dates[k] + 1, z) <= LocalDayStart(made.checkIn, z)
      BY <1>1, <3>1, DaysKeepOrder DEF IsPast
    <3>2. LocalDayStart(made.checkIn, z) \in Int /\ LocalDayStart(made.checkIn, z) <= made.noShowAt
      BY <2>2, <1>11, DaysKeepOrder DEF IsPast, StatusAt
    <3> QED BY <1>1, <2>2, <3>1, <3>2
  <2>4. NT!Within(k, w.certain) => made.bookedAt < c /\ dates[k] < made.checkIn
    BY <1>1, <1>3, <1>5, <1>7, <2>1 DEF IsPast
  <2>5. made.bookedAt < c => NT!Within(k, w.certain) \/ NT!Within(k, w.uncertain)
    BY <1>1, <1>3, <1>5, <1>7, <2>1 DEF IsPast
  <2> QED BY <1>1, <1>3, <2>2, <2>3, <2>4, <2>5 DEF IsOn, IsPast
<1>12. CASE StatusAt(made, i) = "CANCELLED"
  <2>1. /\ made.noShowAt = NoInstant /\ made.cancelledAt # NoInstant
        /\ made.cancelledAt \in Int
    BY <1>12 DEF StatusAt, IsPast
  <2>2. CASE s.cancelledAt = NoInstant \/ s.cancelledAt < s.bookedAt
    <3>1. w.certain = <<0, 0>> /\ w.uncertain = <<booked, n>>
      BY <1>2, <1>6, <1>12, <2>2
    <3>2. /\ ~NT!Within(k, w.certain)
          /\ NT!Within(k, w.uncertain) <=> made.bookedAt < c
      BY <1>1, <1>3, <1>7, <3>1 DEF IsPast
    <3> QED BY <1>1, <1>3, <3>2 DEF IsOn, IsPast
  <2>3. CASE ~(s.cancelledAt = NoInstant \/ s.cancelledAt < s.bookedAt)
    <3>1. w.certain = <<booked, NT!Larger(booked, cancelled)>> /\ s.cancelledAt = made.cancelledAt
      BY <1>2, <1>6, <1>8, <1>12, <2>3
    <3>2. NT!Within(k, w.certain) <=> made.bookedAt < c /\ c <= made.cancelledAt
      BY <1>1, <1>3, <1>7, <1>9, <2>1, <3>1 DEF IsPast, NT!Larger
    <3> QED BY <1>1, <1>3, <2>1, <3>2 DEF IsOn, IsPast
  <2> QED BY <2>2, <2>3
<1> QED BY <1>10, <1>11, <1>12 DEF StatusAt

----------------------------------------------------------------------------
(* The bounds of a reconstructed cell                                       *)

\* The rooms of a night are those of the bookings on it.
LEMMA RoomsAreSums ==
    ASSUME NEW night, NEW i
    PROVE  RoomsAt(night, i) =
             RoomsOf(truth, {b \in DOMAIN truth : night \in NT!NightsOf(truth[b]) /\ IsOn(truth[b], i)})
<1>1. {b \in DOMAIN truth : night \in NT!NightsOf(truth[b]) /\ IsOn(truth[b], i)}
        = {b \in DOMAIN truth :
             /\ night \in NT!NightsOf(truth[b])
             /\ truth[b].bookedAt < i
             /\ truth[b].cancelledAt = NoInstant \/ truth[b].cancelledAt >= i
             /\ truth[b].noShowAt = NoInstant \/ truth[b].noShowAt >= i}
  BY DEF IsOn
<1>2. RoomsAt(night, i) = RoomsOf(truth, {b \in DOMAIN truth :
             /\ night \in NT!NightsOf(truth[b])
             /\ truth[b].bookedAt < i
             /\ truth[b].cancelledAt = NoInstant \/ truth[b].cancelledAt >= i
             /\ truth[b].noShowAt = NoInstant \/ truth[b].noShowAt >= i})
  BY Zenon DEF RoomsAt, NT!MapThenSumSet, NT!MapThenFoldSet, RoomsOf, IsSum, First
<1> QED BY <1>1, <1>2

LEMMA TotalsAreSums ==
    ASSUME NEW t, NEW night, NEW certain, NEW uncertain
    PROVE  /\ NT!Totals(t, night, certain, uncertain).rooms
                = RoomsOf(t, {b \in certain : night \in NT!NightsOf(t[b])})
           /\ NT!Totals(t, night, certain, uncertain).uncertain
                = RoomsOf(t, {b \in uncertain : night \in NT!NightsOf(t[b])})
BY Zenon DEF NT!Totals, NT!MapThenSumSet, NT!MapThenFoldSet, RoomsOf, IsSum, First

\* What the bookings are and will have been, and the last import of them.
World == zone \in Zones /\ truth \in Histories /\ now \in Int /\ importedAt \in Int

LEMMA WorldStays == Spec => []World
<1>1. Init => World
  BY DEF Init, World
<1>2. World /\ [Next]_vars => World'
  <2> SUFFICES ASSUME World, [Next]_vars PROVE World'
    OBVIOUS
  <2>1. ASSUME NEW first, NEW last, Reconstruct(first, last) PROVE World'
    <3>1. UNCHANGED <<zone, truth, now, importedAt>>
      BY <2>1, Zenon DEF Reconstruct
    <3> QED BY <3>1 DEF World
  <2>2. ASSUME NEW day, Calculate(day) PROVE World'
    <3>1. UNCHANGED <<zone, truth, now, importedAt>>
      BY <2>2, Zenon DEF Calculate
    <3> QED BY <3>1 DEF World
  <2>3. ASSUME Tick \/ Import \/ Observe \/ UNCHANGED vars PROVE World'
    BY <2>3 DEF World, vars, Tick, Import, Observe
  <2> QED BY <2>1, <2>2, <2>3 DEF Next
<1> QED BY <1>1, <1>2, PTL DEF Spec

LEMMA WorldBoundsACell ==
    ASSUME World, NEW r \in Ranges, NEW k \in DOMAIN Days(r[1], r[2]), NEW night \in Nights,
           Cutoffs(r[1], r[2], zone)[k] <= importedAt
    PROVE  LET cutoffs == Cutoffs(r[1], r[2], zone)
               cell == NT!AggregateReconstruction(Stays, Days(r[1], r[2]), cutoffs, k, night)
               real == RoomsAt(night, cutoffs[k])
           IN  cell.rooms <= real /\ real <= cell.rooms + cell.uncertain
<1> DEFINE dates == Days(r[1], r[2])
           cutoffs == Cutoffs(r[1], r[2], zone)
           c == cutoffs[k]
           Window(b) == NT!CertaintyWindow(Stays[b], dates, cutoffs)
           made == {b \in DOMAIN Stays : NT!BisectRight(cutoffs, Stays[b].bookedAt) < Len(cutoffs)}
           certain == {b \in made : NT!Within(k, Window(b).certain)}
           uncertain == {b \in made : NT!Within(k, Window(b).uncertain)}
           cell == NT!AggregateReconstruction(Stays, dates, cutoffs, k, night)
           Of(t, set) == {b \in set : night \in NT!NightsOf(t[b])}
           on == {b \in DOMAIN truth : night \in NT!NightsOf(truth[b]) /\ IsOn(truth[b], c)}
<1>1. /\ IsFiniteSet(DOMAIN truth)
      /\ \A b \in DOMAIN truth : IsPast(truth[b], zone)
  BY PastAssumption DEF World, IsPast
<1>2. r[1] \in Int /\ r[2] \in Int /\ zone \in Zones /\ importedAt \in Int
  BY HistoryAssumption DEF World
<1>3. c \in Int
  BY <1>2, RangesAreOrdered
<1>4. /\ DOMAIN Stays = {b \in DOMAIN truth : truth[b].bookedAt <= importedAt}
      /\ \A b \in DOMAIN Stays : Stays[b] = KeptAt(truth[b], importedAt)
  BY DEF Stays, KeptAt
<1>5. \A b \in DOMAIN Stays :
        /\ Stays[b].rooms = truth[b].rooms
        /\ NT!NightsOf(Stays[b]) = NT!NightsOf(truth[b])
  <2>1. \A past, i : /\ KeptAt(past, i).rooms = past.rooms
                    /\ NT!NightsOf(KeptAt(past, i)) = NT!NightsOf(past)
    BY DEF KeptAt, NT!NightsOf
  <2> HIDE DEF made, certain, uncertain, cell, on
  <2> QED BY <1>4, <2>1
<1>6. \A b \in DOMAIN Stays :
        /\ b \in certain => IsOn(truth[b], c)
        /\ IsOn(truth[b], c) => b \in certain \/ b \in uncertain
  <2> SUFFICES ASSUME NEW b \in DOMAIN Stays
               PROVE  /\ b \in certain => IsOn(truth[b], c)
                      /\ IsOn(truth[b], c) => b \in certain \/ b \in uncertain
    OBVIOUS
  <2>1. Stays[b] = KeptAt(truth[b], importedAt) /\ IsPast(truth[b], zone)
        /\ truth[b].bookedAt <= importedAt
    BY <1>1, <1>4
  <2> QED BY <1>2, <2>1, WindowsBoundTheTruth
<1>7. /\ cell.rooms = RoomsOf(Stays, Of(Stays, certain))
      /\ cell.uncertain = RoomsOf(Stays, Of(Stays, uncertain))
  <2>1. cell = NT!Totals(Stays, night, certain, uncertain)
    BY Zenon DEF NT!AggregateReconstruction
  <2> HIDE DEF cell, certain, uncertain
  <2> QED BY <2>1, TotalsAreSums
<1>8. RoomsAt(night, c) = RoomsOf(truth, on)
  BY RoomsAreSums
<1>9. \A b \in DOMAIN truth : IsOn(truth[b], c) => b \in DOMAIN Stays
  BY <1>1, <1>2, <1>3, <1>4 DEF IsOn, IsPast
<1>10. /\ certain \subseteq DOMAIN Stays /\ uncertain \subseteq DOMAIN Stays
       /\ DOMAIN Stays \subseteq DOMAIN truth
  BY <1>4
<1> HIDE DEF cell, certain, uncertain, made, Window, c, cutoffs, dates
<1> DEFINE A == Of(truth, certain)
           B == Of(truth, uncertain)
<1>11. Of(Stays, certain) = A /\ Of(Stays, uncertain) = B
  BY <1>5, <1>10
<1>12. A \subseteq on /\ on \subseteq A \cup B /\ on \cup A = on
  BY <1>6, <1>9, <1>10
<1>13. /\ IsFiniteSet(A) /\ IsFiniteSet(B) /\ IsFiniteSet(on)
       /\ \A b \in A \cup B \cup on : truth[b].rooms \in Nat
  BY <1>1, <1>10, FS_Subset DEF IsPast
<1>14. RoomsOf(Stays, A) = RoomsOf(truth, A) /\ RoomsOf(Stays, B) = RoomsOf(truth, B)
  BY <1>5, <1>10, <1>13, SameRoomsSameSum
<1> HIDE DEF A, B, on, Of
<1>15. RoomsOf(truth, A) <= RoomsOf(truth, on)
  <2>1. A \cup on = on
    BY <1>12
  <2> QED BY <1>13, <2>1, RoomsOfAUnion
<1>16. RoomsOf(truth, on) <= RoomsOf(truth, A \cup B)
  <2>1. on \cup (A \cup B) = A \cup B /\ IsFiniteSet(A \cup B)
    BY <1>12, <1>13, FS_Union
  <2> QED BY <1>13, <2>1, RoomsOfAUnion
<1>17. /\ RoomsOf(truth, A \cup B) <= RoomsOf(truth, A) + RoomsOf(truth, B)
       /\ RoomsOf(truth, A) \in Nat /\ RoomsOf(truth, B) \in Nat /\ RoomsOf(truth, A \cup B) \in Nat
  BY <1>13, RoomsOfAUnion
<1>18. RoomsOf(truth, on) \in Nat
  BY <1>13, RoomsOfAUnion
<1>19. cell.rooms = RoomsOf(truth, A) /\ cell.uncertain = RoomsOf(truth, B)
  BY <1>7, <1>11, <1>14
<1>20. cell.rooms <= RoomsAt(night, c) /\ RoomsAt(night, c) <= cell.rooms + cell.uncertain
  BY <1>8, <1>15, <1>16, <1>17, <1>18, <1>19
<1> QED BY <1>20 DEF cell, c, cutoffs, dates

LEMMA WorldBoundsCells == World => ReconstructionBoundsTheTruth
<1> SUFFICES ASSUME World, NEW r \in Ranges
             PROVE  LET dates   == [k \in 1 .. (r[2] - r[1] + 1) |-> r[1] + k - 1]
                        cutoffs == [k \in DOMAIN dates |-> EndOfLocalDay(dates[k], zone)]
                    IN  \A k \in DOMAIN dates, n \in Nights :
                          /\ \A d \in r[1] .. r[2] : LocalDateExists(d, zone)
                          /\ cutoffs[k] <= importedAt
                          =>
                          LET cell == NT!AggregateReconstruction(Stays, dates, cutoffs, k, n)
                              real == RoomsAt(n, cutoffs[k])
                          IN  cell.rooms <= real /\ real <= cell.rooms + cell.uncertain
  BY Zenon DEF ReconstructionBoundsTheTruth
<1> DEFINE dates   == [k \in 1 .. (r[2] - r[1] + 1) |-> r[1] + k - 1]
           cutoffs == [k \in DOMAIN dates |-> EndOfLocalDay(dates[k], zone)]
<1>1. dates = Days(r[1], r[2]) /\ cutoffs = Cutoffs(r[1], r[2], zone)
  BY Zenon DEF Days, Cutoffs
<1> HIDE DEF dates, cutoffs
<1> SUFFICES ASSUME NEW k \in DOMAIN dates, NEW n \in Nights, cutoffs[k] <= importedAt
             PROVE  LET cell == NT!AggregateReconstruction(Stays, dates, cutoffs, k, n)
                        real == RoomsAt(n, cutoffs[k])
                    IN  cell.rooms <= real /\ real <= cell.rooms + cell.uncertain
  BY Zenon DEF dates, cutoffs
<1>2. LET cell == NT!AggregateReconstruction(Stays, Days(r[1], r[2]),
                                             Cutoffs(r[1], r[2], zone), k, n)
          real == RoomsAt(n, Cutoffs(r[1], r[2], zone)[k])
      IN  cell.rooms <= real /\ real <= cell.rooms + cell.uncertain
  BY <1>1, WorldBoundsACell
<1> QED BY <1>1, <1>2

\* PastIsBounded: a reconstruction from bookings imported at the cutoff or later
\* never claims more rooms than there were, and what it leaves out it calls
\* uncertain (aggregate_reconstruction and booking_certainty_window).
THEOREM PastIsBounded == Spec => []ReconstructionBoundsTheTruth
BY WorldStays, WorldBoundsCells, PTL
================================================================================
