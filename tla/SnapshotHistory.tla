---------------------------- MODULE SnapshotHistory --------------------------
(***************************************************************************)
(* The booking history of one data source, day after day: the file imports  *)
(* that refresh the canonical bookings, the snapshots observed from them    *)
(* (snapshots/observed.py), the past inferred from them                     *)
(* (snapshots/reconstruction.py), the baselines calculated from the         *)
(* snapshots (intelligence/expected/service.py) and the revenue signals     *)
(* evaluated from both (intelligence/revenue/service.py).                   *)
(*                                                                         *)
(* What really happened to each booking is a CONSTANT history, external to  *)
(* the program: when it was made, when it was cancelled, whether the hotel  *)
(* system gives that time, when a guest was recorded as not arrived.  An    *)
(* import copies its state of that instant; the program never sees more.    *)
(* Every run holds the source's lock from before it reads the clock until   *)
(* it commits, so it is one step.                                           *)
(***************************************************************************)
EXTENDS RevenueSignals, LocalDays, Sequences

CONSTANTS
  Histories,      \* the possible pasts: functions from bookings to records
  Zones,          \* the possible time zones of the property
  Capacities,     \* the possible inventories: functions from nights to rooms
  LastInstant,    \* bound: the last instant
  Nights,         \* bound: the stay nights of every run
  ImportInstants, \* bound: the instants at which a file may be imported
  Ranges,         \* bound: the ranges of snapshot days a reconstruction is asked for
  NoInstant

\* Every clock change of the zones leaves the dates in order and skips a day at most, days and
\* nights are numbers, and a pair looks back in time.
ASSUME HistoryAssumption ==
  /\ \A z \in Zones : /\ z.at \in Int /\ z.before \in Int /\ z.after \in Int
                      /\ DatesNeverGoBack(z) /\ z.after - z.before <= DayLength
  /\ LastInstant \in Int /\ Nights \subseteq Int /\ Ranges \subseteq Int \X Int
  /\ HorizonDays \in Nat /\ PickupWindow \in Nat \ {0}

\* A booking is cancelled, or its guests do not arrive, or neither; and that they did not arrive
\* is not known before the day of their arrival.
ASSUME PastAssumption ==
  \A past \in Histories :
    /\ IsFiniteSet(DOMAIN past)
    /\ \A b \in DOMAIN past :
         LET made == past[b] IN
         /\ made.bookedAt \in Int /\ made.checkIn \in Int /\ made.rooms \in Nat
         /\ made.cancelledAt = NoInstant \/ made.cancelledAt \in Int
         /\ made.noShowAt = NoInstant \/ made.noShowAt \in Int
         /\ made.cancelledAt = NoInstant \/ made.noShowAt = NoInstant
         /\ made.noShowAt # NoInstant =>
              \A z \in Zones : LocalDayStart(made.checkIn, z) <= made.noShowAt

NT == INSTANCE NightTotals WITH Unknown <- NoNumber

VARIABLES
  zone,         \* the property's time zone
  truth,        \* what really happens to each booking
  capacity,     \* room_inventory_daily
  now,          \* the clock
  importedAt,   \* the instant of the last import; -1 before the first
  snapshots,    \* booking_snapshots: [key -> content, with as_of_at]
  baselines     \* booking_expected_baselines: [key -> computation]

vars == <<zone, truth, capacity, now, importedAt, snapshots, baselines>>

Today == LocalDateOf(now, zone)

\* What the hotel system exports at an instant: each booking already made, with
\* its status of that instant.
StatusAt(b, i) ==
  IF b.cancelledAt # NoInstant /\ b.cancelledAt <= i THEN "CANCELLED"
  ELSE IF b.noShowAt # NoInstant /\ b.noShowAt <= i THEN "NO_SHOW"
  ELSE "CONFIRMED"

\* The canonical bookings: the rows of the last import.
Stays ==
  [b \in {c \in DOMAIN truth : truth[c].bookedAt <= importedAt} |->
     [status      |-> StatusAt(truth[b], importedAt),
      bookedAt    |-> truth[b].bookedAt,
      cancelledAt |-> IF StatusAt(truth[b], importedAt) = "CANCELLED" /\ truth[b].dated
                      THEN truth[b].cancelledAt ELSE NoInstant,
      checkIn |-> truth[b].checkIn, checkOut |-> truth[b].checkOut,
      rooms   |-> truth[b].rooms, revenue |-> truth[b].revenue]]

Init ==
  /\ zone \in Zones
  /\ truth \in Histories
  /\ capacity \in Capacities
  /\ now = 0
  /\ importedAt = -1
  /\ snapshots = << >>
  /\ baselines = << >>

\* Time passes.
Tick ==
  /\ now < LastInstant
  /\ now' = now + 1
  /\ UNCHANGED <<zone, truth, capacity, importedAt, snapshots, baselines>>

\* A booking import of this source: its one transaction that writes the
\* canonical bookings, under the source's lock.
Import ==
  /\ now \in ImportInstants
  /\ importedAt' = now
  /\ UNCHANGED <<zone, truth, capacity, now, snapshots, baselines>>

----------------------------------------------------------------------------
(* Storing *)

\* The content of a stored row, without what the fingerprint leaves out.
ContentOf(row) == [f \in DOMAIN row \ {"asOf"} |-> row[f]]

\* Bug: a run replaces what it finds different.
StoreOver(rows) == [k \in DOMAIN snapshots \cup DOMAIN rows |->
                      IF k \in DOMAIN rows THEN rows[k] ELSE snapshots[k]]

\* _store and insert_if_absent: an observation is skipped by a reconstruction,
\* the same content is left alone, anything else on a stored key is a conflict
\* that rolls the whole run back.
Store(rows) ==
  LET skipped(k)  == snapshots[k].origin = Observed /\ rows[k].origin # Observed
      conflicts == {k \in DOMAIN rows \cap DOMAIN snapshots :
                      ~ skipped(k) /\ ContentOf(rows[k]) # ContentOf(snapshots[k])}
  IN  IF conflicts # {} THEN snapshots
      ELSE [k \in DOMAIN snapshots \cup DOMAIN rows |->
              IF k \in DOMAIN snapshots THEN snapshots[k] ELSE rows[k]]

\* A snapshot row: its content and the instant it speaks of.
Row(content, asOf) == [f \in DOMAIN content \cup {"asOf"} |->
                         IF f = "asOf" THEN asOf ELSE content[f]]

\* take_snapshot: every stay night as the bookings are now; the snapshot day is
\* the date of the clock and cannot be given.
Observe ==
  /\ snapshots' = Store([k \in {Today} \X Nights |->
                     Row(NT!BuildContent(Observed, NT!AggregateObserved(Stays, k[2]),
                                         capacity[k[2]]), now)])
  /\ UNCHANGED <<zone, truth, capacity, now, importedAt, baselines>>

\* reconstruct: a range of days that have all ended and all exist, each as of
\* its cutoff; otherwise refused.
Reconstruct(first, last) ==
  LET dates   == [k \in 1 .. (last - first + 1) |-> first + k - 1]
      cutoffs == [k \in DOMAIN dates |-> EndOfLocalDay(dates[k], zone)]
      Index(d) == d - first + 1
      rows == [key \in (first .. last) \X Nights |->
                 Row(NT!BuildContent(Reconstructed,
                       NT!AggregateReconstruction(Stays, dates, cutoffs, Index(key[1]), key[2]),
                       capacity[key[2]]), cutoffs[Index(key[1])])]
  IN  /\ \A k \in DOMAIN dates : LocalDateExists(dates[k], zone)
      /\ cutoffs[Len(cutoffs)] <= now
      /\ snapshots' = Store(rows)
      /\ UNCHANGED <<zone, truth, capacity, now, importedAt, baselines>>

\* The snapshots of a day that a baseline may be calculated for.
TargetsOf(day) ==
  {k \in DOMAIN snapshots : k[1] = day /\ k[2] >= day /\ snapshots[k].origin = Observed}

\* calculate_for_snapshot_date: one baseline per target; a stored one that
\* differs rolls the whole run back.
Calculate(day) ==
  LET targets == TargetsOf(day)
      computed == [k \in targets |-> ComputeExpected(k, snapshots)]
      conflicts == {k \in targets \cap DOMAIN baselines : baselines[k] # computed[k]}
  IN  /\ targets # {}
      /\ baselines' = IF conflicts # {} THEN baselines
                      ELSE [k \in DOMAIN baselines \cup targets |->
                              IF k \in targets THEN computed[k] ELSE baselines[k]]
      /\ UNCHANGED <<zone, truth, capacity, now, importedAt, snapshots>>

Next ==
  \/ Tick
  \/ Import
  \/ Observe
  \/ \E r \in Ranges : Reconstruct(r[1], r[2])
  \/ \E day \in 0 .. Today : Calculate(day)

Spec == Init /\ [][Next]_vars

----------------------------------------------------------------------------
(* Properties *)

ReconstructedKeys == {k \in DOMAIN snapshots : snapshots[k].origin = Reconstructed}

\* A reconstruction only ever speaks of days that are over: whatever the clock
\* changes do to the length of a day, none of its rows takes the place of an
\* observation that can still be made.  (reconstruction.py: "a day whose end is
\* still in the future would be a prediction dressed as history".)
ReconstructionIsOfThePast == \A k \in ReconstructedKeys : k[1] < Today

\* The rooms really on the books of a night at an instant.
RoomsAt(night, i) ==
  LET on == {b \in DOMAIN truth :
               /\ night \in NT!NightsOf(truth[b])
               /\ truth[b].bookedAt < i
               /\ truth[b].cancelledAt = NoInstant \/ truth[b].cancelledAt >= i
               /\ truth[b].noShowAt = NoInstant \/ truth[b].noShowAt >= i}
      Rooms(b) == truth[b].rooms
  IN  NT!MapThenSumSet(Rooms, on)

\* A reconstruction from bookings imported at the cutoff or later never claims
\* more than there was, and what it leaves out it calls uncertain.
\* (aggregate.py: "never assumed present and never assumed absent".)
ReconstructionBoundsTheTruth ==
  \A r \in Ranges :
    LET dates   == [k \in 1 .. (r[2] - r[1] + 1) |-> r[1] + k - 1]
        cutoffs == [k \in DOMAIN dates |-> EndOfLocalDay(dates[k], zone)]
    IN  \A k \in DOMAIN dates, n \in Nights :
          (\A d \in r[1] .. r[2] : LocalDateExists(d, zone)) /\ cutoffs[k] <= importedAt =>
            LET cell == NT!AggregateReconstruction(Stays, dates, cutoffs, k, n)
                real == RoomsAt(n, cutoffs[k])
            IN  cell.rooms <= real /\ real <= cell.rooms + cell.uncertain

\* What is known of a target the moment its snapshot day ends: itself and the
\* days before.
KnownTo(target) == [k \in {j \in DOMAIN snapshots : j[1] < target[1] \/ j = target} |->
                      snapshots[k]]

\* Neither the baseline calculated for a target nor the signals evaluated from
\* a stored one depend on anything observed on its day or later, however late
\* they are calculated.  (pairing.py: "no temporal leakage, whatever the lead
\* time".)
NoHindsight ==
  \A day \in 0 .. Today : \A target \in TargetsOf(day) :
    /\ ComputeExpected(target, snapshots) = ComputeExpected(target, KnownTo(target))
    /\ Signals(target, snapshots, baselines) = Signals(target, KnownTo(target), baselines)

\* What was stored as evidence is never rewritten, by no run and in no order:
\* a snapshot and a baseline stay as they were stored, and a baseline differs
\* from what would be calculated today only by a reconstruction stored since.
\* (observed.py: "It is not the history of the bookings and it is never
\* rewritten".)
EvidenceStep ==
  /\ \A k \in DOMAIN snapshots : k \in DOMAIN snapshots' /\ snapshots'[k] = snapshots[k]
  /\ \A k \in DOMAIN baselines :
       /\ k \in DOMAIN baselines' /\ baselines'[k] = baselines[k]
       /\ \/ ComputeExpected(k, snapshots') = ComputeExpected(k, snapshots)
          \/ ReconstructedKeys' # ReconstructedKeys

EvidenceStands == [][EvidenceStep]_vars
==============================================================================
