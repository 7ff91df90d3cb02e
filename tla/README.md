# NINFA verification

TLA+ models of NINFA, model-checked with TLC, and proofs of its most important
parts, checked with TLAPS. Paths below `modules/` are paths below
`src/services/api/app/modules/`.

NINFA reads a hotel's exports (bookings, labor, invoices), freezes what the
bookings say each day in snapshots, evaluates detectors on them, ranks what they
find, and remembers every evaluation as an observation of a *Decision* that
opens, resolves and reopens. All processes (API, CLI, worker) share one
PostgreSQL at READ COMMITTED; what keeps them apart is transactions, a few
advisory locks and unique keys.

## Inventory

| Component | State | Operations | Hard behaviour | What makes it correct |
|---|---|---|---|---|
| **Decision Layer** `modules/decisions` | `decision_runs`, `decisions` (mutable row), `decision_observations` (immutable) | `DecisionService.sync` | concurrent and repeated calls, late runs, a failure between flushes | the row is what the observations add up to; one run per input; time never goes back; atomic |
| **Decision reads** `modules/decision_memory`, `api/v1/decisions` | cursors held by clients | feed, list, history | several statements per answer and several pages per list while syncs commit | no repeats, no gaps, every item with its observation |
| **Content of a Decision** `decisions/serialization.py`, `recommendations`, `ai/ask_ninfa` | none | serialise, recommend, ask | a field stored that is not shown, a rule without a Decision, a leak in an answer | shown is stored; every triggered Decision is advised; nothing leaked is shown |
| **Analysis and automatic policy** `modules/analysis` | `property_analysis_policies` | `run_property_analysis`, `run_automatic_analysis` | several transactions per run, midnight, check then act | a run reads one state of the bookings and says truly how fresh it is |
| **Worker and dispatcher** `services/worker` | Procrastinate's queue | `dispatch-analysis`, `analysis.run_policy`, `analysis.run_property` | a job waits, the queueing lock ends when it starts | the evaluation at execution decides |
| **Snapshots** `modules/snapshots` | `booking_snapshots` | `take_snapshot`, `reconstruct` | same-day conflicts, clock and lock, days of 23 and 25 hours | an observation is of its instant and never changes; a reconstruction is of a day that is over |
| **Baselines and detectors** `modules/intelligence` | `booking_expected_baselines` | baselines, revenue, costs, labor, OTA | history that is still being stored, missing rows, boundaries | nothing is used that was not yet known; missing is not zero |
| **Priority** `modules/intelligence/priority` | none | `rank` | ties, refusals | one total order, independent of the input's |
| **Import jobs and sources** `modules/ingestion`, `modules/data_sources/service.py` | `import_jobs`, `data_sources`, profiles | import, deactivate, switch off | import lock held across transactions, time-out, crash | a failed import leaves no configured source; all rows or none |
| **Bookings, labor, invoices** | staged rows and canonical tables | read, stage, canonicalise | ambiguous dates and numbers, re-exports, credit notes | nothing is guessed; the same content is no change |
| **Suppliers** `modules/suppliers` | suppliers, identifiers, aliases, reviews | `resolve` | two hotels, one registry | one supplier per identity |
| **Smart Import** `data_sources/{understanding,smart_import,source_learning,semantics*,proposal}` | the families a source has learned | match, propose, confirm, remember, forget | two imports decide before either saves | what a person confirmed is kept; nothing is invented |
| **Document understanding** `modules/document_understanding` | none | sheets, tables, grids of days, plans | totals, sections, stacked tables, partial periods | every record is read once, or the file is refused |
| **Authentication** `modules/auth`, `api/v1/auth` | credentials, sessions | login, logout, resolve, `set_password` | rotation against login, lock expiry, attempts at once | a rotated password leaves no session; guesses are bounded |
| **Data overview** `modules/data_overview` | none | the Dati page | parts of a run missing | the page shows what the run judged |
| **Web** `apps/web/lib` | session, hotel, fetch states | load, refresh, switch hotel, log in and out | late answers, 401, midnight | a quiet page has settled on what was asked last |

The components meet in five places. A web import goes: import lock of the hotel,
source, job, staged rows, then the canonical transaction under `lock_data_source`
(and, for invoices, the workspace's registry lock). An import and a snapshot run
exclude each other by `lock_data_source`. An analysis goes snapshot, baselines,
detectors, ranking, provenance, `sync`, each step in transactions of its own.
Concurrent syncs of a hotel exclude each other by `lock_decision_layer`. Readers
take no lock. `PROJECT.json` lists every component, and every hazard at its line.

## Modules

`tla/` holds state machines, the pure modules they are built from, and instances.

| Module | Models | State and actions |
|---|---|---|
| `DecisionMemory` | the pure part of `sync` (deduplication and validation against the ranking, the transition table of `apply_lifecycle`, the changes of the row, the observation) and what `sync` promises: one atomic step `Sync` per new input | operators; `runs`, `decisions`, `history` are the three tables |
| `DecisionLayer` (extends it) | sessions executing `sync` statement by statement | `lock`, `nextSequence`, and a session's `pc`, `job`, `loaded`, `sequence`, `answer`; one action per statement, and `Rollback` at any of them |
| `DecisionReads` (extends `DecisionMemory`) | a client's paged list, paged history or feed against atomic syncs | a reading is a task, a cursor and the rows delivered; one action per SELECT |
| `DecisionContent` | what a Decision stores and shows, the recommendation's rule, a question to the assistant from validation to what of the answer is shown | operators |
| `PriorityRanking` | adapters, refusals, impact, urgency, the order | operators |
| `PropertyAnalysis` | a local day of one hotel: imports, snapshots, automatic and manual runs | `imports`, `writing`, `lock`, `snapshots`, `runs`, `queued`, `session`; one action per transaction or independent read, `Fail` at any of them |
| `SnapshotHistory` | days of one source: imports, observations, reconstructions, baselines | `snapshots` and `baselines` are the stored rows, `truth` what really happens to each booking and `zone` the clock's change; one action per operation |
| `LocalDays`, `NightTotals` | `localtime.py`; which bookings count on a night at a cutoff (`aggregate.py`) | operators |
| `ExpectedBaseline`, `RevenueSignals` | comparables, seasons, median, confidence; pairs, pickup, forecast, the revenue detectors | operators |
| `DetectorToolkit`, `CostAnomaly`, `LaborOverstaffing`, `OtaDependency` | the other three detectors | operators |
| `DataOverview` | the four blocks of the Dati page | operators |
| `SourceImports` | web and command-line imports of a workspace, transaction by transaction, and before one with a person's own matching its dry run (`TryFile`) | `sources` (with the layout and the words each was taught), `jobs`, `canonical`, `registry`, and where each import is; `Crash`, refusals and an operator anywhere |
| `ImportLedger` | what an import promises: canonical data change by whole imports | `SourceImports` implements it |
| `CanonicalImport` | how a row is read with the words taught, and what needs them; upsert, reuse and conflict of the three kinds of rows; the suppliers' `resolve` | operators |
| `BookingRows`, `LaborRows`, `InvoiceDocuments` | what a file's rows are read as, and what is refused | operators |
| `FileUnderstanding` | matching a file to the families a source knows; what is reused, asked, remembered, evicted | operators |
| `SourceLearning` (extends it) | imports of one source that verify, import and save while others do, with forget and replace | `learning`, `saved`, the imports; what came in between is `overtaken` |
| `ColumnMeaning` | what names and values say of a column, personal columns, the meanings of the three kinds of file and the proposal for a table's columns | operators |
| `SheetTable`, `DocumentTables` | the table of a sheet as it is scanned and streamed, its parts and labels; days of columns; the tables of a document and the plan that reads them | operators |
| `AuthService` | logins statement by statement, `set_password`, sessions, the clock | `credential`, `sessions`, `rowOwner`, `logins`, `rotation`, `guesses` |
| `PropertyPage` | one tab: bootstrap, session, hotel, period, the fetch hooks with late answers | `status`, `selected`, `today`, and the requests on their way |
| `WebSession` (extends both) | the tab, its cookie and the API together | `cookie`, `reply`, `access` |
| `MC...` | instances for TLC; some hold the checks of pure modules | |
| `...Proofs` | the theorems | |

`DecisionLayer` implements `DecisionMemory` (`SyncIsAtomic`), so `DecisionReads`
and `PropertyAnalysis` may take a sync as one step. `SourceImports` implements
`ImportLedger` (`WholeImportsOnly`, a refinement mapping that hides jobs, sources
and locks), so `PropertyAnalysis`, `SnapshotHistory` and `SourceLearning` may take
an import's canonical transaction as one.

Abstractions. *Decisions*: an evaluation is an identity, a status and a reading
(the evidence, of which only equality matters); a run's coverage and provenance are
its `context`; the ranking given to `sync` may be any set the code's validation
accepts. *Analysis*: a night's bookings are rooms, revenue and channel; local days
have equal length; the policy's configuration may block any evaluation
(`PolicySkips`). *Snapshots*: the inventory of rooms is fixed in a behaviour, a
fingerprint is equality of contents, and the validity of the property and of the
source and the limits of a reconstruction's range are left out. *Imports*: a row is
an identity, a content, whether it is valid by itself, and the words it uses: a status
or a category nobody taught makes it unusable, a role or a channel never does. Only the
dry run of a person's own matching is modelled; that of a canonical file or of the saved
configuration is not, and `dry_run` writes nothing in any case. In the row modules a cell is what
it may be read as, so that an ambiguous date has two readings and an amount its
separators. *Columns*: the rules and the names of the three kinds of file are all
there, with one word for every word that none of them tells apart; numbers are
hundredths, scores and fits whole percentages (a product of the code's floats that
falls a hair below a limit is the limit), and how alike the letters of two names are
is given. *Documents*: a cell has a kind, the words of its label with the number
behind them, and how its text looks; a sheet also has its merged blocks and how much
of it the scan sees and keeps. *Web*: an
answer is decided when it arrives; access only shrinks; the late answers of an
unmounted component are dropped; concurrent re-reads of the session are one;
logout, and the revocation of a browser's old cookie at login, are one step each;
one rotation of the password runs at a time and the account stays active.
Fingerprints and hashes are injective. Reads that nothing can come between with a
different result are one action, and the action's comment says why. Where the arms
of a CASE overlap, the first that holds is meant, as TLC takes it and as the code's
`if`s and `return`s do; no proof depends on which.

## Runs

| Run | Instance | Shows |
|---|---|---|
| `decision_memory` | one hotel, two Decisions, two days, every history of four runs | the row agrees with the history, in order, nothing doubled or lost, append-only |
| `decision_layer` | two concurrent sessions, two Decisions, three sequence numbers, rollbacks and repeats | what is read under the lock stays true; the sessions implement the atomic syncs; every call ends |
| `decision_reads` | three Decisions, page size below that, four runs | lists never repeat and miss nothing untouched; items have their observation; histories are whole; a feed is its run's |
| `property_analysis` | two analyses, two imports, two-night windows, a day of two instants and the next day's first | see below |
| `source_imports` | two hotels, two imports out of nine requests (bookings, labor and invoices, web and command line; a status of the hotel's own that one file teaches and another needs), with or without a dry run first, one crash, refused statement or operator's change | whole imports only; one source per hotel and kind; a failed import switches off what it switched on, and nobody else's source; no unique key is ever violated; a file that passed its dry run fails of nothing of its own, but a word its source has lost since; every import ends |
| `snapshot_history` | five local days of two instants in four zones (no change, clock back, clock forward, a date skipped), two histories of bookings, imports at two instants | a reconstruction is of a day that is over and bounds what was true; nothing stored is rewritten; no evaluation uses what was not yet known |
| `source_learning` | three imports of five staff files (one with a column the engine only guesses), two at once, one forget or replace | what a person confirmed is kept or leaves its trace; nothing is read as nobody said; what was taught is not asked again |
| `web_session` | a tab and somebody else, lock after two failures for two ticks, two hotels, two periods; many logins or many clicks | no session outlives the password it was opened with; guesses are bounded; a rotation lifts the lock; a quiet page has settled |
| `decision_replay_counts` | as `decision_layer` | finding 1 |
| `decision_feed_last_analysis` | as `decision_reads` | finding 2 |
| `automatic_run_not_first` | as `property_analysis` | finding 3 |
| `automatic_run_past_midnight` | as `property_analysis` | finding 4 |

`property_analysis` checks that every snapshot row is what the imports finished by
its `as_of_at` had left and no other (`SnapshotIsOfItsInstant`); that the nights
of a run, some of them frozen by an earlier run of the day, are those of one
state of the bookings (`RunReadsOneState`); that two runs of a day agree on the
nights they share (`RunsOfADayAgree`); that the stated provenance is never older
than what was read (`ProvenanceCoversTheRun`; it may be newer, as
`decisions/provenance.py` says); that a channel mix read live has the rooms of the
snapshots (`MixMatchesTheSnapshots`); and that an automatic run within one day read
an import of that day (`AutomaticRunReadsTodaysImport`).

`snapshot_history` states the bound of a reconstruction only where the code can
keep it: for a source imported at or after the day's cutoff (`reconstruct` does not
check that) and for bookings whose dates and rooms do not change after they are
made. Then what is reconstructed as certain was so, and what was so is within it.

The bounds, and why they are enough: an interaction of the code is between two
parties (two sessions on one lock, a reader and a syncer, an analysis and an
import, two imports, a login and a rotation); a Decision's life has four runs'
worth of shapes (open, resolve, reopen, and one run that is late, repeated or
limited); a page boundary needs one row more than the page; a midnight needs two
days; reuse of rows within a day needs two runs and an import between them; a
source learned wrongly needs a file that teaches, one that corrects and one that
is read; a word lost between a dry run and its import needs an import that teaches it, one
that uses it, and one change of the configuration in between. `MaxSequence`,
`MaxClock`, `MaxImports`, `MaxEvents`, `MaxAtOnce`,
`MaxInterventions`, `Budgets`, `LastInstant` and `ImportInstants` are the only
cuts, each in one guard. Deadlock is checked except where an instance really comes
to its end; `DecisionLayer`, whose waiting on locks could be one, has an explicit
`Exhausted` step and keeps the check; in `SourceImports` a wait that never ends would
violate `EveryImportEnds`. `property_analysis` uses the symmetry of its sessions.

Every property of a passing run has a mutant in `PROJECT.json`: an operator of the
module, commented `Bug:`, which put in the place of a modelled definition makes
TLC find the property violated.

### Checks of pure modules

What a pure operator must do has no behaviour to explore. It is stated as a named
`ASSUME` over all inputs of a small pool, which TLC evaluates before the run of the
module that extends it.

| Where | About | Assumptions |
|---|---|---|
| `MCDecisionLayer` | `PriorityRanking` | `RankingIsOfTheSet`, `RefusalIsWhole` |
| `MCSourceImports` (run `source_imports`) | bookings | `InstantIsNeverChosen`, `OrderIsProvenOrOpen`, `PlainAmountsMeanOneThing`, `GroupsDoNotCount`, `OrderOfLinesIsNothing`, `OtherColumnsAreNotRead`, `SpellingIsNotAChange`, `SavedConstantsAlwaysRead`, `SuggestionsAreOnePerColumn` |
| | invoices | `CreditNotesAreNegativeOnce`, `LinesAgreeOrNothingIsRead`, `ReadyFilesAreWhole`, `PlaceIsNotContentOfNumberedLines`, `FormatIsNotContent`, `SavedInvoiceConstantsAlwaysRead` |
| | labor | `HoursAreExactOrRefused`, `CostsHaveTheirCurrency`, `LabelsAreAllThereIsToAsk`, `TwoCategoriesAreNone`, `SnapshotIsItsContent`, `SummaryIsOfTheKept`, `SavedLaborConstantsAlwaysRead`; `ReadersAgree` compares it with the bookings' reader |
| `MCSourceLearning` | `ColumnMeaning` | `EachFieldOnce`, `LockedColumnsStandApart`, `OrderNeverChangesAField`, `ContestsAreNeverDecided`, `OthersOnlyConfirm`, `PartnersAreSure`, `ExamplesOfTheMeanings` |
| `MCDecisionReads` | sheets | `DescribedIsRead`, `NothingIsPassedOver`, `TablesStandApart`, `DepartmentsAndTotalsHold`, `ReportsAreRead`, `WindowIsEnough`, `LabelsTellColumnsApart`, `GridLosesNothing`, `PartsStayApart` |
| | days and periods | `CalendarHolds`, `DatesAreNotInvented`, `TheStatedWeekIsRead`, `AnyDayOfTheWeekWillDo`, `OnePeriodIsStated` |
| | documents and plans | `EveryTableIsOfferedOnce`, `WinnersAreClear`, `OrderOfSheetsDoesNotMatter`, `KeysAreObeyed`, `PlansAreSound` |
| `DecisionContent` (run `decision_reads`) | a Decision's content | `WhatIsStoredIsWhatIsShown`, `TriggeredIsAdvised`, `NothingIsGuessed`, `TheAdviceCanBeExplained`, `HistoryGoesForward`, `NothingLeakedIsShown` |
| `MCPropertyAnalysis` | detectors | `CreditNeverTriggers`, `UnknownRoomsAreNoRooms`, `TriggeredCostIsRanked`, `StaffingKnowsNoFuture`, `UnrecordedIsNotUnworked`, `TriggeredStaffingIsRanked`, `OneCertainty` |
| | the Dati page | `MissingNightIsNotZero`, `ChangeIsOfItsNights`, `PageShowsWhatWasJudged`, `RunIsTheAuthority`, `WeightsAreOfTheMix`, `PageAddsUpJudgedPlans`, `FreshnessIsOfOneSource` |

The host of a check is only where TLC evaluates it: the sheets of
`MCDecisionReads` need nothing of `DecisionReads`.

### Fairness

`DecisionLayer` (`EverySyncEnds`) assumes weak fairness of a session's statements
(a process that is not killed executes its code; a killed one is `Rollback`, which
is not assumed) and strong fairness of `TakeLock`, because PostgreSQL queues the
waiters of an advisory lock and grants it in turn. Nobody has to call `sync`.

`SourceImports` (`EveryImportEnds`) assumes only that some import that can take its
next statement eventually does: weak fairness of the disjunction of the importers'
steps. Crashes, refusals, the operator and the arrival of requests are not assumed.
That no importer is starved needs no strong fairness, because an import has
finitely many steps and the wait for the import lock may time out (`GiveUp`, a step
of the importer).

The other specifications claim no liveness.

### Findings

1. A replayed `sync` answers counts of 0; `DecisionSyncResult` promises the
   original run's counts.
2. `get_feed` can report the requested day's own run as the last analysis of some
   *other* day, when it commits between two statements.
3. The policy's "at most one run per property-local day" is a check followed,
   transactions later, by a write: a manual run recorded in between gives the day
   an automatic run that is not its first.
4. The policy evaluates the day at one reading of the clock and the snapshot is
   dated by a later one: across midnight, an automatic run of a day without import
   freezes the day's observation on yesterday's bookings.

### What modelling showed besides

The models follow the code in each of these. They are not stated as violated
properties, but a maintainer should know them.

*Snapshots and baselines.* A reconstruction stored after a baseline makes its
recalculation differ, and fail with `BASELINE_CONFLICT`. More observed evidence can
lower the confidence: a fifth observation drops the sample to five.
`reconstruct` does not check how fresh the import is. In a zone whose clock goes
back over midnight (Goose Bay's 00:01 to 23:01) the date itself goes back; the
theorems exclude it.

*Imports.* The web import reads its source again after taking the lock but gets
the object it already holds, so it never notices a concurrent deactivation.
Command-line imports take no import lock. A person's own matching is read with the words
the source was taught, at the dry run and again at the import: a configuration forgotten
or replaced in between takes words away, and a file that passed its dry run is refused
with `VALIDATION_FAILED`. A configuration forgotten while an import reads with its words
comes back when that import is saved. A canonical-mode import with
`save_mapping` commits the mapping before the import and drops everything learned.
Importing the same invoices again can fail with `SUPPLIER_NAME_AMBIGUOUS` though the
docstring says idempotent.

*Smart Import.* A decision is verified before the import lock is taken: two imports
verified before either saves can leave two families no later file tells apart, and a
`REUSE` saved after a correction puts the old matching back; a forget in between
makes identities start at 1 again. A file recognised as its family's is read as the last
import read it, whichever columns the engine only guessed then: that family must have
something a person confirmed, but not those columns. A confirmation remembers only what was
answered on this screen. The `PERSONAL_DATA` branch of `_disagreement` is
unreachable.

*Rows.* An unconfigured "1.000" of bookings reads as 1.00 and is not asked
about; a slashed date behind a weekday is refused line by line instead of asked; the
bookings' fingerprint ignores a channel's display name and type. Without a mapped
line number the row's place in the file is part of an invoice's fingerprint, so a
longer re-export is a `DOCUMENT_CONFLICT`; an invoice number in different case on two
lines is `INCONSISTENT_HEADER` though grouping normalises it; lines with and without
VAT number form two documents; a credit note whose totals are all zero keeps the
signs of its lines. A saved labor or invoice mapping with thousands separator "."
and no decimal separator is valid and reads "7.5" as 75, where bookings refuse it.
The fingerprint of labor costs rounds half to even, the column half up.

*Columns.* `fit_percentage` is 0 for rates written "22%". Two columns equally good
under different rules are settled for the leftmost. The order of columns can decide
whether a contest is settled or asked, never which field is read.

*Documents.* `structure.py` says that the table described is exactly the table read.
Not so for a table of sparse rows only, a header repeated straight under a
department's line (read as a record), sparse rows after the last dense one followed
by a total (notes, yet imported), a lonely line after a page break and a department
(described, not imported), and a stacked second table in the unseen middle of a long
sheet (read into the first). Columns "Ore", "Ore" and "Ore (2)" get two equal labels.
A grid written day/month from 28/12 to 03/01 cannot be dated by naming a January
day. A month behind a weekday and a day is never compared with the period, and of
two periods with the same start the first end wins. A chosen table no file has any
more silently means the biggest.

*Detectors.* A credit note raises absolute exposure, so it can lift the
classification's coverage and turn insufficient data into a trigger. Partial costs
with full minutes make a reference rate too low. A historical window of OTA bookings
stops reconciling when a booking was made later on the day of its snapshot.

*A Decision's content.* Facts that are null reach the assistant as the text "None".
The question's page reads the latest observation and the history in two statements,
so a sync between them makes them differ. A leak in a limitation beyond the fifth
does not refuse the answer.

*Authentication and web.* `set_password` reads its clock before it hashes and waits:
a login that commits meanwhile makes the revocation violate a CHECK, and the
rotation rolls back (`RotationRefused`). A failed login that commits between
its SELECT and its UPDATE can leave its count or lock on the rotated account. The
feed's `refresh` has no guard against late answers: answered after a switch of the
hotel or the period, or midnight, it leaves the page busy (`overtaken`). The login
form works before the first `GET /auth/session` has answered: a late 401 then signs
the tab out of a session that is open; and a late session read after a logout signs
it in again.

## Proofs

Proved for every set of hotels, Decisions, inputs and sessions, and any bound:

- `MemoryInvariant` (`DecisionMemoryProofs`): the inductive invariant `MemoryInv` of
  the atomic syncs. `RowMatchesHistory` alone is not inductive: that a new
  observation is the last of its Decision follows only from the out-of-order
  check on the row's date, so the invariant also ties the row's dates to the
  last observation, orders the history, and ties every observation to a run of
  its hotel and every run to its observations. From it: `RowsMatchHistories`,
  `HistoriesInOrder`, `RunsUnique`, `RunsComplete`; and `MemoryAppendOnly`, an
  action property.
- `LayerInvariant` (`DecisionLayerProofs`): the lock of a hotel is held by whoever
  is between its first read and its end (`LockProtects`), so what a session read is
  still true (`ReadsStayTrue`), its sequence was drawn and is above every run
  (`SequencesDrawn`). `BoundLeavesRoom` belongs to the model's bound: a session that
  was let in never meets it. From it `ReadsAreNeverStale`, and
  `SessionsImplementMemory`: `Commit` is a `Sync` of the tables and every other
  step leaves them alone. `SessionsKeepMemory` carries the theorems on the
  tables over to the concurrent system.
- `ReadingsAreSound` (`DecisionReadsProofs`): the inductive invariant `ReadInv` of a
  client's reading while syncs commit. The order a list is paged in is the one every
  sync disturbs, so the invariant says how a row may have moved since it was read: only
  to the front (`Moved`: its dates never go back, and a row that changed was
  triggered again, evaluated later, or resolved, so it is never what it was before),
  and a new observation sorts before all there were (`Grown`). Then what was shown is
  behind the cursor and what was not is beyond it, whatever the order, the page size
  and the number of Decisions (`PageIsTheFirst`, `LastKeyIsLast`). A feed shows rows of
  a later moment than its run, so the invariant of the tables grows by what it needs:
  every observation is of an evaluation of its run, a run evaluates each of
  finitely many Decisions once, and a triggered Decision is open since
  (`OpenWhenTriggered`). From it `ListsNeverRepeat`, `ListsMissNothing`,
  `ItemsAreObserved`, `HistoriesAreWhole` and `FeedsAreOfTheirRun`.
- `DayIsSound` (`PropertyAnalysisProofs`): the inductive invariant `DayInv` of a day of
  analyses. An analysis reads the bookings under the lock of their source and goes on
  from the stored rows when the bookings have moved on, so the invariant follows it
  label by label: what it knows under the lock (`Holds`: nothing was imported since its
  `as_of_at`), what its rows are of once they are stored (`Stored`), and what its figures
  are of once they are read (`HasRead`), which is then true of the run it leaves
  (`RunIsSound`). Each part is about the imports, rows and runs it names and stays true as
  these grow, which is one lemma for each (`StatesStay`, `RowsStay`, ...); that a mix
  compares whole windows is a count of nights (`WholeWindows`). From it `DaysAreTyped`,
  `SnapshotsAreOfTheirInstant`, `RunsReadOneState`, `DaysAreObservedOnce`,
  `ProvenanceIsNeverOlder`, `MixesMatchTheirSnapshots` and `AutomaticRunsAreOfToday`,
  for any analyses, imports, nights, window, length of a day and bound of the clock.
- `HistoryIsSound` (`SnapshotHistoryProofs`): the inductive invariant `IInv` of the
  snapshots and baselines. `ReconstructionIsOfThePast` is about the past of a
  moving date, so the proof first shows that dates never go back
  (`DatesKeepOrder`, from the assumption on the zones); and `NoHindsight` needs to know
  what a stored baseline was compared with, so the invariant says that a baseline
  is of a day that has come and that its comparables are older, stored candidates.
  From it `ReconstructionsAreOver`, `NothingIsSeenInHindsight` and the action property
  `EvidenceIsNeverRewritten`. They hold for any histories of bookings, ranges,
  capacities, nights, calendar, sample sizes and windows, and for every zone with
  one change of the clock that does not take its dates back.
- `PastIsBounded` (`SnapshotHistoryProofs`): a reconstruction bounds what was true. Its
  invariant, `World`, says little, because the work is about one booking:
  `WindowsBoundTheTruth` shows, status by status of the stored booking, that the days
  its window calls certain are days it was on and that no day it was on is left out of
  both. That rests on what bisecting the cutoffs counts (`BisectingCounts`) and on
  cutoffs in the order of their days, which a clock that skips at most a day keeps
  (`RangesAreOrdered`). The totals of a night then compare as the sums over the
  bookings they count (`TotalsAreSums`, `RoomsOfAUnion`, by induction over the number of
  bookings stated with sets as in `NumbersFromZero`), for any finite past.
- `LearningIsSound` and `MemoryIsSaid` (`SourceLearningProofs`): the inductive invariants
  `LearnInv` and `SaidInv` of what a source has learned. Identities and uses of families are
  counts of the saves, so no two families share one, and there are never more than are
  kept. An import saves on the families it read when it took the lock; the lock keeps
  the other imports out, so these are the families still, or all of them were forgotten
  (`SavingStep`). That the source can spare a family, and that the one it spares is the
  least recently used of a person's only when no other is left, is `SomeIsLeastUseful`
  and `PruningKeeps`. From the first, `NothingConfirmedIsLost`, an action property. The
  second invariant says that what a family holds of a person is what it is mapped to, and
  that the family the saved matching is of was used last. With it every way a
  column can be read without a question has an author (`ReadingsHaveAnAuthor`: the
  engine, the family chosen, or the last import if it was of that family), where the
  chosen family exists because the comparison is a strict order of finitely many
  (`AFamilyIsChosen`, `FirstInOrder`); hence `NothingIsEverInvented`. For any files,
  matchings by hand, requirement groups, numbers of imports and of families and entries
  of history kept.
- `PropertyAnalysisProofs` also holds the ranking's: `TriggeredIsSevere` (an evaluation at its detector's
  thresholds has at least half of the impact scale, by cases over the five
  detectors), `RankingIsTotal` (the eight keys are a strict total order of candidates
  with different fingerprints: irreflexive, transitive, connected, lexicographically
  from the orders of the keys), and `RanksAreUnique`.

- `AccountIsSound` (`WebSessionProofs`): the inductive invariant `AccountInv` of the
  account. Its core is `Locked`: whoever holds the credential's row knows what it
  says, because a login keeps the row until it writes and `set_password` writes only
  when no login holds it. Without it neither the counter (`Counted`: the guesses since
  the last success are those the row counts, and it is locked from the last allowed
  one on) nor the sessions (`OpenOnes`: an open one is of today's password) would
  be preserved by the second half of a login. From it `SessionsAreOfThePassword`,
  `GuessingIsBounded` and `RotationsLiftTheLock`, for any number of attempts and any
  limit and duration of the lock.
- `QuietPagesHaveSettled` (`WebSessionProofs`): by `Settling`, which says that what a hook
  holds is the answer to what it asked last and that a hotel which was not found is
  one the account has lost; for any hotels and periods.
- `SourcesAreSound` (`SourceImportsProofs`): the inductive invariant `SourcesInv` of the
  import's sources. `ImportsMakeOneSource` alone is not inductive: that the write of
  `SwitchOn` makes no second source rests on what was read a transaction earlier,
  so `NothingOn` says that this reading stays true, and `OneHolder` (the import lock
  excludes) is why; `Marked` and `OwnMark` tie a source to the import that
  switched it on, so that undoing an import undoes its own doing only. From it
  `FailuresLeaveNothingOn`, `ImportsNeverDouble` and the action property
  `SwitchedOffByOwners`: for any requests and any number of imports, crashes, refused
  statements and operations.
- `ImportsAreSound` (`SourceImportsProofs`): the inductive invariant `ImportsInv` of the
  canonical write. An import decides in one statement and writes in a later one, so
  the invariant says that what it decided is what it would decide now (`Foreseen`).
  That survives the other imports because a change is decided on the rows of its key
  only (`ChangeReads`): those of a source, which its lock keeps to one import
  (`OneWriter`), or the registry and the invoices filed under it, which the registry's
  lock does (`OneRegistrar`; `KeysAreOfOne` says that no two kinds of row share a key).
  A plan of suppliers only adds to the registry it was made on and leaves one owner to
  an identifier, for any number of invoices (`PlanIsSound`, by induction over the
  evidences: `NumbersFromZero` states induction over a set of numbers, so that it
  takes no operator as a parameter). From it `NoWriteIsRejected` and
  `ImportsAreWhole`, the refinement of `ImportLedger` step by step: `Write` is an
  `Import` of the data as they are (`WritingIsAnImport`) and every other step leaves
  them alone. That a job and a source are among the ledger's numbers is a count of
  the imports that got that far (`Counted`). The theorem cites, operator by operator,
  that `ImportLedger`'s copy of `CanonicalImport` is the same (`LedgerChanges` and
  the lemmas before it).
- `DryRunIsTrue` (`SourceImportsProofs`): from `DryRunInv`, which is `ImportsInv` and, for an
  import whose file passed its dry run, what that still tells of it. What
  was said is what the words of that moment make of the file (`Told`); while the import
  reads, it knows every word its source still has (`Worded`); and what it fails of
  for its file is what the words it knows make of it (`Blamed`). `Worded`
  survives the other imports because a configuration is written under the import lock of
  the source's hotel and kind or by an operator, who only takes words away
  (`WritersOfLabels`, `LabelsOnlyGo`); that two readings of one file differ
  in rows that need a word only one of them knows is `OnlyLostWordsRefuse`.

The constants' assumptions are named `ASSUME`s of the modules, evaluated by TLC in
every run: a finite set of sessions, `NoInput` and `Nobody` outside their sets, the
shape of the inputs, zones whose dates never go back and which skip at most
a day, pasts of finitely many bookings none of which is both cancelled and a no-show
or a no-show before its arrival day, numbers for days and nights,
the sign of the windows, imports from the web or the command line of one of the three
kinds, whose rows are a sequence and say whether they can be used and in which words,
whose files of columns have a layout and of which only those from the web bring a matching, no error
that is no value, an owner of the credential's row that is none of the attempts, a
holder of the source's lock that is no analysis, ids that are different numbers, a
positive page size, a night for every day of the windows, files whose columns are a
sequence, matchings by hand of the file's own columns, and a `None` that is no number.

Only model-checked: `EverySyncEnds` and `EveryImportEnds` (liveness under fairness is
out of the prover's reach); `TaughtIsKnown`, which compares two readings of one file across
a save and would need every step of the matching to be re-proved of the changed family;
and the checks of the pure modules, which run what recursive definitions compute over
their inputs.

## Plan

Done: all modules above. Next:

1. The rest of `SourceLearning`: the domains of families, layouts and labels, the
   choice of the table.
2. The assistant of the home page: intents, periods, what it may read.

## Not modelled

- The language-model gateway, the narrative and the assistant that names columns:
  external calls; what their answers may do is modelled where they are used.
- The home page's assistant, the detection of a file's kind, and the reading of a
  single cell's text (dates, numbers, names of people), which is given to the
  models as its possible readings.
- A person's verification of supplier aliases, their default cost categories,
  similarity; tenancy, memberships and properties, rows without a protocol between
  them; the policy's configuration; the pilot's setup.
- Texts and wording everywhere; rendering; deployment.

`PROJECT.json` gives the state of each component.
