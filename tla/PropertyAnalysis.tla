-------------------------- MODULE PropertyAnalysis --------------------------
(***************************************************************************)
(* One day of analysis of one hotel: the booking imports that rewrite its  *)
(* canonical bookings, the OBSERVED snapshots that freeze them, and the    *)
(* runs (manual, or of the automatic policy) that go from one to the       *)
(* Decisions.  Analyses run in processes of their own, commit in several   *)
(* transactions, and share only the database, the advisory lock of the     *)
(* booking source and the clock.                                           *)
(*                                                                         *)
(* A booking night is [rooms, revenue, channel]; a snapshot row keeps the  *)
(* first two, which stand for the fingerprinted content.  The sync of a    *)
(* run is one step (DecisionLayerProofs shows that it is atomic) and its   *)
(* own refusals are among the failures of Fail.                            *)
(***************************************************************************)
EXTENDS Naturals, Sequences, FiniteSets

CONSTANTS
  Session,        \* the processes that analyse: worker threads, CLI calls
  Night,          \* the stay nights, numbered like the days
  Books,          \* the states of the canonical bookings: Night -> content
  FirstBooks,     \* the state the day starts from
  ManualWindow,   \* the windows an operator asks for: sets of nights
  WindowDays,     \* AUTOMATIC_STAY_WINDOW_DAYS and FORWARD_STAY_WINDOW_DAYS
  DayLength,      \* instants of a local day
  MaxClock,       \* bound: the last instant of the model
  MaxImports      \* bound: imports that succeed

ASSUME BooksAssumption ==
  FirstBooks \in Books /\ \A b \in Books : DOMAIN b = Night
ASSUME ClockAssumption ==
  /\ DayLength \in Nat \ {0} /\ WindowDays \in Nat \ {0}
  /\ MaxClock \in Nat /\ MaxImports \in Nat
  /\ Night = 0 .. (MaxClock \div DayLength) + WindowDays - 1
ASSUME WindowAssumption == ManualWindow \subseteq (SUBSET Night) \ {{}}

VARIABLES
  clock,       \* datetime.now(UTC), in instants
  imports,     \* the SUCCEEDED import jobs, with the bookings each one left
  writing,     \* the import that has set finished_at and has not committed
  lock,        \* who holds lock_data_source
  snapshots,   \* the OBSERVED booking snapshots
  runs,        \* the decision runs, in the order they were committed
  queued,      \* is an analysis.run_policy job waiting in the queue?
  session      \* what each analysis has read so far

vars == <<clock, imports, writing, lock, snapshots, runs, queued, session>>

Nobody == "nobody"
Importer == "import"
ASSUME SessionAssumption == Nobody \notin Session /\ Importer \notin Session

NoImport == [finishedAt |-> 0, books |-> <<>>]
NoOta == <<>>
NoRun == 0

Content(b) == [rooms |-> b.rooms, revenue |-> b.revenue]

-----------------------------------------------------------------------------
(* What the database answers.                                              *)

LocalDay(t) == t \div DayLength
LocalDayStart(day) == day * DayLength
Window(day) == day .. day + WindowDays - 1

\* The canonical bookings once the first n imports have committed.
BooksAfter(n) == IF n = 0 THEN FirstBooks ELSE imports[n].books
BooksNow == BooksAfter(Len(imports))

\* DecisionRun.as_of_local_date = the local date.
RunExistsFor(day) == \E k \in DOMAIN runs : runs[k].asOf = day

\* Bug: an import of any earlier day counts.
SucceededBefore(notBefore, notAfter) ==
  \E k \in DOMAIN imports : imports[k].finishedAt <= notAfter

HasSucceededBetween(notBefore, notAfter) ==
  \E k \in DOMAIN imports :
    notBefore <= imports[k].finishedAt /\ imports[k].finishedAt <= notAfter

\* Bug: ORDER BY finished_at without DESC.
EarliestSucceeded == IF imports = <<>> THEN 0 ELSE 1

\* latest_succeeded_for_data_source.  Imports of one source finish under its
\* lock, so the last to commit is the last to finish; 0 is none.
LatestSucceeded == Len(imports)

Observed(day, nights) ==
  {row \in snapshots : row.day = day /\ row.night \in nights}

ObservedContent(day, night) ==
  (CHOOSE row \in snapshots : row.day = day /\ row.night = night).content

-----------------------------------------------------------------------------
Idle ==
  [pc |-> "idle", automatic |-> FALSE, now |-> 0, window |-> {}, at |-> 0,
   revenue |-> <<>>, ota |-> NoOta, provenance |-> 0, run |-> NoRun,
   replayed |-> FALSE]

Init ==
  /\ clock = 0
  /\ imports = <<>>
  /\ writing = NoImport
  /\ lock = Nobody
  /\ snapshots = {}
  /\ runs = <<>>
  /\ queued = FALSE
  /\ session = [s \in Session |-> Idle]

Tick ==
  /\ clock < MaxClock
  /\ clock' = clock + 1
  /\ UNCHANGED <<imports, writing, lock, snapshots, runs, queued, session>>

-----------------------------------------------------------------------------
(* The booking import: its canonical transaction.                          *)

\* Bug: an import and a snapshot run do not exclude each other.
NoSnapshotRunHolds == lock \in {Nobody, Importer}

LockFree == lock = Nobody

ImportLocks ==
  /\ LockFree
  /\ Len(imports) < MaxImports
  /\ lock' = Importer
  /\ UNCHANGED <<clock, imports, writing, snapshots, runs, queued, session>>

\* upsert_from_import, then succeed() stamps finished_at.
ImportSucceeds(b) ==
  /\ lock = Importer
  /\ writing = NoImport
  /\ writing' = [finishedAt |-> clock, books |-> b]
  /\ UNCHANGED <<clock, imports, lock, snapshots, runs, queued, session>>

ImportCommits ==
  /\ writing # NoImport
  /\ imports' = Append(imports, writing)
  /\ writing' = NoImport
  /\ lock' = Nobody
  /\ UNCHANGED <<clock, snapshots, runs, queued, session>>

\* The database rejects the batch, or the process dies: nothing survives.
ImportRollsBack ==
  /\ lock = Importer
  /\ writing' = NoImport
  /\ lock' = Nobody
  /\ UNCHANGED <<clock, imports, snapshots, runs, queued, session>>

-----------------------------------------------------------------------------
(* The policy: the dispatcher, the queue, the evaluation at execution.     *)

\* evaluate_policy, the configuration apart (see PolicySkips).
Eligible(now) ==
  /\ ~RunExistsFor(LocalDay(now))
  /\ HasSucceededBetween(LocalDayStart(LocalDay(now)), now)

\* dispatch-analysis: a job, unless one is still waiting (AlreadyEnqueued).
\* It carries the hotel and nothing of the evaluation.
Dispatch ==
  /\ Eligible(clock)
  /\ ~queued
  /\ queued' = TRUE
  /\ UNCHANGED <<clock, imports, writing, lock, snapshots, runs, session>>

\* An analysis ends; its transaction, if one is open, ends with it.
End(s, last) ==
  /\ session' = [session EXCEPT ![s] = [last EXCEPT !.pc = "done"]]
  /\ lock' = IF lock = s THEN Nobody ELSE lock

Advance(s, from, to) == session[s].pc = from /\ to.pc # from
                        /\ session' = [session EXCEPT ![s] = to]

\* The worker takes the job; its queueing lock is free from here on.  `now` is
\* read once; nothing blocks the configuration and the day has no run yet.
PolicyReadsRuns(s) ==
  /\ queued
  /\ queued' = FALSE
  /\ ~RunExistsFor(LocalDay(clock))
  /\ Advance(s, "idle", [Idle EXCEPT !.pc = "evaluating", !.automatic = TRUE,
                                     !.now = clock])
  /\ UNCHANGED <<clock, imports, writing, lock, snapshots, runs>>

\* ALREADY_ANALYZED_TODAY; or POLICY_DISABLED or another blocker of the
\* configuration, which is outside this module and may block at any time.
PolicySkips(s) ==
  /\ queued
  /\ session[s].pc = "idle"
  /\ queued' = FALSE
  /\ End(s, Idle)
  /\ UNCHANGED <<clock, imports, writing, snapshots, runs>>

\* The window of the run is that of the evaluated local date.
PolicyReadsImports(s) ==
  LET now == session[s].now IN
  /\ HasSucceededBetween(LocalDayStart(LocalDay(now)), now)
  /\ Advance(s, "evaluating", [session[s] EXCEPT !.pc = "ready",
                                 !.window = Window(LocalDay(now))])
  /\ UNCHANGED <<clock, imports, writing, lock, snapshots, runs, queued>>

\* NO_TODAY_BOOKING_IMPORT.
PolicyFindsNoImport(s) ==
  LET now == session[s].now IN
  /\ session[s].pc = "evaluating"
  /\ ~HasSucceededBetween(LocalDayStart(LocalDay(now)), now)
  /\ End(s, Idle)
  /\ UNCHANGED <<clock, imports, writing, snapshots, runs, queued>>

\* The CLI, or an enqueued analysis.run_property: no policy, any window.
StartManual(s, w) ==
  /\ Advance(s, "idle", [Idle EXCEPT !.pc = "ready", !.window = w])
  /\ UNCHANGED <<clock, imports, writing, lock, snapshots, runs, queued>>

-----------------------------------------------------------------------------
(* run_property_analysis                                                   *)

\* _begin: first the lock of the source, then the clock.
LockSource(s) ==
  /\ LockFree
  /\ lock' = s
  /\ Advance(s, "ready", [session[s] EXCEPT !.pc = "locked", !.at = clock])
  /\ UNCHANGED <<clock, imports, writing, snapshots, runs, queued>>

\* The rows take_snapshot calculates from the bookings it reads.
Calculated(s) ==
  {[day |-> LocalDay(session[s].at), night |-> n, at |-> session[s].at,
    content |-> Content(BooksNow[n])] : n \in session[s].window}

SameKey(row, other) == row.day = other.day /\ row.night = other.night

\* Bug: a stored row of the same key is taken for the same content.
NeverConflicts(s) == FALSE

\* _store: a row of the same key with another content.
Conflicts(s) ==
  \E row \in Calculated(s), stored \in snapshots :
    SameKey(row, stored) /\ row.content # stored.content

\* Bug: what differs is updated in place (ON CONFLICT DO UPDATE).
StoreOrReplace(s) ==
  /\ Advance(s, "locked", [session[s] EXCEPT !.pc = "stored"])
  /\ snapshots' = {row \in snapshots :
                     \A new \in Calculated(s) : ~SameKey(row, new)}
                    \cup Calculated(s)
  /\ lock' = Nobody
  /\ UNCHANGED <<clock, imports, writing, runs, queued>>

\* Every row is new or the same as the stored one: the new ones are inserted
\* and the transaction commits.
StoreSnapshots(s) ==
  /\ ~Conflicts(s)
  /\ Advance(s, "locked", [session[s] EXCEPT !.pc = "stored"])
  /\ snapshots' = snapshots \cup
       {row \in Calculated(s) : \A stored \in snapshots : ~SameKey(row, stored)}
  /\ lock' = Nobody
  /\ UNCHANGED <<clock, imports, writing, runs, queued>>

\* BOOKING_SNAPSHOT_CONFLICT: nothing of this run is stored.
SnapshotConflict(s) ==
  /\ session[s].pc = "locked"
  /\ Conflicts(s)
  /\ End(s, Idle)
  /\ UNCHANGED <<clock, imports, writing, snapshots, runs, queued>>

\* Bug: the mix is trusted as it is.
ReconciledAlways(rows) == TRUE

\* build_target_facts: the rooms of the mix, night by night.
Reconciled(rows) ==
  \A row \in rows : BooksNow[row.night].rooms = row.content.rooms

\* The channel mix needs every night of the day's window observed, and is
\* then read from the live bookings; anything else is INSUFFICIENT_DATA.
OtaMix(day) ==
  LET rows == Observed(day, Window(day)) IN
  IF Cardinality(rows) = WindowDays /\ Reconciled(rows)
  THEN [n \in Window(day) |->
          [channel |-> BooksNow[n].channel, rooms |-> BooksNow[n].rooms]]
  ELSE NoOta

\* Steps 2 to 6.  The stored rows never change, so that the revenue signals
\* and the mix read them one after the other makes no difference.
Evaluate(s) ==
  LET day == LocalDay(session[s].at) IN
  /\ Advance(s, "stored",
       [session[s] EXCEPT !.pc = "evaluated", !.ota = OtaMix(day),
          !.revenue = [n \in session[s].window |-> ObservedContent(day, n)]])
  /\ UNCHANGED <<clock, imports, writing, lock, snapshots, runs, queued>>

ReadProvenance(s) ==
  /\ Advance(s, "evaluated", [session[s] EXCEPT !.pc = "ranked",
                                !.provenance = LatestSucceeded])
  /\ UNCHANGED <<clock, imports, writing, lock, snapshots, runs, queued>>

\* What the input fingerprint of a run is made of, for runs of the same
\* coverage: Revenue and Distribution, as in the automatic policy.
RunInput(s) ==
  [asOf |-> LocalDay(session[s].at), revenue |-> session[s].revenue,
   ota |-> session[s].ota, provenance |-> session[s].provenance]

\* Bug: the answer names a run whose transaction was rolled back.
RecordLost(s) ==
  /\ session[s].pc = "ranked"
  /\ \A k \in DOMAIN runs : runs[k] # RunInput(s)
  /\ End(s, [session[s] EXCEPT !.run = Len(runs) + 1])
  /\ UNCHANGED <<clock, imports, writing, snapshots, runs, queued>>

\* sync: a new run.
RecordRun(s) ==
  /\ session[s].pc = "ranked"
  /\ \A k \in DOMAIN runs : runs[k] # RunInput(s)
  /\ runs' = Append(runs, RunInput(s))
  /\ End(s, [session[s] EXCEPT !.run = Len(runs) + 1])
  /\ UNCHANGED <<clock, imports, writing, snapshots, queued>>

\* sync: the run of this very input exists.
ReplayRun(s) ==
  /\ session[s].pc = "ranked"
  /\ \E k \in DOMAIN runs :
       /\ runs[k] = RunInput(s)
       /\ End(s, [session[s] EXCEPT !.run = k, !.replayed = TRUE])
  /\ UNCHANGED <<clock, imports, writing, snapshots, runs, queued>>

\* Any exception of any step, a refusal of the sync or the death of the
\* process.  No retry: what was committed stays, the open transaction goes.
Fail(s) ==
  /\ session[s].pc \notin {"idle", "done"}
  /\ End(s, Idle)
  /\ UNCHANGED <<clock, imports, writing, snapshots, runs, queued>>

-----------------------------------------------------------------------------
Import ==
  \/ ImportLocks
  \/ \E b \in Books : ImportSucceeds(b)
  \/ ImportCommits
  \/ ImportRollsBack

Policy(s) ==
  \/ PolicyReadsRuns(s) \/ PolicySkips(s)
  \/ PolicyReadsImports(s) \/ PolicyFindsNoImport(s)

Analysis(s) ==
  \/ \E w \in ManualWindow : StartManual(s, w)
  \/ LockSource(s)
  \/ StoreSnapshots(s) \/ SnapshotConflict(s)
  \/ Evaluate(s) \/ ReadProvenance(s)
  \/ RecordRun(s) \/ ReplayRun(s)
  \/ Fail(s)

Next ==
  \/ Tick
  \/ Dispatch
  \/ Import
  \/ \E s \in Session : Policy(s) \/ Analysis(s)

Spec == Init /\ [][Next]_vars

-----------------------------------------------------------------------------
\* The shape of the tables, of the lock and of the sessions.
TypeOK ==
  /\ clock \in 0 .. MaxClock
  /\ Len(imports) <= MaxImports
  /\ \A k \in DOMAIN imports :
       imports[k].finishedAt \in 0 .. clock /\ imports[k].books \in Books
  /\ lock \in Session \cup {Nobody, Importer}
  /\ \A row \in snapshots : row.at \in 0 .. clock /\ row.night \in Night
  /\ queued \in BOOLEAN
  /\ \A s \in Session :
       /\ session[s].pc \in {"idle", "evaluating", "ready", "locked", "stored",
                             "evaluated", "ranked", "done"}
       /\ session[s].run \in 0 .. Len(runs)

Done(s) == session[s].pc = "done" /\ session[s].run # NoRun
RunOf(s) == runs[session[s].run]

\* The runs that followed from an evaluation of the policy, not a replay of a
\* run that was there before it.
AutomaticRun(s) == Done(s) /\ session[s].automatic /\ ~session[s].replayed

\* Is this what the bookings were after the first n imports?
IsStateAfter(revenue, n) ==
  \A night \in DOMAIN revenue :
    revenue[night] = Content(BooksAfter(n)[night])

\* "every import committed before the lock is older than as_of_at, and none can
\* commit between the lock and the reads" (_begin): a snapshot row is what the
\* imports finished by its instant had left, all of them and no other.
SnapshotIsOfItsInstant ==
  \A row \in snapshots :
    \E n \in 0 .. Len(imports) :
      /\ row.content = Content(BooksAfter(n)[row.night])
      /\ \A k \in DOMAIN imports :
           IF k <= n THEN imports[k].finishedAt <= row.at
                     ELSE imports[k].finishedAt >= row.at

\* A run never mixes two states of the bookings: however old the rows it
\* reused, the nights of its window are those of ONE import.
RunReadsOneState ==
  \A k \in DOMAIN runs :
    \E n \in 0 .. Len(imports) : IsStateAfter(runs[k].revenue, n)

\* One observation of a day: two runs of the same local day, whatever was
\* imported between them, evaluated the same figures for a night of both.
RunsOfADayAgree ==
  \A j, k \in DOMAIN runs :
    runs[j].asOf = runs[k].asOf =>
      \A night \in DOMAIN runs[j].revenue \cap DOMAIN runs[k].revenue :
        runs[j].revenue[night] = runs[k].revenue[night]

\* The freshness a run states is never older than the bookings it read.
ProvenanceCoversTheRun ==
  \A k \in DOMAIN runs :
    \E n \in 0 .. runs[k].provenance : IsStateAfter(runs[k].revenue, n)

\* A channel mix that was evaluated has, night by night, the rooms of the
\* day's snapshots, although it was read from the bookings of a later moment.
MixMatchesTheSnapshots ==
  \A k \in DOMAIN runs :
    LET run == runs[k] IN
    run.ota # NoOta =>
      \A row \in Observed(run.asOf, Window(run.asOf)) :
        run.ota[row.night].rooms = row.content.rooms

\* An automatic run that did not cross midnight evaluated the bookings of an
\* import of its own day (the job may have waited in the queue since another).
AutomaticRunReadsTodaysImport ==
  \A s \in Session :
    AutomaticRun(s) /\ RunOf(s).asOf = LocalDay(session[s].now) =>
      \E k \in DOMAIN imports :
        /\ LocalDay(imports[k].finishedAt) = RunOf(s).asOf
        /\ \E n \in k .. Len(imports) : IsStateAfter(RunOf(s).revenue, n)

\* "at most one run per property-local day: a DecisionRun for today (manual or
\* automatic ...) means SKIP": an automatic run is the first of its day.
AutomaticRunIsFirstOfItsDay ==
  \A s \in Session :
    AutomaticRun(s) =>
      \A j \in 1 .. session[s].run - 1 : runs[j].asOf # RunOf(s).asOf

\* "it runs only if today's booking import exists ... never a stale automatic
\* run": an automatic run is of a day that had its import.
AutomaticRunIsOfAnImportDay ==
  \A s \in Session :
    AutomaticRun(s) =>
      \E k \in DOMAIN imports :
        LocalDay(imports[k].finishedAt) = RunOf(s).asOf
=============================================================================
