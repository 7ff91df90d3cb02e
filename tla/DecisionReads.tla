--------------------------- MODULE DecisionReads ---------------------------
(***************************************************************************)
(* The reads of the Decision API while syncs commit (which DecisionLayer   *)
(* shows to be atomic).  A reading is several statements, under READ       *)
(* COMMITTED, or several requests: a page and then the latest observation  *)
(* of each of its Decisions; a feed's run and then its items; page after   *)
(* page from the cursor of the last row.                                   *)
(***************************************************************************)
EXTENDS DecisionMemory, Integers

CONSTANTS
  IdOrder,   \* the tie-break (decision_type, id): a number for each identity
  Limit      \* rows of a page

ASSUME IdOrderAssumption ==
  /\ IdOrder \in [Identity -> Nat]
  /\ \A d, e \in Identity : IdOrder[d] = IdOrder[e] => d = e
ASSUME LimitAssumption == Limit \in Nat \ {0}

VARIABLES
  task,      \* what the client is reading
  step,      \* the statement that comes next
  page,      \* what the first statement of a request returned
  cursor,    \* the key of the last row of the previous page, or Start
  shown,     \* everything the client has been shown
  atStart    \* the tables when the reading began

vars == <<memory, task, step, page, cursor, shown, atStart>>

ListTask ==
  [kind : {"list"}, property : Property, status : {"ANY", "OPEN", "RESOLVED"}]
HistoryTask == [kind : {"history"}, property : Property, decision : Identity]
FeedTask == [kind : {"feed"}, property : Property, asOf : {i.asOf : i \in Input}]

NoTask == [kind |-> "none"]
Start == <<>>
NoPage == {}
NoTables == [rows |-> <<>>, observations |-> <<>>]

Init ==
  /\ MemoryInit
  /\ task = NoTask
  /\ step = "idle"
  /\ page = NoPage
  /\ cursor = Start
  /\ shown = {}
  /\ atStart = NoTables

-----------------------------------------------------------------------------
(* Keyset pages: a key is the tuple of the ORDER BY columns, the descending  *)
(* ones (dates, sequences) negated, the id as it is.                         *)

\* Bug: the Decision evaluated longest ago comes first.
RowKeyOldestFirst(d, row) == <<row.lastEvaluated, row.lastSeen, IdOrder[d]>>

RowKey(d, row) ==
  <<-row.lastEvaluated, -row.lastSeen, IdOrder[d]>>

\* Bug: the oldest run of a day first, as in the internal history.
ObservationKeyAscending(o) == <<-o.asOf, o.seq>>

ObservationKey(o) == <<-o.asOf, -o.seq>>

\* _seek_predicate: a comes strictly before b in the order of the columns.
Before(a, b) ==
  \E k \in DOMAIN a :
     /\ \A j \in 1..(k - 1) : a[j] = b[j]
     /\ a[k] < b[k]

\* Bug: only the first column is compared with the cursor.
AfterFirstColumn(keyed) == {x \in keyed : cursor = Start \/ cursor[1] < x.key[1]}

AfterCursor(keyed) == {x \in keyed : cursor = Start \/ Before(cursor, x.key)}

\* The first Limit of the rows after the cursor.
PageOf(keyed) ==
  {x \in AfterCursor(keyed) :
     Cardinality({y \in AfterCursor(keyed) : Before(y.key, x.key)}) < Limit}

\* limit + 1 rows were found: there is a page after this one.
HasMore(keyed) == Cardinality(AfterCursor(keyed)) > Limit

LastKey(rows) == (CHOOSE x \in rows : \A y \in rows \ {x} : Before(y.key, x.key)).key

-----------------------------------------------------------------------------
Matches(row, status) ==
  row.status # "NONE" /\ (status = "ANY" \/ row.status = status)

\* The client starts reading.
Open ==
  /\ step = "idle"
  /\ \/ task' \in ListTask /\ step' = "rows"
     \/ task' \in HistoryTask /\ step' = "observations"
     \/ task' \in FeedTask /\ step' = "run"
  /\ atStart' = [rows |-> decisions[task'.property],
                 observations |-> history[task'.property]]
  /\ UNCHANGED <<memory, page, cursor, shown>>

\* list_decisions_page, the first statement.
ListRows ==
  LET rows  == decisions[task.property]
      keyed == {[key |-> RowKey(d, rows[d]), decision |-> d, row |-> rows[d]] :
                  d \in {d \in Identity : Matches(rows[d], task.status)}}
  IN
  /\ step = "rows"
  /\ page' = [rows |-> PageOf(keyed), more |-> HasMore(keyed)]
  /\ step' = "latest"
  /\ UNCHANGED <<memory, task, cursor, shown, atStart>>

\* Bug: DISTINCT ON keeps the first observation of every Decision.
EarliestObservation(o, observations) ==
  \A x \in observations \ {o} : Before(ObservationKey(x), ObservationKey(o))

\* DISTINCT ON: the first of the Decision's observations, newest first.
LatestObservation(o, observations) ==
  \A x \in observations \ {o} : Before(ObservationKey(o), ObservationKey(x))

\* latest_observations_of, the second statement, and the next cursor.
ListLatest ==
  LET items == {[key |-> x.key, decision |-> x.decision, row |-> x.row,
                 latest |-> {o \in history[task.property][x.decision] :
                     LatestObservation(o, history[task.property][x.decision])},
                 after |-> cursor] : x \in page.rows}
  IN
  /\ step = "latest"
  /\ shown' = shown \cup items
  /\ IF page.more
     THEN cursor' = LastKey(page.rows) /\ step' = "rows"
     ELSE UNCHANGED cursor /\ step' = "done"
  /\ page' = NoPage
  /\ UNCHANGED <<memory, task, atStart>>

\* history_page_desc: one statement a page.
HistoryPage ==
  LET keyed == {[key |-> ObservationKey(o), observation |-> o, after |-> cursor] :
                  o \in history[task.property][task.decision]}
  IN
  /\ step = "observations"
  /\ shown' = shown \cup PageOf(keyed)
  /\ IF HasMore(keyed)
     THEN cursor' = LastKey(PageOf(keyed)) /\ UNCHANGED step
     ELSE UNCHANGED cursor /\ step' = "done"
  /\ UNCHANGED <<memory, task, page, atStart>>

\* latest_run: the run of this very day with the highest sequence.
RunsOfDay == {r \in RunsOf(task.property) : r.input.asOf = task.asOf}

LastRun(rs) == {r \in rs : \A s \in rs : s.seq <= r.seq}

FeedRun ==
  /\ step = "run"
  /\ page' = [run |-> LastRun(RunsOfDay)]
  /\ step' = IF RunsOfDay = {} THEN "overall" ELSE "items"
  /\ UNCHANGED <<memory, task, cursor, shown, atStart>>

\* latest_run_overall: only when the day has no run.
FeedNotProcessed ==
  /\ step = "overall"
  /\ shown' = {[state |-> "NOT_PROCESSED", last |-> r] :
                 r \in LastRun(RunsOf(task.property))}
  /\ step' = "done"
  /\ page' = NoPage
  /\ UNCHANGED <<memory, task, cursor, atStart>>

CountOf(run, statuses) ==
  Cardinality({e \in run.input.evaluations : e.status \in statuses})

FeedState(run) ==
  IF CountOf(run, {"TRIGGERED"}) > 0 THEN "ACTION_REQUIRED"
  ELSE IF CountOf(run, {"INSUFFICIENT_DATA", "SUPPRESSED_LOW_CONFIDENCE"}) > 0
       THEN "DATA_QUALITY_LIMITED"
       ELSE "NO_ACTION_REQUIRED"

\* Bug: the feed lists the Decisions that are open now.
OpenNow(run) ==
  {d \in Identity : decisions[task.property][d].status = "OPEN"}

TriggeredBy(run) ==
  {d \in Identity : \E o \in history[task.property][d] :
                       o.seq = run.seq /\ o.status = "TRIGGERED"}

\* feed_rows: each TRIGGERED observation of the run with its Decision's
\* present row.  Nothing is read in another state.
FeedItems ==
  /\ step = "items"
  /\ \E run \in page.run :
       shown' = {[state |-> FeedState(run), run |-> run,
                  items |-> IF FeedState(run) = "ACTION_REQUIRED"
                            THEN {[decision |-> d, row |-> decisions[task.property][d]] :
                                    d \in TriggeredBy(run)}
                            ELSE {}]}
  /\ step' = "done"
  /\ page' = NoPage
  /\ UNCHANGED <<memory, task, cursor, atStart>>

Close ==
  /\ step = "done"
  /\ task' = NoTask
  /\ step' = "idle"
  /\ page' = NoPage
  /\ cursor' = Start
  /\ shown' = {}
  /\ atStart' = NoTables
  /\ UNCHANGED memory

Read ==
  ListRows \/ ListLatest \/ HistoryPage \/ FeedRun \/ FeedNotProcessed \/ FeedItems

Next ==
  \/ MemoryNext /\ UNCHANGED <<task, step, page, cursor, shown, atStart>>
  \/ Open
  \/ Read
  \/ Close

Spec == Init /\ [][Next]_vars

-----------------------------------------------------------------------------
Finished(kind) == step = "done" /\ task.kind = kind

\* Page after page of a list whose rows move while it is read: no Decision is
\* listed twice.  A sync moves a row only towards the front, never past the
\* cursor into the pages to come.
ListNeverRepeats ==
  task.kind = "list" =>
    \A x, y \in shown : x.decision = y.decision => x = y

\* ... and no Decision that was there at the first page and that no sync has
\* touched since is left out.
ListMissesNothingUntouched ==
  Finished("list") =>
    \A d \in Identity :
       LET row == atStart.rows[d] IN
       Matches(row, task.status) /\ decisions[task.property][d] = row
         => \E x \in shown : x.decision = d /\ x.row = row

\* "latest_observations always has one entry per Decision here": the second
\* statement finds the observation of the row's own last evaluation, or a later
\* one, never an older one and never none.
ItemsHaveTheirObservation ==
  task.kind = "list" =>
    \A x \in shown :
       /\ Cardinality(x.latest) = 1
       /\ \A o \in x.latest :
            /\ x.row.lastEvaluated <= o.asOf
            /\ \E own \in history[task.property][x.decision] :
                 own.seq <= o.seq /\ own.asOf = x.row.lastEvaluated

\* The pages of a history, read to the end, are the observations that existed
\* when the first page was read, each once; what syncs add meanwhile sorts
\* before the cursor.  Observations may also be added before the first page.
HistoryIsWhole ==
  Finished("history") =>
    LET seen == {x.observation : x \in shown} IN
    /\ atStart.observations[task.decision] \subseteq seen
    /\ seen \subseteq history[task.property][task.decision]
    /\ \A x, y \in shown : x.observation = y.observation => x = y
    /\ \A x \in shown : \A o \in history[task.property][task.decision] \ seen :
         Before(ObservationKey(o), x.key)

\* A feed that requires action lists each Decision the run triggered, as many as
\* its triggered_count says; a Decision shown resolved was resolved by a later
\* run.
FeedIsTheRuns ==
  Finished("feed") =>
    \A f \in shown : f.state # "NOT_PROCESSED" =>
      /\ Cardinality(f.items) = CountOf(f.run, {"TRIGGERED"})
      /\ f.state = "ACTION_REQUIRED" <=> f.items # {}
      /\ \A x \in f.items :
           x.row.status = "RESOLVED" =>
             \E o \in history[task.property][x.decision] :
                o.seq > f.run.seq /\ o.transition = "RESOLVED"

\* "... populated ONLY when state is NOT_PROCESSED and a prior run exists on some
\* OTHER as-of date" (FeedResult.last_successful_analysis).
LastAnalysisIsAnotherDay ==
  Finished("feed") =>
    \A f \in shown : f.state = "NOT_PROCESSED" => f.last.input.asOf # task.asOf
=============================================================================
