--------------------------- MODULE DecisionMemory ---------------------------
(***************************************************************************)
(* What the Decision Layer promises: a sync is ONE step.  It appends a run *)
(* and the observations of that run, and moves every Decision it touched   *)
(* by one lifecycle rule; or it changes nothing.  DecisionLayer implements *)
(* this, on the same tables, with sessions, statements, an advisory lock   *)
(* and rollbacks.                                                          *)
(*                                                                         *)
(* The rules come first, as operators: those of one Decision               *)
(* (decisions/lifecycle.py) and what one sync writes from them (the loop   *)
(* of DecisionService._sync).  A Decision that does not exist yet is the   *)
(* row NoDecision.                                                         *)
(***************************************************************************)
EXTENDS Naturals, Sequences, FiniteSets

CONSTANTS
  Property,   \* the hotels of one workspace
  Identity,   \* the Decision identities (decision_type, identity_key)
  Reading,    \* what a detector measured: tells two fingerprints apart
  Context,    \* the coverage and provenance a run's fingerprint folds in
  Input,      \* the inputs the callers of sync may pass
  MaxSequence \* bound: run sequences handed out in one behaviour

SourceStatus ==
  {"TRIGGERED", "CLEAR", "INSUFFICIENT_DATA", "NOT_APPLICABLE",
   "SUPPRESSED_LOW_CONFIDENCE"}

LifecycleTransition ==
  {"OPENED", "OBSERVED", "RESOLVED", "REOPENED", "NO_STATE_CHANGE"}

\* Local dates are positive numbers; NULL is 0.
NoDate == 0

Row ==
  [status : {"NONE", "OPEN", "RESOLVED"}, firstSeen : Nat, lastSeen : Nat,
   lastEvaluated : Nat, resolved : Nat, episodes : Nat, triggered : Nat]

NoDecision ==
  [status |-> "NONE", firstSeen |-> NoDate, lastSeen |-> NoDate,
   lastEvaluated |-> NoDate, resolved |-> NoDate, episodes |-> 0,
   triggered |-> 0]

Observation ==
  [seq : Nat, asOf : Nat, status : SourceStatus,
   transition : LifecycleTransition]

(***************************************************************************)
(* The input of one sync: the source evaluations in the order the caller   *)
(* listed them, and the evaluations the Priority Engine ranked.            *)
(***************************************************************************)
Evaluation == [identity : Identity, status : SourceStatus, reading : Reading]

SyncInput ==
  [property : Property, asOf : Nat \ {0}, evaluations : Seq(Evaluation),
   ranked : SUBSET Evaluation, context : Context]

ASSUME InputAssumption == Input \subseteq SyncInput
ASSUME MaxSequenceAssumption == MaxSequence \in Nat

\* _deduplicate: one copy of every evaluation is kept.
Kept(i) == {i.evaluations[k] : k \in DOMAIN i.evaluations}

\* _deduplicate: the same identity with a different fingerprint is a conflict.
Conflicting(i) ==
  \E e, f \in Kept(i) : e.identity = f.identity /\ e # f

\* _validate_against_ranking and _candidates_by_fingerprint: the ranking holds
\* exactly the TRIGGERED evaluations of this input.
MatchesRanking(i) == i.ranked = {e \in Kept(i) : e.status = "TRIGGERED"}

Valid(i) == ~Conflicting(i) /\ MatchesRanking(i)

\* run_input_fingerprint: neither the order nor a repeated evaluation changes
\* the set that is hashed; the number of repetitions is hashed on its own.
RunInput(i) ==
  [property |-> i.property, asOf |-> i.asOf, evaluations |-> Kept(i),
   duplicates |-> Len(i.evaluations) - Cardinality(Kept(i)),
   context |-> i.context]

Evaluated(i) == {e.identity : e \in Kept(i)}

StatusOf(i, d) == (CHOOSE e \in Kept(i) : e.identity = d).status

-----------------------------------------------------------------------------
(* apply_lifecycle *)

\* Bug: a resolved Decision is not evaluated any more.
AppliesToOpen(existing, source) == existing = "OPEN" \/ source = "TRIGGERED"

Applies(existing, source) == existing # "NONE" \/ source = "TRIGGERED"

TransitionOf(existing, source) ==
  CASE source = "TRIGGERED" /\ existing = "NONE"     -> "OPENED"
    [] source = "TRIGGERED" /\ existing = "OPEN"     -> "OBSERVED"
    [] source = "TRIGGERED" /\ existing = "RESOLVED" -> "REOPENED"
    [] source = "CLEAR"     /\ existing = "OPEN"     -> "RESOLVED"
    [] OTHER                                         -> "NO_STATE_CHANGE"

EpisodeStarts == {"OPENED", "REOPENED"}

\* Bug: the row takes the transition's name for its status.
StatusFromTransition(status, transition) ==
  IF transition = "NO_STATE_CHANGE" THEN status ELSE transition

StatusAfter(status, transition) ==
  CASE transition \in EpisodeStarts -> "OPEN"
    [] transition = "RESOLVED"      -> "RESOLVED"
    [] OTHER                        -> status

\* Bug: a reopened row keeps the date it was resolved on.
ResolvedKept(resolved, transition, asOf) ==
  IF transition = "RESOLVED" THEN asOf ELSE resolved

ResolvedAfter(resolved, transition, asOf) ==
  CASE transition \in EpisodeStarts -> NoDate
    [] transition = "RESOLVED"      -> asOf
    [] OTHER                        -> resolved

\* The row after one applied evaluation.
RowAfter(row, source, asOf) ==
  LET transition == TransitionOf(row.status, source)
      triggers   == source = "TRIGGERED"
      starts     == transition \in EpisodeStarts
  IN  [status        |-> StatusAfter(row.status, transition),
       firstSeen     |-> IF transition = "OPENED" THEN asOf ELSE row.firstSeen,
       lastSeen      |-> IF triggers THEN asOf ELSE row.lastSeen,
       lastEvaluated |-> asOf,
       resolved      |-> ResolvedAfter(row.resolved, transition, asOf),
       episodes      |-> IF starts THEN row.episodes + 1 ELSE row.episodes,
       triggered     |-> IF triggers THEN row.triggered + 1 ELSE row.triggered]

-----------------------------------------------------------------------------
(* What _sync writes, from the rows it loaded. *)

\* Bug: the guard compares with the last day the Decision was triggered.
BeforeLastSeen(rows, i) ==
  \E d \in Evaluated(i) :
     rows[d].status # "NONE" /\ i.asOf < rows[d].lastSeen

\* The run would be evaluated before a Decision's own last evaluation.
OutOfOrder(rows, i) ==
  \E d \in Evaluated(i) :
     rows[d].status # "NONE" /\ i.asOf < rows[d].lastEvaluated

Touched(rows, i) ==
  {d \in Evaluated(i) : Applies(rows[d].status, StatusOf(i, d))}

RowsAfter(rows, i) ==
  [d \in Identity |->
     IF d \in Touched(rows, i)
     THEN RowAfter(rows[d], StatusOf(i, d), i.asOf)
     ELSE rows[d]]

ObservationOf(rows, i, d, n) ==
  [seq |-> n, asOf |-> i.asOf, status |-> StatusOf(i, d),
   transition |-> TransitionOf(rows[d].status, StatusOf(i, d))]

\* Bug: a Decision keeps its last observation only.
HistoryReplaced(observations, rows, i, n) ==
  [d \in Identity |->
     IF d \in Touched(rows, i)
     THEN {ObservationOf(rows, i, d, n)}
     ELSE observations[d]]

HistoryAfter(observations, rows, i, n) ==
  [d \in Identity |->
     IF d \in Touched(rows, i)
     THEN observations[d] \cup {ObservationOf(rows, i, d, n)}
     ELSE observations[d]]

-----------------------------------------------------------------------------
(* The tables, and one sync *)

VARIABLES
  runs,        \* decision_runs: append-only
  decisions,   \* decisions: the current row of every identity
  history      \* decision_observations, by Decision: append-only

memory == <<runs, decisions, history>>

Run == [seq : Nat, input : {RunInput(i) : i \in Input}]

RunsOf(p) == {r \in runs : r.input.property = p}

\* Bug: only the hotel's last run is compared.
RecordedLast(i) ==
  \E r \in RunsOf(i.property) :
     /\ r.input = RunInput(i)
     /\ \A s \in RunsOf(i.property) : s.seq <= r.seq

Recorded(i) == \E r \in runs : r.input = RunInput(i)

MemoryInit ==
  /\ runs = {}
  /\ decisions = [p \in Property |-> [d \in Identity |-> NoDecision]]
  /\ history = [p \in Property |-> [d \in Identity |-> {}]]

(***************************************************************************)
(* A new logical input, evaluated no earlier than the Decisions it touches *)
(* were.  Its sequence is above those of every earlier run of its hotel.   *)
(***************************************************************************)
Sync(i, n) ==
  LET p == i.property IN
  /\ Valid(i)
  /\ ~Recorded(i)
  /\ ~OutOfOrder(decisions[p], i)
  /\ \A r \in runs : r.seq # n
  /\ \A r \in RunsOf(p) : r.seq < n
  /\ runs' = runs \cup {[seq |-> n, input |-> RunInput(i)]}
  /\ decisions' = [decisions EXCEPT ![p] = RowsAfter(decisions[p], i)]
  /\ history' =
       [history EXCEPT ![p] = HistoryAfter(history[p], decisions[p], i, n)]

MemoryNext == \E i \in Input, n \in 1..MaxSequence : Sync(i, n)

MemorySpec == MemoryInit /\ [][MemoryNext]_memory

-----------------------------------------------------------------------------
MemoryTypeOK ==
  /\ runs \subseteq Run
  /\ decisions \in [Property -> [Identity -> Row]]
  /\ history \in [Property -> [Identity -> SUBSET Observation]]

\* o is the last observation of the set by run sequence.
LastOf(o, observations) ==
  o \in observations /\ \A x \in observations : x.seq <= o.seq

FirstOf(o, observations) ==
  o \in observations /\ \A x \in observations : o.seq <= x.seq

Triggers(observations) == {o \in observations : o.status = "TRIGGERED"}
Starts(observations) == {o \in observations : o.transition \in {"OPENED", "REOPENED"}}
Ends(observations) == {o \in observations : o.transition = "RESOLVED"}

(***************************************************************************)
(* The one mutable table says what the append-only one says.               *)
(***************************************************************************)
RowTells(row, observations) ==
  /\ row.status = "NONE" <=> observations = {}
  /\ row.triggered = Cardinality(Triggers(observations))
  /\ row.episodes = Cardinality(Starts(observations))
  /\ row.status # "NONE" =>
       /\ \E o \in observations :
            FirstOf(o, observations) /\ row.firstSeen = o.asOf
       /\ \E o \in observations :
            LastOf(o, observations) /\ row.lastEvaluated = o.asOf
       /\ \E o \in observations :
            LastOf(o, Triggers(observations)) /\ row.lastSeen = o.asOf
       /\ \E o \in observations :
            /\ LastOf(o, Starts(observations) \cup Ends(observations))
            /\ IF o.transition = "RESOLVED"
               THEN row.status = "RESOLVED" /\ row.resolved = o.asOf
               ELSE row.status = "OPEN" /\ row.resolved = NoDate

\* A Decision's row (status, dates and counters, updated in place by every
\* sync) is what its immutable observations add up to: no counter is lost, no
\* date is older or newer than the observation that set it.
RowMatchesHistory ==
  \A p \in Property, d \in Identity : RowTells(decisions[p][d], history[p][d])

\* DECISION_OUT_OF_ORDER_RUN: along the runs of a hotel, a Decision is never
\* evaluated as of an earlier date than before.  history() and
\* latest_observations_of order by date first, the rows by run: they agree.
HistoryInOrder ==
  \A p \in Property, d \in Identity : \A x, y \in history[p][d] :
     x.seq < y.seq => x.asOf <= y.asOf

\* "The exact same logical input always resolves to the SAME DecisionRun": two
\* runs never record the same input, whoever retried what.
OneRunPerInput ==
  \A r, s \in runs : r.input = s.input => r = s

\* A run and its observations are one unit: a kept evaluation has its
\* observation exactly when it was TRIGGERED or the Decision existed by then,
\* and it says what the run's input said.
NothingForgotten ==
  \A r \in runs : \A e \in r.input.evaluations :
     LET observations == history[r.input.property][e.identity] IN
     /\ (\E o \in observations : o.seq = r.seq)
          <=> \/ e.status = "TRIGGERED"
              \/ \E o \in observations : o.seq < r.seq
     /\ \A o \in observations :
          o.seq = r.seq => o.status = e.status /\ o.asOf = r.input.asOf

\* decision_runs and decision_observations are append-only, and what is added
\* to a hotel comes after all it had: latest_run (the highest run_sequence) is
\* always the last run that committed.
AppendOnly ==
  [][/\ runs \subseteq runs'
     /\ \A r \in runs' \ runs : \A s \in RunsOf(r.input.property) : s.seq < r.seq
     /\ \A p \in Property, d \in Identity :
          /\ history[p][d] \subseteq history'[p][d]
          /\ \A o \in history'[p][d] \ history[p][d] :
               /\ \A s \in RunsOf(p) : s.seq < o.seq
               /\ \E r \in runs' \ runs : r.seq = o.seq]_memory
=============================================================================
