--------------------------- MODULE DecisionLayer ---------------------------
(***************************************************************************)
(* DecisionService.sync as it runs: every call has a session of its own    *)
(* and reads and writes statement by statement under READ COMMITTED.  The  *)
(* tables of DecisionMemory are the committed ones here; what a session    *)
(* loaded is a copy of them.                                               *)
(* A property's advisory lock (db/locks.py) is held from its acquisition   *)
(* to the commit or rollback of that session.                              *)
(***************************************************************************)
EXTENDS DecisionMemory

CONSTANTS
  Process,      \* concurrent calls of sync: API, CLI and worker sessions
  NoInput,      \* a session with no call under way
  Nobody        \* a lock that is free

ASSUME ProcessAssumption == IsFiniteSet(Process)
ASSUME NoInputAssumption == NoInput \notin Input
ASSUME NobodyAssumption == Nobody \notin Process

VARIABLES
  nextSequence,   \* the identity generator of decision_runs.run_sequence
  lock,           \* lock_decision_layer: which session holds it
  pc, job,        \* where each call is, and its input
  loaded,         \* existing_by_identities: the rows a call has in memory
  sequence,       \* the run_sequence of the run row a call has inserted
  answer          \* what the last finished call of the session returned

vars == <<runs, decisions, history, nextSequence, lock, pc, job, loaded,
          sequence, answer>>

NoRows == [d \in Identity |-> NoDecision]

NoAnswer == [kind |-> "none", run |-> 0, observations |-> 0]

Init ==
  /\ MemoryInit
  /\ nextSequence = 1
  /\ lock = [p \in Property |-> Nobody]
  /\ pc = [q \in Process |-> "idle"]
  /\ job = [q \in Process |-> NoInput]
  /\ loaded = [q \in Process |-> NoRows]
  /\ sequence = [q \in Process |-> 0]
  /\ answer = [q \in Process |-> NoAnswer]

-----------------------------------------------------------------------------
Holding == {"locked", "fresh", "loaded", "inserted"}

InFlight == {q \in Process : pc[q] # "idle"}

\* The bound leaves room for the run of every call under way.
RoomFor(i) ==
  \/ Recorded(i)
  \/ nextSequence + Cardinality(InFlight) <= MaxSequence

\* Bug: a session lock instead of a transaction lock: it outlives the call.
EndHoldingLock(q, result) ==
  /\ pc' = [pc EXCEPT ![q] = "idle"]
  /\ job' = [job EXCEPT ![q] = NoInput]
  /\ loaded' = [loaded EXCEPT ![q] = NoRows]
  /\ sequence' = [sequence EXCEPT ![q] = 0]
  /\ answer' = [answer EXCEPT ![q] = result]
  /\ UNCHANGED lock

\* The call ends: its transaction is over, so the lock it held is free.
End(q, result) ==
  /\ lock' = [p \in Property |-> IF lock[p] = q THEN Nobody ELSE lock[p]]
  /\ pc' = [pc EXCEPT ![q] = "idle"]
  /\ job' = [job EXCEPT ![q] = NoInput]
  /\ loaded' = [loaded EXCEPT ![q] = NoRows]
  /\ sequence' = [sequence EXCEPT ![q] = 0]
  /\ answer' = [answer EXCEPT ![q] = result]

Advance(q, from, to) == pc[q] = from /\ pc' = [pc EXCEPT ![q] = to]

\* The validation before the first statement: no lock, no database.
Submit(q, i) ==
  /\ RoomFor(i)
  /\ Valid(i)
  /\ Advance(q, "idle", "waiting")
  /\ job' = [job EXCEPT ![q] = i]
  /\ answer' = [answer EXCEPT ![q] = NoAnswer]
  /\ UNCHANGED <<memory, nextSequence, lock, loaded, sequence>>

Refuse(q, i) ==
  /\ pc[q] = "idle"
  /\ ~Valid(i)
  /\ End(q, [NoAnswer EXCEPT !.kind = "refused"])
  /\ UNCHANGED <<memory, nextSequence>>

\* Bug: the lock is one per analysis date, not one per hotel.
NotTakenToday(q) ==
  \A s \in Process : pc[s] \in Holding => job[s].asOf # job[q].asOf

LockFree(q) == lock[job[q].property] = Nobody

\* lock_decision_layer: pg_advisory_xact_lock waits until the lock is free.
TakeLock(q) ==
  /\ Advance(q, "waiting", "locked")
  /\ LockFree(q)
  /\ lock' = [lock EXCEPT ![job[q].property] = q]
  /\ UNCHANGED <<memory, nextSequence, job, loaded, sequence, answer>>

\* find_run found the run of this very input: nothing is written.  The counts
\* of the answer are zeros.
Replay(q) ==
  /\ pc[q] = "locked"
  /\ \E r \in runs :
       /\ r.input = RunInput(job[q])
       /\ End(q, [kind |-> "replayed", run |-> r.seq, observations |-> 0])
  /\ UNCHANGED <<memory, nextSequence>>

FindNoRun(q) ==
  /\ Advance(q, "locked", "fresh")
  /\ ~Recorded(job[q])
  /\ UNCHANGED <<memory, nextSequence, lock, job, loaded, sequence, answer>>

\* Bug: the rows are not checked against the run's date.
LoadUnchecked(q) ==
  /\ Advance(q, "fresh", "loaded")
  /\ loaded' = [loaded EXCEPT ![q] = decisions[job[q].property]]
  /\ UNCHANGED <<memory, nextSequence, lock, job, sequence, answer>>

\* existing_by_identities, then the out-of-order check of every loaded row.
LoadDecisions(q) ==
  LET rows == decisions[job[q].property] IN
  /\ Advance(q, "fresh", "loaded")
  /\ ~OutOfOrder(rows, job[q])
  /\ loaded' = [loaded EXCEPT ![q] = rows]
  /\ UNCHANGED <<memory, nextSequence, lock, job, sequence, answer>>

RejectOutOfOrder(q) ==
  /\ pc[q] = "fresh"
  /\ OutOfOrder(decisions[job[q].property], job[q])
  /\ End(q, [NoAnswer EXCEPT !.kind = "out_of_order"])
  /\ UNCHANGED <<memory, nextSequence>>

\* insert_run flushes: the sequence is drawn now and never given back.
InsertRun(q) ==
  /\ Advance(q, "loaded", "inserted")
  /\ sequence' = [sequence EXCEPT ![q] = nextSequence]
  /\ nextSequence' = nextSequence + 1
  /\ UNCHANGED <<memory, lock, job, loaded, answer>>

\* The lifecycle loop on the loaded rows, the bulk insert of the observations,
\* flush and commit: other sessions see all of it or nothing.
Commit(q) ==
  LET i == job[q]
      p == i.property
      n == sequence[q]
  IN
  /\ pc[q] = "inserted"
  /\ runs' = runs \cup {[seq |-> n, input |-> RunInput(i)]}
  /\ decisions' = [decisions EXCEPT ![p] =
       [d \in Identity |-> IF d \in Touched(loaded[q], i)
                           THEN RowsAfter(loaded[q], i)[d]
                           ELSE decisions[p][d]]]
  /\ history' = [history EXCEPT ![p] = HistoryAfter(history[p], loaded[q], i, n)]
  /\ End(q, [kind |-> "synced", run |-> n,
             observations |-> Cardinality(Touched(loaded[q], i))])
  /\ UNCHANGED nextSequence

\* Any exception (a lost connection, a killed process): the session rolls back.
Rollback(q) ==
  /\ pc[q] # "idle"
  /\ End(q, [NoAnswer EXCEPT !.kind = "failed"])
  /\ UNCHANGED <<memory, nextSequence>>

Statement(q) ==
  Replay(q) \/ FindNoRun(q) \/ LoadDecisions(q) \/ RejectOutOfOrder(q)
    \/ InsertRun(q) \/ Commit(q)

\* An artefact of the bound: no call is under way and none has room.
Exhausted ==
  /\ InFlight = {}
  /\ \A i \in Input : Valid(i) => ~RoomFor(i)
  /\ UNCHANGED vars

Next ==
  \/ \E q \in Process : \/ \E i \in Input : Submit(q, i) \/ Refuse(q, i)
                        \/ TakeLock(q)
                        \/ Statement(q)
                        \/ Rollback(q)
  \/ Exhausted

Spec == Init /\ [][Next]_vars

\* A session executes its statements, and PostgreSQL grants an advisory lock to
\* its waiters in turn.  Nobody has to call sync, and nothing has to fail.
Fairness ==
  \A q \in Process : WF_vars(Statement(q)) /\ SF_vars(TakeLock(q))

FairSpec == Spec /\ Fairness

-----------------------------------------------------------------------------
Answer ==
  [kind : {"none", "refused", "replayed", "out_of_order", "synced", "failed"},
   run : Nat, observations : Nat]

\* The shape of the tables, of the sessions and of the answers.
TypeOK ==
  /\ MemoryTypeOK
  /\ nextSequence \in Nat
  /\ lock \in [Property -> Process \cup {Nobody}]
  /\ pc \in [Process -> {"idle", "waiting"} \cup Holding]
  /\ job \in [Process -> Input \cup {NoInput}]
  /\ loaded \in [Process -> [Identity -> Row]]
  /\ sequence \in [Process -> Nat]
  /\ answer \in [Process -> Answer]

\* What a session read under the lock is still so when it writes from it: the
\* run is still unrecorded, the rows are still the committed ones and the
\* sequence it drew is above every run of the hotel.  The unique keys ("the
\* last line of defence") are never what stops a duplicate.
ReadsStayTrue ==
  \A q \in Process :
    LET i == job[q] IN
    /\ pc[q] \in {"fresh", "loaded", "inserted"} => ~Recorded(i)
    /\ pc[q] \in {"loaded", "inserted"} => loaded[q] = decisions[i.property]
    /\ pc[q] = "inserted" =>
         \A r \in RunsOf(i.property) : r.seq < sequence[q]

\* Sessions, statements and locks are invisible: every behaviour of the tables
\* is one of atomic syncs.
SyncIsAtomic == MemorySpec

\* Every call of sync that passed its validation ends, whatever the other
\* sessions do: no lock outlives a commit, a replay, a refusal or a rollback.
EverySyncEnds ==
  \A q \in Process : pc[q] = "waiting" ~> pc[q] = "idle"

\* "is_idempotent_replay ...: every count below is then the ORIGINAL run's"
\* (DecisionSyncResult): the answer's observation_count is that of its run.
ReplayCountsAreTheOriginals ==
  \A q \in Process : answer[q].kind = "replayed" =>
    answer[q].observations =
      Cardinality({w \in Property \X Identity :
                     \E o \in history[w[1]][w[2]] : o.seq = answer[q].run})
=============================================================================
