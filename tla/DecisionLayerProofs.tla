------------------------ MODULE DecisionLayerProofs ------------------------
(***************************************************************************)
(* The sessions of DecisionLayer implement the atomic syncs of             *)
(* DecisionMemory, for every number of sessions, hotels and inputs: the    *)
(* advisory lock makes each session's reads stay true until it commits.    *)
(***************************************************************************)
EXTENDS DecisionLayer, DecisionMemoryProofs

-----------------------------------------------------------------------------
(* The inductive invariant, part by part. *)

\* A call under way has a valid input.
JobsValid ==
  \A q \in Process : pc[q] # "idle" => job[q] \in Input /\ Valid(job[q])

\* The lock of a hotel is held by the session working on it, and by it alone.
LockProtects ==
  /\ \A q \in Process : pc[q] \in Holding => lock[job[q].property] = q
  /\ \A p \in Property : lock[p] # Nobody =>
       pc[lock[p]] \in Holding /\ job[lock[p]].property = p

Inserted(q) == pc[q] = "inserted"

\* A drawn sequence is above every run of its hotel, and nobody else's.
SequencesDrawn ==
  /\ \A r \in runs : r.seq < nextSequence
  /\ \A q \in Process : Inserted(q) =>
       /\ sequence[q] < nextSequence
       /\ sequence[q] \in 1..MaxSequence
       /\ \A r \in runs : r.seq # sequence[q]
  /\ \A q, s \in Process :
       Inserted(q) /\ Inserted(s) /\ sequence[q] = sequence[s] => q = s

\* The rows a session writes from passed the out-of-order check.
LoadedInOrder ==
  \A q \in Process : pc[q] \in {"loaded", "inserted"} =>
    ~OutOfOrder(loaded[q], job[q])

\* The calls that may still draw a sequence.
Pending ==
  {q \in Process : pc[q] \in {"waiting", "locked", "fresh", "loaded"}
                     /\ ~Recorded(job[q])}

\* The model's bound is never what stops a call under way.
BoundLeavesRoom == nextSequence + Cardinality(Pending) <= MaxSequence + 1

LayerInv ==
  /\ TypeOK
  /\ BoundLeavesRoom
  /\ JobsValid
  /\ LockProtects
  /\ SequencesDrawn
  /\ LoadedInOrder
  /\ ReadsStayTrue
  /\ nextSequence >= 1

-----------------------------------------------------------------------------
LEMMA LayerInvInit == Init => LayerInv
<1> SUFFICES ASSUME Init
             PROVE  LayerInv
  OBVIOUS
<1>1. TypeOK
  BY MemoryInitType DEF Init, TypeOK, Answer, NoAnswer, NoRows, Row, NoDecision,
     NoDate
<1>2. /\ JobsValid /\ LoadedInOrder /\ ReadsStayTrue
      /\ nextSequence >= 1
  BY DEF Init, JobsValid, LoadedInOrder, ReadsStayTrue
<1>3. LockProtects
  BY DEF Init, LockProtects, Holding
<1>4. SequencesDrawn
  BY DEF Init, MemoryInit, SequencesDrawn, Inserted
<1>5. BoundLeavesRoom
  <2>1. Pending = {}
    BY DEF Init, Pending
  <2>2. QED
    BY <2>1, FS_EmptySet, MaxSequenceAssumption DEF Init, BoundLeavesRoom
<1>6. QED
  BY <1>1, <1>2, <1>3, <1>4, <1>5 DEF LayerInv

\* A step that adds nobody to Pending and draws no sequence leaves the room.
LEMMA PendingShrinks ==
  ASSUME BoundLeavesRoom, nextSequence \in Nat, Pending' \subseteq Pending,
         nextSequence' = nextSequence
  PROVE  BoundLeavesRoom'
<1>1. IsFiniteSet(Pending)
  BY ProcessAssumption, FS_Subset DEF Pending
<1>2. /\ Cardinality(Pending') <= Cardinality(Pending)
      /\ Cardinality(Pending) \in Nat /\ Cardinality(Pending') \in Nat
  BY <1>1, FS_Subset, FS_CardinalityType
<1>3. QED
  BY <1>2, MaxSequenceAssumption DEF BoundLeavesRoom

\* A call that ends without a commit: the tables stay, its lock is free.
LEMMA EndKeeps ==
  ASSUME LayerInv, NEW q \in Process, NEW result \in Answer, End(q, result),
         UNCHANGED <<memory, nextSequence>>
  PROVE  LayerInv'
<1>1. TypeOK'
  BY NobodyAssumption DEF LayerInv, TypeOK, End, memory, MemoryTypeOK, NoRows, Row,
     NoDecision, NoDate, RunsOf
<1>2. /\ pc'[q] = "idle"
      /\ \A s \in Process \ {q} :
           /\ pc'[s] = pc[s] /\ job'[s] = job[s]
           /\ loaded'[s] = loaded[s] /\ sequence'[s] = sequence[s]
      /\ runs' = runs /\ decisions' = decisions
  BY DEF End, LayerInv, TypeOK, memory
<1>3. JobsValid'
  BY <1>2 DEF LayerInv, JobsValid
<1>4. LockProtects'
  <2>1. lock' = [p \in Property |-> IF lock[p] = q THEN Nobody ELSE lock[p]]
    BY DEF End
  <2>2. ASSUME NEW s \in Process, pc'[s] \in Holding
        PROVE  lock'[job'[s].property] = s
    <3>1. s # q /\ job[s].property \in Property
      BY <1>2, <2>2, KeptType DEF Holding, LayerInv, JobsValid
    <3>2. lock[job[s].property] = s
      BY <1>2, <2>2, <3>1 DEF LayerInv, LockProtects
    <3>3. QED
      BY <1>2, <2>1, <3>1, <3>2
  <2>3. ASSUME NEW p \in Property, lock'[p] # Nobody
        PROVE  pc'[lock'[p]] \in Holding /\ job'[lock'[p]].property = p
    <3>1. lock'[p] = lock[p] /\ lock[p] \in Process \ {q}
      BY <2>1, <2>3 DEF LayerInv, TypeOK
    <3>2. QED
      BY <1>2, <2>3, <3>1 DEF LayerInv, LockProtects
  <2>4. QED
    BY <2>2, <2>3 DEF LockProtects, Holding
<1>5. SequencesDrawn'
  BY <1>2 DEF LayerInv, SequencesDrawn, Inserted
<1>6. LoadedInOrder'
  BY <1>2 DEF LayerInv, LoadedInOrder
<1>7. ReadsStayTrue'
  BY <1>2 DEF LayerInv, ReadsStayTrue, Recorded, RunsOf
<1>8. BoundLeavesRoom'
  <2>1. Pending' \subseteq Pending
    BY <1>2 DEF Pending, Recorded
  <2>2. QED
    BY <2>1, PendingShrinks DEF LayerInv, TypeOK
<1>9. QED
  BY <1>1, <1>3, <1>4, <1>5, <1>6, <1>7, <1>8 DEF LayerInv

LEMMA SubmitKeeps ==
  ASSUME LayerInv, NEW q \in Process, NEW i \in Input, Submit(q, i)
  PROVE  LayerInv'
<1>1. /\ pc[q] = "idle" /\ pc' = [pc EXCEPT ![q] = "waiting"]
      /\ Valid(i) /\ job' = [job EXCEPT ![q] = i]
      /\ UNCHANGED <<runs, decisions, history, nextSequence, lock, loaded, sequence>>
  BY DEF Submit, Advance, memory
<1>2. TypeOK'
  BY DEF LayerInv, TypeOK, Submit, Advance, memory, MemoryTypeOK, NoAnswer, Answer,
     Holding
<1>3. /\ pc'[q] = "waiting" /\ job'[q] = i
      /\ \A s \in Process \ {q} : pc'[s] = pc[s] /\ job'[s] = job[s]
  BY <1>1 DEF LayerInv, TypeOK
<1>4. JobsValid'
  BY <1>1, <1>3 DEF LayerInv, JobsValid
<1>5. LockProtects'
  BY <1>1, <1>3 DEF LayerInv, LockProtects, TypeOK, Holding
<1>6. SequencesDrawn'
  BY <1>1, <1>3 DEF LayerInv, SequencesDrawn, Inserted
<1>7. LoadedInOrder' /\ ReadsStayTrue'
  BY <1>1, <1>3 DEF LayerInv, LoadedInOrder, ReadsStayTrue, Recorded, RunsOf
<1>8. BoundLeavesRoom'
  <2>1. CASE Recorded(i)
    <3>1. Pending' \subseteq Pending
      BY <1>1, <1>3, <2>1 DEF Pending, Recorded
    <3>2. QED
      BY <1>1, <3>1, PendingShrinks DEF LayerInv, TypeOK
  <2>2. CASE nextSequence + Cardinality(InFlight) <= MaxSequence
    <3>1. Pending' \subseteq InFlight \cup {q} /\ q \notin InFlight
      BY <1>1, <1>3 DEF Pending, InFlight
    <3>2. IsFiniteSet(InFlight)
      BY ProcessAssumption, FS_Subset DEF InFlight
    <3>3. /\ IsFiniteSet(InFlight \cup {q})
          /\ Cardinality(InFlight \cup {q}) = Cardinality(InFlight) + 1
      BY <3>1, <3>2, FS_AddElement
    <3>4. /\ Cardinality(Pending') <= Cardinality(InFlight \cup {q})
          /\ Cardinality(Pending') \in Nat /\ Cardinality(InFlight) \in Nat
      BY <3>1, <3>2, <3>3, FS_Subset, FS_CardinalityType
    <3>5. QED
      BY <1>1, <2>2, <3>3, <3>4, MaxSequenceAssumption
      DEF BoundLeavesRoom, LayerInv, TypeOK
  <2>3. QED
    BY <2>1, <2>2 DEF Submit, RoomFor
<1>9. QED
  BY <1>1, <1>2, <1>4, <1>5, <1>6, <1>7, <1>8 DEF LayerInv

LEMMA TakeLockKeeps ==
  ASSUME LayerInv, NEW q \in Process, TakeLock(q)
  PROVE  LayerInv'
<1>1. /\ pc[q] = "waiting" /\ pc' = [pc EXCEPT ![q] = "locked"]
      /\ lock[job[q].property] = Nobody
      /\ lock' = [lock EXCEPT ![job[q].property] = q]
      /\ UNCHANGED <<runs, decisions, history, nextSequence, job, loaded, sequence>>
  BY DEF TakeLock, LockFree, Advance, memory
<1>2. /\ job[q] \in Input /\ Valid(job[q])
      /\ job[q].property \in Property
  BY <1>1, KeptType DEF LayerInv, JobsValid
<1>3. TypeOK'
  BY <1>2 DEF LayerInv, TypeOK, TakeLock, Advance, memory, MemoryTypeOK, Holding
<1>4. /\ pc'[q] = "locked"
      /\ \A s \in Process \ {q} : pc'[s] = pc[s]
  BY <1>1 DEF LayerInv, TypeOK
<1>5. JobsValid'
  BY <1>1, <1>2, <1>4 DEF LayerInv, JobsValid
<1>6. LockProtects'
  <2>1. ASSUME NEW s \in Process, pc'[s] \in Holding
        PROVE  lock'[job'[s].property] = s
    <3>1. CASE s = q
      BY <1>1, <1>2, <3>1 DEF LayerInv, TypeOK
    <3>2. CASE s # q
      <4>1. /\ pc[s] \in Holding /\ lock[job[s].property] = s
            /\ job[s].property \in Property
        BY <1>4, <2>1, <3>2, KeptType DEF LayerInv, LockProtects, JobsValid, Holding
      <4>2. job[s].property # job[q].property
        BY <1>1, <4>1, NobodyAssumption
      <4>3. QED
        BY <1>1, <4>1, <4>2 DEF LayerInv, TypeOK
    <3>3. QED
      BY <3>1, <3>2
  <2>2. ASSUME NEW p \in Property, lock'[p] # Nobody
        PROVE  pc'[lock'[p]] \in Holding /\ job'[lock'[p]].property = p
    <3>1. CASE p = job[q].property
      BY <1>1, <1>4, <3>1 DEF LayerInv, TypeOK, Holding
    <3>2. CASE p # job[q].property
      <4>1. lock'[p] = lock[p] /\ lock[p] \in Process
        BY <1>1, <2>2, <3>2 DEF LayerInv, TypeOK
      <4>2. pc[lock[p]] \in Holding /\ job[lock[p]].property = p
        BY <2>2, <4>1 DEF LayerInv, LockProtects
      <4>3. lock[p] # q
        BY <1>1, <4>2 DEF Holding
      <4>4. QED
        BY <1>1, <1>4, <4>1, <4>2, <4>3
    <3>3. QED
      BY <3>1, <3>2
  <2>3. QED
    BY <2>1, <2>2 DEF LockProtects, Holding
<1>7. SequencesDrawn'
  BY <1>1, <1>4 DEF LayerInv, SequencesDrawn, Inserted
<1>8. LoadedInOrder' /\ ReadsStayTrue'
  BY <1>1, <1>4 DEF LayerInv, LoadedInOrder, ReadsStayTrue, Recorded, RunsOf
<1>9. BoundLeavesRoom'
  <2>1. Pending' \subseteq Pending
    BY <1>1, <1>4 DEF Pending, Recorded
  <2>2. QED
    BY <1>1, <2>1, PendingShrinks DEF LayerInv, TypeOK
<1>10. QED
  BY <1>1, <1>3, <1>5, <1>6, <1>7, <1>8, <1>9 DEF LayerInv

\* A step of a session that holds its lock, changes only that session's copies
\* and keeps the lock.
LEMMA HolderKeepsLock ==
  ASSUME LayerInv, NEW q \in Process, pc[q] \in Holding,
         NEW to \in Holding, pc' = [pc EXCEPT ![q] = to],
         UNCHANGED <<lock, job>>
  PROVE  /\ JobsValid' /\ LockProtects'
         /\ pc'[q] = to /\ \A s \in Process \ {q} : pc'[s] = pc[s]
<1>1. pc'[q] = to /\ \A s \in Process \ {q} : pc'[s] = pc[s]
  BY DEF LayerInv, TypeOK
<1>2. JobsValid'
  BY <1>1 DEF LayerInv, JobsValid, Holding
<1>3. LockProtects'
  BY <1>1 DEF LayerInv, LockProtects, TypeOK
<1>4. QED
  BY <1>1, <1>2, <1>3

LEMMA FindNoRunKeeps ==
  ASSUME LayerInv, NEW q \in Process, FindNoRun(q)
  PROVE  LayerInv'
<1>1. /\ pc[q] = "locked" /\ pc' = [pc EXCEPT ![q] = "fresh"]
      /\ ~Recorded(job[q])
      /\ UNCHANGED <<runs, decisions, history, nextSequence, lock, job, loaded,
                     sequence>>
  BY DEF FindNoRun, Advance, memory
<1>2. /\ JobsValid' /\ LockProtects'
      /\ pc'[q] = "fresh" /\ \A s \in Process \ {q} : pc'[s] = pc[s]
  BY <1>1, HolderKeepsLock DEF Holding
<1>3. TypeOK'
  BY DEF LayerInv, TypeOK, FindNoRun, Advance, memory, MemoryTypeOK, Holding
<1>4. SequencesDrawn'
  BY <1>1, <1>2 DEF LayerInv, SequencesDrawn, Inserted
<1>5. LoadedInOrder' /\ ReadsStayTrue'
  BY <1>1, <1>2 DEF LayerInv, LoadedInOrder, ReadsStayTrue, Recorded, RunsOf
<1>6. BoundLeavesRoom'
  <2>1. Pending' \subseteq Pending
    BY <1>1, <1>2 DEF Pending, Recorded
  <2>2. QED
    BY <1>1, <2>1, PendingShrinks DEF LayerInv, TypeOK
<1>7. QED
  BY <1>1, <1>2, <1>3, <1>4, <1>5, <1>6 DEF LayerInv

LEMMA LoadDecisionsKeeps ==
  ASSUME LayerInv, NEW q \in Process, LoadDecisions(q)
  PROVE  LayerInv'
<1>1. /\ pc[q] = "fresh" /\ pc' = [pc EXCEPT ![q] = "loaded"]
      /\ ~OutOfOrder(decisions[job[q].property], job[q])
      /\ loaded' = [loaded EXCEPT ![q] = decisions[job[q].property]]
      /\ UNCHANGED <<runs, decisions, history, nextSequence, lock, job, sequence>>
  BY DEF LoadDecisions, Advance, memory
<1>2. /\ JobsValid' /\ LockProtects'
      /\ pc'[q] = "loaded" /\ \A s \in Process \ {q} : pc'[s] = pc[s]
  BY <1>1, HolderKeepsLock DEF Holding
<1>3. decisions[job[q].property] \in [Identity -> Row]
  BY <1>1, KeptType DEF LayerInv, TypeOK, MemoryTypeOK, JobsValid
<1>4. TypeOK'
  BY <1>3 DEF LayerInv, TypeOK, LoadDecisions, Advance, memory, MemoryTypeOK, Holding
<1>5. /\ loaded'[q] = decisions[job[q].property]
      /\ \A s \in Process \ {q} : loaded'[s] = loaded[s]
  BY <1>1 DEF LayerInv, TypeOK
<1>6. SequencesDrawn'
  BY <1>1, <1>2 DEF LayerInv, SequencesDrawn, Inserted
<1>7. LoadedInOrder'
  BY <1>1, <1>2, <1>5 DEF LayerInv, LoadedInOrder
<1>8. ReadsStayTrue'
  BY <1>1, <1>2, <1>5 DEF LayerInv, ReadsStayTrue, Recorded, RunsOf
<1>9. BoundLeavesRoom'
  <2>1. Pending' \subseteq Pending
    BY <1>1, <1>2 DEF Pending, Recorded
  <2>2. QED
    BY <1>1, <2>1, PendingShrinks DEF LayerInv, TypeOK
<1>10. QED
  BY <1>1, <1>2, <1>4, <1>6, <1>7, <1>8, <1>9 DEF LayerInv

\* The drawn sequence is new and within the bound: its caller was Pending.
LEMMA InsertRunKeeps ==
  ASSUME LayerInv, NEW q \in Process, InsertRun(q)
  PROVE  LayerInv'
<1>1. /\ pc[q] = "loaded" /\ pc' = [pc EXCEPT ![q] = "inserted"]
      /\ sequence' = [sequence EXCEPT ![q] = nextSequence]
      /\ nextSequence' = nextSequence + 1
      /\ UNCHANGED <<runs, decisions, history, lock, job, loaded>>
  BY DEF InsertRun, Advance, memory
<1>2. /\ JobsValid' /\ LockProtects'
      /\ pc'[q] = "inserted" /\ \A s \in Process \ {q} : pc'[s] = pc[s]
  BY <1>1, HolderKeepsLock DEF Holding
<1>3. TypeOK'
  BY DEF LayerInv, TypeOK, InsertRun, Advance, memory, MemoryTypeOK, Holding
<1>4. /\ sequence'[q] = nextSequence
      /\ \A s \in Process \ {q} : sequence'[s] = sequence[s]
  BY <1>1 DEF LayerInv, TypeOK
<1>5. q \in Pending /\ Pending' = Pending \ {q}
  BY <1>1, <1>2 DEF Pending, Recorded, LayerInv, ReadsStayTrue
<1>6. /\ IsFiniteSet(Pending)
      /\ Cardinality(Pending) \in Nat /\ Cardinality(Pending') \in Nat
      /\ Cardinality(Pending') = Cardinality(Pending) - 1
  BY <1>5, ProcessAssumption, FS_Subset, FS_RemoveElement, FS_CardinalityType
  DEF Pending
<1>7. BoundLeavesRoom' /\ nextSequence \in 1..MaxSequence
  BY <1>1, <1>6, MaxSequenceAssumption DEF LayerInv, BoundLeavesRoom, TypeOK
<1>8. SequencesDrawn'
  <2>1. /\ \A r \in runs : r.seq \in Nat /\ r.seq < nextSequence
        /\ \A s \in Process : sequence[s] \in Nat
        /\ nextSequence \in Nat
    BY DEF LayerInv, TypeOK, MemoryTypeOK, Run, SequencesDrawn
  <2>2. \A r \in runs' : r.seq < nextSequence'
    BY <1>1, <2>1
  <2>3. ASSUME NEW s \in Process, Inserted(s)'
        PROVE  /\ sequence'[s] < nextSequence'
               /\ sequence'[s] \in 1..MaxSequence
               /\ \A r \in runs' : r.seq # sequence'[s]
    <3>1. CASE s = q
      BY <1>1, <1>4, <1>7, <2>1, <3>1
    <3>2. CASE s # q
      BY <1>1, <1>2, <1>4, <2>1, <2>3, <3>2 DEF LayerInv, SequencesDrawn, Inserted
    <3>3. QED
      BY <3>1, <3>2
  <2>4. ASSUME NEW s \in Process, NEW t \in Process, Inserted(s)', Inserted(t)',
               sequence'[s] = sequence'[t]
        PROVE  s = t
    BY <1>2, <1>4, <2>1, <2>4 DEF LayerInv, SequencesDrawn, Inserted
  <2>5. QED
    BY <2>2, <2>3, <2>4 DEF SequencesDrawn
<1>9. LoadedInOrder'
  BY <1>1, <1>2 DEF LayerInv, LoadedInOrder
<1>10. ReadsStayTrue'
  BY <1>1, <1>2, <1>4 DEF LayerInv, ReadsStayTrue, Recorded, RunsOf, SequencesDrawn
<1>11. QED
  BY <1>1, <1>2, <1>3, <1>7, <1>8, <1>9, <1>10 DEF LayerInv, TypeOK
-----------------------------------------------------------------------------
\* A commit is one atomic sync of DecisionMemory.
LEMMA CommitIsSync ==
  ASSUME LayerInv, NEW q \in Process, Commit(q)
  PROVE  /\ job[q] \in Input /\ sequence[q] \in 1..MaxSequence
         /\ Sync(job[q], sequence[q])
<1> DEFINE i == job[q]
           p == i.property
           n == sequence[q]
<1>1. /\ i \in Input /\ Valid(i) /\ p \in Property
      /\ n \in 1..MaxSequence
      /\ \A r \in runs : r.seq # n
  BY KeptType DEF Commit, LayerInv, JobsValid, SequencesDrawn, Inserted
<1>2. /\ ~Recorded(i)
      /\ loaded[q] = decisions[p]
      /\ \A r \in RunsOf(p) : r.seq < n
  BY DEF Commit, LayerInv, ReadsStayTrue
<1>3. ~OutOfOrder(decisions[p], i)
  BY <1>2 DEF Commit, LayerInv, LoadedInOrder
<1>4. [d \in Identity |-> IF d \in Touched(loaded[q], i)
                          THEN RowsAfter(loaded[q], i)[d]
                          ELSE decisions[p][d]] = RowsAfter(decisions[p], i)
  BY <1>2 DEF RowsAfter
<1>5. /\ runs' = runs \cup {[seq |-> n, input |-> RunInput(i)]}
      /\ decisions' = [decisions EXCEPT ![p] = RowsAfter(decisions[p], i)]
      /\ history' =
           [history EXCEPT ![p] = HistoryAfter(history[p], decisions[p], i, n)]
  BY <1>2, <1>4 DEF Commit
<1>6. QED
  BY <1>1, <1>2, <1>3, <1>5 DEF Sync

LEMMA CommitKeeps ==
  ASSUME LayerInv, NEW q \in Process, Commit(q)
  PROVE  LayerInv'
<1> DEFINE i == job[q]
           p == i.property
           n == sequence[q]
<1>1. /\ i \in Input /\ n \in 1..MaxSequence /\ Sync(i, n)
      /\ p \in Property
  BY CommitIsSync, KeptType
<1>2. MemoryTypeOK'
  BY <1>1, MemoryNextType DEF MemoryNext, LayerInv, TypeOK
<1>3. /\ pc'[q] = "idle" /\ nextSequence' = nextSequence
      /\ \A s \in Process \ {q} :
           /\ pc'[s] = pc[s] /\ job'[s] = job[s]
           /\ loaded'[s] = loaded[s] /\ sequence'[s] = sequence[s]
      /\ lock' = [x \in Property |-> IF lock[x] = q THEN Nobody ELSE lock[x]]
      /\ pc[q] = "inserted" /\ lock[p] = q
  BY DEF Commit, End, LayerInv, TypeOK, LockProtects, Holding
<1>4. TypeOK'
  <2>1. Touched(loaded[q], i) \subseteq Evaluated(i)
    BY DEF Touched
  <2>2. IsFiniteSet(Evaluated(i))
    <3>1. i.evaluations \in Seq(Evaluation)
      BY <1>1, InputAssumption DEF SyncInput
    <3> DEFINE S == 1..Len(i.evaluations)
               f == [k \in S |-> i.evaluations[k].identity]
    <3>2. Len(i.evaluations) \in Nat /\ DOMAIN i.evaluations = S
      BY <3>1
    <3>3. IsFiniteSet(S)
      BY <3>2, FS_Interval
    <3>4. Evaluated(i) = {i.evaluations[k].identity : k \in S}
      BY <3>2 DEF Evaluated, Kept
    <3>5. f \in Surjection(S, Evaluated(i))
      BY <3>4 DEF Surjection
    <3>6. QED
      BY <3>3, <3>5, FS_Surjection
  <2>3. Cardinality(Touched(loaded[q], i)) \in Nat
    BY <2>1, <2>2, FS_Subset, FS_CardinalityType
  <2>4. [kind |-> "synced", run |-> n,
         observations |-> Cardinality(Touched(loaded[q], i))] \in Answer
    BY <1>1, <2>3, MaxSequenceAssumption DEF Answer
  <2>5. NoRows \in [Identity -> Row]
    BY DEF NoRows, NoDecision, Row, NoDate
  <2>6. QED
    BY <1>2, <1>3, <2>4, <2>5 DEF Commit, End, LayerInv, TypeOK
<1>5. JobsValid'
  BY <1>3 DEF LayerInv, JobsValid
<1>6. LockProtects'
  <2>1. ASSUME NEW s \in Process, pc'[s] \in Holding
        PROVE  lock'[job'[s].property] = s
    <3>1. s # q /\ job[s].property \in Property
      BY <1>3, <2>1, KeptType DEF Holding, LayerInv, JobsValid
    <3>2. lock[job[s].property] = s
      BY <1>3, <2>1, <3>1 DEF LayerInv, LockProtects
    <3>3. QED
      BY <1>3, <3>1, <3>2
  <2>2. ASSUME NEW x \in Property, lock'[x] # Nobody
        PROVE  pc'[lock'[x]] \in Holding /\ job'[lock'[x]].property = x
    <3>1. lock'[x] = lock[x] /\ lock[x] \in Process \ {q}
      BY <1>3, <2>2 DEF LayerInv, TypeOK
    <3>2. QED
      BY <1>3, <2>2, <3>1 DEF LayerInv, LockProtects
  <2>3. QED
    BY <2>1, <2>2 DEF LockProtects, Holding
\* Another session past its lock works on another hotel.
<1>7. ASSUME NEW s \in Process, pc'[s] \in Holding
      PROVE  s # q /\ job[s].property \in Property /\ job[s].property # p
  BY <1>3, <1>7, KeptType DEF LayerInv, LockProtects, JobsValid, Holding
<1>8. /\ runs' = runs \cup {[seq |-> n, input |-> RunInput(i)]}
      /\ RunInput(i).property = p
      /\ \A x \in Property : x # p => decisions'[x] = decisions[x]
  BY <1>1 DEF Sync, RunInput, LayerInv, TypeOK, MemoryTypeOK
<1>9. SequencesDrawn'
  <2>1. \A r \in runs' : r.seq < nextSequence'
    BY <1>3, <1>8 DEF LayerInv, SequencesDrawn, Inserted
  <2>2. ASSUME NEW s \in Process, Inserted(s)'
        PROVE  /\ sequence'[s] < nextSequence'
               /\ sequence'[s] \in 1..MaxSequence
               /\ \A r \in runs' : r.seq # sequence'[s]
    <3>1. s # q /\ Inserted(s) /\ sequence'[s] = sequence[s] /\ sequence[s] # n
      BY <1>3, <2>2 DEF Inserted, LayerInv, SequencesDrawn
    <3>2. QED
      BY <1>3, <1>8, <3>1 DEF LayerInv, SequencesDrawn
  <2>3. ASSUME NEW s \in Process, NEW t \in Process, Inserted(s)', Inserted(t)',
               sequence'[s] = sequence'[t]
        PROVE  s = t
    BY <1>3, <2>3 DEF LayerInv, SequencesDrawn, Inserted
  <2>4. QED
    BY <2>1, <2>2, <2>3 DEF SequencesDrawn
<1>10. LoadedInOrder'
  BY <1>3 DEF LayerInv, LoadedInOrder
<1>11. ReadsStayTrue'
  <2>1. ASSUME NEW s \in Process, pc'[s] \in Holding
        PROVE  /\ Recorded(job[s])' => Recorded(job[s])
               /\ decisions'[job[s].property] = decisions[job[s].property]
               /\ RunsOf(job[s].property)' = RunsOf(job[s].property)
    <3>1. s # q /\ job[s].property \in Property /\ job[s].property # p
          /\ job'[s] = job[s]
      BY <1>3, <1>7, <2>1
    <3>2. RunInput(job[s]).property # p
      BY <3>1 DEF RunInput
    <3>3. QED
      BY <1>8, <3>1, <3>2 DEF Recorded, RunsOf
  <2>2. QED
    BY <1>3, <2>1 DEF LayerInv, ReadsStayTrue, Holding
<1>12. BoundLeavesRoom'
  <2>1. Pending' \subseteq Pending
    BY <1>3, <1>8 DEF Pending, Recorded
  <2>2. QED
    BY <1>3, <2>1, PendingShrinks DEF LayerInv, TypeOK
<1>13. QED
  BY <1>3, <1>4, <1>5, <1>6, <1>9, <1>10, <1>11, <1>12 DEF LayerInv
-----------------------------------------------------------------------------
\* A step without a commit that leaves the tables alone.
LEMMA OtherSteps ==
  ASSUME LayerInv, NEW q \in Process
  PROVE  /\ \A i \in Input : Refuse(q, i) => LayerInv' /\ UNCHANGED memory
         /\ \A i \in Input : Submit(q, i) => LayerInv' /\ UNCHANGED memory
         /\ TakeLock(q) => LayerInv' /\ UNCHANGED memory
         /\ Replay(q) => LayerInv' /\ UNCHANGED memory
         /\ FindNoRun(q) => LayerInv' /\ UNCHANGED memory
         /\ LoadDecisions(q) => LayerInv' /\ UNCHANGED memory
         /\ RejectOutOfOrder(q) => LayerInv' /\ UNCHANGED memory
         /\ InsertRun(q) => LayerInv' /\ UNCHANGED memory
         /\ Rollback(q) => LayerInv' /\ UNCHANGED memory
<1>1. \A k \in {"refused", "out_of_order", "failed"} :
         [NoAnswer EXCEPT !.kind = k] \in Answer
  BY DEF NoAnswer, Answer
<1>2. ASSUME NEW i \in Input, Refuse(q, i)
      PROVE  LayerInv' /\ UNCHANGED memory
  BY <1>1, <1>2, EndKeeps DEF Refuse
<1>3. ASSUME NEW i \in Input, Submit(q, i)
      PROVE  LayerInv' /\ UNCHANGED memory
  BY <1>3, SubmitKeeps DEF Submit
<1>4. ASSUME TakeLock(q)
      PROVE  LayerInv' /\ UNCHANGED memory
  BY <1>4, TakeLockKeeps DEF TakeLock
<1>5. ASSUME Replay(q)
      PROVE  LayerInv' /\ UNCHANGED memory
  <2>1. PICK r \in runs :
           End(q, [kind |-> "replayed", run |-> r.seq, observations |-> 0])
    BY <1>5 DEF Replay
  <2>2. [kind |-> "replayed", run |-> r.seq, observations |-> 0] \in Answer
    BY DEF Answer, LayerInv, TypeOK, MemoryTypeOK, Run
  <2>3. QED
    BY <1>5, <2>1, <2>2, EndKeeps DEF Replay
<1>6. ASSUME FindNoRun(q)
      PROVE  LayerInv' /\ UNCHANGED memory
  BY <1>6, FindNoRunKeeps DEF FindNoRun
<1>7. ASSUME LoadDecisions(q)
      PROVE  LayerInv' /\ UNCHANGED memory
  BY <1>7, LoadDecisionsKeeps DEF LoadDecisions
<1>8. ASSUME RejectOutOfOrder(q)
      PROVE  LayerInv' /\ UNCHANGED memory
  BY <1>1, <1>8, EndKeeps DEF RejectOutOfOrder
<1>9. ASSUME InsertRun(q)
      PROVE  LayerInv' /\ UNCHANGED memory
  BY <1>9, InsertRunKeeps DEF InsertRun
<1>10. ASSUME Rollback(q)
       PROVE  LayerInv' /\ UNCHANGED memory
  BY <1>1, <1>10, EndKeeps DEF Rollback
<1>11. QED
  BY <1>2, <1>3, <1>4, <1>5, <1>6, <1>7, <1>8, <1>9, <1>10

\* Every step keeps the invariant and is an atomic sync, or leaves the tables.
LEMMA LayerStep ==
  ASSUME LayerInv, [Next]_vars
  PROVE  LayerInv' /\ [MemoryNext]_memory
<1>1. CASE UNCHANGED vars
  <2>1. UNCHANGED memory
    BY <1>1 DEF vars, memory
  <2>2. TypeOK' /\ JobsValid' /\ LockProtects'
    BY <1>1 DEF vars, LayerInv, TypeOK, MemoryTypeOK, RunsOf, JobsValid, LockProtects
  <2>3. SequencesDrawn' /\ LoadedInOrder' /\ ReadsStayTrue' /\ nextSequence' = nextSequence
    BY <1>1 DEF vars, LayerInv, SequencesDrawn, Inserted, LoadedInOrder, ReadsStayTrue,
       Recorded, RunsOf
  <2>4. Pending' \subseteq Pending
    BY <1>1 DEF vars, Pending, Recorded
  <2>5. BoundLeavesRoom'
    BY <2>3, <2>4, PendingShrinks DEF LayerInv, TypeOK
  <2>6. QED
    BY <2>1, <2>2, <2>3, <2>5 DEF LayerInv
<1>2. ASSUME NEW q \in Process, Commit(q)
      PROVE  LayerInv' /\ MemoryNext
  BY <1>2, CommitIsSync, CommitKeeps DEF MemoryNext
<1>3. ASSUME NEW q \in Process,
             \/ \E i \in Input : Submit(q, i) \/ Refuse(q, i)
             \/ TakeLock(q)
             \/ Replay(q) \/ FindNoRun(q) \/ LoadDecisions(q) \/ RejectOutOfOrder(q)
             \/ InsertRun(q)
             \/ Rollback(q)
      PROVE  LayerInv' /\ UNCHANGED memory
  BY <1>3, OtherSteps
<1>4. CASE Exhausted
  BY <1>1, <1>4 DEF Exhausted
<1>5. QED
  BY <1>1, <1>2, <1>3, <1>4 DEF Next, Statement

\* The invariant that ties the sessions to the tables.
THEOREM LayerInvariant == Spec => []LayerInv
<1>1. LayerInv /\ [Next]_vars => LayerInv'
  BY LayerStep
<1>2. QED
  BY <1>1, LayerInvInit, PTL DEF Spec

\* The tables, the sessions and the answers keep their shape.
THEOREM LayerTypeCorrect == Spec => []TypeOK
<1>1. LayerInv => TypeOK
  BY DEF LayerInv
<1>2. QED
  BY <1>1, LayerInvariant, PTL

\* What a session read under the lock is still so when it writes from it.
THEOREM ReadsAreNeverStale == Spec => []ReadsStayTrue
<1>1. LayerInv => ReadsStayTrue
  BY DEF LayerInv
<1>2. QED
  BY <1>1, LayerInvariant, PTL

\* The sessions implement the atomic syncs.
THEOREM SessionsImplementMemory == Spec => SyncIsAtomic
<1>1. LayerInv /\ [Next]_vars => [MemoryNext]_memory
  BY LayerStep
<1>2. Init => MemoryInit
  BY DEF Init
<1>3. QED
  BY <1>1, <1>2, LayerInvariant, PTL DEF Spec, SyncIsAtomic, MemorySpec

\* So whatever the sessions do, a Decision's row is what its observations add up
\* to, and a run is recorded once, with every observation it calls for.
THEOREM SessionsKeepMemory ==
  Spec => [](RowMatchesHistory /\ HistoryInOrder /\ OneRunPerInput
             /\ NothingForgotten)
<1>1. Spec => MemorySpec
  BY SessionsImplementMemory DEF SyncIsAtomic
<1>2. MemoryInv => RowMatchesHistory /\ HistoryInOrder /\ OneRunPerInput
                     /\ NothingForgotten
  BY DEF MemoryInv
<1>3. QED
  BY <1>1, <1>2, MemoryInvariant, PTL
=============================================================================
