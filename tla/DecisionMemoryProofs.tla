----------------------- MODULE DecisionMemoryProofs -----------------------
(***************************************************************************)
(* Proofs about the atomic syncs of DecisionMemory, for every set of       *)
(* hotels, identities, readings and inputs.                                *)
(***************************************************************************)
EXTENDS DecisionMemory, TLAPS, FiniteSetTheorems

\* The operators of one input: what is kept has its types, and the status of an
\* evaluated identity is one the detectors give.
LEMMA KeptType ==
  ASSUME NEW i \in Input
  PROVE  /\ Kept(i) \subseteq Evaluation
         /\ Evaluated(i) \subseteq Identity
         /\ \A d \in Evaluated(i) : StatusOf(i, d) \in SourceStatus
         /\ i.property \in Property
         /\ i.asOf \in Nat /\ i.asOf > 0
<1>1. /\ i.property \in Property
      /\ i.asOf \in Nat /\ i.asOf > 0
      /\ i.evaluations \in Seq(Evaluation)
  BY InputAssumption DEF SyncInput
<1>2. Kept(i) \subseteq Evaluation
  BY <1>1 DEF Kept
<1>3. Evaluated(i) \subseteq Identity
  BY <1>2 DEF Evaluated, Evaluation
<1>4. ASSUME NEW d \in Evaluated(i)
      PROVE  StatusOf(i, d) \in SourceStatus
  <2>1. \E e \in Kept(i) : e.identity = d
    BY DEF Evaluated
  <2>2. (CHOOSE e \in Kept(i) : e.identity = d) \in Kept(i)
    BY <2>1
  <2>3. QED
    BY <1>2, <2>2 DEF StatusOf, Evaluation
<1>5. QED
  BY <1>1, <1>2, <1>3, <1>4

\* In a valid input an identity has one evaluation, and StatusOf is its status.
LEMMA StatusOfKept ==
  ASSUME NEW i \in Input, Valid(i), NEW e \in Kept(i)
  PROVE  StatusOf(i, e.identity) = e.status /\ e.identity \in Evaluated(i)
<1>1. \A f \in Kept(i) : f.identity = e.identity => f = e
  BY DEF Valid, Conflicting
<1>2. (CHOOSE f \in Kept(i) : f.identity = e.identity) = e
  BY <1>1
<1>3. QED
  BY <1>2 DEF StatusOf, Evaluated

\* One lifecycle rule keeps the shape of a row and yields a transition.
LEMMA RowAfterType ==
  ASSUME NEW row \in Row, NEW source \in SourceStatus, NEW asOf \in Nat
  PROVE  /\ RowAfter(row, source, asOf) \in Row
         /\ TransitionOf(row.status, source) \in LifecycleTransition
<1>1. TransitionOf(row.status, source) \in LifecycleTransition
  BY DEF TransitionOf, LifecycleTransition
<1>2. QED
  BY <1>1 DEF RowAfter, StatusAfter, ResolvedAfter, Row, NoDate, EpisodeStarts

LEMMA MemoryInitType == MemoryInit => MemoryTypeOK
BY DEF MemoryInit, MemoryTypeOK, Row, NoDecision, NoDate

LEMMA MemoryNextType == MemoryTypeOK /\ [MemoryNext]_memory => MemoryTypeOK'
<1> SUFFICES ASSUME MemoryTypeOK, [MemoryNext]_memory
             PROVE  MemoryTypeOK'
  OBVIOUS
<1>1. CASE UNCHANGED memory
  BY <1>1 DEF MemoryTypeOK, memory
<1>2. ASSUME NEW i \in Input, NEW n \in 1..MaxSequence, Sync(i, n)
      PROVE  MemoryTypeOK'
  <2> DEFINE p == i.property
             rows == decisions[p]
  <2>1. /\ p \in Property
        /\ i.asOf \in Nat
        /\ n \in Nat
        /\ rows \in [Identity -> Row]
    BY KeptType, MaxSequenceAssumption DEF MemoryTypeOK
  <2>2. runs' \subseteq Run
    BY <1>2, <2>1 DEF Sync, MemoryTypeOK, Run
  <2>3. \A d \in Touched(rows, i) :
           d \in Identity /\ StatusOf(i, d) \in SourceStatus
    BY KeptType DEF Touched
  <2>4. RowsAfter(rows, i) \in [Identity -> Row]
    BY <2>1, <2>3, RowAfterType DEF RowsAfter
  <2>5. HistoryAfter(history[p], rows, i, n) \in [Identity -> SUBSET Observation]
    <3>1. ASSUME NEW d \in Touched(rows, i)
          PROVE  ObservationOf(rows, i, d, n) \in Observation
      BY <2>1, <2>3, <3>1, RowAfterType DEF ObservationOf, Observation
    <3>2. history[p] \in [Identity -> SUBSET Observation]
      BY <2>1 DEF MemoryTypeOK
    <3>3. QED
      BY <2>3, <3>1, <3>2 DEF HistoryAfter
  <2>6. QED
    BY <1>2, <2>1, <2>2, <2>4, <2>5 DEF Sync, MemoryTypeOK
<1>3. QED
  BY <1>1, <1>2 DEF MemoryNext

\* The tables keep their shape.
THEOREM MemoryTypeCorrect == MemorySpec => []MemoryTypeOK
<1>1. QED
  BY MemoryInitType, MemoryNextType, PTL DEF MemorySpec

-----------------------------------------------------------------------------
(***************************************************************************)
(* One Decision: a row that tells its history still tells it after one     *)
(* applied evaluation, if the new observation comes last.                  *)
(***************************************************************************)
LEMMA RowTellsStep ==
  ASSUME NEW row \in Row, NEW h \in SUBSET Observation,
         NEW source \in SourceStatus, NEW asOf \in Nat, NEW n \in Nat,
         IsFiniteSet(h), RowTells(row, h), Applies(row.status, source),
         \A x \in h : x.seq < n
  PROVE  LET o == [seq |-> n, asOf |-> asOf, status |-> source,
                   transition |-> TransitionOf(row.status, source)]
         IN  RowTells(RowAfter(row, source, asOf), h \cup {o})
<1> DEFINE t == TransitionOf(row.status, source)
           o == [seq |-> n, asOf |-> asOf, status |-> source, transition |-> t]
           g == h \cup {o}
           new == RowAfter(row, source, asOf)
<1>1. /\ \A x \in h : x.seq \in Nat /\ x.seq < n
      /\ o \notin h
  BY DEF Observation
<1>2. LastOf(o, g)
  BY <1>1 DEF LastOf
<1>3. new.lastEvaluated = asOf /\ new.status # "NONE"
  <2>1. row.status \in {"NONE", "OPEN", "RESOLVED"}
    BY DEF Row
  <2>2. CASE row.status = "NONE"
    BY <2>2 DEF RowAfter, StatusAfter, ResolvedAfter, TransitionOf, Applies, EpisodeStarts
  <2>3. CASE row.status # "NONE"
    BY <2>1, <2>3 DEF RowAfter, StatusAfter, ResolvedAfter, TransitionOf, EpisodeStarts
  <2>4. QED
    BY <2>2, <2>3
<1>4. new.triggered = Cardinality(Triggers(g))
  <2>1. IsFiniteSet(Triggers(h))
    BY FS_Subset DEF Triggers
  <2>2. CASE source = "TRIGGERED"
    <3>1. Triggers(g) = Triggers(h) \cup {o} /\ o \notin Triggers(h)
      BY <1>1, <2>2 DEF Triggers
    <3>2. Cardinality(Triggers(g)) = Cardinality(Triggers(h)) + 1
      BY <2>1, <3>1, FS_AddElement
    <3>3. QED
      BY <2>2, <3>2 DEF RowAfter, StatusAfter, ResolvedAfter, RowTells
  <2>3. CASE source # "TRIGGERED"
    <3>1. Triggers(g) = Triggers(h)
      BY <2>3 DEF Triggers
    <3>2. QED
      BY <2>3, <3>1 DEF RowAfter, StatusAfter, ResolvedAfter, RowTells
  <2>4. QED
    BY <2>2, <2>3
<1>5. new.episodes = Cardinality(Starts(g))
  <2>1. IsFiniteSet(Starts(h))
    BY FS_Subset DEF Starts, EpisodeStarts
  <2>2. CASE t \in EpisodeStarts
    <3>1. Starts(g) = Starts(h) \cup {o} /\ o \notin Starts(h)
      BY <1>1, <2>2 DEF Starts, EpisodeStarts
    <3>2. Cardinality(Starts(g)) = Cardinality(Starts(h)) + 1
      BY <2>1, <3>1, FS_AddElement
    <3>3. QED
      BY <2>2, <3>2 DEF RowAfter, StatusAfter, ResolvedAfter, RowTells
  <2>3. CASE t \notin EpisodeStarts
    <3>1. Starts(g) = Starts(h)
      BY <2>3 DEF Starts, EpisodeStarts
    <3>2. QED
      BY <2>3, <3>1 DEF RowAfter, StatusAfter, ResolvedAfter, RowTells
  <2>4. QED
    BY <2>2, <2>3
<1>6. \E x \in g : FirstOf(x, g) /\ new.firstSeen = x.asOf
  <2>1. CASE row.status = "NONE"
    <3>1. h = {} /\ source = "TRIGGERED"
      BY <2>1 DEF RowTells, Applies
    <3>2. FirstOf(o, g)
      BY <1>1, <3>1 DEF FirstOf
    <3>3. new.firstSeen = asOf
      BY <2>1, <3>1 DEF RowAfter, StatusAfter, ResolvedAfter, TransitionOf
    <3>4. QED
      BY <3>2, <3>3
  <2>2. CASE row.status # "NONE"
    <3>1. PICK x \in h : FirstOf(x, h) /\ row.firstSeen = x.asOf
      BY <2>2 DEF RowTells
    <3>2. FirstOf(x, g)
      BY <1>1, <3>1 DEF FirstOf
    <3>3. new.firstSeen = row.firstSeen
      BY <2>2 DEF RowAfter, StatusAfter, ResolvedAfter, TransitionOf
    <3>4. QED
      BY <3>1, <3>2, <3>3
  <2>3. QED
    BY <2>1, <2>2
<1>7. \E x \in g : LastOf(x, Triggers(g)) /\ new.lastSeen = x.asOf
  <2>1. CASE source = "TRIGGERED"
    <3>1. LastOf(o, Triggers(g))
      BY <1>2, <2>1 DEF LastOf, Triggers
    <3>2. QED
      BY <2>1, <3>1 DEF RowAfter, StatusAfter, ResolvedAfter
  <2>2. CASE source # "TRIGGERED"
    <3>1. Triggers(g) = Triggers(h) /\ row.status # "NONE"
      BY <2>2 DEF Triggers, Applies
    <3>2. QED
      BY <2>2, <3>1 DEF RowTells, RowAfter, StatusAfter, ResolvedAfter
  <2>3. QED
    BY <2>1, <2>2
<1>8. \E x \in g :
        /\ LastOf(x, Starts(g) \cup Ends(g))
        /\ IF x.transition = "RESOLVED"
           THEN new.status = "RESOLVED" /\ new.resolved = x.asOf
           ELSE new.status = "OPEN" /\ new.resolved = NoDate
  <2>1. CASE t \in EpisodeStarts
    <3>1. LastOf(o, Starts(g) \cup Ends(g))
      BY <1>2, <2>1 DEF LastOf, Starts, Ends, EpisodeStarts
    <3>2. new.status = "OPEN" /\ new.resolved = NoDate /\ t # "RESOLVED"
      BY <2>1 DEF RowAfter, StatusAfter, ResolvedAfter, EpisodeStarts
    <3>3. QED
      BY <3>1, <3>2
  <2>2. CASE t = "RESOLVED"
    <3>1. LastOf(o, Starts(g) \cup Ends(g))
      BY <1>2, <2>2 DEF LastOf, Starts, Ends, EpisodeStarts
    <3>2. new.status = "RESOLVED" /\ new.resolved = asOf
      BY <2>2 DEF RowAfter, StatusAfter, ResolvedAfter, EpisodeStarts
    <3>3. QED
      BY <2>2, <3>1, <3>2
  <2>3. CASE t \notin EpisodeStarts /\ t # "RESOLVED"
    <3>1. Starts(g) = Starts(h) /\ Ends(g) = Ends(h)
      BY <2>3 DEF Starts, Ends, EpisodeStarts
    <3>2. new.status = row.status /\ new.resolved = row.resolved
      BY <2>3 DEF RowAfter, StatusAfter, ResolvedAfter
    <3>3. row.status # "NONE"
      BY <1>3, <3>2
    <3>4. PICK x \in h :
            /\ LastOf(x, Starts(h) \cup Ends(h))
            /\ IF x.transition = "RESOLVED"
               THEN row.status = "RESOLVED" /\ row.resolved = x.asOf
               ELSE row.status = "OPEN" /\ row.resolved = NoDate
      BY <3>3 DEF RowTells
    <3>5. QED
      BY <3>1, <3>2, <3>4
  <2>4. QED
    BY <2>1, <2>2, <2>3
<1>9. QED
  BY <1>2, <1>3, <1>4, <1>5, <1>6, <1>7, <1>8 DEF RowTells

-----------------------------------------------------------------------------
(***************************************************************************)
(* The inductive invariant: the safety properties of DecisionMemory and    *)
(* what ties an observation to its run.  That tie makes a new observation  *)
(* the last of its Decision, which RowTellsStep needs.                     *)
(***************************************************************************)
ObservedInARun ==
  \A p \in Property, d \in Identity : \A o \in history[p][d] :
     \E r \in RunsOf(p) : r.seq = o.seq

HistoriesFinite ==
  \A p \in Property, d \in Identity : IsFiniteSet(history[p][d])

OneObservationPerRun ==
  \A p \in Property, d \in Identity : \A x, y \in history[p][d] :
     x.seq = y.seq => x = y

\* Two runs never share a sequence.
SequencesUnique == \A r, s \in runs : r.seq = s.seq => r = s

MemoryInv ==
  /\ MemoryTypeOK
  /\ ObservedInARun
  /\ HistoriesFinite
  /\ OneObservationPerRun
  /\ SequencesUnique
  /\ RowMatchesHistory
  /\ HistoryInOrder
  /\ OneRunPerInput
  /\ NothingForgotten

LEMMA MemoryInvInit == MemoryInit => MemoryInv
<1> SUFFICES ASSUME MemoryInit
             PROVE  MemoryInv
  OBVIOUS
<1>1. MemoryTypeOK
  BY MemoryInitType
<1>2. /\ ObservedInARun
      /\ OneObservationPerRun
      /\ SequencesUnique
      /\ HistoryInOrder
      /\ OneRunPerInput
      /\ NothingForgotten
  BY DEF MemoryInit, ObservedInARun, OneObservationPerRun, SequencesUnique,
         HistoryInOrder, OneRunPerInput, NothingForgotten
<1>3. HistoriesFinite
  BY FS_EmptySet DEF MemoryInit, HistoriesFinite
<1>4. RowMatchesHistory
  <2>1. /\ Triggers({}) = {} /\ Starts({}) = {}
        /\ Cardinality({}) = 0
    BY FS_EmptySet DEF Triggers, Starts
  <2>2. RowTells(NoDecision, {})
    BY <2>1 DEF RowTells, NoDecision
  <2>3. QED
    BY <2>2 DEF MemoryInit, RowMatchesHistory
<1>5. QED
  BY <1>1, <1>2, <1>3, <1>4 DEF MemoryInv

\* What one sync does to the observations of one Decision: nothing, or it adds
\* the observation of this run to a row that was not evaluated later.
LEMMA SyncOnDecision ==
  ASSUME MemoryInv, NEW i \in Input, NEW n \in 1..MaxSequence, Sync(i, n),
         NEW p \in Property, NEW d \in Identity
  PROVE  \/ /\ ~(p = i.property /\ d \in Touched(decisions[p], i))
            /\ history'[p][d] = history[p][d]
            /\ decisions'[p][d] = decisions[p][d]
         \/ /\ p = i.property
            /\ d \in Touched(decisions[p], i)
            /\ history'[p][d] =
                 history[p][d] \cup {ObservationOf(decisions[p], i, d, n)}
            /\ decisions'[p][d] =
                 RowAfter(decisions[p][d], StatusOf(i, d), i.asOf)
            /\ \A x \in history[p][d] : x.seq < n /\ x.asOf <= i.asOf
<1> DEFINE rows == decisions[i.property]
<1>1. /\ i.property \in Property
      /\ i.asOf \in Nat
      /\ n \in Nat
  BY KeptType, MaxSequenceAssumption
<1>2. /\ history \in [Property -> [Identity -> SUBSET Observation]]
      /\ decisions \in [Property -> [Identity -> Row]]
  BY DEF MemoryInv, MemoryTypeOK
<1>3. /\ decisions' = [decisions EXCEPT ![i.property] = RowsAfter(rows, i)]
      /\ history' = [history EXCEPT ![i.property] =
                       HistoryAfter(history[i.property], rows, i, n)]
  BY DEF Sync
<1>4. CASE p # i.property
  BY <1>2, <1>3, <1>4
<1>5. CASE p = i.property /\ d \notin Touched(rows, i)
  BY <1>1, <1>2, <1>3, <1>5 DEF RowsAfter, HistoryAfter
<1>6. CASE p = i.property /\ d \in Touched(rows, i)
  <2>1. /\ history'[p][d] = history[p][d] \cup {ObservationOf(rows, i, d, n)}
        /\ decisions'[p][d] = RowAfter(rows[d], StatusOf(i, d), i.asOf)
    BY <1>1, <1>2, <1>3, <1>6 DEF RowsAfter, HistoryAfter
  <2>2. \A x \in history[p][d] : x.seq < n
    <3>1. \A x \in history[p][d] : \E r \in RunsOf(p) : r.seq = x.seq
      BY DEF MemoryInv, ObservedInARun
    <3>2. \A r \in RunsOf(p) : r.seq < n
      BY <1>6 DEF Sync
    <3>3. QED
      BY <3>1, <3>2
  <2>3. \A x \in history[p][d] : x.asOf <= i.asOf
    <3>1. SUFFICES ASSUME NEW x \in history[p][d]
                   PROVE  x.asOf <= i.asOf
      OBVIOUS
    <3>2. RowTells(rows[d], history[p][d])
      BY <1>6 DEF MemoryInv, RowMatchesHistory
    <3>3. rows[d].status # "NONE"
      BY <3>2 DEF RowTells
    <3>4. PICK o \in history[p][d] :
            LastOf(o, history[p][d]) /\ rows[d].lastEvaluated = o.asOf
      BY <3>2, <3>3 DEF RowTells
    <3>5. o.asOf <= i.asOf
      <4>1. d \in Evaluated(i)
        BY <1>6 DEF Touched
      <4>2. ~(i.asOf < rows[d].lastEvaluated)
        BY <3>3, <4>1 DEF Sync, OutOfOrder
      <4>3. rows[d].lastEvaluated \in Nat
        BY <1>1, <1>2 DEF Row
      <4>4. QED
        BY <1>1, <3>4, <4>2, <4>3
    <3>6. /\ x.seq \in Nat /\ o.seq \in Nat /\ x.asOf \in Nat /\ o.asOf \in Nat
          /\ x.seq <= o.seq
      BY <1>2, <3>4 DEF LastOf, Observation
    <3>7. CASE x.seq < o.seq
      <4>1. x.asOf <= o.asOf
        BY <3>7 DEF MemoryInv, HistoryInOrder
      <4>2. QED
        BY <1>1, <3>5, <3>6, <4>1
    <3>8. CASE x.seq = o.seq
      BY <3>5, <3>8 DEF MemoryInv, OneObservationPerRun
    <3>9. QED
      BY <3>6, <3>7, <3>8
  <2>4. QED
    BY <1>6, <2>1, <2>2, <2>3
<1>7. QED
  BY <1>4, <1>5, <1>6

LEMMA MemoryInvSync ==
  ASSUME MemoryInv, NEW i \in Input, NEW n \in 1..MaxSequence, Sync(i, n)
  PROVE  MemoryInv'
<1> DEFINE run == [seq |-> n, input |-> RunInput(i)]
<1>1. /\ i.property \in Property
      /\ i.asOf \in Nat
      /\ n \in Nat
  BY KeptType, MaxSequenceAssumption
<1>2. /\ history \in [Property -> [Identity -> SUBSET Observation]]
      /\ decisions \in [Property -> [Identity -> Row]]
  BY DEF MemoryInv, MemoryTypeOK
<1>3. /\ runs' = runs \cup {run}
      /\ run.seq = n
      /\ run.input.property = i.property
      /\ run.input.asOf = i.asOf
      /\ run.input.evaluations = Kept(i)
      /\ run.input = RunInput(i)
  BY DEF Sync, RunInput
<1>4. \A r \in runs : r.seq # n
  BY DEF Sync
<1>5. \A p \in Property, d \in Identity :
        d \in Touched(decisions[p], i) => StatusOf(i, d) \in SourceStatus
  BY KeptType DEF Touched
<1>6. MemoryTypeOK'
  BY MemoryNextType DEF MemoryInv, MemoryNext
<1>7. ObservedInARun'
  <2>1. SUFFICES ASSUME NEW p \in Property, NEW d \in Identity,
                        NEW o \in history'[p][d]
                 PROVE  \E r \in RunsOf(p)' : r.seq = o.seq
    BY DEF ObservedInARun
  <2>2. CASE o \in history[p][d]
    <3>1. PICK r \in RunsOf(p) : r.seq = o.seq
      BY <2>2 DEF MemoryInv, ObservedInARun
    <3>2. QED
      BY <1>3, <3>1 DEF RunsOf
  <2>3. CASE o \notin history[p][d]
    <3>1. p = i.property /\ o.seq = n
      BY <2>3, SyncOnDecision DEF ObservationOf
    <3>2. QED
      BY <1>3, <3>1 DEF RunsOf
  <2>4. QED
    BY <2>2, <2>3
<1>8. HistoriesFinite'
  <2>1. SUFFICES ASSUME NEW p \in Property, NEW d \in Identity
                 PROVE  IsFiniteSet(history'[p][d])
    BY DEF HistoriesFinite
  <2>2. IsFiniteSet(history[p][d])
    BY DEF MemoryInv, HistoriesFinite
  <2>3. \/ history'[p][d] = history[p][d]
        \/ history'[p][d] =
             history[p][d] \cup {ObservationOf(decisions[p], i, d, n)}
    BY SyncOnDecision
  <2>4. QED
    BY <2>2, <2>3, FS_AddElement
<1>9. OneObservationPerRun' /\ HistoryInOrder'
  <2>1. SUFFICES ASSUME NEW p \in Property, NEW d \in Identity,
                        NEW x \in history'[p][d], NEW y \in history'[p][d]
                 PROVE  /\ x.seq = y.seq => x = y
                        /\ x.seq < y.seq => x.asOf <= y.asOf
    BY DEF OneObservationPerRun, HistoryInOrder
  <2>2. CASE history'[p][d] = history[p][d]
    BY <2>2 DEF MemoryInv, OneObservationPerRun, HistoryInOrder
  <2>3. CASE history'[p][d] # history[p][d]
    <3> DEFINE o == ObservationOf(decisions[p], i, d, n)
    <3>1. /\ history'[p][d] = history[p][d] \cup {o}
          /\ \A z \in history[p][d] : z.seq < n /\ z.asOf <= i.asOf
          /\ o.seq = n /\ o.asOf = i.asOf
      BY <2>3, SyncOnDecision DEF ObservationOf
    <3>2. \A z \in history[p][d] : z.seq \in Nat /\ z.asOf \in Nat
      BY <1>2 DEF Observation
    <3>3. CASE x \in history[p][d] /\ y \in history[p][d]
      BY <3>3 DEF MemoryInv, OneObservationPerRun, HistoryInOrder
    <3>4. CASE x = o \/ y = o
      <4>1. x = o \/ (x.seq < n /\ x.asOf <= i.asOf /\ x.seq \in Nat)
        BY <3>1, <3>2
      <4>2. y = o \/ (y.seq < n /\ y.asOf <= i.asOf /\ y.seq \in Nat)
        BY <3>1, <3>2
      <4>3. o.seq = n /\ o.asOf = i.asOf
        BY <3>1
      <4> HIDE DEF o
      <4>4. QED
        BY <1>1, <3>4, <4>1, <4>2, <4>3
    <3>5. QED
      BY <3>1, <3>3, <3>4
  <2>4. QED
    BY <2>2, <2>3
<1>10. SequencesUnique'
  BY <1>3, <1>4 DEF MemoryInv, SequencesUnique
<1>11. OneRunPerInput'
  <2>1. \A r \in runs : r.input # RunInput(i)
    BY DEF Sync, Recorded
  <2>2. QED
    BY <1>3, <2>1 DEF MemoryInv, OneRunPerInput
<1>12. RowMatchesHistory'
  <2>1. SUFFICES ASSUME NEW p \in Property, NEW d \in Identity
                 PROVE  RowTells(decisions'[p][d], history'[p][d])
    BY DEF RowMatchesHistory
  <2>2. RowTells(decisions[p][d], history[p][d])
    BY DEF MemoryInv, RowMatchesHistory
  <2>3. CASE /\ history'[p][d] = history[p][d]
             /\ decisions'[p][d] = decisions[p][d]
    BY <2>2, <2>3
  <2>4. CASE ~(/\ history'[p][d] = history[p][d]
               /\ decisions'[p][d] = decisions[p][d])
    <3> DEFINE row == decisions[p][d]
               h == history[p][d]
               source == StatusOf(i, d)
               o == [seq |-> n, asOf |-> i.asOf, status |-> source,
                     transition |-> TransitionOf(row.status, source)]
    <3>1. /\ d \in Touched(decisions[p], i)
          /\ history'[p][d] = h \cup {o}
          /\ decisions'[p][d] = RowAfter(row, source, i.asOf)
          /\ \A x \in h : x.seq < n
      BY <2>4, SyncOnDecision DEF ObservationOf
    <3>2. source \in SourceStatus /\ Applies(row.status, source)
      BY <1>5, <3>1 DEF Touched
    <3>3. row \in Row /\ h \in SUBSET Observation
      BY <1>2
    <3>4. IsFiniteSet(h)
      BY DEF MemoryInv, HistoriesFinite
    <3>5. RowTells(RowAfter(row, source, i.asOf), h \cup {o})
      <4> HIDE DEF row, h, source
      <4>1. RowTells(row, h)
        BY <2>2 DEF row, h
      <4>2. \A x \in h : x.seq < n
        BY <3>1
      <4>3. QED
        BY <1>1, <3>2, <3>3, <3>4, <4>1, <4>2, RowTellsStep
    <3>6. QED
      BY <3>1, <3>5
  <2>5. QED
    BY <2>3, <2>4
<1>13. NothingForgotten'
  <2>1. SUFFICES ASSUME NEW r \in runs', NEW e \in r.input.evaluations
                 PROVE  LET h == history'[r.input.property][e.identity] IN
                        /\ (\E o \in h : o.seq = r.seq)
                             <=> \/ e.status = "TRIGGERED"
                                 \/ \E o \in h : o.seq < r.seq
                        /\ \A o \in h : o.seq = r.seq =>
                             o.status = e.status /\ o.asOf = r.input.asOf
    BY DEF NothingForgotten
  <2> DEFINE p == r.input.property
             d == e.identity
             h == history[p][d]
  <2>2. p \in Property /\ d \in Identity /\ r.seq \in Nat
    <3>1. r \in Run
      BY <1>6 DEF MemoryTypeOK
    <3>2. PICK j \in Input : r.input = RunInput(j)
      BY <3>1 DEF Run
    <3>3. e \in Kept(j) /\ p = j.property
      BY <3>2 DEF RunInput
    <3>4. QED
      BY <3>1, <3>3, KeptType DEF Run, Evaluation
  <2>3. h \subseteq Observation
    BY <1>2, <2>2
  <2>4. CASE r \in runs
    <3>1. /\ (\E o \in h : o.seq = r.seq)
               <=> \/ e.status = "TRIGGERED"
                   \/ \E o \in h : o.seq < r.seq
          /\ \A o \in h : o.seq = r.seq =>
               o.status = e.status /\ o.asOf = r.input.asOf
      BY <2>4 DEF MemoryInv, NothingForgotten
    <3>2. CASE history'[p][d] = h
      BY <3>1, <3>2
    <3>3. CASE history'[p][d] # h
      <4>1. /\ p = i.property
            /\ history'[p][d] = h \cup {ObservationOf(decisions[p], i, d, n)}
        BY <2>2, <3>3, SyncOnDecision
      <4>2. ObservationOf(decisions[p], i, d, n).seq = n
        BY DEF ObservationOf
      <4>3. r.seq < n
        BY <2>4, <4>1 DEF Sync, RunsOf
      <4>4. \A o \in history'[p][d] : o.seq <= r.seq => o \in h
        BY <1>1, <2>2, <4>1, <4>2, <4>3
      <4>5. \A o \in h : o.seq \in Nat
        BY <2>3 DEF Observation
      <4>6. \A o \in history'[p][d] :
               o.seq = r.seq \/ o.seq < r.seq => o \in h
        BY <1>1, <2>2, <4>1, <4>2, <4>3
      <4> HIDE DEF h, d, p
      <4>7. QED
        BY <3>1, <4>1, <4>6 DEF h, d, p
    <3>4. QED
      BY <3>2, <3>3
  <2>5. CASE r \notin runs
    <3>1. /\ r = run /\ e \in Kept(i)
          /\ p = i.property /\ r.seq = n /\ r.input.asOf = i.asOf
      BY <1>3, <2>5
    <3>2. d \in Evaluated(i) /\ StatusOf(i, d) = e.status
      BY <3>1, StatusOfKept DEF Sync
    <3>3. RowTells(decisions[p][d], h)
      BY <2>2 DEF MemoryInv, RowMatchesHistory
    <3>4. \A o \in h : o.seq \in Nat /\ o.seq < n
      <4>1. \A o \in h : \E s \in RunsOf(p) : s.seq = o.seq
        BY <2>2 DEF MemoryInv, ObservedInARun
      <4>2. \A s \in RunsOf(p) : s.seq < n
        BY <3>1 DEF Sync
      <4>3. QED
        BY <2>3, <4>1, <4>2 DEF Observation
    <3>5. d \in Touched(decisions[p], i) <=> (h # {} \/ e.status = "TRIGGERED")
      BY <3>2, <3>3 DEF Touched, Applies, RowTells
    <3>6. CASE d \in Touched(decisions[p], i)
      <4> DEFINE o == ObservationOf(decisions[p], i, d, n)
      <4>1. /\ history'[p][d] = h \cup {o}
            /\ o.seq = n /\ o.status = e.status /\ o.asOf = i.asOf
        BY <2>2, <3>1, <3>2, <3>6, SyncOnDecision DEF ObservationOf
      <4> HIDE DEF o
      <4>2. \A x \in history'[p][d] : x.seq = n => x = o
        BY <1>1, <3>4, <4>1
      <4>3. (\E x \in history'[p][d] : x.seq < n) <=> h # {}
        BY <1>1, <3>4, <4>1
      <4>4. \E x \in history'[p][d] : x.seq = n
        BY <4>1
      <4>5. QED
        BY <3>1, <3>5, <3>6, <4>1, <4>2, <4>3, <4>4
    <3>7. CASE d \notin Touched(decisions[p], i)
      <4>1. history'[p][d] = h /\ h = {} /\ e.status # "TRIGGERED"
        BY <2>2, <3>5, <3>7, SyncOnDecision
      <4>2. QED
        BY <4>1
    <3>8. QED
      BY <3>6, <3>7
  <2>6. QED
    BY <2>4, <2>5
<1>14. QED
  BY <1>6, <1>7, <1>8, <1>9, <1>10, <1>11, <1>12, <1>13 DEF MemoryInv

LEMMA MemoryInvNext == MemoryInv /\ [MemoryNext]_memory => MemoryInv'
<1>1. ASSUME MemoryInv, UNCHANGED memory
      PROVE  MemoryInv'
  BY <1>1 DEF memory, MemoryInv, MemoryTypeOK, ObservedInARun, RunsOf, HistoriesFinite,
     OneObservationPerRun, SequencesUnique, RowMatchesHistory, HistoryInOrder,
     OneRunPerInput, NothingForgotten
<1>2. ASSUME MemoryInv, MemoryNext
      PROVE  MemoryInv'
  BY <1>2, MemoryInvSync DEF MemoryNext
<1>3. QED
  BY <1>1, <1>2

THEOREM MemoryInvariant == MemorySpec => []MemoryInv
<1>1. QED
  BY MemoryInvInit, MemoryInvNext, PTL DEF MemorySpec

\* The row of a Decision is what its observations add up to.
THEOREM RowsMatchHistories == MemorySpec => []RowMatchesHistory
<1>1. MemoryInv => RowMatchesHistory
  BY DEF MemoryInv
<1>2. QED
  BY <1>1, MemoryInvariant, PTL

\* A Decision is never evaluated as of an earlier date than before.
THEOREM HistoriesInOrder == MemorySpec => []HistoryInOrder
<1>1. MemoryInv => HistoryInOrder
  BY DEF MemoryInv
<1>2. QED
  BY <1>1, MemoryInvariant, PTL

\* Two runs never record the same logical input.
THEOREM RunsUnique == MemorySpec => []OneRunPerInput
<1>1. MemoryInv => OneRunPerInput
  BY DEF MemoryInv
<1>2. QED
  BY <1>1, MemoryInvariant, PTL

\* A run has exactly the observations its evaluations call for.
THEOREM RunsComplete == MemorySpec => []NothingForgotten
<1>1. MemoryInv => NothingForgotten
  BY DEF MemoryInv
<1>2. QED
  BY <1>1, MemoryInvariant, PTL

\* Runs and observations are only added, each after all of its hotel.
THEOREM MemoryAppendOnly == MemorySpec => AppendOnly
<1> DEFINE Appends ==
      /\ runs \subseteq runs'
      /\ \A r \in runs' \ runs : \A s \in RunsOf(r.input.property) : s.seq < r.seq
      /\ \A p \in Property, d \in Identity :
           /\ history[p][d] \subseteq history'[p][d]
           /\ \A o \in history'[p][d] \ history[p][d] :
                /\ \A s \in RunsOf(p) : s.seq < o.seq
                /\ \E r \in runs' \ runs : r.seq = o.seq
<1>1. ASSUME MemoryInv, NEW i \in Input, NEW n \in 1..MaxSequence, Sync(i, n)
      PROVE  Appends
  <2>1. /\ runs' = runs \cup {[seq |-> n, input |-> RunInput(i)]}
        /\ RunInput(i).property = i.property
        /\ \A r \in runs : r.seq # n
        /\ \A s \in RunsOf(i.property) : s.seq < n
    BY <1>1 DEF Sync, RunInput
  <2>2. ASSUME NEW p \in Property, NEW d \in Identity
        PROVE  /\ history[p][d] \subseteq history'[p][d]
               /\ \A o \in history'[p][d] \ history[p][d] :
                    p = i.property /\ o.seq = n
    BY <1>1, <2>2, SyncOnDecision DEF ObservationOf
  <2>3. ASSUME NEW r \in runs' \ runs
        PROVE  \A s \in RunsOf(r.input.property) : s.seq < r.seq
    <3>1. r = [seq |-> n, input |-> RunInput(i)]
      BY <2>1
    <3>2. QED
      BY <2>1, <3>1
  <2>4. [seq |-> n, input |-> RunInput(i)] \in runs' \ runs
    BY <2>1
  <2>5. ASSUME NEW p \in Property, NEW d \in Identity,
               NEW o \in history'[p][d] \ history[p][d]
        PROVE  /\ \A s \in RunsOf(p) : s.seq < o.seq
               /\ \E r \in runs' \ runs : r.seq = o.seq
    <3>1. p = i.property /\ o.seq = n
      BY <2>2
    <3>2. QED
      BY <2>1, <2>4, <3>1
  <2>6. QED
    BY <2>1, <2>2, <2>3, <2>5
<1>2. MemoryInv /\ [MemoryNext]_memory => [Appends]_memory
  BY <1>1 DEF MemoryNext
<1>3. QED
  BY <1>2, MemoryInvariant, PTL DEF MemorySpec, AppendOnly
=============================================================================
