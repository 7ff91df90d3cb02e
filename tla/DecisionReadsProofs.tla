------------------------ MODULE DecisionReadsProofs -------------------------
(***************************************************************************)
(* What the reads of the Decision API never get wrong, for any Decisions,  *)
(* runs, pages and commits between the statements of a reading: the safety *)
(* properties of DecisionReads.                                            *)
(*                                                                         *)
(* A reading is a cursor in an order that syncs disturb.  So the invariant *)
(* says how a row may have moved since it was read (Moved: only to the     *)
(* front of a list) and where the observations that come meanwhile are     *)
(* (Grown: before all there are); behind the cursor is what was shown, and *)
(* what was not is beyond it.  A feed shows rows of a later moment than    *)
(* its run: what it needs of the tables is RunsInv.                        *)
(***************************************************************************)
EXTENDS DecisionReads, DecisionMemoryProofs

Steps == {"idle", "rows", "latest", "observations", "run", "overall", "items", "done"}

-----------------------------------------------------------------------------
(* What a run says of its Decisions, beyond MemoryInv.                     *)

\* An observation is of an evaluation of its run.
ObservedWasEvaluated ==
  \A p \in Property, d \in Identity : \A o \in history[p][d] :
     \E r \in RunsOf(p) :
        r.seq = o.seq /\ \E e \in r.input.evaluations : e.identity = d

\* A run evaluates finitely many Decisions, each once.
EvaluatedOnce ==
  \A r \in runs :
     /\ IsFiniteSet(r.input.evaluations)
     /\ \A e, f \in r.input.evaluations : e.identity = f.identity => e = f

\* A triggered Decision is open: since it last ended, it started again.
OpenOnceTriggered(h) ==
  \A o \in Triggers(h), e \in Ends(h) :
     e.seq <= o.seq => \E s \in Starts(h) : e.seq < s.seq /\ s.seq <= o.seq

OpenWhenTriggered ==
  \A p \in Property, d \in Identity : OpenOnceTriggered(history[p][d])

Existing(rows) == {d \in Identity : rows[d].status # "NONE"}

FinitelyMany == \A p \in Property : IsFiniteSet(Existing(decisions[p]))

RunsInv == ObservedWasEvaluated /\ EvaluatedOnce /\ OpenWhenTriggered /\ FinitelyMany

\* The tables that readers rely on.
TablesInv == MemoryInv /\ RunsInv

-----------------------------------------------------------------------------
(* How a row and the observations of a Decision grow.                      *)

Later(a, b) ==
  \/ a.triggered < b.triggered
  \/ /\ a.triggered = b.triggered
     /\ \/ a.lastEvaluated < b.lastEvaluated
        \/ /\ a.lastEvaluated = b.lastEvaluated
           /\ a.status = "OPEN" /\ b.status = "RESOLVED"

Moved(a, b) ==
  /\ a = b \/ Later(a, b)
  /\ a.status # "NONE" => /\ b.status # "NONE"
                          /\ a.lastEvaluated <= b.lastEvaluated
                          /\ a.lastSeen <= b.lastSeen

Grown(g, h) ==
  /\ g \subseteq h
  /\ \A o \in h \ g : \A x \in g : Before(ObservationKey(o), ObservationKey(x))

-----------------------------------------------------------------------------
(* The list.                                                               *)

AtOrBefore(a, b) == a = b \/ Before(a, b)

\* The cursor c leaves the key to the pages to come.
Beyond(c, key) == c = Start \/ Before(c, key)

RowKeys == Int \X Int \X Int
ObservationKeys == Int \X Int

IsCursor(c, keys) == c = Start \/ c \in keys

\* What was listed is behind the cursor.
Behind(c, listed) == \A x \in listed : c # Start /\ AtOrBefore(x.key, c)

\* x was read of a row that has moved to the front since.
Listed(x, rows) ==
  /\ x.decision \in Identity /\ x.row \in Row
  /\ x.key = RowKey(x.decision, x.row)
  /\ x.row.status # "NONE"
  /\ Moved(x.row, rows[x.decision])

EachOnce(listed) == \A x, y \in listed : x.decision = y.decision => x = y

\* The row's last evaluation is one of the observations.
HasOwn(x, h) == \E o \in h : o.asOf = x.row.lastEvaluated

HasLatest(x, h) ==
  /\ Cardinality(x.latest) = 1
  /\ \A o \in x.latest :
       /\ x.row.lastEvaluated <= o.asOf
       /\ \E own \in h : own.seq <= o.seq /\ own.asOf = x.row.lastEvaluated

\* A page that was read, and not shown yet.
PageIsSound(pg, c, sh, rows, obs) ==
  /\ \A x \in pg.rows :
       /\ Listed(x, rows) /\ HasOwn(x, obs[x.decision]) /\ Beyond(c, x.key)
       /\ \A y \in sh : y.decision # x.decision
  /\ EachOnce(pg.rows)
  /\ IsFiniteSet(pg.rows)
  /\ pg.more => pg.rows # {}

IsListed(d, row, listed) == \E x \in listed : x.decision = d /\ x.row = row

\* An untouched row was shown, is on the page, or is yet to come.
IsNotMissed(d, row, st, pg, c, sh) ==
  \/ IsListed(d, row, sh)
  \/ st = "rows" /\ Beyond(c, RowKey(d, row))
  \/ /\ st = "latest"
     /\ \/ IsListed(d, row, pg.rows)
        \/ pg.more /\ \A x \in pg.rows : Before(x.key, RowKey(d, row))

ListIsSound(t, st, pg, c, sh, start, rows, obs) ==
  /\ \A x \in sh : Listed(x, rows) /\ HasLatest(x, obs[x.decision])
  /\ EachOnce(sh)
  /\ st \in {"rows", "latest"} => IsCursor(c, RowKeys) /\ Behind(c, sh)
  /\ st = "latest" => PageIsSound(pg, c, sh, rows, obs)
  /\ \A d \in Identity : start[d] \in Row /\ Moved(start[d], rows[d])
  /\ \A d \in Identity :
       Matches(start[d], t.status) /\ rows[d] = start[d] =>
         IsNotMissed(d, start[d], st, pg, c, sh)

-----------------------------------------------------------------------------
(* The history.                                                            *)

IsSeen(o, sh) == \E x \in sh : x.observation = o

IsToCome(o, st, c) == st = "observations" /\ Beyond(c, ObservationKey(o))

HistoryIsSound(st, c, sh, start, h) ==
  /\ \A x \in sh : x.observation \in h /\ x.key = ObservationKey(x.observation)
  /\ \A x, y \in sh : x.observation = y.observation => x = y
  /\ st = "observations" => IsCursor(c, ObservationKeys) /\ Behind(c, sh)
  /\ start \subseteq h
  /\ \A o \in start : IsSeen(o, sh) \/ IsToCome(o, st, c)
  /\ \A o \in h : \/ IsSeen(o, sh) \/ IsToCome(o, st, c)
                  \/ \A x \in sh : Before(ObservationKey(o), x.key)

-----------------------------------------------------------------------------
(* The feed.                                                               *)

ItemIsOf(x, run, obs) ==
  x.row.status = "RESOLVED" =>
    \E o \in obs[x.decision] : o.seq > run.seq /\ o.transition = "RESOLVED"

IsFeed(f, obs) ==
  f.state # "NOT_PROCESSED" =>
    /\ Cardinality(f.items) = CountOf(f.run, {"TRIGGERED"})
    /\ f.state = "ACTION_REQUIRED" <=> f.items # {}
    /\ \A x \in f.items : x.decision \in Identity /\ ItemIsOf(x, f.run, obs)

FeedIsSound(st, pg, sh, log, obs) ==
  /\ st = "items" => \A r \in pg.run : r \in log
  /\ st = "done" => \A f \in sh : IsFeed(f, obs)

-----------------------------------------------------------------------------
(* The inductive invariant.                                                *)

Shape ==
  /\ step \in Steps
  /\ step = "idle" => task = NoTask /\ shown = {} /\ cursor = Start
  /\ step # "idle" => task \in ListTask \cup HistoryTask \cup FeedTask
  /\ step \in {"rows", "latest"} => task \in ListTask
  /\ step = "observations" => task \in HistoryTask
  /\ step \in {"run", "overall", "items"} => task \in FeedTask

ReadingIsSound ==
  /\ task \in ListTask =>
       ListIsSound(task, step, page, cursor, shown, atStart.rows,
                   decisions[task.property], history[task.property])
  /\ task \in HistoryTask =>
       HistoryIsSound(step, cursor, shown, atStart.observations[task.decision],
                      history[task.property][task.decision])
  /\ task \in FeedTask =>
       FeedIsSound(step, page, shown, RunsOf(task.property), history[task.property])

ReadInv == TablesInv /\ Shape /\ ReadingIsSound

-----------------------------------------------------------------------------
(* The orders of the keys.                                                 *)

Ordered(keys) ==
  /\ Start \notin keys
  /\ \A a \in keys : ~Before(a, a)
  /\ \A a, b, c \in keys : Before(a, b) /\ Before(b, c) => Before(a, c)
  /\ \A a, b \in keys : a = b \/ Before(a, b) \/ Before(b, a)

\* The order of lists: by the first column, then the second, then the third.
LEMMA BeforeByThree ==
    ASSUME NEW a \in RowKeys, NEW b \in RowKeys
    PROVE  Before(a, b) <=>
             \/ a[1] < b[1]
             \/ a[1] = b[1] /\ a[2] < b[2]
             \/ a[1] = b[1] /\ a[2] = b[2] /\ a[3] < b[3]
<1>1. DOMAIN a = {1, 2, 3}
  BY DEF RowKeys
<1>2. 1 .. (1 - 1) = {} /\ 1 .. (2 - 1) = {1} /\ 1 .. (3 - 1) = {1, 2}
  OBVIOUS
<1>3. Before(a, b) <=> \E k \in {1, 2, 3} : /\ \A j \in 1 .. (k - 1) : a[j] = b[j]
                                            /\ a[k] < b[k]
  BY <1>1 DEF Before
<1> QED BY <1>2, <1>3

LEMMA BeforeByTwo ==
    ASSUME NEW a \in ObservationKeys, NEW b \in ObservationKeys
    PROVE  Before(a, b) <=> a[1] < b[1] \/ (a[1] = b[1] /\ a[2] < b[2])
<1>1. DOMAIN a = {1, 2}
  BY DEF ObservationKeys
<1>2. 1 .. (1 - 1) = {} /\ 1 .. (2 - 1) = {1}
  OBVIOUS
<1>3. Before(a, b) <=> \E k \in {1, 2} : /\ \A j \in 1 .. (k - 1) : a[j] = b[j]
                                         /\ a[k] < b[k]
  BY <1>1 DEF Before
<1> QED BY <1>2, <1>3

LEMMA RowKeysOrdered == Ordered(RowKeys)
<1>1. Start \notin RowKeys
  BY DEF Start, RowKeys
<1>2. \A a \in RowKeys : a[1] \in Int /\ a[2] \in Int /\ a[3] \in Int
  BY DEF RowKeys
<1>3. \A a, b \in RowKeys : a[1] = b[1] /\ a[2] = b[2] /\ a[3] = b[3] => a = b
  BY DEF RowKeys
<1>4. \A a \in RowKeys : ~Before(a, a)
  BY <1>2, BeforeByThree
<1>5. ASSUME NEW a \in RowKeys, NEW b \in RowKeys, NEW c \in RowKeys,
             Before(a, b), Before(b, c)
      PROVE  Before(a, c)
  BY <1>2, <1>5, BeforeByThree
<1>6. \A a, b \in RowKeys : a = b \/ Before(a, b) \/ Before(b, a)
  BY <1>2, <1>3, BeforeByThree
<1> QED BY <1>1, <1>4, <1>5, <1>6 DEF Ordered

LEMMA ObservationKeysOrdered == Ordered(ObservationKeys)
<1>1. Start \notin ObservationKeys
  BY DEF Start, ObservationKeys
<1>2. \A a \in ObservationKeys : a[1] \in Int /\ a[2] \in Int
  BY DEF ObservationKeys
<1>3. \A a, b \in ObservationKeys : a[1] = b[1] /\ a[2] = b[2] => a = b
  BY DEF ObservationKeys
<1>4. \A a \in ObservationKeys : ~Before(a, a)
  BY <1>2, BeforeByTwo
<1>5. ASSUME NEW a \in ObservationKeys, NEW b \in ObservationKeys, NEW c \in ObservationKeys,
             Before(a, b), Before(b, c)
      PROVE  Before(a, c)
  BY <1>2, <1>5, BeforeByTwo
<1>6. \A a, b \in ObservationKeys : a = b \/ Before(a, b) \/ Before(b, a)
  BY <1>2, <1>3, BeforeByTwo
<1> QED BY <1>1, <1>4, <1>5, <1>6 DEF Ordered

\* A row that moved is at most where it was, or nearer to the front.
LEMMA MovedToTheFront ==
    ASSUME NEW d \in Identity, NEW a \in Row, NEW b \in Row, Moved(a, b), a.status # "NONE"
    PROVE  AtOrBefore(RowKey(d, b), RowKey(d, a))
<1>1. IdOrder[d] \in Nat
  BY IdOrderAssumption
<1>2. /\ a.lastEvaluated \in Nat /\ b.lastEvaluated \in Nat
      /\ a.lastSeen \in Nat /\ b.lastSeen \in Nat
      /\ a.lastEvaluated <= b.lastEvaluated /\ a.lastSeen <= b.lastSeen
  BY DEF Row, Moved
<1>3. RowKey(d, a) \in RowKeys /\ RowKey(d, b) \in RowKeys
  BY <1>1, <1>2 DEF RowKey, RowKeys
<1>4. CASE a.lastEvaluated = b.lastEvaluated /\ a.lastSeen = b.lastSeen
  BY <1>4 DEF RowKey, AtOrBefore
<1>5. CASE ~(a.lastEvaluated = b.lastEvaluated /\ a.lastSeen = b.lastSeen)
  <2>1. \/ -b.lastEvaluated < -a.lastEvaluated
        \/ -b.lastEvaluated = -a.lastEvaluated /\ -b.lastSeen < -a.lastSeen
    BY <1>2, <1>5
  <2> QED BY <1>3, <2>1, BeforeByThree DEF RowKey, AtOrBefore
<1> QED BY <1>4, <1>5

\* The key of a row tells its Decision.
LEMMA RowKeyTells ==
    ASSUME NEW d \in Identity, NEW e \in Identity, NEW a \in Row, NEW b \in Row
    PROVE  /\ RowKey(d, a) \in RowKeys
           /\ RowKey(d, a) = RowKey(e, b) => d = e
<1>1. IdOrder[d] \in Nat /\ IdOrder[e] \in Nat
  BY IdOrderAssumption
<1>2. a.lastEvaluated \in Nat /\ a.lastSeen \in Nat
  BY DEF Row
<1>3. RowKey(d, a) \in RowKeys
  BY <1>1, <1>2 DEF RowKey, RowKeys
<1>4. RowKey(d, a) = RowKey(e, b) => IdOrder[d] = IdOrder[e]
  BY DEF RowKey
<1> QED BY <1>3, <1>4, IdOrderAssumption

\* The key of an observation tells its run.
LEMMA ObservationKeyTells ==
    ASSUME NEW o \in Observation, NEW x \in Observation
    PROVE  /\ ObservationKey(o) \in ObservationKeys
           /\ ObservationKey(o) = ObservationKey(x) => o.seq = x.seq
           /\ Before(ObservationKey(o), ObservationKey(x)) <=>
                o.asOf > x.asOf \/ (o.asOf = x.asOf /\ o.seq > x.seq)
<1>1. o.asOf \in Nat /\ x.asOf \in Nat /\ o.seq \in Nat /\ x.seq \in Nat
  BY DEF Observation
<1>2. ObservationKey(o) \in ObservationKeys /\ ObservationKey(x) \in ObservationKeys
  BY <1>1 DEF ObservationKey, ObservationKeys
<1>3. /\ ObservationKey(o)[1] = -o.asOf /\ ObservationKey(o)[2] = -o.seq
      /\ ObservationKey(x)[1] = -x.asOf /\ ObservationKey(x)[2] = -x.seq
  BY DEF ObservationKey
<1> QED BY <1>1, <1>2, <1>3, BeforeByTwo

-----------------------------------------------------------------------------
(* The pages of a set of keyed rows.                                       *)

Keyed(set, keys) ==
  /\ IsFiniteSet(set)
  /\ \A x \in set : x.key \in keys
  /\ \A x, y \in set : x.key = y.key => x = y

LEMMA SmallestNumber ==
    ASSUME NEW S \in SUBSET Nat, S # {}
    PROVE  \E n \in S : \A m \in S : n <= m
<1>1. PICK n \in S : \A m \in S : ~ (<<m, n>> \in OpToRel(<, Nat))
  BY NatLessThanWellFounded, WFMin
<1>2. \A m \in S : ~ (m < n)
  BY <1>1 DEF OpToRel
<1> QED BY <1>2

\* How many rows come before y.
Rank(y, set) == Cardinality({z \in set : Before(z.key, y.key)})

\* Fewer than there are, and more for a later row.
LEMMA RanksGrow ==
    ASSUME NEW keys, Ordered(keys), NEW set, Keyed(set, keys), NEW x \in set
    PROVE  /\ Cardinality(set) \in Nat
           /\ Rank(x, set) \in Nat /\ Rank(x, set) < Cardinality(set)
           /\ \A y \in set : Before(x.key, y.key) => Rank(x, set) < Rank(y, set)
<1> DEFINE Front(y) == {z \in set : Before(z.key, y.key)}
<1>1. IsFiniteSet(set) /\ Cardinality(set) \in Nat
  BY FS_CardinalityType DEF Keyed
<1>2. ASSUME NEW y \in set
      PROVE  /\ Front(y) \in SUBSET set /\ IsFiniteSet(Front(y))
             /\ Cardinality(Front(y)) \in Nat
  <2>1. Front(y) \in SUBSET set
    OBVIOUS
  <2> HIDE DEF Front
  <2> QED BY <1>1, <2>1, FS_Subset, FS_CardinalityType
<1>3. ASSUME NEW T \in SUBSET set, Front(x) \subseteq T, x \in T
      PROVE  Cardinality(Front(x)) < Cardinality(T)
  <2>1. x \notin Front(x)
    BY DEF Ordered, Keyed
  <2>2. IsFiniteSet(T) /\ Cardinality(T) \in Nat
    BY <1>1, FS_Subset, FS_CardinalityType
  <2>3. Front(x) \in SUBSET T /\ Front(x) # T
    BY <1>3, <2>1
  <2>4. Cardinality(Front(x)) <= Cardinality(T) /\ Cardinality(Front(x)) # Cardinality(T)
    <3> HIDE DEF Front
    <3> QED BY <2>2, <2>3, FS_Subset
  <2> QED BY <1>2, <2>2, <2>4
<1>4. Cardinality(Front(x)) < Cardinality(set)
  BY <1>3
<1>5. ASSUME NEW y \in set, Before(x.key, y.key)
      PROVE  Cardinality(Front(x)) < Cardinality(Front(y))
  <2>1. Front(x) \subseteq Front(y)
    BY <1>5 DEF Ordered, Keyed
  <2>2. x \in Front(y)
    BY <1>5
  <2> QED BY <1>2, <1>3, <2>1, <2>2
<1> QED BY <1>1, <1>2, <1>4, <1>5 DEF Rank

\* The key of the last row is that of a row, and no row comes after it.
LEMMA LastKeyIsLast ==
    ASSUME NEW keys, Ordered(keys), NEW set, Keyed(set, keys), set # {}
    PROVE  /\ LastKey(set) \in keys
           /\ \E x \in set : LastKey(set) = x.key
           /\ \A x \in set : AtOrBefore(x.key, LastKey(set))
<1> DEFINE size == Cardinality(set)
           gaps == {size - Rank(y, set) : y \in set}
           Last(x) == \A y \in set \ {x} : Before(y.key, x.key)
<1>1. /\ size \in Nat
      /\ \A x \in set : Rank(x, set) \in Nat /\ Rank(x, set) < size
      /\ \A x, y \in set : Before(x.key, y.key) => Rank(x, set) < Rank(y, set)
  BY RanksGrow
<1>2. \E x \in set : Last(x)
  <2> HIDE DEF size
  <2>1. gaps \in SUBSET Nat /\ gaps # {}
    BY <1>1
  <2>2. PICK n \in gaps : \A m \in gaps : n <= m
    BY <2>1, SmallestNumber
  <2>3. PICK x \in set : n = size - Rank(x, set)
    BY <2>2
  <2>4. ASSUME NEW y \in set, y # x
        PROVE  Before(y.key, x.key)
    <3>1. size - Rank(x, set) <= size - Rank(y, set)
      BY <2>2, <2>3
    <3>2. ~(Rank(x, set) < Rank(y, set))
      BY <1>1, <3>1
    <3>3. x.key # y.key /\ ~Before(x.key, y.key)
      BY <1>1, <2>4, <3>2 DEF Keyed
    <3> QED BY <3>3 DEF Ordered, Keyed
  <2> QED BY <2>4
<1> DEFINE last == CHOOSE x \in set : Last(x)
<1>3. last \in set /\ Last(last)
  <2> HIDE DEF Last
  <2> QED BY <1>2
<1>4. LastKey(set) = last.key
  BY DEF LastKey
<1> HIDE DEF last
<1> QED BY <1>3, <1>4 DEF Keyed, AtOrBefore

\* A page starts behind the cursor and leaves nothing out; without another page to
\* come it is all that is left.
LEMMA PageIsTheFirst ==
    ASSUME NEW keys, Ordered(keys), NEW set, Keyed(set, keys), IsCursor(cursor, keys)
    PROVE  /\ PageOf(set) \in SUBSET set
           /\ Keyed(PageOf(set), keys)
           /\ \A x \in PageOf(set) : Beyond(cursor, x.key)
           /\ \A x \in PageOf(set), y \in set \ PageOf(set) :
                 Beyond(cursor, y.key) => Before(x.key, y.key)
           /\ ~HasMore(set) => \A y \in set : Beyond(cursor, y.key) => y \in PageOf(set)
           /\ HasMore(set) => PageOf(set) # {}
<1> DEFINE rest == AfterCursor(set)
<1>1. rest \in SUBSET set /\ \A y \in set : y \in rest <=> Beyond(cursor, y.key)
  BY DEF AfterCursor, Beyond
<1>2. \A sub \in SUBSET set : Keyed(sub, keys)
  BY FS_Subset DEF Keyed
<1>3. Keyed(rest, keys)
  BY <1>1, <1>2
<1>4. /\ Cardinality(rest) \in Nat
      /\ \A x \in rest : Rank(x, rest) \in Nat /\ Rank(x, rest) < Cardinality(rest)
      /\ \A x, y \in rest : Before(x.key, y.key) => Rank(x, rest) < Rank(y, rest)
  <2> HIDE DEF rest
  <2>1. ASSUME NEW x \in rest
        PROVE  /\ Cardinality(rest) \in Nat
               /\ Rank(x, rest) \in Nat /\ Rank(x, rest) < Cardinality(rest)
               /\ \A y \in rest : Before(x.key, y.key) => Rank(x, rest) < Rank(y, rest)
    BY <1>3, <2>1, RanksGrow
  <2>2. Cardinality(rest) \in Nat
    BY <1>3, FS_CardinalityType DEF Keyed
  <2> QED BY <2>1, <2>2
<1>5. PageOf(set) = {x \in rest : Rank(x, rest) < Limit}
  BY DEF PageOf, Rank
<1>6. HasMore(set) <=> Cardinality(rest) > Limit
  BY DEF HasMore
<1>7. Limit \in Nat /\ Limit > 0
  BY LimitAssumption
<1> HIDE DEF rest
<1>8. PageOf(set) \in SUBSET set /\ \A x \in PageOf(set) : Beyond(cursor, x.key)
  BY <1>1, <1>5
<1>9. ASSUME NEW x \in PageOf(set), NEW y \in set \ PageOf(set), Beyond(cursor, y.key)
      PROVE  Before(x.key, y.key)
  <2>1. x \in rest /\ y \in rest /\ Rank(x, rest) < Limit /\ ~(Rank(y, rest) < Limit)
    BY <1>1, <1>5, <1>9
  <2>2. ~Before(y.key, x.key)
    BY <1>4, <1>7, <2>1
  <2>3. x # y /\ x \in set /\ y \in set
    BY <1>1, <2>1
  <2> QED BY <2>2, <2>3 DEF Ordered, Keyed
<1>10. ASSUME ~HasMore(set), NEW y \in set, Beyond(cursor, y.key)
       PROVE  y \in PageOf(set)
  BY <1>1, <1>4, <1>5, <1>6, <1>7, <1>10
<1>11. ASSUME HasMore(set) PROVE PageOf(set) # {}
  <2>1. rest # {}
    BY <1>3, <1>6, <1>7, <1>11, FS_EmptySet
  <2>2. {Rank(x, rest) : x \in rest} \in SUBSET Nat /\ {Rank(x, rest) : x \in rest} # {}
    BY <1>4, <2>1
  <2>3. PICK n \in {Rank(x, rest) : x \in rest} : \A m \in {Rank(x, rest) : x \in rest} : n <= m
    BY <2>2, SmallestNumber
  <2>4. PICK x \in rest : n = Rank(x, rest)
    BY <2>3
  <2>5. \A y \in rest : Rank(x, rest) <= Rank(y, rest)
    BY <2>3, <2>4
  <2>6. \A y \in rest : ~Before(y.key, x.key)
    BY <1>4, <2>5
  <2>7. Rank(x, rest) = 0
    <3>1. {z \in rest : Before(z.key, x.key)} = {}
      BY <2>6
    <3> QED BY <3>1, FS_EmptySet DEF Rank
  <2> QED BY <1>5, <1>7, <2>7
<1>12. Keyed(PageOf(set), keys)
  BY <1>2, <1>8
<1> QED BY <1>8, <1>9, <1>10, <1>11, <1>12

-----------------------------------------------------------------------------
(* What a sync does to what readers rely on.                               *)

LEMMA KeptIsFinite ==
    ASSUME NEW i \in Input
    PROVE  IsFiniteSet(Kept(i)) /\ IsFiniteSet(Evaluated(i))
<1>1. i.evaluations \in Seq(Evaluation)
  BY InputAssumption DEF SyncInput
<1> DEFINE places == DOMAIN i.evaluations
           kept == [k \in places |-> i.evaluations[k]]
           named == [e \in Kept(i) |-> e.identity]
<1>2. IsFiniteSet(places)
  BY <1>1, FS_Interval
<1>3. kept \in Surjection(places, Kept(i))
  BY DEF Surjection, Kept
<1>4. IsFiniteSet(Kept(i))
  BY <1>2, <1>3, FS_Surjection
<1>5. named \in Surjection(Kept(i), Evaluated(i))
  BY DEF Surjection, Evaluated
<1> QED BY <1>4, <1>5, FS_Surjection

LEMMA Transitions ==
    ASSUME NEW status \in {"NONE", "OPEN", "RESOLVED"}, NEW source \in SourceStatus
    PROVE  /\ (source = "TRIGGERED" /\ status = "NONE") => TransitionOf(status, source) = "OPENED"
           /\ (source = "TRIGGERED" /\ status = "OPEN") => TransitionOf(status, source) = "OBSERVED"
           /\ (source = "TRIGGERED" /\ status = "RESOLVED") =>
                TransitionOf(status, source) = "REOPENED"
           /\ (source = "CLEAR" /\ status = "OPEN") => TransitionOf(status, source) = "RESOLVED"
           /\ (source # "TRIGGERED" /\ ~(source = "CLEAR" /\ status = "OPEN")) =>
                TransitionOf(status, source) = "NO_STATE_CHANGE"
BY DEF TransitionOf

\* One applied evaluation moves a row to the front.
LEMMA RowMoves ==
    ASSUME NEW row \in Row, NEW source \in SourceStatus, NEW asOf \in Nat,
           Applies(row.status, source),
           row.status # "NONE" => row.lastEvaluated <= asOf /\ row.lastSeen <= asOf
    PROVE  Moved(row, RowAfter(row, source, asOf))
<1> DEFINE t == TransitionOf(row.status, source)
           new == RowAfter(row, source, asOf)
<1>1. /\ row.status \in {"NONE", "OPEN", "RESOLVED"} /\ row.triggered \in Nat
      /\ row.lastEvaluated \in Nat /\ row.lastSeen \in Nat
  BY DEF Row
<1>2. new \in Row
  BY RowAfterType
<1>3. /\ new.lastEvaluated = asOf
      /\ new.lastSeen = IF source = "TRIGGERED" THEN asOf ELSE row.lastSeen
      /\ new.triggered = IF source = "TRIGGERED" THEN row.triggered + 1 ELSE row.triggered
      /\ new.status = StatusAfter(row.status, t)
      /\ new.resolved = ResolvedAfter(row.resolved, t, asOf)
      /\ new.firstSeen = IF t = "OPENED" THEN asOf ELSE row.firstSeen
      /\ new.episodes = IF t \in EpisodeStarts THEN row.episodes + 1 ELSE row.episodes
  BY DEF RowAfter
<1>4. /\ t \in EpisodeStarts => StatusAfter(row.status, t) = "OPEN"
      /\ t = "RESOLVED" => StatusAfter(row.status, t) = "RESOLVED"
      /\ (t \notin EpisodeStarts /\ t # "RESOLVED") =>
           /\ StatusAfter(row.status, t) = row.status
           /\ ResolvedAfter(row.resolved, t, asOf) = row.resolved
  <2> HIDE DEF t
  <2> QED BY DEF StatusAfter, ResolvedAfter, EpisodeStarts
<1>5. CASE source = "TRIGGERED"
  <2>1. t \in {"OPENED", "OBSERVED", "REOPENED"} /\ (t = "OBSERVED" => row.status = "OPEN")
    BY <1>1, <1>5, Transitions
  <2> HIDE DEF t, new
  <2>2. new.status # "NONE"
    BY <1>3, <1>4, <2>1 DEF EpisodeStarts
  <2>3. row.triggered < new.triggered
    BY <1>1, <1>3, <1>5
  <2> QED BY <1>1, <1>3, <1>5, <2>2, <2>3 DEF Moved, Later, new
<1>6. CASE source # "TRIGGERED"
  <2>1. row.status # "NONE"
    BY <1>6 DEF Applies
  <2>2. CASE source = "CLEAR" /\ row.status = "OPEN"
    <3>1. t = "RESOLVED"
      BY <1>1, <2>2, Transitions
    <3> HIDE DEF t, new
    <3>2. new.status = "RESOLVED" /\ new.triggered = row.triggered
      BY <1>3, <1>4, <1>6, <3>1
    <3>3. new.lastSeen = row.lastSeen
      BY <1>3, <1>6
    <3> QED BY <1>1, <1>3, <2>1, <2>2, <3>2, <3>3 DEF Moved, Later, new
  <2>3. CASE ~(source = "CLEAR" /\ row.status = "OPEN")
    <3>1. t = "NO_STATE_CHANGE"
      BY <1>1, <1>6, <2>3, Transitions
    <3> HIDE DEF t, new
    <3>2. /\ new.status = row.status /\ new.resolved = row.resolved
          /\ new.triggered = row.triggered /\ new.lastSeen = row.lastSeen
          /\ new.firstSeen = row.firstSeen /\ new.episodes = row.episodes
      BY <1>3, <1>4, <1>6, <3>1 DEF EpisodeStarts
    <3>3. CASE row.lastEvaluated = asOf
      <4>1. new = row
        BY <1>2, <1>3, <3>2, <3>3 DEF Row
      <4> QED BY <1>1, <4>1 DEF Moved, new
    <3>4. CASE row.lastEvaluated # asOf
      BY <1>1, <1>3, <2>1, <3>2, <3>4 DEF Moved, Later, new
    <3> QED BY <3>3, <3>4
  <2> QED BY <2>2, <2>3
<1> QED BY <1>5, <1>6

LEMMA MovedOnwards ==
    ASSUME NEW a \in Row, NEW b \in Row, NEW c \in Row
    PROVE  /\ Moved(a, a)
           /\ Moved(a, b) /\ Moved(b, c) => Moved(a, c)
           /\ Moved(a, b) /\ Moved(b, a) => a = b
<1>1. \A r \in {a, b, c} : /\ r.triggered \in Nat /\ r.lastEvaluated \in Nat
                           /\ r.lastSeen \in Nat
  BY DEF Row
<1> QED BY <1>1 DEF Moved, Later

\* A sync moves rows to the front, and adds observations before all there are.
LEMMA SyncGrows ==
    ASSUME MemoryInv, NEW i \in Input, NEW n \in 1..MaxSequence, Sync(i, n),
           NEW p \in Property, NEW d \in Identity
    PROVE  /\ Moved(decisions[p][d], decisions'[p][d])
           /\ Grown(history[p][d], history'[p][d])
<1> DEFINE row == decisions[p][d]
           h == history[p][d]
           source == StatusOf(i, d)
           o == ObservationOf(decisions[p], i, d, n)
<1>1. row \in Row /\ h \subseteq Observation
  BY DEF MemoryInv, MemoryTypeOK
<1>2. n \in Nat /\ i.asOf \in Nat
  BY KeptType, MaxSequenceAssumption
<1>3. CASE history'[p][d] = h /\ decisions'[p][d] = row
  BY <1>1, <1>3, MovedOnwards DEF Grown
<1>4. CASE ~(history'[p][d] = h /\ decisions'[p][d] = row)
  <2>1. /\ d \in Touched(decisions[p], i) /\ p = i.property
        /\ history'[p][d] = h \cup {o}
        /\ decisions'[p][d] = RowAfter(row, source, i.asOf)
        /\ \A x \in h : x.seq < n /\ x.asOf <= i.asOf
    BY <1>4, SyncOnDecision
  <2>2. source \in SourceStatus /\ Applies(row.status, source)
    BY <2>1, KeptType DEF Touched
  <2>3. row.status # "NONE" => row.lastEvaluated <= i.asOf /\ row.lastSeen <= i.asOf
    <3>1. RowTells(row, h)
      BY DEF MemoryInv, RowMatchesHistory
    <3> HIDE DEF row, h
    <3>2. row.status # "NONE" => /\ \E x \in h : row.lastEvaluated = x.asOf
                                 /\ \E x \in h : row.lastSeen = x.asOf
      BY <3>1 DEF RowTells
    <3> QED BY <2>1, <3>2
  <2>4. Moved(row, RowAfter(row, source, i.asOf))
    <3> HIDE DEF row, source
    <3> QED BY <1>1, <1>2, <2>2, <2>3, RowMoves
  <2>5. o \in Observation /\ o.seq = n /\ o.asOf = i.asOf
    <3>1. TransitionOf(row.status, source) \in LifecycleTransition
      BY <1>1, <1>2, <2>2, RowAfterType
    <3> QED BY <1>2, <2>2, <3>1 DEF ObservationOf, Observation
  <2>6. \A x \in h : Before(ObservationKey(o), ObservationKey(x))
    <3>1. SUFFICES ASSUME NEW x \in h
                   PROVE  Before(ObservationKey(o), ObservationKey(x))
      OBVIOUS
    <3>2. x \in Observation /\ x.seq < n /\ x.asOf <= i.asOf
      BY <1>1, <2>1
    <3>3. x.asOf \in Nat /\ x.seq \in Nat
      BY <3>2 DEF Observation
    <3> HIDE DEF o
    <3>4. o.asOf > x.asOf \/ (o.asOf = x.asOf /\ o.seq > x.seq)
      BY <1>2, <2>5, <3>2, <3>3
    <3> QED BY <2>5, <3>2, <3>4, ObservationKeyTells
  <2>7. Grown(h, h \cup {o})
    <3> HIDE DEF h, o
    <3> QED BY <2>6 DEF Grown
  <2> QED BY <2>1, <2>4, <2>7
<1> QED BY <1>3, <1>4

\* After a triggered observation the Decision is open.
LEMMA OpenStep ==
    ASSUME NEW row \in Row, NEW h \in SUBSET Observation,
           NEW source \in SourceStatus, NEW asOf \in Nat, NEW n \in Nat,
           RowTells(row, h), OpenOnceTriggered(h), \A x \in h : x.seq < n,
           \A x, y \in h : x.seq = y.seq => x = y
    PROVE  LET o == [seq |-> n, asOf |-> asOf, status |-> source,
                     transition |-> TransitionOf(row.status, source)]
           IN  OpenOnceTriggered(h \cup {o})
<1> DEFINE t == TransitionOf(row.status, source)
           o == [seq |-> n, asOf |-> asOf, status |-> source, transition |-> t]
           g == h \cup {o}
<1>1. o.seq = n /\ o.status = source /\ o.transition = t
  OBVIOUS
<1>2. \A x \in h : x.seq \in Nat
  BY DEF Observation
<1>3. row.status \in {"NONE", "OPEN", "RESOLVED"}
  BY DEF Row
<1>4. source = "TRIGGERED" =>
        /\ t \in {"OPENED", "OBSERVED", "REOPENED"}
        /\ t = "OBSERVED" => row.status = "OPEN"
  BY <1>3, Transitions
<1> SUFFICES OpenOnceTriggered(g)
  OBVIOUS
<1> HIDE DEF t, o
<1> SUFFICES ASSUME NEW x \in Triggers(g), NEW e \in Ends(g), e.seq <= x.seq
             PROVE  \E s \in Starts(g) : e.seq < s.seq /\ s.seq <= x.seq
  BY DEF OpenOnceTriggered
<1>5. Starts(h) \subseteq Starts(g)
  BY DEF Starts
<1>6. CASE x \in h
  <2>1. e \in Ends(h) /\ x \in Triggers(h)
    BY <1>1, <1>2, <1>6 DEF Ends, Triggers
  <2> QED BY <1>5, <2>1 DEF OpenOnceTriggered
<1>7. CASE x \notin h
  <2>1. x = o /\ source = "TRIGGERED"
    BY <1>1, <1>7 DEF Triggers
  <2>2. e \in Ends(h) /\ e \in h /\ e.transition = "RESOLVED"
    BY <1>1, <1>4, <2>1 DEF Ends
  <2>3. CASE t = "OBSERVED"
    <3>1. row.status = "OPEN"
      BY <1>4, <2>1, <2>3
    <3>2. PICK s \in h : /\ LastOf(s, Starts(h) \cup Ends(h))
                         /\ s.transition # "RESOLVED"
      BY <3>1 DEF RowTells
    <3>3. s \in Starts(h) /\ e.seq <= s.seq /\ e # s
      BY <2>2, <3>2 DEF LastOf, Ends
    <3>4. e.seq < s.seq
      BY <1>2, <2>2, <3>2, <3>3
    <3>5. s.seq <= x.seq
      BY <1>1, <1>2, <2>1, <3>2
    <3> QED BY <1>5, <3>3, <3>4, <3>5
  <2>4. CASE t # "OBSERVED"
    <3>1. o \in Starts(g)
      BY <1>1, <1>4, <2>1, <2>4 DEF Starts
    <3> QED BY <1>1, <2>1, <2>2, <3>1
  <2> QED BY <2>3, <2>4
<1> QED BY <1>6, <1>7

LEMMA RunsInvInit == MemoryInit => RunsInv
<1> SUFFICES ASSUME MemoryInit
             PROVE  RunsInv
  OBVIOUS
<1>1. ObservedWasEvaluated /\ EvaluatedOnce /\ OpenWhenTriggered
  BY DEF MemoryInit, ObservedWasEvaluated, EvaluatedOnce, OpenWhenTriggered,
         OpenOnceTriggered, Triggers
<1>2. \A p \in Property : Existing(decisions[p]) = {}
  BY DEF MemoryInit, Existing, NoDecision
<1> QED BY <1>1, <1>2, FS_EmptySet DEF RunsInv, FinitelyMany

LEMMA RunsInvSync ==
    ASSUME MemoryInv, RunsInv, NEW i \in Input, NEW n \in 1..MaxSequence, Sync(i, n)
    PROVE  RunsInv'
<1> DEFINE run == [seq |-> n, input |-> RunInput(i)]
<1>1. /\ runs' = runs \cup {run}
      /\ run.seq = n
      /\ run.input.property = i.property
      /\ run.input.evaluations = Kept(i)
  BY DEF Sync, RunInput
<1>2. /\ history \in [Property -> [Identity -> SUBSET Observation]]
      /\ decisions \in [Property -> [Identity -> Row]]
  BY DEF MemoryInv, MemoryTypeOK
<1>3. n \in Nat /\ i.asOf \in Nat /\ i.property \in Property
  BY KeptType, MaxSequenceAssumption
<1> HIDE DEF run
<1>4. ObservedWasEvaluated'
  <2> SUFFICES ASSUME NEW p \in Property, NEW d \in Identity, NEW o \in history'[p][d]
               PROVE  \E r \in RunsOf(p)' :
                         r.seq = o.seq /\ \E e \in r.input.evaluations : e.identity = d
    BY DEF ObservedWasEvaluated
  <2>1. CASE o \in history[p][d]
    <3>1. PICK r \in RunsOf(p) :
             r.seq = o.seq /\ \E e \in r.input.evaluations : e.identity = d
      BY <2>1 DEF RunsInv, ObservedWasEvaluated
    <3> QED BY <1>1, <3>1 DEF RunsOf
  <2>2. CASE o \notin history[p][d]
    <3>1. p = i.property /\ o.seq = n /\ d \in Evaluated(i)
      BY <2>2, SyncOnDecision DEF ObservationOf, Touched
    <3>2. \E e \in Kept(i) : e.identity = d
      BY <3>1 DEF Evaluated
    <3> QED BY <1>1, <3>1, <3>2 DEF RunsOf
  <2> QED BY <2>1, <2>2
<1>5. EvaluatedOnce'
  <2>1. \A e, f \in Kept(i) : e.identity = f.identity => e = f
    BY DEF Sync, Valid, Conflicting
  <2> QED BY <1>1, <2>1, KeptIsFinite DEF RunsInv, EvaluatedOnce
<1>6. OpenWhenTriggered'
  <2> SUFFICES ASSUME NEW p \in Property, NEW d \in Identity
               PROVE  OpenOnceTriggered(history'[p][d])
    BY DEF OpenWhenTriggered
  <2> DEFINE row == decisions[p][d]
             h == history[p][d]
             source == StatusOf(i, d)
             o == [seq |-> n, asOf |-> i.asOf, status |-> source,
                   transition |-> TransitionOf(row.status, source)]
  <2>1. OpenOnceTriggered(h)
    BY DEF RunsInv, OpenWhenTriggered
  <2>2. CASE history'[p][d] = h
    BY <2>1, <2>2
  <2>3. CASE history'[p][d] # h
    <3>1. /\ d \in Touched(decisions[p], i) /\ p = i.property
          /\ history'[p][d] = h \cup {o}
          /\ \A x \in h : x.seq < n
      BY <2>3, SyncOnDecision DEF ObservationOf
    <3>2. source \in SourceStatus
      BY <3>1, KeptType DEF Touched
    <3>3. row \in Row /\ h \in SUBSET Observation
      BY <1>2
    <3>4. RowTells(row, h) /\ \A x, y \in h : x.seq = y.seq => x = y
      BY DEF MemoryInv, RowMatchesHistory, OneObservationPerRun
    <3>5. OpenOnceTriggered(h \cup {o})
      <4> HIDE DEF row, h, source
      <4> QED BY <1>3, <2>1, <3>1, <3>2, <3>3, <3>4, OpenStep
    <3> QED BY <3>1, <3>5
  <2> QED BY <2>2, <2>3
<1>7. FinitelyMany'
  <2> SUFFICES ASSUME NEW p \in Property
               PROVE  IsFiniteSet(Existing(decisions'[p]))
    BY DEF FinitelyMany
  <2>1. IsFiniteSet(Existing(decisions[p])) /\ IsFiniteSet(Evaluated(i))
    BY KeptIsFinite DEF RunsInv, FinitelyMany
  <2>2. IsFiniteSet(Existing(decisions[p]) \cup Evaluated(i))
    BY <2>1, FS_Union
  <2>3. \A d \in Identity : \/ decisions'[p][d] = decisions[p][d]
                            \/ d \in Evaluated(i)
    BY SyncOnDecision DEF Touched
  <2>4. Existing(decisions'[p]) \subseteq Existing(decisions[p]) \cup Evaluated(i)
    BY <2>3 DEF Existing
  <2> QED BY <2>2, <2>4, FS_Subset
<1> QED BY <1>4, <1>5, <1>6, <1>7 DEF RunsInv

LEMMA TablesKeep == TablesInv /\ [MemoryNext]_memory => TablesInv'
<1>1. ASSUME TablesInv, UNCHANGED memory
      PROVE  TablesInv'
  <2>1. MemoryInv'
    BY <1>1, MemoryInvNext DEF TablesInv
  <2>2. RunsInv'
    BY <1>1 DEF TablesInv, RunsInv, ObservedWasEvaluated, EvaluatedOnce, RunsOf,
       OpenWhenTriggered, FinitelyMany, memory
  <2> QED BY <2>1, <2>2 DEF TablesInv
<1>2. ASSUME TablesInv, MemoryNext
      PROVE  TablesInv'
  <2>1. MemoryInv'
    BY <1>2, MemoryInvNext DEF TablesInv
  <2>2. RunsInv'
    BY <1>2, RunsInvSync DEF TablesInv, MemoryNext
  <2> QED BY <2>1, <2>2 DEF TablesInv
<1> QED BY <1>1, <1>2

-----------------------------------------------------------------------------
(* A reading stays sound while the tables grow.                            *)

LEMMA ListStays ==
    ASSUME NEW t \in ListTask, NEW st, NEW pg, NEW c, NEW sh, NEW start,
           NEW rows, NEW obs, NEW rows2, NEW obs2,
           ListIsSound(t, st, pg, c, sh, start, rows, obs),
           \A d \in Identity : /\ rows[d] \in Row /\ rows2[d] \in Row
                               /\ Moved(rows[d], rows2[d])
                               /\ obs[d] \subseteq obs2[d]
    PROVE  ListIsSound(t, st, pg, c, sh, start, rows2, obs2)
<1>1. ASSUME NEW x, Listed(x, rows)
      PROVE  Listed(x, rows2) /\ obs[x.decision] \subseteq obs2[x.decision]
  <2>1. x.decision \in Identity /\ x.row \in Row /\ Moved(x.row, rows[x.decision])
    BY <1>1 DEF Listed
  <2>2. Moved(x.row, rows2[x.decision])
    BY <2>1, MovedOnwards
  <2> QED BY <1>1, <2>1, <2>2 DEF Listed
<1>2. ASSUME NEW x, Listed(x, rows)
      PROVE  /\ HasLatest(x, obs[x.decision]) => HasLatest(x, obs2[x.decision])
             /\ HasOwn(x, obs[x.decision]) => HasOwn(x, obs2[x.decision])
  BY <1>1, <1>2 DEF HasLatest, HasOwn
<1>3. \A x \in sh : Listed(x, rows2) /\ HasLatest(x, obs2[x.decision])
  BY <1>1, <1>2 DEF ListIsSound
<1>4. st = "latest" => PageIsSound(pg, c, sh, rows2, obs2)
  BY <1>1, <1>2 DEF ListIsSound, PageIsSound
<1>5. ASSUME NEW d \in Identity
      PROVE  /\ start[d] \in Row /\ Moved(start[d], rows2[d])
             /\ rows2[d] = start[d] => rows[d] = start[d]
  <2>1. start[d] \in Row /\ Moved(start[d], rows[d])
    BY DEF ListIsSound
  <2>2. rows[d] \in Row /\ rows2[d] \in Row /\ Moved(rows[d], rows2[d])
    OBVIOUS
  <2> QED BY <2>1, <2>2, MovedOnwards
<1> QED BY <1>3, <1>4, <1>5 DEF ListIsSound

LEMMA HistoryStays ==
    ASSUME NEW st, NEW c, NEW sh, NEW start, NEW h, NEW h2,
           HistoryIsSound(st, c, sh, start, h), Grown(h, h2)
    PROVE  HistoryIsSound(st, c, sh, start, h2)
<1>1. h \subseteq h2
  BY DEF Grown
<1>2. ASSUME NEW o \in h2 \ h, NEW x \in sh
      PROVE  Before(ObservationKey(o), x.key)
  BY DEF Grown, HistoryIsSound
<1> QED BY <1>1, <1>2 DEF HistoryIsSound

LEMMA FeedStays ==
    ASSUME NEW st, NEW pg, NEW sh, NEW log, NEW log2, NEW obs, NEW obs2,
           FeedIsSound(st, pg, sh, log, obs), log \subseteq log2,
           \A d \in Identity : obs[d] \subseteq obs2[d]
    PROVE  FeedIsSound(st, pg, sh, log2, obs2)
<1>1. ASSUME NEW f, IsFeed(f, obs)
      PROVE  IsFeed(f, obs2)
  BY <1>1 DEF IsFeed, ItemIsOf
<1> QED BY <1>1 DEF FeedIsSound

LEMMA SyncKeeps ==
    ASSUME ReadInv, MemoryNext, UNCHANGED <<task, step, page, cursor, shown, atStart>>
    PROVE  ReadInv'
<1>1. TablesInv'
  BY TablesKeep DEF ReadInv
<1>2. Shape'
  BY DEF ReadInv, Shape
<1> PICK i \in Input, n \in 1..MaxSequence : Sync(i, n)
  BY DEF MemoryNext
<1>3. MemoryInv
  BY DEF ReadInv, TablesInv
<1>4. /\ decisions \in [Property -> [Identity -> Row]]
      /\ decisions' \in [Property -> [Identity -> Row]]
  BY <1>1, <1>3 DEF TablesInv, MemoryInv, MemoryTypeOK
<1>5. ASSUME NEW p \in Property, NEW d \in Identity
      PROVE  /\ decisions[p][d] \in Row /\ decisions'[p][d] \in Row
             /\ Moved(decisions[p][d], decisions'[p][d])
             /\ Grown(history[p][d], history'[p][d])
             /\ history[p][d] \subseteq history'[p][d]
  BY <1>3, <1>4, SyncGrows DEF Grown
<1>6. ASSUME task \in ListTask
      PROVE  ListIsSound(task, step, page, cursor, shown, atStart.rows,
                         decisions'[task.property], history'[task.property])
  <2>1. task.property \in Property
    BY <1>6 DEF ListTask
  <2> QED BY <1>5, <1>6, <2>1, ListStays DEF ReadInv, ReadingIsSound
<1>7. ASSUME task \in HistoryTask
      PROVE  HistoryIsSound(step, cursor, shown, atStart.observations[task.decision],
                            history'[task.property][task.decision])
  <2>1. task.property \in Property /\ task.decision \in Identity
    BY <1>7 DEF HistoryTask
  <2> QED BY <1>5, <1>7, <2>1, HistoryStays DEF ReadInv, ReadingIsSound
<1>8. ASSUME task \in FeedTask
      PROVE  FeedIsSound(step, page, shown, RunsOf(task.property)', history'[task.property])
  <2>1. task.property \in Property
    BY <1>8 DEF FeedTask
  <2>2. RunsOf(task.property) \subseteq RunsOf(task.property)'
    BY DEF RunsOf, Sync
  <2> QED BY <1>5, <1>8, <2>1, <2>2, FeedStays DEF ReadInv, ReadingIsSound
<1>9. ReadingIsSound'
  BY <1>6, <1>7, <1>8 DEF ReadingIsSound
<1> QED BY <1>1, <1>2, <1>9 DEF ReadInv

-----------------------------------------------------------------------------
(* A reading begins and ends.                                              *)

\* A task is of one kind.
LEMMA KindsDiffer ==
    /\ NoTask \notin ListTask /\ NoTask \notin HistoryTask /\ NoTask \notin FeedTask
    /\ \A t \in ListTask : t \notin HistoryTask /\ t \notin FeedTask
    /\ \A t \in HistoryTask : t \notin FeedTask
<1>1. /\ \A t \in ListTask : t.kind = "list"
      /\ \A t \in HistoryTask : t.kind = "history"
      /\ \A t \in FeedTask : t.kind = "feed"
      /\ NoTask.kind = "none"
  BY DEF ListTask, HistoryTask, FeedTask, NoTask
<1> QED BY <1>1

LEMMA ReadInvInit == Init => ReadInv
<1> SUFFICES ASSUME Init
             PROVE  ReadInv
  OBVIOUS
<1>1. TablesInv
  BY MemoryInvInit, RunsInvInit DEF Init, TablesInv
<1>2. Shape
  BY DEF Init, Shape, Steps
<1>3. ReadingIsSound
  BY KindsDiffer DEF Init, ReadingIsSound
<1> QED BY <1>1, <1>2, <1>3 DEF ReadInv

LEMMA OpenKeeps == ASSUME ReadInv, Open PROVE ReadInv'
<1>1. step = "idle" /\ shown = {} /\ cursor = Start
  BY DEF ReadInv, Shape, Open
<1>2. shown' = {} /\ cursor' = Start /\ UNCHANGED memory
  BY <1>1 DEF Open
<1>3. TablesInv'
  BY <1>2, TablesKeep DEF ReadInv
<1>4. Shape'
  BY KindsDiffer DEF Open, Shape, Steps
<1>5. /\ atStart'.rows = decisions[task'.property]
      /\ atStart'.observations = history[task'.property]
      /\ decisions' = decisions /\ history' = history
  BY DEF Open, memory
<1>6. ASSUME task' \in ListTask
      PROVE  ListIsSound(task, step, page, cursor, shown, atStart.rows,
                         decisions[task.property], history[task.property])'
  <2>1. step' = "rows"
    BY <1>6, KindsDiffer DEF Open
  <2>2. task'.property \in Property
    BY <1>6 DEF ListTask
  <2>3. \A d \in Identity : decisions[task'.property][d] \in Row
    BY <2>2 DEF ReadInv, TablesInv, MemoryInv, MemoryTypeOK
  <2>4. \A d \in Identity : Moved(decisions[task'.property][d], decisions[task'.property][d])
    BY <2>3, MovedOnwards
  <2> QED BY <1>2, <1>5, <2>1, <2>3, <2>4
          DEF ListIsSound, EachOnce, IsCursor, Behind, IsNotMissed, Beyond
<1>7. ASSUME task' \in HistoryTask
      PROVE  HistoryIsSound(step, cursor, shown, atStart.observations[task.decision],
                            history[task.property][task.decision])'
  <2>1. step' = "observations"
    BY <1>7, KindsDiffer DEF Open
  <2> QED BY <1>2, <1>5, <2>1 DEF HistoryIsSound, IsCursor, Behind, IsToCome, Beyond
<1>8. ASSUME task' \in FeedTask
      PROVE  FeedIsSound(step, page, shown, RunsOf(task.property), history[task.property])'
  <2>1. step' = "run"
    BY <1>8, KindsDiffer DEF Open
  <2> QED BY <2>1 DEF FeedIsSound
<1>9. ReadingIsSound'
  BY <1>6, <1>7, <1>8 DEF ReadingIsSound
<1> QED BY <1>3, <1>4, <1>9 DEF ReadInv

LEMMA CloseKeeps == ASSUME ReadInv, Close PROVE ReadInv'
<1>1. TablesInv'
  BY TablesKeep DEF ReadInv, Close
<1>2. Shape'
  BY DEF Close, Shape, Steps
<1>3. ReadingIsSound'
  BY KindsDiffer DEF Close, ReadingIsSound
<1> QED BY <1>1, <1>2, <1>3 DEF ReadInv

-----------------------------------------------------------------------------
(* The statements of a list.                                               *)

\* A row was evaluated by one of its observations, the latest one: the newest date and
\* the last run agree.
LEMMA LatestIsOne ==
    ASSUME NEW row \in Row, row.status # "NONE", NEW h \in SUBSET Observation,
           RowTells(row, h), \A x, y \in h : x.seq = y.seq => x = y,
           \A x, y \in h : x.seq < y.seq => x.asOf <= y.asOf
    PROVE  \E o \in h : /\ {x \in h : LatestObservation(x, h)} = {o}
                        /\ o.asOf = row.lastEvaluated
                        /\ \A x \in h : x.seq <= o.seq /\ x.asOf <= o.asOf
<1>1. PICK o \in h : LastOf(o, h) /\ row.lastEvaluated = o.asOf
  BY DEF RowTells
<1>2. \A x \in h : x.seq \in Nat /\ x.asOf \in Nat
  BY DEF Observation
<1>3. ASSUME NEW x \in h
      PROVE  x.seq <= o.seq /\ x.asOf <= o.asOf
  <2>1. x.seq <= o.seq
    BY <1>1 DEF LastOf
  <2>2. CASE x.seq = o.seq
    BY <1>2, <2>2
  <2>3. CASE x.seq < o.seq
    BY <2>1, <2>3
  <2> QED BY <1>2, <2>1, <2>2, <2>3
<1>4. ASSUME NEW x \in h \ {o}
      PROVE  Before(ObservationKey(o), ObservationKey(x))
  <2>1. x.seq < o.seq /\ x.asOf <= o.asOf
    BY <1>2, <1>3
  <2> QED BY <1>2, <2>1, ObservationKeyTells
<1>5. ASSUME NEW x \in h, LatestObservation(x, h)
      PROVE  x = o
  <2> SUFFICES ASSUME x # o PROVE FALSE
    OBVIOUS
  <2>1. /\ Before(ObservationKey(o), ObservationKey(x))
        /\ Before(ObservationKey(x), ObservationKey(o))
    BY <1>4, <1>5 DEF LatestObservation
  <2>2. ObservationKey(o) \in ObservationKeys /\ ObservationKey(x) \in ObservationKeys
    BY ObservationKeyTells
  <2> QED BY <2>1, <2>2, ObservationKeysOrdered DEF Ordered
<1>6. LatestObservation(o, h)
  BY <1>4 DEF LatestObservation
<1>7. {x \in h : LatestObservation(x, h)} = {o}
  BY <1>5, <1>6
<1> QED BY <1>1, <1>3, <1>7

\* What every row of the hotel satisfies.
LEMMA RowsAndObservations ==
    ASSUME TablesInv, NEW p \in Property, NEW d \in Identity
    PROVE  /\ decisions[p][d] \in Row
           /\ history[p][d] \in SUBSET Observation
           /\ IsFiniteSet(history[p][d])
           /\ RowTells(decisions[p][d], history[p][d])
           /\ \A x, y \in history[p][d] : x.seq = y.seq => x = y
           /\ \A x, y \in history[p][d] : x.seq < y.seq => x.asOf <= y.asOf
BY DEF TablesInv, MemoryInv, MemoryTypeOK, HistoriesFinite, RowMatchesHistory,
       OneObservationPerRun, HistoryInOrder

LEMMA ListRowsKeeps == ASSUME ReadInv, ListRows PROVE ReadInv'
<1> DEFINE p == task.property
           rows == decisions[p]
           listed == {d \in Identity : Matches(rows[d], task.status)}
           Entry(d) == [key |-> RowKey(d, rows[d]), decision |-> d, row |-> rows[d]]
           keyed == {Entry(d) : d \in listed}
<1>1. task \in ListTask /\ p \in Property /\ step = "rows"
  BY DEF ReadInv, Shape, ListRows, ListTask
<1>2. /\ page' = [rows |-> PageOf(keyed), more |-> HasMore(keyed)]
      /\ step' = "latest" /\ UNCHANGED <<memory, task, cursor, shown, atStart>>
  BY DEF ListRows
<1>3. \A d \in Identity : rows[d] \in Row
  BY <1>1, RowsAndObservations DEF ReadInv
<1>4. ListIsSound(task, step, page, cursor, shown, atStart.rows, rows, history[p])
  BY <1>1 DEF ReadInv, ReadingIsSound
<1>5. IsCursor(cursor, RowKeys) /\ Behind(cursor, shown)
  BY <1>1, <1>4 DEF ListIsSound
<1>6. Keyed(keyed, RowKeys)
  <2>1. listed \in SUBSET Existing(rows)
    BY DEF Existing, Matches
  <2>2. IsFiniteSet(listed)
    <3>1. IsFiniteSet(Existing(rows))
      BY <1>1 DEF ReadInv, TablesInv, RunsInv, FinitelyMany
    <3> HIDE DEF listed, rows
    <3> QED BY <2>1, <3>1, FS_Subset
  <2>3. [d \in listed |-> Entry(d)] \in Surjection(listed, keyed)
    BY DEF Surjection
  <2>4. IsFiniteSet(keyed)
    <3> HIDE DEF listed, keyed, Entry
    <3> QED BY <2>2, <2>3, FS_Surjection
  <2>5. \A d, e \in listed : /\ Entry(d).key \in RowKeys
                             /\ Entry(d).key = Entry(e).key => d = e
    BY <1>3, RowKeyTells
  <2> QED BY <2>4, <2>5 DEF Keyed
<1>7. /\ PageOf(keyed) \in SUBSET keyed
      /\ Keyed(PageOf(keyed), RowKeys)
      /\ \A x \in PageOf(keyed) : Beyond(cursor, x.key)
      /\ \A x \in PageOf(keyed), y \in keyed \ PageOf(keyed) :
            Beyond(cursor, y.key) => Before(x.key, y.key)
      /\ ~HasMore(keyed) => \A y \in keyed : Beyond(cursor, y.key) => y \in PageOf(keyed)
      /\ HasMore(keyed) => PageOf(keyed) # {}
  <2> HIDE DEF keyed
  <2> QED BY <1>5, <1>6, RowKeysOrdered, PageIsTheFirst
<1>8. ASSUME NEW x \in PageOf(keyed)
      PROVE  /\ Listed(x, rows) /\ HasOwn(x, history[p][x.decision]) /\ Beyond(cursor, x.key)
             /\ \A y \in shown : y.decision # x.decision
             /\ x = Entry(x.decision)
  <2>1. PICK d \in listed : x = Entry(d)
    BY <1>7
  <2>2. /\ x.decision = d /\ x.row = rows[d] /\ x.key = RowKey(d, rows[d])
        /\ d \in Identity /\ rows[d] \in Row /\ rows[d].status # "NONE"
    BY <1>3, <2>1 DEF Matches
  <2> HIDE DEF rows, keyed, listed, Entry
  <2>3. Listed(x, rows)
    BY <2>2, MovedOnwards DEF Listed
  <2>4. HasOwn(x, history[p][d])
    <3>1. RowTells(rows[d], history[p][d])
      BY <1>1, <2>2, RowsAndObservations DEF ReadInv, rows
    <3> QED BY <2>2, <3>1 DEF HasOwn, RowTells
  <2>5. ASSUME NEW y \in shown, y.decision = d
        PROVE  FALSE
    <3>1. /\ y.row \in Row /\ y.key = RowKey(d, y.row) /\ y.row.status # "NONE"
          /\ Moved(y.row, rows[d])
      BY <1>4, <2>5 DEF ListIsSound, Listed
    <3>2. AtOrBefore(x.key, y.key)
      BY <2>2, <3>1, MovedToTheFront
    <3>3. cursor # Start /\ AtOrBefore(y.key, cursor) /\ Before(cursor, x.key)
      BY <1>5, <1>7 DEF Behind, Beyond
    <3>4. x.key \in RowKeys /\ y.key \in RowKeys /\ cursor \in RowKeys
      BY <1>5, <2>2, <3>1, <3>3, RowKeyTells DEF IsCursor
    <3> QED BY <3>2, <3>3, <3>4, RowKeysOrdered DEF Ordered, AtOrBefore
  <2> QED BY <1>7, <2>1, <2>2, <2>3, <2>4, <2>5
<1>9. PageIsSound(page', cursor, shown, rows, history[p])
  <2> HIDE DEF rows, keyed, Entry
  <2>1. page'.rows = PageOf(keyed) /\ page'.more = HasMore(keyed)
    BY <1>2
  <2>2. EachOnce(PageOf(keyed))
    BY <1>8 DEF EachOnce
  <2> QED BY <1>7, <1>8, <2>1, <2>2 DEF PageIsSound, Keyed
<1>10. ASSUME NEW d \in Identity, Matches(atStart.rows[d], task.status),
              rows[d] = atStart.rows[d]
       PROVE  IsNotMissed(d, atStart.rows[d], "latest", page', cursor, shown)
  <2>1. \/ IsListed(d, rows[d], shown)
        \/ Beyond(cursor, RowKey(d, rows[d]))
    BY <1>1, <1>4, <1>10 DEF ListIsSound, IsNotMissed
  <2>2. CASE Beyond(cursor, RowKey(d, rows[d]))
    <3>1. /\ Entry(d) \in keyed /\ Entry(d).key = RowKey(d, rows[d])
          /\ Entry(d).decision = d /\ Entry(d).row = rows[d]
      BY <1>10
    <3> HIDE DEF rows, keyed, Entry
    <3>2. page'.rows = PageOf(keyed) /\ page'.more = HasMore(keyed)
      BY <1>2
    <3>3. CASE Entry(d) \in PageOf(keyed)
      BY <1>10, <3>1, <3>2, <3>3 DEF IsNotMissed, IsListed
    <3>4. CASE Entry(d) \notin PageOf(keyed)
      <4>1. HasMore(keyed)
        BY <1>7, <2>2, <3>1, <3>4
      <4>2. \A x \in PageOf(keyed) : Before(x.key, RowKey(d, rows[d]))
        BY <1>7, <2>2, <3>1, <3>4
      <4> QED BY <1>10, <3>2, <4>1, <4>2 DEF IsNotMissed
    <3> QED BY <3>3, <3>4
  <2> QED BY <1>10, <2>1, <2>2 DEF IsNotMissed
<1>11. ListIsSound(task, "latest", page', cursor, shown, atStart.rows, rows, history[p])
  BY <1>4, <1>5, <1>9, <1>10 DEF ListIsSound
<1>12. /\ task' = task /\ cursor' = cursor /\ shown' = shown /\ atStart' = atStart
       /\ decisions' = decisions /\ history' = history /\ step' = "latest"
  BY <1>2 DEF memory
<1>13. ReadingIsSound'
  BY <1>1, <1>11, <1>12, KindsDiffer DEF ReadingIsSound
<1>14. Shape'
  BY <1>1, <1>12 DEF Shape, Steps
<1>15. TablesInv'
  BY <1>2, TablesKeep DEF ReadInv
<1> QED BY <1>13, <1>14, <1>15 DEF ReadInv

LEMMA ListLatestKeeps == ASSUME ReadInv, ListLatest PROVE ReadInv'
<1> DEFINE p == task.property
           rows == decisions[p]
           Item(x) == [key |-> x.key, decision |-> x.decision, row |-> x.row,
                       latest |-> {o \in history[p][x.decision] :
                                     LatestObservation(o, history[p][x.decision])},
                       after |-> cursor]
           items == {Item(x) : x \in page.rows}
           last == LastKey(page.rows)
<1>1. task \in ListTask /\ p \in Property /\ step = "latest"
  BY DEF ReadInv, Shape, ListLatest, ListTask
<1>2. /\ shown' = shown \cup items
      /\ IF page.more THEN cursor' = last /\ step' = "rows"
                      ELSE cursor' = cursor /\ step' = "done"
      /\ task' = task /\ atStart' = atStart /\ UNCHANGED memory
      /\ decisions' = decisions /\ history' = history
  BY DEF ListLatest, memory
<1>3. /\ ListIsSound(task, step, page, cursor, shown, atStart.rows, rows, history[p])
      /\ PageIsSound(page, cursor, shown, rows, history[p])
      /\ IsCursor(cursor, RowKeys) /\ Behind(cursor, shown)
  BY <1>1 DEF ReadInv, ReadingIsSound, ListIsSound
<1> HIDE DEF rows, items, last
<1>4. ASSUME NEW x \in page.rows
      PROVE  /\ Item(x).key = x.key /\ Item(x).decision = x.decision /\ Item(x).row = x.row
             /\ Listed(x, rows) /\ Listed(Item(x), rows)
             /\ x.key \in RowKeys /\ Beyond(cursor, x.key)
             /\ \A y \in shown : y.decision # x.decision
             /\ HasLatest(Item(x), history[p][x.decision])
  <2>1. /\ Listed(x, rows) /\ HasOwn(x, history[p][x.decision])
        /\ Beyond(cursor, x.key) /\ \A y \in shown : y.decision # x.decision
    BY <1>3 DEF PageIsSound
  <2> DEFINE d == x.decision
             h == history[p][d]
  <2>2. /\ d \in Identity /\ x.row \in Row /\ x.row.status # "NONE"
        /\ Moved(x.row, rows[d]) /\ x.key = RowKey(d, x.row)
    BY <2>1 DEF Listed
  <2>3. x.key \in RowKeys
    BY <2>2, RowKeyTells
  <2>4. PICK o \in h : /\ {z \in h : LatestObservation(z, h)} = {o}
                       /\ \A z \in h : z.seq <= o.seq /\ z.asOf <= o.asOf
    <3>1. rows[d].status # "NONE"
      BY <2>2 DEF Moved
    <3>2. /\ rows[d] \in Row /\ h \in SUBSET Observation /\ RowTells(rows[d], h)
          /\ \A z, y \in h : z.seq = y.seq => z = y
          /\ \A z, y \in h : z.seq < y.seq => z.asOf <= y.asOf
      BY <1>1, <2>2, RowsAndObservations DEF ReadInv, rows
    <3> HIDE DEF h, d
    <3> QED BY <3>1, <3>2, LatestIsOne
  <2>5. Item(x).latest = {o}
    BY <2>4
  <2>6. PICK own \in h : own.asOf = x.row.lastEvaluated
    BY <2>1 DEF HasOwn
  <2>7. own.seq <= o.seq /\ own.asOf <= o.asOf
    BY <2>4, <2>6
  <2>8. Item(x).key = x.key /\ Item(x).decision = d /\ Item(x).row = x.row
    OBVIOUS
  <2> HIDE DEF Item, h
  <2>9. Cardinality(Item(x).latest) = 1
    BY <2>5, FS_Singleton
  <2>10. HasLatest(Item(x), h)
    BY <2>5, <2>6, <2>7, <2>8, <2>9 DEF HasLatest
  <2>11. Listed(Item(x), rows)
    BY <2>2, <2>8 DEF Listed
  <2> QED BY <2>1, <2>3, <2>8, <2>10, <2>11 DEF h
<1>5. items = {Item(x) : x \in page.rows}
  BY DEF items
<1> HIDE DEF Item
<1>6. \A x \in shown' : Listed(x, rows) /\ HasLatest(x, history[p][x.decision])
  BY <1>2, <1>3, <1>4, <1>5 DEF ListIsSound
<1>7. EachOnce(shown')
  <2>1. \A x, y \in page.rows : Item(x).decision = Item(y).decision => x = y
    BY <1>3, <1>4 DEF PageIsSound, EachOnce
  <2>2. \A x, y \in shown : x.decision = y.decision => x = y
    BY <1>3 DEF ListIsSound, EachOnce
  <2> QED BY <1>2, <1>4, <1>5, <2>1, <2>2 DEF EachOnce
<1>8. ASSUME page.more
      PROVE  /\ IsCursor(last, RowKeys) /\ Behind(last, shown')
             /\ \E x \in page.rows : last = x.key
  <2>1. Keyed(page.rows, RowKeys) /\ page.rows # {}
    <3>1. ASSUME NEW x \in page.rows, NEW y \in page.rows, x.key = y.key
          PROVE  x = y
      <4>1. x.decision = y.decision
        BY <1>4, <3>1, RowKeyTells DEF Listed
      <4> QED BY <1>3, <4>1 DEF PageIsSound, EachOnce
    <3> QED BY <1>3, <1>4, <1>8, <3>1 DEF PageIsSound, Keyed
  <2>2. /\ last \in RowKeys /\ \E x \in page.rows : last = x.key
        /\ \A x \in page.rows : AtOrBefore(x.key, last)
    BY <2>1, RowKeysOrdered, LastKeyIsLast DEF last
  <2>3. last # Start
    BY <2>2, RowKeysOrdered DEF Ordered
  <2>4. ASSUME NEW y \in shown
        PROVE  AtOrBefore(y.key, last)
    <3>1. cursor # Start /\ AtOrBefore(y.key, cursor) /\ Beyond(cursor, last)
      BY <1>3, <1>4, <2>2 DEF Behind
    <3>2. y.key \in RowKeys
      BY <1>3, RowKeyTells DEF ListIsSound, Listed
    <3>3. cursor \in RowKeys
      BY <1>3, <3>1 DEF IsCursor
    <3> QED BY <2>2, <3>1, <3>2, <3>3, RowKeysOrdered DEF Ordered, AtOrBefore, Beyond
  <2> QED BY <1>2, <1>4, <1>5, <2>2, <2>3, <2>4 DEF IsCursor, Behind
<1>9. step' \in {"rows", "latest"} => IsCursor(cursor', RowKeys) /\ Behind(cursor', shown')
  BY <1>2, <1>8
<1>10. ASSUME NEW d \in Identity, Matches(atStart.rows[d], task.status),
              rows[d] = atStart.rows[d]
       PROVE  IsNotMissed(d, atStart.rows[d], step', page', cursor', shown')
  <2> DEFINE row == atStart.rows[d]
  <2>1. \/ IsListed(d, row, shown) \/ IsListed(d, row, page.rows)
        \/ page.more /\ \A x \in page.rows : Before(x.key, RowKey(d, row))
    BY <1>1, <1>3, <1>10 DEF ListIsSound, IsNotMissed
  <2> HIDE DEF row
  <2>2. CASE IsListed(d, row, shown) \/ IsListed(d, row, page.rows)
    <3>1. IsListed(d, row, shown')
      BY <1>2, <1>4, <1>5, <2>2 DEF IsListed
    <3> QED BY <3>1 DEF IsNotMissed, row
  <2>3. CASE page.more /\ \A x \in page.rows : Before(x.key, RowKey(d, row))
    <3>1. Before(last, RowKey(d, row)) /\ step' = "rows" /\ cursor' = last
      BY <1>2, <1>8, <2>3
    <3> QED BY <3>1 DEF IsNotMissed, Beyond, row
  <2> QED BY <2>1, <2>2, <2>3
<1>11. step' # "latest"
  BY <1>2
<1>12. ListIsSound(task, step', page', cursor', shown', atStart.rows, rows, history[p])
  BY <1>3, <1>6, <1>7, <1>9, <1>10, <1>11 DEF ListIsSound
<1>13. ReadingIsSound'
  BY <1>1, <1>2, <1>12, KindsDiffer DEF ReadingIsSound, rows
<1>14. Shape'
  BY <1>1, <1>2 DEF Shape, Steps
<1>15. TablesInv'
  BY <1>2, TablesKeep DEF ReadInv
<1> QED BY <1>13, <1>14, <1>15 DEF ReadInv

-----------------------------------------------------------------------------
(* The statements of a history and of a feed.                              *)

LEMMA HistoryPageKeeps == ASSUME ReadInv, HistoryPage PROVE ReadInv'
<1> DEFINE h == history[task.property][task.decision]
           Entry(o) == [key |-> ObservationKey(o), observation |-> o, after |-> cursor]
           keyed == {Entry(o) : o \in h}
           start == atStart.observations[task.decision]
<1>1. /\ task \in HistoryTask /\ step = "observations"
      /\ task.property \in Property /\ task.decision \in Identity
  BY DEF ReadInv, Shape, HistoryPage, HistoryTask
<1>2. /\ shown' = shown \cup PageOf(keyed)
      /\ IF HasMore(keyed)
         THEN cursor' = LastKey(PageOf(keyed)) /\ step' = step
         ELSE cursor' = cursor /\ step' = "done"
      /\ task' = task /\ atStart' = atStart /\ UNCHANGED memory
      /\ decisions' = decisions /\ history' = history
  BY DEF HistoryPage, memory
<1>3. HistoryIsSound(step, cursor, shown, start, h)
  BY <1>1 DEF ReadInv, ReadingIsSound
<1>4. IsCursor(cursor, ObservationKeys) /\ Behind(cursor, shown)
  BY <1>1, <1>3 DEF HistoryIsSound
<1>5. h \in SUBSET Observation /\ IsFiniteSet(h) /\ \A x, y \in h : x.seq = y.seq => x = y
  BY <1>1, RowsAndObservations DEF ReadInv
<1> HIDE DEF h, start
<1>6. \A o \in h : ObservationKey(o) \in ObservationKeys
  BY <1>5, ObservationKeyTells
<1>7. Keyed(keyed, ObservationKeys)
  <2>1. [o \in h |-> Entry(o)] \in Surjection(h, keyed)
    BY DEF Surjection
  <2>2. IsFiniteSet(keyed)
    <3> HIDE DEF keyed, Entry
    <3> QED BY <1>5, <2>1, FS_Surjection
  <2>3. \A o, x \in h : ObservationKey(o) = ObservationKey(x) => o = x
    BY <1>5, ObservationKeyTells
  <2> QED BY <1>6, <2>2, <2>3 DEF Keyed
<1>8. /\ PageOf(keyed) \in SUBSET keyed
      /\ Keyed(PageOf(keyed), ObservationKeys)
      /\ \A x \in PageOf(keyed) : Beyond(cursor, x.key)
      /\ \A x \in PageOf(keyed), y \in keyed \ PageOf(keyed) :
            Beyond(cursor, y.key) => Before(x.key, y.key)
      /\ ~HasMore(keyed) => \A y \in keyed : Beyond(cursor, y.key) => y \in PageOf(keyed)
      /\ HasMore(keyed) => PageOf(keyed) # {}
  <2> HIDE DEF keyed
  <2> QED BY <1>4, <1>7, ObservationKeysOrdered, PageIsTheFirst
<1>9. /\ \A x \in PageOf(keyed) :
            x.observation \in h /\ x.key = ObservationKey(x.observation) /\ x.after = cursor
      /\ \A o \in h : /\ Entry(o) \in keyed /\ Entry(o).key = ObservationKey(o)
                      /\ Entry(o).observation = o
      /\ \A x, y \in PageOf(keyed) : x.observation = y.observation => x = y
  BY <1>8
<1> HIDE DEF keyed, Entry
<1> DEFINE rest == PageOf(keyed)
           last == LastKey(rest)
<1> HIDE DEF rest, last
\* What was shown comes before what the page shows.
<1>10. ASSUME NEW x \in shown, NEW y \in rest
       PROVE  x.key \in ObservationKeys /\ Before(x.key, y.key)
  <2>1. cursor # Start /\ AtOrBefore(x.key, cursor) /\ Before(cursor, y.key)
    BY <1>4, <1>8 DEF Behind, Beyond, rest
  <2>2. x.key \in ObservationKeys /\ y.key \in ObservationKeys /\ cursor \in ObservationKeys
    BY <1>3, <1>4, <1>6, <1>9, <2>1 DEF HistoryIsSound, IsCursor, rest
  <2> QED BY <2>1, <2>2, ObservationKeysOrdered DEF Ordered, AtOrBefore
<1>11. \A x \in shown' : x.observation \in h /\ x.key = ObservationKey(x.observation)
  BY <1>2, <1>3, <1>9 DEF HistoryIsSound
<1>12. ASSUME NEW x \in shown', NEW y \in shown', x.observation = y.observation
       PROVE  x = y
  <2>1. x.key = y.key
    BY <1>11, <1>12
  <2>2. \A a \in ObservationKeys : ~Before(a, a)
    BY ObservationKeysOrdered DEF Ordered
  <2> QED BY <1>2, <1>3, <1>9, <1>10, <1>12, <2>1, <2>2 DEF HistoryIsSound, rest
<1>13. ASSUME HasMore(keyed)
       PROVE  /\ IsCursor(last, ObservationKeys) /\ Behind(last, shown')
              /\ \E x \in rest : last = x.key
  <2>1. /\ last \in ObservationKeys /\ \E x \in rest : last = x.key
        /\ \A x \in rest : AtOrBefore(x.key, last)
    BY <1>8, <1>13, ObservationKeysOrdered, LastKeyIsLast DEF last, rest
  <2>2. last # Start
    BY <2>1, ObservationKeysOrdered DEF Ordered
  <2>3. \A y \in shown : AtOrBefore(y.key, last)
    BY <1>10, <2>1 DEF AtOrBefore
  <2> QED BY <1>2, <2>1, <2>2, <2>3 DEF IsCursor, Behind, rest
<1>14. step' = "observations" => IsCursor(cursor', ObservationKeys) /\ Behind(cursor', shown')
  BY <1>2, <1>13 DEF last, rest
\* What was to come is on the page, or still to come.
<1>15. ASSUME NEW o \in h, IsSeen(o, shown) \/ IsToCome(o, step, cursor)
       PROVE  IsSeen(o, shown') \/ IsToCome(o, step', cursor')
  <2>1. CASE IsSeen(o, shown)
    BY <1>2, <2>1 DEF IsSeen
  <2>2. CASE Beyond(cursor, ObservationKey(o)) /\ Entry(o) \in rest
    BY <1>2, <1>9, <2>2 DEF IsSeen, rest
  <2>3. CASE Beyond(cursor, ObservationKey(o)) /\ Entry(o) \notin rest
    <3>1. HasMore(keyed) /\ \A x \in rest : Before(x.key, ObservationKey(o))
      BY <1>8, <1>9, <2>3 DEF rest
    <3>2. step' = "observations" /\ cursor' = last
      BY <1>1, <1>2, <3>1 DEF last, rest
    <3> QED BY <1>13, <3>1, <3>2 DEF IsToCome, Beyond
  <2> QED BY <1>15, <2>1, <2>2, <2>3 DEF IsToCome
\* What came in between is before all that was shown and so before the page.
<1>16. ASSUME NEW o \in h
       PROVE  \/ IsSeen(o, shown') \/ IsToCome(o, step', cursor')
              \/ \A x \in shown' : Before(ObservationKey(o), x.key)
  <2>1. CASE IsSeen(o, shown) \/ IsToCome(o, step, cursor)
    BY <1>15, <2>1
  <2>2. CASE ~IsToCome(o, step, cursor) /\ \A x \in shown : Before(ObservationKey(o), x.key)
    <3>1. cursor # Start /\ ~Before(cursor, ObservationKey(o)) /\ cursor \in ObservationKeys
      BY <1>1, <1>4, <2>2 DEF IsToCome, Beyond, IsCursor
    <3>2. AtOrBefore(ObservationKey(o), cursor)
      BY <1>6, <3>1, ObservationKeysOrdered DEF Ordered, AtOrBefore
    <3>3. ASSUME NEW x \in rest
          PROVE  Before(ObservationKey(o), x.key)
      <4>1. Before(cursor, x.key) /\ x.key \in ObservationKeys
        BY <1>6, <1>8, <1>9, <3>1 DEF Beyond, rest
      <4> QED BY <1>6, <3>1, <3>2, <4>1, ObservationKeysOrdered DEF Ordered, AtOrBefore
    <3> QED BY <1>2, <2>2, <3>3 DEF rest
  <2> QED BY <1>3, <2>1, <2>2 DEF HistoryIsSound
<1>17. HistoryIsSound(step', cursor', shown', start, h)
  <2>1. start \subseteq h /\ \A o \in start : IsSeen(o, shown) \/ IsToCome(o, step, cursor)
    BY <1>3 DEF HistoryIsSound
  <2>2. \A o \in start : IsSeen(o, shown') \/ IsToCome(o, step', cursor')
    BY <1>15, <2>1
  <2> QED BY <1>11, <1>12, <1>14, <1>16, <2>1, <2>2 DEF HistoryIsSound
<1>18. ReadingIsSound'
  BY <1>1, <1>2, <1>17, KindsDiffer DEF ReadingIsSound, h, start
<1>19. Shape'
  BY <1>1, <1>2 DEF Shape, Steps
<1>20. TablesInv'
  BY <1>2, TablesKeep DEF ReadInv
<1> QED BY <1>18, <1>19, <1>20 DEF ReadInv

LEMMA FeedRunKeeps == ASSUME ReadInv, FeedRun PROVE ReadInv'
<1>1. task \in FeedTask
  BY DEF ReadInv, Shape, FeedRun
<1>2. /\ page'.run = LastRun(RunsOfDay) /\ step' \in {"overall", "items"}
      /\ task' = task /\ shown' = shown /\ UNCHANGED memory /\ runs' = runs
  BY DEF FeedRun, memory
<1>3. \A r \in page'.run : r \in RunsOf(task.property)
  BY <1>2 DEF LastRun, RunsOfDay
<1>4. ReadingIsSound'
  BY <1>1, <1>2, <1>3, KindsDiffer DEF ReadingIsSound, FeedIsSound, RunsOf
<1>5. Shape'
  BY <1>1, <1>2 DEF Shape, Steps
<1>6. TablesInv'
  BY <1>2, TablesKeep DEF ReadInv
<1> QED BY <1>4, <1>5, <1>6 DEF ReadInv

LEMMA FeedNotProcessedKeeps == ASSUME ReadInv, FeedNotProcessed PROVE ReadInv'
<1>1. task \in FeedTask
  BY DEF ReadInv, Shape, FeedNotProcessed
<1>2. /\ \A f \in shown' : f.state = "NOT_PROCESSED"
      /\ step' = "done" /\ task' = task /\ UNCHANGED memory
  BY DEF FeedNotProcessed
<1>3. ReadingIsSound'
  BY <1>1, <1>2, KindsDiffer DEF ReadingIsSound, FeedIsSound, IsFeed
<1>4. Shape'
  BY <1>1, <1>2 DEF Shape, Steps
<1>5. TablesInv'
  BY <1>2, TablesKeep DEF ReadInv
<1> QED BY <1>3, <1>4, <1>5 DEF ReadInv

\* The Decisions a run triggered are those of its TRIGGERED evaluations, one by one.
LEMMA TriggeredOneByOne ==
    ASSUME TablesInv, NEW run \in runs, NEW p \in Property, run.input.property = p,
           p = task.property
    PROVE  LET items == {[decision |-> d, row |-> decisions[p][d]] : d \in TriggeredBy(run)}
           IN  /\ CountOf(run, {"TRIGGERED"}) \in Nat
               /\ Cardinality(items) = CountOf(run, {"TRIGGERED"})
               /\ CountOf(run, {"TRIGGERED"}) > 0 <=> items # {}
<1> DEFINE evaluations == {e \in run.input.evaluations : e.status \in {"TRIGGERED"}}
           Item(d) == [decision |-> d, row |-> decisions[p][d]]
           items == {Item(d) : d \in TriggeredBy(run)}
           f == [e \in evaluations |-> Item(e.identity)]
<1>1. /\ IsFiniteSet(run.input.evaluations)
      /\ \A e, g \in run.input.evaluations : e.identity = g.identity => e = g
  BY DEF TablesInv, RunsInv, EvaluatedOnce
<1>2. evaluations \in SUBSET run.input.evaluations
  OBVIOUS
<1>3. IsFiniteSet(evaluations)
  <2> HIDE DEF evaluations
  <2> QED BY <1>1, <1>2, FS_Subset
<1>4. ASSUME NEW e \in run.input.evaluations
      PROVE  /\ (\E o \in history[p][e.identity] : o.seq = run.seq)
                  <=> \/ e.status = "TRIGGERED"
                      \/ \E o \in history[p][e.identity] : o.seq < run.seq
             /\ \A o \in history[p][e.identity] : o.seq = run.seq => o.status = e.status
             /\ e.identity \in Identity
  <2>1. PICK i \in Input : run.input = RunInput(i)
    BY DEF TablesInv, MemoryInv, MemoryTypeOK, Run
  <2>2. e \in Kept(i)
    BY <2>1 DEF RunInput
  <2>3. e.identity \in Identity
    BY <2>2, KeptType DEF Evaluation
  <2> QED BY <2>3 DEF TablesInv, MemoryInv, NothingForgotten
<1>5. ASSUME NEW e \in evaluations
      PROVE  e.identity \in TriggeredBy(run)
  <2>1. e \in run.input.evaluations /\ e.status = "TRIGGERED"
    OBVIOUS
  <2>2. PICK o \in history[p][e.identity] : o.seq = run.seq
    BY <1>4, <2>1
  <2> QED BY <1>4, <2>1, <2>2 DEF TriggeredBy
<1>6. ASSUME NEW d \in TriggeredBy(run)
      PROVE  \E e \in evaluations : e.identity = d
  <2>1. d \in Identity
    BY DEF TriggeredBy
  <2>2. PICK o \in history[p][d] : o.seq = run.seq /\ o.status = "TRIGGERED"
    BY DEF TriggeredBy
  <2>3. PICK r \in RunsOf(p) : r.seq = o.seq /\ \E e \in r.input.evaluations : e.identity = d
    BY <2>1, <2>2 DEF TablesInv, RunsInv, ObservedWasEvaluated
  <2>4. r = run
    BY <2>2, <2>3 DEF RunsOf, TablesInv, MemoryInv, SequencesUnique
  <2>5. PICK e \in run.input.evaluations : e.identity = d
    BY <2>3, <2>4
  <2>6. e.status = "TRIGGERED"
    BY <1>4, <2>2, <2>5
  <2> QED BY <2>5, <2>6
<1>7. \A d, e : Item(d) = Item(e) => d = e
  OBVIOUS
<1> HIDE DEF evaluations, Item
<1>8. f \in Surjection(evaluations, items)
  BY <1>5, <1>6 DEF Surjection
<1>9. f \in Injection(evaluations, items)
  <2>1. f \in [evaluations -> items]
    BY <1>5
  <2>2. \A e, g \in evaluations : f[e] = f[g] => e = g
    BY <1>1, <1>2, <1>7
  <2> HIDE DEF f
  <2> QED BY <2>1, <2>2 DEF Injection, IsInjective
<1> HIDE DEF f, items
<1>10. IsFiniteSet(items) /\ Cardinality(items) = Cardinality(evaluations)
  BY <1>3, <1>8, <1>9, FS_Surjection
<1>11. CountOf(run, {"TRIGGERED"}) = Cardinality(evaluations)
  BY DEF CountOf, evaluations
<1>12. Cardinality(items) \in Nat /\ (Cardinality(items) = 0 <=> items = {})
  BY <1>10, FS_CardinalityType, FS_EmptySet
<1> QED BY <1>10, <1>11, <1>12 DEF items, Item

LEMMA FeedItemsKeeps == ASSUME ReadInv, FeedItems PROVE ReadInv'
<1> DEFINE p == task.property
           Items(run) == {[decision |-> d, row |-> decisions[p][d]] : d \in TriggeredBy(run)}
<1>1. /\ task \in FeedTask /\ p \in Property
      /\ \A r \in page.run : r \in RunsOf(p)
  BY DEF ReadInv, Shape, FeedItems, FeedTask, ReadingIsSound, FeedIsSound
<1>2. PICK run \in page.run :
        shown' = {[state |-> FeedState(run), run |-> run,
                   items |-> IF FeedState(run) = "ACTION_REQUIRED" THEN Items(run) ELSE {}]}
  BY DEF FeedItems
<1>3. /\ step' = "done" /\ task' = task /\ UNCHANGED memory
      /\ history' = history
  BY DEF FeedItems, memory
<1>4. run \in runs /\ run.input.property = p /\ TablesInv
  BY <1>1 DEF RunsOf, ReadInv
<1>5. /\ CountOf(run, {"TRIGGERED"}) \in Nat
      /\ Cardinality(Items(run)) = CountOf(run, {"TRIGGERED"})
      /\ CountOf(run, {"TRIGGERED"}) > 0 <=> Items(run) # {}
  BY <1>1, <1>4, TriggeredOneByOne
<1>6. FeedState(run) = "ACTION_REQUIRED" <=> CountOf(run, {"TRIGGERED"}) > 0
  BY DEF FeedState
<1>7. ASSUME NEW x \in Items(run)
      PROVE  x.decision \in Identity /\ ItemIsOf(x, run, history[p])
  <2>1. PICK d \in TriggeredBy(run) : x = [decision |-> d, row |-> decisions[p][d]]
    OBVIOUS
  <2>2. d \in Identity /\ x.decision = d /\ x.row = decisions[p][d]
    BY <2>1 DEF TriggeredBy
  <2> SUFFICES ASSUME decisions[p][d].status = "RESOLVED"
               PROVE  \E o \in history[p][d] : o.seq > run.seq /\ o.transition = "RESOLVED"
    BY <2>2 DEF ItemIsOf
  <2> DEFINE h == history[p][d]
  <2>3. PICK o \in h : o.seq = run.seq /\ o.status = "TRIGGERED"
    BY DEF TriggeredBy
  <2>4. /\ h \in SUBSET Observation /\ RowTells(decisions[p][d], h)
        /\ OpenOnceTriggered(h)
    BY <1>1, <1>4, <2>2, RowsAndObservations DEF TablesInv, RunsInv, OpenWhenTriggered
  <2> HIDE DEF h
  <2>5. PICK e \in h : LastOf(e, Starts(h) \cup Ends(h)) /\ e.transition = "RESOLVED"
    BY <2>4 DEF RowTells
  <2>6. \A z \in h : z.seq \in Nat
    BY <2>4 DEF Observation
  <2>7. ~(e.seq <= o.seq)
    <3> SUFFICES ASSUME e.seq <= o.seq PROVE FALSE
      OBVIOUS
    <3>1. o \in Triggers(h) /\ e \in Ends(h)
      BY <2>3, <2>5 DEF Triggers, Ends
    <3>2. PICK s \in Starts(h) : e.seq < s.seq
      BY <2>4, <3>1 DEF OpenOnceTriggered
    <3>3. s.seq <= e.seq /\ s \in h
      BY <2>5, <3>2 DEF LastOf, Starts
    <3> QED BY <2>6, <3>2, <3>3
  <2>8. e.seq > run.seq
    BY <2>3, <2>6, <2>7
  <2> QED BY <2>5, <2>8 DEF h
<1> HIDE DEF Items
<1>8. ASSUME NEW f \in shown'
      PROVE  IsFeed(f, history[p])
  <2>1. /\ f.state = FeedState(run) /\ f.run = run
        /\ f.items = IF FeedState(run) = "ACTION_REQUIRED" THEN Items(run) ELSE {}
    BY <1>2
  <2>2. CASE FeedState(run) = "ACTION_REQUIRED"
    BY <1>5, <1>6, <1>7, <2>1, <2>2 DEF IsFeed
  <2>3. CASE FeedState(run) # "ACTION_REQUIRED"
    <3>1. CountOf(run, {"TRIGGERED"}) = 0
      BY <1>5, <1>6, <2>3
    <3> QED BY <2>1, <2>3, <3>1, FS_EmptySet DEF IsFeed
  <2> QED BY <2>2, <2>3
<1>9. ReadingIsSound'
  BY <1>1, <1>3, <1>8, KindsDiffer DEF ReadingIsSound, FeedIsSound
<1>10. Shape'
  BY <1>1, <1>3 DEF Shape, Steps
<1>11. TablesInv'
  BY <1>3, <1>4, TablesKeep
<1> QED BY <1>9, <1>10, <1>11 DEF ReadInv

-----------------------------------------------------------------------------
(* The invariant, and what it says of what the client was shown.           *)

LEMMA ReadInvNext == ReadInv /\ [Next]_vars => ReadInv'
<1> SUFFICES ASSUME ReadInv, [Next]_vars
             PROVE  ReadInv'
  OBVIOUS
<1>1. CASE UNCHANGED vars
  <2>1. TablesInv'
    BY <1>1, TablesKeep DEF ReadInv, vars
  <2>2. Shape' /\ ReadingIsSound'
    BY <1>1 DEF ReadInv, Shape, ReadingIsSound, RunsOf, vars, memory
  <2> QED BY <2>1, <2>2 DEF ReadInv
<1>2. CASE MemoryNext /\ UNCHANGED <<task, step, page, cursor, shown, atStart>>
  BY <1>2, SyncKeeps
<1>3. CASE Open
  BY <1>3, OpenKeeps
<1>4. CASE Read
  BY <1>4, ListRowsKeeps, ListLatestKeeps, HistoryPageKeeps, FeedRunKeeps,
     FeedNotProcessedKeeps, FeedItemsKeeps DEF Read
<1>5. CASE Close
  BY <1>5, CloseKeeps
<1> QED BY <1>1, <1>2, <1>3, <1>4, <1>5 DEF Next

\* Who reads something reads it by its kind.
LEMMA KindOfTask ==
    ASSUME Shape
    PROVE  /\ task.kind = "list" => task \in ListTask
           /\ task.kind = "history" => task \in HistoryTask
           /\ task.kind = "feed" => task \in FeedTask
<1>1. task = NoTask \/ task \in ListTask \cup HistoryTask \cup FeedTask
  BY DEF Shape
<1> QED BY <1>1 DEF NoTask, ListTask, HistoryTask, FeedTask

LEMMA InvariantOfLists ==
    ReadInv => ListNeverRepeats /\ ListMissesNothingUntouched /\ ItemsHaveTheirObservation
<1> SUFFICES ASSUME ReadInv, task.kind = "list"
             PROVE  /\ ListNeverRepeats /\ ListMissesNothingUntouched
                    /\ ItemsHaveTheirObservation
  BY DEF ListNeverRepeats, ListMissesNothingUntouched, ItemsHaveTheirObservation, Finished
<1>1. task \in ListTask
  BY KindOfTask DEF ReadInv
<1>2. ListIsSound(task, step, page, cursor, shown, atStart.rows,
                  decisions[task.property], history[task.property])
  BY <1>1 DEF ReadInv, ReadingIsSound
<1>3. ListNeverRepeats
  BY <1>2 DEF ListNeverRepeats, ListIsSound, EachOnce
<1>4. ListMissesNothingUntouched
  BY <1>2 DEF ListMissesNothingUntouched, Finished, ListIsSound, IsNotMissed, IsListed
<1>5. ItemsHaveTheirObservation
  BY <1>2 DEF ItemsHaveTheirObservation, ListIsSound, HasLatest
<1> QED BY <1>3, <1>4, <1>5

LEMMA InvariantOfHistories == ReadInv => HistoryIsWhole
<1> SUFFICES ASSUME ReadInv, Finished("history")
             PROVE  HistoryIsWhole
  BY DEF HistoryIsWhole
<1>1. task \in HistoryTask /\ step = "done"
  BY KindOfTask DEF ReadInv, Finished
<1>2. HistoryIsSound(step, cursor, shown, atStart.observations[task.decision],
                     history[task.property][task.decision])
  BY <1>1 DEF ReadInv, ReadingIsSound
<1> QED BY <1>1, <1>2 DEF HistoryIsWhole, HistoryIsSound, IsSeen, IsToCome

LEMMA InvariantOfFeeds == ReadInv => FeedIsTheRuns
<1> SUFFICES ASSUME ReadInv, Finished("feed")
             PROVE  FeedIsTheRuns
  BY DEF FeedIsTheRuns
<1>1. task \in FeedTask /\ step = "done"
  BY KindOfTask DEF ReadInv, Finished
<1>2. \A f \in shown : IsFeed(f, history[task.property])
  BY <1>1 DEF ReadInv, ReadingIsSound, FeedIsSound
<1> QED BY <1>2 DEF FeedIsTheRuns, IsFeed, ItemIsOf

\* What a reading keeps: a cursor with what was shown behind it, and the tables.
THEOREM ReadingsAreSound == Spec => []ReadInv
<1>1. Init => ReadInv
  BY ReadInvInit
<1>2. ReadInv /\ [Next]_vars => ReadInv'
  BY ReadInvNext
<1> QED BY <1>1, <1>2, PTL DEF Spec

\* No Decision is listed twice, however its row moves between the pages of
\* list_decisions_page.
THEOREM ListsNeverRepeat == Spec => []ListNeverRepeats
BY ReadingsAreSound, InvariantOfLists, PTL

\* No Decision is left out that no sync has touched since the first page.
THEOREM ListsMissNothing == Spec => []ListMissesNothingUntouched
BY ReadingsAreSound, InvariantOfLists, PTL

\* latest_observations_of finds one observation for each row of the page read before,
\* of the row's own evaluation or a later one.
THEOREM ItemsAreObserved == Spec => []ItemsHaveTheirObservation
BY ReadingsAreSound, InvariantOfLists, PTL

\* The pages of history_page_desc are the history there was, each observation once, and
\* what came meanwhile is newer than all of them.
THEOREM HistoriesAreWhole == Spec => []HistoryIsWhole
BY ReadingsAreSound, InvariantOfHistories, PTL

\* get_feed lists the Decisions its run triggered, one by one, and a row shown resolved
\* was resolved by a later run.
THEOREM FeedsAreOfTheirRun == Spec => []FeedIsTheRuns
BY ReadingsAreSound, InvariantOfFeeds, PTL
=============================================================================
