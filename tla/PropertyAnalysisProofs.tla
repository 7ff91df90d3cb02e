----------------------- MODULE PropertyAnalysisProofs -----------------------
(***************************************************************************)
(* What a day of analysis never does, for any number of analyses, imports, *)
(* nights and instants: the safety properties of PropertyAnalysis.         *)
(*                                                                         *)
(* An analysis reads the bookings under the lock of their source, writes   *)
(* what it read as snapshots, and goes on from the rows when the bookings  *)
(* have long moved on.  So the invariant follows it through its labels:    *)
(* what it knows while it holds the lock (Holds), what its rows are of     *)
(* once they are stored (Stored), and what its figures are of once it has  *)
(* read them (HasRead), which is then true of the run it leaves            *)
(* (RunIsSound).  Each of these is about the imports, the rows and the     *)
(* runs it names, and stays true as these grow.                            *)
(*                                                                         *)
(* At the end, what the ranking of a run promises for every set of          *)
(* candidates and every evaluation: its order is a strict total order, so   *)
(* ranks are unique and do not depend on the order evaluations arrive in;   *)
(* and an evaluation whose measures reach its detector's thresholds never   *)
(* scores below the middle of the impact scale.                             *)
(***************************************************************************)
EXTENDS PropertyAnalysis, PriorityRanking, FiniteSetTheorems, SequenceTheorems, TLAPS

Finished == [finishedAt : Nat, books : Books]

Label == {"idle", "evaluating", "ready", "locked", "stored", "evaluated",
          "ranked", "done"}

\* What an analysis has read; V are the figures it has read.
Reading(V) ==
  [pc : Label, automatic : BOOLEAN, now : Nat, window : SUBSET Night, at : Nat,
   revenue : V, ota : V, provenance : Nat, run : Nat, replayed : BOOLEAN]

IsReading(w) == \E V : w \in Reading(V)

-----------------------------------------------------------------------------
(* What was read, against the imports (seq) and the rows.                  *)

BooksOf(seq, n) == IF n = 0 THEN FirstBooks ELSE seq[n].books

\* IsStateAfter
IsOf(seq, n, revenue) ==
  \A night \in DOMAIN revenue : revenue[night] = Content(BooksOf(seq, n)[night])

\* One of the first n imports is of the day an automatic analysis was for.
Todays(w, seq, n) ==
  w.automatic =>
    \E k \in 1 .. n : /\ LocalDayStart(LocalDay(w.now)) <= seq[k].finishedAt
                      /\ seq[k].finishedAt <= w.now

HasRow(rows, day, night, content) ==
  \E row \in rows : row.day = day /\ row.night = night /\ row.content = content

Behind(rows, day, revenue) ==
  \A night \in DOMAIN revenue : HasRow(rows, day, night, revenue[night])

MixBehind(rows, day, ota) ==
  ota # NoOta =>
    \A night \in Window(day) :
      \E row \in rows : /\ row.day = day /\ row.night = night
                        /\ ota[night].rooms = row.content.rooms

-----------------------------------------------------------------------------
(* What an analysis knows at each of its labels.                           *)

\* Under the lock: nothing has been imported since as_of_at.
Holds(w, s, holder, seq, t) ==
  w.pc = "locked" => /\ holder = s /\ w.at <= t
                     /\ \A k \in DOMAIN seq : seq[k].finishedAt <= w.at

Eligibly(w, seq) ==
  w.pc \in {"ready", "locked"} => Todays(w, seq, Len(seq))

\* Its window has its rows, all of one state of the bookings.
Stored(w, seq, rows) ==
  w.pc = "stored" =>
    \E n \in 0 .. Len(seq) :
      /\ Todays(w, seq, n)
      /\ \A night \in w.window :
           HasRow(rows, LocalDay(w.at), night, Content(BooksOf(seq, n)[night]))

Evaluated(w) ==
  \/ w.pc \in {"evaluated", "ranked"}
  \/ w.pc = "done" /\ w.run # NoRun /\ ~w.replayed

\* Its figures are those of the rows and of one state of the bookings.
HasRead(w, seq, rows) ==
  Evaluated(w) =>
    /\ Behind(rows, LocalDay(w.at), w.revenue)
    /\ MixBehind(rows, LocalDay(w.at), w.ota)
    /\ \E n \in 0 .. Len(seq) :
         /\ Todays(w, seq, n) /\ IsOf(seq, n, w.revenue)
         /\ w.pc # "evaluated" => n <= w.provenance
    /\ w.pc # "evaluated" => w.provenance <= Len(seq)

InputOf(w) ==
  [asOf |-> LocalDay(w.at), revenue |-> w.revenue, ota |-> w.ota,
   provenance |-> w.provenance]

HasRecorded(w, log) ==
  /\ w.run <= Len(log)
  /\ (w.pc = "done" /\ w.run # NoRun /\ ~w.replayed) => log[w.run] = InputOf(w)

RunIsSound(run, seq, rows) ==
  /\ run.provenance \in 0 .. Len(seq)
  /\ \E n \in 0 .. run.provenance : IsOf(seq, n, run.revenue)
  /\ Behind(rows, run.asOf, run.revenue)
  /\ MixBehind(rows, run.asOf, run.ota)

RowIsOfItsInstant(row, seq) ==
  \E n \in 0 .. Len(seq) :
    /\ row.content = Content(BooksOf(seq, n)[row.night])
    /\ \A k \in DOMAIN seq : IF k <= n THEN seq[k].finishedAt <= row.at
                                       ELSE seq[k].finishedAt >= row.at

-----------------------------------------------------------------------------
(* The inductive invariant.                                                *)

Shape ==
  /\ clock \in Nat /\ clock <= MaxClock
  /\ imports \in Seq(Finished) /\ Len(imports) <= MaxImports
  /\ writing \in Finished \cup {NoImport}
  /\ lock \in Session \cup {Nobody, Importer}
  /\ \E S : runs \in Seq(S)
  /\ queued \in BOOLEAN
  /\ session = [s \in Session |-> session[s]]
  /\ \A s \in Session : IsReading(session[s]) /\ session[s].now <= clock

\* Nothing is of the future, and an import that is being written is under the
\* lock and later than every row.
InTime ==
  /\ \A k \in DOMAIN imports : imports[k].finishedAt <= clock
  /\ \A row \in snapshots : row.at \in 0 .. clock /\ row.night \in Night
  /\ lock = Importer => Len(imports) < MaxImports
  /\ writing # NoImport =>
       /\ lock = Importer
       /\ writing.finishedAt <= clock
       /\ \A row \in snapshots : row.at <= writing.finishedAt

OneRow == \A row, other \in snapshots : SameKey(row, other) => row = other

RowsAreSound == \A row \in snapshots : RowIsOfItsInstant(row, imports)

RunsAreSound == \A k \in DOMAIN runs : RunIsSound(runs[k], imports, snapshots)

SessionIsSound(w, s, holder, t, seq, rows, log) ==
  /\ Holds(w, s, holder, seq, t)
  /\ Eligibly(w, seq)
  /\ Stored(w, seq, rows)
  /\ HasRead(w, seq, rows)
  /\ HasRecorded(w, log)

SessionsAreSound ==
  \A s \in Session :
    SessionIsSound(session[s], s, lock, clock, imports, snapshots, runs)

DayInv ==
  /\ Shape /\ InTime /\ OneRow /\ RowsAreSound /\ RunsAreSound /\ SessionsAreSound

-----------------------------------------------------------------------------
(* Days.                                                                   *)

LEMMA DaysOfInstants ==
    ASSUME NEW t \in Nat
    PROVE  /\ LocalDay(t) \in Nat
           /\ LocalDayStart(LocalDay(t)) <= t
           /\ t < LocalDayStart(LocalDay(t) + 1)
BY ClockAssumption DEF LocalDay, LocalDayStart

LEMMA DaysGoForward ==
    ASSUME NEW t \in Nat, NEW u \in Nat, t <= u
    PROVE  LocalDay(t) <= LocalDay(u)
BY ClockAssumption DEF LocalDay

\* From the start of its day on, an instant has the day of the later one.
LEMMA SameDay ==
    ASSUME NEW t \in Nat, NEW u \in Nat, t <= u, LocalDayStart(LocalDay(u)) <= t
    PROVE  LocalDay(t) = LocalDay(u)
<1>1. LocalDay(t) <= LocalDay(u)
  BY DaysGoForward
<1>2. LocalDay(LocalDayStart(LocalDay(u))) = LocalDay(u)
  BY DaysOfInstants, ClockAssumption DEF LocalDay, LocalDayStart
<1>3. LocalDayStart(LocalDay(u)) \in Nat
  <2>1. LocalDay(u) \in Nat /\ DayLength \in Nat
    BY DaysOfInstants, ClockAssumption
  <2>2. \A a, b \in Nat : a * b \in Nat
    OBVIOUS
  <2> QED BY <2>1, <2>2 DEF LocalDayStart
<1>4. LocalDay(u) <= LocalDay(t)
  BY <1>2, <1>3, DaysGoForward
<1> QED BY <1>1, <1>4, DaysOfInstants

\* The nights of a window that opens within the model.
LEMMA WindowsAreNights ==
    ASSUME NEW t \in Nat, t <= MaxClock
    PROVE  Window(LocalDay(t)) \subseteq Night
<1>1. LocalDay(t) \in Nat /\ LocalDay(MaxClock) \in Nat /\ LocalDay(t) <= LocalDay(MaxClock)
  BY DaysOfInstants, DaysGoForward, ClockAssumption
<1>2. Night = 0 .. LocalDay(MaxClock) + WindowDays - 1
  BY ClockAssumption DEF LocalDay
<1> QED BY <1>1, <1>2, ClockAssumption DEF Window

-----------------------------------------------------------------------------
(* What was read stays what it was when the tables grow.                   *)

Grown(seq, more) ==
  /\ seq \in Seq(Finished) /\ more \in Seq(Finished)
  /\ Len(seq) <= Len(more)
  /\ \A k \in 1 .. Len(seq) : more[k] = seq[k]

LEMMA BooksStay ==
    ASSUME NEW seq, NEW more, Grown(seq, more), NEW n \in 0 .. Len(seq)
    PROVE  n \in 0 .. Len(more) /\ BooksOf(more, n) = BooksOf(seq, n)
BY DEF Grown, BooksOf

LEMMA StatesStay ==
    ASSUME NEW seq, NEW more, Grown(seq, more), NEW n \in 0 .. Len(seq),
           NEW revenue, IsOf(seq, n, revenue)
    PROVE  IsOf(more, n, revenue)
BY BooksStay DEF IsOf

LEMMA TodaysStay ==
    ASSUME NEW seq, NEW more, Grown(seq, more), NEW n \in 0 .. Len(seq),
           NEW m \in 0 .. Len(more), n <= m, NEW w, Todays(w, seq, n)
    PROVE  Todays(w, more, m)
<1>1. Len(seq) \in Nat /\ Len(more) \in Nat
  BY DEF Grown
<1> QED BY <1>1 DEF Grown, Todays

LEMMA RowsStay ==
    ASSUME NEW rows, NEW others, rows \subseteq others, NEW day
    PROVE  /\ \A night, content : HasRow(rows, day, night, content)
                                   => HasRow(others, day, night, content)
           /\ \A revenue : Behind(rows, day, revenue) => Behind(others, day, revenue)
           /\ \A ota : MixBehind(rows, day, ota) => MixBehind(others, day, ota)
BY DEF HasRow, Behind, MixBehind

LEMMA SoundRunStays ==
    ASSUME NEW seq, NEW more, Grown(seq, more), NEW rows, NEW others,
           rows \subseteq others, NEW run, RunIsSound(run, seq, rows)
    PROVE  RunIsSound(run, more, others)
<1>1. Len(seq) \in Nat /\ Len(more) \in Nat /\ Len(seq) <= Len(more)
  BY DEF Grown
<1>2. run.provenance \in 0 .. Len(more)
  BY <1>1 DEF RunIsSound
<1>3. PICK n \in 0 .. run.provenance : IsOf(seq, n, run.revenue)
  BY DEF RunIsSound
<1>4. IsOf(more, n, run.revenue)
  BY <1>1, <1>3, StatesStay DEF RunIsSound
<1> QED BY <1>2, <1>4, RowsStay DEF RunIsSound

LEMMA SoundSessionStays ==
    ASSUME NEW seq, NEW more, Grown(seq, more), NEW rows, NEW others,
           rows \subseteq others, NEW log, NEW longer,
           Len(log) \in Nat, Len(longer) \in Nat, Len(log) <= Len(longer),
           \A k \in 1 .. Len(log) : longer[k] = log[k],
           NEW t \in Nat, NEW u \in Nat, t <= u, NEW w, IsReading(w), NEW s,
           NEW holder, NEW next,
           w.pc = "locked" => next = holder /\ more = seq,
           SessionIsSound(w, s, holder, t, seq, rows, log)
    PROVE  SessionIsSound(w, s, next, u, more, others, longer)
<1>1. Len(seq) \in Nat /\ Len(more) \in Nat /\ Len(seq) <= Len(more)
  BY DEF Grown
<1>2. w.at \in Nat /\ w.run \in Nat /\ w.provenance \in Nat
  BY DEF IsReading, Reading
<1>3. Holds(w, s, next, more, u)
  BY <1>2 DEF SessionIsSound, Holds
<1>4. Eligibly(w, more)
  BY <1>1, TodaysStay DEF SessionIsSound, Eligibly
<1>5. Stored(w, more, others)
  <2> SUFFICES ASSUME w.pc = "stored"
               PROVE  \E n \in 0 .. Len(more) :
                        /\ Todays(w, more, n)
                        /\ \A night \in w.window :
                             HasRow(others, LocalDay(w.at), night, Content(BooksOf(more, n)[night]))
    BY DEF Stored
  <2>1. PICK n \in 0 .. Len(seq) :
          /\ Todays(w, seq, n)
          /\ \A night \in w.window :
               HasRow(rows, LocalDay(w.at), night, Content(BooksOf(seq, n)[night]))
    BY DEF SessionIsSound, Stored
  <2>2. n \in 0 .. Len(more) /\ BooksOf(more, n) = BooksOf(seq, n) /\ Todays(w, more, n)
    BY <1>1, <2>1, BooksStay, TodaysStay
  <2> QED BY <2>1, <2>2, RowsStay
<1>6. HasRead(w, more, others)
  <2> SUFFICES ASSUME Evaluated(w)
               PROVE  HasRead(w, more, others)
    BY DEF HasRead
  <2>1. PICK n \in 0 .. Len(seq) :
          /\ Todays(w, seq, n) /\ IsOf(seq, n, w.revenue)
          /\ w.pc # "evaluated" => n <= w.provenance
    BY DEF SessionIsSound, HasRead
  <2>2. n \in 0 .. Len(more) /\ Todays(w, more, n) /\ IsOf(more, n, w.revenue)
    BY <1>1, <2>1, BooksStay, TodaysStay, StatesStay
  <2>3. w.pc # "evaluated" => w.provenance <= Len(more)
    BY <1>1, <1>2 DEF SessionIsSound, HasRead
  <2>4. Behind(others, LocalDay(w.at), w.revenue) /\ MixBehind(others, LocalDay(w.at), w.ota)
    BY RowsStay DEF SessionIsSound, HasRead
  <2> QED BY <2>1, <2>2, <2>3, <2>4 DEF HasRead
<1>7. HasRecorded(w, longer)
  BY <1>2 DEF SessionIsSound, HasRecorded, NoRun
<1> QED BY <1>3, <1>4, <1>5, <1>6, <1>7 DEF SessionIsSound

-----------------------------------------------------------------------------
(* The steps.                                                              *)

LEMMA ShapeOfTables ==
    ASSUME Shape
    PROVE  /\ Len(imports) \in Nat /\ DOMAIN imports = 1 .. Len(imports)
           /\ \A k \in DOMAIN imports : /\ imports[k].finishedAt \in Nat
                                       /\ imports[k].books \in Books
           /\ Len(runs) \in Nat /\ DOMAIN runs = 1 .. Len(runs)
<1>1. imports \in Seq(Finished) /\ \E S : runs \in Seq(S)
  BY DEF Shape
<1>2. \A k \in DOMAIN imports : imports[k] \in Finished
  BY <1>1
<1> QED BY <1>1, <1>2 DEF Finished

LEMMA InitIsSound == Init => DayInv
<1> SUFFICES ASSUME Init
             PROVE  DayInv
  OBVIOUS
<1> USE DEF Init
<1>1. \A s \in Session : session[s] = Idle
  OBVIOUS
<1>2. Idle \in Reading({NoOta})
  BY DEF Idle, Reading, Label, NoOta, NoRun
<1>3. Shape
  <2>1. imports \in Seq(Finished) /\ Len(imports) = 0 /\ runs \in Seq({}) /\ 0 <= MaxImports
    BY ClockAssumption
  <2>2. IsReading(Idle)
    BY <1>2 DEF IsReading
  <2>3. Idle.now <= 0
    BY DEF Idle
  <2>4. session = [s \in Session |-> session[s]] /\ \E S : runs \in Seq(S)
    BY <2>1
  <2>5. \A s \in Session : IsReading(session[s]) /\ session[s].now <= clock
    BY <1>1, <2>2, <2>3
  <2>6. clock \in Nat /\ clock <= MaxClock /\ Len(imports) <= MaxImports
    BY <2>1, ClockAssumption
  <2> QED BY <2>1, <2>4, <2>5, <2>6 DEF Shape
<1>4. InTime /\ OneRow /\ RowsAreSound /\ RunsAreSound
  BY DEF InTime, OneRow, RowsAreSound, RunsAreSound, Nobody, Importer
<1>5. SessionsAreSound
  BY <1>1 DEF SessionsAreSound, SessionIsSound, Holds, Eligibly, Stored, HasRead,
              Evaluated, HasRecorded, Idle, NoRun
<1> QED BY <1>3, <1>4, <1>5 DEF DayInv

\* A step of nobody's analysis: the clock, the dispatcher, the import.
LEMMA OutsideKeeps ==
    ASSUME DayInv, UNCHANGED <<snapshots, runs, session>>, clock' \in Nat,
           clock <= clock', Grown(imports, imports'),
           lock \notin Session \/ (lock' = lock /\ imports' = imports)
    PROVE  OneRow' /\ RunsAreSound' /\ SessionsAreSound'
<1>1. OneRow'
  BY DEF DayInv, OneRow
<1>2. RunsAreSound'
  BY SoundRunStays DEF DayInv, RunsAreSound
<1>3. Len(runs) \in Nat /\ clock \in Nat
  BY ShapeOfTables DEF DayInv, Shape
<1>4. SessionsAreSound'
  <2> SUFFICES ASSUME NEW s \in Session
               PROVE  SessionIsSound(session[s], s, lock', clock', imports', snapshots, runs)
    BY DEF SessionsAreSound
  <2>1. IsReading(session[s])
    BY DEF DayInv, Shape
  <2>2. SessionIsSound(session[s], s, lock, clock, imports, snapshots, runs)
    BY DEF DayInv, SessionsAreSound
  <2>3. session[s].pc = "locked" => lock' = lock /\ imports' = imports
    BY <2>2 DEF SessionIsSound, Holds
  <2> QED BY <1>3, <2>1, <2>2, <2>3, SoundSessionStays
<1> QED BY <1>1, <1>2, <1>4

LEMMA SameImports ==
    ASSUME Shape, imports' = imports
    PROVE  Grown(imports, imports')
BY ShapeOfTables DEF Shape, Grown

LEMMA TickKeeps == DayInv /\ Tick => DayInv'
<1> SUFFICES ASSUME DayInv, Tick
             PROVE  DayInv'
  OBVIOUS
<1> USE DEF DayInv
<1>1. /\ clock \in Nat /\ clock' = clock + 1 /\ clock' <= MaxClock
      /\ UNCHANGED <<imports, writing, lock, snapshots, runs, queued, session>>
  BY ClockAssumption DEF Tick, Shape
<1>2. OneRow' /\ RunsAreSound' /\ SessionsAreSound'
  BY <1>1, SameImports, OutsideKeeps
<1>3. \A s \in Session : session[s].now \in Nat
  BY DEF Shape, IsReading, Reading
<1>4. Shape'
  BY <1>1, <1>3 DEF Shape
<1>5. \A k \in DOMAIN imports : imports[k].finishedAt \in Nat
  BY ShapeOfTables
<1>6. InTime'
  <2>1. \A k \in DOMAIN imports : imports[k].finishedAt <= clock'
    BY <1>1, <1>5 DEF InTime
  <2>2. \A row \in snapshots : row.at \in 0 .. clock' /\ row.night \in Night
    BY <1>1 DEF InTime
  <2>3. writing # NoImport => writing.finishedAt <= clock'
    BY <1>1 DEF InTime, Shape, Finished
  <2> QED BY <1>1, <2>1, <2>2, <2>3 DEF InTime
<1>7. RowsAreSound'
  BY <1>1 DEF RowsAreSound
<1> QED BY <1>2, <1>4, <1>6, <1>7

LEMMA DispatchKeeps == DayInv /\ Dispatch => DayInv'
<1> SUFFICES ASSUME DayInv, Dispatch
             PROVE  DayInv'
  OBVIOUS
<1> USE DEF DayInv
<1>1. queued' = TRUE /\ UNCHANGED <<clock, imports, writing, lock, snapshots, runs, session>>
  BY DEF Dispatch
<1>2. clock \in Nat /\ Shape'
  BY <1>1 DEF Shape
<1>3. OneRow' /\ RunsAreSound' /\ SessionsAreSound'
  BY <1>1, <1>2, SameImports, OutsideKeeps
<1>4. InTime' /\ RowsAreSound'
  BY <1>1 DEF InTime, RowsAreSound
<1> QED BY <1>2, <1>3, <1>4

-----------------------------------------------------------------------------
(* The import.                                                             *)

LEMMA ImportLocksKeeps == DayInv /\ ImportLocks => DayInv'
<1> SUFFICES ASSUME DayInv, ImportLocks
             PROVE  DayInv'
  OBVIOUS
<1> USE DEF DayInv
<1>1. /\ lock = Nobody /\ lock' = Importer /\ Len(imports) < MaxImports
      /\ UNCHANGED <<clock, imports, writing, snapshots, runs, queued, session>>
  BY DEF ImportLocks, LockFree
<1>2. clock \in Nat /\ Shape'
  BY <1>1 DEF Shape
<1>3. OneRow' /\ RunsAreSound' /\ SessionsAreSound'
  BY <1>1, <1>2, SameImports, OutsideKeeps, SessionAssumption
<1>4. InTime' /\ RowsAreSound'
  BY <1>1 DEF InTime, RowsAreSound
<1> QED BY <1>2, <1>3, <1>4

LEMMA ImportSucceedsKeeps ==
    ASSUME DayInv, NEW b \in Books, ImportSucceeds(b)
    PROVE  DayInv'
<1> USE DEF DayInv
<1>1. /\ lock = Importer
      /\ writing' = [finishedAt |-> clock, books |-> b]
      /\ UNCHANGED <<clock, imports, lock, snapshots, runs, queued, session>>
  BY DEF ImportSucceeds
<1>2. clock \in Nat /\ writing' \in Finished /\ writing'.finishedAt = clock
  BY <1>1 DEF Shape, Finished
<1>3. Shape'
  BY <1>1, <1>2 DEF Shape
<1>4. OneRow' /\ RunsAreSound' /\ SessionsAreSound'
  BY <1>1, <1>2, SameImports, OutsideKeeps
<1>5. InTime' /\ RowsAreSound'
  BY <1>1, <1>2 DEF InTime, RowsAreSound
<1> QED BY <1>3, <1>4, <1>5

\* The lock of the source has kept every analysis from its bookings, and every
\* row there is was read before the import finished.
LEMMA ImportCommitsKeeps == DayInv /\ ImportCommits => DayInv'
<1> SUFFICES ASSUME DayInv, ImportCommits
             PROVE  DayInv'
  OBVIOUS
<1> USE DEF DayInv
<1> DEFINE last == Len(imports) + 1
<1>1. /\ writing # NoImport /\ imports' = Append(imports, writing)
      /\ writing' = NoImport /\ lock' = Nobody
      /\ UNCHANGED <<clock, snapshots, runs, queued, session>>
  BY DEF ImportCommits
<1>2. /\ lock = Importer /\ Len(imports) < MaxImports /\ writing \in Finished
      /\ clock \in Nat /\ Len(imports) \in Nat /\ imports \in Seq(Finished)
  BY <1>1, ShapeOfTables DEF InTime, Shape
<1>3. /\ imports' \in Seq(Finished) /\ Len(imports') = last
      /\ DOMAIN imports = 1 .. Len(imports) /\ DOMAIN imports' = 1 .. last
      /\ imports'[last] = writing
      /\ \A k \in 1 .. Len(imports) : imports'[k] = imports[k]
  BY <1>1, <1>2
<1>4. Grown(imports, imports')
  BY <1>2, <1>3 DEF Grown
<1>5. Shape'
  BY <1>1, <1>2, <1>3, ClockAssumption DEF Shape
<1>6. OneRow' /\ RunsAreSound' /\ SessionsAreSound'
  <2>1. lock \notin Session /\ clock' \in Nat /\ clock <= clock'
    BY <1>1, <1>2, SessionAssumption
  <2>2. UNCHANGED <<snapshots, runs, session>>
    BY <1>1
  <2> HIDE DEF DayInv
  <2> QED BY <1>4, <2>1, <2>2, OutsideKeeps
<1>7. InTime'
  <2>1. writing.finishedAt <= clock
    BY <1>1 DEF InTime
  <2>2. \A k \in 1 .. last : k \in 1 .. Len(imports) \/ k = last
    BY <1>2
  <2>3. \A k \in DOMAIN imports' : imports'[k].finishedAt <= clock
    BY <1>3, <2>1, <2>2 DEF InTime
  <2> QED BY <1>1, <2>3, SessionAssumption DEF InTime, Nobody, Importer
<1>8. RowsAreSound'
  <2> SUFFICES ASSUME NEW row \in snapshots
               PROVE  RowIsOfItsInstant(row, imports')
    BY <1>1 DEF RowsAreSound
  <2>1. PICK n \in 0 .. Len(imports) :
          /\ row.content = Content(BooksOf(imports, n)[row.night])
          /\ \A k \in DOMAIN imports :
               IF k <= n THEN imports[k].finishedAt <= row.at
                         ELSE imports[k].finishedAt >= row.at
    BY DEF RowsAreSound, RowIsOfItsInstant
  <2>2. n \in 0 .. Len(imports') /\ BooksOf(imports', n) = BooksOf(imports, n)
    BY <1>4, BooksStay
  <2>3. ~(last <= n) /\ imports'[last].finishedAt >= row.at
    BY <1>1, <1>2, <1>3 DEF InTime, Finished
  <2>4. \A k \in DOMAIN imports' :
          IF k <= n THEN imports'[k].finishedAt <= row.at
                    ELSE imports'[k].finishedAt >= row.at
    <3> SUFFICES ASSUME NEW k \in 1 .. last
                 PROVE  IF k <= n THEN imports'[k].finishedAt <= row.at
                                  ELSE imports'[k].finishedAt >= row.at
      BY <1>3
    <3>1. CASE k = last
      BY <2>3, <3>1
    <3>2. CASE k \in 1 .. Len(imports)
      BY <1>3, <2>1, <3>2
    <3> QED BY <1>2, <3>1, <3>2
  <2> QED BY <2>1, <2>2, <2>4 DEF RowIsOfItsInstant
<1> QED BY <1>5, <1>6, <1>7, <1>8

LEMMA ImportRollsBackKeeps == DayInv /\ ImportRollsBack => DayInv'
<1> SUFFICES ASSUME DayInv, ImportRollsBack
             PROVE  DayInv'
  OBVIOUS
<1> USE DEF DayInv
<1>1. /\ lock = Importer /\ writing' = NoImport /\ lock' = Nobody
      /\ UNCHANGED <<clock, imports, snapshots, runs, queued, session>>
  BY DEF ImportRollsBack
<1>2. clock \in Nat /\ Shape'
  BY <1>1 DEF Shape
<1>3. OneRow' /\ RunsAreSound' /\ SessionsAreSound'
  BY <1>1, <1>2, SameImports, OutsideKeeps, SessionAssumption
<1>4. InTime' /\ RowsAreSound'
  BY <1>1 DEF InTime, RowsAreSound, Nobody, Importer
<1> QED BY <1>2, <1>3, <1>4

-----------------------------------------------------------------------------
(* The analyses.                                                           *)

\* One analysis moves, and gives back or takes no lock but its own.
MovesTo(s, to) ==
  /\ session' = [session EXCEPT ![s] = to]
  /\ UNCHANGED <<clock, imports, writing>>
  /\ queued' \in BOOLEAN
  /\ lock' = lock \/ (lock \in {s, Nobody} /\ lock' \in {s, Nobody})

\* If what it has then read is sound, so is what all of them have.
LEMMA MovingKeeps ==
    ASSUME DayInv, NEW s \in Session, NEW to, MovesTo(s, to), IsReading(to),
           to.now <= clock, snapshots \subseteq snapshots',
           \E S : runs' \in Seq(S), Len(runs) <= Len(runs'),
           \A k \in 1 .. Len(runs) : runs'[k] = runs[k],
           SessionIsSound(to, s, lock', clock, imports, snapshots', runs')
    PROVE  Shape' /\ SessionsAreSound'
<1>1. /\ session' = [session EXCEPT ![s] = to]
      /\ UNCHANGED <<clock, imports, writing>> /\ queued' \in BOOLEAN
      /\ lock' = lock \/ (lock \in {s, Nobody} /\ lock' \in {s, Nobody})
  BY DEF MovesTo
<1>2. /\ session'[s] = to /\ session' = [r \in Session |-> session'[r]]
      /\ \A r \in Session \ {s} : session'[r] = session[r]
  BY <1>1 DEF DayInv, Shape
<1>3. Shape'
  <2>1. \A r \in Session : IsReading(session'[r]) /\ session'[r].now <= clock
    BY <1>2 DEF DayInv, Shape
  <2>2. lock' \in Session \cup {Nobody, Importer}
    BY <1>1 DEF DayInv, Shape
  <2> QED BY <1>1, <1>2, <2>1, <2>2 DEF DayInv, Shape
<1>4. SessionsAreSound'
  <2> SUFFICES ASSUME NEW r \in Session
               PROVE  SessionIsSound(session'[r], r, lock', clock, imports, snapshots', runs')
    BY <1>1 DEF SessionsAreSound
  <2>1. CASE r = s
    BY <1>2, <2>1
  <2>2. CASE r # s
    <3>1. session'[r] = session[r] /\ IsReading(session[r])
      BY <1>2, <2>2 DEF DayInv, Shape
    <3>2. SessionIsSound(session[r], r, lock, clock, imports, snapshots, runs)
      BY DEF DayInv, SessionsAreSound
    <3>3. session[r].pc = "locked" => lock' = lock
      BY <1>1, <2>2, <3>2, SessionAssumption DEF SessionIsSound, Holds
    <3>4. /\ clock \in Nat /\ Len(runs) \in Nat /\ Len(runs') \in Nat
          /\ Grown(imports, imports)
      <4>1. \E S : runs \in Seq(S)
        BY DEF DayInv, Shape
      <4>2. imports \in Seq(Finished) /\ clock \in Nat
        BY DEF DayInv, Shape
      <4> QED BY <4>1, <4>2 DEF Grown
    <3> QED BY <3>1, <3>2, <3>3, <3>4, SoundSessionStays
  <2> QED BY <2>1, <2>2
<1> QED BY <1>3, <1>4

\* An analysis that writes nothing.
LEMMA ReadingKeeps ==
    ASSUME DayInv, NEW s \in Session, NEW to, MovesTo(s, to),
           UNCHANGED <<snapshots, runs>>, IsReading(to), to.now <= clock,
           SessionIsSound(to, s, lock', clock, imports, snapshots, runs)
    PROVE  DayInv'
<1>1. /\ UNCHANGED <<clock, imports, writing>>
      /\ lock' = lock \/ (lock \in {s, Nobody} /\ lock' \in {s, Nobody})
  BY DEF MovesTo
<1>2. Shape' /\ SessionsAreSound'
  <2>1. \E S : runs \in Seq(S)
    BY DEF DayInv, Shape
  <2>2. Len(runs) \in Nat
    BY <2>1
  <2> QED BY <2>1, <2>2, MovingKeeps
<1>3. InTime'
  <2>1. lock = Importer <=> lock' = Importer
    BY <1>1, SessionAssumption DEF Nobody, Importer
  <2> QED BY <1>1, <2>1 DEF DayInv, InTime
<1>4. OneRow' /\ RowsAreSound' /\ RunsAreSound'
  BY <1>1 DEF DayInv, OneRow, RowsAreSound, RunsAreSound
<1> QED BY <1>2, <1>3, <1>4 DEF DayInv

\* An analysis that ends without a run.
LEMMA EndingKeeps ==
    ASSUME DayInv, NEW s \in Session, End(s, Idle), queued' \in BOOLEAN,
           UNCHANGED <<clock, imports, writing, snapshots, runs>>
    PROVE  DayInv'
<1> DEFINE to == [Idle EXCEPT !.pc = "done"]
<1>1. to \in Reading({NoOta}) /\ to.pc = "done" /\ to.run = NoRun /\ to.now = 0
  BY DEF Idle, Reading, Label, NoOta, NoRun
<1>2. MovesTo(s, to)
  BY DEF End, MovesTo
<1> HIDE DEF to
<1>3. 0 <= clock /\ 0 <= Len(runs)
  BY ShapeOfTables DEF DayInv, Shape
<1>4. SessionIsSound(to, s, lock', clock, imports, snapshots, runs)
  BY <1>1, <1>3 DEF SessionIsSound, Holds, Eligibly, Stored, HasRead, Evaluated,
                    HasRecorded, NoRun
<1> QED BY <1>1, <1>2, <1>3, <1>4, ReadingKeeps DEF IsReading

LEMMA PolicyReadsRunsKeeps ==
    ASSUME DayInv, NEW s \in Session, PolicyReadsRuns(s)
    PROVE  DayInv'
<1> DEFINE to == [Idle EXCEPT !.pc = "evaluating", !.automatic = TRUE, !.now = clock]
<1>1. clock \in Nat
  BY DEF DayInv, Shape
<1>2. to \in Reading({NoOta}) /\ to.pc = "evaluating" /\ to.run = NoRun /\ to.now = clock
  BY <1>1 DEF Idle, Reading, Label, NoOta, NoRun
<1>3. MovesTo(s, to) /\ UNCHANGED <<snapshots, runs>>
  BY DEF PolicyReadsRuns, Advance, MovesTo
<1> HIDE DEF to
<1>4. SessionIsSound(to, s, lock', clock, imports, snapshots, runs)
  BY <1>2, ShapeOfTables DEF DayInv, SessionIsSound, Holds, Eligibly, Stored, HasRead, Evaluated,
                    HasRecorded, NoRun
<1> QED BY <1>1, <1>2, <1>3, <1>4, ReadingKeeps DEF IsReading

LEMMA PolicySkipsKeeps ==
    ASSUME DayInv, NEW s \in Session, PolicySkips(s)
    PROVE  DayInv'
BY EndingKeeps DEF PolicySkips

LEMMA PolicyFindsNoImportKeeps ==
    ASSUME DayInv, NEW s \in Session, PolicyFindsNoImport(s)
    PROVE  DayInv'
BY EndingKeeps DEF PolicyFindsNoImport, DayInv, Shape

LEMMA SnapshotConflictKeeps ==
    ASSUME DayInv, NEW s \in Session, SnapshotConflict(s)
    PROVE  DayInv'
BY EndingKeeps DEF SnapshotConflict, DayInv, Shape

LEMMA FailKeeps ==
    ASSUME DayInv, NEW s \in Session, Fail(s)
    PROVE  DayInv'
BY EndingKeeps DEF Fail, DayInv, Shape

LEMMA PolicyReadsImportsKeeps ==
    ASSUME DayInv, NEW s \in Session, PolicyReadsImports(s)
    PROVE  DayInv'
<1> DEFINE w == session[s]
           to == [w EXCEPT !.pc = "ready", !.window = Window(LocalDay(w.now))]
<1>1. /\ HasSucceededBetween(LocalDayStart(LocalDay(w.now)), w.now)
      /\ MovesTo(s, to) /\ UNCHANGED <<snapshots, runs>>
  BY DEF PolicyReadsImports, Advance, MovesTo, DayInv, Shape
<1>2. PICK V : w \in Reading(V)
  BY DEF DayInv, Shape, IsReading
<1>3. w.now \in Nat /\ w.now <= clock /\ w.now <= MaxClock
  BY <1>2, ClockAssumption DEF DayInv, Shape, Reading
<1>4. SessionIsSound(w, s, lock, clock, imports, snapshots, runs)
  BY DEF DayInv, SessionsAreSound
<1> HIDE DEF w
<1>5. Window(LocalDay(w.now)) \in SUBSET Night
  BY <1>3, WindowsAreNights
<1>6. /\ to \in Reading(V) /\ to.pc = "ready" /\ to.automatic = w.automatic
      /\ to.now = w.now /\ to.run = w.run
  BY <1>2, <1>5 DEF Reading, Label
<1>7. Todays(to, imports, Len(imports))
  BY <1>1, <1>6, ShapeOfTables DEF DayInv, HasSucceededBetween, Todays
<1> HIDE DEF to
<1>8. SessionIsSound(to, s, lock', clock, imports, snapshots, runs)
  BY <1>4, <1>6, <1>7 DEF SessionIsSound, Holds, Eligibly, Stored, HasRead, Evaluated,
                    HasRecorded
<1> QED BY <1>1, <1>3, <1>6, <1>8, ReadingKeeps DEF IsReading

LEMMA StartManualKeeps ==
    ASSUME DayInv, NEW s \in Session, NEW window \in ManualWindow,
           StartManual(s, window)
    PROVE  DayInv'
<1> DEFINE to == [Idle EXCEPT !.pc = "ready", !.window = window]
<1>1. clock \in Nat
  BY DEF DayInv, Shape
<1>2. /\ to \in Reading({NoOta}) /\ to.pc = "ready" /\ to.run = NoRun /\ to.now = 0
      /\ ~to.automatic
  BY WindowAssumption DEF Idle, Reading, Label, NoOta, NoRun
<1>3. MovesTo(s, to) /\ UNCHANGED <<snapshots, runs>>
  BY DEF StartManual, Advance, MovesTo, DayInv, Shape
<1> HIDE DEF to
<1>4. SessionIsSound(to, s, lock', clock, imports, snapshots, runs)
  BY <1>2, ShapeOfTables DEF DayInv, SessionIsSound, Holds, Eligibly, Todays, Stored,
                    HasRead, Evaluated, HasRecorded, NoRun
<1> QED BY <1>1, <1>2, <1>3, <1>4, ReadingKeeps DEF IsReading

\* The lock first, then the clock: every import there is, is older.
LEMMA LockSourceKeeps ==
    ASSUME DayInv, NEW s \in Session, LockSource(s)
    PROVE  DayInv'
<1> DEFINE w == session[s]
           to == [w EXCEPT !.pc = "locked", !.at = clock]
<1>1. /\ w.pc = "ready" /\ lock' = s
      /\ MovesTo(s, to) /\ UNCHANGED <<snapshots, runs>>
  BY DEF LockSource, LockFree, Advance, MovesTo, DayInv, Shape
<1>2. PICK V : w \in Reading(V)
  BY DEF DayInv, Shape, IsReading
<1>3. w.now <= clock /\ clock \in Nat
  BY DEF DayInv, Shape
<1>4. SessionIsSound(w, s, lock, clock, imports, snapshots, runs)
  BY DEF DayInv, SessionsAreSound
<1> HIDE DEF w
<1>5. /\ to \in Reading(V) /\ to.pc = "locked" /\ to.automatic = w.automatic
      /\ to.now = w.now /\ to.run = w.run /\ to.at = clock
  BY <1>2, <1>3 DEF Reading, Label
<1> HIDE DEF to
<1>6. Eligibly(to, imports)
  BY <1>1, <1>4, <1>5 DEF SessionIsSound, Eligibly, Todays
<1>7. Holds(to, s, lock', imports, clock)
  BY <1>1, <1>3, <1>5 DEF Holds, DayInv, InTime
<1>8. SessionIsSound(to, s, lock', clock, imports, snapshots, runs)
  BY <1>4, <1>5, <1>6, <1>7 DEF SessionIsSound, Stored, HasRead, Evaluated, HasRecorded
<1> QED BY <1>1, <1>3, <1>5, <1>8, ReadingKeeps DEF IsReading

LEMMA ReadProvenanceKeeps ==
    ASSUME DayInv, NEW s \in Session, ReadProvenance(s)
    PROVE  DayInv'
<1> DEFINE w == session[s]
           to == [w EXCEPT !.pc = "ranked", !.provenance = Len(imports)]
<1>1. w.pc = "evaluated" /\ MovesTo(s, to) /\ UNCHANGED <<snapshots, runs>>
  BY DEF ReadProvenance, LatestSucceeded, Advance, MovesTo, DayInv, Shape
<1>2. PICK V : w \in Reading(V)
  BY DEF DayInv, Shape, IsReading
<1>3. w.now <= clock /\ Len(imports) \in Nat
  BY ShapeOfTables DEF DayInv, Shape
<1>4. SessionIsSound(w, s, lock, clock, imports, snapshots, runs)
  BY DEF DayInv, SessionsAreSound
<1> HIDE DEF w
<1>5. /\ to \in Reading(V) /\ to.pc = "ranked" /\ to.automatic = w.automatic
      /\ to.now = w.now /\ to.run = w.run /\ to.at = w.at /\ to.revenue = w.revenue
      /\ to.ota = w.ota /\ to.provenance = Len(imports)
  BY <1>2, <1>3 DEF Reading, Label
<1> HIDE DEF to
<1>6. HasRead(to, imports, snapshots)
  BY <1>1, <1>3, <1>4, <1>5 DEF SessionIsSound, HasRead, Evaluated, Todays
<1>7. SessionIsSound(to, s, lock', clock, imports, snapshots, runs)
  BY <1>4, <1>5, <1>6 DEF SessionIsSound, Holds, Eligibly, Stored, HasRecorded
<1> QED BY <1>1, <1>3, <1>5, <1>7, ReadingKeeps DEF IsReading

\* The run of this very input is that of another call.
LEMMA ReplayRunKeeps ==
    ASSUME DayInv, NEW s \in Session, ReplayRun(s)
    PROVE  DayInv'
<1> DEFINE w == session[s]
<1>1. PICK k \in DOMAIN runs :
        /\ w.pc = "ranked" /\ UNCHANGED <<clock, imports, writing, snapshots, runs, queued>>
        /\ End(s, [w EXCEPT !.run = k, !.replayed = TRUE])
  BY DEF ReplayRun
<1> DEFINE to == [[w EXCEPT !.run = k, !.replayed = TRUE] EXCEPT !.pc = "done"]
<1>2. MovesTo(s, to)
  BY <1>1 DEF End, MovesTo, DayInv, Shape
<1>3. PICK V : w \in Reading(V)
  BY DEF DayInv, Shape, IsReading
<1>4. w.now <= clock /\ k \in Nat /\ k <= Len(runs)
  BY <1>1, ShapeOfTables DEF DayInv, Shape
<1> HIDE DEF w
<1>5. to \in Reading(V) /\ to.pc = "done" /\ to.now = w.now /\ to.run = k /\ to.replayed
  BY <1>3, <1>4 DEF Reading, Label
<1> HIDE DEF to
<1>6. SessionIsSound(to, s, lock', clock, imports, snapshots, runs)
  BY <1>4, <1>5 DEF SessionIsSound, Holds, Eligibly, Stored, HasRead, Evaluated, HasRecorded
<1> QED BY <1>1, <1>2, <1>4, <1>5, <1>6, ReadingKeeps DEF IsReading

LEMMA LongerRuns ==
    ASSUME Shape, NEW run
    PROVE  /\ \E S : Append(runs, run) \in Seq(S)
           /\ Len(Append(runs, run)) = Len(runs) + 1
           /\ Append(runs, run)[Len(runs) + 1] = run
           /\ \A k \in 1 .. Len(runs) : Append(runs, run)[k] = runs[k]
<1>1. PICK S : runs \in Seq(S)
  BY DEF Shape
<1>2. runs \in Seq(S \cup {run}) /\ run \in S \cup {run}
  BY <1>1, SeqDef
<1> QED BY <1>2, AppendProperties

\* What the run is recorded as is what its analysis has read.
LEMMA RecordRunKeeps ==
    ASSUME DayInv, NEW s \in Session, RecordRun(s)
    PROVE  DayInv'
<1> DEFINE w == session[s]
           last == Len(runs) + 1
           mid == [w EXCEPT !.run = last]
           to == [mid EXCEPT !.pc = "done"]
<1>1. /\ w.pc = "ranked" /\ runs' = Append(runs, InputOf(w))
      /\ UNCHANGED <<clock, imports, writing, snapshots, queued>>
      /\ MovesTo(s, to)
  BY DEF RecordRun, RunInput, InputOf, End, MovesTo, DayInv, Shape
<1>2. /\ \E S : runs' \in Seq(S)
      /\ Len(runs') = last /\ runs'[last] = InputOf(w)
      /\ \A k \in 1 .. Len(runs) : runs'[k] = runs[k]
      /\ Len(runs) \in Nat /\ DOMAIN runs = 1 .. Len(runs) /\ DOMAIN runs' = 1 .. last
  <2>1. \E S : runs' \in Seq(S)
    BY <1>1, LongerRuns DEF DayInv
  <2>2. DOMAIN runs' = 1 .. Len(runs')
    BY <2>1
  <2> QED BY <1>1, <2>1, <2>2, LongerRuns, ShapeOfTables DEF DayInv
<1>3. PICK V : w \in Reading(V)
  BY DEF DayInv, Shape, IsReading
<1>4. w.now <= clock /\ Len(imports) \in Nat
  BY ShapeOfTables DEF DayInv, Shape
<1>5. SessionIsSound(w, s, lock, clock, imports, snapshots, runs)
  BY DEF DayInv, SessionsAreSound
<1> HIDE DEF w
<1>6. /\ to \in Reading(V) /\ to.pc = "done" /\ to.automatic = w.automatic
      /\ to.now = w.now /\ to.run = last /\ to.at = w.at /\ to.revenue = w.revenue
      /\ to.ota = w.ota /\ to.provenance = w.provenance
  <2>1. last \in Nat
    BY <1>2
  <2> HIDE DEF last
  <2>2. /\ mid \in Reading(V) /\ mid.automatic = w.automatic
        /\ mid.now = w.now /\ mid.run = last /\ mid.at = w.at /\ mid.revenue = w.revenue
        /\ mid.ota = w.ota /\ mid.provenance = w.provenance
    BY <1>3, <2>1 DEF Reading
  <2> HIDE DEF mid
  <2> QED BY <2>2 DEF Reading, Label
<1> HIDE DEF to, last
<1>7. HasRead(w, imports, snapshots) /\ Evaluated(w)
  BY <1>1, <1>5 DEF SessionIsSound, Evaluated
<1>8. HasRead(to, imports, snapshots)
  BY <1>1, <1>6, <1>7 DEF HasRead, Todays
<1>9. InputOf(to) = InputOf(w)
  BY <1>6 DEF InputOf
<1>10. SessionIsSound(to, s, lock', clock, imports, snapshots, runs')
  <2>1. HasRecorded(to, runs')
    BY <1>2, <1>6, <1>9 DEF HasRecorded, last
  <2> QED BY <1>6, <1>8, <2>1 DEF SessionIsSound, Holds, Eligibly, Stored
<1>11. Shape' /\ SessionsAreSound'
  <2>1. Len(runs) <= Len(runs')
    BY <1>2 DEF last
  <2> QED BY <1>1, <1>2, <1>4, <1>6, <1>10, <2>1, MovingKeeps DEF IsReading
<1>12. RunsAreSound'
  <2>1. RunIsSound(InputOf(w), imports, snapshots)
    <3>1. PICK n \in 0 .. Len(imports) : IsOf(imports, n, w.revenue) /\ n <= w.provenance
      BY <1>1, <1>7 DEF HasRead
    <3>2. w.provenance \in 0 .. Len(imports)
      BY <1>1, <1>3, <1>4, <1>7 DEF HasRead, Reading
    <3>3. n \in 0 .. w.provenance
      BY <1>4, <3>1, <3>2
    <3> QED BY <1>7, <3>1, <3>2, <3>3 DEF RunIsSound, InputOf, HasRead
  <2>2. \A k \in DOMAIN runs' : k \in DOMAIN runs \/ k = last
    BY <1>2 DEF last
  <2>3. \A k \in DOMAIN runs : RunIsSound(runs'[k], imports, snapshots)
    BY <1>2 DEF DayInv, RunsAreSound
  <2> QED BY <1>1, <1>2, <2>1, <2>2, <2>3 DEF RunsAreSound
<1>13. InTime' /\ OneRow' /\ RowsAreSound'
  <2>1. lock = Importer <=> lock' = Importer
    BY <1>1, SessionAssumption DEF MovesTo, Nobody, Importer
  <2> QED BY <1>1, <2>1 DEF DayInv, InTime, OneRow, RowsAreSound
<1> QED BY <1>11, <1>12, <1>13 DEF DayInv

-----------------------------------------------------------------------------
(* The snapshots.                                                          *)

\* The rows an analysis adds: what it calculated, where there was no row.
Added(s) == {row \in Calculated(s) : \A stored \in snapshots : ~SameKey(row, stored)}

LEMMA CalculatedRows ==
    ASSUME NEW s, NEW row \in Calculated(s)
    PROVE  /\ row.day = LocalDay(session[s].at) /\ row.at = session[s].at
           /\ row.night \in session[s].window
           /\ row.content = Content(BooksOf(imports, Len(imports))[row.night])
           /\ row = [day |-> row.day, night |-> row.night, at |-> row.at,
                     content |-> row.content]
BY DEF Calculated, BooksNow, BooksAfter, BooksOf

LEMMA StoreSnapshotsKeeps ==
    ASSUME DayInv, NEW s \in Session, StoreSnapshots(s)
    PROVE  DayInv'
<1> DEFINE w == session[s]
           to == [w EXCEPT !.pc = "stored"]
<1>1. /\ w.pc = "locked" /\ ~Conflicts(s) /\ lock' = Nobody
      /\ session' = [session EXCEPT ![s] = to]
      /\ snapshots' = snapshots \cup Added(s)
      /\ UNCHANGED <<clock, imports, writing, runs, queued>>
  BY DEF StoreSnapshots, Advance, Added
<1>2. SessionIsSound(w, s, lock, clock, imports, snapshots, runs)
  BY DEF DayInv, SessionsAreSound
<1>3. lock = s /\ lock # Importer /\ writing = NoImport
  BY <1>1, <1>2, SessionAssumption DEF SessionIsSound, Holds, DayInv, InTime
<1>4. MovesTo(s, to)
  BY <1>1, <1>3 DEF MovesTo, DayInv, Shape
<1>5. PICK V : w \in Reading(V)
  BY DEF DayInv, Shape, IsReading
<1>6. w.now <= clock /\ clock \in Nat /\ w.at \in 0 .. clock /\ w.window \subseteq Night
  BY <1>1, <1>2, <1>5 DEF DayInv, Shape, SessionIsSound, Holds, Reading
<1>7. \A row \in Added(s) :
        /\ row.day = LocalDay(w.at) /\ row.at = w.at /\ row.night \in w.window
        /\ row.content = Content(BooksOf(imports, Len(imports))[row.night])
        /\ \A stored \in snapshots : ~SameKey(row, stored)
  BY CalculatedRows DEF Added
<1>8. \A night \in w.window :
        HasRow(snapshots', LocalDay(w.at), night, Content(BooksOf(imports, Len(imports))[night]))
  <2> SUFFICES ASSUME NEW night \in w.window
               PROVE  HasRow(snapshots', LocalDay(w.at), night,
                             Content(BooksOf(imports, Len(imports))[night]))
    OBVIOUS
  <2> DEFINE row == [day |-> LocalDay(w.at), night |-> night, at |-> w.at,
                     content |-> Content(BooksOf(imports, Len(imports))[night])]
  <2>1. row \in Calculated(s)
    BY DEF Calculated, BooksNow, BooksAfter, BooksOf
  <2>2. /\ row.day = LocalDay(w.at) /\ row.night = night
        /\ row.content = Content(BooksOf(imports, Len(imports))[night])
    OBVIOUS
  <2> HIDE DEF row
  <2>3. CASE row \in Added(s)
    BY <1>1, <2>2, <2>3 DEF HasRow
  <2>4. CASE row \notin Added(s)
    <3>1. PICK stored \in snapshots : SameKey(row, stored)
      BY <2>1, <2>4 DEF Added
    <3>2. stored.content = row.content
      BY <1>1, <2>1, <3>1 DEF Conflicts
    <3> QED BY <1>1, <2>2, <3>1, <3>2 DEF HasRow, SameKey
  <2> QED BY <2>3, <2>4
<1> HIDE DEF w
<1>9. /\ to \in Reading(V) /\ to.pc = "stored" /\ to.automatic = w.automatic
      /\ to.now = w.now /\ to.run = w.run /\ to.at = w.at /\ to.window = w.window
  BY <1>5 DEF Reading, Label
<1> HIDE DEF to
<1>10. SessionIsSound(to, s, lock', clock, imports, snapshots', runs)
  <2>1. Todays(to, imports, Len(imports))
    BY <1>1, <1>2, <1>9 DEF SessionIsSound, Eligibly, Todays
  <2>2. Stored(to, imports, snapshots')
    BY <1>8, <1>9, <2>1, ShapeOfTables DEF Stored, DayInv
  <2> QED BY <1>2, <1>9, <2>2 DEF SessionIsSound, Holds, Eligibly, HasRead, Evaluated, HasRecorded
<1>11. Shape' /\ SessionsAreSound'
  <2>1. \E S : runs \in Seq(S)
    BY DEF DayInv, Shape
  <2>2. Len(runs) <= Len(runs)
    BY <2>1
  <2> QED BY <1>1, <1>4, <1>6, <1>9, <1>10, <2>1, <2>2, MovingKeeps DEF IsReading
<1>12. InTime'
  <2>1. \A row \in snapshots' : row.at \in 0 .. clock /\ row.night \in Night
    BY <1>1, <1>6, <1>7 DEF DayInv, InTime
  <2> QED BY <1>1, <1>3, <2>1 DEF DayInv, InTime, Nobody, Importer
<1>13. OneRow'
  <2> SUFFICES ASSUME NEW row \in snapshots', NEW other \in snapshots', SameKey(row, other)
               PROVE  row = other
    BY DEF OneRow
  <2>1. SameKey(other, row)
    BY DEF SameKey
  <2>2. CASE row \in snapshots /\ other \in snapshots
    BY <2>2 DEF DayInv, OneRow
  <2>3. CASE row \in Added(s) /\ other \in Added(s)
    BY <1>7, <2>3, CalculatedRows DEF Added, SameKey
  <2> QED BY <1>1, <1>7, <2>1, <2>2, <2>3
<1>14. RowsAreSound'
  <2> SUFFICES ASSUME NEW row \in snapshots'
               PROVE  RowIsOfItsInstant(row, imports)
    BY <1>1 DEF RowsAreSound
  <2>1. CASE row \in snapshots
    BY <2>1 DEF DayInv, RowsAreSound
  <2>2. CASE row \in Added(s)
    <3>1. /\ Len(imports) \in 0 .. Len(imports)
          /\ \A k \in DOMAIN imports : k <= Len(imports)
      BY ShapeOfTables DEF DayInv
    <3>2. \A k \in DOMAIN imports : imports[k].finishedAt <= row.at
      BY <1>1, <1>2, <1>7, <2>2 DEF SessionIsSound, Holds
    <3> QED BY <1>7, <2>2, <3>1, <3>2 DEF RowIsOfItsInstant
  <2> QED BY <1>1, <2>1, <2>2
<1>15. RunsAreSound'
  <2>1. Grown(imports, imports)
    BY DEF DayInv, Shape, Grown
  <2> QED BY <1>1, <2>1, SoundRunStays DEF DayInv, RunsAreSound
<1> QED BY <1>11, <1>12, <1>13, <1>14, <1>15 DEF DayInv

-----------------------------------------------------------------------------
(* The figures.                                                            *)

\* As many rows as the window has nights are a row for each night.
LEMMA WholeWindows ==
    ASSUME OneRow, NEW day \in Nat,
           Cardinality(Observed(day, Window(day))) = WindowDays
    PROVE  \A night \in Window(day) :
             \E row \in Observed(day, Window(day)) : row.night = night
<1> DEFINE rows == Observed(day, Window(day))
           f == [row \in rows |-> row.night]
<1>1. f \in Injection(rows, Window(day))
  <2>1. f \in [rows -> Window(day)]
    BY DEF Observed
  <2>2. \A row, other \in rows : f[row] = f[other] => row = other
    BY DEF OneRow, SameKey, Observed
  <2> HIDE DEF f
  <2> QED BY <2>1, <2>2 DEF Injection, IsInjective
<1>2. IsFiniteSet(Window(day)) /\ Cardinality(Window(day)) = WindowDays
  <2>1. day \in Int /\ day + WindowDays - 1 \in Int /\ ~(day > day + WindowDays - 1)
        /\ (day + WindowDays - 1) - day + 1 = WindowDays
    BY ClockAssumption
  <2> QED BY <2>1, FS_Interval DEF Window
<1> HIDE DEF f
<1>3. f \in Surjection(rows, Window(day))
  BY <1>1, <1>2, FS_Injection
<1>4. \A night \in Window(day) : \E row \in rows : f[row] = night
  BY <1>3 DEF Surjection
<1> QED BY <1>4 DEF f

LEMMA MixIsReconciled ==
    ASSUME OneRow, NEW day \in Nat
    PROVE  MixBehind(snapshots, day, OtaMix(day))
<1> DEFINE rows == Observed(day, Window(day))
           mix == [n \in Window(day) |->
                     [channel |-> BooksNow[n].channel, rooms |-> BooksNow[n].rooms]]
<1>1. CASE ~(Cardinality(rows) = WindowDays /\ Reconciled(rows))
  BY <1>1 DEF OtaMix, MixBehind
<1>2. CASE Cardinality(rows) = WindowDays /\ Reconciled(rows)
  <2>1. OtaMix(day) = mix
    BY <1>2 DEF OtaMix
  <2> SUFFICES ASSUME NEW night \in Window(day)
               PROVE  \E row \in snapshots : /\ row.day = day /\ row.night = night
                                             /\ mix[night].rooms = row.content.rooms
    BY <2>1 DEF MixBehind
  <2>2. PICK row \in rows : row.night = night
    BY <1>2, WholeWindows
  <2>3. BooksNow[night].rooms = row.content.rooms
    BY <1>2, <2>2 DEF Reconciled
  <2>4. mix[night].rooms = BooksNow[night].rooms
    OBVIOUS
  <2>5. row \in snapshots /\ row.day = day
    BY DEF Observed
  <2> HIDE DEF mix, rows
  <2> QED BY <2>2, <2>3, <2>4, <2>5
<1> QED BY <1>1, <1>2

\* The row of a day and a night is the one there is.
LEMMA TheRow ==
    ASSUME OneRow, NEW day, NEW night, NEW content, HasRow(snapshots, day, night, content)
    PROVE  ObservedContent(day, night) = content
<1> DEFINE found == CHOOSE row \in snapshots : row.day = day /\ row.night = night
<1>1. PICK row \in snapshots : row.day = day /\ row.night = night /\ row.content = content
  BY DEF HasRow
<1>2. found \in snapshots /\ found.day = day /\ found.night = night
  BY <1>1
<1>3. found = row
  BY <1>1, <1>2 DEF OneRow, SameKey
<1> QED BY <1>1, <1>3 DEF ObservedContent

LEMMA EvaluateKeeps ==
    ASSUME DayInv, NEW s \in Session, Evaluate(s)
    PROVE  DayInv'
<1> DEFINE w == session[s]
           day == LocalDay(w.at)
           revenue == [n \in w.window |-> ObservedContent(day, n)]
           mix == OtaMix(day)
           to == [w EXCEPT !.pc = "evaluated", !.ota = mix, !.revenue = revenue]
<1>1. w.pc = "stored" /\ MovesTo(s, to) /\ UNCHANGED <<snapshots, runs>>
  BY DEF Evaluate, Advance, MovesTo, DayInv, Shape
<1>2. PICK V : w \in Reading(V)
  BY DEF DayInv, Shape, IsReading
<1>3. w.now <= clock /\ w.at \in Nat /\ day \in Nat
  BY <1>2, DaysOfInstants DEF DayInv, Shape, Reading
<1>4. SessionIsSound(w, s, lock, clock, imports, snapshots, runs)
  BY DEF DayInv, SessionsAreSound
<1>5. PICK n \in 0 .. Len(imports) :
        /\ Todays(w, imports, n)
        /\ \A night \in w.window :
             HasRow(snapshots, day, night, Content(BooksOf(imports, n)[night]))
  BY <1>1, <1>4 DEF SessionIsSound, Stored
<1> HIDE DEF w, day
<1>6. /\ DOMAIN revenue = w.window
      /\ \A night \in w.window : revenue[night] = Content(BooksOf(imports, n)[night])
  BY <1>5, TheRow DEF DayInv
<1>7. MixBehind(snapshots, day, mix)
  BY <1>3, MixIsReconciled DEF DayInv
<1> HIDE DEF revenue, mix
<1>8. /\ to \in Reading(V \cup {revenue, mix}) /\ to.pc = "evaluated"
      /\ to.automatic = w.automatic /\ to.now = w.now /\ to.run = w.run /\ to.at = w.at
      /\ to.revenue = revenue /\ to.ota = mix
  BY <1>2 DEF Reading, Label
<1> HIDE DEF to
<1>9. IsOf(imports, n, revenue) /\ Behind(snapshots, day, revenue)
  BY <1>5, <1>6 DEF IsOf, Behind
<1>10. HasRead(to, imports, snapshots)
  BY <1>5, <1>7, <1>8, <1>9 DEF HasRead, Todays, day
<1>11. SessionIsSound(to, s, lock', clock, imports, snapshots, runs)
  BY <1>4, <1>8, <1>10 DEF SessionIsSound, Holds, Eligibly, Stored, HasRecorded
<1> QED BY <1>1, <1>3, <1>8, <1>11, ReadingKeeps DEF IsReading

-----------------------------------------------------------------------------
(* The theorems.                                                           *)

LEMMA StepsKeep == DayInv /\ [Next]_vars => DayInv'
<1> SUFFICES ASSUME DayInv, [Next]_vars
             PROVE  DayInv'
  OBVIOUS
<1>1. CASE Tick
  BY <1>1, TickKeeps
<1>2. CASE Dispatch
  BY <1>2, DispatchKeeps
<1>3. CASE Import
  BY <1>3, ImportLocksKeeps, ImportSucceedsKeeps, ImportCommitsKeeps,
     ImportRollsBackKeeps DEF Import
<1>4. ASSUME NEW s \in Session, Policy(s)
      PROVE  DayInv'
  BY <1>4, PolicyReadsRunsKeeps, PolicySkipsKeeps, PolicyReadsImportsKeeps,
     PolicyFindsNoImportKeeps DEF Policy
<1>5. ASSUME NEW s \in Session, Analysis(s)
      PROVE  DayInv'
  BY <1>5, StartManualKeeps, LockSourceKeeps, StoreSnapshotsKeeps,
     SnapshotConflictKeeps, EvaluateKeeps, ReadProvenanceKeeps, RecordRunKeeps,
     ReplayRunKeeps, FailKeeps DEF Analysis
<1>6. CASE UNCHANGED vars
  <2> USE <1>6 DEF vars, DayInv
  <2>1. Shape' /\ InTime'
    BY DEF Shape, InTime
  <2>2. clock \in Nat
    BY DEF Shape
  <2>3. RowsAreSound'
    BY DEF RowsAreSound
  <2> QED BY <2>1, <2>2, <2>3, SameImports, OutsideKeeps
<1> QED BY <1>1, <1>2, <1>3, <1>4, <1>5, <1>6 DEF Next

LEMMA BooksAreBooks ==
    ASSUME NEW n
    PROVE  /\ BooksOf(imports, n) = BooksAfter(n)
           /\ \A revenue : IsOf(imports, n, revenue) <=> IsStateAfter(revenue, n)
BY DEF BooksOf, BooksAfter, IsOf, IsStateAfter

LEMMA InvariantIsTyped == DayInv => TypeOK
<1> SUFFICES ASSUME DayInv
             PROVE  TypeOK
  OBVIOUS
<1>1. \A s \in Session : session[s].pc \in Label /\ session[s].run \in Nat
  BY DEF DayInv, Shape, IsReading, Reading
<1>2. \A s \in Session : session[s].run <= Len(runs)
  BY DEF DayInv, SessionsAreSound, SessionIsSound, HasRecorded
<1>3. \A s \in Session : session[s].run \in 0 .. Len(runs)
  BY <1>1, <1>2, ShapeOfTables DEF DayInv
<1>4. /\ clock \in 0 .. MaxClock /\ Len(imports) <= MaxImports /\ queued \in BOOLEAN
      /\ lock \in Session \cup {Nobody, Importer}
  BY ClockAssumption DEF DayInv, Shape
<1>5. \A k \in DOMAIN imports :
        imports[k].finishedAt \in 0 .. clock /\ imports[k].books \in Books
  BY <1>4, ShapeOfTables DEF DayInv, InTime
<1> QED BY <1>1, <1>3, <1>4, <1>5 DEF TypeOK, DayInv, InTime, Label

LEMMA InvariantOfRows == DayInv => SnapshotIsOfItsInstant
BY BooksAreBooks DEF DayInv, RowsAreSound, RowIsOfItsInstant, SnapshotIsOfItsInstant

LEMMA InvariantOfRuns ==
    ASSUME DayInv
    PROVE  /\ RunReadsOneState /\ ProvenanceCoversTheRun
           /\ RunsOfADayAgree /\ MixMatchesTheSnapshots
<1>1. Len(imports) \in Nat
  BY ShapeOfTables DEF DayInv
<1>2. ProvenanceCoversTheRun
  BY BooksAreBooks DEF DayInv, RunsAreSound, RunIsSound, ProvenanceCoversTheRun
<1>3. RunReadsOneState
  <2> SUFFICES ASSUME NEW k \in DOMAIN runs
               PROVE  \E n \in 0 .. Len(imports) : IsStateAfter(runs[k].revenue, n)
    BY DEF RunReadsOneState
  <2>1. PICK n \in 0 .. runs[k].provenance : IsStateAfter(runs[k].revenue, n)
    BY <1>2 DEF ProvenanceCoversTheRun
  <2>2. runs[k].provenance \in 0 .. Len(imports)
    BY DEF DayInv, RunsAreSound, RunIsSound
  <2> QED BY <1>1, <2>1, <2>2
<1>4. RunsOfADayAgree
  <2> SUFFICES ASSUME NEW j \in DOMAIN runs, NEW k \in DOMAIN runs,
                      runs[j].asOf = runs[k].asOf,
                      NEW night \in DOMAIN runs[j].revenue \cap DOMAIN runs[k].revenue
               PROVE  runs[j].revenue[night] = runs[k].revenue[night]
    BY DEF RunsOfADayAgree
  <2>1. /\ HasRow(snapshots, runs[j].asOf, night, runs[j].revenue[night])
        /\ HasRow(snapshots, runs[k].asOf, night, runs[k].revenue[night])
    BY DEF DayInv, RunsAreSound, RunIsSound, Behind
  <2> QED BY <2>1 DEF DayInv, HasRow, OneRow, SameKey
<1>5. MixMatchesTheSnapshots
  <2> SUFFICES ASSUME NEW k \in DOMAIN runs, runs[k].ota # NoOta,
                      NEW row \in Observed(runs[k].asOf, Window(runs[k].asOf))
               PROVE  runs[k].ota[row.night].rooms = row.content.rooms
    BY DEF MixMatchesTheSnapshots
  <2>1. row \in snapshots /\ row.day = runs[k].asOf /\ row.night \in Window(runs[k].asOf)
    BY DEF Observed
  <2>2. PICK other \in snapshots :
          /\ other.day = runs[k].asOf /\ other.night = row.night
          /\ runs[k].ota[row.night].rooms = other.content.rooms
    BY <2>1 DEF DayInv, RunsAreSound, RunIsSound, MixBehind
  <2>3. other = row
    BY <2>1, <2>2 DEF DayInv, OneRow, SameKey
  <2> QED BY <2>2, <2>3
<1> QED BY <1>2, <1>3, <1>4, <1>5

LEMMA InvariantOfAutomaticRuns == DayInv => AutomaticRunReadsTodaysImport
<1> SUFFICES ASSUME DayInv, NEW s \in Session, AutomaticRun(s),
                    RunOf(s).asOf = LocalDay(session[s].now)
             PROVE  \E k \in DOMAIN imports :
                      /\ LocalDay(imports[k].finishedAt) = RunOf(s).asOf
                      /\ \E n \in k .. Len(imports) : IsStateAfter(RunOf(s).revenue, n)
  BY DEF AutomaticRunReadsTodaysImport
<1> DEFINE w == session[s]
<1>1. w.pc = "done" /\ w.run # NoRun /\ w.automatic /\ ~w.replayed
  BY DEF AutomaticRun, Done
<1>2. SessionIsSound(w, s, lock, clock, imports, snapshots, runs)
  BY DEF DayInv, SessionsAreSound
<1>3. runs[w.run] = InputOf(w) /\ RunOf(s).revenue = w.revenue
  BY <1>1, <1>2 DEF SessionIsSound, HasRecorded, RunOf, InputOf
<1>4. PICK n \in 0 .. Len(imports) : Todays(w, imports, n) /\ IsOf(imports, n, w.revenue)
  BY <1>1, <1>2 DEF SessionIsSound, HasRead, Evaluated
<1>5. PICK k \in 1 .. n : /\ LocalDayStart(LocalDay(w.now)) <= imports[k].finishedAt
                          /\ imports[k].finishedAt <= w.now
  BY <1>1, <1>4 DEF Todays
<1>6. Len(imports) \in Nat /\ k \in DOMAIN imports /\ n \in k .. Len(imports)
  BY <1>4, <1>5, ShapeOfTables DEF DayInv
<1>7. w.now \in Nat /\ imports[k].finishedAt \in Nat
  BY <1>6, ShapeOfTables DEF DayInv, Shape, IsReading, Reading
<1>8. LocalDay(imports[k].finishedAt) = LocalDay(w.now)
  BY <1>5, <1>7, SameDay
<1>9. IsStateAfter(RunOf(s).revenue, n)
  BY <1>3, <1>4, BooksAreBooks
<1> QED BY <1>6, <1>8, <1>9

\* What a day of analysis keeps: the tables, and what every analysis has read of them.
THEOREM DayIsSound == Spec => []DayInv
<1>1. Init => DayInv
  BY InitIsSound
<1>2. DayInv /\ [Next]_vars => DayInv'
  BY StepsKeep
<1> QED BY <1>1, <1>2, PTL DEF Spec

\* The tables, the lock and the sessions keep their shape.
THEOREM DaysAreTyped == Spec => []TypeOK
BY DayIsSound, InvariantIsTyped, PTL

\* No import is read in part, or missed, by the snapshots of an instant: _begin takes
\* the lock of the source before it reads the clock.
THEOREM SnapshotsAreOfTheirInstant == Spec => []SnapshotIsOfItsInstant
BY DayIsSound, InvariantOfRows, PTL

\* However many analyses of a day stored its rows, and whatever was imported between
\* them, a run is of one state of the bookings.
THEOREM RunsReadOneState == Spec => []RunReadsOneState
BY DayIsSound, InvariantOfRuns, PTL

\* Two runs of a day have the same figures for a night of both.
THEOREM DaysAreObservedOnce == Spec => []RunsOfADayAgree
BY DayIsSound, InvariantOfRuns, PTL

\* The provenance a run states, read last, is not older than what the run read.
THEOREM ProvenanceIsNeverOlder == Spec => []ProvenanceCoversTheRun
BY DayIsSound, InvariantOfRuns, PTL

\* A channel mix, read from the live bookings, has the rooms of the day's rows: as many
\* rows as nights leave none out (WholeWindows).
THEOREM MixesMatchTheirSnapshots == Spec => []MixMatchesTheSnapshots
BY DayIsSound, InvariantOfRuns, PTL

\* An automatic run that did not cross midnight is of an import of its day.
THEOREM AutomaticRunsAreOfToday == Spec => []AutomaticRunReadsTodaysImport
BY DayIsSound, InvariantOfAutomaticRuns, PTL

-----------------------------------------------------------------------------
(* The ranking of a run.                                                   *)

\* What reaches the thresholds of the detector that triggered it.
Reaches(e) ==
    CASE e.type = "REV_PICKUP_LOW" -> e.size <= -20 /\ e.extent >= 2
      [] e.type = "REV_OCCUPANCY_RISK" -> e.size >= 10 \/ e.extent >= 3
      [] e.type = "REV_OTA_DEPENDENCY" ->
            /\ {"structural", "rising"} \cap e.holds # {}
            /\ "structural" \in e.holds => e.size >= 70
            /\ "rising" \in e.holds => e.size >= 55 /\ e.extent >= 15
      [] e.type = "COST_CPOR_ANOMALY" -> e.size >= 20 /\ e.extent >= e.fence
      [] e.type = "LABOR_OVERSTAFFING" -> e.size >= 20 /\ e.extent >= 4

Measured(e) ==
    /\ e.type \in Types
    /\ e.size \in Int /\ e.extent \in Int
    /\ e.type = "COST_CPOR_ANOMALY" => e.fence \in Nat \ {0}

Candidates == [type : Types, key : Int, fingerprint : Int, impact : Int,
               urgency : Int, confidence : Int, actionability : Int, score : Int]

LEMMA ExactQuotient ==
    ASSUME NEW t \in Nat, t > 0, NEW h \in Nat
    PROVE  (t * h) \div t = h
BY SMT

\* A value at its threshold or past it has at least half of the scale.
LEMMA PastTheThreshold ==
    ASSUME NEW v \in Int, NEW t \in Nat \ {0}, NEW s \in Nat, t < s, v >= t
    PROVE  Progress(v, t, s) >= Half
<1>1. CASE v >= s
  BY <1>1, SMT DEF Progress, Half, Full, Point
<1>2. CASE v < s /\ v = t
  <2>1. Half \in Nat /\ t > 0 /\ v = t
    BY <1>2, SMT DEF Half, Point
  <2>2. (t * Half) \div t = Half
    BY <2>1, ExactQuotient
  <2>3. ~(v <= 0) /\ ~(v >= s) /\ v <= t
    BY <1>2, <2>1, SMT
  <2>4. Progress(v, t, s) = (v * Half) \div t
    BY <2>3, Zenon DEF Progress
  <2>5. (v * Half) \div t = Half
    BY <2>1, <2>2
  <2> QED BY <2>1, <2>4, <2>5, SMT
<1>3. CASE v < s /\ v > t
  <2>1. ((v - t) * Half) \div (s - t) >= 0
    BY <1>3, SMT DEF Half, Point
  <2>2. ((v - t) * Half) \div (s - t) \in Int
    BY <1>3, SMT DEF Half, Point
  <2> QED BY <1>3, <2>1, <2>2, SMT DEF Progress, Half, Point
<1> QED BY <1>1, <1>2, <1>3, SMT

\* TriggeredIsSevere: an evaluation that reaches its detector's thresholds has
\* an impact of at least 50 of 100 ("threshold = 50: the point a detector's own
\* rule starts firing is the SCALE's own midpoint", priority/impact.py), for
\* each of the five detectors and however its components are combined.
THEOREM TriggeredIsSevere ==
    ASSUME NEW e, Measured(e), Reaches(e)
    PROVE  Impact(e) >= Half
<1> USE DEF Measured
<1>1. CASE e.type = "REV_PICKUP_LOW"
  <2>1. GreatestOf(0 - e.size, 0) \in Int /\ GreatestOf(0 - e.size, 0) >= 20
    BY <1>1, SMT DEF Reaches, GreatestOf
  <2>2. Progress(GreatestOf(0 - e.size, 0), 20, 40) >= Half
    BY <2>1, PastTheThreshold, SMT
  <2>3. Progress(e.extent, 2, 4) >= Half
    BY <1>1, PastTheThreshold, SMT DEF Reaches
  <2> QED BY <1>1, <2>2, <2>3, SMT DEF Impact, PickupImpact, LeastOf
<1>2. CASE e.type = "REV_OCCUPANCY_RISK"
  <2> DEFINE gap == Progress(e.size, 10, 20)
             rooms == Progress(e.extent, 3, 6)
  <2>1. gap >= Half \/ rooms >= Half
    BY <1>2, PastTheThreshold, SMT DEF Reaches
  <2>2. gap \in Int /\ rooms \in Int
    BY SMT DEF Progress, Half, Full, Point
  <2>3. Half \in Int
    BY SMT DEF Half, Point
  <2>4. Impact(e) = GreatestOf(gap, rooms)
    BY <1>2 DEF Impact, OccupancyImpact
  <2> HIDE DEF gap, rooms
  <2> QED BY <2>1, <2>2, <2>3, <2>4, SMT DEF GreatestOf
<1>3. CASE e.type = "REV_OTA_DEPENDENCY"
  <2> DEFINE structural == Progress(e.size, 70, 100)
             rising == RisingImpact(e.size, e.extent)
  <2>0. /\ {"structural", "rising"} \cap e.holds # {}
        /\ "structural" \in e.holds => e.size >= 70
        /\ "rising" \in e.holds => e.size >= 55 /\ e.extent >= 15
    BY <1>3 DEF Reaches
  <2>1. "structural" \in e.holds => structural >= Half
    BY <2>0, PastTheThreshold, SMT
  <2>2. "rising" \in e.holds => rising >= Half
    <3> SUFFICES ASSUME "rising" \in e.holds PROVE rising >= Half
      OBVIOUS
    <3>1. Progress(e.size, 55, 100) >= Half
      BY <2>0, PastTheThreshold, SMT
    <3>2. GreatestOf(e.extent, 0) \in Int /\ GreatestOf(e.extent, 0) >= 15
      BY <2>0, SMT DEF GreatestOf
    <3>3. Progress(GreatestOf(e.extent, 0), 15, 30) >= Half
      BY <3>2, PastTheThreshold, SMT
    <3> QED BY <3>1, <3>3 DEF RisingImpact, LeastOf
  <2>3. Impact(e) = OtaImpact(e.size, e.extent, e.holds)
    BY <1>3 DEF Impact
  <2>4. structural \in Int
    BY SMT DEF Progress, Half, Full, Point
  <2>5. Impact(e) = IF {"structural", "rising"} \subseteq e.holds
                    THEN GreatestOf(structural, rising)
                    ELSE IF "structural" \in e.holds THEN structural ELSE rising
    BY <2>3 DEF OtaImpact
  <2> HIDE DEF structural, rising
  <2> QED BY <2>0, <2>1, <2>2, <2>5 DEF GreatestOf
<1>4. CASE e.type = "COST_CPOR_ANOMALY"
  <2>1. GreatestOf(e.size, 0) \in Int /\ GreatestOf(e.size, 0) >= 20
    BY <1>4, SMT DEF Reaches, GreatestOf
  <2>2. Progress(GreatestOf(e.size, 0), 20, 40) >= Half
    BY <2>1, PastTheThreshold, SMT
  <2>3. Progress(2 * e.extent, 2 * e.fence, 3 * e.fence) >= Half
    <3>1. /\ 2 * e.extent \in Int
          /\ 2 * e.fence \in Nat \ {0}
          /\ 3 * e.fence \in Nat
          /\ 2 * e.fence < 3 * e.fence
          /\ 2 * e.extent >= 2 * e.fence
      BY <1>4, SMT DEF Reaches
    <3> QED BY <3>1, PastTheThreshold
  <2> QED BY <1>4, <2>2, <2>3 DEF Impact, CostImpact, LeastOf
<1>5. CASE e.type = "LABOR_OVERSTAFFING"
  <2>1. GreatestOf(e.size, 0) \in Int /\ GreatestOf(e.size, 0) >= 20
    BY <1>5, SMT DEF Reaches, GreatestOf
  <2>2. Progress(GreatestOf(e.size, 0), 20, 40) >= Half
    BY <2>1, PastTheThreshold, SMT
  <2>3. Progress(e.extent, 4, 8) >= Half
    BY <1>5, PastTheThreshold, SMT DEF Reaches
  <2> QED BY <1>5, <2>2, <2>3 DEF Impact, LaborImpact, LeastOf
<1> QED BY <1>1, <1>2, <1>3, <1>4, <1>5 DEF Types

-------------------------------------------------------------------------------
IntKey(k) == \A i \in 1 .. 8 : k[i] \in Int

LEMMA LexIrreflexive ==
    ASSUME NEW k, IntKey(k)
    PROVE  ~LexLess(k, k)
BY SMT DEF LexLess, IntKey

LEMMA LexTransitive ==
    ASSUME NEW k, NEW l, NEW m, IntKey(k), IntKey(l), IntKey(m),
           LexLess(k, l), LexLess(l, m)
    PROVE  LexLess(k, m)
<1>1. PICK i \in 1 .. 8 : k[i] < l[i] /\ \A j \in 1 .. i - 1 : k[j] = l[j]
  BY DEF LexLess
<1>2. PICK h \in 1 .. 8 : l[h] < m[h] /\ \A j \in 1 .. h - 1 : l[j] = m[j]
  BY DEF LexLess
<1>3. CASE i <= h
  <2>1. k[i] < m[i]
    BY <1>1, <1>2, <1>3, SMT DEF IntKey
  <2>2. \A j \in 1 .. i - 1 : k[j] = m[j]
    BY <1>1, <1>2, <1>3, SMT
  <2> QED BY <2>1, <2>2 DEF LexLess
<1>4. CASE h < i
  <2>1. k[h] < m[h]
    BY <1>1, <1>2, <1>4, SMT DEF IntKey
  <2>2. \A j \in 1 .. h - 1 : k[j] = m[j]
    BY <1>1, <1>2, <1>4, SMT
  <2> QED BY <2>1, <2>2 DEF LexLess
<1> QED BY <1>3, <1>4, SMT

\* Two keys that differ somewhere differ first somewhere.
LEMMA LexTotal ==
    ASSUME NEW k, NEW l, IntKey(k), IntKey(l), k[8] # l[8]
    PROVE  LexLess(k, l) \/ LexLess(l, k)
<1> DEFINE FirstAt(i) == k[i] # l[i] /\ \A j \in 1 .. i - 1 : k[j] = l[j]
<1>1. \E i \in 1 .. 8 : FirstAt(i)
  <2>1. CASE k[1] # l[1]
    BY <2>1, SMT
  <2>2. CASE k[1] = l[1] /\ k[2] # l[2]
    BY <2>2, SMT
  <2>3. CASE k[1] = l[1] /\ k[2] = l[2] /\ k[3] # l[3]
    BY <2>3, SMT
  <2>4. CASE k[1] = l[1] /\ k[2] = l[2] /\ k[3] = l[3] /\ k[4] # l[4]
    BY <2>4, SMT
  <2>5. CASE /\ k[1] = l[1] /\ k[2] = l[2] /\ k[3] = l[3] /\ k[4] = l[4]
             /\ k[5] # l[5]
    BY <2>5, SMT
  <2>6. CASE /\ k[1] = l[1] /\ k[2] = l[2] /\ k[3] = l[3] /\ k[4] = l[4]
             /\ k[5] = l[5] /\ k[6] # l[6]
    BY <2>6, SMT
  <2>7. CASE /\ k[1] = l[1] /\ k[2] = l[2] /\ k[3] = l[3] /\ k[4] = l[4]
             /\ k[5] = l[5] /\ k[6] = l[6] /\ k[7] # l[7]
    BY <2>7, SMT
  <2>8. CASE /\ k[1] = l[1] /\ k[2] = l[2] /\ k[3] = l[3] /\ k[4] = l[4]
             /\ k[5] = l[5] /\ k[6] = l[6] /\ k[7] = l[7]
    BY <2>8, SMT
  <2> QED BY <2>1, <2>2, <2>3, <2>4, <2>5, <2>6, <2>7, <2>8
<1>2. PICK i \in 1 .. 8 : FirstAt(i)
  BY <1>1
<1>3. k[i] < l[i] \/ l[i] < k[i]
  BY <1>2, SMT DEF IntKey
<1> QED BY <1>2, <1>3 DEF LexLess

LEMMA KeysOfCandidates ==
    ASSUME NEW c \in Candidates
    PROVE  IntKey(SortKey(c)) /\ SortKey(c)[8] = c.fingerprint
BY SMT DEF Candidates, IntKey, SortKey, TieOrder, Types

\* RankingIsTotal: any two candidates with different evaluation fingerprints -
\* all that deduplication leaves - are ordered one way and not the other,
\* through ties of every score ("any two candidates - even two with an identical
\* priority score - always land in one deterministic order", ranking.py).
THEOREM RankingIsTotal ==
    ASSUME NEW c \in Candidates, NEW d \in Candidates,
           c.fingerprint # d.fingerprint
    PROVE  (Precedes(c, d) \/ Precedes(d, c)) /\ ~(Precedes(c, d) /\ Precedes(d, c))
<1>1. IntKey(SortKey(c)) /\ IntKey(SortKey(d))
  BY KeysOfCandidates
<1>2. SortKey(c)[8] # SortKey(d)[8]
  BY KeysOfCandidates
<1>3. Precedes(c, d) \/ Precedes(d, c)
  BY <1>1, <1>2, LexTotal DEF Precedes
<1>4. ~(Precedes(c, d) /\ Precedes(d, c))
  BY <1>1, LexTransitive, LexIrreflexive DEF Precedes
<1> QED BY <1>3, <1>4

\* RanksAreUnique: a candidate that precedes another has a smaller rank, so no
\* rank is shared and the ranking is a function of the set of candidates alone
\* ("Never dense/shared ranking", ranking.py).
THEOREM RanksAreUnique ==
    ASSUME NEW S \in SUBSET Candidates, IsFiniteSet(S),
           NEW c \in S, NEW d \in S, Precedes(c, d)
    PROVE  Rank(S, c) < Rank(S, d)
<1> DEFINE Ahead(x) == {y \in S : Precedes(y, x)}
<1>1. \A y \in S : IntKey(SortKey(y))
  BY KeysOfCandidates
<1>2. Ahead(c) \subseteq Ahead(d)
  BY <1>1, LexTransitive DEF Precedes
<1>3. c \in Ahead(d) /\ c \notin Ahead(c)
  BY <1>1, LexIrreflexive DEF Precedes
<1>4. IsFiniteSet(Ahead(c)) /\ IsFiniteSet(Ahead(d))
  BY FS_Subset
<1>5. Cardinality(Ahead(c)) \in Nat /\ Cardinality(Ahead(d)) \in Nat
  BY <1>4, FS_CardinalityType
<1>6. Ahead(c) \cup {c} \subseteq Ahead(d)
  BY <1>2, <1>3
<1>7. Cardinality(Ahead(c) \cup {c}) = Cardinality(Ahead(c)) + 1
  BY <1>3, <1>4, FS_AddElement
<1>8. Cardinality(Ahead(c) \cup {c}) <= Cardinality(Ahead(d))
  BY <1>4, <1>6, FS_Subset
<1>9. /\ Rank(S, c) = 1 + Cardinality(Ahead(c))
      /\ Rank(S, d) = 1 + Cardinality(Ahead(d))
  BY DEF Rank
<1> HIDE DEF Ahead
<1> QED BY <1>5, <1>7, <1>8, <1>9, SMT
=============================================================================
