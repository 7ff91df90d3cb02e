------------------------ MODULE SourceImportsProofs ------------------------
(***************************************************************************)
(* What holds of the sources and of the data whatever is imported, by      *)
(* however many imports at once, and wherever a process dies or a          *)
(* statement is refused: the three properties of SourceImports about who   *)
(* switches a source on and off, the two about what an import may and may  *)
(* not fail of, and that the data change by whole imports only.            *)
(*                                                                         *)
(* The first three hang on the import lock.  Between the reading of the    *)
(* sources and the write that switches one on, nobody else may switch one  *)
(* on for the same hotel and kind (NothingOn); and as long as an import    *)
(* that switched a source on runs, the source still bears its mark         *)
(* (OwnMark), which is what lets it switch off its own and nothing else.   *)
(*                                                                         *)
(* The others hang on the locks of the canonical write.  What an import    *)
(* decided on the tables as it read them is still what it would decide     *)
(* when it writes (Foreseen), because the rows of its source, or for       *)
(* invoices the registry and every row filed under it, are nobody else's   *)
(* to write meanwhile (OneWriter, OneRegistrar); and a plan of suppliers   *)
(* only adds to the registry it was made on and leaves one owner to an     *)
(* identifier (PlanIsSound).                                               *)
(*                                                                         *)
(* What a dry run said holds until a word is lost.  An import with a       *)
(* person's own matching knows, while it reads, every word its source      *)
(* still has (Worded): the import lock lets nobody teach the source new    *)
(* ones meanwhile (LabelsOnlyGo).  So the words the dry run knew and the   *)
(* import does not are lost to the source, and a file is refused for       *)
(* nothing but those (OnlyLostWordsRefuse).                                *)
(***************************************************************************)
EXTENDS SourceImports, Integers, SequenceTheorems, FiniteSetTheorems, WellFoundedInduction,
        TLAPS

\* The values a source may have.
Hotel == {r.property : r \in Request} \cup {k[1] : k \in ByHand}
Kind == {r.domain : r \in Request} \cup {k[2] : k \in ByHand}
Layout == {None} \cup {r.file.layout : r \in Request}
Label == UNION {r.labels : r \in Request}
Source == [property : Hotel, domain : Kind, active : BOOLEAN, layout : Layout,
           labels : SUBSET Label, by : Nat]

\* What an import holds, field by field.
WorkOf(w) ==
  [request |-> w.request, source |-> w.source, switchedOn |-> w.switchedOn, job |-> w.job,
   seen |-> w.seen, error |-> w.error, labels |-> w.labels, tried |-> w.tried]

Works(f) ==
  f = [i \in Importer |-> WorkOf(f[i])] /\ \A i \in Importer : f[i].labels \in SUBSET Label

\* An import that knows its source, and has switched it on if it had to.
Past == Locked \ {"choose", "switchOn"}
Running == Locked \cup {"importLock"}

Types ==
  /\ sources \in Seq(Source) /\ recency \in Seq(Nat)
  /\ Len(recency) = Len(sources)
  /\ \A s \in DOMAIN sources : recency[s] <= Len(sources)
  /\ at \in [Importer -> Running \cup Outcome \cup {"idle", "tried"}]
  /\ Works(work)
  /\ operated \in Nat

\* An import that runs has a request, and one that has chosen has a source.
WorkIsReal ==
  \A i \in Importer :
    /\ at[i] \in Running => work[i].request \in Request
    /\ at[i] \in {"importLock", "choose", "switchOn"} => work[i].request.via = "web"
    /\ at[i] \in Past => work[i].source \in DOMAIN sources
    /\ at[i] \notin Past => ~work[i].switchedOn

\* hold_source_import_lock: one import at a time of a hotel and kind of data.
OneHolder ==
  \A i, j \in Importer :
    (i # j /\ HoldsImportLock(i) /\ HoldsImportLock(j))
      => ~SameKind(work[i].request, work[j].request)

\* A source of the hotel and kind of data that a request is about.
IsFor(source, r) == source.property = r.property /\ source.domain = r.domain

\* What an import has read before it switches a source on is still so.
NothingOn ==
  \A i \in Importer : at[i] = "switchOn" =>
    /\ \A s \in DOMAIN sources :
         sources[s].active /\ IsFor(sources[s], work[i].request) => sources[s].by = 0
    /\ work[i].source # 0 => /\ work[i].source \in DOMAIN sources
                             /\ IsFor(sources[work[i].source], work[i].request)

\* A source that bears the mark of an import was switched on by it: the import
\* knows while it runs, and has ended well or been killed if the source is on.
Marked ==
  \A s \in DOMAIN sources : sources[s].by # 0 =>
    LET i == sources[s].by IN
    /\ i \in Importer /\ at[i] \in Past \cup Outcome
    /\ at[i] \in Past => work[i].source = s /\ work[i].switchedOn
    /\ at[i] \in Outcome /\ sources[s].active => at[i] \in {"succeeded", "crashed"}

\* And the source an import switched on still bears its mark while it runs.
OwnMark ==
  \A i \in Importer : at[i] \in Past /\ work[i].switchedOn =>
    /\ work[i].request.via = "web"
    /\ sources[work[i].source].by = i
    /\ IsFor(sources[work[i].source], work[i].request)

SourcesInv ==
  /\ Types /\ WorkIsReal /\ OneHolder /\ NothingOn /\ Marked /\ OwnMark
  /\ ImportsMakeOneSource

\* A step that adds no source, switches none on and leaves every mark.
Kept ==
  /\ sources' \in Seq(Source) /\ Len(sources') = Len(sources)
  /\ recency' \in Seq(Nat) /\ Len(recency') = Len(sources)
  /\ \A s \in DOMAIN sources : recency'[s] <= Len(sources)
  /\ \A s \in DOMAIN sources :
       /\ sources'[s].property = sources[s].property
       /\ sources'[s].domain = sources[s].domain
       /\ sources'[s].by = sources[s].by
       /\ sources'[s].active => sources[s].active
  /\ operated' \in Nat

----------------------------------------------------------------------------
(* Sources                                                                  *)

LEMMA ShapeOfSources ==
    ASSUME Types
    PROVE  /\ Len(sources) \in Nat /\ DOMAIN sources = 1..Len(sources)
           /\ \A s \in DOMAIN sources : sources[s] \in Source /\ recency[s] \in Nat
<1>1. sources \in Seq(Source) /\ recency \in Seq(Nat) /\ Len(recency) = Len(sources)
  BY DEF Types
<1> QED BY <1>1

LEMMA NothingWrittenKeeps ==
    ASSUME Types, UNCHANGED <<sources, recency>>, operated' \in Nat
    PROVE  Kept
BY ShapeOfSources DEF Types, Kept

\* The places stay within the sources, whichever is touched.
LEMMA TouchIsOrder ==
    ASSUME Types, NEW s \in DOMAIN sources
    PROVE  /\ Touch(s) \in Seq(Nat) /\ Len(Touch(s)) = Len(sources)
           /\ \A t \in DOMAIN sources : Touch(s)[t] <= Len(sources)
<1> DEFINE n == Len(sources)
<1>1. n \in Nat /\ DOMAIN sources = 1..n /\ \A t \in 1..n : recency[t] \in Nat /\ recency[t] <= n
  BY ShapeOfSources DEF Types
<1>2. \A t \in 1..n : Touch(s)[t] \in Nat /\ Touch(s)[t] <= n
  BY <1>1 DEF Touch
<1>3. Touch(s) \in [1..n -> Nat]
  BY <1>1, <1>2 DEF Touch
<1> HIDE DEF n
<1>4. Touch(s) \in Seq(Nat) /\ DOMAIN Touch(s) = 1..n
  BY <1>1, <1>3, SeqDef
<1>5. Len(Touch(s)) = n
  BY <1>1, <1>4, LenProperties
<1> QED BY <1>1, <1>2, <1>4, <1>5 DEF n

\* There is a source that was touched last.
LEMMA LastTouchedIsOne ==
    ASSUME Types, NEW set \in SUBSET DOMAIN sources, set # {}
    PROVE  LastTouched(set) \in set
<1> DEFINE n == Len(sources)
           late == {n - recency[s] : s \in set}
<1>1. n \in Nat /\ \A t \in set : recency[t] \in Nat /\ recency[t] <= n
  BY ShapeOfSources DEF Types
<1>2. late \subseteq Nat /\ late # {}
  BY <1>1
<1>3. PICK d \in late : \A e \in late : ~(<<e, d>> \in OpToRel(<, Nat))
  BY <1>2, NatLessThanWellFounded, WFMin, Zenon
<1>4. PICK s \in set : d = n - recency[s]
  BY <1>3
<1>5. ASSUME NEW t \in set PROVE recency[t] <= recency[s]
  <2>1. n - recency[t] \in late /\ n - recency[t] \in Nat /\ d \in Nat
    BY <1>1, <1>2, <1>3
  <2>2. ~(n - recency[t] < d)
    BY <1>3, <2>1 DEF OpToRel
  <2> QED BY <1>1, <1>4, <2>2
<1> QED BY <1>5 DEF LastTouched

LEMMA SwitchingOffKeeps ==
    ASSUME Types, NEW s \in DOMAIN sources, SetActive(s, FALSE), operated' \in Nat
    PROVE  Kept /\ ~sources'[s].active
<1>1. sources[s] \in Source /\ sources[s].active \in BOOLEAN
  BY ShapeOfSources DEF Source
<1>2. CASE sources[s].active = FALSE
  BY <1>2, NothingWrittenKeeps DEF SetActive
<1>3. CASE sources[s].active # FALSE
  <2>1. sources' = [sources EXCEPT ![s].active = FALSE] /\ recency' = Touch(s)
    BY <1>3 DEF SetActive
  <2>2. [sources[s] EXCEPT !.active = FALSE] \in Source
    BY <1>1 DEF Source
  <2>3. sources' \in Seq(Source) /\ Len(sources') = Len(sources)
    BY <2>1, <2>2, ShapeOfSources, ExceptSeq DEF Types
  <2>4. \A t \in DOMAIN sources : t # s => sources'[t] = sources[t]
    BY <2>1
  <2>5. sources'[s] = [sources[s] EXCEPT !.active = FALSE]
    BY <2>1
  <2> QED BY <1>1, <2>1, <2>3, <2>4, <2>5, TouchIsOrder DEF Kept, Source
<1> QED BY <1>2, <1>3

\* A configuration is saved, or forgotten.
LEMMA LayoutKeeps ==
    ASSUME Types, NEW s \in DOMAIN sources, NEW l \in Layout, NEW words \in SUBSET Label,
           sources' = [sources EXCEPT ![s].layout = l, ![s].labels = words],
           recency' = recency, operated' \in Nat
    PROVE  Kept
<1> DEFINE new == [sources[s] EXCEPT !.layout = l, !.labels = words]
<1>1. sources[s] \in Source /\ new \in Source
  BY ShapeOfSources DEF Source
<1>2. sources' = [sources EXCEPT ![s] = new]
  BY ShapeOfSources DEF Types
<1>3. /\ new.property = sources[s].property /\ new.domain = sources[s].domain
      /\ new.active = sources[s].active /\ new.by = sources[s].by
  BY <1>1 DEF Source
<1> HIDE DEF new
<1>4. sources' \in Seq(Source) /\ Len(sources') = Len(sources)
  <2>1. sources \in Seq(Source) /\ s \in 1..Len(sources)
    BY ShapeOfSources DEF Types
  <2>2. [sources EXCEPT ![s] = new] \in Seq(Source) /\ Len([sources EXCEPT ![s] = new]) = Len(sources)
    BY <1>1, <2>1, ExceptSeq, Zenon
  <2> QED BY <1>2, <2>2
<1>5. sources'[s] = new /\ \A t \in DOMAIN sources : t # s => sources'[t] = sources[t]
  BY <1>2
<1> QED BY <1>3, <1>4, <1>5 DEF Types, Kept

----------------------------------------------------------------------------
(* Imports                                                                  *)

LEMMA InitSources == Init => SourcesInv
<1> SUFFICES ASSUME Init PROVE SourcesInv
  OBVIOUS
<1> USE DEF Init
<1>1. Types
  BY DEF Types, NoWork, Works, WorkOf
<1>2. DOMAIN sources = {} /\ \A i \in Importer : at[i] = "idle" /\ ~work[i].switchedOn
  BY DEF NoWork
<1>3. WorkIsReal /\ OneHolder /\ NothingOn /\ OwnMark
  BY <1>2 DEF WorkIsReal, OneHolder, HoldsImportLock, NothingOn, OwnMark, Past, Running, Locked
<1>4. Marked /\ ImportsMakeOneSource
  BY <1>2 DEF Marked, ImportsMakeOneSource
<1> QED BY <1>1, <1>3, <1>4 DEF SourcesInv

\* What a step that only keeps the sources leaves true of them.
LEMMA KeptSources ==
    ASSUME SourcesInv, Kept
    PROVE  DOMAIN sources' = DOMAIN sources /\ ImportsMakeOneSource'
<1>1. DOMAIN sources' = DOMAIN sources
  BY ShapeOfSources DEF SourcesInv, Kept
<1> QED BY <1>1 DEF Kept, SourcesInv, ImportsMakeOneSource

\* A step that keeps the sources and moves no import: the operator's.
LEMMA StandingKeeps ==
    ASSUME SourcesInv, Kept, UNCHANGED <<at, work>>
    PROVE  SourcesInv'
<1> USE DEF SourcesInv
<1>1. DOMAIN sources' = DOMAIN sources /\ ImportsMakeOneSource'
  BY KeptSources
<1>2. Types'
  BY <1>1 DEF Types, Kept
<1>3. WorkIsReal' /\ OneHolder'
  BY <1>1 DEF WorkIsReal, OneHolder, HoldsImportLock
<1>4. NothingOn'
  <2> SUFFICES ASSUME NEW j \in Importer, at'[j] = "switchOn"
               PROVE  /\ \A s \in DOMAIN sources :
                           sources'[s].active /\ IsFor(sources'[s], work'[j].request)
                             => sources'[s].by = 0
                      /\ work'[j].source # 0 =>
                           /\ work'[j].source \in DOMAIN sources
                           /\ IsFor(sources'[work'[j].source], work'[j].request)
    BY <1>1 DEF NothingOn
  <2>1. at[j] = "switchOn" /\ work'[j] = work[j]
    OBVIOUS
  <2>2. \A s \in DOMAIN sources :
          IsFor(sources'[s], work[j].request) => IsFor(sources[s], work[j].request)
    BY DEF Kept, IsFor
  <2>3. \A s \in DOMAIN sources :
          IsFor(sources[s], work[j].request) => IsFor(sources'[s], work[j].request)
    BY DEF Kept, IsFor
  <2> QED BY <2>1, <2>2, <2>3 DEF NothingOn, Kept
<1>5. Marked'
  BY <1>1 DEF Marked, Kept
<1>6. OwnMark'
  BY <1>1 DEF OwnMark, WorkIsReal, IsFor, Kept
<1> QED BY <1>1, <1>2, <1>3, <1>4, <1>5, <1>6

\* One import's work given anew, and the others' left.
LEMMA WorkGivenAnew ==
    ASSUME Types, NEW i \in Importer, NEW new, new = WorkOf(new),
           new.labels \in SUBSET Label, work' = [work EXCEPT ![i] = new]
    PROVE  /\ work'[i] = new /\ \A j \in Importer \ {i} : work'[j] = work[j]
           /\ Works(work')
<1>1. /\ work = [j \in Importer |-> WorkOf(work[j])]
      /\ \A j \in Importer : work[j].labels \in SUBSET Label
  BY DEF Types, Works
<1>2. work'[i] = new /\ \A j \in Importer \ {i} : work'[j] = work[j]
  BY <1>1
<1>3. work' = [j \in Importer |-> work'[j]]
  BY <1>1
<1>4. \A j \in Importer : work'[j] = WorkOf(work'[j])
  <2>1. \A j \in Importer : work[j] = WorkOf(work[j])
    BY <1>1
  <2> QED BY <1>2, <2>1, Zenon
<1>5. \A j \in Importer : work'[j].labels \in SUBSET Label
  BY <1>1, <1>2
<1>6. work' = [j \in Importer |-> WorkOf(work'[j])]
  BY <1>3, <1>4
<1> QED BY <1>2, <1>5, <1>6 DEF Works

\* The import goes on with the request, the source and the mark it has.
Alike(w, someJobs, seen, errors, labels) ==
  [request : {w.request}, source : {w.source}, switchedOn : {w.switchedOn}, tried : {w.tried},
   job : someJobs, seen : seen, error : errors, labels : labels]

SameWork(i) ==
  \E J, S, E : \E L \in SUBSET (SUBSET Label) :
    \E new \in Alike(work[i], J, S, E, L) : work' = [work EXCEPT ![i] = new]

LEMMA SameWorkMeans ==
    ASSUME Types, NEW i \in Importer, SameWork(i)
    PROVE  /\ work'[i].request = work[i].request /\ work'[i].source = work[i].source
           /\ work'[i].switchedOn = work[i].switchedOn
           /\ \A j \in Importer \ {i} : work'[j] = work[j]
           /\ Works(work')
<1>1. PICK J, S, E :
        \E L \in SUBSET (SUBSET Label) :
          \E new \in Alike(work[i], J, S, E, L) : work' = [work EXCEPT ![i] = new]
  BY DEF SameWork
<1>2. PICK L \in SUBSET (SUBSET Label) :
        \E new \in Alike(work[i], J, S, E, L) : work' = [work EXCEPT ![i] = new]
  BY <1>1
<1>3. PICK new \in Alike(work[i], J, S, E, L) : work' = [work EXCEPT ![i] = new]
  BY <1>2
<1>4. /\ new = WorkOf(new) /\ new.labels \in SUBSET Label
      /\ new.request = work[i].request /\ new.source = work[i].source
      /\ new.switchedOn = work[i].switchedOn
  BY DEF Alike, WorkOf
<1> QED BY <1>3, <1>4, WorkGivenAnew, Zenon

\* A step of an import that has its source already.
LEMMA GoingOnKeeps ==
    ASSUME SourcesInv, Kept, NEW i \in Importer, at[i] \in Past,
           NEW label \in Past, Go(i, label), SameWork(i)
    PROVE  SourcesInv'
<1> USE DEF SourcesInv
<1>1. DOMAIN sources' = DOMAIN sources /\ ImportsMakeOneSource'
  BY KeptSources
<1>2. /\ at'[i] \in Past /\ at \in [Importer -> Running \cup Outcome \cup {"idle", "tried"}]
      /\ \A j \in Importer \ {i} : at'[j] = at[j]
      /\ at' \in [Importer -> Running \cup Outcome \cup {"idle", "tried"}]
  BY DEF Go, Types, Past, Running
<1>3. /\ work'[i].request = work[i].request /\ work'[i].source = work[i].source
      /\ work'[i].switchedOn = work[i].switchedOn
      /\ \A j \in Importer \ {i} : work'[j] = work[j]
      /\ Works(work')
  BY SameWorkMeans, Zenon
<1>4. Types'
  BY <1>1, <1>2, <1>3 DEF Types, Kept
<1>5. WorkIsReal'
  BY <1>1, <1>2, <1>3 DEF WorkIsReal, Past, Running, Locked
<1>6. OneHolder'
  BY <1>1, <1>2, <1>3 DEF OneHolder, HoldsImportLock, SameKind, Past, Running, Locked
<1>7. NothingOn'
  <2> SUFFICES ASSUME NEW j \in Importer, at'[j] = "switchOn"
               PROVE  /\ \A s \in DOMAIN sources :
                           sources'[s].active /\ IsFor(sources'[s], work'[j].request)
                             => sources'[s].by = 0
                      /\ work'[j].source # 0 =>
                           /\ work'[j].source \in DOMAIN sources
                           /\ IsFor(sources'[work'[j].source], work'[j].request)
    BY <1>1 DEF NothingOn
  <2>1. at[j] = "switchOn" /\ work'[j] = work[j]
    BY <1>2, <1>3 DEF Past, Running, Locked
  <2>2. \A s \in DOMAIN sources :
          IsFor(sources'[s], work[j].request) => IsFor(sources[s], work[j].request)
    BY DEF Kept, IsFor
  <2>3. \A s \in DOMAIN sources :
          IsFor(sources[s], work[j].request) => IsFor(sources'[s], work[j].request)
    BY DEF Kept, IsFor
  <2> QED BY <2>1, <2>2, <2>3 DEF NothingOn, Kept
<1>8. Marked'
  <2> SUFFICES ASSUME NEW s \in DOMAIN sources, sources'[s].by # 0
               PROVE  LET j == sources'[s].by IN
                      /\ j \in Importer /\ at'[j] \in Past \cup Outcome
                      /\ at'[j] \in Past => work'[j].source = s /\ work'[j].switchedOn
                      /\ at'[j] \in Outcome /\ sources'[s].active
                           => at'[j] \in {"succeeded", "crashed"}
    BY <1>1 DEF Marked
  <2> DEFINE j == sources[s].by
  <2>1. /\ sources'[s].by = j /\ j # 0 /\ j \in Importer
        /\ sources'[s].active => sources[s].active
    BY DEF Kept, Marked
  <2>2. /\ at[j] \in Past \cup Outcome
        /\ at[j] \in Past => work[j].source = s /\ work[j].switchedOn
        /\ at[j] \in Outcome /\ sources[s].active => at[j] \in {"succeeded", "crashed"}
    BY <2>1 DEF Marked
  <2>3. Past \cap Outcome = {}
    BY DEF Past, Locked, Outcome
  <2> HIDE DEF j
  <2>4. CASE j # i
    BY <1>2, <1>3, <2>1, <2>2, <2>4
  <2>5. CASE j = i
    BY <1>2, <1>3, <2>1, <2>2, <2>3, <2>5
  <2> QED BY <2>4, <2>5
<1>9. OwnMark'
  <2> SUFFICES ASSUME NEW j \in Importer, at'[j] \in Past, work'[j].switchedOn
               PROVE  /\ work'[j].request.via = "web"
                      /\ sources'[work'[j].source].by = j
                      /\ IsFor(sources'[work'[j].source], work'[j].request)
    BY DEF OwnMark
  <2>1. /\ at[j] \in Past /\ work[j].switchedOn
        /\ work'[j].request = work[j].request /\ work'[j].source = work[j].source
    BY <1>2, <1>3
  <2>2. /\ work[j].source \in DOMAIN sources /\ sources[work[j].source].by = j
        /\ work[j].request.via = "web" /\ IsFor(sources[work[j].source], work[j].request)
    BY <2>1 DEF OwnMark, WorkIsReal
  <2> QED BY <2>1, <2>2 DEF Kept, IsFor
<1> QED BY <1>1, <1>4, <1>5, <1>6, <1>7, <1>8, <1>9

\* The end of an import, which leaves nothing of its own on unless it succeeded
\* or was killed.
LEMMA EndingKeeps ==
    ASSUME SourcesInv, Kept, NEW i \in Importer, at[i] \in Running,
           NEW outcome \in Outcome, Finish(i, outcome),
           (work[i].switchedOn /\ outcome \notin {"succeeded", "crashed"})
             => ~sources'[work[i].source].active
    PROVE  SourcesInv'
<1> USE DEF SourcesInv
<1>1. DOMAIN sources' = DOMAIN sources /\ ImportsMakeOneSource'
  BY KeptSources
<1>2. /\ at'[i] = outcome /\ at \in [Importer -> Running \cup Outcome \cup {"idle", "tried"}]
      /\ \A j \in Importer \ {i} : at'[j] = at[j]
      /\ at' \in [Importer -> Running \cup Outcome \cup {"idle", "tried"}]
      /\ outcome \notin Running
  BY DEF Go, Finish, Types, Past, Running, Locked, Outcome
<1>3. /\ work'[i] = NoWork /\ Works(work')
      /\ \A j \in Importer \ {i} : work'[j] = work[j]
  <2>1. NoWork = WorkOf(NoWork) /\ NoWork.labels \in SUBSET Label
    BY DEF NoWork, WorkOf
  <2>2. work' = [work EXCEPT ![i] = NoWork]
    BY DEF Finish
  <2> QED BY <2>1, <2>2, WorkGivenAnew
<1>4. Types'
  BY <1>1, <1>2, <1>3 DEF Types, Kept
<1>5. WorkIsReal'
  BY <1>1, <1>2, <1>3 DEF WorkIsReal, Past, Running, Locked, NoWork
<1>6. OneHolder'
  BY <1>1, <1>2, <1>3 DEF OneHolder, HoldsImportLock, SameKind, Running
<1>7. NothingOn'
  <2> SUFFICES ASSUME NEW j \in Importer, at'[j] = "switchOn"
               PROVE  /\ \A s \in DOMAIN sources :
                           sources'[s].active /\ IsFor(sources'[s], work'[j].request)
                             => sources'[s].by = 0
                      /\ work'[j].source # 0 =>
                           /\ work'[j].source \in DOMAIN sources
                           /\ IsFor(sources'[work'[j].source], work'[j].request)
    BY <1>1 DEF NothingOn
  <2>1. at[j] = "switchOn" /\ work'[j] = work[j]
    BY <1>2, <1>3 DEF Past, Running, Locked
  <2>2. \A s \in DOMAIN sources :
          IsFor(sources'[s], work[j].request) => IsFor(sources[s], work[j].request)
    BY DEF Kept, IsFor
  <2>3. \A s \in DOMAIN sources :
          IsFor(sources[s], work[j].request) => IsFor(sources'[s], work[j].request)
    BY DEF Kept, IsFor
  <2> QED BY <2>1, <2>2, <2>3 DEF NothingOn, Kept
<1>8. Marked'
  <2> SUFFICES ASSUME NEW s \in DOMAIN sources, sources'[s].by # 0
               PROVE  LET j == sources'[s].by IN
                      /\ j \in Importer /\ at'[j] \in Past \cup Outcome
                      /\ at'[j] \in Past => work'[j].source = s /\ work'[j].switchedOn
                      /\ at'[j] \in Outcome /\ sources'[s].active
                           => at'[j] \in {"succeeded", "crashed"}
    BY <1>1 DEF Marked
  <2> DEFINE j == sources[s].by
  <2>1. /\ sources'[s].by = j /\ j # 0 /\ j \in Importer
        /\ sources'[s].active => sources[s].active
    BY DEF Kept, Marked
  <2>2. /\ at[j] \in Past \cup Outcome
        /\ at[j] \in Past => work[j].source = s /\ work[j].switchedOn
        /\ at[j] \in Outcome /\ sources[s].active => at[j] \in {"succeeded", "crashed"}
    BY <2>1 DEF Marked
  <2>3. Past \cap Outcome = {}
    BY DEF Past, Locked, Outcome
  <2> HIDE DEF j
  <2>4. CASE j # i
    BY <1>2, <1>3, <2>1, <2>2, <2>4
  <2>5. CASE j = i
    <3>1. at[i] \in Past
      BY <1>2, <2>2, <2>5 DEF Running, Locked, Outcome
    <3>2. work[i].source = s /\ work[i].switchedOn
      BY <2>2, <2>5, <3>1
    <3> QED BY <1>2, <2>1, <2>3, <2>5, <3>1, <3>2 DEF Running, Past
  <2> QED BY <2>4, <2>5
<1>9. OwnMark'
  <2> SUFFICES ASSUME NEW j \in Importer, at'[j] \in Past, work'[j].switchedOn
               PROVE  /\ work'[j].request.via = "web"
                      /\ sources'[work'[j].source].by = j
                      /\ IsFor(sources'[work'[j].source], work'[j].request)
    BY DEF OwnMark
  <2>1. /\ at[j] \in Past /\ work[j].switchedOn
        /\ work'[j].request = work[j].request /\ work'[j].source = work[j].source
    BY <1>2, <1>3 DEF Past, Running
  <2>2. /\ work[j].source \in DOMAIN sources /\ sources[work[j].source].by = j
        /\ work[j].request.via = "web" /\ IsFor(sources[work[j].source], work[j].request)
    BY <2>1 DEF OwnMark, WorkIsReal
  <2> QED BY <2>1, <2>2 DEF Kept, IsFor
<1> QED BY <1>1, <1>4, <1>5, <1>6, <1>7, <1>8, <1>9

\* A step that moves one import, from one place to another.
LEMMA MovedTo ==
    ASSUME Types, NEW i \in Importer,
           NEW label \in Running \cup Outcome \cup {"tried"}, Go(i, label)
    PROVE  /\ at'[i] = label /\ \A j \in Importer \ {i} : at'[j] = at[j]
           /\ at' \in [Importer -> Running \cup Outcome \cup {"idle", "tried"}]
BY DEF Types, Go

\* The record that holds these values, as a set of one.
TheWork(request, source, on, w) ==
  [request : {request}, source : {source}, switchedOn : {on}, job : {w.job}, seen : {w.seen},
   error : {w.error}, labels : {w.labels}, tried : {w.tried}]

LEMMA WorkIsItself ==
    ASSUME Types, NEW i \in Importer
    PROVE  work[i] \in TheWork(work[i].request, work[i].source, work[i].switchedOn, work[i])
<1> DEFINE w == work[i]
<1>1. w = WorkOf(w)
  BY DEF Types, Works
<1> HIDE DEF w
<1>2. WorkOf(w) \in TheWork(w.request, w.source, w.switchedOn, w)
  BY DEF TheWork, WorkOf
<1>3. w \in TheWork(w.request, w.source, w.switchedOn, w)
  BY <1>1, <1>2, Zenon
<1> QED BY <1>3 DEF w

\* What the work of the imports is when only the request, the source or the mark
\* of one of them changes.
LEMMA WorkOfOne ==
    ASSUME Types, NEW i \in Importer, NEW request, NEW source, NEW on, NEW w,
           w.labels \in SUBSET Label,
           NEW new \in TheWork(request, source, on, w), work' = [work EXCEPT ![i] = new]
    PROVE  /\ work'[i].request = request /\ work'[i].source = source
           /\ work'[i].switchedOn = on
           /\ \A j \in Importer \ {i} : work'[j] = work[j]
           /\ Works(work')
<1>1. /\ new = WorkOf(new) /\ new.labels \in SUBSET Label
      /\ new.request = request /\ new.source = source /\ new.switchedOn = on
  BY DEF TheWork, WorkOf
<1> QED BY <1>1, WorkGivenAnew, Zenon

\* The words an import reads with are some that may be taught.
LEMMA LabelsAreSome ==
    ASSUME Types, NEW i \in Importer
    PROVE  work[i].labels \in SUBSET Label
BY DEF Types, Works

\* A request is given to an import that had none, or had only tried it: it is
\* tried, waits for the import lock, or goes on with the source it names.
LEMMA ArrivingKeeps ==
    ASSUME SourcesInv, NEW i \in Importer, at[i] \in {"idle", "tried"},
           NEW r \in Request, NEW source, NEW label \in Running \cup {"tried"}, Go(i, label),
           label # "tried" =>
             IF r.via = "web" THEN label = "importLock"
             ELSE label \in Past /\ source \in DOMAIN sources,
           NEW w, w.labels \in SUBSET Label,
           NEW new \in TheWork(r, source, work[i].switchedOn, w),
           work' = [work EXCEPT ![i] = new], UNCHANGED <<sources, recency, operated>>
    PROVE  SourcesInv'
<1> USE DEF SourcesInv
<1>1. ~work[i].switchedOn
  BY DEF WorkIsReal, Past, Locked
<1>2. /\ at'[i] = label /\ \A j \in Importer \ {i} : at'[j] = at[j]
      /\ at' \in [Importer -> Running \cup Outcome \cup {"idle", "tried"}]
  BY MovedTo
<1>3. /\ work'[i].request = r /\ work'[i].source = source
      /\ work'[i].switchedOn = work[i].switchedOn
      /\ \A j \in Importer \ {i} : work'[j] = work[j]
      /\ Works(work')
  BY WorkOfOne, Zenon
<1>4. Types'
  BY <1>2, <1>3 DEF Types
<1>5. WorkIsReal'
  BY <1>1, <1>2, <1>3 DEF WorkIsReal, Past, Running, Locked
<1>6. OneHolder'
  BY <1>2, <1>3 DEF OneHolder, HoldsImportLock, SameKind, Locked
<1>7. NothingOn'
  BY <1>2, <1>3 DEF NothingOn, IsFor, Past
<1>8. Marked'
  <2> SUFFICES ASSUME NEW s \in DOMAIN sources, sources[s].by # 0
               PROVE  LET j == sources[s].by IN
                      /\ j \in Importer /\ at'[j] \in Past \cup Outcome
                      /\ at'[j] \in Past => work'[j].source = s /\ work'[j].switchedOn
                      /\ at'[j] \in Outcome /\ sources[s].active
                           => at'[j] \in {"succeeded", "crashed"}
    BY DEF Marked
  <2> DEFINE j == sources[s].by
  <2>1. j \in Importer /\ at[j] \in Past \cup Outcome
    BY DEF Marked
  <2>2. j # i
    BY <2>1 DEF Past, Locked, Outcome
  <2>3. at'[j] = at[j] /\ work'[j] = work[j]
    BY <1>2, <1>3, <2>1, <2>2
  <2> QED BY <2>1, <2>3 DEF Marked
<1>9. OwnMark'
  BY <1>1, <1>2, <1>3 DEF OwnMark, IsFor
<1>10. ImportsMakeOneSource'
  BY DEF ImportsMakeOneSource
<1> QED BY <1>4, <1>5, <1>6, <1>7, <1>8, <1>9, <1>10

LEMMA TryingKeeps ==
    ASSUME SourcesInv, NEW i \in Importer, TryFile(i)
    PROVE  SourcesInv'
<1>0. PICK r \in Request :
        \E tried : work' = [work EXCEPT ![i].request = r, ![i].tried = tried]
  BY DEF TryFile
<1>1. PICK tried : work' = [work EXCEPT ![i].request = r, ![i].tried = tried]
  BY <1>0
<1>2. at[i] = "idle" /\ Go(i, "tried") /\ UNCHANGED <<sources, recency, operated>>
  BY DEF TryFile, NextToArrive, tables
<1> DEFINE w == [work[i] EXCEPT !.tried = tried]
           new == [work[i] EXCEPT !.request = r, !.tried = tried]
<1>3. /\ new \in TheWork(r, work[i].source, work[i].switchedOn, w)
      /\ w.labels \in SUBSET Label
  BY WorkIsItself, LabelsAreSome DEF TheWork, SourcesInv
<1>4. work' = [work EXCEPT ![i] = new]
  BY <1>1 DEF SourcesInv, Types, Works
<1> HIDE DEF w, new
<1> QED BY <1>2, <1>3, <1>4, ArrivingKeeps

LEMMA ReceivingKeeps ==
    ASSUME SourcesInv, NEW i \in Importer, Receive(i)
    PROVE  SourcesInv'
<1>1. PICK r \in Request :
        /\ r.via = "cli" => r.source \in DOMAIN sources
        /\ work' = [work EXCEPT ![i].request = r,
                                ![i].source = IF r.via = "cli" THEN r.source ELSE 0]
        /\ Go(i, IF r.via = "web" THEN "importLock"
                 ELSE IF r.file.format = "xml" THEN "record" ELSE "mapping")
  BY DEF Receive
<1> DEFINE source == IF r.via = "cli" THEN r.source ELSE 0
           label == IF r.via = "web" THEN "importLock"
                    ELSE IF r.file.format = "xml" THEN "record" ELSE "mapping"
           new == [work[i] EXCEPT !.request = r, !.source = source]
<1>2. label \in Running /\ IF r.via = "web" THEN label = "importLock"
                           ELSE label \in Past /\ source \in DOMAIN sources
  BY <1>1, RequestAssumption DEF Running, Past, Locked
<1>3. at[i] \in {"idle", "tried"} /\ Go(i, label) /\ UNCHANGED <<sources, recency, operated>>
  BY <1>1 DEF Receive, NextToArrive, tables
<1>4. new \in TheWork(r, source, work[i].switchedOn, work[i])
  BY WorkIsItself DEF TheWork, SourcesInv
<1>5. work' = [work EXCEPT ![i] = new]
  BY <1>1 DEF SourcesInv, Types, Works
<1>6. work[i].labels \in SUBSET Label
  BY LabelsAreSome DEF SourcesInv
<1> HIDE DEF source, label, new
<1> QED BY <1>2, <1>3, <1>4, <1>5, <1>6, ArrivingKeeps

LEMMA TakingImportLockKeeps ==
    ASSUME SourcesInv, NEW i \in Importer, TakeImportLock(i)
    PROVE  SourcesInv'
<1> USE DEF SourcesInv
<1>1. /\ at[i] = "importLock" /\ Go(i, "choose") /\ ImportLockFree(i)
      /\ UNCHANGED <<sources, recency, operated, work>>
  BY DEF TakeImportLock, tables
<1>2. /\ at'[i] = "choose" /\ \A j \in Importer \ {i} : at'[j] = at[j]
      /\ at' \in [Importer -> Running \cup Outcome \cup {"idle", "tried"}]
  BY <1>1, MovedTo DEF Running, Locked
<1>3. Types'
  BY <1>1, <1>2 DEF Types
<1>4. WorkIsReal'
  BY <1>1, <1>2 DEF WorkIsReal, Past, Running, Locked
<1>5. OneHolder'
  BY <1>1, <1>2 DEF OneHolder, HoldsImportLock, ImportLockFree, SameKind
<1>6. NothingOn'
  BY <1>1, <1>2 DEF NothingOn, IsFor
<1>7. Marked'
  <2> SUFFICES ASSUME NEW s \in DOMAIN sources, sources[s].by # 0
               PROVE  LET j == sources[s].by IN
                      /\ j \in Importer /\ at'[j] \in Past \cup Outcome
                      /\ at'[j] \in Past => work'[j].source = s /\ work'[j].switchedOn
                      /\ at'[j] \in Outcome /\ sources[s].active
                           => at'[j] \in {"succeeded", "crashed"}
    BY <1>1 DEF Marked
  <2> DEFINE j == sources[s].by
  <2>1. j \in Importer /\ at[j] \in Past \cup Outcome
    BY DEF Marked
  <2>2. j # i
    BY <1>1, <2>1 DEF Past, Locked, Outcome
  <2>3. at'[j] = at[j] /\ work'[j] = work[j]
    BY <1>1, <1>2, <2>1, <2>2
  <2> QED BY <2>1, <2>3 DEF Marked
<1>8. OwnMark'
  BY <1>1, <1>2 DEF OwnMark, IsFor, Past
<1>9. ImportsMakeOneSource'
  BY <1>1 DEF ImportsMakeOneSource
<1> QED BY <1>3, <1>4, <1>5, <1>6, <1>7, <1>8, <1>9

\* Where an import goes once its source is chosen.
LEMMA ChosenIsPast ==
    ASSUME Types, NEW i \in Importer, NEW s, NEW on, Chosen(i, s, on)
    PROVE  /\ at'[i] \in Past /\ \A j \in Importer \ {i} : at'[j] = at[j]
           /\ at' \in [Importer -> Running \cup Outcome \cup {"idle", "tried"}]
           /\ work'[i].request = work[i].request /\ work'[i].source = s
           /\ work'[i].switchedOn = on
           /\ \A j \in Importer \ {i} : work'[j] = work[j]
           /\ Works(work')
<1> DEFINE label == AfterChoice(work[i].request)
<1>1. label \in Past
  <2>1. label \in {"end", "mapping", "record"}
    BY Zenon DEF AfterChoice
  <2> HIDE DEF label
  <2> QED BY <2>1 DEF Past, Locked
<1>2. Go(i, label)
  BY DEF Chosen
<1> HIDE DEF label
<1>3. PICK new \in TheWork(work[i].request, s, on, work[i]) : work' = [work EXCEPT ![i] = new]
  <2>1. [work[i] EXCEPT !.source = s, !.switchedOn = on]
          \in TheWork(work[i].request, s, on, work[i])
    BY WorkIsItself DEF TheWork
  <2>2. work' = [work EXCEPT ![i] = [work[i] EXCEPT !.source = s, !.switchedOn = on]]
    BY DEF Chosen, Types
  <2> QED BY <2>1, <2>2
<1>4. /\ at'[i] = label /\ \A j \in Importer \ {i} : at'[j] = at[j]
      /\ at' \in [Importer -> Running \cup Outcome \cup {"idle", "tried"}]
  BY <1>1, <1>2, MovedTo DEF Past, Running
<1>5. /\ work'[i].request = work[i].request /\ work'[i].source = s
      /\ work'[i].switchedOn = on
      /\ \A j \in Importer \ {i} : work'[j] = work[j]
      /\ Works(work')
  BY <1>3, LabelsAreSome, WorkOfOne, Zenon
<1> QED BY <1>1, <1>4, <1>5

LEMMA ReadingSourcesKeeps ==
    ASSUME SourcesInv, NEW i \in Importer, ReadSources(i)
    PROVE  SourcesInv'
<1> USE DEF SourcesInv
<1> DEFINE r == work[i].request
           existing == OfKind(r.property, r.domain)
           active == Active(existing)
<1>1. at[i] = "choose" /\ UNCHANGED <<sources, recency, operated>>
  BY DEF ReadSources, tables
<1>2. existing \subseteq DOMAIN sources /\ active \subseteq existing
  BY DEF OfKind, Active
<1>3. \A s \in existing : IsFor(sources[s], r)
  BY DEF OfKind, IsFor
<1>4. /\ at'[i] \in Past \cup {"switchOn"} /\ \A j \in Importer \ {i} : at'[j] = at[j]
      /\ at' \in [Importer -> Running \cup Outcome \cup {"idle", "tried"}]
      /\ work'[i].request = work[i].request /\ ~work'[i].switchedOn
      /\ \A j \in Importer \ {i} : work'[j] = work[j]
      /\ Works(work')
      /\ at'[i] \in Past => work'[i].source \in DOMAIN sources
      /\ at'[i] = "switchOn" =>
           active = {} /\ work'[i].source \in {0} \cup existing
  <2>1. CASE active # {}
    <3>1. PICK s \in active : Chosen(i, s, FALSE)
      BY <2>1 DEF ReadSources
    <3>2. s \in DOMAIN sources /\ "switchOn" \notin Past
      BY <1>2 DEF Past
    <3> HIDE DEF existing, active, r
    <3> QED BY <3>1, <3>2, ChosenIsPast
  <2>2. CASE active = {}
    <3> DEFINE s == IF existing = {} THEN 0 ELSE LastTouched(existing)
    <3>1. work' = [work EXCEPT ![i].source = s] /\ Go(i, "switchOn")
      BY <2>2 DEF ReadSources
    <3>2. s \in {0} \cup existing
      BY <1>2, LastTouchedIsOne
    <3> HIDE DEF s, existing, active, r
    <3>3. PICK new \in TheWork(work[i].request, s, work[i].switchedOn, work[i]) :
            work' = [work EXCEPT ![i] = new]
      <4>1. [work[i] EXCEPT !.source = s]
              \in TheWork(work[i].request, s, work[i].switchedOn, work[i])
        BY WorkIsItself DEF TheWork
      <4>2. work' = [work EXCEPT ![i] = [work[i] EXCEPT !.source = s]]
        BY <3>1 DEF Types
      <4> QED BY <4>1, <4>2
    <3>4. ~work[i].switchedOn
      BY <1>1 DEF WorkIsReal, Past
    <3>5. /\ at'[i] = "switchOn" /\ \A j \in Importer \ {i} : at'[j] = at[j]
          /\ at' \in [Importer -> Running \cup Outcome \cup {"idle", "tried"}]
      BY <3>1, MovedTo DEF Running, Locked
    <3>6. "switchOn" \notin Past
      BY DEF Past
    <3>7. /\ work'[i].request = work[i].request /\ work'[i].source = s
          /\ work'[i].switchedOn = work[i].switchedOn
          /\ \A j \in Importer \ {i} : work'[j] = work[j]
          /\ Works(work')
      BY <3>3, LabelsAreSome, WorkOfOne, Zenon
    <3> QED BY <2>2, <3>2, <3>4, <3>5, <3>6, <3>7
  <2> QED BY <2>1, <2>2
<1>5. Types'
  BY <1>1, <1>4 DEF Types
<1>6. WorkIsReal'
  BY <1>1, <1>4 DEF WorkIsReal, Past, Running, Locked
<1>7. OneHolder'
  BY <1>1, <1>4 DEF OneHolder, HoldsImportLock, SameKind, Past, Locked
<1>8. NothingOn'
  <2>1. ASSUME NEW s \in DOMAIN sources, at'[i] = "switchOn"
        PROVE  ~(sources[s].active /\ IsFor(sources[s], r))
    <3>1. active = {}
      BY <1>4, <2>1
    <3> QED BY <3>1 DEF Active, OfKind, IsFor
  <2>2. at'[i] = "switchOn" /\ work'[i].source # 0 =>
          work'[i].source \in DOMAIN sources /\ IsFor(sources[work'[i].source], r)
    BY <1>2, <1>3, <1>4
  <2> QED BY <1>1, <1>4, <2>1, <2>2 DEF NothingOn, IsFor
<1>9. Marked'
  <2> SUFFICES ASSUME NEW s \in DOMAIN sources, sources[s].by # 0
               PROVE  LET j == sources[s].by IN
                      /\ j \in Importer /\ at'[j] \in Past \cup Outcome
                      /\ at'[j] \in Past => work'[j].source = s /\ work'[j].switchedOn
                      /\ at'[j] \in Outcome /\ sources[s].active
                           => at'[j] \in {"succeeded", "crashed"}
    BY <1>1 DEF Marked
  <2> DEFINE j == sources[s].by
  <2>1. j \in Importer /\ at[j] \in Past \cup Outcome
    BY DEF Marked
  <2>2. j # i
    BY <1>1, <2>1 DEF Past, Locked, Outcome
  <2>3. at'[j] = at[j] /\ work'[j] = work[j]
    BY <1>4, <2>1, <2>2
  <2> QED BY <2>1, <2>3 DEF Marked
<1>10. OwnMark'
  BY <1>1, <1>4 DEF OwnMark, IsFor
<1>11. ImportsMakeOneSource'
  BY <1>1 DEF ImportsMakeOneSource
<1> QED BY <1>5, <1>6, <1>7, <1>8, <1>9, <1>10, <1>11

\* The source an import is about to switch on, or to create, is nobody else's:
\* whoever runs with a mark on it would hold the same import lock.
LEMMA SwitchedOnIsNobodys ==
    ASSUME SourcesInv, NEW i \in Importer, at[i] = "switchOn",
           NEW j \in Importer \ {i}, at[j] \in Past, work[j].switchedOn
    PROVE  work[j].source \in DOMAIN sources /\ work[j].source # work[i].source
<1>1. HoldsImportLock(i) /\ HoldsImportLock(j)
  BY DEF SourcesInv, WorkIsReal, OwnMark, HoldsImportLock, Past, Locked
<1>2. ~SameKind(work[i].request, work[j].request)
  BY <1>1 DEF SourcesInv, OneHolder
<1>3. work[j].source \in DOMAIN sources /\ IsFor(sources[work[j].source], work[j].request)
  BY DEF SourcesInv, WorkIsReal, OwnMark
<1>4. work[i].source \in DOMAIN sources => IsFor(sources[work[i].source], work[i].request)
  <2>1. DOMAIN sources = 1..Len(sources) /\ Len(sources) \in Nat
    BY ShapeOfSources DEF SourcesInv
  <2>2. 0 \notin DOMAIN sources
    BY <2>1
  <2> QED BY <2>2 DEF SourcesInv, NothingOn
<1> QED BY <1>2, <1>3, <1>4 DEF IsFor, SameKind

\* What switching a source on writes, whether it was there or is created.
LEMMA SwitchingOnWrites ==
    ASSUME SourcesInv, NEW i \in Importer, SwitchOn(i)
    PROVE  \E s : /\ Chosen(i, s, TRUE)
                  /\ sources' \in Seq(Source) /\ recency' \in Seq(Nat)
                  /\ Len(recency') = Len(sources')
                  /\ \A t \in DOMAIN sources' : recency'[t] <= Len(sources')
                  /\ DOMAIN sources' = DOMAIN sources \cup {s}
                  /\ sources'[s].by = i /\ IsFor(sources'[s], work[i].request)
                  /\ \A t \in DOMAIN sources \ {s} : sources'[t] = sources[t]
                  /\ s \notin DOMAIN sources \/ s = work[i].source
<1> DEFINE r == work[i].request
           n == Len(sources)
<1>1. /\ n \in Nat /\ DOMAIN sources = 1..n /\ DOMAIN recency = 1..n /\ Len(recency) = n
      /\ \A s \in 1..n : sources[s] \in Source /\ recency[s] \in Nat /\ recency[s] <= n
      /\ sources \in Seq(Source) /\ recency \in Seq(Nat)
  BY ShapeOfSources DEF SourcesInv, Types
<1>2. r \in Request /\ r.property \in Hotel /\ r.domain \in Kind /\ i \in Nat /\ at[i] = "switchOn"
  BY BoundsAssumption DEF SwitchOn, SourcesInv, WorkIsReal, Running, Locked, Hotel, Kind, Importer
<1>3. CASE work[i].source = 0
  <2> DEFINE new == [property |-> r.property, domain |-> r.domain,
                     active |-> TRUE, layout |-> None, labels |-> {}, by |-> i]
  <2>1. sources' = Append(sources, new) /\ recency' = Append(recency, n + 1)
        /\ Chosen(i, n + 1, TRUE)
    BY <1>3 DEF SwitchOn, AddSource
  <2>2. new \in Source /\ new.by = i /\ IsFor(new, r)
    BY <1>2 DEF Source, Layout, IsFor
  <2> HIDE DEF new, r, n
  <2>3. /\ sources' \in Seq(Source) /\ Len(sources') = n + 1 /\ sources'[n + 1] = new
        /\ DOMAIN sources' = 1..(n + 1) /\ \A t \in 1..n : sources'[t] = sources[t]
    BY <1>1, <2>1, <2>2
  <2>4. /\ recency' \in Seq(Nat) /\ Len(recency') = n + 1 /\ recency'[n + 1] = n + 1
        /\ \A t \in 1..n : recency'[t] = recency[t]
    BY <1>1, <2>1
  <2>5. \A t \in 1..(n + 1) : recency'[t] <= n + 1
    BY <1>1, <2>4
  <2>6. 1..(n + 1) = 1..n \cup {n + 1} /\ n + 1 \notin 1..n
    BY <1>1
  <2> QED BY <1>1, <2>1, <2>2, <2>3, <2>4, <2>5, <2>6 DEF r
<1>4. CASE work[i].source # 0
  <2> DEFINE s == work[i].source
  <2>1. s \in DOMAIN sources /\ IsFor(sources[s], r)
    BY <1>2, <1>4 DEF SourcesInv, NothingOn
  <2>2. /\ sources' = [sources EXCEPT ![s].active = TRUE, ![s].by = i]
        /\ recency' = Touch(s) /\ Chosen(i, s, TRUE)
    BY <1>4 DEF SwitchOn
  <2> HIDE DEF r, n
  <2>3. /\ [sources[s] EXCEPT !.active = TRUE, !.by = i] \in Source
        /\ [sources[s] EXCEPT !.active = TRUE, !.by = i].by = i
        /\ IsFor([sources[s] EXCEPT !.active = TRUE, !.by = i], r)
    BY <1>1, <1>2, <2>1 DEF Source, IsFor
  <2>4. PICK new \in Source : /\ new.by = i /\ IsFor(new, r)
                              /\ sources' = [sources EXCEPT ![s] = new]
    BY <2>2, <2>3
  <2> HIDE DEF s
  <2>5. /\ sources' \in Seq(Source) /\ Len(sources') = n /\ DOMAIN sources' = DOMAIN sources
        /\ sources'[s] = new /\ \A t \in DOMAIN sources \ {s} : sources'[t] = sources[t]
    BY <1>1, <2>1, <2>4, ExceptSeq DEF n
  <2>6. /\ recency' \in Seq(Nat) /\ Len(recency') = n
        /\ \A t \in DOMAIN sources : recency'[t] <= n
    BY <2>1, <2>2, TouchIsOrder DEF SourcesInv, n
  <2>7. DOMAIN sources' = DOMAIN sources \cup {s}
    BY <2>1, <2>5
  <2>8. s = work[i].source
    BY DEF s
  <2>9. \A t \in DOMAIN sources' : recency'[t] <= Len(sources')
    BY <2>5, <2>6
  <2>10. sources'[s].by = i /\ IsFor(sources'[s], work[i].request)
    BY <2>4, <2>5 DEF r
  <2> QED BY <2>2, <2>5, <2>6, <2>7, <2>8, <2>9, <2>10
<1> QED BY <1>3, <1>4

LEMMA SwitchingOnKeeps ==
    ASSUME SourcesInv, NEW i \in Importer, SwitchOn(i)
    PROVE  SourcesInv'
<1> USE DEF SourcesInv
<1>1. PICK s :
        /\ Chosen(i, s, TRUE)
        /\ sources' \in Seq(Source) /\ recency' \in Seq(Nat)
        /\ Len(recency') = Len(sources')
        /\ \A t \in DOMAIN sources' : recency'[t] <= Len(sources')
        /\ DOMAIN sources' = DOMAIN sources \cup {s}
        /\ sources'[s].by = i /\ IsFor(sources'[s], work[i].request)
        /\ \A t \in DOMAIN sources \ {s} : sources'[t] = sources[t]
        /\ s \notin DOMAIN sources \/ s = work[i].source
  BY SwitchingOnWrites
<1>2. at[i] = "switchOn" /\ operated' = operated /\ work[i].request.via = "web"
  BY DEF SwitchOn, WorkIsReal
<1>3. /\ at'[i] \in Past /\ \A j \in Importer \ {i} : at'[j] = at[j]
      /\ at' \in [Importer -> Running \cup Outcome \cup {"idle", "tried"}]
      /\ work'[i].request = work[i].request /\ work'[i].source = s /\ work'[i].switchedOn = TRUE
      /\ \A j \in Importer \ {i} : work'[j] = work[j]
      /\ Works(work')
  <2>1. Types /\ Chosen(i, s, TRUE)
    BY <1>1
  <2> QED BY <2>1, ChosenIsPast, Zenon
<1>4. \A j \in Importer \ {i} : (HoldsImportLock(j) /\ at[j] \in Locked)
        => ~SameKind(work[i].request, work[j].request)
  BY <1>2 DEF OneHolder, HoldsImportLock, Locked
<1>5. \A j \in Importer \ {i} : at[j] \in Past /\ work[j].switchedOn => work[j].source # s
  BY <1>1, <1>2, SwitchedOnIsNobodys
<1>6. Types'
  BY <1>1, <1>2, <1>3 DEF Types
<1>7. WorkIsReal'
  BY <1>1, <1>2, <1>3 DEF WorkIsReal, Past, Running, Locked
<1>8. OneHolder'
  <2>1. \A j \in Importer : work'[j].request = work[j].request
    BY <1>3
  <2>2. \A j \in Importer : HoldsImportLock(j)' => HoldsImportLock(j)
    BY <1>2, <1>3, <2>1 DEF HoldsImportLock, Locked
  <2> QED BY <2>1, <2>2 DEF OneHolder, SameKind
<1>9. NothingOn'
  <2> SUFFICES ASSUME NEW j \in Importer, at'[j] = "switchOn"
               PROVE  /\ \A t \in DOMAIN sources' :
                           sources'[t].active /\ IsFor(sources'[t], work'[j].request)
                             => sources'[t].by = 0
                      /\ work'[j].source # 0 =>
                           /\ work'[j].source \in DOMAIN sources'
                           /\ IsFor(sources'[work'[j].source], work'[j].request)
    BY DEF NothingOn
  <2>1. j # i /\ at[j] = "switchOn" /\ work'[j] = work[j]
    BY <1>3 DEF Past
  <2>2. ~SameKind(work[i].request, work[j].request)
    BY <1>4, <2>1 DEF HoldsImportLock, WorkIsReal, Locked
  <2>3. ~IsFor(sources'[s], work[j].request)
    BY <1>1, <2>2 DEF IsFor, SameKind
  <2>4. work[j].source # 0 => work[j].source \in DOMAIN sources /\ IsFor(sources[work[j].source], work[j].request)
    BY <2>1 DEF NothingOn
  <2>5. s \in DOMAIN sources => IsFor(sources[s], work[i].request)
    <3>1. 0 \notin DOMAIN sources
      BY ShapeOfSources
    <3> QED BY <1>1, <1>2, <3>1 DEF NothingOn
  <2>6. work[j].source # 0 => work[j].source # s
    BY <2>2, <2>4, <2>5 DEF IsFor, SameKind
  <2> QED BY <1>1, <2>1, <2>3, <2>4, <2>6 DEF NothingOn
<1>10. Marked'
  <2> SUFFICES ASSUME NEW t \in DOMAIN sources', sources'[t].by # 0
               PROVE  LET j == sources'[t].by IN
                      /\ j \in Importer /\ at'[j] \in Past \cup Outcome
                      /\ at'[j] \in Past => work'[j].source = t /\ work'[j].switchedOn
                      /\ at'[j] \in Outcome /\ sources'[t].active
                           => at'[j] \in {"succeeded", "crashed"}
    BY DEF Marked
  <2>1. CASE t = s
    <3>1. at'[i] \notin Outcome
      BY <1>3 DEF Past, Locked, Outcome
    <3> QED BY <1>1, <1>3, <2>1, <3>1
  <2>2. CASE t # s
    <3>1. t \in DOMAIN sources /\ sources'[t] = sources[t]
      BY <1>1, <2>2
    <3> DEFINE j == sources[t].by
    <3>2. j \in Importer /\ at[j] \in Past \cup Outcome
      BY <3>1 DEF Marked
    <3>3. j # i
      BY <1>2, <3>2 DEF Past, Locked, Outcome
    <3>4. at'[j] = at[j] /\ work'[j] = work[j]
      BY <1>3, <3>2, <3>3
    <3> QED BY <3>1, <3>2, <3>4 DEF Marked
  <2> QED BY <2>1, <2>2
<1>11. OwnMark'
  <2> SUFFICES ASSUME NEW j \in Importer, at'[j] \in Past, work'[j].switchedOn
               PROVE  /\ work'[j].request.via = "web"
                      /\ sources'[work'[j].source].by = j
                      /\ IsFor(sources'[work'[j].source], work'[j].request)
    BY DEF OwnMark
  <2>1. CASE j = i
    BY <1>1, <1>2, <1>3, <2>1
  <2>2. CASE j # i
    <3>1. at[j] \in Past /\ work'[j] = work[j] /\ work[j].switchedOn
      BY <1>3, <2>2
    <3>2. work[j].source \in DOMAIN sources /\ work[j].source # s
      BY <1>5, <2>2, <3>1 DEF WorkIsReal
    <3>3. sources'[work[j].source] = sources[work[j].source]
      BY <1>1, <3>2
    <3> QED BY <3>1, <3>3 DEF OwnMark
  <2> QED BY <2>1, <2>2
<1>12. ImportsMakeOneSource'
  <2>1. ASSUME NEW t \in DOMAIN sources' \ {s}, sources'[t].active,
               sources'[t].property = sources'[s].property,
               sources'[t].domain = sources'[s].domain
        PROVE  sources'[t].by = 0
    <3>1. t \in DOMAIN sources /\ sources'[t] = sources[t]
      BY <1>1
    <3>2. IsFor(sources[t], work[i].request)
      BY <1>1, <2>1, <3>1 DEF IsFor
    <3> QED BY <1>2, <2>1, <3>1, <3>2 DEF NothingOn
  <2>2. \A t \in DOMAIN sources' \ {s} : t \in DOMAIN sources /\ sources'[t] = sources[t]
    BY <1>1
  <2> QED BY <2>1, <2>2 DEF ImportsMakeOneSource
<1> QED BY <1>6, <1>7, <1>8, <1>9, <1>10, <1>11, <1>12

\* A person who creates a source puts no mark on it.
LEMMA CreatingByHandKeeps ==
    ASSUME SourcesInv, NEW k \in ByHand, CreateByHand(k[1], k[2])
    PROVE  SourcesInv'
<1> USE DEF SourcesInv
<1> DEFINE n == Len(sources)
           new == [property |-> k[1], domain |-> k[2],
                   active |-> TRUE, layout |-> None, labels |-> {}, by |-> 0]
<1>1. /\ n \in Nat /\ DOMAIN sources = 1..n /\ DOMAIN recency = 1..n /\ Len(recency) = n
      /\ \A s \in 1..n : sources[s] \in Source /\ recency[s] \in Nat /\ recency[s] <= n
      /\ sources \in Seq(Source) /\ recency \in Seq(Nat)
  <2>1. Types
    OBVIOUS
  <2>2. /\ Len(sources) \in Nat /\ DOMAIN sources = 1..Len(sources) /\ Len(recency) = Len(sources)
        /\ \A s \in DOMAIN sources : sources[s] \in Source /\ recency[s] \in Nat
                                    /\ recency[s] <= Len(sources)
        /\ sources \in Seq(Source) /\ recency \in Seq(Nat)
    BY <2>1, ShapeOfSources DEF Types
  <2>3. DOMAIN recency = 1..Len(recency)
    BY <2>2
  <2> QED BY <2>2, <2>3
<1>2. /\ sources' = Append(sources, new) /\ recency' = Append(recency, n + 1)
      /\ UNCHANGED <<at, work>> /\ operated' \in Nat
  BY DEF CreateByHand, AddSource, Types
<1>3. new \in Source /\ new.by = 0
  BY DEF Source, Layout, Hotel, Kind
<1> HIDE DEF new, n
<1>4. /\ sources' \in Seq(Source) /\ Len(sources') = n + 1 /\ sources'[n + 1] = new
      /\ DOMAIN sources' = 1..(n + 1) /\ \A t \in 1..n : sources'[t] = sources[t]
      /\ recency' \in Seq(Nat) /\ Len(recency') = n + 1
  BY <1>1, <1>2, <1>3
<1>5. \A t \in 1..(n + 1) : recency'[t] <= n + 1
  BY <1>1, <1>2
<1>6. \A t \in DOMAIN sources' : \/ t \in DOMAIN sources /\ sources'[t] = sources[t]
                                 \/ sources'[t].by = 0
  BY <1>1, <1>3, <1>4
<1>7. DOMAIN sources \subseteq DOMAIN sources' /\ \A t \in DOMAIN sources : sources'[t] = sources[t]
  BY <1>1, <1>4
<1>8. Types'
  BY <1>2, <1>4, <1>5 DEF Types
<1>9. WorkIsReal' /\ OneHolder'
  BY <1>2, <1>7 DEF WorkIsReal, OneHolder, HoldsImportLock
<1>10. NothingOn'
  <2> SUFFICES ASSUME NEW j \in Importer, at[j] = "switchOn"
               PROVE  /\ \A t \in DOMAIN sources' :
                           sources'[t].active /\ IsFor(sources'[t], work[j].request)
                             => sources'[t].by = 0
                      /\ work[j].source # 0 =>
                           /\ work[j].source \in DOMAIN sources'
                           /\ IsFor(sources'[work[j].source], work[j].request)
    BY <1>2 DEF NothingOn
  <2> QED BY <1>6, <1>7 DEF NothingOn
<1>11. Marked'
  BY <1>2, <1>6 DEF Marked
<1>12. OwnMark'
  BY <1>2, <1>7 DEF OwnMark, WorkIsReal, IsFor
<1>13. ImportsMakeOneSource'
  BY <1>6 DEF ImportsMakeOneSource
<1> QED BY <1>8, <1>9, <1>10, <1>11, <1>12, <1>13

----------------------------------------------------------------------------
(* The steps of an import that has its source                               *)

\* The words of a request that runs, and of the source it has.
LEMMA LabelsOfAreSome ==
    ASSUME SourcesInv, NEW i \in Importer, at[i] \in Past
    PROVE  LabelsOf(work[i].request, work[i].source) \in SUBSET Label
<1>1. work[i].request \in Request /\ work[i].source \in DOMAIN sources
  BY DEF SourcesInv, WorkIsReal, Past, Running
<1>2. sources[work[i].source].labels \in SUBSET Label
  BY <1>1, ShapeOfSources DEF SourcesInv, Source
<1>3. work[i].request.labels \in SUBSET Label
  BY <1>1 DEF Label
<1> QED BY <1>2, <1>3 DEF LabelsOf, Taught

\* What an import does before its end keeps the sources but for what is saved of
\* how their files are read.
LEMMA WorkingKeeps ==
    ASSUME SourcesInv, NEW i \in Importer,
           \/ SaveMapping(i) \/ ConfigurationGone(i) \/ RecordJob(i) \/ Stage(i)
           \/ TakeSourceLock(i) \/ TakeRegistryLock(i) \/ Decide(i) \/ Write(i)
           \/ Fail(i) \/ Break(i) \/ FailBreaks(i)
    PROVE  SourcesInv'
<1> USE DEF SourcesInv
<1>1. at[i] \in Past
  BY DEF SaveMapping, ConfigurationGone, RecordJob, Stage, TakeSourceLock, TakeRegistryLock,
         Decide, Write, Fail, Break, FailBreaks, Past, Locked
<1>2. operated' = operated /\ operated \in Nat
  BY DEF SaveMapping, ConfigurationGone, RecordJob, Stage, TakeSourceLock, TakeRegistryLock,
         Decide, Write, Fail, Break, FailBreaks, Types
<1>3. work[i].source \in DOMAIN sources /\ work[i].request.file.layout \in Layout
  BY <1>1 DEF WorkIsReal, Past, Running, Layout
<1>4. Kept
  <2>1. CASE SaveMapping(i)
    <3>1. {} \in SUBSET Label
      OBVIOUS
    <3> QED BY <1>2, <1>3, <2>1, <3>1, LayoutKeeps DEF SaveMapping
  <2>2. CASE ~SaveMapping(i)
    <3>1. UNCHANGED <<sources, recency>>
      BY <2>2 DEF ConfigurationGone, RecordJob, Stage, TakeSourceLock, TakeRegistryLock,
                  Decide, Write, Fail, Break, FailBreaks, tables
    <3> QED BY <1>2, <3>1, NothingWrittenKeeps
  <2> QED BY <2>1, <2>2
<1>5. \E label \in Past : Go(i, label)
  BY Zenon DEF SaveMapping, ConfigurationGone, RecordJob, Stage, TakeSourceLock, TakeRegistryLock,
         Decide, Write, Fail, Break, FailBreaks, Failing, Past, Locked
<1>6. SameWork(i)
  <2> DEFINE w == work[i]
  <2>1. /\ w \in Alike(w, {w.job}, {w.seen}, {w.error}, {w.labels})
        /\ w.labels \in SUBSET Label
    BY WorkIsItself, LabelsAreSome DEF Alike, TheWork
  <2>2. CASE UNCHANGED work
    <3>1. work' = [work EXCEPT ![i] = w]
      BY <2>2 DEF Types, Works
    <3> QED BY <2>1, <3>1 DEF SameWork
  <2>3. ASSUME NEW error, Failing(i, error) PROVE SameWork(i)
    <3>1. [w EXCEPT !.error = error, !.seen = None]
            \in Alike(w, {w.job}, {None}, {error}, {w.labels})
      BY <2>1 DEF Alike
    <3>2. work' = [work EXCEPT ![i] = [w EXCEPT !.error = error, !.seen = None]]
      BY <2>3 DEF Failing, Types, Works
    <3> HIDE DEF w
    <3> QED BY <2>1, <3>1, <3>2 DEF SameWork, w
  <2>4. ASSUME NEW seen, work' = [work EXCEPT ![i].seen = seen] PROVE SameWork(i)
    <3>1. [w EXCEPT !.seen = seen] \in Alike(w, {w.job}, {seen}, {w.error}, {w.labels})
      BY <2>1 DEF Alike
    <3>2. work' = [work EXCEPT ![i] = [w EXCEPT !.seen = seen]]
      BY <2>4 DEF Types, Works
    <3> HIDE DEF w
    <3> QED BY <2>1, <3>1, <3>2 DEF SameWork, w
  <2>5. CASE RecordJob(i)
    <3> DEFINE job == Len(jobs) + 1
               labels == LabelsRead(w.request, w.source)
    <3>1. [w EXCEPT !.job = job, !.error = None, !.labels = labels]
            \in Alike(w, {job}, {w.seen}, {None}, {labels})
      BY <2>1 DEF Alike
    <3>2. work' = [work EXCEPT ![i] = [w EXCEPT !.job = job, !.error = None, !.labels = labels]]
      BY <2>5 DEF RecordJob, Types, Works
    <3>3. labels \in SUBSET Label
      BY <1>1, LabelsOfAreSome DEF LabelsRead
    <3> HIDE DEF w, job, labels
    <3> QED BY <3>1, <3>2, <3>3 DEF SameWork, w
  <2>9. ASSUME NEW labels \in SUBSET Label, work' = [work EXCEPT ![i].labels = labels]
        PROVE  SameWork(i)
    <3>1. [w EXCEPT !.labels = labels] \in Alike(w, {w.job}, {w.seen}, {w.error}, {labels})
      BY <2>1 DEF Alike
    <3>2. work' = [work EXCEPT ![i] = [w EXCEPT !.labels = labels]]
      BY <2>9 DEF Types, Works
    <3> HIDE DEF w
    <3> QED BY <3>1, <3>2 DEF SameWork, w
  <2>10. CASE Stage(i)
    <3> DEFINE s == work[i].source
               labels == IF work[i].request.mode = "MAPPED" THEN work[i].labels
                         ELSE LabelsOf(work[i].request, s)
    <3>1. labels \in SUBSET Label
      BY <1>1, LabelsOfAreSome, LabelsAreSome
    <3>2. (\E error : Failing(i, error)) \/ work' = [work EXCEPT ![i].labels = labels]
      BY <2>10, Zenon DEF Stage
    <3> HIDE DEF w, labels
    <3> QED BY <2>3, <2>9, <3>1, <3>2
  <2> HIDE DEF w
  <2>6. CASE Break(i) \/ Write(i)
    BY <2>3, <2>4, <2>6, Zenon DEF Break, Write
  <2>7. CASE Decide(i)
    BY <2>3, <2>4, <2>7, Zenon DEF Decide
  <2>8. CASE SaveMapping(i) \/ ConfigurationGone(i) \/ TakeSourceLock(i) \/ TakeRegistryLock(i)
             \/ Fail(i) \/ FailBreaks(i)
    BY <2>2, <2>8 DEF SaveMapping, ConfigurationGone, TakeSourceLock, TakeRegistryLock, Fail,
                      FailBreaks
  <2> QED BY <2>5, <2>6, <2>7, <2>8, <2>10
<1> QED BY <1>1, <1>4, <1>5, <1>6, GoingOnKeeps

\* End switches off what this import switched on, unless it succeeded.
LEMMA EndKeeps ==
    ASSUME SourcesInv, NEW i \in Importer, End(i)
    PROVE  SourcesInv'
<1> USE DEF SourcesInv
<1>1. at[i] \in Past /\ at[i] \in Running /\ operated' = operated /\ operated \in Nat
  BY DEF End, Past, Running, Locked, Types
<1>2. /\ work[i].source \in DOMAIN sources /\ work[i].request.file.layout \in Layout
      /\ work[i].labels \in SUBSET Label
  BY <1>1, LabelsAreSome DEF WorkIsReal, Layout
<1>3. /\ Finish(i, "succeeded") \/ Finish(i, "failed")
      /\ Succeeded(i) => Finish(i, "succeeded")
  BY DEF End
<1>4. CASE SwitchesOff(i)
  <2>1. Kept /\ ~sources'[work[i].source].active
    BY <1>1, <1>2, <1>4, SwitchingOffKeeps DEF End
  <2> QED BY <1>1, <1>3, <2>1, EndingKeeps DEF Outcome
<1>5. CASE ~SwitchesOff(i)
  <2>1. Kept
    <3>1. /\ UNCHANGED recency
          /\ \/ sources' = sources
             \/ sources' = [sources EXCEPT ![work[i].source].layout = work[i].request.file.layout,
                                           ![work[i].source].labels = work[i].labels]
      BY <1>5 DEF End
    <3> QED BY <1>1, <1>2, <3>1, LayoutKeeps, NothingWrittenKeeps
  <2>2. work[i].switchedOn => Finish(i, "succeeded")
    BY <1>3, <1>5 DEF SwitchesOff
  <2>3. CASE work[i].switchedOn
    BY <1>1, <2>1, <2>2, <2>3, EndingKeeps DEF Outcome
  <2>4. CASE ~work[i].switchedOn
    BY <1>1, <1>3, <2>1, <2>4, EndingKeeps DEF Outcome
  <2> QED BY <2>3, <2>4
<1> QED BY <1>4, <1>5

\* An import that stops before it has a source, or is killed anywhere.
LEMMA StoppingKeeps ==
    ASSUME SourcesInv, NEW i \in Importer,
           GiveUp(i) \/ Ambiguous(i) \/ SourceUnusable(i) \/ Crash(i)
    PROVE  SourcesInv'
<1> USE DEF SourcesInv
<1>1. UNCHANGED <<sources, recency, operated>> /\ operated \in Nat
  BY DEF GiveUp, Ambiguous, SourceUnusable, Crash, tables, Types
<1>2. Kept
  BY <1>1, NothingWrittenKeeps
<1>3. at[i] \in Running
  BY DEF GiveUp, Ambiguous, SourceUnusable, Crash, Running, Locked, Types
<1>4. CASE Crash(i)
  BY <1>2, <1>3, <1>4, EndingKeeps DEF Crash, Outcome
<1>5. CASE GiveUp(i) \/ Ambiguous(i)
  <2>1. ~work[i].switchedOn
    BY <1>5 DEF GiveUp, Ambiguous, WorkIsReal, Past, Locked
  <2>2. Finish(i, "in progress") \/ Finish(i, "ambiguous")
    BY <1>5 DEF GiveUp, Ambiguous
  <2> QED BY <1>2, <1>3, <2>1, <2>2, EndingKeeps DEF Outcome
<1>6. CASE SourceUnusable(i)
  <2>1. ~work[i].switchedOn
    BY <1>6 DEF SourceUnusable, Usable, OwnMark, Past, Locked
  <2> QED BY <1>2, <1>3, <1>6, <2>1, EndingKeeps DEF SourceUnusable, Outcome
<1> QED BY <1>4, <1>5, <1>6

\* The operator switches sources off and forgets their layouts.
LEMMA OperatingKeeps ==
    ASSUME SourcesInv, NEW s \in DOMAIN sources, Deactivate(s) \/ Forget(s)
    PROVE  SourcesInv'
<1>1. operated' = operated + 1 /\ UNCHANGED <<at, work>>
  BY Zenon DEF Deactivate, Forget
<1>2. operated' \in Nat
  BY <1>1 DEF SourcesInv, Types
<1>3. CASE Deactivate(s)
  BY <1>1, <1>2, <1>3, SwitchingOffKeeps, StandingKeeps DEF Deactivate, SourcesInv
<1>4. CASE Forget(s)
  <2>1. /\ sources' = [sources EXCEPT ![s].layout = None, ![s].labels = {}]
        /\ recency' = recency /\ None \in Layout /\ {} \in SUBSET Label
    BY <1>4 DEF Forget, Layout
  <2>2. Kept
    BY <1>2, <2>1, LayoutKeeps DEF SourcesInv
  <2> QED BY <1>1, <2>2, StandingKeeps
<1> QED BY <1>3, <1>4

LEMMA NextSources == SourcesInv /\ [Next]_vars => SourcesInv'
<1> SUFFICES ASSUME SourcesInv, [Next]_vars PROVE SourcesInv'
  OBVIOUS
<1>1. CASE UNCHANGED vars
  <2>1. Kept /\ UNCHANGED <<at, work>>
    BY <1>1, NothingWrittenKeeps DEF vars, tables, SourcesInv, Types
  <2> QED BY <2>1, StandingKeeps
<1>2. ASSUME NEW i \in Importer, TryFile(i) \/ Receive(i) PROVE SourcesInv'
  BY <1>2, TryingKeeps, ReceivingKeeps
<1>3. ASSUME NEW i \in Importer, Step(i) PROVE SourcesInv'
  BY <1>3, TakingImportLockKeeps, ReadingSourcesKeeps, SwitchingOnKeeps, WorkingKeeps,
     EndKeeps, StoppingKeeps DEF Step
<1>4. ASSUME NEW i \in Importer, Break(i) \/ FailBreaks(i) \/ Crash(i) PROVE SourcesInv'
  BY <1>4, WorkingKeeps, StoppingKeeps
<1>5. ASSUME NEW s \in DOMAIN sources, Deactivate(s) \/ Forget(s) PROVE SourcesInv'
  BY <1>5, OperatingKeeps
<1>6. ASSUME NEW k \in ByHand, CreateByHand(k[1], k[2]) PROVE SourcesInv'
  BY <1>6, CreatingByHandKeeps
<1> QED BY <1>1, <1>2, <1>3, <1>4, <1>5, <1>6 DEF Next

\* SourcesAreSound: with any requests, any number of imports at once, and any
\* faults and operations, the import lock keeps what an import has read of the
\* sources of its kind true until it writes, and every mark is its import's
\* (DataSourcesService._source_for_import, hold_source_import_lock).
THEOREM SourcesAreSound == Spec => []SourcesInv
BY InitSources, NextSources, PTL DEF Spec

\* FailuresLeaveNothingOn: an import that failed, was refused or gave up leaves
\* no source switched on that it had switched on (_import_into_source).
THEOREM FailuresLeaveNothingOn == Spec => []FailedImportLeavesNothingOn
<1>1. SourcesInv => FailedImportLeavesNothingOn
  <2> SUFFICES ASSUME SourcesInv, NEW s \in DOMAIN sources,
                      sources[s].active, sources[s].by # 0
               PROVE  at[sources[s].by] \notin Outcome \ {"succeeded", "crashed"}
    BY DEF FailedImportLeavesNothingOn
  <2> QED BY DEF SourcesInv, Marked
<1> QED BY <1>1, SourcesAreSound, PTL

\* ImportsNeverDouble: no two imports, however they overlap, leave two active
\* sources of one hotel and kind of data (hold_source_import_lock).
THEOREM ImportsNeverDouble == Spec => []ImportsMakeOneSource
<1>1. SourcesInv => ImportsMakeOneSource
  BY DEF SourcesInv
<1> QED BY <1>1, SourcesAreSound, PTL

\* SwitchedOffByOwners: only a person, or the import that switched it on as it
\* ends, ever switches a source off (_import_into_source, deactivate).
THEOREM SwitchedOffByOwners == Spec => SwitchedOffByItsOwner
<1> DEFINE Owned(s) == \/ operated' # operated
                       \/ \E i \in Importer : at[i] = "end" /\ at'[i] # "end"
                                               /\ sources[s].by = i
<1>1. SourcesInv /\ [Next]_vars =>
        [\A s \in DOMAIN sources : (sources[s].active /\ ~sources'[s].active) => Owned(s)]_vars
  <2> SUFFICES ASSUME SourcesInv, Next, NEW s \in DOMAIN sources,
                      sources[s].active, ~sources'[s].active
               PROVE  Owned(s)
    OBVIOUS
  <2> USE DEF SourcesInv
  <2>1. ASSUME NEW t \in DOMAIN sources, Deactivate(t) \/ Forget(t) PROVE Owned(s)
    <3>1. operated' = operated + 1 /\ operated \in Nat
      BY <2>1, Zenon DEF Deactivate, Forget, Types
    <3> QED BY <3>1
  <2>2. ASSUME NEW k \in ByHand, CreateByHand(k[1], k[2]) PROVE Owned(s)
    BY <2>2 DEF CreateByHand, Types
  <2>3. ASSUME NEW i \in Importer, End(i) PROVE Owned(s)
    <3>1. at[i] = "end" /\ at'[i] # "end" /\ at[i] \in Past
      BY <2>3 DEF End, Finish, Go, Types, Past, Locked
    <3>2. CASE SwitchesOff(i)
      <4>1. sources[work[i].source].by = i
        BY <3>1, <3>2 DEF SwitchesOff, OwnMark
      <4>2. work[i].source = s
        BY <2>3, <3>2 DEF End, SetActive
      <4> QED BY <3>1, <4>1, <4>2
    <3>3. CASE ~SwitchesOff(i)
      <4>1. \/ sources' = sources
            \/ sources' = [sources EXCEPT ![work[i].source].layout = work[i].request.file.layout,
                                          ![work[i].source].labels = work[i].labels]
        BY <2>3, <3>3 DEF End
      <4> QED BY <4>1, ShapeOfSources DEF Source
    <3> QED BY <3>2, <3>3
  <2>4. ASSUME NEW i \in Importer, SwitchOn(i) PROVE Owned(s)
    <3>1. DOMAIN sources = 1..Len(sources) /\ Len(sources) \in Nat /\ sources \in Seq(Source)
          /\ sources[s] \in Source
      BY ShapeOfSources DEF Types
    <3>2. CASE work[i].source = 0
      BY <2>4, <3>1, <3>2 DEF SwitchOn, AddSource
    <3>3. CASE work[i].source # 0
      BY <2>4, <3>1, <3>3 DEF SwitchOn, Source
    <3> QED BY <3>2, <3>3
  <2>5. ASSUME NEW i \in Importer, SaveMapping(i) PROVE Owned(s)
    BY <2>5, ShapeOfSources DEF SaveMapping, Source
  <2>6. ASSUME NEW i \in Importer,
               \/ TryFile(i) \/ Receive(i) \/ TakeImportLock(i) \/ GiveUp(i) \/ ReadSources(i) \/ Ambiguous(i)
               \/ SourceUnusable(i) \/ ConfigurationGone(i) \/ RecordJob(i) \/ Stage(i)
               \/ TakeSourceLock(i) \/ TakeRegistryLock(i) \/ Decide(i) \/ Write(i) \/ Fail(i)
               \/ Break(i) \/ FailBreaks(i) \/ Crash(i)
        PROVE  Owned(s)
    <3>1. sources' = sources
      BY <2>6 DEF TryFile, Receive, TakeImportLock, GiveUp, ReadSources, Ambiguous, SourceUnusable,
         ConfigurationGone, RecordJob, Stage, TakeSourceLock, TakeRegistryLock, Decide, Write,
         Fail, Break, FailBreaks, Crash, tables
    <3> QED BY <3>1
  <2> QED BY <2>1, <2>2, <2>3, <2>4, <2>5, <2>6 DEF Next, Step
<1> QED BY <1>1, SourcesAreSound, PTL DEF Spec, SwitchedOffByItsOwner

----------------------------------------------------------------------------
(* Numbers                                                                  *)

\* What holds of 0, and of n + 1 when it holds of n, holds of every number.
LEMMA NumbersFromZero ==
    ASSUME NEW P, 0 \in P, \A n \in Nat : n \in P => n + 1 \in P
    PROVE  Nat \subseteq P
<1> SUFFICES ASSUME Nat \ P # {} PROVE FALSE
  OBVIOUS
<1>1. PICK n \in Nat \ P : \A m \in Nat \ P : ~(<<m, n>> \in OpToRel(<, Nat))
  BY NatLessThanWellFounded, WFMin, Zenon
<1>2. n \in Nat /\ n \notin P /\ n # 0
  BY <1>1
<1>3. n - 1 \in Nat /\ n = (n - 1) + 1
  BY <1>2
<1>4. n - 1 \notin P
  BY <1>2, <1>3
<1>5. <<n - 1, n>> \in OpToRel(<, Nat)
  BY <1>2, <1>3 DEF OpToRel
<1> QED BY <1>1, <1>3, <1>4, <1>5

----------------------------------------------------------------------------
(* The plan of a file's suppliers                                           *)

NothingYet(reg) == [registry |-> reg, error |-> None, supplierOf |-> <<>>]

\* f is the plan after each of the first m evidences.
IsPlanning(f, reg, job, evidences, m) ==
  f = [n \in 0 .. m |-> IF n = 0 THEN NothingYet(reg)
                        ELSE AndThen(f[n - 1], job, evidences[n])]

LEMMA PlanningExists ==
    ASSUME NEW reg, NEW job, NEW evidences, NEW m \in Nat
    PROVE  \E f : IsPlanning(f, reg, job, evidences, m)
<1> DEFINE P == {n \in Nat : \E f : IsPlanning(f, reg, job, evidences, n)}
<1>1. 0 \in P
  <2>1. IsPlanning([n \in 0 .. 0 |-> NothingYet(reg)], reg, job, evidences, 0)
    BY DEF IsPlanning
  <2> QED BY <2>1
<1>2. ASSUME NEW n \in Nat, n \in P PROVE n + 1 \in P
  <2>1. PICK f : IsPlanning(f, reg, job, evidences, n)
    BY <1>2
  <2> DEFINE g == [k \in 0 .. n + 1 |-> IF k = n + 1 THEN AndThen(f[n], job, evidences[n + 1])
                                        ELSE f[k]]
  <2>2. \A k \in 0 .. n : f[k] = IF k = 0 THEN NothingYet(reg)
                                 ELSE AndThen(f[k - 1], job, evidences[k])
    BY <2>1 DEF IsPlanning
  <2>3. \A k \in 0 .. n + 1 : g[k] = IF k = 0 THEN NothingYet(reg)
                                     ELSE AndThen(g[k - 1], job, evidences[k])
    <3> TAKE k \in 0 .. n + 1
    <3>1. CASE k = n + 1
      BY <3>1
    <3>2. CASE k \in 0 .. n
      BY <2>2, <3>2
    <3> QED BY <3>1, <3>2
  <2>4. g = [k \in 0 .. n + 1 |-> g[k]]
    OBVIOUS
  <2> HIDE DEF g
  <2>5. g = [k \in 0 .. n + 1 |-> IF k = 0 THEN NothingYet(reg)
                                  ELSE AndThen(g[k - 1], job, evidences[k])]
    BY <2>3, <2>4, Zenon
  <2>6. IsPlanning(g, reg, job, evidences, n + 1)
    BY <2>5 DEF IsPlanning
  <2> QED BY <2>6
<1> HIDE DEF P
<1>3. Nat \subseteq P
  BY <1>1, <1>2, NumbersFromZero
<1> QED BY <1>3 DEF P

LEMMA PlanIsTheLast ==
    ASSUME NEW reg, NEW job, NEW evidences, Len(evidences) \in Nat
    PROVE  \E f : /\ IsPlanning(f, reg, job, evidences, Len(evidences))
                  /\ Plan(reg, job, evidences) = f[Len(evidences)]
<1> DEFINE f == CHOOSE f : IsPlanning(f, reg, job, evidences, Len(evidences))
<1>1. IsPlanning(f, reg, job, evidences, Len(evidences))
  BY PlanningExists
<1>2. Plan(reg, job, evidences) = f[Len(evidences)]
  BY DEF Plan, IsPlanning, NothingYet
<1> QED BY <1>1, <1>2

\* The tables of the registry.
IsRegistry(r) ==
  r = [suppliers |-> r.suppliers, identifiers |-> r.identifiers,
       aliases |-> r.aliases, reviews |-> r.reviews]

\* Nothing of the registry r is lost in p.
OnlyAdded(r, p) ==
  /\ r.suppliers \subseteq p.suppliers /\ r.identifiers \subseteq p.identifiers
  /\ r.aliases \subseteq p.aliases /\ r.reviews \subseteq p.reviews

SupplierErrors == {"SUPPLIER_NAME_AMBIGUOUS", "SUPPLIER_IDENTITY_CONFLICT"}

\* What is planned on the registry r.
IsPlannedOn(r, done) ==
  /\ IsRegistry(done.registry) /\ OnlyAdded(r, done.registry)
  /\ OneOwnerEach(done.registry)
  /\ done.error \in SupplierErrors \cup {None}

LEMMA EnrichingIsSound ==
    ASSUME NEW r, NEW s, NEW e, IsRegistry(r), OneOwnerEach(r)
    PROVE  /\ IsRegistry(Enrich(r, s, e)) /\ OnlyAdded(r, Enrich(r, s, e))
           /\ OneOwnerEach(Enrich(r, s, e))
<1> DEFINE new == {[supplier |-> s, identifier |-> i] :
                     i \in {i \in Identifiers(e) : OwnerOf(r, i) = {}}}
           p == Enrich(r, s, e)
<1>1. p = [suppliers |-> r.suppliers, identifiers |-> r.identifiers \cup new,
           aliases |-> r.aliases, reviews |-> r.reviews]
  BY DEF Enrich, IsRegistry
<1>2. \A n \in new : n.supplier = s /\ \A o \in r.identifiers : o.identifier # n.identifier
  BY DEF OwnerOf
<1> HIDE DEF new, p
<1>3. IsRegistry(p) /\ OnlyAdded(r, p)
  BY <1>1 DEF IsRegistry, OnlyAdded
<1>4. OneOwnerEach(p)
  BY <1>1, <1>2 DEF OneOwnerEach
<1> QED BY <1>3, <1>4 DEF p

LEMMA AliasIsSound ==
    ASSUME NEW r, NEW s, NEW e, IsRegistry(r), OneOwnerEach(r)
    PROVE  /\ IsRegistry(AddAlias(r, s, e)) /\ OnlyAdded(r, AddAlias(r, s, e))
           /\ OneOwnerEach(AddAlias(r, s, e))
<1>1. CASE s \in Named(r, e.name)
  BY <1>1 DEF AddAlias, OnlyAdded
<1>2. CASE s \notin Named(r, e.name)
  <2> DEFINE p == AddAlias(r, s, e)
             more == r.aliases \cup {[supplier |-> s, name |-> e.name]}
  <2>1. p = [suppliers |-> r.suppliers, identifiers |-> r.identifiers,
             aliases |-> more, reviews |-> r.reviews]
    BY <1>2 DEF AddAlias, IsRegistry
  <2>2. r.aliases \subseteq more
    OBVIOUS
  <2> HIDE DEF p, more
  <2>3. IsRegistry(p) /\ OnlyAdded(r, p) /\ OneOwnerEach(p)
    BY <2>1, <2>2 DEF IsRegistry, OnlyAdded, OneOwnerEach
  <2> QED BY <2>3 DEF p
<1> QED BY <1>1, <1>2

\* A new supplier takes identifiers that nobody owns.
LEMMA CreatingIsSound ==
    ASSUME NEW r, NEW new, NEW e, NEW conflicting, IsRegistry(r), OneOwnerEach(r),
           \A i \in Identifiers(e) : OwnerOf(r, i) = {}
    PROVE  /\ IsRegistry(Create(r, new, e, conflicting))
           /\ OnlyAdded(r, Create(r, new, e, conflicting))
           /\ OneOwnerEach(Create(r, new, e, conflicting))
<1> DEFINE owned == {[supplier |-> new, identifier |-> i] : i \in Identifiers(e)}
           p == Create(r, new, e, conflicting)
<1>1. /\ IsRegistry(p) /\ OnlyAdded(r, p)
      /\ p.identifiers = r.identifiers \cup owned
  BY DEF Create, IsRegistry, OnlyAdded
<1>2. \A n \in owned : n.supplier = new /\ \A o \in r.identifiers : o.identifier # n.identifier
  BY DEF OwnerOf
<1> HIDE DEF p, owned
<1>3. OneOwnerEach(p)
  BY <1>1, <1>2 DEF OneOwnerEach
<1> QED BY <1>1, <1>3 DEF p

LEMMA AddingIsTransitive ==
    ASSUME NEW r, NEW p, NEW q, OnlyAdded(r, p), OnlyAdded(p, q)
    PROVE  OnlyAdded(r, q)
BY DEF OnlyAdded

LEMMA OnePlanIsSound ==
    ASSUME NEW r, NEW new, NEW e, IsRegistry(r), OneOwnerEach(r)
    PROVE  IsPlannedOn(r, PlanOne(r, new, e))
<1> DEFINE owners == UNION {OwnerOf(r, i) : i \in Identifiers(e)}
<1>1. IsPlannedOn(r, Refused(r, "SUPPLIER_NAME_AMBIGUOUS"))
      /\ IsPlannedOn(r, Refused(r, "SUPPLIER_IDENTITY_CONFLICT"))
  BY DEF IsPlannedOn, Refused, OnlyAdded, SupplierErrors
<1>2. ASSUME NEW p, NEW s, IsRegistry(p), OnlyAdded(r, p), OneOwnerEach(p)
      PROVE  IsPlannedOn(r, Resolved(p, s))
  BY <1>2 DEF IsPlannedOn, Resolved
<1>3. ASSUME owners = {} PROVE IsPlannedOn(r, ByName(r, new, e))
  <2>1. \A i \in Identifiers(e) : OwnerOf(r, i) = {}
    BY <1>3
  <2>2. \A c : IsPlannedOn(r, Resolved(Create(r, new, e, c), new))
    BY <1>2, <2>1, CreatingIsSound
  <2>3. \A s : IsPlannedOn(r, Resolved(Enrich(r, s, e), s))
    BY <1>2, EnrichingIsSound
  <2> QED BY <1>1, <2>2, <2>3 DEF ByName
<1>4. \A s : IsPlannedOn(r, Resolved(AddAlias(Enrich(r, s, e), s, e), s))
  <2> TAKE s
  <2>1. /\ IsRegistry(Enrich(r, s, e)) /\ OnlyAdded(r, Enrich(r, s, e))
        /\ OneOwnerEach(Enrich(r, s, e))
    BY EnrichingIsSound
  <2> DEFINE p == Enrich(r, s, e)
  <2> HIDE DEF p
  <2>2. IsRegistry(p) /\ OneOwnerEach(p) /\ OnlyAdded(r, p)
    BY <2>1 DEF p
  <2>3. IsRegistry(AddAlias(p, s, e)) /\ OneOwnerEach(AddAlias(p, s, e))
        /\ OnlyAdded(p, AddAlias(p, s, e))
    BY <2>2, AliasIsSound
  <2>4. OnlyAdded(r, AddAlias(p, s, e))
    BY <2>2, <2>3, AddingIsTransitive
  <2> QED BY <1>2, <2>3, <2>4 DEF p
<1> QED BY <1>1, <1>3, <1>4 DEF PlanOne

LEMMA NextIsPlanned ==
    ASSUME NEW r, NEW done, NEW job, NEW e, IsPlannedOn(r, done)
    PROVE  IsPlannedOn(r, AndThen(done, job, e))
<1> DEFINE one == PlanOne(done.registry, <<job, Cardinality(DOMAIN done.supplierOf)>>, e)
           more == [registry |-> one.registry, error |-> one.error,
                    supplierOf |-> [x \in DOMAIN done.supplierOf \cup {e} |->
                                      IF x = e THEN one.supplier ELSE done.supplierOf[x]]]
<1>1. IsPlannedOn(done.registry, one)
  BY OnePlanIsSound DEF IsPlannedOn
<1>2. AndThen(done, job, e) \in {done, more}
  BY DEF AndThen
<1> HIDE DEF one
<1>3. more.registry = one.registry /\ more.error = one.error
  OBVIOUS
<1> HIDE DEF more
<1>4. IsPlannedOn(r, more)
  BY <1>1, <1>3, AddingIsTransitive DEF IsPlannedOn
<1> QED BY <1>2, <1>4

LEMMA PlanIsSound ==
    ASSUME NEW r, NEW job, NEW evidences, Len(evidences) \in Nat, IsRegistry(r), OneOwnerEach(r)
    PROVE  IsPlannedOn(r, Plan(r, job, evidences))
<1> DEFINE m == Len(evidences)
<1>1. PICK f : IsPlanning(f, r, job, evidences, m) /\ Plan(r, job, evidences) = f[m]
  BY PlanIsTheLast
<1>2. m \in Nat
  OBVIOUS
<1> HIDE DEF m
<1> DEFINE P == {n \in Nat : n <= m => IsPlannedOn(r, f[n])}
<1>3. 0 \in P
  <2>1. f[0] = NothingYet(r)
    BY <1>1, <1>2 DEF IsPlanning
  <2> QED BY <2>1 DEF NothingYet, IsPlannedOn, OnlyAdded
<1>4. ASSUME NEW n \in Nat, n \in P PROVE n + 1 \in P
  <2> SUFFICES ASSUME n + 1 <= m PROVE IsPlannedOn(r, f[n + 1])
    OBVIOUS
  <2>1. f[n + 1] = AndThen(f[n], job, evidences[n + 1])
    BY <1>1, <1>2 DEF IsPlanning
  <2>2. IsPlannedOn(r, f[n])
    BY <1>2, <1>4
  <2> QED BY <2>1, <2>2, NextIsPlanned
<1> HIDE DEF P
<1>5. m \in P
  BY <1>2, <1>3, <1>4, NumbersFromZero
<1>6. IsPlannedOn(r, f[m])
  BY <1>2, <1>5 DEF P
<1> QED BY <1>1, <1>6

----------------------------------------------------------------------------
(* The errors of a file                                                     *)

Domains == {"BOOKINGS", "LABOR", "COSTS"}

ReadErrors ==
  {"MAPPING_REQUIRED", "SOURCE_SCHEMA_CHANGED", "UNSUPPORTED_TYPE", "AMBIGUOUS_FORMAT",
   "VALIDATION_FAILED", "EMPTY_FILE"}

LEMMA ErrorsOfFiles ==
    ASSUME NEW domain \in Domains, NEW file, NEW layout
    PROVE  FileError(domain, file, layout) \in ReadErrors \cup {None}
BY DEF FileError, BookingsError, LaborError, InvoicesError, SchemaError, Domains, ReadErrors

\* A file that is read with the layout of its source is one of that layout.
LEMMA ReadWithItsOwnLayout ==
    ASSUME NEW domain \in Domains, NEW file, NEW layout, FileError(domain, file, layout) = None
    PROVE  FileError(domain, file, file.layout) = None
<1> USE NoneAssumption DEF SchemaError, ErrorCode
<1>1. CASE domain = "BOOKINGS"
  BY <1>1 DEF FileError, BookingsError
<1>2. CASE domain = "LABOR"
  BY <1>2 DEF FileError, LaborError
<1>3. CASE domain = "COSTS"
  BY <1>3 DEF FileError, InvoicesError
<1> QED BY <1>1, <1>2, <1>3 DEF Domains

\* A file whose rows are in order, and one whose rows say what they are made of.
InOrder(file) == Len(file.rows) \in Nat /\ DOMAIN file.rows = 1 .. Len(file.rows)

IsFile(file) ==
  /\ InOrder(file)
  /\ \A k \in DOMAIN file.rows : {"id", "content", "valid", "words"} \subseteq DOMAIN file.rows[k]

\* Whatever words it is read with, a file has the same rows, and the same of them
\* but for the words they need.
IsReading(read, file, labels) ==
  /\ read.format = file.format /\ read.layout = file.layout
  /\ read.ambiguous = file.ambiguous
  /\ Len(read.rows) = Len(file.rows) /\ DOMAIN read.rows = DOMAIN file.rows
  /\ \A k \in DOMAIN file.rows :
       /\ read.rows[k].id = file.rows[k].id
       /\ read.rows[k].valid <=>
            file.rows[k].valid /\ Needed(file.rows[k]) \subseteq Words(labels)

LEMMA ReadingIsOfTheFile ==
    ASSUME NEW domain, NEW file, IsFile(file), NEW labels
    PROVE  IsReading(Reading(domain, file, labels), file, labels)
<1> DEFINE rows == [k \in DOMAIN file.rows |-> ReadRow(domain, file.rows[k], labels)]
           n == Len(file.rows)
<1>1. n \in Nat /\ DOMAIN file.rows = 1 .. n
  BY DEF IsFile, InOrder
<1>2. Len(rows) = n /\ DOMAIN rows = 1 .. n
  <2>1. rows \in [1 .. n -> {rows[k] : k \in 1 .. n}]
    BY <1>1
  <2> HIDE DEF rows, n
  <2>2. rows \in Seq({rows[k] : k \in 1 .. n}) /\ DOMAIN rows = 1 .. n
    BY <1>1, <2>1, SeqDef
  <2> QED BY <1>1, <2>2, LenProperties
<1>3. ASSUME NEW k \in DOMAIN file.rows
      PROVE  /\ rows[k].id = file.rows[k].id
             /\ rows[k].valid <=>
                  file.rows[k].valid /\ Needed(file.rows[k]) \subseteq Words(labels)
  <2> DEFINE row == file.rows[k]
  <2>1. {"id", "content", "valid", "words"} \subseteq DOMAIN row
    BY DEF IsFile, InOrder
  <2>2. rows[k] = ReadRow(domain, row, labels)
    OBVIOUS
  <2> HIDE DEF row, rows
  <2>3. /\ ReadRow(domain, row, labels).id = row.id
        /\ ReadRow(domain, row, labels).valid =
             (row.valid /\ Needed(row) \subseteq Words(labels))
    BY <2>1 DEF ReadRow
  <2> QED BY <2>2, <2>3 DEF row
<1> HIDE DEF rows
<1>4. Reading(domain, file, labels).rows = rows
  BY DEF Reading, rows
<1> QED BY <1>1, <1>2, <1>3, <1>4 DEF Reading, IsReading

\* Two readings of one file: what the dry run of the first does not refuse, the
\* second is refused for a row only that could be used and cannot any more.
LEMMA OnlyWordsDiffer ==
    ASSUME NEW domain \in Domains, NEW one, NEW two,
           one.format = two.format /\ one.ambiguous = two.ambiguous,
           DOMAIN one.rows = DOMAIN two.rows,
           one.rows = <<>> <=> two.rows = <<>>,
           \A k \in DOMAIN two.rows : one.rows[k].id = two.rows[k].id,
           two.format # "xml" => two.layout # None,
           DryRun(domain, one) = None, FileError(domain, two, two.layout) # None
    PROVE  /\ FileError(domain, two, two.layout) = "VALIDATION_FAILED"
           /\ \E k \in DOMAIN two.rows : one.rows[k].valid /\ ~two.rows[k].valid
<1> USE NoneAssumption DEF SchemaError, ErrorCode, DryRun, FileError
<1>1. CASE domain = "BOOKINGS"
  <2>1. InvalidRows(one.rows) = {} /\ InvalidRows(two.rows) # {}
    BY <1>1 DEF BookingsError, BookingsDryRun
  <2>2. FileError(domain, two, two.layout) = "VALIDATION_FAILED"
    BY <1>1 DEF BookingsError, BookingsDryRun
  <2> QED BY <2>1, <2>2 DEF InvalidRows
<1>2. CASE domain = "LABOR"
  <2>1. Malformed(one.rows) = {} /\ Malformed(two.rows) # {}
    BY <1>2 DEF LaborError, LaborDryRun
  <2>2. FileError(domain, two, two.layout) = "VALIDATION_FAILED"
    BY <1>2 DEF LaborError, LaborDryRun
  <2> QED BY <2>1, <2>2 DEF Malformed
<1>3. CASE domain = "COSTS"
  <2>1. Malformed(one.rows) = {} /\ Malformed(two.rows) # {}
    BY <1>3 DEF InvoicesError, InvoicesDryRun
  <2>2. FileError(domain, two, two.layout) = "VALIDATION_FAILED"
    BY <1>3 DEF InvoicesError, InvoicesDryRun
  <2> QED BY <2>1, <2>2 DEF Malformed
<1> QED BY <1>1, <1>2, <1>3 DEF Domains

\* Which is a row that needs a word known at the first reading only.
LEMMA OnlyLostWordsRefuse ==
    ASSUME NEW domain \in Domains, NEW file, IsFile(file),
           file.format # "xml" => file.layout # None, NEW known, NEW labels,
           DryRun(domain, Reading(domain, file, known)) = None,
           FileError(domain, Reading(domain, file, labels), file.layout) # None
    PROVE  /\ FileError(domain, Reading(domain, file, labels), file.layout) = "VALIDATION_FAILED"
           /\ \E k \in DOMAIN file.rows :
                Needed(file.rows[k]) \cap (Words(known) \ Words(labels)) # {}
<1> DEFINE one == Reading(domain, file, known)
           two == Reading(domain, file, labels)
<1>1. IsReading(one, file, known) /\ IsReading(two, file, labels)
  BY ReadingIsOfTheFile
<1>2. one.rows = <<>> <=> two.rows = <<>>
  BY <1>1 DEF IsReading, Reading
<1> HIDE DEF one, two
<1>3. DryRun(domain, one) = None /\ FileError(domain, two, two.layout) # None
  BY <1>1 DEF IsReading, one, two
<1>4. /\ one.format = two.format /\ one.ambiguous = two.ambiguous
      /\ DOMAIN one.rows = DOMAIN two.rows
      /\ \A k \in DOMAIN two.rows : one.rows[k].id = two.rows[k].id
      /\ two.format # "xml" => two.layout # None
  BY <1>1 DEF IsReading
<1>5. /\ FileError(domain, two, two.layout) = "VALIDATION_FAILED"
      /\ \E k \in DOMAIN two.rows : one.rows[k].valid /\ ~two.rows[k].valid
  BY <1>2, <1>3, <1>4, OnlyWordsDiffer, Zenon
<1>6. PICK k \in DOMAIN two.rows : one.rows[k].valid /\ ~two.rows[k].valid
  BY <1>5
<1>7. /\ k \in DOMAIN file.rows /\ two.layout = file.layout
      /\ Needed(file.rows[k]) \subseteq Words(known)
      /\ ~(Needed(file.rows[k]) \subseteq Words(labels))
  BY <1>1, <1>6 DEF IsReading
<1>8. FileError(domain, Reading(domain, file, labels), file.layout) = "VALIDATION_FAILED"
  BY <1>5, <1>7 DEF two
<1> QED BY <1>7, <1>8

----------------------------------------------------------------------------
(* The changes of an import                                                 *)

\* The keys an import writes: of its source, or of invoices.
IsOf(key, domain, s) ==
  CASE domain = "BOOKINGS" -> key[1] = "booking" /\ key[2] = s
    [] domain = "LABOR"    -> key[1] = "labor" /\ key[2] = s
    [] domain = "COSTS"    -> key[1] = "invoice"

\* What the plan of the suppliers makes of the registry.
RegistryGrows(reg, c) ==
  IsRegistry(c.registry) /\ OnlyAdded(reg, c.registry) /\ OneOwnerEach(c.registry)

\* Why an import that can be read changes nothing.
ChangeErrors == SupplierErrors \cup {"DOCUMENT_CONFLICT", "SNAPSHOT_CONFLICT"}

\* What an import of a domain into the source s may change.
IsChange(c, rows, reg, domain, s) ==
  /\ \A n \in c.insert \cup c.update : IsOf(n.key, domain, s)
  /\ \A n \in c.insert, r \in rows : r.key # n.key
  /\ c.error \in ChangeErrors \cup {None}
  /\ RegistryGrows(reg, c)
  /\ domain # "COSTS" => c.registry = reg

LEMMA BookingsChangeIsSound ==
    ASSUME NEW rows, NEW reg, NEW s, NEW job, NEW file, IsRegistry(reg), OneOwnerEach(reg)
    PROVE  IsChange(BookingsChange(rows, reg, s, job, file), rows, reg, "BOOKINGS", s)
<1> DEFINE made == {BookingRow(s, r, job) : r \in ToSet(file.rows)}
           c == BookingsChange(rows, reg, s, job, file)
<1>1. \A row \in made : IsOf(row.key, "BOOKINGS", s)
  BY DEF BookingRow, IsOf
<1>2. \A row \in made : \A j : [row EXCEPT !.first = j].key = row.key
  BY DEF BookingRow
<1> HIDE DEF made
<1>3. \A n \in c.insert : n \in made /\ Stored(rows, n.key) = {}
  BY DEF BookingsChange, Change, made
<1>4. \A n \in c.update : \E row \in made : n.key = row.key
  <2>1. \A n \in c.update : \E row \in made : \E j : n = [row EXCEPT !.first = j]
    BY DEF BookingsChange, Change, made
  <2> HIDE DEF c
  <2> TAKE n \in c.update
  <2>2. PICK row \in made : \E j : n = [row EXCEPT !.first = j]
    BY <2>1
  <2>3. PICK j : n = [row EXCEPT !.first = j]
    BY <2>2
  <2>4. [row EXCEPT !.first = j].key = row.key
    BY <1>2
  <2>5. n.key = row.key
    BY <2>3, <2>4, Zenon
  <2> QED BY <2>5
<1>5. c.error = None /\ c.registry = reg
  BY DEF BookingsChange, Change
<1> HIDE DEF c
<1>6. \A n \in c.update : IsOf(n.key, "BOOKINGS", s)
  BY <1>1, <1>2, <1>4
<1>7. \A n \in c.insert, r \in rows : r.key # n.key
  BY <1>3 DEF Stored
<1>8. RegistryGrows(reg, c)
  BY <1>5 DEF RegistryGrows, OnlyAdded
<1>9. IsChange(c, rows, reg, "BOOKINGS", s)
  BY <1>1, <1>3, <1>5, <1>6, <1>7, <1>8 DEF IsChange
<1> QED BY <1>9 DEF c

LEMMA LaborChangeIsSound ==
    ASSUME NEW rows, NEW reg, NEW s, NEW job, NEW file, NEW day,
           IsRegistry(reg), OneOwnerEach(reg)
    PROVE  IsChange(LaborChange(rows, reg, s, job, file, day), rows, reg, "LABOR", s)
<1> DEFINE row == LaborRow(s, day, file.rows, job)
           c == LaborChange(rows, reg, s, job, file, day)
<1>1. IsOf(row.key, "LABOR", s)
  BY DEF LaborRow, IsOf
<1> HIDE DEF row
<1>2. /\ c.insert = {} \/ (c.insert = {row} /\ Stored(rows, row.key) = {})
      /\ c.update = {}
      /\ c.error \in {"SNAPSHOT_CONFLICT", None} /\ c.registry = reg
  BY DEF LaborChange, Change, row
<1> HIDE DEF c
<1>3. \A n \in c.insert, r \in rows : r.key # n.key
  BY <1>2 DEF Stored
<1>4. RegistryGrows(reg, c)
  BY <1>2 DEF RegistryGrows, OnlyAdded
<1>5. IsChange(c, rows, reg, "LABOR", s)
  BY <1>1, <1>2, <1>3, <1>4 DEF IsChange, ChangeErrors
<1> QED BY <1>5 DEF c

LEMMA InvoicesChangeIsSound ==
    ASSUME NEW rows, NEW reg, NEW property, NEW job, NEW file, NEW s,
           IsRegistry(reg), OneOwnerEach(reg), InOrder(file)
    PROVE  IsChange(InvoicesChange(rows, reg, property, job, file), rows, reg, "COSTS", s)
<1> DEFINE evidences == [k \in DOMAIN file.rows |-> file.rows[k].supplier]
           plan == Plan(reg, job, evidences)
           rowOf == [k \in DOMAIN file.rows |->
                       InvoiceRow(property, plan.supplierOf[file.rows[k].supplier],
                                  file.rows[k], job)]
           c == InvoicesChange(rows, reg, property, job, file)
<1>1. Len(evidences) \in Nat
  <2>1. evidences \in Seq({evidences[k] : k \in 1 .. Len(file.rows)})
    BY SeqDef DEF InOrder
  <2> HIDE DEF evidences
  <2> QED BY <2>1
<1>2. IsPlannedOn(reg, plan)
  BY <1>1, PlanIsSound
<1>3. \A row \in ToSet(rowOf) : IsOf(row.key, "COSTS", s)
  <2>1. \A k \in DOMAIN file.rows : IsOf(rowOf[k].key, "COSTS", s)
    BY DEF InvoiceRow, IsOf
  <2>2. DOMAIN rowOf = DOMAIN file.rows
    OBVIOUS
  <2> HIDE DEF rowOf
  <2> QED BY <2>1, <2>2 DEF ToSet
<1>4. /\ c.insert \subseteq {row \in ToSet(rowOf) : Stored(rows, row.key) = {}}
      /\ c.update = {}
      /\ c.error \in {plan.error, "DOCUMENT_CONFLICT", None}
      /\ c.registry \in {reg, plan.registry}
  BY DEF InvoicesChange, Change
<1> HIDE DEF c, plan, rowOf
<1>5. c.error \in ChangeErrors \cup {None}
  BY <1>2, <1>4 DEF IsPlannedOn, ChangeErrors
<1>6. RegistryGrows(reg, c)
  BY <1>2, <1>4 DEF IsPlannedOn, RegistryGrows, OnlyAdded
<1>7. \A n \in c.insert, r \in rows : r.key # n.key
  BY <1>4 DEF Stored
<1>8. IsChange(c, rows, reg, "COSTS", s)
  BY <1>3, <1>4, <1>5, <1>6, <1>7 DEF IsChange
<1> QED BY <1>8 DEF c

LEMMA ChangeIsSound ==
    ASSUME NEW rows, NEW reg, NEW s, NEW source, NEW job, NEW file, NEW day,
           source.domain \in Domains, IsRegistry(reg), OneOwnerEach(reg), InOrder(file)
    PROVE  IsChange(ChangeOf(rows, reg, s, source, job, file, day), rows, reg, source.domain, s)
<1>1. CASE source.domain = "BOOKINGS"
  BY <1>1, BookingsChangeIsSound DEF ChangeOf
<1>2. CASE source.domain = "LABOR"
  BY <1>2, LaborChangeIsSound DEF ChangeOf
<1>3. CASE source.domain = "COSTS"
  BY <1>3, InvoicesChangeIsSound DEF ChangeOf
<1> QED BY <1>1, <1>2, <1>3 DEF Domains

----------------------------------------------------------------------------
(* What other imports write does not change                                 *)

LEMMA BookingsChangeReads ==
    ASSUME NEW rows, NEW other, NEW reg, NEW oreg, NEW s, NEW job, NEW file,
           \A key : IsOf(key, "BOOKINGS", s) => Stored(rows, key) = Stored(other, key)
    PROVE  LET c == BookingsChange(rows, reg, s, job, file)
               d == BookingsChange(other, oreg, s, job, file)
           IN c.insert = d.insert /\ c.update = d.update /\ c.error = d.error
<1> DEFINE made == {BookingRow(s, r, job) : r \in ToSet(file.rows)}
           F(row, known) == [row EXCEPT !.first = (CHOOSE k \in known : TRUE).first]
           differs(row, known) == \E k \in known : k.content # row.content
           insert(t) == {row \in made : Stored(t, row.key) = {}}
           update(t) == {F(row, Stored(t, row.key)) :
                           row \in {row \in made : differs(row, Stored(t, row.key))}}
<1>1. \A row \in made : Stored(rows, row.key) = Stored(other, row.key)
  BY DEF BookingRow, IsOf
<1>2. \A t, q : LET c == BookingsChange(t, q, s, job, file)
                IN c.insert = insert(t) /\ c.update = update(t) /\ c.error = None
  BY DEF BookingsChange, Change
<1> HIDE DEF made, F, differs
<1>3. insert(rows) = insert(other)
  BY <1>1
<1>4. update(rows) = update(other)
  <2>1. {row \in made : differs(row, Stored(rows, row.key))}
          = {row \in made : differs(row, Stored(other, row.key))}
    BY <1>1
  <2> QED BY <1>1, <2>1
<1> HIDE DEF insert, update
<1> QED BY <1>2, <1>3, <1>4

LEMMA LaborChangeReads ==
    ASSUME NEW rows, NEW other, NEW reg, NEW oreg, NEW s, NEW job, NEW file, NEW day,
           \A key : IsOf(key, "LABOR", s) => Stored(rows, key) = Stored(other, key)
    PROVE  LET c == LaborChange(rows, reg, s, job, file, day)
               d == LaborChange(other, oreg, s, job, file, day)
           IN c.insert = d.insert /\ c.update = d.update /\ c.error = d.error
<1> DEFINE row == LaborRow(s, day, file.rows, job)
<1>1. Stored(rows, row.key) = Stored(other, row.key)
  BY DEF LaborRow, IsOf
<1> QED BY <1>1 DEF LaborChange, Change

LEMMA InvoicesChangeReads ==
    ASSUME NEW rows, NEW other, NEW reg, NEW property, NEW job, NEW file, NEW s,
           \A key : IsOf(key, "COSTS", s) => Stored(rows, key) = Stored(other, key)
    PROVE  InvoicesChange(rows, reg, property, job, file)
             = InvoicesChange(other, reg, property, job, file)
<1> DEFINE plan == Plan(reg, job, [k \in DOMAIN file.rows |-> file.rows[k].supplier])
           rowOf == [k \in DOMAIN file.rows |->
                       InvoiceRow(property, plan.supplierOf[file.rows[k].supplier],
                                  file.rows[k], job)]
           made == ToSet(rowOf)
           twice == \E j, k \in DOMAIN rowOf : j # k /\ rowOf[j].key = rowOf[k].key
           conflict(t) == \E row \in made : \E k \in Stored(t, row.key) : k.content # row.content
           new(t) == {row \in made : Stored(t, row.key) = {}}
           changed(t) == IF plan.error # None THEN Change({}, {}, reg, plan.error)
                         ELSE IF twice \/ conflict(t)
                         THEN Change({}, {}, reg, "DOCUMENT_CONFLICT")
                         ELSE Change(new(t), {}, plan.registry, None)
<1>1. \A row \in made : Stored(rows, row.key) = Stored(other, row.key)
  <2>1. \A k \in DOMAIN file.rows : IsOf(rowOf[k].key, "COSTS", s)
    BY DEF InvoiceRow, IsOf
  <2>2. DOMAIN rowOf = DOMAIN file.rows
    OBVIOUS
  <2> HIDE DEF rowOf
  <2> QED BY <2>1, <2>2 DEF ToSet
<1>2. \A t : InvoicesChange(t, reg, property, job, file) = changed(t)
  BY DEF InvoicesChange
<1> HIDE DEF made, twice, plan
<1>3. conflict(rows) = conflict(other) /\ new(rows) = new(other)
  BY <1>1
<1> HIDE DEF conflict, new
<1>4. changed(rows) = changed(other)
  BY <1>3
<1> HIDE DEF changed
<1> QED BY <1>2, <1>4

LEMMA ChangeReads ==
    ASSUME NEW rows, NEW other, NEW reg, NEW oreg, NEW s, NEW source, NEW job, NEW file, NEW day,
           source.domain \in Domains,
           \A key : IsOf(key, source.domain, s) => Stored(rows, key) = Stored(other, key),
           source.domain = "COSTS" => oreg = reg
    PROVE  LET c == ChangeOf(rows, reg, s, source, job, file, day)
               d == ChangeOf(other, oreg, s, source, job, file, day)
           IN /\ c.insert = d.insert /\ c.update = d.update /\ c.error = d.error
              /\ source.domain = "COSTS" => c.registry = d.registry
<1>1. CASE source.domain = "BOOKINGS"
  BY <1>1, BookingsChangeReads DEF ChangeOf
<1>2. CASE source.domain = "LABOR"
  BY <1>2, LaborChangeReads DEF ChangeOf
<1>3. CASE source.domain = "COSTS"
  BY <1>3, InvoicesChangeReads DEF ChangeOf
<1> QED BY <1>1, <1>2, <1>3 DEF Domains

\* Of a source the change depends on its hotel and its kind only.
LEMMA ChangeOfTheKind ==
    ASSUME NEW rows, NEW reg, NEW s, NEW source, NEW r, NEW job, NEW file, NEW day,
           source.domain = r.domain, source.property = r.property, r.domain \in Domains
    PROVE  ChangeOf(rows, reg, s, source, job, file, day) = ChangeOf(rows, reg, s, r, job, file, day)
BY DEF ChangeOf

LEMMA WrittenElsewhere ==
    ASSUME NEW rows, NEW c, NEW key, \A n \in c.insert \cup c.update : n.key # key
    PROVE  Stored(Written(rows, c), key) = Stored(rows, key)
BY DEF Stored, Written

LEMMA KeysAreOfOne ==
    ASSUME NEW key, NEW d \in Domains, NEW e \in Domains, NEW s, NEW t,
           IsOf(key, d, s), IsOf(key, e, t)
    PROVE  d = e /\ (d # "COSTS" => s = t)
BY DEF IsOf, Domains

LEMMA AppliedAsPlanned ==
    ASSUME NEW r, NEW p, IsRegistry(r), IsRegistry(p), OnlyAdded(r, p)
    PROVE  Applied(r, r, p) = p
<1>1. DOMAIN r = {"suppliers", "identifiers", "aliases", "reviews"}
  BY DEF IsRegistry
<1>2. Applied(r, r, p) = [table \in DOMAIN r |-> r[table] \cup (p[table] \ r[table])]
  BY DEF Applied
<1>3. p = [table \in DOMAIN r |-> p[table]]
  BY <1>1 DEF IsRegistry
<1>4. \A table \in DOMAIN r : r[table] \subseteq p[table]
  BY <1>1 DEF OnlyAdded
<1>5. \A table \in DOMAIN r : r[table] \cup (p[table] \ r[table]) = p[table]
  BY <1>4
<1> QED BY <1>2, <1>3, <1>5

LEMMA NothingPlannedApplied ==
    ASSUME NEW r, NEW p, IsRegistry(r)
    PROVE  Applied(r, p, p) = r
<1>1. r = [table \in DOMAIN r |-> r[table]]
  BY DEF IsRegistry
<1>2. \A table \in DOMAIN r : r[table] \cup (p[table] \ p[table]) = r[table]
  OBVIOUS
<1> QED BY <1>1, <1>2 DEF Applied

----------------------------------------------------------------------------
(* What an import knows when it writes                                      *)

\* An import whose job is recorded, and one whose file has been judged.
Recorded == {"stage", "sourceLock", "registryLock", "plan", "write", "fail", "end"}
Judged == {"sourceLock", "registryLock", "plan", "write"}

\* Why a recorded import fails.
JobErrors == ErrorCode \ {"CANONICALIZATION_FAILED"}

ImportJob ==
  [source : Nat, status : {"RUNNING", "SUCCEEDED", "FAILED"}, error : JobErrors \cup {None}]

\* Its file in the words it reads it with.
FileRead(w) == Reading(w.request.domain, w.request.file, w.labels)

\* What the import w would change of the data as they are.
Now(w, rows, reg) ==
  ChangeOf(rows, reg, w.source, w.request, w.job, FileRead(w), w.request.day)

\* What it decided on what it read is what it would decide on what is there.
Foreseen(w, rows, reg) ==
  LET now == Now(w, rows, reg)
      c   == w.seen.change
  IN /\ now.error = None /\ c.insert = now.insert /\ c.update = now.update
     /\ IF w.request.domain = "COSTS"
        THEN w.seen.registry = reg /\ c.registry = now.registry
        ELSE c.registry = w.seen.registry

\* An import's source is of the kind it imports, its job exists, its file can be
\* read, and its plan still holds; if it fails, it is for a reason of its own.
Knows(label, w, srcs, n, rows, reg) ==
  /\ label \in Past /\ (w.request.via = "web" \/ label \in Recorded \ {"end"})
       => IsFor(srcs[w.source], w.request)
  /\ label \in Recorded \ {"end"} => w.job \in 1 .. n
  /\ label \in Judged => FileError(w.request.domain, FileRead(w), w.request.file.layout) = None
  /\ label = "write" => Foreseen(w, rows, reg)
  /\ label = "fail" => w.error \in JobErrors

AllKnow == \A i \in Importer : Knows(at[i], work[i], sources, Len(jobs), canonical, registry)

\* lock_data_source and lock_supplier_registry: one holder each.
OneWriter ==
  \A i, j \in Importer :
    i # j /\ HoldsSourceLock(i) /\ HoldsSourceLock(j) => work[i].source # work[j].source

OneRegistrar ==
  \A i, j \in Importer : i # j => ~(HoldsRegistry(j, i) /\ HoldsRegistry(i, j))

Tables ==
  /\ jobs \in Seq(ImportJob)
  /\ IsRegistry(registry) /\ OneOwnerEach(registry)
  /\ faults \in Nat /\ operated \in Nat /\ faults + operated <= MaxEvents

\* No more jobs and sources than imports that came so far, and the operator's.
AtIn(labels) == {i \in Importer : at[i] \in labels}

Counted ==
  /\ Len(jobs) <= Cardinality(AtIn(Recorded \cup Outcome))
  /\ Len(sources) <= Cardinality(AtIn(Past \cup Outcome)) + operated

ImportsInv ==
  /\ SourcesInv /\ AllKnow /\ OneWriter /\ OneRegistrar /\ Tables /\ Counted

----------------------------------------------------------------------------
(* What a step leaves                                                       *)

LEMMA RequestsAreReal ==
    ASSUME SourcesInv, NEW i \in Importer, at[i] \in Running
    PROVE  LET r == work[i].request IN
           /\ r \in Request /\ r.domain \in Domains /\ r.via \in {"web", "cli"} /\ IsFile(r.file)
           /\ r.file.format # "xml" => r.file.layout # None
           /\ r.mode = "MAPPED" => r.via = "web"
BY RequestAssumption DEF SourcesInv, WorkIsReal, Domains, IsFile, InOrder

\* A source stays the one of its hotel and kind.
SourcesStay ==
  \A s \in DOMAIN sources :
    /\ s \in DOMAIN sources'
    /\ sources'[s].property = sources[s].property /\ sources'[s].domain = sources[s].domain

LEMMA StayingIfKept ==
    ASSUME Types, Kept PROVE SourcesStay /\ Len(sources') = Len(sources)
BY ShapeOfSources DEF Kept, SourcesStay

\* What an import knows stays true while the data are the same.
LEMMA KnowingStays ==
    ASSUME ImportsInv, NEW i \in Importer, SourcesStay,
           Len(jobs') \in Nat, Len(jobs) <= Len(jobs')
    PROVE  Knows(at[i], work[i], sources', Len(jobs'), canonical, registry)
<1>1. Knows(at[i], work[i], sources, Len(jobs), canonical, registry)
  BY DEF ImportsInv, AllKnow
<1>2. at[i] \in Past => work[i].source \in DOMAIN sources
  BY DEF ImportsInv, SourcesInv, WorkIsReal
<1>3. at[i] \in Past => \A r : IsFor(sources[work[i].source], r) => IsFor(sources'[work[i].source], r)
  BY <1>2 DEF SourcesStay, IsFor
<1>4. Len(jobs) \in Nat /\ 1 .. Len(jobs) \subseteq 1 .. Len(jobs')
  BY DEF ImportsInv, Tables
<1> QED BY <1>1, <1>3, <1>4 DEF Knows

LEMMA OthersKnow ==
    ASSUME ImportsInv, SourcesStay, NEW i \in Importer, NEW label, Go(i, label),
           \A j \in Importer \ {i} : work'[j] = work[j],
           UNCHANGED <<canonical, registry>>,
           Len(jobs') \in Nat, Len(jobs) <= Len(jobs'),
           Knows(label, work'[i], sources', Len(jobs'), canonical, registry)
    PROVE  AllKnow'
<1>1. at'[i] = label /\ \A j \in Importer \ {i} : at'[j] = at[j]
  BY DEF Go, ImportsInv, SourcesInv, Types
<1>2. \A j \in Importer \ {i} : Knows(at[j], work[j], sources', Len(jobs'), canonical, registry)
  BY KnowingStays
<1> QED BY <1>1, <1>2 DEF AllKnow

\* An import that takes no lock leaves the locks as they are.
LEMMA LocksStay ==
    ASSUME ImportsInv, NEW i \in Importer, NEW label, Go(i, label),
           \A j \in Importer \ {i} : work'[j] = work[j],
           label \in {"registryLock", "plan", "write"}
             => HoldsSourceLock(i) /\ work'[i].source = work[i].source,
           label \in {"plan", "write"} /\ work'[i].request.domain = "COSTS" => HoldsRegistry(i, i)
    PROVE  OneWriter' /\ OneRegistrar'
<1>1. at'[i] = label /\ \A j \in Importer \ {i} : at'[j] = at[j]
  BY DEF Go, ImportsInv, SourcesInv, Types
<1>2. OneWriter'
  BY <1>1 DEF ImportsInv, OneWriter, HoldsSourceLock
<1>3. OneRegistrar'
  BY <1>1 DEF ImportsInv, OneRegistrar, HoldsRegistry
<1> QED BY <1>2, <1>3

\* Imports that have gone past a point have gone past it for good.
LEMMA CountingUp ==
    ASSUME Types, NEW i \in Importer, NEW label, Go(i, label), NEW labels,
           at[i] \in labels => label \in labels
    PROVE  /\ Cardinality(AtIn(labels)) \in Nat /\ Cardinality(AtIn(labels)') \in Nat
           /\ Cardinality(AtIn(labels)) <= Cardinality(AtIn(labels)')
           /\ at[i] \notin labels /\ label \in labels
                => Cardinality(AtIn(labels)') = Cardinality(AtIn(labels)) + 1
<1>1. at'[i] = label /\ \A j \in Importer \ {i} : at'[j] = at[j]
  BY DEF Go, Types
<1>2. IsFiniteSet(Importer)
  BY FS_Interval, BoundsAssumption DEF Importer
<1>3. AtIn(labels) \subseteq Importer /\ AtIn(labels)' \subseteq Importer
  BY DEF AtIn
<1>4. IsFiniteSet(AtIn(labels)) /\ IsFiniteSet(AtIn(labels)')
  BY <1>2, <1>3, FS_Subset, Zenon
<1>5. AtIn(labels) \subseteq AtIn(labels)'
  BY <1>1 DEF AtIn
<1>6. at[i] \notin labels /\ label \in labels => /\ AtIn(labels)' = AtIn(labels) \cup {i}
                                                /\ i \notin AtIn(labels)
  BY <1>1 DEF AtIn
<1>7. Cardinality(AtIn(labels)) <= Cardinality(AtIn(labels)')
  BY <1>4, <1>5, FS_Subset
<1>8. at[i] \notin labels /\ label \in labels
        => Cardinality(AtIn(labels)') = Cardinality(AtIn(labels)) + 1
  BY <1>4, <1>6, FS_AddElement
<1> QED BY <1>4, <1>7, <1>8, FS_CardinalityType

\* A job more for an import that had recorded none, a source more for one that had none.
LEMMA CountsStay ==
    ASSUME ImportsInv, NEW i \in Importer, NEW label, Go(i, label), operated' = operated,
           at[i] \in Recorded \cup Outcome => label \in Recorded \cup Outcome,
           at[i] \in Past \cup Outcome => label \in Past \cup Outcome,
           \/ Len(jobs') = Len(jobs)
           \/ /\ Len(jobs') = Len(jobs) + 1
              /\ at[i] \notin Recorded \cup Outcome /\ label \in Recorded \cup Outcome,
           \/ Len(sources') = Len(sources)
           \/ /\ Len(sources') = Len(sources) + 1
              /\ at[i] \notin Past \cup Outcome /\ label \in Past \cup Outcome
    PROVE  Counted'
<1>1. Types /\ Len(jobs) \in Nat /\ Len(sources) \in Nat /\ operated \in Nat
  BY ShapeOfSources DEF ImportsInv, SourcesInv, Tables
<1>2. Counted
  BY DEF ImportsInv
<1> DEFINE R == Recorded \cup Outcome
           P == Past \cup Outcome
           r == Cardinality(AtIn(R))
           p == Cardinality(AtIn(P))
           rr == Cardinality(AtIn(R)')
           pp == Cardinality(AtIn(P)')
<1>3. /\ r \in Nat /\ rr \in Nat /\ r <= rr
      /\ at[i] \notin R /\ label \in R => rr = r + 1
  BY <1>1, CountingUp
<1>4. /\ p \in Nat /\ pp \in Nat /\ p <= pp
      /\ at[i] \notin P /\ label \in P => pp = p + 1
  BY <1>1, CountingUp
<1>5. Len(jobs) <= r /\ Len(sources) <= p + operated
  BY <1>2 DEF Counted
<1>6. Counted' = (Len(jobs') <= rr /\ Len(sources') <= pp + operated')
  BY DEF Counted, Recorded, Past, Outcome, Locked
<1> HIDE DEF r, p, rr, pp
<1>7. Len(jobs') <= rr
  BY <1>1, <1>3, <1>5
<1>8. Len(sources') <= pp + operated'
  BY <1>1, <1>4, <1>5
<1> QED BY <1>6, <1>7, <1>8

\* What of an import's work a step gives anew, and what it leaves.
LEMMA EditedWork ==
    ASSUME Types, NEW i \in Importer, NEW r, NEW s, NEW on, NEW job, NEW seen, NEW e, NEW l, NEW t
    PROVE  LET w == work[i] IN
           /\ LET u == [w EXCEPT !.request = r, !.source = s] IN u.request = r /\ u.tried = w.tried
           /\ LET u == [w EXCEPT !.request = r, !.tried = t] IN u.request = r /\ u.tried = t
           /\ LET u == [w EXCEPT !.source = s, !.switchedOn = on]
              IN u.request = w.request /\ u.source = s /\ u.tried = w.tried
           /\ LET u == [w EXCEPT !.source = s] IN u.request = w.request /\ u.tried = w.tried
           /\ LET u == [w EXCEPT !.job = job, !.error = e, !.labels = l]
              IN /\ u.request = w.request /\ u.source = w.source /\ u.tried = w.tried
                 /\ u.job = job /\ u.labels = l
           /\ LET u == [w EXCEPT !.labels = l]
              IN /\ u.request = w.request /\ u.source = w.source /\ u.tried = w.tried
                 /\ u.job = w.job /\ u.labels = l
           /\ LET u == [w EXCEPT !.seen = seen]
              IN /\ u.request = w.request /\ u.source = w.source /\ u.tried = w.tried
                 /\ u.job = w.job /\ u.labels = w.labels /\ u.seen = seen
           /\ LET u == [w EXCEPT !.error = e, !.seen = seen]
              IN /\ u.request = w.request /\ u.source = w.source /\ u.tried = w.tried
                 /\ u.job = w.job /\ u.labels = w.labels /\ u.error = e
<1> DEFINE w == work[i]
<1>1. w = WorkOf(w)
  BY DEF Types, Works
<1> HIDE DEF w
<1>2. DOMAIN w = {"request", "source", "switchedOn", "job", "seen", "error", "labels", "tried"}
  BY <1>1 DEF WorkOf
<1> QED BY <1>2 DEF w

\* One import's work given anew, and the others' left.
LEMMA WorkAnew ==
    ASSUME Types, NEW i \in Importer, NEW new, work' = [work EXCEPT ![i] = new]
    PROVE  work'[i] = new /\ \A j \in Importer \ {i} : work'[j] = work[j]
BY DEF Types, Works

\* A step of one import that writes nothing of the data.
LEMMA StepIsSound ==
    ASSUME ImportsInv, SourcesInv', NEW i \in Importer, NEW label, Go(i, label),
           \A j \in Importer \ {i} : work'[j] = work[j],
           SourcesStay, UNCHANGED <<canonical, registry, operated>>, Tables',
           at[i] \in Recorded \cup Outcome => label \in Recorded \cup Outcome,
           at[i] \in Past \cup Outcome => label \in Past \cup Outcome,
           \/ Len(jobs') = Len(jobs)
           \/ /\ Len(jobs') = Len(jobs) + 1
              /\ at[i] \notin Recorded \cup Outcome /\ label \in Recorded \cup Outcome,
           \/ Len(sources') = Len(sources)
           \/ /\ Len(sources') = Len(sources) + 1
              /\ at[i] \notin Past \cup Outcome /\ label \in Past \cup Outcome,
           Knows(label, work'[i], sources', Len(jobs'), canonical, registry),
           OneWriter' /\ OneRegistrar'
    PROVE  ImportsInv'
<1>1. Len(jobs) \in Nat /\ Len(jobs') \in Nat /\ Len(jobs) <= Len(jobs')
  BY DEF ImportsInv, Tables
<1>2. AllKnow'
  BY <1>1, OthersKnow
<1>3. Counted'
  BY CountsStay
<1> QED BY <1>2, <1>3 DEF ImportsInv

\* Nothing is known of an import before it has a source, and nothing after it.
LEMMA NothingKnown ==
    ASSUME NEW label, NEW w, NEW srcs, NEW n, NEW rows, NEW reg, label \notin Past
    PROVE  Knows(label, w, srcs, n, rows, reg)
BY DEF Knows, Past, Locked, Recorded, Judged

LEMMA TablesStay ==
    ASSUME ImportsInv, UNCHANGED <<jobs, registry, faults, operated>>
    PROVE  Tables'
BY DEF ImportsInv, Tables

----------------------------------------------------------------------------
(* The steps before a job is recorded                                       *)

LEMMA ReceivingIsSound ==
    ASSUME ImportsInv, SourcesInv', NEW i \in Importer, Receive(i)
    PROVE  ImportsInv'
<1>1. PICK r \in Request :
        /\ work' = [work EXCEPT ![i].request = r,
                                ![i].source = IF r.via = "cli" THEN r.source ELSE 0]
        /\ Go(i, IF r.via = "web" THEN "importLock"
                 ELSE IF r.file.format = "xml" THEN "record" ELSE "mapping")
  BY DEF Receive
<1> DEFINE s == IF r.via = "cli" THEN r.source ELSE 0
           label == IF r.via = "web" THEN "importLock"
                    ELSE IF r.file.format = "xml" THEN "record" ELSE "mapping"
<1>2. Types
  BY DEF ImportsInv, SourcesInv
<1>3. /\ at[i] \in {"idle", "tried"} /\ Go(i, label)
      /\ UNCHANGED <<sources, jobs, canonical, registry, faults, operated>>
  BY <1>1 DEF Receive, NextToArrive, tables
<1>4. work'[i].request = r /\ \A j \in Importer \ {i} : work'[j] = work[j]
  <2> HIDE DEF s
  <2>1. work' = [work EXCEPT ![i] = [work[i] EXCEPT !.request = r, !.source = s]]
    BY <1>1, <1>2 DEF Types, Works, s
  <2>2. [work[i] EXCEPT !.request = r, !.source = s].request = r
    BY <1>2, EditedWork
  <2> QED BY <1>2, <2>1, <2>2, WorkAnew, Zenon
<1>5. label = "importLock" \/ (label \in {"record", "mapping"} /\ r.via # "web")
  OBVIOUS
<1> HIDE DEF label, s
<1>6. Knows(label, work'[i], sources', Len(jobs'), canonical, registry)
  BY <1>4, <1>5 DEF Knows, Past, Locked, Recorded, Judged
<1>7. OneWriter' /\ OneRegistrar'
  BY <1>3, <1>4, <1>5, LocksStay
<1> QED BY <1>3, <1>4, <1>6, <1>7, TablesStay, StepIsSound DEF SourcesStay, Outcome, Recorded, Past, Locked

LEMMA TryingIsSound ==
    ASSUME ImportsInv, SourcesInv', NEW i \in Importer, TryFile(i)
    PROVE  ImportsInv'
<1>1. /\ Types /\ at[i] = "idle" /\ Go(i, "tried")
      /\ UNCHANGED <<sources, jobs, canonical, registry, faults, operated>>
  BY DEF TryFile, NextToArrive, tables, ImportsInv, SourcesInv
<1>2. \A j \in Importer \ {i} : work'[j] = work[j]
  BY <1>1 DEF TryFile, Types, Works
<1>3. OneWriter' /\ OneRegistrar'
  BY <1>1, <1>2, LocksStay
<1>4. Knows("tried", work'[i], sources', Len(jobs'), canonical, registry)
  BY NothingKnown DEF Past, Locked
<1> QED BY <1>1, <1>2, <1>3, <1>4, TablesStay, StepIsSound
        DEF SourcesStay, Outcome, Recorded, Past, Locked

\* An import that ends, however it does.
LEMMA EndingIsSound ==
    ASSUME ImportsInv, SourcesInv', NEW i \in Importer, NEW outcome \in Outcome, Finish(i, outcome),
           SourcesStay, Len(sources') = Len(sources),
           UNCHANGED <<jobs, canonical, registry, operated>>, Tables'
    PROVE  ImportsInv'
<1>1. Go(i, outcome) /\ \A j \in Importer \ {i} : work'[j] = work[j]
  BY DEF Finish, ImportsInv, SourcesInv, Types, Works
<1>2. outcome \notin Past /\ outcome \notin {"registryLock", "plan", "write"}
  BY DEF Outcome, Past, Locked
<1>3. OneWriter' /\ OneRegistrar'
  BY <1>1, <1>2, LocksStay
<1>4. Knows(outcome, work'[i], sources', Len(jobs'), canonical, registry)
  BY <1>2, NothingKnown
<1> QED BY <1>1, <1>3, <1>4, StepIsSound

LEMMA StoppingIsSound ==
    ASSUME ImportsInv, SourcesInv', NEW i \in Importer,
           GiveUp(i) \/ Ambiguous(i) \/ SourceUnusable(i) \/ Crash(i)
    PROVE  ImportsInv'
<1>1. UNCHANGED <<sources, jobs, canonical, registry, operated>>
  BY DEF GiveUp, Ambiguous, SourceUnusable, Crash, tables
<1>2. PICK outcome \in Outcome : Finish(i, outcome)
  BY Zenon DEF GiveUp, Ambiguous, SourceUnusable, Crash, Outcome
<1>3. faults' = faults \/ (faults' = faults + 1 /\ Undisturbed)
  BY Zenon DEF GiveUp, Ambiguous, SourceUnusable, Crash
<1>4. Tables'
  BY <1>1, <1>3, BoundsAssumption DEF Undisturbed, ImportsInv, Tables
<1> QED BY <1>1, <1>2, <1>4, EndingIsSound DEF SourcesStay

LEMMA TakingImportLockIsSound ==
    ASSUME ImportsInv, SourcesInv', NEW i \in Importer, TakeImportLock(i)
    PROVE  ImportsInv'
<1>1. /\ at[i] = "importLock" /\ Go(i, "choose")
      /\ UNCHANGED <<sources, jobs, canonical, registry, work, faults, operated>>
  BY DEF TakeImportLock, tables
<1>2. OneWriter' /\ OneRegistrar'
  BY <1>1, LocksStay
<1>3. Knows("choose", work'[i], sources', Len(jobs'), canonical, registry)
  BY NothingKnown DEF Past
<1> QED BY <1>1, <1>2, <1>3, TablesStay, StepIsSound DEF SourcesStay, Outcome, Recorded, Past, Locked

\* An import knows of what kind the source it has chosen is.
LEMMA ChosenIsKnown ==
    ASSUME Types, NEW i \in Importer, NEW s, NEW on, Chosen(i, s, on),
           NEW srcs, IsFor(srcs[s], work[i].request), NEW n, NEW rows, NEW reg
    PROVE  \E label \in {"end", "mapping", "record"} :
             /\ Go(i, label) /\ Knows(label, work'[i], srcs, n, rows, reg)
             /\ \A j \in Importer \ {i} : work'[j] = work[j]
<1> DEFINE label == AfterChoice(work[i].request)
<1>1. label \in {"end", "mapping", "record"}
  BY Zenon DEF AfterChoice
<1>2. /\ Go(i, label)
      /\ work' = [work EXCEPT ![i] = [work[i] EXCEPT !.source = s, !.switchedOn = on]]
  BY DEF Chosen, Types, Works
<1> HIDE DEF label
<1>3. work'[i].source = s /\ work'[i].request = work[i].request
  <2>1. work'[i] = [work[i] EXCEPT !.source = s, !.switchedOn = on]
    BY <1>2, WorkAnew, Zenon
  <2> QED BY <2>1, EditedWork
<1>4. \A j \in Importer \ {i} : work'[j] = work[j]
  BY <1>2, WorkAnew, Zenon
<1>5. Knows(label, work'[i], srcs, n, rows, reg)
  BY <1>1, <1>3 DEF Knows, Recorded, Judged
<1> QED BY <1>1, <1>2, <1>4, <1>5

LEMMA ReadingSourcesIsSound ==
    ASSUME ImportsInv, SourcesInv', NEW i \in Importer, ReadSources(i)
    PROVE  ImportsInv'
<1> DEFINE r == work[i].request
           existing == OfKind(r.property, r.domain)
           active == Active(existing)
<1>1. Types /\ at[i] = "choose" /\ UNCHANGED <<sources, jobs, canonical, registry, faults, operated>>
  BY DEF ReadSources, tables, ImportsInv, SourcesInv
<1>2. CASE active # {}
  <2>1. PICK s \in active : Chosen(i, s, FALSE)
    BY <1>2 DEF ReadSources
  <2>2. IsFor(sources[s], r)
    BY DEF Active, OfKind, IsFor
  <2> HIDE DEF r, existing, active
  <2>3. PICK label \in {"end", "mapping", "record"} :
          /\ Go(i, label) /\ Knows(label, work'[i], sources, Len(jobs), canonical, registry)
          /\ \A j \in Importer \ {i} : work'[j] = work[j]
    BY <1>1, <2>1, <2>2, ChosenIsKnown DEF r
  <2>4. OneWriter' /\ OneRegistrar'
    BY <2>3, LocksStay
  <2> QED BY <1>1, <2>3, <2>4, TablesStay, StepIsSound DEF SourcesStay, Outcome, Recorded, Past, Locked
<1>3. CASE active = {}
  <2> DEFINE s == IF existing = {} THEN 0 ELSE LastTouched(existing)
  <2>1. work' = [work EXCEPT ![i].source = s] /\ Go(i, "switchOn")
    BY <1>3 DEF ReadSources
  <2> HIDE DEF s, existing, active, r
  <2>2. \A j \in Importer \ {i} : work'[j] = work[j]
    BY <1>1, <2>1 DEF Types, Works
  <2>3. OneWriter' /\ OneRegistrar'
    BY <2>1, <2>2, LocksStay
  <2>4. Knows("switchOn", work'[i], sources', Len(jobs'), canonical, registry)
    BY NothingKnown DEF Past
  <2> QED BY <1>1, <2>1, <2>2, <2>3, <2>4, TablesStay, StepIsSound
          DEF SourcesStay, Outcome, Recorded, Past, Locked
<1> QED BY <1>2, <1>3

LEMMA SameLength ==
    ASSUME Types, Types', DOMAIN sources' = DOMAIN sources
    PROVE  Len(sources') = Len(sources)
<1>1. sources \in Seq(Source) /\ sources' \in Seq(Source)
  BY DEF Types, Source, Hotel, Kind, Layout
<1>2. /\ Len(sources) \in Nat /\ DOMAIN sources = 1 .. Len(sources)
      /\ Len(sources') \in Nat /\ DOMAIN sources' = 1 .. Len(sources')
  BY <1>1
<1> QED BY <1>2

LEMMA SwitchingOnIsSound ==
    ASSUME ImportsInv, SourcesInv', NEW i \in Importer, SwitchOn(i)
    PROVE  ImportsInv'
<1> DEFINE r == work[i].request
           t == work[i].source
           s == IF t = 0 THEN Len(sources) + 1 ELSE t
           n == Len(sources)
<1>1. /\ Types /\ NothingOn /\ WorkIsReal /\ at[i] = "switchOn"
      /\ UNCHANGED <<jobs, canonical, registry, faults, operated>>
  BY DEF SwitchOn, ImportsInv, SourcesInv, Fail, Break, tables
<1>2. n \in Nat /\ DOMAIN sources = 1 .. n /\ sources \in Seq(Source)
  BY <1>1, ShapeOfSources DEF Types
<1>3. Chosen(i, s, TRUE)
  BY DEF SwitchOn
<1>4. /\ IsFor(sources'[s], r) /\ SourcesStay /\ Len(sources') \in {n, n + 1}
  <2>1. CASE t = 0
    <3> DEFINE new == [property |-> r.property, domain |-> r.domain,
                       active |-> TRUE, layout |-> None, labels |-> {}, by |-> i]
    <3>1. sources' = Append(sources, new)
      BY <2>1 DEF SwitchOn, AddSource
    <3>2. new.property = r.property /\ new.domain = r.domain
      OBVIOUS
    <3> HIDE DEF new
    <3>3. /\ Len(sources') = n + 1 /\ DOMAIN sources' = 1 .. n + 1 /\ sources'[n + 1] = new
          /\ \A k \in 1 .. n : sources'[k] = sources[k]
      BY <1>2, <3>1
    <3> QED BY <1>2, <2>1, <3>2, <3>3 DEF IsFor, SourcesStay
  <2>2. CASE t # 0
    <3>1. t \in DOMAIN sources /\ IsFor(sources[t], r)
      BY <1>1, <2>2 DEF NothingOn
    <3>2. sources' = [sources EXCEPT ![t].active = TRUE, ![t].by = i]
      BY <2>2 DEF SwitchOn
    <3>3. /\ DOMAIN sources' = DOMAIN sources
          /\ \A k \in DOMAIN sources : /\ sources'[k].property = sources[k].property
                                       /\ sources'[k].domain = sources[k].domain
      BY <1>2, <3>2 DEF Source
    <3>4. Len(sources') = n
      BY <1>1, <3>3, SameLength DEF SourcesInv, n
    <3> QED BY <2>2, <3>1, <3>3, <3>4 DEF IsFor, SourcesStay
  <2> QED BY <2>1, <2>2
<1> HIDE DEF r, t, s, n
<1>5. PICK label \in {"end", "mapping", "record"} :
        /\ Go(i, label) /\ Knows(label, work'[i], sources', Len(jobs'), canonical, registry)
        /\ \A j \in Importer \ {i} : work'[j] = work[j]
  BY <1>1, <1>3, <1>4, ChosenIsKnown DEF r
<1>6. OneWriter' /\ OneRegistrar'
  BY <1>5, LocksStay
<1>7. /\ at[i] \notin Past \cup Outcome /\ label \in Past \cup Outcome
      /\ at[i] \notin Recorded \cup Outcome
  BY <1>1 DEF Outcome, Recorded, Past, Locked
<1> QED BY <1>1, <1>4, <1>5, <1>6, <1>7, TablesStay, StepIsSound DEF n

LEMMA SavingMappingIsSound ==
    ASSUME ImportsInv, SourcesInv', NEW i \in Importer, SaveMapping(i)
    PROVE  ImportsInv'
<1>1. /\ Types /\ WorkIsReal /\ at[i] = "mapping" /\ Go(i, "record")
      /\ UNCHANGED <<jobs, canonical, registry, work, faults, operated>>
      /\ sources' = [sources EXCEPT ![work[i].source].layout = work[i].request.file.layout,
                                    ![work[i].source].labels = {}]
  BY DEF SaveMapping, ImportsInv, SourcesInv
<1>2. SourcesStay /\ Len(sources') = Len(sources)
  <2>1. work[i].source \in DOMAIN sources /\ \A k \in DOMAIN sources : sources[k] \in Source
    BY <1>1, ShapeOfSources DEF WorkIsReal, Past, Locked
  <2>2. /\ DOMAIN sources' = DOMAIN sources
        /\ \A k \in DOMAIN sources : /\ sources'[k].property = sources[k].property
                                     /\ sources'[k].domain = sources[k].domain
    BY <1>1, <2>1 DEF Source
  <2>3. Len(sources') = Len(sources)
    BY <1>1, <2>2, SameLength DEF SourcesInv
  <2> QED BY <2>2, <2>3 DEF SourcesStay
<1>3. Len(jobs') = Len(jobs) /\ Len(jobs) \in Nat /\ Len(jobs) <= Len(jobs)
  BY <1>1 DEF ImportsInv, Tables
<1>4. Knows(at[i], work[i], sources', Len(jobs'), canonical, registry)
  BY <1>2, <1>3, KnowingStays
<1>5. Knows("record", work'[i], sources', Len(jobs'), canonical, registry)
  BY <1>1, <1>4 DEF Knows, Past, Locked, Recorded, Judged
<1>6. OneWriter' /\ OneRegistrar'
  BY <1>1, LocksStay
<1> QED BY <1>1, <1>2, <1>5, <1>6, TablesStay, StepIsSound DEF Outcome, Recorded, Past, Locked

LEMMA FindingNoConfigurationIsSound ==
    ASSUME ImportsInv, SourcesInv', NEW i \in Importer, ConfigurationGone(i)
    PROVE  ImportsInv'
<1>1. /\ at[i] = "record" /\ Go(i, "end")
      /\ UNCHANGED <<sources, jobs, canonical, registry, work, faults, operated>>
  BY DEF ConfigurationGone, tables
<1>2. Knows("record", work[i], sources, Len(jobs), canonical, registry)
  BY <1>1 DEF ImportsInv, AllKnow
<1>3. Knows("end", work'[i], sources', Len(jobs'), canonical, registry)
  BY <1>1, <1>2 DEF Knows, Past, Locked, Recorded, Judged
<1>4. OneWriter' /\ OneRegistrar'
  BY <1>1, LocksStay
<1> QED BY <1>1, <1>3, <1>4, TablesStay, StepIsSound DEF SourcesStay, Outcome, Recorded, Past, Locked

----------------------------------------------------------------------------
(* The steps of a job                                                       *)

LEMMA KnownNow ==
    ASSUME ImportsInv, NEW i \in Importer
    PROVE  Knows(at[i], work[i], sources, Len(jobs), canonical, registry)
BY DEF ImportsInv, AllKnow

LEMMA RecordingIsSound ==
    ASSUME ImportsInv, SourcesInv', NEW i \in Importer, RecordJob(i)
    PROVE  ImportsInv'
<1> DEFINE w == work[i]
           job == [source |-> w.source, status |-> "RUNNING", error |-> None]
           n == Len(jobs)
           l == LabelsRead(w.request, w.source)
<1>1. /\ Types /\ WorkIsReal /\ at[i] = "record" /\ Go(i, "stage") /\ Usable(i)
      /\ UNCHANGED <<sources, canonical, registry, faults, operated>>
      /\ jobs' = Append(jobs, job)
      /\ work' = [work EXCEPT ![i] = [w EXCEPT !.job = n + 1, !.error = None, !.labels = l]]
  BY DEF RecordJob, ImportsInv, SourcesInv, Types, Works
<1>2. /\ work'[i].request = w.request /\ work'[i].source = w.source /\ work'[i].job = n + 1
      /\ \A j \in Importer \ {i} : work'[j] = work[j]
  <2> DEFINE u == [w EXCEPT !.job = n + 1, !.error = None, !.labels = l]
  <2>1. work' = [work EXCEPT ![i] = u]
    BY <1>1
  <2>2. u.request = w.request /\ u.source = w.source /\ u.job = n + 1
    BY <1>1, EditedWork
  <2> HIDE DEF w, n, u
  <2> QED BY <1>1, <2>1, <2>2, WorkAnew
<1>3. job \in ImportJob
  <2>1. w.source \in Nat
    BY <1>1, ShapeOfSources DEF WorkIsReal, Past, Locked
  <2> QED BY <2>1 DEF ImportJob
<1> HIDE DEF w, job, l
<1>4. jobs' \in Seq(ImportJob) /\ Len(jobs') = n + 1 /\ n \in Nat
  <2>1. jobs \in Seq(ImportJob)
    BY DEF ImportsInv, Tables
  <2> QED BY <1>1, <1>3, <2>1
<1>5. Tables'
  BY <1>1, <1>4 DEF ImportsInv, Tables
<1>6. IsFor(sources[w.source], w.request)
  <2>1. CASE w.request.via = "web"
    <3>1. Knows("record", w, sources, n, canonical, registry)
      BY <1>1, KnownNow DEF w
    <3> QED BY <2>1, <3>1 DEF Knows, Past, Locked
  <2>2. CASE w.request.via # "web"
    <3>1. w.request.via = "cli"
      BY <1>1, <2>2, RequestsAreReal DEF w, Running, Locked, ImportsInv
    <3> QED BY <1>1, <3>1 DEF Usable, IsFor, w
  <2> QED BY <2>1, <2>2
<1>7. Knows("stage", work'[i], sources', Len(jobs'), canonical, registry)
  BY <1>1, <1>2, <1>4, <1>6 DEF Knows, Judged
<1>8. OneWriter' /\ OneRegistrar'
  BY <1>1, <1>2, LocksStay
<1> HIDE DEF n
<1>9. /\ at[i] \notin Recorded \cup Outcome /\ "stage" \in Recorded \cup Outcome
      /\ "stage" \in Past \cup Outcome /\ Len(jobs') = Len(jobs) + 1
  BY <1>1, <1>4 DEF Outcome, Recorded, Past, Locked, n
<1> QED BY <1>1, <1>2, <1>5, <1>7, <1>8, <1>9, StepIsSound DEF SourcesStay

\* A job fails for a reason of its own.
LEMMA FailingIsSound ==
    ASSUME ImportsInv, SourcesInv', NEW i \in Importer, at[i] \in Recorded \ {"end"},
           NEW e \in JobErrors, Failing(i, e),
           UNCHANGED <<sources, jobs, canonical, registry, operated>>, Tables'
    PROVE  ImportsInv'
<1> DEFINE w == work[i]
<1>1. /\ Types /\ Go(i, "fail")
      /\ work' = [work EXCEPT ![i] = [w EXCEPT !.error = e, !.seen = None]]
  BY DEF Failing, ImportsInv, SourcesInv, Types, Works
<1>2. /\ work'[i].request = w.request /\ work'[i].source = w.source
      /\ work'[i].job = w.job /\ work'[i].error = e
      /\ \A j \in Importer \ {i} : work'[j] = work[j]
  <2> DEFINE u == [w EXCEPT !.error = e, !.seen = None]
  <2>1. work' = [work EXCEPT ![i] = u]
    BY <1>1
  <2>2. u.request = w.request /\ u.source = w.source /\ u.job = w.job /\ u.error = e
    BY <1>1, EditedWork
  <2> HIDE DEF w, u
  <2> QED BY <1>1, <2>1, <2>2, WorkAnew
<1>3. Knows(at[i], w, sources, Len(jobs), canonical, registry)
  BY KnownNow
<1> HIDE DEF w
<1>4. IsFor(sources[w.source], w.request) /\ w.job \in 1 .. Len(jobs)
  BY <1>3 DEF Knows, Recorded, Past, Locked
<1>5. Knows("fail", work'[i], sources', Len(jobs'), canonical, registry)
  BY <1>2, <1>4 DEF Knows, Judged, w
<1>6. OneWriter' /\ OneRegistrar'
  BY <1>1, <1>2, LocksStay
<1> QED BY <1>1, <1>2, <1>5, <1>6, StepIsSound DEF SourcesStay, Outcome, Recorded, Past, Locked

LEMMA BreakingIsSound ==
    ASSUME ImportsInv, SourcesInv', NEW i \in Importer, Break(i)
    PROVE  ImportsInv'
<1>1. /\ at[i] \in {"stage", "plan", "write"} /\ faults' = faults + 1 /\ Undisturbed
      /\ Failing(i, "INTERNAL_ERROR")
      /\ UNCHANGED <<sources, jobs, canonical, registry, operated>>
  BY DEF Break, tables
<1>2. Tables'
  BY <1>1, BoundsAssumption DEF Undisturbed, ImportsInv, Tables
<1>3. "INTERNAL_ERROR" \in JobErrors
  BY DEF JobErrors, ErrorCode
<1> QED BY <1>1, <1>2, <1>3, FailingIsSound DEF Recorded

\* An import that goes on has read its file in the words it holds now.
LEMMA StagingIsSound ==
    ASSUME ImportsInv, SourcesInv', NEW i \in Importer, Stage(i)
    PROVE  ImportsInv'
<1> DEFINE w == work[i]
           r == w.request
           l == IF r.mode = "MAPPED" THEN w.labels ELSE LabelsOf(r, w.source)
           read == Reading(r.domain, r.file, l)
           error == FileError(r.domain, read, LayoutOf(r, w.source))
           u == [w EXCEPT !.labels = l]
<1>1. /\ Types /\ at[i] = "stage"
      /\ UNCHANGED <<sources, jobs, canonical, registry, faults, operated>>
      /\ IF error # None THEN Failing(i, error)
         ELSE Go(i, "sourceLock") /\ work' = [work EXCEPT ![i] = u]
  BY DEF Stage, tables, ImportsInv, SourcesInv, Types, Works
<1>2. r.domain \in Domains /\ IsFile(r.file)
  BY <1>1, RequestsAreReal DEF ImportsInv, Running, Locked
<1>3. Knows("stage", w, sources, Len(jobs), canonical, registry)
  BY <1>1, KnownNow
<1>4. u.request = r /\ u.source = w.source /\ u.job = w.job /\ u.labels = l
  BY <1>1, EditedWork
<1> HIDE DEF l, u
<1>5. CASE error # None
  <2> HIDE DEF read
  <2>1. error \in ReadErrors
    BY <1>2, <1>5, ErrorsOfFiles
  <2>2. error \in JobErrors
    BY <2>1 DEF ReadErrors, JobErrors, ErrorCode
  <2> HIDE DEF error, r, w
  <2> QED BY <1>1, <1>5, <2>2, TablesStay, FailingIsSound DEF Recorded
<1>6. CASE error = None
  <2>1. read.layout = r.file.layout
    <3>1. IsReading(read, r.file, l)
      BY <1>2, ReadingIsOfTheFile
    <3> HIDE DEF read, r
    <3> QED BY <3>1 DEF IsReading
  <2>2. FileError(r.domain, read, r.file.layout) = None
    <3> HIDE DEF read
    <3> QED BY <1>2, <1>6, <2>1, ReadWithItsOwnLayout
  <2> HIDE DEF error
  <2>3. Go(i, "sourceLock") /\ work' = [work EXCEPT ![i] = u]
    BY <1>1, <1>6
  <2>4. work'[i] = u /\ \A j \in Importer \ {i} : work'[j] = work[j]
    BY <1>1, <2>3, WorkAnew
  <2>5. FileError(u.request.domain, FileRead(u), u.request.file.layout) = None
    BY <1>4, <2>2 DEF FileRead
  <2> HIDE DEF read, r
  <2>6. Knows("sourceLock", work'[i], sources', Len(jobs'), canonical, registry)
    BY <1>1, <1>3, <1>4, <2>4, <2>5 DEF Knows, Recorded, Past, Locked, r
  <2>7. OneWriter' /\ OneRegistrar'
    BY <2>3, <2>4, LocksStay
  <2> QED BY <1>1, <2>3, <2>4, <2>6, <2>7, TablesStay, StepIsSound
          DEF SourcesStay, Outcome, Recorded, Past, Locked
<1> QED BY <1>5, <1>6

\* lock_data_source: nobody else writes the rows of this source.
LEMMA TakingSourceLockIsSound ==
    ASSUME ImportsInv, SourcesInv', NEW i \in Importer, TakeSourceLock(i)
    PROVE  ImportsInv'
<1> DEFINE label == IF work[i].request.domain = "COSTS" THEN "registryLock" ELSE "plan"
<1>1. /\ Types /\ at[i] = "sourceLock" /\ Go(i, label)
      /\ UNCHANGED <<sources, jobs, canonical, registry, work, faults, operated>>
      /\ \A j \in Importer \ {i} : HoldsSourceLock(j) => work[j].source # work[i].source
  BY DEF TakeSourceLock, tables, ImportsInv, SourcesInv
<1>2. label \in {"registryLock", "plan"} /\ (label = "plan" => work[i].request.domain # "COSTS")
  OBVIOUS
<1> HIDE DEF label
<1>3. at'[i] = label /\ \A j \in Importer \ {i} : at'[j] = at[j]
  BY <1>1 DEF Go, Types
<1>4. OneWriter'
  BY <1>1, <1>3 DEF ImportsInv, OneWriter, HoldsSourceLock
<1>5. OneRegistrar'
  BY <1>1, <1>2, <1>3 DEF ImportsInv, OneRegistrar, HoldsRegistry
<1>6. Knows("sourceLock", work[i], sources, Len(jobs), canonical, registry)
  BY <1>1, KnownNow
<1>7. Knows(label, work'[i], sources', Len(jobs'), canonical, registry)
  BY <1>1, <1>2, <1>6 DEF Knows, Recorded, Judged, Past, Locked
<1> QED BY <1>1, <1>2, <1>4, <1>5, <1>7, TablesStay, StepIsSound
        DEF SourcesStay, Outcome, Recorded, Past, Locked

\* lock_supplier_registry: nobody else plans suppliers.
LEMMA TakingRegistryLockIsSound ==
    ASSUME ImportsInv, SourcesInv', NEW i \in Importer, TakeRegistryLock(i)
    PROVE  ImportsInv'
<1>1. /\ Types /\ at[i] = "registryLock" /\ Go(i, "plan")
      /\ UNCHANGED <<sources, jobs, canonical, registry, work, faults, operated>>
      /\ \A j \in Importer \ {i} : ~HoldsRegistry(i, j)
  BY DEF TakeRegistryLock, tables, ImportsInv, SourcesInv
<1>2. at'[i] = "plan" /\ \A j \in Importer \ {i} : at'[j] = at[j]
  BY <1>1 DEF Go, Types
<1>3. OneWriter'
  BY <1>1, <1>2 DEF ImportsInv, OneWriter, HoldsSourceLock
<1>4. OneRegistrar'
  BY <1>1, <1>2 DEF ImportsInv, OneRegistrar, HoldsRegistry
<1>5. Knows("registryLock", work[i], sources, Len(jobs), canonical, registry)
  BY <1>1, KnownNow
<1>6. Knows("plan", work'[i], sources', Len(jobs'), canonical, registry)
  BY <1>1, <1>5 DEF Knows, Recorded, Judged, Past, Locked
<1> QED BY <1>1, <1>3, <1>4, <1>6, TablesStay, StepIsSound
        DEF SourcesStay, Outcome, Recorded, Past, Locked

\* What an import may change, on any rows and on the registry as it is.
LEMMA NowIsChange ==
    ASSUME ImportsInv, NEW i \in Importer, at[i] \in Running
    PROVE  LET r == work[i].request IN
           /\ r.domain \in Domains
           /\ IsChange(Now(work[i], canonical, registry), canonical, registry, r.domain,
                       work[i].source)
<1>1. work[i].request.domain \in Domains /\ IsFile(work[i].request.file)
  BY RequestsAreReal DEF ImportsInv
<1>2. InOrder(FileRead(work[i]))
  <2>1. IsReading(FileRead(work[i]), work[i].request.file, work[i].labels)
    BY <1>1, ReadingIsOfTheFile DEF FileRead
  <2> QED BY <1>1, <2>1 DEF IsReading, IsFile, InOrder
<1>3. IsRegistry(registry) /\ OneOwnerEach(registry)
  BY DEF ImportsInv, Tables
<1> QED BY <1>1, <1>2, <1>3, ChangeIsSound DEF Now

\* The change is decided on what is there.
LEMMA DecidingIsSound ==
    ASSUME ImportsInv, SourcesInv', NEW i \in Importer, Decide(i)
    PROVE  ImportsInv'
<1> DEFINE w == work[i]
           r == w.request
           now == Now(w, canonical, registry)
           seen == [change |-> now, registry |-> registry]
<1>1. /\ Types /\ at[i] = "plan"
      /\ UNCHANGED <<sources, jobs, canonical, registry, faults, operated>>
  BY DEF Decide, tables, ImportsInv, SourcesInv
<1>2. r.domain \in Domains /\ IsChange(now, canonical, registry, r.domain, w.source)
  BY <1>1, NowIsChange DEF Running, Locked
<1>3. Knows("plan", w, sources, Len(jobs), canonical, registry)
  BY <1>1, KnownNow
<1>4. IsFor(sources[w.source], r)
  BY <1>3 DEF Knows, Recorded, Past, Locked
<1>5. ChangeOf(canonical, registry, w.source, sources[w.source], w.job,
               Reading(r.domain, r.file, w.labels), r.day) = now
  BY <1>2, <1>4, ChangeOfTheKind DEF IsFor, Now, FileRead
<1> HIDE DEF now
<1>6. CASE now.error # None
  <2>1. Failing(i, now.error)
    BY <1>5, <1>6 DEF Decide
  <2>2. now.error \in JobErrors
    BY <1>2, <1>6 DEF IsChange, ChangeErrors, SupplierErrors, JobErrors, ErrorCode
  <2> QED BY <1>1, <2>1, <2>2, TablesStay, FailingIsSound DEF Recorded
<1>7. CASE now.error = None
  <2> DEFINE u == [w EXCEPT !.seen = seen]
  <2>1. work' = [work EXCEPT ![i] = u] /\ Go(i, "write")
    BY <1>1, <1>5, <1>7 DEF Decide, Types, Works
  <2>2. seen.change = now /\ seen.registry = registry
    OBVIOUS
  <2> HIDE DEF seen
  <2>3. /\ work'[i].request = r /\ work'[i].source = w.source /\ work'[i].job = w.job
        /\ work'[i].labels = w.labels /\ work'[i].seen = seen
        /\ \A j \in Importer \ {i} : work'[j] = work[j]
    <3>1. /\ u.request = w.request /\ u.source = w.source /\ u.job = w.job
          /\ u.labels = w.labels /\ u.seen = seen
      BY <1>1, EditedWork
    <3> HIDE DEF w, u
    <3> QED BY <1>1, <2>1, <3>1, WorkAnew
  <2> HIDE DEF r, w
  <2>4. Now(work'[i], canonical, registry) = now
    BY <2>3 DEF Now, FileRead, now, r, w
  <2>5. Foreseen(work'[i], canonical, registry)
    BY <1>2, <1>7, <2>2, <2>3, <2>4 DEF Foreseen, IsChange
  <2>6. Knows("write", work'[i], sources', Len(jobs'), canonical, registry)
    BY <1>1, <1>3, <2>3, <2>5 DEF Knows, FileRead, Recorded, Judged, Past, Locked, r
  <2>7. OneWriter' /\ OneRegistrar'
    BY <1>1, <2>1, <2>3, LocksStay DEF HoldsSourceLock, HoldsRegistry, r, w
  <2> QED BY <1>1, <2>1, <2>3, <2>6, <2>7, TablesStay, StepIsSound
          DEF SourcesStay, Outcome, Recorded, Past, Locked
<1> QED BY <1>6, <1>7

\* The write is the one that was decided, and no unique key refuses it.
LEMMA WritingIsAnImport ==
    ASSUME ImportsInv, NEW i \in Importer, Write(i)
    PROVE  LET w == work[i]
               now == Now(w, canonical, registry)
           IN /\ now.error = None
              /\ canonical' = Written(canonical, now) /\ registry' = now.registry
              /\ jobs' = [jobs EXCEPT ![w.job].status = "SUCCEEDED"]
              /\ work' = [work EXCEPT ![i].seen = None]
              /\ Go(i, "end")
<1> DEFINE w == work[i]
           c == w.seen.change
           now == Now(w, canonical, registry)
           d == w.request.domain
<1>1. at[i] = "write"
  BY DEF Write
<1>2. d \in Domains /\ IsChange(now, canonical, registry, d, w.source)
  BY <1>1, NowIsChange DEF Running, Locked
<1>3. Foreseen(w, canonical, registry)
  BY <1>1, KnownNow DEF Knows
<1>4. IsRegistry(registry) /\ OneOwnerEach(registry)
  BY DEF ImportsInv, Tables
<1> HIDE DEF now
<1>5. /\ now.error = None /\ c.insert = now.insert /\ c.update = now.update
      /\ IF d = "COSTS" THEN w.seen.registry = registry /\ c.registry = now.registry
         ELSE c.registry = w.seen.registry
  BY <1>3 DEF Foreseen, now
<1>6. Applied(registry, w.seen.registry, c.registry) = now.registry
  <2>1. CASE d = "COSTS"
    BY <1>2, <1>4, <1>5, <2>1, AppliedAsPlanned DEF IsChange, RegistryGrows
  <2>2. CASE d # "COSTS"
    BY <1>2, <1>4, <1>5, <2>2, NothingPlannedApplied DEF IsChange
  <2> QED BY <2>1, <2>2
<1>7. ~Rejected(canonical, registry, w.seen.registry, c)
  BY <1>2, <1>5, <1>6 DEF Rejected, IsChange, RegistryGrows
<1>8. Written(canonical, c) = Written(canonical, now)
  BY <1>5 DEF Written
<1>9. /\ canonical' = Written(canonical, c)
      /\ registry' = Applied(registry, w.seen.registry, c.registry)
      /\ jobs' = [jobs EXCEPT ![w.job].status = "SUCCEEDED"]
      /\ work' = [work EXCEPT ![i].seen = None]
      /\ Go(i, "end")
  BY <1>7 DEF Write
<1> QED BY <1>5, <1>6, <1>8, <1>9 DEF now

\* Of the rows another import reads, and of the suppliers it plans, a write
\* changes none.
LEMMA WritingIsElsewhere ==
    ASSUME ImportsInv, NEW i \in Importer, Write(i), NEW j \in Importer \ {i}, at[j] = "write"
    PROVE  Foreseen(work[j], canonical', registry')
<1> DEFINE w == work[j]
           d == w.request.domain
           e == work[i].request.domain
           done == Now(work[i], canonical, registry)
           now == Now(w, canonical, registry)
           later == Now(w, canonical', registry')
<1>1. at[i] = "write"
  BY DEF Write
<1>2. /\ d \in Domains /\ IsChange(now, canonical, registry, d, w.source)
      /\ e \in Domains /\ IsChange(done, canonical, registry, e, work[i].source)
  BY <1>1, NowIsChange DEF Running, Locked
<1>3. canonical' = Written(canonical, done) /\ registry' = done.registry
  BY WritingIsAnImport
<1>4. work[i].source # w.source
  BY <1>1 DEF ImportsInv, OneWriter, HoldsSourceLock
<1>5. ~(d = "COSTS" /\ e = "COSTS")
  BY <1>1 DEF ImportsInv, OneRegistrar, HoldsRegistry
<1>6. d = "COSTS" => registry' = registry
  BY <1>2, <1>3, <1>5 DEF IsChange
<1> HIDE DEF done
<1>7. ASSUME NEW key, IsOf(key, d, w.source)
      PROVE  Stored(canonical', key) = Stored(canonical, key)
  <2>1. \A n \in done.insert \cup done.update : n.key # key
    <3> SUFFICES ASSUME IsOf(key, e, work[i].source) PROVE FALSE
      BY <1>2 DEF IsChange
    <3> QED BY <1>2, <1>4, <1>5, <1>7, KeysAreOfOne
  <2> QED BY <1>3, <2>1, WrittenElsewhere
<1>8. /\ later.insert = now.insert /\ later.update = now.update /\ later.error = now.error
      /\ d = "COSTS" => later.registry = now.registry
  <2> DEFINE rows == canonical'
             reg == registry'
  <2>1. \A key : IsOf(key, d, w.source) => Stored(rows, key) = Stored(canonical, key)
    BY <1>7
  <2>2. d = "COSTS" => reg = registry
    BY <1>6
  <2> HIDE DEF rows, reg, d, w
  <2>3. LET a == Now(w, rows, reg)
            b == Now(w, canonical, registry)
        IN /\ a.insert = b.insert /\ a.update = b.update /\ a.error = b.error
           /\ d = "COSTS" => a.registry = b.registry
    BY <1>2, <2>1, <2>2, ChangeReads DEF Now, d
  <2> QED BY <2>3 DEF rows, reg, d, w
<1>9. Foreseen(w, canonical, registry)
  BY KnownNow DEF Knows
<1> QED BY <1>6, <1>8, <1>9 DEF Foreseen

LEMMA EditedJob ==
    ASSUME jobs \in Seq(ImportJob), NEW n \in 1 .. Len(jobs)
    PROVE  /\ [jobs[n] EXCEPT !.status = "SUCCEEDED"] \in ImportJob
           /\ \A e \in JobErrors : [jobs[n] EXCEPT !.status = "FAILED", !.error = e] \in ImportJob
<1> DEFINE job == jobs[n]
<1>1. job \in ImportJob
  OBVIOUS
<1> HIDE DEF job
<1>2. /\ [job EXCEPT !.status = "SUCCEEDED"] \in ImportJob
      /\ \A e \in JobErrors : [job EXCEPT !.status = "FAILED", !.error = e] \in ImportJob
  BY <1>1 DEF ImportJob
<1> QED BY <1>2 DEF job

LEMMA WritingIsSound ==
    ASSUME ImportsInv, SourcesInv', NEW i \in Importer, Write(i)
    PROVE  ImportsInv'
<1> DEFINE w == work[i]
           now == Now(w, canonical, registry)
<1>1. /\ Types /\ at[i] = "write" /\ UNCHANGED <<sources, faults, operated>> /\ Go(i, "end")
      /\ jobs' = [jobs EXCEPT ![w.job].status = "SUCCEEDED"]
      /\ work' = [work EXCEPT ![i] = [w EXCEPT !.seen = None]]
      /\ registry' = now.registry
  BY WritingIsAnImport DEF Write, ImportsInv, SourcesInv, Types, Works
<1>2. /\ work'[i].request = w.request /\ work'[i].source = w.source
      /\ \A j \in Importer \ {i} : work'[j] = work[j]
  <2> DEFINE u == [w EXCEPT !.seen = None]
  <2>1. work' = [work EXCEPT ![i] = u]
    BY <1>1
  <2>2. u.request = w.request /\ u.source = w.source
    BY <1>1, EditedWork
  <2> HIDE DEF w, u
  <2> QED BY <1>1, <2>1, <2>2, WorkAnew
<1>3. Knows("write", w, sources, Len(jobs), canonical, registry)
  BY <1>1, KnownNow
<1>4. at'[i] = "end" /\ \A j \in Importer \ {i} : at'[j] = at[j]
  BY <1>1 DEF Go, Types
<1>5. jobs' \in Seq(ImportJob) /\ Len(jobs') = Len(jobs)
  <2>1. jobs \in Seq(ImportJob) /\ w.job \in 1 .. Len(jobs)
    BY <1>3 DEF Knows, Recorded, ImportsInv, Tables
  <2>2. [jobs[w.job] EXCEPT !.status = "SUCCEEDED"] \in ImportJob
    BY <2>1, EditedJob
  <2> QED BY <1>1, <2>1, <2>2, ExceptSeq
<1>6. Tables'
  <2>1. IsChange(now, canonical, registry, w.request.domain, w.source)
    BY <1>1, NowIsChange DEF Running, Locked
  <2> HIDE DEF now
  <2>2. IsRegistry(now.registry) /\ OneOwnerEach(now.registry)
    BY <2>1 DEF IsChange, RegistryGrows
  <2> QED BY <1>1, <1>5, <2>2 DEF ImportsInv, Tables
<1>7. AllKnow'
  <2>1. Knows("end", work'[i], sources', Len(jobs'), canonical', registry')
    BY <1>1, <1>2, <1>3 DEF Knows, Recorded, Judged, Past, Locked
  <2>2. ASSUME NEW j \in Importer \ {i}
        PROVE  Knows(at[j], work[j], sources', Len(jobs'), canonical', registry')
    <3>1. Knows(at[j], work[j], sources, Len(jobs), canonical, registry)
      BY KnownNow
    <3>2. at[j] = "write" => Foreseen(work[j], canonical', registry')
      BY WritingIsElsewhere
    <3> QED BY <1>1, <1>5, <3>1, <3>2 DEF Knows
  <2> QED BY <1>2, <1>4, <2>1, <2>2 DEF AllKnow
<1>8. OneWriter' /\ OneRegistrar'
  BY <1>1, <1>2, LocksStay
<1>9. Counted'
  BY <1>1, <1>5, CountsStay DEF Outcome, Recorded, Past, Locked
<1> QED BY <1>6, <1>7, <1>8, <1>9 DEF ImportsInv

\* _fail, and an import that ends.
LEMMA FailIsSound ==
    ASSUME ImportsInv, SourcesInv', NEW i \in Importer, Fail(i) \/ FailBreaks(i)
    PROVE  ImportsInv'
<1> DEFINE w == work[i]
<1>1. /\ Types /\ at[i] = "fail" /\ Go(i, "end")
      /\ UNCHANGED <<sources, canonical, registry, work, operated>>
  BY DEF Fail, FailBreaks, tables, ImportsInv, SourcesInv
<1>2. Knows("fail", w, sources, Len(jobs), canonical, registry)
  BY <1>1, KnownNow
<1> HIDE DEF w
<1>3. jobs' \in Seq(ImportJob) /\ Len(jobs') = Len(jobs)
  <2>1. jobs \in Seq(ImportJob) /\ w.job \in 1 .. Len(jobs) /\ w.error \in JobErrors
    BY <1>2 DEF Knows, Recorded, ImportsInv, Tables
  <2>2. CASE Fail(i)
    <3>1. jobs' = [jobs EXCEPT ![w.job].status = "FAILED", ![w.job].error = w.error]
      BY <2>2 DEF Fail, w
    <3>2. jobs' = [jobs EXCEPT ![w.job] = [jobs[w.job] EXCEPT !.status = "FAILED",
                                                              !.error = w.error]]
      BY <2>1, <3>1
    <3>3. [jobs[w.job] EXCEPT !.status = "FAILED", !.error = w.error] \in ImportJob
      BY <2>1, EditedJob
    <3> QED BY <2>1, <3>2, <3>3, ExceptSeq
  <2>3. CASE FailBreaks(i)
    BY <2>1, <2>3 DEF FailBreaks, tables
  <2> QED BY <2>2, <2>3
<1>4. faults' = faults \/ (faults' = faults + 1 /\ Undisturbed)
  BY DEF Fail, FailBreaks
<1>5. Tables'
  BY <1>1, <1>3, <1>4, BoundsAssumption DEF Undisturbed, ImportsInv, Tables
<1>6. Knows("end", work'[i], sources', Len(jobs'), canonical, registry)
  BY <1>1, <1>2 DEF Knows, Recorded, Judged, Past, Locked, w
<1>7. OneWriter' /\ OneRegistrar'
  BY <1>1, LocksStay
<1> QED BY <1>1, <1>3, <1>5, <1>6, <1>7, StepIsSound DEF SourcesStay, Outcome, Recorded, Past, Locked

LEMMA EndIsSound ==
    ASSUME ImportsInv, SourcesInv', NEW i \in Importer, End(i)
    PROVE  ImportsInv'
<1>1. /\ Types /\ WorkIsReal /\ at[i] = "end" /\ at[i] \in Past
      /\ UNCHANGED <<jobs, canonical, registry, faults, operated>>
  BY DEF End, ImportsInv, SourcesInv, Past, Locked
<1>2. PICK outcome \in Outcome : Finish(i, outcome)
  BY Zenon DEF End, Outcome
<1>3. /\ work[i].source \in DOMAIN sources /\ work[i].request.file.layout \in Layout
      /\ work[i].labels \in SUBSET Label
  BY <1>1, LabelsAreSome DEF WorkIsReal, Running, Past, Layout
<1>4. Kept
  <2>1. operated' \in Nat
    BY <1>1 DEF Types
  <2>2. CASE SwitchesOff(i)
    BY <1>1, <1>3, <2>1, <2>2, SwitchingOffKeeps DEF End
  <2>3. CASE ~SwitchesOff(i)
    <3>1. /\ UNCHANGED recency
          /\ \/ sources' = sources
             \/ sources' = [sources EXCEPT ![work[i].source].layout = work[i].request.file.layout,
                                           ![work[i].source].labels = work[i].labels]
      BY <2>3 DEF End
    <3> QED BY <1>1, <1>3, <2>1, <3>1, LayoutKeeps, NothingWrittenKeeps
  <2> QED BY <2>2, <2>3
<1>5. SourcesStay /\ Len(sources') = Len(sources)
  BY <1>1, <1>4, StayingIfKept
<1> QED BY <1>1, <1>2, <1>5, TablesStay, EndingIsSound

\* The operator adds sources, switches them off and forgets their layouts.
LEMMA OperatingIsSound ==
    ASSUME ImportsInv, SourcesInv',
           \/ \E s \in DOMAIN sources : Deactivate(s) \/ Forget(s)
           \/ \E k \in ByHand : CreateByHand(k[1], k[2])
    PROVE  ImportsInv'
<1>1. /\ UNCHANGED <<jobs, canonical, registry, at, work, faults>> /\ operated' = operated + 1
      /\ Undisturbed
  BY Zenon DEF Deactivate, Forget, CreateByHand
<1>2. Types /\ Len(sources) \in Nat /\ DOMAIN sources = 1 .. Len(sources)
      /\ sources \in Seq(Source)
  BY ShapeOfSources DEF ImportsInv, SourcesInv, Types
<1>3. Tables'
  BY <1>1, BoundsAssumption DEF Undisturbed, ImportsInv, Tables
<1>4. SourcesStay /\ Len(sources') \in {Len(sources), Len(sources) + 1}
  <2>1. ASSUME NEW s \in DOMAIN sources, Deactivate(s)
        PROVE  SourcesStay /\ Len(sources') = Len(sources)
    <3>1. SetActive(s, FALSE)
      BY <2>1 DEF Deactivate
    <3>2. operated' \in Nat
      BY <1>1, <1>2 DEF Types
    <3>3. Kept
      BY <1>2, <3>1, <3>2, SwitchingOffKeeps
    <3> QED BY <1>2, <3>3, StayingIfKept
  <2>2. ASSUME NEW s \in DOMAIN sources, Forget(s)
        PROVE  SourcesStay /\ Len(sources') = Len(sources)
    <3>1. /\ sources' = [sources EXCEPT ![s].layout = None, ![s].labels = {}]
          /\ recency' = recency /\ None \in Layout /\ {} \in SUBSET Label
      BY <2>2 DEF Forget, Layout
    <3>2. operated' \in Nat
      BY <1>1, <1>2 DEF Types
    <3>3. Kept
      BY <1>2, <3>1, <3>2, LayoutKeeps
    <3> QED BY <1>2, <3>3, StayingIfKept
  <2>3. ASSUME NEW k \in ByHand, CreateByHand(k[1], k[2])
        PROVE  SourcesStay /\ Len(sources') = Len(sources) + 1
    <3>1. \E new : sources' = Append(sources, new)
      BY <2>3 DEF CreateByHand, AddSource
    <3>2. PICK new : sources' = Append(sources, new)
      BY <3>1
    <3> QED BY <1>2, <3>2 DEF SourcesStay
  <2> QED BY <2>1, <2>2, <2>3
<1>5. AllKnow'
  <2>1. Len(jobs') = Len(jobs) /\ Len(jobs) \in Nat /\ Len(jobs) <= Len(jobs)
    BY <1>1 DEF ImportsInv, Tables
  <2> QED BY <1>1, <1>4, <2>1, KnowingStays DEF AllKnow
<1>6. OneWriter' /\ OneRegistrar'
  BY <1>1 DEF ImportsInv, OneWriter, OneRegistrar, HoldsSourceLock, HoldsRegistry
<1>7. Counted'
  <2> DEFINE p == Cardinality(AtIn(Past \cup Outcome))
             r == Cardinality(AtIn(Recorded \cup Outcome))
  <2>1. Len(jobs) <= r /\ Len(sources) <= p + operated
    BY DEF ImportsInv, Counted
  <2>2. Counted' = (Len(jobs') <= r /\ Len(sources') <= p + operated')
    BY <1>1 DEF Counted, AtIn
  <2>3. p \in Nat /\ operated \in Nat
    <3>1. IsFiniteSet(Importer)
      BY FS_Interval, BoundsAssumption DEF Importer
    <3>2. IsFiniteSet(AtIn(Past \cup Outcome))
      BY <3>1, FS_Subset DEF AtIn
    <3> QED BY <1>2, <3>2, FS_CardinalityType DEF Types
  <2> HIDE DEF p, r
  <2>4. Len(jobs') <= r
    BY <1>1, <2>1
  <2>5. Len(sources') <= p + operated'
    BY <1>1, <1>2, <1>4, <2>1, <2>3
  <2> QED BY <2>2, <2>4, <2>5
<1> QED BY <1>3, <1>5, <1>6, <1>7 DEF ImportsInv

LEMMA InitImports == Init => ImportsInv
<1> SUFFICES ASSUME Init PROVE ImportsInv
  OBVIOUS
<1>1. SourcesInv
  BY InitSources
<1>2. /\ sources = <<>> /\ jobs = <<>> /\ registry = EmptyRegistry
      /\ faults = 0 /\ operated = 0 /\ at = [i \in Importer |-> "idle"]
  BY DEF Init
<1>3. \A i \in Importer : at[i] = "idle" /\ at[i] \notin Past \cup Recorded \cup Outcome
  BY <1>2 DEF Past, Recorded, Locked, Outcome
<1>4. AllKnow
  BY <1>3, NothingKnown DEF AllKnow
<1>5. OneWriter /\ OneRegistrar
  BY <1>3 DEF OneWriter, OneRegistrar, HoldsSourceLock, HoldsRegistry
<1>6. Tables
  BY <1>2, BoundsAssumption DEF Tables, IsRegistry, OneOwnerEach, EmptyRegistry
<1>7. Counted
  <2>1. AtIn(Past \cup Outcome) = {} /\ AtIn(Recorded \cup Outcome) = {}
    BY <1>3 DEF AtIn
  <2>2. Cardinality({}) = 0 /\ Len(<<>>) = 0
    BY FS_EmptySet
  <2>3. Len(jobs) = 0 /\ Len(sources) = 0
    BY <1>2, <2>2
  <2>4. /\ Cardinality(AtIn(Past \cup Outcome)) = 0
        /\ Cardinality(AtIn(Recorded \cup Outcome)) = 0
    BY <2>1, <2>2, Zenon
  <2>5. operated = 0
    BY <1>2
  <2> QED BY <2>3, <2>4, <2>5 DEF Counted
<1> QED BY <1>1, <1>4, <1>5, <1>6, <1>7 DEF ImportsInv

LEMMA NextImports == ImportsInv /\ [Next]_vars => ImportsInv'
<1> SUFFICES ASSUME ImportsInv, [Next]_vars PROVE ImportsInv'
  OBVIOUS
<1>1. SourcesInv'
  BY NextSources DEF ImportsInv
<1>2. CASE UNCHANGED vars
  <2>1. UNCHANGED <<sources, jobs, canonical, registry, at, work, faults, operated>>
    BY <1>2 DEF vars, tables
  <2>2. AllKnow' /\ OneWriter' /\ OneRegistrar' /\ Tables' /\ Counted'
    BY <2>1 DEF ImportsInv, AllKnow, OneWriter, OneRegistrar, HoldsSourceLock, HoldsRegistry,
                Tables, Counted, AtIn
  <2> QED BY <1>1, <2>2 DEF ImportsInv
<1>3. ASSUME NEW i \in Importer, TryFile(i) \/ Receive(i) PROVE ImportsInv'
  BY <1>1, <1>3, TryingIsSound, ReceivingIsSound
<1>4. ASSUME NEW i \in Importer, Step(i) PROVE ImportsInv'
  <2>1. CASE GiveUp(i) \/ Ambiguous(i) \/ SourceUnusable(i)
    BY <1>1, <2>1, StoppingIsSound
  <2>2. CASE TakeImportLock(i) \/ ReadSources(i) \/ SwitchOn(i) \/ SaveMapping(i)
             \/ ConfigurationGone(i)
    BY <1>1, <2>2, TakingImportLockIsSound, ReadingSourcesIsSound, SwitchingOnIsSound,
       SavingMappingIsSound, FindingNoConfigurationIsSound
  <2>3. CASE RecordJob(i) \/ Stage(i) \/ TakeSourceLock(i) \/ TakeRegistryLock(i) \/ Decide(i)
             \/ Write(i) \/ Fail(i) \/ End(i)
    BY <1>1, <2>3, RecordingIsSound, StagingIsSound, TakingSourceLockIsSound,
       TakingRegistryLockIsSound, DecidingIsSound, WritingIsSound, FailIsSound, EndIsSound
  <2> QED BY <1>4, <2>1, <2>2, <2>3 DEF Step
<1>5. ASSUME NEW i \in Importer, Break(i) \/ FailBreaks(i) \/ Crash(i) PROVE ImportsInv'
  BY <1>1, <1>5, BreakingIsSound, FailIsSound, StoppingIsSound
<1>6. ASSUME \/ \E s \in DOMAIN sources : Deactivate(s) \/ Forget(s)
             \/ \E k \in ByHand : CreateByHand(k[1], k[2])
      PROVE  ImportsInv'
  BY <1>1, <1>6, OperatingIsSound
<1> QED BY <1>2, <1>3, <1>4, <1>5, <1>6 DEF Next

\* ImportsAreSound: the source lock and the registry lock keep what an import has
\* decided on true until it writes, whatever is imported beside it and wherever a
\* process dies or a statement is refused (lock_data_source, lock_supplier_registry).
THEOREM ImportsAreSound == Spec => []ImportsInv
BY InitImports, NextImports, PTL DEF Spec

\* NoWriteIsRejected: no import ever fails because a unique key of the tables
\* refused a row or an identifier it had planned (_canonicalize, SupplierResolver.apply).
THEOREM NoWriteIsRejected == Spec => []WritesAreNeverRejected
<1>1. ImportsInv => WritesAreNeverRejected
  <2> SUFFICES ASSUME ImportsInv, NEW j \in DOMAIN jobs
               PROVE  jobs[j].error # "CANONICALIZATION_FAILED"
    BY DEF WritesAreNeverRejected
  <2>1. jobs[j] \in ImportJob
    BY DEF ImportsInv, Tables
  <2> QED BY <2>1, NoneAssumption DEF ImportJob, JobErrors, ErrorCode
<1> QED BY <1>1, ImportsAreSound, PTL

----------------------------------------------------------------------------
(* What a dry run tells of the import                                       *)

\* Where an import holds the words it reads with, and may still fail.
Reads == Recorded \ {"end"}

\* Why an import fails for something else than its file.
LaterErrors ==
  {"SNAPSHOT_CONFLICT", "DOCUMENT_CONFLICT", "SUPPLIER_NAME_AMBIGUOUS",
   "SUPPLIER_IDENTITY_CONFLICT", "CANONICALIZATION_FAILED", "INTERNAL_ERROR"}

\* What was said when the file was tried is what those words make of it.
Told(label, w) ==
  /\ label \notin Running \cup {"tried"} => w.tried = None
  /\ label \in Running \cup {"tried"} /\ w.tried # None =>
       /\ w.request \in Request /\ w.request.mode = "MAPPED"
       /\ w.tried.error = DryRun(w.request.domain,
                                 Reading(w.request.domain, w.request.file, w.tried.labels))

\* An import with a person's own matching knows every word its source still has.
Worded(label, w, srcs) ==
  label \in Reads /\ w.request.mode = "MAPPED" =>
    Taught(srcs[w.source].labels, w.request.labels) \subseteq w.labels

\* And what it fails of for its file is what it finds with the words it knows.
Blamed(label, w) ==
  label = "fail" /\ w.request.mode = "MAPPED" =>
    \/ w.error \in LaterErrors
    \/ w.error = FileError(w.request.domain, FileRead(w), w.request.file.layout)

Foretold(label, w, srcs) == Told(label, w) /\ Worded(label, w, srcs) /\ Blamed(label, w)

DryRunInv == ImportsInv /\ \A i \in Importer : Foretold(at[i], work[i], sources)

\* A step moves one import at most.
LEMMA OneMoves ==
    ASSUME Types, NEW i \in Importer,
           TryFile(i) \/ Receive(i) \/ Step(i) \/ Break(i) \/ FailBreaks(i) \/ Crash(i)
    PROVE  \A j \in Importer \ {i} : at'[j] = at[j] /\ work'[j] = work[j]
<1>1. DOMAIN at = Importer /\ DOMAIN work = Importer
  BY DEF Types, Works
<1>2. ASSUME NEW label, Go(i, label)
      PROVE  \A j \in Importer \ {i} : at'[j] = at[j]
  BY <1>1, <1>2 DEF Go
<1>3. ASSUME NEW new, work' = [work EXCEPT ![i] = new]
      PROVE  \A j \in Importer \ {i} : work'[j] = work[j]
  BY <1>1, <1>3
<1>4. \E label : Go(i, label)
  <2>1. ASSUME NEW s, NEW on, Chosen(i, s, on) PROVE \E label : Go(i, label)
    BY <2>1 DEF Chosen
  <2>2. CASE ReadSources(i)
    BY <2>1, <2>2, Zenon DEF ReadSources
  <2>3. CASE SwitchOn(i)
    BY <2>1, <2>3, Zenon DEF SwitchOn
  <2>4. CASE ~ReadSources(i) /\ ~SwitchOn(i)
    BY <2>4, Zenon DEF TryFile, Receive, Step, Break, FailBreaks, Crash, TakeImportLock, GiveUp,
       Ambiguous, SourceUnusable, SaveMapping, ConfigurationGone, RecordJob, Stage,
       TakeSourceLock, TakeRegistryLock, Decide, Write, Fail, End, Finish, Failing
  <2> QED BY <2>2, <2>3, <2>4
<1>5. \A j \in Importer \ {i} : work'[j] = work[j]
  <2>1. CASE TryFile(i) \/ Receive(i) \/ ReadSources(i) \/ SwitchOn(i)
    BY <1>1, <2>1 DEF TryFile, Receive, ReadSources, SwitchOn, Chosen
  <2>2. CASE RecordJob(i) \/ Stage(i) \/ Decide(i) \/ Write(i) \/ Break(i)
    BY <1>1, <2>2 DEF RecordJob, Stage, Decide, Write, Break, Failing
  <2>3. CASE GiveUp(i) \/ Ambiguous(i) \/ SourceUnusable(i) \/ End(i) \/ Crash(i)
    BY <1>1, <2>3 DEF GiveUp, Ambiguous, SourceUnusable, End, Crash, Finish
  <2>4. CASE TakeImportLock(i) \/ SaveMapping(i) \/ ConfigurationGone(i) \/ TakeSourceLock(i)
             \/ TakeRegistryLock(i) \/ Fail(i) \/ FailBreaks(i)
    BY <2>4 DEF TakeImportLock, SaveMapping, ConfigurationGone, TakeSourceLock,
       TakeRegistryLock, Fail, FailBreaks
  <2> QED BY <2>1, <2>2, <2>3, <2>4 DEF Step
<1> QED BY <1>2, <1>4, <1>5

\* The steps that write labels of a source that is there.
LEMMA WritersOfLabels ==
    ASSUME ImportsInv, Next, NEW s \in DOMAIN sources
    PROVE  \/ sources'[s].labels = sources[s].labels \/ sources'[s].labels = {}
           \/ \E i \in Importer : /\ at[i] = "end" /\ work[i].source = s
                                   /\ work[i].request.mode = "MAPPED"
<1>1. Types /\ DOMAIN sources = 1 .. Len(sources) /\ Len(sources) \in Nat
      /\ \A t \in DOMAIN sources : sources[t] \in Source
  BY ShapeOfSources DEF ImportsInv, SourcesInv
<1>2. ASSUME NEW property, NEW domain, NEW by, AddSource(property, domain, by)
      PROVE  sources'[s] = sources[s]
  <2>1. PICK new : sources' = Append(sources, new)
    BY <1>2 DEF AddSource
  <2> QED BY <1>1, <2>1
<1>3. ASSUME NEW t \in DOMAIN sources, NEW active, SetActive(t, active)
      PROVE  sources'[s].labels = sources[s].labels
  BY <1>1, <1>3 DEF SetActive, Source
<1>4. ASSUME NEW i \in Importer, SwitchOn(i)
      PROVE  sources'[s].labels = sources[s].labels
  <2>1. CASE work[i].source = 0
    BY <1>2, <1>4, <2>1 DEF SwitchOn
  <2>2. CASE work[i].source # 0
    <3> DEFINE t == work[i].source
    <3>1. sources' = [sources EXCEPT ![t].active = TRUE, ![t].by = i]
      BY <1>4, <2>2 DEF SwitchOn
    <3> HIDE DEF t
    <3> QED BY <1>1, <3>1 DEF Source
  <2> QED BY <2>1, <2>2
<1>5. ASSUME NEW t, NEW l, NEW words, sources' = [sources EXCEPT ![t].layout = l, ![t].labels = words]
      PROVE  IF t = s THEN sources'[s].labels = words ELSE sources'[s] = sources[s]
  BY <1>1, <1>5 DEF Source
<1>6. ASSUME NEW i \in Importer, SaveMapping(i)
      PROVE  sources'[s].labels = sources[s].labels \/ sources'[s].labels = {}
  BY <1>5, <1>6 DEF SaveMapping
<1>7. ASSUME NEW i \in Importer, End(i)
      PROVE  \/ sources'[s].labels = sources[s].labels
             \/ /\ at[i] = "end" /\ work[i].source = s
                /\ work[i].request.mode = "MAPPED"
  <2>1. at[i] = "end" /\ work[i].source \in DOMAIN sources
    BY <1>7 DEF End, ImportsInv, SourcesInv, WorkIsReal, Past, Locked
  <2>2. CASE SwitchesOff(i)
    BY <1>3, <1>7, <2>1, <2>2 DEF End
  <2>3. CASE ~SwitchesOff(i)
    <3>1. \/ sources' = sources
          \/ /\ work[i].request.mode = "MAPPED"
             /\ sources' = [sources EXCEPT
                              ![work[i].source].layout = work[i].request.file.layout,
                              ![work[i].source].labels = work[i].labels]
      BY <1>7, <2>3 DEF End
    <3> QED BY <1>5, <2>1, <3>1
  <2> QED BY <2>2, <2>3
<1>8. ASSUME NEW i \in Importer, Step(i), ~SwitchOn(i), ~SaveMapping(i), ~End(i)
      PROVE  sources' = sources
  BY <1>8 DEF Step, TakeImportLock, GiveUp, ReadSources, Ambiguous, SourceUnusable,
     ConfigurationGone, RecordJob, Stage, TakeSourceLock, TakeRegistryLock, Decide, Write, Fail,
     tables
<1>9. ASSUME NEW i \in Importer,
             TryFile(i) \/ Receive(i) \/ Break(i) \/ FailBreaks(i) \/ Crash(i)
      PROVE  sources' = sources
  BY <1>9 DEF TryFile, Receive, Break, FailBreaks, Crash, tables
<1>10. ASSUME NEW t \in DOMAIN sources, Deactivate(t) \/ Forget(t)
       PROVE  sources'[s].labels = sources[s].labels \/ sources'[s].labels = {}
  BY <1>3, <1>5, <1>10 DEF Deactivate, Forget
<1>11. ASSUME NEW k \in ByHand, CreateByHand(k[1], k[2])
       PROVE  sources'[s] = sources[s]
  BY <1>2, <1>11 DEF CreateByHand
<1> QED BY <1>4, <1>6, <1>7, <1>8, <1>9, <1>10, <1>11 DEF Next

\* The import lock: nobody teaches a source new words while an import reads with
\* a person's own matching.
LEMMA LabelsOnlyGo ==
    ASSUME ImportsInv, Next, NEW j \in Importer, at[j] \in Reads,
           work[j].request.mode = "MAPPED"
    PROVE  sources'[work[j].source].labels \subseteq sources[work[j].source].labels
<1> DEFINE s == work[j].source
<1>1. s \in DOMAIN sources
  BY DEF Reads, Recorded, ImportsInv, SourcesInv, WorkIsReal, Past, Locked
<1>2. ASSUME NEW i \in Importer, at[i] = "end", work[i].source = s,
             work[i].request.mode = "MAPPED"
      PROVE  FALSE
  <2>1. i # j /\ at[i] \in Past /\ at[j] \in Past /\ at[i] \in Locked /\ at[j] \in Locked
    BY <1>2 DEF Reads, Recorded, Past, Locked
  <2>2. work[i].request.via = "web" /\ work[j].request.via = "web"
    BY <1>2, <2>1, RequestsAreReal DEF ImportsInv, Running
  <2>3. IsFor(sources[s], work[i].request) /\ IsFor(sources[s], work[j].request)
    BY <1>2, <2>1, <2>2, KnownNow DEF Knows
  <2>4. HoldsImportLock(i) /\ HoldsImportLock(j)
    BY <2>1, <2>2 DEF HoldsImportLock
  <2>5. SameKind(work[i].request, work[j].request)
    BY <2>3 DEF IsFor, SameKind
  <2> QED BY <2>1, <2>4, <2>5 DEF ImportsInv, SourcesInv, OneHolder
<1> HIDE DEF s
<1>3. sources'[s].labels = sources[s].labels \/ sources'[s].labels = {}
  BY <1>1, <1>2, WritersOfLabels
<1> QED BY <1>3 DEF s

\* What a person teaches now, and what is left of what the source was taught.
LEMMA TaughtFollows ==
    ASSUME NEW some, NEW all, some \subseteq all, NEW new
    PROVE  Taught(some, new) \subseteq Taught(all, new)
BY DEF Taught

\* What was foretold of the imports that do not move stays so.
LEMMA StayingForetold ==
    ASSUME ImportsInv, Next, NEW j \in Importer, Foretold(at[j], work[j], sources),
           at'[j] = at[j], work'[j] = work[j]
    PROVE  Foretold(at'[j], work'[j], sources')
<1>1. Worded(at[j], work[j], sources')
  <2> SUFFICES ASSUME at[j] \in Reads, work[j].request.mode = "MAPPED"
               PROVE  Taught(sources'[work[j].source].labels, work[j].request.labels)
                        \subseteq work[j].labels
    BY DEF Worded
  <2>1. Taught(sources[work[j].source].labels, work[j].request.labels) \subseteq work[j].labels
    BY DEF Foretold, Worded
  <2>2. sources'[work[j].source].labels \subseteq sources[work[j].source].labels
    BY LabelsOnlyGo
  <2> QED BY <2>1, <2>2, TaughtFollows
<1> QED BY <1>1 DEF Foretold

\* An import that goes on with its request was told what it was told.
LEMMA GoingOnTold ==
    ASSUME NEW i \in Importer, at[i] \in Running, Told(at[i], work[i]), NEW label \in Running,
           NEW w, w.request = work[i].request, w.tried = work[i].tried
    PROVE  Told(label, w)
BY DEF Told

\* Until its job is recorded, and after, nothing but what it was told is foretold.
LEMMA NothingElseForetold ==
    ASSUME NEW label, label \notin Reads, NEW w, NEW srcs, Told(label, w)
    PROVE  Foretold(label, w, srcs)
BY DEF Foretold, Worded, Blamed, Reads, Recorded

\* A file is tried, or given to an import.
LEMMA ArrivingForetold ==
    ASSUME ImportsInv, NEW i \in Importer, Told(at[i], work[i]), TryFile(i) \/ Receive(i)
    PROVE  Foretold(at'[i], work'[i], sources')
<1>1. Types /\ DOMAIN at = Importer
  BY DEF ImportsInv, SourcesInv, Types
<1>2. CASE TryFile(i)
  <2>1. PICK r \in Request :
          LET labels == LabelsOf(r, SourceForDomain(r.property, r.domain))
              error  == DryRun(r.domain, Reading(r.domain, r.file, labels))
          IN /\ r.mode = "MAPPED"
             /\ work' = [work EXCEPT ![i].request = r,
                                     ![i].tried = [labels |-> labels, error |-> error]]
    BY <1>2 DEF TryFile
  <2> DEFINE l == LabelsOf(r, SourceForDomain(r.property, r.domain))
             t == [labels |-> l, error |-> DryRun(r.domain, Reading(r.domain, r.file, l))]
             u == [work[i] EXCEPT !.request = r, !.tried = t]
  <2>2. work' = [work EXCEPT ![i] = u] /\ r.mode = "MAPPED"
    BY <1>1, <2>1 DEF Types, Works
  <2>3. u.request = r /\ u.tried = t
    BY <1>1, EditedWork
  <2>4. at'[i] = "tried"
    BY <1>1, <1>2 DEF TryFile, Go
  <2>5. t.error = DryRun(r.domain, Reading(r.domain, r.file, t.labels))
    OBVIOUS
  <2> HIDE DEF u, t
  <2>6. work'[i].request = r /\ work'[i].tried = t
    BY <1>1, <2>2, <2>3, WorkAnew
  <2>7. Told("tried", work'[i])
    BY <2>2, <2>5, <2>6 DEF Told
  <2>8. "tried" \notin Reads
    BY DEF Reads, Recorded
  <2> QED BY <2>4, <2>7, <2>8, NothingElseForetold
<1>3. CASE Receive(i)
  <2>1. PICK r \in Request :
          /\ at[i] = "tried" => r = work[i].request
          /\ work' = [work EXCEPT ![i].request = r,
                                  ![i].source = IF r.via = "cli" THEN r.source ELSE 0]
          /\ Go(i, IF r.via = "web" THEN "importLock"
                   ELSE IF r.file.format = "xml" THEN "record" ELSE "mapping")
    BY <1>3 DEF Receive
  <2> DEFINE s == IF r.via = "cli" THEN r.source ELSE 0
             u == [work[i] EXCEPT !.request = r, !.source = s]
  <2>2. work' = [work EXCEPT ![i] = u]
    BY <1>1, <2>1 DEF Types, Works
  <2>3. u.request = r /\ u.tried = work[i].tried
    BY <1>1, EditedWork
  <2>4. at'[i] \in {"importLock", "record", "mapping"}
    BY <1>1, <2>1 DEF Go
  <2> HIDE DEF u
  <2>5. work'[i].request = r /\ work'[i].tried = work[i].tried
    BY <1>1, <2>2, <2>3, WorkAnew
  <2>6. at[i] = "tried" \/ (at[i] = "idle" /\ work[i].tried = None)
    BY <1>3 DEF Receive, NextToArrive, Told, Running, Locked
  <2>7. at'[i] \in Running /\ at'[i] \notin Reads
    BY <2>4 DEF Running, Locked, Reads, Recorded
  <2>8. Told(at'[i], work'[i])
    <3>1. CASE at[i] = "tried"
      <4>1. r = work[i].request
        BY <2>1, <3>1
      <4>2. work'[i].request = work[i].request
        BY <2>5, <4>1
      <4> QED BY <2>5, <2>7, <3>1, <4>2 DEF Told
    <3>2. CASE at[i] = "idle" /\ work[i].tried = None
      BY <2>5, <2>7, <3>2 DEF Told
    <3> QED BY <2>6, <3>1, <3>2
  <2> QED BY <2>7, <2>8, NothingElseForetold
<1> QED BY <1>2, <1>3

\* An import that ends holds nothing any more.
LEMMA EndingForetold ==
    ASSUME Types, NEW i \in Importer,
           GiveUp(i) \/ Ambiguous(i) \/ SourceUnusable(i) \/ End(i) \/ Crash(i)
    PROVE  Foretold(at'[i], work'[i], sources')
<1>1. PICK outcome \in Outcome : Finish(i, outcome)
  BY Zenon DEF GiveUp, Ambiguous, SourceUnusable, End, Crash, Outcome
<1>2. at'[i] = outcome /\ work'[i] = NoWork
  BY <1>1 DEF Finish, Go, Types, Works
<1>3. outcome \notin Running \cup {"tried"} /\ outcome \notin Reads
  BY DEF Outcome, Running, Locked, Reads, Recorded
<1>4. Told(outcome, NoWork)
  BY <1>3 DEF Told, NoWork
<1> QED BY <1>2, <1>3, <1>4, NothingElseForetold

\* The steps before its job is recorded, and that from the failure to the end.
LEMMA OnItsWayForetold ==
    ASSUME ImportsInv, NEW i \in Importer, Told(at[i], work[i]),
           \/ TakeImportLock(i) \/ ReadSources(i) \/ SwitchOn(i) \/ SaveMapping(i)
           \/ ConfigurationGone(i) \/ Fail(i) \/ FailBreaks(i)
    PROVE  Foretold(at'[i], work'[i], sources')
<1>1. Types /\ DOMAIN at = Importer
  BY DEF ImportsInv, SourcesInv, Types
<1> DEFINE Places == {"choose", "switchOn", "mapping", "record", "end"}
<1>2. ASSUME NEW s, NEW on, Chosen(i, s, on)
      PROVE  /\ at'[i] \in Places
             /\ work'[i].request = work[i].request /\ work'[i].tried = work[i].tried
  <2> DEFINE u == [work[i] EXCEPT !.source = s, !.switchedOn = on]
             label == AfterChoice(work[i].request)
  <2>1. work' = [work EXCEPT ![i] = u] /\ Go(i, label)
    BY <1>1, <1>2 DEF Chosen, Types, Works
  <2>2. label \in {"end", "mapping", "record"}
    BY Zenon DEF AfterChoice
  <2>3. u.request = work[i].request /\ u.tried = work[i].tried
    BY <1>1, EditedWork
  <2> HIDE DEF u, label
  <2>4. at'[i] \in Places
    BY <1>1, <2>1, <2>2 DEF Go
  <2>5. work'[i] = u
    BY <1>1, <2>1, WorkAnew
  <2> QED BY <2>3, <2>4, <2>5
<1>3. /\ at[i] \in Running /\ at'[i] \in Places
      /\ work'[i].request = work[i].request /\ work'[i].tried = work[i].tried
  <2>1. CASE ReadSources(i)
    <3>1. at[i] \in Running
      BY <2>1 DEF ReadSources, Running, Locked
    <3>2. CASE \E s : Chosen(i, s, FALSE)
      BY <1>2, <3>1, <3>2
    <3>3. CASE ~\E s : Chosen(i, s, FALSE)
      <4>1. PICK s : work' = [work EXCEPT ![i].source = s] /\ Go(i, "switchOn")
        BY <2>1, <3>3 DEF ReadSources
      <4> DEFINE u == [work[i] EXCEPT !.source = s]
      <4>2. work' = [work EXCEPT ![i] = u]
        BY <1>1, <4>1 DEF Types, Works
      <4>3. u.request = work[i].request /\ u.tried = work[i].tried
        BY <1>1, EditedWork
      <4> HIDE DEF u
      <4>4. work'[i] = u
        BY <1>1, <4>2, WorkAnew
      <4>5. at'[i] = "switchOn"
        BY <1>1, <4>1 DEF Go
      <4> QED BY <3>1, <4>3, <4>4, <4>5
    <3> QED BY <3>2, <3>3
  <2>2. CASE SwitchOn(i)
    <3>1. at[i] \in Running
      BY <2>2 DEF SwitchOn, Running, Locked
    <3>2. \E s : Chosen(i, s, TRUE)
      BY <2>2, Zenon DEF SwitchOn
    <3> QED BY <1>2, <3>1, <3>2
  <2>3. CASE TakeImportLock(i) \/ SaveMapping(i) \/ ConfigurationGone(i) \/ Fail(i) \/ FailBreaks(i)
    <3>1. /\ at[i] \in {"importLock", "mapping", "record", "fail"} /\ work' = work
          /\ \E label \in {"choose", "record", "end"} : Go(i, label)
      BY <2>3, Zenon DEF TakeImportLock, SaveMapping, ConfigurationGone, Fail, FailBreaks
    <3> QED BY <1>1, <3>1 DEF Go, Running, Locked
  <2> QED BY <2>1, <2>2, <2>3
<1>4. at'[i] \in Running /\ at'[i] \notin Reads
  BY <1>3 DEF Running, Locked, Reads, Recorded
<1> HIDE DEF Places
<1>5. Told(at'[i], work'[i])
  BY <1>3, <1>4, GoingOnTold
<1> QED BY <1>4, <1>5, NothingElseForetold

\* The words an import reads with are those its source has when its job is recorded.
LEMMA RecordingForetold ==
    ASSUME ImportsInv, NEW i \in Importer, Told(at[i], work[i]), RecordJob(i)
    PROVE  Foretold(at'[i], work'[i], sources')
<1> DEFINE w == work[i]
           l == LabelsRead(w.request, w.source)
           n == Len(jobs) + 1
           u == [w EXCEPT !.job = n, !.error = None, !.labels = l]
<1>1. /\ Types /\ at[i] = "record" /\ at'[i] = "stage" /\ sources' = sources
      /\ work' = [work EXCEPT ![i] = u]
  BY DEF RecordJob, Go, ImportsInv, SourcesInv, Types, Works
<1>2. u.request = w.request /\ u.source = w.source /\ u.tried = w.tried /\ u.labels = l
  BY <1>1, EditedWork
<1>3. w.source # 0
  <2>1. w.source \in DOMAIN sources /\ DOMAIN sources = 1 .. Len(sources) /\ Len(sources) \in Nat
    BY <1>1, ShapeOfSources DEF ImportsInv, SourcesInv, WorkIsReal, Past, Locked
  <2> QED BY <2>1
<1>4. w.request.mode = "MAPPED" => l = Taught(sources[w.source].labels, w.request.labels)
  BY <1>3 DEF LabelsRead, LabelsOf
<1> HIDE DEF u, l, w
<1>5. work'[i] = u
  BY <1>1, WorkAnew
<1>6. Told("stage", u)
  BY <1>1, <1>2, GoingOnTold DEF Running, Locked, w
<1>7. Worded("stage", u, sources)
  BY <1>2, <1>4 DEF Worded
<1>8. Blamed("stage", u)
  BY DEF Blamed
<1> QED BY <1>1, <1>5, <1>6, <1>7, <1>8 DEF Foretold

\* A step of a job that reads on with its words, and blames a failure aright.
LEMMA ReadingOnForetold ==
    ASSUME ImportsInv, NEW i \in Importer, Foretold(at[i], work[i], sources), at[i] \in Reads,
           NEW label \in Reads \cup {"end"}, NEW u, u.request = work[i].request,
           u.source = work[i].source, u.tried = work[i].tried,
           work[i].request.mode = "MAPPED" => u.labels = work[i].labels,
           Blamed(label, u)
    PROVE  Foretold(label, u, sources)
<1>1. at[i] \in Running /\ label \in Running
  BY DEF Reads, Recorded, Running, Locked
<1>2. Told(label, u)
  BY <1>1, GoingOnTold DEF Foretold
<1>3. Worded(label, u, sources)
  BY DEF Foretold, Worded
<1> QED BY <1>2, <1>3 DEF Foretold

\* An import that fails of something else than its file, or of what its file is.
LEMMA FailingForetold ==
    ASSUME ImportsInv, NEW i \in Importer, Foretold(at[i], work[i], sources), at[i] \in Reads,
           NEW e, Failing(i, e), sources' = sources,
           \/ e \in LaterErrors
           \/ work[i].request.mode = "MAPPED" =>
                e = FileError(work[i].request.domain, FileRead(work[i]), work[i].request.file.layout)
    PROVE  Foretold(at'[i], work'[i], sources')
<1> DEFINE w == work[i]
           u == [w EXCEPT !.error = e, !.seen = None]
<1>1. Types /\ at'[i] = "fail" /\ work' = [work EXCEPT ![i] = u]
  BY DEF Failing, Go, ImportsInv, SourcesInv, Types, Works
<1>2. /\ u.request = w.request /\ u.source = w.source /\ u.tried = w.tried
      /\ u.labels = w.labels /\ u.error = e
  BY <1>1, EditedWork
<1> HIDE DEF u
<1>3. work'[i] = u
  BY <1>1, WorkAnew
<1>4. Blamed("fail", u)
  BY <1>2 DEF Blamed, FileRead
<1>5. Foretold("fail", u, sources)
  BY <1>2, <1>4, ReadingOnForetold DEF Reads, Recorded
<1> QED BY <1>1, <1>3, <1>5

LEMMA StagingForetold ==
    ASSUME ImportsInv, NEW i \in Importer, Foretold(at[i], work[i], sources), Stage(i)
    PROVE  Foretold(at'[i], work'[i], sources')
<1> DEFINE w == work[i]
           r == w.request
           l == IF r.mode = "MAPPED" THEN w.labels ELSE LabelsOf(r, w.source)
           error == FileError(r.domain, Reading(r.domain, r.file, l), LayoutOf(r, w.source))
           u == [w EXCEPT !.labels = l]
<1>1. /\ Types /\ at[i] = "stage" /\ sources' = sources
      /\ IF error # None THEN Failing(i, error)
         ELSE at'[i] = "sourceLock" /\ work' = [work EXCEPT ![i] = u]
  BY DEF Stage, Go, tables, ImportsInv, SourcesInv, Types, Works
<1>2. at[i] \in Reads
  BY <1>1 DEF Reads, Recorded
<1>3. /\ u.request = r /\ u.source = w.source /\ u.tried = w.tried /\ u.labels = l
      /\ r.mode = "MAPPED" => l = w.labels
  BY <1>1, EditedWork
<1>4. CASE error # None
  <2>1. r.mode = "MAPPED" => error = FileError(r.domain, FileRead(w), r.file.layout)
    BY DEF LayoutOf, FileRead
  <2> HIDE DEF error
  <2>2. Failing(i, error)
    BY <1>1, <1>4
  <2> QED BY <1>1, <1>2, <2>1, <2>2, FailingForetold
<1>5. CASE error = None
  <2> HIDE DEF error, u, l
  <2>1. at'[i] = "sourceLock" /\ work'[i] = u
    BY <1>1, <1>5, WorkAnew
  <2>2. Blamed("sourceLock", u)
    BY DEF Blamed
  <2>3. Foretold("sourceLock", u, sources)
    BY <1>2, <1>3, <2>2, ReadingOnForetold DEF Reads, Recorded
  <2> QED BY <1>1, <2>1, <2>3
<1> QED BY <1>4, <1>5

LEMMA DecidingForetold ==
    ASSUME ImportsInv, NEW i \in Importer, Foretold(at[i], work[i], sources), Decide(i)
    PROVE  Foretold(at'[i], work'[i], sources')
<1> DEFINE w == work[i]
           r == w.request
           now == Now(w, canonical, registry)
           seen == [change |-> now, registry |-> registry]
           u == [w EXCEPT !.seen = seen]
<1>1. Types /\ at[i] = "plan" /\ sources' = sources /\ at[i] \in Reads
  BY DEF Decide, tables, ImportsInv, SourcesInv, Reads, Recorded
<1>2. r.domain \in Domains /\ IsChange(now, canonical, registry, r.domain, w.source)
  BY <1>1, NowIsChange DEF Running, Locked
<1>3. Knows("plan", w, sources, Len(jobs), canonical, registry)
  BY <1>1, KnownNow
<1>4. IsFor(sources[w.source], r)
  BY <1>3 DEF Knows, Recorded, Past, Locked
<1>5. ChangeOf(canonical, registry, w.source, sources[w.source], w.job,
               Reading(r.domain, r.file, w.labels), r.day) = now
  BY <1>2, <1>4, ChangeOfTheKind DEF IsFor, Now, FileRead
<1> HIDE DEF now
<1>6. CASE now.error # None
  <2>1. Failing(i, now.error)
    BY <1>5, <1>6 DEF Decide
  <2>2. now.error \in LaterErrors
    BY <1>2, <1>6 DEF IsChange, ChangeErrors, SupplierErrors, LaterErrors
  <2> QED BY <1>1, <2>1, <2>2, FailingForetold
<1>7. CASE now.error = None
  <2>1. work' = [work EXCEPT ![i] = u] /\ at'[i] = "write"
    BY <1>1, <1>5, <1>7 DEF Decide, Go, Types, Works
  <2>2. /\ u.request = w.request /\ u.source = w.source /\ u.tried = w.tried
        /\ u.labels = w.labels
    BY <1>1, EditedWork
  <2> HIDE DEF u
  <2>3. work'[i] = u
    BY <1>1, <2>1, WorkAnew
  <2>4. Blamed("write", u)
    BY DEF Blamed
  <2>5. Foretold("write", u, sources)
    BY <1>1, <2>2, <2>4, ReadingOnForetold DEF Reads, Recorded
  <2> QED BY <1>1, <2>1, <2>3, <2>5
<1> QED BY <1>6, <1>7

LEMMA WritingForetold ==
    ASSUME ImportsInv, NEW i \in Importer, Foretold(at[i], work[i], sources), Write(i)
    PROVE  Foretold(at'[i], work'[i], sources')
<1> DEFINE w == work[i]
           u == [w EXCEPT !.seen = None]
<1>1. /\ Types /\ at[i] = "write" /\ at[i] \in Reads /\ sources' = sources
      /\ at'[i] = "end" /\ work' = [work EXCEPT ![i] = u]
  BY WritingIsAnImport DEF Write, Go, ImportsInv, SourcesInv, Types, Works, Reads, Recorded
<1>2. /\ u.request = w.request /\ u.source = w.source /\ u.tried = w.tried
      /\ u.labels = w.labels
  BY <1>1, EditedWork
<1> HIDE DEF u
<1>3. work'[i] = u
  BY <1>1, WorkAnew
<1>4. Blamed("end", u)
  BY DEF Blamed
<1>5. Foretold("end", u, sources)
  BY <1>1, <1>2, <1>4, ReadingOnForetold
<1> QED BY <1>1, <1>3, <1>5

\* The locks of the write, and a statement that is refused.
LEMMA LockingForetold ==
    ASSUME ImportsInv, NEW i \in Importer, Foretold(at[i], work[i], sources),
           TakeSourceLock(i) \/ TakeRegistryLock(i) \/ Break(i)
    PROVE  Foretold(at'[i], work'[i], sources')
<1>1. CASE TakeSourceLock(i) \/ TakeRegistryLock(i)
  <2>1. /\ at[i] \in {"sourceLock", "registryLock"} /\ at'[i] \in {"registryLock", "plan"}
        /\ sources' = sources /\ work' = work
    BY <1>1 DEF TakeSourceLock, TakeRegistryLock, Go, tables, ImportsInv, SourcesInv, Types
  <2>2. Blamed(at'[i], work[i])
    BY <2>1 DEF Blamed
  <2>3. at[i] \in Reads /\ at'[i] \in Reads
    BY <2>1 DEF Reads, Recorded
  <2> DEFINE label == at'[i]
  <2>4. label \in Reads /\ Blamed(label, work[i])
    BY <2>2, <2>3
  <2> HIDE DEF label
  <2>5. Foretold(label, work[i], sources)
    BY <2>3, <2>4, ReadingOnForetold
  <2> QED BY <2>1, <2>5 DEF label
<1>2. CASE Break(i)
  <2>1. at[i] \in Reads /\ sources' = sources /\ Failing(i, "INTERNAL_ERROR")
    BY <1>2 DEF Break, tables, Reads, Recorded
  <2>2. "INTERNAL_ERROR" \in LaterErrors
    BY DEF LaterErrors
  <2> QED BY <2>1, <2>2, FailingForetold
<1> QED BY <1>1, <1>2

LEMMA NextForetold == DryRunInv /\ [Next]_vars => DryRunInv'
<1> SUFFICES ASSUME DryRunInv, [Next]_vars PROVE DryRunInv'
  OBVIOUS
<1>1. ImportsInv /\ ImportsInv' /\ Types
  BY NextImports DEF DryRunInv, ImportsInv, SourcesInv
<1>2. CASE UNCHANGED vars
  BY <1>1, <1>2 DEF vars, tables, DryRunInv
<1>3. ASSUME NEW i \in Importer,
             TryFile(i) \/ Receive(i) \/ Step(i) \/ Break(i) \/ FailBreaks(i) \/ Crash(i)
      PROVE  DryRunInv'
  <2>1. Foretold(at[i], work[i], sources) /\ Told(at[i], work[i])
    BY DEF DryRunInv, Foretold
  <2>2. Foretold(at'[i], work'[i], sources')
    <3>1. CASE TryFile(i) \/ Receive(i)
      BY <1>1, <2>1, <3>1, ArrivingForetold
    <3>2. CASE GiveUp(i) \/ Ambiguous(i) \/ SourceUnusable(i) \/ End(i) \/ Crash(i)
      BY <1>1, <3>2, EndingForetold
    <3>3. CASE \/ TakeImportLock(i) \/ ReadSources(i) \/ SwitchOn(i) \/ SaveMapping(i)
               \/ ConfigurationGone(i) \/ Fail(i) \/ FailBreaks(i)
      BY <1>1, <2>1, <3>3, OnItsWayForetold
    <3>4. CASE RecordJob(i) \/ Stage(i) \/ Decide(i) \/ Write(i)
      BY <1>1, <2>1, <3>4, RecordingForetold, StagingForetold, DecidingForetold, WritingForetold
    <3>5. CASE TakeSourceLock(i) \/ TakeRegistryLock(i) \/ Break(i)
      BY <1>1, <2>1, <3>5, LockingForetold
    <3> QED BY <1>3, <3>1, <3>2, <3>3, <3>4, <3>5 DEF Step
  <2>3. Next
    BY <1>3 DEF Next
  <2>4. ASSUME NEW j \in Importer \ {i} PROVE Foretold(at'[j], work'[j], sources')
    <3>1. at'[j] = at[j] /\ work'[j] = work[j]
      BY <1>1, <1>3, OneMoves
    <3>2. Foretold(at[j], work[j], sources)
      BY DEF DryRunInv
    <3> QED BY <1>1, <2>3, <3>1, <3>2, StayingForetold
  <2> QED BY <1>1, <2>2, <2>4 DEF DryRunInv
<1>4. ASSUME \/ \E s \in DOMAIN sources : Deactivate(s) \/ Forget(s)
             \/ \E k \in ByHand : CreateByHand(k[1], k[2])
      PROVE  DryRunInv'
  <2>1. Next /\ UNCHANGED <<at, work>>
    BY <1>4, Zenon DEF Next, Deactivate, Forget, CreateByHand
  <2>2. ASSUME NEW j \in Importer PROVE Foretold(at'[j], work'[j], sources')
    <3>1. Foretold(at[j], work[j], sources)
      BY DEF DryRunInv
    <3> QED BY <1>1, <2>1, <3>1, StayingForetold
  <2> QED BY <1>1, <2>2 DEF DryRunInv
<1> QED BY <1>2, <1>3, <1>4 DEF Next

LEMMA InitForetold == Init => DryRunInv
<1> SUFFICES ASSUME Init PROVE DryRunInv
  OBVIOUS
<1>1. ImportsInv
  BY InitImports
<1>2. \A i \in Importer : at[i] = "idle" /\ work[i].tried = None
  BY DEF Init, NoWork
<1>3. "idle" \notin Running \cup {"tried"} /\ "idle" \notin Reads
  BY DEF Running, Locked, Reads, Recorded
<1>4. \A i \in Importer : Told(at[i], work[i])
  BY <1>2, <1>3 DEF Told
<1> QED BY <1>1, <1>2, <1>3, <1>4, NothingElseForetold DEF DryRunInv

\* What the invariant says of an import that fails though its dry run found nothing.
LEMMA FailureAfterADryRun ==
    ASSUME DryRunInv, NEW i \in Importer, at[i] = "fail", work[i].tried # None,
           work[i].tried.error = None, work[i].error \notin LaterErrors
    PROVE  LET w    == work[i]
               rows == w.request.file.rows
               lost == Words(w.tried.labels) \ Words(LabelsOf(w.request, w.source))
           IN w.error = "VALIDATION_FAILED" /\ \E k \in DOMAIN rows : Needed(rows[k]) \cap lost # {}
<1> DEFINE w == work[i]
           r == w.request
           d == r.domain
           f == r.file
           known == w.tried.labels
<1>1. /\ ImportsInv /\ Types /\ at[i] \in Running /\ at[i] \in Reads
      /\ Foretold("fail", w, sources)
  BY DEF DryRunInv, ImportsInv, SourcesInv, Running, Locked, Reads, Recorded
<1>2. d \in Domains /\ IsFile(f) /\ (f.format # "xml" => f.layout # None)
  BY <1>1, RequestsAreReal DEF ImportsInv
<1>3. r.mode = "MAPPED" /\ w.tried.error = DryRun(d, Reading(d, f, known))
  BY <1>1 DEF Foretold, Told
<1>4. w.error = FileError(d, Reading(d, f, w.labels), f.layout)
  BY <1>1, <1>3 DEF Foretold, Blamed, FileRead
<1>5. w.error \in JobErrors
  BY <1>1, KnownNow DEF Knows
<1>6. w.error # None
  BY <1>5, NoneAssumption DEF JobErrors
<1>7. DryRun(d, Reading(d, f, known)) = None
  BY <1>3
<1>8. w.source # 0
  <2>1. w.source \in DOMAIN sources /\ DOMAIN sources = 1 .. Len(sources) /\ Len(sources) \in Nat
    BY <1>1, ShapeOfSources DEF ImportsInv, SourcesInv, WorkIsReal, Past, Locked
  <2> QED BY <2>1
<1>9. LabelsOf(r, w.source) \subseteq w.labels
  <2>1. Taught(sources[w.source].labels, r.labels) \subseteq w.labels
    BY <1>1, <1>3 DEF Foretold, Worded
  <2> QED BY <1>3, <1>8, <2>1 DEF LabelsOf
<1>10. Words(known) \ Words(w.labels) \subseteq Words(known) \ Words(LabelsOf(r, w.source))
  BY <1>9 DEF Words
<1> HIDE DEF w, r, d, f, known
<1>11. /\ FileError(d, Reading(d, f, w.labels), f.layout) = "VALIDATION_FAILED"
       /\ \E k \in DOMAIN f.rows : Needed(f.rows[k]) \cap (Words(known) \ Words(w.labels)) # {}
  BY <1>2, <1>4, <1>6, <1>7, OnlyLostWordsRefuse
<1>12. \E k \in DOMAIN f.rows :
         Needed(f.rows[k]) \cap (Words(known) \ Words(LabelsOf(r, w.source))) # {}
  BY <1>10, <1>11
<1> QED BY <1>4, <1>11, <1>12 DEF w, r, f, known

\* DryRunIsTrue: whatever is imported, saved, forgotten or switched off between a
\* dry run that found nothing and its import, and beside it, the import fails only
\* for what the hotel already holds, for a statement the database refused, or for a
\* word it needs that its source has lost since the file was tried
\* (DataSourcesService.dry_run, _run_mapped and preserved_documents).
THEOREM DryRunIsTrue == Spec => []DryRunForeseesTheImport
<1>1. DryRunInv => DryRunForeseesTheImport
  <2> SUFFICES ASSUME DryRunInv, NEW i \in Importer, at[i] = "fail", work[i].tried # None,
                      work[i].tried.error = None, work[i].error \notin LaterErrors
               PROVE  LET w    == work[i]
                          rows == w.request.file.rows
                          lost == Words(w.tried.labels) \ Words(LabelsOf(w.request, w.source))
                      IN /\ w.error = "VALIDATION_FAILED"
                         /\ \E k \in DOMAIN rows : Needed(rows[k]) \cap lost # {}
    BY DEF DryRunForeseesTheImport, LaterErrors
  <2> QED BY FailureAfterADryRun
<1>2. Spec => []DryRunInv
  BY InitForetold, NextForetold, PTL DEF Spec
<1> QED BY <1>1, <1>2, PTL

----------------------------------------------------------------------------
(* The refinement of ImportLedger                                           *)

\* The ledger reads the operators of CanonicalImport as this module does.
LEMMA LedgerCounts == \A set : Ledger!Cardinality(set) = Cardinality(set)
BY DEF Ledger!Cardinality, Cardinality, Ledger!IsFiniteSet, IsFiniteSet

LEMMA LedgerElements == \A seq : Ledger!ToSet(seq) = ToSet(seq)
BY DEF Ledger!ToSet, ToSet

LEMMA LedgerJudges == \A d, f, l : Ledger!FileError(d, f, l) = FileError(d, f, l)
BY DEF FileError, Ledger!FileError, BookingsError, Ledger!BookingsError, LaborError,
       Ledger!LaborError, InvoicesError, Ledger!InvoicesError, SchemaError, Ledger!SchemaError,
       Malformed, Ledger!Malformed, InvalidRows, Ledger!InvalidRows

LEMMA LedgerIdentifies == \A e : Ledger!Identifiers(e) = Identifiers(e)
BY DEF Identifiers, Ledger!Identifiers, ValueOf, Ledger!ValueOf, SingleValued, Ledger!SingleValued

LEMMA LedgerTakesSome == \A c, n : Ledger!FirstOf(c, n) = FirstOf(c, n)
BY Zenon DEF FirstOf, Ledger!FirstOf, Cardinality, Ledger!Cardinality, IsFiniteSet,
             Ledger!IsFiniteSet

LEMMA LedgerCompares ==
    \A r, e, c : Ledger!FuzzyCandidates(r, e, c) = FuzzyCandidates(r, e, c)
BY Zenon DEF FuzzyCandidates, Ledger!FuzzyCandidates, Contradicts, Ledger!Contradicts, Has,
             Ledger!Has, ValueOf, Ledger!ValueOf, SingleValued, Ledger!SingleValued

\* A new supplier: each part of the row is the ledger's, one after the other.
LEMMA LedgerCreates == \A r, new, e, c : Ledger!Create(r, new, e, c) = Create(r, new, e, c)
<1> TAKE r, new, e, c
<1> DEFINE same   == FirstOf(c, MaxReviews)
           plausible == FuzzyCandidates(r, e, same)
           alike  == FirstOf(plausible, MaxReviews - Cardinality(same))
           known  == Identifiers(e)
           theirs == Ledger!FirstOf(
                       Ledger!FuzzyCandidates(r, e, Ledger!FirstOf(c, MaxReviews)),
                       MaxReviews - Ledger!Cardinality(Ledger!FirstOf(c, MaxReviews)))
<1>1. /\ Ledger!FirstOf(c, MaxReviews) = same
      /\ Ledger!FuzzyCandidates(r, e, same) = plausible
      /\ Ledger!Cardinality(same) = Cardinality(same)
      /\ Ledger!FirstOf(plausible, MaxReviews - Cardinality(same)) = alike
      /\ Ledger!Identifiers(e) = known
  BY LedgerTakesSome, LedgerCompares, LedgerCounts, LedgerIdentifies
<1>2. Ledger!Create(r, new, e, c) =
        [suppliers   |-> r.suppliers \cup {[id |-> new, name |-> e.name]},
         identifiers |-> r.identifiers \cup
                           {[supplier |-> new, identifier |-> i] : i \in Ledger!Identifiers(e)},
         aliases     |-> r.aliases \cup {[supplier |-> new, name |-> e.name]},
         reviews     |-> r.reviews \cup
                           {<<new, x>> : x \in Ledger!FirstOf(c, MaxReviews) \cup theirs}]
  BY Zenon DEF Ledger!Create
<1>3. Create(r, new, e, c) =
        [suppliers   |-> r.suppliers \cup {[id |-> new, name |-> e.name]},
         identifiers |-> r.identifiers \cup {[supplier |-> new, identifier |-> i] : i \in known},
         aliases     |-> r.aliases \cup {[supplier |-> new, name |-> e.name]},
         reviews     |-> r.reviews \cup {<<new, x>> : x \in same \cup alike}]
  BY Zenon DEF Create
<1> HIDE DEF same, plausible, alike, known
<1>4. theirs = alike
  BY <1>1
<1> HIDE DEF theirs
<1> QED BY <1>1, <1>2, <1>3, <1>4

LEMMA LedgerNames ==
    \A r, s, e : /\ Ledger!Named(r, s) = Named(r, s)
                 /\ Ledger!Contradicts(r, s, e) = Contradicts(r, s, e)
BY DEF Named, Ledger!Named, PrimaryOf, Ledger!PrimaryOf, Contradicts, Ledger!Contradicts, Has,
       Ledger!Has, ValueOf, Ledger!ValueOf, SingleValued, Ledger!SingleValued

LEMMA LedgerEnriches == \A r, s, e : Ledger!Enrich(r, s, e) = Enrich(r, s, e)
BY LedgerIdentifies DEF Enrich, Ledger!Enrich, OwnerOf, Ledger!OwnerOf

LEMMA LedgerFindsByName == \A r, new, e : Ledger!ByName(r, new, e) = ByName(r, new, e)
<1> TAKE r, new, e
<1> DEFINE fits   == {s \in Named(r, e.name) : ~Contradicts(r, s, e)}
           theirs == {s \in Ledger!Named(r, e.name) : ~Ledger!Contradicts(r, s, e)}
           only   == CHOOSE s \in fits : TRUE
           their  == CHOOSE s \in theirs : TRUE
<1>1. theirs = fits /\ Ledger!Named(r, e.name) = Named(r, e.name)
  BY LedgerNames
<1>2. Ledger!ByName(r, new, e) =
        IF theirs = {}
        THEN [registry |-> Ledger!Create(r, new, e, Ledger!Named(r, e.name)),
              supplier |-> new, error |-> None]
        ELSE IF Ledger!Cardinality(theirs) = 1
        THEN [registry |-> Ledger!Enrich(r, their, e), supplier |-> their, error |-> None]
        ELSE [registry |-> r, supplier |-> None, error |-> "SUPPLIER_NAME_AMBIGUOUS"]
  BY Zenon DEF Ledger!ByName, Ledger!Resolved, Ledger!Refused
<1>3. ByName(r, new, e) =
        IF fits = {}
        THEN [registry |-> Create(r, new, e, Named(r, e.name)), supplier |-> new, error |-> None]
        ELSE IF Cardinality(fits) = 1
        THEN [registry |-> Enrich(r, only, e), supplier |-> only, error |-> None]
        ELSE [registry |-> r, supplier |-> None, error |-> "SUPPLIER_NAME_AMBIGUOUS"]
  BY Zenon DEF ByName, Resolved, Refused
<1> HIDE DEF theirs, fits
<1>4. their = only
  BY <1>1
<1> HIDE DEF their, only
<1> QED BY <1>1, <1>2, <1>3, <1>4, LedgerCounts, LedgerCreates, LedgerEnriches

LEMMA LedgerPlansOne == \A r, new, e : Ledger!PlanOne(r, new, e) = PlanOne(r, new, e)
<1> TAKE r, new, e
<1> DEFINE owners == UNION {OwnerOf(r, i) : i \in Identifiers(e)}
           theirs == UNION {Ledger!OwnerOf(r, i) : i \in Ledger!Identifiers(e)}
           owner  == CHOOSE s \in owners : TRUE
           their  == CHOOSE s \in theirs : TRUE
<1>1. \A s, i : Ledger!OwnerOf(s, i) = OwnerOf(s, i)
  BY DEF OwnerOf, Ledger!OwnerOf
<1>2. \A t, s, x : Ledger!ContradictsMatched(t, s, x) = ContradictsMatched(t, s, x)
  BY <1>1 DEF ContradictsMatched, Ledger!ContradictsMatched, Has, Ledger!Has, ValueOf,
              Ledger!ValueOf, SingleValued, Ledger!SingleValued
<1>3. \A t, s, x : Ledger!AddAlias(t, s, x) = AddAlias(t, s, x)
  BY LedgerNames DEF AddAlias, Ledger!AddAlias
<1>4. theirs = owners
  BY <1>1, LedgerIdentifies
<1>5. Ledger!PlanOne(r, new, e) =
        IF theirs = {} THEN Ledger!ByName(r, new, e)
        ELSE IF Ledger!Cardinality(theirs) > 1 \/ Ledger!ContradictsMatched(r, their, e)
        THEN [registry |-> r, supplier |-> None, error |-> "SUPPLIER_IDENTITY_CONFLICT"]
        ELSE [registry |-> Ledger!AddAlias(Ledger!Enrich(r, their, e), their, e),
              supplier |-> their, error |-> None]
  BY Zenon DEF Ledger!PlanOne, Ledger!Resolved, Ledger!Refused
<1>6. PlanOne(r, new, e) =
        IF owners = {} THEN ByName(r, new, e)
        ELSE IF Cardinality(owners) > 1 \/ ContradictsMatched(r, owner, e)
        THEN [registry |-> r, supplier |-> None, error |-> "SUPPLIER_IDENTITY_CONFLICT"]
        ELSE [registry |-> AddAlias(Enrich(r, owner, e), owner, e),
              supplier |-> owner, error |-> None]
  BY Zenon DEF PlanOne, Resolved, Refused
<1> HIDE DEF theirs, owners
<1>7. their = owner
  BY <1>4
<1> HIDE DEF their, owner
<1> QED BY <1>2, <1>3, <1>4, <1>5, <1>6, <1>7, LedgerCounts, LedgerFindsByName, LedgerEnriches

LEMMA LedgerPlans == \A r, job, es : Ledger!Plan(r, job, es) = Plan(r, job, es)
<1>1. \A done, job, e : Ledger!AndThen(done, job, e) = AndThen(done, job, e)
  BY LedgerPlansOne, LedgerCounts DEF AndThen, Ledger!AndThen
<1> QED BY <1>1 DEF Plan, Ledger!Plan

\* How the ledger writes a change down, and finds the rows of a key.
LEMMA LedgerStores ==
    /\ \A insert, update, r, error :
         Ledger!Change(insert, update, r, error) = Change(insert, update, r, error)
    /\ \A rows, key : Ledger!Stored(rows, key) = Stored(rows, key)
BY DEF Change, Ledger!Change, Stored, Ledger!Stored

LEMMA LedgerChangesInvoices ==
    \A rows, r, p, job, f :
      Ledger!InvoicesChange(rows, r, p, job, f) = InvoicesChange(rows, r, p, job, f)
<1> TAKE rows, r, p, job, f
<1> DEFINE says  == [k \in DOMAIN f.rows |-> f.rows[k].supplier]
           plan  == Plan(r, job, says)
           rowOf == [k \in DOMAIN f.rows |->
                       InvoiceRow(p, plan.supplierOf[f.rows[k].supplier], f.rows[k], job)]
           fresh(set) == {row \in set : Stored(rows, row.key) = {}}
           clash(set) == \E row \in set : \E k \in Stored(rows, row.key) :
                           k.content # row.content
           theirPlan == Ledger!Plan(r, job, says)
           their == [k \in DOMAIN f.rows |->
                       Ledger!InvoiceRow(p, theirPlan.supplierOf[f.rows[k].supplier],
                                         f.rows[k], job)]
           theirFresh(set) == {row \in set : Ledger!Stored(rows, row.key) = {}}
           theirClash(set) == \E row \in set : \E k \in Ledger!Stored(rows, row.key) :
                                k.content # row.content
<1>1. theirPlan = plan
  BY LedgerPlans
<1>2. Ledger!InvoicesChange(rows, r, p, job, f) =
        IF theirPlan.error # None THEN Ledger!Change({}, {}, r, theirPlan.error)
        ELSE IF \/ \E j, k \in DOMAIN their : j # k /\ their[j].key = their[k].key
                \/ theirClash(Ledger!ToSet(their))
        THEN Ledger!Change({}, {}, r, "DOCUMENT_CONFLICT")
        ELSE Ledger!Change(theirFresh(Ledger!ToSet(their)), {}, theirPlan.registry, None)
  BY Zenon DEF Ledger!InvoicesChange
<1>3. InvoicesChange(rows, r, p, job, f) =
        IF plan.error # None THEN Change({}, {}, r, plan.error)
        ELSE IF \/ \E j, k \in DOMAIN rowOf : j # k /\ rowOf[j].key = rowOf[k].key
                \/ clash(ToSet(rowOf))
        THEN Change({}, {}, r, "DOCUMENT_CONFLICT")
        ELSE Change(fresh(ToSet(rowOf)), {}, plan.registry, None)
  BY Zenon DEF InvoicesChange
<1> HIDE DEF theirPlan, plan
<1>4. their = rowOf
  <2>1. \A s, row : Ledger!InvoiceRow(p, s, row, job) = InvoiceRow(p, s, row, job)
    BY DEF InvoiceRow, Ledger!InvoiceRow
  <2> QED BY <1>1, <2>1
<1> HIDE DEF their, rowOf
<1>5. \A set : (theirClash(set) <=> clash(set)) /\ theirFresh(set) = fresh(set)
  BY LedgerStores
<1> HIDE DEF theirClash, theirFresh, clash, fresh
<1> QED BY <1>1, <1>2, <1>3, <1>4, <1>5, LedgerStores, LedgerElements

LEMMA LedgerChanges ==
    \A rows, r, s, source, job, f, day :
      source.domain \in Domains =>
        Ledger!ChangeOf(rows, r, s, source, job, f, day)
          = ChangeOf(rows, r, s, source, job, f, day)
<1>1. \A rows, r, s, job, f :
        Ledger!BookingsChange(rows, r, s, job, f) = BookingsChange(rows, r, s, job, f)
  BY Zenon DEF BookingsChange, Ledger!BookingsChange, BookingRow, Ledger!BookingRow,
               ToSet, Ledger!ToSet, Change, Ledger!Change, Stored, Ledger!Stored
<1>2. \A s, day, rows, job : Ledger!LaborRow(s, day, rows, job) = LaborRow(s, day, rows, job)
  BY LedgerElements DEF LaborRow, Ledger!LaborRow
<1>3. \A rows, r, s, job, f, day :
        Ledger!LaborChange(rows, r, s, job, f, day) = LaborChange(rows, r, s, job, f, day)
  BY <1>2, LedgerStores DEF LaborChange, Ledger!LaborChange
<1> QED BY <1>1, <1>3, LedgerChangesInvoices DEF ChangeOf, Ledger!ChangeOf, Domains

LEMMA LedgerWrites == \A rows, c : Ledger!Written(rows, c) = Written(rows, c)
BY DEF Written, Ledger!Written

\* A write that changes the data is an import of the ledger; nothing else changes them.
LEMMA NextLedger == ImportsInv /\ [Next]_vars => [Ledger!Next]_(Ledger!ledger)
<1> SUFFICES ASSUME ImportsInv, [Next]_vars, ~(UNCHANGED <<canonical, registry>>)
             PROVE  Ledger!Next
  BY DEF Ledger!ledger
<1>1. PICK i \in Importer : Write(i)
  <2>1. ~UNCHANGED vars
    BY DEF vars, tables
  <2>2. ASSUME NEW i \in Importer, TryFile(i) \/ Receive(i) \/ Break(i) \/ FailBreaks(i)
                           \/ Crash(i)
        PROVE  FALSE
    BY <2>2 DEF TryFile, Receive, Break, FailBreaks, Crash, tables
  <2>3. ASSUME NEW i \in Importer, Step(i), ~Write(i) PROVE FALSE
    BY <2>3 DEF Step, TakeImportLock, GiveUp, ReadSources, Ambiguous, SwitchOn, SourceUnusable,
                SaveMapping, ConfigurationGone, RecordJob, Stage, TakeSourceLock,
                TakeRegistryLock, Decide, Fail, End, tables
  <2>4. ASSUME NEW s \in DOMAIN sources, Deactivate(s) \/ Forget(s) PROVE FALSE
    BY <2>4 DEF Deactivate, Forget
  <2>5. ASSUME NEW k \in ByHand, CreateByHand(k[1], k[2]) PROVE FALSE
    BY <2>5 DEF CreateByHand
  <2> QED BY <2>1, <2>2, <2>3, <2>4, <2>5 DEF Next
<1> DEFINE w == work[i]
           r == w.request
           now == Now(w, canonical, registry)
           arrival == [property |-> r.property, domain |-> r.domain,
                       file |-> Reading(r.domain, r.file, w.labels), day |-> r.day]
<1>2. at[i] = "write"
  BY <1>1 DEF Write
<1>3. now.error = None /\ canonical' = Written(canonical, now) /\ registry' = now.registry
  BY <1>1, WritingIsAnImport
<1>4. Knows("write", w, sources, Len(jobs), canonical, registry)
  BY <1>2, KnownNow
<1>5. r \in Request /\ r.domain \in Domains
  BY <1>2, RequestsAreReal DEF ImportsInv, Running, Locked
<1>6. /\ FileError(r.domain, FileRead(w), r.file.layout) = None
      /\ w.job \in 1 .. Len(jobs) /\ w.source \in 1 .. Len(sources)
  BY <1>2, <1>4, ShapeOfSources DEF Knows, Judged, Recorded, ImportsInv, SourcesInv, WorkIsReal,
     Past, Locked
<1>7. w.job \in 1 .. MaxImports /\ w.source \in 1 .. (MaxImports + MaxEvents)
  <2>1. IsFiniteSet(Importer) /\ Cardinality(Importer) = MaxImports
    BY FS_Interval, BoundsAssumption DEF Importer
  <2>2. ASSUME NEW labels
        PROVE  Cardinality(AtIn(labels)) \in Nat /\ Cardinality(AtIn(labels)) <= MaxImports
    <3>1. AtIn(labels) \subseteq Importer
      BY DEF AtIn
    <3> QED BY <2>1, <3>1, FS_Subset, FS_CardinalityType
  <2>3. /\ Len(jobs) \in Nat /\ Len(sources) \in Nat /\ operated \in Nat /\ operated <= MaxEvents
        /\ Len(jobs) <= Cardinality(AtIn(Recorded \cup Outcome))
        /\ Len(sources) <= Cardinality(AtIn(Past \cup Outcome)) + operated
    BY ShapeOfSources, BoundsAssumption DEF ImportsInv, SourcesInv, Tables, Counted
  <2>4. Len(jobs) <= MaxImports /\ Len(sources) <= MaxImports + MaxEvents
    BY <2>2, <2>3, BoundsAssumption
  <2> QED BY <1>6, <2>3, <2>4, BoundsAssumption
<1>8. ChangeOf(canonical, registry, w.source, arrival, w.job, arrival.file, arrival.day) = now
  BY <1>5, ChangeOfTheKind DEF Now, FileRead
<1>9. Ledger!Import(arrival, w.source, w.job)
  <2>1. /\ arrival.domain \in Domains /\ arrival.domain = r.domain
        /\ arrival.file = FileRead(w) /\ arrival.file.layout = r.file.layout
    <3>1. Reading(r.domain, r.file, w.labels).layout = r.file.layout
      BY DEF Reading
    <3>2. /\ arrival.domain = r.domain
          /\ arrival.file = Reading(r.domain, r.file, w.labels)
      OBVIOUS
    <3> HIDE DEF arrival, r
    <3>3. FileRead(w) = Reading(r.domain, r.file, w.labels)
      BY DEF FileRead, r
    <3> QED BY <1>5, <3>1, <3>2, <3>3
  <2> HIDE DEF arrival, now
  <2>2. Ledger!ChangeOf(canonical, registry, w.source, arrival, w.job, arrival.file, arrival.day)
          = now
    BY <1>8, <2>1, LedgerChanges
  <2>3. Ledger!FileError(arrival.domain, arrival.file, arrival.file.layout) = None
    BY <1>6, <2>1, LedgerJudges
  <2> QED BY <1>3, <2>2, <2>3, LedgerWrites DEF Ledger!Import
<1>10. w.labels \in SUBSET (UNION {q.labels : q \in Request})
  BY LabelsAreSome DEF Label, ImportsInv, SourcesInv
<1>11. arrival \in Arrivals
  <2> DEFINE words == w.labels
  <2>1. r \in Request /\ words \in SUBSET (UNION {p.labels : p \in Request})
    BY <1>5, <1>10
  <2>2. arrival = [property |-> r.property, domain |-> r.domain,
                   file |-> Reading(r.domain, r.file, words), day |-> r.day]
    OBVIOUS
  <2> HIDE DEF arrival, r, words
  <2> QED BY <2>1, <2>2 DEF Arrivals
<1> HIDE DEF arrival
<1> QED BY <1>7, <1>9, <1>11 DEF Ledger!Next, Ledger!ledger

\* ImportsAreWhole: whatever imports overlap, fail or die, the canonical data change
\* only by whole imports, each applied to what the one before it left
\* (the transaction T4 of the three import services and the locks it is under).
THEOREM ImportsAreWhole == Spec => WholeImportsOnly
<1>1. Init => Ledger!Init
  BY DEF Init, Ledger!Init, EmptyRegistry, Ledger!EmptyRegistry
<1> QED BY <1>1, NextLedger, ImportsAreSound, PTL DEF Spec, Ledger!Spec, WholeImportsOnly
=============================================================================
