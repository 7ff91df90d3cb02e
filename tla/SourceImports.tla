--------------------------- MODULE SourceImports ---------------------------
(***************************************************************************)
(* Files imported into the sources of a workspace: the web import          *)
(* (DataSourcesService.import_file), which creates or switches on the      *)
(* source under the import lock of its hotel and kind of data, and the     *)
(* pilot command line, which imports into a source that exists and takes   *)
(* no such lock.  Each runs the same three import services: the job is     *)
(* recorded, the rows are staged, the canonical data are written, each in  *)
(* a transaction of its own.  A process may die between two of them.       *)
(***************************************************************************)
EXTENDS CanonicalImport, Integers

CONSTANTS
  Request,      \* what may be asked to be imported
  ByHand,       \* the kinds of source a person may create: hotel and domain
  MaxImports,   \* bound: imports started
  MaxEvents     \* bound: faults and actions of an operator, together

\* A file of columns has a layout, its rows are in order and each says whether it can
\* be used and in which words; only the web takes a person's own matching, with the
\* words it teaches.
ASSUME RequestAssumption ==
  \A r \in Request :
    /\ r.via \in {"web", "cli"} /\ r.domain \in {"BOOKINGS", "LABOR", "COSTS"}
    /\ Len(r.file.rows) \in Nat /\ DOMAIN r.file.rows = 1 .. Len(r.file.rows)
    /\ \A k \in DOMAIN r.file.rows :
         {"id", "content", "valid", "words"} \subseteq DOMAIN r.file.rows[k]
    /\ r.file.format # "xml" => r.file.layout # None
    /\ r.mode = "MAPPED" => r.via = "web"

ASSUME BoundsAssumption == MaxImports \in Nat /\ MaxEvents \in Nat

VARIABLES
  sources,      \* data_sources, in order of creation
  recency,      \* the place of each in the order of their last updates
  jobs,         \* import_jobs, in order of creation
  canonical,    \* bookings, labor snapshots and invoices
  registry,     \* suppliers, identifiers, aliases and reviews
  at,           \* where each import is, or how it ended
  work,         \* what it holds: its request, source, job, words and plan
  faults,       \* faults so far
  operated      \* what the operator has done so far

tables == <<sources, recency, jobs, canonical, registry>>
vars == <<tables, at, work, faults, operated>>

\* Every import is a process of its own, numbered as they arrive.
Importer == 1..MaxImports

\* How an import ends.
Outcome == {"succeeded", "failed", "refused", "ambiguous", "in progress", "crashed"}

Undisturbed == faults + operated < MaxEvents

NoWork == [request |-> None, source |-> 0, switchedOn |-> FALSE, job |-> 0,
           seen |-> None, error |-> None, labels |-> {}, tried |-> None]

\* The steps at which a process is inside `with hold_source_import_lock`.
Locked == {"choose", "switchOn", "mapping", "record", "stage", "sourceLock", "registryLock",
           "plan", "write", "fail", "end"}

Init ==
  /\ sources = <<>> /\ recency = <<>> /\ jobs = <<>>
  /\ canonical = {} /\ registry = EmptyRegistry
  /\ at = [i \in Importer |-> "idle"]
  /\ work = [i \in Importer |-> NoWork]
  /\ faults = 0 /\ operated = 0

-----------------------------------------------------------------------------
(* Sources.                                                                 *)

OfKind(property, domain) ==
  {s \in DOMAIN sources : sources[s].property = property /\ sources[s].domain = domain}

Active(set) == {s \in set : sources[s].active}

\* max(existing, key=updated_at): the one that was touched last.
LastTouched(set) == CHOOSE s \in set : \A t \in set : recency[t] <= recency[s]

\* updated_at moves: s is now the last, those that came after it one place back.
Touch(s) ==
  [t \in DOMAIN sources |->
     IF t = s THEN Len(sources)
     ELSE recency[t] - (IF recency[t] > recency[s] THEN 1 ELSE 0)]

\* An UPDATE only when the value changes: updated_at moves with it.
SetActive(s, active) ==
  IF sources[s].active = active THEN UNCHANGED <<sources, recency>>
  ELSE /\ sources' = [sources EXCEPT ![s].active = active]
       /\ recency' = Touch(s)

AddSource(property, domain, by) ==
  /\ sources' = Append(sources, [property |-> property, domain |-> domain,
                                 active |-> TRUE, layout |-> None, labels |-> {}, by |-> by])
  /\ recency' = Append(recency, Len(sources) + 1)

\* _source_for_domain: where an import of this kind would go, if it can be told.
SourceForDomain(property, domain) ==
  LET existing == OfKind(property, domain)
      active   == Active(existing)
  IN CASE Cardinality(active) > 1 -> 0
       [] Cardinality(active) = 1 -> CHOOSE s \in active : TRUE
       [] active = {} /\ existing # {} -> LastTouched(existing)
       [] OTHER                   -> 0

-----------------------------------------------------------------------------
(* The steps of one import.                                                 *)

Go(i, label) == at' = [at EXCEPT ![i] = label]

\* The process is done with its request; every lock it held is released.
Finish(i, outcome) ==
  /\ Go(i, outcome)
  /\ work' = [work EXCEPT ![i] = NoWork]

\* _refusal_before_import: the saved configuration this file would be read
\* with is not there, or is about other columns; or the person's own is.
RefusedBefore(r) ==
  LET s == SourceForDomain(r.property, r.domain)
  IN CASE r.mode = "SAVED"  -> s = 0 \/ sources[s].layout # r.file.layout
       [] r.mode = "MAPPED" -> r.file.ambiguous
       [] OTHER             -> FALSE

\* The words a file is read with: those of the saved configuration, and before
\* them those a person's own matching teaches (preserved_documents, _documents).
LabelsOf(r, s) ==
  LET saved == IF s = 0 THEN {} ELSE sources[s].labels
  IN IF r.mode = "MAPPED" THEN Taught(saved, r.labels) ELSE saved

\* The imports are numbered as they arrive.
NextToArrive(i) == at[i] = "idle" /\ \A j \in 1..(i - 1) : at[j] # "idle"

\* dry_run: every row is judged with the person's own matching, as the source the
\* import would go to is taught now.  Nothing is written.
TryFile(i) ==
  /\ NextToArrive(i)
  /\ \E r \in Request :
       LET labels == LabelsOf(r, SourceForDomain(r.property, r.domain))
           error  == DryRun(r.domain, Reading(r.domain, r.file, labels))
       IN /\ r.mode = "MAPPED"
          /\ work' = [work EXCEPT ![i].request = r,
                                  ![i].tried = [labels |-> labels, error |-> error]]
  /\ Go(i, "tried")
  /\ UNCHANGED <<tables, faults, operated>>

\* A file arrives, tried before or not.  Nothing is written for one that is
\* refused here.
Receive(i) ==
  /\ NextToArrive(i) \/ at[i] = "tried"
  /\ \E r \in Request :
       /\ at[i] = "tried" => r = work[i].request
       /\ r.via = "cli" => r.source \in DOMAIN sources
       /\ r.via = "web" => ~RefusedBefore(r)
       /\ work' = [work EXCEPT ![i].request = r,
                               ![i].source = IF r.via = "cli" THEN r.source ELSE 0]
       /\ Go(i, IF r.via = "web" THEN "importLock"
                ELSE IF r.file.format = "xml" THEN "record" ELSE "mapping")
  /\ UNCHANGED <<tables, faults, operated>>

SameKind(r, q) == r.property = q.property /\ r.domain = q.domain

\* Bug: the lock is taken once there is a source to import into.
HoldsOnceOn(i) ==
  /\ at[i] \in Locked \ {"choose", "switchOn"}
  /\ work[i].request.via = "web"

HoldsImportLock(i) ==
  /\ at[i] \in Locked
  /\ work[i].request.via = "web"

ImportLockFree(i) ==
  ~ \E j \in Importer \ {i} :
       HoldsImportLock(j) /\ SameKind(work[i].request, work[j].request)

TakeImportLock(i) ==
  /\ at[i] = "importLock"
  /\ ImportLockFree(i)
  /\ Go(i, "choose")
  /\ UNCHANGED <<tables, work, faults, operated>>

\* The wait is bounded: 409 ImportInProgressError, nothing written.
GiveUp(i) ==
  /\ at[i] = "importLock"
  /\ ~ImportLockFree(i)
  /\ Finish(i, "in progress")
  /\ UNCHANGED <<tables, faults, operated>>

\* Bug: the matching is resolved without what the source was taught before.
OnlyNowTaught(r, s) == IF r.mode = "MAPPED" THEN r.labels ELSE LabelsOf(r, s)

\* _run_mapped resolves the matching again, with what the source chosen was taught.
LabelsRead(r, s) == LabelsOf(r, s)

\* The columns: the person's own matching names them all, and the saved
\* configuration, read again, those of any other import.
LayoutOf(r, s) ==
  IF r.mode = "MAPPED" THEN r.file.layout ELSE sources[s].layout

\* Where the import goes on once its source is known.
AfterChoice(r) ==
  CASE r.mode = "CANONICAL" /\ r.domain = "COSTS" /\ r.file.format # "xml" -> "end"
    [] r.mode = "CANONICAL" /\ r.domain # "COSTS" -> "mapping"
    [] OTHER -> "record"

Chosen(i, s, on) ==
  /\ work' = [work EXCEPT ![i].source = s, ![i].switchedOn = on]
  /\ Go(i, AfterChoice(work[i].request))

\* _source_for_import reads the sources: the active one is taken as it is; else
\* the one that was removed last is switched on, or a new one is made.
ReadSources(i) ==
  LET existing == OfKind(work[i].request.property, work[i].request.domain)
      active   == Active(existing)
  IN
  /\ at[i] = "choose"
  /\ Cardinality(active) <= 1
  /\ IF active # {}
     THEN \E s \in active : Chosen(i, s, FALSE)
     ELSE /\ work' = [work EXCEPT ![i].source =
                        IF existing = {} THEN 0 ELSE LastTouched(existing)]
          /\ Go(i, "switchOn")
  /\ UNCHANGED <<tables, faults, operated>>

\* The source is written and committed, before anything of the file is.
SwitchOn(i) ==
  LET r == work[i].request
      s == work[i].source
  IN
  /\ at[i] = "switchOn"
  /\ IF s = 0
     THEN AddSource(r.property, r.domain, i) /\ Chosen(i, Len(sources) + 1, TRUE)
     ELSE /\ sources' = [sources EXCEPT ![s].active = TRUE, ![s].by = i]
          /\ recency' = Touch(s)
          /\ Chosen(i, s, TRUE)
  /\ UNCHANGED <<jobs, canonical, registry, faults, operated>>

\* Several active sources: AmbiguousSourceError, NINFA does not pick.
Ambiguous(i) ==
  /\ at[i] = "choose"
  /\ Cardinality(Active(OfKind(work[i].request.property, work[i].request.domain))) > 1
  /\ Finish(i, "ambiguous")
  /\ UNCHANGED <<tables, faults, operated>>

\* _load_source reads the row again.  The web import still holds the object it
\* chose, which a session does not refresh: only the command line can find the
\* source switched off, or of another kind or hotel.
Usable(i) ==
  LET r == work[i].request
      source == sources[work[i].source]
  IN r.via = "cli" =>
       source.active /\ source.domain = r.domain /\ source.property = r.property

SourceUnusable(i) ==
  /\ at[i] \in {"mapping", "record"}
  /\ ~Usable(i)
  /\ Finish(i, "refused")
  /\ UNCHANGED <<tables, faults, operated>>

\* save_mapping: NINFA's own column names, confirmed and committed before the
\* import.  It replaces the configuration whole: what was taught is gone.
SaveMapping(i) ==
  /\ at[i] = "mapping" /\ Usable(i)
  /\ sources' = [sources EXCEPT ![work[i].source].layout = work[i].request.file.layout,
                                ![work[i].source].labels = {}]
  /\ Go(i, "record")
  /\ UNCHANGED <<recency, jobs, canonical, registry, work, faults, operated>>

\* _run_mapped with a saved configuration that is gone or cannot read the week
\* of this file: refused before a job exists.
ConfigurationGone(i) ==
  /\ at[i] = "record"
  /\ work[i].request.mode = "SAVED" /\ sources[work[i].source].layout = None
  /\ Go(i, "end")
  /\ UNCHANGED <<tables, work, faults, operated>>

\* T1: the attempt is recorded before anything can go wrong, and just before it a
\* person's own matching is resolved.
RecordJob(i) ==
  /\ at[i] = "record" /\ Usable(i)
  /\ ~(work[i].request.mode = "SAVED" /\ sources[work[i].source].layout = None)
  /\ jobs' = Append(jobs, [source |-> work[i].source, status |-> "RUNNING",
                           error |-> None])
  /\ work' = [work EXCEPT ![i].job = Len(jobs) + 1, ![i].error = None,
                          ![i].labels = LabelsRead(work[i].request, work[i].source)]
  /\ Go(i, "stage")
  /\ UNCHANGED <<sources, recency, canonical, registry, faults, operated>>

Failing(i, error) ==
  /\ work' = [work EXCEPT ![i].error = error, ![i].seen = None]
  /\ Go(i, "fail")

\* _run up to T2: the file is read with its layout and words and judged row by
\* row.  The saved configuration is read here; a matching was resolved before.
Stage(i) ==
  LET r      == work[i].request
      labels == IF r.mode = "MAPPED" THEN work[i].labels ELSE LabelsOf(r, work[i].source)
      error  == FileError(r.domain, Reading(r.domain, r.file, labels),
                          LayoutOf(r, work[i].source))
  IN
  /\ at[i] = "stage"
  /\ IF error # None THEN Failing(i, error)
     ELSE Go(i, "sourceLock") /\ work' = [work EXCEPT ![i].labels = labels]
  /\ UNCHANGED <<tables, faults, operated>>

HoldsSourceLock(i) == at[i] \in {"registryLock", "plan", "write"}

\* lock_data_source, held until the transaction ends.
TakeSourceLock(i) ==
  /\ at[i] = "sourceLock"
  /\ ~ \E j \in Importer \ {i} : HoldsSourceLock(j) /\ work[j].source = work[i].source
  /\ Go(i, IF work[i].request.domain = "COSTS" THEN "registryLock" ELSE "plan")
  /\ UNCHANGED <<tables, work, faults, operated>>

\* Bug: the registry is locked for one hotel, though its workspace shares it.
HoldsRegistryOfHotel(i, j) ==
  /\ at[j] \in {"plan", "write"} /\ work[j].request.domain = "COSTS"
  /\ work[i].request.property = work[j].request.property

\* Bug: the lock is a row of a table, which a killed process leaves behind.
HoldsRegistryWhenKilled(i, j) ==
  \/ at[j] = "crashed"
  \/ at[j] \in {"plan", "write"} /\ work[j].request.domain = "COSTS"

HoldsRegistry(i, j) ==
  at[j] \in {"plan", "write"} /\ work[j].request.domain = "COSTS"

\* lock_supplier_registry, always after the source's lock.
TakeRegistryLock(i) ==
  /\ at[i] = "registryLock"
  /\ ~ \E j \in Importer \ {i} : HoldsRegistry(i, j)
  /\ Go(i, "plan")
  /\ UNCHANGED <<tables, work, faults, operated>>

\* The canonical rows and the registry are read and the changes decided, for the
\* file as it was staged.
Decide(i) ==
  LET w == work[i]
      change == ChangeOf(canonical, registry, w.source, sources[w.source], w.job,
                         Reading(w.request.domain, w.request.file, w.labels), w.request.day)
  IN
  /\ at[i] = "plan"
  /\ IF change.error # None THEN Failing(i, change.error)
     ELSE /\ work' = [work EXCEPT ![i].seen = [change |-> change, registry |-> registry]]
          /\ Go(i, "write")
  /\ UNCHANGED <<tables, faults, operated>>

\* T4: the rows, the suppliers and the job's SUCCEEDED commit together, unless
\* a unique key refuses an insert and everything is rolled back.
Write(i) ==
  LET w == work[i]
      change == w.seen.change
  IN
  /\ at[i] = "write"
  /\ IF Rejected(canonical, registry, w.seen.registry, change)
     THEN Failing(i, "CANONICALIZATION_FAILED") /\ UNCHANGED <<canonical, registry, jobs>>
     ELSE /\ canonical' = Written(canonical, change)
          /\ registry' = Applied(registry, w.seen.registry, change.registry)
          /\ jobs' = [jobs EXCEPT ![w.job].status = "SUCCEEDED"]
          /\ work' = [work EXCEPT ![i].seen = None]
          /\ Go(i, "end")
  /\ UNCHANGED <<sources, recency, faults, operated>>

\* _fail, in a transaction of its own.
Fail(i) ==
  /\ at[i] = "fail"
  /\ jobs' = [jobs EXCEPT ![work[i].job].status = "FAILED", ![work[i].job].error = work[i].error]
  /\ Go(i, "end")
  /\ UNCHANGED <<sources, recency, canonical, registry, work, faults, operated>>

Succeeded(i) == work[i].job # 0 /\ jobs[work[i].job].status = "SUCCEEDED"

\* Bug: a failed import switches its source off, whoever had switched it on.
SwitchOffIfFailed(i) == ~Succeeded(i)

\* Bug: only an exception undoes what was switched on, not a failed job.
SwitchOffOnException(i) ==
  work[i].switchedOn /\ work[i].job # 0 /\ jobs[work[i].job].status = "RUNNING"

\* Only what this very call switched on.
SwitchesOff(i) == work[i].switchedOn /\ ~Succeeded(i)

\* The end of _import_into_source: the source is switched off again, or the
\* matching that worked is remembered, with every word it was read with (remember);
\* the block exits, its lock released.
End(i) ==
  LET w == work[i]
      saves == Succeeded(i) /\ w.request.mode = "MAPPED" /\ w.request.save
  IN
  /\ at[i] = "end"
  /\ IF SwitchesOff(i) THEN SetActive(w.source, FALSE)
     ELSE /\ sources' = IF saves
                        THEN [sources EXCEPT ![w.source].layout = w.request.file.layout,
                                             ![w.source].labels = w.labels]
                        ELSE sources
          /\ UNCHANGED recency
  /\ Finish(i, IF Succeeded(i) THEN "succeeded" ELSE "failed")
  /\ UNCHANGED <<jobs, canonical, registry, faults, operated>>

-----------------------------------------------------------------------------
(* Faults and the operator.                                                 *)

\* The database refuses a statement before the canonical write commits: the
\* service records the job as FAILED.
Break(i) ==
  /\ at[i] \in {"stage", "plan", "write"} /\ Undisturbed
  /\ faults' = faults + 1
  /\ Failing(i, "INTERNAL_ERROR")
  /\ UNCHANGED <<tables, operated>>

\* It refuses the recording of the failure too: the exception leaves the
\* service, and what this call switched on is undone all the same.
FailBreaks(i) ==
  /\ at[i] = "fail" /\ Undisturbed
  /\ faults' = faults + 1
  /\ Go(i, "end")
  /\ UNCHANGED <<tables, work, operated>>

\* The process dies; PostgreSQL rolls its transaction back, releases its locks.
Crash(i) ==
  /\ at[i] \notin Outcome \cup {"idle", "tried"} /\ Undisturbed
  /\ faults' = faults + 1
  /\ Finish(i, "crashed")
  /\ UNCHANGED <<tables, operated>>

\* deactivate: the source of a hotel is removed, its data stay.
Deactivate(s) ==
  /\ Undisturbed /\ sources[s].active
  /\ operated' = operated + 1
  /\ SetActive(s, FALSE)
  /\ UNCHANGED <<jobs, canonical, registry, at, work, faults>>

\* forget_configuration.
Forget(s) ==
  /\ Undisturbed /\ sources[s].active /\ sources[s].layout # None
  /\ operated' = operated + 1
  /\ sources' = [sources EXCEPT ![s].layout = None, ![s].labels = {}]
  /\ UNCHANGED <<recency, jobs, canonical, registry, at, work, faults>>

\* app.cli.pilot create-data-source: active at once, without any lock.
CreateByHand(property, domain) ==
  /\ Undisturbed
  /\ operated' = operated + 1
  /\ AddSource(property, domain, 0)
  /\ UNCHANGED <<jobs, canonical, registry, at, work, faults>>

-----------------------------------------------------------------------------
Step(i) ==
  \/ TakeImportLock(i) \/ GiveUp(i) \/ ReadSources(i) \/ Ambiguous(i)
  \/ SwitchOn(i) \/ SourceUnusable(i) \/ SaveMapping(i) \/ ConfigurationGone(i) \/ RecordJob(i)
  \/ Stage(i) \/ TakeSourceLock(i) \/ TakeRegistryLock(i) \/ Decide(i)
  \/ Write(i) \/ Fail(i) \/ End(i)

Next ==
  \/ \E i \in Importer :
       TryFile(i) \/ Receive(i) \/ Step(i) \/ Break(i) \/ FailBreaks(i) \/ Crash(i)
  \/ \E s \in DOMAIN sources : Deactivate(s) \/ Forget(s)
  \/ \E k \in ByHand : CreateByHand(k[1], k[2])

\* Some process always gets on: each has its own steps, and the database lets
\* one that waits for no lock proceed.
Fairness == WF_vars(\E i \in Importer : Step(i))

Spec == Init /\ [][Next]_vars /\ Fairness

-----------------------------------------------------------------------------
\* An import that failed, or was refused, leaves no source of its own switched
\* on: a source is active only if a person set it up, or the import that
\* switched it on succeeded, still runs, or was killed before it could undo it
\* ("it exists only if the import succeeds: ... switched off again if the import
\* does not succeed", DataSourcesService.import_file).
FailedImportLeavesNothingOn ==
  \A s \in DOMAIN sources :
     (sources[s].active /\ sources[s].by # 0) =>
        at[sources[s].by] \notin Outcome \ {"succeeded", "crashed"}

\* Imports never make a second active source of a kind: where there are two, a
\* person created one by hand (hold_source_import_lock: "two first imports
\* arriving together would both see no source and both create one").
ImportsMakeOneSource ==
  \A s, t \in DOMAIN sources :
     (/\ s # t /\ sources[s].active /\ sources[t].active
      /\ sources[s].property = sources[t].property
      /\ sources[s].domain = sources[t].domain)
        => sources[s].by = 0 \/ sources[t].by = 0

\* A source is switched off by a person or by the import that switched it on,
\* never by one that failed in a source somebody else had set up.
SwitchedOffByItsOwner ==
  [][\A s \in DOMAIN sources :
        (sources[s].active /\ ~sources'[s].active) =>
           \/ operated' # operated
           \/ \E i \in Importer : at[i] = "end" /\ at'[i] # "end"
                                   /\ sources[s].by = i]_vars

\* No canonical write is ever refused by a unique key: the locks make the reads
\* it was decided on still true when it is written.
WritesAreNeverRejected ==
  \A j \in DOMAIN jobs : jobs[j].error # "CANONICALIZATION_FAILED"

\* A file whose dry run found nothing wrong is refused by its import only for what
\* the hotel already holds, or because the database refused a statement, or because
\* a word the dry run knew has been taken from the source since: the configuration
\* forgotten or replaced, or the file gone to another source.  Nothing else that
\* happens between the two, and no import going on beside, unsettles what a person
\* was told ("Judge every row of the file with this decision exactly as the import
\* will", DataSourcesService.dry_run; _config_for and _run_mapped both resolve it
\* with preserved_documents).
DryRunForeseesTheImport ==
  \A i \in Importer :
     LET w    == work[i]
         rows == w.request.file.rows
         lost == Words(w.tried.labels) \ Words(LabelsOf(w.request, w.source))
     IN (at[i] = "fail" /\ w.tried # None /\ w.tried.error = None) =>
           \/ w.error \in {"SNAPSHOT_CONFLICT", "DOCUMENT_CONFLICT",
                            "SUPPLIER_NAME_AMBIGUOUS", "SUPPLIER_IDENTITY_CONFLICT",
                            "CANONICALIZATION_FAILED", "INTERNAL_ERROR"}
           \/ w.error = "VALIDATION_FAILED" /\ \E k \in DOMAIN rows : Needed(rows[k]) \cap lost # {}

\* An import that has started ends, whatever the others do: it takes its locks,
\* gives up waiting, or is killed; no order of locks leaves two of them waiting
\* for each other.
EveryImportEnds ==
  \A i \in Importer : at[i] \notin {"idle", "tried"} ~> at[i] \in Outcome

\* What the ledger sees of a request: its file as it is read with some of the words
\* that can be taught.
Arrivals ==
  {[property |-> r.property, domain |-> r.domain,
    file |-> Reading(r.domain, r.file, labels), day |-> r.day] :
     r \in Request, labels \in SUBSET (UNION {q.labels : q \in Request})}

\* The data change by whole imports only, each applied to what the one before
\* it left (the refinement of ImportLedger).
Ledger == INSTANCE ImportLedger WITH
  Arrival <- Arrivals,
  Number  <- 1..(MaxImports + MaxEvents),
  Job     <- 1..MaxImports

WholeImportsOnly == Ledger!Spec
=============================================================================
