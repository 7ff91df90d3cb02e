---------------------------- MODULE SourceLearning ---------------------------
(***************************************************************************)
(* The saved configuration of one source and what is learned in it, over    *)
(* the web imports that read and write it (data_sources/service.py and      *)
(* smart_import.py).  A decision is made on a screen, verified when it is   *)
(* posted, imported under the import lock of the source and remembered      *)
(* before the lock is given back: the verification is made BEFORE the lock  *)
(* is taken, and what is remembered is written by another transaction than  *)
(* the import.  Forgetting the configuration and mapping a file on the      *)
(* command line take no lock.                                               *)
(*                                                                         *)
(* Only imports that ask to be remembered are here: the others leave this   *)
(* state alone.                                                             *)
(***************************************************************************)
EXTENDS FileUnderstanding

CONSTANTS
  Files,            \* the files that may be brought
  ByHand(_),        \* the matchings a person may build for a file
  Canonical,        \* the matching of a file with NINFA's own column names
  MaxImports,       \* bound: imports
  MaxAtOnce,        \* bound: imports under way at a time
  MaxInterventions  \* bound: times the configuration is forgotten or replaced

ASSUME FilesAssumption ==
  \A file \in Files :
    /\ file.columns \in Seq(Range(file.columns))
    /\ \A fields \in ByHand(file) : DOMAIN fields \subseteq DOMAIN file.columns

VARIABLES
  learning,      \* format_options.learning of the profile
  saved,         \* the column matching of the profile
  at,            \* where each import is
  work,          \* what it holds
  interventions, \* times the configuration was forgotten or replaced
  overtaken      \* what came between the verification of a decision and its saving

vars == <<learning, saved, at, work, interventions, overtaken>>

Import == 1 .. MaxImports

NoWork == [file |-> None, answers |-> NoAnswers, fields |-> <<>>, formats |-> {},
           byHand |-> FALSE, confirmation |-> None, verifiedOn |-> None, after |-> 0,
           seen |-> None]

Init ==
  /\ learning = NothingLearned /\ saved = None
  /\ at = [i \in Import |-> "idle"]
  /\ work = [i \in Import |-> NoWork]
  /\ interventions = 0
  /\ overtaken = {}

Go(i, label) == at' = [at EXCEPT ![i] = label]

Finish(i) == Go(i, "done") /\ work' = [work EXCEPT ![i] = NoWork]

Open == {i \in Import : at[i] \notin {"idle", "done"}}

IsNext(i) ==
  /\ at[i] = "idle" /\ \A j \in 1 .. (i - 1) : at[j] # "idle"
  /\ Cardinality(Open) < MaxAtOnce

\* What a person may answer to the questions of a reading.
AnswersTo(reading) ==
  {[fields |-> f, formats |-> g] :
     f \in {h \in [reading.asked -> Needed] : \A p \in reading.asked : h[p] \in reading.offered[p]},
     g \in IF reading.unclear THEN {{x} : x \in Formats} ELSE {{}}}

\* The screen reads a file, the person answers, the decision is posted.
Answer(i) ==
  /\ IsNext(i)
  /\ \E file \in Files : \E answers \in AnswersTo(Understand(learning, saved, file, NoAnswers)) :
       LET reading == Understand(learning, saved, file, answers)
       IN  /\ reading.level = "READY"
           /\ work' = [work EXCEPT ![i].file = file, ![i].answers = answers,
                                   ![i].fields = reading.fields, ![i].formats = reading.formats]
  /\ Go(i, "posted")
  /\ UNCHANGED <<learning, saved, interventions, overtaken>>

\* The person matches the columns by hand.
MatchByHand(i) ==
  /\ IsNext(i)
  /\ \E file \in Files : \E fields \in ByHand(file) :
       work' = [work EXCEPT ![i].file = file, ![i].byHand = TRUE, ![i].fields = fields]
  /\ Go(i, "posted")
  /\ UNCHANGED <<learning, saved, interventions, overtaken>>

\* _settle: the file is read again with the answers the decision names; it must
\* be READY and give this very decision.
Verify(i) ==
  LET w == work[i] reading == Understand(learning, saved, w.file, w.answers)
  IN  /\ at[i] = "posted"
      /\ ~w.byHand
      /\ reading.level = "READY" /\ reading.fields = w.fields /\ reading.formats = w.formats
      /\ work' = [work EXCEPT ![i].confirmation = ConfirmationFrom(w.file, w.answers, reading),
                              ![i].verifiedOn = learning, ![i].after = interventions]
      /\ Go(i, "verified")
      /\ UNCHANGED <<learning, saved, interventions, overtaken>>

\* UnresolvedImportQuestionsError, ImportDecisionChangedError.
Refuse(i) ==
  LET w == work[i] reading == Understand(learning, saved, w.file, w.answers)
  IN  /\ at[i] = "posted"
      /\ ~w.byHand
      /\ \/ reading.level # "READY"
         \/ reading.level = "READY" /\ <<reading.fields, reading.formats>> # <<w.fields, w.formats>>
      /\ Finish(i)
      /\ UNCHANGED <<learning, saved, interventions, overtaken>>

\* A matching by hand is judged on its merits: only its family is looked for.
VerifyByHand(i) ==
  LET w == work[i]
  IN  /\ at[i] = "posted"
      /\ w.byHand
      /\ work' = [work EXCEPT ![i].confirmation =
                    ManualConfirmation(w.file, Understand(learning, saved, w.file, NoAnswers)),
                              ![i].verifiedOn = learning, ![i].after = interventions]
      /\ Go(i, "verified")
      /\ UNCHANGED <<learning, saved, interventions, overtaken>>

\* The lock is free, the file is imported, and the families are read.
ImportFile(i) ==
  /\ at[i] = "verified"
  /\ \A j \in Import : at[j] # "imported"
  /\ work' = [work EXCEPT ![i].seen = learning]
  /\ Go(i, "imported")
  /\ UNCHANGED <<learning, saved, interventions, overtaken>>

\* The import is refused, fails, or the wait for the lock is over.
FailImport(i) ==
  /\ at[i] = "verified"
  /\ Finish(i)
  /\ UNCHANGED <<learning, saved, interventions, overtaken>>

\* The mapping of an import, field by field, as the profile keeps it.
MappedBy(w) ==
  [f \in Range(w.fields) |-> w.file.columns[CHOOSE p \in DOMAIN w.fields : w.fields[p] = f].key]

\* The families after an import.
Learned(w) ==
  LET c      == w.confirmation
      mapped == WithinShape(MappedBy(w), c.shape)
      person == IF c.origin = "MANUAL" THEN mapped
                ELSE Restrict(mapped, {f \in DOMAIN mapped : mapped[f] \in c.classified})
  IN  RememberIn(w.seen, c.family, c.shape, mapped, person, c.answers, c.origin)

\* SmartImportService.remember: one transaction writes the matching and the
\* families as they were read; nothing is written when there is nothing to say.
SaveConfiguration(i) ==
  LET w == work[i]
  IN  /\ at[i] = "imported"
      /\ \/ /\ NothingToSay(w.seen, w.confirmation.origin)
            /\ UNCHANGED <<learning, saved, overtaken>>
         \/ /\ ~NothingToSay(w.seen, w.confirmation.origin)
            /\ learning' = Learned(w)
            /\ saved' = [fields |-> MappedBy(w), formats |-> w.formats]
            /\ overtaken' = overtaken
                 \cup (IF w.verifiedOn # learning THEN {"import"} ELSE {})
                 \cup (IF w.after # interventions THEN {"forgetting"} ELSE {})
      /\ Finish(i)
      /\ UNCHANGED interventions

\* save_profile raised: logged, the import stands.
FailToSave(i) ==
  /\ at[i] = "imported"
  /\ Finish(i)
  /\ UNCHANGED <<learning, saved, interventions, overtaken>>

\* forget_configuration: the whole profile is deleted.
Forget ==
  /\ interventions < MaxInterventions
  /\ saved # None
  /\ learning' = NothingLearned /\ saved' = None
  /\ interventions' = interventions + 1
  /\ UNCHANGED <<at, work, overtaken>>

\* save_mapping for a file with NINFA's own column names (the command line, or a
\* web import without a matching): the profile is replaced, learning included.
MapCanonically ==
  /\ interventions < MaxInterventions
  /\ learning' = NothingLearned /\ saved' = Canonical
  /\ interventions' = interventions + 1
  /\ UNCHANGED <<at, work, overtaken>>

Next ==
  \/ \E i \in Import :
       \/ Answer(i) \/ MatchByHand(i) \/ Verify(i) \/ Refuse(i) \/ VerifyByHand(i)
       \/ ImportFile(i) \/ FailImport(i) \/ SaveConfiguration(i) \/ FailToSave(i)
  \/ Forget
  \/ MapCanonically

Spec == Init /\ [][Next]_vars

----------------------------------------------------------------------------
(* Properties                                                               *)

SaidIn(m) == [mapped |-> m.mapped, person |-> m.person]

\* What was confirmed in a family is what it says, or in its history.
Survives(m, families) ==
  \E n \in Range(families) :
    /\ n.id = m.id
    /\ \/ n.trust = "PERSON" /\ SaidIn(n) = SaidIn(m)
       \/ \E k \in DOMAIN n.history :
            n.history[k] = [trust |-> m.trust, mapped |-> m.mapped, person |-> m.person]

\* It was the least recently used of a full source.
LeftOut(m, before, after) ==
  /\ Len(before) = FamiliesKept
  /\ \A n \in Range(after) : n.trust = "PERSON" /\ n.touched > m.touched

NothingLost(before, after) ==
  \A m \in Range(before) : m.trust = "PERSON" => Survives(m, after) \/ LeftOut(m, before, after)

\* What a person confirmed is never silently overwritten, in whatever order the
\* imports are verified and saved: it stays as it was, or in the history of its
\* family, or its family was the least recently used of a full source.  Only
\* forgetting the configuration, or replacing it, drops it.
\* (source_learning.py: "the new confirmation prevails and the old one stays in
\* a short history, never silently overwritten".)
ConfirmationsAreKept ==
  [][interventions' = interventions => NothingLost(learning.families, learning'.families)]_vars

\* A person confirmed this column in the family.
Confirmed(m, field, key) == field \in DOMAIN m.person /\ m.person[field] = key

\* So the last imported file was read, it was of this family, and a person has
\* confirmed something in it.
LastReadSo(store, matching, m, field, key) ==
  /\ m.trust = "PERSON" /\ m.touched = store.seq
  /\ field \in DOMAIN matching.fields /\ matching.fields[field] = key

ReadsOnlyWhatWasSaid(store, matching) ==
  \A file \in Files :
    LET reading == Understand(store, matching, file, NoAnswers)
        memory  == reading.choice.memory
    IN  reading.level = "READY" =>
          \A p \in DOMAIN reading.fields :
            LET field == reading.fields[p]
                key   == file.columns[p].key
            IN  \/ field \notin Needed
                \/ file.columns[p].field = field /\ file.columns[p].level # "LOW"
                \/ /\ memory # None
                   /\ \/ Confirmed(memory, field, key)
                      \/ LastReadSo(store, matching, memory, field, key)

\* Whatever was imported before and in whatever order, a file is read without a
\* question only as the engine now reads it, as a person confirmed in the family
\* of this file, or as the last import read it if that was of this family and a
\* person has confirmed something in it: another family's matching never decides
\* a column, and a family that only the engine has read decides none.
\* It depends on nothing but the configuration, so it is asked of its changes.
\* (source_learning.py: "the engine cannot teach itself"; understanding.py:
\* "another family's matching is never applied to this file", "a source whose
\* files have been read before keeps reading them the same way".)
NothingIsInvented ==
  [][learning' # learning \/ saved' # saved => ReadsOnlyWhatWasSaid(learning', saved')]_vars

\* The decision is one the file itself does not contradict.
Plain(w) ==
  \A p \in DOMAIN w.file.columns :
    LET column == w.file.columns[p]
    IN  /\ p \in DOMAIN w.fields => w.fields[p] \in column.fits
        /\ column.level = "HIGH" => p \in DOMAIN w.fields /\ w.fields[p] = column.field

\* Nothing of the decision came from what was remembered.
AllSaid(w) ==
  LET reading == Understand(w.verifiedOn, None, w.file, w.answers)
  IN  w.byHand \/ (reading.reused = <<>> /\ reading.formats = w.answers.formats)

\* What a person has just decided about a file is not asked again: once it is
\* saved, the same file is READY and gives the same decision.  Promised while no
\* decision was saved over other families than those it was verified on (two
\* such can leave two families no file tells apart), and when the memory answered
\* no part of it: what it answered is NOT learned again with what the person
\* adds.  (source_learning.py: "remembers the confirmation
\* -> asks less".)
TaughtIsKnown ==
  [][\A i \in Import :
       LET w == work[i] reading == Understand(learning', saved', w.file, NoAnswers)
       IN  /\ at[i] = "imported" /\ at'[i] = "done" /\ saved' # saved
           /\ w.byHand \/ w.answers # NoAnswers
           /\ overtaken' = {} /\ w.seen = learning
           /\ Plain(w) /\ AllSaid(w)
           => reading.level = "READY" /\ reading.fields = w.fields /\ reading.formats = w.formats
    ]_vars
==============================================================================
