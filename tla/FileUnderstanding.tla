--------------------------- MODULE FileUnderstanding ---------------------------
(***************************************************************************)
(* How a file is read before it is imported: UnderstandingService of        *)
(* data_sources/understanding.py.  The rules propose a field for each       *)
(* column, what a person confirmed about the family of the file answers     *)
(* again where the file still proves it, and what is left open is asked.    *)
(*                                                                         *)
(* A file is [columns, unproven]: its columns as the engine reads them      *)
(* alone, [key, kind, personal, field, level, maybe, fits], and whether its *)
(* values leave open how they are written.  Left out: which table and kind  *)
(* of data a document is, the layouts of grids, the labels of departments   *)
(* and categories, and the assistant (no model is asked when a decision is  *)
(* verified).                                                               *)
(***************************************************************************)
EXTENDS Integers, FiniteSets, Sequences, SequencesExt, FiniteSetsExt, Functions

(***************************************************************************)
(* What Source Learning remembers of the files of a source and how a file   *)
(* is matched with it (data_sources/source_learning.py).  A family is one   *)
(* recurring structure: its columns, the mapping that was confirmed and the *)
(* part of it a person decided.  A file is a sequence of columns as the     *)
(* engine reads them ALONE; a column is named by its position.              *)
(*                                                                         *)
(* Left out: the kind of data of a family (a source has one), its layout    *)
(* hints, and the personal data whose handling is a placeholder column.     *)
(***************************************************************************)
CONSTANTS
  None,          \* nothing: no field, no family, nothing remembered
  Personal,      \* the key of a column of personal data
  HistoryKept,   \* earlier revisions kept per family (HISTORY_KEPT)
  FamiliesKept,  \* families kept per source (FAMILIES_KEPT)
  ResidualGap    \* columns between the winner and the runner-up (MIN_RESIDUAL_GAP)

ASSUME KeptAssumption ==
  /\ HistoryKept \in Nat \ {0} /\ FamiliesKept \in Nat \ {0} /\ ResidualGap \in Nat \ {0}
  /\ None \notin Nat

----------------------------------------------------------------------------
(* One family and one file                                                  *)

ShapeOf(columns) ==
  [p \in DOMAIN columns |->
     [key  |-> IF columns[p].personal THEN Personal ELSE columns[p].key,
      kind |-> columns[p].kind]]

KeysOf(shape) == {shape[p].key : p \in DOMAIN shape} \ {Personal}

KindOf(shape, key) == shape[CHOOSE p \in DOMAIN shape : shape[p].key = key].kind

\* Only the columns the file has as it is read plainly.
WithinShape(mapped, shape) ==
  Restrict(mapped, {f \in DOMAIN mapped : mapped[f] \in KeysOf(shape)})

Classes == {"TEXT", "NUMBER", "DATE"}

\* _disagreement: the column can no longer be what the memory says it is.
Disagrees(memory, field, column) ==
  LET key      == memory.mapped[field]
      recorded == IF key \in KeysOf(memory.shape) THEN KindOf(memory.shape, key) ELSE None
  IN  \/ column.field \notin {None, field} /\ column.level = "HIGH"
      \/ recorded \in Classes /\ column.kind \in (Classes \cup {"MIXED"}) \ {recorded}
      \/ field \notin column.fits

\* math.ceil(n * MIN_COVERAGE), and at least one.
Enough(n) == IF n = 0 THEN 1 ELSE (n + 1) \div 2

\* The columns of the file that carry the name each field is remembered by.
CarriersIn(memory, columns) ==
  [f \in DOMAIN memory.mapped |->
     {p \in DOMAIN columns : ~columns[p].personal /\ columns[p].key = memory.mapped[f]}]

Single(carriers) == {f \in DOMAIN carriers : Cardinality(carriers[f]) = 1}

\* The first of two functions, and the other where it says nothing.
Joined(f, g) == [x \in DOMAIN f \cup DOMAIN g |-> IF x \in DOMAIN f THEN f[x] ELSE g[x]]

\* Where each field is, its name changed or not: a renamed header is followed
\* only where names already anchor the file.
PlacesIn(memory, columns, carriers) ==
  LET anchored == Cardinality(Single(carriers)) >= Enough(Cardinality(DOMAIN carriers))
      alias    == [f \in {g \in DOMAIN carriers : anchored /\ carriers[g] = {}} |->
                     {p \in DOMAIN columns \ UNION Range(carriers) :
                        /\ ~columns[p].personal
                        /\ columns[p].key \notin KeysOf(memory.shape)
                        /\ columns[p].field = f
                        /\ columns[p].level \in {"HIGH", "MEDIUM"}}]
      only(set) == CHOOSE p \in set : TRUE
  IN  Joined([f \in Single(carriers) |-> only(carriers[f])],
             [f \in Single(alias) |-> only(alias[f])])

\* The columns both know appear in another order.
Moved(known, columns, current) ==
  LET shared == SelectSeq(known, LAMBDA c : c.key \in current)
      now    == SelectSeq(columns, LAMBDA c : ~c.personal /\ c.key \in KeysOf(known))
  IN  [p \in DOMAIN shared |-> shared[p].key] # [p \in DOMAIN now |-> now[p].key]

\* A part of a whole.  Where headers repeat, more columns may be renamed than names
\* are left, and the whole is negative.
Thousandths(part, whole) ==
  IF whole = 0 THEN 1000
  ELSE IF whole > 0 THEN (1000 * part) \div whole ELSE -((1000 * part) \div (-whole))

\* How far the file is from the family, the gravest first.
DriftOf(fields, missing, wrong, doubled, fresh, renamed, moved) ==
  CASE fields # {} /\ Cardinality(fields \ missing) < Enough(Cardinality(fields)) -> "MAJOR_CHANGE"
    [] wrong \cup doubled # {} -> "SEMANTIC_CONFLICT"
    [] missing # {}            -> "MISSING"
    [] fresh # {}              -> "ADDITIVE"
    [] renamed # {} \/ moved   -> "COSMETIC"
    [] OTHER                   -> "NONE"

\* What the comparison comes to: places by name or alias, aliased fields, fields
\* two columns carry, fields the file contradicts, and columns never seen.
Verdict(memory, known, current, places, aliased, doubled, wrong, fresh, moved) ==
  LET fields   == DOMAIN memory.mapped
      missing  == fields \ (DOMAIN places \cup doubled)
      renamed  == {places[f] : f \in aliased}
      proven   == {f \in DOMAIN places \ wrong : f \in DOMAIN memory.person}
      union    == Cardinality(known \cup current) - Cardinality(aliased)
      fieldAt(set) == [p \in {places[f] : f \in set} |-> CHOOSE f \in set : places[f] = p]
  IN  [drift     |-> DriftOf(fields, missing, wrong, doubled, fresh, renamed, moved),
       score     |-> Thousandths(Cardinality(known \cap current) + Cardinality(aliased), union),
       proven    |-> fieldAt(proven),
       renamed   |-> renamed,
       missing   |-> missing,
       doubted   |-> fieldAt(wrong),
       residual  |-> Cardinality(fresh) + Cardinality(missing) + Cardinality(wrong)
                       + Cardinality(doubled) + Cardinality(renamed)]

\* match_source: the remembered structure against the file, column by column.
Compared(memory, columns, carriers, places) ==
  LET named   == {p \in DOMAIN columns : ~columns[p].personal}
      current == {columns[p].key : p \in named}
      used    == UNION Range(carriers) \cup Range(places)
  IN  Verdict(memory, KeysOf(memory.shape), current, places,
              DOMAIN places \ Single(carriers),
              {f \in DOMAIN carriers : Cardinality(carriers[f]) > 1},
              {f \in DOMAIN places : Disagrees(memory, f, columns[places[f]])},
              {p \in named \ used : columns[p].key \notin KeysOf(memory.shape)},
              Moved(memory.shape, columns, current))

MatchPlaced(memory, columns, carriers) ==
  Compared(memory, columns, carriers, PlacesIn(memory, columns, carriers))

MatchSource(memory, columns) == MatchPlaced(memory, columns, CarriersIn(memory, columns))

Different(match) == match.drift = "MAJOR_CHANGE"

\* May this memory pre-answer anything?
Reusable(memory, match) == memory.trust = "PERSON" /\ ~Different(match)

\* The scalar answers that still hold.
KeptAnswers(memory, match) ==
  IF Reusable(memory, match) /\ match.drift \notin {"SEMANTIC_CONFLICT", "MISSING"}
  THEN memory.answers ELSE {}

\* The file still holds everything the family remembers.
IsRevision(match) == ~Different(match) /\ match.missing = {}

----------------------------------------------------------------------------
(* Which family is this file?                                               *)

NoChoice == [memory |-> None, match |-> None, ambiguous |-> FALSE, revision |-> FALSE]

Chosen(memory, match, revision) ==
  [memory |-> memory, match |-> match, ambiguous |-> FALSE, revision |-> revision]

\* _gap: what the runner-up leaves unexplained on top of what the winner does.
Distinct(best, second) ==
  LET gap == second.residual - best.residual
  IN  gap >= 1 /\ (best.residual > 0 => gap >= ResidualGap)

\* The best family of those that are not different, if any other is far enough.
Winner(families, matches, eligible) ==
  LET Better(i, j) ==
        LET a == matches[i] b == matches[j]
        IN  \/ a.residual < b.residual
            \/ a.residual = b.residual /\ a.score > b.score
            \/ /\ a.residual = b.residual /\ a.score = b.score
               /\ families[i].touched > families[j].touched
      best == CHOOSE i \in eligible : \A j \in eligible \ {i} : Better(i, j)
  IN  IF \A j \in eligible \ {best} : Distinct(matches[best], matches[j])
      THEN Chosen(families[best], matches[best], IsRevision(matches[best]))
      ELSE [NoChoice EXCEPT !.ambiguous = TRUE]

\* No family is like this file: the nearest one is only told of.
Closest(families, matches) ==
  LET Nearer(i, j) ==
        \/ matches[i].score > matches[j].score
        \/ matches[i].score = matches[j].score /\ families[i].touched > families[j].touched
      near == CHOOSE i \in DOMAIN families : \A j \in DOMAIN families \ {i} : Nearer(i, j)
  IN  Chosen(families[near], matches[near], FALSE)

ChooseAmong(families, matches) ==
  LET eligible == {i \in DOMAIN families : ~Different(matches[i])}
  IN  IF families = <<>> THEN NoChoice
      ELSE IF eligible = {} THEN Closest(families, matches)
      ELSE Winner(families, matches, eligible)

\* choose_family: the one that explains the file clearly better than the others.
ChooseFamily(families, columns) ==
  ChooseAmong(families, [i \in DOMAIN families |-> MatchSource(families[i], columns)])

\* FamilyChoice.family: the family an import of this file updates.
FamilyOf(choice) == IF choice.revision THEN choice.memory.id ELSE None

----------------------------------------------------------------------------
(* Remembering                                                              *)

\* fingerprint_of: the verified structure, whatever the order of its columns.
Fingerprint(shape, mapped) ==
  <<[c \in {shape[p] : p \in DOMAIN shape} |->
       Cardinality({p \in DOMAIN shape : shape[p] = c})], mapped>>

TrustOf(origin) == IF origin \in {"ANSWERS", "MANUAL"} THEN "PERSON" ELSE "ENGINE"

LastOf(history) ==
  SubSeq(history, 1 + (IF Len(history) > HistoryKept THEN Len(history) - HistoryKept ELSE 0),
         Len(history))

\* Bug: a correction replaces what was confirmed and keeps no trace of it.
Overwritten(existing, fact) == existing.history

\* The history of a family that this confirmation revises.
History(existing, fact) ==
  IF \A f \in {"trust", "mapped", "person", "answers"} : existing[f] = fact[f]
  THEN existing.history
  ELSE LastOf(Append(existing.history,
                [trust |-> existing.trust, mapped |-> existing.mapped, person |-> existing.person]))

\* remember: the family after an import that was confirmed.
Remember(existing, id, touched, shape, mapped, person, answers, origin) ==
  LET fact == [id      |-> id,
               touched |-> touched,
               trust   |-> TrustOf(origin),
               shape   |-> shape,
               mapped  |-> mapped,
               person  |-> IF TrustOf(origin) = "PERSON" THEN person ELSE <<>>,
               answers |-> answers]
      history == IF existing = None THEN <<>> ELSE History(existing, fact)
  IN  [f \in DOMAIN fact \cup {"history"} |-> IF f = "history" THEN history ELSE fact[f]]

\* The families a source can spare, least useful first.
LessUseful(m, n) ==
  \/ m.trust # "PERSON" /\ n.trust = "PERSON"
  \/ m.trust = n.trust /\ m.touched < n.touched

\* One family goes when there are too many; never the one just written.
Prune(families, written) ==
  IF Len(families) <= FamiliesKept THEN families
  ELSE LET old == {i \in DOMAIN families : families[i].id # written}
           out == CHOOSE i \in old :
                    \A j \in old \ {i} : LessUseful(families[i], families[j])
       IN  RemoveAt(families, out)

FamilyNamed(families, id) ==
  LET at == {i \in DOMAIN families : families[i].id = id}
  IN  IF at = {} THEN None ELSE families[Min(at)]

FamilyLike(families, shape, mapped) ==
  LET at == {i \in DOMAIN families :
               Fingerprint(families[i].shape, families[i].mapped) = Fingerprint(shape, mapped)}
  IN  IF at = {} THEN None ELSE families[Min(at)]

Replaced(families, memory) ==
  [i \in DOMAIN families |-> IF families[i].id = memory.id THEN memory ELSE families[i]]

\* A source that has learned nothing, and what a profile without a memory says.
NothingLearned == [seq |-> 0, current |-> None, families |-> <<>>]

Taught(families) == \E i \in DOMAIN families : families[i].trust = "PERSON"

\* The engine alone never writes once a person has confirmed anything here.
NothingToSay(learning, origin) == origin = "ENGINE" /\ Taught(learning.families)

\* The family this confirmation revises, or None.
Existing(families, family, shape, mapped) ==
  LET named == FamilyNamed(families, family)
  IN  IF named # None THEN named ELSE FamilyLike(families, shape, mapped)

\* The families after a decision that the memory answered: only the use is marked.
Reused(learning, family) ==
  LET named == FamilyNamed(learning.families, family)
      seq   == learning.seq + 1
  IN  IF named = None THEN [learning EXCEPT !.current = None]
      ELSE [seq |-> seq, current |-> named.id,
            families |-> Replaced(learning.families, [named EXCEPT !.touched = seq])]

\* remember_in: the families after an import that has something to say.  An
\* identity is the count of the saves, and the count starts again when the
\* configuration has been forgotten.
RememberIn(learning, family, shape, mapped, person, answers, origin) ==
  LET families == learning.families
      seq      == learning.seq + 1
      existing == Existing(families, family, shape, mapped)
      id       == IF existing = None THEN seq ELSE existing.id
      written  == Remember(existing, id, seq, shape, mapped, person, answers, origin)
  IN  IF origin = "REUSE" THEN Reused(learning, family)
      ELSE [seq |-> seq, current |-> id,
            families |-> Prune(IF existing = None THEN Append(families, written)
                               ELSE Replaced(families, written), id)]

--------------------------------------------------------------------------------
CONSTANTS
  Groups,           \* the requirement groups: one field of each is needed
  Formats,          \* how a file may write what its values leave open
  MaxConfirmations, \* likely columns a person is asked about (_MAX_CONFIRMATIONS)
  MaxAmbiguities    \* open columns a person is asked about (_MAX_AMBIGUITY_QUESTIONS)

Needed == UNION Groups

NoAnswers == [fields |-> <<>>, formats |-> {}]

\* _with_answers: what was said of a column wins, and a field is used once.
WithAnswers(columns, asked) ==
  LET taken == Range(asked)
  IN  [p \in DOMAIN columns |->
         IF p \in DOMAIN asked
         THEN [field |-> asked[p], level |-> "HIGH", maybe |-> {}]
         ELSE IF columns[p].field \in taken
         THEN [field |-> None, level |-> None, maybe |-> {}]
         ELSE [field |-> columns[p].field, level |-> columns[p].level,
               maybe |-> columns[p].maybe \ taken]]

\* The columns of a proposal or of a matching that are given a field.
Decided(proposal) ==
  [p \in {q \in DOMAIN proposal : proposal[q].field # None} |-> proposal[p].field]

\* SmartImportService.check: every group has a field, no field is used twice.
Complete(fields) ==
  /\ \A group \in Groups : group \cap Range(fields) # {}
  /\ IsInjective(fields)

\* _ambiguity_questions: a column that may be something the import needs; with
\* too many of them nothing is asked and the file is held for the matching screen.
Doubtful(proposal) == {p \in DOMAIN proposal : proposal[p].maybe \cap Needed # {}}

Held(proposal) == Cardinality(Doubtful(proposal)) > MaxAmbiguities

Ambiguous(proposal) == IF Held(proposal) THEN {} ELSE Doubtful(proposal)

\* _missing: a group that no column has and none may have.
Lacking(proposal) ==
  {group \in Groups : \A p \in DOMAIN proposal :
     proposal[p].field \notin group /\ proposal[p].maybe \cap group = {}}

\* _confirm_questions: a needed column that is likely but not proven.
Unsure(proposal) ==
  LET likely == {p \in DOMAIN proposal : /\ proposal[p].field \in Needed
                                         /\ proposal[p].level # "HIGH"
                                         /\ proposal[p].maybe = {}}
  IN  IF Cardinality(likely) > MaxConfirmations THEN {} ELSE likely

\* profile_info: every column of the saved matching is in the file.
ProfileFits(saved, columns) ==
  saved # None /\ Range(saved.fields) \subseteq {columns[p].key : p \in DOMAIN columns}

\* _decision_of: the saved matching written for the columns of this file.
DecisionOf(saved, columns) ==
  [p \in {q \in DOMAIN columns : columns[q].key \in Range(saved.fields)} |->
     CHOOSE f \in DOMAIN saved.fields : saved.fields[f] = columns[p].key]

\* recognized_by_family: a file of a source the person has taught.
RecognizedByFamily(choice, answers) ==
  /\ choice.memory # None
  /\ Reusable(choice.memory, choice.match)
  /\ choice.match.renamed = {}
  /\ choice.match.drift \in {"NONE", "COSMETIC", "ADDITIVE"}
  /\ answers.fields = <<>>

\* Bug: whichever family's import wrote the saved matching, it is applied.
RecognizedByAnyProfile(learning, saved, columns, choice, answers) ==
  RecognizedByFamily(choice, answers) /\ ProfileFits(saved, columns)

\* recognized_by_profile: read the way its last file was, if that was a file of
\* the same family.
RecognizedByProfile(learning, saved, columns, choice, answers) ==
  /\ RecognizedByFamily(choice, answers)
  /\ ProfileFits(saved, columns)
  /\ learning.current = choice.memory.id

\* _with_kept_formats: the person's earlier answer, where the values prove none.
WithKeptFormats(file, formats, choice) ==
  IF formats # {} \/ ~file.unproven \/ choice.memory = None THEN formats
  ELSE KeptAnswers(choice.memory, choice.match)

\* Every group has a column that is proven for it, or none at all.
Proven(proposal) ==
  \A group \in Groups : \A p \in DOMAIN proposal :
    proposal[p].field \in group => proposal[p].level = "HIGH"

\* _level: something is not in the file, something is open, or it is READY.
LevelOf(lacking, open, certain) ==
  IF lacking THEN "MANUAL" ELSE IF open THEN "ASK" ELSE IF certain THEN "READY" ELSE "MANUAL"

Offered(proposal, doubted, p) ==
  CASE p \in DOMAIN doubted -> {doubted[p]}
    [] p \notin DOMAIN doubted /\ proposal[p].maybe # {} -> proposal[p].maybe
    [] OTHER -> {proposal[p].field}

\* What is decided and what is asked, once the columns have been proposed.
Proposed(file, answers, proposal, choice, reused, doubted, byProfile, fields, formats) ==
  LET asked   == Ambiguous(proposal) \cup DOMAIN doubted
                   \cup (IF byProfile THEN {} ELSE Unsure(proposal))
      unclear == ~byProfile /\ file.unproven /\ formats = {}
      held    == Held(proposal) /\ ~RecognizedByFamily(choice, answers)
  IN  [level   |-> LevelOf(Lacking(proposal) # {}, asked # {} \/ unclear,
                           Complete(fields) /\ ~held /\ (byProfile \/ Proven(proposal))),
       fields  |-> fields,
       formats |-> formats,
       asked   |-> asked,
       offered |-> [p \in asked |-> Offered(proposal, doubted, p)],
       unclear |-> unclear,
       choice  |-> choice,
       reused  |-> reused]

ReadWith(saved, file, answers, choice, reused, doubted, proposal, byProfile) ==
  Proposed(file, answers, proposal, choice, reused, doubted, byProfile,
           IF byProfile THEN DecisionOf(saved, file.columns) ELSE Decided(proposal),
           IF byProfile THEN saved.formats ELSE WithKeptFormats(file, answers.formats, choice))

\* The family of the file is known: what it answers again and what it doubts.
ReadAs(learning, saved, file, answers, choice) ==
  LET reuse  == choice.memory # None /\ Reusable(choice.memory, choice.match)
      reused == IF reuse THEN choice.match.proven ELSE <<>>
      open   == IF reuse THEN DOMAIN choice.match.doubted \ DOMAIN answers.fields ELSE {}
  IN  ReadWith(saved, file, answers, choice, reused,
               [p \in open |-> choice.match.doubted[p]],
               WithAnswers(file.columns, Joined(answers.fields, reused)),
               RecognizedByProfile(learning, saved, file.columns, choice, answers))

\* understand: the reading of a file, its decision and what is left to ask.
Understand(learning, saved, file, answers) ==
  ReadAs(learning, saved, file, answers,
         ChooseFamily(learning.families, file.columns))

\* Bug: an answer given on top of what was remembered is still the memory's.
ReuseFirst(file, answers, reading) ==
  LET repeats(p) == file.columns[p].field = answers.fields[p] /\ file.columns[p].level = "HIGH"
      classified == {file.columns[p].key : p \in {q \in DOMAIN answers.fields : ~repeats(q)}}
      origin     == IF reading.choice.memory # None THEN "REUSE"
                    ELSE IF classified # {} \/ answers.formats # {} THEN "ANSWERS" ELSE "ENGINE"
  IN  [origin |-> origin, answers |-> answers.formats, classified |-> classified,
       shape |-> ShapeOf(file.columns), family |-> FamilyOf(reading.choice)]

\* confirmation_from: only what the person answered counts, and not where it
\* repeats what the engine read clearly.
ConfirmationFrom(file, answers, reading) ==
  LET repeats(p) == file.columns[p].field = answers.fields[p] /\ file.columns[p].level = "HIGH"
      classified == {file.columns[p].key : p \in {q \in DOMAIN answers.fields : ~repeats(q)}}
      origin     == IF classified # {} \/ answers.formats # {} THEN "ANSWERS"
                    ELSE IF reading.reused # <<>> THEN "REUSE" ELSE "ENGINE"
  IN  [origin |-> origin, answers |-> answers.formats, classified |-> classified,
       shape |-> ShapeOf(file.columns), family |-> FamilyOf(reading.choice)]

\* _manual_confirmation: a matching built by hand is a whole decision.
ManualConfirmation(file, reading) ==
  [origin |-> "MANUAL", answers |-> {}, classified |-> {},
   shape |-> ShapeOf(file.columns), family |-> FamilyOf(reading.choice)]
================================================================================
