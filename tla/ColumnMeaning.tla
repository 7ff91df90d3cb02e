----------------------------- MODULE ColumnMeaning -----------------------------
(***************************************************************************)
(* What the columns of a table mean: each is compared with every field by    *)
(* its name and by its values, and the best readings are taken, each field    *)
(* once and each column once (app/modules/data_sources: semantics, proposal, *)
(* relations; document_understanding: stats, pii).                            *)
(*                                                                         *)
(* A column is [header, cells].  A header is [folded, words, short, readings, *)
(* like, excluded]: its folded text, word by word; the words that mean        *)
(* something; for each word cut by a point that is no known word, the known    *)
(* words it may begin and how many they are; the words of every way it may be *)
(* read; how alike its letters are to the names of each field; and the reason  *)
(* it is never read, or "".                                                 *)
(* A cell is [kind, n, key, shape]: EMPTY, TEXT (n is its length), NUMBER and  *)
(* HOURS, a number with its unit (n counts hundredths), DATE (n is a day); key *)
(* is its folded text and shape, when it was written as text, what its         *)
(* characters look like.  Scores, fits and fractions are percentages.         *)
(***************************************************************************)
EXTENDS Integers, Sequences, FiniteSets, Functions, SequencesExt

NoFit  == -1          \* the values say nothing about the field
NoRule == 0           \* the name matches no rule of the field
MinEvidence == 3
Whole == 100          \* the hundredths of a whole number

--------------------------------------------------------------------------------
(* column_stats: what the values of one column say about it *)

Percent(part, whole) == IF whole = 0 THEN 0 ELSE (100 * part) \div whole

ColumnStats(cells) ==
  LET filled  == {i \in DOMAIN cells : cells[i].kind # "EMPTY"}
      Of(kinds) == {i \in filled : cells[i].kind \in kinds}
      numbers == Of({"NUMBER", "HOURS"})
      texts   == Of({"TEXT"})
      values  == {cells[i].n : i \in numbers}
      Text(S) == {[key |-> cells[i].key, shape |-> cells[i].shape] : i \in S}
  IN  [n        |-> Cardinality(filled),
       enough   |-> Cardinality(filled) >= MinEvidence,
       numeric  |-> Cardinality(numbers),
       text     |-> Cardinality(texts),
       date     |-> Cardinality(Of({"DATE"})),
       distinct |-> Cardinality({[cells[i] EXCEPT !.shape = ""] : i \in filled}),
       minimum  |-> IF values = {} THEN 0 ELSE CHOOSE m \in values : \A k \in values : m <= k,
       maximum  |-> IF values = {} THEN 0 ELSE CHOOSE m \in values : \A k \in values : m >= k,
       integral |-> \A v \in values : v % Whole = 0,
       short    |-> MapThenSumSet(LAMBDA i : cells[i].n, texts) <= 25 * Cardinality(texts),
       hours    |-> Of({"HOURS"}) # {},
       texts    |-> Text(texts),
       strings  |-> Text({i \in filled : cells[i].shape # "" \/ i \in texts})]

Written(stats) == IF stats.strings # {} THEN stats.strings ELSE stats.texts

NumericFraction(stats) == Percent(stats.numeric, stats.n)
TextFraction(stats)    == Percent(stats.text, stats.n)
DistinctRatio(stats) == Percent(stats.distinct, stats.n)

Shaped(texts, shapes) == {t \in texts : t.shape \in shapes}
Fraction(texts, shape) == Percent(Cardinality(Shaped(texts, {shape})), Cardinality(texts))

\* looks_like_names: given names may come back on many rows, other pairs of capitals must
\* be nearly all different.
LooksLikeNames(stats) ==
  LET names == Shaped(stats.texts, {"given name", "capitals"})
      texts == Cardinality(stats.texts)
  IN  /\ stats.n >= 3 /\ texts >= 3 /\ TextFraction(stats) >= 80
      /\ Percent(Cardinality(names), texts) >= 80
      /\ \/ Fraction(names, "given name") >= 60
         \/ stats.n >= 5 /\ texts >= 4 /\ DistinctRatio(stats) >= 50

--------------------------------------------------------------------------------
(* detect_pii: is a column personal *)

\* Of each list, the words that the tables below use.
PersonWords == {"nome", "name", "cognome", "ospiti", "dipendente", "intestatario"}
NotAName == {"numero", "totale", "tariffa", "camera", "reparto", "fornitore", "canale", "documento",
             "fattura", "prenotazione", "turno", "mansione", "costo", "ore"}
IdWords  == {"id", "codice", "code", "matricola"}
SaysTaxCode(words) == "fiscale" \in words \/ ("tax" \in words /\ words \cap {"codice", "code", "id"} # {})

\* _phone_numbers: cells written as telephone numbers, whether or not they read as numbers.
PhoneNumbers(stats) ==
  LET written == Cardinality(stats.strings)
  IN  written >= 3 /\ Percent(written, stats.n) >= 80 /\ Fraction(stats.strings, "phone") >= 80

\* _classify: one reading of the header, with the values; the first sign decides.
\* "Ospiti: 2, 3, 2" is a count of guests.
Classify(words, stats) ==
  LET Says(kind, sign) == [kind |-> kind, sign |-> sign]
      person == words \cap PersonWords # {}
      named  == person /\ words \cap NotAName = {}
      text   == TextFraction(stats) >= 60
      signs  == <<Says("EMAIL", "email" \in words \/ Fraction(stats.texts, "email") >= 60),
                  Says("IBAN", "iban" \in words \/ Fraction(stats.texts, "iban") >= 60),
                  Says("TAX_CODE", SaysTaxCode(words) \/ Fraction(stats.texts, "tax code") >= 60),
                  Says("PHONE", "telefono" \in words \/ PhoneNumbers(stats)),
                  Says("EMPLOYEE_ID", "matricola" \in words \/ (person /\ words \cap IdWords # {})),
                  Says("PERSON_NAME", named /\ (stats.n = 0 \/ text)),
                  Says("", named),
                  Says("ADDRESS", "indirizzo" \in words /\ text),
                  Says("NOTE", "note" \in words /\ "credito" \notin words /\ text),
                  Says("PERSON_NAME", LooksLikeNames(stats)), Says("", TRUE)>>
  IN  signs[CHOOSE i \in DOMAIN signs : signs[i].sign /\ \A j \in 1 .. (i - 1) : ~signs[j].sign].kind

\* The first reading that says "personal" wins; the values speak last.
DetectPii(header, stats) ==
  LET found == [i \in DOMAIN header.readings |-> Classify(header.readings[i], stats)]
      says  == {i \in DOMAIN found : found[i] # ""}
  IN  IF says = {} THEN Classify({}, stats)
      ELSE found[CHOOSE i \in says : \A j \in says : i <= j]

--------------------------------------------------------------------------------
(* How well values fit a field: `fit` is [kind, limit, words] *)

FitLabel(stats) ==
  IF TextFraction(stats) < 80 THEN 0
  ELSE IF 100 * stats.distinct <= 70 * stats.n \/ stats.distinct <= 25 THEN 100 ELSE 60

FitIdentifier(stats) ==
  IF stats.n = 0 \/ 2 * stats.date > stats.n THEN 0
  ELSE IF DistinctRatio(stats) + 5 > 100 THEN 100 ELSE DistinctRatio(stats) + 5

\* _fit_document_number: different from row to row or short with digits in it, and no counter
\* of the rows.
WithDigits == {"digits", "vat number", "phone", "tax code", "iban"}

FitDocumentNumber(stats) ==
  LET shown    == Written(stats)
      numbered == shown = {} \/ Percent(Cardinality(Shaped(shown, WithDigits)), Cardinality(shown)) >= 80
      several  == stats.distinct >= 3 /\ Percent(stats.text + stats.numeric, stats.n) >= 95
      counter  == /\ stats.n > 0 /\ stats.numeric = stats.n /\ stats.integral
                  /\ stats.minimum <= Whole /\ stats.maximum <= Whole * (stats.n + 1)
  IN  IF counter THEN 10
      ELSE IF several /\ stats.short /\ numbered /\ stats.date = 0 /\ FitIdentifier(stats) < 90 THEN 90
      ELSE FitIdentifier(stats)

\* fit_money: hours are no amount, and only a register has amounts below zero.  (Percentages
\* are exact; the code's floats put 30 % of two thirds just below 20 %.)
FitMoney(stats, negative, part) ==
  IF stats.hours THEN 0
  ELSE IF stats.minimum < 0 /\ ~negative THEN Percent(3 * part * stats.numeric, 1000 * stats.n)
  ELSE Percent(part * stats.numeric, 100 * stats.n)

Places == {"Italia", "Francia", "Germania"}

\* How well the values fit: the kinds of `fit` are the functions of the meanings.
Fit(fit, stats) ==
  LET within == stats.minimum >= 0 /\ stats.maximum <= Whole * fit.limit
      rates  == stats.integral /\ stats.maximum <= Whole * fit.limit
      Known(words) == Percent(Cardinality({t \in stats.texts : t.key \in words}), Cardinality(stats.texts))
      Read(words)  == FitLabel(stats) > 0 /\ Known(words) >= 60
  IN  CASE fit.kind = "none" -> NoFit
        [] fit.kind = "date" -> Percent(stats.date, stats.n)
        [] fit.kind = "text" -> TextFraction(stats)
        [] fit.kind = "label" -> FitLabel(stats)
        [] fit.kind = "hours" -> IF within THEN NumericFraction(stats)
                                 ELSE Percent(stats.numeric, 5 * stats.n)
        [] fit.kind = "money" -> FitMoney(stats, FALSE, 100)
        [] fit.kind = "amount" -> FitMoney(stats, TRUE, 100)
        [] fit.kind = "tax" -> FitMoney(stats, FALSE, IF rates THEN 30 ELSE 100)
        [] fit.kind = "count" -> IF within /\ stats.integral /\ ~stats.hours THEN NumericFraction(stats) ELSE 0
        [] fit.kind = "percentage" -> IF within /\ ~stats.hours THEN NumericFraction(stats) ELSE 0
        [] fit.kind = "identifier" -> FitIdentifier(stats)
        [] fit.kind = "document number" -> FitDocumentNumber(stats)
        [] fit.kind = "code" -> IF DistinctRatio(stats) >= 90 \/ FitIdentifier(stats) < 25
                                THEN FitIdentifier(stats) ELSE 25
        [] fit.kind = "vat number" -> Fraction(Written(stats), "vat number")
        [] fit.kind = "supplier" -> IF LooksLikeNames(stats) THEN Percent(6 * stats.text, 10 * stats.n)
                                    ELSE TextFraction(stats)
        [] fit.kind = "currency" -> Known(fit.words)
        [] fit.kind = "words" -> IF Read(fit.words) THEN 100 ELSE (8 * FitLabel(stats)) \div 10
        [] fit.kind = "channel" -> IF Read(fit.words) THEN 100
                                   ELSE IF Read(Places) THEN 10 ELSE (8 * FitLabel(stats)) \div 10

--------------------------------------------------------------------------------
(* What a name says: a field is [exact, rate, rules, fit, valueOnly, veto], a rule [all, *)
(* none, weight]; the meaning of a kind of file is [fields, order, locked, never, context, *)
(* ambiguous, pairs, relations, limits]                                                  *)

\* _best_rule: a word of each group and none of the others; each word nobody explains
\* costs two, three at most.  The first of equal rules.
BestRule(words, rules, context) ==
  LET Holds(r) == words \cap r.none = {} /\ \A i \in DOMAIN r.all : words \cap r.all[i] # {}
      Extra(r) == Cardinality(words \ (UNION Range(r.all) \cup context))
      Score(r) == r.weight - (IF Extra(r) > 3 THEN 6 ELSE 2 * Extra(r))
      held     == {i \in DOMAIN rules : Holds(rules[i])}
      best     == CHOOSE i \in held : \A j \in held :
                    Score(rules[i]) > Score(rules[j])
                      \/ (Score(rules[i]) = Score(rules[j]) /\ i <= j)
  IN  IF held = {} THEN [score |-> 0, rule |-> NoRule]
      ELSE [score |-> Score(rules[best]), rule |-> best]

\* vocabulary: the fields a word speaks of, in a rule or in a name.
FieldsOfWord(sem, word) ==
  {f \in DOMAIN sem.fields :
     LET spec == sem.fields[f]
     IN  \/ \E i \in DOMAIN spec.rules : word \in UNION Range(spec.rules[i].all)
         \/ \E name \in spec.exact : word \in Range(name)
         \/ word = "perc" /\ spec.rate}

\* expand_abbreviations: a word cut by a point stands for the words it begins, three at most,
\* when all of them speak of one field.
ExpandAbbreviations(sem, header) ==
  UNION {cut.words : cut \in {c \in header.short :
           c.count \in 1 .. 3 /\ Cardinality(UNION {FieldsOfWord(sem, w) : w \in c.words}) = 1}}

\* name_candidates: every field the name could mean, and how.
NameCandidates(sem, header) ==
  LET words == header.words \cup ExpandAbbreviations(sem, header)
      Of(f) ==
        LET spec  == sem.fields[f]
            best  == BestRule(words, spec.rules, sem.context)
            rated == "perc" \in words => spec.rate
            Named(name, score, rule) == {[field |-> f, name |-> name, score |-> score, rule |-> rule]}
        IN  IF spec.veto \cap words # {} THEN {}
            ELSE IF rated /\ header.folded \in spec.exact THEN Named("EXACT", 100, best.rule)
            ELSE IF best.score > 0 THEN Named("TOKEN", best.score, best.rule)
            ELSE IF rated /\ header.like[f] >= 78 THEN Named("FUZZY", header.like[f], NoRule)
            ELSE {}
  IN  UNION {Of(f) : f \in DOMAIN sem.fields}

\* level_of: how sure this name and these values are.
SureOf(name, score, fit, stats) ==
  LET values == IF fit = NoFit THEN 75 ELSE fit
      HalfFits == IF values >= 50 THEN "MEDIUM" ELSE "LOW"
  IN  CASE name = "TOKEN" /\ score < 80 -> HalfFits
        [] name \in {"EXACT", "TOKEN"} /\ ~(name = "TOKEN" /\ score < 80) ->
             IF stats.enough /\ fit # NoFit /\ fit >= 85 THEN "HIGH"
             ELSE IF stats.enough /\ fit = NoFit /\ (name = "EXACT" \/ score >= 88) THEN "HIGH"
             ELSE HalfFits
        [] name = "FUZZY" ->
             IF score >= 88 /\ values >= 85 /\ stats.enough THEN "MEDIUM" ELSE "LOW"
        [] OTHER -> IF values >= 90 /\ stats.enough THEN "MEDIUM" ELSE "LOW"

--------------------------------------------------------------------------------
(* propose: from columns to a proposal *)

Rank == [level \in {"HIGH", "MEDIUM", "LOW"} |->
           CASE level = "HIGH" -> 3 [] level = "MEDIUM" -> 2 [] OTHER -> 1]

\* What is never read: a reason of its own, personal data the kind of file locks, or the
\* sign of a rule for columns that are never offered.
LockedReason(sem, column, stats) ==
  LET pii     == DetectPii(column.header, stats)
      Says(i) == \E k \in DOMAIN column.header.readings :
                   BestRule(column.header.readings[k], <<sem.never[i].rule>>, {}).score > 0
      says    == {i \in DOMAIN sem.never : Says(i)}
  IN  IF column.header.excluded # "" THEN column.header.excluded
      ELSE IF pii \in DOMAIN sem.locked THEN sem.locked[pii]
      ELSE IF says # {} THEN sem.never[CHOOSE i \in says : \A j \in says : i <= j].reason ELSE ""

SaysOneOf(group, header) == header.words \cap group.words # {} /\ header.words \cap group.veto = {}

\* Every column against every field; values that contradict a name end it, and a likeness
\* of letters never tells which hours or which cost a column is.
NamedReadings(sem, columns, stats, open) ==
  LET Of(p) ==
        LET header == columns[p].header
            unclear == \E i \in DOMAIN sem.ambiguous : SaysOneOf(sem.ambiguous[i], header)
            Read(c) == LET fit == Fit(sem.fields[c.field].fit, stats[p])
                       IN  [column |-> p, field |-> c.field, name |-> c.name, score |-> c.score,
                            rule |-> c.rule, fit |-> fit,
                            level |-> SureOf(c.name, c.score, fit, stats[p])]
        IN  {Read(c) : c \in {c \in NameCandidates(sem, header) : c.name = "FUZZY" => ~unclear}}
      Contradicted(r) == r.fit # NoFit /\ stats[r.column].enough /\ r.fit < 20
  IN  {r \in UNION {Of(p) : p \in open} : ~Contradicted(r)}

\* A field no name points at, read from the values of the one column that fits.
ValueReadings(sem, stats, open, named) ==
  LET Fits(f, p) == /\ stats[p].enough /\ Fit(sem.fields[f].fit, stats[p]) >= 90
                    /\ \A r \in named : r.column # p
      Alone(f)   == {p \in open : Fits(f, p)}
      unnamed    == {f \in DOMAIN sem.fields : /\ sem.fields[f].valueOnly
                                               /\ \A r \in named : r.field # f
                                               /\ Cardinality(Alone(f)) = 1}
      Read(f)    == LET p   == CHOOSE p \in Alone(f) : TRUE
                        fit == Fit(sem.fields[f].fit, stats[p])
                    IN  [column |-> p, field |-> f, name |-> "VALUES", score |-> 50,
                         rule |-> NoRule, fit |-> fit, level |-> SureOf("VALUES", 50, fit, stats[p])]
  IN  {Read(f) : f \in unnamed}

\* Take the best: by level, score, the order of the fields, then of the columns.
TakeBest(sem, readings, count) ==
  LET Spot(f) == CHOOSE i \in DOMAIN sem.order : sem.order[i] = f
      Key(r) == <<-Rank[r.level], -r.score, Spot(r.field), r.column>>
      Before(a, b) == \E k \in 1 .. 4 : Key(a)[k] < Key(b)[k] /\ \A j \in 1 .. (k - 1) : Key(a)[j] = Key(b)[j]
      TakeOne(taken, k) ==
        LET free == {r \in readings : \A i \in DOMAIN taken :
                       taken[i].field # r.field /\ taken[i].column # r.column}
        IN  IF free = {} THEN taken
            ELSE Append(taken, CHOOSE r \in free : \A o \in free \ {r} : Before(r, o))
  IN  FoldLeft(TakeOne, <<>>, [k \in 1 .. count |-> k])

\* _look_alike: the very same rule of the same field, and a fair proposal for it.
LookAlike(mine, other) ==
  /\ other.field = mine.field /\ other.rule = mine.rule
  /\ other.name \in {"EXACT", "TOKEN"} /\ other.level # "LOW"

\* _settle: all but one of the columns are, by their own words, another field that nobody
\* has; where each goes, or nothing when the contest is a real one.
Settle(members, field, named, taken) ==
  LET Others(p) == {r \in named : /\ r.column = p /\ r.field # field /\ r.field \notin taken
                                  /\ r.name \in {"EXACT", "TOKEN"} /\ r.score >= 85
                                  /\ r.level # "LOW"}
      Best(p)   == {r \in Others(p) : \A o \in Others(p) : o.score <= r.score}
      anchors   == {p \in members : Others(p) = {}}
      moved     == members \ anchors
      Place(p)  == CHOOSE r \in named : IF p \in anchors THEN r.column = p /\ r.field = field
                                        ELSE r \in Best(p)
  IN  IF /\ Cardinality(anchors) = 1
         /\ \A p \in moved : Cardinality(Best(p)) = 1
         /\ \A p, q \in moved : Place(p).field = Place(q).field => p = q
      THEN [p \in members |-> Place(p)] ELSE <<>>

\* 4b: a field that two columns claim in the same words is a choice, and not NINFA's.
\* `taken` keeps the field of a weak guess that a settled contest moved elsewhere.
Contests(sem, named, best, open) ==
  LET start == [chosen    |-> [p \in {best[i].column : i \in DOMAIN best} |->
                                 CHOOSE r \in Range(best) : r.column = p],
                contested |-> <<>>,
                taken     |-> {best[i].field : i \in DOMAIN best}]
      Judge(s, e) ==
        LET mine   == s.chosen[e.column]
            rivals == {p \in open \ {e.column} :
                         /\ p \in DOMAIN s.chosen => s.chosen[p].level = "LOW"
                         /\ \E r \in named : r.column = p /\ LookAlike(e, r)}
            members == {e.column} \cup rivals
            placed == Settle(members, e.field, named, s.taken)
        IN  IF e.rule = NoRule \/ mine.field # e.field \/ rivals = {} THEN s
            ELSE IF placed # <<>>
            THEN [s EXCEPT !.chosen = placed @@ @,
                           !.taken = @ \cup {placed[p].field : p \in members}]
            ELSE [s EXCEPT !.contested = [p \in members |-> e.field] @@ @]
      judged == FoldLeft(Judge, start, best)
      open4  == DOMAIN judged.chosen \cap DOMAIN judged.contested
  IN  [judged EXCEPT !.chosen = [p \in DOMAIN @ \ open4 |-> @[p]],
                     !.taken = @ \ {judged.chosen[p].field : p \in open4}]

\* stay_dates: the second day is after the first, by a stay, on nearly every row.
StayDates(first, second) ==
  LET rows  == {i \in DOMAIN first \cap DOMAIN second :
                  first[i].kind = "DATE" /\ second[i].kind = "DATE"}
      later == {i \in rows : second[i].n - first[i].n \in 1 .. 90}
  IN  Cardinality(rows) >= 3 /\ Percent(Cardinality(later), Cardinality(rows)) >= 95

\* 5, 5b: two columns that confirm each other, by their names or by their values, are sure.
Partners(sem, columns, stats, chosen) ==
  LET At(f)     == {p \in DOMAIN chosen : chosen[p].field = f}
      Sure(p)   == stats[p].enough /\ chosen[p].fit >= 90
      Called(f, word) == {p \in At(f) : columns[p].header.folded = word}
      Stands(p) == chosen[p].name \in {"EXACT", "TOKEN"} /\ chosen[p].level # "LOW"
      named     == UNION {Called(sem.pairs[i].first, sem.pairs[i].a)
                            \X Called(sem.pairs[i].second, sem.pairs[i].b) : i \in DOMAIN sem.pairs}
      related   == {pq \in UNION {At(r.first) \X At(r.second) : r \in sem.relations} :
                      /\ Stands(pq[1]) /\ Stands(pq[2])
                      /\ StayDates(columns[pq[1]].cells, columns[pq[2]].cells)}
  IN  UNION {{pq[1], pq[2]} : pq \in {pq \in named \cup related : Sure(pq[1]) /\ Sure(pq[2])}}

\* 5c: a value no person could have is not trusted where the file lists people.
Confirm(sem, columns, stats, locked, chosen) ==
  LET certain    == Partners(sem, columns, stats, chosen)
      TooMuch(p) == /\ "PERSON" \in Range(locked) /\ chosen[p].field \in DOMAIN sem.limits
                    /\ stats[p].maximum > Whole * sem.limits[chosen[p].field]
      Level(p)   == IF TooMuch(p) THEN "LOW" ELSE IF p \in certain THEN "HIGH" ELSE chosen[p].level
  IN  [p \in DOMAIN chosen |-> [chosen[p] EXCEPT !.level = Level(p)]]

\* _ambiguous: "hours" or "an amount" that does not say which, and what it may still be.
AskWhich(sem, header, stats, taken) ==
  LET Free(g) == g.candidates \ taken
      asks    == {i \in DOMAIN sem.ambiguous :
                    LET g == sem.ambiguous[i]
                    IN  /\ SaysOneOf(g, header) /\ Free(g) # {}
                        /\ stats.enough /\ Fit(g.fit, stats) >= 90}
  IN  IF asks = {} THEN {}
      ELSE Free(sem.ambiguous[CHOOSE i \in asks : \A j \in asks : i <= j])

\* propose: what each column is left as - a field, a reason it is not read, a choice between
\* columns (CONTESTED) or between fields (AMBIGUOUS), or nothing.
Propose(sem, columns) ==
  LET all     == DOMAIN columns
      stats   == [p \in all |-> ColumnStats(columns[p].cells)]
      reasons == [p \in all |-> LockedReason(sem, columns[p], stats[p])]
      open    == {p \in all : reasons[p] = ""}
      locked  == [p \in all \ open |-> reasons[p]]
      named   == NamedReadings(sem, columns, stats, open)
      byValue == ValueReadings(sem, stats, open, named)
      best    == TakeBest(sem, named \cup byValue, Cardinality(open))
      settled == Contests(sem, named, best, open)
      chosen  == Confirm(sem, columns, stats, locked, settled.chosen)
      Asked(p) == AskWhich(sem, columns[p].header, stats[p], settled.taken)
      Is(as, fields, level) == [as |-> as, fields |-> fields, level |-> level]
  IN  [p \in all |->
         IF p \notin open THEN Is(locked[p], {}, "")
         ELSE IF p \in DOMAIN chosen THEN Is("FIELD", {chosen[p].field}, chosen[p].level)
         ELSE IF p \in DOMAIN settled.contested THEN Is("CONTESTED", {settled.contested[p]}, "")
         ELSE IF Asked(p) # {} THEN Is("AMBIGUOUS", Asked(p), "") ELSE Is("NOTHING", {}, "")]

--------------------------------------------------------------------------------
(***************************************************************************)
(* What the columns of a staff file, a bookings file and a cost register may *)
(* mean (app/modules/data_sources: semantics_labor, semantics_bookings,      *)
(* semantics_costs).                                                        *)
(*                                                                         *)
(* In the rules of a kind of file one word stands for every word, of either  *)
(* language and without its ending, that none of them tells apart; in the     *)
(* names of a field one name stands for every name of the same words; words   *)
(* that one word stands for count once among those nobody explains.          *)
(* Weights are percentages.                                                *)
(***************************************************************************)
Rule(all, none, weight) == [all |-> all, none |-> none, weight |-> weight]

\* `at` is the limit, or the words, of its values.
FieldSem(exact, rules, kind) ==
  [exact |-> exact, rules |-> rules, veto |-> {}, rate |-> FALSE, valueOnly |-> FALSE,
   fit |-> [kind |-> kind, limit |-> 0, words |-> {}]]
Limited(field, limit) == [field EXCEPT !.fit.limit = limit]
Worded(field, words)  == [field EXCEPT !.fit.words = words]
ByValues(field)       == [field EXCEPT !.valueOnly = TRUE]
Vetoed(field, words)  == [field EXCEPT !.veto = words]
Rated(field)          == [field EXCEPT !.rate = TRUE]

\* A column that is clearly hours, a cost or an amount and does not say which.
AmbiguousColumn(words, veto, candidates, kind, limit) ==
  [words |-> words, veto |-> veto, candidates |-> candidates,
   fit |-> [kind |-> kind, limit |-> limit, words |-> {}]]

GuestData == ("PERSON_NAME" :> "PERSON") @@ ("EMAIL" :> "CONTACT") @@ ("PHONE" :> "CONTACT")
               @@ ("TAX_CODE" :> "IDENTITY") @@ ("IBAN" :> "IDENTITY")

--------------------------------------------------------------------------------
(* A staff file: no person and no hourly rate is ever read *)

HoursWords == {"ore", "ora", "hours"}
Planned == {"previste", "prev"}        \* scheduled, budget, rostered
Actual  == {"effettive", "eff"}        \* worked, clocked, reported
PerHour == {"ore", "orario", "hourly", "rate"}
NotALabel == {"ore", "costo", "data", "totale"}
OtherHours == {"straordinario"}        \* overtime, breaks, leave, contract

LaborFields ==
  [work_date |-> ByValues(FieldSem(
     {<<"data">>, <<"giorno">>, <<"data", "lavorativa">>, <<"data", "lavoro">>,
      <<"data", "presenza">>, <<"data", "servizio">>, <<"data", "turno">>, <<"shift", "date">>,
      <<"work", "date">>},
     <<Rule(<<{"data", "giorno"}>>, {"nascita"}, 90)>>, "date")),
   role |-> Worded(FieldSem(
     {<<"categoria">>, <<"mansione">>, <<"position">>, <<"reparto">>, <<"role">>,
      <<"area", "operativa">>, <<"categoria", "personale">>, <<"job", "role">>, <<"job", "title">>},
     <<Rule(<<{"reparto", "servizio"}>>, NotALabel, 95), Rule(<<{"mansione"}>>, NotALabel, 88),
       Rule(<<{"centro", "unita", "struttura"}, {"operativo", "operating", "lavoro"}>>, {}, 85),
       Rule(<<{"operating"}, {"unita"}>>, {}, 85), Rule(<<{"centro"}, {"lavoro"}>>, {}, 85)>>,
     "words"), {"Reception", "Cucina", "Piani"}),
   planned_hours |-> Limited(FieldSem(
     {<<"ore", "previste">>, <<"ore", "turno">>, <<"planned", "hours">>, <<"shift", "hours">>},
     <<Rule(<<HoursWords, Planned>>, {"costo"}, 93), Rule(<<{"prev"}>>, {"costo"}, 70)>>, "hours"), 168),
   actual_hours |-> Limited(FieldSem(
     {<<"actual", "hours">>, <<"ore", "effettive">>},
     <<Rule(<<HoursWords, Actual>>, {"costo"}, 93), Rule(<<{"eff"}>>, {"costo"}, 70)>>, "hours"), 168),
   planned_cost |-> FieldSem(
     {<<"costo", "previsto">>, <<"costo", "turno">>},
     <<Rule(<<{"costo"}, Planned>>, PerHour, 93)>>, "money"),
   actual_cost |-> FieldSem(
     {<<"costo", "effettivo">>},
     <<Rule(<<{"costo"}, Actual>>, PerHour, 93)>>, "money"),
   labor_category |-> Worded(FieldSem(
     {<<"labor", "category">>}, <<>>, "words"), {"KITCHEN", "FRONT_OFFICE"}),
   currency |-> Worded(FieldSem(
     {<<"valuta">>}, <<Rule(<<{"valuta"}>>, {}, 90)>>, "currency"), {"EUR", "USD"})]

LABOR ==
  [fields    |-> LaborFields,
   order     |-> <<"work_date", "role", "labor_category", "planned_hours", "actual_hours",
                   "planned_cost", "actual_cost", "currency">>,
   locked    |-> GuestData,
   never     |-> <<[reason |-> "HOURLY_RATE",
                    rule |-> Rule(<<{"costo", "tariffa", "paga", "rate"},
                                    {"orari", "ora", "hourly"}>>, {}, 90)]>>,
   context   |-> {},
   ambiguous |-> <<AmbiguousColumn(HoursWords, Planned \cup Actual \cup OtherHours
                                     \cup {"costo", "orario", "tariffa"},
                                   {"planned_hours", "actual_hours"}, "hours", 168),
                   AmbiguousColumn({"costo"}, Planned \cup Actual \cup {"orario", "tariffa", "ore"},
                                   {"planned_cost", "actual_cost"}, "money", 0)>>,
   pairs     |-> <<[first |-> "planned_hours", a |-> <<"prev">>, second |-> "actual_hours", b |-> <<"eff">>]>>,
   relations |-> {},
   limits    |-> [planned_hours |-> 24, actual_hours |-> 24]]

--------------------------------------------------------------------------------
(* A bookings file: an arrival, a departure, a channel, what was paid; no guest *)

OtherDates == {"arrivo", "partenza", "check", "cancellazione", "cancellato"}
Group == {"gruppo"}                    \* a group is a set of bookings, not one
Stay  == {"soggiorno", "stay"}
DayWords == {"data", "date"}
BookingWords == {"prenotazione", "reservation", "pren"}
RoomWords == {"camera", "room", "rooms", "cam"}
TypeWords == {"tipo"}

BookingStayFields ==
  [source_record_id |-> FieldSem(
     {<<"id">>, <<"riferimento">>, <<"codice", "prenotazione">>, <<"confirmation", "code">>,
      <<"confirmation", "number">>, <<"id", "prenotazione">>, <<"numero", "prenotazione">>,
      <<"reservation", "code">>, <<"reservation", "id">>, <<"reservation", "number">>,
      <<"riferimento", "prenotazione">>, <<"source", "record", "id">>},
     <<Rule(<<BookingWords \cup {"conferma", "pratica"},
              {"codice", "cod", "code", "id", "numero", "riferimento"}>>, Group, 90),
       Rule(<<{"res", "reservation"}, {"numero", "id", "codice"}>>, {}, 85),
       Rule(<<{"pratica", "pratiche"}>>, {}, 85), Rule(<<{"locator"}>>, {}, 88),
       Rule(<<{"ref", "riferimento"}>>, {}, 85), Rule(<<{"codice", "cod", "code"}>>, Group, 70)>>,
     "code"),
   booked_at |-> FieldSem(
     {<<"booked", "at">>, <<"booked", "on">>, <<"booking", "created">>, <<"booking", "date">>,
      <<"created", "at">>, <<"created", "on">>, <<"creation", "date">>, <<"data", "creazione">>,
      <<"data", "prenotazione">>, <<"date", "booked">>, <<"prenotato", "il">>,
      <<"reservation", "date">>},
     <<Rule(<<DayWords, BookingWords \cup {"registrazione"}>>, OtherDates, 90),
       Rule(<<{"creato", "prenotato", "inserita"}>>, {"cancellato"}, 80),
       Rule(<<{"creato", "prenotato"}, DayWords \cup {"on"}>>, {"cancellato", "arrivo", "partenza"}, 86)>>,
     "date"),
   check_in |-> ByValues(FieldSem(
     {<<"arrivo">>, <<"checkin">>, <<"arrival", "date">>, <<"check", "in">>, <<"data", "arrivo">>,
      <<"data", "checkin">>, <<"data", "check", "in">>},
     <<Rule(<<{"arrivo", "checkin", "entrata"}>>, {"partenza", "out", "uscita"}, 93),
       Rule(<<{"check"}, {"in"}>>, {"out"}, 93), Rule(<<{"ci"}>>, {"co"}, 75),
       Rule(<<{"inizio", "start"}, Stay>>, {}, 85), Rule(<<{"start", "begin"}, DayWords>>, {}, 80),
       Rule(<<Stay, {"dal"}>>, {}, 85), Rule(<<{"dal"}>>, {}, 70)>>, "date")),
   check_out |-> FieldSem(
     {<<"checkout">>, <<"partenza">>, <<"check", "out">>, <<"data", "checkout">>,
      <<"data", "partenza">>, <<"departure", "date">>, <<"data", "check", "out">>},
     <<Rule(<<{"partenza", "checkout", "uscita"}>>, {"arrivo", "in", "entrata"}, 93),
       Rule(<<{"check"}, {"out"}>>, {}, 93), Rule(<<{"co"}>>, {"ci"}, 75),
       Rule(<<{"fine", "end"}, Stay>>, {}, 85), Rule(<<{"end"}, DayWords>>, {}, 80),
       Rule(<<Stay, {"al", "fino"}>>, {}, 85), Rule(<<{"al"}>>, {}, 70)>>, "date"),
   status |-> Worded(FieldSem(
     {<<"stato">>, <<"reservation", "status">>, <<"stato", "prenotazione">>}, <<Rule(<<{"stato"}>>, {"pagamento"}, 90)>>, "words"),
     {"confermata", "cancellata"}),
   rooms |-> Limited(FieldSem(
     {<<"camere">>, <<"rooms">>, <<"n", "rooms">>, <<"numero", "camere">>, <<"room", "count">>},
     <<Rule(<<RoomWords \cup {"stanze"}, {"numero", "quantita", "prenotato", "totale"}>>, TypeWords, 90),
       Rule(<<{"camera", "rooms", "stanze"}>>, TypeWords, 90)>>, "count"), 100)]

Amounts == {"importo", "revenue", "prezzo", "amount", "ricavo", "totale"}

BookingSaleFields ==
  [room_revenue |-> FieldSem(
     {<<"accommodation">>, <<"revenue">>, <<"importo", "camera">>, <<"importo", "pernottamento">>,
      <<"importo", "soggiorno">>, <<"prezzo", "camera">>, <<"ricavo", "camera">>,
      <<"room", "amount">>, <<"room", "price">>, <<"room", "revenue">>, <<"room", "total">>,
      <<"totale", "camera">>, <<"totale", "soggiorno">>},
     <<Rule(<<Amounts \cup {"fatturato"}, RoomWords \cup {"soggiorno", "alloggio", "accommodation"}>>,
            {"commissione"}, 90)>>, "money"),
   channel |-> Worded(FieldSem(
     {<<"canale">>, <<"source">>, <<"booking", "channel">>, <<"booking", "source">>,
      <<"distribution", "channel">>, <<"canale", "di", "vendita">>},
     <<Rule(<<{"canale", "source"}>>, {"data", "codice", "id", "numero"}, 90),
       Rule(<<{"tramite"}, {"prenotato", "venduto", "prenotazione"}>>, {}, 88)>>, "channel"),
     {"Booking.com", "Diretto"}),
   guests |-> Limited(FieldSem(
     {<<"ospiti">>, <<"numero", "ospiti">>},
     <<Rule(<<{"ospiti"}>>, {"nome", "name", "cognome"}, 90)>>, "count"), 60),
   total_revenue |-> FieldSem(
     {<<"totale">>, <<"importo", "totale">>, <<"prezzo", "totale">>, <<"total", "amount">>,
      <<"total", "price">>, <<"total", "revenue">>, <<"totale", "generale">>,
      <<"totale", "prenotazione">>},
     <<Rule(<<{"totale", "importo", "revenue"}, {"prenotazione", "generale", "soggiorno"}>>,
            {"camera", "room"}, 88)>>, "money"),
   commission_amount |-> FieldSem(
     {<<"commissione">>, <<"commissions">>, <<"commission", "amount">>, <<"importo", "commissione">>},
     <<Rule(<<{"commissione", "provvigione"}>>, {"perc", "rate", "netto"}, 90)>>, "money"),
   commission_rate |-> Rated(Limited(FieldSem(
     {<<"commission", "pct">>, <<"commission", "percent">>, <<"commission", "percentage">>,
      <<"commission", "rate">>, <<"perc", "commissione">>},
     <<Rule(<<{"commissione"}, {"perc", "percent", "rate"}>>, {}, 90)>>, "percentage"), 100)),
   cancelled_at |-> FieldSem(
     {<<"annullato", "il">>, <<"cancellation", "date">>, <<"cancellato", "il">>,
      <<"cancelled", "at">>, <<"cancelled", "on">>, <<"data", "cancellazione">>,
      <<"date", "cancelled">>},
     <<Rule(<<{"cancellazione", "annullato", "cancellato"}, DayWords \cup {"on"}>>, {}, 90)>>, "date"),
   room_type |-> FieldSem(
     {<<"camera">>, <<"tipologia">>, <<"accommodation", "type">>, <<"room", "category">>,
      <<"room", "name">>, <<"room", "type">>, <<"tipo", "camera">>},
     <<Rule(<<TypeWords, {"camera", "room"}>>, {}, 90)>>, "label"),
   rate_plan |-> FieldSem(
     {<<"rate">>, <<"tariffa">>, <<"codice", "tariffa">>, <<"nome", "tariffa">>,
      <<"piano", "tariffario">>, <<"rate", "code">>, <<"rate", "name">>, <<"rate", "plan">>},
     <<Rule(<<{"tariffa", "rate"}>>, {"commissione"}, 85)>>, "text")]

BOOKINGS ==
  [fields    |-> BookingStayFields @@ BookingSaleFields,
   order     |-> <<"source_record_id", "booked_at", "check_in", "check_out", "status", "rooms",
                   "room_revenue", "channel", "guests", "total_revenue", "commission_amount",
                   "commission_rate", "cancelled_at", "room_type", "rate_plan">>,
   locked    |-> GuestData,
   never     |-> <<>>,
   context   |-> {"prenotazione", "reservation", "bookings"},
   ambiguous |-> <<AmbiguousColumn(Amounts \cup {"price"},
                                   {"camera", "room", "rooms", "soggiorno", "commissione", "prenotazione"},
                                   {"room_revenue", "total_revenue"}, "money", 0)>>,
   pairs     |-> <<[first |-> "check_in", a |-> <<"dal">>, second |-> "check_out", b |-> <<"al">>]>>,
   relations |-> {[first |-> "check_in", second |-> "check_out"]},
   limits    |-> <<>>]

--------------------------------------------------------------------------------
(* A cost register: which of its amounts is the net is never guessed *)

NotANumberOfTheDocument == {"iva", "imposta", "vat", "tax", "lordo", "inclusa", "aliquota"}
Payroll   == {"busta"}
Documents == {"fattura", "invoice", "documento", "doc", "inv"}
Invoices  == {"fattura", "invoice", "documento"}
OtherDays == {"scadenza", "pagamento"}
Numbered  == {"numero", "riferimento"}
Vat       == {"iva", "vat", "tax"}

CostDocumentFields ==
  [supplier_name |-> FieldSem(
     {<<"cedente">>, <<"denominazione">>, <<"fornitore">>, <<"supplier">>,
      <<"denominazione", "fornitore">>, <<"nome", "fornitore">>, <<"ragione", "sociale">>,
      <<"supplier", "name">>, <<"vendor", "name">>, <<"ragione", "sociale", "fornitore">>},
     <<Rule(<<{"fornitore", "cedente", "supplier"}>>, {}, 93), Rule(<<{"billed"}>>, {}, 88),
       Rule(<<{"ragione"}, {"sociale", "fornitore"}>>, {}, 90),
       Rule(<<{"intestatario"}>>, {}, 80), Rule(<<{"chi"}>>, {}, 75)>>, "supplier"),
   supplier_vat_number |-> FieldSem(
     {<<"piva">>, <<"vat">>, <<"p", "iva">>, <<"partita", "iva">>, <<"vat", "id">>,
      <<"vat", "number">>, <<"p", "iva", "fornitore">>, <<"partita", "iva", "fornitore">>,
      <<"supplier", "vat", "number">>},
     <<Rule(<<{"partita", "piva", "vat"}, {"iva", "fornitore", "numero", "id"}>>, {}, 90),
       Rule(<<{"piva"}>>, {}, 93), Rule(<<{"vat"}, {"numero", "id"}>>, {}, 90)>>, "vat number"),
   supplier_tax_code |-> FieldSem(
     {<<"c", "f">>, <<"cf", "fornitore">>, <<"codice", "fiscale">>, <<"tax", "code">>,
      <<"codice", "fiscale", "fornitore">>, <<"supplier", "tax", "code">>},
     <<Rule(<<{"codice"}, {"fiscale"}>>, {}, 90)>>, "identifier"),
   invoice_number |-> FieldSem(
     {<<"documento">>, <<"invoice">>, <<"protocollo">>, <<"invoice", "number">>,
      <<"numero", "doc">>, <<"numero", "documento">>, <<"numero", "fattura">>},
     <<Rule(<<Documents, Numbered \cup {"id"}>>, {}, 93), Rule(<<Numbered, Documents>>, {}, 93),
       Rule(<<{"protocollo"}>>, {}, 80),
       Rule(<<{"numero"}>>, {"riga", "line", "prot", "protocollo"}, 80),
       Rule(<<{"doc", "documento"}>>, {"tipo", "data"}, 80)>>, "document number"),
   invoice_date |-> ByValues(FieldSem(
     {<<"data">>, <<"data", "doc">>, <<"data", "documento">>, <<"data", "emissione">>,
      <<"data", "fattura">>, <<"documento", "del">>, <<"emessa", "il">>, <<"fattura", "del">>,
      <<"invoice", "date">>, <<"invoice", "dated">>},
     <<Rule(<<{"data", "dt"}, Documents \cup {"emissione"}>>, OtherDays, 93),
       Rule(<<{"data", "dt"}, {"registrazione"}>>, OtherDays, 85),
       Rule(<<{"data"}>>, OtherDays, 75)>>, "date")),
   due_date |-> FieldSem(
     {<<"scadenza">>, <<"data", "pagamento">>, <<"data", "scadenza">>, <<"scadenza", "pagamento">>,
      <<"payment", "due", "date">>},
     <<Rule(<<{"scadenza"}>>, {}, 93), Rule(<<{"pagabile"}, {"entro"}>>, {}, 90)>>, "date"),
   document_type |-> FieldSem(
     {<<"td">>, <<"document", "type">>, <<"tipo", "doc">>, <<"tipo", "documento">>,
      <<"tipo", "fattura">>},
     <<Rule(<<{"tipo", "causale"}, {"documento", "doc", "fattura"}>>, {}, 93)>>, "label"),
   currency |-> FieldSem(
     {<<"valuta">>}, <<Rule(<<{"valuta"}>>, {}, 90)>>, "label")]

CostLineFields ==
  [line_description |-> FieldSem(
     {<<"articolo">>, <<"causale">>, <<"descrizione">>, <<"voce">>, <<"descrizione", "riga">>,
      <<"descrizione", "voce">>, <<"line", "description">>},
     <<Rule(<<{"descrizione", "causale"}>>, {}, 93),
       Rule(<<{"testo"}, {"fattura", "invoice", "line", "riga"}>>, {}, 88),
       Rule(<<{"voce", "articolo"}>>, {"costo"}, 80), Rule(<<{"cosa"}>>, {}, 75)>>, "text"),
   quantity |-> FieldSem(
     {<<"qta">>, <<"quantita">>},
     <<Rule(<<{"quantita", "qta"}>>, {}, 93)>>, "money"),
   unit_price |-> FieldSem(
     {<<"prezzo">>, <<"price">>, <<"importo", "unitario">>, <<"prezzo", "unitario">>,
      <<"unit", "price">>},
     <<Rule(<<{"prezzo", "price"}, {"unitario"}>>, {}, 93)>>, "money"),
   vat_rate |-> Rated(Limited(FieldSem(
     {<<"aliquota">>, <<"iva">>, <<"aliquota", "iva">>, <<"tax", "rate">>, <<"vat", "rate">>},
     <<Rule(<<{"aliquota", "rate"}, {"iva", "vat"}>>, {}, 93), Rule(<<{"aliquota"}>>, {}, 88)>>,
     "percentage"), 100)),
   cost_category |-> Vetoed(Worded(FieldSem(
     {<<"categoria">>, <<"conto">>, <<"categoria", "costo">>, <<"tipo", "costo">>,
      <<"centro", "di", "costo">>, <<"voce", "di", "costo">>},
     <<Rule(<<{"categoria"}>>, {"documento", "fiscale"}, 93),
       Rule(<<{"tipo", "natura", "type"}, {"costo", "expense"}>>, {}, 90),
       Rule(<<{"conto", "voce"}, {"costo"}>>, {}, 85)>>, "words"), {"FOOD", "UTILITIES"}), {"centro", "cdc"}),
   line_total |-> Vetoed(FieldSem(
     {<<"netto">>, <<"importo", "netto">>, <<"importo", "riga">>, <<"line", "total">>,
      <<"net", "amount">>, <<"prezzo", "totale">>, <<"totale", "netto">>, <<"totale", "riga">>,
      <<"totale", "netto", "riga">>},
     <<Rule(<<{"esclusa", "senza"}, Vat>>, {"con", "inclusa", "lordo"}, 93),
       Rule(<<{"netto", "taxable"}>>, Invoices \cup NotANumberOfTheDocument, 93),
       Rule(<<{"importo", "amount", "valore", "costo", "prezzo", "totale"}>>,
            NotANumberOfTheDocument \cup {"unitario", "quantita"}, 70)>>, "amount"), Payroll),
   invoice_net_amount |-> Vetoed(FieldSem(
     {<<"netto", "documento">>, <<"document", "net", "total">>, <<"invoice", "net", "amount">>},
     <<Rule(<<{"netto"}, Invoices>>, {}, 90)>>, "amount"), Payroll),
   invoice_tax_amount |-> Vetoed(Limited(FieldSem(
     {<<"imposta">>, <<"iva">>, <<"importo", "imposta">>, <<"importo", "iva">>, <<"tax", "amount">>,
      <<"totale", "iva">>, <<"vat", "amount">>, <<"invoice", "tax", "amount">>},
     <<Rule(<<Vat \cup {"imposta"}>>, {"aliquota", "rate", "perc", "percentuale", "esclusa"}, 92)>>,
     "tax"), 30), Payroll),
   invoice_gross_amount |-> Vetoed(FieldSem(
     {<<"lordo">>, <<"gross", "amount">>, <<"importo", "lordo">>, <<"totale", "documento">>,
      <<"totale", "fattura">>, <<"totale", "lordo">>, <<"invoice", "gross", "amount">>,
      <<"total", "with", "vat">>, <<"totale", "con", "iva">>, <<"totale", "iva", "inclusa">>},
     <<Rule(<<{"lordo"}>>, {}, 93), Rule(<<{"totale"}, Invoices>>, {"netto"}, 88),
       Rule(<<Vat, {"inclusa", "included", "con"}>>, {}, 93),
       Rule(<<{"totale"}>>, {"netto", "riga", "iva"}, 72)>>, "amount"), Payroll)]

COSTS ==
  [fields    |-> CostDocumentFields @@ CostLineFields,
   order     |-> <<"supplier_name", "supplier_vat_number", "supplier_tax_code", "invoice_number",
                   "invoice_date", "due_date", "document_type", "currency", "invoice_net_amount",
                   "invoice_tax_amount", "invoice_gross_amount", "line_description", "quantity",
                   "unit_price", "line_total", "vat_rate", "cost_category">>,
   locked    |-> ("TAX_CODE" :> "IDENTITY") @@ ("IBAN" :> "IDENTITY"),
   never     |-> <<>>, context |-> {}, ambiguous |-> <<>>, pairs |-> <<>>, relations |-> {},
   limits    |-> <<>>]
================================================================================
