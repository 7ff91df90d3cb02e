-------------------------- MODULE MCSourceLearning ---------------------------
(***************************************************************************)
(* SourceLearning over the staff files of a hotel that need a day and hours, *)
(* planned or actual.                                                        *)
(***************************************************************************)
EXTENDS SourceLearning, ColumnMeaning

CONSTANTS day, hours, planned, actual, area, fd, fp, fa

Column(key, kind, field, level, maybe, fits) ==
  [key |-> key, kind |-> kind, personal |-> FALSE, field |-> field, level |-> level,
   maybe |-> maybe, fits |-> fits]

Day     == Column(day, "DATE", fd, "HIGH", {}, {fd})
Hours   == Column(hours, "NUMBER", None, None, {fp, fa}, {fp, fa})      \* "Ore": of which kind?
Foreseen == Column(planned, "NUMBER", fp, "MEDIUM", {}, {fp, fa})       \* "Ore prog."
Changed == Column(hours, "NUMBER", fa, "HIGH", {}, {fp, fa})           \* "Ore", now clearly actual
Doubted == Column(actual, "NUMBER", fa, "LOW", {}, {fp, fa})           \* "Ore effettive" of a month
Note    == Column(area, "TEXT", None, None, {}, {fp, fa, fd})

File(columns, unproven) == [columns |-> columns, unproven |-> unproven]

MCFiles ==
  {File(<<Day, Hours>>, FALSE),
   File(<<Day, Hours, Note>>, TRUE),
   File(<<Day, Foreseen>>, FALSE),
   File(<<Day, Changed>>, FALSE),
   File(<<Day, Doubted, Hours>>, FALSE)}

\* By hand a person may say what the engine would not.
MCByHand(file) ==
  IF Hours = file.columns[2] THEN {(1 :> fd) @@ (2 :> fp)} ELSE {}

MCGroups == {{fd}, {fp, fa}}

MCCanonical == [fields |-> (fd :> day) @@ (fa :> hours), formats |-> {}]

--------------------------------------------------------------------------------
(***************************************************************************)
(* What the proposal of a table's columns promises, over every table of up   *)
(* to three columns of a pool for each kind of file.                         *)
(***************************************************************************)

Cell(kind, n, key, shape) == [kind |-> kind, n |-> n, key |-> key, shape |-> shape]
Days(ns)      == [i \in DOMAIN ns |-> Cell("DATE", ns[i], "", "")]
Numbers(ns)   == [i \in DOMAIN ns |-> Cell("NUMBER", Whole * ns[i], "", "")]
Texts(keys, shape) == [i \in DOMAIN keys |-> Cell("TEXT", 6, keys[i], shape)]

\* A column read in one way only: what it is called, word by word, and what the words are.
Header(folded, words) ==
  [folded |-> folded, words |-> words, short |-> {}, readings |-> <<words>>,
   like |-> [f \in DOMAIN LaborFields \cup DOMAIN BOOKINGS.fields \cup DOMAIN COSTS.fields |-> 0],
   excluded |-> ""]
Called(folded, words, cells) == [cells |-> cells, header |-> Header(folded, words)]
\* Nearly the name of a field, a word cut short, and a column that is left out whatever it says.
Like(field, score, column) == [column EXCEPT !.header.like[field] = score]
Cut(words, count, column)  == [column EXCEPT !.header.short = {[words |-> words, count |-> count]}]
Never(reason, column)      == [column EXCEPT !.header.excluded = reason]

Shifts == Numbers(<<8, 6, 8>>)
Month  == Numbers(<<40, 38, 40>>)
Money  == Numbers(<<120, 90, 240>>)
Arrivals  == Days(<<1, 2, 3>>)
Departures   == Days(<<2, 4, 5>>)
People == Texts(<<"Rossi", "Verdi", "Bruni">>, "given name")
Rates  == Numbers(<<12, 12, 14>>)
Guests == Numbers(<<2, 1, 2>>)
Repeated == Numbers(<<5, 5, 5>>)
Counter  == Numbers(<<1, 2, 3>>)
Percents == Numbers(<<22, 10, 22>>)
Kept == Texts(<<"FOOD", "UTILITIES", "FOOD">>, "")
Proper == {Shifts, Arrivals, Departures}

StaffPool ==
  <<Called(<<"data">>, {"data"}, Arrivals),
   Called(<<"giorno", "1">>, {}, Arrivals),
   Called(<<"reparto">>, {"reparto"}, Texts(<<"Cucina", "Piani", "Cucina">>, "")),
   Called(<<"ore", "previste">>, {"ore", "previste"}, Shifts),
   Called(<<"ore", "previste", "rev">>, {"ore", "previste", "rev"}, Shifts),
   Called(<<"ore", "prev", "mese">>, {"ore", "prev", "mese"}, Month),
   Called(<<"prev">>, {"prev"}, Shifts), Called(<<"eff">>, {"eff"}, Shifts),
   Called(<<"eff">>, {"eff"}, Month),
   Called(<<"ore">>, {"ore"}, Shifts),
   Called(<<"costo">>, {"costo"}, Money),
   Called(<<"costo", "previsto">>, {"costo", "previste"}, Money),
   Never("HOURLY_RATE", Called(<<"costo", "orario">>, {"costo", "orario"}, Rates)),
   Called(<<"costo", "ora">>, {"costo", "ora"}, Rates),
   Called(<<"dipendente">>, {"dipendente"}, People)>>

StayPool ==
  <<Called(<<"dal">>, {"dal"}, Arrivals), Called(<<"al">>, {"al"}, Departures),
   Called(<<"ci">>, {"ci"}, Arrivals), Called(<<"co">>, {"co"}, Departures),
   Called(<<"co">>, {"co"}, Days(<<1, 1, 1>>)),
   Called(<<"arrivo">>, {"arrivo"}, Arrivals),
   Called(<<"codice", "prenotazione">>, {"codice", "prenotazione"}, Numbers(<<71, 72, 73>>)),
   Called(<<"riferimento">>, {"riferimento"}, Repeated),
   Called(<<"importo">>, {"importo"}, Money),
   Called(<<"importo", "camera">>, {"importo", "camera"}, Money),
   Called(<<"totale", "prenotazione">>, {"totale", "prenotazione"}, Money),
   Called(<<"importo", "camera", "netto">>, {"importo", "camera", "netto"}, Money),
   Like("total_revenue", 93, Called(<<"importo", "total">>, {"importo", "total"}, Money)),
   Called(<<"ospiti">>, {"ospiti"}, Guests),
   Called(<<"ospiti">>, {"ospiti"}, People),
   Like("guests", 92, Called(<<"ospit">>, {"ospit"}, Guests)),
   Called(<<"commissione", "perc">>, {"commissione", "perc"}, Numbers(<<15, 18, 15>>))>>

CostPool ==
  <<Called(<<"fornitore">>, {"fornitore"}, Texts(<<"Acme", "Brio", "Acme">>, "")),
   Called(<<"numero", "fattura">>, {"numero", "fattura"}, Texts(<<"A7", "A7", "B1">>, "digits")),
   Called(<<"numero">>, {"numero"}, Counter),
   Called(<<"data">>, {"data"}, Arrivals),
   Called(<<"data", "registrazione">>, {"data", "registrazione"}, Arrivals),
   Cut({"descrizione"}, 2, Called(<<"descr">>, {"descr"}, Kept)),
   Cut({"netto", "imposta", "importo"}, 3, Called(<<"impo">>, {"impo"}, Money)),
   Called(<<"importo", "netto">>, {"importo", "netto"}, Money),
   Called(<<"netto", "rettificato">>, {"netto", "rettificato"}, Money),
   Called(<<"importo">>, {"importo"}, Money), Called(<<"totale">>, {"totale"}, Money),
   Called(<<"iva">>, {"iva"}, Percents), Called(<<"iva">>, {"iva"}, Money),
   Called(<<"netto", "in", "busta">>, {"netto", "busta"}, Money),
   Called(<<"centro", "di", "costo">>, {"centro", "costo"}, Kept)>>

Pools == <<[sem |-> LABOR, pool |-> StaffPool], [sem |-> BOOKINGS, pool |-> StayPool],
           [sem |-> COSTS, pool |-> CostPool]>>
Kinds == DOMAIN Pools

\* A table is of a kind of file and names its columns by their places in the pool: up to three,
\* no two called the same.
ColumnAt(k, i) == Pools[k].pool[i]
Tables ==
  LET Spots(k) == DOMAIN Pools[k].pool
      Of(k)     == {<<i>> : i \in Spots(k)} \cup (Spots(k) \X Spots(k))
                     \cup (Spots(k) \X Spots(k) \X Spots(k))
      Name(k, i) == ColumnAt(k, i).header.folded
  IN  UNION {{[kind |-> k, columns |-> t] :
                t \in {t \in Of(k) : \A i, j \in DOMAIN t : i = j \/ Name(k, t[i]) # Name(k, t[j])}} :
               k \in DOMAIN Pools}

TableRead(t) == Propose(Pools[t.kind].sem, [i \in DOMAIN t.columns |-> ColumnAt(t.kind, t.columns[i])])
Pairs == {t \in Tables : Len(t.columns) = 2}

\* A field is read from one column, and is never also a choice about another one.
ASSUME EachFieldOnce ==
  \A t \in Tables :
    LET read == TableRead(t)
    IN  \A p, q \in DOMAIN t.columns :
          p # q /\ read[p].as = "FIELD" => read[p].fields \cap read[q].fields = {}

\* Personal columns and hourly rates are left out, and leaving one out changes no other reading,
\* except that hours nobody could work are then asked about ("more than 24 per person").
ASSUME LockedColumnsStandApart ==
  \A t \in Pairs :
    LET alone == TableRead([t EXCEPT !.columns = <<@[1]>>])[1]
        with  == TableRead(t)
        cells == ColumnAt(t.kind, t.columns[1]).cells
        month == \E i \in DOMAIN cells : cells[i].n > 24 * Whole
    IN  with[2].as \in {"PERSON", "HOURLY_RATE"} =>
          with[1] = IF /\ with[2].as = "PERSON" /\ month /\ alone.as = "FIELD"
                       /\ alone.fields \subseteq DOMAIN Pools[t.kind].sem.limits
                    THEN [alone EXCEPT !.level = "LOW"] ELSE alone

\* The order of the columns may decide whether something is asked, never which field is read.
ASSUME OrderNeverChangesAField ==
  \A t \in {t \in Tables : t.columns[1] < t.columns[Len(t.columns)]} :
    LET one == TableRead(t)
        two == TableRead([t EXCEPT !.columns = Reverse(@)])
    IN  \A p \in DOMAIN t.columns :
          one[p].as = "FIELD" /\ two[Len(t.columns) + 1 - p].as = "FIELD"
            => one[p] = two[Len(t.columns) + 1 - p]

\* Two columns that say one field by the same rule are a choice and not NINFA's ("an original
\* and an adjusted amount"), unless one of them is, by its own words, something else.
ASSUME ContestsAreNeverDecided ==
  \A t \in Pairs :
    LET columns == [i \in 1 .. 2 |-> ColumnAt(t.kind, t.columns[i])]
        sem     == Pools[t.kind].sem
        stats   == [i \in 1 .. 2 |-> ColumnStats(columns[i].cells)]
        named   == NamedReadings(sem, columns, stats, {i \in 1 .. 2 : LockedReason(sem, columns[i], stats[i]) = ""})
        read    == TableRead(t)
        Only(i) == {r \in named : r.column = i}
    IN  \A r \in Only(1), s \in Only(2) :
          /\ r.field = s.field /\ r.rule = s.rule /\ r.rule # NoRule
          /\ r.level # "LOW" /\ s.level # "LOW"
          /\ Cardinality(Only(1)) = 1 /\ Cardinality(Only(2)) = 1
          => \A i \in 1 .. 2 : read[i] = [as |-> "CONTESTED", fields |-> {r.field}, level |-> ""]

\* A column alone is only sure with a word for its field and values that prove it; a partner
\* column can make it sure, and nothing but a person's limit makes it less so.
ASSUME OthersOnlyConfirm ==
  \A t \in Pairs :
    LET alone == TableRead([t EXCEPT !.columns = <<@[1]>>])[1]
        with  == TableRead(t)
    IN  /\ alone.level = "HIGH" => ColumnAt(t.kind, t.columns[1]).header.words # {}
        /\ with[1].as = "FIELD" /\ with[1].fields = alone.fields /\ with[2].as # "PERSON"
             => Rank[with[1].level] >= Rank[alone.level]

\* Columns that are only a maybe alone and sure next to their partner.
ASSUME PartnersAreSure ==
  LET Pair(k, a, b) == CHOOSE t \in Pairs : /\ t.kind = k /\ ColumnAt(k, t.columns[1]).header.folded = a
                                            /\ ColumnAt(k, t.columns[2]).header.folded = b
                                            /\ \A i \in 1 .. 2 : ColumnAt(k, t.columns[i]).cells \in Proper
      Sure(t) == \A i \in 1 .. 2 : TableRead(t)[i].level = "HIGH"
      Maybe(t) == \A i \in 1 .. 2 : TableRead([t EXCEPT !.columns = <<@[i]>>])[1].level = "MEDIUM"
  IN  \A t \in {Pair(1, <<"prev">>, <<"eff">>), Pair(2, <<"dal">>, <<"al">>), Pair(2, <<"ci">>, <<"co">>)} :
        Maybe(t) /\ Sure(t)

\* What the comments of the meanings promise of single columns and of pairs: people and rates are
\* left out, a count of guests is no person, a counter of rows no invoice number, a rate of VAT no
\* tax, a payslip no amount, a cost centre no category; a word cut short is read when it can only
\* mean one field; and what does not say which is asked, not guessed.
ASSUME ExamplesOfTheMeanings ==
  LET Place(k, name, cells) == CHOOSE i \in DOMAIN Pools[k].pool :
        ColumnAt(k, i).header.folded = name /\ ColumnAt(k, i).cells = cells
      Alone(k, name, cells) == TableRead([kind |-> k, columns |-> <<Place(k, name, cells)>>])[1]
      Both(k, a, b, cells) == TableRead([kind |-> k, columns |-> <<Place(k, a, cells), Place(k, b, cells)>>])
      Field(f, level) == [as |-> "FIELD", fields |-> {f}, level |-> level]
      Choice(fs) == [as |-> "AMBIGUOUS", fields |-> fs, level |-> ""]
  IN  /\ Alone(1, <<"dipendente">>, People).as = "PERSON"
      /\ \A name \in {<<"costo", "orario">>, <<"costo", "ora">>} :
           Alone(1, name, Rates).as = "HOURLY_RATE"
      /\ Alone(1, <<"ore">>, Shifts) = Choice({"planned_hours", "actual_hours"})
      /\ Both(1, <<"ore">>, <<"ore", "previste">>, Shifts)[1] = Choice({"actual_hours"})
      /\ Alone(2, <<"ospiti">>, Guests) = Field("guests", "HIGH")
      /\ Alone(2, <<"ospiti">>, People).as = "PERSON"
      /\ Alone(2, <<"ospit">>, Guests) = Field("guests", "MEDIUM")
      /\ Alone(2, <<"importo">>, Money) = Choice({"room_revenue", "total_revenue"})
      /\ Alone(2, <<"importo", "total">>, Money) = Choice({"room_revenue", "total_revenue"})
      /\ Both(2, <<"totale", "prenotazione">>, <<"importo", "camera">>, Money)
           = <<Field("total_revenue", "HIGH"), Field("room_revenue", "HIGH")>>
      /\ Alone(2, <<"riferimento">>, Repeated) = Field("source_record_id", "LOW")
      /\ Alone(3, <<"numero">>, Counter).as = "NOTHING"
      /\ Alone(3, <<"netto", "in", "busta">>, Money).as = "NOTHING"
      /\ Alone(3, <<"centro", "di", "costo">>, Kept).as = "NOTHING"
      /\ Alone(3, <<"descr">>, Kept) = Field("line_description", "HIGH")
      /\ Alone(3, <<"impo">>, Money).as = "NOTHING"
      /\ Alone(3, <<"iva">>, Percents) = Field("vat_rate", "HIGH")
      /\ Alone(3, <<"iva">>, Money) = Field("invoice_tax_amount", "HIGH")
      /\ Alone(3, <<"importo">>, Money) = Field("line_total", "MEDIUM")
================================================================================
