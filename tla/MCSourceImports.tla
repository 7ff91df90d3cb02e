-------------------------- MODULE MCSourceImports --------------------------
(***************************************************************************)
(* Two hotels of one workspace, two imports: bookings of one hotel that    *)
(* overlap, some in a word that must have been taught, labor of one date,  *)
(* invoices of both hotels whose suppliers share a name or a VAT number.   *)
(* After the instance, the checks of the modules that read the rows of the *)
(* files.                                                                  *)
(***************************************************************************)
EXTENDS SourceImports, TLC

CONSTANTS h1, h2, v1, n1, n2

MCSimilar == {<<n, n>> : n \in {n1, n2}}

MCRow(id, content) == [id |-> id, content |-> content, valid |-> TRUE, words |-> {}]
MCBad(id) == [id |-> id, content |-> 0, valid |-> FALSE, words |-> {}]

\* A status of the hotel's own, and what a person taught about it.
MCStatus == <<"status_mapping", "Option">>
MCLabel == [word |-> MCStatus, meaning |-> "TENTATIVE"]
MCWorded(id, content) == [MCRow(id, content) EXCEPT !.words = {MCStatus}]
MCInvoice(id, name, vat) ==
  [id |-> id, content |-> 1, valid |-> TRUE, words |-> {},
   supplier |-> [name |-> name, vat |-> vat, tax |-> None, ibans |-> {}]]

MCFile(format, layout, rows) ==
  [format |-> format, layout |-> layout, ambiguous |-> FALSE, rows |-> rows]

MCWeb(property, domain, mode, file, save) ==
  [via |-> "web", property |-> property, domain |-> domain, mode |-> mode,
   file |-> file, save |-> save, labels |-> {}, day |-> 1, source |-> 0]
MCCli(property, domain, s, file) ==
  [via |-> "cli", property |-> property, domain |-> domain, mode |-> "CANONICAL",
   file |-> file, save |-> FALSE, labels |-> {}, day |-> 1, source |-> s]
MCTeaching(request) == [request EXCEPT !.labels = {MCLabel}]

MCByHand == {<<h1, "BOOKINGS">>}

MCRequest ==
  { MCWeb(h1, "BOOKINGS", "CANONICAL", MCFile("csv", "ninfa", <<MCRow(1, 1)>>), FALSE),
    MCTeaching(MCWeb(h1, "BOOKINGS", "MAPPED",
                     MCFile("csv", "own", <<MCRow(1, 2), MCWorded(2, 1)>>), TRUE)),
    MCWeb(h1, "BOOKINGS", "MAPPED", MCFile("csv", "own", <<MCWorded(2, 1)>>), TRUE),
    MCWeb(h1, "BOOKINGS", "SAVED", MCFile("csv", "own", <<MCRow(1, 1), MCBad(3)>>), FALSE),
    MCCli(h1, "BOOKINGS", 1, MCFile("csv", "ninfa", <<MCRow(1, 1)>>)),
    MCWeb(h1, "COSTS", "CANONICAL", MCFile("xml", None, <<MCInvoice(1, n1, v1)>>), FALSE),
    MCWeb(h2, "COSTS", "CANONICAL", MCFile("xml", None, <<MCInvoice(1, n2, v1)>>), FALSE),
    MCWeb(h2, "COSTS", "CANONICAL", MCFile("xml", None, <<MCInvoice(2, n1, None)>>), FALSE),
    MCWeb(h1, "LABOR", "MAPPED", MCFile("csv", "own", <<MCRow(1, 2)>>), FALSE) }

-----------------------------------------------------------------------------
(***************************************************************************)
(* What the reading of a file of bookings, invoices or staff hours must    *)
(* never do, over small files.  Reading keeps nothing, so there is no      *)
(* behaviour to explore: each assumption compares two readings, or one     *)
(* with its definition.                                                    *)
(***************************************************************************)

(***************************************************************************)
(* What the reading of a booking file must never do, over small worlds: a    *)
(* clock that changes once, dates of a year of three months, amounts written *)
(* with and without marks, files of a few lines.  Reading keeps nothing, so  *)
(* each assumption compares two readings, or a reading with its definition.  *)
(***************************************************************************)
B == INSTANCE BookingRows WITH
       DayLength <- 4, AnyDay <- -1, NoMark <- "", MonthsOfYear <- 3, DaysOfMonth <- 5,
       MaxText <- 3, MaxId <- 2, MaxInt <- 50, MaxMoney <- 2000

--------------------------------------------------------------------------------
(* Dates *)

Clocks == {[at |-> 9, before |-> b, after |-> a] : b \in {0, 1}, a \in -5 .. 6}

\* A wall time is read as the one instant that shows it; a time the clock skips and a time
\* it shows twice are refused, and told apart.  ("without ever choosing between two
\* readings", normalization.py `_as_utc`.)
ASSUME InstantIsNeverChosen ==
  \A z \in Clocks, w \in 0 .. 24 :
    LET shown == {i \in -8 .. 40 : B!WallClock(i, z) = w}
        read  == B!AsUtc(w, z)
    IN  /\ read.ok <=> Cardinality(shown) = 1
        /\ read.ok => read.value \in shown
        /\ ~read.ok => read.code = IF shown = {} THEN "NONEXISTENT_LOCAL_TIME"
                                                 ELSE "AMBIGUOUS_LOCAL_TIME"

\* The day of the year, as a column writes it.
InParts(day, order) ==
  LET m == day \div 5 + 1
      d == (day % 5) + 1
  IN  [kind |-> "parts", weekday |-> -1, first |-> IF order = "DMY" THEN d ELSE m,
       second |-> IF order = "DMY" THEN m ELSE d]

DatesOf(order) == [columns |-> <<>>, patterns |-> [f \in {"check_in"} |-> order]]

\* What a column proves about the order of its dates is the order they were written in,
\* and a column that proves nothing reads both ways, to the last line: the question put to
\* the hotel is a real one.
ASSUME OrderIsProvenOrOpen ==
  \A order \in {"DMY", "MDY"} : \A days \in SUBSET {0, 1, 6, 9, 12, 13} :
    LET column == {InParts(day, order) : day \in days}
        proven == B!DetectDateOrder(column)
        ReadAs(o) == [day \in days |-> B!ParseDate("check_in", InParts(day, order), DatesOf(o),
                                                   [at |-> 0, before |-> 0, after |-> 0])]
    IN  days # {} =>
          /\ proven \in {order, "AMBIGUOUS"}
          /\ \A day \in days : ReadAs(order)[day] = B!Read(day)
          /\ proven = "AMBIGUOUS" => \A o \in {"DMY", "MDY"} : \A day \in days : ReadAs(o)[day].ok
          /\ B!NeedsDateFormat("check_in", column, [patterns |-> <<>>])

--------------------------------------------------------------------------------
(* Amounts *)

Group(value, size) == [value |-> value, size |-> size]
Digits(groups, marks) == [kind |-> "digits", negative |-> FALSE, groups |-> groups, marks |-> marks]

Amounts ==
  {Digits(<<Group(1, 1)>>, <<>>)}
    \cup {Digits(<<Group(1, 1), g>>, <<mark>>)
            : g \in {Group(0, 2), Group(5, 1), Group(50, 2), Group(0, 3), Group(234, 3)},
              mark \in {".", ","}}
    \cup {Digits(<<Group(1, 1), Group(0, 3), g>>, <<a, b>>)
            : g \in {Group(50, 2), Group(0, 3)}, a \in {".", ","}, b \in {".", ","}}

Marked(decimal, thousands) == [columns |-> <<>>, decimal |-> decimal, thousands |-> thousands]
Plain == Marked("", "")
Configured == {Marked(".", ""), Marked(",", ""), Marked(".", ","), Marked(",", "."),
               Marked("", ","), Marked("", ".")}

\* One point and three digits after it, which end in no cent: 1.000 is a thousand or one.
OneOrAThousand(cell) ==
  cell.marks = <<".">> /\ cell.groups[2].size = 3 /\ cell.groups[2].value % 10 = 0

\* A mapping that says nothing of its marks reads no amount that another would read
\* otherwise: the hotel is asked first.  OneOrAThousand is what the question misses.
\* ("as configured; never guess", parse_decimal_string, and needs_number_format.)
ASSUME PlainAmountsMeanOneThing ==
  \A cell \in Amounts, m \in Configured :
    LET plain == B!ParseAmount("room_revenue", cell, Plain)
        other == B!ParseAmount("room_revenue", cell, m)
    IN  (other.ok /\ ~B!NeedsNumberFormat({cell}, Plain)) =>
          \/ plain = other
          \/ plain = B!Problem("AMOUNT_PRECISION")
          \/ OneOrAThousand(cell)

\* An amount is its digits, whatever marks group them: with both marks configured each
\* amount is read as it was written, or refused, never as another one.
ASSUME GroupsDoNotCount ==
  \A decimal \in {".", ","}, whole \in {1, 12, 1234}, cents \in {0, 5, 50} :
    LET thousands == IF decimal = "." THEN "," ELSE "."
        m == Marked(decimal, thousands)
        fraction == Group(cents, 2)
        grouped  == IF whole < 1000
                    THEN Digits(<<Group(whole, 2), fraction>>, <<decimal>>)
                    ELSE Digits(<<Group(whole \div 1000, 1), Group(whole % 1000, 3), fraction>>,
                                <<thousands, decimal>>)
        single   == Digits(<<Group(whole, 4), fraction>>, <<decimal>>)
    IN  /\ B!ParseAmount("room_revenue", grouped, m) = B!Read(100 * whole + cents)
        /\ B!ParseAmount("room_revenue", single, m) = B!Read(100 * whole + cents)
        /\ ~B!ParseAmount("room_revenue", grouped, Marked(thousands, decimal)).ok

--------------------------------------------------------------------------------
(* Files *)

Text(key, label) == [kind |-> "text", key |-> key, label |-> label, length |-> 1]
Long == [kind |-> "text", key |-> "long", label |-> "long", length |-> 9]
Blank == [kind |-> "blank"]
Day(d) == [kind |-> "wall", at |-> d * 4, form |-> "iso", weekday |-> -1]
Count(n) == [kind |-> "number", n |-> n, scale |-> 0]

Titles == <<"Id", "Booked", "In", "Out", "State", "Rooms", "Revenue", "Channel">>
Titled == <<"source_record_id", "booked_at", "check_in", "check_out", "status", "rooms",
            "room_revenue", "channel">>

Mapping ==
  [columns |-> [f \in {Titled[i] : i \in 1 .. 8} |-> Titles[CHOOSE i \in 1 .. 8 : Titled[i] = f]],
   constants |-> <<>>, patterns |-> <<>>, decimal |-> "", thousands |-> "",
   statuses |-> [k \in {"ok"} |-> "CONFIRMED"],
   channels |-> [k \in {"bdc", "booking com"} |->
                   IF k = "bdc" THEN [name |-> "booking com", type |-> ""]
                                   ELSE [name |-> "", type |-> "OTA"]]]

Line(id, in, out, revenue, channel) ==
  <<id, Day(0), Day(in), Day(out), Text("ok", "OK"), Count(1), revenue, channel>>

Good(id) == Line(Text(id, id), 2, 3, Count(10), Text("bdc", "BDC"))

Lines == {Good("a"), Good("b"), Line(Text("a", "a"), 3, 2, Count(10), Text("expedia", "Expedia")),
          Line(Blank, 2, 3, Count(10), Text("expedia", "Expedia")),
          Line(Long, 2, 3, Count(-1), Text("walk", "Walk"))}

NoChange == [at |-> 0, before |-> 0, after |-> 0]
Judged(headers, lines) == B!Judge(Mapping, [headers |-> headers, rows |-> lines], NoChange)

\* The lines of a file are judged together, not in turn: the first of two lines about one
\* record is refused like the second, whatever else is wrong with either, and the order of
\* the file says nothing.  ("reject both, no 'last one
\* wins'", service.py `_validate`.)
ASSUME OrderOfLinesIsNothing ==
  \A lines \in [1 .. 3 -> Lines] :
    LET judged  == Judged(Titles, lines)
        turned  == Judged(Titles, [n \in 1 .. 3 |-> lines[4 - n]])
        Id(n)   == lines[n][1]
        Dup(n)  == <<"source_record_id", "DUPLICATE_SOURCE_ID">> \in judged.lines[n].issues
    IN  /\ \A n \in 1 .. 3 : judged.lines[n] = turned.lines[4 - n]
        /\ judged.code = turned.code
        /\ \A n \in 1 .. 3 : Dup(n) <=> /\ Id(n).kind = "text" /\ Id(n) # Long
                                        /\ \E m \in 1 .. 3 \ {n} : Id(m) = Id(n)

\* A column nobody mapped changes nothing, wherever it stands and whatever it holds: not
\* even dates and amounts that mean two things.  ("Only mapped columns are ever
\* read into NINFA", mapping.py.)
ASSUME OtherColumnsAreNotRead ==
  \A lines \in [1 .. 2 -> Lines], place \in 1 .. 9,
     extra \in {InParts(0, "DMY"), Digits(<<Group(1, 1), Group(5, 1)>>, <<",">>), Text("x", "X")} :
    LET Wider(line, cell) == [i \in 1 .. 9 |-> IF i = place THEN cell
                                               ELSE IF i < place THEN line[i] ELSE line[i - 1]]
    IN  Judged(Wider(Titles, "Note"), [n \in 1 .. 2 |-> Wider(lines[n], extra)])
          = Judged(Titles, lines)

\* Two spellings of a channel make one booking: a file that writes the name its own way is
\* not a change of every stay of that channel.  The fingerprint decides what is rewritten.
ASSUME SpellingIsNotAChange ==
  \A in \in 1 .. 2, revenue \in {10, 20} :
    LET Booked(channel) ==
          Judged(Titles, <<Line(Text("a", "a"), in, 3, Count(revenue), channel)>>).lines[1].booking
    IN  /\ B!Fingerprint(Booked(Text("bdc", "BDC"))) = B!Fingerprint(Booked(Text("booking com", "Booking.com")))
        /\ B!Fingerprint(Booked(Text("bdc", "BDC"))) # B!Fingerprint(Booked(Text("expedia", "Expedia")))

\* The constants of a mapping that can be saved never refuse a line of their own.
ASSUME SavedConstantsAlwaysRead ==
  \A rooms \in {Count(0), Count(2), Count(60), Text("two", "two")},
     status \in {Text("ok", "OK"), Text("who", "Who")}, channel \in {Text("", "-"), Text("bdc", "BDC")} :
    LET m == [Mapping EXCEPT
                !.columns = [f \in DOMAIN Mapping.columns \ B!ConstantFields |-> Mapping.columns[f]],
                !.constants = [f \in B!ConstantFields |->
                                 CASE f = "rooms" -> rooms [] f = "status" -> status
                                   [] f = "channel" -> channel]]
    IN  B!ValidMapping(m) =>
          B!Judge(m, [headers |-> Titles, rows |-> <<Good("a")>>], NoChange).code = "READY"

--------------------------------------------------------------------------------
(* Suggestions: two columns, two fields *)

\* No column is suggested twice, a known name is never given away to a likeness, and while
\* no two likenesses are equal the order of the columns says nothing.
ASSUME SuggestionsAreOnePerColumn ==
  \A score \in [{"Data", "Arrivo"} \X {"check_in", "booked_at"} -> {0, 70, 80, 90, 100}] :
    LET Found(headers) == B!SuggestFields(headers, <<"booked_at", "check_in">>, score, 70)
        found == Found(<<"Data", "Arrivo">>)
        Equal == \E c, d \in DOMAIN score : c # d /\ score[c] = score[d]
    IN  /\ \A c, d \in found : c # d => c[1] # d[1] /\ c[2] # d[2]
        /\ \A c \in DOMAIN score \ found :
             score[c] = 100 => \E d \in found : (d[1] = c[1] \/ d[2] = c[2]) /\ score[d] = 100
        /\ ~Equal => Found(<<"Arrivo", "Data">>) = found

--------------------------------------------------------------------------------
(***************************************************************************)
(* What the reading of an invoice file must never do, over small files: up   *)
(* to three lines of two invoices, written with amounts of three decimals.   *)
(***************************************************************************)
I == INSTANCE InvoiceDocuments WITH
       DayLength <- 4, AnyDay <- -1, NoMark <- "", MonthsOfYear <- 3, DaysOfMonth <- 5,
       MaxText <- 3, MaxId <- 2, MaxInt <- 50, MaxMoney <- 2000,
       MaxDecimals <- 3, NoAmount <- -99999, NoDate <- -1, MaxAmount <- 500,
       Currencies <- {"EUR", "USD"}

--------------------------------------------------------------------------------
(* Signs *)

Heads == {"invoice_net_amount", "invoice_tax_amount", "invoice_gross_amount"}
Nothing == -99999

HeadOf(kind, gross, net) ==
  [supplier |-> [name |-> "acme", vat |-> "", tax |-> "", ibans |-> {}], number |-> "1", date |-> 2,
   kind |-> kind, currency |-> "EUR", issues |-> {}, long |-> {},
   amount |-> [f \in Heads |-> CASE f = "invoice_gross_amount" -> gross
                                 [] f = "invoice_net_amount" -> net [] OTHER -> Nothing]]

Item(line, total) ==
  [line |-> line, text |-> "x", unit |-> "", category |-> "", issues |-> {},
   amount |-> [f \in I!InvoiceAmounts |-> IF f = "line_total" THEN total ELSE Nothing]]

Turned(amount) == IF amount = Nothing THEN Nothing ELSE -amount

\* A credit note lowers the costs, whether its source writes it with positive or with
\* negative amounts: both are one document, to the half cent.  An invoice keeps its signs.
\* ("no double negation", canonical.py.)
ASSUME CreditNotesAreNegativeOnce ==
  \A gross, net \in {Nothing, -20, 0, 25}, first, second \in {-15, 0, 15, 20} :
    LET Of(kind, g, n, a, b) == I!Canonicalize(HeadOf(kind, g, n), <<Item(1, a), Item(2, b)>>)
        credit  == Of("CREDIT_NOTE", gross, net, first, second)
        against == Of("CREDIT_NOTE", Turned(gross), Turned(net), -first, -second)
        stated  == IF gross \notin {Nothing, 0} THEN gross
                   ELSE IF net \notin {Nothing, 0} THEN net ELSE first + second
    IN  /\ stated # 0 => credit = against
        /\ gross \notin {Nothing, 0} => credit.gross < 0
        /\ (gross \in {Nothing, 0} /\ net \notin {Nothing, 0}) => credit.net < 0
        /\ LET total == Of("INVOICE", gross, net, first, second).lines[1].total
           IN  10 * total - first \in (IF first < 0 THEN -5 .. 4 ELSE -4 .. 5)

--------------------------------------------------------------------------------
(* Lines *)

Known(key) == [kind |-> "text", key |-> key, label |-> key, length |-> 1]
Spelled(key, label) == [Known(key) EXCEPT !.label = label]
Money(n) == [kind |-> "number", n |-> n, scale |-> 2, key |-> "", label |-> "", length |-> 1]
DayCell(d) == [kind |-> "wall", at |-> d * 4, form |-> "iso", weekday |-> -1, key |-> "", label |-> "", length |-> 1]
Nil == I!NoCell

ColumnOrder == <<"supplier_name", "supplier_vat_number", "invoice_number", "invoice_date",
                 "document_type", "currency", "invoice_gross_amount", "line_number",
                 "line_description", "line_total">>
Columns == {ColumnOrder[i] : i \in DOMAIN ColumnOrder}

InvoiceMapping ==
  [columns |-> [c \in Columns |-> c], constants |-> <<>>, patterns |-> <<>>, decimal |-> "",
   thousands |-> "", words |-> <<>>, categories |-> {"ENERGY"}]

Entry(vat, number, type, currency, gross, line, total) ==
  [c \in Columns |->
     CASE c = "supplier_name" -> Known("acme") [] c = "supplier_vat_number" -> vat
       [] c = "invoice_number" -> number [] c = "invoice_date" -> DayCell(2)
       [] c = "document_type" -> type [] c = "currency" -> currency
       [] c = "invoice_gross_amount" -> gross [] c = "line_number" -> Money(100 * line)
       [] c = "line_description" -> Known("gas") [] c = "line_total" -> Money(total)]

Plainly(line, total) == Entry(Known("it1"), Known("1"), Nil, Nil, Nil, line, total)

Entries ==
  {Plainly(1, 100), Plainly(2, 50),
   [Plainly(2, 30) EXCEPT !["currency"] = Known("USD")],
   [Plainly(2, 30) EXCEPT !["invoice_gross_amount"] = Money(150)],
   [Plainly(3, 30) EXCEPT !["invoice_gross_amount"] = Money(160)],
   [Plainly(2, 50) EXCEPT !["invoice_number"] = Spelled("1", "1 ")],
   [Plainly(1, 70) EXCEPT !["document_type"] = Known("td04")],
   [Plainly(1, 40) EXCEPT !["supplier_vat_number"] = Nil],
   [Plainly(3, 40) EXCEPT !["line_description"] = Nil],
   [Plainly(3, 40) EXCEPT !["invoice_number"] = Nil]}

InvoiceFile(entries) ==
  [headers |-> ColumnOrder,
   rows |-> [n \in DOMAIN entries |-> [i \in DOMAIN ColumnOrder |-> entries[n][ColumnOrder[i]]]]]
JudgedInvoices(entries) == I!JudgeInvoices(InvoiceMapping, InvoiceFile(entries), "EUR")

Prints(judged) ==
  {I!DocumentFingerprint(judged.documents[d].document[1], "s")
     : d \in {e \in DOMAIN judged.documents : judged.documents[e].valid}}

Files == UNION {[1 .. n -> Entries] : n \in 1 .. 3}
Backwards(seq) == [n \in DOMAIN seq |-> seq[Len(seq) + 1 - n]]

\* Two lines that tell an invoice differently make it invalid, in whatever order they come:
\* no line is believed over another, and nothing of the file is imported.  ("there is no
\* 'last row wins'", structured.py.)
ASSUME LinesAgreeOrNothingIsRead ==
  \A entries \in Files :
    LET judged == JudgedInvoices(entries)
        turned == JudgedInvoices(Backwards(entries))
        Differ(a, b, c) == entries[a][c] # Nil /\ entries[b][c] # Nil /\ entries[a][c] # entries[b][c]
        Same(a, b) == \A c \in {"supplier_vat_number", "invoice_number", "document_type"} :
                        entries[a][c].key = entries[b][c].key
    IN  /\ Prints(judged) = Prints(turned) /\ judged.code = turned.code
        /\ (\E a, b \in DOMAIN entries :
              Same(a, b) /\ (Differ(a, b, "invoice_gross_amount") \/ Differ(a, b, "invoice_number")
                               \/ (entries[a]["currency"] # entries[b]["currency"])
                               \/ (a # b /\ entries[a]["line_number"] = entries[b]["line_number"])))
             => judged.code = "VALIDATION_FAILED"

\* What is imported is the file: every line of it, once, with the amount it states.
ASSUME ReadyFilesAreWhole ==
  \A entries \in Files :
    LET judged == JudgedInvoices(entries)
        credit(n) == entries[n]["document_type"] # Nil
        Total(d) == LET doc == judged.documents[d].document[1]
                    IN  I!FoldFunction(LAMBDA a, b : a + b, 0, [n \in DOMAIN doc.lines |-> doc.lines[n].total])
        count(d) == Len(judged.documents[d].document[1].lines)
        sum(f) == I!FoldFunction(LAMBDA a, b : a + b, 0, f)
    IN  judged.code = "READY" =>
          /\ sum([d \in DOMAIN judged.documents |-> count(d)]) = Len(entries)
          /\ sum([d \in DOMAIN judged.documents |-> Total(d)])
               = sum([n \in DOMAIN entries |-> IF credit(n) THEN -entries[n]["line_total"].n
                                               ELSE entries[n]["line_total"].n])

\* An invoice is the same wherever it stands in a file and whatever stands next to it, as
\* long as its source numbers the lines.  Without a column of line numbers the row of the
\* file is part of the content (`_line_number`), and a longer export of the same invoice
\* is another content: the import then refuses it as a conflict.
ASSUME PlaceIsNotContentOfNumberedLines ==
  \A entry \in Entries, place \in 1 .. 3 :
    LET other == [Plainly(1, 10) EXCEPT !["invoice_number"] = Known("2")]
        alone == Prints(JudgedInvoices(<<entry>>))
    IN  /\ alone \subseteq Prints(JudgedInvoices([n \in 1 .. 3 |->
             IF n = place THEN entry
             ELSE [other EXCEPT !["line_number"] = Money(100 * n)]]))
        /\ LET bare == [InvoiceMapping EXCEPT !.columns = [c \in Columns \ {"line_number"} |-> c]]
               At(entries) == Prints(I!JudgeInvoices(bare, InvoiceFile(entries), "EUR"))
           IN  alone # {} => ~(At(<<entry>>) \subseteq At(<<other, entry>>))

--------------------------------------------------------------------------------
(* Two formats *)

Xml(kind, gross, totals, beneficiary) ==
  [supported |-> TRUE,
   supplier |-> [name |-> Known("acme"), vat |-> Known("it1"), tax |-> Nil, country |-> Nil],
   bodies |-> <<[type |-> Known(kind), currency |-> Known("EUR"), number |-> Known("1"),
                 date |-> DayCell(2), gross |-> gross, summaries |-> <<>>,
                 payments |-> <<[iban |-> Known("hash"), beneficiary |-> beneficiary, due |-> Nil]>>,
                 lines |-> [n \in DOMAIN totals |->
                              [f \in {"line_number", "line_description", "line_total"} |->
                                 CASE f = "line_number" -> Money(100 * n)
                                   [] f = "line_description" -> Known("gas")
                                   [] f = "line_total" -> Money(totals[n])]]]>>]

\* The same invoice sent as a table and as a FatturaPA is one content, so that the second
\* import finds it unchanged; the account of a third party adds nothing to its supplier.
\* ("Two source formats that state the same canonical invoice give the same fingerprint",
\* canonical.py.)
ASSUME FormatIsNotContent ==
  \A kind \in {"td01", "td04"}, gross \in {Nil, Money(150), Money(-150)}, totals \in [1 .. 2 -> {-70, 100}] :
    LET table == JudgedInvoices([n \in 1 .. 2 |->
                   Entry(Known("it1"), Known("1"), Known(kind), Nil, gross, n, totals[n])])
        xml   == I!XmlDocuments(Xml(kind, gross, totals, Known("factor")))
        own   == I!XmlDocuments(Xml(kind, gross, totals, Known("acme")))
        Document == xml.value[1].document[1]
    IN  /\ Prints(table) = {I!DocumentFingerprint(Document, "s")}
        /\ Document.supplier = table.documents[1].document[1].supplier
        /\ own.value[1].document[1].supplier.ibans = {"hash"}

\* The constants of a mapping that can be saved never refuse a line of their own.
ASSUME SavedInvoiceConstantsAlwaysRead ==
  \A currency \in {Known("EUR"), Known("XXX")}, type \in {Known("td04"), Known("parcel")},
     category \in {Known("ENERGY"), Known("power"), Known("other")} :
    LET m == [InvoiceMapping EXCEPT
                !.columns = [c \in Columns \ I!InvoiceConstants |-> c],
                !.words = [k \in {"power"} |-> "ENERGY"],
                !.constants = [c \in I!InvoiceConstants |->
                                 CASE c = "currency" -> currency [] c = "document_type" -> type
                                   [] c = "cost_category" -> category]]
    IN  I!ValidInvoiceMapping(m) <=>
          I!JudgeInvoices(m, InvoiceFile(<<Plainly(1, 100)>>), "EUR").code = "READY"

--------------------------------------------------------------------------------
(***************************************************************************)
(* What the reading of a staffing file must never do, over files of up to     *)
(* three rows: hours with and without their unit, costs of three decimals,    *)
(* roles that name one category, two, or none.                                *)
(***************************************************************************)
L == INSTANCE LaborRows WITH
       DayLength <- 4, AnyDay <- -1, NoMark <- "", MonthsOfYear <- 3, DaysOfMonth <- 5,
       MaxText <- 3, MaxId <- 2, MaxInt <- 50, MaxMoney <- 2000,
       MaxDecimals <- 3, NoAmount <- -99999, NoDate <- -1, MaxAmount <- 500,
       Currencies <- {"EUR", "USD"}, MaxRole <- 3

\* The readers of the three kinds of file agree on every number whose mapping tells its two
\* marks apart.  (One that sets only the thousands mark, to the point, is refused by bookings,
\* and read without its point by the others.)
ASSUME ReadersAgree ==
  \A size \in 1 .. 4, more \in {0, 1, 3}, mark \in {".", ","},
     decimal \in {"", ".", ","}, thousands \in {"", ".", ","} :
    LET cell == [Digits(IF more = 0 THEN <<Group(7, size)>> ELSE <<Group(7, size), Group(5, more)>>,
                        IF more = 0 THEN <<>> ELSE <<mark>>) EXCEPT !.negative = FALSE]
        mapping == Marked(decimal, thousands)
    IN  (IF decimal = "" THEN "." ELSE decimal) # thousands =>
          L!PlainDecimal(cell, mapping) = B!DecimalOf(cell, mapping)

--------------------------------------------------------------------------------
(* Files *)

Duties == <<"work_date", "role", "labor_category", "planned_hours", "actual_hours",
            "planned_cost", "currency">>
DutyColumns == {Duties[i] : i \in DOMAIN Duties}

LaborMapping ==
  [columns |-> [c \in DutyColumns |-> c], constants |-> <<>>, patterns |-> <<>>, decimal |-> ",",
   thousands |-> "", roles |-> [k \in {"sala"} |-> "FOOD_BEVERAGE"]]

Hours(n, scale, kind) ==
  [kind |-> kind, negative |-> FALSE, key |-> "", label |-> "", length |-> 1,
   groups |-> IF scale = 0 THEN <<Group(n, 2)>>
              ELSE <<Group(n \div 10 ^ scale, 1), Group(n % 10 ^ scale, scale)>>,
   marks |-> IF scale = 0 THEN <<>> ELSE <<",">>]
Typed(n, scale) == [kind |-> "number", n |-> n, scale |-> scale, key |-> "", label |-> "", length |-> 1]

Duty(role, category, planned, actual, cost, currency) ==
  [c \in DutyColumns |->
     CASE c = "work_date" -> DayCell(2) [] c = "role" -> role [] c = "labor_category" -> category
       [] c = "planned_hours" -> planned [] c = "actual_hours" -> actual
       [] c = "planned_cost" -> cost [] c = "currency" -> currency]

Rota(role, hours) == Duty(role, Nil, hours, Nil, Nil, Nil)

FileOf(columns, lines) ==
  [headers |-> Duties, rows |-> [n \in DOMAIN lines |-> [i \in DOMAIN Duties |-> lines[n][Duties[i]]]]]
JudgedLabor(mapping, lines) == L!JudgeLabor(mapping, FileOf(Duties, lines))

Roles == {Nil, Known("reception"), Spelled("reception", "Reception"), Known("sala"),
          Known("cameriere ai piani"), Known("spa"), Spelled("spa", "SPA"), Spelled("", "-")}
FiguresOfHours == {Nil, Hours(8, 0, "digits"), Hours(75, 1, "hours"), Hours(8333, 3, "digits"),
                   Typed(-3, 0), Known("otto")}

\* A row is refused for its hours when it states none that can be read, and then each hour
\* that is wrong is named once; hours that are kept are the hours written, to the minute,
\* and planned hours never stand for worked ones.  ("never a silent round", canonical.py;
\* "a bad value already explains the absence; do not double-report", structured.py.)
ASSUME HoursAreExactOrRefused ==
  \A planned, actual \in FiguresOfHours :
    LET Judged2(p, a) == JudgedLabor(LaborMapping, <<Duty(Known("spa"), Nil, p, a, Nil, Nil)>>)
        judged == Judged2(planned, actual)
        Bad(c) == c \in {Hours(8333, 3, "digits"), Typed(-3, 0), Known("otto")}
        About(f) == {i \in judged.refused[1] : i[1] = f}
        MinutesIn(c) == CASE c = Nil -> Nothing [] c = Hours(8, 0, "digits") -> 480 [] OTHER -> 450
    IN  /\ judged.code = "READY" <=> ~Bad(planned) /\ ~Bad(actual) /\ <<planned, actual>> # <<Nil, Nil>>
        /\ judged.code # "READY" => Cardinality(judged.refused[1]) =
             Cardinality({c \in {1, 2} : Bad(IF c = 1 THEN planned ELSE actual)})
               + IF <<planned, actual>> = <<Nil, Nil>> THEN 1 ELSE 0
        /\ judged.code = "READY" =>
             /\ judged.entries[1].minutes["planned_hours"] = MinutesIn(planned)
             /\ judged.entries[1].minutes["actual_hours"] = MinutesIn(actual)

\* Costs are never without a currency, and a file without costs never needs one.
ASSUME CostsHaveTheirCurrency ==
  \A cost \in {Nil, Typed(0, 0), Typed(1005, 1)}, currency \in {Nil, Known("EUR"), Known("X")} :
    LET judged == JudgedLabor(LaborMapping,
                              <<Duty(Nil, Known("KITCHEN"), Typed(8, 0), Nil, cost, currency)>>)
    IN  /\ judged.code = "READY" =>
             (judged.entries[1].cost["planned_cost"] # Nothing => judged.entries[1].currency = "EUR")
        /\ cost = Nil /\ currency = Nil => judged.code = "READY"
        /\ cost # Nil /\ currency = Nil =>
             judged.refused[1] = {<<"currency", "CURRENCY_REQUIRED">>}

Shifts == {Rota(role, Typed(8, 0)) : role \in Roles}
            \cup {Duty(Known("spa"), Known("KITCHEN"), Typed(8, 0), Nil, Nil, Nil),
                  [Rota(Nil, Nil) EXCEPT !["work_date"] = Nil]}

\* Once the hotel has said what its unclassified labels stand for, every row of the file that
\* has a label with a letter in it is classified, and no row that was classified changes its
\* category: the labels shown are all there is to ask.  ("The role labels behind those
\* rows", service.py `LaborDryRun`.)
ASSUME LabelsAreAllThereIsToAsk ==
  \A lines \in [1 .. 2 -> Shifts] :
    LET before == JudgedLabor(LaborMapping, lines)
        asked  == {role \in Roles : role.label \in L!UnclassifiedLabels(before.entries)}
        told   == [k \in {role.key : role \in asked} \ {""} |-> "HOUSEKEEPING"]
        mapping == [LaborMapping EXCEPT !.roles = @ @@ told]
        after  == JudgedLabor(mapping, lines)
    IN  before.code # "EMPTY_FILE" =>
          /\ L!ValidLaborMapping(mapping)
          /\ DOMAIN after.entries = DOMAIN before.entries
          /\ \A n \in DOMAIN after.entries :
               /\ after.entries[n].method = "UNCLASSIFIED" => after.entries[n].role = ""
               /\ before.entries[n].method # "UNCLASSIFIED" =>
                    after.entries[n] = before.entries[n]

\* A role that names two categories is nobody's until the hotel says so.
ASSUME TwoCategoriesAreNone ==
  \A role \in DOMAIN L!MatchingCategories :
    LET class == L!ClassifyRole(role, "", <<>>)
    IN  /\ class.method = "UNCLASSIFIED" <=> Cardinality(L!MatchingCategories[role]) # 1
        /\ class.category = "OTHER" <=> class.confidence = 0

--------------------------------------------------------------------------------
(* Snapshots *)

Kept == {Rota(role, Typed(8, 0)) : role \in {Known("reception"), Spelled("reception", "Reception"), Nil}}
          \cup {Duty(Nil, Known("KITCHEN"), Typed(8, 0), Nil, Typed(cost, 3), Known("EUR")) :
                  cost \in {1004, 1005, 1006, 1015, 1025}}

\* Two files make one snapshot exactly when they keep the same entries: in any order of
\* their rows, however a role is spelled, and never when a row is repeated.  Costs finer than
\* a cent are one when they round to the same even cent, which is at most one cent from
\* what is stored.  ("whatever order their rows were in", canonical.py.)
ASSUME SnapshotIsItsContent ==
  \A lines, others \in UNION {[1 .. k -> Kept] : k \in 1 .. 2} :
    LET a == JudgedLabor(LaborMapping, lines).entries
        b == JudgedLabor(LaborMapping, others).entries
        Same == L!SnapshotFingerprint(1, "s", a) = L!SnapshotFingerprint(1, "s", b)
        Bare(e) == [e EXCEPT !.cost = <<>>, !.label = ""]
        Cost(e) == e.cost["planned_cost"]
        InFull(e) == L!StoredEntry(e).cost["planned_cost"]
        Near(e, f) == /\ Bare(e) = Bare(f) /\ Cost(e) - Cost(f) \in -10 .. 10
                      /\ InFull(e) - InFull(f) \in -1 .. 1
        Exactly(e, f) == Bare(e) = Bare(f) /\ Cost(e) = Cost(f)
        Matched(Alike(_, _)) ==
          /\ DOMAIN a = DOMAIN b
          /\ \E p \in Permutations(DOMAIN a) : \A n \in DOMAIN a : Alike(a[n], b[p[n]])
    IN  (Matched(Exactly) => Same) /\ (Same => Matched(Near))

\* The totals shown before the import are those of the entries it keeps, in any order, and
\* of nothing that it refuses.
ASSUME SummaryIsOfTheKept ==
  \A lines \in [1 .. 2 -> Kept \cup {Rota(Nil, Typed(1, 0)), Rota(Known("spa"), Known("otto"))}] :
    LET shown  == L!LaborSummary(JudgedLabor(LaborMapping, lines).entries)
        turned == L!LaborSummary(JudgedLabor(LaborMapping, <<lines[2], lines[1]>>).entries)
        kept   == {n \in 1 .. 2 : lines[n]["planned_hours"] # Known("otto")}
        Part(n) == IF n \notin kept THEN 0
                   ELSE IF lines[n]["planned_hours"] = Typed(1, 0) THEN 60 ELSE 480
    IN  /\ shown = turned
        /\ shown.minutes["planned_hours"] = IF kept = {} THEN Nothing ELSE Part(1) + Part(2)
        /\ shown.minutes["actual_hours"] = Nothing

\* A mapping that can be saved has constants that never refuse a row of their own.
ASSUME SavedLaborConstantsAlwaysRead ==
  \A category \in {Known("KITCHEN"), Known("cucina")}, currency \in {Known("EUR"), Known("X")} :
    LET free == DutyColumns \ L!LaborConstants
        m == [LaborMapping EXCEPT
                !.columns = [c \in free |-> c],
                !.constants = [f \in L!LaborConstants |->
                                 IF f = "currency" THEN currency ELSE category]]
    IN  L!ValidLaborMapping(m) =>
          JudgedLabor(m, <<Rota(Known("spa"), Typed(8, 0))>>).code = "READY"
=============================================================================
