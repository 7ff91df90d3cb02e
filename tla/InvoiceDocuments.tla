---------------------------- MODULE InvoiceDocuments ----------------------------
(***************************************************************************)
(* From the lines of an invoice file to canonical documents: lines of a      *)
(* table are read and grouped (app/modules/invoices/structured.py), bodies   *)
(* of a FatturaPA are read as they stand (fatturapa.py), and both go through  *)
(* the same rules, sign and rounding (documents.py, canonical.py).           *)
(*                                                                         *)
(* Cells are those of BookingRows.  The key of a text is what the            *)
(* normalisation of its column makes of it, "" when that refuses it: the     *)
(* comparison form of a name or a description, a VAT number, a tax code, the  *)
(* hash of an IBAN, a kind or a category.  Amounts are whole numbers of       *)
(* 10^-MaxDecimals; texts that are not there are "".                         *)
(***************************************************************************)
EXTENDS BookingRows

CONSTANTS
  MaxDecimals,       \* decimals kept of a source amount, at least two
  NoAmount, NoDate,  \* an amount, a date that is not there
  MaxAmount,         \* MAX_MONEY, in cents
  Currencies         \* ISO_4217_CODES

InvoiceDates == {"invoice_date", "due_date"}
InvoiceAmounts == {"invoice_net_amount", "invoice_tax_amount", "invoice_gross_amount",
                   "quantity", "unit_price", "line_total", "vat_rate"}
InvoiceRequired == {"supplier_name", "invoice_number", "invoice_date", "line_description",
                    "line_total"}
InvoiceConstants == {"document_type", "currency", "cost_category"}

NoCell == [kind |-> "blank", key |-> "", label |-> "", length |-> 0]
CellOf(values, field) == IF field \in DOMAIN values THEN values[field] ELSE NoCell
IsBlank(cell) == cell.kind = "blank"
Single(field, cell) == [f \in {field} |-> cell]

\* A value and what is wrong with it; a bad field never hides the rest of its line.
Got(value) == [value |-> value, issues |-> {}]
Lost(none, field, code) == [value |-> none, issues |-> {<<field, code>>}]

--------------------------------------------------------------------------------
(* One line of a table *)

DocumentKinds == [k \in {"credit note", "td04", "td08", "invoice", "td01", "td02"} |->
                    IF k \in {"credit note", "td04", "td08"} THEN "CREDIT_NOTE" ELSE "INVOICE"]

\* resolve_category: the confirmed words first, then the categories' own names.
ResolveCategory(key, words, categories) ==
  IF key \in DOMAIN words THEN words[key]
  ELSE IF key \in categories THEN key ELSE ""

SupplierNameOf(values) ==
  LET cell == CellOf(values, "supplier_name")
  IN  IF IsBlank(cell) THEN Lost(NoCell, "supplier_name", "REQUIRED_VALUE_MISSING")
      ELSE IF cell.length > MaxText THEN Lost(NoCell, "supplier_name", "VALUE_TOO_LONG")
      ELSE IF cell.key = "" THEN Lost(NoCell, "supplier_name", "REQUIRED_VALUE_MISSING")
      ELSE Got(cell)

IdentifierOf(values, field, code) ==
  LET cell == CellOf(values, field)
  IN  IF ~IsBlank(cell) /\ cell.key = "" THEN Lost("", field, code) ELSE Got(cell.key)

\* _iban: hashed here; one that is not valid is left out with a warning, never an issue.
IbansOf(values) ==
  LET cell == CellOf(values, "supplier_iban") IN IF cell.key = "" THEN {} ELSE {cell.key}

InvoiceDateOf(values, field, mapping, required) ==
  LET cell == CellOf(values, field)
      date == ParseDate(field, cell, mapping, [at |-> 0, before |-> 0, after |-> 0])
  IN  IF IsBlank(cell)
      THEN IF required THEN Lost(NoDate, field, "REQUIRED_VALUE_MISSING") ELSE Got(NoDate)
      ELSE IF cell.kind = "instant" THEN Lost(NoDate, field, "INVALID_DATE")
      ELSE IF date.ok THEN Got(date.value) ELSE Lost(NoDate, field, date.code)

\* _decimal: invoices and labor files do not look for coinciding marks.
PlainDecimal(cell, mapping) ==
  IF cell.kind = "digits" THEN MarkedNumber(cell, mapping) ELSE DecimalOf(cell, mapping)

\* _amount, and _rate for a percentage.
AmountOf(values, field, mapping, required) ==
  LET cell   == CellOf(values, field)
      number == PlainDecimal(cell, mapping)
      amount == number.value.n * 10 ^ (MaxDecimals - number.value.scale)
  IN  IF IsBlank(cell)
      THEN IF required THEN Lost(NoAmount, field, "REQUIRED_VALUE_MISSING") ELSE Got(NoAmount)
      ELSE IF ~number.ok THEN Lost(NoAmount, field, number.code)
      ELSE IF number.value.scale > MaxDecimals THEN Lost(NoAmount, field, "AMOUNT_PRECISION")
      ELSE IF field = "vat_rate" /\ amount \notin 0 .. 100 * 10 ^ MaxDecimals
      THEN Lost(NoAmount, field, "OUT_OF_RANGE")
      ELSE Got(amount)

\* _kind: an invoice when nothing says otherwise.
KindOf(values) ==
  LET cell == CellOf(values, "document_type")
  IN  IF IsBlank(cell) THEN Got("INVOICE")
      ELSE IF cell.key \in DOMAIN DocumentKinds THEN Got(DocumentKinds[cell.key])
      ELSE Lost("", "document_type", "UNKNOWN_DOCUMENT_TYPE")

\* _line_number: the source's own, else the row of the file.
LineNumberOf(row, values, mapping) ==
  LET cell == CellOf(values, "line_number")
      number == PositiveInteger(cell)
  IN  IF "line_number" \notin DOMAIN mapping.columns \/ IsBlank(cell) THEN Got(row)
      ELSE IF number.ok THEN Got(number.value) ELSE Lost(row, "line_number", "INVALID_NUMBER")

TextOf(values, field, limit, required) ==
  LET cell == CellOf(values, field)
  IN  IF IsBlank(cell)
      THEN IF required THEN Lost(NoCell, field, "REQUIRED_VALUE_MISSING") ELSE Got(NoCell)
      ELSE IF cell.length > limit THEN Lost(NoCell, field, "VALUE_TOO_LONG")
      ELSE Got(cell)

CategoryOf(values, mapping) ==
  LET cell == CellOf(values, "cost_category")
      category == ResolveCategory(cell.key, mapping.words, mapping.categories)
  IN  IF IsBlank(cell) THEN Got("")
      ELSE IF category = "" THEN Lost("", "cost_category", "UNKNOWN_CATEGORY") ELSE Got(category)

\* _Row: everything one line says of its document, and of itself.
ReadLine(row, values, mapping, currency) ==
  LET name   == SupplierNameOf(values)
      vat    == IdentifierOf(values, "supplier_vat_number", "INVALID_VAT_NUMBER")
      tax    == IdentifierOf(values, "supplier_tax_code", "INVALID_TAX_CODE")
      number == CellOf(values, "invoice_number")
      unnamed == IF IsBlank(number) THEN {<<"invoice_number", "REQUIRED_VALUE_MISSING">>} ELSE {}
      date   == InvoiceDateOf(values, "invoice_date", mapping, TRUE)
      due    == InvoiceDateOf(values, "due_date", mapping, FALSE)
      kind   == KindOf(values)
      coin   == CellOf(values, "currency")
      amount == [f \in InvoiceAmounts |-> AmountOf(values, f, mapping, f = "line_total")]
      line   == LineNumberOf(row, values, mapping)
      text   == TextOf(values, "line_description", MaxText, TRUE)
      unit   == TextOf(values, "unit", MaxText, FALSE)
      category == CategoryOf(values, mapping)
  IN  [row |-> row, name |-> name.value.key, vat |-> vat.value,
       tax |-> tax.value, ibans |-> IbansOf(values), number |-> number.key, spelled |-> number.label,
       long |-> {f \in {"invoice_number", "document_type"} : CellOf(values, f).length > MaxId},
       date |-> date.value, due |-> due.value, kind |-> kind.value,
       type |-> CellOf(values, "document_type").key,
       currency |-> IF IsBlank(coin) THEN currency ELSE coin.key,
       amount |-> [f \in InvoiceAmounts |-> amount[f].value],
       line |-> line.value, text |-> text.value.key, unit |-> unit.value.key,
       category |-> category.value,
       issues |-> UNION {name.issues, vat.issues, tax.issues, unnamed, date.issues,
                         due.issues, kind.issues, line.issues, text.issues, unit.issues,
                         category.issues, UNION {amount[f].issues : f \in InvoiceAmounts}}]

--------------------------------------------------------------------------------
(* The canonical document *)

\* to_money: half a cent goes away from zero.
ToCents(amount) ==
  LET cent == 10 ^ (MaxDecimals - 2)
      size == IF amount < 0 THEN -amount ELSE amount
      half == (2 * size + cent) \div (2 * cent)
  IN  IF amount = NoAmount THEN NoAmount ELSE IF amount < 0 THEN -half ELSE half

\* document_multiplier: a credit note is a negative cost, whichever way it was written.
DocumentMultiplier(kind, gross, net, totals) ==
  LET sum == FoldFunction(LAMBDA a, b : a + b, 0, totals)
      reference == IF gross \notin {NoAmount, 0} THEN gross
                   ELSE IF net \notin {NoAmount, 0} THEN net ELSE sum
  IN  IF kind = "CREDIT_NOTE" /\ reference > 0 THEN -1 ELSE 1

\* canonicalize: the sign first, then each amount to the cent, once.
Canonicalize(header, lines) ==
  LET totals == [n \in DOMAIN lines |-> lines[n].amount["line_total"]]
      sign   == DocumentMultiplier(header.kind, header.amount["invoice_gross_amount"],
                                   header.amount["invoice_net_amount"], totals)
      Cents(amount) == IF amount = NoAmount THEN NoAmount ELSE ToCents(sign * amount)
  IN  [supplier |-> header.supplier, number |-> header.number, date |-> header.date,
       kind |-> header.kind, currency |-> header.currency,
       net |-> Cents(header.amount["invoice_net_amount"]),
       tax |-> Cents(header.amount["invoice_tax_amount"]),
       gross |-> Cents(header.amount["invoice_gross_amount"]),
       lines |-> [n \in DOMAIN lines |->
                    [line |-> lines[n].line, text |-> lines[n].text, unit |-> lines[n].unit,
                     quantity |-> lines[n].amount["quantity"], price |-> lines[n].amount["unit_price"],
                     rate |-> lines[n].amount["vat_rate"], total |-> Cents(totals[n]),
                     category |-> lines[n].category]]]

AmountsOf(document) ==
  {document.net, document.tax, document.gross}
    \cup {document.lines[n].total : n \in DOMAIN document.lines}

\* fingerprint: the content, and nothing technical; categories are analysis.
DocumentFingerprint(document, supplier) ==
  [supplier |-> supplier, number |-> document.number, date |-> document.date,
   kind |-> document.kind, currency |-> document.currency, net |-> document.net,
   tax |-> document.tax, gross |-> document.gross,
   lines |-> {[document.lines[n] EXCEPT !.category = ""] : n \in DOMAIN document.lines}]

\* reconciliation: diagnostics only.
ReconciliationDelta(document) ==
  LET totals == [n \in DOMAIN document.lines |-> document.lines[n].total]
  IN  IF document.net = NoAmount THEN NoAmount
      ELSE document.net - FoldFunction(LAMBDA a, b : a + b, 0, totals)

\* assemble: the rules of every format; the document is there when nothing is wrong.
Assemble(header, lines) ==
  LET twice(n) == \E m \in DOMAIN lines \ {n} : /\ lines[m].line = lines[n].line
                                                /\ lines[n].line # 0
      issues   == header.issues
                    \cup (IF lines = <<>> THEN {<<"lines", "NO_LINES">>} ELSE {})
                    \cup (IF header.currency \notin Currencies \cup {""}
                          THEN {<<"currency", "INVALID_CURRENCY">>} ELSE {})
                    \cup {<<f, "VALUE_TOO_LONG">> : f \in header.long}
      ofLine   == [n \in DOMAIN lines |->
                     lines[n].issues
                       \cup (IF twice(n) THEN {<<"line_number", "DUPLICATE_LINE">>} ELSE {})]
      complete == /\ header.supplier.name # "" /\ header.number # "" /\ header.date # NoDate
                  /\ header.kind # "" /\ header.currency # ""
      clean    == complete /\ issues = {} /\ \A n \in DOMAIN lines : ofLine[n] = {}
      document == Canonicalize(header, lines)
      fits     == \A a \in AmountsOf(document) : a = NoAmount \/ a \in -MaxAmount .. MaxAmount
  IN  [issues   |-> issues \cup (IF clean /\ ~fits THEN {<<"amount", "OUT_OF_RANGE">>} ELSE {}),
       lines    |-> ofLine,
       valid    |-> clean /\ fits,
       document |-> IF clean /\ fits THEN <<document>> ELSE <<>>]

--------------------------------------------------------------------------------
(* Documents of a table *)

\* group_key: the strongest identity the line gives; a line that lacks one stands alone.
GroupKey(line) ==
  IF line.name = "" \/ line.number = "" \/ line.date = NoDate \/ line.kind = ""
  THEN <<"stand-alone", line.row>>
  ELSE <<IF line.vat # "" THEN <<"vat", line.vat>>
         ELSE IF line.tax # "" THEN <<"tax", line.tax>> ELSE <<"name", line.name>>,
         line.number, line.date, line.kind>>

\* _assemble_group: lines that disagree on their document make it invalid; no last one wins.
AssembleGroup(lines) ==
  LET first(f(_), none) ==
        LET given == SelectSeq([n \in DOMAIN lines |-> f(lines[n])], LAMBDA v : v # none)
        IN  IF given = <<>> THEN none ELSE given[1]
      torn(f(_), none) == Cardinality({f(lines[n]) : n \in DOMAIN lines} \ {none}) > 1
      heads == {"invoice_net_amount", "invoice_tax_amount", "invoice_gross_amount"}
      Name(l) == l.name      Vat(l) == l.vat    Tax(l) == l.tax    Kind(l) == l.kind
      Number(l) == l.number  Spelled(l) == l.spelled  Date(l) == l.date  Due(l) == l.due    Type(l) == l.type
      Coin(l) == l.currency
      issues == {<<f, "INCONSISTENT_HEADER">> :
                   f \in {g \in heads : torn(LAMBDA l : l.amount[g], NoAmount)}
                           \cup (IF torn(Name, "") THEN {"supplier_name"} ELSE {})
                           \cup (IF torn(Vat, "") THEN {"supplier_vat_number"} ELSE {})
                           \cup (IF torn(Tax, "") THEN {"supplier_tax_code"} ELSE {})
                           \cup (IF torn(Spelled, "") THEN {"invoice_number"} ELSE {})
                           \cup (IF torn(Coin, "") THEN {"currency"} ELSE {})
                           \cup (IF torn(Due, NoDate) THEN {"due_date"} ELSE {})
                           \cup (IF torn(Type, "") THEN {"document_type"} ELSE {})}
  IN  Assemble([supplier |-> [name |-> first(Name, ""), vat |-> first(Vat, ""),
                              tax |-> first(Tax, ""),
                              ibans |-> UNION {lines[n].ibans : n \in DOMAIN lines}],
                number |-> first(Number, ""), date |-> first(Date, NoDate),
                kind |-> first(Kind, ""), currency |-> first(Coin, ""),
                amount |-> [f \in heads |-> first(LAMBDA l : l.amount[f], NoAmount)],
                long |-> UNION {lines[n].long : n \in DOMAIN lines}, issues |-> issues], lines)

\* parse_structured: one document for each key, at the row its first line has.
StructuredDocuments(lines) ==
  LET Key(n) == GroupKey(lines[n])
      heads  == {n \in DOMAIN lines : \A m \in 1 .. (n - 1) : Key(m) # Key(n)}
      Of(h)  == SetToSortSeq({n \in DOMAIN lines : Key(n) = Key(h)}, <)
  IN  [h \in heads |-> AssembleGroup([i \in DOMAIN Of(h) |-> lines[Of(h)[i]]])]

--------------------------------------------------------------------------------
(* Documents of a FatturaPA: a supplier, and bodies of [type, currency, number, date,
   gross, summaries, payments, lines]; XML knows points and ISO dates only *)

XmlMapping == [columns |-> [f \in {"line_number"} |-> f], patterns |-> <<>>, decimal |-> NoMark,
               thousands |-> NoMark, words |-> <<>>, categories |-> {}]

\* _payment_ibans: the account of a third party does not identify the supplier.
PaymentIbans(payments, supplier) ==
  {p.iban.key : p \in {q \in ToSet(payments) :
                         q.iban.key # "" /\ q.beneficiary.key \in {"", supplier}}}

\* The sum of a column of the VAT summary, when every row of it has one.
SummaryTotal(summaries, field) ==
  LET read == [n \in DOMAIN summaries |-> AmountOf(summaries[n], field, XmlMapping, FALSE)]
  IN  [value  |-> IF summaries = <<>> \/ \E n \in DOMAIN read : read[n].value = NoAmount
                  THEN NoAmount
                  ELSE FoldFunction(LAMBDA a, b : a + b, 0, [n \in DOMAIN read |-> read[n].value]),
       issues |-> UNION {read[n].issues : n \in DOMAIN read}]

\* _read_line: the number of the line is required here.
ReadXmlLine(values) ==
  LET number == CellOf(values, "line_number")
      line   == ReadLine(0, values, XmlMapping, "")
      own    == {"line_number", "line_description", "line_total", "quantity", "unit_price",
                 "vat_rate", "unit"}
  IN  [line EXCEPT !.category = "",
                   !.issues = {i \in @ : i[1] \in own}
                     \cup (IF IsBlank(number) THEN {<<"line_number", "REQUIRED_VALUE_MISSING">>} ELSE {})]

\* _evidence: the supplier of the header, with the accounts of this body.
XmlSupplier(parts, body) ==
  LET named == ~IsBlank(parts.name) /\ parts.name.key # ""
      bad(cell, field, code) == IF ~IsBlank(cell) /\ cell.key = "" THEN {<<field, code>>} ELSE {}
  IN  [evidence |-> [name |-> IF named THEN parts.name.key ELSE "", vat |-> parts.vat.key,
                     tax |-> parts.tax.key,
                     ibans |-> PaymentIbans(body.payments, parts.name.key)],
       issues   |-> IF ~named THEN {<<"supplier_name", "REQUIRED_VALUE_MISSING">>}
                    ELSE bad(parts.country, "supplier_country", "INVALID_COUNTRY")
                           \cup bad(parts.vat, "supplier_vat_number", "INVALID_VAT_NUMBER")
                           \cup bad(parts.tax, "supplier_tax_code", "INVALID_TAX_CODE")]

\* _read_body: types that swap supplier and buyer are refused, and no due date is invented.
XmlDocument(parts, body) ==
  LET supplier == XmlSupplier(parts, body)
      kind  == IF IsBlank(body.type) THEN Lost("", "document_type", "REQUIRED_VALUE_MISSING")
               ELSE IF body.type.key \in DOMAIN DocumentKinds THEN Got(DocumentKinds[body.type.key])
               ELSE Lost("", "document_type", "UNSUPPORTED_DOCUMENT_TYPE")
      date  == InvoiceDateOf(Single("invoice_date", body.date), "invoice_date", XmlMapping, TRUE)
      gross == AmountOf(Single("invoice_gross_amount", body.gross), "invoice_gross_amount",
                        XmlMapping, FALSE)
      net   == SummaryTotal(body.summaries, "invoice_net_amount")
      tax   == SummaryTotal(body.summaries, "invoice_tax_amount")
      due   == {InvoiceDateOf(Single("due_date", p.due), "due_date", XmlMapping, FALSE)
                  : p \in ToSet(body.payments)}
      lacks(cell, field) == IF IsBlank(cell) THEN {<<field, "REQUIRED_VALUE_MISSING">>} ELSE {}
  IN  Assemble([supplier |-> supplier.evidence, number |-> body.number.key, date |-> date.value,
                kind |-> kind.value, currency |-> body.currency.key,
                amount |-> [f \in {"invoice_net_amount", "invoice_tax_amount",
                                   "invoice_gross_amount"} |->
                              CASE f = "invoice_net_amount" -> net.value
                                [] f = "invoice_tax_amount" -> tax.value
                                [] f = "invoice_gross_amount" -> gross.value],
                long |-> (IF body.number.length > MaxId THEN {"invoice_number"} ELSE {})
                           \cup (IF body.type.length > MaxId THEN {"document_type"} ELSE {}),
                issues |-> UNION {supplier.issues, kind.issues, date.issues, gross.issues,
                                  net.issues, tax.issues, UNION {d.issues : d \in due},
                                  lacks(body.currency, "currency"),
                                  lacks(body.number, "invoice_number")}],
               [n \in DOMAIN body.lines |-> ReadXmlLine(body.lines[n])])

\* parse_fatturapa: every body of the file is a document of the one supplier.
XmlDocuments(file) ==
  IF ~file.supported THEN Problem("UNSUPPORTED_FATTURAPA")
  ELSE Read([b \in DOMAIN file.bodies |-> XmlDocument(file.supplier, file.bodies[b])])

--------------------------------------------------------------------------------
(* Files *)

\* InvoiceMappingConfig: what cannot even be saved.
ValidInvoiceMapping(mapping) ==
  /\ InvoiceRequired \subseteq DOMAIN mapping.columns
  /\ DOMAIN mapping.constants \subseteq InvoiceConstants \ DOMAIN mapping.columns
  /\ "currency" \in DOMAIN mapping.constants => mapping.constants["currency"].key \in Currencies
  /\ "document_type" \in DOMAIN mapping.constants => KindOf(mapping.constants).value # ""
  /\ "cost_category" \in DOMAIN mapping.constants => CategoryOf(mapping.constants, mapping).value # ""
  /\ DOMAIN mapping.patterns \subseteq InvoiceDates
  /\ mapping.decimal # NoMark => mapping.decimal # mapping.thousands
  /\ "" \notin DOMAIN mapping.words

\* extract: the mapped cells of every line that has one, and its row; then the constants.
ExtractLines(mapping, file) ==
  LET cells == Extract(mapping, file)
      rows  == SetToSortSeq({n \in DOMAIN cells : \E f \in DOMAIN cells[n] : ~IsBlank(cells[n][f])}, <)
  IN  [i \in DOMAIN rows |-> [row |-> rows[i], values |-> mapping.constants @@ cells[rows[i]]]]

\* require_explicit_formats: asked once for each column.
UnclearDates(mapping, lines) ==
  {f \in InvoiceDates \cap DOMAIN mapping.columns :
     NeedsDateFormat(f, {lines[n].values[f] : n \in DOMAIN lines}, mapping)}
UnclearAmounts(mapping, lines) ==
  {f \in InvoiceAmounts \cap DOMAIN mapping.columns :
     NeedsNumberFormat({lines[n].values[f] : n \in DOMAIN lines}, mapping)}

\* dry_run, and _run up to the staging.
JudgeInvoices(mapping, file, currency) ==
  LET lines == ExtractLines(mapping, file)
      read  == [n \in DOMAIN lines |-> ReadLine(lines[n].row, lines[n].values, mapping, currency)]
      documents == StructuredDocuments(read)
      Refusal(code) == [code |-> code, documents |-> <<>>]
  IN  IF DuplicateHeaders(file) # {} THEN Refusal("DUPLICATE_HEADER")
      ELSE IF MissingColumns(mapping, file) # {} THEN Refusal("SOURCE_SCHEMA_CHANGED")
      ELSE IF lines = <<>> THEN Refusal("EMPTY_FILE")
      ELSE IF UnclearDates(mapping, lines) # {} THEN Refusal("AMBIGUOUS_DATE_FORMAT")
      ELSE IF UnclearAmounts(mapping, lines) # {} THEN Refusal("AMBIGUOUS_NUMBER_FORMAT")
      ELSE [code |-> IF \A d \in DOMAIN documents : documents[d].valid THEN "READY"
                     ELSE "VALIDATION_FAILED",
            documents |-> documents]

\* _stage: the lines kept of one document, with all of its errors on its first line; a
\* line of an invalid document is never kept.
StagedLines(parsed) ==
  LET count == IF parsed.lines = <<>> THEN 1 ELSE Len(parsed.lines)
      own(n) == IF n \in DOMAIN parsed.lines THEN parsed.lines[n] ELSE {}
      all(n) == (IF n = 1 THEN parsed.issues ELSE {}) \cup own(n)
  IN  [n \in 1 .. count |->
         [kept |-> parsed.valid,
          errors |-> IF ~parsed.valid /\ all(n) = {} THEN {<<"document", "VALIDATION_FAILED">>}
                     ELSE all(n)]]

\* classify_line: the source's word, then the supplier's habit, then one phrase.
ClassifyLine(explicit, habit, phrases) ==
  IF explicit # "" THEN [category |-> explicit, confidence |-> 100]
  ELSE IF habit # "" THEN [category |-> habit, confidence |-> 90]
  ELSE IF Cardinality(phrases) = 1
  THEN [category |-> CHOOSE c \in phrases : TRUE, confidence |-> 80]
  ELSE [category |-> "OTHER", confidence |-> 0]
================================================================================
