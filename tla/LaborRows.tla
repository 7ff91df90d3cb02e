-------------------------------- MODULE LaborRows --------------------------------
(***************************************************************************)
(* From the rows of a staffing file to the entries of a labor snapshot: the  *)
(* hours of a row in whole minutes, its costs, the category its role stands  *)
(* for, what is shown before the import, and what makes two snapshots one    *)
(* (app/modules/labor: structured, mapping, classification, canonical).      *)
(*                                                                         *)
(* Cells are those of BookingRows, and one more kind: hours, digits with the  *)
(* unit written after them.  A mapping adds roles, keys of role labels to    *)
(* categories.  Costs are whole numbers of 10^-MaxDecimals; what is not there *)
(* is NoAmount, a category or a currency that is not there "".               *)
(***************************************************************************)
EXTENDS InvoiceDocuments

CONSTANTS
  MaxRole          \* _MAX_ROLE_LENGTH

HoursFields == {"planned_hours", "actual_hours"}
CostFields == {"planned_cost", "actual_cost"}
LaborConstants == {"labor_category", "currency"}
LaborCategories == {"HOUSEKEEPING", "FRONT_OFFICE", "FOOD_BEVERAGE", "KITCHEN", "OTHER"}

--------------------------------------------------------------------------------
(* One row *)

\* resolve_labor_category: only the name of a category, punctuation aside.
StatedCategoryOf(values) ==
  LET cell == CellOf(values, "labor_category")
  IN  IF IsBlank(cell) THEN Got("")
      ELSE IF cell.key \in LaborCategories THEN Got(cell.key)
      ELSE Lost("", "labor_category", "UNKNOWN_CATEGORY")

NoFigure == [n |-> NoAmount, scale |-> 0]

\* _hours and _amount: hours may carry their unit, an amount may not.
FigureOf(values, field, mapping) ==
  LET cell   == CellOf(values, field)
      number == IF cell.kind = "hours" /\ field \in HoursFields
                THEN MarkedNumber(cell, mapping) ELSE PlainDecimal(cell, mapping)
  IN  IF IsBlank(cell) THEN Got(NoFigure)
      ELSE IF ~number.ok THEN Lost(NoFigure, field, number.code)
      ELSE IF number.value.n < 0 THEN Lost(NoFigure, field, "NEGATIVE_VALUE")
      ELSE Got(number.value)

\* hours_to_minutes: a fraction of a minute is refused, never rounded.
MinutesOf(field, hours) ==
  LET unit == 10 ^ hours.value.scale
  IN  IF hours.value = NoFigure THEN Got(NoAmount)
      ELSE IF (hours.value.n * 60) % unit # 0 THEN Lost(NoAmount, field, "FRACTIONAL_MINUTES")
      ELSE Got((hours.value.n * 60) \div unit)

\* A currency is asked for where there is a cost, and checked wherever it stands.
LaborCurrencyOf(values, costs) ==
  LET cell == CellOf(values, "currency")
  IN  IF IsBlank(cell)
      THEN IF costs THEN Lost("", "currency", "CURRENCY_REQUIRED") ELSE Got("")
      ELSE IF cell.key \in Currencies THEN Got(cell.key)
      ELSE Lost("", "currency", "INVALID_CURRENCY")

\* ParsedLaborRow: a bad field never hides the rest; a bad hour already explains why the
\* hours are missing.
ReadRow(values, mapping) ==
  LET date     == InvoiceDateOf(values, "work_date", mapping, TRUE)
      role     == TextOf(values, "role", MaxRole, FALSE)
      category == StatedCategoryOf(values)
      figure   == [f \in HoursFields \cup CostFields |-> FigureOf(values, f, mapping)]
      minutes  == [f \in HoursFields |-> MinutesOf(f, figure[f])]
      costs    == \E f \in CostFields : figure[f].value # NoFigure
      currency == LaborCurrencyOf(values, costs)
      hours    == IF \A f \in HoursFields : figure[f].value = NoFigure /\ figure[f].issues = {}
                  THEN {<<"planned_hours", "HOURS_MISSING">>} ELSE {}
      AtScale(v) == IF v = NoFigure THEN NoAmount ELSE v.n * 10 ^ (MaxDecimals - v.scale)
  IN  [date |-> date.value, role |-> role.value, category |-> category.value,
       minutes |-> [f \in HoursFields |-> minutes[f].value],
       cost |-> [f \in CostFields |-> AtScale(figure[f].value)],
       currency |-> currency.value,
       issues |-> UNION {date.issues, role.issues, category.issues, currency.issues, hours,
                         UNION {figure[f].issues : f \in DOMAIN figure},
                         UNION {minutes[f].issues : f \in HoursFields}}]

--------------------------------------------------------------------------------
(* Roles *)

\* matching_categories: the categories whose phrases stand in a role, as whole words.
MatchingCategories ==
  [k \in {"reception", "cucina", "camera", "cameriere", "cameriere ai piani"} |->
     CASE k = "reception" -> {"FRONT_OFFICE"} [] k = "cucina" -> {"KITCHEN"}
       [] k = "camera" -> {"HOUSEKEEPING"} [] k = "cameriere" -> {"FOOD_BEVERAGE"}
       [] OTHER -> {"FOOD_BEVERAGE", "HOUSEKEEPING"}]

\* classify_role: the source, then the hotel's words, then the one category its phrases
\* name; a role of two stays OTHER.
ClassifyRole(key, stated, roles) ==
  LET named == IF key \in DOMAIN MatchingCategories THEN MatchingCategories[key] ELSE {}
      As(category, method, confidence) ==
        [category |-> category, method |-> method, confidence |-> confidence]
  IN  IF stated # "" THEN As(stated, "EXPLICIT_SOURCE", 100)
      ELSE IF key # "" /\ key \in DOMAIN roles THEN As(roles[key], "ROLE_MAPPING", 95)
      ELSE IF Cardinality(named) = 1
      THEN As(CHOOSE c \in named : TRUE, "DETERMINISTIC_RULE", 80)
      ELSE As("OTHER", "UNCLASSIFIED", 0)

\* to_entry: the entry of a row that has no issue.
ToEntry(line, mapping) ==
  LET class == ClassifyRole(line.role.key, line.category, mapping.roles)
  IN  [date |-> line.date, label |-> line.role.label, role |-> line.role.key,
       category |-> class.category, method |-> class.method, confidence |-> class.confidence,
       minutes |-> line.minutes, cost |-> line.cost, currency |-> line.currency]

--------------------------------------------------------------------------------
(* A snapshot *)

\* money_text: two decimals, halves to the even cent.
EvenCents(amount) ==
  LET unit == 10 ^ (MaxDecimals - 2)
      low  == amount \div unit
      rest == 2 * (amount % unit)
  IN  IF amount = NoAmount THEN NoAmount
      ELSE IF rest > unit \/ (rest = unit /\ low % 2 = 1) THEN low + 1 ELSE low

\* What the column of a cost keeps: two decimals, halves up.
StoredCents(amount) ==
  LET unit == 10 ^ (MaxDecimals - 2)
  IN  IF amount = NoAmount THEN NoAmount ELSE (2 * amount + unit) \div (2 * unit)

WithCosts(entry, cents) == [entry EXCEPT !.cost = [f \in CostFields |-> cents[f]]]

\* _entry_row.
StoredEntry(entry) == WithCosts(entry, [f \in CostFields |-> StoredCents(entry.cost[f])])

\* canonical_payload: neither the row nor the label as it was spelled.
CanonicalPayload(entry) ==
  [WithCosts(entry, [f \in CostFields |-> EvenCents(entry.cost[f])]) EXCEPT !.label = ""]

\* snapshot_fingerprint: how often each payload occurs; the order of the rows is nothing.
SnapshotFingerprint(day, source, entries) ==
  LET payload == [n \in DOMAIN entries |-> CanonicalPayload(entries[n])]
  IN  [day |-> day, source |-> source,
       entries |-> [p \in {payload[n] : n \in DOMAIN entries} |->
                      Cardinality({n \in DOMAIN entries : payload[n] = p})]]

--------------------------------------------------------------------------------
(* A mapping and a file of [headers, rows] *)

\* LaborMappingConfig: what cannot be saved.
ValidLaborMapping(mapping) ==
  LET mapped == DOMAIN mapping.columns \cup DOMAIN mapping.constants
      stated(f) == f \in DOMAIN mapping.constants
  IN  /\ "work_date" \in mapped
      /\ mapped \cap HoursFields # {}
      /\ mapped \cap {"role", "labor_category"} # {}
      /\ DOMAIN mapping.constants \subseteq LaborConstants
      /\ DOMAIN mapping.columns \cap DOMAIN mapping.constants = {}
      /\ stated("currency") => mapping.constants["currency"].key \in Currencies
      /\ stated("labor_category") => mapping.constants["labor_category"].key \in LaborCategories
      /\ "" \notin DOMAIN mapping.roles
      /\ mapping.decimal # NoMark => mapping.decimal # mapping.thousands

\* extract: rows with a mapped cell that is not empty; every other column is dropped.
ExtractRows(mapping, file) ==
  LET cells == Extract(mapping, file)
  IN  [n \in {n \in DOMAIN cells : \E f \in DOMAIN cells[n] : ~IsBlank(cells[n][f])} |->
         mapping.constants @@ cells[n]]

\* require_explicit_formats.
UnreadableNumbers(mapping, rows) ==
  /\ mapping.decimal = NoMark /\ mapping.thousands = NoMark
  /\ \E n \in DOMAIN rows, f \in (HoursFields \cup CostFields) \cap DOMAIN mapping.columns :
       LET cell == rows[n][f]
       IN  cell.kind \in {"digits", "hours"} /\ (Len(cell.marks) > 1 \/ "," \in ToSet(cell.marks))

\* dry_run, and _run up to the staging.
JudgeLabor(mapping, file) ==
  LET rows     == ExtractRows(mapping, file)
      line     == [n \in DOMAIN rows |-> ReadRow(rows[n], mapping)]
      valid    == {n \in DOMAIN rows : line[n].issues = {}}
      Refusal(code) == [code |-> code, refused |-> <<>>, entries |-> <<>>]
  IN  IF DuplicateHeaders(file) # {} THEN Refusal("DUPLICATE_HEADER")
      ELSE IF MissingColumns(mapping, file) # {} THEN Refusal("SOURCE_SCHEMA_CHANGED")
      ELSE IF rows = <<>> THEN Refusal("EMPTY_FILE")
      ELSE IF NeedsDateFormat("work_date", {rows[n]["work_date"] : n \in DOMAIN rows}, mapping)
      THEN Refusal("AMBIGUOUS_DATE_FORMAT")
      ELSE IF UnreadableNumbers(mapping, rows) THEN Refusal("AMBIGUOUS_NUMBER_FORMAT")
      ELSE [code    |-> IF valid = DOMAIN rows THEN "READY" ELSE "VALIDATION_FAILED",
            refused |-> [n \in DOMAIN rows \ valid |-> line[n].issues],
            entries |-> [n \in valid |-> ToEntry(line[n], mapping)]]

\* What is shown before the import, of the rows it would keep.
RowsUnclassified(entries) == {n \in DOMAIN entries : entries[n].method = "UNCLASSIFIED"}

UnclassifiedLabels(entries) == {entries[n].label : n \in RowsUnclassified(entries)} \ {""}

LaborSummary(entries) ==
  LET Given(f)  == {n \in DOMAIN entries : entries[n].minutes[f] # NoAmount}
      Priced(f) == {n \in DOMAIN entries : entries[n].cost[f] # NoAmount}
      coins     == {entries[n].currency : n \in DOMAIN entries} \ {""}
  IN  [days     |-> {entries[n].date : n \in DOMAIN entries},
       departments |-> {entries[n].category : n \in DOMAIN entries},
       minutes  |-> [f \in HoursFields |-> IF Given(f) = {} THEN NoAmount
                       ELSE FoldSet(LAMBDA n, sum : sum + entries[n].minutes[f], 0, Given(f))],
       cost     |-> [f \in CostFields |-> IF Priced(f) = {} THEN NoAmount
                       ELSE FoldSet(LAMBDA n, sum : sum + entries[n].cost[f], 0, Priced(f))],
       currency |-> IF Cardinality(coins) = 1 THEN CHOOSE c \in coins : TRUE ELSE ""]
================================================================================
