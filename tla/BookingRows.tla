------------------------------ MODULE BookingRows ------------------------------
(***************************************************************************)
(* What one line of a booking file means: the columns a confirmed mapping   *)
(* keeps, the instants, dates, amounts, statuses and channels read from     *)
(* them, and the lines that are refused (app/modules/bookings: mapping,     *)
(* normalization, statuses, channels and the first half of the service).    *)
(*                                                                         *)
(* A cell is a record of one of these kinds:                                *)
(*   blank                                                                  *)
(*   text    key, label, length    a label, or any cell of a column of     *)
(*           labels; key "" when it has no letter or digit                  *)
(*   instant at                a text with an offset of its own             *)
(*   wall    at, form, weekday a date that can be read one way: a typed cell *)
(*                             ("cell"), a month with a name ("named"), year *)
(*                             first ("iso"); weekday may be AnyDay         *)
(*   parts   first, second, weekday    two numbers and a year: 04/05/2026   *)
(*   number  n, scale          a typed number, n / 10^scale                 *)
(*   digits  negative, groups, marks   digits [value, size] with the marks  *)
(*                             between them, the hotel's currency taken off *)
(* A mapping is [columns, constants, patterns, decimal, thousands, statuses, *)
(* channels]: fields to columns, to values, to DateOrders, two marks or      *)
(* NoMark, keys of labels to statuses, and to [name, type].                 *)
(***************************************************************************)
EXTENDS LocalDays, Sequences, FiniteSets, SequencesExt

CONSTANTS
  AnyDay,                     \* no weekday is written before the date
  NoMark,                     \* a separator that is not configured
  MonthsOfYear, DaysOfMonth,  \* the calendar: twelve months, of one length here
  MaxText, MaxId,             \* _MAX_TEXT and _MAX_SOURCE_ID
  MaxInt, MaxMoney            \* _MAX_INT and MAX_MONEY, in units

DateFields == {"booked_at", "check_in", "check_out", "cancelled_at"}
InstantFields == {"booked_at", "cancelled_at"}
AmountFields == {"room_revenue", "total_revenue", "commission_amount", "commission_rate"}
CountFields == {"rooms", "guests"}
RequiredFields == {"source_record_id", "booked_at", "check_in", "check_out", "status", "rooms",
                   "room_revenue", "channel"}
ConstantFields == {"rooms", "status", "channel"}
Fields == RequiredFields \cup AmountFields \cup DateFields \cup CountFields
            \cup {"room_type", "rate_plan"}

Read(value) == [ok |-> TRUE, value |-> value]
Problem(code) == [ok |-> FALSE, code |-> code]

--------------------------------------------------------------------------------
(* Dates and instants *)

DateOrders == {"ISO", "DMY", "MDY"}

\* The day of a date written in two numbers, of the one year there is, or -1 when the
\* calendar has none.
DayOfParts(cell, order) ==
  LET day   == IF order = "DMY" THEN cell.first ELSE cell.second
      month == IF order = "DMY" THEN cell.second ELSE cell.first
  IN  IF month \in 1 .. MonthsOfYear /\ day \in 1 .. DaysOfMonth
      THEN (month - 1) * DaysOfMonth + day - 1 ELSE -1

\* _parse_datetime_string and the typed cells: the wall time a cell denotes, or -1.  A
\* configured pattern is the only way its column is read, month names apart.
WallOf(field, cell, mapping) ==
  LET configured == field \in DOMAIN mapping.patterns
      order      == mapping.patterns[field]
  IN  IF cell.kind = "wall" /\ (cell.form # "iso" \/ ~configured \/ order = "ISO") THEN cell.at
      ELSE IF /\ cell.kind = "parts" /\ configured /\ order # "ISO"
              /\ DayOfParts(cell, order) >= 0
      THEN DayOfParts(cell, order) * DayLength
      ELSE -1

\* weekday_agrees.
WeekdayAgrees(cell, wall) == cell.weekday \in {AnyDay, (wall \div DayLength) % 7}

\* The two readings of a wall time: fold=0, and fold=1.
LaterInstantOf(w, z) ==
  LET early == w - z.before
      late  == w - z.after
  IN  IF early < z.at /\ late < z.at THEN early ELSE late

\* _as_utc: never chooses between two readings.
AsUtc(w, z) ==
  LET first == InstantOf(w, z)
  IN  IF first = LaterInstantOf(w, z) THEN Read(first)
      ELSE IF WallClock(first, z) # w THEN Problem("NONEXISTENT_LOCAL_TIME")
      ELSE Problem("AMBIGUOUS_LOCAL_TIME")

InvalidDate(field) ==
  Problem(IF field \in InstantFields THEN "INVALID_DATETIME" ELSE "INVALID_DATE")

\* parse_datetime_value and parse_date_value.
ParseDate(field, cell, mapping, z) ==
  LET wall == WallOf(field, cell, mapping)
  IN  IF cell.kind = "instant" /\ field \notin DOMAIN mapping.patterns
      THEN Read(IF field \in InstantFields THEN cell.at ELSE LocalDateOf(cell.at, z))
      ELSE IF wall < 0 THEN InvalidDate(field)
      ELSE IF ~WeekdayAgrees(cell, wall) THEN InvalidDate(field)
      ELSE IF field \in InstantFields THEN AsUtc(wall, z)
      ELSE Read(wall \div DayLength)

\* detect_date_order: what the values of one column prove.
DetectDateOrder(column) ==
  LET parts == {cell \in column : cell.kind = "parts" /\ cell.weekday = AnyDay}
      dmy   == \E cell \in parts : cell.first > MonthsOfYear
      mdy   == \E cell \in parts : cell.second > MonthsOfYear
  IN  IF parts = {} THEN IF \E cell \in column : /\ cell.kind = "wall" /\ cell.form = "iso"
                                                /\ cell.weekday = AnyDay
                         THEN "ISO" ELSE "UNKNOWN"
      ELSE IF dmy /\ mdy THEN "CONFLICT"
      ELSE IF dmy THEN "DMY" ELSE IF mdy THEN "MDY" ELSE "AMBIGUOUS"

\* needs_date_format: a date behind a weekday does not ask; it is refused line by line.
NeedsDateFormat(field, column, mapping) ==
  /\ field \notin DOMAIN mapping.patterns
  /\ \E cell \in column : cell.kind = "parts" /\ cell.weekday = AnyDay

--------------------------------------------------------------------------------
(* Numbers *)

PointOf(mapping) == IF mapping.decimal = NoMark THEN "." ELSE mapping.decimal

\* A number in marks: a fraction after the decimal mark, groups of three between thousands
\* marks, nothing else.  Thousands marks are taken out first: a mapping whose two marks
\* coincide (thousands "." and no decimal mark) reads 7.5 as 75.
MarkedNumber(cell, mapping) ==
  LET count    == Len(cell.groups)
      fraction == count > 1 /\ cell.marks[count - 1] = PointOf(mapping)
      whole    == IF fraction THEN count - 1 ELSE count
      grouped  == /\ \A i \in 1 .. (whole - 1) : cell.marks[i] = mapping.thousands
                  /\ whole > 1 => /\ cell.groups[1].size <= 3
                                  /\ \A i \in 2 .. whole : cell.groups[i].size = 3
      value    == FoldLeft(LAMBDA n, g : n * 10 ^ g.size + g.value, 0, cell.groups)
  IN  IF grouped
      THEN Read([n |-> IF cell.negative THEN -value ELSE value,
                 scale |-> IF fraction /\ PointOf(mapping) # mapping.thousands
                           THEN cell.groups[count].size ELSE 0])
      ELSE Problem("INVALID_NUMBER")

\* parse_decimal_string: bookings refuse such a mapping's numbers.
ParseDecimal(cell, mapping) ==
  IF PointOf(mapping) = mapping.thousands THEN Problem("INVALID_NUMBER")
  ELSE MarkedNumber(cell, mapping)

\* _decimal_from_cell.
DecimalOf(cell, mapping) ==
  CASE cell.kind = "number" -> Read([n |-> cell.n, scale |-> cell.scale])
    [] cell.kind = "digits" -> ParseDecimal(cell, mapping)
    [] OTHER -> Problem("INVALID_NUMBER")

\* parse_amount: exact to the cent, or to the fourth decimal of a percentage.
ParseAmount(field, cell, mapping) ==
  LET rate   == field = "commission_rate"
      number == DecimalOf(cell, mapping)
      step   == 10 ^ (IF rate THEN 4 ELSE 2)
      unit   == 10 ^ number.value.scale
      amount == (number.value.n * step) \div unit
  IN  IF ~number.ok THEN number
      ELSE IF (number.value.n * step) % unit # 0 THEN Problem("AMOUNT_PRECISION")
      ELSE IF amount < 0 THEN Problem("NEGATIVE_VALUE")
      ELSE IF amount > (IF rate THEN 100 ELSE MaxMoney) * step THEN Problem("OUT_OF_RANGE")
      ELSE Read(amount)

\* parse_integer: text may end in a fraction of zeros, with either mark.
ParseInteger(cell) ==
  LET whole == CASE cell.kind = "number" -> cell.n % 10 ^ cell.scale = 0
                 [] cell.kind = "digits" -> /\ ~cell.negative
                                            /\ Len(cell.groups) <= 2
                                            /\ Len(cell.groups) = 2 => cell.groups[2].value = 0
                 [] OTHER -> FALSE
      value == IF cell.kind = "number" THEN cell.n \div 10 ^ cell.scale ELSE cell.groups[1].value
  IN  IF ~whole THEN Problem("INVALID_INTEGER")
      ELSE IF value > MaxInt THEN Problem("OUT_OF_RANGE")
      ELSE Read(value)

PositiveInteger(cell) ==
  LET number == ParseInteger(cell)
  IN  IF number.ok THEN IF number.value > 0 THEN number ELSE Problem("NOT_POSITIVE")
      ELSE number

\* needs_number_format: a comma, or two points.
NeedsNumberFormat(column, mapping) ==
  /\ mapping.decimal = NoMark /\ mapping.thousands = NoMark
  /\ \E cell \in column :
       cell.kind = "digits" /\ ("," \in {cell.marks[i] : i \in DOMAIN cell.marks}
                                  \/ Len(cell.marks) > 1)

--------------------------------------------------------------------------------
(* Labels *)

ParseText(cell, limit) ==
  IF cell.length > limit THEN Problem("VALUE_TOO_LONG")
  ELSE Read(cell.label)

\* The status words every hotel has.
BuiltinStatuses ==
  [k \in {"confirmed", "cancelled", "no show", "checked in", "checked out"} |->
     CASE k = "confirmed" -> "CONFIRMED" [] k = "cancelled" -> "CANCELLED"
       [] k = "no show" -> "NO_SHOW" [] k = "checked in" -> "CHECKED_IN"
       [] k = "checked out" -> "CHECKED_OUT"]

\* resolve_status: the profile's words first; a word nobody knows is never confirmed.
ResolveStatus(cell, statuses) ==
  IF cell.length > MaxText THEN Problem("VALUE_TOO_LONG")
  ELSE IF cell.key \in DOMAIN statuses THEN Read(statuses[cell.key])
  ELSE IF cell.key \in DOMAIN BuiltinStatuses THEN Read(BuiltinStatuses[cell.key])
  ELSE Problem("UNKNOWN_STATUS")

KnownChannelTypes ==
  [k \in {"booking com", "expedia", "airbnb", "direct", "diretto"} |->
     IF k \in {"direct", "diretto"} THEN "DIRECT" ELSE "OTA"]

\* resolve_channel: a type given in the mapping is the customer's decision, a built-in
\* one only a hint.  A channel is known by the key of its name.
ResolveChannel(cell, channels) ==
  LET named == cell.key \in DOMAIN channels /\ channels[cell.key].name # ""
      key   == IF named THEN channels[cell.key].name ELSE cell.key
      told  == cell.key \in DOMAIN channels /\ channels[cell.key].type # ""
  IN  IF cell.length > MaxText THEN Problem("VALUE_TOO_LONG")
      ELSE IF cell.key = "" THEN Problem("REQUIRED_VALUE_MISSING")
      ELSE Read([key      |-> key,
                 verified |-> told,
                 type     |-> IF told THEN channels[cell.key].type
                              ELSE IF key \in DOMAIN KnownChannelTypes THEN KnownChannelTypes[key]
                              ELSE "OTHER"])

--------------------------------------------------------------------------------
(* One line *)

Parse(field, cell, mapping, z) ==
  CASE field \in DateFields -> ParseDate(field, cell, mapping, z)
    [] field \in AmountFields -> ParseAmount(field, cell, mapping)
    [] field \in CountFields -> PositiveInteger(cell)
    [] field = "status" -> ResolveStatus(cell, mapping.statuses)
    [] field = "channel" -> ResolveChannel(cell, mapping.channels)
    [] field = "source_record_id" -> ParseText(cell, MaxId)
    [] OTHER -> ParseText(cell, MaxText)

\* normalize_row: every field is looked at, so that all the problems are known; a line
\* with one gives no booking.  Constants win over columns.
NormalizeRow(row, mapping, z) ==
  LET cells    == mapping.constants @@ row
      filled   == {f \in Fields \cap DOMAIN cells : cells[f].kind # "blank"}
      outcome  == [f \in filled |-> Parse(f, cells[f], mapping, z)]
      read     == {f \in filled : outcome[f].ok}
      missing  == {<<f, "REQUIRED_VALUE_MISSING">> : f \in RequiredFields \ filled}
      unread   == {<<f, outcome[f].code>> : f \in filled \ read}
      backward == IF /\ {"check_in", "check_out"} \subseteq read
                     /\ outcome["check_out"].value <= outcome["check_in"].value
                  THEN {<<"check_out", "CHECK_OUT_NOT_AFTER_CHECK_IN">>} ELSE {}
      revived  == IF /\ {"cancelled_at", "status"} \subseteq read
                     /\ outcome["status"].value # "CANCELLED"
                  THEN {<<"cancelled_at", "CANCELLED_AT_WITHOUT_CANCELLED_STATUS">>} ELSE {}
      issues   == missing \cup unread \cup backward \cup revived
  IN  [issues  |-> issues,
       booking |-> IF issues = {} THEN [f \in read |-> outcome[f].value] ELSE <<>>]

\* NormalizedBooking.fingerprint: everything it says about the stay, and of the channel
\* its key: a name spelled otherwise, or a type, changes nothing.
Fingerprint(booking) == [booking EXCEPT !["channel"] = booking["channel"].key]

--------------------------------------------------------------------------------
(* A mapping, and whether it fits a file of [headers, rows] *)

\* MappingConfig: what cannot even be saved.
ValidMapping(mapping) ==
  /\ RequiredFields \subseteq DOMAIN mapping.columns \cup DOMAIN mapping.constants
  /\ DOMAIN mapping.columns \cap DOMAIN mapping.constants = {}
  /\ DOMAIN mapping.constants \subseteq ConstantFields
  /\ "rooms" \in DOMAIN mapping.constants => PositiveInteger(mapping.constants["rooms"]).ok
  /\ "status" \in DOMAIN mapping.constants =>
       ResolveStatus(mapping.constants["status"], mapping.statuses).ok
  /\ "channel" \in DOMAIN mapping.constants => mapping.constants["channel"].key # ""
  /\ DOMAIN mapping.patterns \subseteq DateFields
  /\ mapping.decimal # NoMark => mapping.decimal # mapping.thousands
  /\ "" \notin DOMAIN mapping.statuses \cup DOMAIN mapping.channels

Headers(file) == {file.headers[i] : i \in DOMAIN file.headers} \ {""}

\* find_duplicate_headers.
DuplicateHeaders(file) ==
  {h \in Headers(file) : Cardinality({i \in DOMAIN file.headers : file.headers[i] = h}) > 1}

\* check_schema and save_mapping: every mapped column, and perhaps others.
MissingColumns(mapping, file) == {mapping.columns[f] : f \in DOMAIN mapping.columns} \ Headers(file)

\* header_index, and _extract: the mapped cells of every line, and no others.
Extract(mapping, file) ==
  LET Place(h) == CHOOSE i \in DOMAIN file.headers : file.headers[i] = h
  IN  [n \in DOMAIN file.rows |->
         [f \in DOMAIN mapping.columns |-> file.rows[n][Place(mapping.columns[f])]]]

Column(rows, field) == {rows[n][field] : n \in DOMAIN rows}

\* _require_explicit_formats: dates and amounts that mean two things, column by column.
AmbiguousDates(mapping, rows) ==
  {f \in DateFields \cap DOMAIN mapping.columns : NeedsDateFormat(f, Column(rows, f), mapping)}
AmbiguousNumbers(mapping, rows) ==
  {f \in AmountFields \cap DOMAIN mapping.columns : NeedsNumberFormat(Column(rows, f), mapping)}

\* parse_source_record_id: the record a line is about, if it says so.
RecordOf(row) ==
  LET id == row["source_record_id"]
  IN  IF id.kind = "blank" THEN Problem("REQUIRED_VALUE_MISSING") ELSE ParseText(id, MaxId)

\* _validate: two lines about one record are both refused.
Validate(mapping, rows, z) ==
  [n \in DOMAIN rows |->
     LET line == NormalizeRow(rows[n], mapping, z)
         twin == \E m \in DOMAIN rows \ {n} : /\ RecordOf(rows[n]).ok /\ RecordOf(rows[m]).ok
                                              /\ RecordOf(rows[m]).value = RecordOf(rows[n]).value
     IN  IF twin THEN [issues  |-> line.issues \cup {<<"source_record_id", "DUPLICATE_SOURCE_ID">>},
                       booking |-> <<>>]
         ELSE line]

\* dry_run, and _run up to the staging: the first check that applies decides.
Judge(mapping, file, z) ==
  LET rows    == Extract(mapping, file)
      lines   == Validate(mapping, rows, z)
      refused == {n \in DOMAIN rows : lines[n].issues # {}}
      Refusal(code) == [code |-> code, lines |-> <<>>]
  IN  IF DuplicateHeaders(file) # {} THEN Refusal("DUPLICATE_HEADER")
      ELSE IF MissingColumns(mapping, file) # {} THEN Refusal("SOURCE_SCHEMA_CHANGED")
      ELSE IF AmbiguousDates(mapping, rows) # {} THEN Refusal("AMBIGUOUS_DATE_FORMAT")
      ELSE IF AmbiguousNumbers(mapping, rows) # {} THEN Refusal("AMBIGUOUS_NUMBER_FORMAT")
      ELSE [code |-> IF refused = {} THEN "READY" ELSE "VALIDATION_FAILED", lines |-> lines]

--------------------------------------------------------------------------------
(* Suggested columns: `score` maps <<header, field>> to 0 .. 100, 100 for a known name *)

\* suggest_fields: known names first, then the closest, then the order of the fields and
\* of the columns; a field and a header are used once.
SuggestFields(headers, order, score, low) ==
  LET Spot(seq, x) == CHOOSE i \in DOMAIN seq : seq[i] = x /\ \A j \in 1 .. (i - 1) : seq[j] # x
      candidates == {c \in ToSet(headers) \X ToSet(order) : score[c] >= low}
      Key(c)     == <<100 - score[c], Spot(order, c[2]), Spot(headers, c[1])>>
      Before(a, b) == \E k \in 1 .. 3 : /\ Key(a)[k] < Key(b)[k]
                                        /\ \A j \in 1 .. (k - 1) : Key(a)[j] = Key(b)[j]
      ranked     == SetToSortSeq(candidates, Before)
      Take(chosen, c) ==
        IF \E d \in chosen : d[1] = c[1] \/ d[2] = c[2] THEN chosen ELSE chosen \cup {c}
  IN  FoldLeft(Take, {}, ranked)

SuggestionConfidence(score, medium) ==
  IF score = 100 THEN "HIGH" ELSE IF score >= medium THEN "MEDIUM" ELSE "LOW"
================================================================================
