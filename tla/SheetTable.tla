------------------------------- MODULE SheetTable -------------------------------
(***************************************************************************)
(* Where the table is in a sheet that is not just a table, and the rows an   *)
(* import reads of it (app/modules/document_understanding: grid, structure,  *)
(* apply).  The sheet is SCANNED once, to describe its tables, and STREAMED   *)
(* again by every import; both ask the same BodyReader what a row is.         *)
(*                                                                         *)
(* A cell is [kind, key, n, look]: EMPTY, TEXT (key is its folded text and n   *)
(* the number written after it, "Ore (2)", or 0), NUMBER (n) or DATE (n is a    *)
(* day).  A text looks "plain", is in "capitals", is a "line" of more than 50   *)
(* characters or a "paragraph" of more than 80; a date may be written as a      *)
(* "text".  A sheet is [cells, merged, head, kept]: the cells of each row with  *)
(* no blank ones at its end, the merged blocks [top, bottom, first, last], how  *)
(* many rows the scan reads from the top and the rows it keeps.  One word       *)
(* stands for all the words of the lexicon that are alike, and numbers are      *)
(* whole: the cent a total may be off by is nothing.                          *)
(***************************************************************************)
EXTENDS Integers, Sequences, FiniteSets, Functions, SequencesExt

TotalWords     == {"totale", "sum"}
NotePrefixes   == {"generato", "note"}
PageBreakWords == {"pagina"}
SectionWords   == {"reception", "cucina", "bar", "reparto:"}
HeaderStems    == {"nome", "data", "ore", "costo", "previste", "effettive", "turno", "canale", "totale",
                   "reparto:"}
EndsWithColon  == {"reparto:"}

HeaderSearchRows == 150
MaxTables        == 3
LookAhead        == 5

\* Shares are of a whole that all numbers up to 16 divide: the code's are floating point.
Unit == 720720
Share(part, whole) == IF whole = 0 THEN 0 ELSE (Unit * part) \div whole
AtLeast(m, k)      == IF m > k THEN m ELSE k
AtMost(m, k)       == IF m < k THEN m ELSE k
Half(k)            == (k + 1) \div 2
Greatest(S)        == CHOOSE m \in S : \A k \in S : k <= m
Least(S)           == CHOOSE m \in S : \A k \in S : m <= k
InOrder(S) == IF S = {} THEN <<>>
              ELSE SelectSeq([i \in 1 .. Greatest(S) |-> i], LAMBDA i : i \in S)

--------------------------------------------------------------------------------
(* One row *)

\* _scan_rows: the first rows and the last ones that are not blank.
KeptRows(cells, head, tail) ==
  LET filled == {i \in DOMAIN cells : cells[i] # <<>>}
      later  == {i \in filled : i > head}
  IN  {i \in filled : i <= head} \cup
      {i \in later : Cardinality({j \in later : j > i}) < tail}

\* _features: what the cells of a row are.
Features(number, cells) ==
  LET Of(kind) == {p \in DOMAIN cells : cells[p].kind = kind}
  IN  [number |-> number, cells |-> cells, texts |-> Of("TEXT"), values |-> Of("NUMBER"),
       dates |-> Of("DATE"), places |-> Of("TEXT") \cup Of("NUMBER") \cup Of("DATE")]

Size(row)  == Cardinality(row.places)
NoWords     == <<"", 0>>
Text(cell) == IF cell.kind = "TEXT" THEN <<cell.key, cell.n>> ELSE <<cell.kind, cell.n>>
FirstText(row) == IF row.texts = {} THEN "" ELSE row.cells[Least(row.texts)].key
HasValues(row) == row.values # {} \/ row.dates # {}
SingleText(row) == Size(row) = 1 /\ row.texts # {}
PageBreak(row)  == SingleText(row) /\ FirstText(row) \in PageBreakWords

\* _day_dates: the days of a grid, each one to three days after the one before.
DayDates(row) ==
  LET days == InOrder({p \in row.dates : row.cells[p].look # "text"})
  IN  /\ Len(days) >= 3 /\ 2 * Len(days) >= Size(row)
      /\ \A i \in 1 .. (Len(days) - 1) : row.cells[days[i + 1]].n - row.cells[days[i]].n \in 1 .. 3

\* _label_row: nearly all text.
LabelRow(row) ==
  LET labels == Cardinality(row.texts) + (IF DayDates(row) THEN Cardinality(row.dates) ELSE 0)
  IN  Size(row) >= 2 /\ row.texts # {} /\ 4 * labels >= 3 * Size(row)

Lexicon(row) ==
  Share(Cardinality({p \in row.texts : row.cells[p].key \in HeaderStems}), Cardinality(row.texts))

IsDense(row, width) == Size(row) >= AtLeast(2, Half(width))

\* looks_like_section: short and in capitals, or words of departments, or merged over the table.
LooksLikeSection(row, wide) ==
  LET text == row.cells[Least(row.texts)]
  IN  /\ text.look \notin {"line", "paragraph"}
      /\ wide \/ text.look = "capitals" \/ (text.n = 0 /\ text.key \in SectionWords)

\* classify_row: what a row of the body is, from itself and the few rows after it.
ClassifyRow(row, followers, wide) ==
  LET key      == FirstText(row)
      note     == key \in NotePrefixes \cup PageBreakWords \/ \E p \in row.texts : row.cells[p].look = "paragraph"
      followed == \E i \in DOMAIN followers : Size(followers[i]) >= 2 /\ HasValues(followers[i])
  IN  IF key \in TotalWords /\ (row.values # {} \/ Size(row) <= 2) THEN "TOTAL"
      ELSE IF SingleText(row) /\ note THEN "NOTE"
      ELSE IF SingleText(row) /\ followed /\ LooksLikeSection(row, wide) THEN "SECTION"
      ELSE "DATA"

\* is_repeated_header: the labels of the header, for the most part.
IsRepeatedHeader(row, labels) ==
  LET same == Cardinality({p \in row.texts : <<NoWords, Text(row.cells[p])>> \in labels})
  IN  Size(row) >= 2 /\ row.texts = row.places /\ same >= AtLeast(2, (6 * Size(row) + 9) \div 10)

--------------------------------------------------------------------------------
(* BodyReader: one row after the other *)

Reader(header) == [ended |-> FALSE, furniture |-> FALSE, after |-> "RECORD", afterRow |-> header]

\* More records follow the note: straight away, or, for a page break, after the running title
\* and the header printed again.
Resumes(table, note, followers) ==
  LET Skipped(r) == PageBreak(note) /\ (IsRepeatedHeader(r, table.labels) \/ SingleText(r))
      rest       == {i \in DOMAIN followers : ~Skipped(followers[i])}
      first      == followers[Least(rest)]
  IN  /\ rest # {}
      /\ IsDense(first, table.width) /\ ~LabelRow(first) /\ ClassifyRow(first, <<>>, FALSE) = "DATA"

\* BodyReader.kind: what the row is, and the reader after it.
Judge(table, reader, row, followers, wide) ==
  LET again == /\ IsRepeatedHeader(row, table.labels)
               /\ \/ reader.after = "BREAK"
                  \/ reader.after = "RECORD" /\ row.number = reader.afterRow + 1
      kind  == ClassifyRow(row, followers, wide)
      Is(k, r) == [kind |-> k, reader |-> r]
  IN  IF reader.ended THEN Is("NOTE", reader)
      ELSE IF again THEN Is("HEADER", [reader EXCEPT !.after = "BREAK"])
      ELSE IF kind = "DATA" /\ reader.furniture /\ SingleText(row) THEN Is("NOTE", reader)
      ELSE IF kind # "NOTE"
      THEN Is(kind, [reader EXCEPT !.after = "RECORD", !.afterRow = row.number, !.furniture = FALSE])
      ELSE IF Resumes(table, row, followers)
      THEN Is(kind, [reader EXCEPT !.after = "BREAK", !.furniture = TRUE])
      ELSE Is(kind, [reader EXCEPT !.ended = TRUE])

--------------------------------------------------------------------------------
(* The header: one row, or a row of groups over it *)

\* _spans_by_row: the blocks of several columns over a row, a tall block over its first four.
SpansOf(merged, number) ==
  {[first |-> b.first, last |-> b.last] :
     b \in {b \in merged : b.last > b.first /\ number \in b.top .. AtMost(b.bottom, b.top + 3)}}

\* _group_labels: the upper header line over the columns it covers, or <<>>.  Texts are compared
\* as written there, folded everywhere else.
GroupLabels(group, header, spans) ==
  LET width  == Greatest(header.places)
      Partly(s) == /\ s.last - s.first + 1 < width /\ s.last <= Len(header.cells)
                   /\ header.cells[s.first].kind # "EMPTY"
      order  == InOrder(group.places)
      repeated == /\ \E i \in 1 .. (Len(order) - 1) : group.cells[order[i]] = group.cells[order[i + 1]]
                  /\ 10 * Len(order) >= 6 * width
      doubled  == Cardinality({Text(header.cells[p]) : p \in header.places}) < Size(header)
      Ends(p)  == IF \E s \in spans : s.first = p
                  THEN (CHOOSE s \in spans : s.first = p).last
                  ELSE IF \E q \in group.places : q > p
                       THEN Least({q \in group.places : q > p}) - 1 ELSE width
      Over(c)  == {p \in group.places : p <= c /\ (IF repeated THEN p = c ELSE c <= Ends(p))}
  IN  IF \/ HasValues(group) \/ group.texts = {}
         \/ Size(group) = 1 /\ ~\E s \in spans : Partly(s)
         \/ spans = {} /\ ~repeated /\ ~doubled
      THEN <<>>
      ELSE [c \in 1 .. width |-> IF Over(c) = {} THEN NoWords ELSE Text(group.cells[Greatest(Over(c))])]

\* _build_columns: labels that are unique and never empty.  A label is <<group, text>>; the number
\* that tells it from an earlier one is written behind the text's own.
BuildColumns(header, groups) ==
  LET Sub(i)   == IF i \in header.places THEN Text(header.cells[i]) ELSE NoWords
      Group(i) == IF i \in DOMAIN groups /\ groups[i] # Sub(i) THEN groups[i] ELSE NoWords
      Base(i)  == IF Sub(i) = NoWords /\ Group(i) = NoWords THEN <<NoWords, <<"column", i>>>>
                  ELSE IF Sub(i) = NoWords THEN <<NoWords, Group(i)>> ELSE <<Group(i), Sub(i)>>
      Nth(i)   == Cardinality({j \in 1 .. i : Base(j) = Base(i)})
  IN  [i \in 1 .. Greatest(header.places) |->
         [label |-> IF Nth(i) = 1 THEN Base(i) ELSE [Base(i) EXCEPT ![2][2] = 10 * @ + Nth(i)],
          group |-> Group(i), raw |-> Sub(i)]]

HeaderLabels(columns) ==
  UNION {{<<NoWords, columns[i].raw>>, <<NoWords, columns[i].group>>, columns[i].label} :
           i \in DOMAIN columns} \ {<<NoWords, NoWords>>}

--------------------------------------------------------------------------------
(* The extent of a table *)

\* _total_check: does a total add up the rows above it, up to a cent.
TotalCheck(row, rows, members, columns) ==
  LET Column(i)  == {n \in members : i \in rows[n].values}
      Adds(i)    == FoldSet(LAMBDA n, sum : sum + rows[n].cells[i].n, 0, Column(i)) = row.cells[i].n
      checked    == {i \in DOMAIN columns : i \in row.values /\ Column(i) # {}}
      matched    == {i \in checked : Adds(i)}
  IN  CASE checked = {} -> "UNVERIFIED" [] checked # {} /\ matched = checked -> "MATCH"
        [] checked # {} /\ matched = {} -> "MISMATCH" [] OTHER -> "PARTIAL"

Wide(spans, width) == \E s \in spans : s.last - s.first + 1 >= AtLeast(3, Half(width))

After(numbers, i, rows) ==
  [k \in 1 .. AtMost(LookAhead, Len(numbers) - i) |-> rows[numbers[i + k]]]

\* _walk_body: what every row after the header is.  Sparse rows after the last dense one are a
\* footer.
WalkBody(rows, first, columns, merged, stop) ==
  LET table   == [width |-> Len(columns), labels |-> HeaderLabels(columns)]
      numbers == InOrder({n \in DOMAIN rows : n >= first /\ n < stop})
      start   == [reader |-> Reader(first - 1), data |-> {}, left |-> {}, totals |-> {},
                  sections |-> {}, since |-> {}, dense |-> 0]
      Step(body, i) ==
        LET row  == rows[numbers[i]]
            told == Judge(table, body.reader, row, After(numbers, i, rows),
                          Wide(SpansOf(merged, row.number), table.width))
            next == [body EXCEPT !.reader = told.reader]
            Left(b) == [b EXCEPT !.left = @ \cup {[number |-> row.number, kind |-> told.kind]}]
        IN  CASE told.kind = "TOTAL" ->
                   [Left(next) EXCEPT !.since = {}, !.totals = @ \cup
                      {[number |-> row.number, state |-> TotalCheck(row, rows, body.since, columns)]}]
              [] told.kind = "SECTION" ->
                   [Left(next) EXCEPT !.since = {}, !.sections = @ \cup {row.number}]
              [] told.kind \in {"NOTE", "HEADER"} -> Left(next)
              [] OTHER -> [next EXCEPT !.data = @ \cup {row.number}, !.since = @ \cup {row.number},
                             !.dense = IF IsDense(row, table.width) THEN row.number ELSE @]
      body   == FoldLeft(Step, start, [i \in DOMAIN numbers |-> i])
      footer == IF body.dense = 0 THEN {} ELSE {n \in body.data : n > body.dense}
  IN  [data     |-> body.data \ footer,
       left     |-> body.left \cup {[number |-> n, kind |-> "NOTE"] : n \in footer},
       totals   |-> body.totals,
       sections |-> body.sections,
       lastRow  |-> Greatest({body.dense} \cup {t.number : t \in body.totals} \cup body.sections)]

\* _is_page_header: straight after a record, or after a page break and the running title.
IsPageHeader(rows, number, labels) ==
  LET before == InOrder({n \in DOMAIN rows : n < number})
      Back(k) == rows[before[Len(before) + 1 - k]]
  IN  /\ IsRepeatedHeader(rows[number], labels) /\ before # <<>>
      /\ \/ Back(1).number = number - 1 /\ Size(Back(1)) >= 2 /\ ~LabelRow(Back(1))
         \/ \E k \in 1 .. AtMost(3, Len(before)) :
              PageBreak(Back(k)) /\ \A j \in 1 .. (k - 1) : SingleText(Back(j))

\* _like_the_records_above: values in the very places where the record above has them.
LikeTheRecordsAbove(rows, header, number) ==
  LET row    == rows[number]
      above  == {n \in DOMAIN rows : n > header /\ n < number /\ Size(rows[n]) >= 2 /\ ~LabelRow(rows[n])}
      other  == rows[Greatest(above)]
      places == row.places \cup other.places
      Kind(r, p) == IF p \in DOMAIN r.cells THEN r.cells[p].kind ELSE "EMPTY"
      same   == {p \in places : Kind(row, p) = Kind(other, p)}
  IN  /\ HasValues(row) /\ above # {}
      /\ 10 * Cardinality(same) >= 8 * Cardinality(places)

\* _next_header: where another table starts: a row of labels with values under it.
NextHeader(rows, header, labels) ==
  LET later == InOrder({n \in DOMAIN rows : n > header.number})
      Starts(i) ==
        LET row == rows[later[i]]
        IN  /\ LabelRow(row) /\ Size(row) >= AtLeast(3, Half(Size(header)))
            /\ ~IsPageHeader(rows, later[i], labels)
            /\ 2 * Lexicon(row) >= Unit
            /\ ~LikeTheRecordsAbove(rows, header.number, later[i])
            /\ \E k \in (i + 1) .. AtMost(i + 3, Len(later)) :
                 Size(rows[later[k]]) >= 2 /\ HasValues(rows[later[k]])
      starts == {i \in DOMAIN later : Starts(i)}
      number == later[Least(starts)]
  IN  IF starts = {} THEN {}
      ELSE IF number - 1 \in DOMAIN rows /\ LabelRow(rows[number - 1]) THEN {number - 1}
      ELSE {number}

--------------------------------------------------------------------------------
(* The tables of one sheet *)

\* The table whose header is this row, or none: [header, first, last, ...].
Candidates(sheet, rows, number, claimed) ==
  LET row     == rows[number]
      groups  == IF number - 1 \in DOMAIN rows /\ number - 1 \notin claimed
                 THEN GroupLabels(rows[number - 1], row, SpansOf(sheet.merged, number - 1)) ELSE <<>>
      columns == BuildColumns(row, groups)
      stops   == NextHeader(rows, row, HeaderLabels(columns)) \cup {n \in claimed : n > number}
      body    == WalkBody(rows, number + 1, columns, sheet.merged,
                          IF stops = {} THEN Len(sheet.cells) + 1 ELSE Least(stops))
      count   == IF \A n \in DOMAIN rows : n <= sheet.head
                 THEN Cardinality(body.data)
                 ELSE AtLeast(Cardinality(body.data),
                              Greatest(DOMAIN rows) - number - Cardinality(body.left))
      widest  == Greatest({Size(rows[n]) : n \in {n \in DOMAIN rows : n <= HeaderSearchRows /\ n \notin claimed}})
      unlike  == Cardinality({Text(row.cells[p]) : p \in row.places}) = Size(row)
  IN  IF ~LabelRow(row) \/ body.data = {} THEN {}
      ELSE {[headers |-> IF groups = <<>> THEN {number} ELSE {number - 1, number},
             header |-> number, columns |-> columns, body |-> body, lastRow |-> body.lastRow,
             value |-> count * Len(columns), preamble |-> {},
             score |-> 35 * Lexicon(row) + 25 * AtMost(Unit, Share(count, 8))
                         + 15 * Share(Size(row), widest) + 15 * Share(Cardinality(row.texts), Size(row))
                         + (IF unlike THEN 10 ELSE 5) * Unit]}

\* _best_table: by its score and by how much table it is; of equals the one higher up.
BestTable(sheet, rows, claimed) ==
  LET all  == UNION {Candidates(sheet, rows, n, claimed) :
                       n \in {n \in DOMAIN rows : n <= HeaderSearchRows /\ n \notin claimed}}
      most == AtLeast(1, Greatest({t.value : t \in all}))
      Key(t) == <<6 * t.score + 400 * Share(t.value, most), -Least(t.headers), -t.header>>
  IN  IF all = {} THEN {}
      ELSE {CHOOSE t \in all : \A o \in all \ {t} :
              \E k \in 1 .. 3 : Key(t)[k] > Key(o)[k] /\ \A j \in 1 .. (k - 1) : Key(t)[j] = Key(o)[j]}

\* _is_label_block: "Reparto: Spa", lines above a table and not a table.
IsLabelBlock(table) == Len(table.columns) = 2 /\ table.columns[1].label[2][1] \in EndsWithColon

\* analyze_sheet: at most three tables, the biggest first, each with the lines above it.
AnalyzeSheet(sheet) ==
  LET rows    == [n \in sheet.kept |-> Features(n, sheet.cells[n])]
      Claimed(found) == UNION {Least(t.headers) .. AtLeast(t.lastRow, Greatest(t.headers)) : t \in found}
      Another(found, k) == found \cup BestTable(sheet, rows, Claimed(found))
      tables  == IF sheet.kept = {} THEN {} ELSE FoldLeft(Another, {}, [k \in 1 .. MaxTables |-> k])
      Floor(t) == {AtLeast(o.lastRow, Greatest(o.headers)) :
                     o \in {o \in tables : o.header < t.header /\ ~IsLabelBlock(o)}}
      Above(t) == {n \in sheet.kept : n < Least(t.headers) /\ n > Greatest({0} \cup Floor(t))}
      Before(a, b) == a.value > b.value \/ (a.value = b.value /\ Least(a.headers) < Least(b.headers))
      Place(t) == Cardinality({o \in tables : Before(o, t)}) + 1
  IN  [i \in 1 .. Cardinality(tables) |->
         LET t == CHOOSE t \in tables : Place(t) = i IN [t EXCEPT !.preamble = Above(t)]]

--------------------------------------------------------------------------------
(* The rows an import reads *)

\* build_plan: where each column that stays is in the rows of another sheet's table, or 0.
Sources(columns, kept, own) ==
  [i \in DOMAIN kept |-> Greatest({0} \cup {j \in DOMAIN own : own[j].label = columns[kept[i]].label})]

\* generate: the records of the tables, [name, sheet, table], that are read as one: one per row or,
\* for a grid of days, one per day somebody works.  The plan is [kept, days, department, title,
\* renumber]: the columns that stay, the [column, day] of a grid, where the department is said
\* ("": nowhere), the department of the title, and whether the records are counted anew.
Generate(parts, plan) ==
  LET OfPart(part) ==
        LET table   == part.table
            from    == Sources(parts[1].table.columns, plan.kept, table.columns)
            rows    == [n \in {n \in DOMAIN part.sheet.cells : part.sheet.cells[n] # <<>>} |->
                          Features(n, part.sheet.cells[n])]
            numbers == InOrder({n \in DOMAIN rows : n > table.header /\ n <= table.lastRow})
            known   == [width |-> Len(table.columns), labels |-> HeaderLabels(table.columns)]
            At(row, p) == IF p \in row.places THEN {row.cells[p]} ELSE {}
            Record(row, section, day, hours) ==
              [sheet |-> part.name, row |-> row.number, day |-> day, hours |-> hours,
               cells |-> [i \in DOMAIN from |-> At(row, from[i])],
               department |-> CASE plan.department = "SECTION" -> section
                                [] plan.department = "SHEET" -> part.name
                                [] plan.department = "TITLE" -> plan.title [] OTHER -> ""]
            Zero(cell)  == cell.kind = "NUMBER" /\ cell.n = 0
            Worked(row) == SelectSeq(plan.days, LAMBDA d : \E cell \in At(row, d.column) : ~Zero(cell))
            Records(row, section) ==
              IF plan.days = <<>> THEN <<Record(row, section, 0, {})>>
              ELSE [i \in DOMAIN Worked(row) |->
                      Record(row, section, Worked(row)[i].day, At(row, Worked(row)[i].column))]
            Step(s, i) ==
              LET row  == rows[numbers[i]]
                  told == Judge(known, s.reader, row, After(numbers, i, rows), FALSE)
                  next == [s EXCEPT !.reader = told.reader]
              IN  IF row.number \in table.body.sections THEN [s EXCEPT !.section = FirstText(row)]
                  ELSE CASE told.kind = "SECTION" -> [next EXCEPT !.section = FirstText(row)]
                         [] told.kind = "DATA" -> [next EXCEPT !.records = @ \o Records(row, s.section)]
                         [] OTHER -> next
            start   == [reader |-> Reader(table.header), section |-> "", records |-> <<>>]
        IN  FoldLeft(Step, start, [i \in DOMAIN numbers |-> i]).records
      records == FoldLeft(LAMBDA all, part : all \o OfPart(part), <<>>, parts)
      Number(k) == IF plan.renumber THEN k + 1 ELSE records[k].row
  IN  [k \in DOMAIN records |-> [number |-> Number(k)] @@ records[k]]
================================================================================
