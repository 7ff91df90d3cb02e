-------------------------- MODULE MCDecisionReads --------------------------
(***************************************************************************)
(* One client reading one hotel with three Decisions, one a page, while up *)
(* to four runs over two days commit.  The assumptions below state what the *)
(* readers of a sheet and of a workbook promise.                           *)
(***************************************************************************)
EXTENDS DecisionReads, SheetTable, DocumentTables, DecisionContent

CONSTANTS h1, d1, d2, d3

MCEval(d, s) == [identity |-> d, status |-> s, reading |-> 1]

MCJob(day, evaluations) ==
  [property |-> h1, asOf |-> day, evaluations |-> evaluations,
   ranked |-> {evaluations[k] : k \in
                 {k \in DOMAIN evaluations : evaluations[k].status = "TRIGGERED"}},
   context |-> 1]

MCInput ==
  { MCJob(1, <<MCEval(d1, "TRIGGERED"), MCEval(d2, "TRIGGERED"),
               MCEval(d3, "TRIGGERED")>>),
    MCJob(1, <<MCEval(d1, "CLEAR"), MCEval(d2, "TRIGGERED")>>),
    MCJob(1, <<MCEval(d1, "TRIGGERED")>>),
    MCJob(2, <<MCEval(d1, "TRIGGERED"), MCEval(d2, "TRIGGERED")>>),
    MCJob(2, <<MCEval(d2, "CLEAR"), MCEval(d3, "TRIGGERED")>>),
    MCJob(2, <<MCEval(d1, "INSUFFICIENT_DATA"), MCEval(d3, "CLEAR")>>) }

MCIdOrder == [d \in Identity |-> CASE d = d1 -> 1 [] d = d2 -> 2 [] d = d3 -> 3]

-----------------------------------------------------------------------------
(***************************************************************************)
(* What reading a document as a table promises: the rows and columns of a  *)
(* sheet, the days of a grid, and the choice among the tables of a workbook.*)
(***************************************************************************)

(***************************************************************************)
(* What SheetTable promises, on every sheet of a few rows: the printed       *)
(* furniture a hotel's file has (the header again, a department line, a       *)
(* total, a note, a page break, a lonely name, blank rows) in every order      *)
(* under a header and a record, headers of two lines with merged cells, and    *)
(* grids of days.                                                            *)
(***************************************************************************)
Looking(kind, key, n) == [kind |-> kind, key |-> key, n |-> n, look |-> "plain"]
Blank     == Looking("EMPTY", "", 0)
Word(key) == Looking("TEXT", key, 0)
Figure(n) == Looking("NUMBER", "", n)
OnDay(n)  == Looking("DATE", "", n)

HeaderLine == <<Word("nome"), Word("data"), Word("ore")>>
RecordLine == <<Word("rossi"), OnDay(1), Figure(8)>>
Lines == <<HeaderLine, RecordLine, <<Word("verdi")>>, <<Word("reception")>>,
           <<Word("totale"), Blank, Figure(8)>>, <<Word("generato")>>, <<Word("pagina")>>, <<>>>>

Lists(k) == {[i \in 1 .. k |-> Lines[choice[i]]] : choice \in [1 .. k -> DOMAIN Lines]}
SheetOf(cells, head, tail) ==
  [cells |-> cells, merged |-> {}, head |-> head, kept |-> KeptRows(cells, head, tail)]
Printed  == {SheetOf(<<HeaderLine, RecordLine>> \o list, 400, 60) : list \in Lists(4)}
Gap      == {<<HeaderLine, RecordLine, RecordLine>> \o list \o <<RecordLine, RecordLine>> : list \in Lists(3)}

\* What the scan describes of each sheet, and what the import reads of each table.
Described == {[sheet |-> sheet, tables |-> AnalyzeSheet(sheet)] : sheet \in Printed}
PartOf(name, sheet, table) == [name |-> name, sheet |-> sheet, table |-> table]
AllColumns(table) ==
  [kept |-> [i \in DOMAIN table.columns |-> i], days |-> <<>>, department |-> "SECTION", title |-> "",
   renumber |-> FALSE]
Imported(sheet, table) == Generate(<<PartOf("s1", sheet, table)>>, AllColumns(table))
Readings == {[sheet |-> d.sheet, table |-> d.tables[i], records |-> Imported(d.sheet, d.tables[i])] :
               <<d, i>> \in {<<d, i>> \in Described \X (1 .. MaxTables) : i \in DOMAIN d.tables}}
RowsOf(records)    == {records[k].row : k \in DOMAIN records}
Extent(table)      == Least(table.headers) .. AtLeast(table.lastRow, table.header)
LeftRows(table)    == {line.number : line \in table.body.left}
Solid(sheet, table) == \E n \in table.body.data : IsDense(Features(n, sheet.cells[n]), Len(table.columns))
Alone(sheet, n)     == SingleText(Features(n, sheet.cells[n]))
Repeats(sheet, table, n) ==
  IsRepeatedHeader(Features(n, sheet.cells[n]), HeaderLabels(table.columns))

\* "--- pagina ---", a department line, a lonely line: nothing was read between them.
BehindABreak(sheet, read, n) ==
  /\ Alone(sheet, n)
  /\ \E note, section \in 1 .. (n - 1) :
       /\ note < section /\ sheet.cells[note] = <<Word("pagina")>> /\ sheet.cells[section] = <<Word("reception")>>
       /\ \A m \in read : m < note \/ m >= n

\* "Used when a sheet is scanned AND when it is streamed for the import, so the table NINFA
\* describes is exactly the table it reads" (BodyReader).  Of a table with a full record:
\*   - every record described is read, but for a lonely line behind a page break and a department
\*     line: only the scan's reader was told of the department line, so the import still takes the
\*     line for the running title of the new page;
\*   - what is read and not described is a header printed again straight under a department line,
\*     or a sparse line between the last full record and a later total or department line.
DescribedIsRead ==
  \A reading \in Readings :
    LET sheet == reading.sheet
        table == reading.table
        read  == RowsOf(reading.records)
    IN  Solid(sheet, table) =>
          /\ \A n \in table.body.data \ read : BehindABreak(sheet, read, n)
          /\ \A n \in read \ table.body.data :
               \/ Repeats(sheet, table, n) /\ n - 1 \in table.body.sections
               \/ /\ \A m \in table.body.data : m < n
                  /\ \E line \in table.body.left : line.number > n /\ line.kind \in {"TOTAL", "SECTION"}
ASSUME DescribedIsRead

\* "totals, notes and section lines are not rows (they are reported, never imported)": every line
\* between the header and the last row is a record or reported, never both and never neither.
NothingIsPassedOver ==
  \A reading \in Readings :
    LET sheet == reading.sheet
        table == reading.table
    IN  /\ table.body.data \cap LeftRows(table) = {}
        /\ {n \in sheet.kept : n > table.header /\ n <= table.lastRow}
             \subseteq table.body.data \cup LeftRows(table)
ASSUME NothingIsPassedOver

\* No row belongs to two tables, and the lines above a table are in none of the tables.
TablesStandApart ==
  \A d \in Described :
    LET tables == d.tables
    IN  \A i, j \in DOMAIN tables :
          /\ i # j => Extent(tables[i]) \cap Extent(tables[j]) = {}
          /\ tables[i].preamble \cap Extent(tables[j]) = {}
ASSUME TablesStandApart

\* Each record has the department line last described above it, and a total that MATCHes adds up
\* exactly what the import reads under the total or department line before it.
DepartmentsAndTotalsHold ==
  \A reading \in Readings :
    LET sheet   == reading.sheet
        table   == reading.table
        records == reading.records
        Hours(k) == {cell \in records[k].cells[3] : cell.kind = "NUMBER"}
        Above(n)  == {m \in table.body.sections : m < n}
        Bounds(n) == {table.header} \cup {line.number : line \in
                       {line \in table.body.left : line.number < n /\ line.kind \in {"TOTAL", "SECTION"}}}
        Under(n)  == {k \in DOMAIN records : records[k].row > Greatest(Bounds(n)) /\ records[k].row < n /\ Hours(k) # {}}
    IN  /\ \A k \in DOMAIN records :
             records[k].department =
               IF Above(records[k].row) = {} THEN ""
               ELSE sheet.cells[Greatest(Above(records[k].row))][1].key
        /\ \A total \in table.body.totals : total.state = "MATCH" =>
             FoldSet(LAMBDA k, sum : sum + (CHOOSE cell \in Hours(k) : TRUE).n, 0, Under(total.number))
               = sheet.cells[total.number][3].n
ASSUME DepartmentsAndTotalsHold

\* "A line such as '--- pagina successiva ---' in the middle of the records is a page break, not the
\* end of the table - when more records follow it"; "the header written again at the top of a page
\* is the header"; "a note at the END still ends the table"; a header after a title or a blank row
\* "starts ANOTHER table".  A report of two pages, with the lines a page may start with.
Report(break, title, again, ending) ==
  <<HeaderLine, RecordLine, <<Word(break)>>>> \o title \o again
    \o <<RecordLine, <<Word("verdi")>>, RecordLine>> \o ending
ReportsAreRead ==
  \A title \in {<<>>, <<<<Word("verdi")>>>>}, again \in {<<>>, <<HeaderLine>>},
     ending \in {<<>>, <<<<Word("generato")>>, <<Word("verdi")>>, RecordLine>>, <<<<Word("reception")>>>>} :
    LET cells  == Report("pagina", title, again, ending)
        tables == AnalyzeSheet(SheetOf(cells, 400, 60))
        first  == 4 + Len(title) + Len(again)
        other  == AnalyzeSheet(SheetOf(Report("generato", title, again, ending), 400, 60))
    IN  /\ Len(tables) = 1
        /\ RowsOf(Imported(SheetOf(cells, 400, 60), tables[1])) = {2} \cup first .. (first + 2)
        \* behind a note that is no page break only a record goes on with the table; a title does not.
        /\ title # <<>> => \A i \in DOMAIN other : ~({2, first} \subseteq other[i].body.data)
ASSUME ReportsAreRead
ASSUME \A between \in {<<>>, <<Word("verdi")>>, <<Word("settimana"), Word("43")>>} :
         LET tables == AnalyzeSheet(SheetOf(<<HeaderLine, RecordLine, between, HeaderLine, RecordLine>>, 400, 60))
         IN  {tables[i].header : i \in DOMAIN tables} = {1, 4}
ASSUME LET merged == {[top |-> 1, bottom |-> 1, first |-> 2, last |-> 2],
                      [top |-> 1, bottom |-> 1, first |-> 3, last |-> 4]}
           upper  == Features(1, <<Blank, Blank, Word("previste")>>)
           lower  == Features(2, <<Word("nome"), Word("data"), Word("ore"), Word("costo"), Word("turno")>>)
       IN  [i \in 1 .. 5 |-> BuildColumns(lower, GroupLabels(upper, lower, SpansOf(merged, 1)))[i].label[1][1]]
             = <<"", "", "previste", "previste", "">>

\* "A row that has dates or numbers in the very places where the record just above it has them is a
\* record - however many of its words are words of a header"; the same words with no date start a
\* table of their own.
ASSUME LET Words(day) == <<Word("costo"), day, Word("ore"), Word("data"), Word("ore")>>
           Cells(day) == <<<<Word("nome"), Word("data"), Word("turno"), Word("canale"), Word("note")>>,
                           <<Word("rossi"), OnDay(1), Word("sera"), Word("bar"), Figure(4)>>, Words(day),
                           <<Word("verdi"), OnDay(2), Word("sera"), Word("bar"), Figure(4)>>>>
       IN  /\ AnalyzeSheet(SheetOf(Cells(OnDay(2)), 400, 60))[1].body.data = {2, 3, 4}
           /\ Len(AnalyzeSheet(SheetOf(Cells(Word("nome")), 400, 60))) = 2

\* A long sheet is described by its first and its last rows and read whole: with only one table in
\* it, the rows read are those of the whole sheet's description, never fewer, and at most a lonely
\* line more, one the whole sheet's description takes for a footer or behind a page break.
WindowIsEnough ==
  \A cells \in Gap :
    LET whole == SheetOf(cells, 400, 60)
        part  == SheetOf(cells, 3, 2)
        full  == AnalyzeSheet(whole)
        seen  == AnalyzeSheet(part)
        read  == RowsOf(Imported(whole, full[1]))
        reads == RowsOf(Imported(part, seen[1]))
    IN  Len(full) = 1 => /\ read \subseteq reads
                         /\ \A n \in reads \ read :
                              \/ BehindABreak(whole, read, n)
                              \/ Alone(whole, n) /\ \A m \in read : m < n
ASSUME WindowIsEnough

\* "labels that are unique and never empty" (_build_columns), for every header of one or two lines
\* whose own words bear no number: with "Ore", "Ore", "Ore (2)" two columns are called "Ore (2)",
\* and both would be read from the last one.
Uppers == {<<a, b, c>> : a, b, c \in {Blank, Word("previste"), Word("effettive")}}
Lowers == {<<a, b, c>> : a \in {Word("nome"), Word("ore")}, b \in {Blank, Word("data"), Word("ore")},
                         c \in {Word("ore"), Word("costo")}}
Merged == SUBSET {[first |-> 1, last |-> 2], [first |-> 2, last |-> 3]}
LabelsTellColumnsApart ==
  \A upper \in Uppers, lower \in Lowers, spans \in Merged :
    LET groups  == GroupLabels(Features(1, upper), Features(2, lower), spans)
        columns == BuildColumns(Features(2, lower), groups)
    IN  /\ \A i, j \in DOMAIN columns : columns[i].label = columns[j].label => i = j
        /\ \A i \in DOMAIN columns : columns[i].label[2] # NoWords
        /\ Sources(columns, [i \in DOMAIN columns |-> i], columns) = [i \in DOMAIN columns |-> i]
        \* a line over the header says something of a column only from the cell that covers it.
        /\ \A i \in DOMAIN groups : groups[i][1] # "" =>
             \E p \in 1 .. i : upper[p].key = groups[i][1] /\ \A q \in (p + 1) .. i : upper[q] = Blank
ASSUME LabelsTellColumnsApart
ASSUME LET columns == BuildColumns(Features(1, <<Word("ore"), Word("ore"), [Word("ore") EXCEPT !.n = 2]>>), <<>>)
       IN  columns[2].label = columns[3].label /\ Sources(columns, <<1, 2, 3>>, columns) = <<1, 3, 3>>

\* A grid of days becomes one row per person and day: the hours of the virtual table are the
\* hours of the grid, day by day; a word is passed on as it is; a day off is no row.
GridLosesNothing ==
  \A a, b, c, d \in {Blank, Figure(0), Figure(8), Word("riposo")} :
    LET cells   == <<<<Word("nome"), OnDay(30), OnDay(31), OnDay(32), Word("sum")>>,
                     <<Word("rossi"), a, b, c, Figure(16)>>, <<Word("verdi"), Figure(4), d, a, Figure(4)>>>>
        sheet   == SheetOf(cells, 400, 60)
        tables  == AnalyzeSheet(sheet)
        days    == <<[column |-> 2, day |-> 30], [column |-> 3, day |-> 31], [column |-> 4, day |-> 32]>>
        records == Generate(<<PartOf("s1", sheet, tables[1])>>,
                            [AllColumns(tables[1]) EXCEPT !.kept = <<1>>, !.days = days, !.renumber = TRUE])
        Worked(n, p) == cells[n][p] \notin {Blank, Figure(0)}
    IN  /\ Len(tables) = 1
        /\ {<<records[k].row, records[k].day>> : k \in DOMAIN records} =
             {<<n, 28 + p>> : n \in tables[1].body.data, p \in 2 .. 4} \cap
             {<<n, 28 + p>> : <<n, p>> \in {np \in (2 .. 3) \X (2 .. 4) : Worked(np[1], np[2])}}
        /\ Len(records) = Cardinality({np \in tables[1].body.data \X (2 .. 4) : Worked(np[1], np[2])})
        /\ \A k \in DOMAIN records :
             /\ records[k].number = k + 1 /\ records[k].cells = <<{cells[records[k].row][1]}>>
             /\ records[k].hours = {cells[records[k].row][records[k].day - 28]}
ASSUME GridLosesNothing

\* "Several sheets that are the same table become one table": whatever stands in two sheets, the
\* records of the one come before those of the other, are those each gives alone under its own
\* department and not the other's, and are numbered on from 2; a column a sheet has not got is empty.
PartsStayApart ==
  \A one \in {SheetOf(<<HeaderLine, RecordLine>> \o list, 400, 60) : list \in Lists(2)},
     two \in {SheetOf(<<HeaderLine, RecordLine>> \o list, 400, 60) : list \in Lists(1)},
     said \in {"SECTION", "SHEET", "TITLE"} :
    LET narrow  == [two EXCEPT !.cells = [n \in DOMAIN @ |-> SubSeq(@[n], 1, AtMost(2, Len(@[n])))]]
        Part(name, sheet) == PartOf(name, sheet, AnalyzeSheet(sheet)[1])
        plan(k) == [AllColumns(AnalyzeSheet(one)[1]) EXCEPT !.department = said, !.title = "bar", !.renumber = k]
        parts   == <<Part("s1", one), Part("s2", narrow)>>
        records == Generate(parts, plan(TRUE))
        alone   == Generate(<<parts[1]>>, plan(FALSE))
        other   == Generate(<<parts[2]>>, [AllColumns(parts[2].table) EXCEPT !.department = said, !.title = "bar"])
        cut     == Len(alone)
    IN  Len(parts[2].table.columns) = 2 /\ Len(parts[1].table.columns) = 3 =>
          /\ Len(records) = cut + Len(other)
          /\ \A k \in DOMAIN records :
               LET by == IF k <= cut THEN alone[k] ELSE other[k - cut]
               IN  /\ records[k].number = k + 1 /\ records[k].row = by.row /\ records[k].sheet = by.sheet
                   /\ records[k].department = by.department
                   /\ SubSeq(records[k].cells, 1, 2) = SubSeq(by.cells, 1, 2)
                   /\ k > cut => records[k].cells[3] = {}
ASSUME PartsStayApart

\* A line over the records is a department when it is in capitals or merged over the table, and a
\* person when it is a name written in full; a line that is long is no department, a longer one ends
\* the table unless a record follows.
ASSUME LET Line(look) == <<[Word("verdi") EXCEPT !.look = look]>>
           Under(look, blocks) ==
             AnalyzeSheet([SheetOf(<<HeaderLine, RecordLine, Line(look), RecordLine>>, 400, 60)
                             EXCEPT !.merged = blocks])[1].body
           Over == {[top |-> 3, bottom |-> 3, first |-> 1, last |-> 3]}
       IN  /\ Under("capitals", {}).sections = {3} /\ Under("plain", Over).sections = {3}
           /\ 3 \in Under("plain", {}).data /\ 3 \in Under("line", Over).data
           /\ [number |-> 3, kind |-> "NOTE"] \in Under("paragraph", Over).left
           /\ 4 \in Under("paragraph", Over).data

--------------------------------------------------------------------------------
(***************************************************************************)
(* What the day columns promise, for grids of days written in every way around the *)
(* ends of a month, of a leap February and of a year.                        *)
(***************************************************************************)
On(y, m, d) == [y |-> y, m |-> m, d |-> d]
Heading(index, form, p, weekday) ==
  [index |-> index, form |-> form, y |-> p.y, m |-> p.m, d |-> p.d, weekday |-> weekday,
   group |-> "", total |-> FALSE]
SplitDate(date) == On(YearOf(date), MonthOf(date), DayOf(date))

\* The calendar is the calendar: each date is written back as it was read, the day after the last
\* of a month is the first of the next, and two known Mondays are Mondays.
CalendarHolds ==
  /\ \A y \in {1999, 2000, 2024, 2026, 2027, 2100}, m \in 1 .. 12, d \in {1, 2, 27, 28, 29, 30, 31} :
       LET date == DateOf(y, m, d)
       IN  date # NoDay => /\ SplitDate(date) = On(y, m, d)
                           /\ DateOf(y, m, d + 1) \in {NoDay, date + 1}
                           /\ DateOf(y, m, d + 1) = NoDay /\ m < 12 => DateOf(y, m + 1, 1) = date + 1
  /\ WeekdayOf(DateOf(2026, 10, 26)) = 0 /\ WeekdayOf(DateOf(2024, 2, 26)) = 0
ASSUME CalendarHolds

\* The first days of the weeks the grids are about: an ordinary one, one over a leap 29 February,
\* one over a common February, one over a new year.
Mondays == {DateOf(2026, 10, 26), DateOf(2024, 2, 26), DateOf(2026, 2, 23), DateOf(2026, 12, 28)}

\* A row of days from a day on, each written in one way; some ways leave the month or the year out.
WaysToWrite == {"CELL", "DM", "WEEKDAY", "WEEKDAY_DAY"}
WrittenAs(way, index, date) == Heading(index, way, SplitDate(date), WeekdayOf(date))
Parsed(columns) == FoldLeft(LAMBDA found, c : found \o SetToSeq(ParseDay(c)), <<>>, columns)
WeekOf(monday, way, length) ==
  Parsed([i \in 1 .. length |-> WrittenAs(way, i, monday + i - 1)])

Agrees(day, date) ==
  /\ day.kind = "DATE" => date = day.on
  /\ day.weekday # AnyWeekday => WeekdayOf(date) = day.weekday
  /\ day.day # 0 => DayOf(date) = day.day
  /\ day.kind = "DAY_MONTH" => MonthOf(date) = day.month

\* "The period is asked; a date is never invented": whatever the headers say, in whatever order and
\* mixture, and whatever period is stated or named, each date given is a day the header can mean
\* and the days follow one another.  (The month written behind a weekday and a day is not compared:
\* see the example below.)
DatesAreNotInvented ==
  \A monday \in Mondays, shift \in {-28, -1, 0, 7}, a, b, c \in WaysToWrite, gap \in {<<1, 2>>, <<0, 1>>, <<2, 1>>, <<3, 27>>} :
    LET days == Parsed(<<WrittenAs(a, 1, monday), WrittenAs(b, 2, monday + gap[1]), WrittenAs(c, 3, monday + gap[2])>>)
    IN  \A period \in {<<monday + shift, NoDay>>, <<NoDay, monday + shift>>, <<NoDay, NoDay>>} :
          LET dates == ResolveDays(days, period[1], period[2])
          IN  dates # <<>> =>
                /\ Len(dates) = 3
                /\ \A i \in DOMAIN dates : Agrees(days[i], dates[i].day)
                /\ a # "CELL" \/ b # "CELL" \/ c # "CELL" => /\ period # <<NoDay, NoDay>>
                                                             /\ dates[1].day < dates[2].day
                                                             /\ dates[2].day < dates[3].day
ASSUME DatesAreNotInvented

\* A grid under the period it is about is dated, and rightly, in whatever way its days are written.
TheStatedWeekIsRead ==
  \A monday \in Mondays, way \in WaysToWrite, length \in {3, 7, 9} :
    [i \in 1 .. length |-> [column |-> i, day |-> monday + i - 1]]
      = ResolveDays(WeekOf(monday, way, length), monday, NoDay)
ASSUME TheStatedWeekIsRead

\* "The person names ANY day of the week the file is about": the dates are those of that week.  For
\* days written 28/12 ... 03/01 a day named in January puts December into the wrong year: the grid
\* is refused again, with the question the person has just answered.
AnyDayOfTheWeekWillDo ==
  \A monday \in Mondays, way \in WaysToWrite, length \in 3 .. 7, named \in 0 .. 6 :
    LET dates == ResolveDays(WeekOf(monday, way, length), NoDay, monday + named)
        Asked == way = "DM" /\ YearOf(monday + named) # YearOf(monday)
    IN  IF Asked /\ length >= 5 THEN dates = <<>>
        ELSE IF Asked THEN YearOf(dates[1].day) = YearOf(monday) + 1
        ELSE dates = [i \in 1 .. length |-> [column |-> i, day |-> monday + i - 1]]
ASSUME AnyDayOfTheWeekWillDo

\* "Lun 26" that is not a Monday the 26th: the dates do not fit.  The month of "Lun 2 feb" is read
\* and never compared: under a period of March the same headers are dated in March.
ASSUME LET days == Parsed([i \in 1 .. 3 |-> Heading(i, "WEEKDAY_DAY", On(0, 2, i + 1), i - 1)])
       IN  /\ ResolveDays(days, DateOf(2026, 2, 9), NoDay) = <<>>
           /\ ResolveDays(days, DateOf(2026, 2, 2), NoDay)[1].day = DateOf(2026, 2, 2)
           /\ ResolveDays(days, DateOf(2026, 3, 2), NoDay)[1].day = DateOf(2026, 3, 2)

--------------------------------------------------------------------------------
Nothing == [full |-> <<>>, short |-> <<>>, worded |-> <<>>, starts |-> <<>>, week |-> 0, year |-> 0]
Pairs   == {[from |-> f, to |-> t] : f \in {On(2026, 10, 26), On(2026, 12, 28), On(2026, 13, 1)},
                                     t \in {On(2026, 11, 1), On(2027, 1, 3), On(2028, 10, 26)}}
Drop(p) == [p EXCEPT !.y = 0]
TitleLines ==
  {[Nothing EXCEPT !.full = <<p>>] : p \in Pairs}
    \cup {[Nothing EXCEPT !.short = <<[p EXCEPT !.from = Drop(@)]>>] : p \in Pairs}
    \cup {[Nothing EXCEPT !.worded = <<p>>] : p \in Pairs}
    \cup {[Nothing EXCEPT !.worded = <<[p EXCEPT !.from = Drop(@)]>>] : p \in Pairs}
    \cup {[Nothing EXCEPT !.worded = <<[p EXCEPT !.to = Drop(@)]>>] : p \in Pairs}
    \cup {[Nothing EXCEPT !.worded = <<[from |-> Drop(p.from), to |-> Drop(p.to)]>>] : p \in Pairs}
    \cup {[Nothing EXCEPT !.starts = <<p.from>>] : p \in Pairs}
    \cup {[Nothing EXCEPT !.week = w, !.year = y] : w \in {0, 1, 44, 53}, y \in {0, 2026, 2027}}
    \cup {[Nothing EXCEPT !.full = <<[from |-> On(2026, 10, 26), to |-> On(2026, 11, 1)]>>,
                          !.starts = <<On(2026, 10, 26)>>, !.week = 1, !.year = 2026]}

\* "A period is accepted when the text states ONE, completely": a period read is one of the lines',
\* no line states another start, it is not longer than 400 days and not back to front, and the order
\* of the lines does not matter.  (Two periods that start alike and end apart do not disagree: the
\* first that has an end is taken.)
OnePeriodIsStated ==
  \A a, b \in TitleLines :
    LET period == ParsePeriod(<<a, b>>)
        back   == ParsePeriod(<<b, a>>)
    IN  /\ period.start = back.start
        /\ period # NoRange =>
             /\ \A line \in {a, b} : \A i \in DOMAIN Found(line) : Found(line)[i].start = period.start
             /\ period.end # NoDay => period.end - period.start \in 0 .. 400
             /\ period.end = NoDay => \A line \in {a, b} : \A i \in DOMAIN Found(line) : Found(line)[i].end = NoDay
ASSUME OnePeriodIsStated

\* The examples of the module: complete ranges in words and figures, over a new year too, and a week
\* number with a year; a week number without a year and a range with no year are no period.
ASSUME LET week == [start |-> DateOf(2026, 10, 26), end |-> DateOf(2026, 11, 1)]
           turn == [start |-> DateOf(2026, 12, 28), end |-> DateOf(2027, 1, 3)]
           From(p) == <<[from |-> p[1], to |-> p[2]]>>
           October  == <<On(2026, 10, 26), On(2026, 11, 1)>>
           December == <<Drop(On(2026, 12, 28)), On(2027, 1, 3)>>
       IN  /\ ParsePeriod(<<[Nothing EXCEPT !.full = From(October)]>>) = week
           /\ ParsePeriod(<<[Nothing EXCEPT !.worded = From(<<Drop(October[1]), October[2]>>)]>>) = week
           /\ ParsePeriod(<<[Nothing EXCEPT !.week = 44, !.year = 2026]>>) = week
           /\ ParsePeriod(<<[Nothing EXCEPT !.short = From(December)]>>) = turn
           /\ ParsePeriod(<<[Nothing EXCEPT !.worded = From(December)]>>) = turn
           /\ ParsePeriod(<<[Nothing EXCEPT !.week = 53, !.year = 2026]>>) = turn
           /\ ParsePeriod(<<[Nothing EXCEPT !.week = 53, !.year = 2027]>>) = NoRange
           /\ ParsePeriod(<<[Nothing EXCEPT !.full = From(October), !.week = 1, !.year = 2026]>>) = week
           /\ ParsePeriod(<<[Nothing EXCEPT !.week = 44]>>) = NoRange
           /\ ParsePeriod(<<[Nothing EXCEPT !.worded = From(<<Drop(October[1]), Drop(October[2])>>)]>>) = NoRange

--------------------------------------------------------------------------------
(***************************************************************************)
(* What DocumentTables promises, for every workbook of three sheets of a pool *)
(* that has the same table again, nearly the same one, another one, a recap    *)
(* and a hidden sheet.                                                       *)
(***************************************************************************)
Label(word) == <<word, 0>>
Five == <<Label("a"), Label("b"), Label("c"), Label("d"), Label("e")>>
Six  == Append(Five, Label("f"))
Seven == Append(Six, Label("g"))
Other == <<Label("x"), Label("y")>>
Offered(header, labels, value) == [header |-> header, labels |-> labels, value |-> value]
Page(recap, visible, tables) == [recap |-> recap, visible |-> visible, tables |-> tables]

Pages == {Page(FALSE, TRUE, <<Offered(1, Five, 40)>>), Page(FALSE, TRUE, <<Offered(2, Six, 20)>>),
          Page(FALSE, TRUE, <<Offered(1, Seven, 40)>>), Page(TRUE, TRUE, <<Offered(1, Five, 40)>>),
          Page(TRUE, TRUE, <<Offered(1, Other, 60)>>), Page(FALSE, FALSE, <<Offered(1, Five, 40)>>),
          Page(FALSE, TRUE, <<Offered(3, Other, 60), Offered(9, Five, 8)>>), Page(FALSE, TRUE, <<>>)}
Names == <<"s1", "s2", "s3">>
Named(p, name) ==
  [name |-> name, visible |-> p.visible, recap |-> p.recap, filled |-> p.tables # <<>>,
   tables |-> [i \in DOMAIN p.tables |->
                 [sheet |-> name, header |-> p.tables[i].header, labels |-> p.tables[i].labels,
                  value |-> p.tables[i].value, days |-> {}, period |-> NoRange]]]
Workbooks == {[i \in 1 .. 3 |-> Named(pages[i], Names[i])] : pages \in [1 .. 3 -> Pages]}

TableIn(selection)  == {selection.tables[i] : i \in DOMAIN selection.tables}
TablesOf(sheets)    == UNION {{sheets[i].tables[k] : k \in DOMAIN sheets[i].tables} : i \in DOMAIN sheets}
ChosenTables(document) == UNION {TableIn(s) : s \in document.chosen}

\* "Everything the document offers is returned, best first": every table of the sheets read is in
\* one selection and no more; the tables of a partition are of different sheets and like its first.
EveryTableIsOfferedOnce ==
  \A sheets \in Workbooks, asked \in {{}, {"s1", "s3"}} :
    LET layout     == [NoLayout EXCEPT !.sheets = asked]
        analysed   == Analysed(sheets, layout)
        selections == Understand(sheets, layout).selections
    IN  /\ UNION {TableIn(selections[i]) : i \in DOMAIN selections} = TablesOf(analysed)
        /\ FoldLeft(LAMBDA n, s : n + Len(s.tables), 0, selections) = Cardinality(TablesOf(analysed))
        /\ \A i \in DOMAIN selections :
             /\ selections[i].partition => Cardinality({t.sheet : t \in TableIn(selections[i])}) > 1
             /\ \A t \in TableIn(selections[i]) : Alike(selections[i].tables[1], t)
             /\ \A j \in DOMAIN selections : i < j => selections[i].value >= selections[j].value
ASSUME EveryTableIsOfferedOnce

\* "A clear winner is chosen; when two tables are comparable the caller decides": what is read
\* without a question outweighs anything else on offer by 8 to 5, and it is never a recap or a
\* hidden sheet while another sheet has a table.
WinnersAreClear ==
  \A sheets \in Workbooks :
    LET document == Understand(sheets, NoLayout)
        chosen   == ChosenTables(document)
        Others   == {i \in DOMAIN document.selections : document.selections[i] \notin document.chosen}
        Kind(i)  == document.roles[i]
    IN  /\ document.chosen = {} <=> \A i \in DOMAIN sheets : Kind(i) \in {"HIDDEN", "EMPTY"}
        /\ ~document.ambiguous => \A i \in Others, s \in document.chosen :
                                    10 * s.value >= 16 * document.selections[i].value
        /\ \A i \in DOMAIN sheets : sheets[i].name \in {t.sheet : t \in chosen} =>
             \/ Kind(i) = "DATA"
             \/ Kind(i) = "SUMMARY" /\ \A k \in DOMAIN sheets : Kind(k) # "DATA"
ASSUME WinnersAreClear

\* The order of the sheets does not change what is read, as long as being alike is transitive; a
\* sheet "nearly the same" as two that are not alike joins whichever comes first.
Shuffled(sheets) == {[i \in 1 .. 3 |-> sheets[turn[i]]] : turn \in Permutations(1 .. 3)}
OrderOfSheetsDoesNotMatter ==
  \A sheets \in Workbooks :
    LET best == {sheets[i].tables[1] : i \in {i \in 1 .. 3 : sheets[i].tables # <<>>}}
        Transitive == \A a, b, c \in best : Alike(a, b) /\ Alike(b, c) => Alike(a, c)
        document == Understand(sheets, NoLayout)
        Answer(d) == {TableIn(d.selections[i]) : i \in DOMAIN d.selections}
    IN  Transitive => \A other \in Shuffled(sheets) :
                        /\ Answer(Understand(other, NoLayout)) = Answer(document)
                        /\ Understand(other, NoLayout).ambiguous = document.ambiguous
ASSUME OrderOfSheetsDoesNotMatter
ASSUME LET five == Named(Page(FALSE, TRUE, <<Offered(1, Five, 40)>>), "s1")
           six  == Named(Page(FALSE, TRUE, <<Offered(1, Six, 40)>>), "s2")
           seven == Named(Page(FALSE, TRUE, <<Offered(1, Seven, 40)>>), "s3")
       IN  /\ Cardinality(ChosenTables(Understand(<<five, six, seven>>, NoLayout))) = 2
           /\ Cardinality(ChosenTables(Understand(<<six, five, seven>>, NoLayout))) = 3

\* A table asked for by its key is the one read; a key no table has any more is the biggest table,
\* and nothing is asked.
KeysAreObeyed ==
  \A sheets \in Workbooks :
    LET offered == Understand(sheets, NoLayout).selections
    IN  /\ \A i \in DOMAIN offered :
             LET document == Understand(sheets, [NoLayout EXCEPT !.key = offered[i].key])
             IN  document.chosen = {offered[i]} /\ ~document.ambiguous
        /\ LET document == Understand(sheets, [NoLayout EXCEPT !.key = <<"gone", 1>>])
           IN  ~document.ambiguous /\ (offered # <<>> => document.chosen = {offered[1]})
ASSUME KeysAreObeyed

--------------------------------------------------------------------------------
\* A grid of days under a name and beside a total, and the layouts that read it.
Headings == <<Label("nome"), Label("lun"), Label("mar"), Label("mer"), Label("totale")>>
GridOf(groups) == [days |-> WeekOf(DateOf(2026, 10, 26), "WEEKDAY", 4), totals |-> {5}, groups |-> groups]
Rota(sheet, labels, days) ==
  [sheet |-> sheet, header |-> 1, labels |-> labels, value |-> 20, days |-> days,
   period |-> [start |-> DateOf(2026, 10, 26), end |-> NoDay]]
Days(grid) == [grid EXCEPT !.days = SelectSeq(@, LAMBDA d : d.index \in 2 .. 4)]
Layouts == {[NoLayout EXCEPT !.department = d, !.hours = h] :
              d \in {"", "SECTION", "nome"}, h \in {"", "ore", "data"}}
Candidate(tables) == [chosen |-> {Selection(tables, Len(tables) > 1)}]
Documents ==
  {Candidate(<<Rota("s1", Headings, {})>>), Candidate(<<Rota("s1", Headings, {Days(GridOf({}))})>>),
   Candidate(<<Rota("s1", Headings, {Days(GridOf({"previste", "effettive"}))})>>),
   Candidate(<<Rota("s1", Headings, {Days(GridOf({}))}), Rota("s2", Tail(Headings), {})>>),
   Candidate(<<Rota("s1", <<Label("ore"), <<"ore", 2>>, Label("data"), Label("SECTION")>>, {})>>),
   Candidate(<<[Rota("s1", Headings, {Days(GridOf({}))}) EXCEPT !.period = NoRange]>>),
   [chosen |-> {}]}

\* "Nothing is invented": a table that is read has headers that are all different, each column of
\* each sheet is the one with that label or nothing at all, no day or total is a column of a grid's
\* table, and every day has a date; a grid over several sheets or blocks is never read.
PlansAreSound ==
  \A document \in Documents, layout \in Layouts :
    LET plan  == BuildPlan(document, layout)
        table == CHOOSE s \in document.chosen : TRUE
        added == (IF layout.department = "" THEN 0 ELSE 1) + (IF layout.hours = "" THEN 0 ELSE 2)
        grid  == CHOOSE g \in table.grid : TRUE
    IN  plan.refused = "" =>
          /\ \A i, j \in DOMAIN plan.headers : plan.headers[i] = plan.headers[j] => i = j
          /\ Len(plan.sources) = Len(table.tables)
          /\ \A n \in DOMAIN plan.sources :
               /\ Len(plan.sources[n]) + added = Len(plan.headers)
               /\ \A i \in DOMAIN plan.sources[n] :
                    LET from == plan.sources[n][i]
                    IN  IF from = 0 THEN plan.headers[i] \notin Labels(table.tables[n])
                        ELSE table.tables[n].labels[from] = plan.headers[i]
          /\ layout.hours # "" =>
               /\ Len(table.tables) = 1 /\ Cardinality(grid.groups) <= 1
               /\ Range(plan.sources[1]) \cap ({d.index : d \in Range(grid.days)} \cup grid.totals) = {}
               /\ {d.column : d \in Range(plan.days)} = {d.index : d \in Range(grid.days)}
ASSUME PlansAreSound
ASSUME {BuildPlan(d, l).refused : d \in Documents, l \in Layouts}
         = {"", "empty_file", "grid_not_found", "grid_not_supported", "period_required"}
=============================================================================
