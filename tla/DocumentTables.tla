---------------------------- MODULE DocumentTables -----------------------------
(***************************************************************************)
(* Which of the tables of a workbook is "the" table, and the columns of the  *)
(* simple table an import is given (app/modules/document_understanding:      *)
(* document, apply.build_plan).                                              *)
(*                                                                         *)
(* A sheet is [name, visible, recap, filled, tables]: recap when its name is   *)
(* that of a summary, filled when it has any row; a table is [sheet, header,   *)
(* labels, value, days, period]: its labels in order, rows times columns, the   *)
(* day grid of SheetTable's columns (or {}) and the period of its title.        *)
(* A layout is what a person or a rule decided: the sheets ({}: NINFA picks),   *)
(* the key of the table (<<>>: none), the department's place, the hours of the  *)
(* grid ("": the table is no grid) and the start of the period.                *)
(***************************************************************************)
EXTENDS Integers, Sequences, FiniteSets, SequencesExt

(***************************************************************************)
(* The period a title states and the real dates of the day columns of a grid *)
(* (app/modules/document_understanding: titles, days).  "A date is never     *)
(* invented": a grid that cannot be tied to the calendar is asked about.     *)
(*                                                                         *)
(* A date is its number of days since 31 December of year 0, as in Python's  *)
(* date.toordinal.  A column is [index, form, y, m, d, weekday, group, total]: *)
(* the form its header is written in and the numbers in it; a line above the   *)
(* table is [full, short, worded, starts, week, year]: the [from, to] each      *)
(* pattern finds in it, the days written as [y, m, d] (y = 0: no year).        *)
(***************************************************************************)
NoDay   == 0                         \* no date, or one that is not in the calendar
NoRange == [start |-> NoDay, end |-> NoDay]
AnyWeekday == -1
MinDayColumns == 3

--------------------------------------------------------------------------------
(* The calendar *)

Leap(y) == y % 4 = 0 /\ (y % 100 # 0 \/ y % 400 = 0)
MonthLength(y, m) == IF m = 2 THEN (IF Leap(y) THEN 29 ELSE 28)
                     ELSE IF m \in {4, 6, 9, 11} THEN 30 ELSE 31
DaysBefore(y) == 365 * (y - 1) + (y - 1) \div 4 - (y - 1) \div 100 + (y - 1) \div 400

\* _safe_date, _make.
DateOf(y, m, d) ==
  IF y < 1 \/ m \notin 1 .. 12 \/ d < 1 \/ d > MonthLength(y, m) THEN NoDay
  ELSE FoldLeft(LAMBDA days, k : days + MonthLength(y, k), DaysBefore(y) + d, [k \in 1 .. (m - 1) |-> k])

WeekdayOf(date) == (date + 6) % 7       \* Monday is 0
YearOf(date)    == CHOOSE y \in (date \div 366) .. (date \div 365 + 1) :
                     DaysBefore(y) < date /\ date <= DaysBefore(y + 1)
MonthOf(date)   == LET y == YearOf(date)
                   IN  CHOOSE m \in 1 .. 12 : date - DateOf(y, m, 1) \in 0 .. (MonthLength(y, m) - 1)
DayOf(date)     == date - DateOf(YearOf(date), MonthOf(date), 1) + 1
Written(p)      == DateOf(p.y, p.m, p.d)

--------------------------------------------------------------------------------
(* The period the lines above a table state *)

\* _range.
RangeOf(start, end) ==
  IF start = NoDay \/ end = NoDay \/ end < start \/ end - start > 400 THEN NoRange
  ELSE [start |-> start, end |-> end]

FullRange(p) == RangeOf(Written(p.from), Written(p.to))

\* "28/12 - 03/01/2027": a start without a year is of the year of the end, or of the one before.
ShortRange(p) ==
  RangeOf(DateOf(IF p.from.m <= p.to.m THEN p.to.y ELSE p.to.y - 1, p.from.m, p.from.d), Written(p.to))

\* "26 ottobre - 1 novembre 2026": the year may be written behind either day.
WordedRange(p) ==
  LET endYear   == IF p.to.y # 0 THEN p.to.y ELSE p.from.y
      startYear == IF p.from.y # 0 THEN p.from.y
                   ELSE IF p.from.m > p.to.m THEN endYear - 1 ELSE endYear
  IN  IF endYear = 0 THEN NoRange
      ELSE RangeOf(DateOf(startYear, p.from.m, p.from.d), DateOf(endYear, p.to.m, p.to.d))

\* "settimana 43 2026": week 1 is the one with 4 January; the last weeks are not in every year.
WeekRange(week, year) ==
  LET fourth == DateOf(year, 1, 4)
      monday == fourth - WeekdayOf(fourth) + 7 * (week - 1)
      next   == DateOf(year + 1, 1, 4)
  IN  IF week < 1 \/ monday >= next - WeekdayOf(next) THEN NoRange
      ELSE [start |-> monday, end |-> monday + 6]

\* _found: the periods of one line, full ranges first, a week only when nothing else is stated.
Found(line) ==
  LET Unless(found, item, same) == IF item = NoRange \/ same THEN found ELSE Append(found, item)
      Ends(found, item)   == \E i \in DOMAIN found : found[i].end = item.end
      Starts(found, item) == \E i \in DOMAIN found : found[i].start = item.start
      full   == FoldLeft(LAMBDA f, p : Unless(f, FullRange(p), FALSE), <<>>, line.full)
      short  == FoldLeft(LAMBDA f, p : Unless(f, ShortRange(p), Ends(f, ShortRange(p))), full, line.short)
      worded == FoldLeft(LAMBDA f, p : Unless(f, WordedRange(p), Ends(f, WordedRange(p))), short, line.worded)
      From(p) == [start |-> Written(p), end |-> NoDay]
      starts == FoldLeft(LAMBDA f, p : Unless(f, From(p), Starts(f, From(p))), worded, line.starts)
      week   == WeekRange(line.week, line.year)
  IN  IF line.week # 0 /\ line.year # 0 /\ starts = <<>> /\ week # NoRange THEN <<week>> ELSE starts

\* parse_period: the one period of all the lines, with its end when a line says it.
ParsePeriod(lines) ==
  LET all  == FoldLeft(LAMBDA found, line : found \o Found(line), <<>>, lines)
      ends == SelectSeq(all, LAMBDA item : item.end # NoDay)
  IN  IF all = <<>> \/ \E i \in DOMAIN all : all[i].start # all[1].start THEN NoRange
      ELSE IF ends # <<>> THEN ends[1] ELSE all[1]

--------------------------------------------------------------------------------
(* The day columns *)

\* _parse_day: what day a header writes, or {}.
ParseDay(column) ==
  LET Day(kind, weekday, day, month, on) ==
        {[index |-> column.index, kind |-> kind, weekday |-> weekday, day |-> day,
          month |-> month, on |-> on]}
      date == Written(column)
  IN  CASE column.form \in {"CELL", "ISO", "DMY"} ->
             IF date = NoDay THEN {} ELSE Day("DATE", WeekdayOf(date), 0, 0, date)
        [] column.form = "DM" ->
             IF column.d \in 1 .. 31 /\ column.m \in 1 .. 12
             THEN Day("DAY_MONTH", AnyWeekday, column.d, column.m, NoDay) ELSE {}
        [] column.form = "WEEKDAY" -> Day("WEEKDAY", column.weekday, 0, 0, NoDay)
        [] column.form = "WEEKDAY_DAY" /\ column.d \in 1 .. 31 ->
             Day("WEEKDAY_DAY", column.weekday, column.d, column.m, NoDay)
        [] OTHER -> {}

\* detect_day_grid: at least three days; the totals beside them are left out.  {} when no grid.
DetectDayGrid(columns) ==
  LET days == FoldLeft(LAMBDA found, c : found \o SetToSeq(ParseDay(c)), <<>>, columns)
      last == days[Len(days)].index
      ofDays == {i \in DOMAIN columns : ParseDay(columns[i]) # {}}
  IN  IF Len(days) < MinDayColumns THEN {}
      ELSE {[days   |-> days,
             totals |-> {columns[i].index : i \in {i \in DOMAIN columns :
                           columns[i].index > last - 1 /\ columns[i].total}},
             groups |-> {columns[i].group : i \in ofDays} \ {""}]}

\* The anchor: the start of the title's period, or the week of the day the person names.
Anchor(days, title, person) ==
  LET named == {i \in DOMAIN days : days[i].kind # "DATE" /\ days[i].weekday # AnyWeekday}
      first == days[CHOOSE i \in named : \A j \in named : i <= j].weekday
  IN  IF person = NoDay THEN title
      ELSE IF named = {} THEN person ELSE person - ((WeekdayOf(person) - first) % 7)

\* One column: the year of the anchor or the next one, or the next such weekday.
NextDate(day, anchor, cursor) ==
  LET this  == DateOf(YearOf(anchor), day.month, day.day)
      probe == cursor + ((day.weekday - WeekdayOf(cursor)) % 7)
  IN  CASE day.kind = "DATE" -> day.on
        [] day.kind = "DAY_MONTH" ->
             IF this # NoDay /\ anchor - this > 200 THEN DateOf(YearOf(anchor) + 1, day.month, day.day)
             ELSE this
        [] day.kind = "WEEKDAY_DAY" -> IF DayOf(probe) = day.day THEN probe ELSE NoDay
        [] OTHER -> probe

\* resolve_days: a date for each column, in order, or <<>> when that is not certain.
ResolveDays(days, title, person) ==
  LET anchor == Anchor(days, title, person)
      Resolve(s, day) ==
        LET date == NextDate(day, anchor, s.cursor)
        IN  [cursor |-> IF date = NoDay THEN s.cursor ELSE date + 1,
             dates  |-> Append(s.dates, [column |-> day.index, day |-> date])]
      dates == FoldLeft(Resolve, [cursor |-> anchor, dates |-> <<>>], days).dates
      Sound == /\ \A i \in DOMAIN dates : dates[i].day # NoDay
               /\ \A i, j \in DOMAIN dates : i < j => dates[i].day < dates[j].day
  IN  IF \A i \in DOMAIN days : days[i].kind = "DATE"
      THEN [i \in DOMAIN days |-> [column |-> days[i].index, day |-> days[i].on]]
      ELSE IF anchor # NoDay /\ Sound THEN dates ELSE <<>>

--------------------------------------------------------------------------------
NoLayout == [sheets |-> {}, key |-> <<>>, department |-> "", hours |-> "", start |-> NoDay]

Labels(table) == {table.labels[i] : i \in DOMAIN table.labels}

\* _alike: at least 80 % of the labels of the two are labels of both.
Alike(a, b) ==
  LET both == Labels(a) \cap Labels(b)
      all  == Labels(a) \cup Labels(b)
  IN  all # {} /\ 10 * Cardinality(both) >= 8 * Cardinality(all)

Value(tables) == FoldLeft(LAMBDA sum, t : sum + t.value, 0, tables)
KeyOf(tables) == Append([i \in DOMAIN tables |-> tables[i].sheet], tables[1].header)

\* _selection.
Selection(tables, partition) ==
  [key |-> KeyOf(tables), tables |-> tables, partition |-> partition, value |-> Value(tables),
   grid |-> tables[1].days, period |-> tables[1].period]

\* The sheets read: visible ones with tables, those asked for, no recap unless all are recaps.
Analysed(sheets, layout) ==
  LET asked == SelectSeq(sheets, LAMBDA s : /\ s.visible /\ s.tables # <<>>
                                            /\ layout.sheets = {} \/ s.name \in layout.sheets)
      full  == SelectSeq(asked, LAMBDA s : ~s.recap)
  IN  IF layout.sheets = {} /\ full # <<>> THEN full ELSE asked

\* Sheets that are the same table over and over: each joins the first group it is like.
Groups(analysed) ==
  LET Join(groups, sheet) ==
        LET best == sheet.tables[1]
            like == {g \in DOMAIN groups : Alike(groups[g][1], best)}
            home == CHOOSE g \in like : \A o \in like : g <= o
        IN  IF like = {} THEN Append(groups, <<best>>)
            ELSE [groups EXCEPT ![home] = Append(@, best)]
  IN  FoldLeft(Join, <<>>, analysed)

\* Every table on offer, the biggest first, then the one that starts higher up, then as read.
Selections(analysed) ==
  LET parts == SelectSeq(Groups(analysed), LAMBDA g : Len(g) > 1)
      taken == UNION {{<<parts[g][i].sheet, parts[g][i].header>> : i \in DOMAIN parts[g]} :
                        g \in DOMAIN parts}
      Single(found, sheet) ==
        LET free == SelectSeq(sheet.tables, LAMBDA t : <<t.sheet, t.header>> \notin taken)
        IN  found \o [i \in DOMAIN free |-> Selection(<<free[i]>>, FALSE)]
      all  == FoldLeft(Single, [g \in DOMAIN parts |-> Selection(parts[g], TRUE)], analysed)
      Before(i, j) == \/ all[i].value > all[j].value
                      \/ /\ all[i].value = all[j].value
                         /\ \/ all[i].tables[1].header < all[j].tables[1].header
                            \/ all[i].tables[1].header = all[j].tables[1].header /\ i < j
      Place(i) == Cardinality({j \in DOMAIN all : Before(j, i)}) + 1
  IN  [k \in DOMAIN all |-> all[CHOOSE i \in DOMAIN all : Place(i) = k]]

\* What each sheet is: data, a recap (by its name, or of little next to the table used), empty, hidden.
Role(sheet, analysed, selections, layout) ==
  LET Of(s) == {s.tables[i].sheet : i \in DOMAIN s.tables}
      used  == IF selections = <<>> THEN {} ELSE Of(selections[1])
      named == sheet.recap /\ layout.sheets = {} /\ sheet.tables # <<>>
      small == /\ sheet.name \notin used
               /\ \E i \in DOMAIN selections : sheet.name \in Of(selections[i])
               /\ 4 * sheet.tables[1].value < selections[1].value
  IN  IF ~sheet.visible THEN "HIDDEN" ELSE IF ~sheet.filled THEN "EMPTY"
      ELSE IF named \/ sheet.tables = <<>> \/ small THEN "SUMMARY" ELSE "DATA"

\* understand: the table asked for, or the biggest; a question when two are comparable.
Understand(sheets, layout) ==
  LET analysed   == Analysed(sheets, layout)
      selections == Selections(analysed)
      asked == SelectSeq(selections, LAMBDA s : layout.key # <<>> /\ s.key = layout.key)
  IN  [selections |-> selections,
       roles      |-> [i \in DOMAIN sheets |-> Role(sheets[i], analysed, selections, layout)],
       chosen     |-> IF asked # <<>> THEN {asked[1]} ELSE IF selections # <<>> THEN {selections[1]} ELSE {},
       ambiguous  |-> /\ layout.key = <<>> /\ Len(selections) > 1
                      /\ 10 * selections[1].value < 16 * selections[2].value]

--------------------------------------------------------------------------------
(* The columns of the simple table *)

\* _unique: the name, or the name with the first number that is free.  A name is <<words, number>>,
\* as the labels of SheetTable: "Ore" is <<"ore", 0>> and "Ore (2)" is <<"ore", 2>>.
Unique(taken, name) ==
  LET Numbered(k) == <<name[1], 10 * name[2] + k>>
      free == {k \in 2 .. (Cardinality(taken) + 2) : Numbered(k) \notin taken}
  IN  IF name \notin taken THEN name ELSE Numbered(CHOOSE k \in free : \A m \in free : k <= m)

\* build_plan: why the table cannot be read yet, or where each of its columns comes from.
BuildPlan(document, layout) ==
  LET table == (CHOOSE s \in document.chosen : TRUE)
      first == table.tables[1]
      grid  == (CHOOSE g \in table.grid : TRUE)
      dates == ResolveDays(grid.days, table.period.start, layout.start)
      gone  == IF layout.hours = "" THEN {} ELSE {d.index : d \in Range(grid.days)} \cup grid.totals
      kept  == SelectSeq([i \in DOMAIN first.labels |-> i], LAMBDA i : i \notin gone)
      extra == (IF layout.department = "" THEN <<>> ELSE <<<<layout.department, 0>>>>)
               \o (IF layout.hours = "" THEN <<>> ELSE <<<<"data", 0>>, <<layout.hours, 0>>>>)
      names == [i \in DOMAIN kept |-> first.labels[kept[i]]] \o extra
      Named(headers, name) == Append(headers, Unique(Range(headers), name))
      At(t, label) == {i \in DOMAIN t.labels : t.labels[i] = label}
      Source(t, label) == IF At(t, label) = {} THEN 0
                          ELSE CHOOSE i \in At(t, label) : \A j \in At(t, label) : j <= i
      Refused(reason) == [refused |-> reason, headers |-> <<>>, sources |-> <<>>, days |-> <<>>]
  IN  IF document.chosen = {} THEN Refused("empty_file")
      ELSE IF layout.hours # "" /\ table.grid = {} THEN Refused("grid_not_found")
      ELSE IF layout.hours # "" /\ (table.partition \/ Cardinality(grid.groups) > 1)
           THEN Refused("grid_not_supported")
      ELSE IF layout.hours # "" /\ dates = <<>> THEN Refused("period_required")
      ELSE [refused |-> "", headers |-> FoldLeft(Named, <<>>, names),
            sources |-> [n \in DOMAIN table.tables |->
                           [i \in DOMAIN kept |-> Source(table.tables[n], first.labels[kept[i]])]],
            days    |-> IF layout.hours = "" THEN <<>> ELSE dates]
================================================================================
