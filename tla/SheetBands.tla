----------------------------- MODULE SheetBands -----------------------------
(* backend/app/office_operations.py, Excel to Word: _parse_excel drops the    *)
(* rows and columns of a worksheet nothing is in and maps the rest to a dense *)
(* grid (_parse_csv reads one that is dense); _sheet_bands cuts a wide grid   *)
(* into tables that repeat its first column; _write_word writes the tables.   *)
(* What a cell of a grid says is the row and column it comes from.            *)
EXTENDS Naturals, Sequences, FiniteSets, FiniteSetsExt, SequencesExt

CONSTANTS
    Workbooks,      \* the inputs: sequences of worksheets
    CsvFiles,       \* the inputs that are CSV: sequences of rows
    MaxSheets,      \* MAX_SPREADSHEET_SHEETS
    BandWidth,      \* MAX_WORD_COLUMNS_PER_BAND
    MaxSheetCells,  \* MAX_OUTPUT_TABLE_CELLS
    MaxFilled       \* MAX_SPREADSHEET_NONEMPTY_CELLS

\* A worksheet: its cells with a value, its merged ranges (top, left, bottom and
\* right), the cells pictures are anchored to, those among them whose pictures cannot be
\* put into a Word document, whether other pictures float.
IsWorksheet(ws) ==
    /\ ws \in [cells : SUBSET (Nat \X Nat), merges : SUBSET (Nat \X Nat \X Nat \X Nat),
               anchors : SUBSET (Nat \X Nat), unsupported : SUBSET (Nat \X Nat), floating : BOOLEAN]
    /\ IsFiniteSet(ws.cells) /\ IsFiniteSet(ws.merges) /\ IsFiniteSet(ws.anchors)
    /\ \A m \in ws.merges : m[1] <= m[3] /\ m[2] <= m[4]

\* A row of a CSV file: its values, how many are not empty, and the most delimiters there
\* are in a line of it, quoted ones included.
IsCsvRow(row) == row \in [values : Nat, filled : Nat, delimiters : Nat] /\ row.filled <= row.values

ASSUME BandsAssumption ==
    /\ BandWidth \in Nat \ {0, 1}
    /\ MaxSheetCells \in Nat \ {0}
    /\ MaxFilled \in Nat
    /\ \A b \in Workbooks : b \in Seq(Range(b)) /\ \A ws \in Range(b) : IsWorksheet(ws)
    /\ MaxSheets \in Nat
    /\ \A f \in CsvFiles : f \in Seq(Range(f)) /\ \A row \in Range(f) : IsCsvRow(row)

VARIABLES
    book,    \* the worksheets
    lines,   \* the rows of a CSV file
    at,      \* the next worksheet to parse or to write
    parsed,  \* the parsed sheets: grid, merges and pictures
    filled,  \* the cells with a value so far
    tables,  \* the tables of the Word document, with the sheet each is of
    phase    \* "sheets", "csv", "write", "done", "tooComplex", "failed" or "writerRefuses"

bandVars == <<book, lines, at, parsed, filled, tables, phase>>

Block(m) == (m[1]..m[3]) \X (m[2]..m[4])

-----------------------------------------------------------------------------
(* _parse_excel                                                               *)

\* The rows and columns something is in: a cell, a merged range, a picture.
UsedRows(ws) == {p[1] : p \in ws.cells \cup ws.anchors} \cup UNION {m[1]..m[3] : m \in ws.merges}
UsedColumns(ws) == {p[2] : p \in ws.cells \cup ws.anchors} \cup UNION {m[2]..m[4] : m \in ws.merges}

\* row_map and column_map.
Rank(used, x) == Cardinality({y \in used : y <= x})
Nth(used, n) == CHOOSE x \in used : Rank(used, x) = n

MappedMerge(ws, m) ==
    <<Rank(UsedRows(ws), m[1]), Rank(UsedColumns(ws), m[2]),
      Rank(UsedRows(ws), m[3]), Rank(UsedColumns(ws), m[4])>>

NoCell == <<0, 0>>

\* (Wrong: pictures keep their row.)
MappedAnchorUnmapped(ws, p) == <<p[1], Rank(UsedColumns(ws), p[2])>>
MappedAnchor(ws, p) == <<Rank(UsedRows(ws), p[1]), Rank(UsedColumns(ws), p[2])>>

\* The pictures that stay; the others only keep their row and column.
Pictured(ws) == ws.anchors \ ws.unsupported

\* A sheet with nothing but floating pictures still gets one empty cell.
Compacted(ws) ==
    LET height == Cardinality(UsedRows(ws))
        width == Cardinality(UsedColumns(ws))
    IN  [grid |-> IF height = 0 THEN <<<<NoCell>>>>
                  ELSE [r \in 1..height |-> [c \in 1..width |-> <<Nth(UsedRows(ws), r), Nth(UsedColumns(ws), c)>>]],
         merges |-> {MappedMerge(ws, m) : m \in ws.merges},
         pictures |-> {MappedAnchor(ws, p) : p \in Pictured(ws)}]

\* The size is known before a grid is built: with each merged range, and then
\* with the pictures.  (Wrong: the size of the cells alone.)
OversizedCells(ws) == Cardinality(ws.cells) > MaxSheetCells
Oversized(ws) == Cardinality(UsedRows(ws)) * Max({1, Cardinality(UsedColumns(ws))}) > MaxSheetCells

Shows(ws) == ws.cells # {} \/ ws.anchors # {} \/ ws.floating

ParseSheet ==
    LET ws == book[at]
    IN  /\ phase = "sheets" /\ at <= Len(book)
        /\ IF Len(book) > MaxSheets
           THEN phase' = "tooComplex" /\ UNCHANGED <<parsed, filled>>
           ELSE IF ~Shows(ws)
           THEN UNCHANGED <<parsed, filled, phase>>
           ELSE /\ filled' = filled + Cardinality(ws.cells)
                /\ IF Oversized(ws) \/ filled' > MaxFilled
                   THEN phase' = "tooComplex" /\ UNCHANGED parsed
                   ELSE parsed' = Append(parsed, Compacted(ws)) /\ UNCHANGED phase
        /\ at' = at + 1
        /\ UNCHANGED <<book, lines, tables>>

-----------------------------------------------------------------------------
(* _parse_csv                                                                 *)

\* Rows without a value are skipped; the others have to have as many values each.
Kept(rows) == {i \in DOMAIN rows : rows[i].filled > 0}
RowWidths(rows) == [i \in DOMAIN rows |-> rows[i].values]
RowFills(rows) == [i \in DOMAIN rows |-> rows[i].filled]

Dense(height, width) ==
    [grid |-> IF height = 0 THEN <<<<NoCell>>>> ELSE [r \in 1..height |-> [c \in 1..width |-> <<r, c>>]],
     merges |-> {}, pictures |-> {}]

\* The lines are looked at before they are read as rows.
ParseCsv ==
    LET kept == Kept(lines)
        widths == {RowWidths(lines)[i] : i \in kept}
        cells == SumFunctionOnSet(RowWidths(lines), kept)
        full == SumFunctionOnSet(RowFills(lines), kept)
    IN  /\ phase = "csv"
        /\ IF \/ \E i \in DOMAIN lines : lines[i].delimiters + 1 > MaxSheetCells
              \/ cells > MaxSheetCells \/ full > MaxFilled
           THEN phase' = "tooComplex" /\ UNCHANGED <<parsed, filled>>
           ELSE IF Cardinality(widths) > 1
           THEN phase' = "failed" /\ UNCHANGED <<parsed, filled>>
           ELSE /\ phase' = "write"
                /\ parsed' = <<Dense(Cardinality(kept), Max({0} \cup widths))>>
                /\ filled' = full
        /\ UNCHANGED <<book, lines, at, tables>>

\* An encoding or a delimiter that cannot be told, binary data, a workbook
\* openpyxl cannot read, pictures past the budget of media, the deadline, a document
\* that cannot be saved.
FailParse ==
    /\ phase \in {"sheets", "csv", "write"}
    /\ phase' = "failed"
    /\ UNCHANGED <<book, lines, at, parsed, filled, tables>>

BandsInit ==
    /\ \/ book \in Workbooks /\ lines = <<>> /\ phase = "sheets"
       \/ book = <<>> /\ lines \in CsvFiles /\ phase = "csv"
    /\ at = 1
    /\ parsed = <<>> /\ tables = <<>>
    /\ filled = 0

StartWriting ==
    /\ phase = "sheets" /\ at > Len(book)
    /\ phase' = "write"
    /\ at' = 1
    /\ UNCHANGED <<book, lines, parsed, filled, tables>>

-----------------------------------------------------------------------------
(* _sheet_bands                                                               *)

Columns(sheet) == Len(sheet.grid[1])

\* The columns of the bands: the first, and the next BandWidth - 1 others.
\* (Wrong: one of the others is left out between two bands.)
BandsSkipping(sheet) ==
    [n \in 1..((Columns(sheet) + BandWidth - 2) \div BandWidth) |->
        <<1>> \o [i \in 1..Min({BandWidth - 1, Columns(sheet) - 1 - (n - 1) * BandWidth}) |->
                    1 + (n - 1) * BandWidth + i]]
Bands(sheet) ==
    [n \in 1..((Columns(sheet) + BandWidth - 3) \div (BandWidth - 1)) |->
        <<1>> \o [i \in 1..Min({BandWidth - 1, Columns(sheet) - 1 - (n - 1) * (BandWidth - 1)}) |->
                    1 + (n - 1) * (BandWidth - 1) + i]]

PlaceIn(columns, c) == CHOOSE i \in DOMAIN columns : columns[i] = c

\* The part of a sheet in some of its columns.  A merged range is kept if all
\* its columns are there.  (Wrong: if its first and last are.)
KeptMergesByEnds(sheet, columns) ==
    {m \in sheet.merges : {m[2], m[4]} \subseteq Range(columns)}
KeptMerges(sheet, columns) ==
    {m \in sheet.merges : m[2]..m[4] \subseteq Range(columns)}

Band(sheet, columns) ==
    [grid |-> [r \in DOMAIN sheet.grid |-> [i \in DOMAIN columns |-> sheet.grid[r][columns[i]]]],
     merges |-> {<<m[1], PlaceIn(columns, m[2]), m[3], PlaceIn(columns, m[4])>> :
                   m \in KeptMerges(sheet, columns)},
     pictures |-> {<<p[1], PlaceIn(columns, p[2])>> :
                     p \in {x \in sheet.pictures : x[2] \in Range(columns)}}]

SheetTables(sheet) ==
    IF Columns(sheet) <= BandWidth THEN <<sheet>>
    ELSE [n \in DOMAIN Bands(sheet) |-> Band(sheet, Bands(sheet)[n])]

-----------------------------------------------------------------------------
(* _write_word                                                                *)

TableSize(table) == Len(table.grid) * Max({1, Len(table.grid[1])})

\* A section for each sheet, with a table for each band.
WriteSheet ==
    LET bands == SheetTables(parsed[at])
    IN  /\ phase = "write" /\ at <= Len(parsed)
        /\ IF \E n \in DOMAIN bands : TableSize(bands[n]) > MaxSheetCells
           THEN phase' = "writerRefuses" /\ UNCHANGED tables
           ELSE tables' = tables \o [n \in DOMAIN bands |-> [sheet |-> at, table |-> bands[n]]] /\ UNCHANGED phase
        /\ at' = at + 1
        /\ UNCHANGED <<book, lines, parsed, filled>>

SaveDocument ==
    /\ phase = "write" /\ at > Len(parsed)
    /\ phase' = "done"
    /\ UNCHANGED <<book, lines, at, parsed, filled, tables>>

BandsNext == ParseSheet \/ ParseCsv \/ StartWriting \/ WriteSheet \/ SaveDocument \/ FailParse

-----------------------------------------------------------------------------
(* What the document shows of the sheets                                      *)

TablesOf(s) == {tables[i].table : i \in {k \in DOMAIN tables : tables[k].sheet = s}}
PlacesIn(table) == (DOMAIN table.grid) \X (DOMAIN table.grid[1])
Shown(table, p) == table.grid[p[1]][p[2]]

\* The worksheets that are not skipped, in the order of the workbook.
Sources == {i \in DOMAIN book : Shows(book[i])}
TablesFrom(i) == TablesOf(Rank(Sources, i))

\* Every cell of a sheet is in one table of it, those of the first used column
\* in all, and rows and columns keep their order: the tables of a wide sheet,
\* put side by side, are the sheet.
TablesMakeTheSheet ==
    phase = "done" /\ book # <<>> =>
        \A i \in Sources :
            /\ \A cell \in book[i].cells :
                 LET in == {t \in TablesFrom(i) : \E p \in PlacesIn(t) : Shown(t, p) = cell}
                 IN  IF cell[2] = Min(UsedColumns(book[i])) THEN in = TablesFrom(i) ELSE Cardinality(in) = 1
            /\ \A t \in TablesFrom(i) : \A p, q \in PlacesIn(t) :
                 (p[1] < q[1] => Shown(t, p)[1] < Shown(t, q)[1]) /\ (p[2] < q[2] => Shown(t, p)[2] < Shown(t, q)[2])

\* What a table merges is a merged range of the worksheet, all of it and nothing
\* else: a range cut by the edge of a band is not merged, one within a band is.
MergesStayWhole ==
    phase = "done" /\ book # <<>> =>
        \A i \in Sources : \A t \in TablesFrom(i) :
            LET shown == {Shown(t, p) : p \in PlacesIn(t)}
            IN  {{Shown(t, p) : p \in Block(m)} : m \in t.merges}
                = {Block(m) : m \in {x \in book[i].merges : Block(x) \subseteq shown}}

\* A picture is in the cell it was anchored to, and in no table without it.
PicturesKeepPlace ==
    phase = "done" /\ book # <<>> =>
        \A i \in Sources : \A t \in TablesFrom(i) :
            /\ t.pictures \subseteq PlacesIn(t)
            /\ {Shown(t, p) : p \in t.pictures} = {Shown(t, p) : p \in PlacesIn(t)} \cap Pictured(book[i])

\* What hangs on rows and columns stays with them when empty ones are dropped and the
\* rest is cut into bands.
AnchorsKeepPlace == MergesStayWhole /\ PicturesKeepPlace

\* The limits of the parser are enough: the writer, after the work of parsing,
\* never has to refuse a table.
WriterNeverRefuses == phase # "writerRefuses"
=============================================================================
