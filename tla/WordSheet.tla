----------------------------- MODULE WordSheet ------------------------------
(* backend/app/office_operations.py, Word to Excel: _parse_word lays the      *)
(* blocks of a document out as the rows of one sheet, _word_table_data a      *)
(* table, _write_excel writes the sheet.  Nested tables follow the table they *)
(* are in, under a label that the cell they were in links to.  What a cell    *)
(* says is where it comes from: the path of the table, then row and column.   *)
EXTENDS Naturals, Sequences, FiniteSets, FiniteSetsExt, SequencesExt

CONSTANTS
    Documents,      \* the documents to convert: sequences of blocks
    Tables,         \* the tables in them, those inside of others included
    MaxWidth,       \* MAX_EXCEL_COLUMNS
    MaxTables,      \* MAX_WORD_TABLES
    MaxTableCells,  \* MAX_WORD_TABLE_CELLS
    MaxImages       \* MAX_IMAGES

\* A block is [paragraph, image, table]; a table is a sequence of rows, a row a
\* sequence of cells [span, continued, image, tables].
Width(row) == SumFunction([k \in DOMAIN row |-> row[k].span])

\* The cell of a row that covers a column of the grid.
Covering(row, c) ==
    CHOOSE k \in DOMAIN row : Width(SubSeq(row, 1, k - 1)) < c /\ c <= Width(SubSeq(row, 1, k))

\* Word continues a cell downwards with one of the same columns.
WellFormed(table) ==
    \A r \in DOMAIN table : \A k \in DOMAIN table[r] :
        table[r][k].continued =>
            /\ r > 1
            /\ \E l \in DOMAIN table[r - 1] :
                 /\ table[r - 1][l].span = table[r][k].span
                 /\ Width(SubSeq(table[r - 1], 1, l)) = Width(SubSeq(table[r], 1, k))

ASSUME WordAssumption ==
    /\ {MaxWidth, MaxTables, MaxTableCells, MaxImages} \subseteq Nat
    /\ MaxWidth > 0
    /\ Documents \subseteq Seq([paragraph : BOOLEAN, image : BOOLEAN, table : Tables])
    /\ \A t \in Tables :
         /\ t \in Seq(Seq([span : Nat \ {0}, continued : BOOLEAN, image : BOOLEAN, tables : Seq(Tables)]))
         /\ WellFormed(t)

VARIABLES
    doc,     \* the document
    next,    \* the next block of it
    todo,    \* the nested tables append_table has yet to append, the next one first
    rows,    \* the rows of the sheet
    spans,   \* merges: top, left, bottom, right
    texts,   \* paragraph_rows
    links,   \* cell -> the row its link leads to
    pictures,\* images: row, column and where they come from
    counts,  \* tables and table cells so far
    widest,  \* maximum_width
    sheet,   \* the cells of the written sheet that show something
    step     \* "parse", "write", "done", "tooComplex" or "failed"

wordVars == <<doc, next, todo, rows, spans, texts, links, pictures, counts, widest, sheet, step>>

Blank == <<>>
Cells(top, left, bottom, right) == (top..bottom) \X (left..right)
CellsOf(m) == Cells(m[1], m[2], m[3], m[4])

-----------------------------------------------------------------------------
(* _word_table_data                                                           *)

\* python-docx's row.cells: a cell for each column, the one above where it
\* continues; a cell is told by its own row and place in the row.
RowCells(table) ==
    LET cells[r \in 1..Len(table)] ==
          [c \in 1..Width(table[r]) |->
              LET k == Covering(table[r], c)
              IN  IF table[r][k].continued THEN cells[r - 1][c] ELSE <<r, k>>]
    IN  cells

Places(grid, cell) == {p \in UNION {{r} \X DOMAIN grid[r] : r \in DOMAIN grid} : grid[p[1]][p[2]] = cell}

\* The first place the loops over rows and columns come to.
FirstPlace(grid, cell) ==
    CHOOSE p \in Places(grid, cell) : \A q \in Places(grid, cell) : p[1] < q[1] \/ (p[1] = q[1] /\ p[2] <= q[2])

CellsIn(grid) == UNION {Range(grid[r]) : r \in DOMAIN grid}
SourceCell(table, cell) == table[cell[1]][cell[2]]

TableRows(grid, path) ==
    [r \in DOMAIN grid |-> [c \in DOMAIN grid[r] |->
        IF FirstPlace(grid, grid[r][c]) = <<r, c>> THEN path \o <<r, c>> ELSE Blank]]

\* (Wrong: a row too high.)
TableMergesHigh(grid, first) ==
    {<<first + FirstPlace(grid, cell)[1] - 2, FirstPlace(grid, cell)[2],
       first + Max({p[1] : p \in Places(grid, cell)}) - 2, Max({p[2] : p \in Places(grid, cell)})>> :
       cell \in {x \in CellsIn(grid) : Cardinality(Places(grid, x)) > 1}}
TableMerges(grid, first) ==
    {<<first + FirstPlace(grid, cell)[1] - 1, FirstPlace(grid, cell)[2],
       first + Max({p[1] : p \in Places(grid, cell)}) - 1, Max({p[2] : p \in Places(grid, cell)})>> :
       cell \in {x \in CellsIn(grid) : Cardinality(Places(grid, x)) > 1}}

\* (Wrong: a picture is put at the place of its cell in the source row.)
TablePicturesInSource(table, grid, first, path) ==
    {<<first + cell[1] - 1, cell[2], path \o FirstPlace(grid, cell)>> :
       cell \in {x \in CellsIn(grid) : SourceCell(table, x).image}}
TablePictures(table, grid, first, path) ==
    {<<first + FirstPlace(grid, cell)[1] - 1, FirstPlace(grid, cell)[2], path \o FirstPlace(grid, cell)>> :
       cell \in {x \in CellsIn(grid) : SourceCell(table, x).image}}

\* The tables in the cells, in the order of the loops.
NestedTables(table, grid, first, path) ==
    FlattenSeq([r \in DOMAIN grid |-> FlattenSeq([c \in DOMAIN grid[r] |->
        IF FirstPlace(grid, grid[r][c]) # <<r, c>> THEN <<>>
        ELSE LET inner == SourceCell(table, grid[r][c]).tables
             IN  [n \in DOMAIN inner |->
                    [table |-> inner[n], path |-> path \o <<r, c, n>>, cell |-> <<first + r - 1, c>>]]])])

-----------------------------------------------------------------------------
(* _parse_word                                                                *)

WordInit ==
    /\ doc \in Documents
    /\ next = 1 /\ widest = 1
    /\ todo = <<>> /\ rows = <<>>
    /\ spans = {} /\ texts = {} /\ pictures = {} /\ sheet = {}
    /\ links = <<>>
    /\ counts = [tables |-> 0, cells |-> 0]
    /\ step = "parse"

\* separate_block: an empty row between two blocks.
Separated == IF rows = <<>> THEN rows ELSE Append(rows, <<Blank>>)

\* MediaBudget.add
OverBudget(images) == Cardinality(images) > MaxImages

AppendParagraph ==
    LET row == Len(Separated) + 1
        images == IF doc[next].image THEN {<<row, 1, <<next>>>>} ELSE {}
    IN  /\ step = "parse" /\ todo = <<>> /\ next <= Len(doc)
        /\ doc[next].paragraph
        /\ rows' = Append(Separated, <<<<next>>>>)
        /\ texts' = texts \cup {row}
        /\ pictures' = pictures \cup images
        /\ step' = IF OverBudget(pictures') THEN "tooComplex" ELSE "parse"
        /\ next' = next + 1
        /\ UNCHANGED <<doc, todo, spans, links, counts, widest, sheet>>

\* The row the label of a nested table is in, and the link to it.  (Wrong: the
\* row after the label.)
LabelRowAfter == Len(Separated) + 2
LabelRow == Len(Separated) + 1
LinksWith(cell, row) == [c \in DOMAIN links \cup {cell} |-> IF c = cell THEN row ELSE links[c]]

\* append_table: `entry' is a table with its path, `after' what is left to do,
\* `before' the rows with the label of a nested table.
Append_table(entry, before, after) ==
    LET grid == RowCells(entry.table)
        first == Len(before) + 1
        widths == {Len(grid[r]) : r \in DOMAIN grid}
        counted == [tables |-> counts.tables + 1,
                    cells |-> counts.cells + Width(FlattenSeq(entry.table))]
    IN  /\ counts' = counted
        /\ rows' = before \o TableRows(grid, entry.path)
        /\ spans' = spans \cup TableMerges(grid, first)
        /\ pictures' = pictures \cup TablePictures(entry.table, grid, first, entry.path)
        /\ widest' = Max(widths \cup {widest})
        /\ todo' = NestedTables(entry.table, grid, first, entry.path) \o after
        /\ step' = IF counted.tables > MaxTables \/ counted.cells > MaxTableCells
                      \/ (\E w \in widths : w > MaxWidth) \/ OverBudget(pictures')
                   THEN "tooComplex" ELSE "parse"

AppendTable ==
    /\ step = "parse" /\ todo = <<>> /\ next <= Len(doc)
    /\ ~doc[next].paragraph
    /\ Append_table([table |-> doc[next].table, path |-> <<next>>], Separated, <<>>)
    /\ next' = next + 1
    /\ UNCHANGED <<doc, texts, links, sheet>>

\* Nested tables are appended depth first, before the next block.
AppendNestedTable ==
    /\ step = "parse" /\ todo # <<>>
    /\ texts' = texts \cup {Len(Separated) + 1}
    /\ links' = LinksWith(Head(todo).cell, LabelRow)
    /\ Append_table(Head(todo), Append(Separated, <<Head(todo).path>>), Tail(todo))
    /\ UNCHANGED <<doc, next, sheet>>

\* The rows of paragraphs and labels are merged over the widest table.  (Wrong:
\* so is the row after them.)
MergedRowsNext == {<<row, 1, row + 1, widest>> : row \in texts}
MergedRows == IF widest > 1 THEN {<<row, 1, row, widest>> : row \in texts} ELSE {}

EndDocument ==
    /\ step = "parse" /\ todo = <<>> /\ next > Len(doc)
    /\ rows' = IF rows = <<>> THEN <<<<Blank>>>> ELSE rows
    /\ spans' = spans \cup MergedRows
    /\ step' = "write"
    /\ UNCHANGED <<doc, next, todo, texts, links, pictures, counts, widest, sheet>>

-----------------------------------------------------------------------------
(* _write_excel                                                               *)

\* openpyxl's merge_cells clears every cell of a range but the first.
Cleared == UNION {CellsOf(m) \ {<<m[1], m[2]>>} : m \in spans}

Write ==
    /\ step = "write"
    /\ IF (\E r \in DOMAIN rows : Len(rows[r]) > MaxWidth) \/ (\E m \in spans : m[4] > MaxWidth)
       THEN step' = "tooComplex" /\ UNCHANGED sheet
       ELSE /\ step' = "done"
            /\ sheet' = {<<p[1], p[2], rows[p[1]][p[2]]>> :
                           p \in {q \in UNION {{r} \X DOMAIN rows[r] : r \in DOMAIN rows} :
                                    rows[q[1]][q[2]] # Blank /\ q \notin Cleared}}
    /\ UNCHANGED <<doc, next, todo, rows, spans, texts, links, pictures, counts, widest>>

\* The deadline, a document python-docx cannot read, a text past
\* MAX_EXCEL_CELL_CHARACTERS or a workbook that cannot be saved.
FailConversion ==
    /\ step \in {"parse", "write"} /\ todo = <<>>
    /\ step' = "failed"
    /\ UNCHANGED <<doc, next, todo, rows, spans, texts, links, pictures, counts, widest, sheet>>

WordNext ==
    AppendParagraph \/ AppendTable \/ AppendNestedTable \/ EndDocument \/ Write \/ FailConversion

-----------------------------------------------------------------------------
(* Row numbers                                                                *)

\* Merges lie in the sheet and never overlap, which Excel would not open.
MergesFit ==
    step \in {"write", "done"} =>
        /\ \A m \in spans : CellsOf(m) \subseteq Cells(1, 1, Len(rows), widest)
        /\ \A m, n \in spans : m # n => CellsOf(m) \cap CellsOf(n) = {}
        /\ widest <= MaxWidth

\* A cell's link leads to the label of a table that was nested in this cell, and
\* each nested table has one unless a later one of the same cell took it over.
LabelsOf(cell) == {t \in sheet : \E own \in sheet : <<own[1], own[2]>> = cell /\ Len(t[3]) = Len(own[3]) + 1
                                                     /\ SubSeq(t[3], 1, Len(own[3])) = own[3]}
LinksFindTables ==
    step = "done" =>
        /\ \A cell \in DOMAIN links : \E t \in LabelsOf(cell) : t[1] = links[cell] /\ t[2] = 1
        /\ \A own \in sheet : LabelsOf(<<own[1], own[2]>>) # {} => <<own[1], own[2]>> \in DOMAIN links

\* Every picture is anchored to the cell it was in.
PicturesStay == step = "done" => pictures \subseteq sheet

\* What hangs on row numbers (merges, links and pictures) stays with its rows through
\* blank rows, labels and nested tables.
AnchorsFollowRows == MergesFit /\ LinksFindTables /\ PicturesStay
=============================================================================
