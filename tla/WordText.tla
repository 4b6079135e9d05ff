------------------------------ MODULE WordText ------------------------------
(* backend/app/office_operations.py, Word to Excel: the text of a document in  *)
(* reading order, tables in tables included, against the text of the sheet.    *)
EXTENDS WordSheet

\* What a table says, in reading order: its cells row by row, then each table
\* in them, under its label, with its own nested tables before its sibling.
RECURSIVE TableText(_, _)
TableText(table, path) ==
    LET grid == RowCells(table)
        own == FlattenSeq(TableRows(grid, path))
        nested == NestedTables(table, grid, 1, path)
    IN  SelectSeq(own, LAMBDA t : t # Blank)
        \o FlattenSeq([n \in DOMAIN nested |->
                         <<nested[n].path>> \o TableText(nested[n].table, nested[n].path)])

DocumentText ==
    FlattenSeq([b \in DOMAIN doc |-> IF doc[b].paragraph THEN <<<<b>>>> ELSE TableText(doc[b].table, <<b>>)])

SheetText ==
    LET shown(r) == [c \in DOMAIN rows[r] |-> IF <<r, c, rows[r][c]>> \in sheet THEN rows[r][c] ELSE Blank]
    IN  SelectSeq(FlattenSeq([r \in DOMAIN rows |-> shown(r)]), LAMBDA t : t # Blank)

\* OFFICE_CONVERSIONS.md: the text is transferred "in source order".  Every
\* paragraph, cell and nested table is in the sheet once and in the order of the
\* document: no merge shifted by labels and blank rows erases another's text.
EverythingInOrder == step = "done" => SheetText = DocumentText
=============================================================================
