---------------------------- MODULE MCDocuments ----------------------------
(* Small packages, documents, workbooks and CSV files for the office          *)
(* conversions: one of the three is checked in each behaviour.                *)
EXTENDS XmlPackage, WordText, SheetBands

VARIABLE part  \* the part of a conversion that runs: "package", "word" or "sheet"

\* Small enough for every limit to be passed within MaxNodes elements.
XmlLimits ==
    [k \in Kinds |-> CASE k = "elements" -> 20 [] k = "cells" -> 3 [] OTHER -> 2]

Cell == [span |-> 1, continued |-> FALSE, image |-> FALSE, tables |-> <<>>]
Spanning == [Cell EXCEPT !.span = 2]
SmallTables ==
    {<<<<Cell>>>>, <<<<Cell, Cell>>>>, <<<<Spanning>>>>, <<<<Cell>>, <<[Cell EXCEPT !.continued = TRUE]>>>>}
Holding(tbls) == [Cell EXCEPT !.tables = tbls]
FirstCells ==
    {Cell, Spanning, [Cell EXCEPT !.image = TRUE]}
    \cup UNION {{Holding(<<t>>), Holding(<<t, t>>), Holding(<<<<<<Holding(<<t>>)>>>>, t>>)} : t \in SmallTables}
LaterCells == FirstCells \cup {[c EXCEPT !.continued = TRUE] : c \in {Cell, Spanning}}
RowsOf(cells) == UNION {{<<c>>, <<c, Cell>>, <<Cell, c>>} : c \in cells}
SomeTables ==
    {<<r>> : r \in RowsOf(FirstCells) \cup {<<Spanning, [Cell EXCEPT !.image = TRUE]>>}}
    \cup {t \in {<<r, q>> : r \in RowsOf(FirstCells), q \in RowsOf(LaterCells)} : WellFormed(t)}
AllTables == {<<>>} \cup SmallTables \cup {<<<<Holding(<<t>>)>>>> : t \in SmallTables} \cup SomeTables
Paragraph == [paragraph |-> TRUE, image |-> FALSE, table |-> <<>>]
TableBlock(t) == [paragraph |-> FALSE, image |-> FALSE, table |-> t]
SomeDocuments ==
    {<<>>, <<Paragraph>>, <<[Paragraph EXCEPT !.image = TRUE], Paragraph>>}
    \cup {<<Paragraph, TableBlock(t), Paragraph>> : t \in SomeTables}
    \cup {<<TableBlock(t), TableBlock(u)>> : t, u \in SmallTables}

Ranges == {<<1, 1, 2, 1>>, <<1, 2, 1, 4>>, <<2, 5, 3, 6>>, <<3, 1, 3, 4>>, <<1, 1, 5, 3>>}
Empty == [cells |-> {}, merges |-> {}, anchors |-> {}, unsupported |-> {}, floating |-> FALSE]
SomeSheets ==
    [cells : {c \cup d : c \in SUBSET {<<1, k>> : k \in 1..6}, d \in {{}, {<<3, 2>>}}},
     merges : {ms \in SUBSET Ranges : Cardinality(ms) <= 2 /\ \A m, n \in ms : m # n => Block(m) \cap Block(n) = {}},
     anchors : {{}, {<<2, 7>>}, {<<1, 1>>}},
     unsupported : {{}},
     floating : {FALSE}]
SomeWorkbooks ==
    {<<s>> : s \in SomeSheets}
    \cup {<<[Empty EXCEPT !.cells = {<<1, 2>>}, !.anchors = {<<2, 7>>, <<1, 1>>}, !.unsupported = u]>> :
            u \in {{<<2, 7>>}, {<<1, 1>>}, {<<2, 7>>, <<1, 1>>}}}
    \cup {<<>>, <<Empty, Empty, Empty, Empty>>, <<Empty>>, <<Empty, [Empty EXCEPT !.cells = {<<1, 2>>}], [Empty EXCEPT !.floating = TRUE]>>}
CsvRow(v) == [values |-> v, filled |-> v, delimiters |-> IF v = 0 THEN 0 ELSE v - 1]
SomeRows ==
    {CsvRow(v) : v \in 0..4}
    \cup {[CsvRow(4) EXCEPT !.filled = 1], [CsvRow(3) EXCEPT !.filled = 0], [CsvRow(2) EXCEPT !.delimiters = 14]}
SomeCsvFiles == UNION {[1..n -> SomeRows] : n \in 0..3}

WordIdle == doc = <<>> /\ WordInit
SheetIdle == book = <<>> /\ lines = <<>> /\ phase = "sheets" /\ BandsInit

Init ==
    /\ XmlInit
    /\ \/ part = "package" /\ WordIdle /\ SheetIdle
       \/ part = "word" /\ WordInit /\ SheetIdle
       \/ part = "sheet" /\ WordIdle /\ BandsInit

Next ==
    \/ part = "package" /\ XmlNext /\ UNCHANGED <<part, wordVars, bandVars>>
    \/ part = "word" /\ WordNext /\ UNCHANGED <<part, xmlVars, bandVars>>
    \/ part = "sheet" /\ BandsNext /\ UNCHANGED <<part, xmlVars, wordVars>>

Spec == Init /\ [][Next]_<<part, xmlVars, wordVars, bandVars>>
=============================================================================
