----------------------------- MODULE XmlPackage -----------------------------
(* backend/app/office_operations.py, _safe_xml_package: one pass over the     *)
(* start and end events of every XML part of an Office package, which counts  *)
(* against the limits before python-docx or openpyxl build anything.  What    *)
(* the parser has read is kept as a tree, which the code never sees: the      *)
(* properties compare the code's counters with it.                            *)
EXTENDS Naturals, Sequences, FiniteSets, FiniteSetsExt, SequencesExt

CONSTANTS
    Limit,       \* per kind of count, the largest allowed
    MaxDepth,    \* MAX_OFFICE_XML_DEPTH
    MaxColumns,  \* MAX_EXCEL_COLUMNS
    CheckEvery,  \* elements between two looks at the clock (1024)
    MaxNodes     \* bound: elements of the package

Kinds == {"elements", "attributes", "styles", "sharedStrings", "relationships", "text",
          "tables", "cells", "paragraphs", "sheets", "mergedCells", "materialized", "nonempty"}

ASSUME XmlAssumption ==
    /\ Limit \in [Kinds -> Nat]
    /\ {MaxDepth, MaxColumns, MaxNodes} \subseteq Nat
    /\ CheckEvery \in Nat \ {0}

VARIABLES
    nodes,    \* the elements read so far: tag, value, column and parent
    entry,    \* whether the clock was looked at for a part that has not begun
    open,     \* the path of elements that have started and not ended
    count,    \* the code's counters
    grids,    \* word_table_grids: columns declared, per open table
    cellsIn,  \* word_table_rows: columns taken in the open row, per open table, or NoRow
    late,     \* the elements read when the deadline passed, or NotLate
    scan      \* "reading", or how the scan ended

xmlVars == <<nodes, entry, open, count, grids, cellsIn, late, scan>>

NoRow == MaxNodes + MaxColumns + 1
NotLate == MaxNodes + 1

\* What an element may contain, as far as the scan tells elements apart; the
\* roots are the parts of a package, in one order: the counters of a part do not
\* depend on those of another.  The properties of a cell come first in it.
PartOrder == <<"document", "workbook", "worksheet", "styles", "strings", "rels">>
Parts == Range(PartOrder)
Children(tag) ==
    CASE tag = "document" -> {"tbl", "p"}
      [] tag = "tbl" -> {"gridCol", "tr"}
      [] tag = "tr" -> {"tc"}
      [] tag = "tc" -> {"gridSpan", "tbl", "p"}
      [] tag = "workbook" -> {"sheet"}
      [] tag = "worksheet" -> {"mergeCell", "c"}
      [] tag = "styles" -> {"xf"}
      [] tag = "strings" -> {"si"}
      [] tag = "rels" -> {"Relationship"}
      [] OTHER -> {}

\* A span (0 stands for one that is missing, below 1 or no number), the cells of
\* a merged range (0: no valid range), whether a cell has a value or a formula.
Values(tag) ==
    CASE tag \in {"gridSpan", "mergeCell"} -> {0, 2}
      [] tag = "c" -> {0, 1}
      [] OTHER -> {0}

\* The last column of a merged range.
LastColumns(tag) == IF tag = "mergeCell" THEN {MaxColumns, MaxColumns + 1} ELSE {0}

Attributes(tag) == IF tag \in {"gridSpan", "mergeCell", "c"} THEN 1 ELSE 0
Text(tag) == IF tag \in {"p", "si"} THEN 1 ELSE 0

-----------------------------------------------------------------------------
(* The counters                                                               *)

\* What the start and the end of an element add, and to which counters.
AddedAtStart(tag) ==
    [k \in Kinds |->
        CASE k = "elements" -> 1
          [] k = "attributes" -> Attributes(tag)
          [] k = "styles" /\ tag = "xf" -> 1
          [] k = "sharedStrings" /\ tag = "si" -> 1
          [] k = "relationships" /\ tag = "Relationship" -> 1
          [] OTHER -> 0]

AddedAtEnd(tag, value) ==
    [k \in Kinds |->
        CASE k = "text" -> Text(tag)
          [] k = "tables" /\ tag = "tbl" -> 1
          [] k = "cells" /\ tag = "tc" -> 1
          [] k = "paragraphs" /\ tag = "p" -> 1
          [] k = "sheets" /\ tag = "sheet" -> 1
          [] k = "mergedCells" /\ tag = "mergeCell" -> value
          [] k = "materialized" /\ tag = "c" -> 1
          [] k = "nonempty" /\ tag = "c" -> value
          [] OTHER -> 0]

Plus(counts, added) == [k \in Kinds |-> counts[k] + added[k]]
Exceeded(counts) == \E k \in Kinds : counts[k] > Limit[k]

SetLast(s, v) == [s EXCEPT ![Len(s)] = v]

\* The grids and open rows after the start of an element, ...
CellsAfterStart(tag) ==
    CASE tag = "tbl" -> Append(cellsIn, NoRow)
      [] tag = "tr" /\ cellsIn # <<>> -> SetLast(cellsIn, 0)
      [] tag = "tc" /\ cellsIn # <<>> /\ Last(cellsIn) # NoRow -> SetLast(cellsIn, Last(cellsIn) + 1)
      [] OTHER -> cellsIn

GridsAfterStart(tag) ==
    CASE tag = "tbl" -> Append(grids, 0)
      [] tag = "gridCol" /\ grids # <<>> -> SetLast(grids, Last(grids) + 1)
      [] OTHER -> grids

\* ... and after its end.  A cell has counted one column at its start.  (Wrong:
\* the outer table goes on with the row of the table that ends.)
CellsAfterEndKept(tag, value) ==
    IF tag = "tbl" /\ Len(cellsIn) > 1 THEN Append(Front(Front(cellsIn)), Last(cellsIn))
    ELSE IF tag = "gridSpan" THEN SetLast(cellsIn, Last(cellsIn) + value - 1) ELSE cellsIn
CellsAfterEnd(tag, value) ==
    CASE tag = "tbl" /\ cellsIn # <<>> -> Front(cellsIn)
      [] tag = "gridSpan" /\ cellsIn # <<>> /\ Last(cellsIn) # NoRow ->
           SetLast(cellsIn, Last(cellsIn) + value - 1)
      [] tag = "tr" /\ cellsIn # <<>> -> SetLast(cellsIn, NoRow)
      [] OTHER -> cellsIn
TooWide(columns) == columns # <<>> /\ Last(columns) # NoRow /\ Last(columns) > MaxColumns

Beyond(node) == node.tag = "mergeCell" /\ node.column > MaxColumns

\* Within a part the clock is looked at by every CheckEvery-th element of the package.
\* (Wrong: only before each part.)
ClockDueAtParts(counts) == FALSE
ClockDue(counts) == counts["elements"] % CheckEvery = 0
-----------------------------------------------------------------------------
(* The pass                                                                   *)

XmlInit ==
    /\ nodes = <<>> /\ entry = FALSE /\ open = <<>> /\ grids = <<>> /\ cellsIn = <<>>
    /\ count = [k \in Kinds |-> 0]
    /\ late = NotLate
    /\ scan = "reading"

Started(tag) ==
    \/ /\ open = <<>> /\ entry
       /\ \E k \in DOMAIN PartOrder :
            /\ PartOrder[k] = tag
            /\ \A i \in DOMAIN nodes : \A l \in k..Len(PartOrder) : nodes[i].tag # PartOrder[l]
    \/ /\ open # <<>>
       /\ tag \in Children(nodes[Last(open)].tag)
       /\ tag = "gridSpan" => \A i \in DOMAIN nodes : nodes[i].parent # Last(open)

\* The next file of the archive: a part begins, or it is no XML.
NextFile ==
    /\ scan = "reading" /\ open = <<>> /\ ~entry
    /\ IF late # NotLate THEN scan' = "timeout" /\ UNCHANGED entry
       ELSE entry' = TRUE /\ UNCHANGED scan
    /\ UNCHANGED <<nodes, open, count, grids, cellsIn, late>>

StartElement(tag, value, column) ==
    LET counted == Plus(count, AddedAtStart(tag))
    IN  /\ scan = "reading"
        /\ Len(nodes) < MaxNodes
        /\ Started(tag)
        /\ entry' = FALSE
        /\ nodes' = Append(nodes, [tag |-> tag, value |-> value, column |-> column,
                                   parent |-> IF open = <<>> THEN 0 ELSE Last(open)])
        /\ open' = Append(open, Len(nodes) + 1)
        /\ count' = counted
        /\ grids' = GridsAfterStart(tag)
        /\ cellsIn' = CellsAfterStart(tag)
        /\ scan' = IF Exceeded(counted) \/ Len(open') > MaxDepth THEN "tooComplex"
                    ELSE IF ClockDue(counted) /\ late # NotLate THEN "timeout"
                    ELSE IF TooWide(grids') \/ TooWide(cellsIn') THEN "tooComplex"
                    ELSE "reading"
        /\ UNCHANGED late

EndElement ==
    LET node == nodes[Last(open)]
        counted == Plus(count, AddedAtEnd(node.tag, node.value))
    IN  /\ scan = "reading"
        /\ open # <<>>
        /\ open' = Front(open)
        /\ count' = counted
        /\ IF node.tag \in {"gridSpan", "mergeCell"} /\ node.value = 0
           THEN scan' = "invalid" /\ UNCHANGED cellsIn
           ELSE /\ cellsIn' = CellsAfterEnd(node.tag, node.value)
                /\ scan' = IF Exceeded(counted) \/ TooWide(cellsIn') \/ Beyond(node)
                            THEN "tooComplex" ELSE "reading"
        /\ grids' = IF node.tag = "tbl" /\ grids # <<>> THEN Front(grids) ELSE grids
        /\ UNCHANGED <<nodes, entry, late>>

\* Entities, a DTD, broken markup or a broken archive.
InvalidXml ==
    /\ scan = "reading"
    /\ scan' = "invalid"
    /\ UNCHANGED <<nodes, entry, open, count, grids, cellsIn, late>>

Accept ==
    /\ scan = "reading" /\ open = <<>> /\ ~entry
    /\ scan' = "accepted"
    /\ UNCHANGED <<nodes, entry, open, count, grids, cellsIn, late>>

DeadlinePasses ==
    /\ scan = "reading" /\ late = NotLate
    /\ late' = Len(nodes)
    /\ UNCHANGED <<nodes, entry, open, count, grids, cellsIn, scan>>

XmlNext ==
    \/ \E tag \in Parts \cup UNION {Children(t) : t \in Parts \cup {"tbl", "tr", "tc"}} :
         \E value \in Values(tag), column \in LastColumns(tag) : StartElement(tag, value, column)
    \/ NextFile \/ EndElement \/ InvalidXml \/ Accept \/ DeadlinePasses

-----------------------------------------------------------------------------
(* What the package is, read off the tree                                     *)

Tagged(tag) == {i \in DOMAIN nodes : nodes[i].tag = tag}
Under(n, tag) == {i \in Tagged(tag) : nodes[i].parent = n}
Ended(S) == S \ Range(open)

TotalValue(S) == SumFunction([i \in S |-> nodes[i].value])

\* The columns a row of a table takes: one for each cell, or its span.
CellWidth(c) ==
    LET spans == Ended(Under(c, "gridSpan")) IN IF spans = {} THEN 1 ELSE TotalValue(spans)
RowWidth(r) == SumFunction([c \in Under(r, "tc") |-> CellWidth(c)])

Depth(i) ==
    LET depth[n \in 0..Len(nodes)] == IF n = 0 THEN 0 ELSE 1 + depth[nodes[n].parent]
    IN  depth[i]

\* A reason to call the part of the package that was read too complex.
Excessive ==
    \/ Len(nodes) > Limit["elements"]
    \/ \E i \in DOMAIN nodes : Depth(i) > MaxDepth
    \/ SumFunction([i \in DOMAIN nodes |-> Attributes(nodes[i].tag)]) > Limit["attributes"]
    \/ SumFunction([i \in Ended(DOMAIN nodes) |-> Text(nodes[i].tag)]) > Limit["text"]
    \/ \E p \in {<<"xf", "styles">>, <<"si", "sharedStrings">>, <<"Relationship", "relationships">>} :
         Cardinality(Tagged(p[1])) > Limit[p[2]]
    \/ \E p \in {<<"tbl", "tables">>, <<"tc", "cells">>, <<"p", "paragraphs">>,
                 <<"sheet", "sheets">>, <<"c", "materialized">>} :
         Cardinality(Ended(Tagged(p[1]))) > Limit[p[2]]
    \/ \E p \in {<<"c", "nonempty">>, <<"mergeCell", "mergedCells">>} : TotalValue(Ended(Tagged(p[1]))) > Limit[p[2]]
    \/ \E i \in Ended(Tagged("mergeCell")) : nodes[i].column > MaxColumns
    \/ \E t \in Tagged("tbl") : Cardinality(Under(t, "gridCol")) > MaxColumns
    \/ \E r \in Tagged("tr") : RowWidth(r) > MaxColumns

\* The streamed counters agree with the tree at every event, nested tables,
\* spans and rows of different tables included: a package is too complex exactly
\* when some limit is passed, no table or row is charged for another's cells, and
\* none is forgotten when a nested one ends.
VerdictMatchesTree ==
    /\ scan = "tooComplex" => Excessive
    /\ scan \in {"reading", "accepted"} => ~Excessive

\* A conversion past its deadline stops reading within CheckEvery elements.
DeadlineNoticed ==
    scan = "reading" /\ late # NotLate => Len(nodes) - late < CheckEvery

\* A package is refused or accepted for what is in it, and in time.
PackageIsJudged == VerdictMatchesTree /\ DeadlineNoticed
=============================================================================
