SPECIFICATION Spec
CONSTANTS
    Limit <- XmlLimits
    MaxDepth = 7
    MaxColumns = 2
    CheckEvery = 3
    MaxNodes = 8
    Documents <- SomeDocuments
    Tables <- AllTables
    MaxWidth = 3
    MaxTables = 4
    MaxTableCells = 8
    MaxImages = 1
    Workbooks <- SomeWorkbooks
    CsvFiles <- SomeCsvFiles
    BandWidth = 3
    MaxSheets = 3
    MaxSheetCells = 14
    MaxFilled = 6
INVARIANT PackageIsJudged
INVARIANT EverythingInOrder
 
INVARIANT TablesMakeTheSheet
INVARIANT AnchorsKeepPlace
INVARIANT WriterNeverRefuses
\* A conversion ends.
CHECK_DEADLOCK FALSE
