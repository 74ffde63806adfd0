\* Five commands of any kind, two canonical imports among them; two stagings at once.
CONSTANTS
    Importer = {i1, i2}
    Process = {q1, q2}
    Manifest <- Tables
    TableSelection <- AllOrPurchases
    Source = {"good", "orphans"}
    Broken = {}
    Keys <- OneKey
    Refs <- OneOrphan
    MaxAttempts = 3
    Batch = {"b1"}
    Export = {"first", "second"}
    Content <- Exported
    Selection <- Selections
    Category = {"V-Belts"}
    Today = 9
    MaxRuns = 3
    MaxCommands = 5
SPECIFICATION LegacySpec
SYMMETRY Symmetry
INVARIANTS TypeOK LastRunStands RowsAreExplained TotalsFollowLines
PROPERTIES CompletedImportStands ReviewedMappingKept PaymentRowsAreKept
CHECK_DEADLOCK FALSE
