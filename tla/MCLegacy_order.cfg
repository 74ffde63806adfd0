\* One process stages a second batch over the tables of the first.
CONSTANTS
    Importer = {i1}
    Process = {q1}
    Manifest <- Tables
    TableSelection <- AllOrPurchases
    Source = {"good", "orphans"}
    Broken = {}
    Keys <- OneKey
    Refs <- OneOrphan
    MaxAttempts = 3
    Batch = {"b1", "b2"}
    Export = {"first", "second"}
    Content <- Exported
    Selection <- Selections
    Category = {"V-Belts"}
    Today = 9
    MaxRuns = 1
    MaxCommands = 0
SPECIFICATION LegacySpec
PROPERTY OnlyOrphansAreRefused
CHECK_DEADLOCK FALSE
