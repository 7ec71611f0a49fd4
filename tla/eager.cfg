SPECIFICATION Spec
CONSTANTS
    Versions <- AllVersions
    Stores <- TwoStores
    Written <- Others
    Relations <- AllRelations
    Requests <- SeparatePaths
    MaxWrites = 2
CHECK_DEADLOCK FALSE
INVARIANTS TypeOK LoadedAsLinked NothingInvented CountsAgree
