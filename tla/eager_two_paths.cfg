SPECIFICATION Spec
CONSTANTS
    Versions <- AllVersions
    Stores <- TwoStores
    Written <- Others
    Relations <- AllRelations
    Requests <- SharedPrefix
    MaxWrites = 0
CHECK_DEADLOCK FALSE
INVARIANTS LoadedAsLinked
