SPECIFICATION Spec
CONSTANTS
    Taggings <- BothTaggings
    Maps <- SomeMaps
    Changes <- SomeChanges
    Batches <- SomeBatches
    UpdateLists <- NameLists
    NoList = NoList
    Queries <- SomeQueries
    Related <- Parts
    Dialects = {"standard", "mysql"}
    NothingOn = {"standard"}
    Table <- ThreeRows
    Nesting = 2
    MaxWrites = 3
CHECK_DEADLOCK FALSE
INVARIANTS TypeOK
PROPERTIES WrittenAsAsked GuardedKept CreatedOnce NothingMeansNothing
