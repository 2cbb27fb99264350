SPECIFICATION Spec
CONSTANTS
    Databases = {"app", "postgres"}
    Current = "app"
    Relations = {1, 2}
    NameOf <- Names
    RelationLimit = 1
    Batches <- AllBatches
    Tables <- SomeTables
    Later <- LaterTables
    Servers <- AllServers
    Defaults <- Session
    MaxFailures = 1
    MaxChanges = 1
INVARIANT AnswersTrue
INVARIANT NeverRefused
INVARIANT OwnLimit
CHECK_DEADLOCK FALSE
