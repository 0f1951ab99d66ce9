CONSTANTS
    NEvents = 4
    NRows = 2
    RowOf <- MCRowOf
    Poison <- MCPoison
    BusCapacity = 2
    MaxCrashes = 2
    Kinds = {"boundary", "engine", "sql", "graph"}
    Definitions <- OwnTables
    GraphSpecs <- OneWayTypes
SPECIFICATION JoinsSpec
INVARIANTS
    AckedIsDurable
    StateBehindSink
    StatePersisted
    StateConverges
    
    ConfirmedIsApplied
PROPERTIES
    NeverOlder
    ChangesGetThrough
