CONSTANTS
    NEvents = 4
    NRows = 2
    RowOf <- MCRowOf
    Poison <- MCPoison
    BusCapacity = 2
    MaxCrashes = 2
    Kinds = {"engine"}
    Definitions <- SharedTable
    GraphSpecs <- OneWayTypes
SPECIFICATION JoinsSpec
INVARIANTS
    DocumentsMatch
