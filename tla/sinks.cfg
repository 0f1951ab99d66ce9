SPECIFICATION FairSpec
CONSTANTS
    Sinks = {"opensearch", "meilisearch", "surrealdb", "redis"}
    None = None
    Unknown = Unknown
    OpenSearchScenarios <- OpenSearchMC
    MeiliScenarios <- MeiliMC
    SurrealScenarios <- SurrealMC
    RedisScenarios <- RedisMC
    Writers = {"w1", "w2"}
    MaxBytes = 3
    MaxAttempts = 2
    MaxRestarts = 2
    MaxFences = 6
INVARIANTS
    
    NoDrift
PROPERTIES
    WritesAreOrdered
    Completes
CHECK_DEADLOCK FALSE
