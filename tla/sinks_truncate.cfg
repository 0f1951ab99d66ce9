SPECIFICATION Spec
CONSTANTS
    Sinks = {"opensearch"}
    None = None
    Unknown = Unknown
    OpenSearchScenarios <- OpenSearchReplay
    MeiliScenarios = {}
    SurrealScenarios = {}
    RedisScenarios = {}
    Writers = {"w1", "w2"}
    MaxBytes = 3
    MaxAttempts = 2
    MaxRestarts = 2
    MaxFences = 6
INVARIANT
    Delivered
CHECK_DEADLOCK FALSE
