SPECIFICATION Spec
CONSTANTS
    MaxCrashes = 2
    Sections = {"kafka", "mongodb", "mysql", "postgres", "neo4j", "opensearch", "meilisearch", "surrealdb", "redis", "engine", "runtime", "gateways", "mcp"}
    Pipelines <- PipelinesMC
INVARIANTS
    
    
    TailHasCurrentSpec
PROPERTY
    ProcessEnds
CHECK_DEADLOCK FALSE
