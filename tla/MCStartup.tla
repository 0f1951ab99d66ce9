------------------------------ MODULE MCStartup ------------------------------
(***************************************************************************)
(* The startup of an engine over a family of configurations.  The checking *)
(* command runs on every pair of changes to a working configuration of     *)
(* each section; the maintenance commands and the run of the roles start   *)
(* from the working configurations that differ in what they do.            *)
(***************************************************************************)
EXTENDS EngineProcess, TLC

CONSTANTS
  Sections,   \* the sections whose settings are varied
  Pipelines   \* the pipelines whose processes are run

Text(keys) == [k \in keys |-> "text"]
SourceBase ==
  [postgres |-> [k \in {"source.postgres"} |-> "present"] @@ Text({PgKey(k) : k \in DOMAIN PgRef})
                  @@ (PgKey("password_ref") :> "ref"),
   mysql |-> "source.mysql" :> "present" @@ Text({MyKey("host"), MyKey("database")}),
   mongodb |-> "source.mongodb" :> "present" @@ MoKey("uri_ref") :> "ref" @@ MoKey("database") :> "text",
   kafka |-> "source.kafka" :> "present" @@ KaKey("brokers") :> "text" @@ KaKey("topics") :> {"orders"},
   neo4j |-> "source.neo4j" :> "present" @@ NeKey("uri") :> "bolt" @@ NeKey("user") :> "text"
               @@ NeKey("password_ref") :> "ref"]
SinkBase ==
  [opensearch |-> "sink.opensearch" :> "present" @@ OsKey("endpoint_ref") :> "https",
   meilisearch |-> "sink.meilisearch" :> "present" @@ MeKey("endpoint_ref") :> "https",
   surrealdb |-> "sink.surrealdb" :> "present" @@ SuKey("endpoint_ref") :> "https"
                   @@ [k \in {SuKey("username_ref"), SuKey("password_ref")} |-> "ref"]
                   @@ Text({SuKey("namespace"), SuKey("database")}),
   redis |-> "sink.redis" :> "present" @@ ReKey("endpoint_ref") :> "redis" @@ ReKey("keyspace.prefix") :> "text"]
Pipeline(source, sink) ==
  "source.kind" :> source @@ "sink.kind" :> sink @@ SourceBase[source] @@ SinkBase[sink]
Gateways == "roles" :> <<"ws", "graphql">>
McpBase == "roles" :> <<"mcp">> @@ "sink.kind" :> "opensearch" @@ SinkBase.opensearch
             @@ Rt("mcp") :> [listen |-> "loopback", auth |-> {}, refs |-> "ref", targets |-> {}]

\* Each section: a working file and environment, and the changes made to them.
Section ==
  [postgres |-> <<Pipeline("postgres", "opensearch"), PostgresSourceConfig, PostgresEnv>>,
   mysql |-> <<Pipeline("mysql", "opensearch"), MysqlSourceConfig, MysqlEnv>>,
   mongodb |-> <<Pipeline("mongodb", "opensearch"), MongodbSourceConfig, MongodbEnv>>,
   kafka |-> <<Pipeline("kafka", "opensearch"), KafkaSourceConfig, KafkaEnv>>,
   neo4j |-> <<Pipeline("neo4j", "opensearch"), Neo4jSourceConfig, Neo4jEnv>>,
   opensearch |-> <<Pipeline("postgres", "opensearch"), OpenSearchSinkConfig, OpenSearchEnv>>,
   meilisearch |-> <<Pipeline("postgres", "meilisearch"), MeilisearchSinkConfig, MeilisearchEnv>>,
   surrealdb |-> <<Pipeline("postgres", "surrealdb"), SurrealDbSinkConfig, SurrealDbEnv>>,
   redis |-> <<Pipeline("postgres", "redis"), RedisSinkConfig, RedisEnv>>,
   engine |-> <<Pipeline("mysql", "opensearch"), EngineSettings \cup {<<OsKey("index_routing"), {"by_projection_target"}>>},
                EngineEnv>>,
   runtime |-> <<Pipeline("postgres", "opensearch"), EngineRuntimeSettings, EngineRuntimeEnv>>,
   gateways |-> <<Gateways, GatewaySettings, GatewayEnv>>,
   mcp |-> <<McpBase, EngineSettings, {}>>]
\* The pipelines whose processes are run: file, environment, resume flag.
Owned == ReKey("keyspace.ownership") :> "exclusive"
JoinsOf(d) == "specs.joins" :> [state |-> "ok", joins |-> {d}]
StateDir == Rt("joins.state_dir") :> "text"
Spec1 == JoinsOf(Join) @@ StateDir
Case(f, e, resume) == [f |-> f, e |-> e, resume |-> resume]
PipelinesMC == {
  Case(Pipeline("postgres", "opensearch") @@ Spec1, <<>>, FALSE),
  Case(Pipeline("postgres", "opensearch") @@ Spec1, <<>>, TRUE),
  Case(Pipeline("postgres", "redis") @@ Spec1 @@ Owned, <<>>, TRUE),
  Case(Pipeline("postgres", "redis") @@ Spec1, <<>>, TRUE),
  Case(Pipeline("postgres", "redis") @@ Spec1, "VS_PG_FORCE_RESYNC" :> "true", TRUE),
  Case(Pipeline("postgres", "meilisearch") @@ Spec1, <<>>, TRUE),
  Case(Pipeline("postgres", "opensearch") @@ Spec1 @@ Rt("joins.auto_resync_on_yaml_change") :> TRUE, <<>>, FALSE),
  Case(Pipeline("postgres", "opensearch") @@ Spec1, "VS_PG_FORCE_RESYNC" :> "true", FALSE),
  Case(Pipeline("postgres", "opensearch") @@ Spec1, "VS_PG_DENORMALIZE_MODE" :> "sql", FALSE),
  Case(Pipeline("postgres", "opensearch") @@ JoinsOf(Join), <<>>, FALSE),
  Case(Pipeline("postgres", "redis") @@ Owned @@ "roles" :> <<"cdc", "ws">>, <<>>, FALSE),
  Case(Pipeline("mysql", "opensearch") @@ Spec1, "VS_WS_MAILBOX" :> 0, TRUE),
  Case(Pipeline("mysql", "redis") @@ Owned @@ Spec1, "VS_MYSQL_BOOTSTRAP_MODE" :> "none", TRUE),
  Case(Pipeline("mysql", "redis") @@ Owned @@ Spec1 @@ MyKey("denormalize_mode") :> "sql", <<>>, FALSE),
  Case(Pipeline("mongodb", "redis") @@ Owned, "VS_MONGO_COLLECTIONS" :> {"orders"}, TRUE),
  Case(Pipeline("mongodb", "redis") @@ Owned, <<>>, TRUE),
  Case(Pipeline("neo4j", "redis") @@ Owned @@ ReKey("keyspace.routing") :> "fixed"
         @@ ReKey("keyspace.routing.name") :> "text", <<>>, TRUE),
  Case(Pipeline("neo4j", "opensearch"), <<>>, TRUE),
  Case(Pipeline("kafka", "redis") @@ Owned, <<>>, TRUE),
  Case(Pipeline("kafka", "opensearch"), <<>>, TRUE),
  Case(Gateways, "VS_WS_MAILBOX" :> 0, FALSE),
  Case(<<>>, "VS_AGENT_KEY" :> "vsa1", FALSE),
  Case(Pipeline("kafka", "opensearch"), "VS_AGENT_KEY" :> "vsa1", FALSE)}

\* What earlier lives of the deployment left: nothing, a pipeline of this spec
\* or of the one before it, with or without the fingerprint file.
Lives == {<<FALSE, "none", "none", "none">>, <<TRUE, "new", "new", "new">>, <<TRUE, "old", "old", "old">>,
          <<TRUE, "old", "none", "old">>, <<FALSE, "old", "old", "old">>, <<TRUE, "none", "old", "old">>}
\* One or two changes to the file, or one to the file and one to the environment.
InitValidate ==
  /\ \E s \in Sections : \E x \in Section[s][2] :
       \/ \E y \in Section[s][2] :
            cfg = [command |-> "validate", f |-> Apply(Section[s][1], {x, y}), e |-> <<>>, resume |-> FALSE]
       \/ \E y \in Section[s][3] :
            cfg = [command |-> "validate", f |-> Apply(Section[s][1], {x}), e |-> Apply(<<>>, {y}), resume |-> FALSE]
  /\ disk = [cursor |-> FALSE, state |-> "none", print |-> "none"]
  /\ target = [docs |-> "none", stale |-> FALSE]
InitProcess ==
  \E p \in Pipelines, c \in {"run", "drain", "rebootstrap", "reconcile"}, life \in Lives :
    /\ c # "run" => life[1]
    /\ p.resume => life[1]
    /\ cfg = [command |-> c, f |-> p.f, e |-> p.e, resume |-> p.resume]
    /\ disk = [cursor |-> life[1], state |-> life[2], print |-> life[3]]
    /\ target = [docs |-> life[4], stale |-> FALSE]
Init == (InitValidate \/ InitProcess) /\ ProcessInit
\* The tasks are polled; nothing obliges a signal, an error or a crash.
Spec == Init /\ [][ProcessNext]_vars /\ WF_vars(ProcessStep)

-----------------------------------------------------------------------------
\* --validate-config: a file it accepts starts its roles, with the broker its
\* blocks name.
AcceptedFilesWork == ValidatedStarts /\ BlockHonoured

\* A command ends, and a run ends once it is told to or a role has failed.
ProcessEnds == <>[]Ended
=============================================================================
