---------------------------- MODULE EngineConfig ----------------------------
(***************************************************************************)
(* The engine configuration: its runtime section (dispatch, memory, joins, *)
(* the realtime brokers of the gateways, admin and mcp; byte limits are in *)
(* KiB), and then the whole: what the schema accepts                       *)
(* (EngineConfig::validate), what the startup loaders then accept          *)
(* (PipelineEnv::load), and the pipeline they build.  --validate-config is *)
(* both, in that order; a start is the same followed by the components'    *)
(* own checks.                                                             *)
(***************************************************************************)
EXTENDS SourceConfigs, SinkConfigs

Rt(k) == "runtime." \o k

-----------------------------------------------------------------------------
(* Dispatch and memory: <<file key, variable, default>> for every number.   *)

Number == [bus |-> <<Rt("bus_capacity"), "VS_BUS_CAPACITY", 1024>>,
           events |-> <<Rt("dispatch.max_events"), "VS_DISPATCH_MAX_EVENTS", 2000>>,
           bytes |-> <<Rt("dispatch.max_batch_bytes"), "VS_DISPATCH_MAX_BATCH_BYTES", 4096>>,
           flush |-> <<Rt("dispatch.flush_ms"), "VS_DISPATCH_FLUSH_MS", 500>>,
           parallel |-> <<Rt("dispatch.parallel_bulks"), "VS_DISPATCH_PARALLEL_BULKS", 4>>,
           max_event |-> <<Rt("memory.max_event_bytes"), "VS_MEMORY_MAX_EVENT_BYTES", 32768>>,
           sample |-> <<Rt("memory.sample_ms"), "VS_MEMORY_SAMPLE_MS", 100>>,
           recovery |-> <<Rt("memory.recovery_ms"), "VS_MEMORY_RECOVERY_MS", 1000>>]
Percent == [target |-> <<Rt("memory.target_percent"), "VS_MEMORY_TARGET_PERCENT", 65>>,
            high |-> <<Rt("memory.high_percent"), "VS_MEMORY_HIGH_PERCENT", 75>>,
            critical |-> <<Rt("memory.critical_percent"), "VS_MEMORY_CRITICAL_PERCENT", 85>>,
            hysteresis |-> <<Rt("memory.hysteresis_percent"), "VS_MEMORY_HYSTERESIS_PERCENT", 5>>]
AutoRaiseCap == 32768

EngineRuntimeSettings ==
  UNION {Setting({Number[k][1] : k \in DOMAIN Number}, {0, 100, 40000}),
         Setting({Percent[k][1] : k \in DOMAIN Percent}, {0, 5, 70, 80, 100}),
         Setting({Rt("memory.budget_bytes")}, {0, 100, 400}),
         Counts({Rt("joins.persist_batch_ops"), Rt("joins.idle_flush_ms"), Rt("joins.lsn_flush_ms")}),
         Texts({Rt("tenant"), Rt("admin.listen")})}
EngineRuntimeEnv ==
  UNION {Setting({Number[k][2] : k \in DOMAIN Number}, {-1, 0, 100, 40000}),
         Setting({Percent[k][2] : k \in DOMAIN Percent}, {-1, 0, 5, 70, 80, 256}),
         Setting({"VS_MEMORY_BUDGET_BYTES"}, {-1, 0, 100})}

DispatchConfig_validate(f) == Positive(f, {Number[k][1] : k \in {"events", "bytes", "flush", "parallel"}})
Ordered(p) == /\ 0 < p.target /\ p.target < p.high /\ p.high < p.critical /\ p.critical < 100
              /\ 0 < p.hysteresis /\ p.hysteresis < p.target
MemoryRuntimeConfig_validate(f) ==
  /\ Positive(f, {Rt("memory.budget_bytes")} \cup {Number[k][1] : k \in {"max_event", "sample", "recovery"}})
  /\ Ordered([k \in DOMAIN Percent |-> ValueOr(Opt(f, Percent[k][1]), Percent[k][3])])
  /\ \A b \in Opt(f, Rt("memory.budget_bytes")) : AtMost(f, Number.max_event[1], b \div 4)
JoinRuntimeConfig_validate(f) ==
  Positive(f, {Rt("joins.persist_batch_ops"), Rt("joins.idle_flush_ms"), Rt("joins.lsn_flush_ms")})

load_engine_runtime_config(f, e) ==
  /\ \A k \in DOMAIN Number : config_usize_or_env(f, Number[k][1], e, Number[k][2])
  /\ config_usize_or_env(f, Rt("memory.budget_bytes"), e, "VS_MEMORY_BUDGET_BYTES")
  /\ \A k \in DOMAIN Percent :
       config_usize(f, Percent[k][1], e, Percent[k][2], Percent[k][3]) \in 0..255
  /\ Ordered([k \in DOMAIN Percent |-> config_usize(f, Percent[k][1], e, Percent[k][2], Percent[k][3])])
\* The configuration built: a default bus grows to one dispatch batch, an
\* explicit one is kept.
EngineRuntime(f, e) ==
  LET n == [k \in DOMAIN Number |-> config_usize(f, Number[k][1], e, Number[k][2], Number[k][3])]
      explicit == Has(f, Number.bus[1]) \/ Has(e, Number.bus[2])
  IN [number |-> [n EXCEPT !.bus = IF explicit \/ @ >= n.events THEN @
                                   ELSE IF n.events < AutoRaiseCap THEN n.events ELSE AutoRaiseCap],
      percent |-> [k \in DOMAIN Percent |-> config_usize(f, Percent[k][1], e, Percent[k][2], Percent[k][3])],
      explicit |-> explicit]

-----------------------------------------------------------------------------
(* Realtime brokers.  A block is present when it, or a key of it, is set.  *)

Providers == {"nats_core", "nats_jetstream", "redis_streams"}
Nats == {"nats_core", "nats_jetstream"}
StreamNumbers == {"read_batch", "block_timeout_ms", "broadcast_capacity", "max_tenant_hubs",
                  "max_length", "connect_timeout_ms", "response_timeout_ms"}
JetStreamNumbers == {"inactive_threshold_ms", "reaper_interval_ms", "replicas", "max_age_secs",
                     "max_bytes", "max_msgs"}
Block(f, b, keys) == ({b} \cup {b \o "." \o k : k \in keys}) \cap DOMAIN f # {}
Streams(f, section) == Block(f, Rt(section \o ".redis_streams"), StreamNumbers \cup {"url_ref", "key_prefix"})
Jet(f) == Block(f, Rt("ws.jetstream"), JetStreamNumbers)

StreamSettings(section) ==
  LET b == Rt(section \o ".redis_streams")
  IN UNION {Setting({b}, {"present"}), Refs({b \o ".url_ref"}),
            Setting({b \o ".key_prefix"}, {"text", "blank", "unsafe"}),
            Counts({b \o "." \o k : k \in {"read_batch", "max_length", "response_timeout_ms"}}),
            Setting({b \o ".block_timeout_ms"}, {0, 30001})}
GatewaySettings ==
  UNION {Setting({Rt(s \o ".provider") : s \in {"realtime", "ws", "graphql"}}, Providers),
         UNION {StreamSettings(s) : s \in {"realtime", "ws", "graphql"}},
         Setting({Rt("ws.jetstream")}, {"present"}),
         Counts({Rt("ws.jetstream.replicas"), Rt("ws.mailbox"), Rt("ws.ping_interval_ms"),
                 Rt("ws.max_connections"), Rt("graphql.reaper_interval_ms"), Rt("graphql.broadcast_capacity")}),
         Setting({Rt("ws.subjects")}, {{}, {"blank"}, {"vs.t.>"}}),
         Texts({Rt("tenant")}), Setting({Rt("ws.listen"), Rt("graphql.listen")}, {"text", "junk"})}
GatewayEnv ==
  UNION {Setting({"VS_WS_PROVIDER", "VS_REALTIME_PROVIDER", "VS_GRAPHQL_PROVIDER"}, Providers \cup {"junk"}),
         Setting({"VS_WS_JETSTREAM"}, {"true", "false"}),
         Setting({"VS_WS_MAILBOX", "VS_WS_MAX_CONNS", "VS_WS_JS_REPLICAS", "VS_GRAPHQL_BROADCAST_CAP",
                  "VS_WS_REDIS_READ_BATCH", "VS_REDIS_READ_BATCH", "VS_GRAPHQL_REDIS_READ_BATCH"}, {-1, 0, 1}),
         Setting({"VS_REDIS_BLOCK_TIMEOUT_MS"}, {0, 30001}),
         Setting({"VS_WS_JS_STORAGE"}, {"file", "junk"}), Setting({"VS_WS_LISTEN", "VS_GRAPHQL_LISTEN"}, {"text", "junk"}),
         Setting({"VS_REDIS_URL", "VS_TENANT"}, {"text", "blank"})}

RedisStreamsRuntimeConfig_validate(f, section) ==
  LET b == Rt(section \o ".redis_streams")
  IN /\ Opt(f, b \o ".key_prefix") \cap {"blank", "unsafe"} = {}
     /\ Positive(f, {b \o "." \o k : k \in StreamNumbers})
     /\ AtMost(f, b \o ".block_timeout_ms", 30000)
JetStreamRuntimeConfig_validate(f) == Positive(f, {Rt("ws.jetstream." \o k) : k \in JetStreamNumbers})
RealtimeRuntimeConfig_validate(f) ==
  /\ RedisStreamsRuntimeConfig_validate(f, "realtime")
  /\ ~(Streams(f, "realtime") /\ Opt(f, Rt("realtime.provider")) \cap Nats # {})
WebSocketRuntimeConfig_validate(f) ==
  LET provider == Opt(f, Rt("ws.provider"))
  IN /\ Positive(f, {Rt("ws." \o k) : k \in {"mailbox", "ping_interval_ms", "pong_timeout_ms", "max_connections"}})
     /\ \A l \in Opt(f, Rt("ws.subjects")) : "blank" \notin l
     /\ JetStreamRuntimeConfig_validate(f) /\ RedisStreamsRuntimeConfig_validate(f, "ws")
     /\ provider = {"nats_core"} => ~Jet(f) /\ ~Streams(f, "ws")
     /\ provider = {"nats_jetstream"} => ~Streams(f, "ws")
     /\ provider = {"redis_streams"} => ~Jet(f)
     /\ provider = {} => ~(Jet(f) /\ Streams(f, "ws"))
GraphqlRuntimeConfig_validate(f) ==
  LET provider == Opt(f, Rt("graphql.provider"))
  IN /\ Positive(f, {Rt("graphql." \o k) : k \in {"inactive_threshold_ms", "reaper_interval_ms", "broadcast_capacity"}})
     /\ provider # {"nats_core"}
     /\ RedisStreamsRuntimeConfig_validate(f, "graphql")
     /\ ~(provider = {"nats_jetstream"} /\ Streams(f, "graphql"))
AdminRuntimeConfig_validate(f) == validate_nonempty(f, Rt("admin.listen"))
\* Without a token or key list only a loopback address may be served.
McpRuntimeConfig == [listen : {"loopback", "public", "blank", "junk"}, auth : SUBSET {"token", "keys"},
                     refs : {"ref", "dangling"}, targets : {{}, {"orders"}, {"blank"}}]
McpRuntimeConfig_validate(m) ==
  /\ m.listen \in {"loopback", "public"}
  /\ Cardinality(m.auth) <= 1
  /\ m.auth = {} => m.listen = "loopback"
  /\ "blank" \notin m.targets
RuntimeConfig_validate(f) ==
  LET realtime == Opt(f, Rt("realtime.provider"))
      Role(r) == Opt(f, Rt(r \o ".provider"))
      roles == {"ws", "graphql"}
  IN /\ Positive(f, {Rt("bus_capacity")}) /\ validate_nonempty(f, Rt("tenant"))
     /\ DispatchConfig_validate(f) /\ MemoryRuntimeConfig_validate(f) /\ JoinRuntimeConfig_validate(f)
     /\ RealtimeRuntimeConfig_validate(f) /\ WebSocketRuntimeConfig_validate(f)
     /\ GraphqlRuntimeConfig_validate(f)
     /\ \A m \in Opt(f, Rt("mcp")) : McpRuntimeConfig_validate(m)
     /\ \A r \in roles : realtime # {} /\ Role(r) # {} => realtime = Role(r)
     /\ Streams(f, "realtime") =>
          /\ \A r \in roles : ~Streams(f, r) /\ Role(r) \cap Nats = {}
          /\ ~Jet(f)
     /\ realtime \cap Nats # {} => \A r \in roles : ~Streams(f, r)
     /\ ~(realtime = {"nats_core"} /\ Jet(f))
     /\ AdminRuntimeConfig_validate(f)

-----------------------------------------------------------------------------
(* Gateway loaders.                                                        *)

parse_realtime_provider(e, v) == Opt(e, v) # {"junk"}
\* The provider the file names for a role, and the one the environment names;
\* each may come from the role's setting or the shared one.
FileProvider(f, role) == FirstOf(Opt(f, Rt(role \o ".provider")), Opt(f, Rt("realtime.provider")))
EnvProvider(e, v) == FirstOf(Opt(e, v), Opt(e, "VS_REALTIME_PROVIDER"))
ProvidersAgree(f, role, e, v) ==
  /\ parse_realtime_provider(e, v) /\ parse_realtime_provider(e, "VS_REALTIME_PROVIDER")
  /\ Cardinality(Opt(e, v) \cup Opt(e, "VS_REALTIME_PROVIDER")) <= 1
  /\ Cardinality(FileProvider(f, role) \cup EnvProvider(e, v)) <= 1
RedisSection(f, role) == IF Streams(f, role) THEN role ELSE "realtime"
HasRedis(f, role) == Streams(f, role) \/ Streams(f, "realtime")

\* The Redis Streams settings of a role: file, then the role's variable, then
\* the shared one.
StreamNumber == [read_batch |-> <<"READ_BATCH", 256>>, block_timeout_ms |-> <<"BLOCK_TIMEOUT_MS", 5000>>,
                 broadcast_capacity |-> <<"BROADCAST_CAPACITY", 2048>>, max_tenant_hubs |-> <<"MAX_TENANT_HUBS", 1024>>,
                 max_length |-> <<"MAX_LENGTH", 1000000>>, connect_timeout_ms |-> <<"CONNECT_TIMEOUT_MS", 5000>>,
                 response_timeout_ms |-> <<"RESPONSE_TIMEOUT_MS", 5000>>]
RedisStreamsOf(f, role, e) ==
  LET EnvOf(v) == FirstOf(Opt(e, (IF role = "ws" THEN "VS_WS_REDIS_" ELSE "VS_GRAPHQL_REDIS_") \o v),
                          Opt(e, "VS_REDIS_" \o v))
      FileOf(k) == Opt(f, Rt(RedisSection(f, role) \o ".redis_streams." \o k))
  IN [url |-> ValueOr(FirstOf(FileOf("url_ref"), EnvOf("URL")), "text"),
      key_prefix |-> ValueOr(FirstOf(FileOf("key_prefix"), EnvOf("KEY_PREFIX")), "text"),
      number |-> [k \in StreamNumbers |-> ValueOr(FirstOf(FileOf(k), EnvOf(StreamNumber[k][1])), StreamNumber[k][2])]]
load_redis_streams(f, role, e) ==
  LET c == RedisStreamsOf(f, role, e) IN c.url # "dangling" /\ \A k \in StreamNumbers : c.number[k] >= 0
\* What the broker itself checks, when the gateway starts.
RedisStreamsConfig_validate(c) ==
  /\ c.url # "blank" /\ c.key_prefix \notin {"blank", "unsafe"}
  /\ \A k \in StreamNumbers : c.number[k] > 0
  /\ c.number.block_timeout_ms <= 30000

WsNumber == [mailbox |-> "VS_WS_MAILBOX", ping_interval_ms |-> "VS_WS_PING_INTERVAL_MS",
             pong_timeout_ms |-> "VS_WS_PONG_TIMEOUT_MS", max_connections |-> "VS_WS_MAX_CONNS"]
JetStreamNumber == [inactive_threshold_ms |-> "VS_WS_JS_INACTIVE_THRESHOLD_MS",
                    reaper_interval_ms |-> "VS_WS_JS_REAPER_INTERVAL_MS", replicas |-> "VS_WS_JS_REPLICAS",
                    max_age_secs |-> "VS_WS_JS_MAX_AGE_SECS", max_bytes |-> "VS_WS_JS_MAX_BYTES",
                    max_msgs |-> "VS_WS_JS_MAX_MSGS"]
\* Mutant: the legacy variable is asked before the file's Redis block.
WsInferredLegacyFirst(f, e) ==
  IF Jet(f) \/ Opt(e, "VS_WS_JETSTREAM") = {"true"} THEN "nats_jetstream"
  ELSE IF HasRedis(f, "ws") THEN "redis_streams" ELSE "nats_core"
WsInferred(f, e) ==
  IF HasRedis(f, "ws") THEN "redis_streams"
  ELSE IF Jet(f) \/ Opt(e, "VS_WS_JETSTREAM") = {"true"} THEN "nats_jetstream" ELSE "nats_core"
WsProvider(f, e) ==
  ValueOr(FirstOf(FileProvider(f, "ws"), EnvProvider(e, "VS_WS_PROVIDER")), WsInferred(f, e))
load_ws_config(f, e) ==
  LET provider == WsProvider(f, e)
  IN /\ FirstOf(Opt(f, Rt("ws.listen")), Opt(e, "VS_WS_LISTEN")) # {"junk"}
     /\ \A k \in DOMAIN WsNumber : config_usize_or_env(f, Rt("ws." \o k), e, WsNumber[k])
     /\ ProvidersAgree(f, "ws", e, "VS_WS_PROVIDER")
     /\ provider # WsInferred(f, e) => ~(Jet(f) \/ HasRedis(f, "ws") \/ Opt(e, "VS_WS_JETSTREAM") = {"true"})
     /\ provider = "nats_jetstream" =>
          /\ \A k \in JetStreamNumbers : config_usize_or_env(f, Rt("ws.jetstream." \o k), e, JetStreamNumber[k])
          /\ Opt(e, "VS_WS_JS_STORAGE") # {"junk"}
     /\ provider = "redis_streams" => load_redis_streams(f, "ws", e)

GraphqlNumber == [inactive_threshold_ms |-> "VS_GRAPHQL_INACTIVE_THRESHOLD_MS",
                  reaper_interval_ms |-> "VS_GRAPHQL_REAPER_INTERVAL_MS",
                  broadcast_capacity |-> "VS_GRAPHQL_BROADCAST_CAP"]
GraphqlInferred(f) == IF HasRedis(f, "graphql") THEN "redis_streams" ELSE "nats_jetstream"
GraphqlProvider(f, e) ==
  ValueOr(FirstOf(FileProvider(f, "graphql"), EnvProvider(e, "VS_GRAPHQL_PROVIDER")), GraphqlInferred(f))
load_graphql_config(f, e) ==
  LET provider == GraphqlProvider(f, e)
  IN /\ FirstOf(Opt(f, Rt("graphql.listen")), Opt(e, "VS_GRAPHQL_LISTEN")) # {"junk"}
     /\ ProvidersAgree(f, "graphql", e, "VS_GRAPHQL_PROVIDER")
     /\ provider # "nats_core"
     /\ provider # GraphqlInferred(f) => ~HasRedis(f, "graphql")
     /\ provider = "redis_streams" => load_redis_streams(f, "graphql", e)
     /\ \A k \in DOMAIN GraphqlNumber : config_usize_or_env(f, Rt("graphql." \o k), e, GraphqlNumber[k])

-----------------------------------------------------------------------------
(* The file as a whole.                                                    *)

Role == {"cdc", "ws", "graphql", "mcp"}

\* A joins spec: what the file holds once read.
Join == [primary |-> "orders", related |-> {"users"}, target |-> {"orders_v1"}, ids |-> "unique", names |-> "plain"]
JoinsFile ==
  [state : {"missing", "malformed"}, joins : {{}}]
    \cup [state : {"ok"}, joins : {{}, {Join}, {[Join EXCEPT !.target = {}]}, {[Join EXCEPT !.ids = "repeated"]},
                                   {[Join EXCEPT !.names = "quoted"]}}]
EngineSettings ==
  UNION {Setting({"schema_version"}, {1, 2}), Setting({"roles"}, {<<>>, <<"cdc">>, <<"cdc", "cdc">>, <<"cdc", "ws">>,
                    <<"ws", "graphql">>, <<"graphql">>, <<"mcp">>, <<"mcp", "ws">>}),
         Setting({"managed"}, {[key |-> k, url |-> u] : k \in {"vsa1", "other", "dangling"}, u \in {"none", "wss", "http"}}),
         Setting({"specs.joins"}, JoinsFile), Setting({"specs.graphql_schema"}, {"text", "blank"}),
         Setting({Rt("mcp")}, McpRuntimeConfig), Drops({"source.kind", "sink.kind", "specs.joins"})}
EngineEnv ==
  UNION {Setting({"VS_AGENT_KEY"}, {"vsa1", "other", "blank"}), Setting({"VS_FLEET_SUPERVISED"}, {"1"}),
         Setting({"VS_MANAGED_GATEWAY_URL"}, {"wss", "http"}), Setting({"fleet:joins_yaml", "VS_JOINS_YAML"}, JoinsFile)}

-----------------------------------------------------------------------------
(* The schema.                                                             *)

SinkBlock(kind) == IF kind = "elasticsearch" THEN "sink.opensearch" ELSE "sink." \o kind
SinkBlocks == {"sink." \o k : k \in {"opensearch", "redis", "meilisearch", "surrealdb"}}
\* Exactly the block of the kind is present.
SinkConfig_validate(f) ==
  LET block == SinkBlock(f["sink.kind"])
  IN /\ SinkBlocks \cap DOMAIN f = {block}
     /\ CASE block = "sink.opensearch" -> OpenSearchSinkConfig_validate(f)
          [] block = "sink.redis" -> RedisSinkConfig_validate(f)
          [] block = "sink.meilisearch" -> MeilisearchSinkConfig_validate(f)
          [] block = "sink.surrealdb" -> SurrealDbSinkConfig_validate(f)
Specs == {"specs." \o k : k \in {"joins", "neo4j_denormalize", "graphql_schema", "graphql_subscriptions", "graphql_manifest"}}
SpecFiles_validate(f) == \A k \in Specs \ {"specs.joins"} : validate_nonempty(f, k)
ManagedConfig_validate(m) == m.url # "http"
ByProjectionTarget(f) ==
  \/ \E k \in {OsKey("index_routing"), MeKey("index_routing"), ReKey("keyspace.routing")} :
        Opt(f, k) = {"by_projection_target"}
  \/ /\ Opt(f, ReKey("keyspace.routing")) = {"views"}
     /\ \E v \in {ValueOr(Opt(f, ReKey("keyspace.routing.views")), <<>>)} :
          \E i \in DOMAIN v : "projection_target" \in v[i].source
Roles(f) == ValueOr(Opt(f, "roles"), <<"cdc">>)
RoleSet(f) == {Roles(f)[i] : i \in DOMAIN Roles(f)}

EngineConfig_validate(f) ==
  LET roles == RoleSet(f)
      source == Has(f, "source.kind")
      sink == Has(f, "sink.kind")
  IN /\ ValueOr(Opt(f, "schema_version"), 1) = 1
     /\ IF Has(f, "managed")
          THEN ~source /\ ~sink /\ Specs \cap DOMAIN f = {} /\ ManagedConfig_validate(f["managed"])
          ELSE /\ roles # {} /\ Len(Roles(f)) = Cardinality(roles)
               /\ "cdc" \in roles => source /\ sink
               /\ source => "cdc" \in roles
               /\ sink => roles \cap {"cdc", "mcp"} # {}
               /\ "mcp" \in roles => roles = {"mcp"} /\ sink
               /\ ("mcp" \in roles) = Has(f, Rt("mcp"))
               /\ source => SourceConfig_validate(f)
               /\ sink => SinkConfig_validate(f)
               /\ sink /\ ByProjectionTarget(f) =>
                    /\ Has(f, "specs.joins")
                    /\ "cdc" \in roles => f["source.kind"] \in {"postgres", "mysql"}
               /\ SpecFiles_validate(f) /\ RuntimeConfig_validate(f)
               /\ ~("graphql" \in roles /\ Opt(f, Rt("realtime.provider")) = {"nats_core"})

-----------------------------------------------------------------------------
(* The startup loaders.                                                    *)

parse_joins_yaml(j) ==
  j.state = "ok" /\ \A d \in j.joins : d.ids = "unique" /\ d.names = "plain"
JoinsText(f, e) == FirstOf(Opt(e, "fleet:joins_yaml"), FirstOf(Opt(f, "specs.joins"), Opt(e, "VS_JOINS_YAML")))
load_joins_yaml(f, e) == \A j \in JoinsText(f, e) : parse_joins_yaml(j)
Joins(f, e) == UNION {j.joins : j \in JoinsText(f, e)}
validate_projection_target_indexes(f, joins) ==
  Opt(f, OsKey("index_routing")) = {"by_projection_target"} => joins # {} /\ \A d \in joins : d.target # {}

SourceOf(f, e) == ValueOr(Opt(f, "source.kind"), ValueOr(Opt(e, "VS_CDC_SOURCE"), "postgres"))
SinkOf(f, e) == ValueOr(Opt(f, "sink.kind"), ValueOr(Opt(e, "VS_SINK"), "opensearch"))
load_sink_config(f, e) ==
  LET kind == SinkOf(f, e)
      block == SinkBlock(kind)
  IN /\ kind \in {"opensearch", "elasticsearch", "redis", "meilisearch", "surrealdb"}
     /\ CASE block = "sink.redis" -> load_redis_sink_config(f, e)
          [] block = "sink.meilisearch" ->
               IF Has(f, block) THEN load_meilisearch_config(f, e) ELSE load_meilisearch_config_from_env(e)
          [] block = "sink.surrealdb" ->
               IF Has(f, block) THEN load_surrealdb_config(f, e) ELSE load_surrealdb_config_from_env(e)
          [] OTHER -> IF Has(f, block) THEN load_opensearch_config(f, e) ELSE load_opensearch_config_from_env(e)

\* Only these sources read a joins spec.
Joined(kind) == kind \in {"postgres", "mysql"}
\* Bare names this pipeline is known to route: the snapshot tables of
\* Postgres, the table filter of MySQL; empty means unknown.
routed_relations(b) == IF b.kind \in {"postgres", "mysql"} THEN b.tables ELSE {}
validate_edge_names_against_relations(edges, relations) == \A i \in DOMAIN edges : edges[i].name \notin relations

Bundle(f, e) ==
  LET kind == SourceOf(f, e)
      joins == IF Joined(kind) THEN Joins(f, e) ELSE {}
  IN [source |-> SourceBundle(kind, f, e, joins), sink |-> SinkBlock(SinkOf(f, e)), joins |-> joins]
load_cdc_bundle(f, e) ==
  LET kind == SourceOf(f, e)
  IN /\ kind \in SourceKind
     /\ load_source(kind, f, e) /\ load_sink_config(f, e) /\ load_engine_runtime_config(f, e)
     /\ Joined(kind) => load_joins_yaml(f, e) /\ validate_projection_target_indexes(f, Joins(f, e))
     /\ SinkOf(f, e) = "surrealdb" =>
          validate_edge_names_against_relations(graph_edges(f), routed_relations(Bundle(f, e).source))

\* A missing file takes the roles from VS_ROLES.
parse_roles(e) == ValueOr(Opt(e, "VS_ROLES"), {"cdc"})
load_runtime_roles(f, e) == IF f = <<>> THEN parse_roles(e) ELSE RoleSet(f)
PipelineEnv_load(f, e) ==
  LET roles == load_runtime_roles(f, e)
  IN /\ roles \subseteq Role
     /\ "cdc" \in roles => load_cdc_bundle(f, e)
     /\ "ws" \in roles => load_ws_config(f, e)
     /\ "graphql" \in roles => load_graphql_config(f, e)

load_engine_config(f) == f = <<>> \/ EngineConfig_validate(f)

\* An agent key, in the file or the environment, makes the process managed.
managed_url_env(e, v) == Opt(e, v) # {"http"}
WantsManaged(f, e) == Has(f, "managed") \/ Opt(e, "VS_AGENT_KEY") \ {"blank"} # {}
resolve_managed_mode(f, e) ==
  WantsManaged(f, e) =>
    /\ ~Has(e, "VS_FLEET_SUPERVISED")
    /\ IF Has(f, "managed") THEN f["managed"].key = "vsa1"
       ELSE f = <<>> /\ managed_url_env(e, "VS_MANAGED_GATEWAY_URL") /\ e["VS_AGENT_KEY"] = "vsa1"

-----------------------------------------------------------------------------
(* What only the components check, once they start.                        *)

\* Values the components cannot run with: an empty channel or a timer of no
\* period panics the task that makes it.
EngineStarts(f, e) == LET n == EngineRuntime(f, e).number IN n.bus > 0 /\ n.flush > 0 /\ n.sample > 0
SinkStarts(f, e) == SinkOf(f, e) = "redis" => RedisConfig_validate(RedisConfig(f, e))
WsStarts(f, e) ==
  /\ config_usize(f, Rt("ws.mailbox"), e, "VS_WS_MAILBOX", 1024) > 0
  /\ config_usize(f, Rt("ws.ping_interval_ms"), e, "VS_WS_PING_INTERVAL_MS", 30000) > 0
  /\ WsProvider(f, e) = "redis_streams" => RedisStreamsConfig_validate(RedisStreamsOf(f, "ws", e))
GraphqlStarts(f, e) ==
  GraphqlProvider(f, e) = "redis_streams" => RedisStreamsConfig_validate(RedisStreamsOf(f, "graphql", e))
RoleStarts(role, f, e) ==
  CASE role = "cdc" -> EngineStarts(f, e) /\ SinkStarts(f, e)
    [] role = "ws" -> WsStarts(f, e)
    [] role = "graphql" -> GraphqlStarts(f, e)
    [] role = "mcp" -> load_sink_config(f, e) /\ (f[Rt("mcp")].auth # {} => f[Rt("mcp")].refs # "dangling")

\* References the schema cannot see through hold values of the right form: it
\* checks that they are references, not what they name.
WellFormedReferences(f) ==
  /\ Has(f, "sink.redis") =>
       LET c == RedisConfig(f, <<>>)
       IN /\ validate_endpoints(c.topology.endpoints)
          /\ c.topology.mode # "standalone" => validate_database_zero(c.topology.endpoints)
          /\ has_tls_files(c.tls) => topology_uses_data_node_tls(c.topology)
          /\ has_tls_files(c.topology.tls) => Tls(c.topology.endpoints[1])
          /\ \A w \in {c.writer} \cup c.takeover : validate_writer_identity(w)
          /\ c.writer \notin c.takeover
  /\ \A m \in Opt(f, Rt("mcp")) : m.refs # "dangling"
=============================================================================
