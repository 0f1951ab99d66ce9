----------------------------- MODULE SinkConfigs -----------------------------
(***************************************************************************)
(* The sink section of the engine configuration: the settings each block   *)
(* admits, the schema's checks, and the loaders that merge a block with    *)
(* the VS_* variables, with the helpers of SourceConfigs.  A resolved      *)
(* endpoint is its scheme.  Byte limits are in KiB, times in milliseconds. *)
(***************************************************************************)
EXTENDS SourceConfigs

Endpoints(keys) == Setting(keys, {"http", "https", "dangling"})
resolve_endpoint(f, k) == Opt(f, k) # {"dangling"}

\* Strict TLS is exclusive with insecure_tls and agrees with the endpoint.
TlsAgrees(tls, insecure, scheme) ==
  \A t \in tls : /\ ~insecure
                 /\ scheme = (IF t.mode = "verify_full" THEN "https" ELSE "http")

-----------------------------------------------------------------------------
(* OpenSearch and Elasticsearch.                                           *)

OsKey(k) == "sink.opensearch." \o k
OpenSearchSinkConfig ==
  UNION {Endpoints({OsKey("endpoint_ref")}), Drops({OsKey("endpoint_ref")}),
         Setting({OsKey("auth")}, {"none", "basic", "basic_dangling", "api_key", "api_key_dangling"}),
         Setting({OsKey("index_routing")}, {"by_output_relation", "by_projection_target", "fixed", "template"}),
         Texts({OsKey("index_routing.name")}),
         Setting({OsKey("insecure_tls")}, BOOLEAN), Setting({OsKey("tls")}, TlsConfig)}
OpenSearchEnv ==
  UNION {Setting({"VS_INSECURE_TLS"}, {"true", "false"}),
         Setting({"VS_OS_TLS_MODE"}, {"verify_full", "disabled", "junk"}),
         Setting({"VS_OS_TLS_CA_FILE"}, {"text", "blank"}),
         Setting({"VS_OS_TOMBSTONE_RETENTION_MS"}, {-1, 0})}

OpenSearchIndexRouting_validate(f) ==
  Opt(f, OsKey("index_routing")) \subseteq {"by_output_relation", "by_projection_target"}
    \/ Opt(f, OsKey("index_routing.name")) = {"text"}
OpenSearchSinkConfig_validate(f) ==
  /\ Has(f, OsKey("endpoint_ref"))
  /\ TlsOk(f, OsKey("tls"), FALSE)
  /\ ~(Has(f, OsKey("tls")) /\ Opt(f, OsKey("insecure_tls")) = {TRUE})
  /\ OpenSearchIndexRouting_validate(f)

OsTls(f, e) == database_tls(f, OsKey("tls"), e, "VS_OS_TLS_MODE", "VS_OS_TLS_CA_FILE", {})
load_opensearch_config(f, e) ==
  /\ resolve_endpoint(f, OsKey("endpoint_ref"))
  /\ Opt(f, OsKey("auth")) \cap {"basic_dangling", "api_key_dangling"} = {}
  /\ lenient_int(e, "VS_OS_TOMBSTONE_RETENTION_MS")
  /\ database_tls_or_env(f, OsKey("tls"), e, "VS_OS_TLS_MODE", "VS_OS_TLS_CA_FILE", {})
  /\ TlsAgrees(OsTls(f, e),
               config_bool_or_env(f, OsKey("insecure_tls"), e, "VS_INSECURE_TLS", FALSE),
               f[OsKey("endpoint_ref")])
load_opensearch_config_from_env(e) ==
  /\ {"VS_OS_ENDPOINT", "VS_INDEX_TEMPLATE"} \subseteq DOMAIN e
  /\ lenient_int(e, "VS_OS_TOMBSTONE_RETENTION_MS")
  /\ database_tls_or_env(<<>>, "", e, "VS_OS_TLS_MODE", "VS_OS_TLS_CA_FILE", {})
  /\ TlsAgrees(OsTls(<<>>, e), bool_env(e, "VS_INSECURE_TLS", FALSE), e["VS_OS_ENDPOINT"])

-----------------------------------------------------------------------------
(* Meilisearch.                                                            *)

MeKey(k) == "sink.meilisearch." \o k
MeilisearchSinkConfig ==
  UNION {Endpoints({MeKey("endpoint_ref")}), Drops({MeKey("endpoint_ref")}),
         Refs({MeKey("api_key_ref")}),
         Setting({MeKey("index_routing")}, {"by_output_relation", "by_projection_target", "fixed"}),
         Texts({MeKey("index_routing.index")}),
         Setting({MeKey("index_prefix"), MeKey("primary_key_field")}, {"text", "blank", "unsafe"}),
         Setting({MeKey("max_batch_docs")}, {0, 1, 250001}),
         Setting({MeKey("max_batch_bytes")}, {0, 1, 98305}),
         Setting({MeKey("task_deadline_ms")}, {0, 1, 3600001}),
         Setting({MeKey("request_timeout_ms")}, {0, 1, 600001}),
         Setting({MeKey("settings"), MeKey("insecure_tls")}, {TRUE}),
         Setting({MeKey("tls")}, TlsConfig)}
MeilisearchEnv ==
  UNION {Setting({"VS_INSECURE_TLS"}, {"true", "false"}),
         Setting({"VS_MEILI_TLS_MODE"}, {"verify_full", "disabled", "junk"}),
         Setting({"VS_MEILI_TLS_CA_FILE"}, {"text", "blank"})}

MeilisearchSinkConfig_validate(f) ==
  /\ Has(f, MeKey("endpoint_ref"))
  /\ Opt(f, MeKey("index_prefix")) # {"unsafe"}
  /\ Opt(f, MeKey("primary_key_field")) \subseteq {"text"}
  /\ Positive(f, {MeKey(k) : k \in {"max_batch_docs", "max_batch_bytes", "task_deadline_ms",
                                    "request_timeout_ms"}})
  /\ AtMost(f, MeKey("max_batch_docs"), 250000) /\ AtMost(f, MeKey("max_batch_bytes"), 98304)
  /\ AtMost(f, MeKey("task_deadline_ms"), 3600000) /\ AtMost(f, MeKey("request_timeout_ms"), 600000)
  /\ TlsOk(f, MeKey("tls"), FALSE)
  /\ ~(Has(f, MeKey("tls")) /\ Has(f, MeKey("insecure_tls")))
  /\ IF Opt(f, MeKey("index_routing")) = {"fixed"}
       THEN Opt(f, MeKey("index_routing.index")) = {"text"} ELSE ~Has(f, MeKey("settings"))

MeTls(f, e) == database_tls(f, MeKey("tls"), e, "VS_MEILI_TLS_MODE", "VS_MEILI_TLS_CA_FILE", {})
load_meilisearch_config(f, e) ==
  /\ resolve_endpoint(f, MeKey("endpoint_ref"))
  /\ Has(f, MeKey("api_key_ref")) => resolve_value_ref(f, MeKey("api_key_ref"))
  /\ database_tls_or_env(f, MeKey("tls"), e, "VS_MEILI_TLS_MODE", "VS_MEILI_TLS_CA_FILE", {})
  /\ TlsAgrees(MeTls(f, e),
               config_bool_or_env(f, MeKey("insecure_tls"), e, "VS_INSECURE_TLS", FALSE),
               f[MeKey("endpoint_ref")])
\* The environment alone: the batch knobs are parsed strictly, TLS is not read.
load_meilisearch_config_from_env(e) ==
  /\ Has(e, "VS_MEILI_ENDPOINT")
  /\ \A v \in {"VS_MEILI_MAX_BATCH_DOCS", "VS_MEILI_MAX_BATCH_BYTES", "VS_MEILI_TASK_DEADLINE_MS"} :
       lenient_int(e, v)

-----------------------------------------------------------------------------
(* SurrealDB.                                                              *)

SuKey(k) == "sink.surrealdb." \o k
\* Graph edges: a legal one, and the ways an entry or a list can be wrong.
Edge == [name |-> "likes", from_table |-> "users", to_table |-> "orders", fk_columns |-> {"user_id"}]
EdgeLists ==
  {<<Edge>>, <<Edge, Edge>>, <<Edge, [Edge EXCEPT !.name = "buys", !.from_table = "likes"]>>,
   <<[Edge EXCEPT !.name = "orders", !.to_table = "items"]>>}
    \cup {<<[Edge EXCEPT ![k] = "unsafe"]>> : k \in {"name", "from_table", "to_table"}}
    \cup {<<[Edge EXCEPT !.fk_columns = c]>> : c \in {{}, {"blank"}}}
SurrealDbSinkConfig ==
  UNION {Endpoints({SuKey("endpoint_ref")}), Refs({SuKey("username_ref"), SuKey("password_ref")}),
         Drops({SuKey(k) : k \in {"endpoint_ref", "username_ref", "namespace"}}),
         Texts({SuKey("namespace"), SuKey("database")}),
         Setting({SuKey("table_routing")}, {"by_output_relation", "by_projection_target", "fixed"}),
         Texts({SuKey("table_routing.table")}),
         Setting({SuKey("max_batch_docs")}, {0, 1, 250001}),
         Setting({SuKey("max_batch_bytes")}, {0, 1, 98305}),
         Setting({SuKey("request_timeout_ms")}, {0, 1, 600001}),
         Setting({SuKey("graph_edges")}, EdgeLists),
         Setting({SuKey("lookup_fields")}, {"text", "unsafe"}),
         Setting({SuKey("vector_indexes")}, {0, 65535, 65536}),
         Setting({SuKey("insecure_tls")}, {TRUE}), Setting({SuKey("tls")}, TlsConfig)}
SurrealDbEnv ==
  UNION {Setting({"VS_INSECURE_TLS"}, {"true", "false"}),
         Setting({"VS_SURREAL_TLS_MODE"}, {"verify_full", "disabled", "junk"}),
         Setting({"VS_SURREAL_TLS_CA_FILE"}, {"text", "blank"})}

graph_edges(f) == ValueOr(Opt(f, SuKey("graph_edges")), <<>>)
SurrealEdgeConfig_validate(edges) ==
  /\ \A i \in DOMAIN edges :
       /\ "unsafe" \notin {edges[i].name, edges[i].from_table, edges[i].to_table}
       /\ edges[i].fk_columns # {} /\ "blank" \notin edges[i].fk_columns
  /\ \A i, j \in DOMAIN edges : edges[i].name \notin {edges[j].from_table, edges[j].to_table}
  /\ \A i, j \in DOMAIN edges : i # j => edges[i].name # edges[j].name
SurrealDbSinkConfig_validate(f) ==
  /\ \A k \in {"endpoint_ref", "username_ref", "password_ref", "namespace", "database"} :
       Has(f, SuKey(k))
  /\ validate_nonempty(f, SuKey("namespace")) /\ validate_nonempty(f, SuKey("database"))
  /\ Opt(f, SuKey("table_routing")) = {"fixed"} => Opt(f, SuKey("table_routing.table")) = {"text"}
  /\ Positive(f, {SuKey(k) : k \in {"max_batch_docs", "max_batch_bytes", "request_timeout_ms"}})
  /\ AtMost(f, SuKey("max_batch_docs"), 250000) /\ AtMost(f, SuKey("max_batch_bytes"), 98304)
  /\ AtMost(f, SuKey("request_timeout_ms"), 600000)
  /\ SurrealEdgeConfig_validate(graph_edges(f))
  /\ graph_edges(f) # <<>> => Opt(f, SuKey("table_routing")) \subseteq {"by_output_relation"}
  /\ Opt(f, SuKey("lookup_fields")) # {"unsafe"}
  /\ Positive(f, {SuKey("vector_indexes")}) /\ AtMost(f, SuKey("vector_indexes"), 65535)
  /\ TlsOk(f, SuKey("tls"), FALSE)

SuTls(f, e) == database_tls(f, SuKey("tls"), e, "VS_SURREAL_TLS_MODE", "VS_SURREAL_TLS_CA_FILE", {})
load_surrealdb_config(f, e) ==
  /\ resolve_endpoint(f, SuKey("endpoint_ref"))
  /\ resolve_value_ref(f, SuKey("username_ref")) /\ resolve_value_ref(f, SuKey("password_ref"))
  /\ database_tls_or_env(f, SuKey("tls"), e, "VS_SURREAL_TLS_MODE", "VS_SURREAL_TLS_CA_FILE", {})
  /\ TlsAgrees(SuTls(f, e),
               config_bool_or_env(f, SuKey("insecure_tls"), e, "VS_INSECURE_TLS", FALSE),
               f[SuKey("endpoint_ref")])
load_surrealdb_config_from_env(e) ==
  /\ {"VS_SURREAL_" \o k : k \in {"ENDPOINT", "NAMESPACE", "DATABASE", "USERNAME", "PASSWORD"}}
       \subseteq DOMAIN e
  /\ database_tls_or_env(<<>>, "", e, "VS_SURREAL_TLS_MODE", "VS_SURREAL_TLS_CA_FILE", {})
  /\ TlsAgrees(SuTls(<<>>, e), Opt(e, "VS_INSECURE_TLS") = {"true"}, e["VS_SURREAL_ENDPOINT"])

-----------------------------------------------------------------------------
(* Redis: the schema's check of the block, the loader that merges it with  *)
(* the VS_REDIS_SINK_* variables, and the check the sink itself makes of   *)
(* the merged result, which runs when it connects (and in the diagnostic   *)
(* and drift commands) and not before.                                     *)

ReKey(k) == "sink.redis." \o k

-----------------------------------------------------------------------------
(* Declarative views.  A key template is the sequence of its parts.        *)

View == [name |-> "by_user", source |-> {"relation"}, selector |-> "text",
         template |-> <<"lit", "doc_id">>, filter |-> {}, value |-> {}]
LongTemplate(n, last) == [i \in 1..n |-> IF i = 1 THEN "doc_id" ELSE IF i = n THEN last ELSE "header"]
ViewLists ==
  {<<>>, <<View>>, <<View, View>>, <<View, [View EXCEPT !.name = "by_order"]>>}
    \cup {<<[View EXCEPT !.name = n]>> : n \in {"blank", "__ventstream"}}
    \cup {<<[View EXCEPT !.source = s]>> : s \in {{}, {"projection_target"}, {"relation", "projection_target"}}}
    \cup {<<[View EXCEPT !.selector = "blank"]>>}
    \cup {<<[View EXCEPT !.template = t]>> :
            t \in {<<>>, <<"header">>, <<"json">>, <<"bad_json">>, <<"doc_id", "junk">>,
                   LongTemplate(65, "header"), LongTemplate(65, "lit"), LongTemplate(64, "lit")}}
    \cup {<<[View EXCEPT !.filter = {c}]>> : c \in {{}, {"equals"}, {"bad_path"}, {"in_none"}, {"not_scalar"}}}
    \cup {<<[View EXCEPT !.value = {v}]>> : v \in {"pointer", "bad_path", "fields", "no_fields", "blank_field"}}

validate_redis_view_template(t) ==
  LET parts == {t[i] : i \in DOMAIN t}
  IN /\ t # <<>>
     /\ parts \cap {"junk", "bad_json"} = {}
     /\ Len(t) <= 64
     /\ parts \cap {"doc_id", "json"} # {}
\* The sink's own parser counts the parts at each placeholder, so a literal
\* after the last one is not counted.
CompiledTemplate_compile(t) ==
  LET parts == {t[i] : i \in DOMAIN t}
  IN /\ t # <<>>
     /\ parts \cap {"junk", "bad_json"} = {}
     /\ \A i \in DOMAIN t : t[i] # "lit" => i <= 64
     /\ parts \cap {"doc_id", "json"} # {}
\* Everything of a view the schema and the sink check in the same way.
ViewBodyOk(v) ==
  /\ v.name \notin {"blank", "__ventstream"}
  /\ Cardinality(v.source) = 1
  /\ v.selector # "blank"
  /\ \A conditions \in v.filter : conditions # {} /\ conditions \cap {"bad_path", "in_none", "not_scalar"} = {}
  /\ v.value \cap {"bad_path", "no_fields", "blank_field"} = {}
UniqueNames(views) == \A i, j \in DOMAIN views : i # j => views[i].name # views[j].name

validate_redis_views(views) ==
  /\ Len(views) \in 1..32
  /\ UniqueNames(views)
  /\ \A i \in DOMAIN views : ViewBodyOk(views[i]) /\ validate_redis_view_template(views[i].template)
CompiledViews_compile(views) ==
  /\ Len(views) \in 1..32
  /\ UniqueNames(views)
  /\ \A i \in DOMAIN views : ViewBodyOk(views[i]) /\ CompiledTemplate_compile(views[i].template)

-----------------------------------------------------------------------------
(* The block and its schema check.                                         *)

\* A credential reference resolves from the environment at load time; a file
\* reference is kept as a path and read at connect time.
RedisAuthConfig ==
  {[mode |-> "none", user |-> "env", password |-> "env"]}
    \cup [mode : {"acl", "password"}, user : {"env", "file", "dangling"}, password : {"env", "file", "dangling"}]
RedisTlsConfig == [ca : BOOLEAN, cert : BOOLEAN, key : BOOLEAN]
NoTls == [ca |-> FALSE, cert |-> FALSE, key |-> FALSE]
NoAuth == [mode |-> "none", user |-> "env", password |-> "env"]
RedisTopologyConfig ==
  LET sentinel == [mode |-> "sentinel", service |-> "text", endpoints |-> <<"redis">>, data_node_tls |-> FALSE,
                   auth |-> NoAuth, tls |-> NoTls]
      lists == {<<>>, <<"rediss">>, <<"redis", "rediss">>, <<"dangling">>, <<"redis/1">>}
  IN {sentinel, [sentinel EXCEPT !.service = "blank"], [sentinel EXCEPT !.data_node_tls = TRUE],
      [sentinel EXCEPT !.tls.ca = TRUE], [sentinel EXCEPT !.tls.cert = TRUE],
      [sentinel EXCEPT !.auth = [mode |-> "acl", user |-> "env", password |-> "file"]]}
       \cup {[sentinel EXCEPT !.endpoints = l] : l \in lists}
       \cup {[sentinel EXCEPT !.mode = "cluster", !.endpoints = l] : l \in lists}
RedisAcknowledgementConfig ==
  [mode : {"replicated", "aof"}, local : BOOLEAN, replicas : {0, 1}, timeout : {0, 1000, 20000, 40000}]
RedisSinkConfig ==
  UNION {Setting({ReKey("endpoint_ref")}, {"redis", "rediss", "rediss/1", "http", "dangling"}),
         Drops({ReKey("endpoint_ref")}),
         Setting({ReKey("topology")}, RedisTopologyConfig), Setting({ReKey("auth")}, RedisAuthConfig),
         Setting({ReKey("tls")}, RedisTlsConfig),
         Setting({ReKey("keyspace.prefix")}, {"text", "blank", "unsafe"}),
         Setting({ReKey("keyspace.routing")}, {"by_output_relation", "by_projection_target", "fixed", "views"}),
         Texts({ReKey("keyspace.routing.name")}), Setting({ReKey("keyspace.routing.views")}, ViewLists),
         Setting({ReKey("keyspace.ownership")}, {"shared", "exclusive"}),
         Setting({ReKey("contract.ttl_ms")}, {0, 1}),
         Setting({ReKey("acknowledgement")}, RedisAcknowledgementConfig),
         Setting({ReKey("writer.id_ref"), ReKey("writer.takeover_from_ref")}, {"w1", "w2", "unsafe", "dangling"}),
         Setting({ReKey("writer.lease_ms")}, {2999, 3000, 600001}),
         Setting({ReKey("max_batch_bytes"), ReKey("max_value_bytes")}, {0, 1, 65537}),
         Setting({ReKey("max_key_bytes")}, {0, 1, 1025}),
         Setting({ReKey("connect_timeout_ms")}, {0, 1, 120001}),
         Setting({ReKey("response_timeout_ms")}, {0, 10000, 600001})}
RedisEnv ==
  UNION {Setting({"VS_REDIS_SINK_WRITER_ID", "VS_FLEET_DEPLOYMENT_ID"}, {"w1", "unsafe"}),
         Setting({"VS_REDIS_SINK_WRITER_TAKEOVER_FROM"}, {"w1", "standalone", "blank"}),
         Setting({"VS_REDIS_SINK_WRITER_LEASE_MS"}, {-1, 0, 3000}),
         Setting({"VS_REDIS_SINK_MAX_BATCH_BYTES"}, {-1, 0, 65537}),
         Setting({"VS_REDIS_SINK_CONNECT_TIMEOUT_MS"}, {-1, 0}),
         Setting({"VS_REDIS_SINK_RESPONSE_TIMEOUT_MS"}, {-1, 0, 10000}),
         Setting({"VS_REDIS_SINK_TLS_CA_FILE", "VS_REDIS_SINK_TLS_CLIENT_CERT_FILE"}, {"text", "blank"}),
         Setting({"VS_REDIS_SINK_TOPOLOGY"}, {"cluster", "sentinel", "junk"}),
         Setting({"VS_REDIS_SINK_URL"}, {"redis", "rediss", "http"}), Drops({"VS_REDIS_SINK_URL", "VS_REDIS_SINK_KEY_PREFIX"}),
         Setting({"VS_REDIS_SINK_CLUSTER_URLS", "VS_REDIS_SINK_SENTINEL_URLS"}, {<<>>, <<"redis">>, <<"redis", "rediss">>}),
         Setting({"VS_REDIS_SINK_KEY_ROUTING"}, {"by_projection_target", "fixed", "junk"}),
         Setting({"VS_REDIS_SINK_KEYSPACE_OWNERSHIP"}, {"exclusive", "junk"}),
         Setting({"VS_REDIS_SINK_CONTRACT"}, {"cache", "junk"}), Setting({"VS_REDIS_SINK_TTL_MS"}, {-1, 0, 1}),
         Setting({"VS_REDIS_SINK_ACK_MODE"}, {"primary", "replicated", "aof", "junk"}),
         Setting({"VS_REDIS_SINK_ACK_REPLICAS"}, {-1, 0, 1}),
         Texts({"VS_REDIS_SINK_SENTINEL_SERVICE", "VS_REDIS_SINK_FIXED_TARGET"})}

RedisTlsConfig_validate(t) == t.cert = t.key
validate_redis_topology_endpoints(l) == Len(l) \in 1..32
RedisTopologyConfig_validate(t) ==
  /\ t.mode = "sentinel" => t.service # "blank" /\ RedisTlsConfig_validate(t.tls)
  /\ validate_redis_topology_endpoints(t.endpoints)
\* Mutant: the bound of the lease is off by one.
RedisWriterConfig_loose(f) == \A n \in Opt(f, ReKey("writer.lease_ms")) : n \in 2999..600000
RedisWriterConfig_validate(f) == \A n \in Opt(f, ReKey("writer.lease_ms")) : n \in 3000..600000
RedisContractConfig_validate(f) == Positive(f, {ReKey("contract.ttl_ms")})
RedisAcknowledgementConfig_validate(a) ==
  /\ a.timeout > 0
  /\ a.mode = "replicated" => a.replicas > 0
  /\ a.mode = "aof" /\ ~a.local => a.replicas > 0
RedisKeyspaceConfig_validate(f) ==
  /\ Opt(f, ReKey("keyspace.prefix")) = {"text"}
  /\ Opt(f, ReKey("keyspace.routing")) = {"views"} => Opt(f, ReKey("keyspace.ownership")) = {"exclusive"}
RedisKeyRoutingConfig_validate(f) ==
  /\ Opt(f, ReKey("keyspace.routing")) = {"fixed"} => Opt(f, ReKey("keyspace.routing.name")) = {"text"}
  /\ Opt(f, ReKey("keyspace.routing")) = {"views"} =>
       validate_redis_views(ValueOr(Opt(f, ReKey("keyspace.routing.views")), <<>>))
RedisSinkConfig_validate(f) ==
  /\ Has(f, ReKey("endpoint_ref")) # Has(f, ReKey("topology"))
  /\ \A t \in Opt(f, ReKey("topology")) :
       /\ RedisTopologyConfig_validate(t)
       /\ t.mode = "cluster" /\ Opt(f, ReKey("keyspace.routing")) = {"views"} =>
            Len(ValueOr(Opt(f, ReKey("keyspace.routing.views")), <<>>)) <= 1
  /\ \A t \in Opt(f, ReKey("tls")) : RedisTlsConfig_validate(t)
  /\ RedisKeyspaceConfig_validate(f) /\ RedisKeyRoutingConfig_validate(f)
  /\ RedisContractConfig_validate(f) /\ RedisWriterConfig_validate(f)
  /\ Positive(f, {ReKey(k) : k \in {"max_batch_bytes", "max_key_bytes", "max_value_bytes",
                                    "connect_timeout_ms", "response_timeout_ms"}})
  /\ AtMost(f, ReKey("max_batch_bytes"), 65536) /\ AtMost(f, ReKey("max_value_bytes"), 65536)
  /\ AtMost(f, ReKey("max_key_bytes"), 1024)
  /\ AtMost(f, ReKey("connect_timeout_ms"), 120000) /\ AtMost(f, ReKey("response_timeout_ms"), 600000)
  /\ \A a \in Opt(f, ReKey("acknowledgement")) :
       /\ RedisAcknowledgementConfig_validate(a)
       /\ a.timeout <= ValueOr(Opt(f, ReKey("response_timeout_ms")), 30000)

-----------------------------------------------------------------------------
(* The loader: what is accepted, and the configuration it builds.          *)

resolve_redis_auth(a) ==
  /\ a.mode = "acl" => a.user # "dangling"
  /\ a.mode # "none" => a.password # "dangling"
load_redis_tls(f, e) ==
  LET file == ValueOr(Opt(f, ReKey("tls")), NoTls)
  IN [ca |-> file.ca \/ Opt(e, "VS_REDIS_SINK_TLS_CA_FILE") = {"text"},
      cert |-> file.cert \/ Opt(e, "VS_REDIS_SINK_TLS_CLIENT_CERT_FILE") = {"text"}, key |-> file.key]
\* Without an explicit mode a replica count alone selects replication.
load_redis_acknowledgement_from_env(e) ==
  LET mode == Opt(e, "VS_REDIS_SINK_ACK_MODE") \cup
                (IF ~Has(e, "VS_REDIS_SINK_ACK_MODE") /\ Has(e, "VS_REDIS_SINK_ACK_REPLICAS") THEN {"replicated"} ELSE {})
  IN IF mode \subseteq {"primary"} THEN {}
     ELSE {[mode |-> m, local |-> TRUE, replicas |-> ValueOr(Opt(e, "VS_REDIS_SINK_ACK_REPLICAS"), 0),
            timeout |-> ValueOr(Opt(e, "VS_REDIS_SINK_ACK_TIMEOUT_MS"), 1000)] : m \in mode}
RedisNumber == [lease |-> <<"writer.lease_ms", "VS_REDIS_SINK_WRITER_LEASE_MS", 30000>>,
                batch |-> <<"max_batch_bytes", "VS_REDIS_SINK_MAX_BATCH_BYTES", 16384>>,
                value |-> <<"max_value_bytes", "VS_REDIS_SINK_MAX_VALUE_BYTES", 8192>>,
                key |-> <<"max_key_bytes", "VS_REDIS_SINK_MAX_KEY_BYTES", 16>>,
                connect |-> <<"connect_timeout_ms", "VS_REDIS_SINK_CONNECT_TIMEOUT_MS", 5000>>,
                response |-> <<"response_timeout_ms", "VS_REDIS_SINK_RESPONSE_TIMEOUT_MS", 30000>>]
Standalone(l) == [mode |-> "standalone", service |-> "text", endpoints |-> l, data_node_tls |-> FALSE,
                  auth |-> NoAuth, tls |-> NoTls]
\* Without a block in the file everything comes from the environment.
EnvTopology(e) ==
  LET mode == ValueOr(Opt(e, "VS_REDIS_SINK_TOPOLOGY"), "standalone")
      Urls(v) == ValueOr(Opt(e, v), <<>>)
  IN CASE mode = "cluster" -> [Standalone(Urls("VS_REDIS_SINK_CLUSTER_URLS")) EXCEPT !.mode = mode]
       [] mode = "sentinel" -> [Standalone(Urls("VS_REDIS_SINK_SENTINEL_URLS")) EXCEPT
                                  !.mode = mode, !.service = ValueOr(Opt(e, "VS_REDIS_SINK_SENTINEL_SERVICE"), "blank")]
       [] OTHER -> Standalone(<<ValueOr(Opt(e, "VS_REDIS_SINK_URL"), "dangling")>>)
RedisFromEnv(e) ==
  /\ \A v \in {"TOPOLOGY", "KEY_ROUTING", "KEYSPACE_OWNERSHIP", "CONTRACT", "ACK_MODE"} :
       Opt(e, "VS_REDIS_SINK_" \o v) # {"junk"}
  /\ EnvTopology(e).endpoints \notin {<<>>, <<"dangling">>} /\ EnvTopology(e).service # "blank"
  /\ Has(e, "VS_REDIS_SINK_KEY_PREFIX")
  /\ Opt(e, "VS_REDIS_SINK_KEY_ROUTING") = {"fixed"} => Opt(e, "VS_REDIS_SINK_FIXED_TARGET") = {"text"}
  /\ Opt(e, "VS_REDIS_SINK_CONTRACT") = {"cache"} =>
       Has(e, "VS_REDIS_SINK_TTL_MS") /\ lenient_int(e, "VS_REDIS_SINK_TTL_MS")
  /\ load_redis_acknowledgement_from_env(e) # {} => lenient_int(e, "VS_REDIS_SINK_ACK_REPLICAS")
load_redis_sink_config(f, e) ==
  /\ ~Has(f, "sink.redis") => RedisFromEnv(e)
  /\ \A r \in {"endpoint_ref", "writer.id_ref", "writer.takeover_from_ref"} : Opt(f, ReKey(r)) # {"dangling"}
  /\ \A t \in Opt(f, ReKey("topology")) :
       /\ \A i \in DOMAIN t.endpoints : t.endpoints[i] # "dangling"
       /\ t.mode = "sentinel" => resolve_redis_auth(t.auth)
  /\ resolve_redis_auth(ValueOr(Opt(f, ReKey("auth")), NoAuth))
  /\ \A k \in DOMAIN RedisNumber : config_usize_or_env(f, ReKey(RedisNumber[k][1]), e, RedisNumber[k][2])
RedisConfig(f, e) ==
  LET file == Has(f, "sink.redis")
      topology == IF ~file THEN EnvTopology(e)
                  ELSE IF Has(f, ReKey("topology")) THEN f[ReKey("topology")]
                  ELSE Standalone(<<f[ReKey("endpoint_ref")]>>)
      FileOrEnv(k, v) == IF file THEN Opt(f, ReKey(k)) ELSE Opt(e, "VS_REDIS_SINK_" \o v)
      numbers == [k \in DOMAIN RedisNumber |->
                    config_usize(f, ReKey(RedisNumber[k][1]), e, RedisNumber[k][2], RedisNumber[k][3])]
  IN [topology |-> topology, tls |-> load_redis_tls(f, e), number |-> numbers,
      routing |-> ValueOr(FileOrEnv("keyspace.routing", "KEY_ROUTING"), "by_output_relation"),
      views |-> ValueOr(Opt(f, ReKey("keyspace.routing.views")), <<>>),
      ownership |-> ValueOr(FileOrEnv("keyspace.ownership", "KEYSPACE_OWNERSHIP"), "shared"),
      auth |-> ValueOr(Opt(f, ReKey("auth")), NoAuth),
      ack |-> IF file THEN Opt(f, ReKey("acknowledgement"))
              ELSE load_redis_acknowledgement_from_env(e),
      ttl |-> IF file THEN Opt(f, ReKey("contract.ttl_ms"))
              ELSE IF Opt(e, "VS_REDIS_SINK_CONTRACT") = {"cache"} THEN Opt(e, "VS_REDIS_SINK_TTL_MS") ELSE {},
      writer |-> ValueOr(FirstOf(Opt(f, ReKey("writer.id_ref")),
                                 FirstOf(Opt(e, "VS_REDIS_SINK_WRITER_ID"), Opt(e, "VS_FLEET_DEPLOYMENT_ID"))),
                         "standalone"),
      takeover |-> FirstOf(Opt(f, ReKey("writer.takeover_from_ref")),
                           Opt(e, "VS_REDIS_SINK_WRITER_TAKEOVER_FROM"))]

-----------------------------------------------------------------------------
(* The sink's own check of the merged configuration.                       *)

validate_writer_identity(w) == w \notin {"blank", "unsafe"}
has_tls_files(t) == t.ca \/ t.cert \/ t.key
validate_tls_files(t) == t.cert = t.key
Tls(s) == s \in {"rediss", "rediss/1"}
validate_endpoints(l) ==
  /\ Len(l) \in 1..32
  /\ \A i \in DOMAIN l : l[i] \in {"redis", "rediss", "redis/1", "rediss/1"}
  /\ \A i, j \in DOMAIN l : i # j => l[i] # l[j]
  /\ \A i \in DOMAIN l : Tls(l[i]) = Tls(l[1])
validate_database_zero(l) == \A i \in DOMAIN l : l[i] \in {"redis", "rediss"}
topology_uses_data_node_tls(t) == IF t.mode = "sentinel" THEN t.data_node_tls ELSE Tls(t.endpoints[1])
validate_topology(c) ==
  LET t == c.topology
  IN /\ validate_endpoints(t.endpoints)
     /\ t.mode # "standalone" => validate_database_zero(t.endpoints)
     /\ t.mode = "sentinel" => /\ validate_tls_files(t.tls) /\ t.service # "blank"
                               /\ has_tls_files(t.tls) => Tls(t.endpoints[1])
     /\ t.mode = "cluster" /\ c.routing = "views" => Len(c.views) <= 1
     /\ validate_tls_files(c.tls)
RedisConfig_validate(c) ==
  /\ validate_topology(c)
  /\ has_tls_files(c.tls) => topology_uses_data_node_tls(c.topology)
  /\ validate_writer_identity(c.writer)
  /\ \A w \in c.takeover : validate_writer_identity(w) /\ w # c.writer
  /\ c.number.lease \in 3000..600000
  /\ c.routing = "views" => CompiledViews_compile(c.views) /\ c.ownership = "exclusive"
  /\ \A k \in DOMAIN c.number : c.number[k] > 0
  /\ c.number.batch <= 65536 /\ c.number.value <= 65536 /\ c.number.key <= 1024
  /\ c.number.connect <= 120000 /\ c.number.response <= 600000
  /\ \A a \in c.ack :
       /\ a.mode = "replicated" => a.replicas > 0
       /\ a.mode = "aof" /\ ~a.local => a.replicas > 0
       /\ a.timeout \in 1..c.number.response
  /\ 0 \notin c.ttl
==============================================================================
