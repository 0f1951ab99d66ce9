--------------------------- MODULE SourceConfigs ---------------------------
(***************************************************************************)
(* The source section of the engine configuration: for every connector the *)
(* settings its block admits, the schema's check of the block, and the     *)
(* loader that merges the block with the connector's VS_* variables.  A    *)
(* loader L has a predicate (it returns a bundle rather than an error) and *)
(* an operator LConfig with the part of the bundle the drain and start     *)
(* logic reads: whether a snapshot is taken, and which tables are watched. *)
(*                                                                         *)
(* First what every section uses: the values of a configuration file and   *)
(* of the VS_* environment, and the helpers that check and merge them.  A  *)
(* file and an environment are both functions whose domain is what is set: *)
(* the key of a file entry is its path in the YAML document, the key of an *)
(* environment entry the variable's name.  An Option is a set with at most *)
(* one element.                                                            *)
(*                                                                         *)
(* Values are kept to what the checks tell apart: a text is "text" or      *)
(* "blank", a reference (env:NAME or file:PATH; anything else fails to     *)
(* decode) is "ref" when it resolves and "dangling" when its variable or   *)
(* file is missing.  A number that does not fit its unsigned type is -1.   *)
(***************************************************************************)
EXTENDS Integers, Sequences, FiniteSets

Has(m, k) == k \in DOMAIN m
Opt(m, k) == IF Has(m, k) THEN {m[k]} ELSE {}
FirstOf(a, b) == IF a # {} THEN a ELSE b
ValueOr(a, d) == IF a = {} THEN d ELSE CHOOSE x \in a : TRUE

-----------------------------------------------------------------------------
(* Settings: <<key, option>> pairs, what a test of the configuration may    *)
(* set or drop.                                                            *)

Setting(keys, values) == {<<k, {v}>> : k \in keys, v \in values}
Texts(keys) == Setting(keys, {"text", "blank"})
Refs(keys) == Setting(keys, {"ref", "dangling"})
Counts(keys) == Setting(keys, {0, 1})
Drops(keys) == {<<k, {}>> : k \in keys}
Apply(m, settings) ==
  LET touched == {s[1] : s \in settings}
      added == {s \in settings : s[2] # {}}
      keys == (DOMAIN m \ touched) \cup {s[1] : s \in added}
  IN [k \in keys |->
        IF k \in touched
          THEN CHOOSE v \in (CHOOSE s \in added : s[1] = k)[2] : TRUE ELSE m[k]]

-----------------------------------------------------------------------------
(* Schema helpers.                                                         *)

validate_nonempty(m, k) == Opt(m, k) # {"blank"}
validate_value_or_ref(m, k, r) ==
  /\ ~(Has(m, k) /\ Has(m, r))
  /\ validate_nonempty(m, k)
Positive(m, keys) == \A k \in keys : Opt(m, k) # {0}
AtMost(m, k, max) == \A n \in Opt(m, k) : n <= max

TlsConfig == [mode : {"verify_full", "disabled"}, ca_file : BOOLEAN, trust : BOOLEAN]
TlsConfig_validate(t, trusted) ==
  /\ ~(t.mode = "disabled" /\ (t.ca_file \/ t.trust))
  /\ ~(t.ca_file /\ t.trust)
  /\ t.trust => trusted
TlsOk(m, k, trusted) == \A t \in Opt(m, k) : TlsConfig_validate(t, trusted)

-----------------------------------------------------------------------------
(* Loading helpers: the file first, then a reference it names, then the    *)
(* environment, then a default.                                            *)

resolve_value_ref(m, r) == Opt(m, r) = {"ref"}
lenient_int(e, v) == \A n \in Opt(e, v) : n >= 0

config_value_or_env(m, k, r, e, v) ==
  \/ Has(m, k)
  \/ ~Has(m, k) /\ Has(m, r) /\ resolve_value_ref(m, r)
  \/ ~Has(m, k) /\ ~Has(m, r) /\ Has(e, v)
config_optional_value_or_env(m, k, r) == Has(m, k) \/ ~Has(m, r) \/ resolve_value_ref(m, r)
config_ref_or_env(m, r, e, v) == IF Has(m, r) THEN resolve_value_ref(m, r) ELSE Has(e, v)
config_usize_or_env(m, k, e, v) == Has(m, k) \/ lenient_int(e, v)
config_usize(m, k, e, v, default) == ValueOr(FirstOf(Opt(m, k), Opt(e, v)), default)
bool_env(e, v, default) ==
  LET x == ValueOr(Opt(e, v), "junk")
  IN CASE x = "true" -> TRUE [] x = "false" -> FALSE [] OTHER -> default
config_bool_or_env(m, k, e, v, default) == ValueOr(Opt(m, k), bool_env(e, v, default))
config_path_or_env(m, k, e, v) == FirstOf(Opt(m, k), Opt(e, v) \ {"blank"})

\* The TLS settings in force: {} when neither the file nor the environment
\* has any.  The environment is read only when the file has no tls block.
EnvTls(e, vmode, vca, vtrust) ==
  LET ca == Opt(e, vca) \ {"blank"}
      trust == UNION {Opt(e, v) \ {"blank"} : v \in vtrust}
  IN IF Opt(e, vmode) = {} /\ ca = {} /\ trust = {} THEN {}
     ELSE {[mode |-> ValueOr(Opt(e, vmode), "verify_full"), ca_file |-> ca # {}, trust |-> trust # {}]}
database_tls(m, k, e, vmode, vca, vtrust) ==
  FirstOf(Opt(m, k), EnvTls(e, vmode, vca, vtrust))
database_tls_or_env(m, k, e, vmode, vca, vtrust) ==
  /\ ~Has(m, k) => \A v \in vtrust : Opt(e, v) # {"junk"}
  /\ \A t \in database_tls(m, k, e, vmode, vca, vtrust) :
        t.mode \in {"verify_full", "disabled"} /\ TlsConfig_validate(t, TRUE)

-----------------------------------------------------------------------------
(* Bootstrap chunks are set in the environment.                            *)

Chunks == {<<"VS_PG_BOOTSTRAP_CHUNK_SIZE", {n}>> : n \in {-1, 0}}

-----------------------------------------------------------------------------
(* PostgreSQL.                                                             *)

PgKey(k) == "source.postgres." \o k
PgRef == [host |-> "VS_PG_HOST", user |-> "VS_PG_USER", database |-> "VS_PG_DATABASE",
          publication |-> "VS_PG_PUBLICATION", slot |-> "VS_PG_SLOT"]
PostgresSourceConfig ==
  LET names == {PgKey(k) : k \in DOMAIN PgRef}
  IN UNION {Texts(names), Drops(names),
            Refs({PgKey(k \o "_ref") : k \in DOMAIN PgRef \cup {"password"}}),
            Counts({PgKey("bootstrap.chunk_size"), PgKey("related_fetch_pool_size"),
                    PgKey("transaction_memory_limit_bytes")}),
            Setting({PgKey("bootstrap.mode")}, {"snapshot", "none"}),
            Setting({PgKey("transaction_spool_dir")}, {"text", "blank"}),
            Setting({PgKey("tls")}, TlsConfig)}
PostgresEnv ==
  UNION {Texts({PgRef[k] : k \in DOMAIN PgRef}), Texts({"VS_PG_PASSWORD"}), Chunks,
         Setting({"VS_PG_PORT"}, {-1, 5432, 70000}),
         Setting({"VS_PG_TRANSACTION_MEMORY_LIMIT_BYTES"}, {-1, 0, 1}),
         Setting({"VS_PG_BOOTSTRAP_MODE"}, {"snapshot", "SNAPSHOT"}),
         Setting({"VS_PG_TLS_MODE"}, {"verify_full", "disabled", "junk"}),
         Setting({"VS_PG_TLS_CA_FILE"}, {"text", "blank"}),
         Setting({"VS_PG_TLS_TRUST_PROVIDER"}, {"text", "blank", "junk"})}

PostgresSourceConfig_validate(f) ==
  /\ \A k \in DOMAIN PgRef : validate_value_or_ref(f, PgKey(k), PgKey(k \o "_ref"))
  /\ Positive(f, {PgKey("bootstrap.chunk_size"), PgKey("related_fetch_pool_size"),
                  PgKey("transaction_memory_limit_bytes")})
  /\ validate_nonempty(f, PgKey("transaction_spool_dir"))
  /\ TlsOk(f, PgKey("tls"), TRUE)

PgBootstraps(f, e) ==
  \/ bool_env(e, "VS_FLEET_FORCE_BOOTSTRAP", FALSE)
  \/ FirstOf(Opt(f, PgKey("bootstrap.mode")), Opt(e, "VS_PG_BOOTSTRAP_MODE")) = {"snapshot"}
load_cdc_bundle_postgres(f, e) ==
  /\ \A k \in DOMAIN PgRef : config_value_or_env(f, PgKey(k), PgKey(k \o "_ref"), e, PgRef[k])
  /\ Has(f, PgKey("port")) \/ (lenient_int(e, "VS_PG_PORT") /\ AtMost(e, "VS_PG_PORT", 65535))
  /\ config_ref_or_env(f, PgKey("password_ref"), e, "VS_PG_PASSWORD")
  /\ database_tls_or_env(f, PgKey("tls"), e, "VS_PG_TLS_MODE", "VS_PG_TLS_CA_FILE",
                         {"VS_PG_TLS_TRUST_PROVIDER"})
  /\ config_usize_or_env(f, PgKey("transaction_memory_limit_bytes"), e,
                         "VS_PG_TRANSACTION_MEMORY_LIMIT_BYTES")
  /\ 0 # config_usize(f, PgKey("transaction_memory_limit_bytes"), e,
                      "VS_PG_TRANSACTION_MEMORY_LIMIT_BYTES", 1)
  /\ PgBootstraps(f, e) =>
       config_usize_or_env(f, PgKey("bootstrap.chunk_size"), e, "VS_PG_BOOTSTRAP_CHUNK_SIZE")

\* Snapshot tables: the related tables of each join, then its primary, each
\* table once.
build_bootstrap_tables(joins) == UNION {j.related \cup {j.primary} : j \in joins}
PostgresBundle(f, e, joins) ==
  [kind |-> "postgres", bootstrap |-> PgBootstraps(f, e),
   tables |-> IF PgBootstraps(f, e) THEN build_bootstrap_tables(joins) ELSE {}]

-----------------------------------------------------------------------------
(* MySQL and MariaDB.                                                      *)

MyKey(k) == "source.mysql." \o k
MysqlSourceConfig ==
  UNION {Texts({MyKey("host"), MyKey("user"), MyKey("database")}),
         Drops({MyKey("host"), MyKey("database")}),
         Refs({MyKey("host_ref"), MyKey("user_ref"), MyKey("database_ref"), MyKey("password_ref")}),
         Counts({MyKey("bootstrap.chunk_size"), MyKey("pos_flush_ms"),
                 MyKey("recompose_chunk"), MyKey("recompose_concurrency")}),
         Setting({MyKey("tables")}, {{"blank"}, {"orders"}}),
         Setting({MyKey("bootstrap.mode")}, {"snapshot", "none"}),
         Setting({MyKey("tls")}, TlsConfig)}
MysqlEnv ==
  UNION {Texts({"VS_MYSQL_HOST", "VS_MYSQL_DATABASE"}),
         Setting({"VS_MYSQL_PORT"}, {-1, 70000}), Setting({"VS_MYSQL_SERVER_ID"}, {-1, 1}),
         Setting({"VS_MYSQL_TABLES"}, {{"orders"}}),
         Setting({"VS_MYSQL_BOOTSTRAP_MODE"}, {"none", "snapshot"}),
         Setting({"VS_MYSQL_BOOTSTRAP_CHUNK_SIZE", "VS_MYSQL_POS_FLUSH_MS"}, {-1, 0}),
         Setting({"VS_MYSQL_TLS_MODE"}, {"verify_full", "disabled", "junk"}),
         Setting({"VS_MYSQL_TLS_CA_FILE", "VS_MYSQL_TLS_TRUST_PROVIDER"}, {"text"})}

MysqlSourceConfig_validate(f) ==
  /\ \A k \in {"host", "user", "database"} : validate_value_or_ref(f, MyKey(k), MyKey(k \o "_ref"))
  /\ Positive(f, {MyKey("bootstrap.chunk_size"), MyKey("pos_flush_ms"),
                  MyKey("recompose_chunk"), MyKey("recompose_concurrency")})
  /\ \A ts \in Opt(f, MyKey("tables")) : "blank" \notin ts
  /\ TlsOk(f, MyKey("tls"), TRUE)

ListOr(f, k, e, v) ==
  LET listed == ValueOr(Opt(f, k), {}) IN IF listed # {} THEN listed ELSE ValueOr(Opt(e, v), {})
\* A bootstrap is taken unless the file, or else the environment, says none.
Bootstraps(f, k, e, v) == FirstOf(Opt(f, k), Opt(e, v)) # {"none"}

load_cdc_bundle_mysql(f, e) ==
  /\ config_value_or_env(f, MyKey("host"), MyKey("host_ref"), e, "VS_MYSQL_HOST")
  /\ config_value_or_env(f, MyKey("database"), MyKey("database_ref"), e, "VS_MYSQL_DATABASE")
  /\ config_optional_value_or_env(f, MyKey("user"), MyKey("user_ref"))
  /\ Has(f, MyKey("password_ref")) => resolve_value_ref(f, MyKey("password_ref"))
  /\ Has(f, MyKey("port")) \/ (lenient_int(e, "VS_MYSQL_PORT") /\ AtMost(e, "VS_MYSQL_PORT", 65535))
  /\ config_usize_or_env(f, MyKey("server_id"), e, "VS_MYSQL_SERVER_ID")
  /\ config_usize_or_env(f, MyKey("bootstrap.chunk_size"), e, "VS_MYSQL_BOOTSTRAP_CHUNK_SIZE")
  /\ config_usize_or_env(f, MyKey("pos_flush_ms"), e, "VS_MYSQL_POS_FLUSH_MS")
  /\ database_tls_or_env(f, MyKey("tls"), e, "VS_MYSQL_TLS_MODE", "VS_MYSQL_TLS_CA_FILE",
                         {"VS_MYSQL_TLS_TRUST_PROVIDER"})
\* A table filter is widened to every table of the joins; no filter watches all.
MysqlBundle(f, e, joins) ==
  LET listed == ListOr(f, MyKey("tables"), e, "VS_MYSQL_TABLES")
  IN [kind |-> "mysql", bootstrap |-> Bootstraps(f, MyKey("bootstrap.mode"), e, "VS_MYSQL_BOOTSTRAP_MODE"),
      tables |-> IF listed = {} THEN {} ELSE listed \cup build_bootstrap_tables(joins)]

-----------------------------------------------------------------------------
(* MongoDB.                                                                *)

MoKey(k) == "source.mongodb." \o k
MongodbSourceConfig ==
  UNION {Texts({MoKey("database")}), Drops({MoKey("database"), MoKey("uri_ref")}),
         Refs({MoKey("uri_ref"), MoKey("database_ref")}),
         Counts({MoKey("bootstrap.chunk_size"), MoKey("token_flush_ms")}),
         Setting({MoKey("collections")}, {{"blank"}, {"orders"}}),
         Setting({MoKey("bootstrap.mode")}, {"snapshot", "none"}),
         Setting({MoKey("tls")}, TlsConfig)}
MongodbEnv ==
  UNION {Texts({"VS_MONGO_URI", "VS_MONGO_DATABASE"}),
         Setting({"VS_MONGO_COLLECTIONS"}, {{"orders"}}),
         Setting({"VS_MONGO_BOOTSTRAP_MODE"}, {"none", "snapshot"}),
         Setting({"VS_MONGO_BOOTSTRAP_CHUNK_SIZE", "VS_MONGO_TOKEN_FLUSH_MS"}, {-1, 0}),
         Setting({"VS_MONGO_TLS_MODE"}, {"verify_full", "disabled"}),
         Setting({"VS_MONGO_TLS_CA_FILE"}, {"text"})}

MongodbSourceConfig_validate(f) ==
  /\ validate_value_or_ref(f, MoKey("database"), MoKey("database_ref"))
  /\ Positive(f, {MoKey("bootstrap.chunk_size"), MoKey("token_flush_ms")})
  /\ \A cs \in Opt(f, MoKey("collections")) : "blank" \notin cs
  /\ TlsOk(f, MoKey("tls"), FALSE)

load_cdc_bundle_mongodb(f, e) ==
  /\ config_ref_or_env(f, MoKey("uri_ref"), e, "VS_MONGO_URI")
  /\ config_value_or_env(f, MoKey("database"), MoKey("database_ref"), e, "VS_MONGO_DATABASE")
  /\ config_usize_or_env(f, MoKey("bootstrap.chunk_size"), e, "VS_MONGO_BOOTSTRAP_CHUNK_SIZE")
  /\ config_usize_or_env(f, MoKey("token_flush_ms"), e, "VS_MONGO_TOKEN_FLUSH_MS")
  /\ database_tls_or_env(f, MoKey("tls"), e, "VS_MONGO_TLS_MODE", "VS_MONGO_TLS_CA_FILE", {})
MongodbBundle(f, e) ==
  [kind |-> "mongodb", bootstrap |-> Bootstraps(f, MoKey("bootstrap.mode"), e, "VS_MONGO_BOOTSTRAP_MODE"),
   tables |-> ListOr(f, MoKey("collections"), e, "VS_MONGO_COLLECTIONS")]

-----------------------------------------------------------------------------
(* Kafka and Redpanda.                                                     *)

KaKey(k) == "source.kafka." \o k
KafkaSourceConfig ==
  UNION {Texts({KaKey("brokers"), KaKey("group_id"), KaKey("sasl_username")}),
         Drops({KaKey("brokers"), KaKey("topics")}),
         Refs({KaKey("brokers_ref"), KaKey("group_id_ref"), KaKey("sasl_username_ref"),
               KaKey("sasl_password_ref")}),
         Setting({KaKey("topics")}, {{}, {"blank"}, {"orders"}}),
         Counts({KaKey("commit_ms")})}
KafkaEnv ==
  UNION {Texts({"VS_KAFKA_BROKERS", "VS_KAFKA_GROUP_ID"}),
         Setting({"VS_KAFKA_TOPICS"}, {{}, {"orders"}}),
         Setting({"VS_KAFKA_COMMIT_MS"}, {-1, 0})}

KafkaSourceConfig_validate(f) ==
  /\ \A k \in {"brokers", "group_id", "sasl_username"} :
       validate_value_or_ref(f, KaKey(k), KaKey(k \o "_ref"))
  /\ Positive(f, {KaKey("commit_ms")})
  /\ \A ts \in Opt(f, KaKey("topics")) : "blank" \notin ts

load_cdc_bundle_kafka(f, e) ==
  /\ config_value_or_env(f, KaKey("brokers"), KaKey("brokers_ref"), e, "VS_KAFKA_BROKERS")
  /\ ListOr(f, KaKey("topics"), e, "VS_KAFKA_TOPICS") # {}
  /\ \A k \in {"group_id", "sasl_username"} :
       config_optional_value_or_env(f, KaKey(k), KaKey(k \o "_ref"))
  /\ Has(f, KaKey("sasl_password_ref")) => resolve_value_ref(f, KaKey("sasl_password_ref"))
  /\ config_usize_or_env(f, KaKey("commit_ms"), e, "VS_KAFKA_COMMIT_MS")
KafkaBundle(f, e) ==
  [kind |-> "kafka", bootstrap |-> TRUE, tables |-> ListOr(f, KaKey("topics"), e, "VS_KAFKA_TOPICS")]

-----------------------------------------------------------------------------
(* Neo4j.  The uri is its scheme: tls.mode rewrites it.                    *)

NeKey(k) == "source.neo4j." \o k
Neo4jSourceConfig ==
  UNION {Setting({NeKey("uri")}, {"bolt", "neo4j", "bolt+s", "neo4j+ssc", "http", "blank"}),
         Texts({NeKey("user"), NeKey("database")}), Drops({NeKey("uri"), NeKey("user")}),
         Refs({NeKey("uri_ref"), NeKey("user_ref"), NeKey("database_ref"), NeKey("password_ref")}),
         Counts({NeKey("poll_interval_ms"), NeKey("idle_advance_after_polls"),
                 NeKey("bootstrap.chunk_size"), NeKey("recompose_chunk"),
                 NeKey("recompose_concurrency")}),
         Setting({NeKey("label_filter")}, {{"orders"}}),
         Setting({NeKey("bootstrap.mode")}, {"snapshot", "none"}),
         Setting({NeKey("trust_cert_file")}, {"text"}), Setting({NeKey("tls")}, TlsConfig)}
Neo4jEnv ==
  UNION {Setting({"VS_NEO4J_URI"}, {"bolt", "http"}), Texts({"VS_NEO4J_USER", "VS_NEO4J_PASSWORD"}),
         Setting({"VS_NEO4J_POLL_INTERVAL_MS", "VS_NEO4J_IDLE_ADVANCE_AFTER_POLLS",
                  "VS_NEO4J_RECOMPOSE_CHUNK", "VS_NEO4J_BOOTSTRAP_BATCH_SIZE"}, {-1, 0}),
         Setting({"VS_NEO4J_LABEL_TABLES"}, {"malformed", "ok"}),
         Setting({"VS_NEO4J_LABEL_FILTER"}, {{"orders"}}),
         Setting({"VS_NEO4J_BOOTSTRAP_MODE"}, {"snapshot", "none", "junk"}),
         Setting({"VS_NEO4J_TRUST_CERT_FILE", "VS_NEO4J_TLS_CA_FILE"}, {"text", "blank"}),
         Setting({"VS_NEO4J_TLS_MODE"}, {"verify_full", "disabled"})}

Neo4jSourceConfig_validate(f) ==
  /\ \A k \in {"uri", "user", "database"} : validate_value_or_ref(f, NeKey(k), NeKey(k \o "_ref"))
  /\ Positive(f, {NeKey("poll_interval_ms"), NeKey("idle_advance_after_polls"),
                  NeKey("bootstrap.chunk_size"), NeKey("recompose_chunk"),
                  NeKey("recompose_concurrency")})
  /\ TlsOk(f, NeKey("tls"), FALSE)
  /\ \A t \in Opt(f, NeKey("tls")) : ~(t.ca_file /\ Has(f, NeKey("trust_cert_file")))

\* The scheme the driver is given, {} when the scheme and tls.mode cannot be
\* reconciled.
apply_neo4j_tls_mode(scheme, tls) ==
  LET plain == {"bolt", "neo4j"}
      Secure(s) == s \o "+s"
      base == CHOOSE s \in plain \cup {"other"} :
                IF \E p \in plain : scheme \in {p, p \o "+s", p \o "+ssc"}
                  THEN s \in plain /\ scheme \in {s, s \o "+s", s \o "+ssc"} ELSE s = "other"
  IN IF tls = {} THEN {scheme}
     ELSE IF base = "other" THEN {}
     ELSE IF tls = {"disabled"} THEN {base}
     ELSE IF scheme = base \o "+ssc" THEN {} ELSE {Secure(base)}

Neo4jTls(f, e) ==
  database_tls(f, NeKey("tls"), e, "VS_NEO4J_TLS_MODE", "VS_NEO4J_TLS_CA_FILE", {})
Neo4jScheme(f, e) ==
  apply_neo4j_tls_mode(ValueOr(FirstOf(Opt(f, NeKey("uri")),
                                       IF Has(f, NeKey("uri_ref")) THEN {"bolt"} ELSE Opt(e, "VS_NEO4J_URI")),
                               "bolt"),
                       {t.mode : t \in Neo4jTls(f, e)})
load_cdc_bundle_neo4j(f, e) ==
  /\ config_value_or_env(f, NeKey("uri"), NeKey("uri_ref"), e, "VS_NEO4J_URI")
  /\ config_value_or_env(f, NeKey("user"), NeKey("user_ref"), e, "VS_NEO4J_USER")
  /\ config_ref_or_env(f, NeKey("password_ref"), e, "VS_NEO4J_PASSWORD")
  /\ config_optional_value_or_env(f, NeKey("database"), NeKey("database_ref"))
  /\ config_usize_or_env(f, NeKey("poll_interval_ms"), e, "VS_NEO4J_POLL_INTERVAL_MS")
  /\ config_usize_or_env(f, NeKey("idle_advance_after_polls"), e, "VS_NEO4J_IDLE_ADVANCE_AFTER_POLLS")
  /\ config_usize_or_env(f, NeKey("recompose_chunk"), e, "VS_NEO4J_RECOMPOSE_CHUNK")
  /\ Has(f, NeKey("label_tables")) \/ Opt(e, "VS_NEO4J_LABEL_TABLES") # {"malformed"}
  /\ ~Has(f, NeKey("bootstrap.mode")) => Opt(e, "VS_NEO4J_BOOTSTRAP_MODE") # {"junk"}
  /\ database_tls_or_env(f, NeKey("tls"), e, "VS_NEO4J_TLS_MODE", "VS_NEO4J_TLS_CA_FILE", {})
  /\ Neo4jScheme(f, e) # {}
  /\ \A t \in Neo4jTls(f, e) :
       ~(t.ca_file /\ config_path_or_env(f, NeKey("trust_cert_file"), e, "VS_NEO4J_TRUST_CERT_FILE") # {})
Neo4jBundle(f, e) ==
  [kind |-> "neo4j", bootstrap |-> Bootstraps(f, NeKey("bootstrap.mode"), e, "VS_NEO4J_BOOTSTRAP_MODE"),
   tables |-> ListOr(f, NeKey("label_filter"), e, "VS_NEO4J_LABEL_FILTER")]

-----------------------------------------------------------------------------
(* The source section.                                                     *)

SourceKind == {"postgres", "neo4j", "mongo", "mongodb", "mysql", "kafka", "redpanda"}
SourceBlock(kind) ==
  CASE kind = "postgres" -> "source.postgres" [] kind = "neo4j" -> "source.neo4j"
    [] kind \in {"mongo", "mongodb"} -> "source.mongodb" [] kind = "mysql" -> "source.mysql"
    [] kind \in {"kafka", "redpanda"} -> "source.kafka"
SourceBlocks == {SourceBlock(k) : k \in SourceKind}
\* A block may be absent (every setting then comes from the environment);
\* one of another connector may not be present.
SourceConfig_validate(f) ==
  LET block == SourceBlock(f["source.kind"])
  IN /\ SourceBlocks \cap DOMAIN f \subseteq {block}
     /\ CASE block = "source.postgres" -> PostgresSourceConfig_validate(f)
          [] block = "source.neo4j" -> Neo4jSourceConfig_validate(f)
          [] block = "source.mongodb" -> MongodbSourceConfig_validate(f)
          [] block = "source.mysql" -> MysqlSourceConfig_validate(f)
          [] block = "source.kafka" -> KafkaSourceConfig_validate(f)

load_source(kind, f, e) ==
  LET block == SourceBlock(kind)
  IN CASE block = "source.postgres" -> load_cdc_bundle_postgres(f, e)
       [] block = "source.neo4j" -> load_cdc_bundle_neo4j(f, e)
       [] block = "source.mongodb" -> load_cdc_bundle_mongodb(f, e)
       [] block = "source.mysql" -> load_cdc_bundle_mysql(f, e)
       [] block = "source.kafka" -> load_cdc_bundle_kafka(f, e)
SourceBundle(kind, f, e, joins) ==
  LET block == SourceBlock(kind)
  IN CASE block = "source.postgres" -> PostgresBundle(f, e, joins)
       [] block = "source.neo4j" -> Neo4jBundle(f, e)
       [] block = "source.mongodb" -> MongodbBundle(f, e)
       [] block = "source.mysql" -> MysqlBundle(f, e, joins)
       [] block = "source.kafka" -> KafkaBundle(f, e)
=============================================================================
