---------------------------- MODULE EngineProcess ----------------------------
(***************************************************************************)
(* A ventstream process from its command line to its exit: the one-shot    *)
(* maintenance commands (drain, rebootstrap, reconcile, validate), and the *)
(* run of its roles, in which the cdc role decides whether the joins spec  *)
(* changed, whether the join state on disk belongs to the spec and to the  *)
(* source's checkpoint, and whether a snapshot is due.  The process may    *)
(* die between any two steps and is started again with the same arguments. *)
(***************************************************************************)
EXTENDS EngineConfig

CONSTANTS MaxCrashes

VARIABLES
  cfg,    \* the command, the engine file f and the environment e, and resume:
          \* the control plane has invalidated the cursor
  proc,   \* the live process: where it is, what it decided, how it exits
  tasks,  \* the role tasks of a run
  disk,   \* what outlives it: cursor or slot, join state, spec fingerprint
  target, \* the sink: the spec its documents were made with, and whether
          \* documents of rows that are gone may be left in it
  crashes
vars == <<cfg, proc, tasks, disk, target, crashes>>

Spec_Current == "new"   \* the joins spec the file names now
TaskRoles == {"cdc", "ws", "graphql"}
B == Bundle(cfg.f, cfg.e)
Kind == B.source.kind
Fresh == [pc |-> "load", boot |-> FALSE, shutdown |-> FALSE, failure |-> FALSE, refused |-> FALSE, code |-> 0]

\* What earlier lives of the deployment left: join state is marked with a spec
\* behind the documents made with it, and what is to be drained has a cursor.
SpecOf == {"none", "old", Spec_Current}
LeftBehind ==
  /\ disk \in [cursor : BOOLEAN, state : SpecOf, print : SpecOf]
  /\ target \in [docs : SpecOf, stale : BOOLEAN]
  /\ disk.state = Spec_Current => target.docs = Spec_Current
  /\ cfg.command \in {"drain", "rebootstrap"} \/ cfg.resume => disk.cursor
\* The configuration is chosen by the module that checks this one.
ProcessInit ==
  /\ proc = Fresh /\ tasks = [r \in TaskRoles |-> "off"] /\ crashes = 0
  /\ LeftBehind

-----------------------------------------------------------------------------
(* What the configuration says about the pipeline.                         *)

pg_sql_denormalize_enabled ==
  FirstOf(Opt(cfg.f, PgKey("denormalize_mode")), Opt(cfg.e, "VS_PG_DENORMALIZE_MODE")) = {"sql"}
mysql_sql_denormalize_enabled ==
  FirstOf(Opt(cfg.f, MyKey("denormalize_mode")), Opt(cfg.e, "VS_MYSQL_DENORMALIZE_MODE")) = {"sql"}
SqlMode ==
  \/ Kind = "postgres" /\ pg_sql_denormalize_enabled
  \/ Kind = "mysql" /\ mysql_sql_denormalize_enabled /\ B.joins # {}
MemoryJoins == B.joins # {} /\ ~SqlMode
join_state_dir == config_path_or_env(cfg.f, Rt("joins.state_dir"), cfg.e, "VS_JOINS_STATE_DIR")
Redis == B.sink = "sink.redis"

\* The targets a drain has to empty, as an option: {} is an error.
routed_redis_drain_targets(relations, projections) ==
  LET c == RedisConfig(cfg.f, cfg.e)
      targets == CASE c.routing = "fixed" -> {"fixed"}
                   [] c.routing = "by_output_relation" -> relations
                   [] c.routing = "by_projection_target" -> UNION projections
                   [] c.routing = "views" -> {c.views[i].name : i \in DOMAIN c.views}
  IN IF ~Redis THEN {{}}
     ELSE IF targets = {} \/ (c.routing = "by_projection_target" /\ {} \in projections) THEN {}
     ELSE {targets}
Primaries == {j.primary : j \in B.joins}
\* Without joins or snapshot tables the publication is asked.
postgres_redis_drain_targets(published) ==
  routed_redis_drain_targets(IF B.joins # {} THEN Primaries
                             ELSE IF B.source.tables # {} THEN B.source.tables ELSE published,
                             {j.target : j \in B.joins})
mysql_redis_drain_targets ==
  routed_redis_drain_targets(IF B.joins # {} THEN Primaries ELSE B.source.tables, {j.target : j \in B.joins})
mongodb_redis_drain_targets == routed_redis_drain_targets(B.source.tables, {})
neo4j_redis_drain_targets == routed_redis_drain_targets(B.source.tables, {})
DrainTargets ==
  CASE Kind = "postgres" -> postgres_redis_drain_targets({"orders"})
    [] Kind = "mysql" -> mysql_redis_drain_targets
    [] Kind = "mongodb" -> mongodb_redis_drain_targets
    [] Kind = "neo4j" -> neo4j_redis_drain_targets
    [] Kind = "kafka" -> IF Redis THEN {} ELSE {{}}
\* The drain of an exclusively owned keyspace that a snapshot can refill.
validate_redis_drain ==
  /\ DrainTargets # {}
  /\ Redis => /\ RedisConfig(cfg.f, cfg.e).ownership = "exclusive"
              /\ Kind = "postgres" \/ B.source.bootstrap

-----------------------------------------------------------------------------
(* Command line.                                                           *)

Exit(code) == proc' = [proc EXCEPT !.pc = "exited", !.code = code] /\ UNCHANGED tasks
Goto(pc) == proc' = [proc EXCEPT !.pc = pc] /\ UNCHANGED tasks
HasCdc == "cdc" \in load_runtime_roles(cfg.f, cfg.e)

\* Mutant: a drain that finds no cursor has nothing to do.
LoadDrainIfCursor ==
  /\ cfg.command \in {"drain", "rebootstrap"}
  /\ \/ (~HasCdc \/ ~disk.cursor) /\ Exit(0)
     \/ HasCdc /\ disk.cursor /\ load_cdc_bundle(cfg.f, cfg.e) /\ Goto("validate")
\* run_fleet_drain_local_state and run_fleet_rebootstrap load alike.
LoadDrain ==
  /\ cfg.command \in {"drain", "rebootstrap"}
  /\ \/ ~HasCdc /\ Exit(0)
     \/ HasCdc /\ ~load_cdc_bundle(cfg.f, cfg.e) /\ Exit(1)
     \/ HasCdc /\ load_cdc_bundle(cfg.f, cfg.e) /\ Goto("validate")
\* --validate-config: the schema and the loaders, no component.
ValidateConfig ==
  /\ cfg.command = "validate"
  /\ Exit(IF PipelineEnv_load(cfg.f, cfg.e) THEN 0 ELSE 1)
run_fleet_reconcile ==
  /\ cfg.command = "reconcile"
  /\ \/ ~HasCdc /\ Exit(0)
     \/ HasCdc /\ (~load_cdc_bundle(cfg.f, cfg.e) \/ Redis) /\ Exit(1)
     \/ HasCdc /\ load_cdc_bundle(cfg.f, cfg.e) /\ ~Redis /\ Goto("sweep")
\* An agent key hands the process to the managed supervisor (FleetAgent).
RunManaged ==
  /\ cfg.command = "run" /\ WantsManaged(cfg.f, cfg.e)
  /\ IF resolve_managed_mode(cfg.f, cfg.e) THEN Goto("managed") ELSE Exit(1)
\* The role tasks are spawned together; each waits on its own dependencies.
run ==
  /\ cfg.command = "run" /\ ~WantsManaged(cfg.f, cfg.e)
  /\ IF PipelineEnv_load(cfg.f, cfg.e)
       THEN /\ proc' = [proc EXCEPT !.pc = IF HasCdc THEN "fingerprint" ELSE "idle"]
            /\ tasks' = [r \in TaskRoles |-> IF r \in load_runtime_roles(cfg.f, cfg.e) THEN "starting" ELSE "off"]
       ELSE Exit(1)
main ==
  /\ proc.pc = "load"
  /\ IF load_engine_config(cfg.f) THEN ValidateConfig \/ LoadDrain \/ run_fleet_reconcile \/ RunManaged \/ run ELSE Exit(1)
  /\ UNCHANGED <<cfg, disk, target, crashes>>

-----------------------------------------------------------------------------
(* Drain: as a command, or when the loop resumes after an invalidation.    *)

\* What follows a drain: the command is done, the loop starts an iteration.
Drained == IF cfg.command = "run" THEN proc' = [proc EXCEPT !.pc = "assemble", !.boot = TRUE] /\ UNCHANGED tasks
           ELSE Exit(0)
Refused == IF cfg.command = "run"
             THEN /\ proc' = [proc EXCEPT !.pc = "idle", !.failure = TRUE, !.shutdown = TRUE, !.refused = TRUE]
                  /\ tasks' = [tasks EXCEPT !.cdc = "failed"]
             ELSE /\ proc' = [proc EXCEPT !.pc = "exited", !.code = 1, !.refused = TRUE]
                  /\ UNCHANGED tasks
validate_drain ==
  /\ proc.pc = "validate"
  /\ IF validate_redis_drain THEN Goto("cursor") ELSE Refused
  /\ UNCHANGED <<cfg, disk, target, crashes>>
\* Rows that go while there is no cursor leave documents nothing deletes.
drain_cursor ==
  /\ proc.pc = "cursor"
  /\ Goto("state")
  /\ disk' = [disk EXCEPT !.cursor = @ /\ Kind = "kafka"]
  /\ target' = [target EXCEPT !.stale = @ \/ (disk.cursor /\ Kind # "kafka")]
  /\ UNCHANGED <<cfg, crashes>>
drain_join_state ==
  /\ proc.pc = "state"
  /\ Goto("reset")
  /\ disk' = [disk EXCEPT !.state = IF Joined(Kind) /\ join_state_dir # {} THEN "none" ELSE @]
  /\ UNCHANGED <<cfg, target, crashes>>
\* Redis targets are emptied key by key under the writer's lease; a command
\* stops there, the loop goes on to sweep the other sinks.
reset_redis_targets_if_configured ==
  /\ proc.pc = "reset"
  /\ IF Redis THEN Drained ELSE IF cfg.command = "run" THEN Goto("sweep") ELSE Exit(0)
  /\ target' = IF Redis THEN [docs |-> "none", stale |-> FALSE] ELSE target
  /\ UNCHANGED <<cfg, disk, crashes>>
\* Mutant: a table that cannot be listed refuses the rebuild.
SweepOrRefuse ==
  /\ proc.pc = "sweep"
  /\ (Drained \/ Refused)
  /\ UNCHANGED <<cfg, disk, target, crashes>>
\* Postgres and Neo4j sweep OpenSearch (only projections are swept, a table
\* that cannot be listed is skipped); the others only check the sink.
reconcile_orphans ==
  /\ proc.pc = "sweep"
  /\ LET swept == Kind \in {"postgres", "neo4j"}
     IN \/ /\ cfg.command = "run" \/ swept
           /\ B.sink # "sink.opensearch"
           /\ Refused /\ UNCHANGED target
        \/ /\ B.sink = "sink.opensearch" \/ (cfg.command # "run" /\ ~swept)
           /\ Drained
           /\ target' \in {target, [target EXCEPT !.stale = @ /\ ~(Kind = "postgres" /\ B.joins # {})]}
  /\ UNCHANGED <<cfg, disk, crashes>>

-----------------------------------------------------------------------------
(* The cdc role of a run.                                                  *)

\* yaml_fingerprint::check: what a start does about a changed spec.
auto_resync == config_bool_or_env(cfg.f, Rt("joins.auto_resync_on_yaml_change"), cfg.e,
                                  "VS_PG_AUTO_RESYNC_ON_YAML_CHANGE", FALSE)
force_resync == config_bool_or_env(cfg.f, Rt("joins.force_resync"), cfg.e, "VS_PG_FORCE_RESYNC", FALSE)
check ==
  LET previous == IF join_state_dir = {} THEN "none" ELSE disk.print
  IN CASE force_resync -> "ForceResync" [] previous = "none" -> "FirstRun"
       [] previous = Spec_Current -> "Unchanged"
       [] auto_resync -> "Resync" [] OTHER -> "WarnAndContinue"
\* The head of run_cdc_postgres: the other sources go straight to the loop.
RunCdc ==
  /\ proc.pc = "fingerprint"
  /\ IF Kind = "postgres" /\ B.joins # {}
       THEN Goto(IF check \in {"Resync", "ForceResync"} THEN "dropSlot" ELSE "persist")
       ELSE Goto("loop")
  /\ UNCHANGED <<cfg, disk, target, crashes>>
ResyncDropSlot ==
  /\ proc.pc = "dropSlot"
  /\ Goto("wipe")
  /\ disk' = [disk EXCEPT !.cursor = FALSE]
  /\ target' = [target EXCEPT !.stale = @ \/ disk.cursor]
  /\ UNCHANGED <<cfg, crashes>>
\* The database is removed if it can be; the snapshot is forced for this boot.
ResyncWipe ==
  /\ proc.pc = "wipe"
  /\ proc' = [proc EXCEPT !.pc = "persist", !.boot = TRUE]
  /\ disk' \in {disk, [disk EXCEPT !.state = IF join_state_dir = {} THEN @ ELSE "none"]}
  /\ UNCHANGED <<cfg, tasks, target, crashes>>
persist ==
  /\ proc.pc = "persist"
  /\ Goto("loop")
  /\ disk' = [disk EXCEPT !.print = IF join_state_dir = {} THEN @ ELSE Spec_Current]
  /\ UNCHANGED <<cfg, target, crashes>>
\* run_cdc_loop, one round: a resume after an invalidation drains first.
run_cdc_loop ==
  /\ proc.pc = "loop"
  /\ Goto(IF cfg.resume THEN "validate" ELSE "assemble")
  /\ UNCHANGED <<cfg, disk, target, crashes>>

\* Mutant: any identity will do.
AnyStateRecoverable == disk.state # "none" /\ disk.cursor
join_checkpoint_recoverable == disk.state = Spec_Current /\ disk.cursor
Bootstrap == proc.boot \/ B.source.bootstrap
\* An iteration that cannot be assembled, or whose source finds neither a slot
\* nor leave to create one.
AssembleFails ==
  \/ ~RoleStarts("cdc", cfg.f, cfg.e)
  \/ Kind = "postgres" /\ ~SqlMode /\ ~MemoryJoins /\ ~Bootstrap /\ ~disk.cursor
  \/ MemoryJoins /\ join_state_dir = {}
  \/ /\ Kind = "mysql" /\ MemoryJoins
     /\ ~join_checkpoint_recoverable /\ ~B.source.bootstrap /\ ~disk.cursor
\* The sql denormalizers bootstrap on every start.
build_sql_denormalize_engine ==
  /\ SqlMode
  /\ proc' = [proc EXCEPT !.pc = "snapshot"]
  /\ disk' = [disk EXCEPT !.cursor = @ \/ Kind = "postgres"]
build_and_run_pg_engine ==
  LET rebuild == MemoryJoins /\ ~join_checkpoint_recoverable
      boot == (Bootstrap \/ rebuild) /\ (~disk.cursor \/ rebuild)
  IN /\ Kind = "postgres" /\ ~SqlMode
     /\ proc' = [proc EXCEPT !.pc = IF boot THEN "snapshot" ELSE "tail"]
     /\ disk' = [disk EXCEPT !.state = IF rebuild THEN "none" ELSE @, !.cursor = TRUE]
build_and_run_mysql_engine ==
  LET rebuild == MemoryJoins /\ ~join_checkpoint_recoverable
      boot == (rebuild /\ disk.cursor) \/ (B.source.bootstrap /\ ~disk.cursor)
  IN /\ Kind = "mysql" /\ ~SqlMode
     /\ proc' = [proc EXCEPT !.pc = IF boot THEN "snapshot" ELSE "tail"]
     /\ disk' = [disk EXCEPT !.state = IF rebuild THEN "none" ELSE @]
\* MongoDB and Neo4j snapshot when there is no cursor, Kafka never.
build_and_run_plain_engine ==
  /\ Kind \in {"mongodb", "neo4j", "kafka"}
  /\ proc' = [proc EXCEPT !.pc = IF Kind # "kafka" /\ B.source.bootstrap /\ ~disk.cursor THEN "snapshot" ELSE "tail"]
  /\ UNCHANGED disk
run_iteration ==
  /\ proc.pc = "assemble"
  /\ \/ /\ AssembleFails /\ UNCHANGED disk
        /\ proc' = [proc EXCEPT !.pc = "idle", !.failure = TRUE, !.shutdown = TRUE]
        /\ tasks' = [tasks EXCEPT !.cdc = "failed"]
     \/ /\ ~AssembleFails /\ tasks' = [tasks EXCEPT !.cdc = "up"]
        /\ (build_sql_denormalize_engine \/ build_and_run_pg_engine \/ build_and_run_mysql_engine
              \/ build_and_run_plain_engine)
  /\ UNCHANGED <<cfg, target, crashes>>
\* The snapshot is in the sink: every document is the current spec's, the
\* cursor and the state's identity are persisted behind it.
Snapshot ==
  /\ proc.pc = "snapshot"
  /\ Goto("tail")
  /\ target' = [target EXCEPT !.docs = Spec_Current]
  /\ disk' = [disk EXCEPT !.cursor = TRUE, !.state = IF MemoryJoins THEN Spec_Current ELSE @]
  /\ UNCHANGED <<cfg, crashes>>

-----------------------------------------------------------------------------
(* Role tasks, shutdown and exit.                                          *)

\* A gateway task binds, fails, or panics on a value it cannot run with.
StartGateway(r) ==
  /\ r # "cdc" /\ tasks[r] = "starting"
  /\ \/ RoleStarts(r, cfg.f, cfg.e) /\ tasks' = [tasks EXCEPT ![r] = "up"] /\ UNCHANGED proc
     \/ /\ tasks' = [tasks EXCEPT ![r] = "failed"]
        /\ proc' = [proc EXCEPT !.shutdown = TRUE]
     \/ ~RoleStarts(r, cfg.f, cfg.e) /\ tasks' = [tasks EXCEPT ![r] = "panicked"] /\ UNCHANGED proc
  /\ UNCHANGED <<cfg, disk, target, crashes>>
\* Mutant: the failing task does not cancel the others.
FailQuietly(r) ==
  /\ tasks[r] = "up" /\ crashes < MaxCrashes /\ crashes' = crashes + 1
  /\ tasks' = [tasks EXCEPT ![r] = "failed"]
  /\ proc' = [proc EXCEPT !.failure = @ \/ r = "cdc", !.pc = IF r = "cdc" THEN "idle" ELSE @]
  /\ UNCHANGED <<cfg, disk, target>>
\* A running role meets an error it cannot recover from.
FailRole(r) ==
  /\ tasks[r] = "up" /\ crashes < MaxCrashes /\ crashes' = crashes + 1
  /\ tasks' = [tasks EXCEPT ![r] = "failed"]
  /\ proc' = [proc EXCEPT !.shutdown = TRUE, !.failure = @ \/ r = "cdc", !.pc = IF r = "cdc" THEN "idle" ELSE @]
  /\ UNCHANGED <<cfg, disk, target>>
Signal ==
  /\ tasks # [r \in TaskRoles |-> "off"] /\ proc.pc # "exited" /\ ~proc.shutdown
  /\ proc' = [proc EXCEPT !.shutdown = TRUE]
  /\ UNCHANGED <<cfg, tasks, disk, target, crashes>>
\* A cancelled token ends a task once it is between steps.
StopRole(r) ==
  /\ proc.shutdown /\ tasks[r] \in {"up", "starting"}
  /\ r = "cdc" => proc.pc \in {"loop", "snapshot", "tail"}
  /\ tasks' = [tasks EXCEPT ![r] = "ended"]
  /\ proc' = [proc EXCEPT !.pc = IF r = "cdc" THEN "idle" ELSE @]
  /\ UNCHANGED <<cfg, disk, target, crashes>>
\* Every handle is joined; only a cdc error is the process's own.
Join_Handles ==
  /\ proc.pc = "idle" /\ \A r \in TaskRoles : tasks[r] \in {"off", "ended", "failed", "panicked"}
  /\ Exit(IF proc.failure THEN 1 ELSE 0)
  /\ UNCHANGED <<cfg, disk, target, crashes>>
Crash ==
  /\ proc.pc \notin {"load", "exited"} /\ crashes < MaxCrashes
  /\ proc' = Fresh /\ tasks' = [r \in TaskRoles |-> "off"] /\ crashes' = crashes + 1
  /\ UNCHANGED <<cfg, disk, target>>

CdcStep ==
  \/ RunCdc \/ ResyncDropSlot \/ ResyncWipe \/ persist \/ run_cdc_loop \/ run_iteration \/ Snapshot
Maintain == validate_drain \/ drain_cursor \/ drain_join_state \/ reset_redis_targets_if_configured \/ reconcile_orphans
ProcessStep ==
  \/ main \/ Maintain \/ CdcStep \/ Join_Handles
  \/ \E r \in TaskRoles : StartGateway(r) \/ StopRole(r)
ProcessNext == ProcessStep \/ Signal \/ Crash \/ \E r \in TaskRoles : FailRole(r)
ProcessSpec == ProcessInit /\ [][ProcessNext]_vars

-----------------------------------------------------------------------------
(* Properties.                                                             *)

\* A file that --validate-config accepts, whose references hold well-formed
\* values, is one the role tasks can run with: the schema's limits cover the
\* limits of the Redis sink, of the Redis broker and of the channels and
\* timers the roles build from it.
ValidatedStarts ==
  cfg.command = "validate" /\ cfg.e = <<>> /\ proc.pc = "exited" /\ proc.code = 0 /\ WellFormedReferences(cfg.f) =>
    \A r \in load_runtime_roles(cfg.f, cfg.e) : RoleStarts(r, cfg.f, cfg.e)

\* A broker block of an accepted file is the broker the gateway connects to:
\* neither another section of the file nor a variable overrides it silently.
BlockHonoured ==
  cfg.command = "validate" /\ proc.pc = "exited" /\ proc.code = 0 =>
    LET roles == load_runtime_roles(cfg.f, cfg.e)
    IN /\ "ws" \in roles /\ HasRedis(cfg.f, "ws") => WsProvider(cfg.f, cfg.e) = "redis_streams"
       /\ "ws" \in roles /\ Jet(cfg.f) => WsProvider(cfg.f, cfg.e) = "nats_jetstream"
       /\ "graphql" \in roles /\ HasRedis(cfg.f, "graphql") => GraphqlProvider(cfg.f, cfg.e) = "redis_streams"

\* A drain or rebootstrap that exits 0 has left nothing to resume from and, of
\* an owned Redis keyspace, nothing to read: also when earlier attempts died
\* half way.
DrainIsComplete ==
  cfg.command \in {"drain", "rebootstrap"} /\ proc.pc = "exited" /\ proc.code = 0 /\ HasCdc /\ Kind # "kafka" =>
    /\ ~disk.cursor
    /\ MemoryJoins /\ join_state_dir # {} => disk.state = "none"
    /\ Redis => target = [docs |-> "none", stale |-> FALSE]

\* A rebuild that is refused is refused before any cursor is removed, where the sink
\* can be emptied or swept and the start makes no resync of its own.  (The loop asks
\* the other sinks for a sweep they do not have, after it has removed the cursor; a
\* resync of a changed spec drops the slot before the loop asks.)
Resyncs == Kind = "postgres" /\ B.joins # {} /\ (force_resync \/ auto_resync)
RefusalKeepsCursor ==
  proc.refused /\ B.sink \in {"sink.redis", "sink.opensearch"} /\ ~Resyncs => disk.cursor

\* A drain or a rebootstrap that succeeds is complete, one that is refused has
\* removed no cursor.
RebuildsAreWhole == DrainIsComplete /\ RefusalKeepsCursor

\* A pipeline with joins that tails has documents, and join state, of the spec
\* it was started with: a spec edited while it was down, a crash between the
\* fingerprint and the snapshot, or a state directory without its slot never
\* leaves it replaying state of another spec.
TailHasCurrentSpec ==
  proc.pc = "tail" /\ B.joins # {} =>
    /\ target.docs = Spec_Current
    /\ MemoryJoins => disk.state = Spec_Current /\ disk.cursor

\* A command has ended; a run has ended if it was told to or a role has failed,
\* and with an error if the role was cdc.
Ended ==
  cfg.command # "run" \/ proc.shutdown \/ tasks["cdc"] = "failed" =>
    proc.pc = "exited" /\ (tasks["cdc"] = "failed" => proc.code = 1)
=============================================================================
