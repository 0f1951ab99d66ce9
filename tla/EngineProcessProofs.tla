------------------------ MODULE EngineProcessProofs ------------------------
(***************************************************************************)
(* A process keeps its promises for every engine file and environment, and *)
(* for any number of crashes and failed roles: it tails with documents and *)
(* join state of the current spec, a drain that succeeds is complete, and  *)
(* a refused one has removed no cursor.                                    *)
(***************************************************************************)
EXTENDS EngineProcess, TLAPS

Commands == {"load", "validate", "cursor", "state", "reset", "sweep", "exited"}
Places == Commands \cup {"fingerprint", "dropSlot", "wipe", "persist", "loop", "assemble",
                         "snapshot", "tail", "idle", "managed"}
Drains == cfg.command \in {"drain", "rebootstrap"}

Shapes ==
  /\ proc \in [pc : Places, boot : BOOLEAN, shutdown : BOOLEAN, failure : BOOLEAN,
               refused : BOOLEAN, code : {0, 1}]
  /\ tasks \in [TaskRoles -> {"off", "starting", "up", "failed", "panicked", "ended"}]
  /\ disk \in [cursor : BOOLEAN, state : SpecOf, print : SpecOf]
  /\ target \in [docs : SpecOf, stale : BOOLEAN]

\* A maintenance command has no tasks and stays on its own steps.
OneShot ==
  cfg.command # "run" =>
    /\ proc.pc \in Commands /\ \A r \in TaskRoles : tasks[r] = "off"
    /\ Drains => proc.pc # "sweep"

\* A drain on its way: what it has removed stays removed until it exits.
Draining ==
  /\ Drains /\ Kind # "kafka" /\ proc.pc \in {"state", "reset"} => ~disk.cursor
  /\ proc.pc = "reset" /\ MemoryJoins /\ join_state_dir # {} => disk.state = "none"

\* Join state is marked with the current spec only behind its documents.
Marked == MemoryJoins /\ join_state_dir # {} /\ disk.state = Spec_Current => target.docs = Spec_Current

\* Only a drain that was found possible removes a cursor, unless the spec changed.
Guarded ==
  /\ proc.pc = "validate" => Drains \/ cfg.resume
  /\ proc.pc \in {"cursor", "state", "reset"} => validate_redis_drain
  /\ proc.pc = "sweep" => ~Redis
  /\ proc.pc = "dropSlot" => Resyncs
  /\ (Drains \/ cfg.resume) /\ ~validate_redis_drain /\ ~Resyncs => disk.cursor
  /\ proc.refused /\ B.sink \in {"sink.redis", "sink.opensearch"} =>
       ~validate_redis_drain /\ (Drains \/ cfg.resume)

IInv == Shapes /\ OneShot /\ Draining /\ Marked /\ Guarded /\ DrainIsComplete /\ TailHasCurrentSpec

-----------------------------------------------------------------------------
\* Only the sources that read a joins spec have joins.
LEMMA JoinsAreRead == ASSUME B.joins # {} PROVE Kind \in {"postgres", "mysql"} /\ Joined(Kind)
  BY Zenon DEF B, Bundle, Kind, Joined, SourceBundle, SourceBlock, PostgresBundle, MysqlBundle

\* What the configuration says does not change.
LEMMA ConfigFrame ==
    ASSUME UNCHANGED cfg
    PROVE  /\ B' = B /\ Kind' = Kind /\ join_state_dir' = join_state_dir
           /\ SqlMode' = SqlMode /\ MemoryJoins' = MemoryJoins /\ Redis' = Redis /\ HasCdc' = HasCdc
           /\ validate_redis_drain' = validate_redis_drain /\ Resyncs' = Resyncs /\ Drains' = Drains
  <1>1. B' = B /\ Kind' = Kind /\ join_state_dir' = join_state_dir /\ Redis' = Redis
    BY Zenon DEF B, Kind, join_state_dir, Redis
  <1>2. SqlMode' = SqlMode /\ MemoryJoins' = MemoryJoins
    BY Zenon, <1>1 DEF MemoryJoins, SqlMode, pg_sql_denormalize_enabled, mysql_sql_denormalize_enabled
  <1>3. HasCdc' = HasCdc /\ Drains' = Drains  BY Zenon DEF HasCdc, Drains
  <1>4. Resyncs' = Resyncs  BY Zenon, <1>1 DEF Resyncs, force_resync, auto_resync
  <1>5. DrainTargets' = DrainTargets
    BY Zenon, <1>1 DEF DrainTargets, postgres_redis_drain_targets, mysql_redis_drain_targets,
        mongodb_redis_drain_targets, neo4j_redis_drain_targets, routed_redis_drain_targets, Primaries
  <1>6. validate_redis_drain' = validate_redis_drain  BY Zenon, <1>1, <1>5 DEF validate_redis_drain
  <1> QED  BY Zenon, <1>1, <1>2, <1>3, <1>4, <1>6

LEMMA InitIInv == ASSUME ProcessInit PROVE IInv
  <1>1. Shapes
    <2>1. proc = [pc |-> "load", boot |-> FALSE, shutdown |-> FALSE, failure |-> FALSE, refused |-> FALSE,
                  code |-> 0]
      BY Zenon DEF ProcessInit, Fresh
    <2>2. proc.pc \in Places  BY Zenon, <2>1 DEF Places, Commands
    <2> QED  BY <2>1, <2>2 DEF ProcessInit, LeftBehind, Shapes
  <1>2. proc.pc = "load" /\ ~proc.refused /\ \A r \in TaskRoles : tasks[r] = "off"
    BY Zenon DEF ProcessInit, Fresh
  <1>3. OneShot /\ Draining /\ DrainIsComplete /\ TailHasCurrentSpec
    BY Zenon, <1>2 DEF OneShot, Draining, DrainIsComplete, TailHasCurrentSpec, Commands
  <1>4. Marked /\ Guarded  BY Zenon, <1>2 DEF ProcessInit, LeftBehind, Marked, Guarded, Drains
  <1> QED  BY Zenon, <1>1, <1>3, <1>4 DEF IInv

-----------------------------------------------------------------------------
\* A step of the process that leaves the disk and the sink alone.
LEMMA Moves ==
    ASSUME IInv, UNCHANGED <<cfg, disk, target>>, Shapes', OneShot',
           proc'.pc \in {"state", "reset", "tail"} => proc'.pc = proc.pc,
           proc'.pc = "exited" /\ proc'.code = 0 /\ Drains /\ HasCdc => proc.pc = "exited" /\ proc.code = 0,
           proc'.pc = "validate" => Drains \/ cfg.resume,
           proc'.pc = "cursor" => validate_redis_drain,
           proc'.pc = "sweep" => ~Redis,
           proc'.pc = "dropSlot" => Resyncs,
           proc'.refused => \/ proc.refused
                            \/ ~validate_redis_drain /\ (Drains \/ cfg.resume)
                            \/ B.sink \notin {"sink.redis", "sink.opensearch"}
    PROVE  IInv'
  <1> USE ConfigFrame
  <1>1. Draining' /\ Marked'  BY DEF IInv, Draining, Marked
  <1>2. Guarded'  BY DEF IInv, Guarded
  <1>3. DrainIsComplete'  BY Zenon DEF IInv, DrainIsComplete, Drains
  <1>4. TailHasCurrentSpec'  BY Zenon DEF IInv, TailHasCurrentSpec
  <1> QED  BY Zenon, <1>1, <1>2, <1>3, <1>4 DEF IInv

\* The process goes on, or exits, with its tasks as they are.
LEMMA Going ==
    ASSUME IInv, NEW pc \in Places, Goto(pc),
           cfg.command # "run" => pc \in Commands /\ (Drains => pc # "sweep"), UNCHANGED cfg
    PROVE  /\ proc'.pc = pc /\ proc'.code = proc.code /\ proc'.refused = proc.refused
           /\ UNCHANGED tasks /\ OneShot'
           /\ UNCHANGED <<disk, target>> => Shapes'
  <1>1. proc'.pc = pc /\ proc'.code = proc.code /\ proc'.refused = proc.refused /\ tasks' = tasks
    BY Zenon DEF Goto, IInv, Shapes
  <1>2. OneShot'  BY Zenon, <1>1, ConfigFrame DEF IInv, OneShot
  <1>3. ASSUME UNCHANGED <<disk, target>> PROVE Shapes'
    BY Zenon, <1>3 DEF Goto, IInv, Shapes
  <1> QED  BY Zenon, <1>1, <1>2, <1>3
LEMMA Exiting ==
    ASSUME IInv, NEW code \in {0, 1}, Exit(code), UNCHANGED cfg
    PROVE  /\ proc'.pc = "exited" /\ proc'.code = code /\ proc'.refused = proc.refused
           /\ UNCHANGED tasks /\ OneShot'
           /\ UNCHANGED <<disk, target>> => Shapes'
  <1>1. /\ proc'.pc = "exited" /\ proc'.code = code /\ proc'.refused = proc.refused /\ tasks' = tasks
        /\ "exited" \in Commands /\ "exited" \in Places
    BY Zenon DEF Exit, IInv, Shapes, Places, Commands
  <1>2. OneShot'  BY Zenon, <1>1, ConfigFrame DEF IInv, OneShot
  <1>3. ASSUME UNCHANGED <<disk, target>> PROVE Shapes'
    BY Zenon, <1>1, <1>3 DEF Exit, IInv, Shapes
  <1> QED  BY Zenon, <1>1, <1>2, <1>3

-----------------------------------------------------------------------------
\* The command line.
LEMMA MainKeeps == ASSUME IInv, main PROVE IInv'
  <1>1. proc.pc = "load" /\ UNCHANGED <<cfg, disk, target>>  BY Zenon DEF main
  <1>2. ASSUME NEW code \in {0, 1}, Exit(code), code = 0 => ~Drains \/ ~HasCdc PROVE IInv'
    BY Zenon, <1>1, <1>2, Exiting, Moves
  <1>3. ASSUME NEW pc \in Places, Goto(pc), cfg.command # "run" => pc \in Commands /\ (Drains => pc # "sweep"),
               pc \notin {"state", "reset", "tail", "exited", "cursor", "dropSlot"},
               pc = "validate" => Drains, pc = "sweep" => ~Redis
        PROVE  IInv'
    BY Zenon, <1>1, <1>3, Going, Moves
  <1>4. CASE ValidateConfig
    BY Zenon, <1>2, <1>4 DEF ValidateConfig, Drains
  <1>5. CASE LoadDrain
    <2>1. CASE Exit(1) \/ (~HasCdc /\ Exit(0))  BY <1>2, <2>1
    <2>2. CASE Goto("validate")
      BY Zenon, <1>3, <1>5, <2>2 DEF LoadDrain, Drains, Places, Commands
    <2> QED  BY Zenon, <1>5, <2>1, <2>2 DEF LoadDrain
  <1>6. CASE run_fleet_reconcile
    <2>1. cfg.command = "reconcile" /\ ~Drains  BY Zenon, <1>6 DEF run_fleet_reconcile, Drains
    <2>2. CASE Exit(1) \/ Exit(0)  BY Zenon, <1>2, <2>1, <2>2
    <2>3. CASE ~Redis /\ Goto("sweep")  BY Zenon, <1>3, <2>1, <2>3 DEF Places, Commands
    <2> QED  BY Zenon, <1>6, <2>2, <2>3 DEF run_fleet_reconcile
  <1>7. CASE RunManaged
    <2>1. cfg.command = "run"  BY Zenon, <1>7 DEF RunManaged
    <2>2. CASE Goto("managed")  BY Zenon, <1>3, <2>1, <2>2 DEF Places
    <2>3. CASE Exit(1)  BY <1>2, <2>3
    <2> QED  BY Zenon, <1>7, <2>2, <2>3 DEF RunManaged
  <1>8. CASE run
    <2>1. cfg.command = "run" /\ ~Drains  BY Zenon, <1>8 DEF run, Drains
    <2>2. CASE Exit(1)  BY <1>2, <2>2
    <2>3. CASE ~Exit(1)
      <3>1. /\ proc' = [proc EXCEPT !.pc = IF HasCdc THEN "fingerprint" ELSE "idle"]
            /\ tasks' = [r \in TaskRoles |-> IF r \in load_runtime_roles(cfg.f, cfg.e) THEN "starting" ELSE "off"]
        BY Zenon, <1>8, <2>3 DEF run
      <3>2. PICK pc \in {"fingerprint", "idle"} : proc' = [proc EXCEPT !.pc = pc]  BY Zenon, <3>1
      <3>3. proc'.pc = pc /\ proc'.refused = proc.refused /\ pc \in Places
        BY Zenon, <3>2 DEF IInv, Shapes, Places
      <3>4. Shapes'  BY Zenon, <1>1, <3>1, <3>2, <3>3 DEF IInv, Shapes
      <3>5. OneShot'  BY Zenon, <1>1, <2>1 DEF OneShot
      <3> QED  BY Zenon, <1>1, <3>2, <3>3, <3>4, <3>5, Moves
    <2> QED  BY Zenon, <2>2, <2>3
  <1>9. CASE Exit(1)  BY <1>2, <1>9
  <1> QED  BY Zenon, <1>4, <1>5, <1>6, <1>7, <1>8, <1>9 DEF main

-----------------------------------------------------------------------------
\* A drain.
LEMMA RefusedFacts ==
    ASSUME IInv, Refused, UNCHANGED <<cfg, disk, target>>
    PROVE  /\ proc'.pc \in {"idle", "exited"} /\ (proc'.pc = "exited" => proc'.code = 1)
           /\ Shapes' /\ OneShot'
  <1>1. CASE cfg.command = "run"
    <2>1. /\ proc' = [proc EXCEPT !.pc = "idle", !.failure = TRUE, !.shutdown = TRUE, !.refused = TRUE]
          /\ tasks' = [tasks EXCEPT !.cdc = "failed"]
      BY Zenon, <1>1 DEF Refused
    <2>2. proc'.pc = "idle" /\ "idle" \in Places  BY Zenon, <2>1 DEF IInv, Shapes, Places
    <2>3. Shapes'  BY Zenon, <2>1, <2>2 DEF IInv, Shapes
    <2>4. OneShot'  BY Zenon, <1>1 DEF OneShot
    <2> QED  BY Zenon, <2>2, <2>3, <2>4
  <1>2. CASE cfg.command # "run"
    <2>1. proc' = [proc EXCEPT !.pc = "exited", !.code = 1, !.refused = TRUE] /\ tasks' = tasks
      BY Zenon, <1>2 DEF Refused
    <2>2. proc'.pc = "exited" /\ proc'.code = 1 /\ "exited" \in Places /\ "exited" \in Commands
      BY Zenon, <2>1 DEF IInv, Shapes, Places, Commands
    <2>3. Shapes'  BY Zenon, <2>1, <2>2 DEF IInv, Shapes
    <2>4. OneShot'  BY Zenon, <2>1, <2>2, ConfigFrame DEF IInv, OneShot
    <2> QED  BY Zenon, <2>2, <2>3, <2>4
  <1> QED  BY Zenon, <1>1, <1>2

LEMMA ValidateKeeps == ASSUME IInv, validate_drain PROVE IInv'
  <1>1. proc.pc = "validate" /\ UNCHANGED <<cfg, disk, target>> /\ (Drains \/ cfg.resume)
    BY Zenon DEF validate_drain, IInv, Guarded
  <1>2. CASE validate_redis_drain /\ Goto("cursor")
    <2>1. "cursor" \in Places /\ "cursor" \in Commands  BY Zenon DEF Places, Commands
    <2> QED  BY Zenon, <1>1, <1>2, <2>1, Going, Moves
  <1>3. CASE ~validate_redis_drain /\ Refused  BY <1>1, <1>3, RefusedFacts, Moves
  <1> QED  BY Zenon, <1>2, <1>3 DEF validate_drain

LEMMA DrainCursorKeeps == ASSUME IInv, drain_cursor PROVE IInv'
  <1>1. /\ proc.pc = "cursor" /\ Goto("state") /\ cfg' = cfg
        /\ disk' = [disk EXCEPT !.cursor = @ /\ Kind = "kafka"]
        /\ target' = [target EXCEPT !.stale = @ \/ (disk.cursor /\ Kind # "kafka")]
    BY Zenon DEF drain_cursor
  <1>2. "state" \in Places /\ "state" \in Commands  BY Zenon DEF Places, Commands
  <1>3. proc'.pc = "state" /\ proc'.refused = proc.refused /\ OneShot'
    BY Zenon, <1>1, <1>2, Going
  <1>4. /\ disk'.cursor = (disk.cursor /\ Kind = "kafka") /\ disk'.state = disk.state
        /\ target'.docs = target.docs
    BY Zenon, <1>1 DEF IInv, Shapes
  <1>5. Shapes'  BY Zenon, <1>1, <1>2 DEF Goto, IInv, Shapes
  <1>6. Draining' /\ Marked' /\ DrainIsComplete' /\ TailHasCurrentSpec'
    <2>1. Draining'  BY <1>1, <1>3, <1>4, ConfigFrame, Zenon DEF Draining
    <2>2. Marked'  BY <1>1, <1>4, ConfigFrame, Zenon DEF IInv, Marked
    <2>3. DrainIsComplete' /\ TailHasCurrentSpec'  BY Zenon, <1>3 DEF DrainIsComplete, TailHasCurrentSpec
    <2> QED  BY Zenon, <2>1, <2>2, <2>3
  <1>7. validate_redis_drain  BY Zenon, <1>1 DEF IInv, Guarded
  <1>8. Guarded'  BY Zenon, <1>1, <1>3, <1>4, <1>7, ConfigFrame DEF IInv, Guarded
  <1> QED  BY Zenon, <1>3, <1>5, <1>6, <1>8 DEF IInv

LEMMA DrainStateKeeps == ASSUME IInv, drain_join_state PROVE IInv'
  <1>1. /\ proc.pc = "state" /\ Goto("reset") /\ UNCHANGED <<cfg, target>>
        /\ disk' = [disk EXCEPT !.state = IF Joined(Kind) /\ join_state_dir # {} THEN "none" ELSE @]
    BY Zenon DEF drain_join_state
  <1>2. "reset" \in Places /\ "reset" \in Commands /\ "none" \in SpecOf  BY Zenon DEF Places, Commands, SpecOf
  <1>3. proc'.pc = "reset" /\ proc'.refused = proc.refused /\ OneShot'
    BY Zenon, <1>1, <1>2, Going
  <1>4. /\ disk'.cursor = disk.cursor
        /\ disk'.state = IF Joined(Kind) /\ join_state_dir # {} THEN "none" ELSE disk.state
    BY Zenon, <1>1 DEF IInv, Shapes
  <1>5. Shapes'  BY Zenon, <1>1, <1>2 DEF Goto, IInv, Shapes
  <1>6. MemoryJoins => Joined(Kind)  BY Zenon, JoinsAreRead DEF MemoryJoins
  <1>7. Draining' /\ DrainIsComplete' /\ TailHasCurrentSpec'
    BY <1>1, <1>3, <1>4, <1>6, ConfigFrame DEF IInv, Draining, DrainIsComplete, TailHasCurrentSpec
  <1>8. Marked'
    <2>1. MemoryJoins /\ join_state_dir # {} => disk'.state = "none"  BY <1>4, <1>6, Zenon
    <2>2. MemoryJoins' = MemoryJoins /\ join_state_dir' = join_state_dir  BY Zenon, <1>1, ConfigFrame
    <2> QED  BY Zenon, <2>1, <2>2 DEF Marked, Spec_Current
  <1>9. Guarded'  BY Zenon, <1>1, <1>3, <1>4, ConfigFrame DEF IInv, Guarded
  <1> QED  BY Zenon, <1>3, <1>5, <1>7, <1>8, <1>9 DEF IInv

\* The loop starts an iteration after a drain, the command is done.
LEMMA DrainedFacts ==
    ASSUME IInv, Drained, UNCHANGED cfg
    PROVE  /\ proc'.pc = IF cfg.command = "run" THEN "assemble" ELSE "exited"
           /\ proc'.refused = proc.refused /\ OneShot'
           /\ disk' = disk /\ target' \in [docs : SpecOf, stale : BOOLEAN] => Shapes'
  <1>1. CASE cfg.command = "run"
    <2>1. proc' = [proc EXCEPT !.pc = "assemble", !.boot = TRUE] /\ tasks' = tasks
      BY Zenon, <1>1 DEF Drained
    <2>2. proc'.pc = "assemble" /\ proc'.refused = proc.refused /\ "assemble" \in Places
      BY Zenon, <2>1 DEF IInv, Shapes, Places
    <2>3. OneShot'  BY Zenon, <1>1 DEF OneShot
    <2>4. ASSUME disk' = disk, target' \in [docs : SpecOf, stale : BOOLEAN] PROVE Shapes'
      BY Zenon, <2>1, <2>2, <2>4 DEF IInv, Shapes
    <2> QED  BY Zenon, <1>1, <2>2, <2>3, <2>4
  <1>2. CASE cfg.command # "run"
    <2>1. Exit(0)  BY Zenon, <1>2 DEF Drained
    <2>2. ASSUME disk' = disk, target' \in [docs : SpecOf, stale : BOOLEAN] PROVE Shapes'
      <3>1. "exited" \in Places  BY Zenon DEF Places, Commands
      <3> QED  BY Zenon, <2>1, <2>2, <3>1 DEF Exit, IInv, Shapes
    <2> QED  BY Zenon, <1>2, <2>1, <2>2, Exiting
  <1> QED  BY Zenon, <1>1, <1>2

LEMMA ResetKeeps == ASSUME IInv, reset_redis_targets_if_configured PROVE IInv'
  <1>1. proc.pc = "reset" /\ UNCHANGED <<cfg, disk>>  BY Zenon DEF reset_redis_targets_if_configured
  <1>2. Drains /\ Kind # "kafka" => ~disk.cursor  BY Zenon, <1>1 DEF IInv, Draining
  <1>3. MemoryJoins /\ join_state_dir # {} => disk.state = "none"  BY Zenon, <1>1 DEF IInv, Draining
  <1>4. CASE Redis
    <2>1. Drained /\ target' = [docs |-> "none", stale |-> FALSE]
      BY Zenon, <1>4 DEF reset_redis_targets_if_configured
    <2>2. target' \in [docs : SpecOf, stale : BOOLEAN]  BY Zenon, <2>1 DEF SpecOf
    <2>3. /\ proc'.pc \in {"assemble", "exited"} /\ proc'.refused = proc.refused /\ OneShot' /\ Shapes'
      BY Zenon, <1>1, <2>1, <2>2, DrainedFacts
    <2>4. Draining' /\ TailHasCurrentSpec'  BY Zenon, <2>3 DEF Draining, TailHasCurrentSpec
    <2>5. Marked'  BY Zenon, <1>1, <1>3, ConfigFrame DEF Marked, Spec_Current
    <2>6. DrainIsComplete'  BY Zenon, <1>1, <1>2, <1>3, <2>1, ConfigFrame DEF DrainIsComplete, Drains
    <2>7. Guarded'  BY Zenon, <1>1, <2>3, ConfigFrame DEF IInv, Guarded
    <2> QED  BY Zenon, <2>3, <2>4, <2>5, <2>6, <2>7 DEF IInv
  <1>5. CASE ~Redis
    <2>1. target' = target  BY Zenon, <1>5 DEF reset_redis_targets_if_configured
    <2>2. CASE cfg.command = "run"
      <3>1. Goto("sweep") /\ "sweep" \in Places  BY Zenon, <1>5, <2>2 DEF reset_redis_targets_if_configured, Places, Commands
      <3> QED  BY Zenon, <1>1, <1>5, <2>1, <2>2, <3>1, Going, Moves
    <2>3. CASE cfg.command # "run"
      <3>1. Exit(0)  BY Zenon, <1>5, <2>3 DEF reset_redis_targets_if_configured
      <3>2. proc'.pc = "exited" /\ proc'.refused = proc.refused /\ OneShot' /\ Shapes'
        BY Zenon, <1>1, <2>1, <3>1, Exiting
      <3>3. Draining' /\ TailHasCurrentSpec'  BY Zenon, <3>2 DEF Draining, TailHasCurrentSpec
      <3>4. Marked'  BY Zenon, <1>1, <2>1, ConfigFrame DEF IInv, Marked
      <3>5. DrainIsComplete'  BY Zenon, <1>1, <1>2, <1>3, <1>5, ConfigFrame DEF DrainIsComplete, Drains
      <3>6. Guarded'  BY Zenon, <1>1, <3>2, ConfigFrame DEF IInv, Guarded
      <3> QED  BY Zenon, <3>2, <3>3, <3>4, <3>5, <3>6 DEF IInv
    <2> QED  BY Zenon, <2>2, <2>3
  <1> QED  BY Zenon, <1>4, <1>5

LEMMA SweepKeeps == ASSUME IInv, reconcile_orphans PROVE IInv'
  <1>1. proc.pc = "sweep" /\ UNCHANGED <<cfg, disk>> /\ ~Redis /\ ~Drains
    BY Zenon DEF reconcile_orphans, IInv, Guarded, OneShot, Drains
  <1>2. CASE B.sink # "sink.opensearch" /\ Refused /\ UNCHANGED target
    <2>1. B.sink \notin {"sink.redis", "sink.opensearch"}  BY Zenon, <1>1, <1>2 DEF Redis
    <2> QED  BY Zenon, <1>1, <1>2, <2>1, RefusedFacts, Moves
  <1>3. CASE /\ Drained
             /\ target' \in {target, [target EXCEPT !.stale = @ /\ ~(Kind = "postgres" /\ B.joins # {})]}
    <2>1. target' \in [docs : SpecOf, stale : BOOLEAN] /\ target'.docs = target.docs
      BY Zenon, <1>3 DEF IInv, Shapes
    <2>2. proc'.pc \in {"assemble", "exited"} /\ proc'.refused = proc.refused /\ OneShot' /\ Shapes'
      BY Zenon, <1>1, <1>3, <2>1, DrainedFacts
    <2>3. Draining' /\ TailHasCurrentSpec' /\ DrainIsComplete'
      BY Zenon, <1>1, <2>2 DEF Draining, TailHasCurrentSpec, DrainIsComplete, Drains
    <2>4. Marked'  BY Zenon, <1>1, <2>1, ConfigFrame DEF IInv, Marked
    <2>5. Guarded'  BY <1>1, <2>2, ConfigFrame DEF IInv, Guarded
    <2> QED  BY Zenon, <2>2, <2>3, <2>4, <2>5 DEF IInv
  <1> QED  BY Zenon, <1>2, <1>3 DEF reconcile_orphans

-----------------------------------------------------------------------------
\* Only a run is at a step of the cdc role or has tasks.
LEMMA OnlyRun ==
    ASSUME IInv, proc.pc \notin Commands \/ \E r \in TaskRoles : tasks[r] # "off"
    PROVE  cfg.command = "run" /\ ~Drains
  BY Zenon DEF IInv, OneShot, Drains

\* A step of the cdc role that writes to the disk or to the sink.
LEMMA Works ==
    ASSUME IInv, UNCHANGED cfg, cfg.command = "run", Shapes', Marked', TailHasCurrentSpec',
           proc'.pc \in {"wipe", "persist", "loop", "snapshot", "tail", "idle"}, proc'.refused = proc.refused,
           cfg.resume /\ ~validate_redis_drain /\ ~Resyncs => disk'.cursor
    PROVE  IInv'
  <1>1. OneShot' /\ Draining' /\ DrainIsComplete'  BY Zenon DEF OneShot, Draining, DrainIsComplete
  <1>2. ~Drains  BY Zenon DEF Drains
  <1>3. Guarded'  BY <1>2, ConfigFrame DEF IInv, Guarded
  <1> QED  BY Zenon, <1>1, <1>3 DEF IInv

\* A step of a run that leaves the disk and the sink alone.
LEMMA Stays ==
    ASSUME IInv, UNCHANGED <<cfg, disk, target>>, cfg.command = "run", Shapes',
           proc'.pc \in {proc.pc, "idle"}, proc'.refused = proc.refused
    PROVE  IInv'
  <1>1. OneShot' /\ ~Drains  BY Zenon DEF OneShot, Drains
  <1>2. /\ proc.pc = "validate" => Drains \/ cfg.resume
        /\ proc.pc = "cursor" => validate_redis_drain
        /\ proc.pc = "sweep" => ~Redis
        /\ proc.pc = "dropSlot" => Resyncs
    BY Zenon DEF IInv, Guarded
  <1> QED  BY Zenon, <1>1, <1>2, Moves

LEMMA RunCdcKeeps == ASSUME IInv, RunCdc PROVE IInv'
  <1>1. proc.pc = "fingerprint" /\ UNCHANGED <<cfg, disk, target>>  BY Zenon DEF RunCdc
  <1>2. cfg.command = "run" /\ ~Drains  BY Zenon, <1>1, OnlyRun DEF Commands
  <1>3. PICK pc \in {"dropSlot", "persist", "loop"} : Goto(pc) /\ (pc = "dropSlot" => Resyncs)
    <2>1. CASE Kind = "postgres" /\ B.joins # {}
      <3>1. check \in {"Resync", "ForceResync"} => force_resync \/ auto_resync  BY Zenon DEF check
      <3> QED  BY Zenon, <2>1, <3>1 DEF RunCdc, Resyncs
    <2>2. CASE ~(Kind = "postgres" /\ B.joins # {})  BY Zenon, <2>2 DEF RunCdc
    <2> QED  BY Zenon, <2>1, <2>2
  <1>4. pc \in Places  BY Zenon DEF Places
  <1> QED  BY Zenon, <1>1, <1>2, <1>3, <1>4, Going, Moves

LEMMA DropSlotKeeps == ASSUME IInv, ResyncDropSlot PROVE IInv'
  <1>1. /\ proc.pc = "dropSlot" /\ Goto("wipe") /\ UNCHANGED cfg
        /\ disk' = [disk EXCEPT !.cursor = FALSE]
        /\ target' = [target EXCEPT !.stale = @ \/ disk.cursor]
    BY Zenon DEF ResyncDropSlot
  <1>2. cfg.command = "run"  BY Zenon, <1>1, OnlyRun DEF Commands
  <1>3. "wipe" \in Places  BY Zenon DEF Places
  <1>4. proc'.pc = "wipe" /\ proc'.refused = proc.refused  BY Zenon, <1>1, <1>2, <1>3, Going
  <1>5. Shapes'  BY Zenon, <1>1, <1>3 DEF Goto, IInv, Shapes
  <1>6. disk'.state = disk.state /\ target'.docs = target.docs  BY Zenon, <1>1 DEF IInv, Shapes
  <1>7. Marked'  BY Zenon, <1>1, <1>6, ConfigFrame DEF IInv, Marked
  <1>8. TailHasCurrentSpec'  BY Zenon, <1>4 DEF TailHasCurrentSpec
  <1>9. Resyncs  BY Zenon, <1>1 DEF IInv, Guarded
  <1> QED  BY Zenon, <1>1, <1>2, <1>4, <1>5, <1>7, <1>8, <1>9, Works

LEMMA WipeKeeps == ASSUME IInv, ResyncWipe PROVE IInv'
  <1>1. /\ proc.pc = "wipe" /\ UNCHANGED <<cfg, tasks, target>>
        /\ proc' = [proc EXCEPT !.pc = "persist", !.boot = TRUE]
        /\ disk' \in {disk, [disk EXCEPT !.state = IF join_state_dir = {} THEN @ ELSE "none"]}
    BY Zenon DEF ResyncWipe
  <1>2. cfg.command = "run" /\ ~Drains  BY Zenon, <1>1, OnlyRun DEF Commands
  <1>3. "persist" \in Places /\ "none" \in SpecOf  BY Zenon DEF Places, SpecOf
  <1>4. proc'.pc = "persist" /\ proc'.refused = proc.refused  BY Zenon, <1>1 DEF IInv, Shapes
  <1>5. Shapes'  BY Zenon, <1>1, <1>3 DEF IInv, Shapes
  <1>6. disk'.cursor = disk.cursor /\ disk'.state \in {disk.state, "none"}  BY Zenon, <1>1 DEF IInv, Shapes
  <1>7. disk'.state = Spec_Current => disk.state = Spec_Current  BY Zenon, <1>6 DEF Spec_Current
  <1>8. Marked'  BY <1>1, <1>7, ConfigFrame, Zenon DEF IInv, Marked
  <1>9. TailHasCurrentSpec'  BY Zenon, <1>4 DEF TailHasCurrentSpec
  <1>10. cfg.resume /\ ~validate_redis_drain /\ ~Resyncs => disk'.cursor
    BY Zenon, <1>6 DEF IInv, Guarded
  <1> QED  BY Zenon, <1>1, <1>2, <1>4, <1>5, <1>8, <1>9, <1>10, Works

LEMMA PersistKeeps == ASSUME IInv, persist PROVE IInv'
  <1>1. /\ proc.pc = "persist" /\ Goto("loop") /\ UNCHANGED <<cfg, target>>
        /\ disk' = [disk EXCEPT !.print = IF join_state_dir = {} THEN @ ELSE Spec_Current]
    BY Zenon DEF persist
  <1>2. cfg.command = "run"  BY Zenon, <1>1, OnlyRun DEF Commands
  <1>3. "loop" \in Places /\ Spec_Current \in SpecOf  BY Zenon DEF Places, SpecOf
  <1>4. proc'.pc = "loop" /\ proc'.refused = proc.refused  BY Zenon, <1>1, <1>2, <1>3, Going
  <1>5. Shapes'  BY Zenon, <1>1, <1>3 DEF Goto, IInv, Shapes
  <1>6. disk'.state = disk.state /\ disk'.cursor = disk.cursor  BY Zenon, <1>1 DEF IInv, Shapes
  <1>7. Marked'  BY Zenon, <1>1, <1>6, ConfigFrame DEF IInv, Marked
  <1>8. TailHasCurrentSpec'  BY Zenon, <1>4 DEF TailHasCurrentSpec
  <1>9. cfg.resume /\ ~validate_redis_drain /\ ~Resyncs => disk'.cursor
    BY Zenon, <1>6 DEF IInv, Guarded
  <1> QED  BY Zenon, <1>1, <1>2, <1>4, <1>5, <1>7, <1>8, <1>9, Works

LEMMA LoopKeeps == ASSUME IInv, run_cdc_loop PROVE IInv'
  <1>1. proc.pc = "loop" /\ UNCHANGED <<cfg, disk, target>>  BY Zenon DEF run_cdc_loop
  <1>2. cfg.command = "run" /\ ~Drains  BY Zenon, <1>1, OnlyRun DEF Commands
  <1>3. PICK pc \in {"validate", "assemble"} : Goto(pc) /\ (pc = "validate" => cfg.resume)
    BY Zenon DEF run_cdc_loop
  <1>4. pc \in Places  BY Zenon DEF Places, Commands
  <1> QED  BY Zenon, <1>1, <1>2, <1>3, <1>4, Going, Moves

-----------------------------------------------------------------------------
\* An engine that tails without a snapshot has state that is recoverable.
LEMMA TailsRecoverable ==
    ASSUME ~AssembleFails, B.joins # {}, proc'.pc = "tail", proc.pc # "tail", IInv,
           build_sql_denormalize_engine \/ build_and_run_pg_engine \/ build_and_run_mysql_engine
             \/ build_and_run_plain_engine
    PROVE  MemoryJoins /\ join_state_dir # {} /\ join_checkpoint_recoverable /\ disk'.state = disk.state
  <1>1. Kind \in {"postgres", "mysql"}  BY Zenon, JoinsAreRead
  <1>2. ASSUME NEW pc, proc' = [proc EXCEPT !.pc = pc] PROVE pc = "tail"
    BY Zenon, <1>2 DEF IInv, Shapes
  <1>3. ~build_sql_denormalize_engine  BY Zenon, <1>2 DEF build_sql_denormalize_engine
  <1>4. ~build_and_run_plain_engine  BY Zenon, <1>1 DEF build_and_run_plain_engine
  <1>5. MemoryJoins
    BY Zenon, <1>3, <1>4 DEF MemoryJoins, build_and_run_pg_engine, build_and_run_mysql_engine
  <1>6. join_state_dir # {}  BY Zenon, <1>5 DEF AssembleFails
  <1>7. CASE build_and_run_pg_engine
    <2>1. join_checkpoint_recoverable
      <3>1. SUFFICES ASSUME ~join_checkpoint_recoverable PROVE FALSE  BY Zenon
      <3>2. proc' = [proc EXCEPT !.pc = "snapshot"]  BY Zenon, <1>5, <1>7, <3>1 DEF build_and_run_pg_engine
      <3> QED  BY Zenon, <1>2, <3>2
    <2>2. disk'.state = disk.state  BY Zenon, <1>7, <2>1 DEF build_and_run_pg_engine, IInv, Shapes
    <2> QED  BY Zenon, <1>5, <1>6, <2>1, <2>2
  <1>8. CASE build_and_run_mysql_engine
    <2>1. join_checkpoint_recoverable
      <3>1. SUFFICES ASSUME ~join_checkpoint_recoverable PROVE FALSE  BY Zenon
      <3>2. Kind = "mysql"  BY Zenon, <1>8 DEF build_and_run_mysql_engine
      <3>3. disk.cursor \/ B.source.bootstrap  BY Zenon, <1>5, <3>1, <3>2 DEF AssembleFails
      <3>4. proc' = [proc EXCEPT !.pc = "snapshot"]  BY Zenon, <1>5, <1>8, <3>1, <3>3 DEF build_and_run_mysql_engine
      <3> QED  BY Zenon, <1>2, <3>4
    <2>2. disk'.state = disk.state  BY Zenon, <1>8, <2>1 DEF build_and_run_mysql_engine, IInv, Shapes
    <2> QED  BY Zenon, <1>5, <1>6, <2>1, <2>2
  <1> QED  BY Zenon, <1>3, <1>4, <1>7, <1>8

\* What an engine that was built has done to the disk: it removed no cursor
\* and marked no state.
LEMMA BuiltFacts ==
    ASSUME IInv, build_sql_denormalize_engine \/ build_and_run_pg_engine \/ build_and_run_mysql_engine
                   \/ build_and_run_plain_engine
    PROVE  /\ \E pc \in {"snapshot", "tail"} : proc' = [proc EXCEPT !.pc = pc]
           /\ disk' \in [cursor : BOOLEAN, state : SpecOf, print : SpecOf]
           /\ disk.cursor => disk'.cursor
           /\ disk'.state \in {disk.state, "none"}
  <1>0. "none" \in SpecOf  BY Zenon DEF SpecOf
  <1>1. CASE build_sql_denormalize_engine
    BY Zenon, <1>0, <1>1 DEF build_sql_denormalize_engine, IInv, Shapes
  <1>2. CASE build_and_run_pg_engine
    BY Zenon, <1>0, <1>2 DEF build_and_run_pg_engine, IInv, Shapes
  <1>3. CASE build_and_run_mysql_engine
    BY Zenon, <1>0, <1>3 DEF build_and_run_mysql_engine, IInv, Shapes
  <1>4. CASE build_and_run_plain_engine
    BY Zenon, <1>0, <1>4 DEF build_and_run_plain_engine, IInv, Shapes
  <1> QED  BY Zenon, <1>1, <1>2, <1>3, <1>4

LEMMA IterationKeeps == ASSUME IInv, run_iteration PROVE IInv'
  <1>1. proc.pc = "assemble" /\ UNCHANGED <<cfg, target>>  BY Zenon DEF run_iteration
  <1>2. cfg.command = "run"  BY Zenon, <1>1, OnlyRun DEF Commands
  <1>3. CASE /\ UNCHANGED disk /\ tasks' = [tasks EXCEPT !.cdc = "failed"]
             /\ proc' = [proc EXCEPT !.pc = "idle", !.failure = TRUE, !.shutdown = TRUE]
    <2>1. "idle" \in Places  BY Zenon DEF Places
    <2>2. Shapes' /\ proc'.pc = "idle" /\ proc'.refused = proc.refused
      BY Zenon, <1>1, <1>3, <2>1 DEF IInv, Shapes
    <2> QED  BY Zenon, <1>1, <1>2, <1>3, <2>2, Stays
  <1>4. CASE /\ ~AssembleFails /\ tasks' = [tasks EXCEPT !.cdc = "up"]
             /\ (build_sql_denormalize_engine \/ build_and_run_pg_engine \/ build_and_run_mysql_engine
                   \/ build_and_run_plain_engine)
    <2>1. PICK pc \in {"snapshot", "tail"} : proc' = [proc EXCEPT !.pc = pc]  BY Zenon, <1>4, BuiltFacts
    <2>2. pc \in Places  BY Zenon DEF Places
    <2>3. proc'.pc \in {"snapshot", "tail"} /\ proc'.refused = proc.refused  BY Zenon, <2>1 DEF IInv, Shapes
    <2>4. Shapes'  BY Zenon, <1>1, <1>4, <2>1, <2>2, BuiltFacts DEF IInv, Shapes
    <2>5. disk'.state = Spec_Current => disk.state = Spec_Current  BY Zenon, <1>4, BuiltFacts DEF Spec_Current
    <2>6. Marked'  BY <1>1, <2>5, ConfigFrame, Zenon DEF IInv, Marked
    <2>7. TailHasCurrentSpec'
      <3>1. SUFFICES ASSUME proc'.pc = "tail", B.joins # {}
                     PROVE  target.docs = Spec_Current /\ disk'.state = Spec_Current /\ disk'.cursor
        BY Zenon, <1>1, ConfigFrame DEF TailHasCurrentSpec
      <3>2. MemoryJoins /\ join_state_dir # {} /\ join_checkpoint_recoverable /\ disk'.state = disk.state
        BY Zenon, <1>1, <1>4, <3>1, TailsRecoverable
      <3>3. disk.state = Spec_Current /\ disk.cursor  BY Zenon, <3>2 DEF join_checkpoint_recoverable
      <3>4. target.docs = Spec_Current  BY Zenon, <3>2, <3>3 DEF IInv, Marked
      <3> QED  BY Zenon, <1>4, <3>2, <3>3, <3>4, BuiltFacts
    <2>8. cfg.resume /\ ~validate_redis_drain /\ ~Resyncs => disk'.cursor
      BY Zenon, <1>4, BuiltFacts DEF IInv, Guarded
    <2> QED  BY Zenon, <1>1, <1>2, <2>3, <2>4, <2>6, <2>7, <2>8, Works
  <1> QED  BY Zenon, <1>3, <1>4 DEF run_iteration

LEMMA SnapshotKeeps == ASSUME IInv, Snapshot PROVE IInv'
  <1>1. /\ proc.pc = "snapshot" /\ Goto("tail") /\ UNCHANGED cfg
        /\ target' = [target EXCEPT !.docs = Spec_Current]
        /\ disk' = [disk EXCEPT !.cursor = TRUE, !.state = IF MemoryJoins THEN Spec_Current ELSE @]
    BY Zenon DEF Snapshot
  <1>2. cfg.command = "run"  BY Zenon, <1>1, OnlyRun DEF Commands
  <1>3. "tail" \in Places /\ Spec_Current \in SpecOf  BY Zenon DEF Places, SpecOf
  <1>4. proc'.pc = "tail" /\ proc'.refused = proc.refused  BY Zenon, <1>1, <1>2, <1>3, Going
  <1>5. Shapes'  BY Zenon, <1>1, <1>3 DEF Goto, IInv, Shapes
  <1>6. /\ target'.docs = Spec_Current /\ disk'.cursor
        /\ disk'.state = IF MemoryJoins THEN Spec_Current ELSE disk.state
    BY Zenon, <1>1 DEF IInv, Shapes
  <1>7. Marked' /\ TailHasCurrentSpec'
    BY <1>1, <1>6, ConfigFrame DEF Marked, TailHasCurrentSpec
  <1> QED  BY Zenon, <1>1, <1>2, <1>4, <1>5, <1>6, <1>7, Works

-----------------------------------------------------------------------------
\* A role task starts, ends or fails, or the process is told to stop.
LEMMA RoleKeeps ==
    ASSUME IInv, NEW r \in TaskRoles, StartGateway(r) \/ StopRole(r) \/ FailRole(r)
    PROVE  IInv'
  <1>1. UNCHANGED <<cfg, disk, target>> /\ tasks[r] # "off"  BY Zenon DEF StartGateway, StopRole, FailRole
  <1>2. cfg.command = "run"  BY Zenon, <1>1, OnlyRun
  <1>3. "idle" \in Places  BY Zenon DEF Places
  <1>4. Shapes' /\ proc'.pc \in {proc.pc, "idle"} /\ proc'.refused = proc.refused
    <2>1. CASE StartGateway(r)  BY Zenon, <1>1, <2>1 DEF StartGateway, IInv, Shapes
    <2>2. CASE StopRole(r)  BY Zenon, <1>1, <1>3, <2>2 DEF StopRole, IInv, Shapes
    <2>3. CASE FailRole(r)  BY Zenon, <1>1, <1>3, <2>3 DEF FailRole, IInv, Shapes
    <2> QED  BY Zenon, <2>1, <2>2, <2>3
  <1> QED  BY Zenon, <1>1, <1>2, <1>4, Stays

LEMMA SignalKeeps == ASSUME IInv, Signal PROVE IInv'
  <1>1. UNCHANGED <<cfg, disk, target, tasks>> /\ proc' = [proc EXCEPT !.shutdown = TRUE]  BY Zenon DEF Signal
  <1>2. \E r \in TaskRoles : tasks[r] # "off"
    <2>1. tasks # [r \in TaskRoles |-> "off"]  BY Zenon DEF Signal
    <2> QED  BY Zenon, <2>1 DEF IInv, Shapes
  <1>3. Shapes' /\ proc'.pc = proc.pc /\ proc'.refused = proc.refused  BY Zenon, <1>1 DEF IInv, Shapes
  <1> QED  BY Zenon, <1>1, <1>2, <1>3, OnlyRun, Stays

LEMMA JoinHandlesKeeps == ASSUME IInv, Join_Handles PROVE IInv'
  <1>1. proc.pc = "idle" /\ UNCHANGED <<cfg, disk, target>>  BY Zenon DEF Join_Handles
  <1>2. cfg.command = "run" /\ ~Drains  BY Zenon, <1>1, OnlyRun DEF Commands
  <1>3. PICK code \in {0, 1} : Exit(code)  BY Zenon DEF Join_Handles
  <1> QED  BY Zenon, <1>1, <1>2, <1>3, Exiting, Moves

LEMMA CrashKeeps == ASSUME IInv, Crash PROVE IInv'
  <1>1. /\ UNCHANGED <<cfg, disk, target>> /\ tasks' = [r \in TaskRoles |-> "off"]
        /\ proc' = [pc |-> "load", boot |-> FALSE, shutdown |-> FALSE, failure |-> FALSE, refused |-> FALSE,
                    code |-> 0]
    BY Zenon DEF Crash, Fresh
  <1>2. "load" \in Places /\ "load" \in Commands  BY Zenon DEF Places, Commands
  <1>3. Shapes' /\ proc'.pc = "load" /\ ~proc'.refused  BY Zenon, <1>1, <1>2 DEF IInv, Shapes
  <1>4. OneShot'  BY Zenon, <1>1, <1>2, <1>3 DEF OneShot
  <1> QED  BY Zenon, <1>1, <1>3, <1>4, Moves

LEMMA NextKeeps == ASSUME IInv, [ProcessNext]_vars PROVE IInv'
  <1>1. CASE main  BY Zenon, <1>1, MainKeeps
  <1>2. CASE Maintain
    BY Zenon, <1>2, ValidateKeeps, DrainCursorKeeps, DrainStateKeeps, ResetKeeps, SweepKeeps DEF Maintain
  <1>3. CASE CdcStep
    BY Zenon, <1>3, RunCdcKeeps, DropSlotKeeps, WipeKeeps, PersistKeeps, LoopKeeps, IterationKeeps, SnapshotKeeps
       DEF CdcStep
  <1>4. CASE Join_Handles \/ Signal \/ Crash  BY Zenon, <1>4, JoinHandlesKeeps, SignalKeeps, CrashKeeps
  <1>5. CASE \E r \in TaskRoles : StartGateway(r) \/ StopRole(r) \/ FailRole(r)  BY Zenon, <1>5, RoleKeeps
  <1>6. CASE UNCHANGED vars
    <2>1. UNCHANGED <<cfg, proc, tasks, disk, target>>  BY Zenon, <1>6 DEF vars
    <2>2. Shapes'  BY Zenon, <2>1 DEF IInv, Shapes
    <2>3. OneShot'  BY Zenon, <2>1, ConfigFrame DEF IInv, OneShot
    <2>4. /\ proc.pc = "validate" => Drains \/ cfg.resume
          /\ proc.pc = "cursor" => validate_redis_drain
          /\ proc.pc = "sweep" => ~Redis
          /\ proc.pc = "dropSlot" => Resyncs
      BY Zenon DEF IInv, Guarded
    <2> QED  BY Zenon, <2>1, <2>2, <2>3, <2>4, Moves
  <1> QED  BY Zenon, <1>1, <1>2, <1>3, <1>4, <1>5, <1>6 DEF ProcessNext, ProcessStep

\* The state of a process is what its disk and its sink can bear, whatever the
\* engine file says and wherever the process dies.
THEOREM Invariance == ProcessSpec => []IInv
  <1>1. ProcessInit => IInv  BY Zenon, InitIInv
  <1>2. IInv /\ [ProcessNext]_vars => IInv'  BY Zenon, NextKeeps
  <1> QED  BY <1>1, <1>2, PTL DEF ProcessSpec

\* A process that tails a pipeline with joins has documents and join state of
\* the joins spec it was started with (run_cdc_postgres, run_cdc_mysql and the
\* engines they build), for every file and any number of crashes.
THEOREM TailsAreCurrent == ProcessSpec => []TailHasCurrentSpec
  <1>1. IInv => TailHasCurrentSpec  BY Zenon DEF IInv
  <1> QED  BY <1>1, Invariance, PTL

\* A drain or rebootstrap that exits 0 is complete also after attempts that
\* died half way, and a rebuild that is refused has removed no cursor
\* (run_fleet_drain_local_state, run_fleet_rebootstrap, run_cdc_loop).
THEOREM RebuildsStayWhole == ProcessSpec => []RebuildsAreWhole
  <1>1. IInv => RebuildsAreWhole
    <2>1. IInv => RefusalKeepsCursor  BY Zenon DEF IInv, Guarded, RefusalKeepsCursor
    <2> QED  BY Zenon, <2>1 DEF IInv, RebuildsAreWhole
  <1> QED  BY <1>1, Invariance, PTL
=============================================================================
