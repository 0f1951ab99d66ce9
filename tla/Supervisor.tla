------------------------------ MODULE Supervisor ------------------------------
(***************************************************************************)
(* The pause / resume / drain loop that every CDC source runs under        *)
(* (run_cdc_loop, spawn_pause_watcher and wait_for_command_change in       *)
(* crates/ventstream/src/main.rs) and the command slot the telemetry task  *)
(* fills from heartbeats (crates/ventstream-telemetry/src/lib.rs).  The    *)
(* loop reads the slot at the top of each round and then awaits the        *)
(* backend, so a command may change under any of its steps; the process    *)
(* may die and be restarted at any of them.                                *)
(***************************************************************************)
EXTENDS Integers

CONSTANTS
    NoCommand,      \* the command slot before the first heartbeat
    SnapshotMode,   \* the configuration asks for a snapshot bootstrap
    MaxCredentialFailures,  \* MAX_CONSECUTIVE_CREDENTIAL_FAILURES
    MaxHeartbeats,  \* bound on heartbeats that change the command
    MaxRestarts     \* bound on process restarts

SupervisorAssumption ==
    /\ NoCommand \notin [pause : BOOLEAN, cursor_invalidated : BOOLEAN]
    /\ SnapshotMode \in BOOLEAN /\ MaxCredentialFailures \in Nat \ {0}
    /\ MaxHeartbeats \in Nat /\ MaxRestarts \in Nat

AgentCommand == [pause : BOOLEAN, cursor_invalidated : BOOLEAN]
DefaultCommand == [pause |-> FALSE, cursor_invalidated |-> FALSE]

\* How an iteration ends: Ok, or an error the match on its outcome tells
\* apart.  "setup" is an error that did not cancel the iteration's token.
Outcomes == {"ok", "transient", "credential", "unrecoverable", "setup"}
OwnFailures == {"transient", "credential", "unrecoverable"}

VARIABLES
    command,     \* LATEST_COMMAND
    heartbeats,  \* heartbeats delivered so far
    shutdown,    \* the process's shutdown token is cancelled
    place,          \* where run_cdc_loop is
    drained,     \* already_drained_locally
    failing,     \* last_iteration_error is set
    credentials, \* consecutive credential failures
    bootstrap,   \* the backend will take a snapshot when it has no cursor
    inner,       \* the iteration's own token is cancelled
    watching,    \* its pause watcher is polling
    pauseRequested,
    outcome,     \* how the iteration ended or is about to end
    cursor,      \* "kept" or "gone": slot, resume token or position
    owed,        \* what a dropped cursor still calls for: a sweep of the
                 \* sink, a snapshot
    dropper,     \* the process that dropped the cursor last, or 0
    life         \* which process this is

commandVars == <<command, heartbeats>>
localVars == <<drained, failing, credentials, bootstrap>>
iterationVars == <<inner, watching, pauseRequested, outcome>>
worldVars == <<cursor, owed, dropper>>
loopVars == <<commandVars, shutdown, place, localVars, iterationVars,
          worldVars, life>>

LatestCommand == IF command = NoCommand THEN DefaultCommand ELSE command
InnerCancelled == inner \/ shutdown

LoopInit ==
    /\ command = NoCommand /\ heartbeats = 0
    /\ shutdown = FALSE
    /\ place = "top"
    /\ drained = FALSE /\ failing = FALSE /\ credentials = 0
    /\ bootstrap = SnapshotMode
    /\ inner = FALSE /\ watching = FALSE /\ pauseRequested = FALSE
    /\ outcome = "ok"
    /\ cursor \in {"kept", "gone"} /\ owed = {} /\ dropper = 0
    /\ life = 1
-------------------------------------------------------------------------------
\* publish_commands: a heartbeat response replaces the command in the slot.
Heartbeat ==
    /\ heartbeats < MaxHeartbeats
    /\ command' \in AgentCommand \ {command}
    /\ heartbeats' = heartbeats + 1
    /\ UNCHANGED <<shutdown, place, localVars, iterationVars, worldVars, life>>

RequestShutdown ==
    /\ ~shutdown
    /\ shutdown' = TRUE
    /\ UNCHANGED <<commandVars, place, localVars, iterationVars, worldVars, life>>

\* The process dies, or left the loop with an error, and is started again:
\* its command slot is empty until the first heartbeat, an interval later.
Restart ==
    /\ place # "stopped" /\ life <= MaxRestarts
    /\ life' = life + 1
    /\ command' = NoCommand /\ shutdown' = FALSE /\ place' = "top"
    /\ drained' = FALSE /\ failing' = FALSE /\ credentials' = 0
    /\ bootstrap' = SnapshotMode
    /\ inner' = FALSE /\ watching' = FALSE /\ pauseRequested' = FALSE
    /\ outcome' = "ok"
    /\ UNCHANGED <<heartbeats, worldVars>>
-------------------------------------------------------------------------------
\* The child token, the pause watcher and the engine of one iteration.
StartIteration ==
    /\ place' = "running"
    /\ inner' = FALSE /\ watching' = TRUE /\ pauseRequested' = FALSE
    /\ outcome' = "ok"

Go(step) == place' = step /\ UNCHANGED <<localVars, iterationVars>>

\* One pass over the head of the loop.
Top ==
    LET cmd == LatestCommand IN
    /\ place = "top"
    /\ \/ shutdown /\ Go("stopped")
       \/ ~shutdown /\ failing /\ Go("failed")
       \/ /\ ~shutdown /\ ~failing /\ cmd.pause
          /\ Go(IF cmd.cursor_invalidated /\ ~drained THEN "pauseDrain" ELSE "waiting")
       \/ /\ ~shutdown /\ ~failing /\ ~cmd.pause
          /\ \/ drained /\ Go("reconcile")
             \/ ~drained /\ cmd.cursor_invalidated /\ Go("resumeDrain")
             \/ /\ ~drained /\ ~cmd.cursor_invalidated
                /\ StartIteration /\ UNCHANGED localVars
    /\ UNCHANGED <<commandVars, shutdown, worldVars, life>>

\* drain_local drops the slot (or file) first and the join state after it.
DropCursor ==
    cursor' = "gone" /\ owed' = {"sweep", "snapshot"} /\ dropper' = life

\* A backend call that fails leaves the loop at once.
BackendFails == Go("failed")

\* A mutant: the drain of a pause is not remembered.
DrainedWhilePausedForgets ==
    /\ drained' = FALSE
    /\ place' = "waiting"
    /\ UNCHANGED <<failing, credentials, bootstrap, iterationVars>>

DrainedWhilePaused ==
    /\ drained' = TRUE
    /\ place' = "waiting"
    /\ UNCHANGED <<failing, credentials, bootstrap, iterationVars>>

PauseDrain ==
    /\ place = "pauseDrain"
    /\ \/ DropCursor /\ DrainedWhilePaused
       \/ BackendFails /\ UNCHANGED worldVars   \* validation, or before the drop
       \/ DropCursor /\ BackendFails            \* after it
    /\ UNCHANGED <<commandVars, shutdown, life>>

ResumeDrain ==
    /\ place = "resumeDrain"
    /\ \/ DropCursor /\ Go("reconcile")
       \/ BackendFails /\ UNCHANGED worldVars
       \/ DropCursor /\ BackendFails
    /\ UNCHANGED <<commandVars, shutdown, life>>

\* reconcile_orphans, prepare_bootstrap, and straight into the iteration.
Reconcile ==
    /\ place = "reconcile"
    /\ \/ /\ owed' = owed \ {"sweep"} /\ UNCHANGED <<cursor, dropper>>
          /\ bootstrap' = TRUE /\ drained' = FALSE
          /\ StartIteration
          /\ UNCHANGED <<failing, credentials>>
       \/ BackendFails /\ UNCHANGED worldVars
    /\ UNCHANGED <<commandVars, shutdown, life>>

\* A mutant: a resume is seen only with a valid cursor.
WaitDoneValidCursor ==
    \/ shutdown
    \/ ~LatestCommand.pause /\ ~LatestCommand.cursor_invalidated
    \/ LatestCommand.cursor_invalidated /\ ~drained

\* A mutant: the wait is not interrupted by a shutdown.
WaitDoneDeaf ==
    \/ ~LatestCommand.pause
    \/ LatestCommand.cursor_invalidated /\ ~drained

WaitDone ==
    \/ shutdown
    \/ ~LatestCommand.pause
    \/ LatestCommand.cursor_invalidated /\ ~drained

\* wait_for_command_change polls the slot every 500 ms.
WaitForCommandChange ==
    /\ place = "waiting" /\ WaitDone
    /\ place' = "top"
    /\ UNCHANGED <<commandVars, shutdown, localVars, iterationVars, worldVars, life>>
-------------------------------------------------------------------------------
\* The engine finds no cursor and takes the snapshot that creates one.
Bootstrap ==
    /\ place = "running" /\ cursor = "gone" /\ bootstrap /\ ~InnerCancelled
    /\ cursor' = "kept" /\ owed' = owed \ {"snapshot"}
    /\ UNCHANGED <<commandVars, shutdown, place, localVars, iterationVars, dropper, life>>

\* The engine fails by itself and cancels the iteration's token.
EngineFails(error) ==
    /\ place = "running" /\ ~InnerCancelled
    /\ inner' = TRUE /\ outcome' = error
    /\ UNCHANGED <<commandVars, shutdown, place, localVars, watching, pauseRequested,
                   worldVars, life>>

\* A mutant: the watcher stops the engine only for a drain.
PauseSeenOnDrain ==
    watching /\ LatestCommand.pause /\ LatestCommand.cursor_invalidated

PauseSeen == watching /\ LatestCommand.pause

\* The watcher polls every 500 ms.  It also stops once the token is
\* cancelled, but a poll already under way may still find the pause.
PauseWatcherFires ==
    /\ place = "running" /\ PauseSeen
    /\ pauseRequested' = TRUE /\ inner' = TRUE /\ watching' = FALSE
    /\ UNCHANGED <<commandVars, shutdown, place, localVars, outcome, worldVars, life>>

PauseWatcherStops ==
    /\ place = "running" /\ watching /\ InnerCancelled
    /\ watching' = FALSE
    /\ UNCHANGED <<commandVars, shutdown, place, localVars, inner, pauseRequested,
                   outcome, worldVars, life>>

\* run_iteration returns: after a failure of its own with that error; once
\* its token is cancelled with Ok or with the error of a failed flush; by
\* itself with Ok when the stream ended or with a setup error.  The watcher
\* is aborted.
EngineReturns ==
    /\ place = "running"
    /\ outcome' \in IF outcome # "ok" THEN {outcome}
                    ELSE IF InnerCancelled THEN {"ok", "transient"} ELSE {"ok", "setup"}
    /\ place' = "returned" /\ watching' = FALSE
    /\ UNCHANGED <<commandVars, shutdown, localVars, inner, pauseRequested,
                   worldVars, life>>

\* The engine stops once its token is cancelled.
EngineStops == InnerCancelled /\ EngineReturns

\* A mutant: the budget is spent one failure too late.
HandleFailureLate ==
    \E healthy \in BOOLEAN :
        LET streak == IF healthy THEN 0 ELSE credentials
            spent == outcome = "credential" /\ streak + 1 > MaxCredentialFailures
            terminal == outcome = "unrecoverable" \/ spent IN
        /\ credentials' = IF outcome = "credential" THEN streak + 1 ELSE streak
        /\ failing' = terminal
        /\ place' = IF terminal THEN "top" ELSE "backoff"

\* Err whose token was cancelled, by neither a shutdown nor a pause.
HandleFailure ==
    \E healthy \in BOOLEAN :   \* it ran for ITERATION_HEALTHY_THRESHOLD
        LET streak == IF healthy THEN 0 ELSE credentials
            spent == outcome = "credential" /\ streak + 1 >= MaxCredentialFailures
            terminal == outcome = "unrecoverable" \/ spent IN
        /\ credentials' = IF outcome = "credential" THEN streak + 1 ELSE streak
        /\ failing' = terminal
        /\ place' = IF terminal THEN "top" ELSE "backoff"

\* The match on the iteration's outcome.
AfterIteration ==
    \/ /\ shutdown
       /\ place' = "stopped" /\ UNCHANGED <<failing, credentials>>
    \/ /\ ~shutdown /\ (outcome = "ok" \/ pauseRequested)
       /\ place' = "top" /\ UNCHANGED <<failing, credentials>>
    \/ /\ ~shutdown /\ outcome # "ok" /\ ~pauseRequested
       /\ IF inner THEN HandleFailure
          ELSE failing' = TRUE /\ place' = "top" /\ UNCHANGED credentials

IterationReturned ==
    /\ place = "returned"
    /\ AfterIteration
    /\ UNCHANGED <<commandVars, shutdown, drained, bootstrap, iterationVars,
                   worldVars, life>>

\* The jittered sleep, or the shutdown that cuts it short.
Backoff ==
    /\ place = "backoff"
    /\ \/ place' = "top"
       \/ shutdown /\ place' = "stopped"
    /\ UNCHANGED <<commandVars, shutdown, localVars, iterationVars, worldVars, life>>
-------------------------------------------------------------------------------
LoopStep ==
    \/ Top \/ PauseDrain \/ ResumeDrain \/ Reconcile \/ WaitForCommandChange
    \/ IterationReturned \/ Backoff

LoopNext ==
    \/ Heartbeat \/ RequestShutdown \/ Restart
    \/ LoopStep
    \/ Bootstrap \/ (\E error \in OwnFailures : EngineFails(error))
    \/ PauseWatcherFires \/ PauseWatcherStops \/ EngineReturns

LoopSpec == LoopInit /\ [][LoopNext]_loopVars

-------------------------------------------------------------------------------
CountTypes ==
    /\ heartbeats \in 0..MaxHeartbeats /\ credentials \in 0..MaxCredentialFailures
    /\ dropper \in 0..life /\ life \in 1..(MaxRestarts + 1)

WorldTypes ==
    /\ command \in AgentCommand \cup {NoCommand}
    /\ cursor \in {"kept", "gone"} /\ owed \subseteq {"sweep", "snapshot"}

LoopTypes ==
    /\ place \in {"top", "pauseDrain", "resumeDrain", "reconcile", "waiting", "running",
               "returned", "backoff", "stopped", "failed"}
    /\ shutdown \in BOOLEAN /\ drained \in BOOLEAN /\ failing \in BOOLEAN
    /\ bootstrap \in BOOLEAN

IterationTypes ==
    /\ inner \in BOOLEAN /\ watching \in BOOLEAN /\ pauseRequested \in BOOLEAN
    /\ outcome \in Outcomes

\* Types of the loop's state.
TypeOK == CountTypes /\ WorldTypes /\ LoopTypes /\ IterationTypes

\* A process that dropped its cursor never runs an engine again before it
\* has swept the documents whose rows vanished in between and armed the
\* snapshot that creates a new cursor (run_cdc_loop "refusing an unsafe
\* bootstrap"), whatever the control plane says in the meantime.
NoUnreconciledIteration ==
    place = "running" /\ dropper = life =>
        "sweep" \notin owed /\ ("snapshot" \in owed => bootstrap)

Ended == place \in {"stopped", "failed"}

\* Once the commands have settled, a standing pause keeps the engine stopped:
\* neither a failure, a retry nor a drain racing with it brings it back
\* (spawn_pause_watcher, run_cdc_loop); and a shutdown has ended the loop, from a
\* pause, a back-off or a running engine.
Obeys == (LatestCommand.pause => place # "running") /\ (shutdown => Ended)

\* Without a pause the engine runs again and again, or the loop has ended.
Runs == LatestCommand.pause \/ place = "running" \/ Ended
===============================================================================
