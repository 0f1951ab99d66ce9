------------------------------ MODULE MCRuntime ------------------------------
(***************************************************************************)
(* The loops an engine and its manager run on, one per behaviour (kind).   *)
(*                                                                         *)
(* dispatcher: three events through batches of at most two, two writes in  *)
(* flight: a snapshot row without a mark, a barrier whose mark is the one  *)
(* the source waits for, and a row.  The last two are larger than the      *)
(* smallest byte limit and together than the largest, so a batch is cut by *)
(* size as well as by count.                                               *)
(* memory: a budget of eight with events of two, the largest charge it     *)
(* allows: at normal pressure three inputs fill the input share, under     *)
(* high pressure one does.                                                 *)
(* loop: a few heartbeats and one restart, enough for a pause, an          *)
(* invalidated cursor, a resume and a failure racing with each of them.    *)
(* agent: two desired revisions that differ and two operations of any      *)
(* kinds, room for one receipt, and one crash or failure.                  *)
(* identity: certificates of six half-days, a lead floor of two, outages   *)
(* of one and two mishaps, over the time of a few renewals.                *)
(***************************************************************************)
EXTENDS Dispatcher, FiniteSetsExt

CONSTANTS
    NoCommand,   \* the command slot before the first heartbeat
    Loops        \* the loops this run is about

VARIABLES
    kind,
    transform, used, pressure, recovering, samples, st, want, limit, seen, told,
    permit, waiters, input, work, output, left,
    command, heartbeats, stop, place, drained, failing, credentials, bootstrap,
    inner, watching, pauseRequested, ended, cursor, owed, dropper, life,
    wanted, plan, desired, observed, applied, last, receipts, phase, active, steps, verdict,
    runState, configured, force, child, childConfig, childForced, staged, rebuilds, done,
    reported, faults,
    disk, held, renewing, answer, endpoint, step, due, now, up, outage, minted, certified,
    mishaps, lapses

M == INSTANCE MemoryBudget WITH
        Producers <- {"source", "resync"}, T <- "transform", HardLimit <- 8, MaxEvent <- 4,
        Charges <- {2}, BusCapacity <- 2, MaxEvents <- 4, Target <- 65, High <- 75,
        Critical <- 85, Hysteresis <- 5, Utilizations <- {50, 62, 68, 72, 82, 90}, MaxSamples <- 2
L == INSTANCE Supervisor WITH
        SnapshotMode <- FALSE, MaxCredentialFailures <- 2, MaxHeartbeats <- 3, MaxRestarts <- 1,
        shutdown <- stop, outcome <- ended
A == INSTANCE FleetAgent WITH
        NRevisions <- 2, NOperations <- 2, Capacity <- 1, MaxFaults <- 1,
        pc <- phase, outcome <- verdict, owed <- rebuilds

I == INSTANCE AgentIdentity WITH
        Lifetime <- 6, LeadFloor <- 2, MaxTime <- 14, MaxOutage <- 1, MaxFaults <- 2,
        work <- renewing, pc <- step, faults <- mishaps

ASSUME M!MemoryAssumption /\ L!SupervisorAssumption /\ A!FleetAssumption /\ I!IdentityAssumption

MCMark == <<0, 10, 20>>
MCBarriers == {2}
MCSize == <<1, 2, 2>>
MCByteLimits == {1, 3}

memoryVars == <<transform, used, pressure, recovering, samples, st, want, limit, seen, told,
                permit, waiters, input, work, output, left>>
loopVars == <<command, heartbeats, stop, place, drained, failing, credentials, bootstrap,
              inner, watching, pauseRequested, ended, cursor, owed, dropper, life>>
agentVars == <<wanted, plan, desired, observed, applied, last, receipts, phase, active, steps,
               verdict, runState, configured, force, child, childConfig, childForced, staged,
               rebuilds, done, reported, faults>>
identityVars == <<disk, held, renewing, answer, endpoint, step, due, now, up, outage, minted,
                  certified, mishaps, lapses>>
runtimeVars == <<vars, kind, memoryVars, loopVars, agentVars, identityVars>>

\* A component that does not run stays in one of its initial states.
RuntimeInit ==
    /\ kind \in Loops
    /\ Init /\ M!Init /\ L!LoopInit /\ A!Init /\ I!Init
    /\ kind # "dispatcher" => byteLimit = Min(ByteLimits)
    /\ kind # "memory" => ~transform
    /\ kind # "loop" => cursor = "kept"
    /\ kind = "agent" => wanted[1] # wanted[2]
    /\ kind # "agent" => /\ \A r \in 1..2 : wanted[r] = "running"
                         /\ \A o \in 1..2 : plan[o] = [kind |-> "Inspect", revision |-> 1]

RuntimeNext ==
    /\ UNCHANGED kind
    /\ \/ kind = "dispatcher" /\ Next /\ UNCHANGED <<memoryVars, loopVars, agentVars, identityVars>>
       \/ kind = "memory" /\ M!Next /\ UNCHANGED <<vars, loopVars, agentVars, identityVars>>
       \/ kind = "loop" /\ L!LoopNext /\ UNCHANGED <<vars, memoryVars, agentVars, identityVars>>
       \/ kind = "agent" /\ A!Next /\ UNCHANGED <<vars, memoryVars, loopVars, identityVars>>
       \/ kind = "identity" /\ I!Next /\ UNCHANGED <<vars, memoryVars, loopVars, agentVars>>

\* Tasks are polled, timers fire and calls return: nothing obliges a write to
\* succeed, an engine to fail or a control plane to decide anything.  The agent
\* restarts and reconnects, and the control plane sends an operation it has no
\* verdict on again and again.
RuntimeSpec ==
    /\ RuntimeInit /\ [][RuntimeNext]_runtimeVars
    /\ WF_vars(kind = "dispatcher" /\ RunTask)
    /\ \A s \in Seqs : WF_vars(kind = "dispatcher" /\ WriteTask(s))
    /\ \A p \in {"source", "resync"} :
        WF_memoryVars(kind = "memory" /\ (M!Reserve(p) \/ M!Publish(p)))
    /\ WF_memoryVars(kind = "memory" /\ M!TransformTask)
    /\ WF_memoryVars(kind = "memory" /\ M!SinkDone)
    /\ WF_loopVars(kind = "loop" /\ L!LoopStep)
    /\ WF_loopVars(kind = "loop" /\ L!EngineStops)
    /\ WF_loopVars(kind = "loop" /\ L!PauseWatcherFires)
    /\ WF_agentVars(kind = "agent" /\ A!AgentStep)
    /\ \A o \in 1..2 : SF_agentVars(kind = "agent" /\ A!Replay(o))

-----------------------------------------------------------------------------
\* MemoryBudget: used_bytes is exactly what live events are charged, and no more
\* than the hard limit, in every interleaving of the reservation loops; the
\* Notify's queue holds the tasks that sleep and were not told, each once.
AccountingExact == M!AccountingExact /\ M!TypeOK

\* run_cdc_loop: no engine runs over a cursor its process dropped and did not
\* reconcile, and the loop's state keeps its types.
NoUnreconciledIteration == L!NoUnreconciledIteration /\ L!TypeOK

\* Events, samples, heartbeats and restarts are finite here, so that what must
\* follow every request shows in where a behaviour ends up.

\* Every published event is handled or the dispatcher returns, and a cancelled
\* dispatcher returns.
DispatcherSettles == <>[](kind = "dispatcher" => Settled)

\* reserve: every wait for memory that is there is over, no wakeup is lost.
MemoryIsGranted == <>[](kind = "memory" => M!Served)

\* Comment of MemoryBudget::new: "a transform can always make progress from
\* reserved headroom even when its input queue is full".
TransformProgresses == <>[](kind = "memory" => ~M!Waiting("transform"))

\* run_cdc_loop follows the last command: a pause or a shutdown stops the engine
\* for good, without one it keeps running.
CommandsTakeEffect ==
    <>[](kind = "loop" => L!Obeys) /\ []<>(kind = "loop" => L!Runs)

\* The agent: no engine runs once a pause or a drain has succeeded, until a newer
\* revision.
PauseHolds == A!PauseHolds

\* Between operations the state the agent reports tells whether an engine runs and
\* with which configuration, and the state file keeps its shape.
ReportedIsTrue == A!ReportedIsTrue

\* The agent executes no operation after its verdict and never takes one back.
OperationsOnce == A!OperationsOnce

\* The agent's identity: keys match their certificates, the file never expires while
\* every outage is shorter than the lead floor, the control stream follows the file,
\* and a retried renewal asks for one key.
IdentityHolds == I!IdentityHolds

\* An accepted operation gets a verdict or is superseded by a newer revision.
OperationsSettle == <>[]A!Settled
==============================================================================
