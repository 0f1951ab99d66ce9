------------------------------ MODULE FleetAgent ------------------------------
(***************************************************************************)
(* The management agent beside a fleet-managed engine: the durable runtime *)
(* of crates/ventstream-fleet-client (runtime.rs, store.rs, and the        *)
(* control stream of transport.rs and protocol.rs) with the process        *)
(* adapter of crates/ventstream-managed/src/process.rs.                    *)
(*                                                                         *)
(* Desired revisions and operations are numbered by the control plane.  It *)
(* is outside the repository and may send any of them at any time: late,   *)
(* twice or out of order.  Every change of the management state is         *)
(* persisted before anything else happens, by an atomic rename, so the     *)
(* state in memory is the state on disk between any two steps.  An error   *)
(* of the store ends the process, like a crash before or after the write.  *)
(***************************************************************************)
EXTENDS Integers, Sequences

CONSTANTS
    NRevisions,    \* bound on desired revisions
    NOperations,   \* bound on operations
    Capacity,      \* MAX_OPERATION_RECEIPTS
    MaxFaults      \* bound on crashes and failures of the adapter

FleetAssumption ==
    /\ NRevisions \in Nat /\ NOperations \in Nat
    /\ Capacity \in Nat \ {0} /\ MaxFaults \in Nat

RunStates == {"running", "paused", "drained"}
\* "Inspect" is a Reconcile without delete_orphans.
Kinds == {"ConvergeState", "ApplyConfiguration", "Reconcile", "Inspect", "Rebootstrap"}
Terminal == {"Succeeded", "Failed"}
Operations == 1..NOperations

VARIABLES
    \* what the control plane decides, in this order
    wanted,      \* wanted[r]: run state of desired revision r
    plan,        \* plan[o]: kind of operation o and the revision it expects
    \* ManagementState, on disk
    desired,     \* revision of the accepted snapshot, 0 for none
    observed,
    applied,     \* applied_configuration
    last,        \* last_operation_sequence
    receipts,    \* operation_receipts
    \* the agent's process
    pc,          \* "down", "offline", "online", "accepted" or "adapter"
    active,      \* the operation it executes, 0 for the startup gate
    steps,       \* what the adapter call still has to do
    outcome,     \* "ok" or "failed"
    runState,    \* ProcessEngineAdapter.desired
    configured,  \* TokioEngineProcess.applied_configuration
    force,       \* force_next_bootstrap
    \* outside of it
    child,       \* "none", "starting", "ready" or "dead"
    childConfig, \* the configuration the child was started with
    childForced, \* it was started with VS_FLEET_FORCE_BOOTSTRAP
    staged,      \* the configuration file
    owed,        \* rebootstraps done whose snapshot has not been taken
    done,        \* done[o]: terminal state o ever had on disk, or "none"
    reported,    \* reported[o]: last update of o the control plane received;
                 \* none, Acknowledged and Running are all "open"
    faults

controlVars == <<wanted, plan>>
stateVars == <<desired, observed, applied, last, receipts>>
callVars == <<active, steps, outcome>>
adapterVars == <<runState, configured, force>>
childVars == <<child, childConfig, childForced>>
worldVars == <<childVars, staged, owed>>
historyVars == <<done, reported>>
vars == <<controlVars, stateVars, pc, callVars, adapterVars, worldVars,
          historyVars, faults>>

Alive == {"starting", "ready"}
DesiredRun == IF desired = 0 THEN "none" ELSE wanted[desired]
\* Every revision selects a configuration of its own, and its number is used
\* for both.
Revision(o) == plan[o].revision
Kind(o) == plan[o].kind

ReceiptOf(o) == {i \in 1..Len(receipts) : receipts[i].op = o}
HasReceipt(o, S) == \E i \in ReceiptOf(o) : receipts[i].state \in S
TerminalAt == {i \in 1..Len(receipts) : receipts[i].state \in Terminal}
WithState(o, s) == [i \in 1..Len(receipts) |->
    IF receipts[i].op = o THEN [op |-> o, state |-> s] ELSE receipts[i]]

Init ==
    /\ wanted \in [1..NRevisions -> RunStates]
    /\ plan \in [Operations -> [kind : Kinds, revision : 1..NRevisions]]
    /\ \A n, o \in Operations : n < o => plan[n].revision <= plan[o].revision
    /\ desired = 0 /\ observed = "stopped" /\ applied = 0 /\ last = 0 /\ receipts = <<>>
    /\ pc = "down" /\ active = 0 /\ steps = <<>> /\ outcome = "ok"
    /\ runState = "none" /\ configured = 0 /\ force = FALSE
    /\ child = "none" /\ childConfig = 0 /\ childForced = FALSE
    /\ staged = 0 /\ owed = {}
    /\ done = [o \in Operations |-> "none"]
    /\ reported = [o \in Operations |-> "open"]
    /\ faults = 0

(***************************************************************************)
(* The calls of the adapter, as the steps they take.                       *)
(***************************************************************************)
\* ProcessEngineAdapter::apply
ApplySteps(run) ==
    CASE run = "running" -> <<"start">>
      [] run = "drained" -> <<"stop", "drain">>
      [] OTHER -> <<"stop">>

\* A mutant: the engine is started whatever it was told to be.
RestoreAlways == <<"start">>

\* restore_running_if_desired
RestoreSteps == IF runState = "running" THEN <<"start">> ELSE <<>>

\* A mutant: the running engine is not stopped for a new configuration.
ConfigureStepsWithoutStop(revision) ==
    (IF configured = revision THEN <<>> ELSE <<"stage">>) \o RestoreSteps

ConfigureSteps(revision) ==
    (IF configured = revision THEN <<>> ELSE <<"stage", "stop">>) \o RestoreSteps

OperationSteps(o) ==
    CASE Kind(o) = "ConvergeState" -> ApplySteps(DesiredRun)
      [] Kind(o) = "ApplyConfiguration" -> ConfigureSteps(Revision(o))
      [] Kind(o) = "Reconcile" -> <<"stop", "reconcile">> \o RestoreSteps
      [] Kind(o) = "Inspect" -> RestoreSteps
      [] Kind(o) = "Rebootstrap" -> <<"stop", "rebootstrap">> \o RestoreSteps

Fails == faults < MaxFaults /\ faults' = faults + 1
At(step) == pc = "adapter" /\ steps # <<>> /\ Head(steps) = step
StepDone == steps' = Tail(steps) /\ UNCHANGED <<outcome, faults>>
StepFailed == steps' = <<>> /\ outcome' = "failed" /\ Fails
AdapterStill == UNCHANGED <<controlVars, stateVars, pc, active, runState, historyVars>>

NoChild == child' = "none" /\ childConfig' = 0 /\ childForced' = FALSE

\* stop_child: a child that cannot be stopped in order is killed when dropped.
StopChild ==
    /\ At("stop") /\ NoChild
    /\ StepDone \/ (child # "none" /\ StepFailed)
    /\ UNCHANGED <<configured, force, staged, owed>> /\ AdapterStill

\* run_maintenance_command with --fleet-drain-local-state or --fleet-reconcile.
Maintain ==
    /\ At("drain") \/ At("reconcile")
    /\ StepDone \/ StepFailed
    /\ UNCHANGED <<configured, force, worldVars>> /\ AdapterStill

\* rebootstrap: the cursor is gone even if the command fails afterwards, but
\* only a success arms the next start.
RebootstrapEngine ==
    /\ At("rebootstrap")
    /\ \/ StepDone /\ force' = TRUE /\ owed' = owed \cup {active}
       \/ StepFailed /\ UNCHANGED <<force, owed>>
    /\ UNCHANGED <<configured, childVars, staged>> /\ AdapterStill

\* stage_configuration_file: the engine's files are replaced one by one, the
\* envelope last, so that a failure may leave some of the new ones.
StageConfiguration ==
    /\ At("stage")
    /\ \/ StepDone /\ staged' = Revision(active) /\ configured' = Revision(active)
       \/ /\ StepFailed
          /\ staged' \in {staged, Revision(active)} /\ UNCHANGED configured
    /\ UNCHANGED <<force, childVars, owed>> /\ AdapterStill

\* start_child: a living child is only waited for.
StartChild ==
    /\ At("start")
    /\ \/ /\ child \in Alive
          /\ steps' = <<"wait">> \o Tail(steps) /\ UNCHANGED <<outcome, childVars, faults>>
       \/ /\ child \notin Alive
          /\ steps' = <<"settle">> \o Tail(steps) /\ UNCHANGED <<outcome, faults>>
          /\ child' = "starting" /\ childConfig' = staged /\ childForced' = force
       \/ child \notin Alive /\ NoChild /\ StepFailed
    /\ UNCHANGED <<configured, force, staged, owed>> /\ AdapterStill

\* wait_until_ready of a new child; one that does not get ready is stopped.
ChildReady ==
    /\ At("settle") /\ child \in Alive
    /\ child' = "ready" /\ force' = FALSE
    /\ owed' = IF childForced THEN {} ELSE owed
    /\ StepDone
    /\ UNCHANGED <<configured, childConfig, childForced, staged>> /\ AdapterStill

ChildNotReady ==
    /\ At("settle") /\ NoChild
    /\ \/ StepFailed
       \/ child = "dead" /\ steps' = <<>> /\ outcome' = "failed" /\ UNCHANGED faults
    /\ UNCHANGED <<configured, force, staged, owed>> /\ AdapterStill

\* wait_until_ready of a child that was alive already.
WaitReady ==
    /\ At("wait")
    /\ \/ child = "ready" /\ StepDone /\ UNCHANGED childVars
       \/ child = "ready" /\ StepFailed /\ UNCHANGED childVars
       \/ child = "dead" /\ steps' = <<>> /\ outcome' = "failed" /\ NoChild
          /\ UNCHANGED faults
    /\ UNCHANGED <<configured, force, staged, owed>> /\ AdapterStill

AdapterStep ==
    \/ StopChild \/ Maintain \/ RebootstrapEngine \/ StageConfiguration
    \/ StartChild \/ ChildReady \/ ChildNotReady \/ WaitReady

(***************************************************************************)
(* EngineAgent and the control stream.                                     *)
(***************************************************************************)
\* The process ends: memory is lost, and the child is told to stop, is killed
\* when its handle is dropped, or stops at the end of its standard input.
Down ==
    /\ pc' = "down" /\ active' = 0 /\ steps' = <<>> /\ outcome' = "ok"
    /\ runState' = "none" /\ configured' = 0 /\ force' = FALSE
    /\ NoChild

\* EngineAgent::load with apply_startup_gate
Start ==
    /\ pc = "down" /\ pc' = "adapter"
    /\ runState' = DesiredRun
    /\ steps' = ApplySteps(DesiredRun)
    /\ UNCHANGED <<controlVars, stateVars, active, outcome, configured, force, worldVars,
                   historyVars, faults>>

GateFinished ==
    /\ pc = "adapter" /\ active = 0 /\ steps = <<>>
    /\ \/ /\ outcome = "ok" /\ pc' = "offline"
          /\ observed' = IF runState = "none" THEN "stopped" ELSE runState
          /\ UNCHANGED <<callVars, adapterVars, childVars>>
       \/ outcome = "failed" /\ observed' = "error" /\ Down
    /\ UNCHANGED <<controlVars, desired, applied, last, receipts, staged, owed,
                   historyVars, faults>>

\* accept_desired_state: stale and duplicate snapshots change nothing.
AcceptDesiredState(r) == desired' = IF r > desired THEN r ELSE desired

OnlyDesired == UNCHANGED <<controlVars, observed, applied, last, receipts, callVars,
                           adapterVars, worldVars, historyVars, faults>>

\* run_session up to the server hello, which may carry a snapshot.
Connect ==
    /\ pc = "offline" /\ pc' = "online"
    /\ \E r \in 0..NRevisions : AcceptDesiredState(r)
    /\ OnlyDesired

ReceiveDesired ==
    /\ pc = "online" /\ UNCHANGED pc
    /\ \E r \in 1..NRevisions : AcceptDesiredState(r)
    /\ OnlyDesired

Disconnect ==
    /\ pc = "online" /\ pc' = "offline"
    /\ UNCHANGED <<controlVars, stateVars, callVars, adapterVars, worldVars, historyVars,
                   faults>>

\* An update follows the write of the receipt and is lost with the stream.
Report(o, state) ==
    \/ reported' = [reported EXCEPT ![o] = IF state \in Terminal THEN state ELSE "open"]
    \/ UNCHANGED reported

\* parse_agent_operation and validate_operation_desired
Deliverable(o) == pc = "online" /\ desired = Revision(o)

\* make_receipt_capacity drops the oldest terminal receipt.
HasRoom == Len(receipts) < Capacity \/ TerminalAt # {}

\* A mutant: nothing is dropped.
Untrimmed == receipts

Trimmed ==
    IF Len(receipts) < Capacity THEN receipts
    ELSE [i \in 1..(Len(receipts) - 1) |->
            receipts[IF TerminalAt \cap 1..i = {} THEN i ELSE i + 1]]

\* On to apply_operation.
Accepted(o) ==
    /\ pc' = "accepted" /\ active' = o
    /\ UNCHANGED <<controlVars, desired, observed, applied, steps, outcome, adapterVars,
                   worldVars, done, faults>>

\* A mutant: only the receipts tell which operations were seen.
AcknowledgeUnordered(o) ==
    /\ Deliverable(o) /\ ReceiptOf(o) = {} /\ HasRoom
    /\ last' = o
    /\ receipts' = Append(Trimmed, [op |-> o, state |-> "Acknowledged"])
    /\ Report(o, "Acknowledged")
    /\ Accepted(o)

\* execute_convergence_with_updates: an operation without a receipt.
Acknowledge(o) ==
    /\ Deliverable(o) /\ ReceiptOf(o) = {} /\ o > last /\ HasRoom
    /\ last' = o
    /\ receipts' = Append(Trimmed, [op |-> o, state |-> "Acknowledged"])
    /\ Report(o, "Acknowledged")
    /\ Accepted(o)

\* A mutant: an operation that was running is not executed again.
ReplayAcknowledged(o) ==
    /\ Deliverable(o) /\ HasReceipt(o, {"Acknowledged"})
    /\ Report(o, "Acknowledged")
    /\ UNCHANGED <<last, receipts>>
    /\ Accepted(o)

\* A mutant: any operation that is delivered again is executed again.
ReplayAny(o) ==
    /\ Deliverable(o) /\ ReceiptOf(o) # {}
    /\ Report(o, "Running")
    /\ UNCHANGED <<last, receipts>>
    /\ Accepted(o)

\* One with a receipt that an interruption left nonterminal.
Replay(o) ==
    /\ Deliverable(o) /\ HasReceipt(o, {"Acknowledged", "Running"})
    /\ Report(o, "Running")
    /\ UNCHANGED <<last, receipts>>
    /\ Accepted(o)

\* One with a terminal receipt is only reported again.
ReplayTerminal(o) ==
    /\ Deliverable(o)
    /\ \E s \in Terminal : HasReceipt(o, {s}) /\ Report(o, s)
    /\ UNCHANGED <<controlVars, stateVars, pc, callVars, adapterVars, worldVars, done,
                   faults>>

\* apply_operation up to the call of the adapter.
StartOperation ==
    /\ pc = "accepted" /\ pc' = "adapter"
    /\ receipts' = WithState(active, "Running")
    /\ Report(active, "Running")
    /\ steps' = OperationSteps(active)
    /\ IF Kind(active) = "ConvergeState"
       THEN observed' = "starting" /\ runState' = DesiredRun
       ELSE UNCHANGED <<observed, runState>>
    /\ UNCHANGED <<controlVars, desired, applied, last, active, outcome, configured, force,
                   worldVars, done, faults>>

\* A mutant: the engine's state is not touched by a failed operation.
FinishKeepingObserved ==
    LET verdict == IF outcome = "ok" THEN "Succeeded" ELSE "Failed"
        state == Kind(active) = "ConvergeState" /\ outcome = "ok"
    IN  /\ pc = "adapter" /\ active # 0 /\ steps = <<>>
        /\ receipts' = WithState(active, verdict)
        /\ done' = [done EXCEPT ![active] = verdict]
        /\ observed' = IF state THEN runState ELSE observed
        /\ UNCHANGED <<applied, reported>>
        /\ pc' = "offline" /\ active' = 0 /\ outcome' = "ok"
        /\ UNCHANGED <<controlVars, desired, last, steps, adapterVars, worldVars, faults>>

\* The rest of apply_operation.  A report that cannot be queued ends the session.
FinishOperation ==
    LET verdict == IF outcome = "ok" THEN "Succeeded" ELSE "Failed"
    IN  /\ pc = "adapter" /\ active # 0 /\ steps = <<>>
        /\ receipts' = WithState(active, verdict)
        /\ done' = [done EXCEPT ![active] = verdict]
        /\ observed' = CASE outcome = "failed" -> "error"
                         [] outcome = "ok" /\ Kind(active) = "ConvergeState" -> runState
                         [] OTHER -> observed
        /\ applied' = IF outcome = "ok" /\ Kind(active) = "ApplyConfiguration"
                      THEN Revision(active) ELSE applied
        /\ Report(active, verdict)
        /\ pc' \in {"online", "offline"}
        /\ active' = 0 /\ outcome' = "ok"
        /\ UNCHANGED <<controlVars, desired, last, steps, adapterVars, worldVars, faults>>

Ended == UNCHANGED <<controlVars, stateVars, owed, historyVars>>

\* An instruction that is expired, does not match the desired state, is out of
\* order or finds no room for its receipt ends the agent.
Reject ==
    /\ pc = "online" /\ Down
    /\ Ended /\ UNCHANGED <<staged, faults>>

\* A crash, a shutdown or an error of the store, at any point.
Crash ==
    /\ pc # "down" /\ Down
    /\ \/ UNCHANGED staged
       \/ At("stage") /\ staged' = Revision(active)
    /\ Ended /\ Fails

ChildDies ==
    /\ child \in Alive /\ child' = "dead" /\ Fails
    /\ UNCHANGED <<controlVars, stateVars, pc, callVars, adapterVars, childConfig,
                   childForced, staged, owed, historyVars>>

AgentStep ==
    \/ AdapterStep \/ Start \/ GateFinished \/ Connect \/ StartOperation
    \/ FinishOperation

Deliver(o) == Acknowledge(o) \/ Replay(o) \/ ReplayTerminal(o)

Next ==
    \/ AgentStep
    \/ ReceiveDesired \/ Disconnect \/ Reject \/ Crash \/ ChildDies
    \/ \E o \in Operations : Deliver(o)

Spec == Init /\ [][Next]_vars

-----------------------------------------------------------------------------
\* Types, and the shape of the state file that persist() writes: receipts in
\* sequence order, one per operation, within the capacity and the cursor.
TypeOK ==
    /\ desired \in 0..NRevisions /\ applied \in 0..desired /\ last \in 0..NOperations
    /\ observed \in RunStates \cup {"stopped", "starting", "error"}
    /\ Len(receipts) <= Capacity
    /\ \A i \in 1..Len(receipts) :
         /\ receipts[i].op \in 1..last
         /\ receipts[i].state \in Terminal \cup {"Acknowledged", "Running"}
         /\ \A j \in 1..(i - 1) : receipts[j].op < receipts[i].op
    /\ pc \in {"down", "offline", "online", "accepted", "adapter"}
    /\ active \in 0..NOperations
    /\ child \in Alive \cup {"none", "dead"}
    /\ childConfig \in 0..staged /\ staged \in 0..desired /\ configured \in 0..staged

\* An operation that reached a verdict on disk is never executed again, whatever
\* the control plane redelivers after crashes and lost reports, and although its
\* receipt may have been dropped for another one; and the control plane never sees
\* a verdict change.
OperationStep ==
    /\ active' # active /\ active' # 0 => done[active'] = "none"
    /\ \A o \in Operations : reported[o] # "open" => reported'[o] = reported[o]

\* The agent executes no operation after its verdict and never takes one back.
OperationsOnce == [][OperationStep]_vars

\* Once the operation that pauses or drains a revision has succeeded, no engine
\* runs until a newer revision is accepted: not after a crash, a reconnect, a
\* reconciliation, a rebootstrap or a new configuration.
PauseHolds ==
    (\E o \in Operations :
       /\ Kind(o) = "ConvergeState" /\ done[o] = "Succeeded"
       /\ Revision(o) = desired /\ DesiredRun # "running")
    => child \notin Alive

\* Between operations the reported state tells whether an engine runs.
ObservedMatchesEngine ==
    pc \in {"offline", "online"} =>
      /\ observed = "running" => child \in {"ready", "dead"}
      /\ observed \in {"paused", "drained", "stopped"} => child = "none"
      /\ observed # "starting"

\* Once an ApplyConfiguration has succeeded and until the next one is accepted,
\* an engine that runs was started with its configuration, in spite of crashes,
\* earlier attempts that failed half-way and the shortcut for a configuration
\* that was staged before.
AppliedConfigurationRuns ==
    \A o \in Operations :
      (/\ Kind(o) = "ApplyConfiguration" /\ done[o] = "Succeeded"
       /\ \A n \in (o + 1)..last : Kind(n) # "ApplyConfiguration")
      => (child \in Alive => childConfig = Revision(o))

\* Between operations the state the agent reports tells whether an engine runs and
\* with which configuration, and the state file keeps its shape.
ReportedIsTrue == ObservedMatchesEngine /\ AppliedConfigurationRuns /\ TypeOK

\* An operation whose receipt is on disk has a verdict, or a newer revision
\* supersedes it.
Settled ==
    \A o \in Operations :
      HasReceipt(o, {"Acknowledged", "Running"}) => done[o] # "none" \/ desired # Revision(o)

==============================================================================
