-------------------------- MODULE FleetAgentProofs --------------------------
(***************************************************************************)
(* The management agent keeps its promises for any number of revisions and *)
(* operations, any receipt capacity and any number of faults: a paused     *)
(* engine stays down, what the agent reports is true, and no operation is  *)
(* executed after its verdict.                                             *)
(***************************************************************************)
EXTENDS FleetAgent, SequenceTheorems, TLAPS

Receipts == [op : Operations, state : Terminal \cup {"Acknowledged", "Running"}]
StepNames == {"stop", "drain", "reconcile", "rebootstrap", "stage", "start", "settle", "wait"}
StartSteps == {"start", "settle", "wait"}

\* What the control plane decided.
Plans ==
    /\ wanted \in [1..NRevisions -> RunStates]
    /\ plan \in [Operations -> [kind : Kinds, revision : 1..NRevisions]]
    /\ \A n, o \in Operations : n < o => plan[n].revision <= plan[o].revision

\* The management state: receipts in order and within the capacity.
Files ==
    /\ desired \in 0..NRevisions /\ applied \in 0..desired /\ last \in 0..NOperations
    /\ observed \in RunStates \cup {"stopped", "starting", "error"}
    /\ receipts \in Seq(Receipts) /\ Len(receipts) <= Capacity
    /\ \A i \in 1..Len(receipts) : receipts[i].op <= last
    /\ \A i \in 1..Len(receipts) : \A j \in 1..(i - 1) : receipts[j].op < receipts[i].op

\* A verdict is on the receipt for as long as there is one, and what the control plane
\* knows; operations beyond the cursor have none.
Verdicts ==
    /\ done \in [Operations -> Terminal \cup {"none"}]
    /\ reported \in [Operations -> Terminal \cup {"open"}]
    /\ \A i \in 1..Len(receipts) :
        done[receipts[i].op] = IF receipts[i].state \in Terminal THEN receipts[i].state
                               ELSE "none"
    /\ \A o \in Operations : done[o] # "none" => o <= last /\ Revision(o) <= desired
    /\ \A o \in Operations : reported[o] # "open" => reported[o] = done[o]

\* The operation under way is one the desired state asks for, and open.
Calls ==
    /\ pc \in {"down", "offline", "online", "accepted", "adapter"}
    /\ active \in 0..NOperations /\ outcome \in {"ok", "failed"}
    /\ runState \in RunStates \cup {"none"}
    /\ pc = "accepted" => active # 0
    /\ pc \notin {"accepted", "adapter"} => active = 0
    /\ pc # "adapter" => outcome = "ok" /\ steps = <<>>
    /\ active # 0 => active <= last /\ Revision(active) = desired /\ done[active] = "none"

\* The steps of a call: only a call for a running engine starts one, at its end; a
\* configuration is staged first, and the engine is stopped after it.
Shape ==
    /\ steps \in Seq(StepNames)
    /\ outcome = "failed" => steps = <<>>
    /\ \A i \in 1..Len(steps) : steps[i] \in StartSteps => i = Len(steps) /\ runState = "running"
    /\ \A i \in 1..Len(steps) : steps[i] = "stage" =>
        /\ i = 1 /\ Len(steps) > 1 /\ steps[2] = "stop"
        /\ active # 0 /\ Kind(active) = "ApplyConfiguration" /\ configured # desired

Converging == pc = "adapter" /\ (active = 0 \/ Kind(active) = "ConvergeState")

\* An engine runs only if it was told to, or the call that stops it has begun; a call
\* for a running engine that does not fail leaves one behind.
Engine ==
    /\ child \in {"none", "starting", "ready", "dead"}
    /\ pc = "down" => child = "none" /\ runState = "none"
    /\ child = "starting" => steps # <<>> /\ Head(steps) = "settle"
    /\ runState # "running" => child = "none" \/ (steps # <<>> /\ Head(steps) = "stop")
    /\ pc = "adapter" /\ runState = "running" /\ outcome = "ok" =>
        \/ steps # <<>> /\ steps[Len(steps)] \in StartSteps
        \/ steps = <<>> /\ child \in {"ready", "dead"}

\* Outside of a converging call the reported state is the one that was asked for.
Observed ==
    /\ pc # "down" /\ ~Converging =>
        /\ observed # "starting"
        /\ observed \in RunStates => runState = observed
        /\ observed = "stopped" => runState = "none"
    /\ pc \notin {"down", "adapter"} /\ observed = "running" => child \in {"ready", "dead"}
    /\ Converging => runState = DesiredRun

\* The configuration the process believes in is the staged one, and the engine's.
Configured ==
    /\ childConfig \in 0..staged /\ staged \in 0..desired /\ configured \in 0..staged
    /\ configured # 0 /\ configured = desired =>
        /\ staged = configured
        /\ child # "none" => childConfig = configured \/ (steps # <<>> /\ Head(steps) = "stop")
    /\ pc = "adapter" /\ active # 0 /\ Kind(active) = "ApplyConfiguration" /\ outcome = "ok" =>
        configured = desired \/ (steps # <<>> /\ Head(steps) = "stage")

\* The last configuration that was applied stays staged.
LastApplied(o) ==
    /\ Kind(o) = "ApplyConfiguration" /\ done[o] = "Succeeded"
    /\ \A n \in (o + 1)..last : Kind(n) # "ApplyConfiguration"
Staged ==
    \A o \in Operations : LastApplied(o) =>
        staged = Revision(o) /\ (child \in Alive => childConfig = Revision(o))

\* A pause that succeeded is the run state of the process.
Paused ==
    \A o \in Operations :
        Kind(o) = "ConvergeState" /\ done[o] = "Succeeded" /\ Revision(o) = desired =>
            /\ runState \in {"none", DesiredRun}
            /\ DesiredRun # "running" => child = "none"

IInv == /\ Plans /\ Files /\ Verdicts /\ Calls /\ Shape /\ Engine /\ Observed
        /\ Configured /\ Staged /\ Paused

-----------------------------------------------------------------------------
\* What the parts of the invariant are about.
LEMMA TailFacts ==
    ASSUME NEW S, NEW s \in Seq(S), s # <<>>
    PROVE  /\ Tail(s) \in Seq(S) /\ Len(s) \in Nat \ {0} /\ Len(Tail(s)) = Len(s) - 1
           /\ \A i \in 1..(Len(s) - 1) : Tail(s)[i] = s[i + 1]
           /\ Head(s) = s[1] /\ Head(s) \in S
  OBVIOUS

LEMMA InitIInv == ASSUME FleetAssumption, Init PROVE IInv
  <1>1. Plans  BY Zenon DEF Init, Plans
  <1>2. Files /\ Verdicts
    BY DEF Init, Files, Verdicts, FleetAssumption, Receipts, Operations
  <1>3. Calls /\ Shape  BY DEF Init, Calls, Shape, FleetAssumption
  <1>4. Engine /\ Observed  BY Zenon DEF Init, Engine, Observed, Converging, DesiredRun
  <1>5. Configured  BY DEF Init, Configured
  <1>6. Staged /\ Paused  BY Zenon DEF Init, Staged, LastApplied, Paused
  <1> QED  BY Zenon, <1>1, <1>2, <1>3, <1>4, <1>5, <1>6 DEF IInv

LEMMA IInvImplies == ASSUME FleetAssumption, IInv PROVE PauseHolds /\ ReportedIsTrue
  <1> USE DEF IInv
  <1>1. PauseHolds  BY Zenon DEF Paused, PauseHolds, Alive
  <1>2. ObservedMatchesEngine
    BY Zenon DEF Observed, Engine, Calls, Converging, ObservedMatchesEngine, RunStates
  <1>3. AppliedConfigurationRuns  BY Zenon DEF Staged, LastApplied, AppliedConfigurationRuns
  <1>4. TypeOK
    <2>1. /\ desired \in 0..NRevisions /\ applied \in 0..desired /\ last \in 0..NOperations
          /\ observed \in RunStates \cup {"stopped", "starting", "error"}
          /\ Len(receipts) <= Capacity
      BY Zenon DEF Files
    <2>2. ASSUME NEW i \in 1..Len(receipts)
          PROVE  /\ receipts[i].op \in 1..last
                 /\ receipts[i].state \in Terminal \cup {"Acknowledged", "Running"}
                 /\ \A j \in 1..(i - 1) : receipts[j].op < receipts[i].op
      <3>1. receipts[i] \in Receipts  BY DEF Files
      <3> QED  BY <3>1 DEF Files, Receipts, Operations
    <2>3. /\ pc \in {"down", "offline", "online", "accepted", "adapter"}
          /\ active \in 0..NOperations /\ child \in Alive \cup {"none", "dead"}
          /\ childConfig \in 0..staged /\ staged \in 0..desired /\ configured \in 0..staged
      BY Zenon DEF Calls, Engine, Alive, Configured
    <2> QED  BY Zenon, <2>1, <2>2, <2>3 DEF TypeOK
  <1> QED  BY Zenon, <1>1, <1>2, <1>3, <1>4 DEF ReportedIsTrue

\* A step that decides nothing new about operations.
LEMMA OperationStepHolds ==
    ASSUME FleetAssumption, IInv, [Next]_vars PROVE OperationStep
  <1> USE DEF IInv
  <1>1. CASE active' = active /\ reported' = reported  BY Zenon, <1>1 DEF OperationStep
  <1>2. CASE active' = 0 /\ reported' = reported  BY Zenon, <1>2 DEF OperationStep
  <1>3. ASSUME NEW o \in Operations, NEW s \in Terminal \cup {"Acknowledged", "Running"},
               Report(o, s),
               done[o] = IF s \in Terminal THEN s ELSE "none"
        PROVE  \A n \in Operations : reported[n] # "open" => reported'[n] = reported[n]
    BY Zenon, <1>3 DEF Report, Verdicts, Terminal
  <1>4. ASSUME NEW o \in Operations, Acknowledge(o) \/ Replay(o) PROVE OperationStep
    <2>1. done[o] = "none"
      <3>1. CASE Acknowledge(o)
        BY <3>1 DEF Acknowledge, Verdicts, Files, Operations, FleetAssumption
      <3>2. CASE Replay(o)
        BY Zenon, <3>2 DEF Replay, HasReceipt, ReceiptOf, Verdicts, Terminal
      <3> QED  BY Zenon, <1>4, <3>1, <3>2
    <2>2. active' = o  BY Zenon, <1>4 DEF Acknowledge, Replay, Accepted
    <2>3. Report(o, "Acknowledged") \/ Report(o, "Running")
      BY Zenon, <1>4 DEF Acknowledge, Replay
    <2> QED  BY Zenon, <1>3, <2>1, <2>2, <2>3 DEF OperationStep, Terminal
  <1>5. ASSUME NEW o \in Operations, ReplayTerminal(o) PROVE OperationStep
    <2>1. PICK s \in Terminal : HasReceipt(o, {s}) /\ Report(o, s)
      BY Zenon, <1>5 DEF ReplayTerminal
    <2>2. done[o] = s  BY Zenon, <2>1 DEF HasReceipt, ReceiptOf, Verdicts
    <2>3. active' = active  BY Zenon, <1>5 DEF ReplayTerminal, callVars
    <2> QED  BY Zenon, <1>3, <2>1, <2>2, <2>3 DEF OperationStep
  <1>6. CASE StartOperation
    <2>1. active \in Operations /\ done[active] = "none" /\ active' = active
      BY <1>6 DEF StartOperation, Calls, Operations, FleetAssumption
    <2>2. Report(active, "Running")  BY Zenon, <1>6 DEF StartOperation
    <2> QED  BY Zenon, <1>3, <2>1, <2>2 DEF OperationStep, Terminal
  <1>7. CASE FinishOperation
    <2>1. active \in Operations /\ done[active] = "none" /\ active' = 0
      BY <1>7 DEF FinishOperation, Calls, Operations, FleetAssumption
    <2>2. \E s \in Terminal : Report(active, s)  BY Zenon, <1>7 DEF FinishOperation, Terminal
    <2> QED  BY Zenon, <2>1, <2>2 DEF OperationStep, Report, Verdicts, Terminal
  <1>8. AdapterStep => active' = active /\ reported' = reported
    BY Zenon DEF AdapterStep, StopChild, Maintain, RebootstrapEngine, StageConfiguration, StartChild,
           ChildReady, ChildNotReady, WaitReady, AdapterStill, historyVars
  <1>9. Start \/ Connect \/ ReceiveDesired \/ Disconnect \/ ChildDies \/ UNCHANGED vars
        => active' = active /\ reported' = reported
    BY Zenon DEF Start, Connect, OnlyDesired, ReceiveDesired, Disconnect, ChildDies, vars, callVars,
           historyVars
  <1>10. GateFinished \/ Reject \/ Crash
         => active' \in {0, active} /\ reported' = reported
    BY Zenon DEF GateFinished, Reject, Crash, Down, Ended, callVars, historyVars
  <1> QED
    BY Zenon, <1>1, <1>2, <1>4, <1>5, <1>6, <1>7, <1>8, <1>9, <1>10 DEF Next, AgentStep, Deliver

-----------------------------------------------------------------------------
\* A step of an adapter call touches neither the files nor what they say of operations.
LEMMA AdapterFrame ==
    ASSUME IInv, pc = "adapter", AdapterStill, outcome' \in {"ok", "failed"}
    PROVE  /\ Plans' /\ Files' /\ Verdicts' /\ Calls' /\ Observed'
           /\ UNCHANGED <<wanted, plan, desired, last, pc, active, runState, done>>
  <1>1. UNCHANGED <<wanted, plan, desired, observed, applied, last, receipts, pc, active,
                    runState, done, reported>>
    BY Zenon DEF AdapterStill, controlVars, stateVars, historyVars
  <1>2. Plans'  BY Zenon, <1>1 DEF IInv, Plans
  <1>3. Files'  BY Zenon, <1>1 DEF IInv, Files
  <1>4. Verdicts'  BY Zenon, <1>1 DEF IInv, Verdicts, Revision
  <1>5. Calls'  BY Zenon, <1>1 DEF IInv, Calls, Revision
  <1>6. Observed'  BY Zenon, <1>1 DEF IInv, Observed, Converging, DesiredRun, Kind
  <1> QED  BY Zenon, <1>1, <1>2, <1>3, <1>4, <1>5, <1>6

\* Steps that come after the first one of a call.
LEMMA RestOfSteps ==
    ASSUME NEW s \in Seq(StepNames), NEW t \in Seq(StepNames), NEW run \in BOOLEAN,
           Len(s) \in Nat \ {0}, Len(t) = Len(s) - 1,
           \A i \in 1..(Len(s) - 1) : t[i] = s[i + 1],
           \A i \in 1..Len(s) : s[i] \in StartSteps => i = Len(s) /\ run,
           \A i \in 1..Len(s) : s[i] = "stage" => i = 1
    PROVE  /\ \A i \in 1..Len(t) : t[i] \in StartSteps => i = Len(t) /\ run
           /\ \A i \in 1..Len(t) : t[i] # "stage"
           /\ t # <<>> => /\ s[1] \notin StartSteps /\ t[Len(t)] = s[Len(s)]
                         /\ Len(s) > 1 /\ t[1] = s[2]
           /\ t = <<>> => Len(s) = 1
  <1>1. ASSUME NEW i \in 1..Len(t)
        PROVE  i + 1 \in 1..Len(s) /\ i + 1 # 1 /\ t[i] = s[i + 1]
    OBVIOUS
  <1>2. \A i \in 1..Len(t) : t[i] \in StartSteps => i = Len(t) /\ run
    BY SMTT(30), <1>1
  <1>3. t # <<>> => Len(t) \in 1..Len(t) /\ Len(s) > 1 /\ 1 \in 1..Len(t)  OBVIOUS
  <1>4. t = <<>> => Len(s) = 1  OBVIOUS
  <1> QED  BY <1>1, <1>2, <1>3, <1>4

\* The rest of a call has the shape of a call.
LEMMA ShapeOfTail ==
    ASSUME IInv, steps # <<>>, steps' = Tail(steps), UNCHANGED <<runState, outcome>>
    PROVE  /\ Shape'
           /\ Head(steps) = steps[1] /\ Len(steps) \in Nat \ {0}
           /\ steps' # <<>> =>
                /\ Head(steps) \notin StartSteps /\ steps'[Len(steps')] = steps[Len(steps)]
                /\ Head(steps') = steps[2]
           /\ steps' = <<>> => Head(steps) = steps[Len(steps)]
  <1>1. steps \in Seq(StepNames)  BY Zenon DEF IInv, Shape
  <1>2. /\ steps' \in Seq(StepNames) /\ Len(steps) \in Nat \ {0} /\ Len(steps') = Len(steps) - 1
        /\ \A i \in 1..(Len(steps) - 1) : steps'[i] = steps[i + 1]
        /\ Head(steps) = steps[1]
    BY Zenon, <1>1, TailFacts
  <1>3. steps' # <<>> => Head(steps') = steps'[1]  BY Zenon, <1>2, TailFacts
  <1>4. \A i \in 1..Len(steps) : steps[i] = "stage" => i = 1  BY Zenon DEF IInv, Shape
  <1>5. \A i \in 1..Len(steps) : steps[i] \in StartSteps =>
          i = Len(steps) /\ runState = "running"
    BY Zenon DEF IInv, Shape
  <1>6. /\ \A i \in 1..Len(steps') : steps'[i] \in StartSteps =>
              i = Len(steps') /\ runState = "running"
        /\ \A i \in 1..Len(steps') : steps'[i] # "stage"
        /\ steps' # <<>> => /\ steps[1] \notin StartSteps
                           /\ steps'[Len(steps')] = steps[Len(steps)]
                           /\ steps'[1] = steps[2]
        /\ steps' = <<>> => Len(steps) = 1
    BY ZenonT(30), <1>1, <1>2, <1>4, <1>5, RestOfSteps
  <1>7. outcome # "failed"  BY Zenon DEF IInv, Shape
  <1>8. Shape'  BY Zenon, <1>2, <1>6, <1>7 DEF Shape
  <1> QED  BY Zenon, <1>2, <1>3, <1>6, <1>8

\* A step of a call that succeeds or fails.
LEMMA StepOfCall ==
    ASSUME IInv, pc = "adapter", AdapterStill, steps # <<>>,
           \/ steps' = Tail(steps) /\ outcome' = outcome
           \/ steps' = <<>> /\ outcome' = "failed"
    PROVE  /\ Plans' /\ Files' /\ Verdicts' /\ Calls' /\ Observed' /\ Shape'
           /\ UNCHANGED <<wanted, plan, desired, last, pc, active, runState, done>>
           /\ outcome = "ok"
           /\ steps' # <<>> => outcome' = "ok" /\ Head(steps) \notin StartSteps
           /\ Head(steps) = "stage" /\ outcome' = "ok" => steps' # <<>> /\ Head(steps') = "stop"
           /\ runState = "running" /\ outcome' = "ok" =>
                \/ steps' # <<>> /\ steps'[Len(steps')] \in StartSteps
                \/ steps' = <<>> /\ Head(steps) \in StartSteps
           /\ Head(steps) \in StartSteps => runState = "running" /\ Len(steps) = 1
           /\ Head(steps) = "stage" => /\ active # 0 /\ Kind(active) = "ApplyConfiguration"
                                       /\ configured # desired
  <1>1. /\ steps \in Seq(StepNames) /\ Len(steps) \in Nat \ {0} /\ Head(steps) = steps[1]
    BY Zenon, TailFacts DEF IInv, Shape
  <1>2. 1 \in 1..Len(steps)  BY <1>1
  <1>3. outcome = "ok" /\ outcome' \in {"ok", "failed"}  BY Zenon DEF IInv, Calls, Shape
  <1>4. /\ Plans' /\ Files' /\ Verdicts' /\ Calls' /\ Observed'
        /\ UNCHANGED <<wanted, plan, desired, last, pc, active, runState, done>>
    BY Zenon, <1>3, AdapterFrame
  <1>5. runState = "running" => steps[Len(steps)] \in StartSteps
    BY Zenon, <1>3 DEF IInv, Engine
  <1>6. /\ Head(steps) \in StartSteps => runState = "running" /\ Len(steps) = 1
        /\ Head(steps) = "stage" => /\ active # 0 /\ Kind(active) = "ApplyConfiguration"
                                    /\ configured # desired /\ steps[2] = "stop"
                                    /\ Len(steps) > 1
    BY Zenon, <1>1, <1>2 DEF IInv, Shape
  <1>7. CASE steps' = Tail(steps) /\ outcome' = outcome
    <2>1. /\ Shape'
          /\ steps' # <<>> =>
                /\ Head(steps) \notin StartSteps /\ steps'[Len(steps')] = steps[Len(steps)]
                /\ Head(steps') = steps[2]
          /\ steps' = <<>> => Head(steps) = steps[Len(steps)]
      BY Zenon, <1>4, <1>7, ShapeOfTail
    <2>2. Len(steps) > 1 => steps' # <<>>
      <3>1. Len(Tail(steps)) = Len(steps) - 1  BY Zenon, <1>1, TailFacts
      <3> QED  BY SMTT(30), <1>1, <1>7, <3>1
    <2> QED  BY Zenon, <1>3, <1>4, <1>5, <1>6, <1>7, <2>1, <2>2
  <1>8. CASE steps' = <<>> /\ outcome' = "failed"
    <2>1. Shape'  BY <1>8 DEF Shape
    <2> QED  BY Zenon, <1>3, <1>4, <1>6, <1>8, <2>1
  <1> QED  BY Zenon, <1>7, <1>8

LEMMA StopChildKeeps == ASSUME FleetAssumption, IInv, StopChild PROVE IInv'
  <1>1. /\ pc = "adapter" /\ steps # <<>> /\ Head(steps) = "stop" /\ AdapterStill
        /\ child' = "none" /\ childConfig' = 0 /\ UNCHANGED <<configured, staged>>
        /\ \/ steps' = Tail(steps) /\ outcome' = outcome
           \/ steps' = <<>> /\ outcome' = "failed"
    BY Zenon DEF StopChild, At, NoChild, StepDone, StepFailed
  <1>2. /\ Plans' /\ Files' /\ Verdicts' /\ Calls' /\ Observed' /\ Shape'
        /\ UNCHANGED <<wanted, plan, desired, last, pc, active, runState, done>>
        /\ outcome = "ok"
        /\ runState = "running" /\ outcome' = "ok" =>
             \/ steps' # <<>> /\ steps'[Len(steps')] \in StartSteps
             \/ steps' = <<>> /\ Head(steps) \in StartSteps
    BY Zenon, <1>1, StepOfCall
  <1>3. Engine'  BY Zenon, <1>1, <1>2 DEF Engine, StartSteps
  <1>4. Configured'  BY <1>1, <1>2 DEF IInv, Configured, Kind
  <1>5. Staged'  BY Zenon, <1>1, <1>2 DEF IInv, Staged, LastApplied, Kind, Revision, Alive
  <1>6. Paused'  BY Zenon, <1>1, <1>2 DEF IInv, Paused, DesiredRun, Kind, Revision
  <1> QED  BY Zenon, <1>2, <1>3, <1>4, <1>5, <1>6 DEF IInv

\* Steps that leave the engine and the configuration alone.
LEMMA QuietStepKeeps ==
    ASSUME FleetAssumption, IInv, pc = "adapter", AdapterStill, steps # <<>>,
           Head(steps) \in {"drain", "reconcile", "rebootstrap"},
           \/ steps' = Tail(steps) /\ outcome' = outcome
           \/ steps' = <<>> /\ outcome' = "failed",
           UNCHANGED <<child, childConfig, configured, staged>>
    PROVE  IInv'
  <1>1. /\ Plans' /\ Files' /\ Verdicts' /\ Calls' /\ Observed' /\ Shape'
        /\ UNCHANGED <<wanted, plan, desired, last, pc, active, runState, done>>
        /\ outcome = "ok"
        /\ runState = "running" /\ outcome' = "ok" =>
             \/ steps' # <<>> /\ steps'[Len(steps')] \in StartSteps
             \/ steps' = <<>> /\ Head(steps) \in StartSteps
    BY Zenon, StepOfCall
  <1>2. Engine'  BY Zenon, <1>1 DEF IInv, Engine, StartSteps
  <1>3. Configured'  BY Zenon, <1>1 DEF IInv, Configured, Kind
  <1>4. Staged'  BY Zenon, <1>1 DEF IInv, Staged, LastApplied, Kind, Revision
  <1>5. Paused'  BY Zenon, <1>1 DEF IInv, Paused, DesiredRun, Kind, Revision
  <1> QED  BY Zenon, <1>1, <1>2, <1>3, <1>4, <1>5 DEF IInv

LEMMA MaintainKeeps ==
    ASSUME FleetAssumption, IInv, Maintain \/ RebootstrapEngine PROVE IInv'
  <1>1. /\ pc = "adapter" /\ AdapterStill /\ steps # <<>>
        /\ Head(steps) \in {"drain", "reconcile", "rebootstrap"}
        /\ UNCHANGED <<child, childConfig, configured, staged>>
        /\ \/ steps' = Tail(steps) /\ outcome' = outcome
           \/ steps' = <<>> /\ outcome' = "failed"
    BY Zenon DEF Maintain, RebootstrapEngine, At, StepDone, StepFailed, worldVars, childVars
  <1> QED  BY Zenon, <1>1, QuietStepKeeps

\* While a configuration is being staged, one that counts as applied is the same one.
LEMMA StagingIsNewest ==
    ASSUME FleetAssumption, IInv, active # 0, Kind(active) = "ApplyConfiguration",
           NEW o \in Operations, LastApplied(o)
    PROVE  Revision(o) = desired
  <1>1. /\ active \in Operations /\ active <= last /\ Revision(active) = desired
        /\ done[active] = "none"
    BY DEF IInv, Calls, Operations, FleetAssumption
  <1>2. o >= active
    BY <1>1 DEF IInv, Files, LastApplied, Operations, FleetAssumption
  <1>3. o # active  BY Zenon, <1>1 DEF LastApplied
  <1>4. Revision(active) <= Revision(o) /\ Revision(o) <= desired
    BY <1>1, <1>2, <1>3 DEF IInv, Plans, Verdicts, LastApplied, Revision, Operations,
                            FleetAssumption
  <1> QED  BY <1>1, <1>4 DEF IInv, Plans, Files, Revision, FleetAssumption

LEMMA StageConfigurationKeeps == ASSUME FleetAssumption, IInv, StageConfiguration PROVE IInv'
  <1>1. /\ pc = "adapter" /\ AdapterStill /\ steps # <<>> /\ Head(steps) = "stage"
        /\ UNCHANGED <<child, childConfig>>
        /\ \/ steps' = Tail(steps) /\ outcome' = outcome
              /\ staged' = Revision(active) /\ configured' = Revision(active)
           \/ steps' = <<>> /\ outcome' = "failed"
              /\ staged' \in {staged, Revision(active)} /\ UNCHANGED configured
    BY Zenon DEF StageConfiguration, At, StepDone, StepFailed, childVars
  <1>2. /\ Plans' /\ Files' /\ Verdicts' /\ Calls' /\ Observed' /\ Shape'
        /\ UNCHANGED <<wanted, plan, desired, last, pc, active, runState, done>>
        /\ outcome = "ok"
        /\ outcome' = "ok" => steps' # <<>> /\ Head(steps') = "stop"
        /\ runState = "running" /\ outcome' = "ok" =>
             \/ steps' # <<>> /\ steps'[Len(steps')] \in StartSteps
             \/ steps' = <<>> /\ Head(steps) \in StartSteps
        /\ active # 0 /\ Kind(active) = "ApplyConfiguration" /\ configured # desired
    BY Zenon, <1>1, StepOfCall
  <1>3. /\ active \in Operations /\ active <= last /\ Revision(active) = desired
        /\ done[active] = "none"
    BY <1>2 DEF IInv, Calls, Operations, FleetAssumption
  <1>4. child # "starting" /\ (runState # "running" => child = "none")
    BY Zenon, <1>1 DEF IInv, Engine
  <1>5. Engine'  BY Zenon, <1>1, <1>2, <1>4 DEF IInv, Engine, StartSteps
  <1>6. Configured'  BY <1>1, <1>2, <1>3 DEF IInv, Configured, Files, Kind
  <1>7. Staged'
    <2> SUFFICES ASSUME NEW o \in Operations, LastApplied(o)
                 PROVE  staged' = Revision(o) /\ (child \in Alive => childConfig = Revision(o))
      BY Zenon, <1>1, <1>2 DEF Staged, LastApplied, Kind, Revision
    <2>1. staged = Revision(o) /\ (child \in Alive => childConfig = Revision(o))
      BY Zenon DEF IInv, Staged
    <2>2. Revision(o) = desired  BY Zenon, <1>2, StagingIsNewest
    <2> QED  BY Zenon, <1>1, <1>3, <2>1, <2>2
  <1>8. Paused'  BY Zenon, <1>1, <1>2 DEF IInv, Paused, DesiredRun, Kind, Revision
  <1> QED  BY Zenon, <1>2, <1>5, <1>6, <1>7, <1>8 DEF IInv

\* A start step is the last one of its call.
LEMMA StartIsLast ==
    ASSUME IInv, NEW e \in StartSteps, At(e)
    PROVE  /\ runState = "running" /\ outcome = "ok"
           /\ steps \in Seq(StepNames) /\ steps # <<>> /\ Head(steps) = e
           /\ Tail(steps) = <<>>
           /\ \A f \in StepNames : <<f>> \o Tail(steps) = <<f>>
  <1>1. steps \in Seq(StepNames) /\ steps # <<>> /\ Head(steps) = e /\ outcome = "ok"
    BY Zenon DEF At, IInv, Shape, Calls
  <1>2. Len(steps) \in Nat \ {0} /\ steps[1] = e  BY Zenon, <1>1, TailFacts
  <1>3. runState = "running" /\ Len(steps) = 1
    <2>1. 1 \in 1..Len(steps)  BY <1>2
    <2> QED  BY Zenon, <1>2, <2>1 DEF IInv, Shape
  <1>4. Tail(steps) \in Seq(StepNames) /\ Len(Tail(steps)) = 0
    BY <1>1, <1>3, TailFacts
  <1>5. Tail(steps) = <<>>  BY Zenon, <1>4, EmptySeq
  <1>6. ASSUME NEW f \in StepNames PROVE <<f>> \o Tail(steps) = <<f>>
    <2>1. <<f>> \o <<>> = <<f>>  OBVIOUS
    <2> QED  BY <1>5, <2>1, Zenon
  <1> QED  BY Zenon, <1>1, <1>3, <1>5, <1>6

\* A start step ends the call or leaves one start step to do.
LEMMA StartStepKeeps ==
    ASSUME FleetAssumption, IInv, NEW e \in StartSteps, At(e), AdapterStill,
           UNCHANGED <<configured, staged>>,
           \/ /\ outcome' = "ok" /\ steps' = <<"wait">>
              /\ child' = child /\ child = "ready" /\ childConfig' = childConfig
           \/ outcome' = "ok" /\ steps' = <<"settle">> /\ child' = "starting" /\ childConfig' = staged
           \/ /\ outcome' = "ok" /\ steps' = <<>> /\ child \in Alive
              /\ child' = "ready" /\ childConfig' = childConfig
           \/ /\ outcome' = "failed" /\ steps' = <<>>
              /\ \/ child' = "none" /\ childConfig' = 0
                 \/ child' = child /\ child = "ready" /\ childConfig' = childConfig
    PROVE  IInv'
  <1>1. pc = "adapter" /\ runState = "running" /\ outcome = "ok" /\ steps # <<>> /\ Head(steps) = e
    BY Zenon, StartIsLast DEF At
  <1>2. /\ Plans' /\ Files' /\ Verdicts' /\ Calls' /\ Observed'
        /\ UNCHANGED <<wanted, plan, desired, last, pc, active, runState, done>>
    BY Zenon, <1>1, AdapterFrame
  <1>3. Shape'
    <2>1. steps' = <<>> => Shape'  BY DEF Shape
    <2>2. ASSUME NEW f \in {"wait", "settle"}, steps' = <<f>>, outcome' = "ok" PROVE Shape'
      <3>1. <<f>> \in Seq(StepNames) /\ Len(<<f>>) = 1 /\ <<f>>[1] = f  BY DEF StepNames
      <3>2. \A i \in 1..Len(<<f>>) : i = 1  BY <3>1
      <3> QED  BY Zenon, <1>1, <1>2, <2>2, <3>1, <3>2 DEF Shape
    <2> QED  BY Zenon, <2>1, <2>2
  <1>4. Engine'  BY <1>1, <1>2 DEF Engine, StartSteps
  <1>5. Configured'
    <2>1. Head(steps) \notin {"stop", "stage"}  BY Zenon, <1>1 DEF StartSteps
    <2> QED  BY <1>1, <1>2, <2>1 DEF IInv, Configured, Kind, Alive, Files
  <1>6. Staged'
    <2> SUFFICES ASSUME NEW o \in Operations, LastApplied(o)
                 PROVE  staged' = Revision(o) /\ (child' \in Alive => childConfig' = Revision(o))
      BY Zenon, <1>1, <1>2 DEF Staged, LastApplied, Kind, Revision
    <2>1. staged = Revision(o) /\ (child \in Alive => childConfig = Revision(o))
      BY Zenon DEF IInv, Staged
    <2> QED  BY Zenon, <2>1 DEF Alive
  <1>7. Paused'
    <2>1. ASSUME NEW o \in Operations, Kind(o) = "ConvergeState", done[o] = "Succeeded",
                 Revision(o) = desired
          PROVE  DesiredRun = "running"
      BY Zenon, <1>1, <2>1 DEF IInv, Paused
    <2> QED  BY Zenon, <1>1, <1>2, <2>1 DEF Paused, DesiredRun, Kind, Revision
  <1> QED  BY Zenon, <1>2, <1>3, <1>4, <1>5, <1>6, <1>7 DEF IInv

LEMMA StartChildKeeps == ASSUME FleetAssumption, IInv, StartChild PROVE IInv'
  <1>1. At("start") /\ AdapterStill /\ UNCHANGED <<configured, staged>>  BY Zenon DEF StartChild
  <1>2. outcome = "ok" /\ \A f \in StepNames : <<f>> \o Tail(steps) = <<f>>
    BY Zenon, <1>1, StartIsLast DEF StartSteps
  <1>3. child # "starting"  BY Zenon, <1>1 DEF At, IInv, Engine
  <1>4. \/ /\ outcome' = "ok" /\ steps' = <<"wait">>
           /\ child' = child /\ child = "ready" /\ childConfig' = childConfig
        \/ outcome' = "ok" /\ steps' = <<"settle">> /\ child' = "starting" /\ childConfig' = staged
        \/ outcome' = "failed" /\ steps' = <<>> /\ child' = "none" /\ childConfig' = 0
    BY Zenon, <1>2, <1>3 DEF StartChild, StepNames, Alive, NoChild, StepFailed, childVars
  <1> QED  BY Zenon, <1>1, <1>4, StartStepKeeps DEF StartSteps

LEMMA SettleKeeps ==
    ASSUME FleetAssumption, IInv, ChildReady \/ ChildNotReady \/ WaitReady PROVE IInv'
  <1>1. PICK e \in StartSteps : At(e)
    BY Zenon DEF ChildReady, ChildNotReady, WaitReady, StartSteps
  <1>2. outcome = "ok" /\ Tail(steps) = <<>>  BY Zenon, <1>1, StartIsLast
  <1>3. /\ AdapterStill /\ UNCHANGED <<configured, staged>>
        /\ \/ /\ outcome' = "ok" /\ steps' = <<>> /\ child \in Alive
              /\ child' = "ready" /\ childConfig' = childConfig
           \/ /\ outcome' = "failed" /\ steps' = <<>>
              /\ \/ child' = "none" /\ childConfig' = 0
                 \/ child' = child /\ child = "ready" /\ childConfig' = childConfig
    BY Zenon, <1>2 DEF ChildReady, ChildNotReady, WaitReady, NoChild, StepDone, StepFailed, childVars,
                Alive
  <1> QED  BY Zenon, <1>1, <1>3, StartStepKeeps

LEMMA AdapterKeeps == ASSUME FleetAssumption, IInv, AdapterStep PROVE IInv'
  BY Zenon, StopChildKeeps, MaintainKeeps, StageConfigurationKeeps, StartChildKeeps, SettleKeeps
  DEF AdapterStep

-----------------------------------------------------------------------------
\* The end of the process, with or without a report.
LEMMA DownKeeps ==
    ASSUME FleetAssumption, IInv, Down, UNCHANGED <<controlVars, desired, applied, last, receipts, historyVars>>,
           observed' \in {observed, "error"},
           staged' = staged \/ (At("stage") /\ staged' = Revision(active))
    PROVE  IInv'
  <1>1. /\ UNCHANGED <<wanted, plan, desired, applied, last, receipts, done, reported>>
        /\ pc' = "down" /\ active' = 0 /\ steps' = <<>> /\ outcome' = "ok"
        /\ runState' = "none" /\ configured' = 0 /\ child' = "none" /\ childConfig' = 0
    BY Zenon DEF Down, NoChild, controlVars, historyVars
  <1>2. Plans'  BY Zenon, <1>1 DEF IInv, Plans
  <1>3. Files'  BY Zenon, <1>1 DEF IInv, Files
  <1>4. Verdicts'  BY Zenon, <1>1 DEF IInv, Verdicts, Revision
  <1>5. Calls' /\ Shape' /\ Engine'
    BY <1>1 DEF Calls, Shape, Engine, FleetAssumption
  <1>6. Observed'  BY Zenon, <1>1 DEF Observed, Converging
  <1>7. At("stage") => active # 0 /\ Kind(active) = "ApplyConfiguration" /\ Revision(active) = desired
    <2> SUFFICES ASSUME At("stage")
                 PROVE  active # 0 /\ Kind(active) = "ApplyConfiguration" /\ Revision(active) = desired
      BY Zenon
    <2>1. steps \in Seq(StepNames) /\ steps # <<>> /\ Head(steps) = "stage"
      BY Zenon DEF At, IInv, Shape
    <2>2. 1 \in 1..Len(steps) /\ steps[1] = "stage"  BY <2>1, TailFacts
    <2> QED  BY Zenon, <2>2 DEF IInv, Shape, Calls
  <1>8. Configured'  BY <1>1, <1>7 DEF IInv, Configured, Files
  <1>9. Staged'
    <2> SUFFICES ASSUME NEW o \in Operations, LastApplied(o) PROVE staged' = Revision(o)
      BY Zenon, <1>1 DEF Staged, LastApplied, Kind, Revision, Alive
    <2>1. staged = Revision(o)  BY Zenon DEF IInv, Staged
    <2> QED  BY Zenon, <1>7, <2>1, StagingIsNewest
  <1>10. Paused'  BY Zenon, <1>1 DEF Paused
  <1> QED  BY Zenon, <1>2, <1>3, <1>4, <1>5, <1>6, <1>8, <1>9, <1>10 DEF IInv

LEMMA RejectKeeps == ASSUME FleetAssumption, IInv, Reject \/ Crash PROVE IInv'
  BY Zenon, DownKeeps DEF Reject, Crash, Ended, stateVars

LEMMA GateFinishedKeeps == ASSUME FleetAssumption, IInv, GateFinished PROVE IInv'
  <1>1. /\ pc = "adapter" /\ active = 0 /\ steps = <<>>
        /\ UNCHANGED <<wanted, plan, desired, applied, last, receipts, staged, done, reported>>
    BY Zenon DEF GateFinished, controlVars, historyVars
  <1>2. CASE outcome = "failed"
    BY Zenon, <1>2, DownKeeps DEF GateFinished
  <1>3. CASE outcome = "ok"
    <2>1. /\ pc' = "offline" /\ observed' = IF runState = "none" THEN "stopped" ELSE runState
          /\ UNCHANGED <<active, steps, outcome, runState, configured, child, childConfig>>
      BY Zenon, <1>3 DEF GateFinished, callVars, adapterVars, childVars
    <2>2. Plans' /\ Verdicts'  BY Zenon, <1>1 DEF IInv, Plans, Verdicts, Revision
    <2>3. Files'  BY Zenon, <1>1, <2>1 DEF IInv, Files, Calls
    <2>4. Calls' /\ Shape'  BY Zenon, <1>1, <1>3, <2>1 DEF IInv, Calls, Shape
    <2>5. Engine'  BY Zenon, <1>1, <2>1 DEF IInv, Engine
    <2>6. Observed'
      <3>1. runState \in RunStates \cup {"none"} /\ (runState = "running" => child \in {"ready", "dead"})
        BY Zenon, <1>1, <1>3 DEF IInv, Calls, Engine
      <3> QED  BY Zenon, <2>1, <3>1 DEF Observed, Converging, RunStates
    <2>7. Configured'  BY Zenon, <1>1, <2>1 DEF IInv, Configured
    <2>8. Staged' /\ Paused'
      BY Zenon, <1>1, <2>1 DEF IInv, Staged, LastApplied, Paused, DesiredRun, Kind, Revision
    <2> QED  BY Zenon, <2>2, <2>3, <2>4, <2>5, <2>6, <2>7, <2>8 DEF IInv
  <1> QED  BY Zenon, <1>2, <1>3 DEF GateFinished

-----------------------------------------------------------------------------
\* What every call of the adapter looks like: only a running engine is started, last.
Fit(s, run) ==
    /\ s \in Seq(StepNames)
    /\ \A i \in 1..Len(s) : s[i] \in StartSteps => i = Len(s) /\ run = "running"
    /\ run = "running" => s # <<>> /\ s[Len(s)] \in StartSteps

LEMMA ApplyFits ==
    ASSUME NEW run \in RunStates \cup {"none"}
    PROVE  /\ Fit(ApplySteps(run), run)
           /\ run # "running" => ApplySteps(run) # <<>> /\ Head(ApplySteps(run)) = "stop"
           /\ \A i \in 1..Len(ApplySteps(run)) : ApplySteps(run)[i] # "stage"
  <1>1. CASE run = "running"
    <2>1. ApplySteps(run) = <<"start">>  BY Zenon, <1>1 DEF ApplySteps
    <2>2. Fit(<<"start">>, "running") /\ \A i \in 1..Len(<<"start">>) : <<"start">>[i] # "stage"
      BY DEF Fit, StepNames, StartSteps
    <2> QED  BY <1>1, <2>1, <2>2, Zenon
  <1>2. CASE run = "drained"
    <2>1. ApplySteps(run) = <<"stop", "drain">>  BY Zenon, <1>2 DEF ApplySteps
    <2>2. <<"stop", "drain">> \in Seq(StepNames) /\ Len(<<"stop", "drain">>) = 2
      BY DEF StepNames
    <2>3. \A i \in 1..2 : <<"stop", "drain">>[i] \in {"stop", "drain"}  OBVIOUS
    <2>4. <<"stop", "drain">> # <<>> /\ Head(<<"stop", "drain">>) = "stop"  OBVIOUS
    <2>5. Fit(<<"stop", "drain">>, "drained")  BY Zenon, <2>2, <2>3 DEF Fit, StartSteps
    <2>6. \A i \in 1..Len(<<"stop", "drain">>) : <<"stop", "drain">>[i] # "stage"
      BY Zenon, <2>2, <2>3
    <2> QED  BY <1>2, <2>1, <2>4, <2>5, <2>6, Zenon
  <1>3. CASE run \notin {"running", "drained"}
    <2>1. ApplySteps(run) = <<"stop">>  BY Zenon, <1>3 DEF ApplySteps
    <2> QED  BY <1>3, <2>1 DEF Fit, StepNames, StartSteps
  <1> QED  BY Zenon, <1>1, <1>2, <1>3

LEMMA DesiredRunType ==
    ASSUME IInv PROVE DesiredRun \in RunStates \cup {"none"}
  BY DEF IInv, Plans, Files, DesiredRun

LEMMA StartKeeps == ASSUME FleetAssumption, IInv, Start PROVE IInv'
  <1>1. /\ pc = "down" /\ pc' = "adapter" /\ runState' = DesiredRun /\ steps' = ApplySteps(DesiredRun)
        /\ UNCHANGED <<wanted, plan, desired, observed, applied, last, receipts, active, outcome,
                       configured, child, childConfig, staged, done, reported>>
    BY Zenon DEF Start, controlVars, stateVars, worldVars, childVars, historyVars
  <1>2. active = 0 /\ outcome = "ok" /\ child = "none"  BY Zenon, <1>1 DEF IInv, Calls, Engine
  <1>3. DesiredRun' = DesiredRun  BY Zenon, <1>1 DEF DesiredRun
  <1>4. /\ Fit(steps', runState')
        /\ \A i \in 1..Len(steps') : steps'[i] # "stage"
    BY Zenon, <1>1, ApplyFits, DesiredRunType
  <1>5. Plans' /\ Verdicts' /\ Files'  BY Zenon, <1>1 DEF IInv, Plans, Verdicts, Files, Revision
  <1>6. Calls'  BY Zenon, <1>1, <1>2, DesiredRunType DEF IInv, Calls
  <1>7. Shape'  BY Zenon, <1>1, <1>2, <1>4 DEF Shape, Fit
  <1>8. Engine'  BY Zenon, <1>1, <1>2, <1>4 DEF Engine, Fit
  <1>9. Observed'  BY Zenon, <1>1, <1>2, <1>3 DEF Observed, Converging
  <1>10. Configured'  BY Zenon, <1>1, <1>2 DEF IInv, Configured
  <1>11. Staged'  BY Zenon, <1>1 DEF IInv, Staged, LastApplied, Kind, Revision
  <1>12. Paused'  BY Zenon, <1>1, <1>2, <1>3 DEF Paused
  <1> QED  BY Zenon, <1>5, <1>6, <1>7, <1>8, <1>9, <1>10, <1>11, <1>12 DEF IInv

LEMMA DesiredKeeps == ASSUME FleetAssumption, IInv, Connect \/ ReceiveDesired PROVE IInv'
  <1>1. /\ pc \in {"offline", "online"} /\ pc' = "online"
        /\ UNCHANGED <<wanted, plan, observed, applied, last, receipts, active, steps, outcome,
                       runState, configured, child, childConfig, staged, done, reported>>
        /\ \E r \in 0..NRevisions : desired' = IF r > desired THEN r ELSE desired
    BY DEF Connect, ReceiveDesired, AcceptDesiredState, OnlyDesired, controlVars, callVars,
           adapterVars, worldVars, childVars, historyVars, FleetAssumption
  <1>2. desired \in Nat /\ desired' \in 0..NRevisions /\ desired' >= desired
    BY <1>1 DEF IInv, Files, FleetAssumption
  <1>3. active = 0 /\ steps = <<>> /\ outcome = "ok"  BY Zenon, <1>1 DEF IInv, Calls
  <1>4. Plans'  BY Zenon, <1>1 DEF IInv, Plans
  <1>5. Files'  BY <1>1, <1>2 DEF IInv, Files
  <1>6. Verdicts'
    BY <1>1, <1>2 DEF IInv, Verdicts, Plans, Revision, FleetAssumption
  <1>7. Calls' /\ Shape'  BY Zenon, <1>1, <1>3 DEF IInv, Calls, Shape
  <1>8. Engine'  BY Zenon, <1>1 DEF IInv, Engine
  <1>9. Observed'  BY Zenon, <1>1 DEF IInv, Observed, Converging
  <1>10. Configured'  BY <1>1, <1>2 DEF IInv, Configured
  <1>11. Staged'  BY Zenon, <1>1 DEF IInv, Staged, LastApplied, Kind, Revision
  <1>12. Paused'
    <2> SUFFICES ASSUME NEW o \in Operations, Kind(o) = "ConvergeState", done[o] = "Succeeded",
                        Revision(o) = desired'
                 PROVE  /\ runState \in {"none", DesiredRun'}
                        /\ DesiredRun' # "running" => child = "none"
      BY Zenon, <1>1 DEF Paused, Kind, Revision
    <2>1. Revision(o) <= desired  BY Zenon DEF IInv, Verdicts
    <2>2. desired' = desired  BY <1>2, <2>1
    <2> QED  BY Zenon, <1>1, <2>2 DEF IInv, Paused, DesiredRun
  <1> QED  BY Zenon, <1>4, <1>5, <1>6, <1>7, <1>8, <1>9, <1>10, <1>11, <1>12 DEF IInv

LEMMA DisconnectKeeps == ASSUME FleetAssumption, IInv, Disconnect PROVE IInv'
  <1>1. /\ pc = "online" /\ pc' = "offline"
        /\ UNCHANGED <<wanted, plan, desired, observed, applied, last, receipts, active, steps, outcome,
                       runState, configured, child, childConfig, staged, done, reported>>
    BY Zenon DEF Disconnect, controlVars, stateVars, callVars, adapterVars, worldVars, childVars, historyVars
  <1>2. Plans' /\ Files' /\ Verdicts'  BY Zenon, <1>1 DEF IInv, Plans, Files, Verdicts, Revision
  <1>3. Calls' /\ Shape' /\ Engine'  BY Zenon, <1>1 DEF IInv, Calls, Shape, Engine, Revision, Kind
  <1>4. Observed'  BY Zenon, <1>1 DEF IInv, Observed, Converging
  <1>5. Configured' /\ Staged'  BY Zenon, <1>1 DEF IInv, Configured, Staged, LastApplied, Kind, Revision
  <1>6. Paused'  BY Zenon, <1>1 DEF IInv, Paused, DesiredRun, Kind, Revision
  <1> QED  BY Zenon, <1>2, <1>3, <1>4, <1>5, <1>6 DEF IInv

LEMMA ChildDiesKeeps == ASSUME FleetAssumption, IInv, ChildDies PROVE IInv'
  <1>1. /\ child \in {"starting", "ready"} /\ child' = "dead"
        /\ UNCHANGED <<wanted, plan, desired, observed, applied, last, receipts, pc, active, steps,
                       outcome, runState, configured, childConfig, staged, done, reported>>
    BY Zenon DEF ChildDies, Alive, controlVars, stateVars, callVars, adapterVars, historyVars
  <1>2. Plans' /\ Files' /\ Verdicts'  BY Zenon, <1>1 DEF IInv, Plans, Files, Verdicts, Revision
  <1>3. Calls' /\ Shape'  BY Zenon, <1>1 DEF IInv, Calls, Shape, Revision, Kind
  <1>4. Engine'  BY Zenon, <1>1 DEF IInv, Engine
  <1>5. Observed'  BY Zenon, <1>1 DEF IInv, Observed, Converging, DesiredRun, Kind
  <1>6. Configured'  BY Zenon, <1>1 DEF IInv, Configured, Kind
  <1>7. Staged'  BY Zenon, <1>1 DEF IInv, Staged, LastApplied, Kind, Revision, Alive
  <1>8. Paused'  BY Zenon, <1>1 DEF IInv, Paused, DesiredRun, Kind, Revision
  <1> QED  BY Zenon, <1>2, <1>3, <1>4, <1>5, <1>6, <1>7, <1>8 DEF IInv

-----------------------------------------------------------------------------
\* A report of anything but a verdict, or of the verdict on disk.
LEMMA ReportKeeps ==
    ASSUME NEW o \in Operations, NEW s \in Terminal \cup {"Acknowledged", "Running"},
           reported \in [Operations -> Terminal \cup {"open"}], Report(o, s)
    PROVE  /\ reported' \in [Operations -> Terminal \cup {"open"}]
           /\ \A n \in Operations : n # o => reported'[n] = reported[n]
           /\ reported'[o] \in {reported[o], IF s \in Terminal THEN s ELSE "open"}
  <1>1. CASE UNCHANGED reported  BY Zenon, <1>1
  <1>2. CASE reported' = [reported EXCEPT ![o] = IF s \in Terminal THEN s ELSE "open"]
    BY Zenon, <1>2
  <1> QED  BY Zenon, <1>1, <1>2 DEF Report

\* make_receipt_capacity keeps the order of the receipts and makes room.
LEMMA TrimmedFacts ==
    ASSUME FleetAssumption, Files, HasRoom
    PROVE  /\ Trimmed \in Seq(Receipts) /\ Len(Trimmed) < Capacity
           /\ \A i \in 1..Len(Trimmed) : \E k \in 1..Len(receipts) : Trimmed[i] = receipts[k]
           /\ \A i \in 1..Len(Trimmed) : \A j \in 1..(i - 1) : Trimmed[j].op < Trimmed[i].op
  <1>1. CASE Len(receipts) < Capacity
    BY Zenon, <1>1 DEF Trimmed, Files
  <1>2. CASE ~(Len(receipts) < Capacity)
    <2> DEFINE n == Len(receipts)
               at(i) == IF TerminalAt \cap 1..i = {} THEN i ELSE i + 1
    <2>1. n \in Nat \ {0} /\ n = Capacity /\ receipts \in [1..n -> Receipts]
      BY <1>2, LenProperties DEF Files, FleetAssumption
    <2>2. Trimmed = [i \in 1..(n - 1) |-> receipts[at(i)]]  BY Zenon, <1>2 DEF Trimmed
    <2>3. \A i \in 1..(n - 1) : at(i) \in 1..n /\ at(i) \in {i, i + 1}  BY <2>1
    <2>4. Trimmed \in Seq(Receipts) /\ Len(Trimmed) = n - 1
      <3>1. Trimmed \in [1..(n - 1) -> Receipts]  BY Zenon, <2>1, <2>2, <2>3
      <3>2. n - 1 \in Nat  BY <2>1
      <3> HIDE DEF n
      <3> QED  BY <3>1, <3>2
    <2>5. ASSUME NEW i \in 1..(n - 1), NEW j \in 1..(i - 1) PROVE at(j) < at(i) /\ j \in 1..(n - 1)
      <3>1. j < i /\ j \in 1..(n - 1) /\ at(j) \in {j, j + 1}  BY <2>1, <2>3
      <3>2. at(j) = j + 1 => at(i) = i + 1
        <4>1. TerminalAt \cap 1..j # {} => TerminalAt \cap 1..i # {}  BY <3>1, <2>1
        <4> QED  BY <3>1, <4>1, <2>1
      <3> QED  BY <2>3, <3>1, <3>2
    <2>6. \A i \in 1..(n - 1) : Trimmed[i] = receipts[at(i)]  BY Zenon, <2>2
    <2> HIDE DEF at
    <2>7. \A i \in 1..(n - 1) : \A j \in 1..(i - 1) : Trimmed[j].op < Trimmed[i].op
      <3> SUFFICES ASSUME NEW i \in 1..(n - 1), NEW j \in 1..(i - 1)
                   PROVE  Trimmed[j].op < Trimmed[i].op
        BY Zenon
      <3>1. at(j) < at(i) /\ j \in 1..(n - 1)  BY Zenon, <2>5
      <3>2. at(i) \in 1..n /\ at(j) \in 1..(at(i) - 1)  BY <2>1, <2>3, <3>1
      <3>3. receipts[at(j)].op < receipts[at(i)].op  BY Zenon, <3>2 DEF Files
      <3> QED  BY Zenon, <2>6, <3>1, <3>3
    <2>8. \A i \in 1..(n - 1) : \E k \in 1..n : Trimmed[i] = receipts[k]  BY Zenon, <2>3, <2>6
    <2> QED  BY <2>1, <2>4, <2>7, <2>8
  <1> QED  BY Zenon, <1>1, <1>2

LEMMA AcceptedFrame ==
    ASSUME FleetAssumption, IInv, NEW o \in Operations, pc = "online", Accepted(o)
    PROVE  /\ UNCHANGED <<wanted, plan, desired, observed, applied, steps, outcome, runState,
                          configured, child, childConfig, staged, done>>
           /\ pc' = "accepted" /\ active' = o
           /\ Plans' /\ Shape' /\ Engine' /\ Observed' /\ Configured' /\ Paused'
           /\ last' \in Nat /\ last' >= last => Staged'
  <1>1. /\ UNCHANGED <<wanted, plan, desired, observed, applied, steps, outcome, runState,
                       configured, child, childConfig, staged, done>>
        /\ pc' = "accepted" /\ active' = o
    BY Zenon DEF Accepted, controlVars, adapterVars, worldVars, childVars
  <1>2. steps = <<>> /\ outcome = "ok"  BY Zenon DEF IInv, Calls
  <1>3. Plans'  BY Zenon, <1>1 DEF IInv, Plans
  <1>4. Shape'  BY <1>1, <1>2 DEF Shape
  <1>5. Engine'  BY Zenon, <1>1 DEF IInv, Engine
  <1>6. Observed'  BY Zenon, <1>1 DEF IInv, Observed, Converging
  <1>7. Configured'  BY Zenon, <1>1 DEF IInv, Configured
  <1>8. Paused'  BY Zenon, <1>1 DEF IInv, Paused, DesiredRun, Kind, Revision
  <1>9. ASSUME last' \in Nat, last' >= last PROVE Staged'
    <2> SUFFICES ASSUME NEW n \in Operations, LastApplied(n)'
                 PROVE  staged = Revision(n) /\ (child \in Alive => childConfig = Revision(n))
      BY Zenon, <1>1 DEF Staged, Revision
    <2>1. \A m \in (n + 1)..last : m \in (n + 1)..last'
      BY <1>9 DEF IInv, Files, FleetAssumption, Operations
    <2>2. LastApplied(n)  BY Zenon, <1>1, <2>1 DEF LastApplied, Kind
    <2> QED  BY Zenon, <2>2 DEF IInv, Staged
  <1> QED  BY Zenon, <1>1, <1>3, <1>4, <1>5, <1>6, <1>7, <1>8, <1>9

LEMMA AcknowledgeKeeps ==
    ASSUME FleetAssumption, IInv, NEW o \in Operations, Acknowledge(o) PROVE IInv'
  <1> DEFINE new == [op |-> o, state |-> "Acknowledged"]
  <1>1. /\ pc = "online" /\ desired = Revision(o) /\ o > last /\ HasRoom /\ last' = o
        /\ receipts' = Append(Trimmed, new) /\ Report(o, "Acknowledged") /\ Accepted(o)
    BY Zenon DEF Acknowledge, Deliverable
  <1>2. /\ UNCHANGED <<wanted, plan, desired, observed, applied, steps, outcome, runState,
                       configured, child, childConfig, staged, done>>
        /\ pc' = "accepted" /\ active' = o
        /\ Plans' /\ Shape' /\ Engine' /\ Observed' /\ Configured' /\ Paused'
        /\ last' \in Nat /\ last' >= last => Staged'
    BY Zenon, <1>1, AcceptedFrame
  <1>3. last \in Nat /\ last' \in Nat /\ o \in Nat /\ last' >= last /\ o <= NOperations
    BY <1>1 DEF IInv, Files, Operations, FleetAssumption
  <1>4. done[o] = "none"  BY <1>1, <1>3 DEF IInv, Verdicts
  <1>5. /\ Trimmed \in Seq(Receipts) /\ Len(Trimmed) < Capacity
        /\ \A i \in 1..Len(Trimmed) : \E k \in 1..Len(receipts) : Trimmed[i] = receipts[k]
        /\ \A i \in 1..Len(Trimmed) : \A j \in 1..(i - 1) : Trimmed[j].op < Trimmed[i].op
    BY Zenon, <1>1, TrimmedFacts DEF IInv
  <1>6. new \in Receipts  BY Zenon DEF Receipts
  <1>7. /\ receipts' \in Seq(Receipts) /\ Len(receipts') = Len(Trimmed) + 1
        /\ \A i \in 1..Len(Trimmed) : receipts'[i] = Trimmed[i]
        /\ receipts'[Len(Trimmed) + 1] = new
        /\ Len(Trimmed) \in Nat
    BY <1>1, <1>5, <1>6, AppendProperties, LenProperties
  <1>8. /\ new.op = o /\ new.state = "Acknowledged"
        /\ \A i \in 1..Len(receipts') : i # Len(Trimmed) + 1 => i \in 1..Len(Trimmed)
    BY <1>7
  <1> HIDE DEF new
  <1>9. \A i \in 1..Len(Trimmed) : Trimmed[i].op \in Nat /\ Trimmed[i].op <= last
    <2>1. \A r \in Receipts : r.op \in Nat  BY DEF Receipts, Operations
    <2>2. \A i \in 1..Len(Trimmed) : Trimmed[i] \in Receipts  BY <1>5
    <2> QED  BY Zenon, <1>5, <2>1, <2>2 DEF IInv, Files
  <1>10. Files'
    <2>1. ASSUME NEW i \in 1..Len(receipts') PROVE receipts'[i].op <= last'
      <3>1. CASE i = Len(Trimmed) + 1  BY <1>1, <1>3, <1>7, <1>8, <3>1
      <3>2. CASE i # Len(Trimmed) + 1  BY <1>1, <1>3, <1>7, <1>8, <1>9, <3>2
      <3> QED  BY Zenon, <3>1, <3>2
    <2>2. ASSUME NEW i \in 1..Len(receipts'), NEW j \in 1..(i - 1)
          PROVE  receipts'[j].op < receipts'[i].op
      <3>1. j \in 1..Len(Trimmed)  BY <1>7
      <3>2. CASE i = Len(Trimmed) + 1
        BY <1>1, <1>3, <1>7, <1>8, <1>9, <3>1, <3>2
      <3>3. CASE i # Len(Trimmed) + 1
        BY Zenon, <1>5, <1>7, <1>8, <3>1, <3>3
      <3> QED  BY Zenon, <3>2, <3>3
    <2>3. Len(receipts') <= Capacity  BY <1>5, <1>7 DEF FleetAssumption
    <2> QED  BY SMTT(30), <1>1, <1>2, <1>3, <1>7, <2>1, <2>2, <2>3 DEF IInv, Files
  <1>11. Verdicts'
    <2>1. /\ reported' \in [Operations -> Terminal \cup {"open"}]
          /\ \A n \in Operations : n # o => reported'[n] = reported[n]
          /\ reported'[o] \in {reported[o], "open"}
      BY <1>1, ReportKeeps DEF IInv, Verdicts, Terminal
    <2>2. ASSUME NEW i \in 1..Len(receipts')
          PROVE  done[receipts'[i].op] = IF receipts'[i].state \in Terminal THEN receipts'[i].state
                                         ELSE "none"
      <3>1. CASE i = Len(Trimmed) + 1
        BY Zenon, <1>4, <1>7, <1>8, <3>1 DEF Terminal
      <3>2. CASE i # Len(Trimmed) + 1
        BY <1>5, <1>7, <1>8, <3>2 DEF IInv, Verdicts
      <3> QED  BY Zenon, <3>1, <3>2
    <2>3. \A n \in Operations : done[n] # "none" => n <= last' /\ Revision(n)' <= desired'
      BY <1>1, <1>2, <1>3 DEF IInv, Verdicts, Revision, Operations
    <2> QED  BY Zenon, <1>2, <2>1, <2>2, <2>3 DEF IInv, Verdicts
  <1>12. Calls'
    BY <1>1, <1>2, <1>3, <1>4 DEF IInv, Calls, Revision, Operations
  <1> QED  BY Zenon, <1>2, <1>3, <1>10, <1>11, <1>12 DEF IInv

LEMMA ReplayKeeps ==
    ASSUME FleetAssumption, IInv, NEW o \in Operations, Replay(o) PROVE IInv'
  <1>1. /\ pc = "online" /\ desired = Revision(o) /\ HasReceipt(o, {"Acknowledged", "Running"})
        /\ Report(o, "Running") /\ UNCHANGED <<last, receipts>> /\ Accepted(o)
    BY Zenon DEF Replay, Deliverable
  <1>2. /\ UNCHANGED <<wanted, plan, desired, observed, applied, steps, outcome, runState,
                       configured, child, childConfig, staged, done>>
        /\ pc' = "accepted" /\ active' = o
        /\ Plans' /\ Shape' /\ Engine' /\ Observed' /\ Configured' /\ Paused'
        /\ last' \in Nat /\ last' >= last => Staged'
    BY Zenon, <1>1, AcceptedFrame
  <1>3. last \in Nat /\ last' \in Nat /\ last' >= last /\ o \in 1..NOperations
    BY <1>1 DEF IInv, Files, Operations, FleetAssumption
  <1>4. o <= last /\ done[o] = "none"
    BY Zenon, <1>1 DEF HasReceipt, ReceiptOf, IInv, Files, Verdicts, Terminal
  <1>5. Files'  BY Zenon, <1>1, <1>2 DEF IInv, Files
  <1>6. Verdicts'
    <2>1. /\ reported' \in [Operations -> Terminal \cup {"open"}]
          /\ \A n \in Operations : n # o => reported'[n] = reported[n]
          /\ reported'[o] \in {reported[o], "open"}
      BY <1>1, ReportKeeps DEF IInv, Verdicts, Terminal
    <2> QED  BY Zenon, <1>1, <1>2, <2>1 DEF IInv, Verdicts, Revision
  <1>7. Calls'
    BY <1>1, <1>2, <1>3, <1>4 DEF IInv, Calls, Revision
  <1> QED  BY Zenon, <1>2, <1>3, <1>5, <1>6, <1>7 DEF IInv

LEMMA ReplayTerminalKeeps ==
    ASSUME FleetAssumption, IInv, NEW o \in Operations, ReplayTerminal(o) PROVE IInv'
  <1>1. /\ UNCHANGED <<wanted, plan, desired, observed, applied, last, receipts, pc, active, steps,
                       outcome, runState, configured, child, childConfig, staged, done>>
        /\ \E s \in Terminal : HasReceipt(o, {s}) /\ Report(o, s)
    BY Zenon DEF ReplayTerminal, controlVars, stateVars, callVars, adapterVars, worldVars, childVars
  <1>2. PICK s \in Terminal : HasReceipt(o, {s}) /\ Report(o, s)  BY Zenon, <1>1
  <1>3. done[o] = s  BY Zenon, <1>2 DEF HasReceipt, ReceiptOf, IInv, Verdicts
  <1>4. Verdicts'
    <2>1. /\ reported' \in [Operations -> Terminal \cup {"open"}]
          /\ \A n \in Operations : n # o => reported'[n] = reported[n]
          /\ reported'[o] \in {reported[o], s}
      BY Zenon, <1>2, ReportKeeps DEF IInv, Verdicts
    <2> QED  BY Zenon, <1>1, <1>3, <2>1 DEF IInv, Verdicts, Revision
  <1>5. Plans' /\ Files'  BY Zenon, <1>1 DEF IInv, Plans, Files
  <1>6. Calls' /\ Shape'  BY Zenon, <1>1 DEF IInv, Calls, Shape, Revision, Kind
  <1>7. Engine'  BY Zenon, <1>1 DEF IInv, Engine
  <1>8. Observed'  BY Zenon, <1>1 DEF IInv, Observed, Converging, DesiredRun, Kind
  <1>9. Configured' /\ Staged'  BY Zenon, <1>1 DEF IInv, Configured, Staged, LastApplied, Kind, Revision
  <1>10. Paused'  BY Zenon, <1>1 DEF IInv, Paused, DesiredRun, Kind, Revision
  <1> QED  BY Zenon, <1>4, <1>5, <1>6, <1>7, <1>8, <1>9, <1>10 DEF IInv

-----------------------------------------------------------------------------
\* An operation that stops the engine for something else starts it again at the end,
\* if it is to run.
LEMMA RestoreFits ==
    ASSUME NEW p \in Seq(StepNames \ StartSteps)
    PROVE  /\ Fit(p \o RestoreSteps, runState)
           /\ Len(p \o RestoreSteps) >= Len(p)
           /\ \A i \in 1..Len(p) : (p \o RestoreSteps)[i] = p[i]
           /\ \A i \in 1..Len(p \o RestoreSteps) :
                (p \o RestoreSteps)[i] = "stage" => i \in 1..Len(p)
  <1> DEFINE R == RestoreSteps
             q == p \o R
  <1>1. /\ R \in Seq(StepNames) /\ Len(R) \in {0, 1}
        /\ Len(R) = 1 => runState = "running" /\ R[1] = "start"
        /\ runState = "running" => Len(R) = 1
    <2>1. CASE runState = "running"
      <3>1. R = <<"start">>  BY Zenon, <2>1 DEF RestoreSteps
      <3> QED  BY <2>1, <3>1 DEF StepNames
    <2>2. CASE runState # "running"
      <3>1. R = <<>>  BY Zenon, <2>2 DEF RestoreSteps
      <3> QED  BY <2>2, <3>1
    <2> QED  BY Zenon, <2>1, <2>2
  <1>2. /\ p \in Seq(StepNames) /\ Len(p) \in Nat
        /\ \A i \in 1..Len(p) : p[i] \in StepNames \ StartSteps
    OBVIOUS
  <1>3. /\ q \in Seq(StepNames) /\ Len(q) = Len(p) + Len(R)
        /\ \A i \in 1..(Len(p) + Len(R)) : q[i] = IF i <= Len(p) THEN p[i] ELSE R[i - Len(p)]
    BY Zenon, <1>1, <1>2, ConcatProperties
  <1> HIDE DEF R, q
  <1>4. \A i \in 1..Len(p) : i \in 1..Len(q) /\ q[i] = p[i]  BY <1>1, <1>2, <1>3
  <1>5. ASSUME NEW i \in 1..Len(q), i \notin 1..Len(p)
        PROVE  i = Len(q) /\ runState = "running" /\ q[i] = "start"
    <2>1. i = Len(p) + 1 /\ Len(R) = 1 /\ i - Len(p) = 1 /\ i = Len(q)
      BY <1>1, <1>2, <1>3, <1>5
    <2> QED  BY <1>1, <1>2, <1>3, <2>1
  <1>6. ASSUME runState = "running" PROVE q # <<>> /\ q[Len(q)] \in StartSteps
    <2>1. Len(q) \in 1..Len(q) /\ Len(q) \notin 1..Len(p)  BY SMTT(30), <1>1, <1>2, <1>3, <1>6
    <2>2. q[Len(q)] = "start"  BY Zenon, <1>5, <2>1
    <2>3. q # <<>>  BY <2>1
    <2> QED  BY Zenon, <2>2, <2>3 DEF StartSteps
  <1>7. Fit(q, runState)  BY Zenon, <1>2, <1>3, <1>4, <1>5, <1>6 DEF Fit
  <1>8. Len(q) >= Len(p)  BY <1>1, <1>2, <1>3
  <1> QED  BY Zenon, <1>4, <1>5, <1>7, <1>8 DEF q, R

LEMMA ConfigureFits ==
    ASSUME NEW revision
    PROVE  /\ Fit(ConfigureSteps(revision), runState)
           /\ configured # revision =>
                ConfigureSteps(revision) # <<>> /\ Head(ConfigureSteps(revision)) = "stage"
           /\ \A i \in 1..Len(ConfigureSteps(revision)) : ConfigureSteps(revision)[i] = "stage" =>
                /\ i = 1 /\ Len(ConfigureSteps(revision)) > 1 /\ ConfigureSteps(revision)[2] = "stop"
                /\ configured # revision
  <1>1. CASE configured = revision
    <2> DEFINE p == <<>>
    <2>1. p \in Seq(StepNames \ StartSteps) /\ Len(p) = 0  OBVIOUS
    <2>2. ConfigureSteps(revision) = p \o RestoreSteps  BY Zenon, <1>1 DEF ConfigureSteps
    <2> HIDE DEF p
    <2>3. Fit(p \o RestoreSteps, runState)
          /\ \A i \in 1..Len(p \o RestoreSteps) : (p \o RestoreSteps)[i] # "stage"
      <3>1. \A i : i \notin 1..Len(p)  BY <2>1
      <3> QED  BY <2>1, <3>1, RestoreFits, Zenon
    <2> QED  BY <1>1, <2>2, <2>3, Zenon
  <1>2. CASE configured # revision
    <2> DEFINE p == <<"stage", "stop">>
               q == p \o RestoreSteps
    <2>1. p \in Seq(StepNames \ StartSteps) /\ Len(p) = 2 /\ p[1] = "stage" /\ p[2] = "stop"
      BY DEF StepNames, StartSteps
    <2>2. ConfigureSteps(revision) = q  BY Zenon, <1>2 DEF ConfigureSteps
    <2> HIDE DEF p
    <2>3. /\ Fit(q, runState) /\ Len(q) >= Len(p) /\ \A i \in 1..Len(p) : q[i] = p[i]
          /\ \A i \in 1..Len(q) : q[i] = "stage" => i \in 1..Len(p)
      BY Zenon, <2>1, RestoreFits
    <2> HIDE DEF q
    <2>4. q[1] = "stage" /\ q[2] = "stop" /\ q \in Seq(StepNames)  BY <2>1, <2>3 DEF Fit
    <2>5. q # <<>> /\ Head(q) = "stage"  BY <2>1, <2>3, <2>4
    <2>6. \A i \in 1..Len(q) : q[i] = "stage" => i = 1 /\ Len(q) > 1 /\ q[2] = "stop"
      BY <2>1, <2>3, <2>4
    <2> QED  BY Zenon, <1>2, <2>2, <2>3, <2>5, <2>6
  <1> QED  BY Zenon, <1>1, <1>2

\* The calls for an operation.
LEMMA OperationFits ==
    ASSUME FleetAssumption, IInv, pc = "accepted"
    PROVE  /\ Fit(OperationSteps(active), IF Kind(active) = "ConvergeState" THEN DesiredRun ELSE runState)
           /\ Kind(active) = "ConvergeState" /\ DesiredRun # "running" =>
                OperationSteps(active) # <<>> /\ Head(OperationSteps(active)) = "stop"
           /\ Kind(active) = "ApplyConfiguration" /\ configured # desired =>
                OperationSteps(active) # <<>> /\ Head(OperationSteps(active)) = "stage"
           /\ \A i \in 1..Len(OperationSteps(active)) : OperationSteps(active)[i] = "stage" =>
                /\ i = 1 /\ Len(OperationSteps(active)) > 1 /\ OperationSteps(active)[2] = "stop"
                /\ Kind(active) = "ApplyConfiguration" /\ configured # desired
  <1>1. active \in Operations /\ Revision(active) = desired /\ Kind(active) \in Kinds
    BY DEF IInv, Calls, Plans, Operations, FleetAssumption, Kind
  <1>2. CASE Kind(active) = "ConvergeState"
    <2>1. OperationSteps(active) = ApplySteps(DesiredRun)  BY Zenon, <1>2 DEF OperationSteps
    <2> QED  BY Zenon, <1>2, <2>1, ApplyFits, DesiredRunType
  <1>3. CASE Kind(active) = "ApplyConfiguration"
    <2>1. OperationSteps(active) = ConfigureSteps(desired)  BY Zenon, <1>1, <1>3 DEF OperationSteps
    <2> QED  BY Zenon, <1>3, <2>1, ConfigureFits
  <1>4. ASSUME NEW p \in Seq(StepNames \ StartSteps), Kind(active) \notin {"ConvergeState", "ApplyConfiguration"},
               \A i \in 1..Len(p) : p[i] # "stage", OperationSteps(active) = p \o RestoreSteps
        PROVE  /\ Fit(OperationSteps(active), runState)
               /\ \A i \in 1..Len(OperationSteps(active)) : OperationSteps(active)[i] # "stage"
    BY Zenon, <1>4, RestoreFits
  <1>5. CASE Kind(active) = "Reconcile"
    <2> DEFINE p == <<"stop", "reconcile">>
    <2>1. p \in Seq(StepNames \ StartSteps) /\ \A i \in 1..Len(p) : p[i] # "stage"
      BY DEF StepNames, StartSteps
    <2>2. OperationSteps(active) = p \o RestoreSteps  BY Zenon, <1>5 DEF OperationSteps
    <2> HIDE DEF p
    <2> QED  BY Zenon, <1>4, <1>5, <2>1, <2>2
  <1>6. CASE Kind(active) = "Inspect"
    <2> DEFINE p == <<>>
    <2>1. p \in Seq(StepNames \ StartSteps) /\ \A i \in 1..Len(p) : p[i] # "stage"
      OBVIOUS
    <2>2. OperationSteps(active) = RestoreSteps  BY Zenon, <1>6 DEF OperationSteps
    <2>3. p \o RestoreSteps = RestoreSteps  BY DEF RestoreSteps
    <2> HIDE DEF p
    <2> QED  BY Zenon, <1>4, <1>6, <2>1, <2>2, <2>3
  <1>7. CASE Kind(active) = "Rebootstrap"
    <2> DEFINE p == <<"stop", "rebootstrap">>
    <2>1. p \in Seq(StepNames \ StartSteps) /\ \A i \in 1..Len(p) : p[i] # "stage"
      BY DEF StepNames, StartSteps
    <2>2. OperationSteps(active) = p \o RestoreSteps  BY Zenon, <1>7 DEF OperationSteps
    <2> HIDE DEF p
    <2> QED  BY Zenon, <1>4, <1>7, <2>1, <2>2
  <1> QED  BY Zenon, <1>1, <1>2, <1>3, <1>5, <1>6, <1>7 DEF Kinds

\* A new state for the receipt of an operation without a verdict.
LEMMA WithStateFacts ==
    ASSUME FleetAssumption, IInv, active # 0,
           NEW s \in Terminal \cup {"Acknowledged", "Running"},
           receipts' = WithState(active, s), last' = last
    PROVE  /\ active \in Operations
           /\ receipts' \in Seq(Receipts) /\ Len(receipts') = Len(receipts)
           /\ \A i \in 1..Len(receipts) :
                /\ receipts'[i].op = receipts[i].op
                /\ receipts'[i].state = IF receipts[i].op = active THEN s ELSE receipts[i].state
           /\ Len(receipts') <= Capacity
           /\ \A i \in 1..Len(receipts') : receipts'[i].op <= last'
           /\ \A i \in 1..Len(receipts') : \A j \in 1..(i - 1) : receipts'[j].op < receipts'[i].op
  <1>1. active \in Operations  BY DEF IInv, Calls, Operations, FleetAssumption
  <1>2. /\ receipts \in Seq(Receipts) /\ Len(receipts) \in Nat
        /\ \A i \in 1..Len(receipts) : receipts[i] \in Receipts
    BY DEF IInv, Files
  <1>3. ASSUME NEW i \in 1..Len(receipts)
        PROVE  /\ receipts'[i] \in Receipts /\ receipts'[i].op = receipts[i].op
               /\ receipts'[i].state = IF receipts[i].op = active THEN s ELSE receipts[i].state
    BY Zenon, <1>1, <1>2 DEF WithState, Receipts
  <1>4. receipts' \in Seq(Receipts) /\ Len(receipts') = Len(receipts)
    <2>1. receipts' \in [1..Len(receipts) -> Receipts]  BY Zenon, <1>3 DEF WithState
    <2> QED  BY <1>2, <2>1
  <1>5. \A i \in 1..Len(receipts) : \A j \in 1..(i - 1) :
           j \in 1..Len(receipts) /\ receipts[j].op < receipts[i].op
    BY <1>2 DEF IInv, Files
  <1>6. \A i \in 1..Len(receipts) : receipts[i].op <= last  BY Zenon DEF IInv, Files
  <1>7. Len(receipts) <= Capacity  BY Zenon DEF IInv, Files
  <1> QED  BY Zenon, <1>1, <1>3, <1>4, <1>5, <1>6, <1>7

LEMMA StartOperationKeeps == ASSUME FleetAssumption, IInv, StartOperation PROVE IInv'
  <1> DEFINE converge == Kind(active) = "ConvergeState"
  <1>1. /\ pc = "accepted" /\ pc' = "adapter" /\ receipts' = WithState(active, "Running")
        /\ Report(active, "Running") /\ steps' = OperationSteps(active)
        /\ converge => observed' = "starting" /\ runState' = DesiredRun
        /\ ~converge => UNCHANGED <<observed, runState>>
        /\ UNCHANGED <<wanted, plan, desired, applied, last, active, outcome, configured, child,
                       childConfig, staged, done>>
    BY Zenon DEF StartOperation, controlVars, worldVars, childVars
  <1>2. /\ active # 0 /\ outcome = "ok" /\ steps = <<>> /\ Revision(active) = desired
        /\ done[active] = "none" /\ runState \in RunStates \cup {"none"}
    BY Zenon, <1>1 DEF IInv, Calls
  <1>3. /\ Fit(steps', runState')
        /\ converge /\ runState' # "running" => steps' # <<>> /\ Head(steps') = "stop"
        /\ Kind(active) = "ApplyConfiguration" /\ configured # desired =>
             steps' # <<>> /\ Head(steps') = "stage"
        /\ \A i \in 1..Len(steps') : steps'[i] = "stage" =>
             /\ i = 1 /\ Len(steps') > 1 /\ steps'[2] = "stop"
             /\ Kind(active) = "ApplyConfiguration" /\ configured # desired
    BY Zenon, <1>1, OperationFits
  <1>4. /\ active \in Operations
        /\ receipts' \in Seq(Receipts) /\ Len(receipts') = Len(receipts)
        /\ \A i \in 1..Len(receipts) :
             /\ receipts'[i].op = receipts[i].op
             /\ receipts'[i].state = IF receipts[i].op = active THEN "Running" ELSE receipts[i].state
        /\ Len(receipts') <= Capacity
        /\ \A i \in 1..Len(receipts') : receipts'[i].op <= last'
        /\ \A i \in 1..Len(receipts') : \A j \in 1..(i - 1) : receipts'[j].op < receipts'[i].op
    BY Zenon, <1>1, <1>2, WithStateFacts
  <1>5. DesiredRun' = DesiredRun /\ Kind(active)' = Kind(active) /\ Revision(active)' = Revision(active)
    BY Zenon, <1>1 DEF DesiredRun, Kind, Revision
  <1>6. Plans'  BY Zenon, <1>1 DEF IInv, Plans
  <1>7. Files'
    <2>1. observed' \in RunStates \cup {"stopped", "starting", "error"}
      BY Zenon, <1>1 DEF IInv, Files
    <2> QED  BY Zenon, <1>1, <1>4, <2>1 DEF IInv, Files
  <1>8. Verdicts'
    <2>1. /\ reported' \in [Operations -> Terminal \cup {"open"}]
          /\ \A n \in Operations : n # active => reported'[n] = reported[n]
          /\ reported'[active] \in {reported[active], "open"}
      BY <1>1, <1>4, ReportKeeps DEF IInv, Verdicts, Terminal
    <2>2. \A n \in Operations : reported'[n] # "open" => reported'[n] = done[n]
      BY Zenon, <2>1 DEF IInv, Verdicts
    <2>3. \A i \in 1..Len(receipts') :
            done[receipts'[i].op] = IF receipts'[i].state \in Terminal THEN receipts'[i].state
                                    ELSE "none"
      BY Zenon, <1>2, <1>4 DEF IInv, Verdicts, Terminal
    <2> QED  BY Zenon, <1>1, <2>1, <2>2, <2>3 DEF IInv, Verdicts, Revision
  <1>9. Calls'  BY Zenon, <1>1, <1>2, <1>5, DesiredRunType DEF IInv, Calls
  <1>10. Shape'  BY Zenon, <1>1, <1>2, <1>3, <1>5 DEF Shape, Fit
  <1>11. Engine'
    <2>1. child # "starting" /\ (runState # "running" => child = "none")
      BY Zenon, <1>2 DEF IInv, Engine
    <2> QED  BY Zenon, <1>1, <1>3, <2>1 DEF IInv, Engine, Fit
  <1>12. Observed'  BY Zenon, <1>1, <1>2, <1>5 DEF IInv, Observed, Converging
  <1>13. Configured'  BY Zenon, <1>1, <1>2, <1>3, <1>5 DEF IInv, Configured
  <1>14. Staged'  BY Zenon, <1>1 DEF IInv, Staged, LastApplied, Kind, Revision
  <1>15. Paused'  BY Zenon, <1>1, <1>5 DEF IInv, Paused, Kind, Revision
  <1> QED  BY Zenon, <1>6, <1>7, <1>8, <1>9, <1>10, <1>11, <1>12, <1>13, <1>14, <1>15 DEF IInv

LEMMA FinishOperationKeeps == ASSUME FleetAssumption, IInv, FinishOperation PROVE IInv'
  <1> DEFINE verdict == IF outcome = "ok" THEN "Succeeded" ELSE "Failed"
  <1>1. /\ pc = "adapter" /\ active # 0 /\ steps = <<>> /\ receipts' = WithState(active, verdict)
        /\ done' = [done EXCEPT ![active] = verdict] /\ Report(active, verdict)
        /\ pc' \in {"online", "offline"} /\ active' = 0 /\ outcome' = "ok"
        /\ UNCHANGED <<wanted, plan, desired, last, steps, runState, configured, child, childConfig,
                       staged>>
        /\ applied' = IF outcome = "ok" /\ Kind(active) = "ApplyConfiguration"
                      THEN Revision(active) ELSE applied
        /\ observed' = CASE outcome = "failed" -> "error"
                         [] outcome = "ok" /\ Kind(active) = "ConvergeState" -> runState
                         [] OTHER -> observed
    BY Zenon DEF FinishOperation, controlVars, adapterVars, worldVars, childVars
  <1>2. /\ active <= last /\ Revision(active) = desired /\ done[active] = "none"
        /\ outcome \in {"ok", "failed"}
    BY Zenon, <1>1 DEF IInv, Calls
  <1>3. verdict \in Terminal  BY Zenon DEF Terminal
  <1>4. /\ active \in Operations
        /\ receipts' \in Seq(Receipts) /\ Len(receipts') = Len(receipts)
        /\ \A i \in 1..Len(receipts) :
             /\ receipts'[i].op = receipts[i].op
             /\ receipts'[i].state = IF receipts[i].op = active THEN verdict ELSE receipts[i].state
        /\ Len(receipts') <= Capacity
        /\ \A i \in 1..Len(receipts') : receipts'[i].op <= last'
        /\ \A i \in 1..Len(receipts') : \A j \in 1..(i - 1) : receipts'[j].op < receipts'[i].op
    BY Zenon, <1>1, <1>3, WithStateFacts
  <1>5. /\ done' \in [Operations -> Terminal \cup {"none"}] /\ done'[active] = verdict
        /\ \A n \in Operations : n # active => done'[n] = done[n]
    BY Zenon, <1>1, <1>3, <1>4 DEF IInv, Verdicts
  <1>6. DesiredRun' = DesiredRun /\ desired \in 1..NRevisions /\ DesiredRun \in RunStates
    BY <1>1, <1>2, <1>4 DEF DesiredRun, IInv, Plans, Revision, FleetAssumption
  <1>7. Kind(active) = "ConvergeState" => runState = DesiredRun
    BY Zenon, <1>1 DEF IInv, Observed, Converging
  <1>8. Plans'  BY Zenon, <1>1 DEF IInv, Plans
  <1>9. Files'
    <2>1. observed' \in RunStates \cup {"stopped", "starting", "error"}
      BY Zenon, <1>1, <1>2, <1>6, <1>7 DEF IInv, Files
    <2>2. applied' \in 0..desired  BY <1>1, <1>2, <1>6 DEF IInv, Files
    <2> QED  BY Zenon, <1>1, <1>4, <2>1, <2>2 DEF IInv, Files
  <1>10. Verdicts'
    <2>1. /\ reported' \in [Operations -> Terminal \cup {"open"}]
          /\ \A n \in Operations : n # active => reported'[n] = reported[n]
          /\ reported'[active] \in {reported[active], verdict}
      BY Zenon, <1>1, <1>3, <1>4, ReportKeeps DEF IInv, Verdicts
    <2>2. reported[active] = "open"
      BY Zenon, <1>2, <1>4 DEF IInv, Verdicts, Terminal
    <2>3. \A n \in Operations : reported'[n] # "open" => reported'[n] = done'[n]
      BY Zenon, <1>5, <2>1, <2>2 DEF IInv, Verdicts
    <2>4. ASSUME NEW i \in 1..Len(receipts')
          PROVE  done'[receipts'[i].op] = IF receipts'[i].state \in Terminal THEN receipts'[i].state
                                          ELSE "none"
      <3>1. receipts[i].op \in Operations
        <4>1. receipts \in Seq(Receipts) /\ i \in 1..Len(receipts)  BY Zenon, <1>4 DEF IInv, Files
        <4>2. receipts[i] \in Receipts  BY <4>1
        <4> QED  BY Zenon, <4>2 DEF Receipts
      <3> QED  BY <1>3, <1>4, <1>5, <3>1 DEF IInv, Verdicts
    <2>5. \A n \in Operations : done'[n] # "none" => n <= last' /\ Revision(n)' <= desired'
      BY <1>1, <1>2, <1>5, <1>6 DEF IInv, Verdicts, Revision
    <2> QED  BY Zenon, <1>5, <2>1, <2>3, <2>4, <2>5 DEF Verdicts
  <1>11. Calls' /\ Shape'  BY <1>1 DEF IInv, Calls, Shape, FleetAssumption
  <1>12. Engine'  BY Zenon, <1>1 DEF IInv, Engine
  <1>13. Observed'
    <2>1. runState = "running" /\ outcome = "ok" => child \in {"ready", "dead"}
      BY Zenon, <1>1 DEF IInv, Engine
    <2>2. CASE outcome = "failed"  BY Zenon, <1>1, <2>2 DEF Observed, Converging, RunStates
    <2>3. CASE outcome = "ok" /\ Kind(active) = "ConvergeState"
      BY Zenon, <1>1, <1>6, <1>7, <2>1, <2>3 DEF Observed, Converging, RunStates
    <2>4. CASE outcome = "ok" /\ Kind(active) # "ConvergeState"
      BY Zenon, <1>1, <2>1, <2>4 DEF IInv, Observed, Converging, RunStates
    <2> QED  BY Zenon, <1>2, <2>2, <2>3, <2>4
  <1>14. Configured'  BY Zenon, <1>1 DEF IInv, Configured
  <1>15. Staged'
    <2> SUFFICES ASSUME NEW o \in Operations, LastApplied(o)'
                 PROVE  staged = Revision(o) /\ (child \in Alive => childConfig = Revision(o))
      BY Zenon, <1>1 DEF Staged, Revision
    <2>1. CASE o # active
      <3>1. LastApplied(o)  BY Zenon, <1>1, <1>5, <2>1 DEF LastApplied, Kind
      <3> QED  BY Zenon, <3>1 DEF IInv, Staged
    <2>2. CASE o = active
      <3>1. Kind(active) = "ApplyConfiguration" /\ outcome = "ok"
        BY Zenon, <1>1, <1>5, <2>2 DEF LastApplied, Kind
      <3>2. configured = desired /\ configured # 0
        BY <1>1, <1>6, <3>1 DEF IInv, Configured
      <3> QED  BY Zenon, <1>1, <1>2, <2>2, <3>2 DEF IInv, Configured, Alive
    <2> QED  BY Zenon, <2>1, <2>2
  <1>16. Paused'
    <2> SUFFICES ASSUME NEW o \in Operations, Kind(o) = "ConvergeState", done'[o] = "Succeeded",
                        Revision(o) = desired
                 PROVE  /\ runState \in {"none", DesiredRun}
                        /\ DesiredRun # "running" => child = "none"
      BY Zenon, <1>1, <1>6 DEF Paused, Kind, Revision
    <2>1. CASE o # active  BY Zenon, <1>5, <2>1 DEF IInv, Paused
    <2>2. CASE o = active  BY Zenon, <1>1, <1>7, <2>2 DEF IInv, Engine
    <2> QED  BY Zenon, <2>1, <2>2
  <1> QED  BY Zenon, <1>8, <1>9, <1>10, <1>11, <1>12, <1>13, <1>14, <1>15, <1>16 DEF IInv

-----------------------------------------------------------------------------
LEMMA NextKeeps == ASSUME FleetAssumption, IInv, [Next]_vars PROVE IInv'
  <1>1. CASE AgentStep
    BY Zenon, <1>1, AdapterKeeps, StartKeeps, GateFinishedKeeps, DesiredKeeps, StartOperationKeeps,
       FinishOperationKeeps
    DEF AgentStep
  <1>2. ASSUME NEW o \in Operations, Deliver(o) PROVE IInv'
    BY Zenon, <1>2, AcknowledgeKeeps, ReplayKeeps, ReplayTerminalKeeps DEF Deliver
  <1>3. CASE UNCHANGED vars
    <2>1. UNCHANGED <<wanted, plan, desired, observed, applied, last, receipts, pc, active, steps,
                      outcome, runState, configured, child, childConfig, staged, done, reported>>
      BY Zenon, <1>3 DEF vars, controlVars, stateVars, callVars, adapterVars, worldVars, childVars,
                  historyVars
    <2>2. Plans' /\ Files' /\ Verdicts'  BY Zenon, <2>1 DEF IInv, Plans, Files, Verdicts, Revision
    <2>3. Calls' /\ Shape'  BY Zenon, <2>1 DEF IInv, Calls, Shape, Revision, Kind
    <2>4. Engine'  BY Zenon, <2>1 DEF IInv, Engine
    <2>5. Observed'  BY Zenon, <2>1 DEF IInv, Observed, Converging, DesiredRun, Kind
    <2>6. Configured' /\ Staged'
      BY Zenon, <2>1 DEF IInv, Configured, Staged, LastApplied, Kind, Revision
    <2>7. Paused'  BY Zenon, <2>1 DEF IInv, Paused, DesiredRun, Kind, Revision
    <2> QED  BY Zenon, <2>2, <2>3, <2>4, <2>5, <2>6, <2>7 DEF IInv
  <1> QED  BY Zenon, <1>1, <1>2, <1>3, DesiredKeeps, DisconnectKeeps, RejectKeeps, ChildDiesKeeps DEF Next

LEMMA Inductive == ASSUME FleetAssumption PROVE Spec => []IInv
  <1>1. Init => IInv  BY Zenon, InitIInv
  <1>2. IInv /\ [Next]_vars => IInv'  BY Zenon, NextKeeps
  <1> QED  BY <1>1, <1>2, PTL DEF Spec

\* A paused or drained engine stays down: once the operation that pauses a revision has
\* succeeded, no crash, restart of the agent, reconciliation, rebootstrap or new
\* configuration starts the engine before a newer revision is accepted (apply_startup_gate
\* and restore_running_if_desired).
THEOREM PauseIsKept == ASSUME FleetAssumption PROVE Spec => []PauseHolds
  <1>1. IInv => PauseHolds  BY Zenon, IInvImplies
  <1> QED  BY <1>1, Inductive, PTL

\* Whenever the agent is between operations, what its state file reports of the engine
\* and of its configuration is so, and the state file has the shape that load() accepts.
THEOREM ReportsAreTrue == ASSUME FleetAssumption PROVE Spec => []ReportedIsTrue
  <1>1. IInv => ReportedIsTrue  BY Zenon, IInvImplies
  <1> QED  BY <1>1, Inductive, PTL

\* No operation is executed again after its verdict reached the disk, and the control
\* plane never sees a verdict change, whatever it delivers and however often its receipts
\* are dropped for newer ones (execute_convergence_with_updates).
THEOREM VerdictsAreFinal == ASSUME FleetAssumption PROVE Spec => OperationsOnce
  <1>1. IInv /\ [Next]_vars => [OperationStep]_vars  BY Zenon, OperationStepHolds
  <1> QED  BY <1>1, Inductive, PTL DEF Spec, OperationsOnce
=============================================================================
