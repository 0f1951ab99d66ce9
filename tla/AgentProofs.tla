----------------------------- MODULE AgentProofs -----------------------------
(***************************************************************************)
(* Two parts of an engine that runs under a control plane.                 *)
(*                                                                         *)
(* The supervised loop, for any number of heartbeats, restarts and         *)
(* credential failures: no engine runs over a cursor that its process      *)
(* dropped and has not reconciled.                                         *)
(*                                                                         *)
(* The mTLS identity, for every lifetime, floor and bound: the certificate *)
(* file never expires while every outage is shorter than the lead floor,   *)
(* its keys match their certificates, the control stream follows it, and a *)
(* retried renewal orphans no key.                                         *)
(***************************************************************************)
EXTENDS Supervisor, AgentIdentity, TLAPS

-----------------------------------------------------------------------------
\* The supervised loop.


\* A drain is remembered until the reconciliation, and what a dropped cursor calls for
\* until it is done: the loop is on its way to the reconciliation or has ended, and
\* afterwards the bootstrap stays armed.
Remembered ==
    /\ drained => place \in {"top", "waiting", "reconcile", "failed", "stopped"}
    /\ dropper = life =>
        \/ drained \/ place \in {"reconcile", "failed"}
        \/ "sweep" \notin owed /\ ("snapshot" \in owed => bootstrap)

\* A failure that ends the loop is on its way out, and a spent budget is one.
Budgeted ==
    /\ failing => place \in {"top", "failed", "stopped"}
    /\ credentials = MaxCredentialFailures => failing

LoopInv == TypeOK /\ Remembered /\ Budgeted

-----------------------------------------------------------------------------
LEMMA LoopInitInv == ASSUME SupervisorAssumption, LoopInit PROVE LoopInv
  <1>0. CountTypes  BY DEF SupervisorAssumption, LoopInit, CountTypes
  <1>1. WorldTypes  BY DEF LoopInit, WorldTypes
  <1>2. LoopTypes  BY Zenon DEF SupervisorAssumption, LoopInit, LoopTypes
  <1>3. IterationTypes  BY Zenon DEF SupervisorAssumption, LoopInit, IterationTypes, Outcomes
  <1>4. Remembered /\ Budgeted  BY DEF SupervisorAssumption, LoopInit, Remembered, Budgeted
  <1> QED  BY <1>0, <1>1, <1>2, <1>3, <1>4 DEF LoopInv, TypeOK

LEMMA LoopInvImplies == ASSUME LoopInv PROVE NoUnreconciledIteration
  BY DEF LoopInv, Remembered, NoUnreconciledIteration

\* Heartbeats, shutdowns, restarts and stuttering.
LEMMA OutsideKeeps ==
    ASSUME SupervisorAssumption, LoopInv,
           Heartbeat \/ RequestShutdown \/ Restart \/ UNCHANGED loopVars
    PROVE  LoopInv'
  <1> USE DEF LoopInv, TypeOK, commandVars, localVars, iterationVars, worldVars
  <1>1. CASE Heartbeat
    <2>0. CountTypes'  BY <1>1 DEF CountTypes, Heartbeat, SupervisorAssumption
    <2>1. WorldTypes'  BY <1>1 DEF WorldTypes, Heartbeat, SupervisorAssumption
    <2>2. LoopTypes'  BY <1>1 DEF LoopTypes, Heartbeat, SupervisorAssumption
    <2>3. IterationTypes'  BY <1>1 DEF IterationTypes, Heartbeat, SupervisorAssumption
    <2>4. Remembered'  BY <1>1 DEF CountTypes, LoopTypes, Remembered, Heartbeat, SupervisorAssumption
    <2>5. Budgeted'  BY <1>1 DEF CountTypes, LoopTypes, Budgeted, Heartbeat, SupervisorAssumption
    <2> QED  BY <2>0, <2>1, <2>2, <2>3, <2>4, <2>5
  <1>2. CASE RequestShutdown
    <2>0. CountTypes'  BY <1>2 DEF CountTypes, RequestShutdown
    <2>1. WorldTypes'  BY <1>2 DEF WorldTypes, RequestShutdown
    <2>2. LoopTypes'  BY <1>2 DEF LoopTypes, RequestShutdown
    <2>3. IterationTypes'  BY <1>2 DEF IterationTypes, RequestShutdown
    <2>4. Remembered'  BY <1>2 DEF CountTypes, LoopTypes, Remembered, RequestShutdown
    <2>5. Budgeted'  BY <1>2 DEF CountTypes, LoopTypes, Budgeted, RequestShutdown
    <2> QED  BY <2>0, <2>1, <2>2, <2>3, <2>4, <2>5
  <1>3. CASE Restart
    <2>0. CountTypes'  BY <1>3 DEF CountTypes, Restart, SupervisorAssumption, Outcomes
    <2>1. WorldTypes'  BY <1>3 DEF WorldTypes, Restart, SupervisorAssumption, Outcomes
    <2>2. LoopTypes'  BY Zenon, <1>3 DEF LoopTypes, Restart, SupervisorAssumption, Outcomes
    <2>3. IterationTypes'  BY Zenon, <1>3 DEF IterationTypes, Restart, SupervisorAssumption, Outcomes
    <2>4. Remembered'  BY <1>3 DEF CountTypes, LoopTypes, Remembered, Restart, SupervisorAssumption, Outcomes
    <2>5. Budgeted'  BY <1>3 DEF CountTypes, LoopTypes, Budgeted, Restart, SupervisorAssumption, Outcomes
    <2> QED  BY <2>0, <2>1, <2>2, <2>3, <2>4, <2>5
  <1>4. CASE UNCHANGED loopVars
    <2>0. CountTypes'  BY <1>4 DEF CountTypes, loopVars
    <2>1. WorldTypes'  BY <1>4 DEF WorldTypes, loopVars
    <2>2. LoopTypes'  BY <1>4 DEF LoopTypes, loopVars
    <2>3. IterationTypes'  BY <1>4 DEF IterationTypes, loopVars
    <2>4. Remembered'  BY <1>4 DEF CountTypes, LoopTypes, Remembered, loopVars
    <2>5. Budgeted'  BY <1>4 DEF CountTypes, LoopTypes, Budgeted, loopVars
    <2> QED  BY <2>0, <2>1, <2>2, <2>3, <2>4, <2>5
  <1> QED  BY <1>1, <1>2, <1>3, <1>4

\* The iteration: the engine and the watcher that stops it for a pause.
LEMMA EngineKeeps ==
    ASSUME SupervisorAssumption, LoopInv,
           \/ Bootstrap \/ (\E error \in OwnFailures : EngineFails(error))
           \/ PauseWatcherFires \/ PauseWatcherStops \/ EngineReturns
    PROVE  LoopInv'
  <1> USE DEF LoopInv, TypeOK, commandVars, localVars, iterationVars, worldVars
  <1>1. CASE Bootstrap
    <2>0. CountTypes'  BY <1>1 DEF CountTypes, Bootstrap
    <2>1. WorldTypes'  BY <1>1 DEF WorldTypes, Bootstrap
    <2>2. LoopTypes'  BY <1>1 DEF LoopTypes, Bootstrap
    <2>3. IterationTypes'  BY <1>1 DEF IterationTypes, Bootstrap
    <2>4. Remembered'  BY <1>1 DEF CountTypes, LoopTypes, Remembered, Bootstrap
    <2>5. Budgeted'  BY <1>1 DEF CountTypes, LoopTypes, Budgeted, Bootstrap
    <2> QED  BY <2>0, <2>1, <2>2, <2>3, <2>4, <2>5
  <1>2. CASE \E error \in OwnFailures : EngineFails(error)
    <2>0. CountTypes'  BY <1>2 DEF CountTypes, EngineFails, OwnFailures, Outcomes
    <2>1. WorldTypes'  BY <1>2 DEF WorldTypes, EngineFails, OwnFailures, Outcomes
    <2>2. LoopTypes'  BY <1>2 DEF LoopTypes, EngineFails, OwnFailures, Outcomes
    <2>3. IterationTypes'  BY <1>2 DEF IterationTypes, EngineFails, OwnFailures, Outcomes
    <2>4. Remembered'  BY <1>2 DEF CountTypes, LoopTypes, Remembered, EngineFails, OwnFailures, Outcomes
    <2>5. Budgeted'  BY <1>2 DEF CountTypes, LoopTypes, Budgeted, EngineFails, OwnFailures, Outcomes
    <2> QED  BY <2>0, <2>1, <2>2, <2>3, <2>4, <2>5
  <1>3. CASE PauseWatcherFires
    <2>0. CountTypes'  BY <1>3 DEF CountTypes, PauseWatcherFires
    <2>1. WorldTypes'  BY <1>3 DEF WorldTypes, PauseWatcherFires
    <2>2. LoopTypes'  BY <1>3 DEF LoopTypes, PauseWatcherFires
    <2>3. IterationTypes'  BY Zenon, <1>3 DEF IterationTypes, PauseWatcherFires
    <2>4. Remembered'  BY <1>3 DEF CountTypes, LoopTypes, Remembered, PauseWatcherFires
    <2>5. Budgeted'  BY <1>3 DEF CountTypes, LoopTypes, Budgeted, PauseWatcherFires
    <2> QED  BY <2>0, <2>1, <2>2, <2>3, <2>4, <2>5
  <1>4. CASE PauseWatcherStops
    <2>0. CountTypes'  BY <1>4 DEF CountTypes, PauseWatcherStops
    <2>1. WorldTypes'  BY <1>4 DEF WorldTypes, PauseWatcherStops
    <2>2. LoopTypes'  BY <1>4 DEF LoopTypes, PauseWatcherStops
    <2>3. IterationTypes'  BY Zenon, <1>4 DEF IterationTypes, PauseWatcherStops
    <2>4. Remembered'  BY <1>4 DEF CountTypes, LoopTypes, Remembered, PauseWatcherStops
    <2>5. Budgeted'  BY <1>4 DEF CountTypes, LoopTypes, Budgeted, PauseWatcherStops
    <2> QED  BY <2>0, <2>1, <2>2, <2>3, <2>4, <2>5
  <1>5. CASE EngineReturns
    <2>0. CountTypes'  BY <1>5 DEF CountTypes, EngineReturns, Outcomes
    <2>1. WorldTypes'  BY <1>5 DEF WorldTypes, EngineReturns, Outcomes
    <2>2. LoopTypes'  BY <1>5 DEF LoopTypes, EngineReturns, Outcomes
    <2>3. IterationTypes'  BY Zenon, <1>5 DEF IterationTypes, EngineReturns, Outcomes
    <2>4. Remembered'  BY <1>5 DEF CountTypes, LoopTypes, Remembered, EngineReturns, Outcomes
    <2>5. Budgeted'  BY <1>5 DEF CountTypes, LoopTypes, Budgeted, EngineReturns, Outcomes
    <2> QED  BY <2>0, <2>1, <2>2, <2>3, <2>4, <2>5
  <1> QED  BY <1>1, <1>2, <1>3, <1>4, <1>5

\* The loop of run_cdc_loop itself.
LEMMA RoundKeeps ==
    ASSUME SupervisorAssumption, LoopInv, LoopStep PROVE LoopInv'
  <1> USE DEF LoopInv, TypeOK, commandVars, localVars, iterationVars, worldVars
  <1>1. CASE Top
    <2>0. CountTypes'  BY <1>1 DEF CountTypes, Top, Go, StartIteration, Outcomes
    <2>1. WorldTypes'  BY <1>1 DEF WorldTypes, Top, Go, StartIteration, Outcomes
    <2>2. LoopTypes'  BY <1>1 DEF LoopTypes, Top, Go, StartIteration, Outcomes
    <2>3. IterationTypes'  BY Zenon, <1>1 DEF IterationTypes, Top, Go, StartIteration, Outcomes
    <2>4. Remembered'  BY <1>1 DEF CountTypes, LoopTypes, Remembered, Top, Go, StartIteration, Outcomes
    <2>5. Budgeted'  BY <1>1 DEF CountTypes, LoopTypes, Budgeted, Top, Go, StartIteration, Outcomes
    <2> QED  BY <2>0, <2>1, <2>2, <2>3, <2>4, <2>5
  <1>2. CASE PauseDrain
    <2>0. CountTypes'  BY <1>2 DEF CountTypes, PauseDrain, DropCursor, DrainedWhilePaused, BackendFails, Go
    <2>1. WorldTypes'  BY Zenon, <1>2 DEF WorldTypes, PauseDrain, DropCursor, DrainedWhilePaused, BackendFails, Go
    <2>2. LoopTypes'  BY Zenon, <1>2 DEF LoopTypes, PauseDrain, DropCursor, DrainedWhilePaused, BackendFails, Go
    <2>3. IterationTypes'  BY <1>2 DEF IterationTypes, PauseDrain, DropCursor, DrainedWhilePaused, BackendFails, Go
    <2>4. Remembered'  BY <1>2 DEF CountTypes, LoopTypes, Remembered, PauseDrain, DropCursor, DrainedWhilePaused, BackendFails, Go
    <2>5. Budgeted'  BY <1>2 DEF CountTypes, LoopTypes, Budgeted, PauseDrain, DropCursor, DrainedWhilePaused, BackendFails, Go
    <2> QED  BY <2>0, <2>1, <2>2, <2>3, <2>4, <2>5
  <1>3. CASE ResumeDrain
    <2>0. CountTypes'  BY <1>3 DEF CountTypes, ResumeDrain, DropCursor, BackendFails, Go
    <2>1. WorldTypes'  BY Zenon, <1>3 DEF WorldTypes, ResumeDrain, DropCursor, BackendFails, Go
    <2>2. LoopTypes'  BY <1>3 DEF LoopTypes, ResumeDrain, DropCursor, BackendFails, Go
    <2>3. IterationTypes'  BY <1>3 DEF IterationTypes, ResumeDrain, DropCursor, BackendFails, Go
    <2>4. Remembered'  BY <1>3 DEF CountTypes, LoopTypes, Remembered, ResumeDrain, DropCursor, BackendFails, Go
    <2>5. Budgeted'  BY <1>3 DEF CountTypes, LoopTypes, Budgeted, ResumeDrain, DropCursor, BackendFails, Go
    <2> QED  BY <2>0, <2>1, <2>2, <2>3, <2>4, <2>5
  <1>4. CASE Reconcile
    <2>0. CountTypes'  BY <1>4 DEF CountTypes, Reconcile, StartIteration, BackendFails, Go, Outcomes
    <2>1. WorldTypes'  BY Zenon, <1>4 DEF WorldTypes, Reconcile, StartIteration, BackendFails, Go, Outcomes
    <2>2. LoopTypes'  BY Zenon, <1>4 DEF LoopTypes, Reconcile, StartIteration, BackendFails, Go, Outcomes
    <2>3. IterationTypes'  BY Zenon, <1>4 DEF IterationTypes, Reconcile, StartIteration, BackendFails, Go, Outcomes
    <2>4. Remembered'  BY <1>4 DEF CountTypes, LoopTypes, Remembered, Reconcile, StartIteration, BackendFails, Go, Outcomes
    <2>5. Budgeted'  BY <1>4 DEF CountTypes, LoopTypes, Budgeted, Reconcile, StartIteration, BackendFails, Go, Outcomes
    <2> QED  BY <2>0, <2>1, <2>2, <2>3, <2>4, <2>5
  <1>5. CASE WaitForCommandChange
    <2>0. CountTypes'  BY <1>5 DEF CountTypes, WaitForCommandChange
    <2>1. WorldTypes'  BY <1>5 DEF WorldTypes, WaitForCommandChange
    <2>2. LoopTypes'  BY <1>5 DEF LoopTypes, WaitForCommandChange
    <2>3. IterationTypes'  BY <1>5 DEF IterationTypes, WaitForCommandChange
    <2>4. Remembered'  BY <1>5 DEF CountTypes, LoopTypes, Remembered, WaitForCommandChange
    <2>5. Budgeted'  BY <1>5 DEF CountTypes, LoopTypes, Budgeted, WaitForCommandChange
    <2> QED  BY <2>0, <2>1, <2>2, <2>3, <2>4, <2>5
  <1>6. CASE IterationReturned
    <2> USE <1>6
    <2>1. ~failing /\ credentials \in 0..(MaxCredentialFailures - 1) /\ place = "returned"
      BY DEF IterationReturned, LoopTypes, CountTypes, Budgeted, SupervisorAssumption
    <2>2. /\ credentials' \in 0..MaxCredentialFailures
          /\ credentials' = MaxCredentialFailures => failing'
      <3>1. CASE HandleFailure
        <4>1. PICK healthy \in BOOLEAN :
              LET streak == IF healthy THEN 0 ELSE credentials
                  spent == outcome = "credential" /\ streak + 1 >= MaxCredentialFailures
              IN  /\ credentials' = IF outcome = "credential" THEN streak + 1 ELSE streak
                  /\ failing' = (outcome = "unrecoverable" \/ spent)
          BY <3>1 DEF HandleFailure
        <4> DEFINE streak == IF healthy THEN 0 ELSE credentials
        <4>2. streak \in 0..(MaxCredentialFailures - 1)  BY <2>1 DEF SupervisorAssumption
        <4>3. /\ credentials' = IF outcome = "credential" THEN streak + 1 ELSE streak
              /\ outcome = "credential" /\ streak + 1 >= MaxCredentialFailures => failing'
          BY Zenon, <4>1
        <4> HIDE DEF streak
        <4> QED  BY <4>2, <4>3 DEF SupervisorAssumption
      <3>2. CASE UNCHANGED credentials  BY <2>1, <3>2 DEF SupervisorAssumption
      <3> QED  BY <3>1, <3>2 DEF IterationReturned, AfterIteration
    <2>3. CountTypes'  BY <2>2 DEF CountTypes, IterationReturned
    <2>4. WorldTypes'  BY DEF WorldTypes, IterationReturned
    <2>5. LoopTypes'  BY Zenon DEF LoopTypes, IterationReturned, AfterIteration, HandleFailure
    <2>6. IterationTypes'  BY DEF IterationTypes, IterationReturned
    <2>7. Remembered'
      BY DEF Remembered, IterationReturned, AfterIteration, HandleFailure
    <2>8. failing' => place' \in {"top", "failed", "stopped"}
      BY Zenon, <2>1 DEF IterationReturned, AfterIteration, HandleFailure
    <2> QED  BY <2>2, <2>3, <2>4, <2>5, <2>6, <2>7, <2>8 DEF Budgeted
  <1>7. CASE Backoff
    <2>0. CountTypes'  BY <1>7 DEF CountTypes, Backoff
    <2>1. WorldTypes'  BY <1>7 DEF WorldTypes, Backoff
    <2>2. LoopTypes'  BY <1>7 DEF LoopTypes, Backoff
    <2>3. IterationTypes'  BY <1>7 DEF IterationTypes, Backoff
    <2>4. Remembered'  BY <1>7 DEF CountTypes, LoopTypes, Remembered, Backoff
    <2>5. Budgeted'  BY <1>7 DEF CountTypes, LoopTypes, Budgeted, Backoff
    <2> QED  BY <2>0, <2>1, <2>2, <2>3, <2>4, <2>5
  <1> QED  BY <1>1, <1>2, <1>3, <1>4, <1>5, <1>6, <1>7 DEF LoopStep

-----------------------------------------------------------------------------
\* run_cdc_loop: once a drain has dropped the cursor, no iteration starts before the
\* reconciliation, and what the reconciliation owes stays armed until it is done, however
\* pauses, failures, shutdowns and restarts interleave with it.
THEOREM LoopReconciles ==
    ASSUME SupervisorAssumption PROVE LoopSpec => [](NoUnreconciledIteration /\ TypeOK)
  <1>1. LoopInit => LoopInv  BY LoopInitInv
  <1>2. LoopInv /\ [LoopNext]_loopVars => LoopInv'  BY OutsideKeeps, EngineKeeps, RoundKeeps DEF LoopNext
  <1>3. LoopInv => NoUnreconciledIteration /\ TypeOK  BY LoopInvImplies DEF LoopInv
  <1> QED  BY <1>1, <1>2, <1>3, PTL DEF LoopSpec

-----------------------------------------------------------------------------
\* The identity.


Materials == [key : Nat, cert : Nat, expires : Nat]
States == [active : Materials, pending : Nat]
Places == {"down", "bootstrap", "sleep", "request", "activate", "failed"}
Looping == {"sleep", "request", "activate", "failed"}

Types ==
    /\ disk \in States /\ held \in States /\ work \in States /\ endpoint \in Materials
    /\ pc \in Places /\ due \in Nat /\ now \in Nat /\ up \in BOOLEAN
    /\ outage \in 0..MaxOutage
    /\ minted \in Nat /\ certified \subseteq 1..minted /\ faults \in Nat
    /\ lapses \subseteq {"sync", "read"}

\* What is left of a certificate, plus the outage that used it up, is at least the floor.
Lives(state) ==
    /\ state.active.expires - now + outage >= LeadFloor
    /\ state.active.expires <= now + Lifetime

\* A sleep ends at once or a floor before the certificate it is for expires.
Timely ==
    /\ Present(disk) => Lives(disk)
    /\ pc \in Looping =>
        /\ Present(disk) /\ Lives(held)
        /\ held.active.expires <= disk.active.expires
    /\ pc = "sleep" => due <= now \/ due + LeadFloor <= held.active.expires
    /\ pc \in {"request", "activate"} =>
        Lives(work) /\ work.active.expires = held.active.expires

Matching(state) ==
    /\ state.active.key = state.active.cert
    /\ state.active.key <= minted /\ state.pending <= minted

\* The answer is for the key that was asked for.
Answered ==
    /\ pc = "bootstrap" => answer = Issued(minted) /\ minted > 0 /\ ~Present(disk)
    /\ pc = "activate" => answer = Issued(work.pending)
    /\ pc \in {"request", "activate"} => work.pending > 0

\* Without an unsynced promotion the file, the loop and the control stream agree on the
\* active material; without a failed reload the loop works on the file itself.
Agreeing ==
    /\ "sync" \notin lapses /\ pc \in Looping =>
        endpoint = disk.active /\ held.active = disk.active
    /\ "read" \notin lapses /\ pc = "sleep" => held = disk
    /\ "read" \notin lapses /\ pc \in {"request", "activate"} => work = disk
    /\ pc \in {"request", "activate"} => work.active = held.active

\* Keys are activated in the order they were generated.
KeyOrder ==
    "read" \notin lapses =>
        /\ disk.pending = 0 \/ disk.active.key < disk.pending
        /\ \A k \in certified : k = disk.pending \/ k <= disk.active.key

IInv ==
    /\ Types /\ Timely
    /\ Matching(disk) /\ Matching(held) /\ Matching(work) /\ endpoint.key = endpoint.cert
    /\ Answered /\ Agreeing /\ KeyOrder

-----------------------------------------------------------------------------
\* renewal_delay ends a sleep at once or at least a floor before the expiry.
LEMMA DelayLeavesFloor ==
    ASSUME IdentityAssumption, NEW remaining \in Int
    PROVE  /\ renewal_delay(remaining) \in Nat
           /\ renewal_delay(remaining) = 0 \/ renewal_delay(remaining) + LeadFloor <= remaining
  BY DEF IdentityAssumption, renewal_delay

\* A loop that goes to sleep over a state has a timely end for it.
LEMMA SleepIsTimely ==
    ASSUME IdentityAssumption, NEW state \in States, now \in Nat, Sleeps(state)
    PROVE  /\ due' \in Nat
           /\ due' <= now \/ due' + LeadFloor <= state.active.expires
  <1> DEFINE remaining == state.active.expires - now
  <1>1. remaining \in Int  BY DEF States, Materials
  <1>2. due' = now + renewal_delay(remaining)  BY DEF Sleeps
  <1> HIDE DEF remaining
  <1>3. /\ renewal_delay(remaining) \in Nat
        /\ renewal_delay(remaining) = 0 \/ renewal_delay(remaining) + LeadFloor <= remaining
    BY <1>1, DelayLeavesFloor
  <1> QED  BY <1>1, <1>2, <1>3 DEF remaining, States, Materials, IdentityAssumption

LEMMA InitIInv == ASSUME IdentityAssumption, Init PROVE IInv
  BY DEF IdentityAssumption, Init, IInv, Types, Timely, Matching, Answered, Agreeing, KeyOrder,
         Materials, States, Places, Looping, NoState, NoMaterial, Present

LEMMA IInvImplies == ASSUME IdentityAssumption, IInv PROVE IdentityHolds
  BY DEF IdentityAssumption, IInv, Types, Timely, Matching, Agreeing, KeyOrder, Looping, Lives,
         IdentityHolds, KeysMatch, NeverExpires, EndpointCurrent, NoOrphanedKey, Valid,
         States, Materials

\* IInv without a step's details.
LEMMA StartKeeps == ASSUME IdentityAssumption, IInv, Start PROVE IInv'
  <1> USE DEF IInv
  <1>1. Types'  BY SleepIsTimely DEF Types, Start, Sleeps, States, Materials, NoState, NoMaterial, Places, world
  <1>2. Timely'
    BY SleepIsTimely DEF Types, Timely, Lives, Start, Sleeps, Looping, world, States, Materials
  <1>3. Matching(disk)' /\ Matching(held)' /\ Matching(work)' /\ (endpoint.key = endpoint.cert)'
    BY DEF Types, Matching, Start, Sleeps, NoState, NoMaterial
  <1>4. Answered' /\ Agreeing' /\ KeyOrder'
    BY DEF Types, Answered, Agreeing, KeyOrder, Start, Sleeps, Looping
  <1> QED  BY <1>1, <1>2, <1>3, <1>4

LEMMA EnrollKeeps == ASSUME IdentityAssumption, IInv, enroll_with_key PROVE IInv'
  <1> USE DEF IInv, enroll_with_key
  <1>1. Types'  BY DEF Types, Exits, Fault, States, Materials, NoState, NoMaterial, Places, world
  <1>2. Timely'  BY DEF Types, Timely, Lives, Exits, Looping, world, Present
  <1>3. Matching(disk)' /\ Matching(held)' /\ Matching(work)' /\ (endpoint.key = endpoint.cert)'
    BY DEF Types, Matching, Exits, NoState, NoMaterial, States, Materials
  <1>4. Answered' /\ Agreeing' /\ KeyOrder'
    BY DEF Types, Answered, Agreeing, KeyOrder, Exits, Looping, Issued, Present, world
  <1> QED  BY <1>1, <1>2, <1>3, <1>4

LEMMA BootstrapKeeps == ASSUME IdentityAssumption, IInv, load_or_bootstrap PROVE IInv'
  <1> DEFINE state == [active |-> Material(minted, answer), pending |-> 0]
  <1> USE DEF IInv
  <1>1. /\ pc = "bootstrap" /\ now \in Nat /\ minted \in Nat /\ outage \in Nat
        /\ answer = Issued(minted) /\ minted > 0
    BY DEF load_or_bootstrap, Answered, Types, IdentityAssumption
  <1>2. /\ state \in States /\ state.pending = 0
        /\ state.active.key = minted /\ state.active.cert = minted
        /\ state.active.expires = now + Lifetime
    BY <1>1 DEF Material, Issued, States, Materials, IdentityAssumption
  <1>3. UNCHANGED <<now, up, outage, minted, certified, lapses>>
    BY DEF load_or_bootstrap, world
  <1>4. CASE save(state, TRUE) /\ Sleeps(state) /\ endpoint' = state.active
    <2> HIDE DEF state
    <2> USE <1>1, <1>2, <1>3, <1>4
    <2>0. disk' = state /\ held' = state /\ pc' = "sleep" /\ UNCHANGED faults
          /\ work' = NoState
      BY DEF save, Sleeps
    <2>1. due' \in Nat /\ (due' <= now \/ due' + LeadFloor <= state.active.expires)
      BY SleepIsTimely
    <2>2. Types'
      BY <2>0, <2>1 DEF Types, Places, States, Materials, NoState, NoMaterial
    <2>3. Present(state)  BY DEF Present, NoState, NoMaterial
    <2>4. Timely'
      <3>1. Lives(disk)' /\ Lives(held)'
        BY <2>0 DEF Types, Lives, IdentityAssumption
      <3>2. Present(disk)'
        BY <2>0, <2>3, Zenon DEF Present
      <3>3. (held.active.expires <= disk.active.expires)'
        BY <2>0 DEF States, Materials
      <3>4. due' <= now' \/ due' + LeadFloor <= held'.active.expires
        BY <2>0, <2>1
      <3> QED  BY <2>0, <3>1, <3>2, <3>3, <3>4 DEF Timely
    <2>5. Matching(disk)' /\ Matching(held)' /\ Matching(work)' /\ (endpoint.key = endpoint.cert)'
      BY <2>0 DEF Types, Matching, NoState, NoMaterial
    <2>6. Answered' /\ Agreeing' /\ KeyOrder'
      BY <2>0 DEF Types, Answered, Agreeing, KeyOrder, Looping
    <2> QED  BY <2>2, <2>4, <2>5, <2>6
  <1>5. CASE save(state, FALSE) /\ Exits
    <2> HIDE DEF state
    <2> USE <1>1, <1>2, <1>3, <1>5
    <2>0. /\ disk' \in {disk, state} /\ faults' \in Nat
          /\ held' = NoState /\ pc' = "down" /\ work' = NoState /\ due' = 0
          /\ endpoint' = NoMaterial
      BY DEF save, Exits, Fault, Types
    <2>1. Types'
      BY <2>0 DEF Types, Places, States, Materials, NoState, NoMaterial
    <2>2. Timely'
      BY <2>0 DEF Types, Timely, Lives, Looping, IdentityAssumption, Present
    <2>3. Matching(disk)' /\ Matching(held)' /\ Matching(work)' /\ (endpoint.key = endpoint.cert)'
      BY <2>0 DEF Types, Matching, NoState, NoMaterial
    <2>4. Answered' /\ Agreeing'
      BY <2>0 DEF Answered, Agreeing, Looping
    <2>5. KeyOrder'
      <3>1. CASE disk' = disk  BY <3>1 DEF KeyOrder
      <3>2. CASE disk' = state  BY <3>2 DEF KeyOrder, Types
      <3> QED  BY <2>0, <3>1, <3>2
    <2> QED  BY <2>1, <2>2, <2>3, <2>4, <2>5
  <1> QED  BY Zenon, <1>4, <1>5 DEF load_or_bootstrap

LEMMA PendingKeeps == ASSUME IdentityAssumption, IInv, ensure_pending_renewal PROVE IInv'
  <1> USE DEF IInv
  <1>1. /\ pc = "sleep" /\ now \in Nat /\ minted \in Nat /\ outage \in Nat
        /\ UNCHANGED <<now, up, outage, certified, lapses>>
    BY DEF ensure_pending_renewal, Types, IdentityAssumption, world
  <1>0. UNCHANGED <<held, answer, endpoint, due>>
    BY Zenon DEF ensure_pending_renewal, Fails
  <1>2. CASE UNCHANGED <<disk, work, minted, faults>> /\ pc' = "failed"
    <2> USE <1>1, <1>0, <1>2
    <2>1. Types'  BY DEF Types, Places
    <2>2. Timely'  BY DEF Types, Timely, Lives, Looping, Present
    <2>3. Matching(disk)' /\ Matching(held)' /\ Matching(work)' /\ (endpoint.key = endpoint.cert)'
      BY DEF Matching
    <2>4. Answered' /\ Agreeing' /\ KeyOrder'
      BY DEF Answered, Agreeing, KeyOrder, Looping
    <2> QED  BY <2>1, <2>2, <2>3, <2>4
  <1>3. CASE Valid(held) /\ held.pending # 0 /\ work' = held /\ pc' = "request"
             /\ UNCHANGED <<disk, minted, faults>>
    <2> USE <1>1, <1>0, <1>3
    <2>1. Types'  BY DEF Types, Places
    <2>2. Timely'  BY DEF Types, Timely, Lives, Looping, Present
    <2>3. Matching(disk)' /\ Matching(held)' /\ Matching(work)' /\ (endpoint.key = endpoint.cert)'
      BY DEF Matching
    <2>4. Answered' /\ Agreeing' /\ KeyOrder'
      BY DEF Types, States, Answered, Agreeing, KeyOrder, Looping
    <2> QED  BY <2>1, <2>2, <2>3, <2>4
  <1>4. CASE Valid(held) /\ held.pending = 0 /\ minted' = minted + 1
             /\ LET state == [held EXCEPT !.pending = minted']
                IN \/ save(state, TRUE) /\ work' = state /\ pc' = "request"
                   \/ save(state, FALSE) /\ Fails
    <2> DEFINE state == [held EXCEPT !.pending = minted']
    <2>1. /\ state \in States /\ state.active = held.active /\ state.pending = minted + 1
          /\ held \in States
      BY <1>1, <1>4 DEF Types, States
    <2>2. /\ faults' \in Nat /\ disk' \in {disk, state} /\ minted' = minted + 1
          /\ \/ work' = state /\ pc' = "request" /\ disk' = state
             \/ work' = work /\ pc' = "failed"
      BY <1>4 DEF save, Fails, Fault, Types
    <2> HIDE DEF state
    <2> USE <1>1, <1>0, <2>1, <2>2
    <2>3. Types'  BY DEF Types, Places
    <2>4. Present(disk)'
      BY DEF Timely, Present, Looping, NoState
    <2>5. Timely'  BY <2>4 DEF Types, Timely, Lives, Looping, States, Materials
    <2>6. Matching(disk)' /\ Matching(held)' /\ Matching(work)' /\ (endpoint.key = endpoint.cert)'
      BY DEF Matching, Types, States, Materials
    <2>7. Answered' /\ Agreeing'
      BY DEF Types, Answered, Agreeing, Looping
    <2>8. KeyOrder'
      <3>1. CASE disk' = disk  BY <3>1 DEF KeyOrder
      <3>2. CASE disk' = state /\ "read" \notin lapses
        <4>1. held = disk /\ disk.pending = 0 /\ disk'.active = disk.active
              /\ disk'.pending = minted + 1
          BY <1>4, <3>2 DEF Agreeing
        <4>2. disk.active.key < minted + 1  BY DEF Matching, Types, States, Materials
        <4> QED  BY <3>2, <4>1, <4>2 DEF KeyOrder, Types, States, Materials
      <3>3. CASE "read" \in lapses  BY <3>3 DEF KeyOrder
      <3> QED  BY <3>1, <3>2, <3>3
    <2> QED  BY <2>3, <2>5, <2>6, <2>7, <2>8
  <1> QED  BY Zenon, <1>2, <1>3, <1>4 DEF ensure_pending_renewal, Fails

LEMMA RenewKeeps == ASSUME IdentityAssumption, IInv, renew_once PROVE IInv'
  <1> USE DEF IInv
  <1>1. /\ pc = "request" /\ UNCHANGED <<disk, now, up, outage, minted, lapses>>
        /\ UNCHANGED <<held, work, endpoint, due>>
        /\ pc' \in {"activate", "failed"} /\ faults' \in Nat
        /\ pc' = "activate" => answer' = Issued(work.pending)
        /\ certified' \in {certified, certified \cup {work.pending}}
    BY DEF renew_once, world, Fails, Fault, Types
  <1> USE <1>1
  <1>2. work.pending \in 1..minted
    BY DEF Types, States, Matching, Answered
  <1>3. Types'  BY <1>2 DEF Types, Places
  <1>4. Timely'  BY DEF Types, Timely, Lives, Looping, Present
  <1>5. Matching(disk)' /\ Matching(held)' /\ Matching(work)' /\ (endpoint.key = endpoint.cert)'
    BY DEF Matching
  <1>6. Answered' /\ Agreeing' /\ KeyOrder'
    BY SMTT(30) DEF Types, Answered, Agreeing, KeyOrder, Looping, Issued
  <1> QED  BY <1>3, <1>4, <1>5, <1>6

LEMMA ActivateKeeps == ASSUME IdentityAssumption, IInv, activate_renewal PROVE IInv'
  <1> USE DEF IInv
  <1>1. /\ pc = "activate" /\ now \in Nat /\ minted \in Nat /\ outage \in Nat
        /\ UNCHANGED <<now, up, outage, minted, certified>>
        /\ work \in States /\ work.pending \in Nat /\ work.pending > 0
        /\ answer = Issued(work.pending)
    BY DEF activate_renewal, Types, IdentityAssumption, world, Answered, States
  <1>2. /\ Promoted \in States /\ Promoted.pending = 0
        /\ Promoted.active.key = work.pending /\ Promoted.active.cert = work.pending
        /\ Promoted.active.expires = now + Lifetime
    BY <1>1 DEF Promoted, Material, Issued, States, Materials, IdentityAssumption
  <1>3. Present(Promoted)  BY <1>1, <1>2 DEF Present, NoState, NoMaterial
  <1>4. Matching(Promoted)  BY <1>1, <1>2 DEF Matching
  <1>5. ASSUME "read" \notin lapses, disk' = Promoted, lapses' \subseteq lapses \cup {"sync"}
        PROVE  KeyOrder'
    <2>1. work = disk /\ disk.active.key < disk.pending
      BY <1>1, <1>5 DEF Agreeing, KeyOrder
    <2>2. /\ disk'.pending = 0 /\ disk'.active.key = disk.pending
          /\ disk.pending \in Nat /\ disk.active.key \in Nat /\ certified \subseteq Nat
      BY <1>1, <1>2, <1>5, <2>1 DEF Types, States, Materials
    <2> QED  BY <1>1, <1>5, <2>1, <2>2 DEF KeyOrder
  <1>6. CASE /\ save(Promoted, TRUE) /\ Sleeps(Promoted)
             /\ endpoint' = Promoted.active /\ lapses' = lapses \ {"sync"}
    <2> USE <1>1, <1>2, <1>3, <1>4, <1>6
    <2>1. /\ disk' = Promoted /\ held' = Promoted /\ pc' = "sleep" /\ UNCHANGED faults
          /\ work' = NoState
      BY DEF save, Sleeps
    <2>2. due' \in Nat /\ (due' <= now \/ due' + LeadFloor <= Promoted.active.expires)
      BY SleepIsTimely
    <2>3. Types'
      BY <2>1, <2>2 DEF Types, Places, States, Materials, NoState, NoMaterial
    <2>4. Timely'
      <3>1. Present(disk)' /\ Lives(disk)' /\ Lives(held)'
        BY <2>1 DEF Lives, IdentityAssumption, Present
      <3>2. (held.active.expires <= disk.active.expires)'
        BY <2>1 DEF IdentityAssumption
      <3>3. (due <= now \/ due + LeadFloor <= held.active.expires)'
        BY <2>1, <2>2
      <3> QED  BY <2>1, <3>1, <3>2, <3>3 DEF Timely
    <2>5. Matching(disk)' /\ Matching(held)' /\ Matching(work)' /\ (endpoint.key = endpoint.cert)'
      BY <2>1 DEF Types, Matching, NoState, NoMaterial
    <2>6. Answered' /\ Agreeing'
      BY <2>1 DEF Answered, Agreeing, Looping
    <2>7. KeyOrder'
      <3>1. CASE "read" \notin lapses  BY <1>5, <2>1, <3>1
      <3>2. CASE "read" \in lapses  BY <3>2 DEF KeyOrder
      <3> QED  BY <3>1, <3>2
    <2> QED  BY <2>3, <2>4, <2>5, <2>6, <2>7
  <1>7. CASE /\ save(Promoted, FALSE) /\ Fails
             /\ lapses' = lapses \cup (IF disk' = Promoted THEN {"sync"} ELSE {})
    <2> USE <1>1, <1>2, <1>3, <1>4, <1>7
    <2>1. /\ disk' \in {disk, Promoted} /\ pc' = "failed" /\ faults' \in Nat
          /\ UNCHANGED <<held, work, answer, endpoint, due>>
      BY DEF save, Fails, Fault, Types
    <2>2. Types'
      BY <2>1 DEF Types, Places
    <2>3. Timely'
      BY SMTT(30), <2>1 DEF Types, Timely, Lives, Looping, IdentityAssumption, Present, States, Materials
    <2>4. Matching(disk)' /\ Matching(held)' /\ Matching(work)' /\ (endpoint.key = endpoint.cert)'
      BY <2>1 DEF Matching
    <2>5. Answered' /\ Agreeing'
      BY <2>1 DEF Answered, Agreeing, Looping
    <2>6. KeyOrder'
      <3>1. CASE disk' = Promoted /\ "read" \notin lapses  BY <1>5, <2>1, <3>1
      <3>2. CASE disk' = disk \/ "read" \in lapses  BY SMTT(30), <3>2 DEF KeyOrder
      <3> QED  BY <2>1, <3>1, <3>2
    <2> QED  BY <2>2, <2>3, <2>4, <2>5, <2>6
  <1> QED  BY Zenon, <1>6, <1>7 DEF activate_renewal

LEMMA LoopKeeps == ASSUME IdentityAssumption, IInv, renewal_loop PROVE IInv'
  <1> USE DEF IInv
  <1>1. /\ pc = "failed" /\ now \in Nat
        /\ UNCHANGED <<disk, endpoint, now, up, outage, minted, certified>>
        /\ faults' \in Nat /\ Valid(disk)
        /\ Sleeps(held')
        /\ \/ held' = disk /\ UNCHANGED lapses
           \/ held' = held /\ lapses' = lapses \cup {"read"}
    <2>1. Valid(disk)  BY IInvImplies DEF Timely, Looping, renewal_loop, IdentityHolds, NeverExpires
    <2> QED  BY <2>1 DEF renewal_loop, world, Types, Fault, Sleeps
  <1> USE <1>1
  <1>2. held' \in States  BY DEF Types
  <1>3. due' \in Nat /\ (due' <= now \/ due' + LeadFloor <= held'.active.expires)
    BY <1>2, SleepIsTimely
  <1>4. pc' = "sleep" /\ work' = NoState  BY DEF Sleeps
  <1>5. Types'
    BY Zenon, <1>2, <1>3, <1>4 DEF Types, Places, States, Materials, NoState, NoMaterial
  <1>6. Timely'
    BY <1>3, <1>4 DEF Types, Timely, Lives, Looping, Present, States, Materials
  <1>7. Matching(disk)' /\ Matching(held)' /\ Matching(work)' /\ (endpoint.key = endpoint.cert)'
    BY <1>4 DEF Types, Matching, NoState, NoMaterial
  <1>8. Answered' /\ Agreeing'
    BY <1>4 DEF Answered, Agreeing, Looping
  <1>9. KeyOrder'  BY DEF KeyOrder
  <1> QED  BY <1>5, <1>6, <1>7, <1>8, <1>9

LEMMA CrashKeeps == ASSUME IdentityAssumption, IInv, Crash PROVE IInv'
  <1> USE DEF IInv
  <1>1. /\ UNCHANGED <<disk, now, up, outage, minted, certified, lapses>>
        /\ held' = NoState /\ work' = NoState /\ endpoint' = NoMaterial
        /\ pc' = "down" /\ due' = 0 /\ faults' \in Nat
    BY DEF Crash, Exits, Fault, world, Types
  <1>2. Types'  BY <1>1 DEF Types, Places, States, Materials, NoState, NoMaterial
  <1>3. Timely'  BY <1>1 DEF Timely, Lives, Looping, Present
  <1>4. Matching(disk)' /\ Matching(held)' /\ Matching(work)' /\ (endpoint.key = endpoint.cert)'
    BY SMTT(30), <1>1 DEF Types, Matching, NoState, NoMaterial
  <1>5. Answered' /\ Agreeing' /\ KeyOrder'
    BY <1>1 DEF Answered, Agreeing, KeyOrder, Looping
  <1> QED  BY <1>2, <1>3, <1>4, <1>5

\* Time passes only while the agent is down or asleep: online, before the sleep's end,
\* which leaves the floor; otherwise the outage grows with it.
LEMMA TickKeeps == ASSUME IdentityAssumption, IInv, Tick PROVE IInv'
  <1> USE DEF IInv
  <1>1. /\ UNCHANGED <<disk, held, work, answer, endpoint, pc, due, up, minted, certified,
                       faults, lapses>>
        /\ now' = now + 1 /\ now \in Nat /\ outage \in Nat /\ pc \in {"down", "sleep"}
    BY DEF Tick, agent, Types, IdentityAssumption
  <1>2. \/ outage' = outage + 1 /\ outage < MaxOutage
        \/ outage' = 0 /\ pc = "sleep" /\ due > now
    BY DEF Tick
  <1>3. Types'  BY <1>1, <1>2 DEF Types, IdentityAssumption
  <1>4. Timely'
    BY <1>1, <1>2 DEF Timely, Lives, Looping, Present, Types, States, Materials,
                      IdentityAssumption
  <1>5. Matching(disk)' /\ Matching(held)' /\ Matching(work)' /\ (endpoint.key = endpoint.cert)'
    BY <1>1 DEF Matching
  <1>6. Answered' /\ Agreeing' /\ KeyOrder'
    BY <1>1 DEF Answered, Agreeing, KeyOrder, Looping, Present
  <1> QED  BY <1>3, <1>4, <1>5, <1>6

LEMMA GatewayKeeps == ASSUME IInv, Gateway \/ UNCHANGED vars PROVE IInv'
  <1> USE DEF IInv
  <1>1. /\ UNCHANGED <<disk, held, work, answer, endpoint, pc, due, now, outage, minted,
                       certified, faults, lapses>>
        /\ up' \in BOOLEAN
    BY Zenon DEF Gateway, vars, agent, Types
  <1>2. Types'  BY <1>1 DEF Types
  <1>3. Timely'  BY <1>1 DEF Timely, Lives, Present
  <1>4. Matching(disk)' /\ Matching(held)' /\ Matching(work)' /\ (endpoint.key = endpoint.cert)'
    BY <1>1 DEF Matching
  <1>5. Answered' /\ Agreeing' /\ KeyOrder'
    BY <1>1 DEF Answered, Issued, Present, Agreeing, KeyOrder
  <1> QED  BY <1>2, <1>3, <1>4, <1>5

-----------------------------------------------------------------------------
\* For every lifetime, floor and bound, however often the agent crashes and its calls
\* and writes fail: while each outage is shorter than the floor the identity stays
\* usable, consistent and current (renewal_loop, CredentialStore).
THEOREM IdentitySound == ASSUME IdentityAssumption PROVE Spec => []IdentityHolds
  <1>1. Init => IInv  BY InitIInv
  <1>2. IInv /\ [Next]_vars => IInv'
    BY StartKeeps, EnrollKeeps, BootstrapKeeps, PendingKeeps, RenewKeeps, ActivateKeeps,
       LoopKeeps, CrashKeeps, TickKeeps, GatewayKeeps DEF Next
  <1>3. IInv => IdentityHolds  BY IInvImplies
  <1> QED  BY <1>1, <1>2, <1>3, PTL DEF Spec
==============================================================================
