--------------------------- MODULE DispatcherProofs ---------------------------
(***************************************************************************)
(* For every stream, batch size, byte limit and degree of parallelism: the *)
(* dispatcher's watermark never covers an event that is not handled, and   *)
(* the dispatcher implements DurablePrefix.                                *)
(***************************************************************************)
EXTENDS Dispatcher, FiniteSetTheorems, TLAPS

(***************************************************************************)
(* The inductive invariant.  WatermarkCoversHandledPrefix alone says       *)
(* nothing of the results still on their way to the committer; the parts   *)
(* below follow a batch from the moment it is cut to its commit.           *)
(***************************************************************************)
\* The run task flushes only non-empty batches and pushes only received events.
RunShape ==
    /\ nextSeq - 1 <= flushed
    /\ pc = "spawn" => flushed < taken
    /\ (pc = "push" \/ (pc = "spawn" /\ resume = "push")) => taken < recvd

\* Batches partition the flushed prefix of the stream in order.
BatchShape ==
    /\ \A e \in Events : batchOf[e] # 0 <=> e <= flushed
    /\ \A d, e \in Events : d <= e /\ e <= flushed => batchOf[d] <= batchOf[e]

\* There is a task exactly for the spawned batches, and only reaped results
\* are buffered.
TaskShape ==
    /\ \A s \in Seqs : s >= nextSeq <=> task[s] = "unborn"
    /\ \A s \in pending : task[s] = "reaped"

\* A rejected batch whose dead-letter writes all succeeded has every document
\* in the sink, in the DLQ buffer or still to be written.
QuarantineShape ==
    /\ \A s \in Seqs : task[s] = "sync" => poison[s] = {}
    /\ \A s \in Seqs : task[s] \in {"quarantine", "sync"} /\ writesOk[s] =>
         Docs(s) \subseteq inSink \cup poison[s] \cup dlqBuffered

\* A durable verdict is true.
VerdictShape ==
    \A s \in Seqs :
        task[s] \in {"joinable", "reaped"} /\ outcome[s] = "Durable" =>
            \A e \in Members({s}) : Handled(e)

\* The committed prefix is handled, and the watermark comes from it.
CommitShape ==
    /\ \A e \in Events : batchOf[e] \in 1..(commitSeq - 1) => Handled(e)
    /\ progress = 0 \/ \E j \in Events :
         Mark[j] = progress /\ batchOf[j] \in 1..(commitSeq - 1)

Inv == /\ TypeOK /\ RunShape /\ BatchShape /\ TaskShape
       /\ QuarantineShape /\ VerdictShape /\ CommitShape

LEMMA InitInv == Init => Inv
  <1> SUFFICES ASSUME Init PROVE Inv
    BY Zenon
  <1> USE DispatcherAssumption DEF Init, Events, Seqs
  <1>1. RunTypeOK /\ BatchTypeOK
    BY DEF RunTypeOK, BatchTypeOK
  <1>2. TaskTypeOK
    BY Zenon DEF TaskTypeOK, Outcomes, TaskStates
  <1>3. FlagTypeOK
    BY Zenon DEF FlagTypeOK
  <1>4. RunShape /\ BatchShape /\ TaskShape
    BY DEF RunShape, BatchShape, TaskShape
  <1>5. QuarantineShape /\ VerdictShape /\ CommitShape
    BY DEF QuarantineShape, VerdictShape, CommitShape
  <1> QED
    BY Zenon, <1>1, <1>2, <1>3, <1>4, <1>5 DEF Inv, TypeOK

(***************************************************************************)
(* What depends on which variables.                                        *)
(***************************************************************************)
LEMMA TaskPartStays ==
  ASSUME UNCHANGED <<spawnVars, taskVars, storeVars, commitVars>>
  PROVE  /\ BatchTypeOK => BatchTypeOK'
         /\ TaskTypeOK => TaskTypeOK'
         /\ BatchShape => BatchShape'
         /\ TaskShape => TaskShape'
         /\ QuarantineShape => QuarantineShape'
         /\ VerdictShape => VerdictShape'
         /\ CommitShape => CommitShape'
  <1> USE DEF spawnVars, taskVars, storeVars, commitVars
  <1>1. (BatchTypeOK => BatchTypeOK') /\ (TaskTypeOK => TaskTypeOK')
    BY Zenon DEF BatchTypeOK, TaskTypeOK
  <1>2. (BatchShape => BatchShape') /\ (TaskShape => TaskShape')
    BY Zenon DEF BatchShape, TaskShape
  <1>3. QuarantineShape => QuarantineShape'
    BY Zenon DEF QuarantineShape, Docs, Members
  <1>4. (VerdictShape => VerdictShape') /\ (CommitShape => CommitShape')
    BY Zenon DEF VerdictShape, CommitShape, Handled, Members
  <1> QED
    BY Zenon, <1>1, <1>2, <1>3, <1>4

LEMMA FlagsStay ==
  ASSUME FlagTypeOK, UNCHANGED <<shutdown, commitVars>>
  PROVE  FlagTypeOK'
  BY Zenon DEF FlagTypeOK, commitVars

LEMMA NonEmptyBatch ==
  ASSUME RunTypeOK
  PROVE  Batch # {} <=> flushed < taken
  <1>1. flushed \in Int /\ taken \in Int
    BY DispatcherAssumption DEF RunTypeOK
  <1>2. ASSUME flushed < taken PROVE taken \in Batch
    BY <1>1, <1>2 DEF Batch
  <1>3. ASSUME NEW e \in Batch PROVE flushed < taken
    BY <1>1, <1>3 DEF Batch
  <1> QED
    BY Zenon, <1>2, <1>3

\* The steps of the run task that only move it or the events it holds.
LEMMA RunStepInv ==
  ASSUME Inv,
         ShutdownArm \/ TimerArm \/ RecvArm \/ SourceClosedArm
           \/ Intake \/ Push \/ IntakeDone
  PROVE  Inv'
  <1> USE DispatcherAssumption
  <1>1. UNCHANGED <<spawnVars, taskVars, storeVars, commitVars, shutdown>>
    BY Zenon DEF ShutdownArm, TimerArm, RecvArm, SourceClosedArm, Intake, Push,
           IntakeDone, RunStill
  <1>2. RunTypeOK' /\ RunShape'
    <2> USE DEF Inv, TypeOK, RunTypeOK, RunShape, BatchTypeOK, Goto, FlushThen,
                BatchLen, RunStill, sourceVars, batchVars, spawnVars, Events
    <2>0. Batch # {} <=> flushed < taken
      BY Zenon, NonEmptyBatch
    <2>1. CASE ShutdownArm \/ TimerArm \/ SourceClosedArm
      BY Zenon, <2>0, <2>1 DEF ShutdownArm, TimerArm, SourceClosedArm
    <2>2. CASE RecvArm
      BY <2>2 DEF RecvArm
    <2>3. CASE Intake
      BY Zenon, <2>0, <2>3 DEF Intake
    <2>4. CASE Push
      <3>a. pc = "push" /\ taken' = taken + 1
        BY Zenon, <2>4 DEF Push
      <3>b. taken < recvd
        BY Zenon, <3>a
      <3>c. (pc' = "spawn" /\ resume' = "intake") \/ (pc' = "intake" /\ resume' = resume)
        BY Zenon, <2>4 DEF Push
      <3>d. UNCHANGED <<sent, sourceResult, recvd, flushed, nextSeq, byteLimit, result>>
        BY <2>4, Zenon DEF Push
      <3>1. /\ taken' = taken + 1 /\ taken < recvd /\ pc = "push"
            /\ (pc' = "spawn" /\ resume' = "intake") \/ (pc' = "intake" /\ resume' = resume)
            /\ UNCHANGED <<sent, sourceResult, recvd, flushed, nextSeq, byteLimit, result>>
        BY Zenon, <3>a, <3>b, <3>c, <3>d
      <3>2. batchBytes' \in Nat
        <4>1. taken + 1 \in Events
          BY <3>1
        <4> QED
          BY SMTT(30), <2>4, <4>1, DispatcherAssumption DEF Push
      <3>3. RunTypeOK'
        BY <3>1, <3>2
      <3>4. RunShape'
        BY <3>1
      <3> QED
        BY Zenon, <3>3, <3>4
    <2>5. CASE IntakeDone
      BY Zenon, <2>5 DEF IntakeDone
    <2> QED
      BY Zenon, <2>1, <2>2, <2>3, <2>4, <2>5
  <1> QED
    BY Zenon, <1>1, <1>2, TaskPartStays, FlagsStay DEF Inv, TypeOK

LEMMA SpawnInv ==
  ASSUME Inv, Spawn
  PROVE  Inv'
  <1> USE DispatcherAssumption
  <1>1. /\ flushed < taken /\ taken <= NEvents /\ nextSeq - 1 <= flushed
        /\ nextSeq \in Seqs /\ flushed \in Nat /\ taken \in Nat
        /\ task[nextSeq] = "unborn"
    BY DEF Inv, TypeOK, RunTypeOK, BatchTypeOK, RunShape, TaskShape, Spawn, Seqs
  <1>2. UNCHANGED <<outcome, poison, writesOk, storeVars, commitVars, shutdown>>
    BY Zenon DEF Spawn
  <1>3. \A e \in Events : batchOf'[e] =
          IF flushed < e /\ e <= taken THEN nextSeq ELSE batchOf[e]
    BY <1>1 DEF Spawn, Batch, Events
  <1>a. \A e \in Events :
          /\ e <= flushed => batchOf'[e] = batchOf[e] /\ batchOf[e] \in 1..(nextSeq - 1)
          /\ flushed < e /\ e <= taken => batchOf'[e] = nextSeq /\ batchOf[e] = 0
          /\ taken < e => batchOf'[e] = 0 /\ batchOf[e] = 0
    BY SMTT(30), <1>1, <1>3 DEF Inv, TypeOK, BatchTypeOK, BatchShape, Events
  <1>t. \A e \in Events : e <= flushed \/ (flushed < e /\ e <= taken) \/ taken < e
    BY <1>1 DEF Events
  <1>b. flushed' = taken /\ nextSeq' = nextSeq + 1 /\ Seqs \subseteq Nat \ {0}
    BY DEF Spawn, Seqs
  <1>4. RunTypeOK' /\ RunShape'
    BY <1>1 DEF Inv, TypeOK, RunTypeOK, BatchTypeOK, RunShape, Spawn, Goto,
                sourceVars
  <1>5. BatchTypeOK' /\ TaskTypeOK' /\ FlagTypeOK'
    <2>1. BatchTypeOK'
      BY <1>1, <1>2 DEF Inv, TypeOK, BatchTypeOK, Spawn, Seqs, commitVars
    <2>2. TaskTypeOK'
      BY Zenon, <1>1, <1>2 DEF Inv, TypeOK, TaskTypeOK, TaskStates, Spawn, storeVars
    <2> QED
      BY Zenon, <1>2, <2>1, <2>2, FlagsStay DEF Inv, TypeOK
  <1>6. BatchShape'
    <2>1. ASSUME NEW e \in Events PROVE batchOf'[e] # 0 <=> e <= flushed'
      <3>1. CASE e <= flushed
        <4>1. batchOf'[e] \in 1..(nextSeq - 1)
          BY Zenon, <1>a, <3>1
        <4> QED
          BY <1>1, <1>b, <3>1, <4>1 DEF Events
      <3>2. CASE flushed < e /\ e <= taken
        BY Zenon, <1>1, <1>a, <1>b, <3>2
      <3>3. CASE taken < e
        <4>1. batchOf'[e] = 0
          BY Zenon, <1>a, <3>3
        <4> QED
          BY <1>1, <1>b, <3>3, <4>1 DEF Events
      <3> QED
        BY Zenon, <1>t, <3>1, <3>2, <3>3
    <2>2. ASSUME NEW d \in Events, NEW e \in Events, d <= e, e <= flushed'
          PROVE  batchOf'[d] <= batchOf'[e]
      <3>1. CASE e <= flushed
        BY SMTT(30), <1>1, <1>a, <2>2, <3>1 DEF Inv, BatchShape, Events
      <3>2. CASE flushed < e /\ d <= flushed
        <4>1. batchOf'[e] = nextSeq
          BY Zenon, <1>a, <1>b, <2>2, <3>2
        <4>2. batchOf'[d] \in 1..(nextSeq - 1)
          BY Zenon, <1>a, <3>2
        <4> QED
          BY <1>1, <4>1, <4>2 DEF Seqs
      <3>3. CASE flushed < d
        <4>1. flushed < e /\ e <= taken /\ d <= taken
          BY <1>1, <1>b, <2>2, <3>3 DEF Events
        <4>2. batchOf'[d] = nextSeq /\ batchOf'[e] = nextSeq
          BY Zenon, <1>a, <3>3, <4>1
        <4> QED
          BY <1>1, <4>2 DEF Seqs
      <3> QED
        BY <1>1, <2>2, <3>1, <3>2, <3>3 DEF Events
    <2> QED
      BY Zenon, <2>1, <2>2 DEF BatchShape
  <1>7. TaskShape'
    BY <1>1, <1>2 DEF Inv, TypeOK, BatchTypeOK, TaskTypeOK, TaskShape, Spawn, Seqs,
                      commitVars
  <1>8. \A s \in Seqs : s # nextSeq => Members({s})' = Members({s})
    <2>1. ASSUME NEW s \in Seqs, s # nextSeq, NEW e \in Events
          PROVE  batchOf'[e] = s <=> batchOf[e] = s
      BY Zenon, <1>a, <1>b, <1>t, <2>1
    <2> QED
      BY Zenon, <2>1 DEF Members
  <1>9. \A s \in Seqs : s # nextSeq => task'[s] = task[s]
    BY Zenon, <1>1 DEF Spawn, Inv, TypeOK, TaskTypeOK
  <1>10. task'[nextSeq] = "writing"
    BY Zenon, <1>1 DEF Spawn, Inv, TypeOK, TaskTypeOK
  <1>11. QuarantineShape'
    BY Zenon, <1>2, <1>8, <1>9, <1>10
       DEF Inv, QuarantineShape, Docs, storeVars
  <1>12. VerdictShape'
    BY Zenon, <1>2, <1>8, <1>9, <1>10 DEF Inv, VerdictShape, Handled, storeVars
  <1>13. CommitShape'
    <2>1. \A e \in Events : batchOf'[e] \in 1..(commitSeq - 1) <=>
                             batchOf[e] \in 1..(commitSeq - 1)
      BY <1>1, <1>a, <1>t DEF Inv, TypeOK, BatchTypeOK, Seqs
    <2> QED
      BY Zenon, <1>2, <2>1 DEF Inv, CommitShape, Handled, storeVars, commitVars
  <1> QED
    BY Zenon, <1>4, <1>5, <1>6, <1>7, <1>11, <1>12, <1>13 DEF Inv, TypeOK

\* Nothing a step adds to the sink or to the DLQ unhandles an event.
LEMMA HandledGrows ==
  ASSUME inSink \subseteq inSink', dlqSynced \subseteq dlqSynced'
  PROVE  \A e : Handled(e) => Handled(e)'
  BY Zenon DEF Handled

LEMMA SourceStepInv ==
  ASSUME Inv,
         Publish \/ Cancel \/ \E r \in {"ok", "err"} : SourceReturns(r)
  PROVE  Inv'
  <1> USE DispatcherAssumption
  <1>1. UNCHANGED <<spawnVars, taskVars, storeVars, commitVars>>
    BY Zenon DEF Publish, Cancel, SourceReturns
  <1>2. RunTypeOK' /\ RunShape'
    BY DEF Inv, TypeOK, RunTypeOK, RunShape, Publish, Cancel, SourceReturns,
           batchVars, spawnVars, sourceVars
  <1>3. FlagTypeOK'
    BY Zenon, <1>1 DEF Inv, TypeOK, FlagTypeOK, Publish, Cancel, SourceReturns, commitVars
  <1> QED
    BY Zenon, <1>1, <1>2, <1>3, TaskPartStays DEF Inv, TypeOK

LEMMA ReturnInv ==
  ASSUME Inv, Return
  PROVE  Inv'
  <1> USE DispatcherAssumption
  <1>1. UNCHANGED <<sourceVars, batchVars, spawnVars, taskVars, commitVars, shutdown,
                    inSink, dlqBuffered>>
    BY Zenon DEF Return
  <1>2. dlqSynced \subseteq dlqSynced' /\ dlqSynced' \subseteq Events
    BY ZenonT(30) DEF Return, Inv, TypeOK, TaskTypeOK
  <1>3. RunTypeOK' /\ RunShape'
    BY Zenon, <1>1 DEF Inv, TypeOK, RunTypeOK, RunShape, Return, Goto, batchVars,
                spawnVars, sourceVars
  <1>4. BatchTypeOK' /\ TaskTypeOK'
    BY Zenon, <1>1, <1>2 DEF Inv, TypeOK, BatchTypeOK, TaskTypeOK, spawnVars, taskVars,
                      commitVars
  <1>5. BatchShape' /\ TaskShape' /\ QuarantineShape'
    BY Zenon, <1>1 DEF Inv, BatchShape, TaskShape, QuarantineShape, Docs, Members,
                spawnVars, taskVars, commitVars
  <1>6. VerdictShape' /\ CommitShape'
    BY Zenon, <1>1, <1>2 DEF Inv, VerdictShape, CommitShape, Members, Handled,
                spawnVars, taskVars, commitVars
  <1> QED
    BY Zenon, <1>1, <1>3, <1>4, <1>5, <1>6, FlagsStay DEF Inv, TypeOK

(***************************************************************************)
(* The write tasks.                                                        *)
(***************************************************************************)
\* A task that ends may add to the sink and to the DLQ, and claims durability
\* only when its whole batch is handled.
LEMMA FinishInv ==
  ASSUME Inv, NEW s \in Seqs, NEW verdict \in Outcomes,
         task[s] \in {"writing", "quarantine", "sync"},
         Finish(s, verdict), TaskStill, UNCHANGED <<poison, writesOk, dlqBuffered>>,
         inSink \subseteq inSink', inSink' \subseteq Events,
         dlqSynced \subseteq dlqSynced', dlqSynced' \subseteq Events,
         verdict = "Durable" =>
            \A e \in Members({s}) : e \in Barriers \cup inSink' \cup dlqSynced'
  PROVE  Inv'
  <1> USE DispatcherAssumption
  <1>1. UNCHANGED <<sourceVars, shutdown, pc, resume, batchVars, spawnVars,
                    commitVars, result>>
    BY Zenon DEF TaskStill
  <1>2. /\ task'[s] = "joinable" /\ outcome'[s] = verdict
        /\ \A q \in Seqs : q # s => task'[q] = task[q] /\ outcome'[q] = outcome[q]
    BY Zenon DEF Finish, Inv, TypeOK, TaskTypeOK
  <1>3. \A q : Members({q})' = Members({q})
    BY Zenon, <1>1 DEF Members, spawnVars
  <1>4. RunTypeOK' /\ RunShape' /\ BatchTypeOK' /\ BatchShape'
    BY Zenon, <1>1 DEF Inv, TypeOK, RunTypeOK, RunShape, BatchTypeOK, BatchShape, batchVars,
                spawnVars, sourceVars, commitVars
  <1>5. TaskTypeOK'
    BY Zenon, <1>1 DEF Finish, Inv, TypeOK, TaskTypeOK, TaskStates
  <1>6. TaskShape'
    BY Zenon, <1>1, <1>2 DEF Inv, TypeOK, BatchTypeOK, TaskShape, spawnVars, commitVars, Seqs
  <1>7. QuarantineShape'
    BY Zenon, <1>2, <1>3 DEF Inv, QuarantineShape, Docs
  <1>8. VerdictShape'
    BY Zenon, <1>2, <1>3 DEF Inv, VerdictShape, Handled
  <1>9. CommitShape'
    BY Zenon, <1>1 DEF Inv, CommitShape, Handled, spawnVars, commitVars
  <1> QED
    BY Zenon, <1>1, <1>4, <1>5, <1>6, <1>7, <1>8, <1>9, FlagsStay DEF Inv, TypeOK

LEMMA WriteEndsInv ==
  ASSUME Inv, NEW s \in Seqs,
         BarriersOnly(s) \/ WriteOk(s) \/ WriteFailed(s) \/ WriteCancelled(s)
           \/ Panic(s)
  PROVE  Inv'
  <1> USE DispatcherAssumption
  <1>0. Docs(s) \subseteq Events /\ inSink \subseteq Events /\ dlqSynced \subseteq Events
    BY Zenon DEF Docs, Members, Inv, TypeOK, TaskTypeOK
  <1>1. CASE BarriersOnly(s)
    <2>1. \A e \in Members({s}) : e \in Barriers
      BY Zenon, <1>1 DEF BarriersOnly, Docs
    <2> QED
      BY Zenon, <1>0, <1>1, <2>1, FinishInv DEF BarriersOnly, Outcomes, storeVars
  <1>2. CASE WriteOk(s)
    <2>1. \A e \in Members({s}) : e \in Barriers \cup inSink'
      BY Zenon, <1>2 DEF WriteOk, Docs
    <2> QED
      BY Zenon, <1>0, <1>2, <2>1, FinishInv DEF WriteOk, Outcomes
  <1>3. CASE WriteFailed(s)
    BY Zenon, <1>0, <1>3, FinishInv DEF WriteFailed, Outcomes
  <1>4. CASE WriteCancelled(s)
    BY Zenon, <1>0, <1>4, FinishInv DEF WriteCancelled, Outcomes
  <1>5. CASE Panic(s)
    BY Zenon, <1>0, <1>5, FinishInv DEF Panic, Outcomes, storeVars
  <1> QED
    BY Zenon, <1>1, <1>2, <1>3, <1>4, <1>5

LEMMA DlqSyncInv ==
  ASSUME Inv, NEW s \in Seqs, NEW ok \in BOOLEAN, DlqSync(s, ok)
  PROVE  Inv'
  <1>1. task[s] = "sync" /\ poison[s] = {}
    BY Zenon DEF DlqSync, Inv, QuarantineShape
  <1>2. inSink' = inSink /\ dlqBuffered' = dlqBuffered /\ dlqSynced \subseteq dlqSynced'
        /\ inSink \subseteq Events /\ dlqSynced' \subseteq Events
    BY Zenon DEF DlqSync, Inv, TypeOK, TaskTypeOK
  <1>3. CASE ok /\ writesOk[s]
    <2>1. Finish(s, "Durable") /\ dlqSynced' = dlqSynced \cup dlqBuffered
      BY Zenon, <1>3 DEF DlqSync
    <2>2. Docs(s) \subseteq inSink \cup dlqBuffered
      BY Zenon, <1>1, <1>3 DEF Inv, QuarantineShape
    <2>3. \A e \in Members({s}) : e \in Barriers \cup inSink' \cup dlqSynced'
      BY Zenon, <1>2, <2>1, <2>2 DEF Docs
    <2> QED
      BY Zenon, <1>1, <1>2, <2>1, <2>3, FinishInv DEF DlqSync, Outcomes
  <1>4. CASE ~(ok /\ writesOk[s])
    <2>1. Finish(s, "NonDurable")
      BY Zenon, <1>4 DEF DlqSync
    <2> QED
      BY Zenon, <1>1, <1>2, <2>1, FinishInv DEF DlqSync, Outcomes
  <1> QED
    BY Zenon, <1>3, <1>4
LEMMA WriteRejectedInv ==
  ASSUME Inv, NEW s \in Seqs, NEW items \in SUBSET Docs(s), WriteRejected(s, items)
  PROVE  Inv'
  <1> USE DispatcherAssumption
  <1>1. UNCHANGED <<sourceVars, shutdown, pc, resume, batchVars, spawnVars,
                    commitVars, result, outcome, writesOk, dlqBuffered, dlqSynced>>
    BY Zenon DEF TaskStill, WriteRejected
  <1>2. /\ task[s] = "writing" /\ task'[s] = "quarantine" /\ poison'[s] = items
        /\ \A q \in Seqs : q # s => task'[q] = task[q] /\ poison'[q] = poison[q]
    BY Zenon DEF WriteRejected, Inv, TypeOK, TaskTypeOK
  <1>3. \A q : Members({q})' = Members({q})
    BY Zenon, <1>1 DEF Members, spawnVars
  <1>4. inSink' = inSink \cup (Docs(s) \ items) /\ Docs(s) \subseteq Events
    BY Zenon DEF WriteRejected, Docs, Members
  <1>5. RunTypeOK' /\ RunShape' /\ BatchTypeOK' /\ BatchShape'
    BY Zenon, <1>1 DEF Inv, TypeOK, RunTypeOK, RunShape, BatchTypeOK, BatchShape, batchVars,
                spawnVars, sourceVars, commitVars
  <1>6. TaskTypeOK'
    BY Zenon, <1>1, <1>4 DEF WriteRejected, Inv, TypeOK, TaskTypeOK, TaskStates
  <1>7. TaskShape'
    BY Zenon, <1>1, <1>2 DEF Inv, TypeOK, BatchTypeOK, TaskShape, spawnVars, commitVars, Seqs
  <1>8. QuarantineShape'
    <2>1. \A q : Docs(q)' = Docs(q)
      BY Zenon, <1>3 DEF Docs
    <2>2. Docs(s)' \subseteq inSink' \cup poison'[s] \cup dlqBuffered'
      BY Zenon, <1>2, <1>4, <2>1
    <2>3. ASSUME NEW q \in Seqs, q # s
          PROVE  /\ task'[q] = "sync" => poison'[q] = {}
                 /\ task'[q] \in {"quarantine", "sync"} /\ writesOk'[q] =>
                      Docs(q)' \subseteq inSink' \cup poison'[q] \cup dlqBuffered'
      BY Zenon, <1>1, <1>2, <1>4, <2>1, <2>3 DEF Inv, QuarantineShape
    <2> QED
      BY Zenon, <1>2, <2>2, <2>3 DEF QuarantineShape
  <1>9. VerdictShape' /\ CommitShape'
    <2>1. \A d : Handled(d) => Handled(d)'
      BY Zenon, <1>1, <1>4 DEF Handled
    <2>2. VerdictShape'
      BY Zenon, <1>1, <1>2, <1>3, <2>1 DEF Inv, VerdictShape
    <2>3. CommitShape'
      BY Zenon, <1>1, <2>1 DEF Inv, CommitShape, spawnVars, commitVars
    <2> QED
      BY Zenon, <2>2, <2>3
  <1> QED
    BY Zenon, <1>1, <1>5, <1>6, <1>7, <1>8, <1>9, FlagsStay DEF Inv, TypeOK

LEMMA DlqRecordInv ==
  ASSUME Inv, NEW s \in Seqs, NEW e \in Events, NEW ok \in BOOLEAN, DlqRecord(s, e, ok)
  PROVE  Inv'
  <1> USE DispatcherAssumption
  <1>1. UNCHANGED <<sourceVars, shutdown, pc, resume, batchVars, spawnVars,
                    commitVars, result, outcome, inSink, dlqSynced>>
    BY Zenon DEF TaskStill, DlqRecord
  <1>2. /\ task[s] = "quarantine" /\ e \in poison[s] /\ poison'[s] = poison[s] \ {e}
        /\ \A q \in Seqs : q # s =>
              /\ task'[q] = task[q] /\ poison'[q] = poison[q]
              /\ writesOk'[q] = writesOk[q]
    BY Zenon DEF DlqRecord, Inv, TypeOK, TaskTypeOK
  <1>3. task'[s] = IF poison[s] = {e} THEN "sync" ELSE "quarantine"
    BY Zenon DEF DlqRecord, Inv, TypeOK, TaskTypeOK
  <1>4. \A q : Members({q})' = Members({q})
    BY Zenon, <1>1 DEF Members, spawnVars
  <1>5. dlqBuffered \subseteq dlqBuffered'
    BY Zenon DEF DlqRecord
  <1>6. writesOk'[s] => writesOk[s] /\ e \in dlqBuffered'
    BY Zenon DEF DlqRecord, Inv, TypeOK, TaskTypeOK
  <1>7. RunTypeOK' /\ RunShape' /\ BatchTypeOK' /\ BatchShape'
    BY Zenon, <1>1 DEF Inv, TypeOK, RunTypeOK, RunShape, BatchTypeOK, BatchShape, batchVars,
                spawnVars, sourceVars, commitVars
  <1>8. TaskTypeOK'
    BY Zenon, <1>1 DEF DlqRecord, Inv, TypeOK, TaskTypeOK, TaskStates
  <1>9. TaskShape'
    BY Zenon, <1>1, <1>2, <1>3 DEF Inv, TypeOK, BatchTypeOK, TaskShape, spawnVars, commitVars, Seqs
  <1>10. QuarantineShape'
    <2>1. \A q \in Seqs : task'[q] = "sync" => poison'[q] = {}
      BY Zenon, <1>2, <1>3 DEF Inv, QuarantineShape
    <2>2. \A q \in Seqs : q # s /\ task'[q] \in {"quarantine", "sync"} /\ writesOk'[q] =>
            Docs(q) \subseteq inSink \cup poison'[q] \cup dlqBuffered'
      BY Zenon, <1>2, <1>5 DEF Inv, QuarantineShape
    <2>3. writesOk'[s] => Docs(s) \subseteq inSink \cup poison'[s] \cup dlqBuffered'
      BY Zenon, <1>2, <1>5, <1>6 DEF Inv, QuarantineShape
    <2>4. ASSUME NEW q \in Seqs, task'[q] \in {"quarantine", "sync"}, writesOk'[q]
          PROVE  Docs(q) \subseteq inSink \cup poison'[q] \cup dlqBuffered'
      BY Zenon, <2>2, <2>3, <2>4
    <2>5. \A q : Docs(q)' = Docs(q)
      BY Zenon, <1>4 DEF Docs
    <2> QED
      BY Zenon, <1>1, <2>1, <2>4, <2>5 DEF QuarantineShape
  <1>11. VerdictShape' /\ CommitShape'
    <2>1. \A d : Handled(d) => Handled(d)'
      BY Zenon, <1>1 DEF Handled
    <2>2. VerdictShape'
      BY Zenon, <1>1, <1>2, <1>3, <1>4, <2>1 DEF Inv, VerdictShape
    <2>3. CommitShape'
      BY Zenon, <1>1, <2>1 DEF Inv, CommitShape, spawnVars, commitVars
    <2> QED
      BY Zenon, <2>2, <2>3
  <1> QED
    BY Zenon, <1>1, <1>7, <1>8, <1>9, <1>10, <1>11, FlagsStay DEF Inv, TypeOK
(***************************************************************************)
(* The committer.                                                          *)
(***************************************************************************)
\* A committed run is made of durable batches, so its events are handled.
LEMMA CommitResultCommits ==
  ASSUME Inv, NEW s \in Seqs, task[s] = "joinable", CommitResult(s),
         UNCHANGED <<spawnVars, storeVars>>
  PROVE  /\ commitSeq' \in commitSeq..nextSeq
         /\ pending' \subseteq pending \cup {s}
         /\ progress' \in Nat
         /\ CommitShape'
  <1> USE DispatcherAssumption
  <1> DEFINE held == pending \cup {s}
             Durable(q) == q \in held /\ outcome[q] = "Durable"
  <1>1. PICK stop \in commitSeq..nextSeq :
          /\ \A q \in commitSeq..(stop - 1) : Durable(q)
          /\ commitSeq' = stop
          /\ \E m \in MarksOf(Members(commitSeq..(stop - 1))) :
                progress' = IF m > progress THEN m ELSE progress
          /\ pending' \subseteq held
    BY Zenon DEF CommitResult, CommitHeld
  <1>2. /\ commitSeq \in Nat \ {0} /\ nextSeq \in Nat /\ stop \in Nat
        /\ progress \in Nat /\ batchOf \in [Events -> Nat] /\ pending \subseteq Seqs
        /\ batchOf' = batchOf
    BY <1>1 DEF Inv, TypeOK, BatchTypeOK, spawnVars
  <1>3. \A q \in commitSeq..(stop - 1) : \A e \in Members({q}) : Handled(e)
    BY Zenon, <1>1, <1>2 DEF Inv, VerdictShape, TaskShape
  <1>4. \A e \in Events : batchOf[e] \in 1..(stop - 1) => Handled(e)
    <2> SUFFICES ASSUME NEW e \in Events, batchOf[e] \in 1..(stop - 1)
                 PROVE  Handled(e)
      BY Zenon
    <2>1. CASE batchOf[e] < commitSeq
      BY <1>2, <2>1 DEF Inv, CommitShape
    <2>2. CASE batchOf[e] >= commitSeq
      BY <1>2, <1>3, <2>2 DEF Members
    <2> QED
      BY <1>2, <2>1, <2>2
  <1>5. PICK m \in MarksOf(Members(commitSeq..(stop - 1))) :
          progress' = IF m > progress THEN m ELSE progress
    BY Zenon, <1>1
  <1>6. m = 0 \/ \E e \in Events : m = Mark[e] /\ batchOf[e] \in commitSeq..(stop - 1)
    BY Zenon, <1>5 DEF MarksOf, Members
  <1>7. m \in Nat /\ progress' \in Nat
    BY <1>2, <1>5, <1>6
  <1>8. progress' = 0 \/ \E j \in Events :
          Mark[j] = progress' /\ batchOf[j] \in 1..(stop - 1)
    <2>1. CASE progress' = progress
      <3>1. \A k : k \in 1..(commitSeq - 1) => k \in 1..(stop - 1)
        BY <1>1, <1>2
      <3> QED
        BY Zenon, <2>1, <3>1 DEF Inv, CommitShape
    <2>2. CASE progress' = m /\ m # 0
      <3>1. \A k : k \in commitSeq..(stop - 1) => k \in 1..(stop - 1)
        BY <1>2
      <3> QED
        BY Zenon, <1>6, <2>2, <3>1
    <2> QED
      BY Zenon, <1>2, <1>5, <1>7, <2>1, <2>2
  <1>9. CommitShape'
    BY Zenon, <1>1, <1>2, <1>4, <1>8 DEF CommitShape, Handled, storeVars
  <1> QED
    BY Zenon, <1>1, <1>7, <1>9

LEMMA OnJoinedInv ==
  ASSUME Inv, NEW s \in Seqs, OnJoined(s)
  PROVE  /\ BatchTypeOK' /\ TaskTypeOK' /\ FlagTypeOK' /\ BatchShape' /\ TaskShape'
         /\ QuarantineShape' /\ VerdictShape' /\ CommitShape'
  <1> USE DispatcherAssumption
  <1>1. UNCHANGED <<sourceVars, batchVars, spawnVars, outcome, poison, writesOk,
                    storeVars, result>>
    BY Zenon DEF OnJoined
  <1>2. /\ task[s] = "joinable" /\ task'[s] = "reaped"
        /\ \A q \in Seqs : q # s => task'[q] = task[q]
    BY Zenon DEF OnJoined, Inv, TypeOK, TaskTypeOK
  <1>3. /\ commitSeq' \in commitSeq..nextSeq /\ pending' \subseteq pending \cup {s}
        /\ progress' \in Nat /\ CommitShape'
    <2>1. CASE UNCHANGED <<commitSeq, pending, progress>>
      BY <1>1, <2>1 DEF Inv, TypeOK, BatchTypeOK, CommitShape, Handled, storeVars,
                        spawnVars
    <2>2. CASE CommitResult(s)
      BY Zenon, <1>1, <1>2, <2>2, CommitResultCommits
    <2> QED
      BY Zenon, <2>1, <2>2 DEF OnJoined, commitVars
  <1>4. \A q : Members({q})' = Members({q})
    BY Zenon, <1>1 DEF Members, spawnVars
  <1>5. BatchTypeOK'
    BY <1>1, <1>3 DEF Inv, TypeOK, BatchTypeOK, spawnVars
  <1>6. TaskTypeOK'
    BY Zenon, <1>1 DEF OnJoined, Inv, TypeOK, TaskTypeOK, TaskStates, storeVars
  <1>7. FlagTypeOK'
    BY Zenon DEF OnJoined, CommitResult, CommitHeld, Inv, TypeOK, FlagTypeOK, commitVars
  <1>8. BatchShape'
    BY Zenon, <1>1 DEF Inv, BatchShape, spawnVars
  <1>9. TaskShape'
    BY Zenon, <1>1, <1>2, <1>3 DEF Inv, TypeOK, BatchTypeOK, TaskShape, spawnVars, Seqs
  <1>10. QuarantineShape'
    BY Zenon, <1>1, <1>2, <1>4 DEF Inv, QuarantineShape, Docs, storeVars
  <1>11. VerdictShape'
    BY Zenon, <1>1, <1>2, <1>4 DEF Inv, VerdictShape, Handled, storeVars
  <1> QED
    BY Zenon, <1>3, <1>5, <1>6, <1>7, <1>8, <1>9, <1>10, <1>11

LEMMA ReapInv ==
  ASSUME Inv, NEW s \in Seqs, ReapArm(s) \/ SpawnWait(s) \/ DrainReap(s)
  PROVE  Inv'
  <1>1. OnJoined(s)
    BY Zenon DEF ReapArm, SpawnWait, DrainReap
  <1>2. RunTypeOK' /\ RunShape'
    <2> USE DispatcherAssumption DEF Inv, TypeOK, RunTypeOK, RunShape, sourceVars,
            batchVars, spawnVars
    <2>1. CASE ReapArm(s)
      BY Zenon, <1>1, <2>1, NonEmptyBatch DEF ReapArm, OnJoined, FlushThen, Goto
    <2>2. CASE SpawnWait(s) \/ DrainReap(s)
      BY Zenon, <1>1, <2>2 DEF SpawnWait, DrainReap, OnJoined
    <2> QED
      BY Zenon, <2>1, <2>2
  <1> QED
    BY Zenon, <1>1, <1>2, OnJoinedInv DEF Inv, TypeOK
LEMMA NextInv == Inv /\ [Next]_vars => Inv'
  <1> SUFFICES ASSUME Inv, [Next]_vars PROVE Inv'
    BY Zenon
  <1>1. CASE Publish \/ Cancel \/ \E r \in {"ok", "err"} : SourceReturns(r)
    BY Zenon, <1>1, SourceStepInv
  <1>2. CASE RunTask
    <2>1. CASE ShutdownArm \/ TimerArm \/ RecvArm \/ SourceClosedArm
                 \/ Intake \/ Push \/ IntakeDone
      BY Zenon, <2>1, RunStepInv
    <2>2. CASE Spawn
      BY Zenon, <2>2, SpawnInv
    <2>3. CASE Return
      BY Zenon, <2>3, ReturnInv
    <2>4. CASE \E s \in Seqs : ReapArm(s) \/ SpawnWait(s) \/ DrainReap(s)
      BY Zenon, <2>4, ReapInv
    <2> QED
      BY Zenon, <1>2, <2>1, <2>2, <2>3, <2>4 DEF RunTask
  <1>3. CASE \E s \in Seqs : WriteTask(s)
    <2> PICK s \in Seqs : WriteTask(s)
      BY Zenon, <1>3
    <2>1. CASE BarriersOnly(s) \/ WriteOk(s) \/ WriteFailed(s) \/ WriteCancelled(s)
                 \/ Panic(s)
      BY Zenon, <2>1, WriteEndsInv
    <2>2. CASE \E items \in SUBSET Docs(s) : WriteRejected(s, items)
      BY Zenon, <2>2, WriteRejectedInv
    <2>3. CASE \E e \in Events, ok \in BOOLEAN : DlqRecord(s, e, ok)
      BY Zenon, <2>3, DlqRecordInv
    <2>4. CASE \E ok \in BOOLEAN : DlqSync(s, ok)
      BY Zenon, <2>4, DlqSyncInv
    <2> QED
      BY Zenon, <2>1, <2>2, <2>3, <2>4 DEF WriteTask
  <1>4. CASE UNCHANGED vars
    <2>1. UNCHANGED <<spawnVars, taskVars, storeVars, commitVars, shutdown>>
      BY Zenon, <1>4 DEF vars
    <2>2. RunTypeOK' /\ RunShape'
      BY Zenon, <1>4 DEF Inv, TypeOK, RunTypeOK, RunShape, vars, sourceVars, batchVars, spawnVars
    <2> QED
      BY Zenon, <2>1, <2>2, TaskPartStays, FlagsStay DEF Inv, TypeOK
  <1> QED
    BY Zenon, <1>1, <1>2, <1>3, <1>4 DEF Next

LEMMA InvHolds == Spec => []Inv
  BY InitInv, NextInv, PTL DEF Spec

\* Every variable keeps its type, for every stream and configuration.
THEOREM TypeCorrect == Spec => []TypeOK
  <1>1. Inv => TypeOK
    BY Zenon DEF Inv
  <1> QED
    BY <1>1, InvHolds, PTL

\* The events up to one of a committed batch are handled.
LEMMA CommittedPrefix ==
  ASSUME Inv, NEW j \in Events, batchOf[j] \in 1..(commitSeq - 1)
  PROVE  \A e \in 1..j : Handled(e)
  <1> USE DispatcherAssumption
  <1> SUFFICES ASSUME NEW e \in 1..j PROVE Handled(e)
    BY Zenon
  <1>1. e \in Events /\ e <= j /\ j <= flushed
    BY DEF Events, Inv, BatchShape
  <1>2. batchOf[e] # 0 /\ batchOf[e] <= batchOf[j]
    BY <1>1 DEF Events, Inv, BatchShape, TypeOK, RunTypeOK
  <1>3. batchOf[e] \in 1..(commitSeq - 1)
    BY <1>1, <1>2 DEF Inv, TypeOK, BatchTypeOK
  <1> QED
    BY Zenon, <1>1, <1>3 DEF Inv, CommitShape

LEMMA InvImpliesWatermark == Inv => WatermarkCoversHandledPrefix
  BY Zenon, CommittedPrefix DEF Inv, CommitShape, WatermarkCoversHandledPrefix

\* The watermark that gates the source's checkpoint never covers an event that
\* is neither in the sink nor on disk in the DLQ.
THEOREM WatermarkSafe == Spec => []WatermarkCoversHandledPrefix
  BY InvHolds, InvImpliesWatermark, PTL

(***************************************************************************)
(* Refinement of DurablePrefix.                                            *)
(***************************************************************************)
LEMMA OnJoinedRaises ==
  ASSUME Inv, NEW s \in Seqs, OnJoined(s)
  PROVE  progress' = progress \/ progress' > progress
  BY Zenon DEF OnJoined, CommitResult, CommitHeld, commitVars

\* A step leaves the watermark alone and only adds handled events, or raises
\* it and handles nothing.
LEMMA StepShape ==
  ASSUME Inv, Next
  PROVE  \/ /\ progress' = progress
            /\ inSink \subseteq inSink' /\ dlqSynced \subseteq dlqSynced'
         \/ progress' > progress /\ UNCHANGED <<inSink, dlqSynced>>
  <1>1. CASE Publish \/ Cancel \/ \E r \in {"ok", "err"} : SourceReturns(r)
    BY Zenon, <1>1 DEF Publish, Cancel, SourceReturns, storeVars, commitVars
  <1>2. CASE ShutdownArm \/ TimerArm \/ RecvArm \/ SourceClosedArm \/ Intake \/ Push
               \/ IntakeDone \/ Spawn \/ Return
    BY Zenon, <1>2 DEF ShutdownArm, TimerArm, RecvArm, SourceClosedArm, Intake, Push,
                IntakeDone, Spawn, Return, RunStill, storeVars, commitVars
  <1>3. ASSUME NEW s \in Seqs, ReapArm(s) \/ SpawnWait(s) \/ DrainReap(s)
        PROVE  (progress' = progress \/ progress' > progress) /\ UNCHANGED storeVars
    <2>1. OnJoined(s)
      BY Zenon, <1>3 DEF ReapArm, SpawnWait, DrainReap
    <2> QED
      BY Zenon, <2>1, OnJoinedRaises DEF OnJoined
  <1>4. ASSUME NEW s \in Seqs, WriteTask(s)
        PROVE  progress' = progress /\ inSink \subseteq inSink' /\ dlqSynced \subseteq dlqSynced'
    <2>1. progress' = progress
      BY Zenon, <1>4 DEF WriteTask, BarriersOnly, WriteOk, WriteFailed, WriteCancelled,
                  WriteRejected, DlqRecord, DlqSync, Panic, TaskStill, commitVars
    <2>2. inSink \subseteq inSink' /\ dlqSynced \subseteq dlqSynced'
      BY Zenon, <1>4 DEF WriteTask, BarriersOnly, WriteOk, WriteFailed, WriteCancelled,
                  WriteRejected, DlqRecord, DlqSync, Panic, storeVars
    <2> QED
      BY Zenon, <2>1, <2>2
  <1> QED
    BY Zenon, <1>1, <1>2, <1>3, <1>4 DEF Next, RunTask, storeVars

\* The dispatcher implements DurablePrefix: its first state is the abstract
\* one's, and each of its steps handles events, advances the watermark over a
\* handled prefix, or is invisible.
THEOREM DispatcherImplementsDurablePrefix == Spec => ImplementsDurablePrefix
  <1> DEFINE H == Barriers \cup inSink \cup dlqSynced
  <1>1. Init => Promise!Init
    BY Zenon DEF Init, Promise!Init
  <1>2. Inv /\ Inv' /\ WatermarkCoversHandledPrefix' /\ [Next]_vars => [Promise!Next]_(Promise!dpVars)
    <2> SUFFICES ASSUME Inv, Inv', WatermarkCoversHandledPrefix', [Next]_vars
                 PROVE  Promise!Next \/ UNCHANGED Promise!dpVars
      BY Zenon
    <2>1. CASE UNCHANGED vars
      BY Zenon, <2>1 DEF vars, storeVars, commitVars, Promise!dpVars
    <2>2. CASE Next /\ progress' = progress /\ inSink \subseteq inSink'
                 /\ dlqSynced \subseteq dlqSynced'
      <3>1. H' \subseteq Events /\ H \subseteq H'
        BY Zenon, <2>2, DispatcherAssumption DEF Inv, TypeOK, TaskTypeOK
      <3>2. H' \in SUBSET (1..NEvents) /\ H' = H \cup H'
        BY Zenon, <3>1 DEF Events
      <3>3. Promise!Handle
        BY Zenon, <2>2, <3>2 DEF Promise!Handle
      <3> QED
        BY Zenon, <3>3 DEF Promise!Next
    <2>3. CASE Next /\ progress' > progress /\ UNCHANGED <<inSink, dlqSynced>>
      <3>1. progress \in Nat /\ progress' \in Nat
        BY Zenon DEF Inv, TypeOK, BatchTypeOK
      <3>2. PICK j \in Events : Mark[j] = progress' /\ \A e \in 1..j : Handled(e)'
        BY <2>3, <3>1 DEF WatermarkCoversHandledPrefix
      <3>3. 1..j \subseteq H
        BY Zenon, <2>3, <3>2 DEF Handled
      <3>4. Promise!Advance
        BY Zenon, <2>3, <3>2, <3>3 DEF Promise!Advance, Events
      <3> QED
        BY Zenon, <3>4 DEF Promise!Next
    <2> QED
      BY Zenon, <2>1, <2>2, <2>3, StepShape
  <1> QED
    BY <1>1, <1>2, InvHolds, WatermarkSafe, PTL DEF Spec, ImplementsDurablePrefix, Promise!Spec

-----------------------------------------------------------------------------
(***************************************************************************)
(* A clean exit is complete.  What a clean return needs to know: the run   *)
(* task leaves nothing behind on its way out, and the committer loses no   *)
(* result unless it has stopped for a reason.                              *)
(***************************************************************************)
ExitShape ==
    /\ pc = "select" => taken = recvd
    /\ pc = "spawn" /\ resume \in {"select", "drain"} => taken = recvd
    /\ pc \in {"drain", "done"} => flushed = taken /\ taken = recvd
    /\ pc = "done" => InFlight = {}
    /\ result # "none" => pc = "done"
    /\ result = "ok" => ~fatal

CommitterShape ==
    /\ \A s \in pending : s > commitSeq
    /\ ~failed => \A s \in Seqs : task[s] = "reaped" => s < commitSeq \/ s \in pending
    /\ failed => fatal \/ \E s \in Seqs : task[s] = "reaped" /\ outcome[s] = "Cancelled"
    /\ \A e \in Events : batchOf[e] \in 1..(commitSeq - 1) => Mark[e] <= progress

LEMMA ExitInit == Init => ExitShape /\ CommitterShape
  BY DispatcherAssumption DEF Init, ExitShape, CommitterShape, Events, Seqs

LEMMA CommitterStays ==
  ASSUME CommitterShape, UNCHANGED <<commitVars, spawnVars, task, outcome>>
  PROVE  CommitterShape'
  BY Zenon DEF CommitterShape, commitVars, spawnVars

\* The write tasks: a result that was reaped stays, and no task runs after the return.
LEMMA WriteExit ==
  ASSUME Inv, ExitShape, CommitterShape, NEW s \in Seqs, WriteTask(s)
  PROVE  ExitShape' /\ CommitterShape'
  <1>1. TaskStill
    BY Zenon DEF WriteTask, BarriersOnly, WriteOk, WriteFailed, WriteCancelled, WriteRejected,
           DlqRecord, DlqSync, Panic
  <1>2. /\ task[s] \in {"writing", "quarantine", "sync"}
        /\ \E t \in {"quarantine", "sync", "joinable"} :
             task' = task \/ task' = [task EXCEPT ![s] = t]
        /\ \E v \in Outcomes : outcome' = outcome \/ outcome' = [outcome EXCEPT ![s] = v]
    <2> USE DEF Finish, Outcomes
    <2>1. CASE BarriersOnly(s) \/ WriteOk(s) \/ WriteFailed(s) \/ WriteCancelled(s) \/ Panic(s)
      BY Zenon, <2>1 DEF BarriersOnly, WriteOk, WriteFailed, WriteCancelled, Panic
    <2>2. CASE \E items \in SUBSET Docs(s) : WriteRejected(s, items)  BY Zenon, <2>2 DEF WriteRejected
    <2>3. CASE \E e \in Events, ok \in BOOLEAN : DlqRecord(s, e, ok)  BY Zenon, <2>3 DEF DlqRecord
    <2>4. CASE \E ok \in BOOLEAN : DlqSync(s, ok)  BY Zenon, <2>4 DEF DlqSync
    <2> QED  BY Zenon, <2>1, <2>2, <2>3, <2>4 DEF WriteTask
  <1>3. \A q \in Seqs : /\ task[q] = "reaped" <=> task'[q] = "reaped"
                        /\ task[q] = "reaped" => outcome'[q] = outcome[q]
    BY Zenon, <1>2 DEF Inv, TypeOK, TaskTypeOK
  <1>4. pc # "done"  BY Zenon, <1>2 DEF ExitShape, InFlight
  <1>5. ExitShape'  BY Zenon, <1>1, <1>4 DEF ExitShape, TaskStill, batchVars, spawnVars, commitVars
  <1>6. CommitterShape'  BY Zenon, <1>1, <1>3 DEF CommitterShape, TaskStill, spawnVars, commitVars
  <1> QED  BY Zenon, <1>5, <1>6

LEMMA SpawnExit ==
  ASSUME Inv, ExitShape, CommitterShape, Spawn PROVE ExitShape' /\ CommitterShape'
  <1> USE DispatcherAssumption
  <1>1. /\ pc = "spawn" /\ pc' = resume /\ resume' = resume /\ flushed' = taken
        /\ task' = [task EXCEPT ![nextSeq] = "writing"]
        /\ batchOf' = [e \in Events |-> IF e \in Batch THEN nextSeq ELSE batchOf[e]]
        /\ UNCHANGED <<recvd, taken, outcome, commitSeq, pending, failed, fatal, progress, result>>
    BY Zenon DEF Spawn, Goto, commitVars
  <1>2. resume \in {"select", "intake", "push", "drain"}  BY Zenon DEF Inv, TypeOK, RunTypeOK
  <1>3. ExitShape'  BY Zenon, <1>1, <1>2 DEF ExitShape
  <1>4. \A q \in Seqs : task[q] = "reaped" <=> task'[q] = "reaped"
    <2>1. nextSeq \in Seqs => task[nextSeq] = "unborn"
      BY DEF Inv, TaskShape, TypeOK, BatchTypeOK
    <2> QED  BY Zenon, <1>1, <2>1 DEF Inv, TypeOK, TaskTypeOK
  <1>5. \A e \in Events : batchOf'[e] \in 1..(commitSeq - 1) => batchOf[e] \in 1..(commitSeq - 1)
    <2>1. nextSeq \notin 1..(commitSeq - 1)  BY DEF Inv, TypeOK, BatchTypeOK
    <2> QED  BY Zenon, <1>1, <2>1
  <1>6. CommitterShape'  BY Zenon, <1>1, <1>4, <1>5 DEF CommitterShape
  <1> QED  BY Zenon, <1>3, <1>6

\* The committer's loop keeps every result that it does not use.
LEMMA CommitKeepsResults ==
  ASSUME Inv, CommitterShape, NEW s \in Seqs, task[s] = "joinable", ~failed, CommitResult(s),
         task'[s] = "reaped", \A q \in Seqs : q # s => task'[q] = task[q],
         UNCHANGED <<batchOf, outcome>>
  PROVE  CommitterShape'
  <1> USE DispatcherAssumption
  <1> DEFINE held == pending \cup {s}
             Durable(q) == q \in held /\ outcome[q] = "Durable"
             run(stop) == Members(commitSeq..(stop - 1))
  <1>1. PICK stop \in commitSeq..nextSeq :
          /\ commitSeq' = stop
          /\ \E m \in MarksOf(run(stop)) :
                IsMaxMark(m, run(stop)) /\ progress' = IF m > progress THEN m ELSE progress
          /\ \/ stop \notin held /\ pending' = {q \in held : q > stop} /\ UNCHANGED <<failed, fatal>>
             \/ /\ stop \in held /\ pending' = {q \in held : q > stop}
                /\ failed' = TRUE /\ fatal' = TRUE
             \/ /\ stop \in held /\ outcome[stop] = "Cancelled" /\ pending' = {} /\ failed' = TRUE
    BY Zenon DEF CommitResult, CommitHeld
  <1>2. /\ commitSeq \in Nat \ {0} /\ nextSeq \in Nat /\ stop \in Nat /\ commitSeq <= stop
        /\ progress \in Nat /\ batchOf \in [Events -> Nat] /\ pending \subseteq Seqs
        /\ held \subseteq Seqs /\ \A q \in held : q \in Nat
    BY <1>1 DEF Inv, TypeOK, BatchTypeOK, Seqs
  <1>3. \A q \in held : task'[q] = "reaped"  BY Zenon, <1>2 DEF Inv, TaskShape
  <1>4. \A q \in Seqs : task'[q] = "reaped" => q < commitSeq \/ q \in held
    BY Zenon DEF CommitterShape
  <1>5. \A q \in pending' : q > commitSeq'  BY Zenon, <1>1
  <1>6. ~failed' => \A q \in Seqs : task'[q] = "reaped" => q < commitSeq' \/ q \in pending'
    <2> SUFFICES ASSUME ~failed', NEW q \in Seqs, task'[q] = "reaped"
                 PROVE  q < commitSeq' \/ q \in pending'
      BY Zenon
    <2>1. stop \notin held /\ pending' = {n \in held : n > stop} /\ commitSeq' = stop  BY Zenon, <1>1
    <2>2. CASE q < commitSeq  BY <1>2, <2>1, <2>2 DEF Seqs
    <2>3. CASE q \in held  BY <1>2, <2>1, <2>3
    <2> QED  BY Zenon, <1>4, <2>2, <2>3
  <1>7. failed' => fatal' \/ \E q \in Seqs : task'[q] = "reaped" /\ outcome'[q] = "Cancelled"
    BY Zenon, <1>1, <1>2, <1>3
  <1>8. \A e \in Events : batchOf'[e] \in 1..(commitSeq' - 1) => Mark[e] <= progress'
    <2> SUFFICES ASSUME NEW e \in Events, batchOf[e] \in 1..(stop - 1) PROVE Mark[e] <= progress'
      BY Zenon, <1>1
    <2>1. PICK m \in MarksOf(run(stop)) :
            IsMaxMark(m, run(stop)) /\ progress' = IF m > progress THEN m ELSE progress
      BY Zenon, <1>1
    <2>2. m \in Nat  BY <2>1 DEF MarksOf, Members
    <2>3. Mark[e] \in Nat  BY Zenon
    <2>4. CASE batchOf[e] < commitSeq
      <3>1. Mark[e] <= progress  BY <1>2, <2>4 DEF CommitterShape
      <3> QED  BY <1>2, <2>1, <2>2, <2>3, <3>1
    <2>5. CASE batchOf[e] >= commitSeq
      <3>1. e \in run(stop)  BY <1>2, <2>5 DEF Members
      <3>2. Mark[e] <= m  BY Zenon, <2>1, <3>1 DEF IsMaxMark
      <3> QED  BY <1>2, <2>1, <2>2, <2>3, <3>2
    <2> QED  BY <1>2, <2>4, <2>5
  <1> QED  BY Zenon, <1>5, <1>6, <1>7, <1>8 DEF CommitterShape

LEMMA ReapExit ==
  ASSUME Inv, ExitShape, CommitterShape, NEW s \in Seqs,
         ReapArm(s) \/ SpawnWait(s) \/ DrainReap(s)
  PROVE  ExitShape' /\ CommitterShape'
  <1>1. OnJoined(s)  BY Zenon DEF ReapArm, SpawnWait, DrainReap
  <1>2. /\ UNCHANGED <<recvd, taken, flushed, batchOf, outcome, result>>
        /\ task[s] = "joinable" /\ task'[s] = "reaped"
        /\ \A q \in Seqs : q # s => task'[q] = task[q]
    BY Zenon, <1>1 DEF OnJoined, batchVars, spawnVars, Inv, TypeOK, TaskTypeOK
  <1>3. ExitShape'
    <2>1. CASE ReapArm(s)
      BY Zenon, <1>2, <2>1 DEF ReapArm, FlushThen, Goto, ExitShape
    <2>2. CASE SpawnWait(s) \/ DrainReap(s)
      BY Zenon, <1>2, <2>2 DEF SpawnWait, DrainReap, ExitShape
    <2> QED  BY Zenon, <2>1, <2>2
  <1>4. CommitterShape'
    <2>1. CASE failed' = TRUE /\ fatal' = TRUE /\ UNCHANGED <<commitSeq, pending, progress>>
      BY Zenon, <1>2, <2>1 DEF CommitterShape
    <2>2. CASE failed /\ UNCHANGED commitVars
      BY Zenon, <1>2, <2>2 DEF CommitterShape, commitVars
    <2>3. CASE ~failed /\ CommitResult(s)  BY Zenon, <1>2, <2>3, CommitKeepsResults
    <2> QED  BY Zenon, <1>1, <2>1, <2>2, <2>3 DEF OnJoined
  <1> QED  BY Zenon, <1>3, <1>4

LEMMA ExitInv == Inv /\ ExitShape /\ CommitterShape /\ [Next]_vars => ExitShape' /\ CommitterShape'
  <1> SUFFICES ASSUME Inv, ExitShape, CommitterShape, [Next]_vars
               PROVE  ExitShape' /\ CommitterShape'
    BY Zenon
  <1>1. CASE Publish \/ Cancel \/ \E r \in {"ok", "err"} : SourceReturns(r)
    <2>1. UNCHANGED <<pc, resume, batchVars, spawnVars, taskVars, commitVars, result>>
      BY Zenon, <1>1 DEF Publish, Cancel, SourceReturns
    <2>2. ExitShape'
      BY Zenon, <2>1 DEF ExitShape, InFlight, batchVars, spawnVars, taskVars, commitVars
    <2> QED  BY Zenon, <2>1, <2>2, CommitterStays DEF taskVars
  <1>2. CASE ShutdownArm \/ TimerArm \/ RecvArm \/ SourceClosedArm \/ Intake \/ Push \/ IntakeDone
    <2>1. UNCHANGED <<spawnVars, taskVars, commitVars, result>>
      BY Zenon, <1>2 DEF ShutdownArm, TimerArm, RecvArm, SourceClosedArm, Intake, Push, IntakeDone, RunStill
    <2>2. ExitShape'
      <3> USE DEF FlushThen, Goto, RunStill, batchVars, spawnVars, commitVars
      <3>1. CASE ShutdownArm \/ TimerArm \/ SourceClosedArm
        <4>1. flushed \in Int /\ taken \in Int /\ flushed <= taken
          BY DispatcherAssumption DEF Inv, TypeOK, RunTypeOK
        <4>2. Batch = {} => flushed = taken
          <5>1. Batch = {} => ~(flushed < taken)  BY Zenon, NonEmptyBatch DEF Inv, TypeOK
          <5> QED  BY <4>1, <5>1
        <4> QED  BY Zenon, <2>1, <3>1, <4>2 DEF ShutdownArm, TimerArm, SourceClosedArm, ExitShape
      <3>2. CASE RecvArm  BY Zenon, <2>1, <3>2 DEF RecvArm, ExitShape
      <3>3. CASE Intake  BY Zenon, <2>1, <3>3 DEF Intake, ExitShape
      <3>4. CASE Push  BY Zenon, <2>1, <3>4 DEF Push, ExitShape
      <3>5. CASE IntakeDone  BY Zenon, <2>1, <3>5 DEF IntakeDone, ExitShape
      <3> QED  BY Zenon, <1>2, <3>1, <3>2, <3>3, <3>4, <3>5
    <2> QED  BY Zenon, <2>1, <2>2, CommitterStays DEF taskVars
  <1>3. CASE Spawn  BY Zenon, <1>3, SpawnExit
  <1>4. CASE Return
    <2>1. ExitShape'
      BY Zenon, <1>4 DEF Return, Goto, ExitShape, InFlight, batchVars, spawnVars, taskVars, commitVars
    <2>2. CommitterShape'  BY Zenon, <1>4, CommitterStays DEF Return, taskVars
    <2> QED  BY Zenon, <2>1, <2>2
  <1>5. CASE \E s \in Seqs : ReapArm(s) \/ SpawnWait(s) \/ DrainReap(s)  BY Zenon, <1>5, ReapExit
  <1>6. CASE \E s \in Seqs : WriteTask(s)  BY Zenon, <1>6, WriteExit
  <1>7. CASE UNCHANGED vars
    <2>1. ExitShape'
      BY Zenon, <1>7 DEF vars, ExitShape, InFlight, batchVars, spawnVars, taskVars, commitVars
    <2> QED  BY Zenon, <1>7, <2>1, CommitterStays DEF vars, taskVars
  <1> QED
    BY Zenon, <1>1, <1>2, <1>3, <1>4, <1>5, <1>6, <1>7 DEF Next, RunTask

LEMMA ExitImplies == Inv /\ ExitShape /\ CommitterShape => CleanExitIsComplete
  <1> USE DispatcherAssumption
  <1> SUFFICES ASSUME Inv, ExitShape, CommitterShape, result = "ok",
                      \A s \in Seqs : outcome[s] # "Cancelled"
               PROVE  (\A e \in 1..recvd : Handled(e)) /\ IsMaxMark(progress, 1..recvd)
    BY Zenon DEF CleanExitIsComplete
  <1>1. flushed = recvd /\ InFlight = {} /\ ~fatal  BY Zenon DEF ExitShape
  <1>2. ~failed  BY Zenon, <1>1 DEF CommitterShape
  <1>3. /\ commitSeq \in 1..nextSeq /\ nextSeq \in 1..(NEvents + 1) /\ recvd \in 0..NEvents
        /\ batchOf \in [Events -> 0..(nextSeq - 1)] /\ progress \in Nat
        /\ task \in [Seqs -> TaskStates] /\ pending \subseteq Seqs
    BY DEF Inv, TypeOK, RunTypeOK, BatchTypeOK, TaskTypeOK
  <1>4. commitSeq = nextSeq
    <2> SUFFICES ASSUME commitSeq # nextSeq PROVE FALSE  BY Zenon
    <2>1. commitSeq \in Seqs /\ ~(commitSeq >= nextSeq)  BY <1>3 DEF Seqs
    <2>2. task[commitSeq] # "unborn"  BY Zenon, <2>1 DEF Inv, TaskShape
    <2>3. task[commitSeq] = "reaped"  BY Zenon, <1>1, <1>3, <2>1, <2>2 DEF InFlight, TaskStates
    <2>4. commitSeq \in pending  BY <1>2, <1>3, <2>1, <2>3 DEF CommitterShape
    <2> QED  BY <1>3, <2>4 DEF CommitterShape
  <1>5. \A e \in 1..recvd : e \in Events /\ batchOf[e] \in 1..(commitSeq - 1)
    <2> SUFFICES ASSUME NEW e \in 1..recvd PROVE e \in Events /\ batchOf[e] \in 1..(commitSeq - 1)
      BY Zenon
    <2>1. e \in Events /\ e <= flushed  BY <1>1, <1>3 DEF Events
    <2>2. batchOf[e] # 0  BY Zenon, <2>1 DEF Inv, BatchShape
    <2> QED  BY <1>3, <1>4, <2>1, <2>2
  <1>6. \A e \in 1..recvd : Handled(e) /\ Mark[e] <= progress
    BY Zenon, <1>5 DEF Inv, CommitShape, CommitterShape
  <1>7. progress \in MarksOf(1..recvd)
    <2>1. CASE progress = 0  BY Zenon, <2>1 DEF MarksOf
    <2>2. CASE progress # 0
      <3>1. PICK j \in Events : Mark[j] = progress /\ batchOf[j] \in 1..(commitSeq - 1)
        BY Zenon, <2>2 DEF Inv, CommitShape
      <3>2. j <= flushed
        <4>1. batchOf[j] # 0  BY <1>3, <3>1
        <4> QED  BY Zenon, <4>1 DEF Inv, BatchShape
      <3>3. j \in 1..recvd  BY <1>1, <1>3, <3>2 DEF Events
      <3> QED  BY Zenon, <3>1, <3>3 DEF MarksOf
    <2> QED  BY Zenon, <2>1, <2>2
  <1> QED  BY Zenon, <1>6, <1>7 DEF IsMaxMark

\* Dispatcher::run returns Ok without a cancelled write only when every event it received
\* is handled and the watermark has caught up with all of them: no result is left in the
\* reorder buffer and no event in a partial batch.
THEOREM CleanExit == Spec => []CleanExitIsComplete
  <1>1. Spec => [](ExitShape /\ CommitterShape)
    BY ExitInit, ExitInv, InvHolds, PTL DEF Spec
  <1> QED
    BY <1>1, ExitImplies, InvHolds, PTL

(***************************************************************************)
(* The request limits.  The byte count of a batch is a fold over a set:    *)
(* first that the fold adds up, in whatever order.                         *)
(***************************************************************************)
LEMMA Least ==
  ASSUME NEW T, T \subseteq Nat, T # {}
  PROVE  \E x \in T : \A y \in T : x <= y
  <1>1. \E x \in T : \A y \in T : ~ (<<y, x>> \in OpToRel(<, Nat))
    BY WFMin, NatLessThanWellFounded
  <1>2. \A x \in T : \A y \in T : <<y, x>> \in OpToRel(<, Nat) <=> y < x
    BY DEF OpToRel
  <1>3. \E x \in T : \A y \in T : ~ (y < x)
    BY <1>1, <1>2, Zenon
  <1> QED
    BY <1>3

Some(s) == CHOOSE x \in s : TRUE
Others(s) == s \ {Some(s)}
Added(f, s) == IF s = {} THEN 0 ELSE Size[Some(s)] + f[Others(s)]
Sums(S, f) == f = [s \in SUBSET S |-> Added(f, s)]
Upto(S, n, f) == \A s \in SUBSET S : Cardinality(s) <= n => f[s] = Added(f, s)

Table(S) == CHOOSE f : Sums(S, f)

LEMMA BytesDef == \A S : Bytes(S) = Table(S)[S]
  BY Zenon DEF Table, Bytes, MapThenSumSet, MapThenFoldSet, Sums, Added, Some, Others

LEMMA OthersFacts ==
  ASSUME NEW s, IsFiniteSet(s), s # {}
  PROVE  /\ Some(s) \in s /\ Others(s) \subseteq s /\ IsFiniteSet(Others(s))
         /\ Cardinality(s) \in Nat \ {0} /\ Cardinality(Others(s)) = Cardinality(s) - 1
  <1>1. Some(s) \in s
    BY Zenon DEF Some
  <1>2. Cardinality(s) \in Nat /\ Cardinality(s) # 0
    BY FS_CardinalityType, FS_EmptySet, Zenon
  <1>3. IsFiniteSet(s \ {Some(s)}) /\ Cardinality(s \ {Some(s)}) = Cardinality(s) - 1
    BY <1>1, FS_RemoveElement, Zenon
  <1> QED
    BY <1>1, <1>2, <1>3 DEF Others

LEMMA PartialSums ==
  ASSUME NEW S, IsFiniteSet(S)
  PROVE  \A n \in Nat : \E f : Upto(S, n, f)
  <1> DEFINE T == {n \in Nat : ~ \E f : Upto(S, n, f)}
  <1>1. SUFFICES ASSUME T # {} PROVE FALSE
    BY <1>1, Zenon
  <1>2. T \subseteq Nat
    OBVIOUS
  <1>3. PICK n \in T : \A k \in T : n <= k
    <2> HIDE DEF T
    <2> QED
      BY <1>1, <1>2, Least, Zenon
  <1>4. n \in Nat /\ ~ \E f : Upto(S, n, f)
    OBVIOUS
  <1>5. n # 0
    <2> DEFINE f == [s \in SUBSET S |-> 0]
    <2>1. Upto(S, 0, f)
      <3> SUFFICES ASSUME NEW s \in SUBSET S, Cardinality(s) <= 0 PROVE f[s] = Added(f, s)
        BY Zenon DEF Upto
      <3>1. IsFiniteSet(s)
        BY FS_Subset, Zenon
      <3>2. s = {}
        BY <3>1, OthersFacts
      <3> QED
        BY <3>2 DEF Added
    <2> HIDE DEF f
    <2> QED
      BY <1>4, <2>1, Zenon
  <1>6. n - 1 \in Nat /\ ~ (n <= n - 1)
    BY <1>4, <1>5
  <1>7. PICK f : Upto(S, n - 1, f)
    BY <1>3, <1>6, Zenon
  <1> DEFINE g == [s \in SUBSET S |-> Added(f, s)]
  <1>8. Upto(S, n, g)
    <2> SUFFICES ASSUME NEW s \in SUBSET S, Cardinality(s) <= n PROVE g[s] = Added(g, s)
      BY Zenon DEF Upto
    <2>1. IsFiniteSet(s)
      BY FS_Subset, Zenon
    <2>2. CASE s = {}
      BY <2>2 DEF Added
    <2>3. CASE s # {}
      <3>1. Others(s) \in SUBSET S /\ Cardinality(Others(s)) <= n - 1
        BY <1>4, <2>1, <2>3, OthersFacts
      <3>2. g[Others(s)] = f[Others(s)]
        BY <1>7, <3>1, Zenon DEF Upto
      <3>3. g[s] = Added(f, s)
        BY Zenon
      <3> HIDE DEF g
      <3> QED
        BY <2>3, <3>2, <3>3, Zenon DEF Added
    <2> QED
      BY <2>2, <2>3
  <1> HIDE DEF g
  <1> QED
    BY <1>4, <1>8, Zenon

LEMMA SumsExist ==
  ASSUME NEW S, IsFiniteSet(S)
  PROVE  Sums(S, Table(S))
  <1>1. Cardinality(S) \in Nat
    BY FS_CardinalityType, Zenon
  <1>2. PICK f : Upto(S, Cardinality(S), f)
    BY <1>1, PartialSums, Zenon
  <1> DEFINE g == [s \in SUBSET S |-> Added(f, s)]
  <1>3. ASSUME NEW s \in SUBSET S PROVE Added(f, s) = Added(g, s)
    <2>1. CASE s = {}
      BY <2>1, Zenon DEF Added
    <2>2. CASE s # {}
      <3>1. IsFiniteSet(s)
        BY FS_Subset, Zenon
      <3>2. Others(s) \in SUBSET S
        BY <2>2, <3>1, OthersFacts, Zenon
      <3>3. Cardinality(Others(s)) <= Cardinality(S)
        BY <3>2, FS_Subset, Zenon
      <3>4. g[Others(s)] = f[Others(s)]
        BY <1>2, <3>2, <3>3, Zenon DEF Upto
      <3> HIDE DEF g
      <3> QED
        BY <2>2, <3>4, Zenon DEF Added
    <2> QED
      BY <2>1, <2>2
  <1>4. Sums(S, g)
    BY <1>3, Zenon DEF Sums
  <1> HIDE DEF g
  <1> QED
    BY <1>4, Zenon DEF Table

LEMMA SumsAgree ==
  ASSUME NEW A, NEW B, NEW f, NEW g, Sums(A, f), Sums(B, g)
  PROVE  \A s : IsFiniteSet(s) /\ s \subseteq A /\ s \subseteq B => f[s] = g[s]
  <1> DEFINE Bad(s) == IsFiniteSet(s) /\ s \subseteq A /\ s \subseteq B /\ f[s] # g[s]
             T == {Cardinality(s) : s \in {x \in SUBSET A : Bad(x)}}
  <1>1. SUFFICES ASSUME T # {} PROVE FALSE
    BY <1>1
  <1>2. T \subseteq Nat
    BY FS_CardinalityType
  <1>3. PICK n \in T : \A k \in T : n <= k
    <2> HIDE DEF T
    <2> QED
      BY <1>1, <1>2, Least, Zenon
  <1>4. PICK s \in SUBSET A : Bad(s) /\ n = Cardinality(s)
    BY Zenon
  <1>5. f[s] = Added(f, s) /\ g[s] = Added(g, s)
    BY <1>4, Zenon DEF Sums
  <1>6. s # {}
    BY <1>4, <1>5, Zenon DEF Added
  <1>7. /\ Others(s) \subseteq s /\ IsFiniteSet(Others(s)) /\ n \in Nat
        /\ Cardinality(Others(s)) = n - 1
    BY <1>4, <1>6, OthersFacts
  <1>8. ~ Bad(Others(s))
    <2> SUFFICES ASSUME Bad(Others(s)) PROVE FALSE
      OBVIOUS
    <2>1. Cardinality(Others(s)) \in T
      BY Zenon
    <2> HIDE DEF T
    <2> QED
      BY <1>3, <1>7, <2>1
  <1>9. f[Others(s)] = g[Others(s)]
    BY <1>4, <1>7, <1>8, Zenon
  <1> QED
    BY <1>4, <1>5, <1>6, <1>9, Zenon DEF Added

LEMMA BytesStep ==
  /\ Bytes({}) = 0
  /\ \A S : IsFiniteSet(S) /\ S # {} => Bytes(S) = Size[Some(S)] + Bytes(Others(S))
  <1>1. ASSUME NEW S, IsFiniteSet(S)
        PROVE  Bytes(S) = Added(Table(S), S)
    <2>1. Table(S) = [s \in SUBSET S |-> Added(Table(S), s)]
      BY <1>1, SumsExist, Zenon DEF Sums
    <2>2. Table(S)[S] = Added(Table(S), S)
      BY <2>1, Zenon
    <2> QED
      BY <2>2, BytesDef, Zenon
  <1>2. Bytes({}) = 0
    BY <1>1, FS_EmptySet, Zenon DEF Added
  <1>3. ASSUME NEW S, IsFiniteSet(S), S # {}
        PROVE  Bytes(S) = Size[Some(S)] + Bytes(Others(S))
    <2>1. Others(S) \subseteq S /\ IsFiniteSet(Others(S))
      BY <1>3, OthersFacts, Zenon
    <2>2. Sums(S, Table(S)) /\ Sums(Others(S), Table(Others(S)))
      BY <1>3, <2>1, SumsExist, Zenon
    <2>3. Table(S)[Others(S)] = Table(Others(S))[Others(S)]
      <3> DEFINE R == Others(S)
      <3>1. R \subseteq S /\ R \subseteq R /\ IsFiniteSet(R) /\ Sums(R, Table(R))
        BY <2>1, <2>2, Zenon
      <3> HIDE DEF R
      <3>2. \A s : IsFiniteSet(s) /\ s \subseteq S /\ s \subseteq R => Table(S)[s] = Table(R)[s]
        BY <2>2, <3>1, SumsAgree
      <3>3. Table(S)[R] = Table(R)[R]
        BY <3>1, <3>2, Zenon
      <3> QED
        BY <3>3, Zenon DEF R
    <2> QED
      BY <1>1, <1>3, <2>3, BytesDef, Zenon DEF Added
  <1> QED
    BY <1>2, <1>3, Zenon

\* The sum does not depend on the order in which it is taken.
LEMMA BytesRemove ==
  ASSUME NEW E, IsFiniteSet(E), Size \in [E -> Nat]
  PROVE  \A S \in SUBSET E :
           Bytes(S) \in Nat /\ \A x \in S : Bytes(S) = Size[x] + Bytes(S \ {x})
  <1> DEFINE Good(S) == Bytes(S) \in Nat /\ \A x \in S : Bytes(S) = Size[x] + Bytes(S \ {x})
             T == {Cardinality(S) : S \in {x \in SUBSET E : ~ Good(x)}}
  <1>1. SUFFICES ASSUME T # {} PROVE FALSE
    BY <1>1
  <1>2. T \subseteq Nat
    BY FS_CardinalityType, FS_Subset
  <1>3. PICK n \in T : \A k \in T : n <= k
    <2> HIDE DEF T
    <2> QED
      BY <1>1, <1>2, Least, Zenon
  <1>4. PICK S \in SUBSET E : ~ Good(S) /\ n = Cardinality(S)
    BY Zenon
  <1>5. IsFiniteSet(S) /\ n \in Nat
    BY <1>2, FS_Subset, Zenon
  <1>6. S # {}
    BY <1>4, BytesStep
  <1>7. ASSUME NEW x \in S
        PROVE  Good(S \ {x}) /\ Size[x] \in Nat
    <2>1. S \ {x} \in SUBSET E /\ Cardinality(S \ {x}) = n - 1
      BY <1>4, <1>5, FS_RemoveElement, Zenon
    <2>2. ~ (n <= n - 1)
      BY <1>5
    <2>3. Good(S \ {x})
      <3> HIDE DEF Good
      <3> QED
        BY <1>3, <2>1, <2>2, Zenon
    <2>4. Size[x] \in Nat
      BY Zenon
    <2> QED
      BY <2>3, <2>4, Zenon
  <1> DEFINE y == Some(S)
  <1>8. y \in S /\ Bytes(S) = Size[y] + Bytes(S \ {y})
    BY <1>5, <1>6, BytesStep, OthersFacts, Zenon DEF Others
  <1> HIDE DEF y
  <1>9. Bytes(S) \in Nat
    BY <1>7, <1>8
  <1>10. ASSUME NEW x \in S, x # y
         PROVE  Bytes(S) = Size[x] + Bytes(S \ {x})
    <2>1. (S \ {y}) \ {x} = (S \ {x}) \ {y} /\ x \in S \ {y} /\ y \in S \ {x}
      BY <1>8, <1>10, Zenon
    <2> DEFINE r == Bytes((S \ {x}) \ {y})
    <2>2. /\ Bytes(S \ {y}) = Size[x] + r /\ Bytes(S \ {x}) = Size[y] + r
          /\ Size[x] \in Nat /\ Size[y] \in Nat
          /\ Bytes(S \ {y}) \in Nat /\ Bytes(S \ {x}) \in Nat
      BY <1>7, <1>8, <2>1, Zenon
    <2>3. r \in Nat
      <3>1. (S \ {x}) \ {y} \in SUBSET E
        OBVIOUS
      <3>2. Cardinality((S \ {x}) \ {y}) = n - 2
        <4>1. IsFiniteSet(S \ {x}) /\ Cardinality(S \ {x}) = n - 1
          BY <1>4, <1>5, FS_RemoveElement, Zenon
        <4>2. Cardinality((S \ {x}) \ {y}) = Cardinality(S \ {x}) - 1
          BY <2>1, <4>1, FS_RemoveElement, Zenon
        <4> QED
          BY <1>5, <4>1, <4>2
      <3>3. ~ (n <= n - 2)
        BY <1>5
      <3> QED
        BY <1>3, <3>1, <3>2, <3>3, Zenon
    <2> HIDE DEF r
    <2> QED
      BY <1>8, <2>2, <2>3
  <1> QED
    BY <1>4, <1>8, <1>9, <1>10, Zenon

(***************************************************************************)
(* What the run task knows of the batch it is filling: batchBytes is its   *)
(* size, and an event is pushed only where it fits.                        *)
(***************************************************************************)
LimitShape ==
    /\ RequestsWithinLimits
    /\ batchBytes = Bytes(Batch)
    /\ BatchLen <= MaxEvents
    /\ BatchLen <= 1 \/ \E limit \in ByteLimits : batchBytes <= limit
    /\ pc = "push" => \/ flushed = taken
                      \/ BatchLen < MaxEvents /\ batchBytes + Size[taken + 1] <= byteLimit

LEMMA BatchFacts ==
  ASSUME RunTypeOK
  PROVE  /\ Batch \in SUBSET Events /\ IsFiniteSet(Batch) /\ IsFiniteSet(Events)
         /\ Cardinality(Batch) = BatchLen /\ BatchLen \in Nat
         /\ flushed = taken => Batch = {}
  <1>1. flushed \in Nat /\ taken \in Nat /\ flushed <= taken /\ taken <= NEvents /\ NEvents \in Nat
    BY DispatcherAssumption DEF RunTypeOK
  <1>2. IsFiniteSet(Batch) /\ Cardinality(Batch) = IF flushed + 1 > taken THEN 0 ELSE taken - (flushed + 1) + 1
    <2>1. flushed + 1 \in Int /\ taken \in Int
      BY <1>1
    <2> QED
      BY <2>1, FS_Interval, Zenon DEF Batch
  <1>3. IsFiniteSet(Events)
    <2>1. 1 \in Int /\ NEvents \in Int
      BY <1>1
    <2> QED
      BY <2>1, FS_Interval, Zenon DEF Events
  <1>4. Cardinality(Batch) = BatchLen /\ BatchLen \in Nat
    BY <1>1, <1>2 DEF BatchLen
  <1>5. Batch \in SUBSET Events /\ (flushed = taken => Batch = {})
    BY <1>1 DEF Batch, Events
  <1> QED
    BY <1>2, <1>3, <1>4, <1>5, Zenon

LEMMA InFlightFinite == ASSUME DispatcherAssumption PROVE IsFiniteSet(Seqs) /\ IsFiniteSet(InFlight)
  <1>1. 1 \in Int /\ NEvents \in Int
    BY DispatcherAssumption
  <1>2. IsFiniteSet(Seqs)
    BY <1>1, FS_Interval, Zenon DEF Seqs
  <1>3. InFlight \in SUBSET Seqs
    BY Zenon DEF InFlight
  <1> QED
    BY <1>2, <1>3, FS_Subset, Zenon

LEMMA LimitInit == Init => LimitShape
  <1> SUFFICES ASSUME Init PROVE LimitShape
    BY Zenon
  <1> USE DispatcherAssumption
  <1>1. RunTypeOK
    BY InitInv, Zenon DEF Inv, TypeOK
  <1>2. Batch = {} /\ BatchLen = 0
    BY <1>1, BatchFacts DEF Init, BatchLen
  <1>3. InFlight = {}
    BY Zenon DEF Init, InFlight
  <1>4. Cardinality(InFlight) <= MaxParallel
    <2>1. Cardinality(InFlight) = 0
      BY <1>3, FS_EmptySet, Zenon
    <2> QED
      BY <2>1
  <1>5. 1..(nextSeq - 1) = {}
    BY DEF Init
  <1>6. RequestsWithinLimits
    BY <1>4, <1>5, Zenon DEF RequestsWithinLimits
  <1>7. batchBytes = Bytes(Batch)
    BY <1>2, BytesStep, Zenon DEF Init
  <1>8. BatchLen <= MaxEvents /\ BatchLen <= 1
    BY <1>2
  <1> QED
    BY <1>6, <1>7, <1>8, Zenon DEF LimitShape, Init

\* A step that spawns nothing leaves the spawned batches alone, and what is in
\* flight was in flight before.
LEMMA SpawnedStay ==
  ASSUME RequestsWithinLimits, UNCHANGED spawnVars, InFlight' \subseteq InFlight
  PROVE  RequestsWithinLimits'
  <1>1. IsFiniteSet(InFlight)
    BY DispatcherAssumption, InFlightFinite, Zenon
  <1>2. IsFiniteSet(InFlight') /\ Cardinality(InFlight') <= Cardinality(InFlight)
    BY <1>1, FS_Subset, Zenon
  <1>3. Cardinality(InFlight') \in Nat /\ Cardinality(InFlight) \in Nat
    BY <1>1, <1>2, FS_CardinalityType, Zenon
  <1>4. Cardinality(InFlight') <= MaxParallel
    BY <1>2, <1>3, DispatcherAssumption DEF RequestsWithinLimits
  <1>5. \A s : Members({s})' = Members({s})
    BY Zenon DEF Members, spawnVars
  <1>6. nextSeq' = nextSeq /\ \A s : WithinLimits(Members({s}))' <=> WithinLimits(Members({s}))
    BY <1>5, Zenon DEF WithinLimits, spawnVars
  <1> QED
    BY <1>4, <1>6, Zenon DEF RequestsWithinLimits

\* Nor does a step that leaves the current batch alone disturb what is known of it.
LEMMA LimitsStay ==
  ASSUME LimitShape, UNCHANGED <<spawnVars, taken, batchBytes>>, InFlight' \subseteq InFlight,
         pc' = "push" => pc = "push" /\ byteLimit' = byteLimit
  PROVE  LimitShape'
  <1>1. RequestsWithinLimits'
    BY SpawnedStay, Zenon DEF LimitShape
  <1>2. Batch' = Batch /\ BatchLen' = BatchLen /\ flushed' = flushed
    BY Zenon DEF Batch, BatchLen, spawnVars
  <1>3. Bytes(Batch)' = Bytes(Batch)
    BY <1>2, Zenon
  <1> QED
    BY <1>1, <1>2, <1>3, Zenon DEF LimitShape

LEMMA PushLimits ==
  ASSUME Inv, LimitShape, Push
  PROVE  LimitShape'
  <1> USE DispatcherAssumption
  <1>1. /\ pc = "push" /\ pc' # "push" /\ taken' = taken + 1 /\ flushed' = flushed
        /\ batchBytes' = batchBytes + Size[taken + 1]
        /\ UNCHANGED <<spawnVars, task>>
    BY Zenon DEF Push, Goto, spawnVars, taskVars
  <1>2. RunTypeOK /\ RunTypeOK' /\ taken < recvd
    <2>1. Inv'
      BY RunStepInv, Zenon
    <2> QED
      BY <1>1, <2>1, Zenon DEF Inv, TypeOK, RunShape
  <1>3. /\ taken \in Nat /\ flushed \in Nat /\ flushed <= taken /\ taken + 1 \in Events
        /\ byteLimit \in ByteLimits /\ batchBytes \in Nat
    BY <1>2 DEF RunTypeOK, Events
  <1>4. InFlight' = InFlight
    BY <1>1, Zenon DEF InFlight
  <1>5. RequestsWithinLimits'
    BY <1>1, <1>4, SpawnedStay, Zenon DEF LimitShape
  <1>6. taken + 1 \in Batch' /\ Batch' \ {taken + 1} = Batch
    BY <1>1, <1>3 DEF Batch
  <1>7. batchBytes' = Bytes(Batch)'
    <2>1. IsFiniteSet(Events) /\ Batch' \in SUBSET Events
      <3>1. IsFiniteSet(Events) /\ Batch \in SUBSET Events
        BY <1>2, BatchFacts, Zenon
      <3> QED
        BY <1>3, <1>6, <3>1, Zenon
    <2>2. Size \in [Events -> Nat]
      OBVIOUS
    <2>3. Bytes(Batch') = Size[taken + 1] + Bytes(Batch)
      <3> DEFINE B == Batch'
      <3>1. B \in SUBSET Events /\ taken + 1 \in B /\ B \ {taken + 1} = Batch
        BY <1>6, <2>1, Zenon
      <3> HIDE DEF B
      <3>2. Bytes(B) = Size[taken + 1] + Bytes(B \ {taken + 1})
        BY <2>1, <2>2, <3>1, BytesRemove, Zenon
      <3> QED
        BY <3>1, <3>2, Zenon DEF B
    <2>4. Size[taken + 1] \in Nat /\ batchBytes = Bytes(Batch)
      BY <1>3, <2>2, Zenon DEF LimitShape
    <2>5. Bytes(Batch') = batchBytes'
      <3> DEFINE b == Bytes(Batch')
      <3>1. b = Size[taken + 1] + batchBytes
        BY <2>3, <2>4, Zenon
      <3> HIDE DEF b
      <3>2. b = batchBytes'
        BY <1>1, <1>3, <2>4, <3>1
      <3> QED
        BY <3>2, Zenon DEF b
    <2> QED
      BY <2>5, Zenon
  <1>8. /\ BatchLen' <= MaxEvents
        /\ BatchLen' <= 1 \/ \E limit \in ByteLimits : batchBytes' <= limit
    <2>1. CASE flushed = taken
      BY <1>1, <1>3, <2>1 DEF BatchLen
    <2>2. CASE BatchLen < MaxEvents /\ batchBytes + Size[taken + 1] <= byteLimit
      <3>1. BatchLen' <= MaxEvents
        BY <1>1, <1>3, <2>2 DEF BatchLen
      <3> QED
        BY <1>1, <1>3, <2>2, <3>1, Zenon
    <2> QED
      BY <1>1, <2>1, <2>2, Zenon DEF LimitShape
  <1> QED
    BY <1>1, <1>5, <1>7, <1>8, Zenon DEF LimitShape

LEMMA IntakeLimits ==
  ASSUME Inv, LimitShape, Intake
  PROVE  LimitShape'
  <1> USE DispatcherAssumption
  <1>1. UNCHANGED <<taken, flushed, batchBytes, spawnVars, task>> /\ taken < recvd
    BY Zenon DEF Intake, spawnVars, taskVars
  <1>2. /\ taken \in Nat /\ flushed \in Nat /\ flushed <= taken /\ taken + 1 \in Events
        /\ batchBytes \in Nat /\ Size[taken + 1] \in Nat /\ byteLimit' \in ByteLimits
    <2>1. taken \in Nat /\ flushed \in Nat /\ flushed <= taken /\ taken + 1 \in Events /\ batchBytes \in Nat
      BY <1>1 DEF Inv, TypeOK, RunTypeOK, Events
    <2>2. byteLimit' \in ByteLimits
      BY Zenon DEF Intake
    <2>3. Size[taken + 1] \in Nat
      BY <2>1
    <2> QED
      BY <2>1, <2>2, <2>3, Zenon
  <1>3. InFlight' = InFlight /\ Batch' = Batch /\ BatchLen' = BatchLen
    BY <1>1, Zenon DEF InFlight, Batch, BatchLen
  <1>4. RequestsWithinLimits'
    BY <1>1, <1>3, SpawnedStay, Zenon DEF LimitShape
  <1>5. pc' = "push" => Batch = {} \/ ~ (BatchLen >= MaxEvents \/ batchBytes + Size[taken + 1] > byteLimit')
    BY Zenon DEF Intake, Goto
  <1>6. Batch = {} => flushed = taken
    <2>1. Batch = {} => ~ (flushed < taken)
      BY NonEmptyBatch, Zenon DEF Inv, TypeOK
    <2> QED
      BY <1>2, <2>1
  <1>7. ~ (BatchLen >= MaxEvents \/ batchBytes + Size[taken + 1] > byteLimit') =>
          BatchLen < MaxEvents /\ batchBytes + Size[taken + 1] <= byteLimit'
    BY <1>2 DEF BatchLen
  <1>8. Bytes(Batch)' = Bytes(Batch)
    BY <1>3, Zenon
  <1> QED
    BY <1>1, <1>3, <1>4, <1>5, <1>6, <1>7, <1>8, Zenon DEF LimitShape

LEMMA SpawnLimits ==
  ASSUME Inv, LimitShape, Spawn
  PROVE  LimitShape'
  <1> USE DispatcherAssumption
  <1>1. /\ flushed' = taken /\ taken' = taken /\ batchBytes' = 0 /\ nextSeq' = nextSeq + 1
        /\ task' = [task EXCEPT ![nextSeq] = "writing"]
        /\ batchOf' = [e \in Events |-> IF e \in Batch THEN nextSeq ELSE batchOf[e]]
        /\ \E desired \in 1..MaxParallel : Cardinality(InFlight) < desired
    BY Zenon DEF Spawn
  <1>2. /\ flushed < taken /\ flushed \in Nat /\ taken \in Nat /\ taken <= NEvents
        /\ nextSeq \in Nat \ {0} /\ batchOf \in [Events -> 0..(nextSeq - 1)]
        /\ \A e \in Events : batchOf[e] # 0 <=> e <= flushed
    BY DEF Spawn, Inv, TypeOK, RunTypeOK, BatchTypeOK, RunShape, BatchShape
  <1>3. Cardinality(InFlight') <= MaxParallel
    <2>1. IsFiniteSet(InFlight) /\ IsFiniteSet(InFlight')
      <3>1. InFlight' \in SUBSET Seqs
        BY Zenon DEF InFlight
      <3> QED
        BY <3>1, InFlightFinite, FS_Subset, Zenon
    <2>2. InFlight' \in SUBSET (InFlight \cup {nextSeq})
      BY <1>1, Zenon DEF InFlight, Inv, TypeOK, TaskTypeOK
    <2>3. /\ IsFiniteSet(InFlight \cup {nextSeq})
          /\ Cardinality(InFlight \cup {nextSeq}) \in {Cardinality(InFlight), Cardinality(InFlight) + 1}
      BY <2>1, FS_AddElement, Zenon
    <2>4. Cardinality(InFlight') <= Cardinality(InFlight \cup {nextSeq})
      BY <2>2, <2>3, FS_Subset, Zenon
    <2>5. Cardinality(InFlight) \in Nat /\ Cardinality(InFlight') \in Nat
      BY <2>1, FS_CardinalityType, Zenon
    <2> QED
      BY <1>1, <2>3, <2>4, <2>5
  <1>4. ASSUME NEW s, s = nextSeq PROVE Members({s})' = Batch
    <2>1. \A e \in Events : batchOf[e] # nextSeq
      BY <1>2
    <2>2. Batch \subseteq Events
      BY BatchFacts, Zenon DEF Inv, TypeOK
    <2>3. \A e \in Events : batchOf'[e] = nextSeq <=> e \in Batch
      BY <1>1, <2>1, Zenon
    <2> QED
      BY <1>4, <2>2, <2>3, Zenon DEF Members
  <1>5. ASSUME NEW s \in 1..(nextSeq - 1) PROVE Members({s})' = Members({s})
    <2>1. s # 0 /\ s # nextSeq
      BY <1>2
    <2>2. \A e \in Batch : batchOf[e] = 0
      BY <1>2 DEF Batch, Events
    <2>3. \A e \in Events : batchOf'[e] = s <=> batchOf[e] = s
      BY <1>1, <2>1, <2>2, Zenon
    <2> QED
      BY <2>3, Zenon DEF Members
  <1>6. WithinLimits(Batch)
    <2>1. Cardinality(Batch) = BatchLen /\ batchBytes = Bytes(Batch)
      BY BatchFacts, Zenon DEF Inv, TypeOK, LimitShape
    <2>2. BatchLen \in 1..MaxEvents /\ (BatchLen <= 1 => BatchLen = 1)
      BY <1>2 DEF BatchLen, LimitShape
    <2> QED
      BY <2>1, <2>2, Zenon DEF WithinLimits, LimitShape
  <1>7. RequestsWithinLimits'
    <2>1. 1..(nextSeq' - 1) = 1..(nextSeq - 1) \cup {nextSeq}
      BY <1>1, <1>2
    <2>2. ASSUME NEW s \in 1..(nextSeq' - 1) PROVE WithinLimits(Members({s})')
      <3>1. CASE s = nextSeq
        BY <1>4, <1>6, <3>1, Zenon
      <3>2. CASE s \in 1..(nextSeq - 1)
        <4>1. WithinLimits(Members({s}))
          BY <3>2, Zenon DEF LimitShape, RequestsWithinLimits
        <4> QED
          BY <1>5, <3>2, <4>1, Zenon
      <3> QED
        BY <2>1, <2>2, <3>1, <3>2, Zenon
    <2> QED
      BY <1>3, <2>2, Zenon DEF RequestsWithinLimits
  <1>8. Batch' = {} /\ BatchLen' = 0 /\ flushed' = taken'
    BY <1>1, <1>2 DEF Batch, BatchLen
  <1>9. batchBytes' = Bytes(Batch)'
    BY <1>1, <1>8, BytesStep, Zenon
  <1>10. BatchLen' <= MaxEvents /\ BatchLen' <= 1
    BY <1>8
  <1> QED
    BY <1>7, <1>8, <1>9, <1>10, Zenon DEF LimitShape

LEMMA LimitInv == Inv /\ LimitShape /\ [Next]_vars => LimitShape'
  <1> SUFFICES ASSUME Inv, LimitShape, [Next]_vars PROVE LimitShape'
    BY Zenon
  <1>1. CASE Publish \/ Cancel \/ \E r \in {"ok", "err"} : SourceReturns(r)
    <2>1. UNCHANGED <<pc, batchVars, spawnVars, taskVars>>
      BY <1>1, Zenon DEF Publish, Cancel, SourceReturns
    <2>2. InFlight' \subseteq InFlight
      BY <2>1, Zenon DEF InFlight, taskVars
    <2> QED
      BY <2>1, <2>2, LimitsStay, Zenon DEF batchVars
  <1>2. CASE ShutdownArm \/ TimerArm \/ RecvArm \/ SourceClosedArm \/ IntakeDone
    <2>1. UNCHANGED <<taken, batchBytes, spawnVars, taskVars>> /\ pc' # "push"
      BY <1>2, Zenon DEF ShutdownArm, TimerArm, RecvArm, SourceClosedArm, IntakeDone, RunStill,
                         FlushThen, Goto, batchVars
    <2>2. InFlight' \subseteq InFlight
      BY <2>1, Zenon DEF InFlight, taskVars
    <2> QED
      BY <2>1, <2>2, LimitsStay, Zenon
  <1>3. CASE Intake  BY <1>3, IntakeLimits, Zenon
  <1>4. CASE Push  BY <1>4, PushLimits, Zenon
  <1>5. CASE Spawn  BY <1>5, SpawnLimits, Zenon
  <1>6. CASE Return
    <2>1. UNCHANGED <<taken, batchBytes, spawnVars, taskVars>> /\ pc' # "push"
      BY <1>6, Zenon DEF Return, Goto, batchVars
    <2>2. InFlight' \subseteq InFlight
      BY <2>1, Zenon DEF InFlight, taskVars
    <2> QED
      BY <2>1, <2>2, LimitsStay, Zenon
  <1>7. CASE \E s \in Seqs : ReapArm(s) \/ SpawnWait(s) \/ DrainReap(s)
    <2>1. PICK s \in Seqs : ReapArm(s) \/ SpawnWait(s) \/ DrainReap(s)
      BY <1>7, Zenon
    <2>2. OnJoined(s) /\ pc' # "push"
      BY <2>1, Zenon DEF ReapArm, SpawnWait, DrainReap, FlushThen, Goto
    <2>3. UNCHANGED <<taken, batchBytes, spawnVars>> /\ InFlight' \subseteq InFlight
      BY <2>2, Zenon DEF OnJoined, batchVars, InFlight, Inv, TypeOK, TaskTypeOK
    <2> QED
      BY <2>2, <2>3, LimitsStay, Zenon
  <1>8. CASE \E s \in Seqs : WriteTask(s)
    <2>1. PICK s \in Seqs : WriteTask(s)
      BY <1>8, Zenon
    <2>2. UNCHANGED <<pc, batchVars, spawnVars>>
      BY <2>1, Zenon DEF WriteTask, BarriersOnly, WriteOk, WriteFailed, WriteCancelled, WriteRejected,
                         DlqRecord, DlqSync, Panic, TaskStill
    <2>3. InFlight' \subseteq InFlight
      <3>1. /\ task[s] \in {"writing", "quarantine", "sync"}
            /\ \A q \in Seqs : q # s => task'[q] = task[q]
        BY <2>1, Zenon DEF WriteTask, BarriersOnly, WriteOk, WriteFailed, WriteCancelled, WriteRejected,
                           DlqRecord, DlqSync, Panic, Finish, Inv, TypeOK, TaskTypeOK
      <3> QED
        BY <3>1, Zenon DEF InFlight
    <2> QED
      BY <2>2, <2>3, LimitsStay, Zenon DEF batchVars
  <1>9. CASE UNCHANGED vars
    <2>1. UNCHANGED <<pc, batchVars, spawnVars, taskVars>>
      BY <1>9, Zenon DEF vars
    <2>2. InFlight' \subseteq InFlight
      BY <2>1, Zenon DEF InFlight, taskVars
    <2> QED
      BY <2>1, <2>2, LimitsStay, Zenon DEF batchVars
  <1> QED
    BY <1>1, <1>2, <1>3, <1>4, <1>5, <1>6, <1>7, <1>8, <1>9, Zenon DEF Next, RunTask

\* Every request to the sink keeps the limits, whatever the sizes of the events and however
\* the byte limit moves while a batch is filled: at most max_events events, within a byte
\* limit unless it is a single event, and at most max_parallel_bulks of them at once.
THEOREM RequestsBounded == Spec => []RequestsWithinLimits
  <1>1. Spec => []LimitShape
    BY LimitInit, LimitInv, InvHolds, PTL DEF Spec
  <1>2. LimitShape => RequestsWithinLimits
    BY Zenon DEF LimitShape
  <1> QED
    BY <1>1, <1>2, PTL
=============================================================================
