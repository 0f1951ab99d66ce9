------------------------------ MODULE Dispatcher ------------------------------
(***************************************************************************)
(* The dispatcher of one engine iteration                                  *)
(* (crates/ventstream/src/dispatcher.rs): a single task drains the bounded *)
(* event bus into batches, up to MaxParallel batches are written to the    *)
(* sink at once and complete in any order, and an ordered committer turns  *)
(* the results into the watermark that gates the source's checkpoint.      *)
(*                                                                         *)
(* Events are the positions 1..NEvents of the stream the source publishes. *)
(* The bus is FIFO and batches are cut from it in order, so the bus, the   *)
(* receive buffer and the current batch are the intervals                  *)
(*   recvd+1..sent, taken+1..recvd and flushed+1..taken.                   *)
(* Batch numbers start at 1 here and at 0 in the code.                     *)
(*                                                                         *)
(* A process crash is not an action: whatever must survive one is stated   *)
(* of every reachable state, in terms of what is outside the process (the  *)
(* sink, the synced part of the DLQ file).                                 *)
(***************************************************************************)
EXTENDS Integers, FiniteSetsExt

CONSTANTS
    NEvents,      \* length of the stream the source publishes
    Mark,         \* Mark[e]: the checkpoint header of event e, 0 if it has none
    Barriers,     \* internal control events, never written to the sink
    Size,         \* Size[e]: the sink's byte estimate of event e
    BusCapacity,  \* slots of the event bus
    MaxEvents,    \* DispatcherConfig.max_events
    ByteLimits,   \* values effective_max_bytes takes as memory pressure varies
    MaxParallel   \* DispatcherConfig.max_parallel_bulks

Events == 1..NEvents
Seqs == 1..NEvents

ASSUME DispatcherAssumption ==
    /\ NEvents \in Nat
    /\ Mark \in [Events -> Nat]
    /\ Barriers \subseteq Events
    /\ Size \in [Events -> Nat \ {0}]
    /\ BusCapacity \in Nat \ {0}
    /\ MaxEvents \in Nat \ {0}
    /\ ByteLimits \subseteq Nat \ {0} /\ ByteLimits # {}
    /\ MaxParallel \in Nat \ {0}

VARIABLES
    sent,          \* events the source has published
    sourceResult,  \* "running" until the source task returns "ok" or "err"
    shutdown,      \* the shared ShutdownToken
    pc,            \* where the run task is
    resume,        \* where the run task goes once spawn_flush returns
    recvd,         \* events received from the bus
    taken,         \* events moved on into a batch
    flushed,       \* events handed to a write task
    batchBytes,    \* byte estimate of the current batch
    byteLimit,     \* effective_max_bytes for the event being added
    nextSeq,       \* number of the next batch to spawn
    batchOf,       \* batchOf[e]: number of the batch e was flushed in, or 0
    task,          \* task[s]: progress of the write task of batch s
    outcome,       \* outcome[s]: its verdict
    poison,        \* poison[s]: rejected events still to be dead-lettered
    writesOk,      \* writesOk[s]: no dead-letter write of s has failed
    inSink,        \* events the sink has applied
    dlqBuffered,   \* events written to the DLQ file, not necessarily on disk
    dlqSynced,     \* events on disk in the DLQ file
    commitSeq,     \* committer: next batch number to commit
    pending,       \* committer: results waiting for the prefix to reach them
    failed,        \* committer: stopped advancing
    fatal,         \* committer: has a reason the caller must hear about
    progress,      \* the watermark the committer publishes
    result         \* what Dispatcher::run returned

sourceVars == <<sent, sourceResult>>
batchVars == <<recvd, taken, batchBytes, byteLimit>>
spawnVars == <<nextSeq, flushed, batchOf>>
taskVars == <<task, outcome, poison, writesOk>>
storeVars == <<inSink, dlqBuffered, dlqSynced>>
commitVars == <<commitSeq, pending, failed, fatal, progress>>
vars == <<sourceVars, shutdown, pc, resume, batchVars, spawnVars, taskVars,
          storeVars, commitVars, result>>

Outcomes == {"Durable", "NonDurable", "FailedClosed", "Cancelled", "Panicked"}
TaskStates == {"unborn", "writing", "quarantine", "sync", "joinable", "reaped"}

(***************************************************************************)
(* Batches and what has become of an event.                                *)
(***************************************************************************)
Members(S) == {e \in Events : batchOf[e] \in S}
Batch == (flushed + 1)..taken
BatchLen == taken - flushed

Bytes(S) == MapThenSumSet(LAMBDA e : Size[e], S)

\* write_one_batch filters the internal barriers out before it calls the sink.
Docs(s) == Members({s}) \ Barriers

InFlight == {s \in Seqs : task[s] \in {"writing", "quarantine", "sync", "joinable"}}
Joinable == {s \in Seqs : task[s] = "joinable"}

\* Nothing is lost if the process or the machine dies now and the source
\* never delivers e again.
Handled(e) == e \in Barriers \cup inSink \cup dlqSynced

-----------------------------------------------------------------------------
Init ==
    /\ sent = 0 /\ sourceResult = "running"
    /\ shutdown = FALSE
    /\ pc = "select" /\ resume = "select"
    /\ recvd = 0 /\ taken = 0 /\ flushed = 0 /\ batchBytes = 0
    /\ byteLimit \in ByteLimits
    /\ nextSeq = 1
    /\ batchOf = [e \in Events |-> 0]
    /\ task = [s \in Seqs |-> "unborn"]
    /\ outcome = [s \in Seqs |-> "Durable"]
    /\ poison = [s \in Seqs |-> {}]
    /\ writesOk = [s \in Seqs |-> TRUE]
    /\ inSink = {} /\ dlqBuffered = {} /\ dlqSynced = {}
    /\ commitSeq = 1 /\ pending = {} /\ failed = FALSE /\ fatal = FALSE
    /\ progress = 0
    /\ result = "none"

(***************************************************************************)
(* The source's end of the bus, and who else may cancel the token.         *)
(***************************************************************************)
\* EventSender::send: a free slot is taken even after cancellation; a closed
\* receiver refuses.
Publish ==
    /\ sourceResult = "running" /\ pc # "done"
    /\ sent < NEvents /\ sent - recvd < BusCapacity
    /\ sent' = sent + 1
    /\ UNCHANGED <<sourceResult, shutdown, pc, resume, batchVars, spawnVars,
                   taskVars, storeVars, commitVars, result>>

\* run_without_joins: the source task returns and its sender is dropped; an
\* error cancels the token.
SourceReturns(r) ==
    /\ sourceResult = "running"
    /\ sourceResult' = r
    /\ shutdown' = (shutdown \/ r = "err")
    /\ UNCHANGED <<sent, pc, resume, batchVars, spawnVars, taskVars, storeVars,
                   commitVars, result>>

\* A pause command or a signal.
Cancel ==
    /\ ~shutdown /\ pc # "done"
    /\ shutdown' = TRUE
    /\ UNCHANGED <<sourceVars, pc, resume, batchVars, spawnVars, taskVars,
                   storeVars, commitVars, result>>

(***************************************************************************)
(* The ordered committer.                                                  *)
(***************************************************************************)
\* max_watermark_in / max_transform_watermark_in: m is the largest mark of S.
MarksOf(S) == {0} \cup {Mark[e] : e \in S}
IsMaxMark(m, S) == m \in MarksOf(S) /\ \A e \in S : Mark[e] <= m

\* Mutant of CommitResult: no reorder buffer, a batch commits when it is done.
CommitInCompletionOrder(s) ==
    /\ outcome[s] = "Durable"
    /\ commitSeq' = IF s >= commitSeq THEN s + 1 ELSE commitSeq
    /\ \E m \in MarksOf(Members({s})) :
         /\ IsMaxMark(m, Members({s}))
         /\ progress' = IF m > progress THEN m ELSE progress
    /\ UNCHANGED <<pending, failed, fatal, shutdown>>

\* The while loop of commit() over the results `held`: it consumes the contiguous
\* run commitSeq..stop-1 of durable results and ends at stop, a result that is
\* not in yet or is not durable.
CommitHeld(held) ==
    LET Durable(q) == q \in held /\ outcome[q] = "Durable"
    IN  \E stop \in commitSeq..nextSeq :
          /\ \A q \in commitSeq..(stop - 1) : Durable(q)
          /\ ~ Durable(stop)
          /\ commitSeq' = stop
          /\ LET run == Members(commitSeq..(stop - 1))
             IN  \E m \in MarksOf(run) :
                   /\ IsMaxMark(m, run)
                   /\ progress' = IF m > progress THEN m ELSE progress
          /\ \/ /\ stop \notin held
                /\ pending' = {q \in held : q > stop}
                /\ UNCHANGED <<failed, fatal, shutdown>>
             \/ /\ stop \in held /\ outcome[stop] \in {"NonDurable", "FailedClosed"}
                /\ pending' = {q \in held : q > stop}
                /\ failed' = TRUE /\ fatal' = TRUE /\ shutdown' = TRUE
             \/ /\ stop \in held /\ outcome[stop] = "Cancelled"
                /\ pending' = {}
                /\ failed' = TRUE
                /\ LET masked == \E q \in held :
                         q > stop /\ outcome[q] \in {"NonDurable", "FailedClosed"}
                   IN  /\ fatal' = (fatal \/ masked)
                       /\ shutdown' = (shutdown \/ masked)

\* Mutant of CommitResult: results ahead of the prefix are not kept.
CommitWithoutBuffer(s) == CommitHeld({s})

\* commit() of a result that is not a panic, before anything has failed.
CommitResult(s) == CommitHeld(pending \cup {s})

\* OrderedCommitter::on_joined of the joinable task of batch s.
OnJoined(s) ==
    /\ task[s] = "joinable"
    /\ task' = [task EXCEPT ![s] = "reaped"]
    /\ \/ /\ outcome[s] = "Panicked"
          /\ failed' = TRUE /\ fatal' = TRUE /\ shutdown' = TRUE
          /\ UNCHANGED <<commitSeq, pending, progress>>
       \/ /\ outcome[s] # "Panicked" /\ failed
          /\ UNCHANGED <<commitVars, shutdown>>
       \/ /\ outcome[s] # "Panicked" /\ ~failed
          /\ CommitResult(s)
    /\ UNCHANGED <<sourceVars, batchVars, spawnVars, outcome, poison, writesOk,
                   storeVars, result>>

(***************************************************************************)
(* The run task: a biased select.  An arm is taken only when the arms      *)
(* above it are not ready.                                                 *)
(***************************************************************************)
Goto(p) == pc' = p /\ UNCHANGED resume

\* spawn_flush of the current batch if there is one, then on to `next`.
FlushThen(next) ==
    IF Batch # {} THEN pc' = "spawn" /\ resume' = next ELSE Goto(next)

RunStill == UNCHANGED <<sourceVars, shutdown, batchVars, spawnVars, taskVars,
                        storeVars, commitVars, result>>

ShutdownArm ==
    /\ pc = "select" /\ shutdown
    /\ FlushThen("drain")
    /\ RunStill

ReapArm(s) ==
    /\ pc = "select" /\ ~shutdown
    /\ OnJoined(s)
    /\ FlushThen("select")

\* Mutant of TimerArm: the timer flushes full batches only.
TimerFlushesFullBatches ==
    /\ pc = "select" /\ ~shutdown
    /\ BatchLen >= MaxEvents /\ InFlight = {}
    /\ FlushThen("select")
    /\ RunStill

TimerArm ==
    /\ pc = "select" /\ ~shutdown
    /\ Batch # {} /\ InFlight = {}
    /\ FlushThen("select")
    /\ RunStill

\* Mutant of RecvArm: recv_many is taken to fill its buffer.
RecvFullBuffer ==
    /\ pc = "select" /\ ~shutdown /\ Joinable = {}
    /\ sent > recvd
    /\ recvd' = recvd + MaxEvents
    /\ Goto("intake")
    /\ UNCHANGED <<sourceVars, shutdown, taken, batchBytes, byteLimit, spawnVars,
                   taskVars, storeVars, commitVars, result>>

RecvArm ==
    /\ pc = "select" /\ ~shutdown /\ Joinable = {}
    /\ sent > recvd
    /\ recvd' = IF sent - recvd > MaxEvents THEN recvd + MaxEvents ELSE sent
    /\ Goto("intake")
    /\ UNCHANGED <<sourceVars, shutdown, taken, batchBytes, byteLimit, spawnVars,
                   taskVars, storeVars, commitVars, result>>

SourceClosedArm ==
    /\ pc = "select" /\ ~shutdown /\ Joinable = {}
    /\ sourceResult # "running" /\ sent = recvd
    /\ FlushThen("drain")
    /\ RunStill

\* Mutant of Intake: the batch is not flushed before an event that does not fit.
IntakeWithoutPreFlush ==
    /\ pc = "intake" /\ taken < recvd
    /\ \E limit \in ByteLimits : byteLimit' = limit
    /\ Goto("push")
    /\ UNCHANGED <<sourceVars, shutdown, recvd, taken, batchBytes, spawnVars,
                   taskVars, storeVars, commitVars, result>>

\* The for loop over the received events.  It does not look at the token.
\* The batch goes out first if the next event would not fit.
Intake ==
    /\ pc = "intake" /\ taken < recvd
    /\ \E limit \in ByteLimits :
         /\ byteLimit' = limit
         /\ IF Batch # {} /\ ( \/ BatchLen >= MaxEvents
                               \/ batchBytes + Size[taken + 1] > limit )
            THEN pc' = "spawn" /\ resume' = "push"
            ELSE Goto("push")
    /\ UNCHANGED <<sourceVars, shutdown, recvd, taken, batchBytes, spawnVars,
                   taskVars, storeVars, commitVars, result>>

Push ==
    /\ pc = "push"
    /\ taken' = taken + 1
    /\ batchBytes' = batchBytes + Size[taken + 1]
    /\ IF BatchLen + 1 >= MaxEvents \/ batchBytes + Size[taken + 1] >= byteLimit
       THEN pc' = "spawn" /\ resume' = "intake"
       ELSE Goto("intake")
    /\ UNCHANGED <<sourceVars, shutdown, recvd, byteLimit, spawnVars, taskVars,
                   storeVars, commitVars, result>>

IntakeDone ==
    /\ pc = "intake" /\ taken = recvd
    /\ Goto("select")
    /\ RunStill

\* spawn_flush: reap while as many batches are in flight as the sink and the
\* memory budget currently recommend, then spawn the write task.
SpawnWait(s) ==
    /\ pc = "spawn"
    /\ \E desired \in 1..MaxParallel : Cardinality(InFlight) >= desired
    /\ OnJoined(s)
    /\ UNCHANGED <<pc, resume>>

Spawn ==
    /\ pc = "spawn"
    /\ \E desired \in 1..MaxParallel : Cardinality(InFlight) < desired
    /\ batchOf' = [e \in Events |-> IF e \in Batch THEN nextSeq ELSE batchOf[e]]
    /\ flushed' = taken
    /\ nextSeq' = nextSeq + 1
    /\ task' = [task EXCEPT ![nextSeq] = "writing"]
    /\ batchBytes' = 0
    /\ Goto(resume)
    /\ UNCHANGED <<sourceVars, shutdown, recvd, taken, byteLimit, outcome, poison,
                   writesOk, storeVars, commitVars, result>>

\* Terminal drain of the shutdown and source-closed arms.
DrainReap(s) ==
    /\ pc = "drain"
    /\ OnJoined(s)
    /\ UNCHANGED <<pc, resume>>

\* Mutant of Return: the drain also waits for the reorder buffer to empty.
ReturnOnceBufferEmpty ==
    /\ pc = "drain" /\ InFlight = {} /\ pending = {}
    /\ Goto("done")
    /\ result' = IF fatal THEN "err" ELSE "ok"
    /\ \E synced \in {dlqSynced, dlqSynced \cup dlqBuffered} : dlqSynced' = synced
    /\ UNCHANGED <<sourceVars, shutdown, batchVars, spawnVars, taskVars, inSink,
                   dlqBuffered, commitVars>>

\* dlq.shutdown() syncs the file; its error is only logged.
Return ==
    /\ pc = "drain" /\ InFlight = {}
    /\ Goto("done")
    /\ result' = IF fatal THEN "err" ELSE "ok"
    /\ \E synced \in {dlqSynced, dlqSynced \cup dlqBuffered} : dlqSynced' = synced
    /\ UNCHANGED <<sourceVars, shutdown, batchVars, spawnVars, taskVars, inSink,
                   dlqBuffered, commitVars>>

(***************************************************************************)
(* The write tasks (write_one_batch).                                      *)
(***************************************************************************)
Finish(s, verdict) ==
    /\ task' = [task EXCEPT ![s] = "joinable"]
    /\ outcome' = [outcome EXCEPT ![s] = verdict]

TaskStill == UNCHANGED <<sourceVars, shutdown, pc, resume, batchVars, spawnVars,
                         commitVars, result>>

\* A batch of barriers alone never reaches the sink or the select.
BarriersOnly(s) ==
    /\ task[s] = "writing" /\ Docs(s) = {}
    /\ Finish(s, "Durable")
    /\ UNCHANGED <<poison, writesOk, storeVars>> /\ TaskStill

\* sink.write returned Ok: every document of the batch is applied.
WriteOk(s) ==
    /\ task[s] = "writing" /\ Docs(s) # {} /\ ~shutdown
    /\ inSink' = inSink \cup Docs(s)
    /\ Finish(s, "Durable")
    /\ UNCHANGED <<poison, writesOk, dlqBuffered, dlqSynced>> /\ TaskStill

\* Rejected with exact per-item metadata: the others are applied, the rejected
\* ones go to the DLQ.
WriteRejected(s, items) ==
    /\ task[s] = "writing" /\ ~shutdown
    /\ items # {} /\ items \subseteq Docs(s)
    /\ inSink' = inSink \cup (Docs(s) \ items)
    /\ poison' = [poison EXCEPT ![s] = items]
    /\ task' = [task EXCEPT ![s] = "quarantine"]
    /\ UNCHANGED <<outcome, writesOk, dlqBuffered, dlqSynced>> /\ TaskStill

\* Any other sink error, or rejection metadata that does not add up; part of
\* the batch may have been applied.
WriteFailed(s) ==
    /\ task[s] = "writing" /\ Docs(s) # {} /\ ~shutdown
    /\ \E landed \in SUBSET Docs(s) : inSink' = inSink \cup landed
    /\ Finish(s, "FailedClosed")
    /\ UNCHANGED <<poison, writesOk, dlqBuffered, dlqSynced>> /\ TaskStill

\* The token wins the biased select; the request may have reached the sink.
WriteCancelled(s) ==
    /\ task[s] = "writing" /\ Docs(s) # {} /\ shutdown
    /\ \E landed \in SUBSET Docs(s) : inSink' = inSink \cup landed
    /\ Finish(s, "Cancelled")
    /\ UNCHANGED <<poison, writesOk, dlqBuffered, dlqSynced>> /\ TaskStill

\* record_best_effort of one rejected event, past the select: the token is no
\* longer looked at.
DlqRecord(s, e, ok) ==
    /\ task[s] = "quarantine" /\ e \in poison[s]
    /\ poison' = [poison EXCEPT ![s] = @ \ {e}]
    /\ writesOk' = [writesOk EXCEPT ![s] = @ /\ ok]
    /\ dlqBuffered' = IF ok THEN dlqBuffered \cup {e} ELSE dlqBuffered
    /\ task' = IF poison[s] = {e} THEN [task EXCEPT ![s] = "sync"] ELSE task
    /\ UNCHANGED <<outcome, inSink, dlqSynced>> /\ TaskStill

\* Mutant of DlqSync: a failed dead-letter write of the batch is overlooked.
DlqSyncForgivesWrites(s, ok) ==
    /\ task[s] = "sync"
    /\ dlqSynced' = IF ok THEN dlqSynced \cup dlqBuffered ELSE dlqSynced
    /\ Finish(s, IF ok THEN "Durable" ELSE "NonDurable")
    /\ UNCHANGED <<poison, writesOk, inSink, dlqBuffered>> /\ TaskStill

\* dlq.sync: one file for all batches, so it also syncs what siblings wrote.
DlqSync(s, ok) ==
    /\ task[s] = "sync"
    /\ dlqSynced' = IF ok THEN dlqSynced \cup dlqBuffered ELSE dlqSynced
    /\ Finish(s, IF ok /\ writesOk[s] THEN "Durable" ELSE "NonDurable")
    /\ UNCHANGED <<poison, writesOk, inSink, dlqBuffered>> /\ TaskStill

\* The task panics wherever it is; JoinSet reports a JoinError without a seq.
Panic(s) ==
    /\ task[s] \in {"writing", "quarantine", "sync"}
    /\ Finish(s, "Panicked")
    /\ UNCHANGED <<poison, writesOk, storeVars>> /\ TaskStill

WriteTask(s) ==
    \/ BarriersOnly(s) \/ WriteOk(s) \/ WriteFailed(s) \/ WriteCancelled(s)
    \/ \E items \in SUBSET Docs(s) : WriteRejected(s, items)
    \/ \E e \in Events, ok \in BOOLEAN : DlqRecord(s, e, ok)
    \/ \E ok \in BOOLEAN : DlqSync(s, ok)
    \/ Panic(s)

RunTask ==
    \/ ShutdownArm \/ TimerArm \/ RecvArm \/ SourceClosedArm
    \/ Intake \/ Push \/ IntakeDone \/ Spawn \/ Return
    \/ \E s \in Seqs : ReapArm(s) \/ SpawnWait(s) \/ DrainReap(s)

Next ==
    \/ Publish \/ Cancel
    \/ \E r \in {"ok", "err"} : SourceReturns(r)
    \/ RunTask
    \/ \E s \in Seqs : WriteTask(s)

Spec == Init /\ [][Next]_vars

-----------------------------------------------------------------------------
(***************************************************************************)
(* Properties.                                                             *)
(***************************************************************************)
RunTypeOK ==
    /\ sent \in 0..NEvents /\ recvd \in 0..sent
    /\ taken \in 0..recvd /\ flushed \in 0..taken
    /\ sourceResult \in {"running", "ok", "err"}
    /\ pc \in {"select", "intake", "push", "spawn", "drain", "done"}
    /\ resume \in {"select", "intake", "push", "drain"}
    /\ batchBytes \in Nat /\ byteLimit \in ByteLimits
    /\ result \in {"none", "ok", "err"}

BatchTypeOK ==
    /\ nextSeq \in 1..(NEvents + 1)
    /\ batchOf \in [Events -> 0..(nextSeq - 1)]
    /\ commitSeq \in 1..nextSeq /\ pending \subseteq Seqs
    /\ progress \in Nat

TaskTypeOK ==
    /\ task \in [Seqs -> TaskStates] /\ outcome \in [Seqs -> Outcomes]
    /\ poison \in [Seqs -> SUBSET Events] /\ writesOk \in [Seqs -> BOOLEAN]
    /\ inSink \subseteq Events /\ dlqBuffered \subseteq Events
    /\ dlqSynced \subseteq Events

FlagTypeOK == shutdown \in BOOLEAN /\ failed \in BOOLEAN /\ fatal \in BOOLEAN

\* Every variable has its type; the bus, the receive buffer and the batch are
\* intervals of the stream, and there are no more batches than events.
TypeOK == RunTypeOK /\ BatchTypeOK /\ TaskTypeOK /\ FlagTypeOK

\* The watermark handed to the source is the mark of an event up to which
\* every event is in the sink or on disk in the DLQ, however batches complete
\* and whichever of them fail: a higher batch never leapfrogs a lower one that
\* is not durable.
WatermarkCoversHandledPrefix ==
    progress = 0 \/ \E j \in Events :
        Mark[j] = progress /\ \A e \in 1..j : Handled(e)

\* Every result the committer was given is used: when the dispatcher returns
\* Ok and no write was cancelled, every received event is handled and the
\* watermark has caught up with all of them.
CleanExitIsComplete ==
    (result = "ok" /\ \A s \in Seqs : outcome[s] # "Cancelled") =>
        /\ \A e \in 1..recvd : Handled(e)
        /\ IsMaxMark(progress, 1..recvd)

\* The request limits hold at every moment: a spawned batch has at most
\* max_events events and exceeds the byte limits only when it is a single
\* oversized event the sink must judge, and spawn_flush never lets more than
\* max_parallel_bulks writes be in flight.
WithinLimits(S) ==
    /\ Cardinality(S) \in 1..MaxEvents
    /\ Cardinality(S) = 1 \/ \E limit \in ByteLimits : Bytes(S) <= limit
RequestsWithinLimits ==
    /\ Cardinality(InFlight) <= MaxParallel
    /\ \A s \in 1..(nextSeq - 1) : WithinLimits(Members({s}))

\* No event is stranded in a partial batch, behind a full set of writes or in
\* the committer's reorder buffer: the dispatcher comes to rest with every
\* published event handled, or it has returned; and a cancelled one returns,
\* whatever is in flight.
Settled ==
    pc = "done" \/ (~shutdown /\ \A e \in 1..sent : Handled(e))

\* The dispatcher implements the abstract promise made to the source.
Promise == INSTANCE DurablePrefix WITH
    Free <- Barriers,
    handled <- Barriers \cup inSink \cup dlqSynced
ImplementsDurablePrefix == Promise!Spec

\* Comment of the committer's Cancelled arm and of the shutdown arm of run: a
\* batch that could not be made durable reaches the caller as an error, never
\* as a clean exit.
DurabilityFailureIsReported ==
    result = "ok" => \A s \in Seqs :
        outcome[s] \notin {"NonDurable", "FailedClosed"}
==============================================================================
