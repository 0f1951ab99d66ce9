----------------------------- MODULE JoinBoundary -----------------------------
(***************************************************************************)
(* The durability hand-off of in-memory joins                              *)
(* (crates/ventstream-joins: engine.rs, state.rs, persistence.rs).  A join *)
(* engine sits between the source and the dispatcher.  It keeps rows in    *)
(* memory, mirrors changes into an open redb transaction, and at a         *)
(* boundary first waits until everything it emitted is durable in the      *)
(* sink, then commits the transaction, then lets the source see the new    *)
(* watermark.  A crash may come between any two of these.                  *)
(*                                                                         *)
(* A row is the number of the last change applied to it: 0 for the row as  *)
(* it was when the pipeline was first started, Absent when it is unknown.  *)
(* Changes are the positions 1..NEvents of the source's log, and the mark  *)
(* a change carries is its position.  The dispatcher is the FIFO that      *)
(* DurablePrefix promises.                                                 *)
(***************************************************************************)
EXTENDS Integers, Sequences

CONSTANTS
    NEvents,      \* changes the source database commits
    NRows,        \* rows of the joined tables
    RowOf,        \* RowOf[e]: the row change e touches, 0 if in no join
    Poison,       \* changes to a joined table whose row has no usable key
    BusCapacity,  \* slots of each of the two buses
    MaxCrashes    \* bound on crashes and failures

Events == 1..NEvents
Rows == 1..NRows
Absent == -1
Versions == Absent..NEvents
NoRow == [r \in Rows |-> Absent]

ASSUME JoinAssumption ==
    /\ NEvents \in Nat /\ NRows \in Nat \ {0}
    /\ RowOf \in [Events -> Rows \cup {0}]
    /\ Poison \subseteq {e \in Events : RowOf[e] = 0}
    /\ BusCapacity \in Nat \ {0}
    /\ MaxCrashes \in Nat

VARIABLES
    committed,      \* changes the source database has committed
    table,          \* table[r]: the last of them to row r
    slot,           \* the source's checkpoint (replication slot) exists
    slotStart,      \* the position it was created at
    acked,          \* the position it confirms
    \* the source
    scan,           \* snapshot rows read and still to be published, in order
    phase,          \* "scan", "snapshot", "complete" (sentinel due) or "tail"
    next,           \* next change to publish
    barrierDue,     \* changes were published since the last ack barrier
    input,          \* the bus from the source to the join engine
    \* the join engine
    pc,             \* "run", "barrier", "wait", "publish" or "stopped"
    mem,            \* the in-memory state
    tx,             \* row versions in the pending redb transaction
    persistOn,      \* persist_enabled
    persistFailed,  \* persist_failure is set
    dumpPending,    \* snapshot_dump_pending
    pendingWork,    \* pending_work
    pendingMark,    \* pending_source_watermark
    sequence,       \* number of the last join barrier
    sourceProgress, \* the watermark the source sees
    \* the dispatcher
    output,         \* the bus from the join engine to the dispatcher
    sinkProgress,   \* last join barrier the ordered sink prefix covers
    \* what survives a crash
    disk,           \* the redb tables
    identity,       \* the redb database carries this source's identity
    delivered,      \* changes the sink has applied
    quarantined,    \* changes on disk in the DLQ
    crashes         \* crashes and failures so far

dbVars == <<committed, table, slot, slotStart, acked>>
sourceVars == <<scan, phase, next, barrierDue>>
stateVars == <<mem, tx, persistOn, persistFailed>>
boundaryVars == <<dumpPending, pendingWork, pendingMark, sequence, sourceProgress>>
dispatcherVars == <<output, sinkProgress>>
diskVars == <<disk, identity, delivered, quarantined>>
vars == <<dbVars, sourceVars, input, pc, stateVars, boundaryVars, dispatcherVars,
          diskVars, crashes>>

Wal(e) == [kind |-> "wal", id |-> e]
Snap(r, v) == [kind |-> "snapshot", row |-> r, version |-> v]
Complete == [kind |-> "snapshot-complete"]
AckBarrier(e) == [kind |-> "barrier", id |-> e]
Doc(r, v, e) == [kind |-> "doc", row |-> r, version |-> v, id |-> e]
JoinBarrier(s) == [kind |-> "join_barrier", sequence |-> s]

(***************************************************************************)
(* The source database.                                                    *)
(***************************************************************************)
Init ==
    /\ committed = 0 /\ table = [r \in Rows |-> 0]
    /\ slot = TRUE /\ slotStart = 0 /\ acked = 0
    /\ scan = <<>> /\ phase = "scan" /\ next = 1
    /\ barrierDue = FALSE
    /\ input = <<>> /\ pc = "run"
    /\ mem = NoRow /\ tx = NoRow /\ persistOn = TRUE /\ persistFailed = FALSE
    /\ dumpPending = FALSE /\ pendingWork = FALSE /\ pendingMark = 0
    /\ sequence = 0 /\ sourceProgress = 0
    /\ output = <<>> /\ sinkProgress = 0
    /\ disk = NoRow /\ identity = FALSE /\ delivered = {} /\ quarantined = {}
    /\ crashes = 0

CommitChange ==
    /\ committed < NEvents
    /\ committed' = committed + 1
    /\ table' = [r \in Rows |-> IF RowOf[committed + 1] = r THEN committed + 1 ELSE table[r]]
    /\ UNCHANGED <<slot, slotStart, acked, sourceVars, input, pc, stateVars, boundaryVars,
                   dispatcherVars, diskVars, crashes>>

(***************************************************************************)
(* The source: snapshot, sentinel, then the log from the checkpoint on.    *)
(***************************************************************************)
HasRoom(bus) == Len(bus) < BusCapacity
SourceStill == UNCHANGED <<dbVars, pc, stateVars, boundaryVars, dispatcherVars,
                           diskVars, crashes>>

\* snapshot_table: a SELECT reads one chunk of rows (a sequence: Rows is 1..NRows),
\* which are then published one by one while the tables may change.
ScanTables ==
    /\ pc # "stopped" /\ phase = "scan"
    /\ scan' = table /\ phase' = "snapshot"
    /\ UNCHANGED <<next, barrierDue, input>> /\ SourceStill

PublishSnapshotRow ==
    /\ pc # "stopped" /\ phase = "snapshot" /\ HasRoom(input)
    /\ LET r == NRows - Len(scan) + 1
       IN  input' = Append(input, Snap(r, Head(scan)))
    /\ scan' = Tail(scan)
    /\ phase' = IF Len(scan) = 1 THEN "complete" ELSE "snapshot"
    /\ UNCHANGED <<next, barrierDue>> /\ SourceStill

PublishComplete ==
    /\ pc # "stopped" /\ phase = "complete" /\ HasRoom(input)
    /\ input' = Append(input, Complete)
    /\ phase' = "tail"
    /\ UNCHANGED <<scan, next, barrierDue>> /\ SourceStill

PublishChange ==
    /\ pc # "stopped" /\ phase = "tail" /\ HasRoom(input)
    /\ next <= committed
    /\ input' = Append(input, Wal(next))
    /\ next' = next + 1 /\ barrierDue' = TRUE
    /\ UNCHANGED <<scan, phase>> /\ SourceStill

\* MySQL's publish_ack_barrier: a control event that carries the mark.
PublishAckBarrier ==
    /\ pc # "stopped" /\ phase = "tail" /\ barrierDue /\ HasRoom(input)
    /\ input' = Append(input, AckBarrier(next - 1))
    /\ barrierDue' = FALSE
    /\ UNCHANGED <<scan, phase, next>> /\ SourceStill

\* The source confirms what source_progress covers.
Ack ==
    /\ pc # "stopped" /\ sourceProgress > acked
    /\ acked' = sourceProgress
    /\ UNCHANGED <<committed, table, slot, slotStart, sourceVars, input, pc, stateVars, boundaryVars,
                   dispatcherVars, diskVars, crashes>>

(***************************************************************************)
(* The join engine: one event at a time.                                   *)
(***************************************************************************)
Larger(a, b) == IF a > b THEN a ELSE b
JoinStill == UNCHANGED <<dbVars, sourceVars, sinkProgress, sequence, sourceProgress,
                         disk, identity, delivered>>

\* Takes the head of the input; `mark` is its source_watermark.
Receives(item, mark) ==
    /\ pc = "run" /\ input # <<>> /\ HasRoom(output)
    /\ item = Head(input)
    /\ input' = Tail(input)
    /\ pendingWork' = TRUE
    /\ pendingMark' = Larger(pendingMark, mark)

\* A snapshot row suspends per-row persistence; memory and the sink get it.
HandleSnapshotRow(r, v) ==
    /\ Receives(Snap(r, v), 0)
    /\ persistOn' = FALSE
    /\ mem' = [mem EXCEPT ![r] = v]
    /\ output' = Append(output, Doc(r, v, 0))
    /\ UNCHANGED <<pc, tx, persistFailed, dumpPending, quarantined, crashes>> /\ JoinStill

\* The sentinel only arms the dump of the next boundary.
HandleComplete ==
    /\ Receives(Complete, 0)
    /\ dumpPending' = TRUE
    /\ UNCHANGED <<pc, stateVars, output, quarantined, crashes>> /\ JoinStill

\* A change to a joined row: memory, the mirrored write, the composed document.
\* A write that fails is remembered until the next boundary.
HandleChange(e, ok) ==
    /\ RowOf[e] # 0 /\ Receives(Wal(e), e)
    /\ ok \/ (persistOn /\ crashes < MaxCrashes)
    /\ mem' = [mem EXCEPT ![RowOf[e]] = e]
    /\ tx' = IF persistOn /\ ok THEN [tx EXCEPT ![RowOf[e]] = e] ELSE tx
    /\ persistFailed' = (persistFailed \/ ~ok)
    /\ crashes' = IF ok THEN crashes ELSE crashes + 1
    /\ output' = Append(output, Doc(RowOf[e], e, e))
    /\ UNCHANGED <<pc, persistOn, dumpPending, quarantined>> /\ JoinStill

\* A change to a table of no join passes through.
HandleUnrelated(e) ==
    /\ RowOf[e] = 0 /\ e \notin Poison /\ Receives(Wal(e), e)
    /\ output' = Append(output, Doc(0, e, e))
    /\ UNCHANGED <<pc, stateVars, dumpPending, quarantined, crashes>> /\ JoinStill

\* A permanent failure: recorded and synced in the DLQ, then skipped.
HandlePoison(e) ==
    /\ e \in Poison /\ Receives(Wal(e), e)
    /\ quarantined' = quarantined \cup {e}
    /\ UNCHANGED <<pc, stateVars, output, dumpPending, crashes>> /\ JoinStill

\* Any other failure (a quarantine that cannot be recorded, a fetch or a send
\* that fails) ends the iteration with the event neither handled nor counted.
HandleFails ==
    /\ pc = "run" /\ input # <<>> /\ crashes < MaxCrashes
    /\ pc' = "stopped" /\ crashes' = crashes + 1
    /\ UNCHANGED <<dbVars, sourceVars, input, stateVars, boundaryVars, dispatcherVars,
                   diskVars>>

\* A source ack barrier passes through and forces a boundary at once.
HandleAckBarrier(e) ==
    /\ Receives(AckBarrier(e), e)
    /\ output' = Append(output, AckBarrier(e))
    /\ pc' = "barrier"
    /\ UNCHANGED <<stateVars, dumpPending, quarantined, crashes>> /\ JoinStill

(***************************************************************************)
(* commit_durable_boundary: barrier, wait, commit, publish.                *)
(***************************************************************************)
BoundaryStill == UNCHANGED <<dbVars, sourceVars, input, delivered, quarantined>>

IdleTick ==
    /\ pc = "run" /\ pendingWork
    /\ pc' = "barrier"
    /\ UNCHANGED <<stateVars, boundaryVars, dispatcherVars, disk, identity, crashes>>
    /\ BoundaryStill

\* Mutant: the boundary waits for the number after the one it sent.
SendJoinBarrierOffByOne ==
    /\ pc = "barrier" /\ HasRoom(output) /\ sequence < 2 * NEvents
    /\ sequence' = sequence + 2
    /\ output' = Append(output, JoinBarrier(sequence + 1))
    /\ pc' = "wait"
    /\ UNCHANGED <<stateVars, dumpPending, pendingWork, pendingMark, sourceProgress,
                   sinkProgress, disk, identity, crashes>>
    /\ BoundaryStill

SendJoinBarrier ==
    /\ pc = "barrier" /\ HasRoom(output)
    /\ sequence' = sequence + 1
    /\ output' = Append(output, JoinBarrier(sequence + 1))
    /\ pc' = "wait"
    /\ UNCHANGED <<stateVars, dumpPending, pendingWork, pendingMark, sourceProgress,
                   sinkProgress, disk, identity, crashes>>
    /\ BoundaryStill

\* Mutant: the dump forgets to resume per-row persistence.
DumpKeepsSuspended ==
    /\ disk' = mem /\ identity' = TRUE /\ UNCHANGED persistOn

\* flush_state: commits the pending transaction, or replaces the tables by the
\* whole in-memory state and stamps the identity, in one redb transaction.
Dump ==
    /\ disk' = mem /\ identity' = TRUE /\ persistOn' = TRUE

Flush ==
    /\ disk' = [r \in Rows |-> IF tx[r] # Absent THEN tx[r] ELSE disk[r]]
    /\ UNCHANGED <<identity, persistOn>>

CommitAndGoOn ==
    /\ IF dumpPending THEN Dump ELSE Flush
    /\ tx' = NoRow /\ dumpPending' = FALSE
    /\ pc' = "publish"
    /\ UNCHANGED <<mem, persistFailed, pendingWork, pendingMark, sequence,
                   sourceProgress, dispatcherVars, crashes>>
    /\ BoundaryStill

\* Mutants: an earlier failed write is forgotten; the sink is not waited for.
CommitStateForgetsFailure == pc = "wait" /\ sinkProgress >= sequence /\ CommitAndGoOn
CommitStateEarly == pc = "wait" /\ ~persistFailed /\ CommitAndGoOn

CommitState ==
    /\ pc = "wait" /\ sinkProgress >= sequence /\ ~persistFailed
    /\ CommitAndGoOn

\* An earlier failed write, or a commit that fails.
CommitStateFails ==
    /\ pc = "wait" /\ sinkProgress >= sequence
    /\ persistFailed \/ crashes < MaxCrashes
    /\ crashes' = IF persistFailed THEN crashes ELSE crashes + 1
    /\ pc' = "stopped"
    /\ UNCHANGED <<stateVars, boundaryVars, dispatcherVars, disk, identity>>
    /\ BoundaryStill

PublishProgress ==
    /\ pc = "publish"
    /\ sourceProgress' = Larger(sourceProgress, pendingMark)
    /\ pendingWork' = FALSE /\ pendingMark' = 0
    /\ pc' = "run"
    /\ UNCHANGED <<stateVars, dumpPending, sequence, dispatcherVars, disk, identity,
                   crashes>>
    /\ BoundaryStill

(***************************************************************************)
(* The dispatcher, crashes and restarts.                                   *)
(***************************************************************************)
\* A document with version v of row r carries every change to r up to v.
CarriedBy(doc) == {e \in Events : e = doc.id \/ (RowOf[e] = doc.row /\ doc.row # 0
                                                 /\ e <= doc.version)}

Dispatch ==
    /\ pc # "stopped" /\ output # <<>>
    /\ output' = Tail(output)
    /\ LET item == Head(output)
       IN  /\ sinkProgress' = IF item.kind = "join_barrier" THEN item.sequence
                              ELSE sinkProgress
           /\ delivered' = IF item.kind = "doc" THEN delivered \cup CarriedBy(item)
                           ELSE delivered
    /\ UNCHANGED <<dbVars, sourceVars, input, pc, stateVars, boundaryVars, disk,
                   identity, quarantined, crashes>>

Crash ==
    /\ pc # "stopped" /\ crashes < MaxCrashes
    /\ pc' = "stopped" /\ crashes' = crashes + 1
    /\ UNCHANGED <<dbVars, sourceVars, input, stateVars, boundaryVars, dispatcherVars,
                   diskVars>>

\* The server drops the slot while nobody is connected.
LoseSlot ==
    /\ pc = "stopped" /\ slot /\ crashes < MaxCrashes
    /\ slot' = FALSE /\ crashes' = crashes + 1
    /\ UNCHANGED <<committed, table, slotStart, acked, sourceVars, input, pc, stateVars,
                   boundaryVars, dispatcherVars, diskVars>>

\* Mutant: a dumped state is resumed although its checkpoint is gone.
RecoverableWithoutSlot == identity

\* join_checkpoint_recoverable: only a dumped state with this source's identity
\* and a live checkpoint are a pair to resume from.
Recoverable == identity /\ slot

\* build_and_run_pg_engine: load the state, or wipe it and take a new snapshot,
\* keeping the slot if there is one.
Restart ==
    /\ pc = "stopped"
    /\ disk' = (IF Recoverable THEN disk ELSE NoRow)
    /\ identity' = Recoverable
    /\ mem' = (IF Recoverable THEN disk ELSE NoRow)
    /\ phase' = IF Recoverable THEN "tail" ELSE "scan"
    /\ slot' = TRUE
    /\ slotStart' = (IF slot THEN slotStart ELSE committed)
    /\ acked' = (IF slot THEN acked ELSE committed)
    /\ next' = (IF slot THEN acked ELSE committed) + 1
    /\ scan' = <<>> /\ barrierDue' = FALSE
    /\ input' = <<>> /\ output' = <<>> /\ pc' = "run"
    /\ tx' = NoRow /\ persistOn' = TRUE /\ persistFailed' = FALSE
    /\ dumpPending' = FALSE /\ pendingWork' = FALSE /\ pendingMark' = 0
    /\ sequence' = 0 /\ sourceProgress' = 0 /\ sinkProgress' = 0
    /\ UNCHANGED <<committed, table, delivered, quarantined, crashes>>

-----------------------------------------------------------------------------
Source == \/ ScanTables \/ PublishSnapshotRow \/ PublishComplete \/ PublishChange
          \/ PublishAckBarrier

JoinTask ==
    \/ \E r \in Rows, v \in 0..NEvents : HandleSnapshotRow(r, v)
    \/ HandleComplete \/ HandleFails
    \/ \E e \in Events : \/ \E ok \in BOOLEAN : HandleChange(e, ok)
                         \/ HandleUnrelated(e) \/ HandlePoison(e)
                         \/ HandleAckBarrier(e)
    \/ IdleTick \/ SendJoinBarrier \/ CommitState \/ CommitStateFails
    \/ PublishProgress

Next ==
    \/ CommitChange \/ Source \/ Ack
    \/ JoinTask \/ Dispatch \/ Crash \/ LoseSlot \/ Restart

Spec == Init /\ [][Next]_vars

-----------------------------------------------------------------------------
\* Types of the state; no bus holds more than its capacity, and the sink never
\* reports a join barrier that commit_durable_boundary has not sent.
TypeOK ==
    /\ committed \in 0..NEvents /\ acked \in 0..NEvents /\ slotStart \in 0..NEvents
    /\ slot \in BOOLEAN /\ table \in [Rows -> 0..NEvents]
    /\ phase \in {"scan", "snapshot", "complete", "tail"}
    /\ next \in 1..(NEvents + 1) /\ barrierDue \in BOOLEAN
    /\ pc \in {"run", "barrier", "wait", "publish", "stopped"}
    /\ mem \in [Rows -> Versions] /\ tx \in [Rows -> Versions]
    /\ disk \in [Rows -> Versions]
    /\ persistOn \in BOOLEAN /\ persistFailed \in BOOLEAN /\ dumpPending \in BOOLEAN
    /\ pendingWork \in BOOLEAN /\ pendingMark \in 0..NEvents
    /\ sequence \in Nat /\ sinkProgress \in 0..sequence
    /\ sourceProgress \in 0..NEvents
    /\ Len(input) <= BusCapacity /\ Len(output) <= BusCapacity
    /\ identity \in BOOLEAN /\ delivered \subseteq Events
    /\ quarantined \subseteq Poison
    /\ crashes \in 0..MaxCrashes

\* Comment of build_and_run_pg_engine: the source checkpoint advances only after
\* the corresponding state transaction.  So a restart that resumes from the
\* persisted state misses no confirmed change, in the state or in the sink.
AckedIsDurable ==
    identity => \A e \in 1..acked :
        \/ RowOf[e] # 0 /\ e \in delivered /\ disk[RowOf[e]] >= e
        \/ RowOf[e] = 0 /\ (e <= slotStart \/ e \in delivered \cup quarantined)

\* The persisted state never runs ahead of the sink: what is on disk has been
\* delivered, so a change that is not replayed cannot be missing in the sink.
StateBehindSink ==
    \A r \in Rows, e \in Events : RowOf[e] = r /\ e <= disk[r] => e \in delivered

\* Comment of JoinDurability: the join runtime commits its matching state
\* transaction and advances source_progress.  Once a boundary is through, a
\* recoverable database holds exactly the state in memory.
BoundaryPersistsState ==
    (identity /\ pc = "run" /\ ~pendingWork) => disk = mem

\* When the log has been consumed the state holds the last change of every row.
StateConverges ==
    (pc = "run" /\ phase = "tail" /\ next > committed /\ input = <<>>)
        => mem = table

\* Every committed change to a joined row reaches the sink and is confirmed,
\* whatever crashes on the way.
ChangesGetThrough ==
    \A e \in Events : (committed >= e /\ RowOf[e] # 0) ~> (acked >= e /\ e \in delivered)
==============================================================================
