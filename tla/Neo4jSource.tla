----------------------------- MODULE Neo4jSource -----------------------------
(***************************************************************************)
(* The Neo4j source (crates/ventstream-sources/src/neo4j): a poll of the   *)
(* CDC procedures, whose cursor moves, in memory and on disk, only when    *)
(* the sink has confirmed the transactions before it. What is not yet      *)
(* confirmed is polled and published again.                                *)
(*                                                                         *)
(* A record of the log is a change with its transaction id; a cursor is    *)
(* the number of records before it. A record that is not captured          *)
(* (cdc = FALSE) moves db.cdc.current without showing in a poll.           *)
(***************************************************************************)
EXTENDS SourcePipeline

CONSTANTS
  MaxCursorRecoveries,   \* MAX_CURSOR_RECOVERIES
  MaxPending             \* bound: batches that wait for the sink when a poll starts

Fresh == [pc |-> "boot", cursor |-> 0, unread |-> <<>>, scan |-> <<>>, ahead |-> None,
          batch |-> <<>>, emitted |-> 0, last_emitted_tx |-> 0, last_id |-> 0,
          pending |-> <<>>, recoveries |-> 0]

Init ==
  /\ env \in Scenarios
  /\ db = [n |-> env.already, purged |-> 0]
  /\ disk = [cursor |-> None, mark |-> FALSE]
  /\ src = Fresh
  /\ bus = <<>> /\ sink = [docs |-> Documents, progress |-> 0]
  /\ lost = {} /\ faults = 0

SourceStill == UNCHANGED <<env, db, lost, faults>>

(* The transaction log is pruned past every committed change. *)
LogRotates ==
  /\ env.purge /\ db.purged = 0 /\ db.n > 0
  /\ db' = [db EXCEPT !.purged = db.n]
  /\ UNCHANGED <<env, disk, src, bus, sink, lost, faults>>

-----------------------------------------------------------------------------
(* resolve_cursor and run_snapshot *)

Resumable == disk.cursor # None /\ ~ disk.mark

WarmStart ==
  /\ src.pc = "boot" /\ Resumable
  /\ src' = [src EXCEPT !.pc = "tail", !.cursor = disk.cursor]
  /\ UNCHANGED <<disk, bus, sink>> /\ SourceStill

ColdStart ==
  /\ src.pc = "boot" /\ ~ Resumable /\ env.bootstrap
  /\ disk' = [cursor |-> None, mark |-> TRUE]
  /\ src' = [src EXCEPT !.pc = "scan", !.cursor = db.n, !.unread = SetToSeq(env.keys)]
  /\ lost' = lost \cup Orphaned
  /\ UNCHANGED <<env, db, bus, sink, faults>>

(* Without a bootstrap only the position is seeded: earlier rows stay where they are. *)
SeedCurrent ==
  /\ src.pc = "boot" /\ ~ Resumable /\ ~ env.bootstrap
  /\ disk' = [disk EXCEPT !.cursor = db.n]
  /\ src' = [src EXCEPT !.pc = "tail", !.cursor = db.n]
  /\ lost' = lost \cup (0..db.n)
  /\ UNCHANGED <<env, db, bus, sink, faults>>

ReadRow ==
  /\ src.pc = "scan" /\ src.scan = <<>> /\ src.unread # <<>>
  /\ LET k == Head(src.unread)
     IN  src' = [src EXCEPT !.unread = Tail(@),
                            !.scan = IF Dead(k, Row(k)) THEN <<>> ELSE <<k, Row(k)>>]
  /\ UNCHANGED <<disk, bus, sink>> /\ SourceStill

(* A row of the snapshot has neither a mark nor a version. *)
synth_node_insert(k, at) == Event(k, at, 0, 0)
PublishScanned ==
  /\ src.pc = "scan" /\ src.scan # <<>>
  /\ Publish(synth_node_insert(src.scan[1], src.scan[2]))
  /\ src' = [src EXCEPT !.scan = <<>>]
  /\ UNCHANGED <<disk, sink>> /\ SourceStill

(* The end of the scan is an event of its own; the sentinel file stays. *)
SnapshotComplete ==
  /\ src.pc = "scan" /\ src.scan = <<>> /\ src.unread = <<>>
  /\ Publish(Barrier(0))
  /\ disk' = [disk EXCEPT !.cursor = src.cursor]
  /\ src' = [src EXCEPT !.pc = "tail"]
  /\ UNCHANGED sink /\ SourceStill

-----------------------------------------------------------------------------
(* tail_loop *)

poll_once == SelectSeq([i \in 1..(db.n - src.cursor) |-> src.cursor + i], LAMBDA i : env.log[i].cdc)

Drained(pending) == {i \in 1..Len(pending) : \A j \in 1..i : pending[j][1] <= sink.progress}
Left(pending) == SubSeq(pending, Cardinality(Drained(pending)) + 1, Len(pending))
(* The cursor file after a drain; a confirmation also removes the sentinel. *)
drain_confirmed_cursors(pending) ==
  IF Drained(pending) = {} THEN disk
  ELSE [cursor |-> pending[Last0(Drained(pending))][2], mark |-> FALSE]
Moved(pending) == IF Drained(pending) = {} THEN src.cursor ELSE drain_confirmed_cursors(pending).cursor

(* An idle advance may be due: the position it would go to is read before the poll. *)
PrePoll ==
  /\ src.pc = "tail" /\ (Len(src.pending) < MaxPending \/ Drained(src.pending) # {})
  /\ \E due \in BOOLEAN :
        src' = [src EXCEPT !.pc = "query", !.ahead = IF due /\ src.pending = <<>> THEN db.n ELSE None]
  /\ UNCHANGED <<disk, bus, sink>> /\ SourceStill

PollEmpty ==
  /\ src.pc = "query" /\ src.cursor >= db.purged /\ poll_once = <<>>
  /\ LET idle == src.ahead # None /\ Left(src.pending) = <<>>
         written == drain_confirmed_cursors(src.pending)
     IN  /\ disk' = IF idle THEN [written EXCEPT !.cursor = src.ahead] ELSE written
         /\ src' = [src EXCEPT !.pc = "tail", !.pending = Left(@), !.ahead = None,
                               !.cursor = IF idle THEN src.ahead ELSE Moved(src.pending)]
  /\ UNCHANGED <<bus, sink>> /\ SourceStill

PollChanges ==
  /\ src.pc = "query" /\ src.cursor >= db.purged /\ poll_once # <<>>
  /\ disk' = drain_confirmed_cursors(src.pending)
  /\ src' = [src EXCEPT !.pc = "publish", !.pending = Left(@), !.ahead = None, !.batch = poll_once,
                        !.emitted = 0, !.last_id = Last(poll_once), !.cursor = Moved(src.pending)]
  /\ UNCHANGED <<bus, sink>> /\ SourceStill

(* The auto-heal: the cursor is wiped and a new snapshot taken, a limited number of times. *)
CursorInvalid ==
  /\ src.pc = "query" /\ src.cursor < db.purged
  /\ IF src.recoveries < MaxCursorRecoveries
     THEN /\ disk' = [disk EXCEPT !.cursor = None]
          /\ src' = [Fresh EXCEPT !.recoveries = src.recoveries + 1]
     ELSE disk' = disk /\ src' = [src EXCEPT !.pc = "stopped"]
  /\ UNCHANGED <<bus, sink>> /\ SourceStill

(* event_mapper.rs. The labels of a deleted node are those it had before. *)
labels(r) == IF r.labels = "" THEN r.before ELSE r.labels
build_node_live(r) ==
  CASE labels(r) = "" -> "malformed"
    [] labels(r) = "excluded" -> "filtered"
    [] OTHER -> "emit"
build_rel_live(r) ==
  CASE r.labels = "" -> "malformed"
    [] r.labels = "excluded" -> "filtered"
    [] OTHER -> "emit"
live_event(r) ==
  CASE r.event_type = "n" -> build_node_live(r)
    [] r.event_type = "r" -> build_rel_live(r)
    [] OTHER -> "malformed"

(* Filtered and malformed changes are not published, and the cursor goes past them. *)
SkipChange ==
  /\ src.pc = "publish" /\ src.batch # <<>> /\ live_event(env.log[Head(src.batch)]) # "emit"
  /\ src' = [src EXCEPT !.batch = Tail(@)]
  /\ lost' = lost \cup {Head(src.batch)}
  /\ UNCHANGED <<env, db, disk, bus, sink, faults>>

PublishChange ==
  /\ src.pc = "publish" /\ src.batch # <<>> /\ live_event(env.log[Head(src.batch)]) = "emit"
  /\ LET i == Head(src.batch)
     IN  /\ Publish(Event(env.log[i].rows[1].key, i, env.log[i].tx, env.log[i].tx))
         /\ src' = [src EXCEPT !.batch = Tail(@), !.emitted = env.log[i].tx]
  /\ UNCHANGED <<disk, sink>> /\ SourceStill

(* Mutant: a batch waits for its own last transaction even if nothing of it was published. *)
gate_on_batch(emitted, last) == IF emitted # 0 THEN emitted ELSE env.log[src.last_id].tx

gate_tx_for_batch(emitted, last) == IF emitted # 0 THEN emitted ELSE last

FinishBatch ==
  /\ src.pc = "publish" /\ src.batch = <<>>
  /\ LET last == Larger(src.last_emitted_tx, src.emitted)
         pending == Append(src.pending, <<gate_tx_for_batch(src.emitted, last), src.last_id>>)
     IN  /\ disk' = drain_confirmed_cursors(pending)
         /\ src' = [src EXCEPT !.pc = "tail", !.pending = Left(pending), !.last_emitted_tx = last,
                               !.cursor = Moved(pending)]
  /\ UNCHANGED <<bus, sink>> /\ SourceStill

-----------------------------------------------------------------------------
(* A shutdown, an error that outlives the retries and a crash leave the same: *)
(* nothing is written on the way out.                                          *)
Crash ==
  /\ src.pc # "stopped"
  /\ src' = [src EXCEPT !.pc = "stopped"]
  /\ Fault /\ UNCHANGED <<env, db, disk, bus, sink, lost>>

Restart ==
  /\ src.pc = "stopped"
  /\ src' = Fresh /\ FreshProcess
  /\ UNCHANGED <<env, db, disk, lost, faults>>

-----------------------------------------------------------------------------
Snapshot == WarmStart \/ ColdStart \/ SeedCurrent \/ ReadRow \/ PublishScanned \/ SnapshotComplete
Poll == PrePoll \/ PollEmpty \/ PollChanges \/ CursorInvalid \/ SkipChange \/ PublishChange \/ FinishBatch
Next == Commit \/ LogRotates \/ Deliver \/ Snapshot \/ Poll \/ Crash \/ Restart
Spec == Init /\ [][Next]_vars

-----------------------------------------------------------------------------
Cursors == 0..Len(env.log)
TypeOK ==
  /\ src.pc \in {"boot", "scan", "tail", "query", "publish", "stopped"}
  /\ disk.cursor \in Cursors \cup {None} /\ disk.mark \in BOOLEAN
  /\ src.cursor \in Cursors /\ src.ahead \in Cursors \cup {None}
  /\ Len(src.pending) <= MaxPending
  /\ \A i \in 1..Len(src.pending) : src.pending[i][2] \in Cursors
  /\ Len(bus) <= BusCapacity /\ faults <= env.faults

ConfirmedIsDelivered == Resumable => DeliveredBefore(disk.cursor + 1)

CaughtUp == src.pc \in {"tail", "query"} /\ db.n = Len(env.log) /\ bus = <<>> /\ poll_once = <<>>
Converges == CaughtUp => \A k \in env.keys : Synced(k)
Done == CaughtUp /\ src.pending = <<>>

CursorStep ==
  Resumable => IF disk'.cursor = None THEN disk.cursor < db.purged ELSE disk'.cursor >= disk.cursor
=============================================================================
