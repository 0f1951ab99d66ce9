----------------------------- MODULE MongoSource -----------------------------
(***************************************************************************)
(* The MongoDB source (crates/ventstream-sources/src/mongodb): a change    *)
(* stream opened before the snapshot, and resume tokens kept in a file     *)
(* once the sink has confirmed what was published before them.             *)
(*                                                                         *)
(* A record of the log is a change event; a resume token is the number of  *)
(* records before it. "ins" carries the document itself, "put" the         *)
(* document as it is when the server looks it up. A record without rows is *)
(* of another collection or not about a document (drop, rename, ...).      *)
(***************************************************************************)
EXTENDS SourcePipeline

BarrierSeq == 1   \* BOOTSTRAP_BARRIER_SEQ

Fresh == [pc |-> "boot", token |-> 0, next |-> 0, unread |-> <<>>, scan |-> <<>>, floor |-> 0,
          ack |-> BarrierSeq + 1, published |-> 0, gated |-> <<>>, got |-> None]

Init ==
  /\ env \in Scenarios
  /\ db = [n |-> env.already, purged |-> 0]
  /\ disk = [cursor |-> None, mark |-> FALSE]
  /\ src = Fresh
  /\ bus = <<>> /\ sink = [docs |-> Documents, progress |-> 0]
  /\ lost = {} /\ faults = 0

SourceStill == UNCHANGED <<env, db, lost, faults>>

(* The oplog rotates past every change that has been committed. *)
OplogRotates ==
  /\ env.purge /\ db.purged = 0 /\ db.n > 0
  /\ db' = [db EXCEPT !.purged = db.n]
  /\ UNCHANGED <<env, disk, src, bus, sink, lost, faults>>

cluster_time_version(i) == IF i = 0 THEN 1 ELSE 2 * env.log[i].time

-----------------------------------------------------------------------------
(* run_inner *)

Persisted == IF disk.mark THEN None ELSE disk.cursor

OpenCold ==
  /\ src.pc = "boot" /\ Persisted = None
  /\ disk' = [cursor |-> None, mark |-> TRUE]
  /\ src' = [src EXCEPT !.pc = "list", !.token = db.n, !.next = db.n + 1]
  /\ lost' = lost \cup Orphaned
  /\ UNCHANGED <<env, db, bus, sink, faults>>

OpenResumed ==
  /\ src.pc = "boot" /\ Persisted # None /\ Persisted >= db.purged
  /\ src' = [src EXCEPT !.pc = "stream", !.next = Persisted + 1]
  /\ UNCHANGED <<disk, bus, sink>> /\ SourceStill

(* The token is not in the oplog any more: the next start takes a snapshot. *)
TokenRejected ==
  /\ src.pc = "boot" /\ Persisted # None /\ Persisted < db.purged
  /\ disk' = [disk EXCEPT !.cursor = None]
  /\ src' = [src EXCEPT !.pc = "stopped"]
  /\ UNCHANGED <<bus, sink>> /\ SourceStill

(* scan_start_version: the time of the newest operation when the scan starts. *)
scan_start_version ==
  /\ src.pc = "list"
  /\ src' = [src EXCEPT !.pc = "scan", !.floor = cluster_time_version(db.n), !.unread = SetToSeq(env.keys)]
  /\ UNCHANGED <<disk, bus, sink>> /\ SourceStill

ReadDocument ==
  /\ src.pc = "scan" /\ src.unread # <<>> /\ src.scan = <<>>
  /\ LET k == Head(src.unread)
     IN  src' = [src EXCEPT !.unread = Tail(@),
                            !.scan = IF Dead(k, Row(k)) THEN <<>> ELSE <<k, Row(k)>>]
  /\ UNCHANGED <<disk, bus, sink>> /\ SourceStill

snapshot_insert(k, at) == Event(k, at, src.floor, 0)
PublishScanned ==
  /\ src.pc = "scan" /\ src.scan # <<>>
  /\ Publish(snapshot_insert(src.scan[1], src.scan[2]))
  /\ src' = [src EXCEPT !.scan = <<>>]
  /\ UNCHANGED <<disk, sink>> /\ SourceStill

ScanBarrier ==
  /\ src.pc = "scan" /\ src.scan = <<>> /\ src.unread = <<>>
  /\ Publish(Barrier(BarrierSeq))
  /\ src' = [src EXCEPT !.pc = "wait"]
  /\ UNCHANGED <<disk, sink>> /\ SourceStill

wait_for_sink_progress ==
  /\ src.pc = "wait" /\ sink.progress >= BarrierSeq
  /\ disk' = [disk EXCEPT !.cursor = src.token]
  /\ src' = [src EXCEPT !.pc = "clear"]
  /\ UNCHANGED <<bus, sink>> /\ SourceStill

clear_incomplete ==
  /\ src.pc = "clear"
  /\ disk' = [disk EXCEPT !.mark = FALSE]
  /\ src' = [src EXCEPT !.pc = "stream"]
  /\ UNCHANGED <<bus, sink>> /\ SourceStill

-----------------------------------------------------------------------------
(* tail and handle_event *)

from_operation_type(r) == IF r.rows = <<>> THEN "other" ELSE r.rows[1].op

(* The server hands out the next event, with the document an update now has. *)
Receive ==
  /\ src.pc = "stream" /\ src.next <= db.n /\ src.next > db.purged
  /\ LET rows == env.log[src.next].rows
         op == from_operation_type(env.log[src.next])
         at == IF op = "put" THEN Row(rows[1].key) ELSE src.next
         skip == op = "other" \/ (op = "put" /\ Dead(rows[1].key, at))
     IN  src' = IF skip THEN [src EXCEPT !.next = @ + 1, !.gated = Append(@, <<src.published, src.next>>)]
                ELSE [src EXCEPT !.pc = "publish", !.next = @ + 1, !.got = <<rows[1].key, at>>]
  /\ UNCHANGED <<disk, bus, sink>> /\ SourceStill

change_event(k, at) == Event(k, at, cluster_time_version(src.next - 1), src.ack)

(* Mutant: the token of an event is queued behind the event before it. *)
PublishUngated ==
  /\ src.pc = "publish"
  /\ Publish(change_event(src.got[1], src.got[2]))
  /\ src' = [src EXCEPT !.pc = "stream", !.ack = @ + 1, !.published = src.ack,
                        !.gated = Append(@, <<src.published, src.next - 1>>)]
  /\ UNCHANGED <<disk, sink>> /\ SourceStill

PublishChange ==
  /\ src.pc = "publish"
  /\ Publish(change_event(src.got[1], src.got[2]))
  /\ src' = [src EXCEPT !.pc = "stream", !.ack = @ + 1, !.published = src.ack,
                        !.gated = Append(@, <<src.ack, src.next - 1>>)]
  /\ UNCHANGED <<disk, sink>> /\ SourceStill

Confirmed == {i \in 1..Len(src.gated) : \A j \in 1..i : src.gated[j][1] <= sink.progress}
flush_confirmed ==
  IF Confirmed = {} THEN disk ELSE [disk EXCEPT !.cursor = src.gated[Last0(Confirmed)][2]]

FlushTick ==
  /\ src.pc = "stream" /\ Confirmed # {}
  /\ disk' = flush_confirmed
  /\ src' = [src EXCEPT !.gated = SubSeq(@, Last0(Confirmed) + 1, Len(@))]
  /\ UNCHANGED <<bus, sink>> /\ SourceStill

(* Mutant: every error of the stream is taken for a lost history. *)
WipeOnError ==
  /\ src.pc = "stream"
  /\ disk' = [disk EXCEPT !.cursor = None]
  /\ src' = [src EXCEPT !.pc = "stopped"]
  /\ UNCHANGED <<bus, sink>> /\ SourceStill

(* The history is lost under an open stream: the cursor is wiped. *)
HistoryLost ==
  /\ src.pc = "stream" /\ src.next <= db.purged
  /\ disk' = [disk EXCEPT !.cursor = None]
  /\ src' = [src EXCEPT !.pc = "stopped"]
  /\ UNCHANGED <<bus, sink>> /\ SourceStill

-----------------------------------------------------------------------------
(* The stream ends, or a shutdown: what is confirmed is written. *)
StreamEnds ==
  /\ src.pc \in {"list", "scan", "wait", "stream", "publish"}
  /\ disk' = IF src.pc \in {"stream", "publish"} THEN flush_confirmed ELSE disk
  /\ src' = [src EXCEPT !.pc = "stopped"]
  /\ Fault /\ UNCHANGED <<env, db, bus, sink, lost>>

(* Any other error ends the source as a crash does. *)
Crash ==
  /\ src.pc # "stopped"
  /\ src' = [src EXCEPT !.pc = "stopped"]
  /\ Fault /\ UNCHANGED <<env, db, disk, bus, sink, lost>>

Restart ==
  /\ src.pc = "stopped"
  /\ src' = Fresh /\ FreshProcess
  /\ UNCHANGED <<env, db, disk, lost, faults>>

-----------------------------------------------------------------------------
Snapshot == OpenCold \/ OpenResumed \/ TokenRejected \/ scan_start_version \/ ReadDocument
            \/ PublishScanned \/ ScanBarrier \/ wait_for_sink_progress \/ clear_incomplete
Stream == Receive \/ PublishChange \/ FlushTick \/ HistoryLost

Next == Commit \/ OplogRotates \/ Deliver \/ Snapshot \/ Stream \/ StreamEnds \/ Crash \/ Restart
Spec == Init /\ [][Next]_vars

-----------------------------------------------------------------------------
Tokens == 0..Len(env.log)
TypeOK ==
  /\ src.pc \in {"boot", "list", "scan", "wait", "clear", "stream", "publish", "stopped"}
  /\ disk.cursor \in Tokens \cup {None} /\ disk.mark \in BOOLEAN
  /\ src.token \in Tokens /\ src.next \in 0..(Len(env.log) + 1)
  /\ \A i \in 1..Len(src.gated) : src.gated[i][2] \in Tokens /\ src.gated[i][1] < src.ack
  /\ Len(bus) <= BusCapacity /\ faults <= env.faults

ConfirmedIsDelivered ==
  (disk.cursor # None /\ ~ disk.mark) => DeliveredBefore(disk.cursor + 1)

CaughtUp == src.pc = "stream" /\ db.n = Len(env.log) /\ src.next > db.n /\ bus = <<>>
Converges == CaughtUp => \A k \in env.keys : Synced(k)
Done == CaughtUp /\ src.gated = <<>>

CursorStep ==
  (disk.cursor # None /\ ~ disk.mark) =>
     IF disk'.cursor = None THEN disk.cursor < db.purged ELSE disk'.cursor >= disk.cursor
=============================================================================
