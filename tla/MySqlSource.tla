----------------------------- MODULE MySqlSource -----------------------------
(***************************************************************************)
(* The MySQL source (crates/ventstream-sources/src/mysql): snapshot, then  *)
(* the binlog from a position kept in a file.                              *)
(*                                                                         *)
(* A record of the log is an event of the binlog stream: kind, file, the   *)
(* offset where it ends, table and row changes. A "fake" record is the     *)
(* rotate event the server makes up at the start of a file; it has no      *)
(* place in a file. Coordinates are pairs <<file, offset>>; the offset the *)
(* stream reports wraps at env.wrap, as the protocol has 32 bits for it.   *)
(***************************************************************************)
EXTENDS SourcePipeline

CONSTANTS MaxDenied   \* credential failures in a row before the source gives up

-----------------------------------------------------------------------------
(* The server. *)

Header(r) == IF r.kind = "fake" THEN 0 ELSE r.end % env.wrap
EndOf(i) == IF i = 0 THEN <<1, 0>> ELSE <<env.log[i].file, env.log[i].end>>
master_pos == EndOf(db.n)

(* Where the stream starts for a coordinate; 0 if no event of the file ends there. *)
Located(p) ==
  LET ends == {i \in 0..db.n : EndOf(i) = p}
  IN  IF ends = {} \/ p[1] <= db.purged THEN 0 ELSE Last0(ends) + 1

Purge ==
  /\ env.purge /\ db.purged = 0 /\ db.n > 0 /\ env.log[db.n].file > 1
  /\ db' = [db EXCEPT !.purged = 1]
  /\ UNCHANGED <<env, disk, src, bus, sink, lost, faults>>

-----------------------------------------------------------------------------
(* The offset is cut to 32 bits; a file number past the ceiling has no version. *)
binlog_version(p) == IF p[1] > env.ceiling THEN 0 ELSE 2 * (p[1] * env.wrap + (p[2] % env.wrap))

table_allowed(t) == t = "t"

Fresh == [pc |-> "boot", pos |-> <<1, 0>>, versioning |-> TRUE, floor |-> 0, unread |-> <<>>,
          scan |-> <<>>, ack |-> 1, next |-> 0, maps |-> {}, wrapped |-> FALSE, gated |-> <<>>,
          write |-> None, todo |-> <<>>, emitted |-> FALSE, denied |-> 0]

Init ==
  /\ env \in Scenarios
  /\ db = [n |-> env.already, purged |-> 0, uuid |-> "this"]
  /\ disk = [cursor |-> None, mark |-> "none", uuid |-> env.uuid]
  /\ src = Fresh
  /\ bus = <<>> /\ sink = [docs |-> Documents, progress |-> 0]
  /\ lost = {} /\ faults = 0

SourceStill == UNCHANGED <<env, db, lost, faults>>

-----------------------------------------------------------------------------
(* run_inner up to the tail. *)

versioning_epoch_ok == disk.uuid \in {None, db.uuid}
Kept == IF disk.mark = "bootstrap" THEN None ELSE disk.cursor
Rebuilding == env.rebuild \/ disk.mark = "rebuild"

StartSnapshot ==
  /\ src.pc = "boot" /\ (Kept = None \/ Rebuilding)
  /\ disk' = [cursor |-> Kept, mark |-> IF Kept = None THEN "bootstrap" ELSE "rebuild",
              uuid |-> IF disk.uuid = None THEN db.uuid ELSE disk.uuid]
  /\ src' = [src EXCEPT !.pc = "scan", !.pos = IF Kept = None THEN master_pos ELSE Kept,
                        !.versioning = versioning_epoch_ok, !.unread = SetToSeq(env.keys),
                        !.floor = IF versioning_epoch_ok THEN binlog_version(master_pos) ELSE 0]
  /\ lost' = lost \cup (IF Kept = None THEN Orphaned ELSE {})
  /\ UNCHANGED <<env, db, bus, sink, faults>>

StartTail ==
  /\ src.pc = "boot" /\ Kept # None /\ ~ Rebuilding
  /\ disk' = [disk EXCEPT !.uuid = IF @ = None THEN db.uuid ELSE @]
  /\ src' = [src EXCEPT !.pc = "connect", !.pos = Kept, !.versioning = versioning_epoch_ok]
  /\ UNCHANGED <<bus, sink>> /\ SourceStill

(* fetch_bootstrap_chunk: the next chunk is read while the current one is published. *)
ReadChunk ==
  /\ src.pc = "scan" /\ src.unread # <<>> /\ Len(src.scan) <= 1
  /\ LET k == Head(src.unread)
     IN  src' = [src EXCEPT !.unread = Tail(@),
                            !.scan = IF Dead(k, Row(k)) THEN @ ELSE Append(@, <<k, Row(k)>>)]
  /\ UNCHANGED <<disk, bus, sink>> /\ SourceStill

snapshot_insert(k, at) == Event(k, at, src.floor, 0)
PublishScanned ==
  /\ src.pc = "scan" /\ src.scan # <<>>
  /\ Publish(snapshot_insert(Head(src.scan)[1], Head(src.scan)[2]))
  /\ src' = [src EXCEPT !.scan = Tail(@)]
  /\ UNCHANGED <<disk, sink>> /\ SourceStill

ScanBarrier ==
  /\ src.pc = "scan" /\ src.scan = <<>> /\ src.unread = <<>>
  /\ Publish(Barrier(src.ack))
  /\ src' = [src EXCEPT !.pc = "wait", !.ack = @ + 1]
  /\ UNCHANGED <<disk, sink>> /\ SourceStill

wait_for_sink_progress ==
  /\ src.pc = "wait" /\ sink.progress >= src.ack - 1
  /\ disk' = [disk EXCEPT !.cursor = src.pos]
  /\ src' = [src EXCEPT !.pc = "clear"]
  /\ UNCHANGED <<bus, sink>> /\ SourceStill

clear_incomplete ==
  /\ src.pc = "clear"
  /\ disk' = [disk EXCEPT !.mark = "none"]
  /\ src' = [src EXCEPT !.pc = "connect"]
  /\ UNCHANGED <<bus, sink>> /\ SourceStill

-----------------------------------------------------------------------------
(* tail *)

(* collect_confirmed_positions: the last position of the confirmed prefix. *)
Confirmed(gated) == {i \in 1..Len(gated) : gated[i][1] <= sink.progress}
Collect(s) ==
  LET c == Confirmed(s.gated)
  IN  IF c = {} THEN s
      ELSE [s EXCEPT !.gated = SubSeq(@, Last0(c) + 1, Len(@)), !.write = s.gated[Last0(c)][2]]

(* flush_confirmed_positions *)
Flushed == IF Collect(src).write = None THEN disk ELSE [disk EXCEPT !.cursor = Collect(src).write]

Connect ==
  /\ src.pc = "connect" /\ Located(src.pos) # 0
  /\ src' = [src EXCEPT !.pc = "stream", !.next = Located(src.pos), !.maps = {}, !.wrapped = FALSE,
                        !.gated = <<>>, !.write = None, !.todo = <<>>, !.emitted = FALSE]
  /\ UNCHANGED <<disk, bus, sink>> /\ SourceStill

(* 1236: the position is gone; only a reset of the target could repair that. *)
PositionGone ==
  /\ src.pc = "connect" /\ Located(src.pos) = 0
  /\ src' = [src EXCEPT !.pc = "halted"]
  /\ UNCHANGED <<disk, bus, sink>> /\ SourceStill

(* A record without sink work rides on the last barrier that is outstanding. *)
Pass(s, p) ==
  LET c == [Collect(s) EXCEPT !.pos = p, !.pc = "stream"]
  IN  IF c.gated = <<>> THEN [c EXCEPT !.write = p]
      ELSE [c EXCEPT !.gated[Len(c.gated)][2] = p]

(* The position after a record, and whether the file has grown past the counter. *)
After(r) == <<IF r.kind = "rotate" THEN r.to ELSE src.pos[1], Header(r)>>
Wraps(r) == Header(r) # 0 /\ Header(r) < src.pos[2] /\ r.kind # "rotate"

Mapped(r) == r.table \in src.maps
Emits(r) ==
  \/ r.kind = "rows" /\ Mapped(r) /\ table_allowed(r.table)
  \/ r.kind = "trunc" /\ table_allowed(r.table) /\ env.truncates

(* handle_query_event forgets the table map of an altered table. *)
MapsAfter(r) ==
  CASE r.kind = "map" -> src.maps \cup {r.table}
    [] r.kind = "ddl" -> src.maps \ {r.table}
    [] OTHER          -> src.maps

Received(r) == [src EXCEPT !.next = @ + 1, !.maps = MapsAfter(r),
                           !.wrapped = r.kind # "rotate" /\ (@ \/ Wraps(r))]

ReceiveRotation ==
  /\ src.pc = "stream" /\ src.next <= db.n
  /\ LET r == env.log[src.next]
     IN  /\ r.kind = "fake"
         /\ src' = [src EXCEPT !.next = @ + 1, !.pos = <<r.file, 0>>, !.wrapped = FALSE]
  /\ UNCHANGED <<disk, bus, sink>> /\ SourceStill

ReceiveIdle ==
  /\ src.pc = "stream" /\ src.next <= db.n
  /\ LET r == env.log[src.next]
     IN  /\ r.kind # "fake" /\ ~ Emits(r)
         /\ src' = IF Header(r) = 0 THEN Received(r) ELSE Pass(Received(r), After(r))
         /\ lost' = lost \cup (IF r.kind = "rows" /\ ~ Mapped(r) THEN {src.next} ELSE {})
  /\ UNCHANGED <<env, db, disk, bus, sink, faults>>

ReceiveRows ==
  /\ src.pc = "stream" /\ src.next <= db.n
  /\ LET r == env.log[src.next]
     IN  /\ r.kind # "fake" /\ Emits(r)
         /\ src' = [Received(r) EXCEPT !.pc = "rows", !.todo = r.rows, !.emitted = FALSE]
  /\ UNCHANGED <<disk, bus, sink>> /\ SourceStill

-----------------------------------------------------------------------------
(* process: every changed row is read again, a deleted one is a tombstone. *)

Current == env.log[src.next - 1]
(* Mutant: a wrapped counter is used as if it were the position. *)
WrappedVersion ==
  IF ~ src.versioning THEN 0
  ELSE binlog_version(<<src.pos[1], IF Header(Current) # 0 THEN Header(Current) ELSE src.pos[2]>>)

source_version ==
  IF ~ src.versioning \/ src.wrapped THEN 0
  ELSE binlog_version(<<src.pos[1], IF Header(Current) # 0 THEN Header(Current) ELSE src.pos[2]>>)

change_event(k, at) == Event(k, at, source_version, 0)
ProcessRow ==
  /\ src.pc = "rows" /\ src.todo # <<>>
  /\ LET c == Head(src.todo)
         at == IF c.op = "del" THEN src.next - 1 ELSE Row(c.key)
         gone == c.op # "del" /\ Dead(c.key, at)
     IN  /\ IF gone THEN UNCHANGED bus ELSE Publish(change_event(c.key, at))
         /\ src' = [src EXCEPT !.todo = Tail(@), !.emitted = @ \/ ~ gone]
  /\ UNCHANGED <<disk, sink>> /\ SourceStill

(* publish_ack_barrier: the position waits for a barrier behind the record's events. *)
SettleEmitted ==
  /\ src.pc = "rows" /\ src.todo = <<>> /\ src.emitted /\ Header(Current) # 0
  /\ Publish(Barrier(src.ack))
  /\ src' = LET c == Collect(src)
            IN  [c EXCEPT !.pc = "stream", !.pos = After(Current), !.ack = @ + 1,
                          !.gated = Append(@, <<src.ack, After(Current)>>)]
  /\ UNCHANGED <<disk, sink>> /\ SourceStill

SettleIdle ==
  /\ src.pc = "rows" /\ src.todo = <<>> /\ ~ (src.emitted /\ Header(Current) # 0)
  /\ src' = IF Header(Current) = 0 THEN [src EXCEPT !.pc = "stream"] ELSE Pass(src, After(Current))
  /\ UNCHANGED <<disk, bus, sink>> /\ SourceStill

FlushTick ==
  /\ src.pc = "stream" /\ Collect(src).write # None
  /\ disk' = Flushed
  /\ src' = [Collect(src) EXCEPT !.write = None]
  /\ UNCHANGED <<bus, sink>> /\ SourceStill

-----------------------------------------------------------------------------
(* Faults. tail_with_reconnect goes on from the file, or from where it last started. *)

Retry(d, denied) ==
  /\ disk' = d
  /\ src' = IF denied >= MaxDenied THEN [src EXCEPT !.pc = "halted"]
            ELSE [src EXCEPT !.pc = "connect", !.denied = denied,
                             !.pos = IF d.cursor = None THEN @ ELSE d.cursor]
  /\ Fault /\ UNCHANGED <<env, db, bus, sink, lost>>

ConnectFails == src.pc = "connect" /\ \E denied \in BOOLEAN : Retry(disk, src.denied + IF denied THEN 1 ELSE 0)

(* The stream ends or breaks: what is confirmed is written first. *)
StreamBreaks == src.pc = "stream" /\ Retry(Flushed, 0)

(* No bytes for READ_IDLE_TIMEOUT, or the re-read of a row fails. *)
ConnectionLost == src.pc \in {"stream", "rows"} /\ Retry(disk, 0)

Shutdown ==
  /\ src.pc \in {"scan", "wait", "connect", "stream", "rows"}
  /\ disk' = IF src.pc \in {"stream", "rows"} THEN Flushed ELSE disk
  /\ src' = [src EXCEPT !.pc = "stopped"]
  /\ Fault /\ UNCHANGED <<env, db, bus, sink, lost>>

Crash ==
  /\ src.pc \notin {"stopped", "halted"}
  /\ src' = [src EXCEPT !.pc = "stopped"]
  /\ Fault /\ UNCHANGED <<env, db, disk, bus, sink, lost>>

Restart ==
  /\ src.pc = "stopped"
  /\ src' = Fresh /\ FreshProcess
  /\ UNCHANGED <<env, db, disk, lost, faults>>

-----------------------------------------------------------------------------
Snapshot == StartSnapshot \/ StartTail \/ ReadChunk \/ PublishScanned \/ ScanBarrier
            \/ wait_for_sink_progress \/ clear_incomplete
Binlog == Connect \/ PositionGone \/ ReceiveRotation \/ ReceiveIdle \/ ReceiveRows
          \/ ProcessRow \/ SettleEmitted \/ SettleIdle
Disturb == ConnectFails \/ StreamBreaks \/ ConnectionLost \/ Shutdown \/ Crash

Next == Commit \/ Purge \/ Deliver \/ Snapshot \/ Binlog \/ FlushTick \/ Disturb \/ Restart
Spec == Init /\ [][Next]_vars

-----------------------------------------------------------------------------
(* The program counter, the coordinates and the counters stay in their domains. *)
Coordinates == {<<f, o>> : f \in 1..3, o \in 0..20}
TypeOK ==
  /\ src.pc \in {"boot", "scan", "wait", "clear", "connect", "stream", "rows", "stopped", "halted"}
  /\ disk.cursor \in Coordinates \cup {None} /\ src.write \in Coordinates \cup {None}
  /\ disk.mark \in {"none", "bootstrap", "rebuild"}
  /\ src.pos \in Coordinates /\ \A i \in 1..Len(src.gated) : src.gated[i][2] \in Coordinates
  /\ Len(bus) <= BusCapacity /\ faults <= env.faults /\ src.denied < MaxDenied

(* A restart from the kept position misses nothing. *)
ConfirmedIsDelivered ==
  (disk.cursor # None /\ disk.mark # "bootstrap") => DeliveredBefore(Located(disk.cursor))

CaughtUp ==
  /\ src.pc = "stream" /\ db.n = Len(env.log) /\ src.next > db.n /\ bus = <<>>

Converges == CaughtUp => \A k \in env.keys : Synced(k)

Persisted == CaughtUp /\ src.gated = <<>> /\ src.write = None
Done == src.pc = "halted" \/ Persisted

(* The kept position of a complete bootstrap only moves forward. *)
CursorStep ==
  (disk.cursor # None /\ disk.mark # "bootstrap" /\ ~ src.wrapped) =>
     /\ disk'.cursor # None
     /\ Located(disk'.cursor) >= Located(disk.cursor) \/ Located(disk'.cursor) = 0
=============================================================================
