----------------------------- MODULE KafkaSource -----------------------------
(***************************************************************************)
(* The Kafka source (crates/ventstream-sources/src/kafka): a consumer of   *)
(* Debezium or raw topics that commits an offset once the sink has written *)
(* every message consumed before it.                                       *)
(*                                                                         *)
(* The log holds the messages of all partitions in the order they were     *)
(* produced; rows is the change a message stands for, whether or not the   *)
(* source can make it out. The only state that outlives the process is the *)
(* group's committed offset of each partition, kept by the broker.         *)
(***************************************************************************)
EXTENDS SourcePipeline

CONSTANT MaxUnmappableStreak   \* MAX_UNMAPPABLE_STREAK

Partitions == {env.log[i].part : i \in 1..Len(env.log)}
Messages(p) == SelectSeq([i \in 1..db.n |-> i], LAMBDA i : env.log[i].part = p)
Offset(i) == Cardinality({j \in 1..(i - 1) : env.log[j].part = env.log[i].part})

Fresh(committed) == [pc |-> "poll", position |-> committed, next_seq |-> 1, inflight |-> <<>>,
                     streak |-> 0, got |-> 0]

Init ==
  /\ env \in Scenarios
  /\ db = [n |-> 0]
  /\ disk = [cursor |-> [p \in Partitions |-> 0]]
  /\ src = Fresh(disk.cursor)
  /\ bus = <<>> /\ sink = [docs |-> Documents, progress |-> 0]
  /\ lost = {} /\ faults = 0

SourceStill == UNCHANGED <<env, db, disk, faults>>

-----------------------------------------------------------------------------
(* envelope.rs: what a message becomes. *)

map_debezium(m) ==
  CASE m.op = "null" -> "skip"
    [] m.op = "garbled" -> "unmappable"
    [] m.op \notin {"c", "r", "u", "d"} -> "skip"
    [] m.key = None -> "unmappable"
    [] m.op # "d" /\ m.after # "row" -> "unmappable"
    [] OTHER -> "event"

map_raw(m) ==
  CASE m.op = "null" -> IF m.key = None THEN "skip" ELSE "event"
    [] m.op = "garbled" -> "unmappable"
    [] m.key = None /\ ~ m.keyed -> "unmappable"
    [] OTHER -> "event"

map(m) == IF env.unwrap = "debezium" THEN map_debezium(m) ELSE map_raw(m)

-----------------------------------------------------------------------------
(* OffsetTracker *)

Slot(i, needs_sink) == [seq |-> src.next_seq, at |-> i, needs_sink |-> needs_sink]
record(i, needs_sink) ==
  [src EXCEPT !.next_seq = @ + 1, !.inflight = Append(@, Slot(i, needs_sink)),
              !.position[env.log[i].part] = Offset(i) + 1]

SlotDone(slot) == ~ slot.needs_sink \/ slot.seq <= sink.progress

DonePrefix == Last0({0} \cup {i \in 1..Len(src.inflight) : \A j \in 1..i : SlotDone(src.inflight[j])})

committable ==
  [p \in Partitions |->
     LET offsets == {Offset(src.inflight[i].at) + 1 :
                        i \in {j \in 1..DonePrefix : env.log[src.inflight[j].at].part = p}}
     IN  IF offsets = {} THEN disk.cursor[p] ELSE Last0(offsets)]

Drained == SubSeq(src.inflight, DonePrefix + 1, Len(src.inflight))

-----------------------------------------------------------------------------
(* run_inner and handle *)

Consumed(p) == src.position[p] < Len(Messages(p))

ReceiveSkip(p) ==
  /\ src.pc = "poll" /\ Consumed(p)
  /\ LET i == Messages(p)[src.position[p] + 1]
     IN  /\ map(env.log[i]) = "skip"
         /\ src' = [record(i, FALSE) EXCEPT !.streak = 0]
  /\ UNCHANGED <<bus, sink, lost>> /\ SourceStill

(* Mutant: a run of messages that cannot be mapped goes on for ever. *)
ReceiveTolerated(p) ==
  /\ src.pc = "poll" /\ Consumed(p)
  /\ LET i == Messages(p)[src.position[p] + 1]
     IN  /\ map(env.log[i]) = "unmappable"
         /\ src' = [record(i, FALSE) EXCEPT !.streak = @ + 1]
         /\ lost' = lost \cup {i}
  /\ UNCHANGED <<bus, sink>> /\ SourceStill

(* note_unmappable: a run of them ends the source, the last one unrecorded. *)
ReceiveUnmappable(p) ==
  /\ src.pc = "poll" /\ Consumed(p)
  /\ LET i == Messages(p)[src.position[p] + 1]
     IN  /\ map(env.log[i]) = "unmappable"
         /\ IF src.streak + 1 >= MaxUnmappableStreak
            THEN src' = [src EXCEPT !.pc = "halted"] /\ UNCHANGED lost
            ELSE src' = [record(i, FALSE) EXCEPT !.streak = @ + 1] /\ lost' = lost \cup {i}
  /\ UNCHANGED <<bus, sink>> /\ SourceStill

ReceiveEvent(p) ==
  /\ src.pc = "poll" /\ Consumed(p)
  /\ LET i == Messages(p)[src.position[p] + 1]
     IN  /\ map(env.log[i]) = "event"
         /\ src' = [record(i, TRUE) EXCEPT !.pc = "publish", !.streak = 0, !.got = i]
  /\ UNCHANGED <<bus, sink, lost>> /\ SourceStill

(* stamp_progress: the version is the offset, which outlives the process. *)
stamp_progress(i) == Event(env.log[i].rows[1].key, i, Offset(i) + 1, src.next_seq - 1)

PublishMessage ==
  /\ src.pc = "publish"
  /\ Publish(stamp_progress(src.got))
  /\ src' = [src EXCEPT !.pc = "poll"]
  /\ UNCHANGED <<sink, lost>> /\ SourceStill

(* commit_now: a commit that fails has drained the tracker all the same. *)
commit_now(fails) ==
  /\ disk' = IF fails THEN disk ELSE [cursor |-> committable]
  /\ UNCHANGED <<env, db, bus, sink, lost>>

CommitTick ==
  /\ src.pc = "poll" /\ DonePrefix > 0
  /\ commit_now(FALSE)
  /\ src' = [src EXCEPT !.inflight = Drained]
  /\ UNCHANGED faults

CommitFails ==
  /\ src.pc = "poll" /\ DonePrefix > 0
  /\ commit_now(TRUE)
  /\ src' = [src EXCEPT !.inflight = Drained]
  /\ Fault

Shutdown ==
  /\ src.pc \in {"poll", "publish"}
  /\ commit_now(FALSE)
  /\ src' = [src EXCEPT !.pc = "stopped"]
  /\ Fault

-----------------------------------------------------------------------------
(* The group coordinator takes a partition away and gives it back: consumption *)
(* goes on from the committed offset, with the old slots still in the tracker. *)
Rebalance(p) ==
  /\ env.rebalance /\ src.pc \in {"poll", "publish"} /\ src.position[p] # disk.cursor[p]
  /\ src' = [src EXCEPT !.position[p] = disk.cursor[p]]
  /\ Fault /\ UNCHANGED <<env, db, disk, bus, sink, lost>>

Crash ==
  /\ src.pc \in {"poll", "publish"}
  /\ src' = [src EXCEPT !.pc = "stopped"]
  /\ Fault /\ UNCHANGED <<env, db, disk, bus, sink, lost>>

Restart ==
  /\ src.pc \in {"stopped", "halted"}
  /\ src' = Fresh(disk.cursor) /\ FreshProcess
  /\ UNCHANGED <<env, db, disk, lost, faults>>

-----------------------------------------------------------------------------
Consume == \E p \in Partitions : ReceiveSkip(p) \/ ReceiveUnmappable(p) \/ ReceiveEvent(p)
Disturb == CommitFails \/ Shutdown \/ Crash \/ \E p \in Partitions : Rebalance(p)
Next == Commit \/ Deliver \/ Consume \/ PublishMessage \/ CommitTick \/ Disturb \/ Restart
Spec == Init /\ [][Next]_vars

-----------------------------------------------------------------------------
TypeOK ==
  /\ src.pc \in {"poll", "publish", "halted", "stopped"}
  /\ \A p \in Partitions : disk.cursor[p] \in 0..Len(env.log) /\ src.position[p] \in 0..Len(env.log)
  /\ \A i \in 1..Len(src.inflight) : src.inflight[i].seq = src.next_seq - 1 - Len(src.inflight) + i
  /\ src.streak < MaxUnmappableStreak
  /\ Len(bus) <= BusCapacity /\ faults <= env.faults

ConfirmedIsDelivered ==
  \A k \in env.keys : LET i == Row(k) IN
     i > 0 => (Offset(i) < disk.cursor[env.log[i].part] => Synced(k))

AllRead == \A p \in Partitions : ~ Consumed(p)
CaughtUp == src.pc = "poll" /\ db.n = Len(env.log) /\ AllRead /\ bus = <<>>
Converges == CaughtUp => \A k \in env.keys : Synced(k)
Done == CaughtUp /\ src.inflight = <<>>

(* Only messages read twice can take a committed offset back. *)
CursorStep == env.rebalance \/ \A p \in Partitions : disk'.cursor[p] >= disk.cursor[p]

=============================================================================
