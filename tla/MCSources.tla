----------------------------- MODULE MCSources -----------------------------
(***************************************************************************)
(* The five sources.  MySQL, MongoDB, Kafka and Neo4j stand in front of    *)
(* the same bus and sink; PostgreSQL, whose position is the server's, has  *)
(* its own.  A run takes the scenarios of Scenarios.<source>; env.kind     *)
(* says which source a behaviour is about.                                 *)
(***************************************************************************)
EXTENDS Integers, Sequences, FiniteSets, TLC, SequencesExt

CONSTANTS None, Scenarios, BusCapacity, MaxDenied, MaxUnmappableStreak, MaxCursorRecoveries, MaxPending
VARIABLES env, db, disk, src, bus, sink, lost, faults
VARIABLES committed, slot, slotStart, confirmed, sent, mode, scan, bootstrapped, open, outbox,
          walHighWater, lastAcked, failures, pipe, sinkProgress, delivered

cursorVars == <<env, db, disk, src, bus, sink, lost>>
slotVars == <<committed, slot, slotStart, confirmed, sent, mode, scan, bootstrapped, open, outbox,
              walHighWater, lastAcked, failures, pipe, sinkProgress, delivered>>
vars == <<cursorVars, slotVars, faults>>

MySql == INSTANCE MySqlSource WITH Scenarios <- Scenarios.mysql
Mongo == INSTANCE MongoSource WITH Scenarios <- Scenarios.mongo
Kafka == INSTANCE KafkaSource WITH Scenarios <- Scenarios.kafka
Neo4j == INSTANCE Neo4jSource WITH Scenarios <- Scenarios.neo4j

(* Three transactions: one of a record with two changes, one that began    *)
(* before the first committed and has a change past its end, and an empty one. *)
At(r, l) == [row |-> r, lsn |-> l]
Postgres == INSTANCE PostgresCdc WITH
  NTxns <- 3, NRows <- 2, End <- <<3, 6, 8>>, MaxFailures <- 2, MaxFaults <- 2,
  Changes <- << <<At(1, 2), At(2, 2)>>, <<At(2, 1), At(1, 4), At(2, 5)>>, <<>> >>
ASSUME Postgres!PostgresAssumption

Init ==
  /\ Postgres!Init
  /\ \/ MySql!Init \/ Mongo!Init \/ Kafka!Init \/ Neo4j!Init
     \/ /\ env \in Scenarios.postgres
        /\ db = None /\ disk = None /\ src = None /\ bus = <<>> /\ sink = None /\ lost = None
Next ==
  \/ /\ UNCHANGED slotVars
     /\ \/ env.kind = "mysql" /\ MySql!Next
        \/ env.kind = "mongo" /\ Mongo!Next
        \/ env.kind = "kafka" /\ Kafka!Next
        \/ env.kind = "neo4j" /\ Neo4j!Next
  \/ env.kind = "postgres" /\ Postgres!Next /\ UNCHANGED cursorVars

-----------------------------------------------------------------------------
(* Scenarios: short logs in which the interesting cases of each source happen. *)

Chg(k, op) == [key |-> k, op |-> op]
Scenario(kind, base, log) ==
  [kind |-> kind, keys |-> {"a", "b"}, base |-> base, log |-> log, parallel |-> TRUE, stale |-> 0,
   faults |-> 1, purge |-> FALSE, already |-> 0]

Binlog(kind, file, end, rows) ==
  [kind |-> kind, file |-> file, end |-> end, table |-> "t", to |-> file + 1, rows |-> rows,
   last |-> kind \notin {"map", "rotate"}]
Map(file, end) == Binlog("map", file, end, <<>>)
Rows(file, end, rows) == Binlog("rows", file, end, rows)
MySqlScenario(base, log) ==
  [Scenario("mysql", base, log) EXCEPT !.parallel = FALSE]
  @@ [wrap |-> 20, ceiling |-> 9, uuid |-> None, rebuild |-> FALSE, truncates |-> FALSE]

(* An event of two rows; a rotation with the old file purged and a version limit;  *)
(* a file past the width of the position; a rebuild after a change of server, with *)
(* a TRUNCATE.                                                                      *)
MySqlScenarios == {
  [MySqlScenario({"a"}, <<Map(1, 1), Rows(1, 2, <<Chg("a", "put"), Chg("b", "put")>>),
                          Map(1, 3), Rows(1, 4, <<Chg("a", "del")>>)>>) EXCEPT !.faults = 2],
  [MySqlScenario({"a"}, <<Map(1, 1), Rows(1, 2, <<Chg("a", "put")>>), Binlog("rotate", 1, 3, <<>>),
                          Binlog("fake", 2, 0, <<>>), Map(2, 1), Rows(2, 2, <<Chg("b", "put")>>)>>)
     EXCEPT !.purge = TRUE, !.ceiling = 1],
  [MySqlScenario({"a"}, <<Map(1, 2), Rows(1, 4, <<Chg("a", "put")>>), Binlog("ddl", 1, 6, <<>>),
                          Map(1, 8), Rows(1, 9, <<Chg("a", "put")>>)>>)
     EXCEPT !.faults = 0, !.wrap = 7],
  [MySqlScenario({"a", "b"}, <<Map(1, 1), Rows(1, 2, <<Chg("a", "put")>>),
                               Binlog("trunc", 1, 3, <<Chg("a", "del"), Chg("b", "del")>>),
                               Map(1, 4), Rows(1, 5, <<Chg("a", "put")>>)>>)
     EXCEPT !.stale = 99, !.uuid = "other", !.truncates = TRUE, !.already = 2, !.rebuild = TRUE]}

Change(t, rows) == [time |-> t, rows |-> rows, last |-> TRUE]
(* A deletion and an event of no document; an oplog that rotates. *)
MongoScenarios == {
  [Scenario("mongo", {"a"}, <<Change(1, <<Chg("a", "put")>>), Change(2, <<>>),
                              Change(3, <<Chg("b", "ins")>>), Change(4, <<Chg("a", "del")>>)>>)
     EXCEPT !.faults = 2],
  [Scenario("mongo", {"a"}, <<Change(1, <<Chg("a", "put")>>), Change(2, <<Chg("a", "del")>>),
                              Change(3, <<Chg("a", "ins")>>)>>)
     EXCEPT !.purge = TRUE, !.already = 1]}

Message(p, k, op, rows) ==
  [part |-> p, key |-> k, op |-> op, after |-> "row", keyed |-> FALSE, last |-> TRUE, rows |-> rows]
Put(p, k, op) == Message(p, k, op, <<Chg(k, "put")>>)
Del(p, k, op) == Message(p, k, op, <<Chg(k, "del")>>)
KafkaScenario(unwrap, log) == Scenario("kafka", {}, log) @@ [unwrap |-> unwrap, rebalance |-> FALSE]
(* Two partitions with a tombstone; a run of messages that cannot be mapped; raw *)
(* messages while partitions are taken away.                                     *)
KafkaScenarios == {
  [KafkaScenario("debezium", <<Put(0, "a", "c"), Put(1, "b", "r"), Message(0, "a", "t", <<>>),
                               Put(0, "a", "u"), Del(1, "b", "d"), Message(1, "b", "null", <<>>)>>)
     EXCEPT !.faults = 2],
  KafkaScenario("debezium", <<Put(0, "a", "c"), [Put(0, "a", "u") EXCEPT !.after = "unavailable"],
                              Put(1, "b", "r"), Message(0, "a", "garbled", <<>>),
                              Message(0, None, "u", <<>>), Del(0, "a", "d")>>),
  [KafkaScenario("raw", <<Put(0, "a", "c"), Put(1, "b", "c"), Del(0, "a", "null"),
                          Message(1, None, "null", <<>>), Put(1, "b", "u")>>)
     EXCEPT !.rebalance = TRUE]}

Tx(t, rows) == [tx |-> t, cdc |-> TRUE, rows |-> rows, last |-> TRUE, event_type |-> "n",
                labels |-> "listed", before |-> "listed"]
Excluded(t) == [Tx(t, <<>>) EXCEPT !.labels = "excluded"]
Uncaptured(t) == [Tx(t, <<>>) EXCEPT !.cdc = FALSE]
Neo4jScenario(base, log) ==
  [Scenario("neo4j", base, log) EXCEPT !.parallel = FALSE] @@ [bootstrap |-> TRUE]
(* A snapshot and a tail; a log that is pruned; no snapshot and filtered changes. *)
Neo4jScenarios == {
  Neo4jScenario({"a"}, <<Tx(10, <<Chg("a", "put")>>), Tx(20, <<Chg("b", "put")>>),
                         [Tx(30, <<Chg("a", "del")>>) EXCEPT !.labels = ""]>>),
  [Neo4jScenario({"a"}, <<Tx(10, <<Chg("a", "put")>>), Tx(20, <<Chg("a", "del")>>), Uncaptured(30),
                          Tx(40, <<Chg("a", "put")>>)>>) EXCEPT !.purge = TRUE],
  [Neo4jScenario({"a"}, <<[Tx(10, <<Chg("a", "put")>>) EXCEPT !.event_type = "r"], Excluded(20),
                          Uncaptured(30), Tx(40, <<Chg("b", "put")>>),
                          [Tx(50, <<>>) EXCEPT !.labels = "", !.before = ""]>>) EXCEPT !.bootstrap = FALSE]}

MCScenarios == [mysql |-> MySqlScenarios, mongo |-> MongoScenarios, kafka |-> KafkaScenarios,
                neo4j |-> Neo4jScenarios, postgres |-> {[kind |-> "postgres"]}]
NoScenarios == [source \in DOMAIN MCScenarios |-> {}]

(* A connection that breaks between a table map and the rows it describes. *)
TableMapScenarios ==
  [NoScenarios EXCEPT !.mysql = {MySqlScenario({"a"}, <<Map(1, 1), Rows(1, 2, <<Chg("a", "put")>>)>>)}]
PostgresScenarios == [NoScenarios EXCEPT !.postgres = {[kind |-> "postgres"]}]

-----------------------------------------------------------------------------
(* Weak fairness of the server, of the dispatcher and of the source task, each *)
(* written with what keeps it waiting.                                          *)

Cursor == env.kind # "postgres"
SourceWaits ==
  CASE env.kind = "postgres" -> TRUE
    [] env.kind = "mysql" ->
         \/ src.pc = "halted"
         \/ src.pc = "stream" /\ src.next > db.n /\ MySql!Collect(src).write = None
    [] env.kind = "mongo" ->
         src.pc = "stream" /\ src.next > db.n /\ src.next > db.purged /\ Mongo!Confirmed = {}
    [] env.kind = "kafka" -> src.pc = "poll" /\ Kafka!AllRead /\ Kafka!DonePrefix = 0
    [] env.kind = "neo4j" -> src.pc = "tail" /\ Len(src.pending) >= MaxPending /\ Neo4j!Drained(src.pending) = {}
SourceBlocked == Cursor /\ ((src.pc = "wait" /\ bus # <<>>) \/ (Len(bus) = BusCapacity /\ src.pc \in {"scan", "publish", "rows", "stream"}))

DeliverStep == bus' # bus /\ src' = src
Fairness ==
  /\ []<>(SourceWaits \/ SourceBlocked) \/ []<><<src' # src>>_vars
  /\ []<>(bus = <<>>) \/ []<><<DeliverStep>>_vars
  /\ []<>(Cursor => db.n = Len(env.log)) \/ []<><<db' # db /\ db'.n > db.n>>_vars
Spec == Init /\ [][Next]_vars
(* PostgreSQL: the tasks of a running engine are polled and its calls return, *)
(* keepalives and status updates keep coming, and the supervisor restarts a   *)
(* stopped iteration.                                                         *)
SlotFairness ==
  /\ WF_slotVars(~Cursor /\ Postgres!Bootstrap) /\ WF_slotVars(~Cursor /\ Postgres!Stream)
  /\ WF_slotVars(~Cursor /\ Postgres!Deliver) /\ WF_slotVars(~Cursor /\ Postgres!FlushTimer)
  /\ WF_slotVars(~Cursor /\ Postgres!KeepAlive) /\ WF_slotVars(~Cursor /\ Postgres!StatusUpdate)
  /\ WF_slotVars(~Cursor /\ Postgres!EngineReturns) /\ WF_slotVars(~Cursor /\ Postgres!Restart)
FairSpec == Spec /\ Fairness /\ SlotFairness
SlotSpec == Spec /\ SlotFairness

-----------------------------------------------------------------------------
(* Each source's state stays in its domain and its queues within their bounds. *)
TypeOK ==
  CASE env.kind = "mysql" -> MySql!TypeOK
    [] env.kind = "mongo" -> Mongo!TypeOK
    [] env.kind = "kafka" -> Kafka!TypeOK
    [] env.kind = "neo4j" -> Neo4j!TypeOK
    [] env.kind = "postgres" -> Postgres!TypeOK

(* A process that starts from the position on disk misses no change: whatever the  *)
(* position is past is in the sink (or was passed over for a reason of its own).   *)
ConfirmedIsDelivered ==
  CASE env.kind = "mysql" -> MySql!ConfirmedIsDelivered
    [] env.kind = "mongo" -> Mongo!ConfirmedIsDelivered
    [] env.kind = "kafka" -> Kafka!ConfirmedIsDelivered
    [] env.kind = "neo4j" -> Neo4j!ConfirmedIsDelivered
    [] env.kind = "postgres" -> Postgres!ConfirmedIsDelivered

(* Whenever a source has read everything and the bus is empty, the documents show *)
(* the rows, whatever was scanned, read twice or delivered out of order on the way. *)
Converges ==
  CASE env.kind = "mysql" -> MySql!Converges
    [] env.kind = "mongo" -> Mongo!Converges
    [] env.kind = "kafka" -> Kafka!Converges
    [] env.kind = "neo4j" -> Neo4j!Converges
    [] env.kind = "postgres" -> Postgres!BootstrapLeavesNoGap

(* A kept position moves back only where the server has lost what follows it. *)
CursorStep ==
  CASE env.kind = "mysql" -> MySql!CursorStep
    [] env.kind = "mongo" -> Mongo!CursorStep
    [] env.kind = "kafka" -> Kafka!CursorStep
    [] env.kind = "neo4j" -> Neo4j!CursorStep
    [] env.kind = "postgres" -> Postgres!CursorStep
CursorMonotone == [][CursorStep]_vars

Done ==
  CASE env.kind = "mysql" -> MySql!Done
    [] env.kind = "mongo" -> Mongo!Done
    [] env.kind = "kafka" -> Kafka!Done
    [] env.kind = "neo4j" -> Neo4j!Done
    [] env.kind = "postgres" -> Postgres!Done
(* Every source catches up and gets its position confirmed, or refuses to go on *)
(* (a purged binlog, a topic that cannot be mapped).                            *)
Completes == <>[]Done \/ []<>(Cursor /\ src.pc = "halted")

(* What the documentation promises of a restart: no change is missing, for whatever reason. *)
NothingMissing ==
  (env.kind = "mysql" /\ MySql!CaughtUp) =>
     \A k \in env.keys : sink.docs[k].at = MySql!Row(k)
                         \/ (MySql!Dead(k, sink.docs[k].at) /\ MySql!Dead(k, MySql!Row(k)))

(* The same promise for a crash during the snapshot of PostgreSQL: the copy completes. *)
BaseRowsArrive == <>(~Cursor => Postgres!BaseRowsDelivered)
=============================================================================
