--------------------------- MODULE SourcePipeline ---------------------------
(***************************************************************************)
(* What the MySQL, MongoDB, Neo4j and Kafka sources have in common: a      *)
(* server with a change log, a position kept on disk (or at the broker),   *)
(* the bus, and the dispatcher with a sink behind it.                      *)
(*                                                                         *)
(* The log is env.log; db.n of its records are committed. A record has a   *)
(* sequence of row changes [key, op]. A row, and the document made from    *)
(* it, is identified by the index of the record that last changed it: 0 is *)
(* the row the table started with, -1 a document never written. Documents  *)
(* carry the version of their write, 0 on the bus meaning "unversioned".   *)
(***************************************************************************)
EXTENDS Integers, Sequences, FiniteSets, SequencesExt

CONSTANTS
  None,
  Scenarios,     \* what a run starts from: log, rows, bounds, options
  BusCapacity    \* events published and not yet settled

VARIABLES
  env,    \* the scenario
  db,     \* the server
  disk,   \* what survives a restart of the process
  src,    \* the source task
  bus,    \* published events, each with whether the sink has handled it
  sink,   \* documents and the progress the dispatcher reports
  lost,   \* log records the source passed over (only observed)
  faults

vars == <<env, db, disk, src, bus, sink, lost, faults>>

Larger(a, b) == IF a > b THEN a ELSE b
Last0(S) == CHOOSE i \in S : \A j \in S : j <= i

-----------------------------------------------------------------------------
(* The rows. *)

Change(i, k) == {r \in ToSet(env.log[i].rows) : r.key = k}
LastChange(k, n) == Last0({0} \cup {i \in 1..n : Change(i, k) # {}})
Dead(k, i) ==
  IF i <= 0 THEN i < 0 \/ k \notin env.base ELSE \E r \in Change(i, k) : r.op = "del"
Row(k) == LastChange(k, db.n)

(* The records of a transaction enter the log together. *)
Commit ==
  /\ db.n < Len(env.log)
  /\ db' = [db EXCEPT !.n = CHOOSE j \in (@ + 1)..Len(env.log) :
                              /\ env.log[j].last
                              /\ \A i \in (@ + 1)..(j - 1) : ~ env.log[i].last]
  /\ UNCHANGED <<env, disk, src, bus, sink, lost, faults>>

-----------------------------------------------------------------------------
(* The bus, the dispatcher and the sink. A barrier has no document.        *)

HasRoom == Len(bus) < BusCapacity
Event(k, at, ver, mark) == [key |-> k, at |-> at, ver |-> ver, mark |-> mark, handled |-> FALSE]
Barrier(mark) == Event(None, 0, 0, mark)
Publish(e) == HasRoom /\ bus' = Append(bus, e)

(* A versioned write loses against a document with a newer version. *)
Write(docs, e) ==
  IF e.key = None \/ (e.ver # 0 /\ e.ver < docs[e.key].ver) THEN docs
  ELSE [docs EXCEPT ![e.key] = [at |-> e.at, ver |-> IF e.ver = 0 THEN @.ver + 1 ELSE e.ver]]

Handle ==
  /\ \E i \in 1..Len(bus) :
       /\ ~ bus[i].handled
       /\ env.parallel \/ \A j \in 1..(i - 1) : bus[j].handled
       /\ bus' = [bus EXCEPT ![i].handled = TRUE]
       /\ sink' = [sink EXCEPT !.docs = Write(@, bus[i])]
  /\ UNCHANGED <<env, db, disk, src, lost, faults>>

Advance ==
  /\ bus # <<>> /\ Head(bus).handled
  /\ bus' = Tail(bus)
  /\ sink' = [sink EXCEPT !.progress = Larger(@, Head(bus).mark)]
  /\ UNCHANGED <<env, db, disk, src, lost, faults>>

Deliver == Handle \/ Advance

(* The documents before the first start: none, or those an earlier server left behind. *)
Documents == [k \in env.keys |-> [at |-> -1, ver |-> env.stale]]

(* A new process: the bus and the dispatcher's progress start empty. *)
FreshProcess ==
  /\ bus' = <<>>
  /\ sink' = [sink EXCEPT !.progress = 0]

Fault == faults < env.faults /\ faults' = faults + 1

-----------------------------------------------------------------------------
(* The document of k shows its row, unless the last change to it was passed over. *)
Synced(k) ==
  \/ sink.docs[k].at = Row(k)
  \/ Dead(k, sink.docs[k].at) /\ Dead(k, Row(k))
  \/ Row(k) \in lost

(* Rows that no record from the n-th on changes are in the sink: nothing is left *)
(* out by a source that starts again at record n.                                 *)
DeliveredBefore(n) == \A k \in env.keys : Row(k) < n => Synced(k)

(* A snapshot shows no deletions: those of documents an earlier attempt left in the *)
(* sink are passed over when the next attempt starts behind them.                   *)
Orphaned == {i \in 1..db.n : \E r \in ToSet(env.log[i].rows) :
                r.op = "del" /\ ~ Dead(r.key, sink.docs[r.key].at)}
=============================================================================
