---------------------------- MODULE SqlDenormalize ----------------------------
(***************************************************************************)
(* Joins pushed into the source database: the Postgres denormalizer        *)
(* (crates/ventstream/src/sql_denormalize.rs) and the MySQL one            *)
(* (mysql_sql_denormalize.rs), each between the source's bus and the       *)
(* dispatcher's.  Every boot composes all documents page by page; the tail *)
(* takes batches of change events, works out which primaries they touch,   *)
(* and composes those anew from the tables as they are by then.            *)
(*                                                                         *)
(* What has been sent and not applied is a sequence: bulks run side by     *)
(* side (env.parallel), or one at a time.  A version-ordered sink refuses  *)
(* a write older than the one it has, others keep the last that arrives.   *)
(***************************************************************************)
EXTENDS Projection

CONSTANTS
    ChunkSize,   \* rows of a bootstrap page
    BatchLimit,  \* TAIL_DRAIN_LIMIT
    Lookahead,   \* MAX_IN_FLIGHT_BARRIERS
    MaxTx,       \* transactions the database commits
    MaxFaults    \* failing queries, and crashes of the process

VARIABLES
    env,         \* kind, identity, ordered, parallel, lookup
    def,         \* the join definition
    history,     \* history[n + 1]: the tables after transaction n
    log,         \* the change events, in commit order
    taken,       \* events the denormalizer has received
    run,         \* stage, batch, cursor and the keys resolved so far
    sent,        \* writes and barriers between the denormalizer and the sink
    docs,        \* the sink: document and version by key
    durability,  \* pending, next_sequence, transform_progress, source_progress
    cursor,      \* the position the source database holds for the pipeline
    faults

vars == <<env, def, history, log, taken, run, sent, docs, durability, cursor, faults>>

Db == Last(history)
Lsn == Len(history) - 1
Postgres == env.kind = "postgres"

Unversioned == -1

\* A boot: the version MySQL stamps on what it scans is the position it starts at.
Boot(lsn) == [stage |-> "bootstrap", batch |-> <<>>, segment |-> 1, after |-> 0,
              affected |-> {}, deletes |-> {}, children |-> {}, floor |-> lsn]
Fresh == [pending |-> <<>>, next_sequence |-> 1, transform_progress |-> 0,
          source_progress |-> 0]


Absent == [row |-> NoRow, embeds |-> <<>>]
Write(kind, pk, doc, version) == [kind |-> kind, pk |-> pk, doc |-> doc, version |-> version]
Barrier(position) == Write("barrier", Null, Absent, position)

\* The documents a copy of the sink shows: a deleted one leaves its version behind.
Shown(f) == [pk \in {pk \in DOMAIN f : f[pk].doc # Absent} |-> f[pk].doc]

\* Postgres handles a batch as one; MySQL's source puts an acknowledgement barrier
\* after each transaction, and handle_ordered_tail_batch stops at each.
Segment == IF Postgres THEN run.batch ELSE <<run.batch[run.segment]>>
BatchVersion == Last(Segment).lsn

(***************************************************************************)
(* The durability hand-off: a watermark is released once the barrier sent  *)
(* after its batch is confirmed, in order.                                 *)
(***************************************************************************)
\* Mutant: the barriers are settled whether or not the sink confirmed them.
settleAll(d) ==
    [d EXCEPT !.pending = <<>>,
              !.source_progress = IF d.pending = <<>> THEN @ ELSE Last(d.pending).watermark]

settle(d) ==
    LET n == Cardinality({i \in DOMAIN d.pending : d.pending[i].sequence <= d.transform_progress})
        marks == {d.pending[i].watermark : i \in 1..n} \cup {d.source_progress}
    IN  [d EXCEPT !.pending = SubSeq(@, n + 1, Len(@)),
                  !.source_progress = CHOOSE m \in marks : \A k \in marks : k <= m]

MaxInFlight == IF env.ordered THEN Lookahead ELSE 0

\* emit_barrier waits for a slot; commit and a synchronous commit_batch then drain.
emit_barrier(watermark) ==
    LET d == settle(durability)
    IN  /\ Len(d.pending) < (IF MaxInFlight = 0 THEN 1 ELSE MaxInFlight)
        /\ sent' = Append(sent, Barrier(d.next_sequence))
        /\ durability' = [d EXCEPT
              !.next_sequence = @ + 1,
              !.pending = Append(@, [sequence |-> d.next_sequence, watermark |-> watermark])]

\* wait_for_oldest until nothing is pending.
drain ==
    /\ settle(durability).pending = <<>>
    /\ durability' = settle(durability)

(***************************************************************************)
(* Composition by the database.                                            *)
(***************************************************************************)
Upserts(keys, version) ==
    LET order == SetToSortSeq(keys, <)
    IN  [i \in DOMAIN order |-> Write("doc", order[i], Documents(Db, def)[order[i]], version)]

\* fetch_chunk: the first rows after the last key, in key order.
fetch_chunk(after) ==
    LET left == {pk \in DOMAIN Db[def.table] : pk > after}
    IN  {pk \in left : Cardinality({q \in left : q < pk}) < ChunkSize}

Still == UNCHANGED <<env, def, history, log, docs, cursor>>

\* emit_all: one page, and the stage that follows the last, short one.
EmitPage(version, then) ==
    LET page == fetch_chunk(run.after)
    IN  /\ sent' = sent \o Upserts(page, version)
        /\ run' = IF Cardinality(page) < ChunkSize
                  THEN [run EXCEPT !.after = 0, !.stage = then]
                  ELSE [run EXCEPT !.after = CHOOSE k \in page : \A q \in page : q <= k]
        /\ UNCHANGED <<taken, durability, faults>> /\ Still

bootstrap ==
    /\ run.stage = "bootstrap"
    /\ EmitPage(IF Postgres THEN Unversioned ELSE run.floor,
                IF Postgres THEN "boundary" ELSE "tail")

\* The snapshot is durable before the tail starts (Postgres).
BootBoundary ==
    /\ run.stage = "boundary"
    /\ emit_barrier(0)
    /\ run' = [run EXCEPT !.stage = "boundary-drain"]
    /\ UNCHANGED <<taken, faults>> /\ Still

Drained(stage, then) ==
    /\ run.stage = stage
    /\ drain
    /\ run' = [run EXCEPT !.stage = then]
    /\ UNCHANGED <<taken, sent, faults>> /\ Still

(***************************************************************************)
(* The tail: receive a batch, resolve it to primaries, compose and send    *)
(* those, commit.                                                          *)
(***************************************************************************)
TakeBatch ==
    /\ run.stage = "tail" /\ taken < Len(log)
    /\ \E n \in 1..BatchLimit :
          /\ taken + n <= Len(log)
          /\ run' = [run EXCEPT !.stage = "truncate", !.segment = 1,
                                !.batch = SubSeq(log, taken + 1, taken + n)]
          /\ taken' = taken + n
    /\ UNCHANGED <<sent, durability, faults>> /\ Still

Truncated(table) == \E i \in DOMAIN Segment : Segment[i].op = "truncate" /\ Segment[i].table = table

\* A truncated primary clears the target and rebuilds it, and nothing else of the
\* segment counts; a truncated related table rebuilds and goes on.
HandleTruncates ==
    /\ run.stage = "truncate"
    /\ sent' = IF Truncated(def.table)
               THEN Append(sent, Write("clear", Null, Absent, BatchVersion)) ELSE sent
    /\ run' = [run EXCEPT !.affected = {}, !.deletes = {}, !.children = {}, !.after = 0,
         !.stage = CASE Truncated(def.table) -> "rebuild"
                     [] \E i \in DOMAIN def.related : Truncated(def.related[i].table) -> "refill"
                     [] OTHER -> "resolve"]
    /\ UNCHANGED <<taken, durability, faults>> /\ Still

Rebuild ==
    \/ run.stage = "rebuild" /\ EmitPage(BatchVersion, "commit")
    \/ run.stage = "refill" /\ EmitPage(BatchVersion, "resolve")

\* effective_row: the post-image, or the pre-image of a delete.
effective_row(e) == IF e.op = "delete" THEN e.old ELSE e.row

\* Mutant: the pre-image of an update is not looked at.
PostImage(e, column) == {extract_pk(effective_row(e), column)} \ {Null}

\* The join values an event is about: of its row and, for an update, of its pre-image.
JoinValues(e, column) ==
    ({extract_pk(effective_row(e), column)}
        \cup (IF e.op = "update" THEN {extract_pk(e.old, column)} ELSE {})) \ {Null}

Of(table) == {e \in Range(Segment) : e.table = table /\ e.op # "truncate"}

\* One-to-many: the value is the primary's key.  Many-to-one: the primaries that
\* hold it, found by one query (lookup_primary_by_batch).
lookup_primary_by_batch(rel, values) ==
    IF rel.from = "id" THEN values
    ELSE {pk \in DOMAIN Db[def.table] : Db[def.table][pk][rel.from] \in values}

\* A deleted child whose pre-image lacks its parent is looked up in the sink.
Orphans(i) ==
    LET rel == def.related[i]
    IN  {<<i, e.pk>> : e \in {e \in Of(rel.table) :
            /\ e.op = "delete" /\ rel.from = "id"
            /\ extract_pk(effective_row(e), rel.to) = Null}}

Resolve ==
    /\ run.stage = "resolve"
    /\ LET primary == Of(def.table)
           deletes == {e.pk : e \in {e \in primary : e.op = "delete"}}
                      \cup {e.old.id : e \in {e \in primary :
                               e.op = "update" /\ extract_pk(e.old, "id") \notin {Null, e.pk}}}
           related == UNION {lookup_primary_by_batch(def.related[i],
                                UNION {JoinValues(e, def.related[i].to) :
                                          e \in Of(def.related[i].table)}) : i \in DOMAIN def.related}
           children == UNION {Orphans(i) : i \in DOMAIN def.related}
       IN  run' = [run EXCEPT
              !.affected = {e.pk : e \in primary} \cup deletes \cup related,
              !.deletes = deletes,
              !.children = IF env.lookup THEN children ELSE {},
              !.stage = IF children = {} THEN "recompose"
                        ELSE IF Postgres THEN "lookup-drain" ELSE "lookup"]
    /\ UNCHANGED <<taken, sent, durability, faults>> /\ Still

\* reverse_lookup_parents_batched: the documents that embed a deleted child.
reverse_lookup_parents ==
    /\ run.stage = "lookup"
    /\ run' = [run EXCEPT !.stage = "recompose", !.affected = @ \cup
          {pk \in DOMAIN Shown(docs) : \E c \in run.children :
               \E r \in docs[pk].doc.embeds[c[1]] : r.id = c[2]}]
    /\ UNCHANGED <<taken, sent, durability, faults>> /\ Still

\* Mutant: a deleted key is tombstoned though the table has it again.
TombstoneAll(keys) == keys

\* The tables, not the order of the events, decide which deleted keys are gone.
Dead(keys) == keys \ DOMAIN Db[def.table]

recompose ==
    /\ run.stage = "recompose"
    /\ LET dead == SetToSortSeq(Dead(run.deletes), <)
       IN  sent' = sent \o Upserts(run.affected \cap DOMAIN Db[def.table], BatchVersion)
                   \o [i \in DOMAIN dead |-> Write("tombstone", dead[i], Absent, BatchVersion)]
    /\ run' = [run EXCEPT !.stage = "commit"]
    /\ UNCHANGED <<taken, durability, faults>> /\ Still

\* commit_batch: pipelined for a version-ordered sink, else confirmed before going on.
CommitBatch ==
    /\ run.stage = "commit" /\ Postgres
    /\ emit_barrier(BatchVersion)
    /\ run' = [run EXCEPT !.stage = IF MaxInFlight = 0 THEN "commit-drain" ELSE "tail"]
    /\ UNCHANGED <<taken, faults>> /\ Still

\* MySQL forwards the source's barrier and goes on to the next segment.
ForwardBarrier ==
    /\ run.stage = "commit" /\ ~Postgres
    /\ sent' = Append(sent, Barrier(BatchVersion))
    /\ run' = IF run.segment = Len(run.batch) THEN [run EXCEPT !.stage = "tail"]
              ELSE [run EXCEPT !.stage = "truncate", !.segment = @ + 1]
    /\ UNCHANGED <<taken, durability, faults>> /\ Still

Drain ==
    \/ Drained("boundary-drain", "tail")
    \/ Drained("lookup-drain", "lookup")
    \/ Drained("commit-drain", "tail")

\* settle_tick, while the tail is idle.
SettleTick ==
    /\ run.stage = "tail" /\ settle(durability) # durability
    /\ durability' = settle(durability)
    /\ UNCHANGED <<taken, run, sent, faults>> /\ Still

Working == {"truncate", "rebuild", "refill", "resolve", "recompose"}

\* Mutant: a batch that fails is given up.
DropBatch ==
    /\ run.stage \in Working /\ faults < MaxFaults
    /\ run' = [run EXCEPT !.stage = "tail"]
    /\ faults' = faults + 1
    /\ UNCHANGED <<taken, sent, durability>> /\ Still

\* A query fails: the batch is kept and handled again from its start.
QueryFails ==
    /\ run.stage \in Working /\ faults < MaxFaults
    /\ run' = [run EXCEPT !.stage = "truncate", !.segment = 1]
    /\ durability' = settle(durability)
    /\ faults' = faults + 1
    /\ UNCHANGED <<taken, sent>> /\ Still

(***************************************************************************)
(* The sink, the source's position, and the process.                       *)
(***************************************************************************)
Drop(i) == SubSeq(sent, 1, i - 1) \o SubSeq(sent, i + 1, Len(sent))

Accepts(w) ==
    \/ ~env.ordered \/ w.version = Unversioned
    \/ w.pk \notin DOMAIN docs \/ w.version >= docs[w.pk].version

Apply(i) ==
    LET w == sent[i]
        version == IF w.version = Unversioned
                   THEN IF w.pk \in DOMAIN docs THEN docs[w.pk].version ELSE 0
                   ELSE w.version
    IN  /\ w.kind # "barrier"
        /\ i > 1 => env.parallel
        /\ docs' = CASE w.kind = "clear" ->
                          [pk \in DOMAIN docs |-> [doc |-> Absent, version |-> w.version]]
                     [] w.kind # "clear" /\ Accepts(w) ->
                          (w.pk :> [doc |-> w.doc, version |-> version]) @@ docs
                     [] OTHER -> docs
        /\ sent' = Drop(i)
        /\ UNCHANGED <<env, def, history, log, taken, run, durability, cursor, faults>>

\* Everything before a barrier is durable when the barrier is.
ConfirmBarrier ==
    /\ sent # <<>> /\ Head(sent).kind = "barrier"
    /\ durability' = IF Postgres
          THEN [durability EXCEPT !.transform_progress = Head(sent).version]
          ELSE [durability EXCEPT !.source_progress =
                   IF Head(sent).version > @ THEN Head(sent).version ELSE @]
    /\ sent' = Tail(sent)
    /\ UNCHANGED <<taken, run, faults>> /\ Still

SourceAck ==
    /\ durability.source_progress > cursor
    /\ cursor' = durability.source_progress
    /\ UNCHANGED <<env, def, history, log, taken, run, sent, docs, durability, faults>>

\* The process dies and boots again: it composes everything, then resumes the tail
\* at the position the source database holds.
Crash ==
    /\ faults < MaxFaults
    /\ faults' = faults + 1
    /\ run' = Boot(Lsn) /\ taken' = cursor /\ sent' = <<>> /\ durability' = Fresh
    /\ Still

Commit(change) ==
    /\ Lsn < MaxTx
    /\ history' = Append(history, change.db)
    /\ log' = Append(log, change.event)
    /\ UNCHANGED <<env, def, taken, run, sent, docs, durability, cursor, faults>>

Denormalizer ==
    \/ bootstrap \/ BootBoundary \/ TakeBatch \/ HandleTruncates \/ Rebuild \/ Resolve
    \/ reverse_lookup_parents \/ recompose \/ CommitBatch \/ ForwardBarrier \/ Drain
    \/ SettleTick
Sink == ConfirmBarrier \/ \E i \in DOMAIN sent : Apply(i)

Idle == run.stage = "tail" /\ taken = Len(log) /\ sent = <<>>
\* With every event handled and every write applied, the sink holds exactly the
\* documents the definition describes over the tables.
DocumentsMatch == Idle => Shown(docs) = Documents(Db, def)

At(f, pk) == IF pk \in DOMAIN f THEN f[pk] ELSE Absent
RowAt(n, pk) == IF pk \in DOMAIN history[n + 1][def.table] THEN history[n + 1][def.table][pk] ELSE NoRow

\* The position confirmed to the source database never passes a change the sink
\* lacks: each document is the one of some moment at or after that position (a
\* primary row that changed since may be on its way).
ConfirmedIsApplied ==
    cursor > 0 => \A pk \in UNION {DOMAIN history[n + 1][def.table] : n \in 0..Lsn} :
        \E n \in cursor..Lsn :
            \/ RowAt(n, pk) # RowAt(cursor, pk)
            \/ At(Shown(docs), pk) = At(Documents(history[n + 1], def), pk)
==============================================================================
