------------------------------ MODULE JoinEngine ------------------------------
(***************************************************************************)
(* What the in-memory join engine computes (crates/ventstream-joins:       *)
(* engine.rs, state.rs).  Events arrive in commit order, each is handled   *)
(* for every definition and relation its table takes part in, and the      *)
(* composed documents reach the sink in the order they are emitted.  A     *)
(* composition may read related rows from the source database, which is    *)
(* ahead of the events: the database changes between any two steps.        *)
(* Every mutation of the state is mirrored into the pending transaction of *)
(* JoinPersistence, except while a snapshot is taken; a boundary commits   *)
(* it, or dumps the state, and confirms the events so far.  What orders    *)
(* the boundary after the sink is the subject of JoinBoundary.             *)
(***************************************************************************)
EXTENDS Projection

CONSTANTS
    Tables,      \* the tables in the order of their names
    ChunkSize,   \* RE_EMIT_PRIMARY_CHUNK_SIZE
    MaxTx,       \* transactions the database commits
    MaxCrashes   \* crashes of the engine

VARIABLES
    joins,       \* the join definitions
    db,          \* the source database
    lsn,         \* its last transaction
    log,         \* events published and not yet received
    state,       \* JoinState: the rows, the indexes and their backend
    event,       \* the event being handled
    todo,        \* steps of its handling that remain
    docs,        \* the sink: documents by definition and key
    saved,       \* changes since the confirmed position
    crashes

vars == <<joins, db, lsn, log, state, event, todo, docs, saved, crashes>>

P == INSTANCE JoinPersistence

NoEvent == Event("none", "none", Null, NoRow, NoRow, 0)
Complete == Event("snapshot-complete", "none", Null, NoRow, NoRow, 0)
IsSnapshot(e) == e.lsn = 0 /\ e # Complete

\* Each table once, what a definition embeds before its primary.
build_bootstrap_tables ==
    LET named == FlattenSeq([d \in DOMAIN joins |->
                    [r \in DOMAIN joins[d].related |-> joins[d].related[r].table]
                    \o <<joins[d].table>>])
    IN  FoldLeft(LAMBDA seen, t : IF t \in Range(seen) THEN seen ELSE Append(seen, t),
                 <<>>, named)

\* snapshot_table by snapshot_table, then the sentinel.
Snapshot ==
    LET Table(t) ==
            LET keys == SetToSortSeq(DOMAIN db[t], <)
            IN  [n \in DOMAIN keys |-> Event("insert", t, keys[n], db[t][keys[n]], NoRow, 0)]
    IN  FlattenSeq([i \in DOMAIN build_bootstrap_tables |-> Table(build_bootstrap_tables[i])])
        \o <<Complete>>

(***************************************************************************)
(* JoinState.  primary_reverse holds <<relation, key, primary row>>,       *)
(* foreign_by_fk <<relation, key, foreign key>>.                           *)
(***************************************************************************)
\* load_from_backend, then with_backend.
JoinState(backend) ==
    P!load(backend) @@ [backend |-> backend, persist_enabled |-> TRUE,
                        snapshot_dump_pending |-> FALSE]
Rows(s) == [t \in DOMAIN P!EmptyTables |-> s[t]]

\* persist_backend_opt: the write also goes to the backend unless it is suspended.
Mirrored(s, backend) == IF s.persist_enabled THEN [s EXCEPT !.backend = backend] ELSE s

\* Mutant: rows read from the source stay in memory.
ForeignInMemory(s, rows) == [s EXCEPT !.foreign_rows = rows @@ @]

set_foreign(s, rows) ==
    Mirrored([s EXCEPT !.foreign_rows = rows @@ @], P!set_foreign(s.backend, rows))
delete_foreign(s, keys) ==
    Mirrored([s EXCEPT !.foreign_rows = Without(@, keys)], P!delete_foreign(s.backend, keys))
get_foreign(s, table, pk) ==
    IF <<table, pk>> \in DOMAIN s.foreign_rows THEN s.foreign_rows[<<table, pk>>] ELSE NoRow

foreign_pks_for(s, rel, key) ==
    {pk \in {x[3] : x \in s.foreign_by_fk} : <<rel.id, key, pk>> \in s.foreign_by_fk}

add_foreign_by_fk(s, links) ==
    Mirrored([s EXCEPT !.foreign_by_fk = @ \cup links], P!add_foreign_by_fk(s.backend, links))
remove_foreign_by_fk(s, links) ==
    Mirrored([s EXCEPT !.foreign_by_fk = @ \ links], P!remove_foreign_by_fk(s.backend, links))

\* A row stored with the foreign keys it was indexed under.
set_primary(s, key, row, fk_values) ==
    LET stored == [raw |-> row, fk_values |-> fk_values]
    IN  Mirrored([s EXCEPT !.primary_rows = (key :> stored) @@ @],
                 P!set_primary(s.backend, key, stored))
take_primary(s, keys) ==
    Mirrored([s EXCEPT !.primary_rows = Without(@, keys)], P!take_primary(s.backend, keys))

add_primary_reverse(s, links) ==
    Mirrored([s EXCEPT !.primary_reverse = @ \cup links], P!add_primary_reverse(s.backend, links))
remove_primary_reverse(s, links) ==
    Mirrored([s EXCEPT !.primary_reverse = @ \ links], P!remove_primary_reverse(s.backend, links))

\* take_primary_table_page, page after page: the rows and every link of theirs.
take_primary_table(s, table) ==
    LET keys == {k \in DOMAIN s.primary_rows : k[1] = table}
    IN  remove_primary_reverse(take_primary(s, keys),
                               {x \in s.primary_reverse : x[3] \in keys})

\* The links of the definition's relations stay: a later child finds its primary.
purge_related_table(s, rel) ==
    remove_foreign_by_fk(delete_foreign(s, {k \in DOMAIN s.foreign_rows : k[1] = rel.table}),
                         {x \in s.foreign_by_fk : x[1] = rel.id})

\* Undoes the links of the foreign keys stored with the row.
clear_primary_reverse(s, key) ==
    IF key \notin DOMAIN s.primary_rows THEN s
    ELSE LET fk_values == s.primary_rows[key].fk_values
         IN  remove_primary_reverse(s, {<<id, fk_values[id], key>> : id \in DOMAIN fk_values})

\* Mutant: a primary that changes its foreign key keeps its old links only.
KeepPrimaryIndexes(s, def, key, fk_values) == s

update_primary_indexes(s, def, key, fk_values) ==
    add_primary_reverse(clear_primary_reverse(s, key),
        {<<id, fk_values[id], key>> : id \in {i \in DOMAIN fk_values : fk_values[i] # Null}})

RowBefore(a, b) ==
    \/ \E i, j \in DOMAIN Tables : Tables[i] = a[1] /\ Tables[j] = b[1] /\ i < j
    \/ a[1] = b[1] /\ a[2] < b[2]

\* The first ChunkSize rows after the cursor.
Page(rows, after) ==
    LET left == {r \in rows : after = NoRow \/ RowBefore(after, r)}
    IN  {r \in left : Cardinality({q \in left : RowBefore(q, r)}) < ChunkSize}

primaries_for_keys_chunk(s, id, keys, after) ==
    Page({x[3] : x \in {y \in s.primary_reverse : y[1] = id /\ y[2] \in keys}}, after)
primaries_for_relation_chunk(s, id, after) ==
    Page({x[3] : x \in {y \in s.primary_reverse : y[1] = id}}, after)

(***************************************************************************)
(* Composition.                                                            *)
(***************************************************************************)
Shape(rel, rows) ==
    IF rel.cardinality = "one" /\ rows # {} THEN {CHOOSE r \in rows : TRUE} ELSE rows

should_reconcile_from_source(rel, def) ==
    rel.cardinality = "many" /\ def.backfill # "none"

FromState(s, rel, key) ==
    {get_foreign(s, rel.table, pk) : pk \in foreign_pks_for(s, rel, key)} \ {NoRow}

\* The source's rows for a key, for each of several keys; a null key matches none.
fetch_many(rel, key) == Related(db, rel, key)
fetch_many_batch(rel, keys) == [k \in keys |-> Related(db, rel, k)]

\* What the source returns is kept in the state.
Remember(s, rel, fetched) ==
    LET rows == UNION Range(fetched)
        stored == set_foreign(s, [k \in {<<rel.table, r.id>> : r \in rows} |->
                                     CHOOSE r \in rows : r.id = k[2]])
    IN  IF rows = {} THEN s
        ELSE add_foreign_by_fk(stored,
                UNION {{<<rel.id, k, r.id>> : r \in fetched[k]} : k \in DOMAIN fetched})

\* A key is looked up in the source unless the state has rows for it and is trusted.
Unresolved(s, def, rel, key) ==
    /\ key # Null /\ def.backfill # "none"
    /\ should_reconcile_from_source(rel, def) \/ foreign_pks_for(s, rel, key) = {}

lookup_related(s, def, rel, key) ==
    IF ~Unresolved(s, def, rel, key)
    THEN [state |-> s, rows |-> IF key = Null THEN {} ELSE Shape(rel, FromState(s, rel, key))]
    ELSE [state |-> Remember(s, rel, key :> fetch_many(rel, key)),
          rows |-> Shape(rel, fetch_many(rel, key))]

lookup_related_batch(s, def, rel, keys) ==
    LET fetched == fetch_many_batch(rel, {k \in keys : Unresolved(s, def, rel, k)})
    IN  [state |-> Remember(s, rel, fetched),
         outcomes |-> [k \in keys |->
            CASE k = Null -> {}
              [] k \in DOMAIN fetched -> Shape(rel, fetched[k])
              [] OTHER -> Shape(rel, FromState(s, rel, k))]]

Bare(s, def, key) == [row |-> s.primary_rows[key].raw,
                      embeds |-> [i \in DOMAIN def.related |-> {NoRow}]]

\* The relations of one primary row, in the order written.
compose_primary(s, def, key) ==
    LET fk_values == s.primary_rows[key].fk_values
        Embed(acc, i) ==
            LET rel == def.related[i]
                found == lookup_related(acc.state, def, rel, fk_values[rel.id])
            IN  IF rel.id \notin DOMAIN fk_values THEN acc
                ELSE [state |-> found.state, doc |-> [acc.doc EXCEPT !.embeds[i] = found.rows]]
    IN  FoldLeft(Embed, [state |-> s, doc |-> Bare(s, def, key)], [i \in DOMAIN def.related |-> i])

\* The relations of a page of primary rows of this definition's table, one lookup each.
re_emit_primary_chunk(s, def, affected) ==
    LET keys == {k \in affected : k[1] = def.table /\ k \in DOMAIN s.primary_rows}
        Fk(k) == s.primary_rows[k].fk_values
        Embed(acc, i) ==
            LET rel == def.related[i]
                with == {k \in keys : rel.id \in DOMAIN Fk(k)}
                found == lookup_related_batch(acc.state, def, rel, {Fk(k)[rel.id] : k \in with})
            IN  [state |-> found.state,
                 out |-> [k \in keys |-> IF k \in with
                    THEN [acc.out[k] EXCEPT !.embeds[i] = found.outcomes[Fk(k)[rel.id]]]
                    ELSE acc.out[k]]]
    IN  FoldLeft(Embed, [state |-> s, out |-> [k \in keys |-> Bare(s, def, k)]],
                 [i \in DOMAIN def.related |-> i])

Emit(def, out) == [k \in {<<def.name, r[2]>> : r \in DOMAIN out} |->
                      out[<<def.table, k[2]>>]] @@ docs
Tombstones(def, pks) == Without(docs, {<<def.name, pk>> : pk \in pks})

(***************************************************************************)
(* Handling an event, one (definition, relation) at a time.                *)
(***************************************************************************)
Step(step, d, r, keys, after) == [step |-> step, def |-> d, rel |-> r, keys |-> keys,
                                  after |-> after]

\* Mutant: the first match ends the routing.
RouteFirst(e) ==
    LET d == CHOOSE i \in DOMAIN joins : TRUE
    IN  IF joins[d].table = e.table THEN <<Step("primary", d, 0, {}, NoRow)>>
        ELSE <<Step("related", d, CHOOSE r \in DOMAIN joins[d].related : TRUE, {}, NoRow)>>

\* handle_inner: every definition whose primary or related table this is.
Route(e) ==
    LET truncated == e.op = "truncate" /\ \E d \in DOMAIN joins : joins[d].table = e.table
        OfDef(d) ==
            (IF joins[d].table = e.table /\ ~truncated
             THEN <<Step("primary", d, 0, {}, NoRow)>> ELSE <<>>)
            \o SelectSeq([r \in DOMAIN joins[d].related |-> Step("related", d, r, {}, NoRow)],
                          LAMBDA x : joins[d].related[x.rel].table = e.table)
    IN  (IF truncated THEN <<Step("truncate", 0, 0, {}, NoRow)>> ELSE <<>>)
        \o FlattenSeq([d \in DOMAIN joins |-> OfDef(d)])

\* A snapshot row suspends the mirroring, the sentinel arms the dump.
Receive ==
    /\ todo = <<>> /\ log # <<>>
    /\ event' = Head(log) /\ log' = Tail(log)
    /\ todo' = Route(Head(log))
    /\ state' = [state EXCEPT !.persist_enabled = @ /\ ~IsSnapshot(Head(log)),
                              !.snapshot_dump_pending = @ \/ Head(log) = Complete]
    /\ UNCHANGED <<joins, db, lsn, docs, saved, crashes>>

Doing(step) == todo # <<>> /\ Head(todo).step = step
Stays == UNCHANGED <<joins, db, lsn, log, event, saved, crashes>>

\* handle_primary_truncate: once, for every definition that shares the table.
handle_primary_truncate ==
    /\ Doing("truncate")
    /\ LET gone == {k[2] : k \in {k \in DOMAIN state.primary_rows : k[1] = event.table}}
           names == {joins[d].name : d \in {d \in DOMAIN joins : joins[d].table = event.table}}
       IN  docs' = Without(docs, names \X gone)
    /\ state' = take_primary_table(state, event.table)
    /\ todo' = Tail(todo)
    /\ Stays

\* The merge that keeps the columns a large unchanged value left out of the event.
Merged(prior) == IF event.op = "update" THEN event.row @@ prior ELSE event.row

handle_primary ==
    /\ Doing("primary")
    /\ LET def == joins[Head(todo).def]
           key == <<event.table, event.pk>>
           stored == key \in DOMAIN state.primary_rows
           row == Merged(IF stored THEN state.primary_rows[key].raw ELSE NoRow)
           fk_values == [id \in {def.related[i].id : i \in DOMAIN def.related} |->
               extract_pk(row, (CHOOSE rel \in Range(def.related) : rel.id = id).from)]
           indexed == update_primary_indexes(state, def, key, fk_values)
           kept == set_primary(indexed, key, row, fk_values)
           composed == compose_primary(kept, def, key)
       IN  IF event.op = "delete"
           THEN /\ state' = take_primary(clear_primary_reverse(state, key), {key})
                /\ docs' = Tombstones(def, {event.pk})
           ELSE /\ state' = composed.state
                /\ docs' = Emit(def, key :> composed.doc)
    /\ todo' = Tail(todo)
    /\ Stays

\* Mutants: the old parent of a child that moved is not looked up; the key of a
\* deleted child is taken from the event, which need not carry it.
ForgetOldParent(rel, prior) ==
    LET key == IF event.op = "delete" THEN extract_pk(prior, rel.to)
               ELSE extract_pk(Merged(prior), rel.to)
    IN  [key |-> key, from |-> key]

\* The join value this event is about, and the one the row had before it.
JoinKeys(rel, prior) ==
    LET key == CASE event.op # "delete" -> extract_pk(Merged(prior), rel.to)
                 [] prior # NoRow -> extract_pk(prior, rel.to)
                 [] OTHER -> extract_pk(event.old, rel.to)
    IN  [key |-> key,
         from |-> IF event.op = "update" /\ prior # NoRow THEN extract_pk(prior, rel.to) ELSE key]

handle_related ==
    /\ Doing("related")
    /\ LET now == Head(todo)
           def == joins[now.def]
           rel == def.related[now.rel]
           prior == IF event.op = "insert" THEN NoRow ELSE get_foreign(state, rel.table, event.pk)
           keys == JoinKeys(rel, prior)
           row == <<rel.table, event.pk>>
           Link(key) == {<<rel.id, key, event.pk>>}
           stored == set_foreign(state, row :> Merged(prior))
           upserted == add_foreign_by_fk(remove_foreign_by_fk(stored, Link(keys.from)),
                                         Link(keys.key))
           deleted == remove_foreign_by_fk(delete_foreign(state, {row}), Link(keys.key))
       IN  /\ state' = CASE event.op = "truncate" -> purge_related_table(state, rel)
                         [] event.op = "delete" -> deleted
                         [] OTHER -> upserted
           /\ todo' = <<Step("re-emit", now.def, now.rel,
                             IF event.op = "truncate" THEN {} ELSE {keys.key, keys.from}, NoRow)>>
                      \o Tail(todo)
    /\ UNCHANGED docs /\ Stays

\* re_emit_primaries_for_keys / _for_relation: one page and, while there are more,
\* the next.
re_emit_primaries ==
    /\ Doing("re-emit")
    /\ LET now == Head(todo)
           def == joins[now.def]
           id == def.related[now.rel].id
           chunk == IF event.op = "truncate" THEN primaries_for_relation_chunk(state, id, now.after)
                    ELSE primaries_for_keys_chunk(state, id, now.keys, now.after)
           composed == re_emit_primary_chunk(state, def, chunk)
       IN  IF chunk = {}
           THEN /\ todo' = Tail(todo)
                /\ UNCHANGED <<state, docs>>
           ELSE /\ state' = composed.state
                /\ docs' = Emit(def, composed.out)
                /\ todo' = <<[now EXCEPT !.after =
                                 CHOOSE k \in chunk : \A q \in chunk : ~RowBefore(k, q)]>>
                           \o Tail(todo)
    /\ Stays

(***************************************************************************)
(* A boundary, and a restart: the changes since the last are replayed.     *)
(***************************************************************************)
flush_state(s) ==
    IF s.snapshot_dump_pending
    THEN [s EXCEPT !.backend = P!dump_state(@, Rows(s), "source"), !.persist_enabled = TRUE,
                   !.snapshot_dump_pending = FALSE]
    ELSE [s EXCEPT !.backend = P!flush(@)]

Boundary ==
    /\ todo = <<>> /\ event # NoEvent
    /\ state' = flush_state(state)
    /\ saved' = SelectSeq(log, LAMBDA e : e.lsn > 0)
    /\ event' = NoEvent
    /\ UNCHANGED <<joins, db, lsn, log, todo, docs, crashes>>

\* build_and_run_pg_engine: a state with the source's identity is replayed, any
\* other is removed and a new snapshot is taken.
Crash ==
    /\ crashes < MaxCrashes
    /\ crashes' = crashes + 1
    /\ IF P!state_identity(state.backend) = "source"
       THEN /\ state' = JoinState(P!open(state.backend))
            /\ log' = saved
       ELSE /\ state' = JoinState(P!open(P!NewFile))
            /\ log' = Snapshot \o saved
    /\ todo' = <<>> /\ event' = NoEvent
    /\ UNCHANGED <<joins, db, lsn, docs, saved>>

Engine == Receive \/ handle_primary_truncate \/ handle_primary \/ handle_related
          \/ re_emit_primaries

\* The database commits a change and publishes its event.
Commit(change) ==
    /\ lsn < MaxTx
    /\ lsn' = lsn + 1
    /\ db' = change.db
    /\ log' = Append(log, change.event)
    /\ saved' = Append(saved, change.event)
    /\ UNCHANGED <<joins, state, event, todo, docs, crashes>>

Idle == todo = <<>> /\ log = <<>>
\* handle_inner's rule: every definition a table takes part in follows it.  Once
\* every event is handled, the sink holds exactly the documents the definitions
\* describe over the tables as they are.
DocumentsMatch ==
    Idle => \A d \in DOMAIN joins :
        LET mine == {k[2] : k \in {k \in DOMAIN docs : k[1] = joins[d].name}}
        IN  [pk \in mine |-> docs[<<joins[d].name, pk>>]] = Documents(db, joins[d])

\* Comment of take_primary_table_page: "every row and reverse link is mirrored through
\* the normal persistence mutators".  Once a boundary is through, the file of a dumped
\* state holds exactly the rows and links in memory.
StateMirrored ==
    (event = NoEvent /\ P!state_identity(state.backend) = "source")
        => P!load(state.backend) = Rows(state)
==============================================================================
