------------------------------ MODULE Projection ------------------------------
(***************************************************************************)
(* What a joins specification asks for, and the tables it is asked of      *)
(* (crates/ventstream-joins: config.rs, key.rs; the change events of       *)
(* crates/ventstream-sources/src/postgres/event_mapper.rs).                *)
(*                                                                         *)
(* Every table has the columns id (its key), fk and val.  A row is a       *)
(* function from columns to values: an event may leave columns out.  A     *)
(* database maps a table to a function from keys to rows.  The value that  *)
(* a transaction writes is its number, so a stale value is told apart.     *)
(***************************************************************************)
EXTENDS Integers, FiniteSets, Sequences, SequencesExt, TLC

Null == 0
NoRow == <<>>
Columns == {"id", "fk", "val"}
Row(id, fk, val) == [id |-> id, fk |-> fk, val |-> val]

\* extract_pk: the value of a column, the null component when the row lacks it.
extract_pk(row, column) == IF column \in DOMAIN row THEN row[column] ELSE Null

Without(f, keys) == [k \in DOMAIN f \ keys |-> f[k]]

(***************************************************************************)
(* The reference: the documents of a definition in a database.             *)
(***************************************************************************)
RowsOf(db, table) == {db[table][k] : k \in DOMAIN db[table]}

\* Rows of the related table whose join column has this value; null joins nothing.
Related(db, rel, key) == {r \in RowsOf(db, rel.table) : key # Null /\ r[rel.to] = key}

Document(db, def, row) ==
    [row |-> row, embeds |-> [i \in DOMAIN def.related |->
        Related(db, def.related[i], row[def.related[i].from])]]

Documents(db, def) ==
    [pk \in DOMAIN db[def.table] |-> Document(db, def, db[def.table][pk])]

(***************************************************************************)
(* Changes.  A change event has the new row, the columns a large           *)
(* unchanged value keeps out of it, and the old row as far as the table's  *)
(* replica identity logs it: its key, or all of it.                        *)
(***************************************************************************)
Logged(identity, row) ==
    IF identity = "full" THEN row
    ELSE [c \in Columns |-> IF c = "id" THEN row.id ELSE Null]

Event(op, table, pk, row, old, lsn) ==
    [op |-> op, table |-> table, pk |-> pk, row |-> row, old |-> old, lsn |-> lsn]

InsertRow(db, table, pk, fk, lsn) ==
    LET row == Row(pk, fk, lsn)
    IN  [db |-> [db EXCEPT ![table] = (pk :> row) @@ @],
         event |-> Event("insert", table, pk, row, NoRow, lsn)]

\* A new foreign key leaves the value as it was and out of the event.
UpdateRow(db, table, pk, fk, lsn, identity) ==
    LET old == db[table][pk]
        moved == old.fk # fk
        row == IF moved THEN [old EXCEPT !.fk = fk] ELSE [old EXCEPT !.val = lsn]
    IN  [db |-> [db EXCEPT ![table][pk] = row],
         event |-> Event("update", table, pk,
                         IF moved THEN Without(row, {"val"}) ELSE row,
                         IF identity = "full" THEN old ELSE NoRow, lsn)]

\* The key itself changes: the old key is logged under every replica identity.
RekeyRow(db, table, pk, to, lsn, identity) ==
    LET old == db[table][pk]
        row == [old EXCEPT !.id = to]
    IN  [db |-> [db EXCEPT ![table] = (to :> row) @@ Without(@, {pk})],
         event |-> Event("update", table, to, Without(row, {"val"}),
                         Logged(identity, old), lsn)]

DeleteRow(db, table, pk, lsn, identity) ==
    [db |-> [db EXCEPT ![table] = Without(@, {pk})],
     event |-> Event("delete", table, pk, NoRow, Logged(identity, db[table][pk]), lsn)]

TruncateTable(db, table, lsn) ==
    [db |-> [db EXCEPT ![table] = <<>>],
     event |-> Event("truncate", table, Null, NoRow, NoRow, lsn)]
==============================================================================
