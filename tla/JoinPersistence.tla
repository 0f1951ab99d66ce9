--------------------------- MODULE JoinPersistence ---------------------------
(***************************************************************************)
(* PersistentBackend (crates/ventstream-joins/src/persistence.rs): the     *)
(* redb database the join engine mirrors its state into.  A backend is     *)
(* what the file holds (its four tables and the identity of the source     *)
(* they were taken from) and the one pending transaction, which sees the   *)
(* tables with its own writes.  A crash leaves the file.                   *)
(***************************************************************************)
EXTENDS TLC

NoIdentity == "none"
EmptyTables == [foreign_rows |-> <<>>, primary_rows |-> <<>>,
                primary_reverse |-> {}, foreign_by_fk |-> {}]

\* open: every table exists; tables of an existing file are kept.
open(file) == [tables |-> file.tables, identity |-> file.identity, pending |-> <<>>]
NewFile == [tables |-> EmptyTables, identity |-> NoIdentity]

state_identity(b) == b.identity

\* The pending transaction, or a fresh one.
ensure_pending_tx(b) == IF b.pending = <<>> THEN b.tables ELSE b.pending[1]
Pending(b, tables) == [b EXCEPT !.pending = <<tables>>]

\* One write each; a set of keys stands for one call per key.
set_foreign(b, rows) ==
    Pending(b, [ensure_pending_tx(b) EXCEPT !.foreign_rows = rows @@ @])

\* Mutant: a deleted row stays in the file.
KeepDeleted(b, keys) == Pending(b, ensure_pending_tx(b))

delete_foreign(b, keys) ==
    Pending(b, [ensure_pending_tx(b) EXCEPT
        !.foreign_rows = [k \in DOMAIN @ \ keys |-> @[k]]])
set_primary(b, key, row) ==
    Pending(b, [ensure_pending_tx(b) EXCEPT !.primary_rows = (key :> row) @@ @])
take_primary(b, keys) ==
    Pending(b, [ensure_pending_tx(b) EXCEPT
        !.primary_rows = [k \in DOMAIN @ \ keys |-> @[k]]])
add_primary_reverse(b, links) ==
    Pending(b, [ensure_pending_tx(b) EXCEPT !.primary_reverse = @ \cup links])
remove_primary_reverse(b, links) ==
    Pending(b, [ensure_pending_tx(b) EXCEPT !.primary_reverse = @ \ links])
add_foreign_by_fk(b, links) ==
    Pending(b, [ensure_pending_tx(b) EXCEPT !.foreign_by_fk = @ \cup links])
remove_foreign_by_fk(b, links) ==
    Pending(b, [ensure_pending_tx(b) EXCEPT !.foreign_by_fk = @ \ links])

\* Commits what is pending.
flush(b) == [b EXCEPT !.tables = ensure_pending_tx(b), !.pending = <<>>]

\* dump_state_with_identity: what is pending is flushed, then one transaction
\* replaces every table and the identity.
dump_state(b, tables, identity) ==
    [flush(b) EXCEPT !.tables = tables, !.identity = identity]

\* What a fresh engine reads back.
load(b) == b.tables
==============================================================================
