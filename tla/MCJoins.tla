------------------------------- MODULE MCJoins -------------------------------
(***************************************************************************)
(* The four ways documents are composed, one per behaviour (kind): the     *)
(* durability protocol of the in-memory join engine (JoinBoundary), what   *)
(* that engine computes, the SQL denormalizers and the graph denormalizer. *)
(* The tables are orders with their customer and their items; the graph    *)
(* has two primaries next to each other that share a neighbour.            *)
(* Variables of a component that does not run stay at Unused.              *)
(***************************************************************************)
EXTENDS JoinBoundary, TLC

CONSTANTS
    Kinds,         \* the components this run chooses from
    Definitions,   \* what the in-memory engine may be configured with
    GraphSpecs     \* what the graph denormalizer may be configured with

VARIABLES
    kind,
    setup,         \* the definitions the component runs with
    log,           \* change events
    docs,          \* the sink's documents
    run,           \* the component's own state
    faults,
    db, lsn, event, todo, saved,
    env, history, taken, sent, durability, cursor,
    graph, tick, hot

E == INSTANCE JoinEngine WITH
        Tables <- <<"customers", "items", "orders">>, ChunkSize <- 1, MaxTx <- 2,
        MaxCrashes <- 1, joins <- setup, state <- run, crashes <- faults
S == INSTANCE SqlDenormalize WITH
        ChunkSize <- 1, BatchLimit <- 2, Lookahead <- 2, MaxTx <- 2, MaxFaults <- 1,
        def <- setup

GraphLabels == <<"P", "P", "Y", "X">>
GraphEdges ==
    (11 :> [type |-> "IN", start |-> 1, end |-> 3]) @@ (12 :> [type |-> "IN", start |-> 2, end |-> 3])
    @@ (13 :> [type |-> "OF", start |-> 3, end |-> 4]) @@ (14 :> [type |-> "NEAR", start |-> 1, end |-> 2])

G == INSTANCE Neo4jDenormalize WITH
        Labels <- GraphLabels, Edges <- GraphEdges, BatchSize <- 1, RecomposeChunk <- 1,
        Concurrency <- 2, DedupCapacity <- 1, MaxTx <- 2, MaxFaults <- 1,
        specs <- setup, feed <- log, tx <- tick

engineVars == <<db, lsn, event, todo, saved>>
sqlVars == <<env, history, taken, sent, durability, cursor>>
graphVars == <<graph, tick, hot>>
documentVars == <<kind, setup, log, docs, run, faults, engineVars, sqlVars, graphVars>>
joinsVars == <<vars, documentVars>>

MCRowOf == <<1, 0, 1, 0>>
MCPoison == {2}

-----------------------------------------------------------------------------
\* Configurations.
Rel(id, of, from, to, cardinality) ==
    [id |-> id, table |-> of, from |-> from, to |-> to, cardinality |-> cardinality]
Customer == Rel("customer", "customers", "fk", "id", "one")
Def(name, of, related, backfill) ==
    [name |-> name, table |-> of, backfill |-> backfill, related |-> related]
OrdersDef(b) ==
    Def("orders", "orders", <<Customer, Rel("items", "items", "id", "fk", "many")>>, b)
CustomersDef(b) ==
    Def("customers", "customers", <<Rel("orders", "orders", "id", "fk", "many")>>, b)

\* Each table primary in at most one definition, and related in others.
OwnTables == {<<OrdersDef("none"), CustomersDef("none")>>, <<OrdersDef("sync_on_miss")>>}
\* Two definitions of one primary table.
SharedTable == {<<OrdersDef("none"), Def("buyers", "orders", <<Rel("buyer", "customers", "fk", "id", "one")>>, "none")>>}

Envs == {[kind |-> "postgres", identity |-> "full", ordered |-> TRUE, parallel |-> TRUE, lookup |-> FALSE],
         [kind |-> "postgres", identity |-> "key", ordered |-> FALSE, parallel |-> TRUE, lookup |-> TRUE],
         [kind |-> "mysql", identity |-> "full", ordered |-> TRUE, parallel |-> FALSE, lookup |-> FALSE]}

Hop(direction, type) == [direction |-> direction, types |-> {type}]
Pattern(from, hops) == [from |-> from, hops |-> hops]
GraphSpec(label, body, hops) ==
    [primary_label |-> label, body |-> body, fan_out_max_hops |-> hops, writes |-> FALSE, aliases |-> TRUE]
Graph(specs, fan_out, threshold) ==
    [denormalize |-> specs, projection_fan_out |-> fan_out, hot_node_threshold |-> threshold]

Chain == GraphSpec("P", <<Pattern(0, <<Hop("out", "IN"), Hop("out", "OF")>>)>>, 2)
Reanchored == GraphSpec("P", <<Pattern(0, <<Hop("out", "IN")>>), Pattern(1, <<Hop("out", "OF")>>)>>, 2)
Near == GraphSpec("P", <<Pattern(0, <<Hop("out", "NEAR")>>)>>, 1)
Members == GraphSpec("Y", <<Pattern(0, <<Hop("in", "IN")>>)>>, 1)

OneWayTypes == {Graph(<<Chain>>, TRUE, 1), Graph(<<Chain>>, FALSE, 1), Graph(<<Reanchored>>, TRUE, 1),
                Graph(<<Near, Members>>, TRUE, 1), Graph(<<[Chain EXCEPT !.fan_out_max_hops = 1]>>, TRUE, 0),
                Graph(<<[Chain EXCEPT !.writes = TRUE]>>, TRUE, 0)}

-----------------------------------------------------------------------------
Unused == 0
Tables == [customers |-> (1 :> E!Row(1, E!Null, 0)), items |-> (1 :> E!Row(1, 1, 0)),
           orders |-> (1 :> E!Row(1, 1, 0))]
MoreOrders == [Tables EXCEPT !.orders = @ @@ (2 :> E!Row(2, 1, 0))]

NoEngine == db = Unused /\ lsn = Unused /\ event = Unused /\ todo = Unused /\ saved = Unused
NoSql == /\ env = Unused /\ history = Unused /\ taken = Unused /\ sent = Unused
         /\ durability = Unused /\ cursor = Unused
NoGraph == graph = Unused /\ tick = Unused /\ hot = Unused

BoundaryInit ==
    /\ kind = "boundary" /\ setup = Unused /\ log = Unused /\ docs = Unused /\ run = Unused /\ faults = Unused
    /\ NoEngine /\ NoSql /\ NoGraph
EngineInit ==
    /\ kind = "engine" /\ setup \in Definitions
    /\ db = MoreOrders /\ lsn = 0
    /\ log = E!Snapshot /\ run = E!JoinState(E!P!open(E!P!NewFile))
    /\ event = E!NoEvent /\ todo = <<>> /\ docs = <<>> /\ saved = <<>> /\ faults = 0
    /\ NoSql /\ NoGraph
SqlInit ==
    /\ kind = "sql" /\ setup = OrdersDef("none") /\ env \in Envs /\ history = <<Tables>>
    /\ log = <<>> /\ taken = 0 /\ run = S!Boot(0) /\ sent = <<>> /\ docs = <<>>
    /\ durability = S!Fresh /\ cursor = 0 /\ faults = 0
    /\ NoEngine /\ NoGraph
GraphInit ==
    /\ kind = "graph" /\ setup \in GraphSpecs
    /\ graph = [nodes |-> [n \in DOMAIN GraphLabels |-> 1], rels |-> DOMAIN GraphEdges]
    /\ log = <<>> /\ tick = 1 /\ hot = <<>> /\ run = G!Start /\ docs = <<>> /\ faults = 0
    /\ NoEngine /\ NoSql

JoinsInit ==
    /\ Init
    /\ BoundaryInit \/ EngineInit \/ SqlInit \/ GraphInit
    /\ kind \in Kinds

-----------------------------------------------------------------------------
\* What the databases change: keys and foreign keys of each table.  An item keeps
\* its order where the engine reads from the source or events lack the pre-image.
Pks(t) == IF t = "orders" THEN {1, 2} ELSE {1}
Fks(t, kept) ==
    CASE t = "orders" -> {E!Null, 1}
      [] t = "items" -> IF kept THEN {1} ELSE {1, 2}
      [] OTHER -> {E!Null}

\* No TRUNCATE of a primary table while its first snapshot may have to be repeated.
Truncatable(t) ==
    \/ \A d \in DOMAIN setup : setup[d].table # t
    \/ faults > 0 \/ run.backend.identity # E!P!NoIdentity

EngineChanges(t) ==
    LET fks == Fks(t, setup[1].backfill # "none")
    IN  {E!InsertRow(db, t, k, f, lsn + 1) : k \in Pks(t) \ DOMAIN db[t], f \in fks}
        \cup {E!UpdateRow(db, t, k, f, lsn + 1, "key") : k \in DOMAIN db[t], f \in fks}
        \cup {E!DeleteRow(db, t, k, lsn + 1, "key") : k \in DOMAIN db[t]}
        \cup {E!TruncateTable(db, t, lsn + 1) : x \in {Truncatable(t)} \ {FALSE}}

\* Customers are only updated here, and a bulk beside others holds no TRUNCATE of the
\* primary table.
SqlChanges(t) ==
    LET rows == DOMAIN S!Db[t]
        at == S!Lsn + 1
        free == Pks(t) \ rows
        primary == t = "orders"
    IN  {E!UpdateRow(S!Db, t, k, f, at, env.identity) : k \in rows, f \in Fks(t, env.identity = "key")}
        \cup (IF t = "customers" THEN {}
              ELSE {E!InsertRow(S!Db, t, k, 1, at) : k \in free}
                   \cup {E!DeleteRow(S!Db, t, k, at, env.identity) : k \in rows}
                   \cup {E!TruncateTable(S!Db, t, at) : x \in {env.parallel /\ primary} \ {TRUE}})
        \cup {E!RekeyRow(S!Db, t, k, j, at, env.identity) : k \in IF primary THEN rows ELSE {}, j \in free}

TableNames == {"orders", "customers", "items"}

EngineNext ==
    /\ kind = "engine"
    /\ \/ E!Engine \/ E!Boundary \/ E!Crash
       \/ \E t \in TableNames : \E c \in EngineChanges(t) : E!Commit(c)
    /\ UNCHANGED <<vars, kind, sqlVars, graphVars>>
SqlNext ==
    /\ kind = "sql"
    /\ \/ S!Denormalizer \/ S!Sink \/ S!SourceAck \/ S!QueryFails \/ S!Crash
       \/ \E t \in TableNames : \E c \in SqlChanges(t) : S!Commit(c)
    /\ UNCHANGED <<vars, kind, engineVars, graphVars>>
GraphNext ==
    /\ kind = "graph"
    /\ \/ G!Source
       \/ \E n \in {3, 4} \cap DOMAIN graph.nodes : G!SetNode(n)
       \/ \E r \in {11, 13, 14} : G!AddRel(r) \/ G!DeleteRel(r)
       \/ \E n \in {1, 3} : G!DetachDelete(n)
    /\ UNCHANGED <<vars, kind, engineVars, sqlVars>>
BoundaryNext == kind = "boundary" /\ Next /\ UNCHANGED documentVars

\* Nothing is left to do, or the graph denormalizer refused its specs.
Finished ==
    \/ kind = "engine" /\ E!Idle
    \/ kind = "sql" /\ S!Idle
    \/ kind = "graph" /\ (G!Idle \/ run.pc = "stopped")
Rest == (kind = "boundary" \/ Finished) /\ UNCHANGED joinsVars

JoinsNext == BoundaryNext \/ EngineNext \/ SqlNext \/ GraphNext \/ Rest
JoinsSpec ==
    /\ JoinsInit /\ [][JoinsNext]_joinsVars
    /\ WF_vars(kind = "boundary" /\ Source) /\ WF_vars(kind = "boundary" /\ Ack)
    /\ WF_vars(kind = "boundary" /\ JoinTask) /\ WF_vars(kind = "boundary" /\ Dispatch)
    /\ WF_vars(kind = "boundary" /\ Restart)

-----------------------------------------------------------------------------
\* However documents are composed, the sink ends up with exactly the documents the
\* definitions describe over the source as it is (handle_inner and
\* re_emit_primaries; recompose and settle; stream_affected_primaries).
DocumentsMatch ==
    /\ kind = "engine" => E!DocumentsMatch
    /\ kind = "sql" => S!DocumentsMatch
    /\ kind = "graph" => G!DocumentsMatch

\* Once a boundary is through, what a restart would load is what the engine holds:
\* row by row in the protocol, and in every table and index of the join state
\* (commit_durable_boundary, flush_state, the write-through mutators of JoinState).
StatePersisted == BoundaryPersistsState /\ (kind = "engine" => E!StateMirrored)

\* The SQL denormalizers confirm no position the sink has not caught up with (settle).
ConfirmedIsApplied == kind = "sql" => S!ConfirmedIsApplied

\* stream_affected_primaries: a re-dirtied primary "can never overlap an older
\* projection and stale-overwrite its result".
NeverOlder ==
    [][kind = "graph" => \A k \in DOMAIN docs : docs'[k].at >= docs[k].at]_joinsVars
==============================================================================
