--------------------------- MODULE Neo4jDenormalize ---------------------------
(***************************************************************************)
(* Documents composed by Cypher: crates/ventstream-sources/src/neo4j/      *)
(* denormalize.rs, projection.rs and hot_endpoints.rs.  A bootstrap         *)
(* composes every primary; the tail turns a poll of change events into     *)
(* anchors (element ids), selects the primaries that reach an anchor, and   *)
(* composes those anew from the graph as it is by then, some chunks of      *)
(* primaries at a time.                                                     *)
(*                                                                          *)
(* A spec is the label of its primaries and a body: a sequence of patterns  *)
(* [from, hops] that start at the primary (from = 0) or at the nodes an     *)
(* earlier pattern ends in.  A hop has a direction and relationship types;  *)
(* without types it is one the extractor cannot invert.  The confirmation   *)
(* of a poll's cursor is the source's (Neo4jSource).                        *)
(***************************************************************************)
EXTENDS Integers, FiniteSets, Sequences, SequencesExt, TLC

CONSTANTS
    Labels,         \* the label of every node there may be
    Edges,          \* type, start and end of every relationship there may be
    BatchSize,      \* bootstrap.batch_size
    RecomposeChunk, \* recompose_chunk
    Concurrency,    \* recompose_concurrency
    DedupCapacity,  \* chunk * concurrency * 8, at least one
    MaxTx,          \* transactions the database commits
    MaxFaults       \* queries that fail

VARIABLES
    specs,      \* the denormalize specs, their fan-out mode and the hot-node threshold
    graph,      \* node values and relationships
    feed,       \* the change events in commit order
    tx,         \* the last transaction
    hot,        \* per spec, the far endpoints by relationship type
    run,        \* where the source is
    docs,       \* the sink: document, version and moment by spec and primary
    faults

vars == <<specs, graph, feed, tx, hot, run, docs, faults>>

(***************************************************************************)
(* The graph and the documents a spec asks of it.                          *)
(***************************************************************************)
Fits(hop, r, from, to) ==
    /\ hop.types = {} \/ Edges[r].type \in hop.types
    /\ \/ hop.direction # "in" /\ Edges[r].start = from /\ Edges[r].end = to
       \/ hop.direction # "out" /\ Edges[r].start = to /\ Edges[r].end = from

\* A path takes a relationship once: where it is, and what it took.
Across(g, paths, hop) ==
    UNION {{<<x, s[1][2] \cup {s[2]}>> : x \in {x \in DOMAIN g.nodes : Fits(hop, s[2], s[1][1], x)}} :
              s \in {s \in paths \X g.rels : s[2] \notin s[1][2]}}
Walk(g, ns, hops) ==
    {path[1] : path \in FoldLeft(LAMBDA acc, hop : Across(g, acc, hop), {<<n, {}>> : n \in ns}, hops)}

Primaries(g, spec) == {n \in DOMAIN g.nodes : Labels[n] = spec.primary_label}
Ends(g, spec, p, pattern) ==
    Walk(g, IF pattern.from = 0 THEN {p} ELSE Walk(g, {p}, spec.body[pattern.from].hops), pattern.hops)
Document(g, spec, p) ==
    [val |-> g.nodes[p], embeds |-> [i \in DOMAIN spec.body |->
        {<<x, g.nodes[x]>> : x \in Ends(g, spec, p, spec.body[i])}]]

Ascending(ids) ==
    [i \in 1..Cardinality(ids) |-> CHOOSE x \in ids : Cardinality({y \in ids : y < x}) = i - 1]

(***************************************************************************)
(* projection.rs: the typed paths of a body.                               *)
(***************************************************************************)
count_relationship_hops(body) == FoldLeft(LAMBDA n, pattern : n + Len(pattern.hops), 0, body)

find_primary_anchors(body) == SelectSeq(body, LAMBDA pattern : pattern.from = 0)

\* A hop of a chain that has no type, or any number of steps, cannot be inverted.
parse_rel_types(hop) == hop.types # {}
extract_chain(pattern) == \A i \in DOMAIN pattern.hops : parse_rel_types(pattern.hops[i])

\* Mutant: a pattern that starts at another variable is left out unnoticed.
ExtractAnchored(body) ==
    LET paths == find_primary_anchors(body)
    IN  [paths |-> paths, supported |-> \A i \in DOMAIN paths : extract_chain(paths[i])]

\* Every hop of the body has to be on a path from the primary.
extract_projection_paths(body) ==
    LET paths == find_primary_anchors(body)
    IN  [paths |-> paths,
         supported |-> /\ \A i \in DOMAIN paths : extract_chain(paths[i])
                       /\ count_relationship_hops(body) <= count_relationship_hops(paths)]

Lesser(a, b) == IF a <= b THEN a ELSE b
HopPrefixes(spec, path) == {SubSeq(path.hops, 1, d) : d \in 1..Lesser(Len(path.hops), spec.fan_out_max_hops)}

\* The primaries that are an anchor, or from which a typed prefix leads to one.
build_projection_call_block(g, spec, paths, eids) ==
    {p \in Primaries(g, spec) :
        \/ p \in eids
        \/ \E i \in DOMAIN paths : \E hops \in HopPrefixes(spec, paths[i]) :
               Walk(g, {p}, hops) \cap eids # {}}

AnyHop == [direction |-> "both", types |-> {}]
path_scan_where_clause(g, spec, eids) ==
    {p \in Primaries(g, spec) :
        \/ p \in eids
        \/ \E d \in 1..spec.fan_out_max_hops :
               LET near == Walk(g, {p}, [i \in 1..(d - 1) |-> AnyHop])
               IN  \/ Walk(g, {p}, [i \in 1..d |-> AnyHop]) \cap eids # {}
                   \/ \E r \in g.rels \cap eids : Edges[r].start \in near \/ Edges[r].end \in near}

build_fan_out_selector_cypher_with_config(g, spec, eids) ==
    LET extract == extract_projection_paths(spec.body)
    IN  IF specs.projection_fan_out /\ extract.supported
        THEN build_projection_call_block(g, spec, extract.paths, eids)
        ELSE path_scan_where_clause(g, spec, eids)

\* The hops --analyze-denormalize expects a spec to allow.
estimate_max_hops_in_cypher(spec) ==
    LET lengths == {Len(find_primary_anchors(spec.body)[i].hops) : i \in DOMAIN find_primary_anchors(spec.body)}
    IN  CHOOSE n \in lengths \cup {0} : \A m \in lengths : m <= n

\* Mutant: a spec one hop short is not reported.
WarnOneShort(spec) == spec.fan_out_max_hops + 1 < estimate_max_hops_in_cypher(spec)

warn_too_low(spec) == spec.fan_out_max_hops < estimate_max_hops_in_cypher(spec)
run_analyze_denormalize == \A i \in DOMAIN specs.denormalize : ~warn_too_low(specs.denormalize[i])

(***************************************************************************)
(* hot_endpoints.rs: far endpoints so few that a relationship event need    *)
(* not fan out from them.  Computed once, when the specs are validated.     *)
(***************************************************************************)
FarSide(hop) == IF hop.direction = "out" THEN "end" ELSE "start"

\* None when there are more endpoints than the threshold, or no endpoint.
count_path_endpoints(g, spec, hops) ==
    LET eids == Walk(g, Primaries(g, spec), hops)
    IN  IF Cardinality(eids) > specs.hot_node_threshold THEN {} ELSE eids

\* What the directed prefixes say of each type: <<type, side, endpoints>>.
Probes(g, spec) ==
    LET extract == extract_projection_paths(spec.body)
        prefixes == UNION {HopPrefixes(spec, extract.paths[i]) : i \in DOMAIN extract.paths}
        directed == {hops \in prefixes : Last(hops).direction # "both"
                                         /\ count_path_endpoints(g, spec, hops) # {}}
    IN  IF ~extract.supported \/ specs.hot_node_threshold = 0 THEN {}
        ELSE UNION {{<<type, FarSide(Last(hops)), count_path_endpoints(g, spec, hops)>> :
                        type \in Last(hops).types} : hops \in directed}

\* HotBuilder: a type whose far side differs between paths is not filtered.
compute_for_spec(g, spec) ==
    LET probes == Probes(g, spec)
        types == {p[1] : p \in probes}
        agreed == {t \in types : Cardinality({p[2] : p \in {q \in probes : q[1] = t}}) = 1}
    IN  [t \in agreed |->
            [far_side |-> (CHOOSE p \in probes : p[1] = t)[2],
             eids |-> UNION {p[3] : p \in {q \in probes : q[1] = t}}]]

keep_endpoints(h, e) ==
    LET filtered(side, eid) ==
            e.rel_type \in DOMAIN h /\ h[e.rel_type].far_side = side /\ eid \in h[e.rel_type].eids
    IN  {e.start, e.end} \ ({x \in {e.start} : filtered("start", x)} \cup {x \in {e.end} : filtered("end", x)})

(***************************************************************************)
(* The source.                                                             *)
(***************************************************************************)
Start == [pc |-> "validate", spec |-> 1, keys |-> <<>>, batch |-> <<>>, handled |-> 0, cursor |-> 0,
          anchors |-> <<>>, rows |-> <<>>, seen |-> {}, chunk |-> <<>>, in_flight |-> {},
          wait |-> "none"]
Unread == <<>>
Gone == [val |-> -1, embeds |-> <<>>]

Spec(i) == specs.denormalize[i]
Still == UNCHANGED <<specs, graph, feed, tx>>
KeysOf(g, spec) == Ascending(Primaries(g, spec))

\* check_no_write_clauses and check_return_contract, then EXPLAIN, which both forms pass.
Valid(spec) == ~spec.writes /\ spec.aliases
validate_specs ==
    /\ run.pc = "validate"
    /\ IF \A i \in DOMAIN specs.denormalize : Valid(Spec(i))
       THEN /\ hot' = [i \in DOMAIN specs.denormalize |-> compute_for_spec(graph, Spec(i))]
            /\ run' = [run EXCEPT !.pc = "capture"]
       ELSE run' = [run EXCEPT !.pc = "stopped"] /\ UNCHANGED hot
    /\ UNCHANGED <<docs, faults>> /\ Still

\* The cursor is captured before any scan, and the first spec's key stream opened.
run_bootstrap_all ==
    /\ run.pc = "capture"
    /\ run' = [run EXCEPT !.pc = "bootstrap", !.keys = KeysOf(graph, Spec(1)),
                          !.cursor = Len(feed), !.handled = Len(feed)]
    /\ UNCHANGED <<hot, docs, faults>> /\ Still

build_event(i, g, p, version) ==
    [spec |-> i, eid |-> p, doc |-> Document(g, Spec(i), p), version |-> version, at |-> tx]
build_delete_event(i, p, version) ==
    [spec |-> i, eid |-> p, doc |-> Gone, version |-> version, at |-> tx]
Composed(i, ps, version) ==
    [n \in 1..Len(ps) |-> build_event(i, graph, ps[n], version)]
Alive(i, ps) == SelectSeq(ps, LAMBDA p : p \in Primaries(graph, Spec(i)))

\* The sink applies writes as they come, none older than what it has.  Nothing here
\* reads the sink, so the time a write spends on the bus is left out.
Applied(writes) ==
    LET put(d, w) ==
            LET k == <<w.spec, w.eid>>
            IN  IF k \in DOMAIN d /\ d[k].version > w.version THEN d
                ELSE (k :> [doc |-> w.doc, version |-> w.version, at |-> w.at]) @@ d
    IN  FoldLeft(put, docs, writes)

\* A page of keys, composed: the key stream, not the rows of the body, says when to end.
bootstrap_one ==
    /\ run.pc = "bootstrap"
    /\ LET page == SubSeq(run.keys, 1, Lesser(BatchSize, Len(run.keys)))
           rest == SubSeq(run.keys, Len(page) + 1, Len(run.keys))
           more == run.spec < Len(specs.denormalize)
       IN  /\ docs' = Applied(Composed(run.spec, Alive(run.spec, page), 0))
           /\ run' = CASE Len(page) = BatchSize -> [run EXCEPT !.keys = rest]
                       [] more -> [run EXCEPT !.spec = @ + 1, !.keys = KeysOf(graph, Spec(run.spec + 1))]
                       [] OTHER -> [run EXCEPT !.pc = "tail", !.spec = 1, !.keys = <<>>]
    /\ UNCHANGED <<hot, faults>> /\ Still

(***************************************************************************)
(* handle_tail_events_all.                                                 *)
(***************************************************************************)
Events == ToSet(run.batch)
IsPrimaryDelete(spec, e) == e.is_node /\ e.is_delete /\ Labels[e.element_id] = spec.primary_label
Deletes(i) == {e.element_id : e \in {f \in Events : IsPrimaryDelete(Spec(i), f)}}

\* Mutant: a relationship event anchors at the relationship alone.
EventOnly(i) == {e.element_id : e \in {f \in Events : ~IsPrimaryDelete(Spec(i), f)}}

Anchors(i) ==
    UNION {{e.element_id} \cup (IF e.is_node THEN {} ELSE keep_endpoints(hot[i], e)) :
              e \in {f \in Events : ~IsPrimaryDelete(Spec(i), f)}}

batch_tx_id == Last(run.batch).tx
Chunks(eids) ==
    LET s == Ascending(eids)
    IN  [c \in 1..((Len(s) + RecomposeChunk - 1) \div RecomposeChunk) |->
            ToSet(SubSeq(s, (c - 1) * RecomposeChunk + 1, Lesser(c * RecomposeChunk, Len(s))))]

\* The poll returns what follows the cursor, handled before or not.
poll_once ==
    /\ run.pc = "tail" /\ run.cursor < Len(feed)
    /\ run' = [run EXCEPT !.pc = "deletes", !.spec = 1, !.batch = SubSeq(feed, run.cursor + 1, Len(feed))]
    /\ UNCHANGED <<hot, docs, faults>> /\ Still

\* The tombstones of a spec, then its fan-out.
emit_deletes ==
    /\ run.pc = "deletes"
    /\ LET gone == Ascending(Deletes(run.spec))
       IN  docs' = Applied([n \in DOMAIN gone |-> build_delete_event(run.spec, gone[n], batch_tx_id)])
    /\ run' = [run EXCEPT !.pc = "select", !.anchors = Chunks(Anchors(run.spec)), !.seen = {},
                          !.chunk = <<>>, !.in_flight = {}, !.wait = "none", !.rows = <<>>]
    /\ UNCHANGED <<hot, faults>> /\ Still

\* stream_affected_primaries: one selector query for a chunk of anchors.
SelectChunk ==
    /\ run.pc = "select" /\ run.wait = "none" /\ run.rows = <<>> /\ run.anchors # <<>>
    /\ run' = [run EXCEPT !.anchors = Tail(@),
                          !.rows = Ascending(build_fan_out_selector_cypher_with_config(
                                                    graph, Spec(run.spec), Head(run.anchors)))]
    /\ UNCHANGED <<hot, docs, faults>> /\ Still

Projection(ids) == [ids |-> ids, rows |-> Unread, read |-> FALSE]
Flushed(r) == IF r.chunk = <<>> THEN r
              ELSE [r EXCEPT !.in_flight = @ \cup {Projection(r.chunk)}, !.chunk = <<>>]

\* A selected primary joins the chunk; a full chunk starts, and waits when too many run.
Admit(r, p) ==
    LET s == [r EXCEPT !.rows = Tail(@), !.chunk = Append(@, p)]
        f == IF Len(s.chunk) >= RecomposeChunk THEN Flushed(s) ELSE s
    IN  IF f # s /\ Cardinality(f.in_flight) >= Concurrency THEN [f EXCEPT !.wait = "one"] ELSE f

classify(p) ==
    CASE p \in run.seen -> "duplicate"
      [] Cardinality(run.seen) >= DedupCapacity -> "rollover"
      [] OTHER -> "admit"

\* Mutant: the next generation begins with projections of this one under way.
RolloverAtOnce ==
    /\ run.pc = "select" /\ run.wait = "none" /\ run.rows # <<>>
    /\ LET p == Head(run.rows)
       IN  run' = CASE classify(p) = "duplicate" -> [run EXCEPT !.rows = Tail(@)]
                    [] classify(p) = "admit" -> Admit([run EXCEPT !.seen = @ \cup {p}], p)
                    [] OTHER -> Admit([run EXCEPT !.seen = {p}], p)
    /\ UNCHANGED <<hot, docs, faults>> /\ Still

SelectorRow ==
    /\ run.pc = "select" /\ run.wait = "none" /\ run.rows # <<>>
    /\ LET p == Head(run.rows)
       IN  run' = CASE classify(p) = "duplicate" -> [run EXCEPT !.rows = Tail(@)]
                    [] classify(p) = "admit" -> Admit([run EXCEPT !.seen = @ \cup {p}], p)
                    [] OTHER -> [Flushed(run) EXCEPT !.wait = "rollover"]
    /\ UNCHANGED <<hot, docs, faults>> /\ Still

\* FanOutDedupGeneration::begin_next, with nothing in flight.
begin_next ==
    /\ run.wait = "rollover" /\ run.in_flight = {}
    /\ run' = Admit([run EXCEPT !.seen = {Head(run.rows)}, !.wait = "none"], Head(run.rows))
    /\ UNCHANGED <<hot, docs, faults>> /\ Still

\* recompose_primary_chunk: the query, and later its rows.  A projection runs only
\* while the task awaits one.
ReadProjection ==
    /\ run.wait # "none"
    /\ \E c \in run.in_flight :
          /\ ~c.read
          /\ run' = [run EXCEPT !.in_flight = (@ \ {c}) \cup
                {[c EXCEPT !.read = TRUE, !.rows = Composed(run.spec, Alive(run.spec, c.ids), batch_tx_id)]}]
    /\ UNCHANGED <<hot, docs, faults>> /\ Still

EmitProjection ==
    /\ run.wait # "none"
    /\ \E c \in run.in_flight :
          /\ c.read
          /\ docs' = Applied(c.rows)
          /\ run' = [run EXCEPT !.in_flight = @ \ {c}, !.wait = IF @ = "one" THEN "none" ELSE @]
    /\ UNCHANGED <<hot, faults>> /\ Still

\* The anchors are used up: the last chunk starts, and all of them are awaited.
FinishSpec ==
    /\ run.pc = "select" /\ run.wait = "none" /\ run.rows = <<>> /\ run.anchors = <<>>
    /\ run' = [Flushed(run) EXCEPT !.wait = "end"]
    /\ UNCHANGED <<hot, docs, faults>> /\ Still

NextSpec ==
    /\ run.wait = "end" /\ run.in_flight = {}
    /\ run' = IF run.spec < Len(specs.denormalize)
              THEN [run EXCEPT !.pc = "deletes", !.spec = @ + 1, !.wait = "none", !.seen = {}]
              ELSE [run EXCEPT !.pc = "tail", !.spec = 1, !.wait = "none", !.seen = {},
                               !.handled = run.cursor + Len(run.batch), !.batch = <<>>]
    /\ UNCHANGED <<hot, docs, faults>> /\ Still

\* A query fails: the batch is handled again, what was composed and not sent is dropped.
QueryFails ==
    /\ run.pc = "select" /\ faults < MaxFaults
    /\ faults' = faults + 1
    /\ run' = [run EXCEPT !.pc = "deletes", !.spec = 1, !.anchors = <<>>, !.rows = <<>>, !.seen = {},
                          !.chunk = <<>>, !.in_flight = {}, !.wait = "none"]
    /\ UNCHANGED <<hot, docs>> /\ Still

\* The sink confirmed what the handled polls emitted.
drain_confirmed_cursors ==
    /\ run.pc = "tail" /\ run.cursor < run.handled
    /\ run' = [run EXCEPT !.cursor = run.handled]
    /\ UNCHANGED <<hot, docs, faults>> /\ Still

(***************************************************************************)
(* The database.                                                           *)
(***************************************************************************)
NodeEvent(n, op) == [element_id |-> n, is_node |-> TRUE, is_delete |-> op = "d", start |-> 0, end |-> 0,
                     rel_type |-> "", tx |-> tx + 1]
RelEvent(r, op) == [element_id |-> r, is_node |-> FALSE, is_delete |-> op = "d",
                    start |-> Edges[r].start, end |-> Edges[r].end, rel_type |-> Edges[r].type, tx |-> tx + 1]

Commit(g, events) ==
    /\ tx <= MaxTx
    /\ graph' = g /\ feed' = feed \o events /\ tx' = tx + 1
    /\ UNCHANGED <<specs, hot, run, docs, faults>>

SetNode(n) == Commit([graph EXCEPT !.nodes = (n :> (tx + 1)) @@ @], <<NodeEvent(n, "u")>>)
AddRel(r) ==
    /\ r \notin graph.rels /\ {Edges[r].start, Edges[r].end} \subseteq DOMAIN graph.nodes
    /\ Commit([graph EXCEPT !.rels = @ \cup {r}], <<RelEvent(r, "c")>>)
DeleteRel(r) == r \in graph.rels /\ Commit([graph EXCEPT !.rels = @ \ {r}], <<RelEvent(r, "d")>>)
DetachDelete(n) ==
    /\ n \in DOMAIN graph.nodes
    /\ LET cut == {r \in graph.rels : n \in {Edges[r].start, Edges[r].end}}
           order == Ascending(cut)
       IN  Commit([nodes |-> [m \in DOMAIN graph.nodes \ {n} |-> graph.nodes[m]], rels |-> graph.rels \ cut],
                  [i \in DOMAIN order |-> RelEvent(order[i], "d")] \o <<NodeEvent(n, "d")>>)

Source ==
    \/ validate_specs \/ run_bootstrap_all \/ bootstrap_one
    \/ poll_once \/ emit_deletes \/ SelectChunk \/ SelectorRow \/ begin_next
    \/ ReadProjection \/ EmitProjection \/ FinishSpec \/ NextSpec \/ QueryFails
    \/ drain_confirmed_cursors

Idle == run.pc = "tail" /\ run.handled = Len(feed)
Shown == [k \in {k \in DOMAIN docs : docs[k].doc # Gone} |-> docs[k].doc]
Wanted ==
    LET keys == UNION {{<<i, p>> : p \in Primaries(graph, Spec(i))} : i \in DOMAIN specs.denormalize}
    IN  [k \in keys |-> Document(graph, Spec(k[1]), k[2])]
\* With every change handled, the sink holds exactly the documents of the specs'
\* patterns over the graph, unless the analysis reports a spec with too few hops.
DocumentsMatch == Idle /\ run_analyze_denormalize => Shown = Wanted
===============================================================================
