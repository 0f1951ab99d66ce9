----------------------------- MODULE SurrealSink -----------------------------
(***************************************************************************)
(* The SurrealDB sink: a batch becomes runs, the runs are laid out in one  *)
(* lane per table, the lanes drain in parallel, and graph edges derived    *)
(* from a foreign key follow the documents in the lane of the table that   *)
(* holds the key.                                                          *)
(*                                                                         *)
(* An event is [kind, table, key, old, fk, size, parses]; table and key    *)
(* are None when the header that names them is missing, old is None unless *)
(* the update changed the key, fk is None for a NULL foreign key. One edge *)
(* spec is configured: From(fk) -> To, stored in the relation table Edge.  *)
(***************************************************************************)
EXTENDS Integers, Sequences, FiniteSets, SequencesExt, FiniteSetsExt

CONSTANTS
  Keys, From, To, Edge, None,
  Scenarios,     \* [stream, faults]
  MaxDocs, MaxBytes,   \* config.batching
  MaxAttempts,   \* config.retry.max_attempts (0 is unbounded)
  MaxRestarts

VARIABLES
  env,
  batch,         \* the batch being written
  phase,         \* "idle", "run", "failed"
  plan,          \* the translation of each batch (a function of the stream)
  lanes,         \* [table -> the runs of its lane, the ones left, ...]
  token,         \* the cached bearer token: "none", "fresh" or "expired"
  docs,          \* server: the document under each record, <<0, 0>> when there is none
  edges,         \* server: the endpoint in To of each edge record, None when there is none
  faults, restarts

vars == <<env, batch, phase, plan, lanes, token, docs, edges, faults, restarts>>

Tables == {From, To}
Stream == env.stream
Event(b, o) == Stream[b][o]
Absent == <<0, 0>>

-----------------------------------------------------------------------------
(* translate_batch *)

Run(kind, t, lane, k, o, size) ==
  [kind |-> kind, table |-> t, lane |-> lane, keys |-> <<k>>, offsets |-> <<o>>, bytes |-> size]

AddTo(runs, r) ==
  IF /\ runs # << >> /\ Last(runs).kind = r.kind /\ Last(runs).table = r.table
     /\ Len(Last(runs).offsets) < MaxDocs /\ Last(runs).bytes + r.bytes <= MaxBytes
  THEN Append(Front(runs), [Last(runs) EXCEPT !.keys = @ \o r.keys, !.offsets = @ \o r.offsets,
                                              !.bytes = @ + r.bytes])
  ELSE Append(runs, r)

ResolveTable(e) == e.table

RequiredDocId(e) == e.key

(* build_document and the size estimate, both before any run is enqueued. *)
BuildsDocument(e) == e.parses /\ e.size <= MaxBytes

(* fk_components: None when a component is NULL, which means no edge. *)
FkComponents(e) == e.fk

EdgeOp(op, k, o) == [op |-> op, key |-> k, offset |-> o]

(* The edge operations of an event of the From table, replayed after the documents. *)
EdgeOps(e, o) ==
  IF e.table # From THEN << >>
  ELSE IF e.kind = "truncate" THEN <<EdgeOp("truncate", None, o)>>
  ELSE IF e.kind = "delete" THEN <<EdgeOp("delete", e.key, o)>>
  ELSE (IF e.old = None THEN << >> ELSE <<EdgeOp("delete", e.old, o)>>)
       \o <<EdgeOp(IF FkComponents(e) = None THEN "delete" ELSE "relate", e.key, o)>>

TranslateEvent(t, b, o) ==
  LET e      == Event(b, o)
      accept(runs) == [t EXCEPT !.runs = runs, !.ops = @ \o EdgeOps(e, o)]
      moved  == IF e.old = None THEN t.runs
                ELSE Append(t.runs, Run("delete", e.table, e.table, e.old, o, 1))
  IN IF \/ ResolveTable(e) = None
        \/ (e.kind # "truncate" /\ RequiredDocId(e) = None)
        \/ (e.kind = "upsert" /\ ~ BuildsDocument(e))
     THEN [t EXCEPT !.rejects = @ \cup {o}]
     ELSE CASE e.kind = "truncate" -> accept(Append(t.runs, Run("truncate", e.table, e.table, None, o, 0)))
            [] e.kind = "delete"   -> accept(AddTo(t.runs, Run("delete", e.table, e.table, e.key, o, 1)))
            [] e.kind = "upsert"   -> accept(AddTo(moved, Run("upsert", e.table, e.table, e.key, o, e.size)))

(* Edge runs come last, in event order, in the lane of the From table. *)
AppendEdge(runs, op) ==
  LET r == Run(op.op, Edge, From, op.key, op.offset, 1)
  IN IF op.op = "truncate" THEN Append(runs, r) ELSE AddTo(runs, r)

TranslateBatch(b) ==
  LET t == FoldLeftDomain(LAMBDA acc, o : TranslateEvent(acc, b, o),
                          [runs |-> << >>, rejects |-> {}, ops |-> << >>], Stream[b])
  IN [runs |-> FoldLeft(AppendEdge, t.runs, t.ops), rejects |-> t.rejects]

(* inspect_edge_relations: a relation that arrives under the name of the edge table. *)
Collides(b) == \E e \in ToSet(Stream[b]) : e.table = Edge

-----------------------------------------------------------------------------
(* The server *)

Record(r, i) == <<r.table, r.keys[i]>>
Records(r) == {Record(r, i) : i \in DOMAIN r.keys}

(* Deleting an endpoint record purges the edges attached to it (TYPE RELATION). *)
Purged(gone) ==
  [k \in Keys |-> IF <<From, k>> \in gone \/ <<To, edges[k]>> \in gone THEN None ELSE edges[k]]

DocsAfter(r) ==
  [x \in Tables \X Keys |->
     CASE r.kind = "truncate" /\ x[1] = r.table -> Absent
       [] r.kind = "delete" /\ x \in Records(r) -> Absent
       [] r.kind = "upsert" /\ x \in Records(r) ->
            <<batch, r.offsets[Max({i \in DOMAIN r.keys : Record(r, i) = x})]>>
       [] OTHER -> docs[x]]

(* The two statements of an edge run: delete the edge records, then RELATE. *)
EdgesUnrelated(r) == [k \in Keys |-> IF k \in ToSet(r.keys) \/ r.kind = "truncate" THEN None ELSE edges[k]]

EdgesRelated(r) ==
  [k \in Keys |-> LET at == {i \in DOMAIN r.keys : r.keys[i] = k}
                  IN IF at = {} THEN edges[k] ELSE FkComponents(Event(batch, r.offsets[Max(at)]))]

(* What the run's request does; a "relate" run needs a second statement after it. *)
Effect(r, half) ==
  IF r.table # Edge
  THEN /\ docs' = DocsAfter(r)
       /\ edges' = Purged({x \in Tables \X Keys : docs[x] # Absent /\ docs'[x] = Absent})
  ELSE /\ docs' = docs
       /\ edges' = IF r.kind = "relate" /\ half THEN EdgesRelated(r) ELSE EdgesUnrelated(r)

-----------------------------------------------------------------------------
(* execute_runs: one lane per lane key, each ordered unless its runs are disjoint upserts. *)

UpsertRunsAreDisjoint(rs) ==
  /\ \A i \in DOMAIN rs : rs[i].kind = "upsert" /\ IsInjective(rs[i].keys)
  /\ \A i, j \in DOMAIN rs : i # j => Records(rs[i]) \cap Records(rs[j]) = {}

Lane(runs, t) ==
  LET rs == SelectSeq(runs, LAMBDA r : r.lane = t)
  IN [runs |-> rs, left |-> DOMAIN rs, half |-> FALSE, tries |-> 1, error |-> FALSE,
      refreshed |-> FALSE, parallel |-> Len(rs) > 1 /\ UpsertRunsAreDisjoint(rs)]

StartBatch ==
  /\ phase = "idle" /\ batch < Len(Stream)
  /\ batch' = batch + 1
  /\ IF Collides(batch + 1) THEN phase' = "failed" /\ UNCHANGED lanes
     ELSE /\ phase' = "run"
          /\ lanes' = [t \in Tables |-> Lane(plan[batch + 1].runs, t)]
  /\ UNCHANGED <<env, plan, token, docs, edges, faults, restarts>>

(* The runs a lane may send now. *)
Sendable(t) ==
  IF lanes[t].error \/ phase # "run" \/ lanes[t].left = {} THEN {}
  ELSE IF lanes[t].parallel THEN lanes[t].left ELSE {Min(lanes[t].left)}

MayRetry(t) == MaxAttempts = 0 \/ lanes[t].tries < MaxAttempts

(* send_body: sign in when no token is cached, run the request. Its answer may be lost, *)
(* in which case the run is sent again.                                                 *)
SendRun(t, i) ==
  LET r    == lanes[t].runs[i]
      more == r.kind = "relate" /\ ~ lanes[t].half
  IN /\ i \in Sendable(t) /\ token # "expired"
     /\ token' = "fresh"
     /\ Effect(r, lanes[t].half)
     /\ lanes' = [lanes EXCEPT ![t].half = more, ![t].refreshed = FALSE,
                               ![t].left = IF more THEN @ ELSE @ \ {i}]
     /\ UNCHANGED <<env, batch, phase, plan, faults, restarts>>

(* A transient failure, with or without the effect: again from this run, in the budget. *)
SendRunFails(t, i) ==
  LET r == lanes[t].runs[i]
  IN /\ i \in Sendable(t) /\ token # "expired"
     /\ faults < env.faults /\ faults' = faults + 1
     /\ token' = "fresh"
     /\ Effect(r, lanes[t].half) \/ UNCHANGED <<docs, edges>>
     /\ lanes' = [lanes EXCEPT ![t].half = FALSE, ![t].tries = @ + 1, ![t].error = ~ MayRetry(t),
                               ![t].refreshed = FALSE]
     /\ UNCHANGED <<env, batch, phase, plan, restarts>>

(* A statement error that is not contention, or a refused sign-in, blocks the lane. *)
RunBlocked(t, i) ==
  /\ i \in Sendable(t)
  /\ faults < env.faults /\ faults' = faults + 1
  /\ lanes' = [lanes EXCEPT ![t].error = TRUE]
  /\ UNCHANGED <<env, batch, phase, plan, token, docs, edges, restarts>>

TokenExpires ==
  /\ token = "fresh" /\ faults < env.faults
  /\ token' = "expired" /\ faults' = faults + 1
  /\ UNCHANGED <<env, batch, phase, plan, lanes, docs, edges, restarts>>

(* A 401: one transparent new sign-in per request, the second one is final. *)
Unauthorized(t) ==
  /\ Sendable(t) # {} /\ token = "expired"
  /\ IF lanes[t].refreshed THEN lanes' = [lanes EXCEPT ![t].error = TRUE] /\ UNCHANGED token
     ELSE lanes' = [lanes EXCEPT ![t].refreshed = TRUE] /\ token' = "none"
  /\ UNCHANGED <<env, batch, phase, plan, docs, edges, faults, restarts>>

(* Every lane has drained or met its own terminal error. *)
Ended == \A t \in Tables : lanes[t].left = {} \/ lanes[t].error

FinishBatch ==
  /\ phase = "run" /\ Ended
  /\ phase' = IF \E t \in Tables : lanes[t].error THEN "failed" ELSE "idle"
  /\ UNCHANGED <<env, batch, plan, lanes, token, docs, edges, faults, restarts>>

Restart ==
  /\ phase = "failed" /\ restarts < MaxRestarts /\ ~ Collides(batch)
  /\ restarts' = restarts + 1
  /\ phase' = "run" /\ token' = "none"
  /\ lanes' = [t \in Tables |-> Lane(plan[batch].runs, t)]
  /\ UNCHANGED <<env, batch, plan, docs, edges, faults>>

Init ==
  /\ env \in Scenarios
  /\ batch = 0 /\ phase = "idle" /\ plan = [b \in DOMAIN Stream |-> TranslateBatch(b)]
  /\ lanes = [t \in Tables |-> Lane(<< >>, t)]
  /\ token = "none"
  /\ docs = [x \in Tables \X Keys |-> Absent] /\ edges = [k \in Keys |-> None]
  /\ faults = 0 /\ restarts = 0

Next ==
  \/ StartBatch
  \/ \E t \in Tables : \E i \in Sendable(t) : SendRun(t, i) \/ SendRunFails(t, i) \/ RunBlocked(t, i)
  \/ \E t \in Tables : Unauthorized(t)
  \/ TokenExpires \/ FinishBatch \/ Restart

(* A lane, or the pipeline around the lanes, can move. *)
Runnable ==
  /\ ~ (phase = "idle" /\ batch = Len(Stream))
  /\ ~ (phase = "failed" /\ (restarts = MaxRestarts \/ Collides(batch)))

(* Weak fairness of Next, with Runnable for its ENABLED. *)
Fairness == []<>(~ Runnable) \/ []<><<vars' # vars>>_vars

Spec == Init /\ [][Next]_vars

-----------------------------------------------------------------------------
(* Properties *)

TypeOK ==
  /\ batch \in 0 .. Len(Stream) /\ phase \in {"idle", "run", "failed"}
  /\ token \in {"none", "fresh", "expired"}
  /\ docs \in [Tables \X Keys -> Nat \X Nat] /\ edges \in [Keys -> Keys \cup {None}]
  /\ \A t \in Tables : lanes[t].left \subseteq DOMAIN lanes[t].runs
  /\ faults \in 0 .. env.faults /\ restarts \in 0 .. MaxRestarts

Applied(ref, b, o) ==
  LET e == Event(b, o)
  IN IF o \in plan[b].rejects THEN ref
     ELSE [x \in Tables \X Keys |->
             IF x[1] # e.table THEN ref[x]
             ELSE IF e.kind = "truncate" THEN Absent
             ELSE IF x[2] = e.key THEN (IF e.kind = "upsert" THEN <<b, o>> ELSE Absent)
             ELSE IF x[2] = e.old THEN Absent
             ELSE ref[x]]

Reference(n) ==
  FoldLeftDomain(LAMBDA ref, b : FoldLeftDomain(LAMBDA r, o : Applied(r, b, o), ref, Stream[b]),
                 [x \in Tables \X Keys |-> Absent], SubSeq(Stream, 1, n))

(* The edges the documents call for: one per row whose foreign key is set. *)
EdgesOf(ds) ==
  [k \in Keys |-> IF ds[From, k] = Absent THEN None
                  ELSE FkComponents(Event(ds[From, k][1], ds[From, k][2]))]

(* Between batches the documents are what the accepted events say, one after another, *)
(* and the edges are exactly the foreign keys of those documents, however the lanes   *)
(* interleaved and whatever was sent twice.                                           *)
Delivered ==
  phase = "idle" => docs = Reference(batch) /\ edges = EdgesOf(docs)

(* The last batch is answered for, or a batch names the relation table of the edges. *)
Done == (phase = "idle" /\ batch = Len(Stream)) \/ (batch > 0 /\ Collides(batch))

Completes == <>[]Done
==============================================================================
