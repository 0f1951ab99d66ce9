------------------------------ MODULE MCSinks ------------------------------
(***************************************************************************)
(* The four sinks under one specification: every sink keeps the same       *)
(* promise to the dispatcher, so the promise is stated once. Init picks    *)
(* the sink and one of its scenarios; the variables of the other sinks     *)
(* stay unused. A variable several sinks declare (the scenario, the fault  *)
(* and restart counters, ...) is shared, as only one of them uses it.      *)
(***************************************************************************)
EXTENDS Integers, Sequences, FiniteSets

CONSTANTS
  Sinks,         \* the sinks to check
  None, Unknown,
  OpenSearchScenarios, MeiliScenarios, SurrealScenarios, RedisScenarios,
  Writers,       \* Redis writers
  MaxBytes, MaxAttempts, MaxRestarts, MaxFences

VARIABLES
  which, env, faults, restarts, plan, batch, phase, copy,
  now, raised, late, w, current, streak, gc, expired,
  from, uids, broke, tries, tasks, processed, index,
  lanes, token, docs, edges,
  wr, db, acked, high, fences

OpenSearch == INSTANCE OpenSearchSink WITH
  Docs <- {"a", "b", "c", "f"}, Foreign <- {"f"}, NoDoc <- None, Scenarios <- OpenSearchScenarios,
  LastPeriod <- 2, StreakLength <- 2

Meili == INSTANCE MeiliSink WITH
  Keys <- {<<"i", "a">>, <<"i", "b">>, <<"j", "a">>}, Scenarios <- MeiliScenarios, MaxDocs <- 2

Surreal == INSTANCE SurrealSink WITH
  Keys <- {"x", "y", "z"}, From <- "A", To <- "B", Edge <- "E",
  Scenarios <- SurrealScenarios, MaxDocs <- 2

Redis == INSTANCE RedisSink WITH
  Ids <- {"a", "b", "z"}, Keys <- {"a", "b", "z", "k", "l"}, Foreign <- {"z"},
  Scenarios <- RedisScenarios, MaxCommands <- 2, MinCommands <- 1, Interval <- 2

vars == <<which, OpenSearch!vars, Meili!vars, Surreal!vars, Redis!vars>>

-----------------------------------------------------------------------------
(* Scenarios *)

Ix(d, v) == [kind |-> "index", doc |-> d, old |-> None, ver |-> v, size |-> 1, fit |-> TRUE]
Dx(d, v) == [Ix(d, v) EXCEPT !.kind = "delete"]
Cx(d) == [Ix(d, 0) EXCEPT !.kind = "clear"]
Bulk(rolled, ceiling, faulty, stream) ==
  [stream |-> stream, rolled |-> rolled, ceiling |-> ceiling, faults |-> faulty]

OpenSearchMC == {
  Bulk(FALSE, 2, 2, << <<Ix("a", 2), [Ix("b", 4) EXCEPT !.fit = FALSE]>>, <<Dx("a", 6)>>,
                       <<[Ix("c", 8) EXCEPT !.old = "a"]>> >>),
  Bulk(TRUE, 1, 2, << <<Ix("a", 2)>>, <<Ix("a", 4)>>, <<[Ix("b", 6) EXCEPT !.old = "a"]>> >>),
  Bulk(FALSE, 1, 0, << <<Ix("a", 2), Cx("a"), Ix("b", 4)>>, <<Ix("a", 6)>> >>),
  Bulk(FALSE, 1, 0, << <<[Ix("a", 2) EXCEPT !.size = 2], Ix("b", 4), [Ix("f", 6) EXCEPT !.size = 4]>>,
                       <<Ix("f", 8), Cx("a"), Cx(None)>> >>),
  Bulk(FALSE, 1, 1, << <<Ix("a", 2), Cx("a")>> >>)}

(* A batch that writes rows after a TRUNCATE, and is sent again. *)
OpenSearchReplay == {Bulk(FALSE, 1, 1, << <<Ix("a", 2)>>, <<Cx("a"), Ix("b", 4), Ix("c", 6)>> >>)}

Um(i, d) == [kind |-> "upsert", index |-> i, doc |-> d, old |-> None, size |-> 1, parses |-> TRUE]
Dm(i, d) == [Um(i, d) EXCEPT !.kind = "delete"]
Tm(i) == [Um(i, None) EXCEPT !.kind = "truncate"]

MeiliMC == {
  [stream |-> << <<Um("i", "a"), Um("i", "a"), Dm("i", "a"), Um("i", "b")>>,
                 <<[Um("i", "a") EXCEPT !.old = "b"], Um("j", "a"), Tm("i"),
                   [Um("i", "b") EXCEPT !.parses = FALSE], [Um("j", "a") EXCEPT !.index = None]>> >>,
   faults |-> 2]}

Us(t, k, f) == [kind |-> "upsert", table |-> t, key |-> k, old |-> None, fk |-> f, size |-> 1, parses |-> TRUE]
Ds(t, k) == [Us(t, k, None) EXCEPT !.kind = "delete"]
Ts(t) == [Us(t, None, None) EXCEPT !.kind = "truncate"]

SurrealMC == {
  [stream |-> << <<Us("A", "x", "x"), Us("B", "x", None), Us("A", "y", "x"), Us("A", "x", "y"), Us("B", "y", None)>>,
                 <<[Us("A", "x", "y") EXCEPT !.old = "y"], Ds("A", "x"), Ts("A"), Ds("B", "x"),
                   [Us("A", "x", "y") EXCEPT !.old = "y", !.size = 9]>> >>,
   faults |-> 2],
  [stream |-> << <<Us("A", "x", None), Us("A", "y", None), Us("A", "z", None)>>, <<Us("E", "x", None)>> >>,
   faults |-> 2]}

Pr(i, k, v) == [kind |-> "put", id |-> i, old |-> None, key |-> [r1 |-> k, r2 |-> "k"], ver |-> v, ok |-> TRUE]
Dr(i, v) == [Pr(i, None, v) EXCEPT !.kind = "delete"]
Cr == [Pr(None, None, 0) EXCEPT !.kind = "clear"]
Target(mode, ack, faulty, crashes, takeover, attempts, stream) ==
  [mode |-> mode, ack |-> ack, stream |-> stream, faults |-> faulty, crashes |-> crashes, takeover |-> takeover,
   attempts |-> attempts, views |-> [v \in Writers |-> "r1"]]

RedisMC == {
  Target("direct", "primary", 1, 0, "w1", 0,
         << <<Pr("a", None, 1)>>, <<Cr, [Pr("b", None, 3) EXCEPT !.old = "a"]>> >>),
  Target("direct", "replicated", 1, 1, None, 3,
         << <<Pr("a", None, 0), Pr("b", None, 2)>>, <<Dr("b", 3), [Pr("a", None, 0) EXCEPT !.ok = FALSE], Pr("z", None, 5)>> >>),
  Target("view", "primary", 1, 0, None, 3,
         << <<Pr("a", "k", 1), Pr("b", "l", 2)>>, <<Pr("b", None, 3), Pr("a", "l", 4)>> >>),
  Target("view", "replicated", 1, 0, None, 3, << <<Pr("a", "k", 1)>>, <<Cr, Pr("b", "k", 4)>> >>),
  [Target("view", "primary", 0, 1, None, 3, << <<Pr("a", "l", 1)>>, <<Pr("b", None, 2), Dr("a", 3)>> >>)
     EXCEPT !.views["w2"] = "r2"]}

-----------------------------------------------------------------------------
NoOpenSearch == UNCHANGED <<now, raised, late, w, current, streak, gc, expired>>
NoMeili == UNCHANGED <<from, uids, broke, tries, tasks, processed, index>>
NoSurreal == UNCHANGED <<lanes, token, docs, edges>>
NoRedis == UNCHANGED <<wr, db, acked, high, fences>>

IdleOpenSearch ==
  /\ now = 0 /\ raised = 0 /\ late = 0 /\ w = 0 /\ current = 0 /\ streak = 0 /\ gc = 0 /\ expired = 0
IdleMeili ==
  /\ from = 0 /\ uids = 0 /\ broke = 0 /\ tries = 0 /\ tasks = 0 /\ processed = 0 /\ index = 0
IdleSurreal == lanes = 0 /\ token = 0 /\ docs = 0 /\ edges = 0
IdleRedis == wr = 0 /\ db = 0 /\ acked = 0 /\ high = 0 /\ fences = 0

Init ==
  /\ which \in Sinks
  /\ \/ /\ which = "opensearch" /\ OpenSearch!Init /\ IdleMeili /\ IdleSurreal /\ IdleRedis
        /\ plan = 0 /\ batch = 0 /\ phase = 0
     \/ which = "meilisearch" /\ Meili!Init /\ IdleOpenSearch /\ IdleSurreal /\ IdleRedis /\ copy = 0
     \/ which = "surrealdb" /\ Surreal!Init /\ IdleOpenSearch /\ IdleMeili /\ IdleRedis /\ copy = 0
     \/ which = "redis" /\ Redis!Init /\ IdleOpenSearch /\ IdleMeili /\ IdleSurreal /\ batch = 0 /\ phase = 0

Next ==
  /\ UNCHANGED which
  /\ \/ /\ which = "opensearch" /\ OpenSearch!Next /\ NoMeili /\ NoSurreal /\ NoRedis
        /\ UNCHANGED <<plan, batch, phase>>
     \/ which = "meilisearch" /\ Meili!Next /\ NoOpenSearch /\ NoSurreal /\ NoRedis /\ UNCHANGED copy
     \/ which = "surrealdb" /\ Surreal!Next /\ NoOpenSearch /\ NoMeili /\ NoRedis /\ UNCHANGED copy
     \/ /\ which = "redis" /\ Redis!Next /\ NoOpenSearch /\ NoMeili /\ NoSurreal
        /\ UNCHANGED <<batch, phase>>

(* The fairness of the four, one formula for each process: whoever delivers, the second *)
(* Redis writer, and the Redis server's lease clock.                                    *)
Runnable ==
  CASE which = "opensearch"  -> OpenSearch!Runnable
    [] which = "meilisearch" -> Meili!Runnable
    [] which = "surrealdb"   -> Surreal!Runnable
    [] which = "redis"       -> Redis!Runnable("w1")

Step ==
  CASE which = "opensearch" -> w' # w
    [] which = "redis"      -> wr'["w1"] # wr["w1"]
    [] OTHER                -> vars' # vars

Second == which = "redis" /\ "w2" \in Writers
SecondStep == wr'["w2"] # wr["w2"]

Fairness ==
  /\ []<>(~ Runnable) \/ []<><<Step>>_vars
  /\ []<>(~ (Second /\ Redis!Runnable("w2"))) \/ []<><<Second /\ SecondStep>>_vars
  /\ []<>(~ (which = "redis" /\ Redis!Orphaned)) \/ []<><<which = "redis" /\ db'.cur # db.cur>>_vars

Spec == Init /\ [][Next]_vars
FairSpec == Spec /\ Fairness

-----------------------------------------------------------------------------
(* The program counters, counters and records of each sink. *)
InDomains ==
  /\ which = "opensearch" => OpenSearch!TypeOK
  /\ which = "meilisearch" => Meili!TypeOK
  /\ which = "surrealdb" => Surreal!TypeOK
  /\ which = "redis" => Redis!TypeOK

(* What the dispatcher may rely on when write() returns, for each sink: the target shows *)
(* the events accepted so far, applied one after the other, whatever was retried, cut    *)
(* up, run twice, run late or run by another writer on the way.                          *)
Delivered ==
  /\ which = "opensearch" => OpenSearch!Delivered
  /\ which = "meilisearch" => Meili!Delivered
  /\ which = "surrealdb" => Surreal!Delivered
  /\ which = "redis" => Redis!Delivered

Done ==
  CASE which = "opensearch"  -> OpenSearch!Done
    [] which = "meilisearch" -> Meili!Done
    [] which = "surrealdb"   -> Surreal!Done
    [] which = "redis"       -> Redis!Done

(* Once the faults stop, every sink gets through its stream or ends up blocked on an *)
(* event that it must not drop.                                                      *)
Completes == <>[]Done

(* Redis data changes only in a step of the writer that holds both the lease and the  *)
(* lineage of the target (the scripts of execute_fenced_pipeline and the clears), and *)
(* the version it stores for a document goes back only with a clear, a failover or an *)
(* event without a version: not when an older batch is delivered again.               *)
WritesAreOrdered == [][which = "redis" => Redis!OwnerStep /\ Redis!VersionStep]_vars

(* What a sink keeps beside the documents: adaptive limits, lanes, task lists and write   *)
(* states stay in their domains whatever fails, and a Redis view that is never cleared    *)
(* shows no drift between its manifests and its documents (inspect_target) in any state.  *)
NoDrift == InDomains /\ (which = "redis" => Redis!NoDrift)
=============================================================================
