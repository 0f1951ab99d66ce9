------------------------------ MODULE RedisSink ------------------------------
(***************************************************************************)
(* The Redis sink: writers that may overlap (a restart, a handoff, a       *)
(* duplicate) deliver the same stream to one target, each under a lease    *)
(* with a durable lineage; values carry the source version that wrote     *)
(* them; views keep a manifest per source document and an owner per key.   *)
(* One target, the materialized-view contract (no TTL), one primary with   *)
(* one replica.                                                            *)
(*                                                                         *)
(* An event is [kind, id, old, key, ver, ok]: kind is "put", "delete" or   *)
(* "clear"; old is the previous id of a key-changing update; key gives,    *)
(* for each revision of the view definitions, the key the document         *)
(* materializes to (None when the filter or a missing placeholder removes  *)
(* it); ver is 0 when no version header is set; ok is FALSE when the       *)
(* payload or a header fails validation.                                   *)
(***************************************************************************)
EXTENDS Integers, Sequences, FiniteSets, SequencesExt, FiniteSetsExt

CONSTANTS
  Writers, Ids, Keys, None, Unknown,
  Foreign,        \* keys that hold a value of another type (RedisJSON only)
  Scenarios,      \* [mode, ack, stream, faults, crashes, takeover, attempts, views]: views gives the
                  \* revision of the view definitions each writer has; faults and crashes are bounds
  MaxCommands,    \* MAX_PIPELINE_COMMANDS
  MinCommands,    \* MIN_PIPELINE_COMMANDS
  Interval,       \* RECOVERY_SUCCESS_INTERVAL
  MaxFences

VARIABLES
  env,
  plan,           \* the prepared operations of each batch under each command limit
  wr,             \* the writers
  db, copy,       \* the primary, its replica
  acked,          \* batches the source cursor has moved past
  high,           \* the furthest batch any writer has started
  fences, faults, restarts

vars == <<env, plan, wr, db, copy, acked, high, fences, faults, restarts>>

Stream == env.stream
Event(b, o) == Stream[b][o]
Absent == <<0, 0>>
View == env.mode = "view"

-----------------------------------------------------------------------------
(* Preparing a batch *)

(* durable_source_version: the first version header present; zero counts as none. *)
SourceVersion(e) == e.ver

(* key_parts and the size and JSON checks of an event routed by document id. *)
KeyParts(e) == e.ok /\ e.id # None

(* The same for a view, which blocks delivery: dropping the event would leave the *)
(* older materialization visible.                                                 *)
ViewParts(e) == e.ok /\ e.id # None

(* materialize: Remove, or the rendered key. *)
Materialize(e, rev) == IF e.kind = "delete" THEN None ELSE e.key[rev]

Command(op, id, key, e, v) == [op |-> op, id |-> id, key |-> key, ver |-> SourceVersion(e), val |-> v]

(* The commands of one event, direct routing: the old key goes first. *)
DirectCommands(e, v) ==
  IF e.kind = "delete" THEN <<Command("D", e.id, e.id, e, v)>>
  ELSE (IF e.old = None THEN << >> ELSE <<Command("D", e.old, e.old, e, v)>>)
       \o <<Command("S", e.id, e.id, e, v)>>

(* The command of one event for the view: remove or move the source's entry. *)
ViewCommands(e, v, rev) ==
  <<Command(IF Materialize(e, rev) = None THEN "D" ELSE "S", e.id, Materialize(e, rev), e, v)>>

Clear == [op |-> "clear", cmds |-> << >>]

Flush(t) ==
  IF t.open = << >> THEN t
  ELSE [t EXCEPT !.ops = Append(@, [op |-> "pipeline", cmds |-> t.open]), !.open = << >>]

AddEvent(t, b, o, limit, rev) ==
  LET e    == Event(b, o)
      cmds == IF View THEN ViewCommands(e, <<b, o>>, rev) ELSE DirectCommands(e, <<b, o>>)
      full == Len(t.open) + (IF View THEN Len(cmds) - 1 ELSE 0) >= limit
      room == IF full THEN Flush(t) ELSE t
  IN IF e.kind = "clear" THEN LET f == Flush(t) IN [f EXCEPT !.ops = Append(@, Clear)]
     ELSE IF View /\ ~ ViewParts(e) THEN [t EXCEPT !.blocked = TRUE]
     ELSE IF ~ View /\ ~ KeyParts(e) THEN [t EXCEPT !.rejected = @ \cup {o}]
     ELSE [room EXCEPT !.open = @ \o cmds]

PrepareBatch(b, limit, rev) ==
  Flush(FoldLeftDomain(LAMBDA t, o : AddEvent(t, b, o, limit, rev),
                       [ops |-> << >>, open |-> << >>, rejected |-> {}, blocked |-> FALSE],
                       Stream[b]))

-----------------------------------------------------------------------------
(* The scripts, each atomic on the primary *)

(* Mutant: the stored version is not compared. *)
NeverNewer(stored, incoming) == FALSE

StoredIsNewer(stored, incoming) == stored > incoming

Stale(stored, incoming) == incoming # 0 /\ StoredIsNewer(stored, incoming)

(* RedisJSON alone refuses to overwrite a value of another type. *)
WrongType(c) == c.op = "S" /\ c.key \in Foreign

(* One command of the direct scripts; the last accepted version stays as a tombstone. *)
DirectStep(t, c) ==
  IF Stale(t.man[c.id].ver, c.ver) \/ WrongType(c) THEN t
  ELSE [t EXCEPT !.data[c.key] = IF c.op = "S" THEN c.val ELSE Absent,
                 !.man[c.id].ver = IF c.ver = 0 THEN @ ELSE c.ver]

RunDirect(s, cmds) == FoldLeft(DirectStep, s, cmds)

(* First pass of the view script: accept or skip each command against a virtual state. *)
(* A manifest is read from Redis once; the tables hold what accepted commands made it. *)
ViewCheck(t, c, s) ==
  LET known   == c.id \in t.loaded
      old     == IF known THEN t.key[c.id] ELSE s.man[c.id].key
      stored  == IF known THEN t.ver[c.id] ELSE s.man[c.id].ver
      seen    == [t EXCEPT !.loaded = @ \cup {c.id}]
      Present(u, k) == IF u.present[k] = Unknown THEN s.data[k] # Absent ELSE u.present[k] = "yes"
      Owner(u, k)   == IF u.owner[k] = Unknown THEN s.owner[k] ELSE u.owner[k]
      freed   == IF old = None THEN seen
                 ELSE [seen EXCEPT !.present[old] = "no", !.owner[old] = None,
                                   !.error = @ \/ (Present(t, old) /\ Owner(t, old) # c.id)]
      taken   == IF c.op = "D" THEN [freed EXCEPT !.key[c.id] = None]
                 ELSE [freed EXCEPT !.present[c.key] = "yes", !.owner[c.key] = c.id, !.key[c.id] = c.key,
                                    !.error = @ \/ (Present(freed, c.key) /\ Owner(freed, c.key) # c.id)]
  IN IF Stale(stored, c.ver) THEN [seen EXCEPT !.accepted = Append(@, FALSE)]
     ELSE [taken EXCEPT !.ver[c.id] = c.ver, !.accepted = Append(@, TRUE)]

ViewChecked(s, cmds) ==
  FoldLeft(LAMBDA t, c : ViewCheck(t, c, s),
           [loaded |-> {}, key |-> [i \in Ids |-> None], ver |-> [i \in Ids |-> 0],
            present |-> [k \in Keys |-> Unknown], owner |-> [k \in Keys |-> Unknown],
            accepted |-> << >>, error |-> FALSE], cmds)

(* Mutant: the owner record of the key the entry moves away from is left behind. *)
ApplyKeepsOldOwner(t, c) ==
  LET old == t.man[c.id].key
      gone == IF old # None /\ t.owner[old] = c.id THEN [t EXCEPT !.data[old] = Absent] ELSE t
      put  == IF c.op = "D" THEN gone
              ELSE [gone EXCEPT !.data[c.key] = c.val, !.owner[c.key] = c.id]
  IN [put EXCEPT !.man[c.id] = [key |-> IF c.op = "D" THEN None ELSE c.key, ver |-> c.ver]]

(* Second pass: apply an accepted command. *)
ViewApply(t, c) ==
  LET old  == t.man[c.id].key
      gone == IF old # None /\ t.owner[old] = c.id
              THEN [t EXCEPT !.data[old] = Absent, !.owner[old] = None] ELSE t
      put  == IF c.op = "D" THEN gone
              ELSE [gone EXCEPT !.data[c.key] = c.val, !.owner[c.key] = c.id]
  IN [put EXCEPT !.man[c.id] = [key |-> IF c.op = "D" THEN None ELSE c.key, ver |-> c.ver]]

RunView(s, cmds) ==
  LET ok == ViewChecked(s, cmds).accepted
  IN FoldLeftDomain(LAMBDA t, i : IF ok[i] THEN ViewApply(t, cmds[i]) ELSE t, s, cmds)

Refused(s, cmds) == View /\ ViewChecked(s, cmds).error

RunScript(s, cmds) == IF View THEN RunView(s, cmds) ELSE RunDirect(s, cmds)

(* The key classes a clear scans one after another. *)
Classes == IF View THEN <<"data", "owner", "manifest">> ELSE <<"data", "manifest">>

Matching(s, class) ==
  CASE class = "data"     -> {k \in Keys : s.data[k] # Absent}
    [] class = "owner"    -> {k \in Keys : s.owner[k] # None}
    [] class = "manifest" -> {i \in Ids : s.man[i] # [key |-> None, ver |-> 0]}

Unlink(s, class, ks) ==
  CASE class = "data"     -> [s EXCEPT !.data = [k \in Keys |-> IF k \in ks THEN Absent ELSE @[k]]]
    [] class = "owner"    -> [s EXCEPT !.owner = [k \in Keys |-> IF k \in ks THEN None ELSE @[k]]]
    [] class = "manifest" -> [s EXCEPT !.man = [i \in Ids |-> IF i \in ks THEN [key |-> None, ver |-> 0] ELSE @[i]]]

-----------------------------------------------------------------------------
(* The writer fence *)

(* Mutant: the scripts check the lineage and not the lease. *)
FencedByLineage(w) == db.lin # wr[w].tok

Fenced(w) == db.cur # wr[w].tok

(* acquire_writer_fence: a free target, or the handoff from the writer named. *)
MayAcquire(w) ==
  \/ db.cur = None
  \/ db.lin = db.cur /\ env.takeover # None /\ db.cur # None /\ db.cur[1] = env.takeover /\ w # env.takeover

Granted(w) == [db EXCEPT !.cur = <<w, fences + 1>>, !.lin = <<w, fences + 1>>]

(* renew_writer_fence: the lease is still this one, or lapsed with nobody after it. *)
MayRenew(w) == db.lin = wr[w].tok /\ db.cur \in {None, wr[w].tok}

-----------------------------------------------------------------------------
(* The writers *)

Prepared(w, b, limit) == plan[b][limit][env.views[w]]
Ops(w) == IF wr[w].reset THEN <<Clear>> ELSE Prepared(w, wr[w].batch, wr[w].limit0).ops
Op(w) == Ops(w)[wr[w].pos]

Idle(b) == [st |-> "idle", batch |-> b, pos |-> 1, tok |-> None, fenced |-> FALSE, class |-> 1,
            found |-> {}, limit |-> MaxCommands, limit0 |-> MaxCommands, streak |-> 0, reset |-> FALSE]

IncreaseTowards(limit) == Min({2 * limit, MaxCommands})

ReduceHalf(limit) == Max({limit \div 2, MinCommands})

OnSuccess(r) ==
  IF (r.streak + 1) % Interval = 0 THEN [r EXCEPT !.streak = 0, !.limit = IncreaseTowards(@)]
  ELSE [r EXCEPT !.streak = @ + 1]

OnTransientFailure(r, pressure) ==
  [r EXCEPT !.st = "run", !.fenced = FALSE, !.streak = 0,
            !.limit = IF pressure THEN ReduceHalf(@) ELSE @]

(* Mutant: a batch that has more operations starts over with the first. *)
AdvanceStartsOver(r, n) ==
  IF n > 1 THEN [OnSuccess(r) EXCEPT !.st = "run", !.pos = 1, !.fenced = FALSE]
  ELSE [OnSuccess(r) EXCEPT !.st = "idle", !.pos = 1, !.fenced = FALSE]

(* The next operation, or the end of the batch. *)
Advance(r, n) ==
  IF r.pos < n THEN [OnSuccess(r) EXCEPT !.st = "run", !.pos = @ + 1, !.fenced = FALSE, !.class = 1, !.found = {}]
  ELSE [OnSuccess(r) EXCEPT !.st = "idle", !.pos = 1, !.fenced = FALSE, !.class = 1, !.found = {}]

Set(w, r) == wr' = [wr EXCEPT ![w] = r]
Fault == faults < env.faults /\ faults' = faults + 1

(* connect_internal: the capability probes, then the schema check of a view target. *)
Compatible(w) == ~ View \/ db.schema \in {None, env.views[w]}

StartWriter(w) ==
  /\ wr[w].st = "off" /\ Compatible(w)
  /\ Set(w, Idle(acked))
  /\ db' = [db EXCEPT !.schema = IF View THEN env.views[w] ELSE @]
  /\ UNCHANGED <<env, plan, copy, acked, high, fences, faults, restarts>>

Alive(w) == wr[w].st \notin {"off", "failed", "blocked"}

(* reset_owned_targets: the drain of a changed view definition, with every other writer *)
(* stopped. The targets are cleared under the fence, then the stored schema is replaced *)
(* and the source starts over with a snapshot.                                          *)
BeginReset(w) ==
  /\ wr[w].st = "off" /\ ~ Compatible(w) /\ \A v \in Writers \ {w} : ~ Alive(v)
  /\ Set(w, [Idle(acked) EXCEPT !.st = "run", !.reset = TRUE])
  /\ UNCHANGED <<env, plan, db, copy, acked, high, fences, faults, restarts>>

ReplaceSchema(w) ==
  /\ wr[w].reset /\ wr[w].st = "idle"
  /\ db' = [db EXCEPT !.schema = env.views[w]]
  /\ Set(w, [Idle(0) EXCEPT !.st = "off"])
  /\ acked' = 0 /\ high' = 0
  /\ UNCHANGED <<env, plan, copy, fences, faults, restarts>>

StartBatch(w) ==
  LET b == wr[w].batch + 1
      p == Prepared(w, b, wr[w].limit)
  IN /\ wr[w].st = "idle" /\ ~ wr[w].reset /\ b <= Len(Stream)
     /\ Set(w, [wr[w] EXCEPT !.batch = b, !.limit0 = wr[w].limit,
                             !.st = IF p.blocked THEN "blocked" ELSE IF p.ops = << >> THEN "idle" ELSE "run"])
     /\ high' = Max({high, b})
     /\ acked' = IF ~ p.blocked /\ p.ops = << >> THEN b ELSE acked
     /\ UNCHANGED <<env, plan, db, copy, fences, faults, restarts>>

(* ensure_writer_fence with no fence held: the fence is remembered before it is acknowledged. *)
AcquireFence(w) ==
  /\ wr[w].st = "run" /\ ~ wr[w].fenced /\ wr[w].tok = None
  /\ fences < MaxFences /\ MayAcquire(w)
  /\ db' = Granted(w) /\ fences' = fences + 1
  /\ \/ /\ Set(w, [wr[w] EXCEPT !.tok = db'.cur, !.fenced = TRUE])
        /\ copy' = (IF env.ack = "replicated" THEN db' ELSE copy) /\ UNCHANGED faults
     \/ /\ env.ack = "replicated" /\ Fault
        /\ Set(w, [OnTransientFailure(wr[w], TRUE) EXCEPT !.tok = db'.cur]) /\ UNCHANGED copy
     \/ Fault /\ UNCHANGED <<wr, copy>>
  /\ UNCHANGED <<env, plan, acked, high, restarts>>

RenewFence(w) ==
  /\ wr[w].st = "run" /\ ~ wr[w].fenced /\ wr[w].tok # None /\ MayRenew(w)
  /\ db' = [db EXCEPT !.cur = wr[w].tok]
  /\ Set(w, [wr[w] EXCEPT !.fenced = TRUE])
  /\ UNCHANGED <<env, plan, copy, acked, high, fences, faults, restarts>>

(* start_writer_heartbeat: renewals between and during the operations. *)
Heartbeat(w) ==
  /\ Alive(w) /\ wr[w].tok # None /\ db.cur = None /\ MayRenew(w)
  /\ db' = [db EXCEPT !.cur = wr[w].tok]
  /\ UNCHANGED <<env, plan, wr, copy, acked, high, fences, faults, restarts>>

(* A finite retry budget ends the write; the default one retries for ever. *)
GiveUp(w) ==
  /\ wr[w].st = "run" /\ ~ wr[w].fenced /\ env.attempts # 0
  /\ IF wr[w].tok = None THEN ~ MayAcquire(w) ELSE ~ MayRenew(w)
  /\ Set(w, [wr[w] EXCEPT !.st = "failed"])
  /\ UNCHANGED <<env, plan, db, copy, acked, high, fences, faults, restarts>>

(* execute_fenced_pipeline / execute_fenced_view_pipeline. *)
RunPipeline(w) ==
  /\ wr[w].st = "run" /\ wr[w].fenced /\ Op(w).op = "pipeline"
  /\ IF Fenced(w) THEN Set(w, OnTransientFailure(wr[w], FALSE)) /\ UNCHANGED db
     ELSE IF Refused(db, Op(w).cmds) THEN Set(w, [wr[w] EXCEPT !.st = "blocked"]) /\ UNCHANGED db
     ELSE Set(w, [wr[w] EXCEPT !.st = "ack"]) /\ db' = RunScript(db, Op(w).cmds)
  /\ UNCHANGED <<env, plan, copy, acked, high, fences, faults, restarts>>

(* The request or its answer is lost, or the server pushes back. *)
PipelineFails(w) ==
  /\ wr[w].st = "run" /\ wr[w].fenced /\ Op(w).op = "pipeline" /\ Fault
  /\ \/ db' = db
     \/ ~ Fenced(w) /\ ~ Refused(db, Op(w).cmds) /\ db' = RunScript(db, Op(w).cmds)
  /\ \E pressure \in BOOLEAN : Set(w, OnTransientFailure(wr[w], pressure))
  /\ UNCHANGED <<env, plan, copy, acked, high, fences, restarts>>

(* clear_target_keys: verify, scan and unlink class by class until a pass finds nothing, verify. *)
ClearBegin(w) ==
  /\ wr[w].st = "run" /\ wr[w].fenced /\ Op(w).op = "clear"
  /\ Set(w, IF Fenced(w) THEN OnTransientFailure(wr[w], FALSE)
            ELSE [wr[w] EXCEPT !.st = "clear", !.class = 1, !.found = {}])
  /\ UNCHANGED <<env, plan, db, copy, acked, high, fences, faults, restarts>>

ClearScan(w) ==
  LET hit == Matching(db, Classes[wr[w].class])
  IN /\ wr[w].st = "clear" /\ wr[w].found = {}
     /\ Set(w, IF hit # {} THEN [wr[w] EXCEPT !.found = hit]
               ELSE IF wr[w].class < Len(Classes) THEN [wr[w] EXCEPT !.class = @ + 1]
               ELSE IF Fenced(w) THEN OnTransientFailure(wr[w], FALSE)
               ELSE [wr[w] EXCEPT !.st = "ack"])
     /\ UNCHANGED <<env, plan, db, copy, acked, high, fences, faults, restarts>>

ClearUnlink(w) ==
  /\ wr[w].st = "clear" /\ wr[w].found # {}
  /\ IF Fenced(w) THEN Set(w, OnTransientFailure(wr[w], FALSE)) /\ UNCHANGED db
     ELSE /\ db' = Unlink(db, Classes[wr[w].class], wr[w].found)
          /\ Set(w, [wr[w] EXCEPT !.found = {}])
  /\ UNCHANGED <<env, plan, copy, acked, high, fences, faults, restarts>>

(* acknowledge: WAIT for the replica under the replicated contract. *)
Acknowledge(w) ==
  /\ wr[w].st = "ack"
  /\ copy' = IF env.ack = "replicated" THEN db ELSE copy
  /\ Set(w, Advance(wr[w], Len(Ops(w))))
  /\ acked' = IF wr[w].pos = Len(Ops(w)) /\ ~ wr[w].reset THEN wr[w].batch ELSE acked
  /\ UNCHANGED <<env, plan, db, high, fences, faults, restarts>>

AcknowledgeFails(w) ==
  /\ wr[w].st = "ack" /\ env.ack = "replicated" /\ Fault
  /\ Set(w, OnTransientFailure(wr[w], TRUE))
  /\ UNCHANGED <<env, plan, db, copy, acked, high, fences, restarts>>

-----------------------------------------------------------------------------
(* The environment *)

LeaseExpires ==
  /\ db.cur # None
  /\ IF \E w \in Writers : Alive(w) /\ wr[w].tok = db.cur THEN Fault ELSE UNCHANGED faults
  /\ db' = [db EXCEPT !.cur = None]
  /\ UNCHANGED <<env, plan, wr, copy, acked, high, fences, restarts>>

Replicate ==
  /\ copy # db /\ copy' = db
  /\ UNCHANGED <<env, plan, wr, db, acked, high, fences, faults, restarts>>

(* The replica takes over; every connection drops and its operation starts again. *)
Failover ==
  /\ env.ack = "replicated" /\ copy # db /\ Fault
  /\ db' = copy
  /\ wr' = [w \in Writers |-> IF wr[w].st \in {"run", "ack", "clear"} THEN OnTransientFailure(wr[w], FALSE)
                              ELSE wr[w]]
  /\ UNCHANGED <<env, plan, copy, acked, high, fences, restarts>>

(* A crash, or the restart after a failed write: a new sink without a fence. *)
Restart(w) ==
  /\ \/ wr[w].st = "failed" /\ UNCHANGED restarts
     \/ Alive(w) /\ restarts < env.crashes /\ restarts' = restarts + 1
  /\ Set(w, [Idle(acked) EXCEPT !.st = "off"])
  /\ UNCHANGED <<env, plan, db, copy, acked, high, fences, faults>>

Server == [data |-> [k \in Keys |-> Absent], owner |-> [k \in Keys |-> None],
           man |-> [i \in Ids |-> [key |-> None, ver |-> 0]], cur |-> None, lin |-> None,
           schema |-> None]

Init ==
  /\ env \in Scenarios
  /\ plan = [b \in DOMAIN Stream |-> [l \in MinCommands .. MaxCommands |->
                                   [rev \in {env.views[w] : w \in Writers} |-> PrepareBatch(b, l, rev)]]]
  /\ wr = [w \in Writers |-> [Idle(0) EXCEPT !.st = "off"]]
  /\ db = Server /\ copy = Server
  /\ acked = 0 /\ high = 0 /\ fences = 0 /\ faults = 0 /\ restarts = 0

WriterStep(w) ==
  \/ StartWriter(w) \/ BeginReset(w) \/ ReplaceSchema(w) \/ StartBatch(w) \/ AcquireFence(w) \/ RenewFence(w) \/ Heartbeat(w) \/ GiveUp(w)
  \/ RunPipeline(w) \/ PipelineFails(w) \/ ClearBegin(w) \/ ClearScan(w) \/ ClearUnlink(w)
  \/ Acknowledge(w) \/ AcknowledgeFails(w) \/ Restart(w)

Next == (\E w \in Writers : WriterStep(w)) \/ LeaseExpires \/ Replicate \/ Failover

(* A writer can move unless it waits for the fence of another. *)
Waiting(w) ==
  /\ wr[w].st = "run" /\ ~ wr[w].fenced /\ env.attempts = 0
  /\ IF wr[w].tok = None THEN ~ MayAcquire(w) ELSE ~ MayRenew(w)

Runnable(w) ==
  \/ wr[w].st = "off" /\ (Compatible(w) \/ \A v \in Writers \ {w} : ~ Alive(v))
  \/ wr[w].st = "idle" /\ (wr[w].reset \/ wr[w].batch < Len(Stream))
  \/ wr[w].st \in {"run", "ack", "clear"} /\ ~ Waiting(w)
  \/ wr[w].st = "failed"

Orphaned == db.cur # None /\ \A w \in Writers : Alive(w) => wr[w].tok # db.cur

(* Weak fairness of every writer, with Runnable for its ENABLED, and of the server, *)
(* which drops the lease of a writer that is gone.                                  *)
Fairness ==
  /\ \A w \in Writers : []<>(~ Runnable(w)) \/ []<><<wr'[w] # wr[w]>>_wr
  /\ []<>(~ Orphaned) \/ []<><<db'.cur # db.cur>>_db

Spec == Init /\ [][Next]_vars

-----------------------------------------------------------------------------
(* Properties *)

TypeOK ==
  /\ \A w \in Writers : /\ wr[w].st \in {"off", "idle", "run", "ack", "clear", "failed", "blocked"}
                        /\ wr[w].batch \in 0 .. Len(Stream) /\ wr[w].limit \in MinCommands .. MaxCommands
  /\ acked \in 0 .. Len(Stream) /\ high \in 0 .. Len(Stream)
  /\ faults \in 0 .. env.faults /\ fences \in 0 .. MaxFences

Applied(ref, b, o) ==
  LET e == Event(b, o)
  IN IF e.kind = "clear" THEN [i \in Ids |-> Absent]
     ELSE IF ~ KeyParts(e) \/ (~ View /\ e.id \in Foreign) THEN ref
     ELSE [i \in Ids |-> IF i = e.id THEN (IF e.kind = "put" THEN <<b, o>> ELSE Absent)
                         ELSE IF i = e.old THEN Absent
                         ELSE ref[i]]

(* The event each document was last written by, after the first n batches. *)
Reference(n) ==
  FoldLeftDomain(LAMBDA ref, b : FoldLeftDomain(LAMBDA r, o : Applied(r, b, o), ref, Stream[b]),
                 [i \in Ids |-> Absent], SubSeq(Stream, 1, n))

(* What the key space shows for those documents. *)
Shown(ref, rev) ==
  IF ~ View THEN [k \in Keys |-> IF k \in Ids THEN ref[k] ELSE Absent]
  ELSE [k \in Keys |-> LET at == {i \in Ids : ref[i] # Absent /\ Event(ref[i][1], ref[i][2]).key[rev] = k}
                       IN IF at = {} THEN Absent ELSE ref[CHOOSE i \in at : TRUE]]

(* The owner of the lineage, between batches and ahead of everybody, shows the stream so far. *)
Delivered ==
  \A w \in Writers :
    wr[w].st = "idle" /\ ~ wr[w].reset /\ wr[w].batch = high /\ wr[w].tok # None /\ db.lin = wr[w].tok
      => db.data = Shown(Reference(high), env.views[w])

(* Some writer has delivered the stream, or is blocked on an event it must not drop. *)
Done == \E w \in Writers : wr[w].st = "blocked" \/ (wr[w].st = "idle" /\ ~ wr[w].reset /\ wr[w].batch = Len(Stream))

Completes == <>[]Done

(* Data changes only in a step of the writer that holds both the lease and the lineage. *)
OwnerStep ==
  \/ <<db'.data, db'.owner, db'.man>> = <<db.data, db.owner, db.man>>
  \/ Failover
  \/ \E w \in Writers : wr'[w] # wr[w] /\ wr[w].tok = db.cur /\ db.cur = db.lin

(* The version stored for a document goes back only when the target is cleared or fails over, *)
(* or when an event without a version is accepted.                                            *)
VersionStep ==
  \A i \in Ids : \/ db'.man[i].ver >= db.man[i].ver
                 \/ \E w \in Writers : wr[w].st = "clear"
                 \/ Failover
                 \/ db'.man[i].ver = 0

(* inspect_target: what a drift inspection of a view target reports. *)
Anomalies(s) ==
  LET held == {i \in Ids : s.man[i].key # None}
  IN {i \in held : s.data[s.man[i].key] = Absent \/ s.owner[s.man[i].key] # i}
     \cup {k \in Keys : s.owner[k] # None /\ s.man[s.owner[k]].key # k}
     \cup {k \in Keys : s.data[k] # Absent /\ s.owner[k] = None}

(* Unless something clears the target, a view shows no drift in any state. *)
NeverCleared ==
  /\ \A b \in DOMAIN Stream : \A e \in ToSet(Stream[b]) : e.kind # "clear"
  /\ \A v, w \in Writers : env.views[v] = env.views[w]

NoDrift == View /\ NeverCleared => Anomalies(db) = {}
==============================================================================
