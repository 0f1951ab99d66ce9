--------------------------- MODULE OpenSearchSink ---------------------------
(***************************************************************************)
(* The OpenSearch sink: several bulk requests in flight, each with its own *)
(* subset retries, size bisection, delete-index resolution and target      *)
(* clears, against a cluster that versions documents.                      *)
(*                                                                         *)
(* A stream is a sequence of dispatcher batches, a batch a sequence of     *)
(* events [kind, doc, old, ver, size, fit]:                                *)
(*   kind  "index" | "delete" | "clear" (a TRUNCATE of the relation);      *)
(*   old   the previous id of a key-changing update, or NoDoc;             *)
(*   ver   the source position, 0 for an unversioned bootstrap row;        *)
(*   size  the encoded size;  fit  FALSE when the mapping rejects it.      *)
(* Versions are even: an unversioned write adds 1 to the stored version,   *)
(* which puts it strictly between two source positions, as in the cluster. *)
(* An index is named by the period it was rendered in (always 0 for a      *)
(* literal template).                                                      *)
(***************************************************************************)
EXTENDS Integers, Sequences, FiniteSets, SequencesExt, FiniteSetsExt

CONSTANTS
  Docs, NoDoc,   \* a delete or a clear of NoDoc lacks the header that names its target
  Foreign,       \* the documents of another relation that shares the index
  Scenarios,     \* [stream, rolled, ceiling, faults]: the batches, whether the template is time-rolled,
                 \* VS_DISPATCH_PARALLEL_BULKS, and the bound on transient faults
  LastPeriod,    \* bound: the clock stops there
  MaxBytes,      \* config.bulk.max_bytes
  MaxAttempts,   \* config.retry.max_attempts, 0 is unbounded
  StreakLength,  \* successes per concurrency step (16 in the code)
  MaxRestarts    \* bound on process restarts

VARIABLES
  env,           \* the scenario, fixed
  now,           \* the period of the wall clock
  copy,          \* cluster: [period, doc] -> stored version, liveness, author
  raised,        \* cluster: periods whose index.gc_deletes is raised
  late,          \* requests the client gave up on and the cluster may yet run
  w,             \* one write() per batch
  current, streak,   \* AdaptiveConcurrency
  gc,            \* GcIndexState per index
  faults, restarts,
  expired        \* a tombstone was collected while an older write was pending

vars == <<env, now, copy, raised, late, w, current, streak, gc, faults, restarts, expired>>

Stream == env.stream
Batches == DOMAIN Stream
Indices == 0 .. LastPeriod
Nothing == [ver |-> 0, live |-> FALSE, by |-> <<0, 0>>]
Event(b, o) == Stream[b][o]

-----------------------------------------------------------------------------
(* Rendering and bulk encoding.                                            *)

ExternalVersion(e) == e.ver

IsTargetClear(e) == e.kind = "clear"

IsDelete(e) == e.kind = "delete"

(* The index an event renders to at an instant: literal templates ignore it. *)
Render(at) == IF env.rolled THEN at ELSE 0

(* Mutant: only the current period and the search decide where a delete goes. *)
NoPreviousPeriod(at) == {}

(* The instant one period back, for time-rolled templates only. *)
PreviousPeriod(at) == IF env.rolled /\ at > 0 THEN {at - 1} ELSE {}

(* The index of the delete: resolved copies, the rendered index and the previous one. *)
DeleteIndices(targets, d, at) ==
  {p \in Indices : <<p, d>> \in targets} \cup {Render(at)} \cup PreviousPeriod(at)

Action(op, p, d, b, o) ==
  [op |-> op, index |-> p, doc |-> d, ver |-> ExternalVersion(Event(b, o)), event |-> <<b, o>>]

Deletes(b, o, d, targets, at) ==
  LET ps == SetToSortSeq(DeleteIndices(targets, d, at), LAMBDA x, y : x < y)
  IN [i \in DOMAIN ps |-> Action("delete", ps[i], d, b, o)]

(* The bulk actions of one event: a key-changing update removes the old id first. *)
EventActions(b, o, targets, at) ==
  LET e == Event(b, o)
  IN IF IsTargetClear(e) THEN << >>
     ELSE IF IsDelete(e) THEN Deletes(b, o, e.doc, targets, at)
     ELSE (IF e.old = NoDoc THEN << >> ELSE Deletes(b, o, e.old, targets, at))
          \o <<Action("index", Render(at), e.doc, b, o)>>

(* The body of one attempt: the actions of the pending events, in order. *)
BulkActions(b, pending, targets, at) ==
  FoldLeft(LAMBDA acc, o : acc \o EventActions(b, o, targets, at), << >>, pending)

BodySize(b, pending) == FoldLeft(LAMBDA acc, o : acc + Event(b, o).size, 0, pending)

-----------------------------------------------------------------------------
(* The cluster. version_type external_gte: an older version is a conflict. *)

Conflict(c, a) == a.ver > 0 /\ a.ver < c[a.index, a.doc].ver

Store(c, a) ==
  LET stored == c[a.index, a.doc].ver
  IN IF Conflict(c, a) THEN c
     ELSE [c EXCEPT ![a.index, a.doc] =
             [ver  |-> IF a.ver > 0 THEN a.ver ELSE stored + 1,
              live |-> a.op = "index",
              by   |-> a.event]]

Unmappable(c, a) ==
  a.op = "index" /\ ~ Conflict(c, a) /\ ~ Event(a.event[1], a.event[2]).fit

(* Run a body in order; the actions at the positions in failed have no effect. *)
RunBody(c, body, failed) ==
  FoldLeftDomain(LAMBDA acc, i : IF i \in failed \/ Unmappable(acc, body[i]) THEN acc
                                 ELSE Store(acc, body[i]), c, body)

(* The offsets of the events one of whose actions is at a position in ps. *)
OffsetsAt(body, ps) == {body[i].event[2] : i \in ps}

(* partition_bulk_items and dedupe_by_offset: one bucket per event, transient wins. *)
Partition(c, body, shed, refused) ==
  LET failed    == shed \cup refused
      transient == OffsetsAt(body, shed)
      mapping   == OffsetsAt(body, {i \in DOMAIN body \ failed :
                                      Unmappable(RunBody(c, SubSeq(body, 1, i - 1), failed), body[i])})
  IN [transient |-> transient,
      permanent |-> mapping \ transient,
      blocked   |-> OffsetsAt(body, refused) \ (transient \cup mapping)]
-----------------------------------------------------------------------------
(* The state of one write(): st is its program point.                      *)

Fresh == [st |-> "idle", next |-> 1, ranges |-> << >>, targets |-> {}, since |-> 0, at |-> 0,
          pending |-> << >>, tries |-> 1, permanent |-> {}, doomed |-> {},
          written |-> {}, result |-> "none"]

Idle(b) == w[b].st = "idle"
Finished(b) == w[b].st = "done"
InFlight == {b \in Batches : ~ Idle(b) /\ ~ Finished(b)}
Accepted(b) == Finished(b) /\ w[b].result \in {"ok", "rejected"}
Failed(b) == Finished(b) /\ w[b].result \in {"connection", "blocked", "internal"}

SeqRange(lo, hi) == [i \in 1 .. (hi - lo + 1) |-> lo + i - 1]

Clamp(x, lo, hi) == Max({lo, Min({x, hi})})

(* recommended_concurrency(configured ceiling) *)
Desired == Clamp(current, 1, env.ceiling)

(* on_success: every StreakLength successes the latency average decides. *)
OnSuccess ==
  /\ streak' = (streak + 1) % StreakLength
  /\ IF streak + 1 < StreakLength THEN current' = current
     ELSE \/ current' = IF current < env.ceiling THEN current + 1 ELSE current
          \/ current' = IF current > 1 THEN current - 1 ELSE current
          \/ current' = current

(* Mutant: the halved limit is not floored. *)
HalveToZero ==
  /\ streak' = 0
  /\ current' = current \div 2

OnPressure ==
  /\ streak' = 0
  /\ current' = Max({1, current \div 2})

(* BackoffSchedule::next: MaxAttempts includes the first attempt. *)
MayRetry(b) == MaxAttempts = 0 \/ w[b].tries < MaxAttempts

(* Leave write() with an error; a failed batch stops the pipeline. *)
Fail(b, error) == w' = [w EXCEPT ![b] = [Fresh EXCEPT !.st = "done", !.result = error]]

-----------------------------------------------------------------------------
(* The dispatcher hands over the batches in order, within the recommended limit. *)
StartWrite(b) ==
  /\ Idle(b) /\ \A a \in Batches : a < b => ~ Idle(a)
  /\ \A a \in Batches : ~ Failed(a)
  /\ Cardinality(InFlight) < Desired
  /\ w' = [w EXCEPT ![b].st = "resolve"]
  /\ UNCHANGED <<env, now, copy, raised, late, current, streak, gc, faults, restarts, expired>>

(* The ids a batch deletes: tombstones and the old ids of key changes. *)
DeletedIds(b) ==
  ({e.doc : e \in {x \in ToSet(Stream[b]) : IsDelete(x)}}
     \cup {e.old : e \in {x \in ToSet(Stream[b]) : x.kind = "index"}}) \ {NoDoc}

(* resolve_delete_indices: the search sees every copy but the fresh ones, those of *)
(* the current and the previous period, which it may or may not see yet. A search  *)
(* that misses a copy of the previous period, or runs beside a late request of it, *)
(* ran right after the boundary: the write counts as begun before it.              *)
Resolve(b) ==
  LET held  == {x \in Indices \X DeletedIds(b) : copy[x].live}
      fresh == {x \in held : x[1] >= now - 1}
  IN /\ w[b].st = "resolve"
     /\ \E unseen \in IF env.rolled THEN SUBSET fresh ELSE {{}} :
          w' = [w EXCEPT ![b].st = "work",
                         ![b].since = Min({now} \cup {x[1] : x \in unseen}
                                              \cup {a.index : a \in UNION {ToSet(l) : l \in late}}),
                         ![b].targets = IF env.rolled THEN held \ unseen ELSE {}]
     /\ UNCHANGED <<env, now, copy, raised, late, current, streak, gc, faults, restarts, expired>>

(* send_lookup_with_retry: transient failures back off, within the budget. *)
ResolveFails(b) ==
  /\ w[b].st = "resolve" /\ env.rolled /\ DeletedIds(b) # {}
  /\ faults < env.faults /\ faults' = faults + 1
  /\ IF MayRetry(b) THEN w' = [w EXCEPT ![b].tries = @ + 1] ELSE Fail(b, "connection")
  /\ UNCHANGED <<env, now, copy, raised, late, current, streak, gc, restarts, expired>>

(* send_with_retry: the next segment runs up to the next clear of the batch. *)
NextClear(b) ==
  LET cs == {o \in w[b].next .. Len(Stream[b]) : IsTargetClear(Event(b, o))}
  IN IF cs = {} THEN Len(Stream[b]) + 1 ELSE Min(cs)

NextSegment(b) ==
  /\ w[b].st = "work" /\ w[b].ranges = << >> /\ NextClear(b) > w[b].next
  /\ w' = [w EXCEPT ![b].ranges = <<[lo |-> w[b].next, hi |-> NextClear(b) - 1]>>,
                    ![b].next = NextClear(b)]
  /\ UNCHANGED <<env, now, copy, raised, late, current, streak, gc, faults, restarts, expired>>

(* send_bulk_range: a body over the limit is bisected, left half first; one event *)
(* over the limit is rejected. Otherwise the slice is sent, rendered now.         *)
BeginSlice(b) ==
  LET r   == Head(w[b].ranges)
      mid == r.lo + (r.hi - r.lo + 1) \div 2
      big == BodySize(b, SeqRange(r.lo, r.hi)) > MaxBytes
  IN /\ w[b].st = "work" /\ w[b].ranges # << >>
     /\ w' = IF \E o \in r.lo .. r.hi : IsDelete(Event(b, o)) /\ Event(b, o).doc = NoDoc
             THEN [w EXCEPT ![b] = [Fresh EXCEPT !.st = "done", !.result = "internal"]]
             ELSE IF big /\ r.hi > r.lo
             THEN [w EXCEPT ![b].ranges = <<[lo |-> r.lo, hi |-> mid - 1], [lo |-> mid, hi |-> r.hi]>>
                                            \o Tail(@)]
             ELSE IF big THEN [w EXCEPT ![b].ranges = Tail(@), ![b].permanent = @ \cup {r.lo}]
             ELSE [w EXCEPT ![b].st = "send", ![b].ranges = Tail(@), ![b].at = now,
                            ![b].pending = SeqRange(r.lo, r.hi), ![b].tries = 1]
     /\ UNCHANGED <<env, now, copy, raised, late, current, streak, gc, faults, restarts, expired>>

(* The body of the attempt, and the indices it writes (record_written). *)
Body(b) == BulkActions(b, w[b].pending, w[b].targets, w[b].at)
Written(b) == w[b].written \cup {a.index : a \in ToSet(Body(b))}

(* One bulk request answered per item. Blocked items fail the batch; permanent ones *)
(* are kept for the DLQ; the transient subset alone is sent again.                  *)
Send(b) ==
  /\ w[b].st = "send"
  /\ \E failed \in UNION {kSubset(n, DOMAIN Body(b)) : n \in 0 .. env.faults - faults} :
       \E shed \in SUBSET failed :
         LET body  == Body(b)
             out   == Partition(copy, body, shed, failed \ shed)
             again == SelectSeq(w[b].pending, LAMBDA o : o \in out.transient)
             next  == [w[b] EXCEPT !.permanent = @ \cup out.permanent, !.written = Written(b),
                                   !.pending = again]
         IN /\ faults' = faults + Cardinality(failed)
            /\ copy' = RunBody(copy, body, failed)
            /\ \/ /\ out.blocked # {} /\ Fail(b, "blocked")
                  /\ UNCHANGED <<current, streak>>
               \/ /\ out.blocked = {} /\ again = << >> /\ OnSuccess
                  /\ w' = [w EXCEPT ![b] = [next EXCEPT !.st = "work", !.tries = 1]]
               \/ /\ out.blocked = {} /\ again # << >> /\ OnPressure
                  /\ IF MayRetry(b) THEN w' = [w EXCEPT ![b] = [next EXCEPT !.tries = @ + 1]]
                     ELSE Fail(b, "connection")
  /\ UNCHANGED <<env, now, raised, late, gc, restarts, expired>>

(* The whole request fails transiently: a timed-out one may still run later. *)
SendFails(b) ==
  /\ w[b].st = "send"
  /\ faults < env.faults /\ faults' = faults + 1
  /\ OnPressure
  /\ late' \in {late, late \cup {Body(b)}}
  /\ IF MayRetry(b) THEN w' = [w EXCEPT ![b].tries = @ + 1, ![b].written = Written(b)]
     ELSE Fail(b, "connection")
  /\ UNCHANGED <<env, now, copy, raised, gc, restarts, expired>>

(* The cluster runs a request nobody waits for any more. *)
RunLate(body) ==
  /\ copy' = RunBody(copy, body, {})
  /\ late' = late \ {body}
  /\ UNCHANGED <<env, now, raised, w, current, streak, gc, faults, restarts, expired>>
-----------------------------------------------------------------------------
(* apply_target_clear: refresh, then scan the rendered index for the relation's ids; *)
(* without the relation's headers the clear is refused.                              *)
BeginClear(b) ==
  LET o == w[b].next
  IN /\ w[b].st = "work" /\ w[b].ranges = << >>
     /\ o <= Len(Stream[b]) /\ IsTargetClear(Event(b, o))
     /\ IF Event(b, o).doc = NoDoc THEN Fail(b, "internal")
        ELSE w' = [w EXCEPT ![b].st = "clear", ![b].next = o + 1, ![b].at = now,
                            ![b].doomed = {d \in Docs \ Foreign : copy[Render(now), d].live}]
     /\ UNCHANGED <<env, now, copy, raised, late, current, streak, gc, faults, restarts, expired>>

(* The scanned ids are deleted, unversioned; any item left undeleted fails the batch. *)
DeletePage(b) ==
  /\ w[b].st = "clear"
  /\ \E left \in SUBSET w[b].doomed :
       /\ faults + Cardinality(left) <= env.faults /\ faults' = faults + Cardinality(left)
       /\ copy' = FoldSet(LAMBDA d, c : Store(c, [op |-> "delete", index |-> Render(w[b].at),
                                                  doc |-> d, ver |-> 0, event |-> <<b, w[b].next - 1>>]),
                          copy, w[b].doomed \ left)
       /\ IF left = {} THEN w' = [w EXCEPT ![b].st = "work", ![b].doomed = {}]
          ELSE Fail(b, "connection")
  /\ UNCHANGED <<env, now, raised, late, current, streak, gc, restarts, expired>>

(* A scroll request fails: the clear is not retried here, the batch is. *)
ClearFails(b) ==
  /\ w[b].st = "clear" /\ faults < env.faults /\ faults' = faults + 1
  /\ \E error \in {"connection", "blocked"} : Fail(b, error)
  /\ UNCHANGED <<env, now, copy, raised, late, current, streak, gc, restarts, expired>>

(* ensure_tombstone_retention for the written indices that are due, then the verdict. *)
Outcomes == {"applied", "absent", "refused", "failed"}

GcAfter(outcome) ==
  CASE outcome = "applied" -> "ensured"
    [] outcome = "refused" -> "gaveUp"
    [] OTHER -> "backoff"

Finish(b) ==
  LET due == {p \in w[b].written : gc[p] = "due"}
  IN /\ w[b].st = "work" /\ w[b].ranges = << >> /\ w[b].next > Len(Stream[b])
     /\ \E outcome \in IF due = {} THEN {"applied"} ELSE Outcomes :
          /\ outcome # "applied" => faults < env.faults
          /\ faults' = IF outcome = "applied" THEN faults ELSE faults + 1
          /\ gc' = [p \in Indices |-> IF p \in due THEN GcAfter(outcome) ELSE gc[p]]
          /\ raised' = IF outcome = "applied" THEN raised \cup due ELSE raised
     /\ w' = [w EXCEPT ![b] = [Fresh EXCEPT !.st = "done", !.permanent = w[b].permanent,
                                 !.result = IF w[b].permanent = {} THEN "ok" ELSE "rejected"]]
     /\ UNCHANGED <<env, now, copy, late, current, streak, restarts, expired>>

(* A confirmed setting falls due for verification, or a backoff elapses. *)
GcFallsDue(p) ==
  /\ gc[p] \in {"ensured", "backoff"}
  /\ gc' = [gc EXCEPT ![p] = "due"]
  /\ UNCHANGED <<env, now, copy, raised, late, w, current, streak, faults, restarts, expired>>

-----------------------------------------------------------------------------
(* The surroundings: the clock, tombstone collection, restarts.            *)

(* An event older than version v is still on its way to document d. *)
OlderUnderway(d, v) ==
  \/ \E body \in late : \E a \in ToSet(body) : a.doc = d /\ a.ver < v
  \/ \E b \in InFlight : \E e \in ToSet(Stream[b]) : e.doc = d /\ e.ver < v

(* Assumption: a write, and a request it gave up on, crosses at most one period *)
(* boundary, and a clear none.                                                  *)
Tick ==
  /\ env.rolled /\ now < LastPeriod
  /\ \A b \in Batches : w[b].st \in {"work", "send", "clear"} => w[b].since = now
  /\ \A body \in late : \A a \in ToSet(body) : a.op = "index" => a.index = now
  /\ now' = now + 1
  /\ UNCHANGED <<env, copy, raised, late, w, current, streak, gc, faults, restarts, expired>>

(* gc_deletes elapses on an index that still has the default retention. *)
CollectTombstone(p, d) ==
  /\ p \notin raised /\ copy[p, d].ver > 0 /\ ~ copy[p, d].live
  /\ copy' = [copy EXCEPT ![p, d] = Nothing]
  /\ expired' = (expired \/ OlderUnderway(d, copy[p, d].ver))
  /\ UNCHANGED <<env, now, raised, late, w, current, streak, gc, faults, restarts>>

(* A failed batch ended the pipeline: a new process replays what was not accepted. *)
Restart ==
  LET first == Min({b \in Batches : ~ Accepted(b)})
  IN /\ \E b \in Batches : Failed(b)
     /\ restarts < MaxRestarts /\ restarts' = restarts + 1
     /\ late' = late \cup {Body(b) : b \in {x \in Batches : w[x].st = "send"}}
     /\ w' = [b \in Batches |-> IF b < first THEN w[b] ELSE Fresh]
     /\ current' = 4 /\ streak' = 0
     /\ gc' = [p \in Indices |-> "due"]
     /\ UNCHANGED <<env, now, copy, raised, faults, expired>>

Init ==
  /\ env \in Scenarios
  /\ now = 0
  /\ copy = [x \in Indices \X Docs |-> Nothing]
  /\ raised = {} /\ late = {}
  /\ w = [b \in DOMAIN env.stream |-> Fresh]
  /\ current = 4 /\ streak = 0
  /\ gc = [p \in Indices |-> "due"]
  /\ faults = 0 /\ restarts = 0 /\ expired = FALSE

WriteStep(b) ==
  \/ StartWrite(b) \/ Resolve(b) \/ NextSegment(b) \/ BeginSlice(b) \/ Send(b)
  \/ BeginClear(b) \/ DeletePage(b) \/ Finish(b)

Next ==
  \/ \E b \in Batches : WriteStep(b) \/ ResolveFails(b) \/ SendFails(b) \/ ClearFails(b)
  \/ \E body \in late : RunLate(body)
  \/ \E p \in Indices : GcFallsDue(p)
  \/ \E p \in Indices, d \in Docs : CollectTombstone(p, d)
  \/ Tick
  \/ Restart

(* Some write can move: one in flight always can, and so can the next one to start *)
(* and the restart after a failure.                                                *)
Runnable ==
  \/ InFlight # {}
  \/ (\E b \in Batches : Idle(b)) /\ ~ (\E b \in Batches : Failed(b))
  \/ (\E b \in Batches : Failed(b)) /\ restarts < MaxRestarts

(* Weak fairness of the write steps and of the restart, with Runnable for their ENABLED. *)
Fairness == []<>(~ Runnable) \/ []<><<w' # w>>_w

Spec == Init /\ [][Next]_vars
-----------------------------------------------------------------------------
(* Properties *)

TypeOK ==
  /\ env \in Scenarios /\ now \in Indices
  /\ copy \in [Indices \X Docs -> [ver : Nat, live : BOOLEAN, by : Nat \X Nat]]
  /\ raised \subseteq Indices
  /\ \A b \in Batches :
       /\ w[b].st \in {"idle", "resolve", "work", "send", "clear", "done"}
       /\ w[b].result \in {"none", "ok", "rejected", "connection", "blocked", "internal"}
       /\ (w[b].result = "none") = (w[b].st # "done")
       /\ w[b].permanent \subseteq DOMAIN Stream[b]
       /\ ToSet(w[b].pending) \subseteq DOMAIN Stream[b]
  /\ current \in 1 .. 4 /\ streak \in 0 .. StreakLength - 1
  /\ gc \in [Indices -> {"due", "ensured", "backoff", "gaveUp"}]
  /\ faults \in 0 .. env.faults /\ restarts \in 0 .. MaxRestarts /\ expired \in BOOLEAN

(* What the documents should be: the events in stream order, the rejected ones left out. *)
Applied(ref, b, o) ==
  LET e == Event(b, o)
  IN IF o \in w[b].permanent THEN ref
     ELSE [d \in Docs |->
             IF e.kind = "index" /\ d = e.doc THEN <<b, o>>
             ELSE IF \/ d = e.doc \/ d = e.old
                     \/ e.kind = "clear" /\ d \notin Foreign THEN <<0, 0>>
             ELSE ref[d]]

Reference ==
  FoldLeftDomain(LAMBDA ref, b : FoldLeftDomain(LAMBDA r, o : Applied(r, b, o), ref, Stream[b]),
                 [d \in Docs |-> <<0, 0>>], Stream)

AllAccepted == \A b \in Batches : Accepted(b)

(* Once write() has answered for every batch, a document the stream leaves alive is    *)
(* in the cluster as its last event wrote it, and one it removed is in no index, in    *)
(* whatever order the requests, their retries and the ones given up on ran. The        *)
(* exception is a tombstone collected under an older write, which the retention        *)
(* setting prevents once it is applied.                                                *)
Delivered ==
  (AllAccepted /\ ~ expired) =>
    \A d \in Docs :
      LET alive == {p \in Indices : copy[p, d].live}
      IN IF Reference[d] = <<0, 0>> THEN alive = {}
         ELSE \E p \in alive : copy[p, d].by = Reference[d]

(* Every batch is answered for once the faults stop, unless an event lacks the header *)
(* that names its target: that one blocks delivery rather than being dropped.         *)
Done == AllAccepted \/ \E b \in Batches : w[b].result = "internal"

Completes == <>[]Done
=============================================================================
