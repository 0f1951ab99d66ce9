------------------------------ MODULE MeiliSink ------------------------------
(***************************************************************************)
(* The Meilisearch sink: a batch becomes an ordered list of runs, the runs *)
(* are enqueued as server tasks and then confirmed oldest first; a         *)
(* retryable failure at run K enqueues the ordered tail K.. again.         *)
(*                                                                         *)
(* An event is [kind, index, doc, old, size, parses]: kind "upsert",       *)
(* "delete" or "truncate"; index and doc are None when the header that     *)
(* names them is missing, old is None unless the update changed the key.   *)
(***************************************************************************)
EXTENDS Integers, Sequences, FiniteSets, SequencesExt, FiniteSetsExt

CONSTANTS
  Keys,          \* the pairs <<index, doc>> the events may name
  None,
  Scenarios,     \* [stream, faults]: the batches, and the bound on faults
  MaxDocs,       \* config.batching.max_docs
  MaxBytes,      \* config.batching.max_bytes
  MaxAttempts,   \* config.retry.max_attempts (0 is unbounded)
  MaxRestarts

VARIABLES
  env,
  batch,         \* the batch being written
  plan,          \* its translation: runs, and the offsets rejected here
  phase,         \* "idle", "enqueue", "confirm", "backoff", "failed"
  from,          \* the run the attempt starts at
  uids,          \* the task of each run enqueued in this attempt, from `from` on
  broke,         \* the run that failed in this attempt, 0 when none did
  tries,         \* attempts of execute_runs
  tasks,         \* server: the runs enqueued so far and what became of them
  processed,     \* server: how many tasks have been worked off, in order
  index,         \* server: the document under each key, <<0, 0>> when there is none
  faults, restarts

vars == <<env, batch, plan, phase, from, uids, broke, tries, tasks, processed, index, faults, restarts>>

Stream == env.stream
Event(b, o) == Stream[b][o]
Absent == <<0, 0>>

-----------------------------------------------------------------------------
(* translate_batch: runs in batch order plus the events rejected here.     *)

Run(kind, i, keys, o, size) ==
  [kind |-> kind, index |-> i, docs |-> keys, offsets |-> <<o>>, bytes |-> size]

(* Extend the last run when it has the same index and operation and room, else open one. *)
AddTo(runs, kind, i, d, o, size) ==
  IF /\ runs # << >> /\ Last(runs).kind = kind /\ Last(runs).index = i
     /\ Len(Last(runs).offsets) < MaxDocs /\ Last(runs).bytes + size <= MaxBytes
  THEN Append(Front(runs), [Last(runs) EXCEPT !.docs = Append(@, d), !.offsets = Append(@, o),
                                              !.bytes = @ + size])
  ELSE Append(runs, Run(kind, i, <<d>>, o, size))

(* The target index: an event whose routing header is missing is rejected. *)
ResolveIndex(e) == e.index

RequiredDocId(e) == e.doc

(* build_document and the size check *)
BuildsDocument(e) == e.parses /\ e.size <= MaxBytes

TranslateEvent(t, b, o) ==
  LET e      == Event(b, o)
      reject == [t EXCEPT !.rejects = @ \cup {o}]
      moved  == IF e.old = None THEN t.runs
                ELSE Append(t.runs, Run("delete", e.index, <<e.old>>, o, 1))
  IN IF ResolveIndex(e) = None THEN reject
     ELSE IF e.kind = "truncate"
          THEN [t EXCEPT !.runs = Append(@, Run("truncate", e.index, << >>, o, 0))]
     ELSE IF RequiredDocId(e) = None THEN reject
     ELSE IF e.kind = "delete"
          THEN [t EXCEPT !.runs = AddTo(@, "delete", e.index, e.doc, o, 1)]
     ELSE IF ~ BuildsDocument(e) THEN [reject EXCEPT !.runs = moved]
     ELSE [t EXCEPT !.runs = AddTo(moved, "upsert", e.index, e.doc, o, e.size)]

TranslateBatch(b) ==
  FoldLeftDomain(LAMBDA t, o : TranslateEvent(t, b, o),
                 [runs |-> << >>, rejects |-> {}], Stream[b])

Runs == plan.runs

-----------------------------------------------------------------------------
(* The server works its tasks off in order.                                *)

(* What a task does to the documents. Upserts replace; later entries of a run win. *)
Perform(t) ==
  [k \in Keys |->
     IF k[1] # t.run.index THEN index[k]
     ELSE IF t.run.kind = "truncate" THEN Absent
     ELSE LET at == {i \in DOMAIN t.run.docs : t.run.docs[i] = k[2]}
          IN IF at = {} THEN index[k]
             ELSE IF t.run.kind = "delete" THEN Absent
             ELSE <<t.batch, t.run.offsets[Max(at)]>>]

(* A task succeeds, is canceled by an operator, or fails: transiently (no space, a *)
(* timeout) or for good (a setting the documents contradict).                      *)
ProcessTask ==
  /\ processed < Len(tasks)
  /\ processed' = processed + 1
  /\ \E st \in {"succeeded", "canceled", "transient", "blocked"} :
       /\ st # "succeeded" => faults < env.faults
       /\ faults' = IF st = "succeeded" THEN faults ELSE faults + 1
       /\ tasks' = [tasks EXCEPT ![processed + 1].st = st]
       /\ index' = IF st = "succeeded" THEN Perform(tasks[processed + 1]) ELSE index
  /\ UNCHANGED <<env, batch, plan, phase, from, uids, broke, tries, restarts>>

-----------------------------------------------------------------------------
(* write(): concurrency 1, so one batch at a time.                         *)

StartBatch ==
  /\ phase = "idle" /\ batch < Len(Stream)
  /\ batch' = batch + 1 /\ plan' = TranslateBatch(batch')
  /\ phase' = "enqueue" /\ from' = 1 /\ uids' = << >> /\ broke' = 0 /\ tries' = 1
  /\ UNCHANGED <<env, tasks, processed, index, faults, restarts>>

NextRun == from + Len(uids)

Enqueued == Append(tasks, [batch |-> batch, run |-> Runs[NextRun], st |-> "queued"])

MayRetry == MaxAttempts = 0 \/ tries < MaxAttempts

(* enqueue_run: a request whose answer is lost is sent again, so its task exists twice. *)
EnqueueRun ==
  /\ phase = "enqueue" /\ NextRun <= Len(Runs)
  /\ tasks' = Enqueued
  /\ \/ uids' = Append(uids, Len(tasks) + 1) /\ UNCHANGED faults
     \/ faults < env.faults /\ faults' = faults + 1 /\ UNCHANGED uids
  /\ UNCHANGED <<env, batch, plan, phase, from, broke, tries, processed, index, restarts>>

(* The enqueue retries are exhausted, or the request is refused. *)
EnqueueFails ==
  /\ phase = "enqueue" /\ NextRun <= Len(Runs)
  /\ faults < env.faults /\ faults' = faults + 1
  /\ \/ phase' = "confirm" /\ broke' = NextRun
     \/ phase' = "failed" /\ UNCHANGED broke
  /\ UNCHANGED <<env, batch, plan, from, uids, tries, tasks, processed, index, restarts>>

AllEnqueued ==
  /\ phase = "enqueue" /\ NextRun > Len(Runs)
  /\ phase' = "confirm"
  /\ UNCHANGED <<env, batch, plan, from, uids, broke, tries, tasks, processed, index, faults, restarts>>

(* The oldest unconfirmed task of this attempt; from advances past confirmed runs. *)
Unconfirmed == tasks[Head(uids)]

(* await_task: a missing index is fine for a delete, which Perform makes a no-op. *)
ConfirmTask ==
  /\ phase = "confirm" /\ uids # << >> /\ Unconfirmed.st # "queued"
  /\ \/ /\ Unconfirmed.st = "succeeded"
        /\ from' = from + 1 /\ uids' = Tail(uids) /\ UNCHANGED <<phase, broke>>
     \/ /\ Unconfirmed.st \in {"transient", "canceled"}
        /\ broke' = from /\ phase' = "backoff" /\ UNCHANGED <<from, uids>>
     \/ /\ Unconfirmed.st = "blocked"
        /\ phase' = "failed" /\ UNCHANGED <<from, uids, broke>>
  /\ UNCHANGED <<env, batch, plan, tries, tasks, processed, index, faults, restarts>>

(* The deadline passes while the task is still to run: not retried here. *)
TaskTimeout ==
  /\ phase = "confirm" /\ uids # << >> /\ Unconfirmed.st = "queued"
  /\ faults < env.faults /\ faults' = faults + 1
  /\ phase' = "failed"
  /\ UNCHANGED <<env, batch, plan, from, uids, broke, tries, tasks, processed, index, restarts>>

(* fetch_task fails: a transport or server error is retryable, a refusal is not. *)
PollFails ==
  /\ phase = "confirm" /\ uids # << >>
  /\ faults < env.faults /\ faults' = faults + 1
  /\ \/ broke' = from /\ phase' = "backoff"
     \/ phase' = "failed" /\ UNCHANGED broke
  /\ UNCHANGED <<env, batch, plan, from, uids, tries, tasks, processed, index, restarts>>

(* Everything confirmed: done, unless a later run could not be enqueued. *)
Confirmed ==
  /\ phase = "confirm" /\ uids = << >>
  /\ phase' = IF broke = 0 THEN "idle" ELSE "backoff"
  /\ UNCHANGED <<env, batch, plan, from, uids, broke, tries, tasks, processed, index, faults, restarts>>

(* The ordered tail from the failed run on is enqueued again, within the budget. *)
RestartTail ==
  /\ phase = "backoff"
  /\ IF MayRetry THEN phase' = "enqueue" /\ from' = broke /\ uids' = << >> /\ broke' = 0
                      /\ tries' = tries + 1
     ELSE phase' = "failed" /\ UNCHANGED <<from, uids, broke, tries>>
  /\ UNCHANGED <<env, batch, plan, tasks, processed, index, faults, restarts>>

(* The pipeline ended; a new process writes the batch again. The server kept its queue. *)
Restart ==
  /\ phase = "failed" /\ restarts < MaxRestarts
  /\ restarts' = restarts + 1
  /\ phase' = "enqueue" /\ from' = 1 /\ uids' = << >> /\ broke' = 0 /\ tries' = 1
  /\ UNCHANGED <<env, batch, plan, tasks, processed, index, faults>>

Init ==
  /\ env \in Scenarios
  /\ batch = 0 /\ plan = [runs |-> << >>, rejects |-> {}] /\ phase = "idle" /\ from = 1 /\ uids = << >> /\ broke = 0 /\ tries = 1
  /\ tasks = << >> /\ processed = 0
  /\ index = [k \in Keys |-> Absent]
  /\ faults = 0 /\ restarts = 0

Next ==
  \/ StartBatch \/ EnqueueRun \/ EnqueueFails \/ AllEnqueued \/ ConfirmTask \/ TaskTimeout
  \/ PollFails \/ Confirmed \/ RestartTail \/ Restart
  \/ ProcessTask

(* The client or the server can move. *)
Runnable ==
  /\ ~ (phase = "idle" /\ batch = Len(Stream))
  /\ ~ (phase = "failed" /\ restarts = MaxRestarts)

(* Weak fairness of Next, with Runnable for its ENABLED. *)
Fairness == []<>(~ Runnable) \/ []<><<vars' # vars>>_vars

Spec == Init /\ [][Next]_vars

-----------------------------------------------------------------------------
(* Properties *)

TypeOK ==
  /\ batch \in 0 .. Len(Stream)
  /\ phase \in {"idle", "enqueue", "confirm", "backoff", "failed"}
  /\ from \in 1 .. 1 + Len(Runs)
  /\ ToSet(uids) \subseteq 1 .. Len(tasks) /\ broke \in 0 .. Len(Runs)
  /\ processed \in 0 .. Len(tasks)
  /\ index \in [Keys -> Nat \X Nat]
  /\ faults \in 0 .. env.faults /\ restarts \in 0 .. MaxRestarts

Applied(ref, b, o) ==
  LET e == Event(b, o)
  IN IF o \in TranslateBatch(b).rejects THEN ref
     ELSE [k \in Keys |->
             IF k[1] # e.index THEN ref[k]
             ELSE IF e.kind = "truncate" THEN Absent
             ELSE IF k[2] = e.doc THEN (IF e.kind = "upsert" THEN <<b, o>> ELSE Absent)
             ELSE IF k[2] = e.old THEN Absent
             ELSE ref[k]]

Reference(n) ==
  FoldLeftDomain(LAMBDA ref, b : FoldLeftDomain(LAMBDA r, o : Applied(r, b, o), ref, Stream[b]),
                 [k \in Keys |-> Absent], SubSeq(Stream, 1, n))

(* Between batches the documents are what the events accepted so far say, one after *)
(* another: whatever was enqueued twice, canceled, failed or timed out on the way,  *)
(* and with a rejected event leaving no trace.                                      *)
Delivered == phase = "idle" => index = Reference(batch)

(* The last batch is answered for. *)
Done == phase = "idle" /\ batch = Len(Stream)

Completes == <>[]Done
==============================================================================
