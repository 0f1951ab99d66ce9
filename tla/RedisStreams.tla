---------------------------- MODULE RedisStreams ----------------------------
(***************************************************************************)
(* The Redis Streams broker (ventstream-redis): one tailer per tenant      *)
(* reads the stream and sends what it reads to every session; a session    *)
(* that resumes first replays from Redis up to the tailer's watermark.     *)
(* Entry ids are the positions in the stream.                              *)
(***************************************************************************)
EXTENDS Realtime

CONSTANTS ReadBatch, BroadcastCapacity, TailerFailureThreshold

ASSUME BatchAssumption == ReadBatch \in Nat \ {0} /\ BroadcastCapacity \in Nat \ {0}

NoHub ==
  [open |-> FALSE, started |-> FALSE, watermark |-> 0, last |-> 0, status |-> "healthy",
   failures |-> 0, batch |-> <<>>, marked |-> FALSE, since_trim |-> 0, trim |-> FALSE]

(* A hub of another client may be running already, with its tailer behind. *)
HubInit == broker = IF env.hub = None THEN NoHub
                    ELSE [NoHub EXCEPT !.open = TRUE, !.started = TRUE,
                                       !.watermark = env.hub, !.last = env.hub]

-----------------------------------------------------------------------------
(* The local broadcast: a receiver that is full loses its oldest message and *)
(* finds out at its next read.                                               *)

Receiving(k) == sess[k].pc \in {"watermark", "validate", "open"}
Received(s, m) ==
  IF Len(s.live) < BroadcastCapacity THEN [s EXCEPT !.live = Append(@, m)]
  ELSE [s EXCEPT !.live = Append(Tail(@), m), !.lagged = TRUE]
Send(m) == [k \in Keys |-> IF Receiving(k) THEN Received(sess[k], m) ELSE sess[k]]
Terminal == 0

-----------------------------------------------------------------------------
(* open_session: hub_for, subscribe, read the watermark, validate_resume. *)

hub_for(k) ==
  /\ sess[k].pc = "hub"
  /\ sess' = [sess EXCEPT ![k].pc = "subscribe"]
  /\ broker' = IF broker.open THEN broker
               ELSE [broker EXCEPT !.open = TRUE, !.watermark = Latest, !.last = Latest]
  /\ UNCHANGED <<env, stream, pump, conn, client, active, faults>>

hub_subscribe(k) ==
  /\ sess[k].pc = "subscribe"
  /\ broker' = [broker EXCEPT !.started = TRUE]
  /\ sess' = [sess EXCEPT ![k] = IF broker.status # "healthy" THEN Refused(@, "Unavailable")
                                 ELSE [@ EXCEPT !.pc = "watermark", !.pos = broker.last]]
  /\ UNCHANGED <<env, stream, pump, conn, client, active, faults>>

redis_id_from_cursor(cursor) == IF cursor.provider = "rs" THEN cursor.value ELSE None

(* A session with live events only has no cutoff: it takes everything queued *)
(* since it subscribed.                                                      *)
session_live_cutoff(after, captured) == IF after = None THEN None ELSE captured
capture_cutoff(k) ==
  /\ sess[k].pc = "watermark"
  /\ LET s == sess[k]
         cutoff == session_live_cutoff(s.after, broker.watermark) IN
     sess' = [sess EXCEPT ![k] =
       IF s.after = None THEN [s EXCEPT !.pc = "open"]
       ELSE IF redis_id_from_cursor(s.after) = None THEN Refused(s, "InvalidCursor")
       ELSE [s EXCEPT !.pc = "validate", !.cutoff = cutoff]]
  /\ UNCHANGED <<env, stream, broker, pump, conn, client, active, faults>>

(* What the stream holds decides whether the cursor can be resumed. *)
ResumeError(requested) ==
  IF Latest < stream.first THEN (IF requested = 0 THEN None ELSE "CursorAhead")
  ELSE IF requested > Latest THEN "CursorAhead"
  ELSE IF requested < stream.first THEN "ResumeExpired" ELSE None
validate_resume(k) ==
  /\ sess[k].pc = "validate"
  /\ LET s == sess[k] after == s.after.value IN
     sess' = [sess EXCEPT ![k] =
       IF ResumeError(after) # None THEN Refused(s, ResumeError(after))
       ELSE [s EXCEPT !.pc = "open", !.pos = after,
                      !.replay = IF after < s.cutoff
                                 THEN [next |-> after, through |-> s.cutoff, buffered |-> <<>>] ELSE None]]
  /\ UNCHANGED <<env, stream, broker, pump, conn, client, active, faults>>

-----------------------------------------------------------------------------
(* EventSession::next: the replay, then the broadcast. *)

(* XRANGE (next, through], as much of it as Redis still has. *)
read_range(r) ==
  LET from == Larger(r.next + 1, stream.first)
      to == Smaller(r.through, from + ReadBatch - 1) IN
  [i \in 1..(IF to < from THEN 0 ELSE to - from + 1) |-> from + i - 1]

(* Entries that cannot be decoded are left out. *)
Decoded(batch) ==
  LET kept[n \in 0..Len(batch)] ==
        IF n = 0 THEN <<>>
        ELSE IF Entry(batch[n]).form = "badEntry" THEN kept[n - 1] ELSE Append(kept[n - 1], batch[n])
  IN kept[Len(batch)]

next_replay(k) ==
  /\ Reads(k) /\ sess[k].replay # None
  /\ LET r == sess[k].replay
         batch == read_range(r) IN
     IF r.buffered # <<>>
     THEN /\ sess' = [sess EXCEPT ![k].replay.buffered = Tail(@), ![k].pos = Head(r.buffered)]
          /\ IF Wanted(sess[k], Head(r.buffered)) THEN Got(k, Head(r.buffered)) ELSE UNCHANGED pump
     ELSE IF batch # <<>>
     THEN /\ sess' = [sess EXCEPT ![k].replay = [@ EXCEPT !.next = batch[Len(batch)],
                        !.buffered = Decoded(batch)]]
          /\ UNCHANGED pump
     ELSE IF r.next < r.through
     THEN Failed(k) /\ UNCHANGED sess                      \* ResumeExpired
     ELSE sess' = [sess EXCEPT ![k].replay = None] /\ UNCHANGED pump
  /\ UNCHANGED <<env, stream, broker, conn, client, active, faults>>

replay_error(k) ==
  /\ Reads(k) /\ sess[k].replay # None /\ Fault("read")
  /\ Failed(k)
  /\ UNCHANGED <<env, stream, broker, sess, conn, client, active>>

next_live(k) ==
  /\ Reads(k) /\ sess[k].replay = None /\ (sess[k].lagged \/ sess[k].live # <<>>)
  /\ LET s == sess[k]
         m == Head(s.live)
         taken == [s EXCEPT !.live = Tail(@)] IN
     IF s.lagged \/ m = Terminal
     THEN Failed(k) /\ UNCHANGED sess
     ELSE IF s.cutoff # None /\ m <= s.cutoff
     THEN sess' = [sess EXCEPT ![k] = taken] /\ UNCHANGED pump
     ELSE /\ sess' = [sess EXCEPT ![k] = [taken EXCEPT !.cutoff = None, !.pos = m]]
          /\ IF Wanted(s, m) THEN Got(k, m) ELSE UNCHANGED pump
  /\ UNCHANGED <<env, stream, broker, conn, client, active, faults>>

(* accepted: XREAD keeps no pending list. *)
redis_accepted(s, i) == {s}

-----------------------------------------------------------------------------
(* The tailer. *)

Idle == broker.started /\ broker.batch = <<>> /\ ~ broker.trim
tail_read ==
  /\ Idle /\ broker.status # "failing" /\ broker.last < Latest
  /\ broker' = [broker EXCEPT !.failures = 0, !.status = "healthy",
                  !.batch = read_range([next |-> broker.last, through |-> Latest])]
  /\ UNCHANGED <<env, stream, sess, pump, conn, client, active, faults>>

(* A blocking read that times out is a successful read. *)
tail_timeout ==
  /\ Idle /\ broker.status = "unavailable" /\ broker.last = Latest
  /\ broker' = [broker EXCEPT !.failures = 0, !.status = "healthy"]
  /\ UNCHANGED <<env, stream, sess, pump, conn, client, active, faults>>

tail_error ==
  /\ Idle /\ broker.status = "healthy" /\ Fault("read")
  /\ broker' = [broker EXCEPT !.failures = @ + 1,
                  !.status = IF broker.failures + 1 = TailerFailureThreshold THEN "failing" ELSE @]
  /\ UNCHANGED <<env, stream, sess, pump, conn, client, active>>
(* The status is set first, then the sessions are told. *)
tail_terminal ==
  /\ broker.status = "failing"
  /\ broker' = [broker EXCEPT !.status = "unavailable"]
  /\ sess' = Send(Terminal)
  /\ UNCHANGED <<env, stream, pump, conn, client, active, faults>>

tail_mark ==
  /\ broker.batch # <<>> /\ ~ broker.marked
  /\ broker' = [broker EXCEPT !.marked = TRUE, !.last = Head(broker.batch), !.watermark = Head(broker.batch)]
  /\ UNCHANGED <<env, stream, sess, pump, conn, client, active, faults>>
tail_send ==
  /\ broker.batch # <<>> /\ broker.marked
  /\ broker' = [broker EXCEPT !.marked = FALSE, !.batch = Tail(@), !.since_trim = @ + 1,
                  !.trim = /\ env.retain # None /\ Len(broker.batch) = 1
                           /\ broker.since_trim + 1 >= Larger(1, env.retain)]
  /\ sess' = IF Entry(Head(broker.batch)).form = "badEntry" THEN sess ELSE Send(Head(broker.batch))
  /\ UNCHANGED <<env, stream, pump, conn, client, active, faults>>

(* XTRIM MAXLEN after a batch; one that fails waits for the next batch. *)
tail_trim ==
  /\ broker.trim
  /\ stream' = [stream EXCEPT !.first = Larger(@, Latest - env.retain + 1)]
  /\ broker' = [broker EXCEPT !.trim = FALSE, !.since_trim = 0]
  /\ UNCHANGED <<env, sess, pump, conn, client, active, faults>>
tail_trim_error ==
  /\ broker.trim /\ Fault("read")
  /\ broker' = [broker EXCEPT !.trim = FALSE]
  /\ UNCHANGED <<env, stream, sess, pump, conn, client, active>>

Tailer == tail_read \/ tail_timeout \/ tail_error \/ tail_terminal \/ tail_mark \/ tail_send
          \/ tail_trim \/ tail_trim_error
redis_open_session(k) == hub_for(k) \/ hub_subscribe(k) \/ capture_cutoff(k) \/ validate_resume(k)
RedisSession(k) == next_replay(k) \/ replay_error(k) \/ next_live(k)
RedisNext == Tailer \/ \E k \in Keys : redis_open_session(k) \/ RedisSession(k)

=============================================================================
