----------------------------- MODULE JetStream ------------------------------
(***************************************************************************)
(* The JetStream broker (ventstream-jetstream): a disposable consumer for  *)
(* every session, deleted by the handle that owns it, by the server after  *)
(* a time without pulls, or by the reaper. broker.active is the live set   *)
(* of this process; broker.consumers is what exists on the server.         *)
(***************************************************************************)
EXTENDS Realtime

CONSTANTS SessionAckEvery, SessionMaxReopen

NoReaper == [pc |-> "idle", live |-> {}, names |-> {}, id |-> None]
(* An earlier process of this pod may have left a consumer. *)
ConsumersInit ==
  broker = [consumers |-> {<<"left", 0>>}, active |-> {}, expired |-> {}, deletes |-> {}, reaper |-> NoReaper]
Gate == broker.reaper.id # None     \* ActiveSet::deletion_gate is held

-----------------------------------------------------------------------------
(* create_consumer: reserve the id, look at the stream, create. *)

reserve(k) ==
  /\ sess[k].pc = "reserve" /\ ~ Gate
  /\ broker' = [broker EXCEPT !.active = @ \cup {sess[k].id}]
  /\ sess' = [sess EXCEPT ![k].pc = "check"]
  /\ UNCHANGED <<env, stream, pump, conn, client, active, faults>>

jetstream_start_sequence(cursor) == IF cursor.provider = "js" THEN cursor.value + 1 ELSE None
validate_resume_window(requested) ==
  IF requested > Latest + 1 THEN "CursorAhead"
  ELSE IF requested < stream.first THEN "ResumeExpired" ELSE None

(* A refused session gives its reservation back. *)
Released(k) == [broker EXCEPT !.active = @ \ {sess[k].id}]
check_window(k) ==
  /\ sess[k].pc = "check"
  /\ LET s == sess[k]
         start == IF s.after = None THEN 0 ELSE jetstream_start_sequence(s.after)
         error == IF s.after = None THEN None
                  ELSE IF start = None THEN "InvalidCursor" ELSE validate_resume_window(start) IN
     /\ sess' = [sess EXCEPT ![k] = IF error # None THEN Refused(s, error)
                                    ELSE [s EXCEPT !.pc = "create", !.next = start]]
     /\ broker' = IF error # None THEN Released(k) ELSE broker
  /\ UNCHANGED <<env, stream, pump, conn, client, active, faults>>

create_consumer(k) ==
  /\ sess[k].pc = "create"
  /\ LET from == IF sess[k].after = None THEN Latest + 1 ELSE sess[k].next IN
     sess' = [sess EXCEPT ![k] = [@ EXCEPT !.pc = "open", !.next = from,
                                           !.pos = from - 1, !.acked = from - 1]]
  /\ broker' = [broker EXCEPT !.consumers = @ \cup {sess[k].id}]
  /\ UNCHANGED <<env, stream, pump, conn, client, active, faults>>
create_fails(k) ==
  /\ sess[k].pc \in {"check", "create"} /\ Fault("create")
  /\ sess' = [sess EXCEPT ![k] = Refused(@, "Unavailable")]
  /\ broker' = Released(k)
  /\ UNCHANGED <<env, stream, pump, conn, client, active>>

-----------------------------------------------------------------------------
(* JetStreamSession. Acknowledgements are cumulative; one that fails leaves *)
(* the delivery to a later flush.                                           *)

flush_pending(s) ==
  {s} \cup (IF s.pending = None THEN {} ELSE {[s EXCEPT !.acked = s.pending, !.pending = None, !.since = 0]})
jetstream_accepted(s, i) ==
  LET held == [s EXCEPT !.pending = i, !.since = @ + 1] IN
  IF held.since >= SessionAckEvery THEN flush_pending(held) ELSE {held}

Deliverable(k) ==
  {i \in Larger(sess[k].next, stream.first)..Latest :
     /\ Entry(i).tenant = env.tenants[CHOOSE c \in Subscribers : k \in {c, "shared"}]
     /\ Wanted(sess[k], i)}
Exists(k) == sess[k].id \in broker.consumers
next_message(k) ==
  /\ Reads(k) /\ Exists(k) /\ Deliverable(k) # {}
  /\ LET i == CHOOSE i \in Deliverable(k) : \A j \in Deliverable(k) : i <= j IN
     /\ Got(k, i)
     /\ sess' = [sess EXCEPT ![k] = [@ EXCEPT !.next = i + 1, !.pos = i, !.reopen = 0]]
  /\ UNCHANGED <<env, stream, broker, conn, client, active, faults>>

(* The pull stream breaks and is opened again, a bounded number of times. *)
stream_fails(k) ==
  /\ Reads(k) /\ Fault("pull")
  /\ \E s \in flush_pending(sess[k]) :
     /\ sess' = [sess EXCEPT ![k] = [s EXCEPT !.reopen = @ + 1]]
     /\ IF s.reopen + 1 > SessionMaxReopen THEN Failed(k) ELSE UNCHANGED pump
  /\ UNCHANGED <<env, stream, broker, conn, client, active>>
consumer_deleted(k) ==
  /\ Reads(k) /\ ~ Exists(k)
  /\ Failed(k) /\ \E s \in flush_pending(sess[k]) : sess' = [sess EXCEPT ![k] = s]
  /\ UNCHANGED <<env, stream, broker, conn, client, active, faults>>
flush_tick(k) ==
  /\ Reads(k) /\ sess[k].pending # None
  /\ \E s \in flush_pending(sess[k]) : sess' = [sess EXCEPT ![k] = s]
  /\ UNCHANGED <<env, stream, broker, pump, conn, client, active, faults>>
(* The server delivers again what was not acknowledged within ack_wait. *)
ack_wait(k) ==
  /\ Reads(k) /\ Exists(k) /\ sess[k].next > sess[k].acked + 1 /\ Fault("ack")
  /\ sess' = [sess EXCEPT ![k].next = sess[k].acked + 1]
  /\ UNCHANGED <<env, stream, broker, pump, conn, client, active>>

-----------------------------------------------------------------------------
(* Cleanup. Dropping the handle ends the reservation first and deletes the  *)
(* consumer from a detached task.                                           *)

DropConsumers(ks) ==
  [broker EXCEPT !.active = @ \ {sess[k].id : k \in ks},
                 !.deletes = @ \cup {sess[k].id : k \in {j \in ks : sess[j].pc = "open"}}]
delete_consumer(id) ==
  /\ id \in broker.deletes
  /\ broker' = [broker EXCEPT !.deletes = @ \ {id}, !.consumers = @ \ {id}]
  /\ UNCHANGED <<env, stream, sess, pump, conn, client, active, faults>>
delete_fails(id) ==
  /\ id \in broker.deletes /\ Fault("delete")
  /\ broker' = [broker EXCEPT !.deletes = @ \ {id}]
  /\ UNCHANGED <<env, stream, sess, pump, conn, client, active>>
(* inactive_threshold: nobody pulls from the consumer of a waiting pump. *)
inactive(k) ==
  /\ sess[k].pc = "open" /\ Exists(k) /\ pump[k].pc \in {"subs", "asleep"} /\ Fault("inactive")
  /\ broker' = [broker EXCEPT !.consumers = @ \ {sess[k].id}, !.expired = @ \cup {sess[k].id}]
  /\ UNCHANGED <<env, stream, sess, pump, conn, client, active>>

(* reap_once: a snapshot of the live set, the names on the server, and for *)
(* each name a last look under the gate. The sweeps are bounded with the    *)
(* faults.                                                                 *)
Reaper(r) == broker' = [broker EXCEPT !.reaper = r]
reap_snapshot ==
  /\ broker.reaper.pc = "idle" /\ Fault("sweep")
  /\ Reaper([NoReaper EXCEPT !.pc = "list", !.live = broker.active])
  /\ UNCHANGED <<env, stream, sess, pump, conn, client, active>>
reap_list ==
  /\ broker.reaper.pc = "list"
  /\ Reaper([broker.reaper EXCEPT !.pc = "sweep", !.names = broker.consumers \ broker.reaper.live])
  /\ UNCHANGED <<env, stream, sess, pump, conn, client, active, faults>>
reap_gate(id) ==
  /\ broker.reaper.pc = "sweep" /\ ~ Gate /\ id \in broker.reaper.names
  /\ Reaper([broker.reaper EXCEPT !.id = id, !.names = @ \ {id}])
  /\ UNCHANGED <<env, stream, sess, pump, conn, client, active, faults>>
DeleteListed == TRUE
DeleteOrphan == broker.reaper.id \notin broker.active
reap_delete ==
  /\ Gate
  /\ broker' = [broker EXCEPT !.reaper.id = None,
                  !.consumers = IF DeleteOrphan THEN @ \ {broker.reaper.id} ELSE @]
  /\ UNCHANGED <<env, stream, sess, pump, conn, client, active, faults>>
reap_delete_fails ==
  /\ Gate /\ DeleteOrphan /\ Fault("delete")
  /\ Reaper([broker.reaper EXCEPT !.id = None])
  /\ UNCHANGED <<env, stream, sess, pump, conn, client, active>>
reap_done ==
  /\ broker.reaper.pc = "sweep" /\ ~ Gate /\ broker.reaper.names = {}
  /\ Reaper(NoReaper)
  /\ UNCHANGED <<env, stream, sess, pump, conn, client, active, faults>>

jetstream_open_session(k) == reserve(k) \/ check_window(k) \/ create_consumer(k) \/ create_fails(k)
JetStreamSession(k) ==
  next_message(k) \/ stream_fails(k) \/ consumer_deleted(k) \/ flush_tick(k) \/ ack_wait(k) \/ inactive(k)
run_reaper ==
  reap_snapshot \/ reap_list \/ reap_delete \/ reap_delete_fails \/ reap_done \/ \E id \in broker.reaper.names : reap_gate(id)
JetStreamNext ==
  \/ \E k \in Keys : jetstream_open_session(k) \/ JetStreamSession(k)
  \/ run_reaper \/ \E id \in broker.deletes : delete_consumer(id) \/ delete_fails(id)

(* The consumer of an open session is on the server, unless the server       *)
(* itself dropped it: neither the reaper nor a delete left over from another *)
(* session takes it.                                                         *)
LiveConsumersKept ==
  \A k \in Keys : sess[k].pc = "open" => sess[k].id \in broker.consumers \cup broker.expired

=============================================================================
