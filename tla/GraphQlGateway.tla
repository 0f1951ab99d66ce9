--------------------------- MODULE GraphQlGateway ---------------------------
(***************************************************************************)
(* The GraphQL gateway (ventstream-graphql): the operations of one socket. *)
(* Operations without a cursor share the session "shared"; one that        *)
(* resumes has a session of its own. A source is the session, the pump     *)
(* that drains it and a local broadcast.                                   *)
(***************************************************************************)
EXTENDS Brokers, FiniteSetsExt

CONSTANT OperationCapacity

ASSUME CapacityAssumption == OperationCapacity \in Nat \ {0}

NoOperation == [pc |-> "idle", key |-> None, queue |-> <<>>, lagged |-> FALSE]
Closed == [open |-> FALSE, cursor |-> None]
GraphQlInit ==
  Init /\ BrokerInit /\ active = Closed /\ conn = [c \in Subscribers |-> NoOperation]

End(c, pc) == [conn EXCEPT ![c] = [NoOperation EXCEPT !.pc = pc]]

(* Dropping a source cancels its pump, which drops the session. *)
DropSources(ks) ==
  /\ sess' = [k \in Keys |-> IF k \in ks THEN NoneOf(k) ELSE sess[k]]
  /\ pump' = [k \in Keys |-> IF k \in ks THEN NoPump ELSE pump[k]]
  /\ DropSessions({k \in ks : sess[k].pc \notin {"none", "gone"}})
(* An operation that ends takes its own source with it; the shared one stays *)
(* in the cell of the socket. The operation guard wakes the pump.            *)
Woken(p) == [p EXCEPT !.notified = @ \/ p.pc \in {"recheck", "asleep"}]
Release(c) ==
  IF conn[c].key = c THEN DropSources({c})
  ELSE /\ pump' = [pump EXCEPT !["shared"] = IF conn[c].pc = "streaming" THEN Woken(@) ELSE @]
       /\ UNCHANGED <<sess, broker>>

-----------------------------------------------------------------------------
(* connection_init. *)

validate_tenant(tenant) == env.expected \in {None, tenant}
extract(p) ==
  IF ~ p.token \/ p.tenant = None \/ ~ validate_tenant(p.tenant) THEN [ok |-> FALSE]
  ELSE IF p.legacy # None /\ p.cursor # None /\ p.legacy # p.cursor THEN [ok |-> FALSE]
  ELSE [ok |-> TRUE, cursor |-> IF p.legacy # None THEN p.legacy ELSE p.cursor]

(* A socket with one operation sends its cursor with connection_init. *)
Lone == CHOOSE c \in Subscribers : TRUE
ConnectionCursor ==
  IF Cardinality(Subscribers) # 1 \/ client[Lone].cursor = None THEN None
  ELSE from_wire_compatible(client[Lone].cursor)
InitPayload == [token |-> TRUE, tenant |-> env.tenants[Lone], legacy |-> None, cursor |-> ConnectionCursor]
OddPayloads ==
  {[InitPayload EXCEPT !.token = FALSE], [InitPayload EXCEPT !.tenant = None],
   [InitPayload EXCEPT !.legacy = Cursor("js", 0), !.cursor = Cursor("js", 1)]}

graphql_ws_handler(p) ==
  /\ ~ active.open
  /\ active' = IF extract(p).ok THEN [open |-> TRUE, cursor |-> extract(p).cursor] ELSE Closed
  /\ UNCHANGED <<env, stream, broker, sess, pump, conn, client>>
connect == graphql_ws_handler(InitPayload) /\ UNCHANGED faults
connect_odd == Fault("frame") /\ \E p \in OddPayloads : graphql_ws_handler(p)

(* The socket closes: by itself, or because a client whose operation failed *)
(* connects again.                                                          *)
Disconnect ==
  /\ active' = Closed
  /\ conn' = [c \in Subscribers |-> NoOperation]
  /\ DropSources(Keys)
  /\ client' = [c \in Subscribers |-> IF client[c].cursor = None THEN StartOver(c)[c] ELSE client[c]]
disconnect == active.open /\ Fault("drop") /\ Disconnect /\ UNCHANGED <<env, stream>>
reconnect ==
  /\ active.open /\ \E c \in Subscribers : conn[c].pc = "failed"
  /\ Disconnect
  /\ UNCHANGED <<env, stream, faults>>

-----------------------------------------------------------------------------
(* connection_stream. *)

resolve_resume_cursor(operation, connection) == IF operation # None THEN operation ELSE connection
OperationCursor(c) == IF client[c].cursor = None THEN None ELSE from_wire_compatible(client[c].cursor)

events(c) ==
  /\ active.open /\ conn[c].pc = "idle" /\ Pattern(c, 1) # Invalid
  /\ conn' = [conn EXCEPT ![c] = [NoOperation EXCEPT !.pc = "opening",
       !.key = IF resolve_resume_cursor(OperationCursor(c), active.cursor) # None THEN c ELSE "shared"]]
  /\ UNCHANGED <<env, stream, broker, sess, pump, client, active, faults>>

(* get_or_try_init: one operation creates the shared source, others wait. *)
create(c) ==
  /\ conn[c].pc = "opening" /\ sess[conn[c].key].pc = "none"
  /\ LET k == conn[c].key IN
     sess' = [sess EXCEPT ![k] =
       IF k = "shared" THEN Opening(Fresh(k), None, None)
       ELSE Opening(Fresh(k), resolve_resume_cursor(OperationCursor(c), active.cursor), Pattern(c, 1))]
  /\ UNCHANGED <<env, stream, broker, pump, conn, client, active, faults>>
created(c) ==
  /\ conn[c].pc = "opening" /\ sess[conn[c].key].pc \in {"open", "gone"}
  /\ conn' = [conn EXCEPT ![c].pc = "attach"]
  /\ pump' = [pump EXCEPT ![conn[c].key] = IF @.pc = "none" THEN [NoPump EXCEPT !.pc = "wait"] ELSE @]
  /\ UNCHANGED <<env, stream, broker, sess, client, active, faults>>
broker_setup_error(c) ==
  /\ conn[c].pc = "opening" /\ sess[conn[c].key].pc = "refused"
  /\ conn' = End(c, "failed")
  /\ sess' = [sess EXCEPT ![conn[c].key] = NoneOf(conn[c].key)]
  /\ client' = IF sess[conn[c].key].error = "Unavailable" THEN client ELSE StartOver(c)
  /\ UNCHANGED <<env, stream, broker, pump, active, faults>>

(* ConnEventSource::subscribe: the receiver, then the wake-up, then a look *)
(* at whether the pump has ended.                                          *)
Receivers(k) == {c \in Subscribers : conn[c].key = k /\ conn[c].pc \in {"notify", "check", "streaming"}}
attach(c) ==
  /\ conn[c].pc = "attach"
  /\ conn' = [conn EXCEPT ![c].pc = "notify"]
  /\ client' = Begin(c, 1, sess[conn[c].key].pos)
  /\ UNCHANGED <<env, stream, broker, sess, pump, active, faults>>
notify(c) ==
  /\ conn[c].pc = "notify"
  /\ conn' = [conn EXCEPT ![c].pc = "check"]
  /\ pump' = [pump EXCEPT ![conn[c].key] = Woken(@)]
  /\ UNCHANGED <<env, stream, broker, sess, client, active, faults>>
check_terminal(c) ==
  /\ conn[c].pc = "check"
  /\ IF pump[conn[c].key].terminal # None
     THEN conn' = End(c, "failed") /\ Release(c)
     ELSE conn' = [conn EXCEPT ![c].pc = "streaming"] /\ UNCHANGED <<sess, pump, broker>>
  /\ UNCHANGED <<env, stream, client, active, faults>>

(* filtered_stream, and the projection of a typed subscription, which leaves *)
(* out an event it cannot build a response for.                              *)
build_response(i) == Entry(i).form = "ok"
receive_all(c) ==
  /\ conn[c].pc = "streaming" /\ ~ conn[c].lagged /\ conn[c].queue # <<>> /\ Head(conn[c].queue) # Terminal
  /\ client' = Process(c, Head(conn[c].queue))
  /\ conn' = [conn EXCEPT ![c].queue = Tail(@)]
  /\ UNCHANGED <<env, stream, broker, sess, pump, active, faults>>
receive(c) ==
  /\ conn[c].pc = "streaming" /\ ~ conn[c].lagged /\ conn[c].queue # <<>> /\ Head(conn[c].queue) # Terminal
  /\ LET i == Head(conn[c].queue) IN
     client' = IF matches_str(Pattern(c, 1), Entry(i).subject) /\ build_response(i) THEN Process(c, i) ELSE client
  /\ conn' = [conn EXCEPT ![c].queue = Tail(@)]
  /\ UNCHANGED <<env, stream, broker, sess, pump, active, faults>>
receive_error(c) ==
  /\ conn[c].pc = "streaming" /\ (conn[c].lagged \/ (conn[c].queue # <<>> /\ Head(conn[c].queue) = Terminal))
  /\ conn' = End(c, "failed") /\ Release(c)
  /\ UNCHANGED <<env, stream, client, active, faults>>
complete(c) ==
  /\ conn[c].pc = "streaming" /\ Fault("complete")
  /\ conn' = End(c, "idle") /\ Release(c)
  /\ client' = IF client[c].cursor = None THEN StartOver(c) ELSE client
  /\ UNCHANGED <<env, stream, active>>

-----------------------------------------------------------------------------
(* wait_for_operation_receiver: look, register for the wake-up, look again. *)

At(k, pc) == pump' = [pump EXCEPT ![k] = [@ EXCEPT !.pc = pc, !.notified = FALSE]]
wait_look(k) ==
  /\ pump[k].pc = "wait"
  /\ At(k, IF Receivers(k) # {} THEN pump[k].goal ELSE "enable")
  /\ UNCHANGED <<env, stream, broker, sess, conn, client, active, faults>>
wait_enable(k) ==
  /\ pump[k].pc = "enable" /\ At(k, "recheck")
  /\ UNCHANGED <<env, stream, broker, sess, conn, client, active, faults>>
sleep_unseen(k) ==
  /\ pump[k].pc = "recheck"
  /\ pump' = [pump EXCEPT ![k].pc = "asleep"]
  /\ UNCHANGED <<env, stream, broker, sess, conn, client, active, faults>>
wait_recheck(k) ==
  /\ pump[k].pc = "recheck"
  /\ pump' = [pump EXCEPT ![k].pc = IF Receivers(k) # {} THEN pump[k].goal ELSE "asleep"]
  /\ UNCHANGED <<env, stream, broker, sess, conn, client, active, faults>>
wait_woken(k) ==
  /\ pump[k].pc = "asleep" /\ pump[k].notified /\ At(k, "wait")
  /\ UNCHANGED <<env, stream, broker, sess, conn, client, active, faults>>

(* run_session_pump. *)
Wait(p, goal) == [p EXCEPT !.pc = "wait", !.goal = goal]
SenderLen(k) == Max({0} \cup {Len(conn[c].queue) : c \in Receivers(k)})
pump_room(k) ==
  /\ pump[k].pc = "room" /\ SenderLen(k) < OperationCapacity
  /\ At(k, "next")
  /\ UNCHANGED <<env, stream, broker, sess, conn, client, active, faults>>
pump_lagged(k) ==
  /\ pump[k].pc = "room" /\ SenderLen(k) >= OperationCapacity /\ Fault("slow")
  /\ pump' = [pump EXCEPT ![k].pc = "ending", ![k].terminal = "SUBSCRIPTION_LAGGED"]
  /\ UNCHANGED <<env, stream, broker, sess, conn, client, active>>
pump_unavailable(k) ==
  /\ pump[k].pc = "failed"
  /\ pump' = [pump EXCEPT ![k].pc = "ending", ![k].terminal = "EVENT_STREAM_UNAVAILABLE"]
  /\ UNCHANGED <<env, stream, broker, sess, conn, client, active, faults>>
pump_item(k) ==
  /\ pump[k].pc = "got"
  /\ IF Entry(pump[k].item).form = "badEnvelope"
     THEN Accept(k) /\ pump' = [pump EXCEPT ![k] = Wait(@, "room")]
     ELSE pump' = [pump EXCEPT ![k] = Wait(@, "send")] /\ UNCHANGED sess
  /\ UNCHANGED <<env, stream, broker, conn, client, active, faults>>

Queued(o, m) ==
  IF Len(o.queue) < OperationCapacity THEN [o EXCEPT !.queue = Append(@, m)]
  ELSE [o EXCEPT !.queue = Append(Tail(@), m), !.lagged = TRUE]
Broadcast(k, m) == conn' = [c \in Subscribers |-> IF c \in Receivers(k) THEN Queued(conn[c], m) ELSE conn[c]]
(* Without a receiver the send fails and the event is kept for the next one. *)
pump_broadcast(k) ==
  /\ pump[k].pc = "send"
  /\ Broadcast(k, pump[k].item)
  /\ IF Receivers(k) = {} THEN pump' = [pump EXCEPT ![k] = Wait(@, "send")] /\ UNCHANGED sess
     ELSE pump' = [pump EXCEPT ![k] = Wait(@, "room")] /\ Accept(k)
  /\ UNCHANGED <<env, stream, broker, client, active, faults>>
(* The pump returns and drops its session; the source stays in its cell. *)
terminate(k) ==
  /\ pump[k].pc = "ending"
  /\ pump' = [pump EXCEPT ![k].pc = "dead"] /\ Broadcast(k, Terminal)
  /\ sess' = [sess EXCEPT ![k].pc = "gone"] /\ DropSessions({k})
  /\ UNCHANGED <<env, stream, client, active, faults>>

Operation(c) ==
  \/ events(c) \/ create(c) \/ created(c) \/ broker_setup_error(c)
  \/ attach(c) \/ notify(c) \/ check_terminal(c) \/ receive(c) \/ receive_error(c) \/ complete(c)
run_session_pump(k) ==
  \/ wait_look(k) \/ wait_enable(k) \/ wait_recheck(k) \/ wait_woken(k) \/ pump_room(k) \/ pump_lagged(k)
  \/ pump_unavailable(k) \/ pump_item(k) \/ pump_broadcast(k) \/ terminate(k)
GraphQlNext ==
  \/ ProviderNext \/ Publish \/ connect \/ connect_odd \/ disconnect \/ reconnect
  \/ (\E c \in Subscribers : Operation(c)) \/ (\E k \in Keys : run_session_pump(k))

=============================================================================
