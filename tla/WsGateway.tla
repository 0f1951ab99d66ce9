----------------------------- MODULE WsGateway ------------------------------
(***************************************************************************)
(* The native WebSocket gateway (ventstream-ws): admission, the Hello      *)
(* handshake, subscriptions, the pump of a durable session, the central    *)
(* fan-out of NATS Core, and every way a connection ends.                  *)
(***************************************************************************)
EXTENDS Brokers

CONSTANT MailboxCapacity

NoConn == [pc |-> "idle", registered |-> FALSE, subs |-> {}, mailbox |-> <<>>]
WsInit == Init /\ BrokerInit /\ active = 0 /\ conn = [c \in Subscribers |-> NoConn]

(* What the drop guards undo when a connection task returns. *)
Leave(c) ==
  /\ conn' = [conn EXCEPT ![c] = NoConn]
  /\ active' = active - 1
  /\ pump' = [pump EXCEPT ![c] = NoPump]
  /\ sess' = [sess EXCEPT ![c] = NoneOf(c)]
  /\ DropSessions({c})
(* A client that has no cursor yet can only start over. *)
Lost(c) == IF client[c].cursor = None THEN StartOver(c) ELSE client
Close(c) == Leave(c) /\ client' = Lost(c)

-----------------------------------------------------------------------------
(* Admission and handshake. *)

(* try_admit adds first and takes the addition back when it is one too many. *)
admit_one_more(c) ==
  /\ conn[c].pc = "idle"
  /\ active' = active + 1
  /\ conn' = [conn EXCEPT ![c].pc = IF active > env.max THEN "rejected" ELSE "hello"]
  /\ UNCHANGED <<env, stream, broker, sess, pump, client, faults>>
try_admit(c) ==
  /\ conn[c].pc = "idle"
  /\ active' = active + 1
  /\ conn' = [conn EXCEPT ![c].pc = IF active + 1 > env.max THEN "rejected" ELSE "hello"]
  /\ UNCHANGED <<env, stream, broker, sess, pump, client, faults>>
roll_back(c) ==
  /\ conn[c].pc = "rejected"
  /\ active' = active - 1 /\ conn' = [conn EXCEPT ![c] = NoConn]
  /\ UNCHANGED <<env, stream, broker, sess, pump, client, faults>>

tenant_authorized(tenant) == env.expected \in {None, tenant}
authorize_hello(h) ==
  IF ~ h.hello \/ ~ h.token \/ ~ tenant_authorized(h.tenant) THEN [ok |-> FALSE]
  ELSE IF h.legacy # None /\ h.cursor # None /\ h.legacy # h.cursor THEN [ok |-> FALSE]
  ELSE [ok |-> TRUE, cursor |-> IF h.legacy # None THEN h.legacy ELSE h.cursor]

HelloOf(c) ==
  LET w == client[c].cursor IN
  [hello |-> TRUE, token |-> TRUE, tenant |-> env.tenants[c],
   legacy |-> IF w # None /\ w.prefix = None THEN from_wire_compatible(w) ELSE None,
   cursor |-> IF w = None THEN None ELSE from_wire_compatible(w)]
(* First frames no client of this model sends twice: another frame, no token, *)
(* a tenant of another deployment, two cursors that disagree.                 *)
OddHellos(c) ==
  LET h == HelloOf(c) IN
  {[h EXCEPT !.hello = FALSE], [h EXCEPT !.token = FALSE], [h EXCEPT !.tenant = None],
   [h EXCEPT !.legacy = Cursor("js", 0), !.cursor = Cursor("js", 1)]}

(* The decision comes before the connection has any resource. *)
Answer(c, h) ==
  LET a == authorize_hello(h) IN
  IF ~ a.ok THEN Close(c)
  ELSE IF a.cursor # None /\ ~ capabilities(env.provider).replay
  THEN Leave(c) /\ client' = StartOver(c)
  ELSE /\ conn' = [conn EXCEPT ![c] = [@ EXCEPT !.pc = IF env.provider = "core" THEN "ready" ELSE "session",
                                                !.registered = TRUE]]
       /\ sess' = IF env.provider = "core" THEN sess
                  ELSE [sess EXCEPT ![c] = Opening(Fresh(c), a.cursor, None)]
       /\ UNCHANGED <<broker, pump, client, active>>
hello(c) ==
  /\ conn[c].pc = "hello" /\ Answer(c, HelloOf(c))
  /\ UNCHANGED <<env, stream, faults>>
odd_hello(c) ==
  /\ conn[c].pc = "hello" /\ Fault("frame")
  /\ \E h \in OddHellos(c) : Answer(c, h)
  /\ UNCHANGED <<env, stream>>

session_opened(c) ==
  /\ conn[c].pc = "session" /\ sess[c].pc = "open"
  /\ conn' = [conn EXCEPT ![c].pc = "ready"]
  /\ pump' = [pump EXCEPT ![c] = [NoPump EXCEPT !.pc = "subs"]]
  /\ UNCHANGED <<env, stream, broker, sess, client, active, faults>>
session_refused(c) ==
  /\ conn[c].pc = "session" /\ sess[c].pc = "refused"
  /\ Leave(c)
  /\ client' = IF sess[c].error = "Unavailable" THEN Lost(c) ELSE StartOver(c)
  /\ UNCHANGED <<env, stream, faults>>

-----------------------------------------------------------------------------
(* Subscriptions. *)

Position(c) == IF env.provider = "core" THEN broker.next - 1 ELSE sess[c].pos
(* An entry the bus has evicted takes no subscription any more. *)
add_subscription(c, s) == [conn EXCEPT ![c].subs = IF conn[c].registered THEN @ \cup {s} ELSE @]
subscribe(c, s) ==
  /\ conn[c].pc = "ready" /\ s \notin conn[c].subs /\ conn[c].registered
  /\ Pattern(c, s) # Invalid
  /\ conn' = add_subscription(c, s)
  /\ client' = Begin(c, s, Position(c))
  /\ UNCHANGED <<env, stream, broker, sess, pump, active, faults>>
unsubscribe(c, s) ==
  /\ conn[c].pc = "ready" /\ s \in conn[c].subs /\ conn[c].registered /\ Fault("unsubscribe")
  /\ conn' = [conn EXCEPT ![c].subs = @ \ {s}]
  /\ client' = [client EXCEPT ![c].from[s] = None]
  /\ UNCHANGED <<env, stream, broker, sess, pump, active>>

Matched(c, i) == {s \in conn[c].subs : matches_str(Pattern(c, s), Entry(i).subject)}

-----------------------------------------------------------------------------
(* run_consumer_pump: waits for the first subscription, accepts an event once *)
(* it is discarded on purpose or in the mailbox.                              *)

start_at_once(c) ==
  /\ pump[c].pc = "subs"
  /\ pump' = [pump EXCEPT ![c].pc = "next"]
  /\ UNCHANGED <<env, stream, broker, sess, conn, client, active, faults>>
pump_start(c) ==
  /\ pump[c].pc = "subs" /\ conn[c].subs # {}
  /\ pump' = [pump EXCEPT ![c].pc = "next"]
  /\ UNCHANGED <<env, stream, broker, sess, conn, client, active, faults>>
pump_handle(c) ==
  /\ pump[c].pc = "got"
  /\ IF Entry(pump[c].item).form # "ok" \/ Matched(c, pump[c].item) = {}
     THEN Accept(c) /\ pump' = [pump EXCEPT ![c].pc = "next"]
     ELSE pump' = [pump EXCEPT ![c].pc = "send"] /\ UNCHANGED sess
  /\ UNCHANGED <<env, stream, broker, conn, client, active, faults>>
pump_send(c) ==
  /\ pump[c].pc = "send" /\ Len(conn[c].mailbox) < MailboxCapacity
  /\ conn' = [conn EXCEPT ![c].mailbox = Append(@, pump[c].item)]
  /\ Accept(c) /\ pump' = [pump EXCEPT ![c].pc = "next"]
  /\ UNCHANGED <<env, stream, broker, client, active, faults>>
(* send_timeout *)
pump_slow(c) ==
  /\ pump[c].pc = "send" /\ Len(conn[c].mailbox) = MailboxCapacity /\ Fault("slow")
  /\ pump' = [pump EXCEPT ![c].pc = "failed"]
  /\ UNCHANGED <<env, stream, broker, sess, conn, client, active>>
(* The connection ends with its pump, whatever the mailbox still holds. *)
pump_ended(c) ==
  /\ pump[c].pc = "failed" /\ Close(c)
  /\ UNCHANGED <<env, stream, faults>>

-----------------------------------------------------------------------------
(* run_bus and dispatch (NATS Core). A full mailbox costs the connection its *)
(* registry entry; what it holds already is still written.                   *)

Targets(i) ==
  {c \in Subscribers : conn[c].registered /\ env.tenants[c] = Entry(i).tenant /\ Matched(c, i) # {}}
dispatch(i) ==
  [c \in Subscribers |->
     IF c \notin Targets(i) THEN conn[c]
     ELSE IF Len(conn[c].mailbox) < MailboxCapacity THEN [conn[c] EXCEPT !.mailbox = Append(@, i)]
     ELSE [conn[c] EXCEPT !.registered = FALSE]]
run_bus ==
  /\ env.provider = "core" /\ broker.next <= Latest
  /\ broker' = [next |-> broker.next + 1]
  /\ conn' = IF Entry(broker.next).form = "ok" THEN dispatch(broker.next) ELSE conn
  /\ UNCHANGED <<env, stream, sess, pump, client, active, faults>>

-----------------------------------------------------------------------------
(* The connection task: write the mailbox, or end. *)

write(c) ==
  /\ conn[c].pc = "ready" /\ conn[c].mailbox # <<>>
  /\ conn' = [conn EXCEPT ![c].mailbox = Tail(@)]
  /\ client' = Process(c, Head(conn[c].mailbox))
  /\ UNCHANGED <<env, stream, broker, sess, pump, active, faults>>
outbound_closed(c) ==
  /\ conn[c].pc = "ready" /\ ~ conn[c].registered /\ conn[c].mailbox = <<>>
  /\ Close(c)
  /\ UNCHANGED <<env, stream, faults>>
(* A failed write, a read error, a close frame, a pong that does not come. *)
connection_lost(c) ==
  /\ conn[c].pc \in {"hello", "ready"} /\ Fault("drop")
  /\ Close(c)
  /\ UNCHANGED <<env, stream>>

(* The process ends. Its consumers stay on the server, its hub does not. *)
restart ==
  /\ Fault("restart")
  /\ conn' = [c \in Subscribers |-> NoConn] /\ active' = 0
  /\ pump' = [k \in Keys |-> NoPump] /\ sess' = [k \in Keys |-> NoneOf(k)]
  /\ client' = [c \in Subscribers |-> Lost(c)[c]]
  /\ broker' = CASE env.provider = "js" -> [broker EXCEPT !.active = {}, !.deletes = {}, !.reaper = NoReaper]
                 [] env.provider = "rs" -> NoHub
                 [] OTHER -> [next |-> Latest + 1]
  /\ UNCHANGED <<env, stream>>

Connection(c) ==
  \/ try_admit(c) \/ roll_back(c) \/ hello(c) \/ odd_hello(c) \/ session_opened(c) \/ session_refused(c)
  \/ (\E s \in DOMAIN env.wants[c] : subscribe(c, s) \/ unsubscribe(c, s))
  \/ pump_ended(c) \/ write(c) \/ outbound_closed(c) \/ connection_lost(c)
Pump(c) == pump_start(c) \/ pump_handle(c) \/ pump_send(c) \/ pump_slow(c)
WsNext == ProviderNext \/ Publish \/ run_bus \/ restart \/ \E c \in Subscribers : Connection(c) \/ Pump(c)

(* No more connections than the cap hold a socket, however many upgrades *)
(* race for the last slot.                                               *)
WithinCap == Cardinality({c \in Subscribers : conn[c].pc \notin {"idle", "rejected"}}) <= env.max

=============================================================================
