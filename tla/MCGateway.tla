----------------------------- MODULE MCGateway ------------------------------
(***************************************************************************)
(* The gateways on small instances: one scenario per gateway and provider, *)
(* each with its own faults.                                               *)
(***************************************************************************)
EXTENDS WsGateway, GraphQlGateway

CONSTANT Picked

Order(id) == Subject("acme", <<"order">>, id)
Ok(subject) == [subject |-> subject, tenant |-> subject[3], form |-> "ok"]
Order1 == Ok(Order("1"))
Order2 == Ok(Order("2"))
User == Ok(Subject("acme", <<"user">>, "1"))
Foreign == Ok(Subject("globex", <<"order">>, "1"))
Bad(form) == [subject |-> Order("1"), tenant |-> "acme", form |-> form]

Orders == <<"order", ">">>
Users == <<"user", "*">>
OrderById(id) == expand_subject(<<<<"text", "order">>, <<"args", "id">>>>, [id |-> id])

Base ==
  [kind |-> "ws_js", gateway |-> "ws", provider |-> "js",
   wants |-> [a |-> <<Orders>>], tenants |-> [a |-> "acme"],
   script |-> <<Order1, User, Order2>>, published |-> 0, retain |-> None,
   start |-> 0, issuer |-> "js", faults |-> {}, budget |-> 0, max |-> 2, hub |-> None, expected |-> "acme"]

(* NATS Core: central fan-out, two tenants, one client with two patterns. *)
Core == [Base EXCEPT !.kind = "ws_core", !.provider = "core", !.wants = [a |-> <<Orders, Users>>, b |-> <<Orders>>],
   !.tenants = [a |-> "acme", b |-> "globex"], !.expected = None,
   !.script = <<Order1, Foreign, Bad("badEnvelope"), User>>,
   !.faults = {"drop", "unsubscribe", "frame", "restart"}, !.budget = 1]
Crowded == [Core EXCEPT !.kind = "ws_core_full", !.max = 1, !.script = <<Order1>>, !.faults = {"drop"}]
(* A client comes with a cursor of the provider used before. *)
Migrated == [Core EXCEPT !.kind = "ws_migrated", !.start = 1, !.published = 1, !.tenants = [a |-> "acme", b |-> "acme"]]

WsJs == [Base EXCEPT !.script = <<Order1, Bad("badEnvelope"), User, Foreign, Order2>>,
   !.faults = {"drop", "slow", "pull", "ack", "inactive", "create", "delete", "restart", "frame", "sweep"}, !.budget = 2]
WsJsResume == [WsJs EXCEPT !.kind = "ws_js_resume", !.script = <<Order1, Order1, Order2, Order2>>,
   !.published = 2, !.start = 1, !.retain = 2, !.faults = {"drop", "ack"}]

WsRs == [Base EXCEPT !.kind = "ws_rs", !.provider = "rs", !.issuer = "rs",
   !.script = <<Order1, Bad("badEntry"), User, Order2>>,
   !.faults = {"drop", "slow", "read", "restart"}, !.budget = 2]
WsRsResume == [WsRs EXCEPT !.kind = "ws_rs_resume", !.script = <<Order1, Order1, Order2, Order2>>,
   !.published = 3, !.start = 1, !.hub = 2, !.faults = {"drop", "read"}]
WsRsTrim == [WsRs EXCEPT !.kind = "ws_rs_trim", !.script = <<Order1, Order1, Order2, Order2>>,
   !.published = 2, !.start = 1, !.retain = 2, !.faults = {"drop", "read"}]

Gql == [Base EXCEPT !.kind = "gql_js", !.gateway = "graphql",
   !.wants = [a |-> <<Orders>>, b |-> <<OrderById("2")>>], !.tenants = [a |-> "acme", b |-> "acme"],
   !.script = <<Order1, Order2>>, !.faults = {"complete", "pull"}, !.budget = 1]
GqlRs == [Gql EXCEPT !.kind = "gql_rs", !.provider = "rs", !.issuer = "rs",
   !.wants = [a |-> <<Orders>>], !.tenants = [a |-> "acme"], !.faults = {"complete", "drop", "read"}, !.budget = 2]
GqlLone == [Gql EXCEPT !.kind = "gql_lone", !.wants = [a |-> <<Orders>>], !.tenants = [a |-> "acme"],
   !.script = <<Order1, Bad("badEnvelope"), Bad("unmapped"), Order2, Order2>>, !.published = 1, !.start = 1,
   !.faults = {"drop", "complete", "slow", "create", "delete", "ack", "frame", "inactive", "sweep"}, !.budget = 2]

Every == {Core, Crowded, Migrated, WsJs, WsJsResume, WsRs, WsRsResume, WsRsTrim, Gql, GqlRs, GqlLone}
MCScenarios == {s \in Every : s.kind \in Picked}

(* Where a scenario ends: everybody is connected and has everything that is *)
(* retained. Two upgrades that are refused can keep each other out of the   *)
(* last slot, so a scenario short of slots may never get there.             *)
Listening(c) == conn[c].pc = IF env.gateway = "ws" THEN "ready" ELSE "streaming"
Settled == \A c \in Subscribers : Listening(c) /\ CaughtUp(c)
Crowd == env.gateway = "ws" /\ env.max < Cardinality(Subscribers)

GatewayInit == (WsInit /\ env.gateway = "ws") \/ (GraphQlInit /\ env.gateway = "graphql")
Next == (env.gateway = "ws" /\ WsNext) \/ (env.gateway = "graphql" /\ GraphQlNext)
        \/ ((Settled \/ Crowd) /\ UNCHANGED vars)

-----------------------------------------------------------------------------
(* Fairness. Every task of the gateway and every client keeps going; a *)
(* request of the reaper is answered or times out. The faults and the    *)
(* deletions of dropped sessions are left to chance.                     *)

Names == {"a", "b"}
Fair ==
  /\ WF_vars(Publish)
  /\ WF_vars(run_bus)
  /\ WF_vars(env.provider = "rs" /\ Tailer)
  /\ WF_vars(env.provider = "js" /\ run_reaper)
  /\ \A k \in Names \cup {"shared"} :
       /\ WF_vars(k \in Keys /\ env.provider = "rs" /\ (redis_open_session(k) \/ RedisSession(k)))
       /\ WF_vars(k \in Keys /\ env.provider = "js" /\ (jetstream_open_session(k) \/ JetStreamSession(k)))
       /\ WF_vars(k \in Keys /\ env.gateway = "graphql" /\ run_session_pump(k))
  /\ \A c \in Names :
       /\ WF_vars(c \in Subscribers /\ env.gateway = "ws" /\ Connection(c))
       /\ WF_vars(c \in Subscribers /\ env.gateway = "ws" /\ Pump(c))
       /\ WF_vars(c \in Subscribers /\ env.gateway = "graphql" /\ Operation(c))
  /\ WF_vars(env.gateway = "graphql" /\ (connect \/ reconnect))
Spec == GatewayInit /\ [][Next]_vars /\ Fair

-----------------------------------------------------------------------------
(* Properties. *)

(* The registries agree with what is open: neither the reaper nor a late   *)
(* delete removes the consumer of an open JetStream session (ActiveSet and *)
(* its deletion gate), and no more WebSocket connections than              *)
(* max_connections are admitted, though try_admit adds before it looks.    *)
SessionsAccounted ==
  /\ env.provider = "js" => LiveConsumersKept
  /\ env.gateway = "ws" => WithinCap

(* Every client ends up connected with everything it asked for that is     *)
(* still retained: no wake-up of a GraphQL pump is lost, no failed session *)
(* leaves its clients waiting.                                             *)
Completes == <>[](Settled \/ Crowd)

=============================================================================
