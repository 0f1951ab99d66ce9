------------------------------ MODULE Brokers -------------------------------
(***************************************************************************)
(* The provider behind a gateway, chosen by the scenario: NATS Core (no    *)
(* sessions), JetStream or Redis Streams.                                  *)
(***************************************************************************)
EXTENDS JetStream, RedisStreams

BrokerInit ==
  CASE env.provider = "js" -> ConsumersInit
    [] env.provider = "rs" -> HubInit
    [] OTHER -> broker = [next |-> env.published + 1]

accepted(s, i) == IF env.provider = "js" THEN jetstream_accepted(s, i) ELSE redis_accepted(s, i)
Accept(k) == \E s \in accepted(sess[k], pump[k].item) : sess' = [sess EXCEPT ![k] = s]

(* A session that is dropped while it is being created may leave a consumer *)
(* that nobody owns.                                                        *)
DropSessions(ks) ==
  IF env.provider # "js" THEN broker' = broker
  ELSE \E left \in SUBSET {sess[k].id : k \in {j \in ks : sess[j].pc = "create"}} :
         broker' = [DropConsumers(ks) EXCEPT !.consumers = @ \cup left]

ProviderNext ==
  \/ env.provider = "js" /\ JetStreamNext
  \/ env.provider = "rs" /\ RedisNext

(* The consumers of one key are told apart by a number. *)
Fresh(k) == IF env.provider = "js" THEN <<k, sess[k].id[2] + 1>> ELSE <<k, 0>>
NoneOf(k) == [NoSession EXCEPT !.id = sess[k].id]

=============================================================================
