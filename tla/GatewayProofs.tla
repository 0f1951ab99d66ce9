--------------------------- MODULE GatewayProofs ----------------------------
(***************************************************************************)
(* SessionsAccounted holds in every behaviour of the two gateways, for any *)
(* number of clients, any cap and any stream.                              *)
(*                                                                         *)
(* Consumers: an id a session has reserved stays in the live set until the *)
(* session is dropped, so the last look of the reaper finds it there; and  *)
(* a delete left over by a dropped session names an id that no later       *)
(* session of that key uses, because ids are numbered.                     *)
(* Connections: try_admit counts before it looks, so the counter is the    *)
(* number of upgrades that are admitted or about to be turned away, and an *)
(* upgrade is admitted only while that number is within the cap.           *)
(***************************************************************************)
EXTENDS MCGateway, FiniteSetTheorems, TLAPS

-----------------------------------------------------------------------------
(* The inductive invariant. *)

Using == {"check", "create", "open"}
Live == Using \cup {"reserve"}

SessionShape(s, k) ==
  /\ {"pc", "id"} \subseteq DOMAIN s
  /\ s.id \in {k} \X Nat
BrokerShape == {"consumers", "active", "expired", "deletes", "reaper"} \subseteq DOMAIN broker

Owned(k) ==
  /\ sess[k].pc \in Using => sess[k].id \in broker.active
  /\ sess[k].pc \in Live => sess[k].id \notin broker.deletes
  /\ sess[k].pc = "open" => sess[k].id \in broker.consumers \cup broker.expired
  /\ \A n \in Nat : n > sess[k].id[2] => <<k, n>> \notin broker.deletes
JsInv ==
  /\ DOMAIN sess = Keys /\ BrokerShape
  /\ \A k \in Keys : SessionShape(sess[k], k) /\ Owned(k)

Counted == {c \in Subscribers : conn[c].pc # "idle"}
Admitted == {c \in Subscribers : conn[c].pc \notin {"idle", "rejected"}}
Capped ==
  /\ active = Cardinality(Counted)
  /\ Cardinality(Admitted) <= env.max
Tasks ==
  /\ DOMAIN conn = Subscribers /\ \A c \in Subscribers : "pc" \in DOMAIN conn[c]
  /\ DOMAIN pump = Keys /\ \A k \in Keys : "pc" \in DOMAIN pump[k]
  /\ \A c \in Subscribers : pump[c].pc # "none" => conn[c].pc = "ready"
WsInv == Capped /\ Tasks

IInv ==
  /\ env \in Scenarios
  /\ env.provider = "js" => JsInv
  /\ env.gateway = "ws" => WsInv

-----------------------------------------------------------------------------
(* What becomes of the sessions in one step. *)

(* A session is over, or opened anew under the next number, or goes on with *)
(* what an open session needs.                                              *)
Over(k) == sess'[k].pc \notin Live /\ sess'[k].id = sess[k].id
Anew(k) == sess'[k].pc = "reserve" /\ sess'[k].id = <<k, sess[k].id[2] + 1>>
GoesOn(k) ==
  /\ sess[k].pc \in Live /\ sess'[k].id = sess[k].id
  /\ sess'[k].pc \in Using => sess[k].id \in broker'.active
  /\ sess'[k].pc = "open" => sess[k].id \in broker'.consumers \cup broker'.expired

LEMMA Prime == ASSUME UNCHANGED env PROVE Keys' = Keys /\ Subscribers' = Subscribers
  BY Zenon DEF Keys, Subscribers

LEMMA Ids ==
  ASSUME NEW k, NEW s, SessionShape(s, k)
  PROVE  s.id = <<k, s.id[2]>> /\ s.id[2] \in Nat /\ s.id[1] = k
  BY DEF SessionShape

(* Deletes are only added for sessions that are over. *)
LEMMA Kept ==
  ASSUME JsInv, UNCHANGED env, DOMAIN sess' = Keys, BrokerShape',
         \A k \in Keys : {"pc", "id"} \subseteq DOMAIN sess'[k],
         \A k \in Keys : Over(k) \/ Anew(k) \/ GoesOn(k),
         \A id \in broker'.deletes :
            id \in broker.deletes \/ \E j \in Keys : Over(j) /\ id = sess[j].id
  PROVE  JsInv'
<1>1. Keys' = Keys
  BY Prime, Zenon
<1>2. ASSUME NEW k \in Keys PROVE SessionShape(sess'[k], k)
  BY <1>2, Ids DEF JsInv, SessionShape, Over, Anew, GoesOn
<1>3. ASSUME NEW k \in Keys, NEW n \in Nat, <<k, n>> \in broker'.deletes
      PROVE  <<k, n>> \in broker.deletes \/ (Over(k) /\ n = sess[k].id[2])
  <2>1. ASSUME NEW j \in Keys, Over(j), <<k, n>> = sess[j].id PROVE Over(k) /\ n = sess[k].id[2]
    BY <2>1, Ids DEF JsInv
  <2> QED BY <1>3, <2>1
<1>4. ASSUME NEW k \in Keys PROVE Owned(k)'
  <2>1. SessionShape(sess[k], k) /\ Owned(k) /\ SessionShape(sess'[k], k)
    BY <1>2, Zenon DEF JsInv
  <2>2. sess[k].id = <<k, sess[k].id[2]>> /\ sess[k].id[2] \in Nat
    BY <2>1, Ids, ZenonT(30)
  <2>3. CASE Over(k)
    <3>1. ASSUME NEW n \in Nat, n > sess[k].id[2] PROVE <<k, n>> \notin broker'.deletes
      BY <1>3, <2>1, <2>2, <3>1 DEF Owned
    <3> QED BY <2>3, <3>1 DEF Owned, Over, Live, Using
  <2>4. CASE Anew(k)
    <3>1. ~ Over(k)
      BY <2>4 DEF Over, Anew, Live
    <3>2. ASSUME NEW n \in Nat, n > sess[k].id[2] PROVE <<k, n>> \notin broker'.deletes
      BY <1>3, <2>1, <3>1, <3>2 DEF Owned
    <3>3. sess'[k].id = <<k, sess[k].id[2] + 1>> /\ sess'[k].id[2] = sess[k].id[2] + 1
      BY <2>4 DEF Anew
    <3>4. sess'[k].id \notin broker'.deletes
      BY <2>2, <3>2, <3>3
    <3>5. ASSUME NEW n \in Nat, n > sess'[k].id[2] PROVE <<k, n>> \notin broker'.deletes
      BY <2>2, <3>2, <3>3, <3>5
    <3> QED BY <2>4, <3>4, <3>5 DEF Owned, Anew, Using
  <2>5. CASE GoesOn(k)
    <3>1. CASE Over(k)
      BY <2>3, <3>1, Zenon
    <3>2. CASE ~ Over(k)
      <4>1. ASSUME NEW n \in Nat, n >= sess[k].id[2], <<k, n>> \in broker'.deletes PROVE <<k, n>> \in broker.deletes
        BY <1>3, <3>2, <4>1, Zenon
      <4>2. sess[k].id \notin broker.deletes
        BY <2>1, <2>5, Zenon DEF Owned, GoesOn
      <4>3. sess[k].id \notin broker'.deletes
        <5>1. sess[k].id[2] \in Nat /\ sess[k].id[2] >= sess[k].id[2]
          BY <2>2
        <5> QED BY <2>2, <4>1, <4>2, <5>1, Zenon
      <4>4. ASSUME NEW n \in Nat, n > sess[k].id[2] PROVE <<k, n>> \notin broker'.deletes
        BY <2>1, <2>2, <4>1, <4>4 DEF Owned
      <4> QED BY <2>5, <4>3, <4>4, Zenon DEF Owned, GoesOn
    <3> QED BY <3>1, <3>2, Zenon
  <2> QED BY <2>3, <2>4, <2>5, Zenon
<1> QED BY <1>1, <1>2, <1>4, Zenon DEF JsInv
-----------------------------------------------------------------------------
(* The steps of JetStream. *)

(* Only the session of k changes. *)
LEMMA Only ==
  ASSUME JsInv, NEW k \in Keys, NEW s, {"pc", "id"} \subseteq DOMAIN s,
         sess' = [sess EXCEPT ![k] = s]
  PROVE  /\ DOMAIN sess' = Keys /\ sess'[k] = s
         /\ \A j \in Keys \ {k} : sess'[j] = sess[j]
         /\ \A j \in Keys : {"pc", "id"} \subseteq DOMAIN sess'[j]
  BY DEF JsInv, SessionShape

(* A session whose pc and id stay, over a broker that takes nothing from it. *)
Spared(k) ==
  /\ sess[k].pc \in Using => sess[k].id \in broker'.active
  /\ sess[k].pc = "open" => sess[k].id \in broker'.consumers \cup broker'.expired
LEMMA Stays ==
  ASSUME JsInv, NEW k \in Keys, sess'[k].pc = sess[k].pc, sess'[k].id = sess[k].id, Spared(k)
  PROVE  Over(k) \/ GoesOn(k)
  BY Zenon DEF Over, GoesOn, Spared

(* One session of JetStream takes a step. *)
LEMMA OneSession ==
  ASSUME JsInv, UNCHANGED env, NEW k \in Keys, NEW s, {"pc", "id"} \subseteq DOMAIN s,
         sess' = [sess EXCEPT ![k] = s], BrokerShape', Over(k) \/ Anew(k) \/ GoesOn(k),
         \A j \in Keys \ {k} : Spared(j),
         \A id \in broker'.deletes : id \in broker.deletes \/ (Over(k) /\ id = sess[k].id)
  PROVE  JsInv'
<1>1. DOMAIN sess' = Keys /\ \A j \in Keys : {"pc", "id"} \subseteq DOMAIN sess'[j]
  BY Only, Zenon
<1>2. ASSUME NEW j \in Keys PROVE Over(j) \/ Anew(j) \/ GoesOn(j)
  <2>1. CASE j = k
    BY <2>1, Zenon
  <2>2. CASE j # k
    <3>1. sess'[j] = sess[j]
      BY <2>2, Only, Zenon
    <3> QED BY <2>2, <3>1, Stays, Zenon
  <2> QED BY <2>1, <2>2, Zenon
<1> QED BY <1>1, <1>2, Kept, Zenon

(* The broker takes a step. *)
LEMMA BrokerStep ==
  ASSUME JsInv, UNCHANGED <<env, sess>>, BrokerShape', \A j \in Keys : Spared(j),
         broker'.deletes \subseteq broker.deletes
  PROVE  JsInv'
<1>1. DOMAIN sess' = Keys /\ \A j \in Keys : {"pc", "id"} \subseteq DOMAIN sess'[j]
  BY Zenon DEF JsInv, SessionShape
<1>2. ASSUME NEW j \in Keys PROVE Over(j) \/ GoesOn(j)
  BY Stays, Zenon
<1> QED BY <1>1, <1>2, Kept, Zenon

(* What a session holds is left alone by a step that changes nothing of it. *)
LEMMA Untouched ==
  ASSUME JsInv, NEW j \in Keys, UNCHANGED broker
  PROVE  Spared(j)
  BY Zenon DEF JsInv, Owned, Spared
LEMMA FlushFacts ==
  ASSUME NEW s, {"pc", "id"} \subseteq DOMAIN s, NEW r \in flush_pending(s)
  PROVE  {"pc", "id"} \subseteq DOMAIN r /\ r.pc = s.pc /\ r.id = s.id
  BY Zenon DEF flush_pending

(* A read, an acknowledgement or a broken pull leaves pc and id of a session alone. *)
LEMMA SessionStays ==
  ASSUME JsInv, UNCHANGED <<env, broker>>, NEW k \in Keys, NEW s, {"pc", "id"} \subseteq DOMAIN s,
         s.pc = sess[k].pc, s.id = sess[k].id, sess' = [sess EXCEPT ![k] = s]
  PROVE  JsInv'
<1>1. sess'[k] = s
  BY Only, Zenon
<1>2. Over(k) \/ GoesOn(k)
  BY <1>1, Stays, Untouched, Zenon
<1>3. BrokerShape' /\ broker'.deletes = broker.deletes
  BY Zenon DEF JsInv, BrokerShape
<1> QED BY <1>2, <1>3, OneSession, Untouched, Zenon

LEMMA JsOpen ==
  ASSUME JsInv, NEW k \in Keys, jetstream_open_session(k)
  PROVE  JsInv' /\ UNCHANGED <<env, pump, conn, active>>
<1> DEFINE id == sess[k].id
<1>0. /\ DOMAIN sess = Keys /\ BrokerShape /\ {"pc", "id"} \subseteq DOMAIN sess[k]
      /\ \A j \in Keys : Owned(j)
      /\ \A j \in Keys : j # k => sess[j].id # id
  BY Ids DEF JsInv, SessionShape
<1>1. CASE reserve(k)
  <2>1. sess' = [sess EXCEPT ![k] = [sess[k] EXCEPT !.pc = "check"]]
    BY <1>1 DEF reserve
  <2>2. BrokerShape' /\ broker'.active = broker.active \cup {id} /\ broker'.consumers = broker.consumers
        /\ broker'.expired = broker.expired /\ broker'.deletes = broker.deletes
    BY <1>0, <1>1 DEF reserve, BrokerShape
  <2>3. sess'[k].pc = "check" /\ sess'[k].id = id
    BY <1>0, <2>1
  <2>4. GoesOn(k)
    BY <1>1, <2>2, <2>3, Zenon DEF GoesOn, reserve, Live
  <2>5. \A j \in Keys \ {k} : Spared(j)
    BY <1>0, <2>2, Zenon DEF Owned, Spared
  <2>6. {"pc", "id"} \subseteq DOMAIN [sess[k] EXCEPT !.pc = "check"]
    BY <1>0
  <2>7. UNCHANGED <<env, pump, conn, active>>
    BY <1>1, Zenon DEF reserve
  <2> QED BY <2>1, <2>2, <2>4, <2>5, <2>6, <2>7, OneSession, ZenonT(30)
<1>2. ASSUME NEW code, sess' = [sess EXCEPT ![k] = Refused(sess[k], code)], broker' = Released(k), UNCHANGED env
      PROVE  JsInv'
  <2>1. BrokerShape' /\ broker'.active = broker.active \ {id} /\ broker'.consumers = broker.consumers
        /\ broker'.expired = broker.expired /\ broker'.deletes = broker.deletes
    BY <1>0, <1>2 DEF Released, BrokerShape
  <2>2. {"pc", "id"} \subseteq DOMAIN Refused(sess[k], code) /\ Refused(sess[k], code).pc = "refused"
        /\ Refused(sess[k], code).id = id
    BY <1>0 DEF Refused
  <2>3. sess'[k] = Refused(sess[k], code)
    BY <1>0, <1>2, Zenon
  <2>4. Over(k)
    BY <2>2, <2>3, Zenon DEF Over, Live, Using
  <2>5. \A j \in Keys \ {k} : Spared(j)
    BY <1>0, <2>1, Zenon DEF Owned, Spared
  <2> QED BY <1>2, <2>1, <2>2, <2>4, <2>5, OneSession, ZenonT(30)
<1>3. ASSUME NEW s, sess' = [sess EXCEPT ![k] = s], {"pc", "id"} \subseteq DOMAIN s, s.id = id, UNCHANGED env,
             sess[k].pc \in {"check", "create"}, s.pc = "create" \/ id \in broker'.consumers,
             BrokerShape', broker'.active = broker.active, broker.consumers \subseteq broker'.consumers,
             broker'.expired = broker.expired, broker'.deletes = broker.deletes
      PROVE  JsInv'
  <2>1. sess'[k] = s
    BY <1>0, <1>3, Zenon
  <2>2. id \in broker.active
    BY <1>0, <1>3, Zenon DEF Owned, Using
  <2>3. GoesOn(k)
    BY <1>3, <2>1, <2>2 DEF GoesOn, Live, Using
  <2>4. \A j \in Keys \ {k} : Spared(j)
    BY <1>0, <1>3, Zenon DEF Owned, Spared
  <2> QED BY <1>3, <2>3, <2>4, OneSession, Zenon
<1>4. CASE check_window(k)
  <2>1. UNCHANGED <<env, pump, conn, active>> /\ sess[k].pc = "check"
    BY <1>4, ZenonT(30) DEF check_window
  <2>2. \/ \E code : sess' = [sess EXCEPT ![k] = Refused(sess[k], code)] /\ broker' = Released(k)
        \/ \E start : sess' = [sess EXCEPT ![k] = [sess[k] EXCEPT !.pc = "create", !.next = start]] /\ broker' = broker
    BY <1>4, Zenon DEF check_window
  <2>3. ASSUME NEW start, sess' = [sess EXCEPT ![k] = [sess[k] EXCEPT !.pc = "create", !.next = start]], broker' = broker
        PROVE  JsInv'
    <3> DEFINE s == [sess[k] EXCEPT !.pc = "create", !.next = start]
    <3>1. {"pc", "id"} \subseteq DOMAIN s /\ s.pc = "create" /\ s.id = id
      BY <1>0
    <3>2. BrokerShape' /\ broker'.active = broker.active /\ broker.consumers \subseteq broker'.consumers
          /\ broker'.expired = broker.expired /\ broker'.deletes = broker.deletes
      BY <1>0, <2>3, Zenon DEF BrokerShape
    <3>3. sess' = [sess EXCEPT ![k] = s]
      BY <2>3, Zenon
    <3> HIDE DEF s
    <3> QED BY <1>3, <2>1, <3>1, <3>2, <3>3, Zenon
  <2> QED BY <1>2, <2>1, <2>2, <2>3, Zenon
<1>5. CASE create_consumer(k)
  <2>1. UNCHANGED <<env, pump, conn, active>> /\ sess[k].pc = "create"
    BY <1>5, ZenonT(30) DEF create_consumer
  <2>2. PICK from : sess' = [sess EXCEPT ![k] = [sess[k] EXCEPT !.pc = "open", !.next = from, !.pos = from - 1, !.acked = from - 1]]
    BY <1>5, Zenon DEF create_consumer
  <2> DEFINE s == [sess[k] EXCEPT !.pc = "open", !.next = from, !.pos = from - 1, !.acked = from - 1]
  <2>3. {"pc", "id"} \subseteq DOMAIN s /\ s.pc = "open" /\ s.id = id
    BY <1>0
  <2>4. BrokerShape' /\ broker'.active = broker.active /\ broker'.consumers = broker.consumers \cup {id}
        /\ broker'.expired = broker.expired /\ broker'.deletes = broker.deletes
    BY <1>0, <1>5 DEF create_consumer, BrokerShape
  <2>5. sess' = [sess EXCEPT ![k] = s]
    BY <2>2, Zenon
  <2> HIDE DEF s
  <2> QED BY <1>3, <2>1, <2>3, <2>4, <2>5, Zenon
<1>6. CASE create_fails(k)
  <2>1. UNCHANGED <<env, pump, conn, active>> /\ broker' = Released(k)
        /\ sess' = [sess EXCEPT ![k] = Refused(sess[k], "Unavailable")]
    BY <1>6 DEF create_fails
  <2> QED BY <1>2, <2>1, Zenon
<1> QED BY <1>1, <1>4, <1>5, <1>6, Zenon DEF jetstream_open_session
(* A provider hands an event, or its end, to a pump that waits for one. *)
HandedTo(k, p) ==
  /\ pump[k].pc = "next" /\ pump' = [pump EXCEPT ![k] = p]
  /\ "pc" \in DOMAIN pump[k] => "pc" \in DOMAIN p
Handed == UNCHANGED pump \/ \E k \in Keys : \E p : HandedTo(k, p)

LEMMA JsHanded ==
  ASSUME NEW k \in Keys, Reads(k), Failed(k) \/ \E i : Got(k, i)
  PROVE  Handed
<1>1. pump[k].pc = "next"
  BY Zenon DEF Reads
<1>2. CASE Failed(k)
  <2> DEFINE p == [pump[k] EXCEPT !.pc = "failed"]
  <2>1. pump' = [pump EXCEPT ![k] = p] /\ ("pc" \in DOMAIN pump[k] => "pc" \in DOMAIN p)
    BY <1>2 DEF Failed
  <2> QED BY <1>1, <2>1, Zenon DEF Handed, HandedTo
<1>3. ASSUME NEW i, Got(k, i) PROVE Handed
  <2> DEFINE p == [pump[k] EXCEPT !.pc = "got", !.item = i]
  <2>1. pump' = [pump EXCEPT ![k] = p] /\ ("pc" \in DOMAIN pump[k] => "pc" \in DOMAIN p)
    BY <1>3, Zenon DEF Got
  <2> QED BY <1>1, <2>1, Zenon DEF Handed, HandedTo
<1> QED BY <1>2, <1>3, Zenon

LEMMA JsSession ==
  ASSUME JsInv, NEW k \in Keys, JetStreamSession(k)
  PROVE  JsInv' /\ UNCHANGED <<env, conn, active>> /\ Handed
<1>0. DOMAIN sess = Keys /\ BrokerShape /\ {"pc", "id"} \subseteq DOMAIN sess[k] /\ \A j \in Keys : Owned(j)
  BY Zenon DEF JsInv, SessionShape
<1>1. CASE next_message(k)
  <2>1. UNCHANGED <<env, broker, conn, active>> /\ Reads(k)
    BY <1>1, ZenonT(30) DEF next_message
  <2>2. PICK i : Got(k, i) /\ sess' = [sess EXCEPT ![k] = [sess[k] EXCEPT !.next = i + 1, !.pos = i, !.reopen = 0]]
    BY <1>1, Zenon DEF next_message
  <2> DEFINE s == [sess[k] EXCEPT !.next = i + 1, !.pos = i, !.reopen = 0]
  <2>3. {"pc", "id"} \subseteq DOMAIN s /\ s.pc = sess[k].pc /\ s.id = sess[k].id
    BY <1>0
  <2>4. sess' = [sess EXCEPT ![k] = s]
    BY <2>2, Zenon
  <2>5. Handed
    BY <2>1, <2>2, JsHanded, Zenon
  <2> HIDE DEF s
  <2> QED BY <2>1, <2>3, <2>4, <2>5, SessionStays, Zenon
<1>2. CASE stream_fails(k)
  <2>1. UNCHANGED <<env, broker, conn, active>> /\ Reads(k)
    BY <1>2, Zenon DEF stream_fails
  <2>2. PICK r \in flush_pending(sess[k]) :
          /\ sess' = [sess EXCEPT ![k] = [r EXCEPT !.reopen = @ + 1]]
          /\ Failed(k) \/ UNCHANGED pump
    BY <1>2, Zenon DEF stream_fails
  <2> DEFINE s == [r EXCEPT !.reopen = @ + 1]
  <2>3. {"pc", "id"} \subseteq DOMAIN r /\ r.pc = sess[k].pc /\ r.id = sess[k].id
    BY <1>0, FlushFacts, Zenon
  <2>4. {"pc", "id"} \subseteq DOMAIN s /\ s.pc = sess[k].pc /\ s.id = sess[k].id
    BY <2>3
  <2>5. sess' = [sess EXCEPT ![k] = s]
    BY <2>2, Zenon
  <2>6. Handed
    BY <2>1, <2>2, JsHanded, Zenon DEF Handed
  <2> HIDE DEF s
  <2> QED BY <2>1, <2>4, <2>5, <2>6, SessionStays, ZenonT(30)
<1>3. CASE consumer_deleted(k)
  <2>1. UNCHANGED <<env, broker, conn, active>> /\ Reads(k) /\ Failed(k)
    BY <1>3, Zenon DEF consumer_deleted
  <2>2. PICK r \in flush_pending(sess[k]) : sess' = [sess EXCEPT ![k] = r]
    BY <1>3, Zenon DEF consumer_deleted
  <2>3. {"pc", "id"} \subseteq DOMAIN r /\ r.pc = sess[k].pc /\ r.id = sess[k].id
    BY <1>0, FlushFacts, Zenon
  <2>4. Handed
    BY <2>1, JsHanded, Zenon
  <2> QED BY <2>1, <2>2, <2>3, <2>4, SessionStays, Zenon
<1>4. CASE flush_tick(k)
  <2>1. UNCHANGED <<env, broker, conn, active>> /\ Handed
    BY <1>4, Zenon DEF flush_tick, Handed
  <2>2. PICK r \in flush_pending(sess[k]) : sess' = [sess EXCEPT ![k] = r]
    BY <1>4, Zenon DEF flush_tick
  <2>3. {"pc", "id"} \subseteq DOMAIN r /\ r.pc = sess[k].pc /\ r.id = sess[k].id
    BY <1>0, FlushFacts, Zenon
  <2> QED BY <2>1, <2>2, <2>3, SessionStays, ZenonT(30)
<1>5. CASE ack_wait(k)
  <2>1. UNCHANGED <<env, broker, conn, active>> /\ Handed
    BY <1>5, Zenon DEF ack_wait, Handed
  <2> DEFINE s == [sess[k] EXCEPT !.next = sess[k].acked + 1]
  <2>2. sess' = [sess EXCEPT ![k] = s]
    BY <1>5 DEF ack_wait
  <2>3. {"pc", "id"} \subseteq DOMAIN s /\ s.pc = sess[k].pc /\ s.id = sess[k].id
    BY <1>0
  <2> HIDE DEF s
  <2> QED BY <2>1, <2>2, <2>3, SessionStays, ZenonT(30)
<1>6. CASE inactive(k)
  <2>1. UNCHANGED <<env, sess, conn, active>> /\ Handed
    BY <1>6, Zenon DEF inactive, Handed
  <2>2. BrokerShape' /\ broker'.active = broker.active /\ broker'.deletes = broker.deletes
        /\ broker'.consumers = broker.consumers \ {sess[k].id} /\ broker'.expired = broker.expired \cup {sess[k].id}
    BY <1>0, <1>6 DEF inactive, BrokerShape
  <2>3. \A j \in Keys : Spared(j)
    BY <1>0, <2>2, Zenon DEF Owned, Spared
  <2> QED BY <2>1, <2>2, <2>3, BrokerStep, ZenonT(30)
<1> QED BY <1>1, <1>2, <1>3, <1>4, <1>5, <1>6, Zenon DEF JetStreamSession

(* The reaper deletes only what the live set does not hold, a late delete *)
(* only what no session uses.                                             *)
LEMMA JsCleanup ==
  ASSUME JsInv, run_reaper \/ \E id \in broker.deletes : delete_consumer(id) \/ delete_fails(id)
  PROVE  JsInv' /\ UNCHANGED <<env, conn, active>> /\ Handed
<1>0. BrokerShape /\ \A j \in Keys : Owned(j)
  BY Zenon DEF JsInv
<1>1. ASSUME NEW r, Reaper(r), UNCHANGED <<env, sess>> PROVE JsInv'
  <2>1. BrokerShape' /\ broker'.active = broker.active /\ broker'.deletes = broker.deletes
        /\ broker'.consumers = broker.consumers /\ broker'.expired = broker.expired
    BY <1>0, <1>1 DEF Reaper, BrokerShape
  <2>2. \A j \in Keys : Spared(j)
    BY <1>0, <2>1, Zenon DEF Owned, Spared
  <2> QED BY <1>1, <2>1, <2>2, BrokerStep, Zenon
<1>2. CASE reap_snapshot \/ reap_list \/ reap_delete_fails \/ reap_done
           \/ \E id \in broker.reaper.names : reap_gate(id)
  <2>1. (\E r : Reaper(r)) /\ UNCHANGED <<env, sess, pump, conn, active>>
    BY <1>2, Zenon DEF reap_snapshot, reap_list, reap_delete_fails, reap_done, reap_gate
  <2> QED BY <1>1, <2>1, Zenon DEF Handed, HandedTo
<1>3. CASE reap_delete
  <2>1. UNCHANGED <<env, sess, pump, conn, active>>
    BY <1>3, Zenon DEF reap_delete
  <2>2. BrokerShape' /\ broker'.active = broker.active /\ broker'.deletes = broker.deletes /\ broker'.expired = broker.expired
    BY <1>0, <1>3 DEF reap_delete, BrokerShape
  <2>3. \A id \in broker.consumers : id \in broker.active => id \in broker'.consumers
    BY <1>0, <1>3 DEF reap_delete, BrokerShape, DeleteOrphan
  <2>4. \A j \in Keys : Spared(j)
    BY <1>0, <2>2, <2>3, Zenon DEF Owned, Spared, Using
  <2> QED BY <2>1, <2>2, <2>4, BrokerStep, Zenon DEF Handed
<1>4. ASSUME NEW id \in broker.deletes, delete_consumer(id) \/ delete_fails(id)
      PROVE  JsInv' /\ UNCHANGED <<env, conn, active>> /\ Handed
  <2>1. UNCHANGED <<env, sess, pump, conn, active>>
    BY <1>4, ZenonT(30) DEF delete_consumer, delete_fails
  <2>2. BrokerShape' /\ broker'.active = broker.active /\ broker'.expired = broker.expired
        /\ broker'.deletes = broker.deletes \ {id}
        /\ (broker'.consumers = broker.consumers \ {id} \/ broker'.consumers = broker.consumers)
    BY <1>0, <1>4, Zenon DEF delete_consumer, delete_fails, BrokerShape
  <2>3. \A j \in Keys : Spared(j)
    BY <1>0, <2>2, Zenon DEF Owned, Spared, Live, Using
  <2>4. broker'.deletes \subseteq broker.deletes
    BY <2>2, Zenon
  <2> QED BY <2>1, <2>2, <2>3, <2>4, BrokerStep, Zenon DEF Handed
<1> QED BY <1>2, <1>3, <1>4, Zenon DEF run_reaper

LEMMA JsProvider ==
  ASSUME JsInv, JetStreamNext
  PROVE  JsInv' /\ UNCHANGED <<env, conn, active>> /\ Handed
  BY JsOpen, JsSession, JsCleanup, Zenon DEF JetStreamNext, Handed
(* The Redis provider touches neither connections nor the consumers. *)
LEMMA RsHanded ==
  ASSUME NEW k \in Keys, Reads(k), Failed(k) \/ \E i : Got(k, i)
  PROVE  Handed
<1>1. pump[k].pc = "next"
  BY Zenon DEF Reads
<1>2. CASE Failed(k)
  <2> DEFINE p == [pump[k] EXCEPT !.pc = "failed"]
  <2>1. pump' = [pump EXCEPT ![k] = p] /\ ("pc" \in DOMAIN pump[k] => "pc" \in DOMAIN p)
    BY <1>2 DEF Failed
  <2> QED BY <1>1, <2>1, Zenon DEF Handed, HandedTo
<1>3. ASSUME NEW i, Got(k, i) PROVE Handed
  <2> DEFINE p == [pump[k] EXCEPT !.pc = "got", !.item = i]
  <2>1. pump' = [pump EXCEPT ![k] = p] /\ ("pc" \in DOMAIN pump[k] => "pc" \in DOMAIN p)
    BY <1>3, Zenon DEF Got
  <2> QED BY <1>1, <2>1, Zenon DEF Handed, HandedTo
<1> QED BY <1>2, <1>3, Zenon

LEMMA RsProvider ==
  ASSUME RedisNext
  PROVE  UNCHANGED <<env, conn, active>> /\ Handed
<1>1. CASE Tailer
  BY <1>1, Zenon DEF Tailer, tail_read, tail_timeout, tail_error, tail_terminal, tail_mark,
     tail_send, tail_trim, tail_trim_error, Handed
<1>2. ASSUME NEW k \in Keys, redis_open_session(k) PROVE UNCHANGED <<env, conn, active>> /\ Handed
  BY <1>2, Zenon DEF redis_open_session, hub_for, hub_subscribe, capture_cutoff, validate_resume, Handed
<1>3. ASSUME NEW k \in Keys, RedisSession(k) PROVE UNCHANGED <<env, conn, active>> /\ Handed
  <2>1. CASE next_replay(k)
    <3>1. UNCHANGED <<env, conn, active>> /\ Reads(k)
      BY <2>1, Zenon DEF next_replay
    <3>2. (\E i : Got(k, i)) \/ Failed(k) \/ UNCHANGED pump
      BY <2>1, Zenon DEF next_replay
    <3> QED BY <3>1, <3>2, RsHanded, Zenon DEF Handed
  <2>2. CASE replay_error(k)
    BY <2>2, RsHanded, Zenon DEF replay_error
  <2>3. CASE next_live(k)
    <3>1. UNCHANGED <<env, conn, active>> /\ Reads(k)
      BY <2>3, Zenon DEF next_live
    <3>2. (\E i : Got(k, i)) \/ Failed(k) \/ UNCHANGED pump
      BY <2>3, Zenon DEF next_live
    <3> QED BY <3>1, <3>2, RsHanded, Zenon DEF Handed
  <2> QED BY <1>3, <2>1, <2>2, <2>3, ZenonT(30) DEF RedisSession
<1> QED BY <1>1, <1>2, <1>3, Zenon DEF RedisNext

-----------------------------------------------------------------------------
(* What the gateways do to sessions. *)

LEMMA SameSessions ==
  ASSUME JsInv, UNCHANGED <<env, broker>>, DOMAIN sess' = Keys, \A j \in Keys : sess'[j] = sess[j]
  PROVE  JsInv'
<1>1. BrokerShape' /\ broker'.deletes = broker.deletes
      /\ \A j \in Keys : {"pc", "id"} \subseteq DOMAIN sess'[j]
  BY Zenon DEF JsInv, BrokerShape, SessionShape
<1>2. ASSUME NEW j \in Keys PROVE Over(j) \/ GoesOn(j)
  BY Stays, Untouched, Zenon
<1> QED BY <1>1, <1>2, Kept, Zenon

LEMMA Unchanged ==
  ASSUME JsInv, UNCHANGED <<env, broker, sess>>
  PROVE  JsInv'
<1>1. DOMAIN sess' = Keys
  BY Zenon DEF JsInv
<1> QED BY <1>1, SameSessions, Zenon

(* A session of a key that is over or opened anew, over the same broker; an *)
(* operation without a key changes none.                                    *)
LEMMA Replaced ==
  ASSUME JsInv, UNCHANGED <<env, broker>>, NEW k, NEW s, {"pc", "id"} \subseteq DOMAIN s,
         sess' = [sess EXCEPT ![k] = s],
         \/ s.pc \notin Live /\ s.id = sess[k].id
         \/ s.pc = "reserve" /\ s.id = <<k, sess[k].id[2] + 1>>
  PROVE  JsInv'
<1>1. CASE k \in Keys
  <2>1. sess'[k] = s
    BY <1>1, Only, Zenon
  <2>2. Over(k) \/ Anew(k)
    BY <2>1, Zenon DEF Over, Anew
  <2>3. BrokerShape' /\ broker'.deletes = broker.deletes
    BY Zenon DEF JsInv, BrokerShape
  <2> QED BY <1>1, <2>2, <2>3, OneSession, Untouched, ZenonT(30)
<1>2. CASE k \notin Keys
  <2>1. DOMAIN sess' = Keys /\ \A j \in Keys : sess'[j] = sess[j]
    BY <1>2 DEF JsInv
  <2> QED BY <2>1, SameSessions, Zenon
<1> QED BY <1>1, <1>2, Zenon

LEMMA OpeningFacts ==
  ASSUME NEW k, NEW cursor, NEW filter, env.provider = "js"
  PROVE  LET s == Opening(Fresh(k), cursor, filter) IN
         {"pc", "id"} \subseteq DOMAIN s /\ s.pc = "reserve" /\ s.id = <<k, sess[k].id[2] + 1>>
<1>1. {"pc", "id", "after", "filter"} \subseteq DOMAIN NoSession
  BY DEF NoSession
<1>2. Fresh(k) = <<k, sess[k].id[2] + 1>>
  BY Zenon DEF Fresh
<1>3. Opening(Fresh(k), cursor, filter)
        = [NoSession EXCEPT !.pc = "reserve", !.id = Fresh(k), !.after = cursor, !.filter = filter]
  BY Zenon DEF Opening
<1> QED BY <1>1, <1>2, <1>3, ZenonT(30)

LEMMA NoneFacts ==
  ASSUME NEW k
  PROVE  {"pc", "id"} \subseteq DOMAIN NoneOf(k) /\ NoneOf(k).pc \notin Live /\ NoneOf(k).id = sess[k].id
  BY DEF NoneOf, NoSession, Live, Using

LEMMA Opened ==
  ASSUME JsInv, env.provider = "js", UNCHANGED <<env, broker>>, NEW k, NEW cursor, NEW filter,
         sess' = [sess EXCEPT ![k] = Opening(Fresh(k), cursor, filter)]
  PROVE  JsInv'
<1> DEFINE s == Opening(Fresh(k), cursor, filter)
<1>1. {"pc", "id"} \subseteq DOMAIN s /\ s.pc = "reserve" /\ s.id = <<k, sess[k].id[2] + 1>>
  BY OpeningFacts, Zenon
<1>2. sess' = [sess EXCEPT ![k] = s]
  BY Zenon
<1> HIDE DEF s
<1> QED BY <1>1, <1>2, Replaced, Zenon

LEMMA Accepts ==
  ASSUME JsInv, env.provider = "js", NEW k \in Keys, Accept(k), UNCHANGED <<env, broker>>
  PROVE  JsInv'
<1>1. {"pc", "id"} \subseteq DOMAIN sess[k]
  BY Zenon DEF JsInv, SessionShape
<1>2. PICK s \in jetstream_accepted(sess[k], pump[k].item) : sess' = [sess EXCEPT ![k] = s]
  BY Zenon DEF Accept, accepted
<1> DEFINE held == [sess[k] EXCEPT !.pending = pump[k].item, !.since = @ + 1]
<1>3. {"pc", "id"} \subseteq DOMAIN held /\ held.pc = sess[k].pc /\ held.id = sess[k].id
  BY <1>1
<1>4. s = held \/ s \in flush_pending(held)
  BY <1>2 DEF jetstream_accepted
<1> HIDE DEF held
<1>5. {"pc", "id"} \subseteq DOMAIN s /\ s.pc = sess[k].pc /\ s.id = sess[k].id
  BY <1>3, <1>4, FlushFacts, Zenon
<1> QED BY <1>2, <1>5, SessionStays, Zenon
(* Dropped sessions give up their reservations, and the open ones among them *)
(* are deleted later: every session that is not dropped keeps its own id.    *)
LEMMA Dropped ==
  ASSUME JsInv, env.provider = "js", UNCHANGED env, NEW ks \in SUBSET Keys, DropSessions(ks),
         DOMAIN sess' = Keys, \A k \in Keys : {"pc", "id"} \subseteq DOMAIN sess'[k],
         \A k \in ks : Over(k), \A k \in Keys \ ks : Over(k) \/ sess'[k] = sess[k]
  PROVE  JsInv'
<1> DEFINE ids == {sess[k].id : k \in ks}
           ends == {sess[k].id : k \in {j \in ks : sess[j].pc = "open"}}
<1>1. PICK left : broker' = [DropConsumers(ks) EXCEPT !.consumers = @ \cup left]
  BY Zenon DEF DropSessions
<1>2. BrokerShape /\ \A k \in Keys : Owned(k) /\ SessionShape(sess[k], k)
  BY Zenon DEF JsInv
<1>3. DropConsumers(ks) = [broker EXCEPT !.active = @ \ ids, !.deletes = @ \cup ends]
  BY Zenon DEF DropConsumers
<1>4. /\ BrokerShape' /\ broker'.active = broker.active \ ids /\ broker'.deletes = broker.deletes \cup ends
      /\ broker'.consumers = broker.consumers \cup left /\ broker'.expired = broker.expired
  <2> HIDE DEF ids, ends
  <2> QED BY <1>1, <1>2, <1>3 DEF BrokerShape
<1>5. ASSUME NEW k \in Keys PROVE Over(k) \/ GoesOn(k)
  <2>1. CASE Over(k)
    BY <2>1, Zenon
  <2>2. CASE ~ Over(k)
    <3>1. k \notin ks /\ sess'[k] = sess[k]
      BY <2>2, Zenon
    <3>2. sess[k].id \notin ids
      BY <1>2, <3>1, Ids
    <3>3. Spared(k)
      BY <1>2, <1>4, <3>2, Zenon DEF Owned, Spared
    <3> QED BY <3>1, <3>3, Stays, Zenon
  <2> QED BY <2>1, <2>2, Zenon
<1>6. ASSUME NEW id \in broker'.deletes
      PROVE  id \in broker.deletes \/ \E j \in Keys : Over(j) /\ id = sess[j].id
  BY <1>4, <1>6, Zenon
<1> QED BY <1>4, <1>5, <1>6, Kept, Zenon
-----------------------------------------------------------------------------
(* The WebSocket gateway keeps the sessions accounted. *)

LEMMA SubscribersAreKeys == Subscribers \subseteq Keys
  BY Zenon DEF Keys

LEMMA LeaveJs ==
  ASSUME JsInv, env.provider = "js", UNCHANGED env, NEW c \in Subscribers, Leave(c)
  PROVE  JsInv'
<1>1. c \in Keys /\ {c} \in SUBSET Keys
  BY SubscribersAreKeys, Zenon
<1>2. sess' = [sess EXCEPT ![c] = NoneOf(c)] /\ DropSessions({c})
  BY Zenon DEF Leave
<1>3. /\ DOMAIN sess' = Keys /\ sess'[c] = NoneOf(c)
      /\ \A j \in Keys \ {c} : sess'[j] = sess[j]
      /\ \A j \in Keys : {"pc", "id"} \subseteq DOMAIN sess'[j]
  BY <1>1, <1>2, NoneFacts, Only, Zenon
<1>4. Over(c)
  BY <1>3, NoneFacts, Zenon DEF Over
<1> QED BY <1>1, <1>2, <1>3, <1>4, Dropped, ZenonT(30)

LEMMA AnswerJs ==
  ASSUME JsInv, env.provider = "js", UNCHANGED env, NEW c \in Subscribers, NEW h, Answer(c, h)
  PROVE  JsInv'
<1>1. CASE Leave(c)
  BY <1>1, LeaveJs, Zenon
<1>2. CASE ~ Leave(c)
  <2>1. UNCHANGED broker /\ sess' = [sess EXCEPT ![c] = Opening(Fresh(c), authorize_hello(h).cursor, None)]
    BY <1>2, Zenon DEF Answer, Close
  <2> QED BY <2>1, Opened, Zenon
<1> QED BY <1>1, <1>2, Zenon

LEMMA RestartJs ==
  ASSUME JsInv, env.provider = "js", restart
  PROVE  JsInv' /\ UNCHANGED env
<1>1. /\ UNCHANGED env /\ sess' = [k \in Keys |-> NoneOf(k)]
      /\ broker' = [broker EXCEPT !.active = {}, !.deletes = {}, !.reaper = NoReaper]
  BY DEF restart
<1>2. BrokerShape' /\ broker'.deletes = {}
  BY <1>1 DEF JsInv, BrokerShape
<1>3. DOMAIN sess' = Keys /\ \A k \in Keys : sess'[k] = NoneOf(k)
  BY <1>1, Zenon
<1>4. \A k \in Keys : Over(k) /\ {"pc", "id"} \subseteq DOMAIN sess'[k]
  BY <1>3, NoneFacts, Zenon DEF Over
<1> QED BY <1>1, <1>2, <1>3, <1>4, Kept, ZenonT(30)

LEMMA ConnectionJs ==
  ASSUME JsInv, env.provider = "js", NEW c \in Subscribers, Connection(c)
  PROVE  JsInv' /\ UNCHANGED env
<1>1. CASE try_admit(c) \/ roll_back(c) \/ session_opened(c) \/ write(c)
           \/ \E s \in DOMAIN env.wants[c] : subscribe(c, s) \/ unsubscribe(c, s)
  <2>1. UNCHANGED <<env, broker, sess>>
    BY <1>1, Zenon DEF try_admit, roll_back, session_opened, write, subscribe, unsubscribe
  <2> QED BY <2>1, Unchanged, Zenon
<1>2. CASE hello(c) \/ odd_hello(c)
  <2>1. UNCHANGED env /\ \E h : Answer(c, h)
    BY <1>2, Zenon DEF hello, odd_hello
  <2> QED BY <2>1, AnswerJs, Zenon
<1>3. CASE session_refused(c) \/ pump_ended(c) \/ outbound_closed(c) \/ connection_lost(c)
  <2>1. UNCHANGED env /\ Leave(c)
    BY <1>3, Zenon DEF session_refused, pump_ended, outbound_closed, connection_lost, Close
  <2> QED BY <2>1, LeaveJs, Zenon
<1> QED BY <1>1, <1>2, <1>3, Zenon DEF Connection

LEMMA PumpJs ==
  ASSUME JsInv, env.provider = "js", NEW c \in Subscribers, Pump(c)
  PROVE  JsInv' /\ UNCHANGED env
<1>1. c \in Keys
  BY SubscribersAreKeys, Zenon
<1>2. UNCHANGED <<env, broker>> /\ (UNCHANGED sess \/ Accept(c))
  BY Zenon DEF Pump, pump_start, pump_handle, pump_send, pump_slow
<1> QED BY <1>1, <1>2, Unchanged, Accepts, Zenon

LEMMA WsKeepsJs ==
  ASSUME JsInv, env.provider = "js", WsNext
  PROVE  JsInv' /\ UNCHANGED env
<1>1. CASE ProviderNext
  BY <1>1, JsProvider, Zenon DEF ProviderNext
<1>2. CASE Publish
  BY <1>2, Unchanged, Zenon DEF Publish
<1>3. CASE restart
  BY <1>3, RestartJs, Zenon
<1>4. ~ run_bus
  BY Zenon DEF run_bus
<1> QED BY <1>1, <1>2, <1>3, <1>4, ConnectionJs, PumpJs, ZenonT(30) DEF WsNext

-----------------------------------------------------------------------------
(* So does the GraphQL gateway. *)

LEMMA DropSourcesJs ==
  ASSUME JsInv, env.provider = "js", UNCHANGED env, NEW ks \in SUBSET Keys, DropSources(ks)
  PROVE  JsInv'
<1> DEFINE ended == {k \in ks : sess[k].pc \notin {"none", "gone"}}
<1>1. sess' = [k \in Keys |-> IF k \in ks THEN NoneOf(k) ELSE sess[k]] /\ DropSessions(ended)
  BY Zenon DEF DropSources
<1>2. DOMAIN sess' = Keys /\ \A k \in Keys : sess'[k] = IF k \in ks THEN NoneOf(k) ELSE sess[k]
  BY <1>1, Zenon
<1>3. ASSUME NEW k \in Keys PROVE {"pc", "id"} \subseteq DOMAIN sess'[k]
  <2>1. {"pc", "id"} \subseteq DOMAIN sess[k] /\ {"pc", "id"} \subseteq DOMAIN NoneOf(k)
    BY NoneFacts, Zenon DEF JsInv, SessionShape
  <2>2. sess'[k] = NoneOf(k) \/ sess'[k] = sess[k]
    BY <1>2, Zenon
  <2> QED BY <2>1, <2>2, Zenon
<1>4. \A k \in ks : Over(k)
  BY <1>2, NoneFacts, Zenon DEF Over
<1>5. ended \in SUBSET Keys /\ ended \subseteq ks
  BY Zenon
<1>6. \A k \in Keys \ ended : Over(k) \/ sess'[k] = sess[k]
  BY <1>2, <1>4, Zenon
<1> HIDE DEF ended
<1> QED BY <1>1, <1>2, <1>3, <1>4, <1>5, <1>6, Dropped, ZenonT(30)

LEMMA ReleaseJs ==
  ASSUME JsInv, env.provider = "js", UNCHANGED env, NEW c \in Subscribers, Release(c)
  PROVE  JsInv'
<1>1. {c} \in SUBSET Keys
  BY SubscribersAreKeys, Zenon
<1> QED BY <1>1, DropSourcesJs, Unchanged, Zenon DEF Release

LEMMA OperationJs ==
  ASSUME JsInv, env.provider = "js", NEW c \in Subscribers, Operation(c)
  PROVE  JsInv' /\ UNCHANGED env
<1>1. CASE events(c) \/ created(c) \/ attach(c) \/ notify(c) \/ receive(c)
  <2>1. UNCHANGED <<env, broker, sess>>
    BY <1>1, Zenon DEF events, created, attach, notify, receive
  <2> QED BY <2>1, Unchanged, Zenon
<1>2. CASE create(c)
  <2>1. UNCHANGED <<env, broker>>
    BY <1>2, Zenon DEF create
  <2>2. \E cursor, filter : sess' = [sess EXCEPT ![conn[c].key] = Opening(Fresh(conn[c].key), cursor, filter)]
    BY <1>2, Zenon DEF create
  <2> QED BY <2>1, <2>2, Opened, Zenon
<1>3. CASE broker_setup_error(c)
  <2>1. UNCHANGED <<env, broker>> /\ sess' = [sess EXCEPT ![conn[c].key] = NoneOf(conn[c].key)]
    BY <1>3, Zenon DEF broker_setup_error
  <2> QED BY <2>1, NoneFacts, Replaced, Zenon
<1>4. CASE check_terminal(c) \/ receive_error(c) \/ complete(c)
  <2>1. UNCHANGED env /\ (Release(c) \/ UNCHANGED <<sess, broker>>)
    BY <1>4, Zenon DEF check_terminal, receive_error, complete
  <2> QED BY <2>1, ReleaseJs, Unchanged, Zenon
<1> QED BY <1>1, <1>2, <1>3, <1>4, ZenonT(30) DEF Operation

LEMMA SessionPumpJs ==
  ASSUME JsInv, env.provider = "js", NEW k \in Keys, run_session_pump(k)
  PROVE  JsInv' /\ UNCHANGED env
<1>1. CASE terminate(k)
  <2>1. UNCHANGED env /\ DropSessions({k}) /\ {k} \in SUBSET Keys
    BY <1>1, Zenon DEF terminate
  <2> DEFINE s == [sess[k] EXCEPT !.pc = "gone"]
  <2>2. sess' = [sess EXCEPT ![k] = s]
    BY <1>1 DEF terminate
  <2>3. {"pc", "id"} \subseteq DOMAIN sess[k]
    BY Zenon DEF JsInv, SessionShape
  <2>4. {"pc", "id"} \subseteq DOMAIN s /\ s.pc = "gone" /\ s.id = sess[k].id
    BY <2>3
  <2> HIDE DEF s
  <2>5. /\ DOMAIN sess' = Keys /\ sess'[k] = s /\ \A j \in Keys \ {k} : sess'[j] = sess[j]
        /\ \A j \in Keys : {"pc", "id"} \subseteq DOMAIN sess'[j]
    BY <2>2, <2>4, Only, ZenonT(30)
  <2>6. Over(k)
    BY <2>4, <2>5, Zenon DEF Over, Live, Using
  <2> QED BY <2>1, <2>5, <2>6, Dropped, ZenonT(30)
<1>2. CASE ~ terminate(k)
  <2>1. UNCHANGED <<env, broker>> /\ (UNCHANGED sess \/ Accept(k))
    BY <1>2, Zenon DEF run_session_pump, wait_look, wait_enable, wait_recheck, wait_woken, pump_room, pump_lagged,
       pump_unavailable, pump_item, pump_broadcast
  <2> QED BY <2>1, Unchanged, Accepts, Zenon
<1> QED BY <1>1, <1>2, Zenon

LEMMA GraphQlKeepsJs ==
  ASSUME JsInv, env.provider = "js", GraphQlNext
  PROVE  JsInv' /\ UNCHANGED env
<1>1. CASE ProviderNext
  BY <1>1, JsProvider, Zenon DEF ProviderNext
<1>2. CASE Publish \/ connect \/ connect_odd
  BY <1>2, Unchanged, Zenon DEF Publish, connect, connect_odd, graphql_ws_handler
<1>3. CASE disconnect \/ reconnect
  <2>1. UNCHANGED env /\ DropSources(Keys)
    BY <1>3, Zenon DEF disconnect, reconnect, Disconnect
  <2> QED BY <2>1, DropSourcesJs, Zenon
<1> QED BY <1>1, <1>2, <1>3, OperationJs, SessionPumpJs, ZenonT(30) DEF GraphQlNext
-----------------------------------------------------------------------------
(* The counter of try_admit. *)

LEMMA Finite ==
  ASSUME env \in Scenarios
  PROVE  /\ IsFiniteSet(Subscribers) /\ IsFiniteSet(Counted) /\ IsFiniteSet(Admitted)
         /\ Cardinality(Counted) \in Nat /\ Cardinality(Admitted) \in Nat /\ env.max \in Nat
<1>1. IsFiniteSet(Subscribers) /\ env.max \in Nat
  BY ScenarioAssumption, Zenon DEF Subscribers
<1>2. Counted \subseteq Subscribers /\ Admitted \subseteq Subscribers
  BY Zenon DEF Counted, Admitted
<1>3. IsFiniteSet(Counted) /\ IsFiniteSet(Admitted)
  BY <1>1, <1>2, FS_Subset, Zenon
<1> QED BY <1>1, <1>3, FS_CardinalityType, Zenon

(* Nobody comes or goes. *)
LEMMA CapSame ==
  ASSUME Capped, UNCHANGED <<env, active>>,
         \A c \in Subscribers : /\ conn'[c].pc = "idle" <=> conn[c].pc = "idle"
                                /\ conn'[c].pc = "rejected" <=> conn[c].pc = "rejected"
  PROVE  Capped'
<1>1. Counted' = Counted /\ Admitted' = Admitted
  BY Prime DEF Counted, Admitted
<1> QED BY <1>1, Zenon DEF Capped

(* One that was counted goes. *)
LEMMA CapOut ==
  ASSUME Capped, env \in Scenarios, UNCHANGED env, NEW c \in Subscribers, conn[c].pc # "idle",
         conn'[c].pc = "idle", \A d \in Subscribers \ {c} : conn'[d].pc = conn[d].pc, active' = active - 1
  PROVE  Capped'
<1>1. c \in Counted /\ Counted' = Counted \ {c} /\ Admitted' \subseteq Admitted
  BY Prime DEF Counted, Admitted
<1>2. Cardinality(Counted') = Cardinality(Counted) - 1
  BY <1>1, Finite, FS_RemoveElement, Zenon
<1>3. Cardinality(Admitted') <= Cardinality(Admitted) /\ Cardinality(Admitted') \in Nat
  BY <1>1, Finite, FS_Subset, FS_CardinalityType, Zenon
<1> QED BY <1>2, <1>3, Finite DEF Capped

(* One is counted, and admitted if the count leaves room. *)
LEMMA CapIn ==
  ASSUME Capped, env \in Scenarios, UNCHANGED env, NEW c \in Subscribers, conn[c].pc = "idle",
         conn'[c].pc = IF active + 1 > env.max THEN "rejected" ELSE "hello",
         \A d \in Subscribers \ {c} : conn'[d].pc = conn[d].pc, active' = active + 1
  PROVE  Capped'
<1>1. c \notin Counted /\ Counted' = Counted \cup {c}
  BY Prime DEF Counted
<1>2. Cardinality(Counted') = Cardinality(Counted) + 1
  BY <1>1, Finite, FS_AddElement, Zenon
<1>3. CASE active + 1 > env.max
  <2>1. conn'[c].pc = "rejected"
    BY <1>3, Zenon
  <2>2. Admitted' = Admitted
    BY <2>1, Prime DEF Admitted
  <2> QED BY <1>2, <2>2 DEF Capped
<1>4. CASE ~ (active + 1 > env.max)
  <2>1. Admitted' \subseteq Counted'
    BY Zenon DEF Admitted, Counted
  <2>2. IsFiniteSet(Counted')
    BY <1>1, Finite, FS_AddElement, Zenon
  <2>3. Cardinality(Admitted') <= Cardinality(Counted') /\ Cardinality(Admitted') \in Nat
    BY <2>1, <2>2, FS_Subset, FS_CardinalityType, Zenon
  <2> QED BY <1>2, <1>4, <2>3, Finite DEF Capped
<1> QED BY <1>3, <1>4, Zenon
-----------------------------------------------------------------------------
(* Connections and pumps. *)

(* One connection changes. *)
LEMMA OneConn ==
  ASSUME Tasks, UNCHANGED env, NEW c \in Subscribers, NEW o, "pc" \in DOMAIN o, conn' = [conn EXCEPT ![c] = o]
  PROVE  /\ DOMAIN conn' = Subscribers' /\ conn'[c] = o
         /\ \A d \in Subscribers \ {c} : conn'[d] = conn[d]
         /\ \A d \in Subscribers' : "pc" \in DOMAIN conn'[d]
  BY Prime, Zenon DEF Tasks

(* One pump changes: it runs only for a connection that is ready. *)
LEMMA OnePump ==
  ASSUME Tasks, UNCHANGED env, NEW k \in Keys, NEW p, "pc" \in DOMAIN p, pump' = [pump EXCEPT ![k] = p]
  PROVE  /\ DOMAIN pump' = Keys' /\ pump'[k] = p
         /\ \A j \in Keys \ {k} : pump'[j] = pump[j]
         /\ \A j \in Keys' : "pc" \in DOMAIN pump'[j]
  BY Prime, Zenon DEF Tasks

(* The pump of a connection that stays as it is. *)
LEMMA PumpStep ==
  ASSUME WsInv, UNCHANGED <<env, active>>, NEW k \in Keys, NEW p, "pc" \in DOMAIN p, pump' = [pump EXCEPT ![k] = p],
         pump[k].pc # "none" \/ p.pc = "none",
         DOMAIN conn' = Subscribers, \A c \in Subscribers : "pc" \in DOMAIN conn'[c] /\ conn'[c].pc = conn[c].pc
  PROVE  WsInv'
<1>1. Capped'
  BY CapSame, Zenon DEF WsInv
<1>2. /\ DOMAIN pump' = Keys' /\ pump'[k] = p /\ \A j \in Keys \ {k} : pump'[j] = pump[j]
      /\ \A j \in Keys' : "pc" \in DOMAIN pump'[j]
  BY OnePump, Zenon DEF WsInv
<1>3. ASSUME NEW c \in Subscribers, pump'[c].pc # "none" PROVE conn'[c].pc = "ready"
  <2>1. pump[c].pc # "none"
    BY <1>2, <1>3, SubscribersAreKeys, Zenon
  <2> QED BY <2>1, Zenon DEF WsInv, Tasks
<1>4. Tasks'
  BY <1>2, <1>3, Prime, Zenon DEF Tasks
<1> QED BY <1>1, <1>4, Zenon DEF WsInv

(* A connection keeps its pc. *)
LEMMA ConnStep ==
  ASSUME WsInv, UNCHANGED <<env, active, pump>>, DOMAIN conn' = Subscribers,
         \A c \in Subscribers : "pc" \in DOMAIN conn'[c] /\ conn'[c].pc = conn[c].pc
  PROVE  WsInv'
<1>1. Capped'
  BY CapSame, Zenon DEF WsInv
<1>2. Tasks'
  BY Prime, Zenon DEF WsInv, Tasks
<1> QED BY <1>1, <1>2, Zenon DEF WsInv

LEMMA HandedWs ==
  ASSUME WsInv, UNCHANGED <<env, conn, active>>, Handed
  PROVE  WsInv'
<1>1. DOMAIN conn' = Subscribers /\ \A c \in Subscribers : "pc" \in DOMAIN conn'[c] /\ conn'[c].pc = conn[c].pc
  BY Zenon DEF WsInv, Tasks
<1>2. CASE UNCHANGED pump
  BY <1>1, <1>2, ConnStep, Zenon
<1>3. CASE ~ UNCHANGED pump
  <2>1. PICK k \in Keys : \E p : HandedTo(k, p)
    BY <1>3, Zenon DEF Handed
  <2>2. PICK p : HandedTo(k, p)
    BY <2>1, Zenon
  <2>3. "pc" \in DOMAIN pump[k]
    BY Zenon DEF WsInv, Tasks
  <2>4. "pc" \in DOMAIN p
    BY <2>2, <2>3, Zenon DEF HandedTo
  <2>5. pump[k].pc # "none" /\ pump' = [pump EXCEPT ![k] = p]
    BY <2>2, Zenon DEF HandedTo
  <2> QED BY <1>1, <2>4, <2>5, PumpStep, Zenon
<1> QED BY <1>2, <1>3, Zenon

LEMMA LeaveWs ==
  ASSUME WsInv, env \in Scenarios, UNCHANGED env, NEW c \in Subscribers, conn[c].pc # "idle", Leave(c)
  PROVE  WsInv'
<1>1. conn' = [conn EXCEPT ![c] = NoConn] /\ active' = active - 1 /\ pump' = [pump EXCEPT ![c] = NoPump]
  BY Zenon DEF Leave
<1>2. "pc" \in DOMAIN NoConn /\ NoConn.pc = "idle" /\ "pc" \in DOMAIN NoPump /\ NoPump.pc = "none" /\ c \in Keys
  BY DEF NoConn, NoPump, Keys
<1>3. /\ DOMAIN conn' = Subscribers' /\ conn'[c] = NoConn /\ \A d \in Subscribers \ {c} : conn'[d] = conn[d]
      /\ \A d \in Subscribers' : "pc" \in DOMAIN conn'[d]
  BY <1>1, <1>2, OneConn, Zenon DEF WsInv
<1>4. /\ DOMAIN pump' = Keys' /\ pump'[c] = NoPump /\ \A j \in Keys \ {c} : pump'[j] = pump[j]
      /\ \A j \in Keys' : "pc" \in DOMAIN pump'[j]
  BY <1>1, <1>2, OnePump, Zenon DEF WsInv
<1>5. Capped'
  BY <1>1, <1>2, <1>3, CapOut, Zenon DEF WsInv
<1>6. ASSUME NEW d \in Subscribers, pump'[d].pc # "none" PROVE conn'[d].pc = "ready"
  <2>1. d # c
    BY <1>2, <1>4, <1>6, Zenon
  <2>2. pump'[d] = pump[d] /\ conn'[d] = conn[d]
    BY <1>3, <1>4, <2>1, SubscribersAreKeys, Zenon
  <2> QED BY <1>6, <2>2, Zenon DEF WsInv, Tasks
<1>7. Tasks'
  BY <1>3, <1>4, <1>6, Prime, Zenon DEF Tasks
<1> QED BY <1>5, <1>7, Zenon DEF WsInv

(* A connection moves on: only one that becomes ready starts a pump. *)
LEMMA MoveWs ==
  ASSUME WsInv, UNCHANGED env, NEW c \in Subscribers, NEW o, "pc" \in DOMAIN o, conn' = [conn EXCEPT ![c] = o],
         Capped', conn[c].pc # "ready",
         \/ UNCHANGED pump
         \/ o.pc = "ready" /\ \E p : "pc" \in DOMAIN p /\ pump' = [pump EXCEPT ![c] = p]
  PROVE  WsInv'
<1>0. c \in Keys /\ Keys' = Keys /\ Subscribers' = Subscribers
  BY SubscribersAreKeys, Prime, Zenon
<1>1. /\ DOMAIN conn' = Subscribers' /\ conn'[c] = o /\ \A d \in Subscribers \ {c} : conn'[d] = conn[d]
      /\ \A d \in Subscribers' : "pc" \in DOMAIN conn'[d]
  BY OneConn, Zenon DEF WsInv
<1>2. pump[c].pc = "none"
  BY Zenon DEF WsInv, Tasks
<1>3. CASE UNCHANGED pump
  <2>1. \A d \in Subscribers : pump'[d].pc # "none" => conn'[d].pc = "ready"
    BY <1>1, <1>2, <1>3, Zenon DEF WsInv, Tasks
  <2> QED BY <1>0, <1>1, <1>3, <2>1, ZenonT(30) DEF WsInv, Tasks
<1>4. ASSUME o.pc = "ready", NEW p, "pc" \in DOMAIN p, pump' = [pump EXCEPT ![c] = p] PROVE WsInv'
  <2>1. /\ DOMAIN pump' = Keys' /\ \A j \in Keys \ {c} : pump'[j] = pump[j]
        /\ \A j \in Keys' : "pc" \in DOMAIN pump'[j]
    BY <1>0, <1>4, OnePump, ZenonT(30) DEF WsInv
  <2>2. ASSUME NEW d \in Subscribers, pump'[d].pc # "none" PROVE conn'[d].pc = "ready"
    <3>1. CASE d = c
      BY <1>1, <1>4, <3>1, ZenonT(30)
    <3>2. CASE d # c
      <4>1. pump'[d] = pump[d] /\ conn'[d] = conn[d]
        BY <1>1, <2>1, <3>2, SubscribersAreKeys, ZenonT(30)
      <4> QED BY <2>2, <4>1, ZenonT(30) DEF WsInv, Tasks
    <3> QED BY <3>1, <3>2, Zenon
  <2> QED BY <1>0, <1>1, <2>1, <2>2, ZenonT(30) DEF WsInv, Tasks
<1> QED BY <1>3, <1>4, Zenon
LEMMA AnswerWs ==
  ASSUME WsInv, env \in Scenarios, UNCHANGED env, NEW c \in Subscribers, conn[c].pc = "hello", NEW h, Answer(c, h)
  PROVE  WsInv'
<1>1. CASE Leave(c)
  BY <1>1, LeaveWs, ZenonT(30)
<1>2. CASE ~ Leave(c)
  <2> DEFINE o == [conn[c] EXCEPT !.pc = IF env.provider = "core" THEN "ready" ELSE "session", !.registered = TRUE]
  <2>1. UNCHANGED <<pump, active>> /\ conn' = [conn EXCEPT ![c] = o]
    BY <1>2, Zenon DEF Answer, Close
  <2>2. "pc" \in DOMAIN conn[c]
    BY Zenon DEF WsInv, Tasks
  <2>3. "pc" \in DOMAIN o /\ o.pc \in {"ready", "session"}
    BY <2>2
  <2> HIDE DEF o
  <2>4. conn'[c] = o /\ \A d \in Subscribers \ {c} : conn'[d] = conn[d]
    BY <2>1, <2>3, OneConn, ZenonT(30) DEF WsInv
  <2>5. Capped'
    BY <2>1, <2>3, <2>4, CapSame DEF WsInv
  <2> QED BY <2>1, <2>3, <2>5, MoveWs, ZenonT(30)
<1> QED BY <1>1, <1>2, ZenonT(30)

LEMMA AdmissionWs ==
  ASSUME WsInv, env \in Scenarios, NEW c \in Subscribers,
         try_admit(c) \/ roll_back(c) \/ session_opened(c)
  PROVE  WsInv'
<1>0. "pc" \in DOMAIN conn[c]
  BY Zenon DEF WsInv, Tasks
<1>1. CASE try_admit(c)
  <2> DEFINE o == [conn[c] EXCEPT !.pc = IF active + 1 > env.max THEN "rejected" ELSE "hello"]
  <2>1. UNCHANGED <<env, pump>> /\ active' = active + 1 /\ conn[c].pc = "idle" /\ conn' = [conn EXCEPT ![c] = o]
    BY <1>1, Zenon DEF try_admit
  <2>2. "pc" \in DOMAIN o /\ o.pc = IF active + 1 > env.max THEN "rejected" ELSE "hello"
    BY <1>0, Zenon
  <2> HIDE DEF o
  <2>3. conn'[c] = o /\ \A d \in Subscribers \ {c} : conn'[d] = conn[d]
    BY <2>1, <2>2, OneConn, ZenonT(30) DEF WsInv
  <2>4. Capped'
    BY <2>1, <2>2, <2>3, CapIn, ZenonT(30) DEF WsInv
  <2>5. conn[c].pc # "ready"
    BY <2>1, Zenon
  <2> QED BY <2>1, <2>2, <2>4, <2>5, MoveWs, ZenonT(30)
<1>2. CASE roll_back(c)
  <2>1. UNCHANGED <<env, pump>> /\ active' = active - 1 /\ conn[c].pc = "rejected" /\ conn' = [conn EXCEPT ![c] = NoConn]
    BY <1>2, Zenon DEF roll_back
  <2>2. "pc" \in DOMAIN NoConn /\ NoConn.pc = "idle"
    BY DEF NoConn
  <2>3. conn'[c] = NoConn /\ \A d \in Subscribers \ {c} : conn'[d] = conn[d]
    BY <2>1, <2>2, OneConn, Zenon DEF WsInv
  <2>4. conn[c].pc # "ready" /\ conn[c].pc # "idle"
    BY <2>1, Zenon
  <2>5. Capped'
    BY <2>1, <2>2, <2>3, <2>4, CapOut, ZenonT(30) DEF WsInv
  <2> QED BY <2>1, <2>2, <2>4, <2>5, MoveWs, ZenonT(30)
<1>3. CASE session_opened(c)
  <2> DEFINE o == [conn[c] EXCEPT !.pc = "ready"]
             p == [NoPump EXCEPT !.pc = "subs"]
  <2>1. /\ UNCHANGED <<env, active>> /\ conn[c].pc = "session" /\ conn' = [conn EXCEPT ![c] = o]
        /\ pump' = [pump EXCEPT ![c] = p]
    BY <1>3, Zenon DEF session_opened
  <2>2. "pc" \in DOMAIN o /\ o.pc = "ready"
    BY <1>0, Zenon
  <2>3. "pc" \in DOMAIN p
    BY DEF NoPump
  <2> HIDE DEF o, p
  <2>4. conn'[c] = o /\ \A d \in Subscribers \ {c} : conn'[d] = conn[d]
    BY <2>1, <2>2, OneConn, Zenon DEF WsInv
  <2>5. Capped'
    BY <2>1, <2>2, <2>4, CapSame DEF WsInv
  <2>6. conn[c].pc # "ready"
    BY <2>1, Zenon
  <2> QED BY <2>1, <2>2, <2>3, <2>5, <2>6, MoveWs, ZenonT(30)
<1> QED BY <1>1, <1>2, <1>3, ZenonT(30)

(* A connection whose pc and pump stay. *)
LEMMA KeepPc ==
  ASSUME WsInv, NEW c \in Subscribers, NEW o, "pc" \in DOMAIN o, o.pc = conn[c].pc, conn' = [conn EXCEPT ![c] = o]
  PROVE  DOMAIN conn' = Subscribers /\ \A d \in Subscribers : "pc" \in DOMAIN conn'[d] /\ conn'[d].pc = conn[d].pc
<1>1. DOMAIN conn = Subscribers /\ \A d \in Subscribers : "pc" \in DOMAIN conn[d]
  BY Zenon DEF WsInv, Tasks
<1> QED BY <1>1

LEMMA ConnectionWs ==
  ASSUME WsInv, env \in Scenarios, NEW c \in Subscribers, Connection(c)
  PROVE  WsInv'
<1>0. "pc" \in DOMAIN conn[c]
  BY Zenon DEF WsInv, Tasks
<1>1. CASE try_admit(c) \/ roll_back(c) \/ session_opened(c)
  BY <1>1, AdmissionWs, Zenon
<1>2. CASE hello(c) \/ odd_hello(c)
  <2>1. UNCHANGED env /\ conn[c].pc = "hello" /\ \E h : Answer(c, h)
    BY <1>2, Zenon DEF hello, odd_hello
  <2> QED BY <2>1, AnswerWs, Zenon
<1>3. CASE session_refused(c) \/ pump_ended(c) \/ outbound_closed(c) \/ connection_lost(c)
  <2>1. UNCHANGED env /\ Leave(c)
    BY <1>3, Zenon DEF session_refused, pump_ended, outbound_closed, connection_lost, Close
  <2>2. CASE pump_ended(c)
    <3>1. pump[c].pc # "none"
      BY <2>2, Zenon DEF pump_ended
    <3>2. conn[c].pc # "idle"
      BY <3>1, Zenon DEF WsInv, Tasks
    <3> QED BY <2>1, <3>2, LeaveWs, Zenon
  <2>3. CASE ~ pump_ended(c)
    <3>1. conn[c].pc # "idle"
      BY <1>3, <2>3, Zenon DEF session_refused, outbound_closed, connection_lost
    <3> QED BY <2>1, <3>1, LeaveWs, Zenon
  <2> QED BY <2>2, <2>3, Zenon
<1>4. ASSUME NEW s, subscribe(c, s) \/ unsubscribe(c, s) PROVE WsInv'
  <2>1. UNCHANGED <<env, active, pump>> /\ \E subs : conn' = [conn EXCEPT ![c] = [conn[c] EXCEPT !.subs = subs]]
    BY <1>4 DEF subscribe, unsubscribe, add_subscription
  <2>2. PICK subs : conn' = [conn EXCEPT ![c] = [conn[c] EXCEPT !.subs = subs]]
    BY <2>1, Zenon
  <2> DEFINE o == [conn[c] EXCEPT !.subs = subs]
  <2>3. "pc" \in DOMAIN o /\ o.pc = conn[c].pc
    BY <1>0
  <2>4. conn' = [conn EXCEPT ![c] = o]
    BY <2>2, Zenon
  <2> HIDE DEF o
  <2> QED BY <2>1, <2>3, <2>4, KeepPc, ConnStep, ZenonT(30)
<1>5. CASE write(c)
  <2> DEFINE o == [conn[c] EXCEPT !.mailbox = Tail(@)]
  <2>1. UNCHANGED <<env, active, pump>> /\ conn' = [conn EXCEPT ![c] = o]
    BY <1>5, Zenon DEF write
  <2>2. "pc" \in DOMAIN o /\ o.pc = conn[c].pc
    BY <1>0
  <2> HIDE DEF o
  <2> QED BY <2>1, <2>2, KeepPc, ConnStep, ZenonT(30)
<1> QED BY <1>1, <1>2, <1>3, <1>4, <1>5, ZenonT(30) DEF Connection
LEMMA PumpWs ==
  ASSUME WsInv, NEW c \in Subscribers, Pump(c)
  PROVE  WsInv'
<1>0. c \in Keys /\ "pc" \in DOMAIN conn[c] /\ "pc" \in DOMAIN pump[c]
  BY SubscribersAreKeys, Zenon DEF WsInv, Tasks
<1>1. UNCHANGED <<env, active>> /\ pump[c].pc # "none"
  BY Zenon DEF Pump, pump_start, pump_handle, pump_send, pump_slow
<1>2. PICK x : pump' = [pump EXCEPT ![c] = [pump[c] EXCEPT !.pc = x]]
  BY Zenon DEF Pump, pump_start, pump_handle, pump_send, pump_slow
<1>3. DOMAIN conn' = Subscribers /\ \A d \in Subscribers : "pc" \in DOMAIN conn'[d] /\ conn'[d].pc = conn[d].pc
  <2>1. CASE pump_send(c)
    <3> DEFINE o == [conn[c] EXCEPT !.mailbox = Append(@, pump[c].item)]
    <3>1. conn' = [conn EXCEPT ![c] = o]
      BY <2>1, Zenon DEF pump_send
    <3>2. "pc" \in DOMAIN o /\ o.pc = conn[c].pc
      BY <1>0
    <3> HIDE DEF o
    <3> QED BY <3>1, <3>2, KeepPc, Zenon
  <2>2. CASE ~ pump_send(c)
    <3>1. UNCHANGED conn
      BY <2>2, Zenon DEF Pump, pump_start, pump_handle, pump_slow
    <3> QED BY <3>1, Zenon DEF WsInv, Tasks
  <2> QED BY <2>1, <2>2, Zenon
<1> DEFINE p == [pump[c] EXCEPT !.pc = x]
<1>4. "pc" \in DOMAIN p
  BY <1>0
<1>5. pump' = [pump EXCEPT ![c] = p]
  BY <1>2, Zenon
<1> HIDE DEF p
<1> QED BY <1>0, <1>1, <1>3, <1>4, <1>5, PumpStep, ZenonT(30)

LEMMA BusWs ==
  ASSUME WsInv, run_bus
  PROVE  WsInv' /\ UNCHANGED env
<1>1. UNCHANGED <<env, active, pump>> /\ (UNCHANGED conn \/ \E i : conn' = dispatch(i))
  BY Zenon DEF run_bus
<1>2. DOMAIN conn = Subscribers /\ \A c \in Subscribers : "pc" \in DOMAIN conn[c]
  BY Zenon DEF WsInv, Tasks
<1>3. DOMAIN conn' = Subscribers /\ \A c \in Subscribers : "pc" \in DOMAIN conn'[c] /\ conn'[c].pc = conn[c].pc
  BY <1>1, <1>2 DEF dispatch
<1> QED BY <1>1, <1>3, ConnStep, Zenon

LEMMA RestartWs ==
  ASSUME WsInv, env \in Scenarios, restart
  PROVE  WsInv' /\ UNCHANGED env
<1>1. /\ UNCHANGED env /\ conn' = [c \in Subscribers |-> NoConn] /\ active' = 0 /\ pump' = [k \in Keys |-> NoPump]
  BY Zenon DEF restart
<1>2. "pc" \in DOMAIN NoConn /\ NoConn.pc = "idle" /\ "pc" \in DOMAIN NoPump /\ NoPump.pc = "none"
  BY DEF NoConn, NoPump
<1>3. Counted' = {} /\ Admitted' = {}
  BY <1>1, <1>2, Prime DEF Counted, Admitted
<1>4. Capped'
  BY <1>1, <1>3, Finite, FS_EmptySet DEF Capped
<1>5. Tasks'
  BY <1>1, <1>2, Prime, SubscribersAreKeys, ZenonT(30) DEF Tasks
<1> QED BY <1>1, <1>4, <1>5, Zenon DEF WsInv

LEMMA WsKeepsCap ==
  ASSUME WsInv, env \in Scenarios, env.provider = "js" => JsInv, WsNext
  PROVE  WsInv'
<1>1. CASE ProviderNext
  <2>1. UNCHANGED <<env, conn, active>> /\ Handed
    BY <1>1, JsProvider, RsProvider, Zenon DEF ProviderNext
  <2> QED BY <2>1, HandedWs, Zenon
<1>2. CASE Publish
  <2>1. UNCHANGED <<env, conn, active>> /\ Handed
    BY <1>2, Zenon DEF Publish, Handed
  <2> QED BY <2>1, HandedWs, Zenon
<1>3. CASE run_bus
  BY <1>3, BusWs, Zenon
<1>4. CASE restart
  BY <1>4, RestartWs, Zenon
<1> QED BY <1>1, <1>2, <1>3, <1>4, ConnectionWs, PumpWs, ZenonT(30) DEF WsNext

-----------------------------------------------------------------------------
(* Every step leaves the scenario as it is. *)

LEMMA SameScenario ==
  ASSUME WsNext \/ GraphQlNext
  PROVE  UNCHANGED env
<1>1. CASE ProviderNext
  <2>1. CASE RedisNext
    BY <2>1, RsProvider, Zenon
  <2>2. CASE JetStreamNext
    BY <2>2, ZenonT(30) DEF JetStreamNext, jetstream_open_session, reserve, check_window, create_consumer, create_fails,
       JetStreamSession, next_message, stream_fails, consumer_deleted, flush_tick, ack_wait, inactive,
       run_reaper, reap_snapshot, reap_list, reap_gate, reap_delete, reap_delete_fails, reap_done,
       delete_consumer, delete_fails
  <2> QED BY <1>1, <2>1, <2>2, Zenon DEF ProviderNext
<1>2. CASE WsNext /\ ~ ProviderNext
  BY <1>2, ZenonT(30) DEF WsNext, Publish, run_bus, restart, Connection, try_admit, roll_back, hello, odd_hello,
     session_opened, session_refused, subscribe, unsubscribe, pump_ended, write, outbound_closed, connection_lost,
     Pump, pump_start, pump_handle, pump_send, pump_slow
<1>3. CASE GraphQlNext /\ ~ ProviderNext
  BY <1>3, Zenon DEF GraphQlNext, Publish, connect, connect_odd, graphql_ws_handler, disconnect, reconnect, Operation,
     events, create, created, broker_setup_error, attach, notify, check_terminal, receive, receive_error, complete,
     run_session_pump, wait_look, wait_enable, wait_recheck, wait_woken, pump_room, pump_lagged, pump_unavailable,
     pump_item, pump_broadcast, terminate
<1> QED BY <1>1, <1>2, <1>3, Zenon

LEMMA InitInv ==
  ASSUME GatewayInit
  PROVE  IInv
<1>1. Init /\ BrokerInit
  BY Zenon DEF GatewayInit, WsInit, GraphQlInit
<1>2. env \in Scenarios
  BY <1>1, Zenon DEF Init
<1>3. ASSUME env.provider = "js" PROVE JsInv
  <2>1. broker = [consumers |-> {<<"left", 0>>}, active |-> {}, expired |-> {}, deletes |-> {}, reaper |-> NoReaper]
    BY <1>1, <1>3 DEF BrokerInit, ConsumersInit
  <2>2. BrokerShape /\ broker.deletes = {}
    BY <2>1 DEF BrokerShape
  <2>3. sess = [k \in Keys |-> [NoSession EXCEPT !.id = <<k, 0>>]]
    BY <1>1, Zenon DEF Init
  <2>4. ASSUME NEW k \in Keys
        PROVE  {"pc", "id"} \subseteq DOMAIN sess[k] /\ sess[k].pc = "none" /\ sess[k].id = <<k, 0>>
    BY <2>3 DEF NoSession
  <2>5. ASSUME NEW k \in Keys PROVE SessionShape(sess[k], k)
    BY <2>4 DEF SessionShape
  <2>6. ASSUME NEW k \in Keys PROVE Owned(k)
    BY <2>2, <2>4, Zenon DEF Owned, Live, Using
  <2> QED BY <2>2, <2>3, <2>5, <2>6, ZenonT(30) DEF JsInv
<1>4. ASSUME env.gateway = "ws" PROVE WsInv
  <2>1. WsInit
    BY <1>4, Zenon DEF GatewayInit
  <2>2. conn = [c \in Subscribers |-> NoConn] /\ active = 0 /\ pump = [k \in Keys |-> NoPump]
    BY <2>1, Zenon DEF WsInit, Init
  <2>3. "pc" \in DOMAIN NoConn /\ NoConn.pc = "idle" /\ "pc" \in DOMAIN NoPump /\ NoPump.pc = "none"
    BY DEF NoConn, NoPump
  <2>4. Counted = {} /\ Admitted = {}
    BY <2>2, <2>3 DEF Counted, Admitted
  <2>5. Capped
    BY <1>2, <2>2, <2>4, Finite, FS_EmptySet DEF Capped
  <2>6. Tasks
    BY <2>2, <2>3, SubscribersAreKeys, Zenon DEF Tasks
  <2> QED BY <2>5, <2>6, Zenon DEF WsInv
<1> QED BY <1>2, <1>3, <1>4, Zenon DEF IInv

LEMMA NextInv ==
  ASSUME IInv, [Next]_vars
  PROVE  IInv'
<1>1. CASE UNCHANGED vars
  <2>1. UNCHANGED <<env, broker, sess, conn, active, pump>>
    BY <1>1, Zenon DEF vars
  <2>2. env.provider = "js" => JsInv'
    BY <2>1, Unchanged, Zenon DEF IInv
  <2>3. env.gateway = "ws" => WsInv'
    BY <2>1, HandedWs, Zenon DEF IInv, Handed
  <2> QED BY <2>1, <2>2, <2>3, Zenon DEF IInv
<1>2. CASE env.gateway = "ws" /\ WsNext
  BY <1>2, SameScenario, WsKeepsJs, WsKeepsCap, ZenonT(30) DEF IInv
<1>3. CASE env.gateway = "graphql" /\ GraphQlNext
  <2>1. UNCHANGED env
    BY <1>3, SameScenario, Zenon
  <2>2. env.gateway # "ws"
    BY <1>3, Zenon
  <2> QED BY <1>3, <2>1, <2>2, GraphQlKeepsJs, ZenonT(30) DEF IInv
<1> QED BY <1>1, <1>2, <1>3, Zenon DEF Next

LEMMA InvImplies ==
  ASSUME IInv
  PROVE  SessionsAccounted
<1>1. ASSUME env.provider = "js" PROVE LiveConsumersKept
  BY <1>1, Zenon DEF IInv, JsInv, Owned, LiveConsumersKept
<1>2. ASSUME env.gateway = "ws" PROVE WithinCap
  BY <1>2, Zenon DEF IInv, WsInv, Capped, Admitted, WithinCap
<1> QED BY <1>1, <1>2, Zenon DEF SessionsAccounted

(* In every behaviour of both gateways, for every number of clients and every *)
(* cap: neither the reaper nor the detached delete of a dropped handle takes  *)
(* the consumer of an open JetStream session, and the WebSocket gateway has   *)
(* no more admitted connections than max_connections.                         *)
THEOREM SessionsStayAccounted == Spec => []SessionsAccounted
<1>1. GatewayInit => IInv
  BY InitInv
<1>2. IInv /\ [Next]_vars => IInv'
  BY NextInv
<1>3. IInv => SessionsAccounted
  BY InvImplies
<1> QED BY <1>1, <1>2, <1>3, PTL DEF Spec
=============================================================================
