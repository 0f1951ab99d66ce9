------------------------------ MODULE Realtime ------------------------------
(***************************************************************************)
(* What the WebSocket and the GraphQL gateway share: a retained stream of  *)
(* events, broker sessions that read it (RedisStreams.tla, JetStream.tla), *)
(* the pumps that drain the sessions, and clients that keep the cursor of  *)
(* the last event they processed.                                          *)
(*                                                                         *)
(* A subscriber is a WebSocket connection or a GraphQL operation. A        *)
(* session belongs to a WebSocket connection, to a GraphQL operation that  *)
(* resumes, or ("shared") to the live operations of a GraphQL socket.      *)
(***************************************************************************)
EXTENDS Integers, Sequences, FiniteSets

CONSTANTS None, Scenarios

\* A scenario: the clients with the patterns they want, the events of the
\* stream, each published under the subject of its tenant, and where the
\* stream and the clients stand when it begins.
ASSUME ScenarioAssumption ==
  \A s \in Scenarios :
    /\ IsFiniteSet(DOMAIN s.wants) /\ s.max \in Nat
    /\ \A c \in DOMAIN s.wants : s.wants[c] \in Seq(Seq(STRING)) /\ s.wants[c] # <<>>
    /\ s.tenants \in [DOMAIN s.wants -> STRING]
    /\ s.script \in Seq([subject : Seq(STRING), tenant : STRING, form : STRING])
    /\ \A i \in 1..Len(s.script) :
         LET e == s.script[i] IN Len(e.subject) >= 3 /\ e.tenant = e.subject[3]
    /\ s.published \in 0..Len(s.script) /\ s.start \in Nat
    /\ s.retain = None \/ s.retain \in Nat
    /\ s.hub = None \/ s.hub \in 0..s.published

\* An error code is told from no error.
ASSUME ErrorAssumption == None \notin {"InvalidCursor", "CursorAhead", "ResumeExpired"}

VARIABLES
  env,      \* the scenario
  stream,   \* the events published and the first one still retained
  broker,   \* the provider: the Redis tenant hub, or the JetStream consumers
  sess,     \* the broker session of each key
  pump,     \* the task that drains it
  conn,     \* the connection or operation of each subscriber
  client,   \* what each subscriber keeps on its own side
  active,   \* admitted WebSocket connections, open GraphQL sockets
  faults

vars == <<env, stream, broker, sess, pump, conn, client, active, faults>>

Larger(a, b) == IF a > b THEN a ELSE b
Smaller(a, b) == IF a < b THEN a ELSE b
Subscribers == DOMAIN env.wants
Keys == Subscribers \cup {"shared"}
Latest == Len(stream.log)
Fault(kind) == kind \in env.faults /\ faults > 0 /\ faults' = faults - 1

-----------------------------------------------------------------------------
(* Subjects: vs.t.{tenant}.{event}.{id}, and the patterns with which clients *)
(* subscribe. A subject or a pattern is the sequence of its segments.        *)

Invalid == <<"invalid">>

(* identifier.rs: a name is neither empty nor a wildcard. *)
validate_strict(segment) == segment \notin {"", "*", ">"}

(* Event::publish and Subject::new: the id is the last segment. *)
Subject(tenant, event, id) ==
  IF \A n \in {tenant, id} \cup {event[i] : i \in 1..Len(event)} : validate_strict(n)
  THEN <<"vs", "t", tenant>> \o event \o <<id>> ELSE Invalid

(* SubjectPattern::parse *)
parse(pattern) ==
  IF /\ Len(pattern) >= 2 /\ pattern[1] = "vs" /\ pattern[2] = "t"
     /\ \A i \in 1..Len(pattern) : pattern[i] # "" /\ (pattern[i] = ">" => i = Len(pattern))
  THEN pattern ELSE Invalid

anchored(tenant, unanchored) ==
  IF validate_strict(tenant) THEN parse(<<"vs", "t", tenant>> \o unanchored) ELSE Invalid

(* match_segments walks the pattern and the subject together. *)
matches_str(pattern, subject) ==
  LET walk[i \in 1..(Len(pattern) + 1)] ==
        IF i > Len(pattern) THEN i > Len(subject)
        ELSE /\ i <= Len(subject)
             /\ \/ pattern[i] = ">"
                \/ pattern[i] \in {"*", subject[i]} /\ walk[i + 1]
  IN walk[1]

(* What a pattern means, said without the walk. *)
Covers(pattern, subject) ==
  LET tail == pattern[Len(pattern)] = ">"
      fixed == IF tail THEN Len(pattern) - 1 ELSE Len(pattern) IN
  /\ IF tail THEN Len(subject) > fixed ELSE Len(subject) = fixed
  /\ \A i \in 1..fixed : pattern[i] \in {"*", subject[i]}

(* template.rs: {args.NAME} in a subject template, here <<"args", NAME>>, is    *)
(* replaced by the argument; an unknown name is an error. An argument the      *)
(* client leaves out is the empty string, which no pattern accepts.            *)
expand_subject(template, args) ==
  IF \A i \in 1..Len(template) : template[i][1] = "args" => template[i][2] \in DOMAIN args
  THEN [i \in 1..Len(template) |-> IF template[i][1] = "args" THEN args[template[i][2]] ELSE template[i][2]]
  ELSE Invalid

-----------------------------------------------------------------------------
(* Brokers and cursors. *)

capabilities(kind) ==
  [replay |-> kind \in {"js", "rs"}, acknowledgements |-> kind = "js"]

Cursor(provider, value) == [provider |-> provider, value |-> value]

(* The wire form: a bare number for JetStream, prefixed for the others. *)
to_compatible_wire(c) ==
  IF c.provider = "js" THEN [prefix |-> None, value |-> c.value]
  ELSE [prefix |-> c.provider, value |-> c.value]
from_wire_compatible(w) == Cursor(IF w.prefix = None THEN "js" ELSE w.prefix, w.value)

-----------------------------------------------------------------------------
(* The stream. JetStream discards its oldest events by itself. *)

Entry(i) == stream.log[i]
Publish ==
  /\ Latest < Len(env.script)
  /\ stream' = [log |-> Append(stream.log, env.script[Latest + 1]),
                first |-> IF env.provider = "js" /\ env.retain # None
                          THEN Larger(stream.first, Latest + 2 - env.retain) ELSE stream.first]
  /\ UNCHANGED <<env, broker, sess, pump, conn, client, active, faults>>

-----------------------------------------------------------------------------
(* Sessions and pumps. A session is opened step by step (pc), reads for its *)
(* pump while that is at "next", and hands it an event ("got") or ends it   *)
(* ("failed").                                                              *)

NoSession ==
  [pc |-> "none", id |-> None, after |-> None, filter |-> None, pos |-> 0, error |-> None,
   next |-> 0, acked |-> 0, pending |-> None, since |-> 0, reopen |-> 0,
   cutoff |-> None, replay |-> None, live |-> <<>>, lagged |-> FALSE]
NoPump == [pc |-> "none", item |-> 0, goal |-> "room", terminal |-> None, notified |-> FALSE]

(* SessionRequest *)
Opening(id, cursor, filter) ==
  [NoSession EXCEPT !.pc = IF env.provider = "js" THEN "reserve" ELSE "hub",
                    !.id = id, !.after = cursor, !.filter = filter]
Refused(s, code) == [s EXCEPT !.pc = "refused", !.error = code]
Reads(k) == sess[k].pc = "open" /\ pump[k].pc = "next"
Got(k, i) == pump' = [pump EXCEPT ![k].pc = "got", ![k].item = i]
Failed(k) == pump' = [pump EXCEPT ![k].pc = "failed"]
Wanted(s, i) == s.filter = None \/ matches_str(s.filter, Entry(i).subject)

-----------------------------------------------------------------------------
(* Clients. A client processes an event and then keeps its cursor; told that *)
(* the cursor cannot be resumed, it starts again with live events only.      *)

Pattern(c, s) == anchored(env.tenants[c], env.wants[c][s])
Process(c, i) ==
  [client EXCEPT ![c].cursor = IF capabilities(env.provider).replay
                               THEN to_compatible_wire(Cursor(env.provider, i)) ELSE None,
                 ![c].seen = @ \cup {i}, ![c].high = Larger(@, i)]
StartOver(c) ==
  [client EXCEPT ![c].cursor = None, ![c].from = [s \in DOMAIN @ |-> None]]
(* A subscription counts from here on, unless it continues an earlier one. *)
Begin(c, s, pos) ==
  [client EXCEPT ![c].from[s] = IF client[c].cursor # None /\ @ # None THEN @ ELSE pos]

Init ==
  /\ env \in Scenarios
  /\ stream = [log |-> SubSeq(env.script, 1, env.published), first |-> 1]
  /\ sess = [k \in Keys |-> [NoSession EXCEPT !.id = <<k, 0>>]] /\ pump = [k \in Keys |-> NoPump]
  /\ client = [c \in Subscribers |->
       [cursor |-> IF env.start = 0 THEN None ELSE to_compatible_wire(Cursor(env.issuer, env.start)),
        from |-> [s \in DOMAIN env.wants[c] |-> IF env.start = 0 THEN None ELSE env.start],
        seen |-> {}, high |-> env.start]]
  /\ faults = env.budget

-----------------------------------------------------------------------------
(* Promises. *)

Due(c, s, i) ==
  /\ client[c].from[s] # None /\ i > client[c].from[s]
  /\ Entry(i).form = "ok" /\ Covers(Pattern(c, s), Entry(i).subject)

(* A client that has processed an event has processed every earlier one that *)
(* a subscription of it covers: nothing that is still retained is passed     *)
(* over, whatever broke in between.                                          *)
NoGap ==
  \A c \in Subscribers : \A s \in DOMAIN env.wants[c] : \A i \in stream.first..client[c].high :
    Due(c, s, i) => i \in client[c].seen

(* An event reaches only subscribers of its tenant with a pattern for it. *)
OnlyMatching ==
  \A c \in Subscribers : \A i \in client[c].seen :
    /\ Entry(i).tenant = env.tenants[c]
    /\ \E s \in DOMAIN env.wants[c] : Covers(Pattern(c, s), Entry(i).subject)

CaughtUp(c) ==
  \A s \in DOMAIN env.wants[c] : \A i \in stream.first..Latest : Due(c, s, i) => i \in client[c].seen

=============================================================================
