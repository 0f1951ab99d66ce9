---------------------------- MODULE EventProofs -----------------------------
(***************************************************************************)
(* OnlyMatching holds in every behaviour of the two gateways, for any      *)
(* number of clients, any patterns and any stream.                         *)
(*                                                                         *)
(* Every position that a session, a hub, a pump, a mailbox or a queue      *)
(* holds is of a published event, and the log only grows. A mailbox takes  *)
(* what a subscription of its client matches, an operation looks at its    *)
(* pattern when it receives; an anchored pattern names the tenant of the   *)
(* client, and an event is published under the subject of its own.         *)
(***************************************************************************)
EXTENDS MCGateway, FiniteSetTheorems, SequenceTheorems, TLAPS

(* The events a subscriber may be given. *)
Fit(c) ==
  {i \in 1..Latest :
     /\ Entry(i).tenant = env.tenants[c]
     /\ \E s \in DOMAIN env.wants[c] : Covers(Pattern(c, s), Entry(i).subject)}

(* What the parts of the state hold: every position is of a published event. *)
Numbered(cursor) == cursor = None \/ cursor.value \in Int
Replaying(r, n) ==
  \/ r = None
  \/ /\ DOMAIN r = {"next", "through", "buffered"}
     /\ r.next \in Int /\ r.through \in 0..n /\ r.buffered \in Seq(1..n)
SessionFields ==
  {"pc", "id", "after", "filter", "pos", "error", "next", "acked", "pending", "since", "reopen",
   "cutoff", "replay", "live", "lagged"}
Holds(s, n) ==
  /\ DOMAIN s = SessionFields
  /\ Numbered(s.after) /\ s.next \in Int /\ s.acked \in Int
  /\ s.pending = None \/ s.pending \in Int
  /\ s.cutoff = None \/ s.cutoff \in 0..n
  /\ s.pc = "validate" => s.after # None /\ s.cutoff \in 0..n
  /\ Replaying(s.replay, n)
  /\ s.live \in Seq(0..n)
PumpFields == {"pc", "item", "goal", "terminal", "notified"}
Carries(p, n) == DOMAIN p = PumpFields /\ p.item \in 0..n
Keeps(r, c) == DOMAIN r = {"cursor", "from", "seen", "high"} /\ Numbered(r.cursor) /\ r.seen \subseteq Fit(c)

StreamInv ==
  /\ DOMAIN stream = {"log", "first"}
  /\ stream.log \in Seq([subject : Seq(STRING), tenant : STRING, form : STRING])
  /\ \A i \in 1..Latest : Len(Entry(i).subject) >= 3 /\ Entry(i).tenant = Entry(i).subject[3]
  /\ stream.first \in Nat /\ stream.first >= 1
SessInv == DOMAIN sess = Keys /\ \A k \in Keys : Holds(sess[k], Latest)
PumpInv == DOMAIN pump = Keys /\ \A k \in Keys : Carries(pump[k], Latest)
ClientInv == DOMAIN client = Subscribers /\ \A c \in Subscribers : Keeps(client[c], c)
HubFields ==
  {"open", "started", "watermark", "last", "status", "failures", "batch", "marked", "since_trim", "trim"}
HubInv ==
  /\ DOMAIN broker = HubFields
  /\ broker.watermark \in 0..Latest /\ broker.last \in 0..Latest
  /\ broker.batch \in Seq(1..Latest)
  /\ broker.trim = TRUE => env.retain # None
CoreInv == DOMAIN broker = {"next"} /\ broker.next \in Nat /\ broker.next >= 1
BrokerInv == (env.provider = "rs" => HubInv) /\ (env.provider = "core" => CoreInv)

Sends(p, c) ==
  /\ p.pc \in {"got", "send"} => p.item # 0
  /\ p.pc = "send" => p.item \in Fit(c)
Mailbox(r, c) ==
  /\ DOMAIN r = {"pc", "registered", "subs", "mailbox"}
  /\ r.subs \subseteq DOMAIN env.wants[c] /\ r.mailbox \in Seq(Fit(c))
WsConnInv ==
  /\ DOMAIN conn = Subscribers /\ \A c \in Subscribers : Mailbox(conn[c], c)
  /\ \A c \in Subscribers : Sends(pump[c], c)
Queue(r, n) == DOMAIN r = {"pc", "key", "queue", "lagged"} /\ r.queue \in Seq(0..n)
OperationInv ==
  /\ DOMAIN conn = Subscribers /\ \A c \in Subscribers : Queue(conn[c], Latest)
  /\ DOMAIN active = {"open", "cursor"} /\ Numbered(active.cursor)

(* The inductive invariant. *)
EventsInv ==
  /\ env \in Scenarios
  /\ StreamInv /\ SessInv /\ PumpInv /\ ClientInv /\ BrokerInv
  /\ env.gateway = "ws" => WsConnInv
  /\ env.gateway = "graphql" => OperationInv

-----------------------------------------------------------------------------
(* Patterns: the walk of match_segments, by its least counterexample. *)

(* A non-empty set of numbers has a least one. *)
LEMMA Least ==
  ASSUME NEW T, T \subseteq Nat, T # {}
  PROVE  \E x \in T : \A y \in T : x <= y
<1>1. \E x \in T : \A y \in T : ~ (<<y, x>> \in OpToRel(<, Nat))
  BY WFMin, NatLessThanWellFounded, Zenon
<1>2. \A x \in T : \A y \in T : <<y, x>> \in OpToRel(<, Nat) <=> y < x
  BY DEF OpToRel
<1>3. \E x \in T : \A y \in T : ~ (y < x)
  BY <1>1, <1>2, Zenon
<1> QED
  BY <1>3

Walks(p, s, w) ==
  w = [i \in 1..(Len(p) + 1) |->
        IF i > Len(p) THEN i > Len(s)
        ELSE /\ i <= Len(s)
             /\ \/ p[i] = ">"
                \/ p[i] \in {"*", s[i]} /\ w[i + 1]]
Rest(p, s, i) ==
  IF i > Len(p) THEN i > Len(s)
  ELSE LET tail == p[Len(p)] = ">"
           fixed == IF tail THEN Len(p) - 1 ELSE Len(p) IN
       /\ IF tail THEN Len(s) > fixed ELSE Len(s) = fixed
       /\ \A j \in i..fixed : p[j] \in {"*", s[j]}

LEMMA RestStep ==
  ASSUME NEW p, NEW s, Len(p) \in Nat, Len(p) > 0, Len(s) \in Nat,
         \A i \in 1..Len(p) : p[i] = ">" => i = Len(p),
         NEW i \in 1..(Len(p) + 1)
  PROVE  Rest(p, s, i) <=>
           IF i > Len(p) THEN i > Len(s)
           ELSE /\ i <= Len(s)
                /\ \/ p[i] = ">"
                   \/ p[i] \in {"*", s[i]} /\ Rest(p, s, i + 1)
<1>1. CASE i > Len(p)
  BY <1>1 DEF Rest
<1>2. CASE i = Len(p)
  BY <1>2 DEF Rest
<1>3. CASE i < Len(p)
  <2>1. i + 1 \in 1..Len(p) /\ p[i] # ">" /\ ~ (i > Len(p)) /\ ~ (i + 1 > Len(p))
    BY <1>3
  <2> DEFINE f == IF p[Len(p)] = ">" THEN Len(p) - 1 ELSE Len(p)
  <2>2. f \in Nat /\ i <= f
    BY <1>3
  <2>3. (\A j \in i..f : p[j] \in {"*", s[j]}) <=>
          p[i] \in {"*", s[i]} /\ (\A j \in (i + 1)..f : p[j] \in {"*", s[j]})
    <3> HIDE DEF f
    <3>1. i..f = {i} \cup ((i + 1)..f)
      BY <2>2
    <3> QED
      BY <3>1
  <2> QED
    BY <1>3, <2>1, <2>2, <2>3 DEF Rest
<1> QED
  BY <1>1, <1>2, <1>3

LEMMA WalkIsRest ==
  ASSUME NEW p, NEW s, Len(p) \in Nat, Len(p) > 0, Len(s) \in Nat,
         \A i \in 1..Len(p) : p[i] = ">" => i = Len(p),
         NEW w, Walks(p, s, w)
  PROVE  \A i \in 1..(Len(p) + 1) : w[i] <=> Rest(p, s, i)
<1> DEFINE T == {k \in 0..Len(p) : ~ (w[Len(p) + 1 - k] <=> Rest(p, s, Len(p) + 1 - k))}
<1>1. SUFFICES ASSUME T # {} PROVE FALSE
  <2> SUFFICES ASSUME NEW i \in 1..(Len(p) + 1) PROVE w[i] <=> Rest(p, s, i)
    OBVIOUS
  <2>1. Len(p) + 1 - i \in 0..Len(p) /\ Len(p) + 1 - (Len(p) + 1 - i) = i
    OBVIOUS
  <2> QED
    BY <1>1, <2>1, Zenon
<1>2. PICK k \in T : \A y \in T : k <= y
  <2>1. T \subseteq Nat
    OBVIOUS
  <2> HIDE DEF T
  <2> QED
    BY <1>1, <2>1, Least, Zenon
<1> DEFINE i == Len(p) + 1 - k
<1>3. i \in 1..(Len(p) + 1)
  OBVIOUS
<1>4. w[i] <=> IF i > Len(p) THEN i > Len(s)
               ELSE /\ i <= Len(s)
                    /\ \/ p[i] = ">"
                       \/ p[i] \in {"*", s[i]} /\ w[i + 1]
  BY <1>3, Zenon DEF Walks
<1>5. i <= Len(p) => (w[i + 1] <=> Rest(p, s, i + 1))
  <2> SUFFICES ASSUME i <= Len(p) PROVE w[i + 1] <=> Rest(p, s, i + 1)
    OBVIOUS
  <2>1. k - 1 \in 0..Len(p) /\ k - 1 \notin T /\ Len(p) + 1 - (k - 1) = i + 1
    BY <1>2
  <2> QED
    BY <2>1
<1>6. Rest(p, s, i) <=> IF i > Len(p) THEN i > Len(s)
               ELSE /\ i <= Len(s)
                    /\ \/ p[i] = ">"
                       \/ p[i] \in {"*", s[i]} /\ Rest(p, s, i + 1)
  BY <1>3, RestStep
<1> QED
  BY <1>2, <1>3, <1>4, <1>5, <1>6

(* The walk of SubjectPattern::matches_str (match_segments) over pattern and *)
(* subject comes to what the pattern means, for patterns and subjects of     *)
(* every length: as long as the subject, segment by segment the same or *,   *)
(* or, ending in >, at least one segment shorter.                            *)
THEOREM MatchesIsCovers ==
  ASSUME NEW p, NEW s, Len(p) \in Nat, Len(p) > 0, Len(s) \in Nat,
         \A i \in 1..Len(p) : p[i] = ">" => i = Len(p)
  PROVE  matches_str(p, s) <=> Covers(p, s)
<1> DEFINE w == [i \in 1..(Len(p) + 1) |-> Rest(p, s, i)]
<1>1. Walks(p, s, w)
  <2> SUFFICES ASSUME NEW i \in 1..(Len(p) + 1)
      PROVE w[i] = IF i > Len(p) THEN i > Len(s)
                   ELSE /\ i <= Len(s)
                        /\ \/ p[i] = ">"
                           \/ p[i] \in {"*", s[i]} /\ w[i + 1]
    BY Zenon DEF Walks
  <2>1. \A j \in 1..(Len(p) + 1) : Rest(p, s, j) \in BOOLEAN
    <3> SUFFICES ASSUME NEW j \in 1..(Len(p) + 1) PROVE Rest(p, s, j) \in BOOLEAN
      OBVIOUS
    <3>1. CASE j > Len(p)
      BY <3>1 DEF Rest
    <3>2. CASE ~ (j > Len(p))
      BY <3>2, Zenon DEF Rest
    <3> QED
      BY <3>1, <3>2
  <2>2. w[i] = Rest(p, s, i) /\ (i <= Len(p) => w[i + 1] = Rest(p, s, i + 1))
    OBVIOUS
  <2>3. w[i] <=> IF i > Len(p) THEN i > Len(s)
                 ELSE /\ i <= Len(s)
                      /\ \/ p[i] = ">"
                         \/ p[i] \in {"*", s[i]} /\ w[i + 1]
    BY <2>2, RestStep
  <2>4. w[i] \in BOOLEAN
    BY <2>1, <2>2
  <2> HIDE DEF w
  <2>5. CASE i > Len(p)
    BY <2>3, <2>4, <2>5
  <2>6. CASE ~ (i > Len(p))
    BY <2>3, <2>4, <2>6, Zenon
  <2> QED
    BY <2>5, <2>6, Zenon
<1> HIDE DEF w
<1>2. Walks(p, s, CHOOSE walk : Walks(p, s, walk))
  BY <1>1, Zenon
<1>3. matches_str(p, s) = (CHOOSE walk : Walks(p, s, walk))[1]
  BY Zenon DEF matches_str, Walks
<1>4. matches_str(p, s) <=> Rest(p, s, 1)
  BY <1>2, <1>3, WalkIsRest
<1>5. Rest(p, s, 1) <=> Covers(p, s)
  BY DEF Rest, Covers
<1> QED
  BY <1>4, <1>5

(* An anchored pattern names its tenant third. *)
LEMMA Front ==
  ASSUME NEW x, NEW y, NEW z, NEW S, NEW w \in Seq(S)
  PROVE  LET q == <<x, y, z>> \o w IN Len(q) \in Nat /\ Len(q) >= 3 /\ q[3] = z
<1> DEFINE T == S \cup {x, y, z}
           a == <<x, y, z>>
<1>1. w \in Seq(T) /\ a \in Seq(T) /\ Len(a) = 3 /\ a[3] = z
  <2>1. S \subseteq T /\ x \in T /\ y \in T /\ z \in T
    OBVIOUS
  <2> HIDE DEF T
  <2> QED BY <2>1
<1> HIDE DEF T, a
<1>2.  /\ a \o w \in Seq(T)
         /\ Len(a \o w) = Len(a) + Len(w)
         /\ \A i \in 1 .. Len(a) + Len(w) : (a \o w)[i] =
                     IF i <= Len(a) THEN a[i] ELSE w[i - Len(a)]
  BY <1>1, ConcatProperties, Zenon
<1> DEFINE q == a \o w
<1>3. Len(q) \in Nat /\ Len(q) >= 3 /\ q[3] = z
  <2>1. Len(w) \in Nat
    BY <1>1
  <2>2. \A i \in 1 .. Len(a) + Len(w) : q[i] = IF i <= Len(a) THEN a[i] ELSE w[i - Len(a)]
    BY <1>2, Zenon
  <2>3. Len(q) = Len(a) + Len(w)
    BY <1>2, Zenon
  <2> HIDE DEF q
  <2> QED BY <2>1, <2>2, <2>3, <1>1
<1> QED BY <1>3 DEF a

LEMMA PatternFacts ==
  ASSUME env \in Scenarios, NEW c \in Subscribers, NEW s \in DOMAIN env.wants[c]
  PROVE  LET p == Pattern(c, s) IN
         /\ Len(p) \in Nat /\ Len(p) > 0
         /\ \A i \in 1..Len(p) : p[i] = ">" => i = Len(p)
         /\ \/ Len(p) = 1 /\ p[1] # ">"
            \/ Len(p) >= 3 /\ p[3] = env.tenants[c] /\ p[3] # ">" /\ p[3] # "*"
<1> DEFINE t == env.tenants[c]
           w == env.wants[c][s]
           q == <<"vs", "t", t>> \o w
<1>1. t \in STRING /\ w \in Seq(STRING)
  <2>1. env.tenants \in [DOMAIN env.wants -> STRING] /\ env.wants[c] \in Seq(Seq(STRING))
    BY ScenarioAssumption, Zenon DEF Subscribers
  <2> QED BY <2>1 DEF Subscribers
<1>2. Len(q) \in Nat /\ Len(q) >= 3 /\ Len(q) > 0 /\ q[3] = t
  <2>1. Len(q) \in Nat /\ Len(q) >= 3 /\ q[3] = t
    <3> HIDE DEF t, w
    <3> QED BY <1>1, Front
  <2> HIDE DEF q
  <2> QED BY <2>1
<1> HIDE DEF q
<1>3. Pattern(c, s) = IF validate_strict(t) THEN parse(q) ELSE Invalid
  BY Zenon DEF Pattern, anchored, q
<1>4. CASE Pattern(c, s) = Invalid
  BY <1>4 DEF Invalid
<1>5. CASE Pattern(c, s) = q /\ validate_strict(t) /\ \A i \in 1..Len(q) : q[i] = ">" => i = Len(q)
  BY <1>2, <1>5, Zenon DEF validate_strict
<1> QED BY <1>3, <1>4, <1>5, Zenon DEF parse

(* What a pattern of a client matches is an event the client may be given. *)
LEMMA Matching ==
  ASSUME env \in Scenarios, StreamInv, NEW c \in Subscribers, NEW s \in DOMAIN env.wants[c],
         NEW i \in 1..Latest, matches_str(Pattern(c, s), Entry(i).subject)
  PROVE  i \in Fit(c)
<1> DEFINE p == Pattern(c, s)
           u == Entry(i).subject
<1>1. Len(u) \in Nat /\ Len(u) >= 3 /\ Entry(i).tenant = u[3]
  <2> DEFINE E == [subject : Seq(STRING), tenant : STRING, form : STRING]
  <2>1. Entry(i) \in E
    <3>1. stream.log \in Seq(E) /\ i \in 1..Len(stream.log)
      BY Zenon DEF StreamInv, Latest
    <3> HIDE DEF E
    <3> QED BY <3>1 DEF Entry
  <2> QED BY <2>1 DEF StreamInv
<1>2. /\ Len(p) \in Nat /\ Len(p) > 0
      /\ \A j \in 1..Len(p) : p[j] = ">" => j = Len(p)
      /\ \/ Len(p) = 1 /\ p[1] # ">"
         \/ Len(p) >= 3 /\ p[3] = env.tenants[c] /\ p[3] # ">" /\ p[3] # "*"
  BY PatternFacts, Zenon
<1>3. matches_str(p, u)
  OBVIOUS
<1> HIDE DEF p, u
<1>4. Covers(p, u)
  BY <1>1, <1>2, <1>3, MatchesIsCovers
<1>5. env.tenants[c] = u[3]
  BY <1>1, <1>2, <1>4 DEF Covers
<1> QED BY <1>1, <1>4, <1>5 DEF Fit, p, u

(* Queues keep what they are given. *)
LEMMA Queues ==
  ASSUME NEW S, NEW q \in Seq(S)
  PROVE  /\ Len(q) \in Nat /\ (Len(q) # 0 => q # <<>>)
         /\ q # <<>> => Head(q) \in S /\ Tail(q) \in Seq(S) /\ q[Len(q)] \in S
         /\ \A x \in S : Append(q, x) \in Seq(S)
  OBVIOUS

-----------------------------------------------------------------------------
(* Sessions. *)

(* A session that differs in nothing that holds a position. *)
LEMMA Alike ==
  ASSUME NEW n, NEW s, NEW t, Holds(s, n), DOMAIN t = DOMAIN s,
         t.after = s.after, t.next = s.next, t.acked = s.acked, t.pending = s.pending,
         t.cutoff = s.cutoff, t.replay = s.replay, t.live = s.live, t.pc = "validate" => s.pc = "validate"
  PROVE  Holds(t, n)
  BY Zenon DEF Holds

LEMMA RefusedHolds ==
  ASSUME NEW n, NEW s, Holds(s, n), NEW code
  PROVE  Holds(Refused(s, code), n)
<1> DEFINE t == Refused(s, code)
<1>1. /\ DOMAIN t = DOMAIN s
      /\ t.after = s.after /\ t.next = s.next /\ t.acked = s.acked /\ t.pending = s.pending
      /\ t.cutoff = s.cutoff /\ t.replay = s.replay /\ t.live = s.live /\ t.pc # "validate"
  BY DEF Refused, Holds, SessionFields
<1> HIDE DEF t
<1> QED BY <1>1, Alike, Zenon DEF t

LEMMA FlushHolds ==
  ASSUME NEW n, NEW s, Holds(s, n), NEW t \in flush_pending(s)
  PROVE  Holds(t, n)
<1> SUFFICES ASSUME s.pending # None, t = [s EXCEPT !.acked = s.pending, !.pending = None, !.since = 0]
             PROVE  Holds(t, n)
  BY Zenon DEF flush_pending
<1> QED BY DEF Holds, SessionFields

LEMMA AcceptHolds ==
  ASSUME NEW n, NEW s, Holds(s, n), NEW i \in Int, NEW t \in accepted(s, i)
  PROVE  Holds(t, n)
<1> DEFINE held == [s EXCEPT !.pending = i, !.since = @ + 1]
<1>1. Holds(held, n)
  BY DEF Holds, SessionFields
<1> HIDE DEF held
<1>2. t \in {s, held} \cup flush_pending(held)
  BY Zenon DEF accepted, jetstream_accepted, redis_accepted, held
<1> QED BY <1>1, <1>2, FlushHolds, Zenon

LEMMA OpeningHolds ==
  ASSUME NEW n \in Nat, NEW id, NEW cursor, NEW filter, Numbered(cursor)
  PROVE  Holds(Opening(id, cursor, filter), n) /\ Holds([NoSession EXCEPT !.id = id], n)
<1>1. Holds(Opening(id, cursor, filter), n)
  BY DEF Holds, SessionFields, Opening, NoSession, Numbered, Replaying
<1>2. Holds([NoSession EXCEPT !.id = id], n)
  BY DEF Holds, SessionFields, NoSession, Numbered, Replaying
<1> QED BY <1>1, <1>2

(* A longer stream holds what a shorter one does. *)
LEMMA HoldsGrows ==
  ASSUME NEW n \in Nat, NEW m \in Nat, n <= m, NEW s, Holds(s, n)
  PROVE  Holds(s, m)
<1>1. 0..n \subseteq 0..m /\ 1..n \subseteq 1..m
  OBVIOUS
<1>2. \A q : (q \in Seq(0..n) => q \in Seq(0..m)) /\ (q \in Seq(1..n) => q \in Seq(1..m))
  BY <1>1
<1> QED BY <1>1, <1>2, Zenon DEF Holds, Replaying

-----------------------------------------------------------------------------
(* What a step does to sessions, pumps and clients. *)

SessStep == DOMAIN sess' = Keys /\ \A k \in Keys : Holds(sess'[k], Latest)
PumpStep == DOMAIN pump' = Keys /\ \A k \in Keys : Carries(pump'[k], Latest)
ClientStep == DOMAIN client' = Subscribers /\ \A c \in Subscribers : Keeps(client'[c], c)

LEMMA LatestNat == StreamInv => Latest \in Nat
  BY DEF StreamInv, Latest

LEMMA SessSame == ASSUME SessInv, UNCHANGED sess PROVE SessStep
  BY Zenon DEF SessInv, SessStep
LEMMA PumpSame == ASSUME PumpInv, UNCHANGED pump PROVE PumpStep
  BY Zenon DEF PumpInv, PumpStep
LEMMA ClientSame == ASSUME ClientInv, UNCHANGED client PROVE ClientStep
  BY Zenon DEF ClientInv, ClientStep
LEMMA SessOne ==
  ASSUME SessInv, NEW k, NEW t, sess' = [sess EXCEPT ![k] = t], k \in Keys => Holds(t, Latest)
  PROVE  SessStep
  BY DEF SessInv, SessStep
LEMMA PumpOne ==
  ASSUME PumpInv, NEW k, NEW p, pump' = [pump EXCEPT ![k] = p], k \in Keys => Carries(p, Latest)
  PROVE  PumpStep
  BY DEF PumpInv, PumpStep
LEMMA ClientOne ==
  ASSUME ClientInv, NEW c, NEW r, client' = [client EXCEPT ![c] = r], c \in Subscribers => Keeps(r, c)
  PROVE  ClientStep
  BY DEF ClientInv, ClientStep

(* A provider ends a pump or gives it an event. *)
Given(p, n) ==
  /\ DOMAIN p = PumpFields
  /\ (p.pc = "failed" /\ p.item \in 0..n) \/ (p.pc = "got" /\ p.item \in 1..n)
Provided == DOMAIN pump' = Keys /\ \A k \in Keys : pump'[k] = pump[k] \/ Given(pump'[k], Latest)
LEMMA Gives ==
  ASSUME PumpInv, NEW k \in Keys, UNCHANGED pump \/ Failed(k) \/ \E i \in 1..Latest : Got(k, i)
  PROVE  Provided
<1>1. CASE UNCHANGED pump
  BY <1>1, Zenon DEF Provided, PumpInv
<1>2. CASE Failed(k)
  <2> DEFINE p == [pump[k] EXCEPT !.pc = "failed"]
  <2>1. pump' = [pump EXCEPT ![k] = p]
    BY <1>2 DEF Failed
  <2>2. Given(p, Latest)
    BY DEF PumpInv, Carries, PumpFields, Given
  <2> HIDE DEF p
  <2> QED BY <2>1, <2>2 DEF PumpInv, Provided
<1>3. ASSUME NEW i \in 1..Latest, Got(k, i) PROVE Provided
  <2> DEFINE p == [pump[k] EXCEPT !.pc = "got", !.item = i]
  <2>1. pump' = [pump EXCEPT ![k] = p]
    BY <1>3, Zenon DEF Got
  <2>2. Given(p, Latest)
    BY DEF PumpInv, Carries, PumpFields, Given
  <2> HIDE DEF p
  <2> QED BY <2>1, <2>2 DEF PumpInv, Provided
<1> QED BY <1>1, <1>2, <1>3, Zenon

-----------------------------------------------------------------------------
(* JetStream. *)

LEMMA JsOpens ==
  ASSUME EventsInv, NEW k \in Keys, jetstream_open_session(k)
  PROVE  SessStep /\ UNCHANGED <<env, stream, pump, conn, client, active>>
<1>0. SessInv /\ StreamInv /\ Holds(sess[k], Latest) /\ Latest \in Nat
  BY LatestNat, Zenon DEF EventsInv, SessInv
<1>1. CASE reserve(k)
  <2> DEFINE t == [sess[k] EXCEPT !.pc = "check"]
  <2>1. sess' = [sess EXCEPT ![k] = t] /\ UNCHANGED <<env, stream, pump, conn, client, active>>
    BY <1>1 DEF reserve
  <2>2. Holds(t, Latest)
    BY <1>0 DEF Holds, SessionFields
  <2> HIDE DEF t
  <2> QED BY <1>0, <2>1, <2>2, SessOne, Zenon
<1>2. CASE check_window(k)
  <2>1. UNCHANGED <<env, stream, pump, conn, client, active>>
    BY <1>2, ZenonT(30) DEF check_window
  <2>2. \/ \E code : sess' = [sess EXCEPT ![k] = Refused(sess[k], code)]
        \/ \E start \in Int : sess' = [sess EXCEPT ![k] = [sess[k] EXCEPT !.pc = "create", !.next = start]]
    <3> DEFINE s == sess[k]
               start == IF s.after = None THEN 0 ELSE jetstream_start_sequence(s.after)
               error == IF s.after = None THEN None
                        ELSE IF start = None THEN "InvalidCursor" ELSE validate_resume_window(start)
    <3>1. sess' = [sess EXCEPT ![k] = IF error # None THEN Refused(s, error)
                                      ELSE [s EXCEPT !.pc = "create", !.next = start]]
      BY <1>2, Zenon DEF check_window
    <3>2. error = None => start \in Int
      <4>1. "InvalidCursor" # None
        BY ErrorAssumption
      <4> QED BY <1>0, <4>1 DEF jetstream_start_sequence, Holds, Numbered
    <3> HIDE DEF error, start
    <3> QED BY <3>1, <3>2, Zenon
  <2>3. ASSUME NEW start \in Int PROVE Holds([sess[k] EXCEPT !.pc = "create", !.next = start], Latest)
    BY <1>0 DEF Holds, SessionFields
  <2> QED BY <1>0, <2>1, <2>2, <2>3, RefusedHolds, SessOne, Zenon
<1>3. CASE create_consumer(k)
  <2> DEFINE from == IF sess[k].after = None THEN Latest + 1 ELSE sess[k].next
             t == [sess[k] EXCEPT !.pc = "open", !.next = from, !.pos = from - 1, !.acked = from - 1]
  <2>1. sess' = [sess EXCEPT ![k] = t] /\ UNCHANGED <<env, stream, pump, conn, client, active>>
    BY <1>3, Zenon DEF create_consumer
  <2>2. from \in Int
    BY <1>0 DEF Holds
  <2> HIDE DEF from
  <2>3. Holds(t, Latest)
    BY <1>0, <2>2 DEF Holds, SessionFields
  <2> HIDE DEF t
  <2> QED BY <1>0, <2>1, <2>3, SessOne, Zenon
<1>4. CASE create_fails(k)
  <2>1. sess' = [sess EXCEPT ![k] = Refused(sess[k], "Unavailable")] /\ UNCHANGED <<env, stream, pump, conn, client, active>>
    BY <1>4 DEF create_fails
  <2> QED BY <1>0, <2>1, RefusedHolds, SessOne, Zenon
<1> QED BY <1>1, <1>2, <1>3, <1>4, Zenon DEF jetstream_open_session

LEMMA FirstDue ==
  ASSUME EventsInv, NEW k \in Keys, Deliverable(k) # {}
  PROVE  (CHOOSE i \in Deliverable(k) : \A j \in Deliverable(k) : i <= j) \in 1..Latest
<1> DEFINE i == CHOOSE i \in Deliverable(k) : \A j \in Deliverable(k) : i <= j
<1>1. Latest \in Nat /\ stream.first \in Nat /\ stream.first >= 1 /\ sess[k].next \in Int
  BY LatestNat, Zenon DEF EventsInv, StreamInv, SessInv, Holds
<1>2. Deliverable(k) \subseteq 1..Latest
  <2>1. Deliverable(k) \subseteq Larger(sess[k].next, stream.first)..Latest
    BY Zenon DEF Deliverable
  <2> QED BY <1>1, <2>1 DEF Larger
<1>3. Deliverable(k) \subseteq Nat
  BY <1>2
<1>4. \E x \in Deliverable(k) : \A j \in Deliverable(k) : x <= j
  BY <1>3, Least, Zenon
<1>5. i \in Deliverable(k)
  BY <1>4, Zenon
<1> QED BY <1>2, <1>5, Zenon

LEMMA JsReads ==
  ASSUME EventsInv, NEW k \in Keys, JetStreamSession(k)
  PROVE  SessStep /\ Provided /\ UNCHANGED <<env, stream, conn, client, active>>
<1>0. SessInv /\ PumpInv /\ StreamInv /\ Holds(sess[k], Latest) /\ Latest \in Nat
  BY LatestNat, Zenon DEF EventsInv, SessInv
<1>1. CASE next_message(k)
  <2>1. PICK i \in 1..Latest : Got(k, i) /\ sess' = [sess EXCEPT ![k] = [sess[k] EXCEPT !.next = i + 1, !.pos = i, !.reopen = 0]]
    BY <1>1, FirstDue, Zenon DEF next_message
  <2>2. UNCHANGED <<env, stream, conn, client, active>>
    BY <1>1, Zenon DEF next_message
  <2> DEFINE t == [sess[k] EXCEPT !.next = i + 1, !.pos = i, !.reopen = 0]
  <2>3. Holds(t, Latest)
    BY <1>0 DEF Holds, SessionFields
  <2>4. sess' = [sess EXCEPT ![k] = t]
    BY <2>1, Zenon
  <2> HIDE DEF t
  <2> QED BY <1>0, <2>1, <2>2, <2>3, <2>4, SessOne, Gives, Zenon
<1>2. CASE stream_fails(k)
  <2>1. PICK r \in flush_pending(sess[k]) :
          sess' = [sess EXCEPT ![k] = [r EXCEPT !.reopen = @ + 1]] /\ (Failed(k) \/ UNCHANGED pump)
    BY <1>2, Zenon DEF stream_fails
  <2>2. UNCHANGED <<env, stream, conn, client, active>>
    BY <1>2, Zenon DEF stream_fails
  <2> DEFINE t == [r EXCEPT !.reopen = @ + 1]
  <2>3. Holds(r, Latest)
    BY <1>0, FlushHolds, Zenon
  <2>4. Holds(t, Latest)
    BY <2>3 DEF Holds, SessionFields
  <2>5. sess' = [sess EXCEPT ![k] = t]
    BY <2>1, Zenon
  <2> HIDE DEF t
  <2> QED BY <1>0, <2>1, <2>2, <2>4, <2>5, SessOne, Gives, Zenon
<1>3. CASE consumer_deleted(k) \/ flush_tick(k)
  <2>1. PICK r \in flush_pending(sess[k]) : sess' = [sess EXCEPT ![k] = r]
    BY <1>3, Zenon DEF consumer_deleted, flush_tick
  <2>2. UNCHANGED <<env, stream, conn, client, active>> /\ (Failed(k) \/ UNCHANGED pump)
    BY <1>3, Zenon DEF consumer_deleted, flush_tick
  <2> QED BY <1>0, <2>1, <2>2, FlushHolds, SessOne, Gives, Zenon
<1>4. CASE ack_wait(k)
  <2> DEFINE t == [sess[k] EXCEPT !.next = sess[k].acked + 1]
  <2>1. sess' = [sess EXCEPT ![k] = t] /\ UNCHANGED <<env, stream, pump, conn, client, active>>
    BY <1>4 DEF ack_wait
  <2>2. Holds(t, Latest)
    BY <1>0 DEF Holds, SessionFields
  <2> HIDE DEF t
  <2> QED BY <1>0, <2>1, <2>2, SessOne, Gives, Zenon
<1>5. CASE inactive(k)
  <2>1. UNCHANGED <<env, stream, sess, pump, conn, client, active>>
    BY <1>5, Zenon DEF inactive
  <2> QED BY <1>0, <2>1, SessSame, Gives, Zenon
<1> QED BY <1>1, <1>2, <1>3, <1>4, <1>5, Zenon DEF JetStreamSession

LEMMA JsEvents ==
  ASSUME EventsInv, JetStreamNext
  PROVE  SessStep /\ Provided /\ UNCHANGED <<env, stream, conn, client, active>>
<1>0. SessInv /\ PumpInv
  BY Zenon DEF EventsInv
<1>1. ASSUME NEW k \in Keys, jetstream_open_session(k) \/ JetStreamSession(k)
      PROVE  SessStep /\ Provided /\ UNCHANGED <<env, stream, conn, client, active>>
  BY <1>0, <1>1, JsOpens, JsReads, Gives, Zenon
<1>2. ASSUME UNCHANGED <<env, stream, sess, pump, conn, client, active>>
      PROVE  SessStep /\ Provided /\ UNCHANGED <<env, stream, conn, client, active>>
  BY <1>0, <1>2, SessSame, Zenon DEF Provided, PumpInv
<1>3. CASE run_reaper
  BY <1>2, <1>3, ZenonT(30) DEF run_reaper, reap_snapshot, reap_list, reap_gate, reap_delete, reap_delete_fails, reap_done
<1>4. ASSUME NEW id, delete_consumer(id) \/ delete_fails(id)
      PROVE  UNCHANGED <<env, stream, sess, pump, conn, client, active>>
  BY <1>4, Zenon DEF delete_consumer, delete_fails
<1> QED BY <1>1, <1>2, <1>3, <1>4, Zenon DEF JetStreamNext

-----------------------------------------------------------------------------
(* Redis Streams. *)

(* Decoded adds the entries of a batch one by one. *)
Adds(b, f, n) ==
  IF n = 0 THEN <<>>
  ELSE IF Entry(b[n]).form = "badEntry" THEN f[n - 1] ELSE Append(f[n - 1], b[n])
Upto(b, f, m) == f = [n \in 0..m |-> Adds(b, f, n)]

LEMMA PartlyDecoded ==
  ASSUME NEW b
  PROVE  \A m \in Nat : \E f : Upto(b, f, m)
<1> DEFINE T == {m \in Nat : ~ \E f : Upto(b, f, m)}
<1>1. SUFFICES ASSUME T # {} PROVE FALSE
  BY <1>1, Zenon
<1>2. T \subseteq Nat
  OBVIOUS
<1>3. PICK m \in T : \A k \in T : m <= k
  <2> HIDE DEF T
  <2> QED BY <1>1, <1>2, Least, Zenon
<1>4. m \in Nat /\ ~ \E f : Upto(b, f, m)
  OBVIOUS
<1>5. m # 0
  <2> DEFINE f == [n \in 0..0 |-> <<>>]
  <2>1. \A n \in 0..0 : Adds(b, f, n) = <<>>
    BY DEF Adds
  <2>2. Upto(b, f, 0)
    BY <2>1, Zenon DEF Upto
  <2> HIDE DEF f
  <2> QED BY <1>4, <2>2, Zenon
<1>6. m - 1 \in Nat /\ ~ (m <= m - 1)
  BY <1>4, <1>5
<1>7. PICK f : Upto(b, f, m - 1)
  BY <1>3, <1>6, Zenon
<1> DEFINE g == [n \in 0..m |-> Adds(b, f, n)]
<1>8. ASSUME NEW n \in 0..m PROVE Adds(b, f, n) = Adds(b, g, n)
  <2>1. CASE n = 0
    BY <2>1, Zenon DEF Adds
  <2>2. CASE n # 0
    <3>1. n - 1 \in 0..m /\ n - 1 \in 0..(m - 1)
      BY <1>4, <2>2
    <3>2. f[n - 1] = Adds(b, f, n - 1)
      BY <1>7, <3>1, Zenon DEF Upto
    <3>3. g[n - 1] = f[n - 1]
      BY <3>1, <3>2, Zenon
    <3> HIDE DEF g
    <3> QED BY <2>2, <3>3, Zenon DEF Adds
  <2> QED BY <2>1, <2>2, Zenon
<1>9. Upto(b, g, m)
  BY <1>8, Zenon DEF Upto
<1> HIDE DEF g
<1> QED BY <1>4, <1>9, Zenon

LEMMA DecodedIsPart ==
  ASSUME NEW S, NEW b \in Seq(S)
  PROVE  Decoded(b) \in Seq(S)
<1> DEFINE f == CHOOSE f : Upto(b, f, Len(b))
<1>1. Len(b) \in Nat
  OBVIOUS
<1>2. Upto(b, f, Len(b))
  BY <1>1, PartlyDecoded, Zenon
<1>3. Decoded(b) = f[Len(b)]
  BY Zenon DEF Decoded, Upto, Adds
<1> HIDE DEF f
<1>4. \A n \in 0..Len(b) : f[n] = Adds(b, f, n)
  BY <1>2, Zenon DEF Upto
<1> DEFINE T == {n \in 0..Len(b) : f[n] \notin Seq(S)}
<1>5. SUFFICES ASSUME T # {} PROVE FALSE
  BY <1>1, <1>3, <1>5
<1>6. PICK n \in T : \A k \in T : n <= k
  <2>1. T \subseteq Nat
    OBVIOUS
  <2> HIDE DEF T
  <2> QED BY <1>5, <2>1, Least, Zenon
<1>7. CASE n = 0
  <2>1. f[n] = <<>>
    BY <1>4, <1>7, Zenon DEF Adds
  <2>2. <<>> \in Seq(S)
    OBVIOUS
  <2> QED BY <2>1, <2>2, Zenon
<1>8. CASE n # 0
  <2>1. n - 1 \in 0..Len(b) /\ n \in 1..Len(b) /\ n - 1 \notin T
    BY <1>1, <1>6, <1>8
  <2>2. f[n - 1] \in Seq(S) /\ b[n] \in S
    BY <2>1
  <2>3. Adds(b, f, n) \in {f[n - 1], Append(f[n - 1], b[n])}
    BY <1>8, Zenon DEF Adds
  <2>4. f[n] = Adds(b, f, n)
    BY <1>4, Zenon
  <2>5. f[n] \in Seq(S)
    <3>1. Append(f[n - 1], b[n]) \in Seq(S)
      BY <2>2
    <3> QED BY <2>2, <2>3, <2>4, <3>1, Zenon
  <2> QED BY <2>5
<1> QED BY <1>7, <1>8

LEMMA RangeIsRetained ==
  ASSUME StreamInv, NEW n \in Nat, NEW r, r.next \in Int, r.through \in 0..n
  PROVE  read_range(r) \in Seq(1..n)
<1> DEFINE from == Larger(r.next + 1, stream.first)
           to == Smaller(r.through, from + ReadBatch - 1)
           m == IF to < from THEN 0 ELSE to - from + 1
<1>1. from \in Nat /\ from >= 1
  BY DEF StreamInv, Larger
<1>2. to \in Int /\ to <= n
  <2> HIDE DEF from
  <2> QED BY <1>1, BatchAssumption DEF Smaller
<1>3. read_range(r) = [i \in 1..m |-> from + i - 1]
  BY Zenon DEF read_range
<1> HIDE DEF from, to
<1>4. m \in Nat /\ \A i \in 1..m : from + i - 1 \in 1..n
  BY <1>1, <1>2
<1> HIDE DEF m
<1>5. [i \in 1..m |-> from + i - 1] \in Seq(1..n)
  BY <1>4
<1> QED BY <1>3, <1>5, Zenon

LEMMA ReceivedHolds ==
  ASSUME NEW n \in Nat, NEW s, Holds(s, n), NEW m \in 0..n
  PROVE  Holds(Received(s, m), n)
<1> DEFINE q == IF Len(s.live) < BroadcastCapacity THEN Append(s.live, m) ELSE Append(Tail(s.live), m)
<1>1. q \in Seq(0..n)
  <2>1. s.live \in Seq(0..n)
    BY Zenon DEF Holds
  <2>2. CASE Len(s.live) < BroadcastCapacity
    BY <2>1, <2>2
  <2>3. CASE ~ (Len(s.live) < BroadcastCapacity)
    <3>1. Len(s.live) \in Nat /\ Len(s.live) # 0
      BY <2>1, <2>3, BatchAssumption
    <3>2. Tail(s.live) \in Seq(0..n)
      BY <2>1, <3>1, Queues, Zenon
    <3>3. Append(Tail(s.live), m) \in Seq(0..n)
      BY <3>2
    <3> QED BY <2>3, <3>3, Zenon
  <2> QED BY <2>2, <2>3, Zenon
<1> HIDE DEF q
<1>2. ASSUME NEW b PROVE Holds([s EXCEPT !.live = q], n) /\ Holds([s EXCEPT !.live = q, !.lagged = b], n)
  BY <1>1 DEF Holds, SessionFields
<1> QED BY <1>2, Zenon DEF Received, q

HubStep ==
  /\ DOMAIN broker' = HubFields
  /\ broker'.watermark \in 0..Latest /\ broker'.last \in 0..Latest
  /\ broker'.batch \in Seq(1..Latest)
  /\ broker'.trim = TRUE => env.retain # None
StreamStep ==
  DOMAIN stream' = {"log", "first"} /\ stream'.log = stream.log /\ stream'.first \in Nat /\ stream'.first >= 1

LEMMA RsOpens ==
  ASSUME EventsInv, HubInv, NEW k \in Keys, redis_open_session(k)
  PROVE  SessStep /\ HubStep /\ UNCHANGED <<env, stream, pump, conn, client, active>>
<1>0. SessInv /\ StreamInv /\ Holds(sess[k], Latest) /\ Latest \in Nat
  BY LatestNat, Zenon DEF EventsInv, SessInv
<1>1. CASE hub_for(k)
  <2> DEFINE t == [sess[k] EXCEPT !.pc = "subscribe"]
  <2>1. sess' = [sess EXCEPT ![k] = t] /\ UNCHANGED <<env, stream, pump, conn, client, active>>
    BY <1>1 DEF hub_for
  <2>2. Holds(t, Latest)
    BY <1>0 DEF Holds, SessionFields
  <2>3. HubStep
    BY <1>0, <1>1 DEF hub_for, HubInv, HubStep, HubFields
  <2> HIDE DEF t
  <2> QED BY <1>0, <2>1, <2>2, <2>3, SessOne, Zenon
<1>2. CASE hub_subscribe(k)
  <2>1. HubStep /\ UNCHANGED <<env, stream, pump, conn, client, active>>
    BY <1>2 DEF hub_subscribe, HubInv, HubStep, HubFields
  <2> DEFINE t == [sess[k] EXCEPT !.pc = "watermark", !.pos = broker.last]
  <2>2. Holds(t, Latest)
    BY <1>0 DEF Holds, SessionFields
  <2>3. sess' = [sess EXCEPT ![k] = t] \/ sess' = [sess EXCEPT ![k] = Refused(sess[k], "Unavailable")]
    BY <1>2, Zenon DEF hub_subscribe
  <2> HIDE DEF t
  <2> QED BY <1>0, <2>1, <2>2, <2>3, RefusedHolds, SessOne, Zenon
<1>3. CASE capture_cutoff(k)
  <2>1. UNCHANGED <<env, stream, broker, pump, conn, client, active>>
    BY <1>3, Zenon DEF capture_cutoff
  <2> DEFINE t == [sess[k] EXCEPT !.pc = "open"]
             u == [sess[k] EXCEPT !.pc = "validate", !.cutoff = broker.watermark]
  <2>2. Holds(t, Latest)
    BY <1>0 DEF Holds, SessionFields
  <2>3. sess[k].after # None => Holds(u, Latest)
    BY <1>0 DEF Holds, SessionFields, HubInv
  <2>4. \/ sess' = [sess EXCEPT ![k] = t]
        \/ sess' = [sess EXCEPT ![k] = Refused(sess[k], "InvalidCursor")]
        \/ sess[k].after # None /\ sess' = [sess EXCEPT ![k] = u]
    BY <1>3, Zenon DEF capture_cutoff, session_live_cutoff
  <2>5. HubStep
    BY <2>1, Zenon DEF HubInv, HubStep
  <2> HIDE DEF t, u
  <2> QED BY <1>0, <2>1, <2>2, <2>3, <2>4, <2>5, RefusedHolds, SessOne, Zenon
<1>4. CASE validate_resume(k)
  <2>1. UNCHANGED <<env, stream, broker, pump, conn, client, active>>
    BY <1>4, Zenon DEF validate_resume
  <2> DEFINE after == sess[k].after.value
             r == [next |-> after, through |-> sess[k].cutoff, buffered |-> <<>>]
             t(x) == [sess[k] EXCEPT !.pc = "open", !.pos = after, !.replay = x]
  <2>2. after \in Int /\ sess[k].cutoff \in 0..Latest
    BY <1>0, <1>4, Zenon DEF validate_resume, Holds, Numbered
  <2>3. Replaying(r, Latest) /\ Replaying(None, Latest)
    <3> HIDE DEF after
    <3> QED BY <2>2 DEF Replaying
  <2>4. \A x \in {r, None} : Holds(t(x), Latest)
    <3> HIDE DEF after, r
    <3> QED BY <1>0, <2>3 DEF Holds, SessionFields
  <2>5. (\E code : sess' = [sess EXCEPT ![k] = Refused(sess[k], code)]) \/ \E x \in {r, None} : sess' = [sess EXCEPT ![k] = t(x)]
    BY <1>4, Zenon DEF validate_resume
  <2>6. HubStep
    BY <2>1, Zenon DEF HubInv, HubStep
  <2> HIDE DEF t
  <2> QED BY <1>0, <2>1, <2>4, <2>5, <2>6, RefusedHolds, SessOne, Zenon
<1> QED BY <1>1, <1>2, <1>3, <1>4, Zenon DEF redis_open_session

LEMMA RsReads ==
  ASSUME EventsInv, HubInv, NEW k \in Keys, RedisSession(k)
  PROVE  SessStep /\ Provided /\ UNCHANGED <<env, stream, broker, conn, client, active>>
<1>0. SessInv /\ PumpInv /\ StreamInv /\ Holds(sess[k], Latest) /\ Latest \in Nat
  BY LatestNat, Zenon DEF EventsInv, SessInv
<1>1. CASE next_replay(k)
  <2> DEFINE r == sess[k].replay
             batch == read_range(r)
             i == Head(r.buffered)
  <2>1. /\ DOMAIN r = {"next", "through", "buffered"}
        /\ r.next \in Int /\ r.through \in 0..Latest /\ r.buffered \in Seq(1..Latest)
    BY <1>0, <1>1, Zenon DEF next_replay, Holds, Replaying
  <2>2. UNCHANGED <<env, stream, broker, conn, client, active>>
    BY <1>1, ZenonT(30) DEF next_replay
  <2>3. ASSUME NEW x, NEW p, Replaying(x, Latest) PROVE Holds([sess[k] EXCEPT !.replay = x, !.pos = p], Latest) /\ Holds([sess[k] EXCEPT !.replay = x], Latest)
    BY <1>0, <2>3 DEF Holds, SessionFields
  <2>4. CASE r.buffered # <<>>
    <3> DEFINE x == [r EXCEPT !.buffered = Tail(@)]
    <3>1. sess' = [sess EXCEPT ![k] = [sess[k] EXCEPT !.replay = x, !.pos = i]] /\ (Got(k, i) \/ UNCHANGED pump)
      BY <1>1, <2>4, Zenon DEF next_replay
    <3>2. i \in 1..Latest /\ Tail(r.buffered) \in Seq(1..Latest)
      BY <2>1, <2>4, Queues, Zenon
    <3>3. Replaying(x, Latest)
      BY <2>1, <3>2 DEF Replaying
    <3> HIDE DEF x, i
    <3> QED BY <1>0, <2>2, <2>3, <3>1, <3>2, <3>3, SessOne, Gives, Zenon
  <2>5. CASE r.buffered = <<>> /\ batch # <<>>
    <3> DEFINE x == [r EXCEPT !.next = batch[Len(batch)], !.buffered = Decoded(batch)]
    <3>1. sess' = [sess EXCEPT ![k] = [sess[k] EXCEPT !.replay = x]] /\ UNCHANGED pump
      BY <1>1, <2>5 DEF next_replay
    <3>2. batch \in Seq(1..Latest)
      BY <1>0, <2>1, RangeIsRetained, Zenon
    <3>3. Decoded(batch) \in Seq(1..Latest)
      BY <3>2, DecodedIsPart, Zenon
    <3>4. batch[Len(batch)] \in Int
      <4>1. batch[Len(batch)] \in 1..Latest
        BY <2>5, <3>2, Queues, Zenon
      <4> QED BY <4>1
    <3>5. Replaying(x, Latest)
      <4> HIDE DEF batch
      <4> QED BY <2>1, <3>3, <3>4 DEF Replaying
    <3> HIDE DEF x
    <3> QED BY <1>0, <2>2, <2>3, <3>1, <3>5, SessOne, Gives, Zenon
  <2>6. CASE r.buffered = <<>> /\ batch = <<>>
    <3>1. \/ Failed(k) /\ UNCHANGED sess
          \/ sess' = [sess EXCEPT ![k] = [sess[k] EXCEPT !.replay = None]] /\ UNCHANGED pump
      BY <1>1, <2>6 DEF next_replay
    <3>2. Replaying(None, Latest)
      BY Zenon DEF Replaying
    <3> QED BY <1>0, <2>2, <2>3, <3>1, <3>2, SessOne, SessSame, Gives, Zenon
  <2> QED BY <2>4, <2>5, <2>6, Zenon
<1>2. CASE replay_error(k)
  <2>1. Failed(k) /\ UNCHANGED <<env, stream, broker, sess, conn, client, active>>
    BY <1>2, Zenon DEF replay_error
  <2> QED BY <1>0, <2>1, SessSame, Gives, Zenon
<1>3. CASE next_live(k)
  <2> DEFINE s == sess[k]
             m == Head(s.live)
             taken == [s EXCEPT !.live = Tail(@)]
             passed == [taken EXCEPT !.cutoff = None, !.pos = m]
  <2>1. UNCHANGED <<env, stream, broker, conn, client, active>>
    BY <1>3, ZenonT(30) DEF next_live
  <2>2. CASE s.lagged \/ m = Terminal
    <3>1. Failed(k) /\ UNCHANGED sess
      BY <1>3, <2>2, Zenon DEF next_live
    <3> QED BY <1>0, <2>1, <3>1, SessSame, Gives, Zenon
  <2>3. CASE ~ s.lagged /\ m # Terminal
    <3>1. s.live \in Seq(0..Latest) /\ s.live # <<>>
      BY <1>0, <1>3, <2>3, Zenon DEF Holds, next_live
    <3>2. m \in 1..Latest /\ Tail(s.live) \in Seq(0..Latest)
      <4>1. m \in 0..Latest /\ Tail(s.live) \in Seq(0..Latest)
        BY <3>1, Queues, Zenon
      <4> QED BY <1>0, <2>3, <4>1 DEF Terminal
    <3>3. Holds(taken, Latest) /\ (s.pc # "validate" => Holds(passed, Latest))
      BY <1>0, <3>2 DEF Holds, SessionFields
    <3>4. \/ sess' = [sess EXCEPT ![k] = taken] /\ UNCHANGED pump
          \/ sess' = [sess EXCEPT ![k] = passed] /\ (Got(k, m) \/ UNCHANGED pump)
      BY <1>3, <2>3, Zenon DEF next_live
    <3>5. s.pc # "validate"
      BY <1>3 DEF next_live, Reads
    <3> HIDE DEF taken, passed, m
    <3> QED BY <1>0, <2>1, <3>2, <3>3, <3>4, <3>5, SessOne, Gives, Zenon
  <2> QED BY <2>2, <2>3, Zenon
<1> QED BY <1>1, <1>2, <1>3, Zenon DEF RedisSession

LEMMA SendHolds ==
  ASSUME SessInv, Latest \in Nat, NEW m \in 0..Latest, sess' = Send(m)
  PROVE  SessStep
<1>1. DOMAIN sess' = Keys /\ \A k \in Keys : sess'[k] \in {sess[k], Received(sess[k], m)}
  BY Zenon DEF Send
<1>2. \A k \in Keys : Holds(sess[k], Latest) /\ Holds(Received(sess[k], m), Latest)
  BY ReceivedHolds, Zenon DEF SessInv
<1> QED BY <1>1, <1>2, Zenon DEF SessStep

LEMMA RsTails ==
  ASSUME EventsInv, HubInv, Tailer
  PROVE  SessStep /\ HubStep /\ StreamStep /\ UNCHANGED <<env, pump, conn, client, active>>
<1>0. SessInv /\ StreamInv /\ Latest \in Nat /\ (UNCHANGED stream => StreamStep)
  BY LatestNat, Zenon DEF EventsInv, StreamInv, StreamStep
<1>1. CASE tail_read
  <2> DEFINE r == [next |-> broker.last, through |-> Latest]
  <2>1. r.next \in Int /\ r.through \in 0..Latest
    BY <1>0 DEF HubInv
  <2>2. read_range(r) \in Seq(1..Latest)
    <3> HIDE DEF r
    <3> QED BY <1>0, <2>1, RangeIsRetained, Zenon
  <2>3. UNCHANGED <<env, stream, sess, pump, conn, client, active>> /\
        broker' = [broker EXCEPT !.failures = 0, !.status = "healthy", !.batch = read_range(r)]
    BY <1>1, Zenon DEF tail_read
  <2> HIDE DEF r
  <2>4. HubStep
    BY <2>2, <2>3 DEF HubInv, HubStep, HubFields
  <2> QED BY <1>0, <2>3, <2>4, SessSame, Zenon
<1>2. CASE tail_timeout \/ tail_error \/ tail_trim_error
  <2>1. UNCHANGED <<env, stream, sess, pump, conn, client, active>>
    BY <1>2, ZenonT(30) DEF tail_timeout, tail_error, tail_trim_error
  <2>2. HubStep
    BY <1>2, Zenon DEF tail_timeout, tail_error, tail_trim_error, HubInv, HubStep, HubFields
  <2> QED BY <1>0, <2>1, <2>2, SessSame, Zenon
<1>3. CASE tail_terminal
  <2>1. sess' = Send(0) /\ UNCHANGED <<env, stream, pump, conn, client, active>>
    BY <1>3, Zenon DEF tail_terminal, Terminal
  <2>2. HubStep
    BY <1>3 DEF tail_terminal, HubInv, HubStep, HubFields
  <2>3. 0 \in 0..Latest
    BY <1>0
  <2> QED BY <1>0, <2>1, <2>2, <2>3, SendHolds, Zenon
<1>4. CASE tail_mark
  <2>1. UNCHANGED <<env, stream, sess, pump, conn, client, active>>
    BY <1>4, Zenon DEF tail_mark
  <2>2. Head(broker.batch) \in 1..Latest
    BY <1>4, Queues, Zenon DEF tail_mark, HubInv
  <2>3. HubStep
    BY <1>0, <1>4, <2>2 DEF tail_mark, HubInv, HubStep, HubFields
  <2> QED BY <1>0, <2>1, <2>3, SessSame, Zenon
<1>5. CASE tail_send
  <2>1. Head(broker.batch) \in 1..Latest /\ Tail(broker.batch) \in Seq(1..Latest)
    BY <1>5, Queues, Zenon DEF tail_send, HubInv
  <2>2. HubStep
    BY <1>5, <2>1 DEF tail_send, HubInv, HubStep, HubFields
  <2>3. UNCHANGED <<env, stream, pump, conn, client, active>> /\ sess' \in {sess, Send(Head(broker.batch))}
    BY <1>5, Zenon DEF tail_send
  <2>4. Head(broker.batch) \in 0..Latest
    BY <2>1
  <2> QED BY <1>0, <2>2, <2>3, <2>4, SessSame, SendHolds, Zenon
<1>6. CASE tail_trim
  <2>1. UNCHANGED <<env, sess, pump, conn, client, active>>
    BY <1>6, Zenon DEF tail_trim
  <2>2. HubStep
    BY <1>6 DEF tail_trim, HubInv, HubStep, HubFields
  <2>3. env.retain \in Nat
    BY <1>6, ScenarioAssumption, Zenon DEF tail_trim, HubInv, EventsInv
  <2>4. StreamStep
    BY <1>0, <1>6, <2>3 DEF tail_trim, StreamInv, StreamStep, Larger
  <2> QED BY <1>0, <2>1, <2>2, <2>4, SessSame, Zenon
<1> QED BY <1>1, <1>2, <1>3, <1>4, <1>5, <1>6, Zenon DEF Tailer

LEMMA RsEvents ==
  ASSUME EventsInv, HubInv, RedisNext
  PROVE  SessStep /\ Provided /\ HubStep /\ StreamStep /\ UNCHANGED <<env, conn, client, active>>
<1>0. PumpInv /\ (UNCHANGED stream => StreamStep) /\ (UNCHANGED broker => HubStep) /\ (UNCHANGED pump => Provided)
  BY Zenon DEF EventsInv, StreamInv, StreamStep, HubInv, HubStep, Provided, PumpInv
<1>1. CASE Tailer
  BY <1>0, <1>1, RsTails, Zenon
<1>2. ASSUME NEW k \in Keys, redis_open_session(k)
      PROVE  SessStep /\ Provided /\ HubStep /\ StreamStep /\ UNCHANGED <<env, conn, client, active>>
  BY <1>0, <1>2, RsOpens, Zenon
<1>3. ASSUME NEW k \in Keys, RedisSession(k)
      PROVE  SessStep /\ Provided /\ HubStep /\ StreamStep /\ UNCHANGED <<env, conn, client, active>>
  BY <1>0, <1>3, RsReads, Zenon
<1> QED BY <1>1, <1>2, <1>3, Zenon DEF RedisNext

-----------------------------------------------------------------------------
(* A step of the provider, or of nobody, and a new event. *)

CoreStep == DOMAIN broker' = {"next"} /\ broker'.next \in Nat /\ broker'.next >= 1
ServerStep == (env.provider = "rs" => HubStep) /\ (env.provider = "core" => CoreStep)
WsStep ==
  /\ DOMAIN conn' = Subscribers /\ \A c \in Subscribers : Mailbox(conn'[c], c)
  /\ \A c \in Subscribers : Sends(pump'[c], c)
OperationStep ==
  /\ DOMAIN conn' = Subscribers /\ \A c \in Subscribers : Queue(conn'[c], Latest)
  /\ DOMAIN active' = {"open", "cursor"} /\ Numbered(active'.cursor)

(* A step that leaves the stream alone moves no set of positions. *)
LEMMA Still ==
  ASSUME UNCHANGED env, stream'.log = stream.log
  PROVE  /\ Latest' = Latest /\ Keys' = Keys /\ Subscribers' = Subscribers
         /\ \A c : Fit(c)' = Fit(c)
  BY Zenon DEF Latest, Keys, Subscribers, Fit, Entry, Pattern

LEMMA Combine ==
  ASSUME EventsInv, UNCHANGED env, StreamStep, SessStep, PumpStep, ClientStep, ServerStep,
         env.gateway = "ws" => WsStep, env.gateway = "graphql" => OperationStep
  PROVE  EventsInv'
<1>1. /\ Latest' = Latest /\ Keys' = Keys /\ Subscribers' = Subscribers
      /\ \A c : Fit(c)' = Fit(c)
  BY Still, Zenon DEF StreamStep
<1>2. StreamInv'
  BY <1>1, Zenon DEF EventsInv, StreamInv, StreamStep, Entry
<1>3. SessInv' /\ PumpInv'
  BY <1>1, Zenon DEF SessInv, PumpInv, SessStep, PumpStep
<1>4. ClientInv'
  BY <1>1, Zenon DEF ClientInv, ClientStep, Keeps
<1>5. BrokerInv'
  BY <1>1, Zenon DEF BrokerInv, HubInv, CoreInv, ServerStep, HubStep, CoreStep
<1>6. (env.gateway = "ws" => WsConnInv)'
  BY <1>1, Zenon DEF WsConnInv, WsStep, Mailbox, Sends
<1>7. (env.gateway = "graphql" => OperationInv)'
  BY <1>1, Zenon DEF OperationInv, OperationStep
<1>8. (env \in Scenarios)'
  BY Zenon DEF EventsInv
<1> QED BY <1>2, <1>3, <1>4, <1>5, <1>6, <1>7, <1>8, Zenon DEF EventsInv

(* What a step leaves alone stays as it was. *)
(* What a step leaves alone keeps its part of the invariant. *)
LEMMA LeftAlone ==
  ASSUME EventsInv
  PROVE  /\ UNCHANGED stream => StreamStep
         /\ UNCHANGED broker => ServerStep
         /\ UNCHANGED sess => SessStep
         /\ UNCHANGED pump => PumpStep
         /\ UNCHANGED client => ClientStep
         /\ UNCHANGED <<pump, conn>> /\ env.gateway = "ws" => WsStep
         /\ UNCHANGED <<conn, active>> /\ env.gateway = "graphql" => OperationStep
<1>1. UNCHANGED stream => StreamStep
  BY Zenon DEF EventsInv, StreamInv, StreamStep
<1>2. UNCHANGED broker => ServerStep
  BY Zenon DEF EventsInv, BrokerInv, HubInv, CoreInv, ServerStep, HubStep, CoreStep
<1>3. UNCHANGED <<pump, conn>> /\ env.gateway = "ws" => WsStep
  BY Zenon DEF EventsInv, WsConnInv, WsStep
<1>4. UNCHANGED <<conn, active>> /\ env.gateway = "graphql" => OperationStep
  BY Zenon DEF EventsInv, OperationInv, OperationStep
<1> QED BY <1>1, <1>2, <1>3, <1>4, SessSame, PumpSame, ClientSame, Zenon DEF EventsInv

LEMMA GivenOk ==
  ASSUME EventsInv, Provided
  PROVE  /\ PumpStep
         /\ env.gateway = "ws" => \A c \in Subscribers : Sends(pump'[c], c)
<1>1. ASSUME NEW p, NEW c, Given(p, Latest) PROVE Carries(p, Latest) /\ Sends(p, c)
  <2>1. Latest \in Nat
    BY LatestNat, Zenon DEF EventsInv
  <2> QED BY <1>1, <2>1 DEF Given, Carries, Sends
<1>2. PumpStep
  BY <1>1, Zenon DEF Provided, PumpStep, EventsInv, PumpInv
<1>3. ASSUME env.gateway = "ws", NEW c \in Subscribers PROVE Sends(pump'[c], c)
  <2>1. c \in Keys
    BY Zenon DEF Keys
  <2> QED BY <1>1, <1>3, <2>1, Zenon DEF Provided, EventsInv, WsConnInv
<1> QED BY <1>2, <1>3, Zenon

LEMMA ProviderEvents ==
  ASSUME EventsInv, ProviderNext
  PROVE  EventsInv'
<1>1. /\ SessStep /\ Provided /\ StreamStep /\ ServerStep
      /\ UNCHANGED <<env, conn, client, active>>
  <2>1. CASE env.provider = "js" /\ JetStreamNext
    <3>1. env.provider # "rs" /\ env.provider # "core"
      BY <2>1
    <3> QED BY <2>1, <3>1, JsEvents, LeftAlone, Zenon DEF ServerStep
  <2>2. CASE env.provider = "rs" /\ RedisNext
    <3>1. HubInv /\ env.provider # "core"
      BY <2>2 DEF EventsInv, BrokerInv
    <3> QED BY <2>2, <3>1, RsEvents, Zenon DEF ServerStep
  <2> QED BY <2>1, <2>2, Zenon DEF ProviderNext
<1>2. ClientStep /\ (env.gateway = "graphql" => OperationStep)
  BY <1>1, LeftAlone, Zenon
<1>3. env.gateway = "ws" => WsStep
  BY <1>1, GivenOk, Zenon DEF WsStep, EventsInv, WsConnInv
<1> QED BY <1>1, <1>2, <1>3, GivenOk, Combine, Zenon

LEMMA Appended ==
  ASSUME NEW S, NEW q \in Seq(S), NEW x \in S
  PROVE  /\ Append(q, x) \in Seq(S) /\ Len(Append(q, x)) = Len(q) + 1 /\ Append(q, x)[Len(q) + 1] = x
         /\ \A i \in 1..Len(q) : Append(q, x)[i] = q[i]
  OBVIOUS

(* The log only grows, so what is held stays published. *)
LEMMA PublishEvents ==
  ASSUME EventsInv, Publish
  PROVE  EventsInv'
<1> DEFINE E == [subject : Seq(STRING), tenant : STRING, form : STRING]
           x == env.script[Latest + 1]
<1>0. UNCHANGED <<env, broker, sess, pump, conn, client, active>> /\ stream'.log = Append(stream.log, x)
  BY DEF Publish
<1>1. Keys' = Keys /\ Subscribers' = Subscribers
  BY <1>0, Zenon DEF Keys, Subscribers
<1>2. x \in E /\ Len(x.subject) >= 3 /\ x.tenant = x.subject[3]
  <2>1. env.script \in Seq(E) /\ \A i \in 1..Len(env.script) : Len(env.script[i].subject) >= 3 /\ env.script[i].tenant = env.script[i].subject[3]
    BY ScenarioAssumption, Zenon DEF EventsInv
  <2>2. Latest + 1 \in 1..Len(env.script)
    <3>1. Len(env.script) \in Nat /\ Latest \in Nat /\ Latest < Len(env.script)
      <4>1. Latest \in Nat /\ Latest < Len(env.script)
        BY LatestNat, Zenon DEF EventsInv, Publish
      <4> HIDE DEF E
      <4> QED BY <2>1, <4>1
    <3> QED BY <3>1
  <2>3. x \in E
    <3> HIDE DEF E
    <3> QED BY <2>1, <2>2
  <2> QED BY <2>1, <2>2, <2>3, Zenon
<1>3. /\ stream'.log \in Seq(E) /\ Latest' = Latest + 1 /\ Latest \in Nat
      /\ \A i : i = Latest + 1 => Entry(i)' = x
      /\ \A i \in 1..Latest : Entry(i)' = Entry(i)
  <2>1. stream.log \in Seq(E)
    BY Zenon DEF EventsInv, StreamInv
  <2> HIDE DEF E, x
  <2>2. Latest \in Nat
    BY LatestNat, Zenon DEF EventsInv
  <2>3. Latest' = Latest + 1
    BY <1>0, <1>2, <2>1, Appended DEF Latest
  <2>4. \A i : Entry(i)' = Append(stream.log, x)[i]
    BY <1>0, Zenon DEF Entry
  <2>5. /\ Append(stream.log, x) \in Seq(E) /\ Append(stream.log, x)[Len(stream.log) + 1] = x
        /\ \A i \in 1..Len(stream.log) : Append(stream.log, x)[i] = stream.log[i]
    BY <1>2, <2>1, Appended
  <2>6. \A i : i = Latest + 1 => Entry(i)' = x
    BY <2>4, <2>5, Zenon DEF Latest
  <2>7. \A i \in 1..Latest : Entry(i)' = Entry(i)
    BY <2>4, <2>5, Zenon DEF Latest, Entry
  <2> QED BY <1>0, <2>2, <2>3, <2>5, <2>6, <2>7, Zenon
<1>4. StreamInv'
  <2>1. DOMAIN stream' = {"log", "first"} /\ stream'.first \in Nat /\ stream'.first >= 1
    <3>1. env.retain = None \/ env.retain \in Nat
      BY ScenarioAssumption, Zenon DEF EventsInv
    <3>2. /\ DOMAIN stream' = {"log", "first"}
          /\ \/ stream'.first = stream.first
             \/ env.retain # None /\ stream'.first = Larger(stream.first, Latest + 2 - env.retain)
      BY DEF Publish
    <3>3. stream.first \in Nat /\ stream.first >= 1 /\ Latest \in Nat
      BY LatestNat, Zenon DEF EventsInv, StreamInv
    <3> QED BY <3>1, <3>2, <3>3 DEF Larger
  <2>2. ASSUME NEW i \in 1..(Latest + 1) PROVE Len(Entry(i)'.subject) >= 3 /\ Entry(i)'.tenant = Entry(i)'.subject[3]
    <3> HIDE DEF E, x
    <3>1. CASE i = Latest + 1
      BY <1>2, <1>3, <3>1, Zenon
    <3>2. CASE i \in 1..Latest
      BY <1>3, <3>2, Zenon DEF EventsInv, StreamInv
    <3>3. Latest \in Nat
      BY <1>3, Zenon
    <3>4. i = Latest + 1 \/ i \in 1..Latest
      BY <3>3
    <3> QED BY <3>1, <3>2, <3>4, Zenon
  <2> QED BY <1>3, <2>1, <2>2, Zenon DEF StreamInv
<1> HIDE DEF E, x
<1>5. 0..Latest \subseteq 0..(Latest') /\ 1..Latest \subseteq 1..(Latest') /\ Latest <= Latest' /\ Latest' \in Nat
  BY <1>3
<1>6. ASSUME NEW c PROVE Fit(c) \subseteq Fit(c)'
  <2> SUFFICES ASSUME NEW i \in Fit(c) PROVE i \in Fit(c)'
    BY Zenon
  <2>1. i \in 1..Latest /\ i \in 1..Latest' /\ Entry(i)' = Entry(i)
    BY <1>3, <1>5, Zenon DEF Fit
  <2> QED BY <1>0, <2>1, Zenon DEF Fit, Pattern
<1>7. SessInv' /\ PumpInv'
  BY <1>0, <1>1, <1>3, <1>5, HoldsGrows, Zenon DEF EventsInv, SessInv, PumpInv, Carries
<1>8. ClientInv'
  BY <1>0, <1>1, <1>6, Zenon DEF EventsInv, ClientInv, Keeps
<1>9. BrokerInv'
  <2>1. broker.batch \in Seq(1..Latest) => broker.batch \in Seq(1..Latest')
    BY <1>5, SeqMonotonic, Zenon
  <2> QED BY <1>0, <1>5, <2>1, Zenon DEF EventsInv, BrokerInv, HubInv, CoreInv
<1>10. (env.gateway = "ws" => WsConnInv)'
  <2>1. ASSUME NEW c, NEW q \in Seq(Fit(c)) PROVE q \in Seq(Fit(c)')
    BY <1>6, SeqMonotonic, Zenon
  <2> QED BY <1>0, <1>1, <1>6, <2>1, Zenon DEF EventsInv, WsConnInv, Mailbox, Sends
<1>11. (env.gateway = "graphql" => OperationInv)'
  <2>1. ASSUME NEW q \in Seq(0..Latest) PROVE q \in Seq(0..Latest')
    BY <1>5, SeqMonotonic, Zenon
  <2> QED BY <1>0, <1>1, <2>1, Zenon DEF EventsInv, OperationInv, Queue
<1>12. (env \in Scenarios)'
  BY <1>0, Zenon DEF EventsInv
<1> QED BY <1>4, <1>7, <1>8, <1>9, <1>10, <1>11, <1>12, Zenon DEF EventsInv

-----------------------------------------------------------------------------
(* Clients. *)

LEMMA KeepsOn ==
  ASSUME ClientInv, NEW c \in Subscribers, NEW r, client' = [client EXCEPT ![c] = r],
         DOMAIN r = DOMAIN client[c], Numbered(r.cursor), r.seen = client[c].seen
  PROVE  ClientStep
<1>1. Keeps(r, c)
  BY Zenon DEF ClientInv, Keeps
<1> QED BY <1>1, ClientOne, Zenon

LEMMA StartsOver ==
  ASSUME ClientInv, NEW c \in Subscribers, client' = StartOver(c)
  PROVE  ClientStep
<1> DEFINE r == [client[c] EXCEPT !.cursor = None, !.from = [s \in DOMAIN @ |-> None]]
<1>1. client' = [client EXCEPT ![c] = r]
  BY Zenon DEF StartOver, ClientInv
<1>2. DOMAIN r = DOMAIN client[c] /\ r.cursor = None /\ r.seen = client[c].seen
  BY DEF ClientInv, Keeps
<1> HIDE DEF r
<1> QED BY <1>1, <1>2, KeepsOn, Zenon DEF Numbered

LEMMA Begins ==
  ASSUME ClientInv, NEW c \in Subscribers, NEW s, NEW p, client' = Begin(c, s, p)
  PROVE  ClientStep
<1>1. PICK x : client' = [client EXCEPT ![c] = [client[c] EXCEPT !.from = x]]
  BY Zenon DEF Begin, ClientInv
<1> DEFINE r == [client[c] EXCEPT !.from = x]
<1>2. DOMAIN r = DOMAIN client[c] /\ r.cursor = client[c].cursor /\ r.seen = client[c].seen
  BY DEF ClientInv, Keeps
<1>3. Numbered(client[c].cursor) /\ client' = [client EXCEPT ![c] = r]
  BY <1>1, Zenon DEF ClientInv, Keeps
<1> HIDE DEF r
<1> QED BY <1>2, <1>3, KeepsOn, Zenon

LEMMA Processes ==
  ASSUME ClientInv, NEW c \in Subscribers, NEW i \in Fit(c), i \in Int, client' = Process(c, i)
  PROVE  ClientStep
<1> DEFINE w == IF capabilities(env.provider).replay THEN to_compatible_wire(Cursor(env.provider, i)) ELSE None
           r == [client[c] EXCEPT !.cursor = w, !.seen = @ \cup {i}, !.high = Larger(@, i)]
<1>1. client' = [client EXCEPT ![c] = r]
  BY Zenon DEF Process, ClientInv
<1>2. Numbered(w)
  BY DEF Numbered, to_compatible_wire, Cursor
<1> HIDE DEF w
<1>3. DOMAIN r = DOMAIN client[c] /\ r.cursor = w /\ r.seen = client[c].seen \cup {i}
  BY DEF ClientInv, Keeps
<1> HIDE DEF r
<1>4. Keeps(r, c)
  BY <1>2, <1>3, Zenon DEF ClientInv, Keeps
<1> QED BY <1>1, <1>4, ClientOne, Zenon

LEMMA Drops ==
  ASSUME EventsInv, NEW ks, DropSessions(ks)
  PROVE  ServerStep
<1>1. CASE env.provider = "js"
  BY <1>1 DEF ServerStep
<1>2. CASE env.provider # "js"
  BY <1>2, LeftAlone, Zenon DEF DropSessions
<1> QED BY <1>1, <1>2, Zenon

LEMMA Blank ==
  ASSUME NEW n \in Nat
  PROVE  /\ Carries(NoPump, n) /\ \A c : Sends(NoPump, c) /\ Mailbox(NoConn, c)
         /\ \A k : Holds(NoneOf(k), n)
<1>1. Carries(NoPump, n) /\ \A c : Sends(NoPump, c)
  BY DEF Carries, PumpFields, NoPump, Sends
<1>2. ASSUME NEW c PROVE Mailbox(NoConn, c)
  BY DEF Mailbox, NoConn
<1>3. ASSUME NEW k PROVE Holds(NoneOf(k), n)
  BY OpeningHolds, Zenon DEF NoneOf, Numbered
<1> QED BY <1>1, <1>2, <1>3, Zenon

-----------------------------------------------------------------------------
(* The WebSocket gateway. *)

LEMMA WsDone ==
  ASSUME EventsInv, env.gateway = "ws", UNCHANGED <<env, stream>>, SessStep, PumpStep, ClientStep, ServerStep, WsStep
  PROVE  EventsInv'
<1>1. env.gateway # "graphql"
  OBVIOUS
<1> QED BY <1>1, LeftAlone, Combine, Zenon

(* The connection of c and its pump after a step. *)
LEMMA WsOne ==
  ASSUME EventsInv, env.gateway = "ws", NEW c \in Subscribers, NEW r, NEW p,
         conn' = [conn EXCEPT ![c] = r], Mailbox(r, c),
         pump' = [pump EXCEPT ![c] = p], Carries(p, Latest), Sends(p, c)
  PROVE  PumpStep /\ WsStep
<1>1. PumpInv /\ WsConnInv /\ c \in Keys
  BY Zenon DEF EventsInv, Keys
<1>2. PumpStep
  BY <1>1, PumpOne, Zenon
<1>3. DOMAIN conn' = Subscribers /\ conn'[c] = r /\ \A d \in Subscribers : d # c => conn'[d] = conn[d]
  BY <1>1, Zenon DEF WsConnInv
<1>4. pump'[c] = p /\ \A d \in Subscribers : d # c => pump'[d] = pump[d]
  BY <1>1, Zenon DEF PumpInv, Keys
<1>5. WsStep
  BY <1>1, <1>3, <1>4, Zenon DEF WsConnInv, WsStep
<1> QED BY <1>2, <1>5, Zenon

LEMMA WsConnOne ==
  ASSUME EventsInv, env.gateway = "ws", NEW c \in Subscribers, NEW r,
         conn' = [conn EXCEPT ![c] = r], Mailbox(r, c), UNCHANGED pump
  PROVE  PumpStep /\ WsStep
<1>1. DOMAIN conn' = Subscribers /\ conn'[c] = r /\ \A d \in Subscribers : d # c => conn'[d] = conn[d]
  BY Zenon DEF EventsInv, WsConnInv
<1> QED BY <1>1, PumpSame, Zenon DEF EventsInv, WsConnInv, WsStep

LEMMA WsPumpOne ==
  ASSUME EventsInv, env.gateway = "ws", NEW c \in Subscribers, NEW p,
         pump' = [pump EXCEPT ![c] = p], Carries(p, Latest), Sends(p, c), UNCHANGED conn
  PROVE  PumpStep /\ WsStep
<1>1. PumpInv /\ WsConnInv /\ c \in Keys
  BY Zenon DEF EventsInv, Keys
<1>2. pump'[c] = p /\ \A d \in Subscribers : d # c => pump'[d] = pump[d]
  BY <1>1, Zenon DEF PumpInv, Keys
<1> QED BY <1>1, <1>2, PumpOne, Zenon DEF WsConnInv, WsStep

LEMMA Leaves ==
  ASSUME EventsInv, env.gateway = "ws", NEW c \in Subscribers, Leave(c)
  PROVE  SessStep /\ PumpStep /\ ServerStep /\ WsStep
<1>1. Latest \in Nat /\ SessInv
  BY LatestNat, Zenon DEF EventsInv
<1>2. SessStep
  BY <1>1, Blank, SessOne, Zenon DEF Leave
<1>3. PumpStep /\ WsStep
  BY <1>1, Blank, WsOne, Zenon DEF Leave
<1> QED BY <1>2, <1>3, Drops, Zenon DEF Leave

LEMMA Closes ==
  ASSUME EventsInv, env.gateway = "ws", NEW c \in Subscribers, Close(c), UNCHANGED <<env, stream>>
  PROVE  EventsInv'
<1>1. ClientStep
  BY StartsOver, ClientSame, Zenon DEF Close, Lost, EventsInv
<1> QED BY <1>1, Leaves, WsDone, Zenon DEF Close

LEMMA AnswerEvents ==
  ASSUME EventsInv, env.gateway = "ws", NEW c \in Subscribers, NEW h, Numbered(h.legacy), Numbered(h.cursor),
         Answer(c, h), UNCHANGED <<env, stream>>
  PROVE  EventsInv'
<1> DEFINE a == authorize_hello(h)
<1>0. Latest \in Nat /\ SessInv /\ ClientInv /\ WsConnInv
  BY LatestNat, Zenon DEF EventsInv
<1>1. CASE Close(c)
  BY <1>1, Closes, Zenon
<1>2. CASE Leave(c) /\ client' = StartOver(c)
  BY <1>0, <1>2, Leaves, StartsOver, WsDone, Zenon
<1>3. CASE /\ a.ok
           /\ \E pc : conn' = [conn EXCEPT ![c] = [conn[c] EXCEPT !.pc = pc, !.registered = TRUE]]
           /\ sess' \in {sess, [sess EXCEPT ![c] = Opening(Fresh(c), a.cursor, None)]}
           /\ UNCHANGED <<broker, pump, client, active>>
  <2>1. Numbered(a.cursor)
    BY <1>3, Zenon DEF authorize_hello
  <2>2. SessStep
    BY <1>0, <1>3, <2>1, OpeningHolds, SessOne, SessSame, Zenon
  <2>3. PICK pc : conn' = [conn EXCEPT ![c] = [conn[c] EXCEPT !.pc = pc, !.registered = TRUE]]
    BY <1>3, Zenon
  <2> DEFINE r == [conn[c] EXCEPT !.pc = pc, !.registered = TRUE]
  <2>4. Mailbox(r, c)
    BY <1>0 DEF WsConnInv, Mailbox
  <2>5. conn' = [conn EXCEPT ![c] = r] /\ UNCHANGED <<broker, pump, client>>
    BY <1>3, <2>3, Zenon
  <2> HIDE DEF r
  <2> QED BY <2>2, <2>4, <2>5, WsConnOne, LeftAlone, WsDone, Zenon
<1> QED BY <1>1, <1>2, <1>3, Zenon DEF Answer

LEMMA Hellos ==
  ASSUME EventsInv, NEW c \in Subscribers, NEW h \in {HelloOf(c)} \cup OddHellos(c)
  PROVE  Numbered(h.legacy) /\ Numbered(h.cursor)
<1>1. Numbered(client[c].cursor)
  BY Zenon DEF EventsInv, ClientInv, Keeps
<1>2. Numbered(HelloOf(c).legacy) /\ Numbered(HelloOf(c).cursor)
  BY <1>1 DEF HelloOf, Numbered, from_wire_compatible, Cursor
<1>3. DOMAIN HelloOf(c) = {"hello", "token", "tenant", "legacy", "cursor"}
  BY DEF HelloOf
<1>4. Numbered(Cursor("js", 0)) /\ Numbered(Cursor("js", 1))
  BY DEF Numbered, Cursor
<1> DEFINE g == HelloOf(c)
<1> HIDE DEF g
<1>5. h \in {g, [g EXCEPT !.hello = FALSE], [g EXCEPT !.token = FALSE], [g EXCEPT !.tenant = None],
             [g EXCEPT !.legacy = Cursor("js", 0), !.cursor = Cursor("js", 1)]}
  BY Zenon DEF OddHellos, g
<1>6. \/ h.legacy = g.legacy /\ h.cursor = g.cursor
      \/ h.legacy = Cursor("js", 0) /\ h.cursor = Cursor("js", 1)
  BY <1>3, <1>5, Zenon DEF g
<1> QED BY <1>2, <1>4, <1>6, Zenon DEF g

LEMMA WsConnects ==
  ASSUME EventsInv, env.gateway = "ws", NEW c \in Subscribers, Connection(c)
  PROVE  EventsInv'
<1>0. SessInv /\ ClientInv /\ WsConnInv /\ Mailbox(conn[c], c) /\ Latest \in Nat
  BY LatestNat, Zenon DEF EventsInv, WsConnInv
<1>1. CASE try_admit(c)
  <2>1. PICK pc : conn' = [conn EXCEPT ![c] = [conn[c] EXCEPT !.pc = pc]]
    BY <1>0, <1>1, Zenon DEF try_admit, WsConnInv
  <2>2. UNCHANGED <<env, stream, broker, sess, pump, client>>
    BY <1>1, Zenon DEF try_admit
  <2> DEFINE r == [conn[c] EXCEPT !.pc = pc]
  <2>3. Mailbox(r, c) /\ conn' = [conn EXCEPT ![c] = r]
    BY <1>0, <2>1 DEF Mailbox
  <2> HIDE DEF r
  <2> QED BY <2>2, <2>3, WsConnOne, LeftAlone, WsDone, Zenon
<1>2. CASE roll_back(c)
  <2>1. conn' = [conn EXCEPT ![c] = NoConn] /\ UNCHANGED <<env, stream, broker, sess, pump, client>>
    BY <1>2, Zenon DEF roll_back
  <2> QED BY <1>0, <2>1, Blank, WsConnOne, LeftAlone, WsDone, Zenon
<1>3. CASE hello(c) \/ odd_hello(c)
  <2>1. PICK h \in {HelloOf(c)} \cup OddHellos(c) : Answer(c, h)
    BY <1>3, Zenon DEF hello, odd_hello
  <2>2. UNCHANGED <<env, stream>>
    BY <1>3, Zenon DEF hello, odd_hello
  <2> QED BY <2>1, <2>2, Hellos, AnswerEvents, Zenon
<1>4. CASE session_opened(c)
  <2> DEFINE r == [conn[c] EXCEPT !.pc = "ready"]
             p == [NoPump EXCEPT !.pc = "subs"]
  <2>1. Mailbox(r, c)
    BY <1>0 DEF Mailbox
  <2>2. Carries(p, Latest) /\ Sends(p, c)
    BY <1>0 DEF Carries, PumpFields, NoPump, Sends
  <2>3. conn' = [conn EXCEPT ![c] = r] /\ pump' = [pump EXCEPT ![c] = p]
    BY <1>4 DEF session_opened
  <2>4. UNCHANGED <<env, stream, broker, sess, client>>
    BY <1>4, Zenon DEF session_opened
  <2> HIDE DEF r, p
  <2> QED BY <2>1, <2>2, <2>3, <2>4, WsOne, LeftAlone, WsDone, Zenon
<1>5. CASE session_refused(c)
  <2>1. Leave(c) /\ client' \in {client, StartOver(c)} /\ UNCHANGED <<env, stream>>
    BY <1>5, Zenon DEF session_refused, Lost
  <2> QED BY <1>0, <2>1, Leaves, StartsOver, ClientSame, WsDone, Zenon
<1>6. ASSUME NEW s \in DOMAIN env.wants[c], subscribe(c, s) PROVE EventsInv'
  <2> DEFINE r == [conn[c] EXCEPT !.subs = @ \cup {s}]
  <2>1. conn' = [conn EXCEPT ![c] = r]
    BY <1>6 DEF subscribe, add_subscription
  <2>2. Mailbox(r, c)
    BY <1>0 DEF Mailbox
  <2>3. ClientStep
    BY <1>0, <1>6, Begins, Zenon DEF subscribe
  <2>4. UNCHANGED <<env, stream, broker, sess, pump>>
    BY <1>6, Zenon DEF subscribe
  <2> HIDE DEF r
  <2> QED BY <2>1, <2>2, <2>3, <2>4, WsConnOne, LeftAlone, WsDone, Zenon
<1>7. ASSUME NEW s \in DOMAIN env.wants[c], unsubscribe(c, s) PROVE EventsInv'
  <2> DEFINE r == [conn[c] EXCEPT !.subs = @ \ {s}]
             x == [client[c] EXCEPT !.from = [@ EXCEPT ![s] = None]]
  <2>1. conn' = [conn EXCEPT ![c] = r] /\ client' = [client EXCEPT ![c] = x]
    BY <1>7 DEF unsubscribe
  <2>2. Mailbox(r, c)
    BY <1>0 DEF Mailbox
  <2>3. DOMAIN x = DOMAIN client[c] /\ x.cursor = client[c].cursor /\ x.seen = client[c].seen /\ Numbered(client[c].cursor)
    BY <1>0 DEF ClientInv, Keeps
  <2>4. UNCHANGED <<env, stream, broker, sess, pump>>
    BY <1>7, Zenon DEF unsubscribe
  <2> HIDE DEF r, x
  <2>5. ClientStep
    BY <1>0, <2>1, <2>3, KeepsOn, Zenon
  <2> QED BY <2>1, <2>2, <2>4, <2>5, WsConnOne, LeftAlone, WsDone, Zenon
<1>8. CASE pump_ended(c) \/ outbound_closed(c) \/ connection_lost(c)
  <2>1. Close(c) /\ UNCHANGED <<env, stream>>
    BY <1>8, Zenon DEF pump_ended, outbound_closed, connection_lost
  <2> QED BY <2>1, Closes, Zenon
<1>9. CASE write(c)
  <2> DEFINE r == [conn[c] EXCEPT !.mailbox = Tail(@)]
             i == Head(conn[c].mailbox)
  <2>1. conn' = [conn EXCEPT ![c] = r]
    BY <1>9 DEF write
  <2>2. i \in Fit(c) /\ Tail(conn[c].mailbox) \in Seq(Fit(c))
    BY <1>0, <1>9, Queues, Zenon DEF write, Mailbox
  <2>3. Mailbox(r, c)
    BY <1>0, <2>2 DEF Mailbox
  <2>4. i \in Int
    <3>1. i \in 1..Latest
      BY <2>2, Zenon DEF Fit
    <3> QED BY <3>1
  <2>5. client' = Process(c, i) /\ UNCHANGED <<env, stream, broker, sess, pump>>
    BY <1>9, Zenon DEF write
  <2> HIDE DEF r, i
  <2> QED BY <1>0, <2>1, <2>2, <2>3, <2>4, <2>5, Processes, WsConnOne, LeftAlone, WsDone, Zenon
<1> QED BY <1>1, <1>2, <1>3, <1>4, <1>5, <1>6, <1>7, <1>8, <1>9, Zenon DEF Connection

LEMMA AcceptStep ==
  ASSUME EventsInv, NEW k \in Keys, Accept(k)
  PROVE  SessStep
<1>1. SessInv /\ Holds(sess[k], Latest) /\ Latest \in Nat /\ pump[k].item \in 0..Latest
  BY LatestNat, Zenon DEF EventsInv, SessInv, PumpInv, Carries
<1>2. pump[k].item \in Int
  BY <1>1
<1>3. PICK t \in accepted(sess[k], pump[k].item) : sess' = [sess EXCEPT ![k] = t]
  BY Zenon DEF Accept
<1> QED BY <1>1, <1>2, <1>3, AcceptHolds, SessOne, Zenon

(* The mailbox of c takes only what a subscription of c matches. *)
LEMMA MatchedFits ==
  ASSUME EventsInv, env.gateway = "ws", NEW c \in Subscribers, NEW i \in 1..Latest, Matched(c, i) # {}
  PROVE  i \in Fit(c)
<1>1. PICK s \in conn[c].subs : matches_str(Pattern(c, s), Entry(i).subject)
  BY Zenon DEF Matched
<1>2. s \in DOMAIN env.wants[c]
  BY Zenon DEF EventsInv, WsConnInv, Mailbox
<1> QED BY <1>1, <1>2, Matching, Zenon DEF EventsInv

LEMMA WsPumps ==
  ASSUME EventsInv, env.gateway = "ws", NEW c \in Subscribers, Pump(c)
  PROVE  EventsInv'
<1>0. /\ c \in Keys /\ Latest \in Nat /\ Mailbox(conn[c], c)
      /\ Carries(pump[c], Latest) /\ Sends(pump[c], c)
  BY LatestNat, Zenon DEF EventsInv, PumpInv, WsConnInv, Keys
<1>1. ASSUME NEW pc, pc # "got", pc = "send" => pump[c].item \in Fit(c) /\ pump[c].item # 0
      PROVE  LET p == [pump[c] EXCEPT !.pc = pc] IN Carries(p, Latest) /\ Sends(p, c)
  BY <1>0, <1>1 DEF Carries, PumpFields, Sends
<1>2. CASE pump_start(c) \/ pump_slow(c)
  <2>1. PICK pc \in {"next", "failed"} : pump' = [pump EXCEPT ![c] = [pump[c] EXCEPT !.pc = pc]]
    BY <1>2 DEF pump_start, pump_slow
  <2>2. UNCHANGED <<env, stream, broker, sess, conn, client>>
    BY <1>2, Zenon DEF pump_start, pump_slow
  <2>3. pc # "got" /\ pc # "send"
    BY <2>1
  <2> DEFINE p == [pump[c] EXCEPT !.pc = pc]
  <2>4. Carries(p, Latest) /\ Sends(p, c) /\ pump' = [pump EXCEPT ![c] = p]
    BY <1>1, <2>1, <2>3, Zenon
  <2> HIDE DEF p
  <2> QED BY <2>2, <2>4, WsPumpOne, LeftAlone, WsDone, Zenon
<1>3. CASE pump_handle(c)
  <2>1. UNCHANGED <<env, stream, broker, conn, client>> /\ pump[c].item \in 1..Latest /\ pump[c].item # 0
    <3>1. UNCHANGED <<env, stream, broker, conn, client>> /\ pump[c].pc = "got"
      BY <1>3, Zenon DEF pump_handle
    <3>2. pump[c].item \in 0..Latest /\ pump[c].item # 0
      BY <1>0, <3>1, Zenon DEF Carries, Sends
    <3> QED BY <1>0, <3>1, <3>2
  <2>2. CASE Accept(c) /\ pump' = [pump EXCEPT ![c].pc = "next"]
    <3> DEFINE p == [pump[c] EXCEPT !.pc = "next"]
    <3>1. Carries(p, Latest) /\ Sends(p, c)
      BY <1>1
    <3>2. pump' = [pump EXCEPT ![c] = p]
      BY <2>2
    <3> HIDE DEF p
    <3> QED BY <1>0, <2>1, <2>2, <3>1, <3>2, AcceptStep, WsPumpOne, LeftAlone, WsDone, Zenon
  <2>3. CASE Matched(c, pump[c].item) # {} /\ pump' = [pump EXCEPT ![c].pc = "send"] /\ UNCHANGED sess
    <3> DEFINE p == [pump[c] EXCEPT !.pc = "send"]
    <3>1. pump[c].item \in Fit(c)
      BY <2>1, <2>3, MatchedFits, Zenon
    <3>2. Carries(p, Latest) /\ Sends(p, c)
      BY <1>1, <2>1, <3>1
    <3>3. pump' = [pump EXCEPT ![c] = p]
      BY <2>3
    <3> HIDE DEF p
    <3> QED BY <2>1, <2>3, <3>2, <3>3, WsPumpOne, LeftAlone, WsDone, Zenon
  <2> QED BY <1>3, <2>2, <2>3, Zenon DEF pump_handle
<1>4. CASE pump_send(c)
  <2> DEFINE p == [pump[c] EXCEPT !.pc = "next"]
             r == [conn[c] EXCEPT !.mailbox = Append(@, pump[c].item)]
  <2>1. Carries(p, Latest) /\ Sends(p, c)
    BY <1>1
  <2>2. pump' = [pump EXCEPT ![c] = p] /\ conn' = [conn EXCEPT ![c] = r]
    BY <1>4 DEF pump_send
  <2>3. Append(conn[c].mailbox, pump[c].item) \in Seq(Fit(c))
    BY <1>0, <1>4, Queues, Zenon DEF pump_send, Sends, Mailbox
  <2>4. Mailbox(r, c)
    BY <1>0, <2>3 DEF Mailbox
  <2>5. Accept(c) /\ UNCHANGED <<env, stream, broker, client>>
    BY <1>4, Zenon DEF pump_send
  <2> HIDE DEF p, r
  <2> QED BY <1>0, <2>1, <2>2, <2>4, <2>5, AcceptStep, WsOne, LeftAlone, WsDone, Zenon
<1> QED BY <1>2, <1>3, <1>4, Zenon DEF Pump

LEMMA BusEvents ==
  ASSUME EventsInv, env.gateway = "ws", run_bus
  PROVE  EventsInv'
<1> DEFINE i == broker.next
<1>0. WsConnInv /\ CoreInv /\ Latest \in Nat /\ env.provider # "rs"
  BY LatestNat DEF EventsInv, BrokerInv, run_bus
<1>1. i \in 1..Latest /\ UNCHANGED <<env, stream, sess, pump, client>>
  BY <1>0 DEF run_bus, CoreInv
<1>2. ServerStep
  BY <1>0 DEF run_bus, CoreInv, ServerStep, CoreStep
<1> HIDE DEF i
<1>3. ASSUME conn' = dispatch(i) PROVE WsStep
  <2>1. DOMAIN conn' = Subscribers
    BY <1>3, Zenon DEF dispatch
  <2>2. ASSUME NEW c \in Subscribers PROVE Mailbox(conn'[c], c)
    <3>1. Mailbox(conn[c], c)
      BY <1>0, Zenon DEF WsConnInv
    <3>2. \/ conn'[c] = conn[c]
          \/ c \in Targets(i) /\ conn'[c] = [conn[c] EXCEPT !.mailbox = Append(@, i)]
          \/ conn'[c] = [conn[c] EXCEPT !.registered = FALSE]
      BY <1>3, Zenon DEF dispatch
    <3>3. CASE c \in Targets(i) /\ conn'[c] = [conn[c] EXCEPT !.mailbox = Append(@, i)]
      <4>1. i \in Fit(c)
        BY <1>1, <3>3, MatchedFits, Zenon DEF Targets
      <4>2. Append(conn[c].mailbox, i) \in Seq(Fit(c))
        BY <3>1, <4>1, Queues, Zenon DEF Mailbox
      <4> QED BY <3>1, <3>3, <4>2 DEF Mailbox
    <3>4. CASE conn'[c] = [conn[c] EXCEPT !.registered = FALSE]
      BY <3>1, <3>4 DEF Mailbox
    <3> QED BY <3>1, <3>2, <3>3, <3>4, Zenon
  <2> QED BY <1>0, <1>1, <2>1, <2>2, Zenon DEF WsStep, WsConnInv
<1>4. conn' \in {conn, dispatch(i)}
  BY Zenon DEF run_bus, i
<1> QED BY <1>1, <1>2, <1>3, <1>4, LeftAlone, WsDone, Zenon

LEMMA StartOverKeeps ==
  ASSUME ClientInv, NEW c \in Subscribers
  PROVE  Keeps(StartOver(c)[c], c)
<1> DEFINE r == [client[c] EXCEPT !.cursor = None, !.from = [s \in DOMAIN @ |-> None]]
<1>1. StartOver(c)[c] = r
  BY DEF StartOver, ClientInv
<1>2. DOMAIN r = DOMAIN client[c] /\ r.cursor = None /\ r.seen = client[c].seen
  BY DEF ClientInv, Keeps
<1> HIDE DEF r
<1> QED BY <1>1, <1>2, Zenon DEF ClientInv, Keeps, Numbered

LEMMA RestartEvents ==
  ASSUME EventsInv, env.gateway = "ws", restart
  PROVE  EventsInv'
<1>0. Latest \in Nat /\ SessInv /\ ClientInv /\ UNCHANGED <<env, stream>>
  BY LatestNat, Zenon DEF EventsInv, restart
<1>1. SessStep /\ PumpStep
  BY <1>0, Blank, Zenon DEF restart, SessStep, PumpStep
<1>2. WsStep
  <2>1. \A c \in Subscribers : pump'[c] = NoPump /\ conn'[c] = NoConn
    BY Zenon DEF restart, Keys
  <2> QED BY <1>0, <2>1, Blank, Zenon DEF restart, WsStep
<1>3. ClientStep
  <2>1. \A c \in Subscribers : client'[c] \in {client[c], StartOver(c)[c]}
    BY Zenon DEF restart, Lost
  <2> QED BY <1>0, <2>1, StartOverKeeps, Zenon DEF restart, ClientStep, ClientInv
<1>4. ServerStep
  <2>1. CASE env.provider = "rs"
    <3>1. broker' = NoHub
      BY <2>1 DEF restart
    <3> QED BY <1>0, <2>1, <3>1 DEF ServerStep, HubStep, HubFields, NoHub
  <2>2. CASE env.provider = "core"
    <3>1. broker' = [next |-> Latest + 1]
      BY <2>2 DEF restart
    <3> QED BY <1>0, <2>2, <3>1 DEF ServerStep, CoreStep
  <2> QED BY <2>1, <2>2, Zenon DEF ServerStep
<1> QED BY <1>0, <1>1, <1>2, <1>3, <1>4, WsDone, Zenon

LEMMA WsEvents ==
  ASSUME EventsInv, env.gateway = "ws", WsNext
  PROVE  EventsInv'
  BY ProviderEvents, PublishEvents, BusEvents, RestartEvents, WsConnects, WsPumps, Zenon DEF WsNext

-----------------------------------------------------------------------------
(* The GraphQL gateway. *)

LEMMA GqlDone ==
  ASSUME EventsInv, env.gateway = "graphql", UNCHANGED <<env, stream>>, SessStep, PumpStep, ClientStep, ServerStep,
         OperationStep
  PROVE  EventsInv'
<1>1. env.gateway # "ws"
  OBVIOUS
<1> QED BY <1>1, LeftAlone, Combine, Zenon

LEMMA OperationOne ==
  ASSUME EventsInv, env.gateway = "graphql", NEW c \in Subscribers, NEW r,
         conn' = [conn EXCEPT ![c] = r], Queue(r, Latest), UNCHANGED active
  PROVE  OperationStep
<1>1. DOMAIN conn' = Subscribers /\ conn'[c] = r /\ \A d \in Subscribers : d # c => conn'[d] = conn[d]
  BY Zenon DEF EventsInv, OperationInv
<1> QED BY <1>1, Zenon DEF EventsInv, OperationInv, OperationStep

LEMMA Idles ==
  ASSUME NEW n, NEW pc, NEW key
  PROVE  Queue(NoOperation, n) /\ Queue([NoOperation EXCEPT !.pc = pc], n) /\ Queue([NoOperation EXCEPT !.pc = pc, !.key = key], n)
  BY DEF Queue, NoOperation

LEMMA SourcesDrop ==
  ASSUME EventsInv, NEW ks, DropSources(ks)
  PROVE  SessStep /\ PumpStep /\ ServerStep
<1>0. Latest \in Nat /\ SessInv /\ PumpInv
  BY LatestNat, Zenon DEF EventsInv
<1>1. SessStep
  BY <1>0, Blank, Zenon DEF DropSources, SessStep, SessInv
<1>2. PumpStep
  BY <1>0, Blank, Zenon DEF DropSources, PumpStep, PumpInv
<1> QED BY <1>1, <1>2, Drops, Zenon DEF DropSources

LEMMA Wakes ==
  ASSUME NEW n, NEW p, Carries(p, n)
  PROVE  Carries(Woken(p), n)
  BY DEF Carries, PumpFields, Woken

LEMMA Releases ==
  ASSUME EventsInv, NEW c \in Subscribers, Release(c)
  PROVE  SessStep /\ PumpStep /\ ServerStep
<1>1. CASE DropSources({c})
  BY <1>1, SourcesDrop, Zenon
<1>2. CASE pump' = [pump EXCEPT !["shared"] = IF conn[c].pc = "streaming" THEN Woken(@) ELSE @] /\ UNCHANGED <<sess, broker>>
  <2> DEFINE p == IF conn[c].pc = "streaming" THEN Woken(pump["shared"]) ELSE pump["shared"]
  <2>1. PumpInv /\ Carries(pump["shared"], Latest)
    BY Zenon DEF EventsInv, PumpInv, Keys
  <2>2. Carries(p, Latest) /\ pump' = [pump EXCEPT !["shared"] = p]
    BY <1>2, <2>1, Wakes, Zenon
  <2> HIDE DEF p
  <2> QED BY <1>2, <2>1, <2>2, PumpOne, LeftAlone, Zenon
<1> QED BY <1>1, <1>2, Zenon DEF Release

LEMMA SocketEvents ==
  ASSUME EventsInv, env.gateway = "graphql", connect \/ connect_odd \/ disconnect \/ reconnect
  PROVE  EventsInv'
<1>0. OperationInv /\ ClientInv /\ Latest \in Nat
  BY LatestNat, Zenon DEF EventsInv
<1>1. ASSUME NEW p \in {InitPayload} \cup OddPayloads PROVE Numbered(p.legacy) /\ Numbered(p.cursor)
  <2>1. Numbered(ConnectionCursor)
    <3>1. CASE Subscribers = {}
      BY <3>1, FS_EmptySet DEF ConnectionCursor, Numbered
    <3>2. CASE Subscribers # {}
      <4>1. Lone \in Subscribers
        BY <3>2, Zenon DEF Lone
      <4>2. Numbered(client[Lone].cursor)
        BY <1>0, <4>1, Zenon DEF ClientInv, Keeps
      <4> QED BY <4>2 DEF ConnectionCursor, Numbered, from_wire_compatible, Cursor
    <3> QED BY <3>1, <3>2, Zenon
  <2> DEFINE g == InitPayload
  <2>2. DOMAIN g = {"token", "tenant", "legacy", "cursor"} /\ g.legacy = None /\ g.cursor = ConnectionCursor
    BY DEF InitPayload
  <2>3. Numbered(Cursor("js", 0)) /\ Numbered(Cursor("js", 1))
    BY DEF Numbered, Cursor
  <2> HIDE DEF g
  <2>4. p \in {g, [g EXCEPT !.token = FALSE], [g EXCEPT !.tenant = None],
               [g EXCEPT !.legacy = Cursor("js", 0), !.cursor = Cursor("js", 1)]}
    BY <1>1, Zenon DEF OddPayloads, g
  <2>5. \/ p.legacy = None /\ p.cursor = ConnectionCursor
        \/ p.legacy = Cursor("js", 0) /\ p.cursor = Cursor("js", 1)
    BY <2>2, <2>4, Zenon
  <2> QED BY <2>1, <2>3, <2>5, Zenon DEF Numbered
<1>2. ASSUME NEW p \in {InitPayload} \cup OddPayloads, graphql_ws_handler(p) PROVE EventsInv'
  <2>1. UNCHANGED <<env, stream, broker, sess, pump, conn, client>>
    BY <1>2, Zenon DEF graphql_ws_handler
  <2>2. extract(p).ok => Numbered(extract(p).cursor)
    BY <1>1, <1>2, Zenon DEF extract
  <2>3. DOMAIN active' = {"open", "cursor"} /\ Numbered(active'.cursor)
    BY <1>2, <2>2 DEF graphql_ws_handler, Closed, Numbered
  <2>4. OperationStep
    BY <1>0, <2>1, <2>3, Zenon DEF OperationInv, OperationStep
  <2> QED BY <2>1, <2>4, LeftAlone, GqlDone, Zenon
<1>3. ASSUME Disconnect, UNCHANGED <<env, stream>> PROVE EventsInv'
  <2>1. ClientStep
    BY <1>0, <1>3, StartOverKeeps, Zenon DEF Disconnect, ClientStep, ClientInv
  <2>2. OperationStep
    <3>1. DOMAIN active' = {"open", "cursor"} /\ Numbered(active'.cursor)
      BY <1>3 DEF Disconnect, Closed, Numbered
    <3> QED BY <1>3, <3>1, Idles, Zenon DEF Disconnect, OperationStep
  <2> QED BY <1>3, <2>1, <2>2, SourcesDrop, GqlDone, Zenon DEF Disconnect
<1> QED BY <1>2, <1>3, Zenon DEF connect, connect_odd, disconnect, reconnect

LEMMA Requeues ==
  ASSUME NEW n, NEW r, Queue(r, n), NEW pc
  PROVE  Queue([r EXCEPT !.pc = pc], n)
  BY DEF Queue

LEMMA OperationEvents ==
  ASSUME EventsInv, env.gateway = "graphql", NEW c \in Subscribers, Operation(c)
  PROVE  EventsInv'
<1>0. /\ SessInv /\ PumpInv /\ ClientInv /\ OperationInv /\ Latest \in Nat
      /\ Queue(conn[c], Latest) /\ Numbered(active.cursor) /\ Numbered(client[c].cursor)
  BY LatestNat, Zenon DEF EventsInv, OperationInv, ClientInv, Keeps
<1>1. CASE events(c)
  <2>1. PICK key : conn' = [conn EXCEPT ![c] = [NoOperation EXCEPT !.pc = "opening", !.key = key]]
    BY <1>1, Zenon DEF events
  <2>2. UNCHANGED <<env, stream, broker, sess, pump, client, active>>
    BY <1>1, Zenon DEF events
  <2> QED BY <2>1, <2>2, Idles, OperationOne, LeftAlone, GqlDone, Zenon
<1>2. CASE create(c)
  <2>1. Numbered(None) /\ Numbered(resolve_resume_cursor(OperationCursor(c), active.cursor))
    BY <1>0 DEF Numbered, resolve_resume_cursor, OperationCursor, from_wire_compatible, Cursor
  <2>2. PICK k, id, cursor, filter : Numbered(cursor) /\ sess' = [sess EXCEPT ![k] = Opening(id, cursor, filter)]
    BY <1>2, <2>1, Zenon DEF create
  <2>3. UNCHANGED <<env, stream, broker, pump, conn, client, active>>
    BY <1>2, Zenon DEF create
  <2>4. SessStep
    BY <1>0, <2>2, OpeningHolds, SessOne, Zenon
  <2> QED BY <2>3, <2>4, LeftAlone, GqlDone, Zenon
<1>3. CASE created(c)
  <2> DEFINE k == conn[c].key
             p == IF pump[k].pc = "none" THEN [NoPump EXCEPT !.pc = "wait"] ELSE pump[k]
  <2>1. pump' = [pump EXCEPT ![k] = p] /\ UNCHANGED <<env, stream, broker, sess, client, active>>
    BY <1>3, Zenon DEF created
  <2>2. Carries([NoPump EXCEPT !.pc = "wait"], Latest)
    BY <1>0 DEF Carries, PumpFields, NoPump
  <2>3. k \in Keys => Carries(p, Latest)
    BY <1>0, <2>2, Zenon DEF PumpInv
  <2>4. conn' = [conn EXCEPT ![c] = [conn[c] EXCEPT !.pc = "attach"]]
    BY <1>3 DEF created
  <2> HIDE DEF k, p
  <2> QED BY <1>0, <2>1, <2>3, <2>4, Requeues, PumpOne, OperationOne, LeftAlone, GqlDone, Zenon
<1>4. CASE broker_setup_error(c)
  <2>1. SessStep
    BY <1>0, <1>4, Blank, SessOne, Zenon DEF broker_setup_error
  <2>2. ClientStep
    BY <1>0, <1>4, StartsOver, ClientSame, Zenon DEF broker_setup_error
  <2> QED BY <1>4, <2>1, <2>2, Idles, OperationOne, LeftAlone, GqlDone, Zenon DEF broker_setup_error, End
<1>5. CASE attach(c)
  <2>1. conn' = [conn EXCEPT ![c] = [conn[c] EXCEPT !.pc = "notify"]]
    BY <1>5 DEF attach
  <2>2. ClientStep /\ UNCHANGED <<env, stream, broker, sess, pump, active>>
    BY <1>0, <1>5, Begins, Zenon DEF attach
  <2> QED BY <1>0, <2>1, <2>2, Requeues, OperationOne, LeftAlone, GqlDone, Zenon
<1>6. CASE notify(c)
  <2>1. conn' = [conn EXCEPT ![c] = [conn[c] EXCEPT !.pc = "check"]]
    BY <1>6 DEF notify
  <2>2. PumpStep /\ UNCHANGED <<env, stream, broker, sess, client, active>>
    BY <1>0, <1>6, Wakes, PumpOne, Zenon DEF notify, PumpInv
  <2> QED BY <1>0, <2>1, <2>2, Requeues, OperationOne, LeftAlone, GqlDone, Zenon
<1>7. CASE check_terminal(c) \/ receive_error(c) \/ complete(c)
  <2>1. UNCHANGED <<env, stream, active>>
    BY <1>7, Zenon DEF check_terminal, receive_error, complete
  <2>2. ClientStep
    BY <1>0, <1>7, StartsOver, ClientSame, Zenon DEF check_terminal, receive_error, complete
  <2>3. CASE Release(c) /\ \E pc : conn' = End(c, pc)
    BY <2>1, <2>2, <2>3, Releases, Idles, OperationOne, GqlDone, Zenon DEF End
  <2>4. CASE conn' = [conn EXCEPT ![c].pc = "streaming"] /\ UNCHANGED <<sess, pump, broker>>
    <3>1. conn' = [conn EXCEPT ![c] = [conn[c] EXCEPT !.pc = "streaming"]]
      BY <2>4
    <3> QED BY <1>0, <2>1, <2>2, <2>4, <3>1, Requeues, OperationOne, LeftAlone, GqlDone, Zenon
  <2> QED BY <1>7, <2>3, <2>4, Zenon DEF check_terminal, receive_error, complete
<1>8. CASE receive(c)
  <2> DEFINE r == [conn[c] EXCEPT !.queue = Tail(@)]
             i == Head(conn[c].queue)
  <2>1. conn' = [conn EXCEPT ![c] = r]
    BY <1>8 DEF receive
  <2>2. i \in 0..Latest /\ Tail(conn[c].queue) \in Seq(0..Latest) /\ i # Terminal
    BY <1>0, <1>8, Queues, Zenon DEF receive, Queue
  <2>3. Queue(r, Latest)
    BY <1>0, <2>2 DEF Queue
  <2>4. i \in 1..Latest /\ i \in Int
    BY <1>0, <2>2 DEF Terminal
  <2>5. 1 \in DOMAIN env.wants[c]
    <3>1. env.wants[c] \in Seq(Seq(STRING)) /\ env.wants[c] # <<>>
      BY ScenarioAssumption, Zenon DEF EventsInv, Subscribers
    <3> QED BY <3>1
  <2>6. ClientStep /\ UNCHANGED <<env, stream, broker, sess, pump, active>>
    <3>1. CASE matches_str(Pattern(c, 1), Entry(i).subject) /\ client' = Process(c, i)
      <4>1. i \in Fit(c)
        BY <2>4, <2>5, <3>1, Matching, Zenon DEF EventsInv
      <4> QED BY <1>0, <1>8, <2>4, <3>1, <4>1, Processes, Zenon DEF receive
    <3>2. CASE client' = client
      BY <1>0, <1>8, <3>2, ClientSame, Zenon DEF receive
    <3> QED BY <1>8, <3>1, <3>2, Zenon DEF receive
  <2> HIDE DEF r
  <2> QED BY <2>1, <2>3, <2>6, OperationOne, LeftAlone, GqlDone, Zenon
<1> QED BY <1>1, <1>2, <1>3, <1>4, <1>5, <1>6, <1>7, <1>8, Zenon DEF Operation

LEMMA Broadcasts ==
  ASSUME EventsInv, env.gateway = "graphql", NEW k, NEW m \in 0..Latest, Broadcast(k, m), UNCHANGED active
  PROVE  OperationStep
<1>1. ASSUME NEW c \in Subscribers PROVE Queue(conn'[c], Latest)
  <2> DEFINE q == conn[c].queue
  <2>1. Queue(conn[c], Latest) /\ q \in Seq(0..Latest)
    BY Zenon DEF EventsInv, OperationInv, Queue
  <2>2. conn'[c] \in {conn[c], Queued(conn[c], m)}
    BY Zenon DEF Broadcast
  <2>3. ASSUME NEW w \in Seq(0..Latest)
        PROVE  Queue([conn[c] EXCEPT !.queue = w], Latest) /\ Queue([conn[c] EXCEPT !.queue = w, !.lagged = TRUE], Latest)
    BY <2>1 DEF Queue
  <2>4. Append(q, m) \in Seq(0..Latest)
    BY <2>1, Queues, Zenon
  <2>5. ~ (Len(q) < OperationCapacity) => Append(Tail(q), m) \in Seq(0..Latest)
    <3>1. ASSUME ~ (Len(q) < OperationCapacity) PROVE q # <<>>
      BY <2>1, <3>1, CapacityAssumption
    <3> QED BY <2>1, <3>1, Queues, Zenon
  <2>6. Queue(Queued(conn[c], m), Latest)
    BY <2>3, <2>4, <2>5, Zenon DEF Queued
  <2> QED BY <2>1, <2>2, <2>6, Zenon
<1>2. DOMAIN conn' = Subscribers
  BY Zenon DEF Broadcast
<1> QED BY <1>1, <1>2, Zenon DEF EventsInv, OperationInv, OperationStep

LEMMA Moves ==
  ASSUME NEW n, NEW p, Carries(p, n), NEW pc, NEW x
  PROVE  /\ Carries([p EXCEPT !.pc = pc], n) /\ Carries([p EXCEPT !.pc = pc, !.notified = x], n)
         /\ Carries([p EXCEPT !.pc = pc, !.terminal = x], n) /\ Carries(Wait(p, x), n)
  BY DEF Carries, PumpFields, Wait

LEMMA SessionPumpEvents ==
  ASSUME EventsInv, env.gateway = "graphql", NEW k \in Keys, run_session_pump(k)
  PROVE  EventsInv'
<1>0. SessInv /\ PumpInv /\ Latest \in Nat /\ Holds(sess[k], Latest) /\ Carries(pump[k], Latest)
  BY LatestNat, Zenon DEF EventsInv, SessInv, PumpInv
<1>1. CASE \/ wait_look(k) \/ wait_enable(k) \/ wait_recheck(k) \/ wait_woken(k) \/ pump_room(k)
           \/ pump_lagged(k) \/ pump_unavailable(k)
  <2>1. UNCHANGED <<env, stream, broker, sess, conn, client, active>>
    BY <1>1, Zenon DEF wait_look, wait_enable, wait_recheck, wait_woken, pump_room, pump_lagged, pump_unavailable
  <2>2. ASSUME NEW p, pump' = [pump EXCEPT ![k] = p], Carries(p, Latest) PROVE PumpStep
    BY <1>0, <2>2, PumpOne, Zenon
  <2>3. ASSUME NEW pc, NEW x
        PROVE  /\ Carries([pump[k] EXCEPT !.pc = pc], Latest)
               /\ Carries([pump[k] EXCEPT !.pc = pc, !.notified = x], Latest)
               /\ Carries([pump[k] EXCEPT !.pc = pc, !.terminal = x], Latest)
    BY <1>0, Moves, Zenon
  <2>4. \E pc, x : pump' \in {[pump EXCEPT ![k] = [pump[k] EXCEPT !.pc = pc]],
                              [pump EXCEPT ![k] = [pump[k] EXCEPT !.pc = pc, !.notified = x]],
                              [pump EXCEPT ![k] = [pump[k] EXCEPT !.pc = pc, !.terminal = x]]}
    <3>1. CASE \/ wait_look(k) \/ wait_enable(k) \/ wait_woken(k) \/ pump_room(k)
      BY <3>1, Zenon DEF wait_look, wait_enable, wait_woken, pump_room, At
    <3>2. CASE wait_recheck(k)
      <4>1. pump' = [pump EXCEPT ![k] = [pump[k] EXCEPT !.pc = IF Receivers(k) # {} THEN pump[k].goal ELSE "asleep"]]
        BY <3>2 DEF wait_recheck
      <4> QED BY <4>1, Zenon
    <3>3. CASE pump_lagged(k) \/ pump_unavailable(k)
      <4>1. \/ pump' = [pump EXCEPT ![k] = [pump[k] EXCEPT !.pc = "ending", !.terminal = "SUBSCRIPTION_LAGGED"]]
            \/ pump' = [pump EXCEPT ![k] = [pump[k] EXCEPT !.pc = "ending", !.terminal = "EVENT_STREAM_UNAVAILABLE"]]
        BY <1>0, <3>3, Zenon DEF pump_lagged, pump_unavailable, PumpInv
      <4> QED BY <4>1, Zenon
    <3> QED BY <1>1, <3>1, <3>2, <3>3, Zenon
  <2>5. PumpStep
    BY <2>2, <2>3, <2>4, Zenon
  <2> QED BY <2>1, <2>5, LeftAlone, GqlDone, Zenon
<1>2. CASE pump_item(k) \/ pump_broadcast(k)
  <2>1. UNCHANGED <<env, stream, broker, client, active>>
    BY <1>2, Zenon DEF pump_item, pump_broadcast
  <2>2. PumpStep
    BY <1>0, <1>2, Moves, PumpOne, Zenon DEF pump_item, pump_broadcast
  <2>3. SessStep
    BY <1>0, <1>2, AcceptStep, SessSame, Zenon DEF pump_item, pump_broadcast
  <2>4. OperationStep
    BY <1>0, <1>2, <2>1, Broadcasts, LeftAlone, Zenon DEF pump_item, pump_broadcast, Carries
  <2> QED BY <2>1, <2>2, <2>3, <2>4, LeftAlone, GqlDone, Zenon
<1>3. CASE terminate(k)
  <2> DEFINE t == [sess[k] EXCEPT !.pc = "gone"]
  <2>1. /\ DOMAIN t = DOMAIN sess[k]
        /\ t.after = sess[k].after /\ t.next = sess[k].next /\ t.acked = sess[k].acked
        /\ t.pending = sess[k].pending /\ t.cutoff = sess[k].cutoff /\ t.replay = sess[k].replay
        /\ t.live = sess[k].live /\ t.pc # "validate"
    BY <1>0 DEF Holds, SessionFields
  <2>2. sess' = [sess EXCEPT ![k] = t] /\ pump' = [pump EXCEPT ![k] = [pump[k] EXCEPT !.pc = "dead"]]
    BY <1>3 DEF terminate
  <2> HIDE DEF t
  <2>3. SessStep
    BY <1>0, <2>1, <2>2, Alike, SessOne, Zenon
  <2>4. PumpStep
    BY <1>0, <2>2, Moves, PumpOne, Zenon
  <2>5. Terminal \in 0..Latest
    BY <1>0 DEF Terminal
  <2>6. OperationStep
    BY <1>3, <2>5, Broadcasts, Zenon DEF terminate
  <2> QED BY <1>3, <2>3, <2>4, <2>6, Drops, LeftAlone, GqlDone, Zenon DEF terminate
<1> QED BY <1>1, <1>2, <1>3, Zenon DEF run_session_pump

LEMMA GqlEvents ==
  ASSUME EventsInv, env.gateway = "graphql", GraphQlNext
  PROVE  EventsInv'
  BY ProviderEvents, PublishEvents, SocketEvents, OperationEvents, SessionPumpEvents, Zenon DEF GraphQlNext

-----------------------------------------------------------------------------
(* The beginning, and every step. *)

LEMMA EventsInit ==
  ASSUME GatewayInit
  PROVE  EventsInv
<1> DEFINE E == [subject : Seq(STRING), tenant : STRING, form : STRING]
<1>0. Init /\ BrokerInit /\ env \in Scenarios
  BY Zenon DEF GatewayInit, WsInit, GraphQlInit, Init
<1>1. /\ env.script \in Seq(E)
      /\ \A i \in 1..Len(env.script) : Len(env.script[i].subject) >= 3 /\ env.script[i].tenant = env.script[i].subject[3]
      /\ env.published \in 0..Len(env.script) /\ env.start \in Nat /\ (env.hub = None \/ env.hub \in 0..env.published)
  BY <1>0, ScenarioAssumption, Zenon
<1>2. DOMAIN stream = {"log", "first"} /\ stream.log = SubSeq(env.script, 1, env.published) /\ stream.first = 1
  BY <1>0, Zenon DEF Init
<1>3. stream.log \in Seq(E) /\ Latest = env.published /\ \A i \in 1..Latest : i \in 1..Len(env.script) /\ Entry(i) = env.script[i]
  <2> HIDE DEF E
  <2>1. Len(env.script) \in Nat
    BY <1>1
  <2> QED BY <1>1, <1>2, <2>1 DEF Latest, Entry
<1>4. StreamInv
  <2>1. \A i \in 1..Latest : Len(Entry(i).subject) >= 3 /\ Entry(i).tenant = Entry(i).subject[3]
    BY <1>1, <1>3, Zenon
  <2>2. stream.first \in Nat /\ stream.first >= 1
    BY <1>2
  <2> QED BY <1>2, <1>3, <2>1, <2>2, Zenon DEF StreamInv
<1> HIDE DEF E
<1>5. Latest \in Nat
  BY <1>4, LatestNat
<1>6. SessInv
  BY <1>0, <1>5, OpeningHolds, Zenon DEF Init, SessInv, Numbered
<1>7. PumpInv
  BY <1>0, <1>5, Blank, Zenon DEF Init, PumpInv
<1>8. ClientInv
  <2>1. DOMAIN client = Subscribers
    BY <1>0, Zenon DEF Init
  <2>2. ASSUME NEW c \in Subscribers PROVE Keeps(client[c], c)
    <3> DEFINE w == IF env.start = 0 THEN None ELSE to_compatible_wire(Cursor(env.issuer, env.start))
               f == [s \in DOMAIN env.wants[c] |-> IF env.start = 0 THEN None ELSE env.start]
    <3>1. client[c] = [cursor |-> w, from |-> f, seen |-> {}, high |-> env.start]
      BY <1>0, <2>2, Zenon DEF Init
    <3>2. Numbered(w)
      BY <1>1 DEF Numbered, to_compatible_wire, Cursor
    <3> HIDE DEF w, f
    <3> QED BY <3>1, <3>2 DEF Keeps
  <2> QED BY <2>1, <2>2, Zenon DEF ClientInv
<1>9. BrokerInv
  <2>1. ASSUME env.provider = "rs" PROVE HubInv
    <3>1. broker = IF env.hub = None THEN NoHub
                   ELSE [NoHub EXCEPT !.open = TRUE, !.started = TRUE, !.watermark = env.hub, !.last = env.hub]
      BY <1>0, <2>1 DEF BrokerInit, HubInit
    <3>2. env.hub = None \/ env.hub \in 0..Latest
      BY <1>1, <1>3, Zenon
    <3> QED BY <1>5, <3>1, <3>2 DEF HubInv, HubFields, NoHub
  <2>2. ASSUME env.provider = "core" PROVE CoreInv
    <3>1. broker = [next |-> env.published + 1]
      BY <1>0, <2>2 DEF BrokerInit
    <3>2. env.published \in Nat
      BY <1>3, <1>5
    <3> QED BY <3>1, <3>2 DEF CoreInv
  <2> QED BY <2>1, <2>2, Zenon DEF BrokerInv
<1>10. ASSUME env.gateway = "ws" PROVE WsConnInv
  <2>1. conn = [c \in Subscribers |-> NoConn] /\ \A c \in Subscribers : pump[c] = NoPump
    BY <1>0, <1>10 DEF GatewayInit, WsInit, Init, Keys
  <2> QED BY <1>5, <2>1, Blank, Zenon DEF WsConnInv
<1>11. ASSUME env.gateway = "graphql" PROVE OperationInv
  <2>1. conn = [c \in Subscribers |-> NoOperation] /\ active = Closed
    BY <1>11 DEF GatewayInit, GraphQlInit
  <2>2. DOMAIN active = {"open", "cursor"} /\ Numbered(active.cursor)
    BY <2>1 DEF Closed, Numbered
  <2> QED BY <2>1, <2>2, Idles, Zenon DEF OperationInv
<1> QED BY <1>0, <1>4, <1>6, <1>7, <1>8, <1>9, <1>10, <1>11, Zenon DEF EventsInv

LEMMA EventsStep ==
  ASSUME EventsInv, [Next]_vars
  PROVE  EventsInv'
<1>1. CASE UNCHANGED vars
  <2>1. UNCHANGED <<env, stream, broker, sess, pump, conn, client, active>>
    BY <1>1, Zenon DEF vars
  <2>2. env.gateway = "ws" => WsStep
    BY <2>1, Zenon DEF EventsInv, WsConnInv, WsStep
  <2> QED BY <2>1, <2>2, LeftAlone, Combine, Zenon
<1> QED BY <1>1, WsEvents, GqlEvents, Zenon DEF Next

(* In every behaviour of both gateways, over NATS Core, JetStream and Redis  *)
(* Streams, for every set of clients, patterns and events: a client is given *)
(* only events of its own tenant that one of its patterns covers, through    *)
(* every replay, reconnection, restart and shared session.                   *)
THEOREM EventsReachTheirTenant == Spec => []OnlyMatching
<1>1. GatewayInit => EventsInv
  BY EventsInit
<1>2. EventsInv /\ [Next]_vars => EventsInv'
  BY EventsStep
<1>3. EventsInv => OnlyMatching
  BY Zenon DEF EventsInv, ClientInv, Keeps, Fit, OnlyMatching
<1> QED BY <1>1, <1>2, <1>3, PTL DEF Spec

=============================================================================
