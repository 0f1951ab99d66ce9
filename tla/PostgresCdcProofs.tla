-------------------------- MODULE PostgresCdcProofs --------------------------
(***************************************************************************)
(* The PostgreSQL source never confirms what the sink does not have, and   *)
(* snapshot and stream together leave no gap, for every log of transactions*)
(* and every capacity of the bus.  The invariant follows a change from the *)
(* server to the sink: received, it is on the bus or in the sink; no mark  *)
(* on the bus is ahead of the changes published up to it; no acknowledged  *)
(* position is ahead of a change the sink does not have.                   *)
(***************************************************************************)
EXTENDS PostgresCdc, SequenceTheorems, TLAPS

Items == AllChanges \cup {Base(r) : r \in Rows}
Entries == [brings : SUBSET Items, mark : LSNs, handled : BOOLEAN]
Pending == [change : Items, mark : LSNs]
Modes == {"down", "boot", "slot", "scan", "connect", "stream", "ended"}

\* What the sink has, or will have once the first k events of the bus are handled.
Covered(sink, bus, x, k) == x \in sink \/ \E j \in 1..k : x \in bus[j].brings

\* A change that the slot must bring.
Owed(start, t, i) == t \in Txns /\ i \in 1..Len(Changes[t]) /\ start < t

\* The state, and which of it can occur together.
Shape ==
    /\ committed \in 0..NTxns /\ slotStart \in 0..committed /\ sent \in 0..NTxns
    /\ confirmed \in LSNs /\ lastAcked \in LSNs
    /\ walHighWater \in LSNs /\ sinkProgress \in LSNs
    /\ failures \in 0..MaxFailures /\ faults \in 0..MaxFaults
    /\ mode # "down" => failures < MaxFailures
    /\ pipe \in Seq(Entries)
    /\ Len(pipe) <= BusCapacity
    /\ delivered \in SUBSET Items
    /\ scan \in Seq(0..NTxns)

Phases ==
    /\ mode \in Modes /\ slot \in BOOLEAN /\ bootstrapped \in BOOLEAN /\ open \in BOOLEAN
    /\ mode \in {"boot", "slot", "scan"} => ~bootstrapped
    /\ mode = "boot" => pipe = <<>> /\ sinkProgress = 0
    /\ mode \in {"slot", "scan", "stream", "ended"} => slot

\* The outbox is what is left of the transaction that was received last.
Outbox ==
    /\ outbox \in Seq(Pending)
    /\ open => outbox = <<>>
    /\ open \/ outbox # <<>> => sent \in Txns
    /\ outbox # <<>> =>
         /\ Len(outbox) <= Len(Changes[sent])
         /\ \A n \in 1..Len(outbox) :
              outbox[n] = EventsOf(sent)[Len(Changes[sent]) - Len(outbox) + n]

\* A handled event is in the sink, and no mark is ahead of what is before it.
Marks ==
    /\ \A k \in 1..Len(pipe) : pipe[k].handled => pipe[k].brings \subseteq delivered
    /\ \A k \in 1..Len(pipe) : \A t, i : Owed(slotStart, t, i) /\ End[t] <= pipe[k].mark => Covered(delivered, pipe, <<t, i>>, k)
    /\ \A t, i : Owed(slotStart, t, i) /\ End[t] <= sinkProgress => <<t, i>> \in delivered

\* What is acknowledged, and what the server has sent.
Acked ==
    /\ \A t, i : slot /\ Owed(slotStart, t, i) /\ <<t, i>> \notin delivered => End[t] > confirmed
    /\ \A t, i : mode = "stream" /\ Owed(slotStart, t, i) /\ <<t, i>> \notin delivered => End[t] > lastAcked

Left == Len(Changes[sent]) - Len(outbox)
Streamed ==
    mode = "stream" =>
      /\ \A t, i : Owed(slotStart, t, i) /\ t < sent => Covered(delivered, pipe, <<t, i>>, Len(pipe))
      /\ \A i : Owed(slotStart, sent, i) /\ ~open /\ i <= Left => Covered(delivered, pipe, <<sent, i>>, Len(pipe))
      /\ \A t, i : Owed(slotStart, t, i) /\ (t < sent \/ (t = sent /\ ~open /\ outbox = <<>>))
                     => End[t] <= walHighWater \/ <<t, i>> \in delivered

\* The rows the snapshot has brought so far, as of the slot or later.
Scanned ==
    /\ mode = "scan" =>
         /\ Len(scan) <= NRows
         /\ \A n \in 1..Len(scan) : scan[n] >= slotStart
         /\ \A r \in 1..(NRows - Len(scan)) : \A x \in SnapshotOf(r, slotStart) : Covered(delivered, pipe, x, Len(pipe))
    /\ bootstrapped => \A r \in Rows : \A x \in SnapshotOf(r, slotStart) : Covered(delivered, pipe, x, Len(pipe))

IInv == Shape /\ Phases /\ Outbox /\ Marks /\ Acked /\ Streamed /\ Scanned

-----------------------------------------------------------------------------
(* The log. *)

\* The ends of the commit records are positions, in the order of the transactions.
LEMMA LogFacts ==
  ASSUME PostgresAssumption
  PROVE  /\ NTxns \in Nat /\ NRows \in Nat /\ BusCapacity \in Nat /\ MaxFailures \in Nat /\ MaxFaults \in Nat
         /\ MaxFailures > 0
         /\ \A t \in Txns : t \in Nat /\ End[t] \in Nat /\ End[t] > 0 /\ End[t] \in LSNs
         /\ \A t \in Txns : Len(Changes[t]) \in Nat /\ Changes[t] \in Seq([row : Rows, lsn : Nat])
         /\ \A t \in Txns : \A i \in 1..Len(Changes[t]) :
               Changes[t][i].lsn \in LSNs /\ Changes[t][i].lsn < End[t] /\ Changes[t][i].row \in Rows
         /\ \A t, u \in Txns : t < u => End[t] < End[u]
         /\ \A n \in LSNs : n \in Nat
         /\ 0 \in LSNs
<1>1. NTxns \in Nat /\ NTxns > 0 /\ NTxns \in Txns
  BY DEF PostgresAssumption, Txns
<1>2. \A t \in Txns : t \in Nat /\ End[t] \in Nat /\ End[t] > 0
  BY <1>1 DEF PostgresAssumption, Txns
<1>3. \A t, u \in Txns : t < u => End[t] < End[u]
  BY Zenon DEF PostgresAssumption
<1>4. \A t \in Txns : End[t] <= End[NTxns]
  <2>. TAKE t \in Txns
  <2>1. t = NTxns \/ t < NTxns
    BY <1>1 DEF Txns
  <2>. QED  BY <2>1, <1>1, <1>2, <1>3
<1>5. \A t \in Txns : End[t] \in LSNs
  BY <1>1, <1>2, <1>4 DEF LSNs
<1>6. \A t \in Txns : Len(Changes[t]) \in Nat /\ Changes[t] \in Seq([row : Rows, lsn : Nat])
  <2>. TAKE t \in Txns
  <2>1. Changes[t] \in Seq([row : Rows, lsn : Nat])
    BY Zenon DEF PostgresAssumption
  <2>. QED  BY Zenon, <2>1, LenProperties
<1>7. ASSUME NEW t \in Txns, NEW i \in 1..Len(Changes[t])
      PROVE  Changes[t][i].lsn \in LSNs /\ Changes[t][i].lsn < End[t] /\ Changes[t][i].row \in Rows
  <2>1. Changes[t][i] \in [row : Rows, lsn : Nat]
    BY Zenon, <1>6, ElementOfSeq
  <2>2. Changes[t][i].lsn \in 1..(End[t] - 1)
    BY Zenon DEF PostgresAssumption
  <2>3. Changes[t][i].lsn \in Nat /\ Changes[t][i].lsn < End[t] /\ Changes[t][i].lsn <= End[NTxns]
    BY <2>2, <1>1, <1>2, <1>4
  <2>4. Changes[t][i].lsn \in LSNs
    BY <2>3, <1>1, <1>2 DEF LSNs
  <2>5. Changes[t][i].row \in Rows
    BY Zenon, <2>1
  <2>. QED  BY Zenon, <2>3, <2>4, <2>5
<1>8. (\A n \in LSNs : n \in Nat) /\ 0 \in LSNs
  BY <1>1, <1>2 DEF LSNs
<1>9. /\ NRows \in Nat /\ BusCapacity \in Nat /\ MaxFailures \in Nat /\ MaxFaults \in Nat
      /\ MaxFailures > 0
  BY DEF PostgresAssumption
<1>. QED  BY Zenon, <1>1, <1>2, <1>3, <1>5, <1>6, <1>7, <1>8, <1>9

\* A change is a pair of a transaction and a position in it.
LEMMA ChangeFacts ==
  /\ \A t \in Txns : \A i \in 1..Len(Changes[t]) : <<t, i>> \in AllChanges /\ <<t, i>> \in Items
  /\ \A c \in AllChanges : /\ c = <<c[1], c[2]>>
                           /\ c[1] \in Txns /\ c[2] \in 1..Len(Changes[c[1]])
<1>1. ASSUME NEW t \in Txns, NEW i \in 1..Len(Changes[t])
      PROVE  <<t, i>> \in AllChanges
  BY DEF AllChanges, Change
<1>2. ASSUME NEW c \in AllChanges
      PROVE  c = <<c[1], c[2]>> /\ c[1] \in Txns /\ c[2] \in 1..Len(Changes[c[1]])
  <2>1. PICK t \in Txns : c \in {Change(t, i) : i \in 1..Len(Changes[t])}
    BY Zenon DEF AllChanges
  <2>2. PICK i \in 1..Len(Changes[t]) : c = <<t, i>>
    BY Zenon, <2>1 DEF Change
  <2>. QED  BY Zenon, <2>2
<1>. QED  BY Zenon, <1>1, <1>2 DEF Items

\* A later copy of a row covers an earlier one.
LEMMA SnapshotFacts ==
  ASSUME PostgresAssumption
  PROVE  /\ \A r \in Rows : \A v : SnapshotOf(r, v) \in SUBSET Items
         /\ \A r \in Rows : \A v, w \in Nat : v <= w => SnapshotOf(r, v) \subseteq SnapshotOf(r, w)
<1>1. \A r \in Rows : \A v : SnapshotOf(r, v) \in SUBSET Items
  BY Zenon DEF SnapshotOf, Items
<1>2. \A c \in AllChanges : c[1] \in Nat
  BY Zenon, ChangeFacts, LogFacts
<1>3. ASSUME NEW r \in Rows, NEW v \in Nat, NEW w \in Nat, v <= w, NEW x \in SnapshotOf(r, v)
      PROVE  x \in SnapshotOf(r, w)
  <2>1. CASE x = Base(r)
    BY Zenon, <2>1 DEF SnapshotOf
  <2>2. CASE x \in AllChanges /\ x[1] <= v /\ Changes[x[1]][x[2]].row = r
    <3>1. x[1] <= w
      BY <2>2, <1>2, <1>3
    <3>. QED  BY Zenon, <2>2, <3>1 DEF SnapshotOf
  <2>. QED  BY Zenon, <2>1, <2>2, <1>3 DEF SnapshotOf
<1>. QED  BY Zenon, <1>1, <1>3

\* A sequence that is not empty is its head and its tail.
LEMMA NonEmpty ==
  ASSUME NEW S, NEW s \in Seq(S), s # <<>>
  PROVE  /\ Len(s) \in Nat /\ Len(s) > 0 /\ Head(s) \in S /\ Head(s) = s[1]
         /\ Tail(s) \in Seq(S) /\ Len(Tail(s)) = Len(s) - 1
         /\ \A n \in 1..Len(Tail(s)) : Tail(s)[n] = s[n + 1]
<1>1. Len(s) \in Nat /\ Len(s) > 0
  BY LenProperties, EmptySeq
<1>2. Head(s) = s[1]
  OBVIOUS
<1>. QED  BY Zenon, <1>1, <1>2, HeadTailProperties

-----------------------------------------------------------------------------
(* The bus. *)

\* An event is published behind the others.
LEMMA PublishFacts ==
  ASSUME pipe \in Seq(Entries), NEW b \in SUBSET Items, NEW m \in LSNs, Published(b, m)
  PROVE  /\ pipe' \in Seq(Entries) /\ Len(pipe) \in Nat /\ Len(pipe') = Len(pipe) + 1
         /\ \A k \in 1..Len(pipe) : pipe'[k] = pipe[k]
         /\ pipe'[Len(pipe) + 1].brings = b /\ pipe'[Len(pipe) + 1].mark = m
         /\ ~pipe'[Len(pipe) + 1].handled
<1>1. [brings |-> b, mark |-> m, handled |-> FALSE] \in Entries
  BY Zenon DEF Entries
<1>2. /\ pipe' \in Seq(Entries) /\ Len(pipe) \in Nat /\ Len(pipe') = Len(pipe) + 1
      /\ \A k \in 1..Len(pipe) : pipe'[k] = pipe[k]
      /\ pipe'[Len(pipe) + 1] = [brings |-> b, mark |-> m, handled |-> FALSE]
  BY <1>1, AppendProperties, LenProperties DEF Published
<1>. QED  BY <1>2

\* What the bus covers stays covered when events join it or the sink gets more.
LEMMA CoveredGrows ==
  ASSUME NEW d, NEW e, NEW p, NEW q, d \subseteq e, NEW n \in Nat, NEW m \in Nat, n <= m,
         \A k \in 1..n : q[k].brings = p[k].brings
  PROVE  \A x : Covered(d, p, x, n) => Covered(e, q, x, m)
<1>. TAKE x
<1>1. HAVE Covered(d, p, x, n)
<1>2. CASE x \in d
  BY Zenon, <1>2 DEF Covered
<1>3. CASE \E j \in 1..n : x \in p[j].brings
  <2>1. PICK j \in 1..n : x \in p[j].brings
    BY Zenon, <1>3
  <2>2. j \in 1..m /\ x \in q[j].brings
    BY <2>1
  <2>. QED  BY Zenon, <2>2 DEF Covered
<1>. QED  BY Zenon, <1>1, <1>2, <1>3 DEF Covered

\* The head of the bus leaves it when it is handled: what the bus covers stays covered.
LEMMA AdvanceFacts ==
  ASSUME pipe \in Seq(Entries), AdvanceProgress, Marks
  PROVE  /\ pipe' \in Seq(Entries) /\ Len(pipe) \in Nat /\ Len(pipe) > 0 /\ Len(pipe') = Len(pipe) - 1
         /\ \A k \in 1..Len(pipe') : pipe'[k] = pipe[k + 1]
         /\ Head(pipe) = pipe[1] /\ pipe[1].brings \subseteq delivered
         /\ \A x : \A k \in 1..Len(pipe) :
               Covered(delivered, pipe, x, k) => Covered(delivered, pipe', x, k - 1)
<1>1. /\ pipe' \in Seq(Entries) /\ Len(pipe) \in Nat /\ Len(pipe) > 0 /\ Len(pipe') = Len(pipe) - 1
      /\ \A k \in 1..Len(pipe') : pipe'[k] = pipe[k + 1]
      /\ Head(pipe) = pipe[1] /\ pipe[1].handled
  BY Zenon, NonEmpty DEF AdvanceProgress
<1>2. pipe[1].brings \subseteq delivered
  BY <1>1 DEF Marks
<1>3. ASSUME NEW x, NEW k \in 1..Len(pipe), Covered(delivered, pipe, x, k)
      PROVE  Covered(delivered, pipe', x, k - 1)
  <2>1. CASE x \in delivered
    BY Zenon, <2>1 DEF Covered
  <2>2. CASE \E j \in 1..k : x \in pipe[j].brings
    <3>1. PICK j \in 1..k : x \in pipe[j].brings
      BY Zenon, <2>2
    <3>2. CASE j = 1
      BY Zenon, <3>1, <3>2, <1>2 DEF Covered
    <3>3. CASE j # 1
      <4>1. j - 1 \in 1..(k - 1) /\ j - 1 \in 1..Len(pipe') /\ (j - 1) + 1 = j
        BY <3>3, <1>1
      <4>2. x \in pipe'[j - 1].brings
        BY Zenon, <4>1, <1>1, <3>1
      <4>. QED  BY Zenon, <4>1, <4>2 DEF Covered
    <3>. QED  BY Zenon, <3>2, <3>3
  <2>. QED  BY Zenon, <1>3, <2>1, <2>2 DEF Covered
<1>. QED  BY Zenon, <1>1, <1>2, <1>3

\* The sink handles one event of the bus.
LEMMA HandleFacts ==
  ASSUME pipe \in Seq(Entries), HandleEvent
  PROVE  /\ pipe' \in Seq(Entries) /\ Len(pipe) \in Nat /\ Len(pipe') = Len(pipe)
         /\ \A k \in 1..Len(pipe) : pipe'[k].brings = pipe[k].brings /\ pipe'[k].mark = pipe[k].mark
         /\ \A k \in 1..Len(pipe) : pipe'[k].handled => pipe[k].handled \/ pipe[k].brings \subseteq delivered'
         /\ delivered \subseteq delivered'
         /\ \E i \in 1..Len(pipe) : delivered' = delivered \cup pipe[i].brings
<1>1. PICK i \in 1..Len(pipe) :
        /\ pipe' = [pipe EXCEPT ![i].handled = TRUE]
        /\ delivered' = delivered \cup pipe[i].brings
  BY Zenon DEF HandleEvent
<1>2. pipe \in [1..Len(pipe) -> Entries] /\ Len(pipe) \in Nat
  BY Zenon, LenProperties
<1>3. pipe' = [pipe EXCEPT ![i] = [pipe[i] EXCEPT !.handled = TRUE]]
  BY Zenon, <1>1
<1>4. [pipe[i] EXCEPT !.handled = TRUE] \in Entries
  BY Zenon, <1>2 DEF Entries
<1>5. /\ pipe' \in Seq(Entries) /\ Len(pipe') = Len(pipe)
      /\ \A k \in 1..Len(pipe) : pipe'[k] = IF k = i THEN [pipe[i] EXCEPT !.handled = TRUE] ELSE pipe[k]
  BY <1>2, <1>3, <1>4, ExceptSeq
<1>6. [pipe[i] EXCEPT !.handled = TRUE].brings = pipe[i].brings /\ [pipe[i] EXCEPT !.handled = TRUE].mark = pipe[i].mark
  BY Zenon, <1>2 DEF Entries
<1>. QED  BY Zenon, <1>1, <1>2, <1>5, <1>6

\* A transaction is published as one event per change.
LEMMA EventsFacts ==
  ASSUME PostgresAssumption, NEW t \in Txns
  PROVE  /\ Len(Changes[t]) \in Nat /\ EventsOf(t) \in Seq(Pending)
         /\ Len(EventsOf(t)) = Len(Changes[t])
<1>1. \A i \in 1..Len(Changes[t]) :
        /\ <<t, i>> \in Items
        /\ (IF i = Len(Changes[t]) THEN End[t] ELSE Changes[t][i].lsn) \in LSNs
  BY Zenon, LogFacts, ChangeFacts
<1>2. \A i \in 1..Len(Changes[t]) : EventsOf(t)[i] \in Pending
  BY Zenon, <1>1 DEF EventsOf, Pending, Change
<1>3. Len(Changes[t]) \in Nat
  BY Zenon, LogFacts
<1>4. EventsOf(t) = [i \in 1..Len(Changes[t]) |-> EventsOf(t)[i]]
  BY Zenon DEF EventsOf
<1>. QED  BY SMTT(30), <1>2, <1>3, <1>4

\* The next event of the outbox is the next change of the transaction; only the last
\* one carries the end of the commit.
LEMMA OutboxFacts ==
  ASSUME PostgresAssumption, Outbox, outbox # <<>>
  PROVE  /\ sent \in Txns /\ Left \in Nat /\ Left + 1 \in 1..Len(Changes[sent])
         /\ Head(outbox) \in Pending /\ Head(outbox).change = <<sent, Left + 1>>
         /\ Head(outbox).mark = IF Left + 1 = Len(Changes[sent]) THEN End[sent]
                                ELSE Changes[sent][Left + 1].lsn
         /\ Len(outbox) \in Nat /\ (Len(outbox) = 1 <=> Left + 1 = Len(Changes[sent]))
         /\ Tail(outbox) \in Seq(Pending) /\ Len(Tail(outbox)) = Len(outbox) - 1
         /\ \A n \in 1..Len(Tail(outbox)) : Tail(outbox)[n] = outbox[n + 1]
<1>1. /\ Head(outbox) \in Pending /\ Head(outbox) = outbox[1]
      /\ Len(outbox) \in Nat /\ Len(outbox) > 0
      /\ Tail(outbox) \in Seq(Pending) /\ Len(Tail(outbox)) = Len(outbox) - 1
      /\ \A n \in 1..Len(Tail(outbox)) : Tail(outbox)[n] = outbox[n + 1]
  BY Zenon, NonEmpty DEF Outbox
<1>2. sent \in Txns /\ Len(Changes[sent]) \in Nat /\ Len(outbox) <= Len(Changes[sent])
  BY Zenon, LogFacts DEF Outbox
<1>3. Left \in Nat /\ Left + 1 \in 1..Len(Changes[sent]) /\ (Len(outbox) = 1 <=> Left + 1 = Len(Changes[sent]))
  BY <1>1, <1>2 DEF Left
<1>4. outbox[1] = EventsOf(sent)[Left + 1]
  BY <1>1 DEF Outbox, Left
<1>5. EventsOf(sent)[Left + 1] =
        [change |-> <<sent, Left + 1>>,
         mark |-> IF Left + 1 = Len(Changes[sent]) THEN End[sent] ELSE Changes[sent][Left + 1].lsn]
  BY Zenon, <1>3 DEF EventsOf, Change
<1>. QED  BY <1>1, <1>2, <1>3, <1>4, <1>5

\* The next row of the snapshot is a row of the tables, read after the slot was created.
LEMMA ScanFacts ==
  ASSUME PostgresAssumption, Shape, Scanned, mode = "scan", scan # <<>>
  PROVE  /\ NRows - Len(scan) \in Nat /\ NRows - Len(scan) + 1 \in Rows
         /\ Head(scan) \in Nat /\ slotStart \in Nat /\ Head(scan) >= slotStart
         /\ Len(scan) \in Nat /\ Len(Tail(scan)) = Len(scan) - 1
         /\ \A n \in 1..Len(Tail(scan)) : Tail(scan)[n] = scan[n + 1]
<1>1. /\ Head(scan) \in 0..NTxns /\ Head(scan) = scan[1]
      /\ Len(scan) \in Nat /\ Len(scan) > 0 /\ Len(Tail(scan)) = Len(scan) - 1
      /\ \A n \in 1..Len(Tail(scan)) : Tail(scan)[n] = scan[n + 1]
  <2>1. scan \in Seq(0..NTxns)
    BY Zenon DEF Shape
  <2>. QED  BY Zenon, <2>1, NonEmpty
<1>2. Len(scan) <= NRows /\ scan[1] >= slotStart
  BY <1>1 DEF Scanned
<1>3. slotStart \in Nat
  BY LogFacts DEF Shape
<1>. QED  BY <1>1, <1>2, <1>3, LogFacts DEF Rows

\* The larger and the smaller of two positions are positions.
LEMMA Bounds ==
  ASSUME PostgresAssumption, NEW a \in LSNs, NEW b \in LSNs
  PROVE  /\ Larger(a, b) \in LSNs /\ Larger(a, b) \in {a, b} /\ Larger(a, b) >= a /\ Larger(a, b) >= b
         /\ Smaller(a, b) \in LSNs /\ Smaller(a, b) \in {a, b} /\ Smaller(a, b) <= a /\ Smaller(a, b) <= b
<1>1. a \in Nat /\ b \in Nat
  BY Zenon, LogFacts
<1>. QED  BY <1>1 DEF Larger, Smaller

\* The positions the source keeps after a commit.
LEMMA CommitFacts ==
  ASSUME PostgresAssumption, Shape, NEW t \in Txns, NEW p \in BOOLEAN, AfterCommit(t, p)
  PROVE  /\ walHighWater' \in LSNs /\ lastAcked' \in LSNs /\ walHighWater' >= walHighWater
         /\ p => walHighWater' >= End[t]
         /\ \/ lastAcked' = lastAcked
            \/ lastAcked' <= sinkProgress
            \/ ~p /\ lastAcked' = End[t] /\ walHighWater <= sinkProgress
<1>1. End[t] \in LSNs /\ walHighWater \in LSNs /\ lastAcked \in LSNs /\ sinkProgress \in LSNs
  BY Zenon, LogFacts DEF Shape
<1>2. \A n \in LSNs : n \in Nat
  BY Zenon, LogFacts
<1>3. CASE p
  <2>1. walHighWater' = Larger(walHighWater, End[t]) /\ lastAcked' = Larger(lastAcked, SafeAck(walHighWater'))
    BY Zenon, <1>3 DEF AfterCommit
  <2>2. walHighWater' \in LSNs /\ walHighWater' >= walHighWater /\ walHighWater' >= End[t]
    BY Zenon, <1>1, <2>1, Bounds
  <2>3. SafeAck(walHighWater') \in LSNs /\ SafeAck(walHighWater') <= sinkProgress
    BY Zenon, <1>1, <2>2, Bounds DEF SafeAck
  <2>4. lastAcked' \in LSNs /\ lastAcked' \in {lastAcked, SafeAck(walHighWater')}
    BY Zenon, <1>1, <2>1, <2>3, Bounds
  <2>. QED  BY Zenon, <2>2, <2>3, <2>4
<1>4. CASE ~p
  <2>. DEFINE ack == IF SafeAck(walHighWater) = walHighWater THEN Larger(lastAcked, End[t]) ELSE lastAcked
  <2>1. walHighWater' = walHighWater /\ lastAcked' = Larger(ack, SafeAck(walHighWater))
    BY Zenon, <1>4 DEF AfterCommit
  <2>2. SafeAck(walHighWater) \in LSNs /\ SafeAck(walHighWater) <= sinkProgress
    BY Zenon, <1>1, Bounds DEF SafeAck
  <2>3. /\ ack \in LSNs
        /\ ack = lastAcked \/ (ack = End[t] /\ walHighWater <= sinkProgress)
    BY Zenon, <1>1, <2>2, Bounds
  <2>. HIDE DEF ack
  <2>4. lastAcked' \in LSNs /\ lastAcked' \in {ack, SafeAck(walHighWater)}
    BY Zenon, <2>1, <2>2, <2>3, Bounds
  <2>5. walHighWater' >= walHighWater
    BY <2>1, <1>1, <1>2
  <2>. QED  BY Zenon, <1>1, <1>4, <2>1, <2>2, <2>3, <2>4, <2>5
<1>. QED  BY Zenon, <1>3, <1>4

-----------------------------------------------------------------------------
(* Every step keeps the invariant. *)

\* The invariant holds at the start.
LEMMA InitInv == PostgresAssumption /\ Init => IInv
<1>. SUFFICES ASSUME PostgresAssumption, Init PROVE IInv
  BY Zenon
<1>1. Shape
  BY LogFacts, EmptySeq DEF Init, Shape
<1>2. Phases /\ Outbox
  BY Zenon, EmptySeq DEF Init, Phases, Modes, Outbox
<1>3. Len(pipe) = 0
  BY Zenon DEF Init
<1>4. \A t, i : Owed(slotStart, t, i) => End[t] > 0
  BY Zenon, LogFacts DEF Owed
<1>5. Marks
  BY SMTT(30), <1>3, <1>4, LogFacts DEF Marks, Init, Owed
<1>6. Acked /\ Streamed /\ Scanned
  BY Zenon DEF Init, Acked, Streamed, Scanned
<1>. QED  BY Zenon, <1>1, <1>2, <1>5, <1>6 DEF IInv

\* Every step keeps the domains.
LEMMA ShapeStep == ASSUME PostgresAssumption, IInv, [Next]_vars PROVE Shape'
<1>. USE DEF Shape
<1>0. Shape /\ Phases /\ Outbox /\ Marks
  BY Zenon DEF IInv
<1>1. CASE CommitTxn
  <2>1. committed' \in 0..NTxns /\ slotStart \in 0..committed'
    BY <1>0, <1>1, LogFacts DEF CommitTxn
  <2>. QED  BY Zenon, <1>0, <1>1, <2>1 DEF CommitTxn, connVars, bootVars, sinkVars
<1>2. CASE SkipBootstrap
  BY Zenon, <1>0, <1>2 DEF SkipBootstrap, BootStill, connVars, bootVars
<1>3. CASE CreateSlot
  <2>1. confirmed' \in LSNs
    BY SMTT(30), <1>0, <1>3, LogFacts DEF CreateSlot, Txns
  <2>. QED  BY <1>0, <1>3, <2>1, LogFacts DEF CreateSlot, connVars, bootVars, sinkVars
<1>4. CASE ReadTables
  <2>1. scan' \in Seq(0..NTxns)
    BY SMTT(30), <1>0, <1>4, LogFacts DEF ReadTables, Rows
  <2>. QED  BY Zenon, <1>0, <1>4, <2>1 DEF ReadTables, BootStill, connVars
<1>5. CASE PublishSnapshotRow
  <2>1. scan' \in Seq(0..NTxns)
    BY Zenon, <1>0, <1>5, HeadTailProperties DEF PublishSnapshotRow
  <2>2. SnapshotOf(NRows - Len(scan) + 1, Head(scan)) \in SUBSET Items
    BY Zenon, <1>0, <1>5, ScanFacts, SnapshotFacts DEF IInv, PublishSnapshotRow
  <2>3. pipe' \in Seq(Entries) /\ Len(pipe') = Len(pipe) + 1 /\ Len(pipe) \in Nat
    BY Zenon, <1>0, <1>5, <2>2, PublishFacts, LogFacts DEF PublishSnapshotRow
  <2>4. Len(pipe') <= BusCapacity
    BY <1>5, <2>3, LogFacts DEF PublishSnapshotRow, HasRoom
  <2>. QED  BY Zenon, <1>0, <1>5, <2>1, <2>3, <2>4 DEF PublishSnapshotRow, BootStill, connVars
<1>6. CASE BootstrapDone
  BY Zenon, <1>0, <1>6 DEF BootstrapDone, BootStill, connVars
<1>7. CASE Connect
  BY Zenon, <1>0, <1>7, LogFacts DEF Connect, ServerStill, bootVars, sinkVars
<1>8. CASE SlotMissing
  BY Zenon, <1>0, <1>8 DEF SlotMissing, ServerStill, bootVars, connVars, sinkVars
<1>9. CASE ReceiveBegin
  BY SMTT(30), <1>0, <1>9, LogFacts DEF ReceiveBegin, StreamStill, ServerStill, bootVars, sinkVars
<1>10. CASE ReceiveCommit
  <2>1. sent \in Txns
    BY Zenon, <1>0, <1>10 DEF ReceiveCommit, Outbox
  <2>2. walHighWater' \in LSNs /\ lastAcked' \in LSNs
    BY Zenon, <1>0, <1>10, <2>1, CommitFacts DEF ReceiveCommit
  <2>. QED  BY Zenon, <1>0, <1>10, <2>2 DEF ReceiveCommit, StreamStill, ServerStill, bootVars, sinkVars
<1>11. CASE PublishEvent
  <2>1. outbox # <<>>
    BY Zenon, <1>11 DEF PublishEvent
  <2>2. walHighWater' \in LSNs /\ lastAcked' \in LSNs
    BY Zenon, <1>0, <1>11, <2>1, CommitFacts, OutboxFacts DEF PublishEvent
  <2>3. {Head(outbox).change} \in SUBSET Items /\ Head(outbox).mark \in LSNs
    BY Zenon, <1>0, <2>1, OutboxFacts DEF Pending
  <2>4. pipe' \in Seq(Entries) /\ Len(pipe') = Len(pipe) + 1 /\ Len(pipe) \in Nat
    BY Zenon, <1>0, <1>11, <2>3, PublishFacts DEF PublishEvent
  <2>5. Len(pipe') <= BusCapacity
    BY <1>11, <2>4, LogFacts DEF PublishEvent, HasRoom
  <2>. QED  BY Zenon, <1>0, <1>11, <2>2, <2>4, <2>5 DEF PublishEvent, StreamStill, ServerStill, bootVars
<1>12. CASE HandleEvent
  <2>1. pipe' \in Seq(Entries) /\ Len(pipe') = Len(pipe)
    BY Zenon, <1>0, <1>12, HandleFacts
  <2>2. delivered' \in SUBSET Items
    <3>1. PICK i \in 1..Len(pipe) : delivered' = delivered \cup pipe[i].brings
      BY Zenon, <1>0, <1>12, HandleFacts
    <3>2. pipe[i] \in Entries
      BY Zenon, <1>0, ElementOfSeq
    <3>3. pipe[i].brings \in SUBSET Items
      BY Zenon, <3>2 DEF Entries
    <3>. QED  BY Zenon, <1>0, <3>1, <3>3
  <2>. QED  BY Zenon, <1>0, <1>12, <2>1, <2>2 DEF HandleEvent, serverVars, bootVars, connVars
<1>13. CASE AdvanceProgress
  <2>1. pipe' \in Seq(Entries) /\ Len(pipe') <= BusCapacity
    BY <1>0, <1>13, AdvanceFacts, LogFacts
  <2>2. Head(pipe).mark \in LSNs
    <3>1. Head(pipe) \in Entries
      BY Zenon, <1>0, <1>13, HeadTailProperties DEF AdvanceProgress
    <3>. QED  BY Zenon, <3>1 DEF Entries
  <2>3. sinkProgress' \in LSNs
    BY Zenon, <1>0, <1>13, <2>2, Bounds DEF AdvanceProgress
  <2>. QED  BY Zenon, <1>0, <1>13, <2>1, <2>3 DEF AdvanceProgress, serverVars, bootVars, connVars
<1>14. CASE FlushTimer
  <2>1. lastAcked' \in LSNs
    BY Zenon, <1>0, <1>14, Bounds DEF FlushTimer, SafeAck
  <2>. QED  BY Zenon, <1>0, <1>14, <2>1 DEF FlushTimer, StreamStill, ServerStill, bootVars, sinkVars
<1>15. CASE KeepAlive
  BY Zenon, <1>0, <1>15 DEF KeepAlive, StreamStill, ServerStill, bootVars, sinkVars
<1>16. CASE StatusUpdate
  BY Zenon, <1>0, <1>16 DEF StatusUpdate, bootVars, connVars, sinkVars
<1>17. CASE StreamEnds
  BY SMTT(30), <1>0, <1>17, LogFacts DEF StreamEnds, ServerStill, bootVars, connVars, sinkVars
<1>18. CASE EngineReturns
  BY Zenon, <1>0, <1>18 DEF EngineReturns, ServerStill, bootVars, connVars, sinkVars
<1>19. ASSUME NEW h \in BOOLEAN, mode # "down", Retry(h)
       PROVE  Shape'
  <2>1. faults' \in 0..MaxFaults
    BY <1>0, <1>19, LogFacts DEF Retry
  <2>2. failures' \in 0..MaxFailures /\ (mode' # "down" => failures' < MaxFailures)
    BY SMTT(30), <1>0, <1>19, LogFacts DEF Retry
  <2>. QED  BY Zenon, <1>0, <1>19, <2>1, <2>2 DEF Retry, ServerStill, bootVars, connVars, sinkVars
<1>20. CASE ConnectFails \/ ConnectionDrops
  BY Zenon, <1>20, <1>19 DEF ConnectFails, ConnectionDrops
<1>21. CASE Crash
  BY SMTT(30), <1>0, <1>21, LogFacts DEF Crash, serverVars, bootVars, connVars, sinkVars
<1>22. CASE LoseSlot
  BY SMTT(30), <1>0, <1>22, LogFacts DEF LoseSlot, bootVars, connVars, sinkVars
<1>23. CASE Restart
  BY <1>0, <1>23, LogFacts, EmptySeq DEF Restart, serverVars
<1>24. CASE UNCHANGED vars
  BY Zenon, <1>0, <1>24 DEF vars, serverVars, bootVars, connVars, sinkVars
<1>. QED
  BY Zenon, <1>1, <1>2, <1>3, <1>4, <1>5, <1>6, <1>7, <1>8, <1>9, <1>10, <1>11, <1>12, <1>13, <1>14,
     <1>15, <1>16, <1>17, <1>18, <1>20, <1>21, <1>22, <1>23, <1>24
  DEF Next, Bootstrap, Stream, Deliver

\* Every step keeps the modes together with what they imply.
LEMMA PhasesStep == ASSUME PostgresAssumption, IInv, [Next]_vars PROVE Phases'
<1>. USE DEF Phases, Modes
<1>0. Phases
  BY Zenon DEF IInv
<1>1. CASE CommitTxn
  BY Zenon, <1>0, <1>1 DEF CommitTxn, connVars, bootVars, sinkVars
<1>2. CASE SkipBootstrap
  BY Zenon, <1>0, <1>2 DEF SkipBootstrap, BootStill, connVars, bootVars
<1>4. CASE ReadTables
  BY Zenon, <1>0, <1>4 DEF ReadTables, BootStill, connVars
<1>6. CASE BootstrapDone
  BY Zenon, <1>0, <1>6 DEF BootstrapDone, BootStill, connVars
<1>3. CASE CreateSlot
  BY Zenon, <1>0, <1>3 DEF CreateSlot, connVars, bootVars, sinkVars
<1>5. CASE PublishSnapshotRow
  BY Zenon, <1>0, <1>5 DEF PublishSnapshotRow, BootStill, connVars
<1>7. CASE Connect
  BY Zenon, <1>0, <1>7 DEF Connect, ServerStill, bootVars, sinkVars
<1>8. CASE SlotMissing \/ EngineReturns \/ StreamEnds
  BY Zenon, <1>0, <1>8 DEF SlotMissing, EngineReturns, StreamEnds, ServerStill, bootVars, connVars, sinkVars
<1>9. CASE ReceiveBegin \/ ReceiveCommit \/ PublishEvent \/ FlushTimer \/ KeepAlive
  <2>1. mode = "stream" /\ mode' = mode /\ slot' = slot /\ bootstrapped' = bootstrapped
    BY Zenon, <1>9 DEF ReceiveBegin, ReceiveCommit, PublishEvent, FlushTimer, KeepAlive, StreamStill, ServerStill,
                bootVars
  <2>2. open' \in BOOLEAN
    BY Zenon, <1>0, <1>9 DEF ReceiveBegin, ReceiveCommit, PublishEvent, FlushTimer, KeepAlive
  <2>. QED  BY Zenon, <1>0, <2>1, <2>2
<1>12. CASE HandleEvent
  <2>1. mode # "boot"
    BY <1>0, <1>12 DEF HandleEvent
  <2>. QED  BY Zenon, <1>0, <1>12, <2>1 DEF HandleEvent, serverVars, bootVars, connVars
<1>13. CASE AdvanceProgress
  BY Zenon, <1>0, <1>13 DEF AdvanceProgress, serverVars, bootVars, connVars
<1>16. CASE StatusUpdate
  BY Zenon, <1>0, <1>16 DEF StatusUpdate, bootVars, connVars, sinkVars
<1>19. ASSUME NEW h \in BOOLEAN, mode \in {"connect", "stream"}, Retry(h)
       PROVE  Phases'
  <2>1. mode' \in {"down", "connect"}
    BY Zenon, <1>19 DEF Retry
  <2>. QED  BY Zenon, <1>0, <1>19, <2>1 DEF Retry, ServerStill, bootVars, connVars, sinkVars
<1>20. CASE ConnectFails \/ ConnectionDrops
  BY Zenon, <1>20, <1>19 DEF ConnectFails, ConnectionDrops
<1>21. CASE Crash
  BY Zenon, <1>0, <1>21 DEF Crash, serverVars, bootVars, connVars, sinkVars
<1>22. CASE LoseSlot
  BY Zenon, <1>0, <1>22 DEF LoseSlot, bootVars, connVars, sinkVars
<1>23. CASE Restart
  BY Zenon, <1>0, <1>23 DEF Restart, serverVars
<1>24. CASE UNCHANGED vars
  BY Zenon, <1>0, <1>24 DEF vars, serverVars, bootVars, connVars, sinkVars
<1>. QED
  BY Zenon, <1>1, <1>2, <1>3, <1>4, <1>5, <1>6, <1>7, <1>8, <1>9, <1>12, <1>13, <1>16, <1>20, <1>21, <1>22, <1>23, <1>24
  DEF Next, Bootstrap, Stream, Deliver

\* Every step keeps the outbox a suffix of the last transaction.
LEMMA OutboxStep == ASSUME PostgresAssumption, IInv, [Next]_vars PROVE Outbox'
<1>0. Shape /\ Phases /\ Outbox
  BY Zenon DEF IInv
<1>1. CASE UNCHANGED <<outbox, open, sent>>
  BY Zenon, <1>0, <1>1 DEF Outbox
<1>2. CASE Connect \/ Restart
  BY Zenon, <1>2, EmptySeq DEF Outbox, Connect, Restart
<1>3. CASE ReceiveBegin
  <2>1. sent' \in Txns
    BY <1>0, <1>3, LogFacts DEF ReceiveBegin, Shape, Txns
  <2>. QED  BY Zenon, <1>0, <1>3, <2>1 DEF Outbox, ReceiveBegin
<1>4. CASE ReceiveCommit
  <2>1. sent \in Txns /\ sent' = sent /\ outbox' = EventsOf(sent) /\ open' = FALSE
    BY Zenon, <1>0, <1>4 DEF Outbox, ReceiveCommit
  <2>2. Len(Changes[sent]) \in Nat /\ EventsOf(sent) \in Seq(Pending) /\ Len(EventsOf(sent)) = Len(Changes[sent])
    BY Zenon, <2>1, EventsFacts
  <2>. QED  BY <2>1, <2>2 DEF Outbox
<1>5. CASE PublishEvent
  <2>1. outbox # <<>> /\ outbox' = Tail(outbox) /\ sent' = sent /\ open' = open
    BY Zenon, <1>5 DEF PublishEvent
  <2>2. /\ sent \in Txns /\ outbox' \in Seq(Pending) /\ Len(outbox') = Len(outbox) - 1
        /\ Len(outbox) \in Nat /\ Len(Changes[sent]) \in Nat /\ Len(outbox) <= Len(Changes[sent])
        /\ \A n \in 1..Len(outbox') : outbox'[n] = outbox[n + 1]
    BY Zenon, <1>0, <2>1, OutboxFacts, LogFacts DEF Outbox
  <2>3. ~open
    BY Zenon, <1>0, <2>1 DEF Outbox, Phases
  <2>4. ASSUME NEW n \in 1..Len(outbox')
        PROVE  outbox'[n] = EventsOf(sent)[Len(Changes[sent]) - Len(outbox') + n]
    <3>1. n + 1 \in 1..Len(outbox)
      BY <2>2
    <3>2. outbox[n + 1] = EventsOf(sent)[Len(Changes[sent]) - Len(outbox) + (n + 1)]
      BY Zenon, <1>0, <2>1, <3>1 DEF Outbox
    <3>3. n \in Nat /\ Len(outbox') = Len(outbox) - 1 /\ Len(outbox) \in Nat /\ Len(Changes[sent]) \in Nat
      BY <2>2
    <3>4. PICK a \in Nat : a = Len(Changes[sent])
      BY Zenon, <3>3
    <3>5. PICK b \in Nat : b = Len(outbox)
      BY Zenon, <3>3
    <3>6. a - b + (n + 1) = a - (b - 1) + n
      BY <3>3
    <3>7. Len(outbox') = b - 1
      BY Zenon, <3>3, <3>5
    <3>8. outbox[n + 1] = EventsOf(sent)[a - (b - 1) + n]
      BY Zenon, <3>2, <3>4, <3>5, <3>6
    <3>. QED  BY Zenon, <2>2, <3>4, <3>7, <3>8
  <2>5. Len(outbox') <= Len(Changes[sent])
    BY <2>2
  <2>. QED  BY Zenon, <2>1, <2>2, <2>3, <2>4, <2>5 DEF Outbox
<1>6. \/ UNCHANGED <<outbox, open, sent>> \/ Connect \/ Restart \/ ReceiveBegin \/ ReceiveCommit \/ PublishEvent
  BY Zenon DEF Next, vars, connVars, Bootstrap, Stream, Deliver, CommitTxn, SkipBootstrap, CreateSlot, ReadTables,
     PublishSnapshotRow, BootstrapDone, BootStill, SlotMissing, HandleEvent, AdvanceProgress, FlushTimer,
     KeepAlive, StatusUpdate, StreamEnds, EngineReturns, ConnectFails, ConnectionDrops, Retry, Crash, LoseSlot
<1>. QED  BY Zenon, <1>1, <1>2, <1>3, <1>4, <1>5, <1>6

\* What an event of the stream leaves behind it: its mark is covered up to itself.
LEMMA PublishEventFacts ==
  ASSUME PostgresAssumption, IInv, PublishEvent
  PROVE  LET n == Len(pipe) + 1
         IN  /\ Len(pipe) \in Nat /\ Len(pipe') = n
             /\ \A k \in 1..Len(pipe) : pipe'[k] = pipe[k]
             /\ ~pipe'[n].handled
             /\ sent \in Txns /\ Left \in Nat /\ Left + 1 \in 1..Len(Changes[sent])
             /\ pipe'[n].brings = {<<sent, Left + 1>>}
             /\ pipe'[n].mark \in Nat
             /\ Len(outbox) = 1 => pipe'[n].mark = End[sent] /\ Left + 1 = Len(Changes[sent])
             /\ Len(outbox) # 1 => pipe'[n].mark < End[sent]
<1>1. Shape /\ Outbox /\ outbox # <<>> /\ Published({Head(outbox).change}, Head(outbox).mark)
  BY Zenon DEF IInv, PublishEvent
<1>2. /\ sent \in Txns /\ Left \in Nat /\ Left + 1 \in 1..Len(Changes[sent])
      /\ Head(outbox) \in Pending /\ Head(outbox).change = <<sent, Left + 1>>
      /\ Head(outbox).mark = IF Left + 1 = Len(Changes[sent]) THEN End[sent] ELSE Changes[sent][Left + 1].lsn
      /\ Len(outbox) = 1 <=> Left + 1 = Len(Changes[sent])
  BY Zenon, <1>1, OutboxFacts
<1>3. {Head(outbox).change} \in SUBSET Items /\ Head(outbox).mark \in LSNs
  BY Zenon, <1>2 DEF Pending
<1>4. /\ Len(pipe) \in Nat /\ Len(pipe') = Len(pipe) + 1
      /\ \A k \in 1..Len(pipe) : pipe'[k] = pipe[k]
      /\ pipe'[Len(pipe) + 1].brings = {Head(outbox).change}
      /\ pipe'[Len(pipe) + 1].mark = Head(outbox).mark
      /\ ~pipe'[Len(pipe) + 1].handled
  BY Zenon, <1>1, <1>3, PublishFacts DEF Shape
<1>5. Head(outbox).mark \in Nat
  BY Zenon, <1>3, LogFacts
<1>6. Len(outbox) # 1 => Head(outbox).mark < End[sent]
  BY Zenon, <1>2, LogFacts
<1>. DEFINE n == Len(pipe) + 1
<1>7. /\ ~pipe'[n].handled /\ pipe'[n].brings = {<<sent, Left + 1>>}
      /\ pipe'[n].mark = Head(outbox).mark
  BY Zenon, <1>2, <1>4
<1>8. Len(outbox) = 1 => Head(outbox).mark = End[sent]
  BY Zenon, <1>2
<1>9. Len(pipe') = n
  BY Zenon, <1>4
<1>. HIDE DEF n
<1>10. /\ ~pipe'[n].handled /\ pipe'[n].mark \in Nat
       /\ Len(outbox) = 1 => pipe'[n].mark = End[sent]
       /\ Len(outbox) # 1 => pipe'[n].mark < End[sent]
  BY Zenon, <1>5, <1>6, <1>7, <1>8
<1>. QED  BY Zenon, <1>2, <1>4, <1>7, <1>9, <1>10 DEF n

\* Every step keeps the marks behind what is on the bus before them.
LEMMA MarksStep == ASSUME PostgresAssumption, IInv, [Next]_vars PROVE Marks'
<1>0. Shape /\ Phases /\ Marks /\ Streamed
  BY Zenon DEF IInv
<1>a. \A t, i : Owed(slotStart, t, i) => t \in Txns /\ End[t] \in Nat /\ End[t] > 0
  BY Zenon, LogFacts DEF Owed
<1>b. \A t, i : Owed(slotStart', t, i) => End[t] \in Nat /\ End[t] > 0
  BY Zenon, LogFacts DEF Owed
<1>c. pipe \in Seq(Entries) /\ sinkProgress \in Nat
  BY Zenon, <1>0, LogFacts DEF Shape
<1>1. CASE UNCHANGED <<pipe, delivered, slotStart, sinkProgress>>
  BY Zenon, <1>0, <1>1 DEF Marks
<1>2. CASE CreateSlot \/ Restart
  <2>1. pipe' = <<>> /\ sinkProgress' = 0
    BY Zenon, <1>0, <1>2 DEF CreateSlot, Restart, Phases, sinkVars
  <2>. QED  BY <2>1, <1>b DEF Marks
<1>3. CASE HandleEvent
  <2>1. /\ Len(pipe) \in Nat /\ Len(pipe') = Len(pipe)
        /\ \A k \in 1..Len(pipe) : pipe'[k].brings = pipe[k].brings /\ pipe'[k].mark = pipe[k].mark
        /\ \A k \in 1..Len(pipe) : pipe'[k].handled => pipe[k].handled \/ pipe[k].brings \subseteq delivered'
        /\ delivered \subseteq delivered'
    BY Zenon, <1>c, <1>3, HandleFacts
  <2>2. slotStart' = slotStart /\ sinkProgress' = sinkProgress
    BY Zenon, <1>3 DEF HandleEvent, serverVars
  <2>3. \A k \in 1..Len(pipe') : pipe'[k].handled => pipe'[k].brings \subseteq delivered'
    BY Zenon, <1>0, <2>1 DEF Marks
  <2>4. ASSUME NEW k \in 1..Len(pipe'), NEW t, NEW i, Owed(slotStart, t, i), End[t] <= pipe'[k].mark
        PROVE  Covered(delivered', pipe', <<t, i>>, k)
    <3>1. Covered(delivered, pipe, <<t, i>>, k)
      BY Zenon, <1>0, <2>1, <2>4 DEF Marks
    <3>. QED  BY <2>1, <3>1, CoveredGrows
  <2>. QED  BY Zenon, <1>0, <2>1, <2>2, <2>3, <2>4 DEF Marks
<1>4. CASE AdvanceProgress
  <2>1. /\ Len(pipe) \in Nat /\ Len(pipe) > 0 /\ Len(pipe') = Len(pipe) - 1
        /\ \A k \in 1..Len(pipe') : pipe'[k] = pipe[k + 1]
        /\ Head(pipe) = pipe[1] /\ pipe[1].brings \subseteq delivered
        /\ \A x : \A k \in 1..Len(pipe) :
              Covered(delivered, pipe, x, k) => Covered(delivered, pipe', x, k - 1)
    BY Zenon, <1>0, <1>c, <1>4, AdvanceFacts
  <2>2. slotStart' = slotStart /\ delivered' = delivered /\ sinkProgress' = Larger(sinkProgress, pipe[1].mark)
    BY Zenon, <1>4, <2>1 DEF AdvanceProgress, serverVars
  <2>3. \A k \in 1..Len(pipe') : k + 1 \in 1..Len(pipe) /\ (k + 1) - 1 = k
    BY <2>1
  <2>4. ASSUME NEW k \in 1..Len(pipe') PROVE pipe'[k].handled => pipe'[k].brings \subseteq delivered
    BY Zenon, <1>0, <2>1, <2>3 DEF Marks
  <2>5. ASSUME NEW k \in 1..Len(pipe'), NEW t, NEW i, Owed(slotStart, t, i), End[t] <= pipe'[k].mark
        PROVE  Covered(delivered, pipe', <<t, i>>, k)
    <3>1. Covered(delivered, pipe, <<t, i>>, k + 1)
      BY Zenon, <1>0, <2>1, <2>3, <2>5 DEF Marks
    <3>. QED  BY Zenon, <2>1, <2>3, <3>1
  <2>6. ASSUME NEW t, NEW i, Owed(slotStart, t, i), End[t] <= sinkProgress'
        PROVE  <<t, i>> \in delivered
    <3>1. sinkProgress' = sinkProgress \/ sinkProgress' = pipe[1].mark
      BY Zenon, <2>2 DEF Larger
    <3>2. CASE sinkProgress' = sinkProgress
      BY Zenon, <1>0, <2>6, <3>2 DEF Marks
    <3>3. CASE sinkProgress' = pipe[1].mark
      <4>1. Covered(delivered, pipe, <<t, i>>, 1)
        BY <1>0, <2>1, <2>6, <3>3 DEF Marks
      <4>2. \A j \in 1..1 : j = 1
        OBVIOUS
      <4>. QED  BY Zenon, <2>1, <4>1, <4>2 DEF Covered
    <3>. QED  BY Zenon, <3>1, <3>2, <3>3
  <2>. QED  BY Zenon, <2>2, <2>4, <2>5, <2>6 DEF Marks
<1>5. CASE PublishSnapshotRow
  <2>1. SnapshotOf(NRows - Len(scan) + 1, Head(scan)) \in SUBSET Items
    BY Zenon, <1>0, <1>5, ScanFacts, SnapshotFacts DEF IInv, PublishSnapshotRow
  <2>2. /\ Len(pipe) \in Nat /\ Len(pipe') = Len(pipe) + 1
        /\ \A k \in 1..Len(pipe) : pipe'[k] = pipe[k]
        /\ ~pipe'[Len(pipe) + 1].handled /\ pipe'[Len(pipe) + 1].mark = 0
    <3>1. /\ 0 \in LSNs
          /\ Published(SnapshotOf(NRows - Len(scan) + 1, Head(scan)), 0)
      BY Zenon, <1>5, LogFacts DEF PublishSnapshotRow
    <3>. QED  BY Zenon, <1>c, <2>1, <3>1, PublishFacts
  <2>3. slotStart' = slotStart /\ delivered' = delivered /\ sinkProgress' = sinkProgress
    BY Zenon, <1>5 DEF PublishSnapshotRow, BootStill
  <2>4. \A k \in 1..Len(pipe') : k \in 1..Len(pipe) \/ k = Len(pipe) + 1
    BY <2>2
  <2>5. ASSUME NEW k \in 1..Len(pipe') PROVE pipe'[k].handled => pipe'[k].brings \subseteq delivered
    BY Zenon, <1>0, <2>2, <2>4 DEF Marks
  <2>6. ASSUME NEW k \in 1..Len(pipe'), NEW t, NEW i, Owed(slotStart, t, i), End[t] <= pipe'[k].mark
        PROVE  Covered(delivered, pipe', <<t, i>>, k)
    <3>1. k \in 1..Len(pipe)
      BY <1>a, <2>2, <2>4, <2>6
    <3>2. Covered(delivered, pipe, <<t, i>>, k)
      BY Zenon, <1>0, <2>2, <2>6, <3>1 DEF Marks
    <3>. QED  BY <2>2, <3>1, <3>2, CoveredGrows
  <2>. QED  BY Zenon, <1>0, <2>3, <2>5, <2>6 DEF Marks
<1>6. CASE PublishEvent
  <2>. DEFINE n == Len(pipe) + 1
  <2>1. /\ Len(pipe) \in Nat /\ Len(pipe') = n
        /\ \A k \in 1..Len(pipe) : pipe'[k] = pipe[k]
        /\ ~pipe'[n].handled
        /\ sent \in Txns /\ Left \in Nat /\ Left + 1 \in 1..Len(Changes[sent])
        /\ pipe'[n].brings = {<<sent, Left + 1>>}
        /\ pipe'[n].mark \in Nat
        /\ Len(outbox) = 1 => pipe'[n].mark = End[sent] /\ Left + 1 = Len(Changes[sent])
        /\ Len(outbox) # 1 => pipe'[n].mark < End[sent]
    BY Zenon, <1>6, PublishEventFacts
  <2>2. /\ slotStart' = slotStart /\ delivered' = delivered /\ sinkProgress' = sinkProgress
        /\ mode = "stream" /\ ~open
    BY Zenon, <1>6, <1>0 DEF PublishEvent, StreamStill, ServerStill, Phases, IInv, Outbox
  <2>3. \A k \in 1..Len(pipe') : k \in 1..Len(pipe) \/ k = n
    BY <2>1
  <2>4. ASSUME NEW k \in 1..Len(pipe') PROVE pipe'[k].handled => pipe'[k].brings \subseteq delivered
    BY Zenon, <1>0, <2>1, <2>3 DEF Marks
  <2>5. ASSUME NEW x, Covered(delivered, pipe, x, Len(pipe)) PROVE Covered(delivered, pipe', x, n)
    BY <2>1, <2>5, CoveredGrows
  <2>6. ASSUME NEW k \in 1..Len(pipe'), NEW t, NEW i, Owed(slotStart, t, i), End[t] <= pipe'[k].mark
        PROVE  Covered(delivered, pipe', <<t, i>>, k)
    <3>1. CASE k \in 1..Len(pipe)
      <4>1. Covered(delivered, pipe, <<t, i>>, k)
        BY Zenon, <1>0, <2>1, <2>6, <3>1 DEF Marks
      <4>. QED  BY <2>1, <3>1, <4>1, CoveredGrows
    <3>2. CASE k = n /\ t < sent
      BY Zenon, <1>0, <2>2, <2>5, <2>6, <3>2 DEF Streamed
    <3>3. CASE k = n /\ ~(t < sent)
      <4>1. t = sent /\ Len(outbox) = 1
        <5>1. t \in Nat /\ sent \in Nat /\ t \in Txns /\ End[t] \in Nat /\ End[sent] \in Nat
          BY Zenon, <1>a, <2>1, <2>6, LogFacts
        <5>2. End[t] <= End[sent]
          BY <2>1, <2>6, <3>3, <5>1
        <5>3. ~(sent < t)
          BY SMTT(30), <5>1, <5>2, <2>1, LogFacts
        <5>4. t = sent
          BY <5>1, <5>3, <3>3
        <5>. QED  BY <2>1, <2>6, <3>3, <5>1, <5>4
      <4>2. i \in 1..Len(Changes[sent]) /\ Left + 1 = Len(Changes[sent]) /\ Owed(slotStart, sent, i)
        BY Zenon, <2>1, <2>6, <4>1 DEF Owed
      <4>3. i <= Left \/ i = Left + 1
        BY <2>1, <4>2
      <4>4. CASE i <= Left
        <5>1. Covered(delivered, pipe, <<sent, i>>, Len(pipe))
          BY Zenon, <1>0, <2>2, <4>2, <4>4 DEF Streamed
        <5>. QED  BY Zenon, <5>1, <2>5, <3>3, <4>1
      <4>5. CASE i = Left + 1
        <5>1. <<t, i>> \in pipe'[n].brings /\ n \in 1..k
          BY Zenon, <2>1, <3>3, <4>1, <4>5
        <5>. QED  BY Zenon, <5>1 DEF Covered
      <4>. QED  BY Zenon, <4>3, <4>4, <4>5
    <3>. QED  BY Zenon, <2>3, <3>1, <3>2, <3>3
  <2>. QED  BY Zenon, <1>0, <2>2, <2>4, <2>6 DEF Marks
<1>7. \/ UNCHANGED <<pipe, delivered, slotStart, sinkProgress>> \/ CreateSlot \/ Restart
      \/ HandleEvent \/ AdvanceProgress \/ PublishSnapshotRow \/ PublishEvent
  BY Zenon DEF Next, vars, serverVars, sinkVars, Bootstrap, Stream, Deliver, CommitTxn, SkipBootstrap, ReadTables,
     BootstrapDone, BootStill, Connect, SlotMissing, ReceiveBegin, ReceiveCommit, FlushTimer, KeepAlive,
     StatusUpdate, StreamStill, ServerStill, StreamEnds, EngineReturns, ConnectFails, ConnectionDrops, Retry,
     Crash, LoseSlot
<1>. QED  BY Zenon, <1>1, <1>2, <1>3, <1>4, <1>5, <1>6, <1>7

\* Every step keeps both acknowledged positions behind what is not delivered.
LEMMA AckedStep == ASSUME PostgresAssumption, IInv, [Next]_vars PROVE Acked'
<1>0. Shape /\ Phases /\ Outbox /\ Marks /\ Acked /\ Streamed
  BY Zenon DEF IInv
<1>a. \A t, i : Owed(slotStart, t, i) => t \in Txns /\ t \in Nat /\ End[t] \in Nat /\ End[t] > 0
  BY Zenon, LogFacts DEF Owed
<1>b. \A t, i : Owed(slotStart', t, i) => t \in Txns /\ t \in Nat /\ End[t] \in Nat /\ End[t] > 0
  BY Zenon, LogFacts DEF Owed
<1>c. sinkProgress \in Nat /\ walHighWater \in Nat /\ lastAcked \in Nat /\ sent \in Nat
  BY <1>0, LogFacts DEF Shape
<1>d. \A t, i : Owed(slotStart, t, i) /\ <<t, i>> \notin delivered => End[t] > sinkProgress
  BY <1>0, <1>a, <1>c DEF Marks
<1>1. CASE /\ UNCHANGED <<slot, slotStart, delivered, confirmed, lastAcked>>
           /\ mode' = "stream" => mode = "stream"
  BY Zenon, <1>0, <1>1 DEF Acked
<1>2. CASE HandleEvent
  <2>1. delivered \subseteq delivered'
    BY Zenon, <1>0, <1>2, HandleFacts DEF Shape
  <2>2. UNCHANGED <<slot, slotStart, confirmed, lastAcked, mode>>
    BY Zenon, <1>2 DEF HandleEvent, serverVars, connVars
  <2>. QED  BY Zenon, <1>0, <2>1, <2>2 DEF Acked
<1>3. CASE CreateSlot
  <2>1. slotStart' = committed /\ confirmed' = (IF committed = 0 THEN 0 ELSE End[committed]) /\ mode' # "stream"
    BY Zenon, <1>3 DEF CreateSlot
  <2>2. ASSUME NEW t, NEW i, Owed(slotStart', t, i) PROVE End[t] > confirmed'
    <3>1. t \in Txns /\ committed < t /\ End[t] > 0
      BY Zenon, <1>b, <2>1, <2>2 DEF Owed
    <3>2. committed = 0 \/ committed \in Txns
      BY SMTT(30), <1>0, LogFacts DEF Shape, Txns
    <3>. QED  BY Zenon, <2>1, <3>1, <3>2, LogFacts
  <2>. QED  BY Zenon, <2>1, <2>2 DEF Acked
<1>4. CASE Connect
  <2>1. UNCHANGED <<slot, slotStart, delivered, confirmed>> /\ lastAcked' = 0
    BY Zenon, <1>4 DEF Connect, ServerStill, sinkVars
  <2>. QED  BY Zenon, <1>0, <1>a, <2>1 DEF Acked
<1>5. CASE LoseSlot
  <2>1. slot' = FALSE /\ mode' # "stream"
    BY Zenon, <1>5 DEF LoseSlot
  <2>. QED  BY Zenon, <2>1 DEF Acked
<1>6. CASE Restart
  <2>1. UNCHANGED <<slot, slotStart, delivered, confirmed>> /\ mode' # "stream"
    BY Zenon, <1>6 DEF Restart, serverVars
  <2>. QED  BY Zenon, <1>0, <2>1 DEF Acked
<1>7. CASE StatusUpdate
  <2>1. UNCHANGED <<slot, slotStart, delivered, mode, lastAcked>> /\ mode = "stream" /\ confirmed' = lastAcked
    BY Zenon, <1>7 DEF StatusUpdate, connVars, sinkVars
  <2>. QED  BY Zenon, <1>0, <2>1 DEF Acked
<1>8. ASSUME UNCHANGED <<slot, slotStart, delivered, confirmed, mode>>, mode = "stream",
             \A t, i : Owed(slotStart, t, i) /\ <<t, i>> \notin delivered => End[t] > lastAcked'
      PROVE  Acked'
  BY Zenon, <1>0, <1>8 DEF Acked
<1>9. CASE FlushTimer
  <2>1. lastAcked' \in Nat /\ lastAcked' <= sinkProgress
    <3>1. lastAcked' \in LSNs /\ lastAcked' <= sinkProgress
      BY Zenon, <1>0, <1>9, Bounds DEF FlushTimer, SafeAck, Shape
    <3>. QED  BY Zenon, <3>1, LogFacts
  <2>2. \A t, i : Owed(slotStart, t, i) /\ <<t, i>> \notin delivered => End[t] > lastAcked'
    BY <1>a, <1>c, <1>d, <2>1
  <2>3. UNCHANGED <<slot, slotStart, delivered, confirmed, mode>> /\ mode = "stream"
    BY Zenon, <1>9 DEF FlushTimer, StreamStill, ServerStill, sinkVars
  <2>. QED  BY Zenon, <1>8, <2>2, <2>3
<1>10. CASE KeepAlive
  <2>1. PICK L \in LSNs : Announced(L) /\ lastAcked' = L
    BY Zenon, <1>10 DEF KeepAlive
  <2>2. mode = "stream" /\ outbox = <<>> /\ ~open /\ Drained
    BY Zenon, <1>10 DEF KeepAlive
  <2>3. walHighWater = 0 \/ walHighWater <= sinkProgress
    BY <1>c, <2>2 DEF Drained, SafeAck, Smaller
  <2>4. ASSUME NEW t, NEW i, Owed(slotStart, t, i), <<t, i>> \notin delivered PROVE End[t] > L
    <3>1. L \in Nat
      BY Zenon, LogFacts
    <3>2. SUFFICES ASSUME End[t] <= L PROVE FALSE
      BY <1>a, <2>4, <3>1
    <3>3. t <= sent
      BY Zenon, <1>a, <2>1, <2>4, <3>2 DEF Announced
    <3>4. t < sent \/ t = sent
      BY <1>a, <1>c, <2>4, <3>3
    <3>5. End[t] <= walHighWater
      BY Zenon, <1>0, <2>2, <2>4, <3>4 DEF Streamed
    <3>. QED  BY <1>a, <1>c, <1>d, <2>3, <2>4, <3>5
  <2>5. UNCHANGED <<slot, slotStart, delivered, confirmed, mode>>
    BY Zenon, <1>10 DEF KeepAlive, StreamStill, ServerStill, sinkVars
  <2>. QED  BY Zenon, <1>8, <2>1, <2>2, <2>4, <2>5
<1>11. CASE ReceiveBegin
  BY Zenon, <1>0, <1>11 DEF Acked, ReceiveBegin, StreamStill, ServerStill, sinkVars
<1>12. ASSUME mode = "stream", sent \in Txns, NEW p \in BOOLEAN, AfterCommit(sent, p),
              ~p => Changes[sent] = <<>>
       PROVE  \A t, i : Owed(slotStart, t, i) /\ <<t, i>> \notin delivered => End[t] > lastAcked'
  <2>. TAKE t, i
  <2>1. HAVE Owed(slotStart, t, i) /\ <<t, i>> \notin delivered
  <2>2. /\ lastAcked' \in Nat
        /\ \/ lastAcked' = lastAcked
           \/ lastAcked' <= sinkProgress
           \/ ~p /\ lastAcked' = End[sent] /\ walHighWater <= sinkProgress
    BY Zenon, <1>0, <1>12, CommitFacts, LogFacts
  <2>3. CASE lastAcked' = lastAcked
    BY Zenon, <1>0, <1>12, <2>1, <2>3 DEF Acked
  <2>4. CASE lastAcked' <= sinkProgress
    BY <1>a, <1>c, <1>d, <2>1, <2>2, <2>4
  <2>5. CASE ~p /\ lastAcked' = End[sent] /\ walHighWater <= sinkProgress
    <3>1. ~(t < sent)
      <4>1. t < sent => End[t] <= walHighWater
        BY Zenon, <1>0, <1>12, <2>1 DEF Streamed
      <4>. QED  BY <1>a, <1>c, <1>d, <2>1, <2>5, <4>1
    <3>2. t # sent
      <4>1. Len(Changes[sent]) = 0
        BY <1>12, <2>5
      <4>. QED  BY <2>1, <4>1 DEF Owed
    <3>3. sent < t
      BY <1>a, <1>c, <2>1, <3>1, <3>2
    <3>. QED  BY Zenon, <1>a, <1>12, <2>1, <2>5, <3>3, LogFacts
  <2>. QED  BY Zenon, <2>2, <2>3, <2>4, <2>5
<1>13. CASE ReceiveCommit
  <2>1. UNCHANGED <<slot, slotStart, delivered, confirmed, mode>> /\ mode = "stream" /\ sent \in Txns
    BY Zenon, <1>0, <1>13 DEF ReceiveCommit, StreamStill, ServerStill, sinkVars, Outbox
  <2>2. CASE Changes[sent] = <<>>
    BY Zenon, <1>8, <1>12, <1>13, <2>1, <2>2 DEF ReceiveCommit
  <2>3. CASE Changes[sent] # <<>>
    BY Zenon, <1>0, <1>13, <2>1, <2>3 DEF ReceiveCommit, Acked
  <2>. QED  BY Zenon, <2>2, <2>3
<1>14. CASE PublishEvent
  <2>1. UNCHANGED <<slot, slotStart, delivered, confirmed, mode>> /\ mode = "stream" /\ sent \in Txns
    BY Zenon, <1>0, <1>14 DEF PublishEvent, StreamStill, ServerStill, Outbox
  <2>2. CASE Len(outbox) = 1
    BY Zenon, <1>8, <1>12, <1>14, <2>1, <2>2 DEF PublishEvent
  <2>3. CASE Len(outbox) # 1
    BY Zenon, <1>0, <1>14, <2>1, <2>3 DEF PublishEvent, Acked
  <2>. QED  BY Zenon, <2>2, <2>3
<1>15. \/ HandleEvent \/ CreateSlot \/ Connect \/ LoseSlot \/ Restart \/ StatusUpdate \/ FlushTimer \/ KeepAlive
       \/ ReceiveBegin \/ ReceiveCommit \/ PublishEvent
       \/ /\ UNCHANGED <<slot, slotStart, delivered, confirmed, lastAcked>>
          /\ mode' = "stream" => mode = "stream"
  BY Zenon DEF Next, vars, serverVars, connVars, sinkVars, Bootstrap, Stream, Deliver, CommitTxn, SkipBootstrap,
     ReadTables, PublishSnapshotRow, BootstrapDone, BootStill, SlotMissing, AdvanceProgress, ServerStill,
     StreamEnds, EngineReturns, ConnectFails, ConnectionDrops, Retry, Crash
<1>. QED  BY Zenon, <1>1, <1>2, <1>3, <1>4, <1>5, <1>6, <1>7, <1>9, <1>10, <1>11, <1>13, <1>14, <1>15

\* Every step keeps what was received covered, and below the high-water mark.
LEMMA StreamedStep == ASSUME PostgresAssumption, IInv, [Next]_vars PROVE Streamed'
<1>0. Shape /\ Phases /\ Outbox /\ Marks /\ Acked /\ Streamed
  BY Zenon DEF IInv
<1>a. \A t, i : Owed(slotStart, t, i) => /\ t \in Txns /\ t \in Nat /\ End[t] \in Nat /\ End[t] > 0
                                         /\ i \in 1..Len(Changes[t]) /\ Len(Changes[t]) \in Nat
  BY Zenon, LogFacts DEF Owed
<1>b. sent \in Nat /\ walHighWater \in Nat /\ confirmed \in Nat /\ pipe \in Seq(Entries) /\ Len(pipe) \in Nat
  BY <1>0, LogFacts, LenProperties DEF Shape
<1>1. CASE mode' # "stream"
  BY Zenon, <1>1 DEF Streamed
<1>2. CASE UNCHANGED <<mode, slotStart, delivered, pipe, sent, open, outbox, walHighWater>>
  BY Zenon, <1>0, <1>2 DEF Streamed, Left
<1>3. ASSUME UNCHANGED <<mode, slotStart, sent, open, outbox, walHighWater>>, delivered \subseteq delivered',
             \A x : Covered(delivered, pipe, x, Len(pipe)) => Covered(delivered', pipe', x, Len(pipe'))
      PROVE  Streamed'
  BY Zenon, <1>0, <1>3 DEF Streamed, Left
<1>4. CASE HandleEvent
  <2>1. /\ Len(pipe') = Len(pipe) /\ delivered \subseteq delivered'
        /\ \A k \in 1..Len(pipe) : pipe'[k].brings = pipe[k].brings
    BY Zenon, <1>b, <1>4, HandleFacts
  <2>2. \A x : Covered(delivered, pipe, x, Len(pipe)) => Covered(delivered', pipe', x, Len(pipe'))
    BY <1>b, <2>1, CoveredGrows
  <2>3. UNCHANGED <<mode, slotStart, sent, open, outbox, walHighWater>>
    BY Zenon, <1>4 DEF HandleEvent, serverVars, connVars
  <2>. QED  BY Zenon, <1>3, <2>1, <2>2, <2>3
<1>5. CASE AdvanceProgress
  <2>1. \A x : Covered(delivered, pipe, x, Len(pipe)) => Covered(delivered, pipe', x, Len(pipe'))
    BY <1>0, <1>b, <1>5, AdvanceFacts
  <2>2. UNCHANGED <<mode, slotStart, sent, open, outbox, walHighWater, delivered>>
    BY Zenon, <1>5 DEF AdvanceProgress, serverVars, connVars
  <2>. QED  BY Zenon, <1>3, <2>1, <2>2
<1>6. CASE Connect
  <2>1. slot /\ UNCHANGED <<slotStart, delivered, pipe>> /\ open' = FALSE /\ outbox' = <<>>
    BY Zenon, <1>6 DEF Connect, ServerStill, sinkVars
  <2>2. PICK n \in 0..NTxns : (\A t \in Txns : t <= n <=> End[t] <= confirmed) /\ sent' = n
    BY Zenon, <1>6 DEF Connect
  <2>3. ASSUME NEW t, NEW i, Owed(slotStart, t, i), t <= n PROVE <<t, i>> \in delivered
    <3>1. End[t] <= confirmed
      BY Zenon, <1>a, <2>2, <2>3
    <3>. QED  BY <1>0, <1>a, <1>b, <2>1, <2>3, <3>1 DEF Acked
  <2>4. ASSUME NEW t, NEW i, Owed(slotStart, t, i), t < n \/ t = n PROVE <<t, i>> \in delivered
    BY <1>a, <2>3, <2>4
  <2>. QED  BY Zenon, <2>1, <2>2, <2>4 DEF Streamed, Covered
<1>7. CASE ReceiveBegin
  <2>1. /\ mode = "stream" /\ outbox = <<>> /\ ~open /\ open' = TRUE /\ sent' = sent + 1
        /\ UNCHANGED <<slotStart, delivered, pipe, walHighWater>>
    BY Zenon, <1>7 DEF ReceiveBegin, StreamStill, ServerStill, sinkVars
  <2>2. ASSUME NEW t, NEW i, Owed(slotStart, t, i), t < sent'
        PROVE  /\ Covered(delivered, pipe, <<t, i>>, Len(pipe))
               /\ End[t] <= walHighWater \/ <<t, i>> \in delivered
    <3>1. t < sent \/ t = sent
      BY <1>a, <1>b, <2>1, <2>2
    <3>2. t = sent => i <= Left
      BY <1>a, <2>1, <2>2 DEF Left
    <3>. QED  BY Zenon, <1>0, <2>1, <2>2, <3>1, <3>2 DEF Streamed
  <2>. QED  BY Zenon, <2>1, <2>2 DEF Streamed
<1>8. CASE ReceiveCommit
  <2>1. /\ mode = "stream" /\ open /\ sent \in Txns /\ outbox' = EventsOf(sent)
        /\ UNCHANGED <<slotStart, delivered, pipe, sent>>
    BY Zenon, <1>0, <1>8 DEF ReceiveCommit, StreamStill, ServerStill, sinkVars, Outbox
  <2>2. walHighWater' \in Nat /\ walHighWater' >= walHighWater
    <3>1. CASE Changes[sent] = <<>>
      BY Zenon, <1>0, <1>8, <2>1, <3>1, CommitFacts, LogFacts DEF ReceiveCommit
    <3>2. CASE Changes[sent] # <<>>
      BY <1>b, <1>8, <3>2 DEF ReceiveCommit
    <3>. QED  BY Zenon, <3>1, <3>2
  <2>3. Len(Changes[sent]) \in Nat /\ Len(outbox') = Len(Changes[sent])
    BY Zenon, <2>1, EventsFacts
  <2>4. ASSUME NEW i, Owed(slotStart, sent, i) PROVE ~(i <= Left') /\ outbox' # <<>>
    <3>1. PICK a \in Nat : a = Len(Changes[sent])
      BY Zenon, <2>3
    <3>2. i \in Nat /\ i > 0 /\ i <= a
      BY <1>a, <2>4, <3>1
    <3>3. Left' = a - a /\ Len(outbox') = a
      BY Zenon, <2>1, <2>3, <3>1 DEF Left
    <3>. QED  BY <3>2, <3>3
  <2>5. ASSUME NEW t, NEW i, Owed(slotStart, t, i), t < sent
        PROVE  /\ Covered(delivered, pipe, <<t, i>>, Len(pipe))
               /\ End[t] <= walHighWater' \/ <<t, i>> \in delivered
    <3>1. /\ Covered(delivered, pipe, <<t, i>>, Len(pipe))
          /\ End[t] <= walHighWater \/ <<t, i>> \in delivered
      BY Zenon, <1>0, <2>1, <2>5 DEF Streamed
    <3>. QED  BY <1>a, <1>b, <2>2, <2>5, <3>1
  <2>. QED  BY Zenon, <2>1, <2>4, <2>5 DEF Streamed
<1>9. CASE PublishEvent
  <2>1. /\ mode = "stream" /\ outbox # <<>> /\ outbox' = Tail(outbox) /\ ~open
        /\ UNCHANGED <<slotStart, delivered, sent, open>>
    BY Zenon, <1>0, <1>9 DEF PublishEvent, StreamStill, ServerStill, Outbox, Phases
  <2>. DEFINE n == Len(pipe) + 1
  <2>2. /\ Len(pipe') = n /\ \A k \in 1..Len(pipe) : pipe'[k] = pipe[k]
        /\ sent \in Txns /\ Left \in Nat
        /\ pipe'[n].brings = {<<sent, Left + 1>>}
    BY Zenon, <1>9, PublishEventFacts
  <2>3. /\ Len(outbox) \in Nat /\ Len(outbox') = Len(outbox) - 1 /\ outbox' \in Seq(Pending)
        /\ Len(Changes[sent]) \in Nat
    BY Zenon, <1>0, <2>1, <2>2, OutboxFacts, LogFacts
  <2>4. Left' = Left + 1
    <3>1. PICK a \in Nat : a = Len(Changes[sent])
      BY Zenon, <2>3
    <3>2. PICK b \in Nat : b = Len(outbox)
      BY Zenon, <2>3
    <3>3. Left = a - b
      BY Zenon, <3>1, <3>2 DEF Left
    <3>4. Left' = a - (b - 1)
      BY Zenon, <2>1, <2>3, <3>1, <3>2 DEF Left
    <3>. QED  BY <3>3, <3>4
  <2>5. /\ walHighWater' \in Nat /\ walHighWater' >= walHighWater
        /\ outbox' = <<>> => walHighWater' >= End[sent]
    <3>1. CASE Len(outbox) = 1
      BY Zenon, <1>0, <1>9, <2>2, <3>1, CommitFacts, LogFacts DEF PublishEvent
    <3>2. CASE Len(outbox) # 1
      <4>1. outbox' # <<>>
        BY <2>3, <3>2, EmptySeq
      <4>. QED  BY <1>b, <1>9, <3>2, <4>1 DEF PublishEvent
    <3>. QED  BY Zenon, <3>1, <3>2
  <2>6. \A x : Covered(delivered, pipe, x, Len(pipe)) => Covered(delivered, pipe', x, Len(pipe'))
    <3>1. Len(pipe') \in Nat /\ Len(pipe) <= Len(pipe')
      BY <1>b, <2>2
    <3>. QED  BY Zenon, <1>b, <2>2, <3>1, CoveredGrows
  <2>7. ASSUME NEW t, NEW i, Owed(slotStart, t, i), t < sent
        PROVE  /\ Covered(delivered, pipe', <<t, i>>, Len(pipe'))
               /\ End[t] <= walHighWater' \/ <<t, i>> \in delivered
    <3>1. /\ Covered(delivered, pipe, <<t, i>>, Len(pipe))
          /\ End[t] <= walHighWater \/ <<t, i>> \in delivered
      BY Zenon, <1>0, <2>1, <2>7 DEF Streamed
    <3>. QED  BY <1>a, <1>b, <2>5, <2>6, <2>7, <3>1
  <2>8. ASSUME NEW i, Owed(slotStart, sent, i), i <= Left'
        PROVE  Covered(delivered, pipe', <<sent, i>>, Len(pipe'))
    <3>1. i <= Left \/ i = Left + 1
      BY <1>a, <2>2, <2>4, <2>8
    <3>2. CASE i <= Left
      BY Zenon, <1>0, <2>1, <2>6, <2>8, <3>2 DEF Streamed
    <3>3. CASE i = Left + 1
      <4>1. n \in 1..Len(pipe') /\ <<sent, i>> \in pipe'[n].brings
        BY <1>b, <2>2, <3>3
      <4>. QED  BY Zenon, <4>1 DEF Covered
    <3>. QED  BY Zenon, <3>1, <3>2, <3>3
  <2>. QED  BY Zenon, <2>1, <2>5, <2>7, <2>8 DEF Streamed
<1>10. \/ mode' # "stream" \/ UNCHANGED <<mode, slotStart, delivered, pipe, sent, open, outbox, walHighWater>>
       \/ HandleEvent \/ AdvanceProgress \/ Connect \/ ReceiveBegin \/ ReceiveCommit \/ PublishEvent
  BY Zenon DEF Next, vars, serverVars, connVars, sinkVars, Bootstrap, Stream, Deliver, CommitTxn, SkipBootstrap,
     CreateSlot, ReadTables, PublishSnapshotRow, BootstrapDone, SlotMissing, FlushTimer, KeepAlive, StatusUpdate,
     StreamStill, ServerStill, StreamEnds, EngineReturns, ConnectFails, ConnectionDrops, Retry, Crash, LoseSlot,
     Restart
<1>. QED  BY Zenon, <1>1, <1>2, <1>4, <1>5, <1>6, <1>7, <1>8, <1>9, <1>10

\* Every step keeps the rows of the snapshot covered.
LEMMA ScannedStep == ASSUME PostgresAssumption, IInv, [Next]_vars PROVE Scanned'
<1>0. Shape /\ Phases /\ Marks /\ Scanned
  BY Zenon DEF IInv
<1>a. pipe \in Seq(Entries) /\ Len(pipe) \in Nat /\ NRows \in Nat
  BY Zenon, <1>0, LenProperties, LogFacts DEF Shape
<1>1. ASSUME UNCHANGED <<slotStart, scan, bootstrapped>>, mode' = "scan" => mode = "scan",
             \A x : Covered(delivered, pipe, x, Len(pipe)) => Covered(delivered', pipe', x, Len(pipe'))
      PROVE  Scanned'
  BY Zenon, <1>0, <1>1 DEF Scanned
<1>2. CASE HandleEvent
  <2>1. \A x : Covered(delivered, pipe, x, Len(pipe)) => Covered(delivered', pipe', x, Len(pipe'))
    BY <1>a, <1>2, HandleFacts, CoveredGrows
  <2>. QED  BY Zenon, <1>1, <1>2, <2>1 DEF HandleEvent, serverVars, bootVars
<1>3. CASE AdvanceProgress
  <2>1. \A x : Covered(delivered, pipe, x, Len(pipe)) => Covered(delivered', pipe', x, Len(pipe'))
    BY <1>0, <1>a, <1>3, AdvanceFacts DEF AdvanceProgress
  <2>. QED  BY Zenon, <1>1, <1>3, <2>1 DEF AdvanceProgress, serverVars, bootVars
<1>4. CASE PublishEvent
  <2>1. /\ Len(pipe') = Len(pipe) + 1
        /\ \A k \in 1..Len(pipe) : pipe'[k].brings = pipe[k].brings
    BY Zenon, <1>4, PublishEventFacts
  <2>2. \A x : Covered(delivered, pipe, x, Len(pipe)) => Covered(delivered', pipe', x, Len(pipe'))
    BY <1>a, <1>4, <2>1, CoveredGrows DEF PublishEvent
  <2>. QED  BY Zenon, <1>1, <1>4, <2>2 DEF PublishEvent, StreamStill, ServerStill, bootVars
<1>5. CASE CreateSlot \/ Restart
  <2>1. mode' # "scan" /\ bootstrapped' = FALSE
    BY Zenon, <1>0, <1>5 DEF CreateSlot, Restart, bootVars, Phases
  <2>. QED  BY Zenon, <2>1 DEF Scanned
<1>6. CASE ReadTables
  <2>1. /\ mode = "slot" /\ scan' = [r \in 1..NRows |-> committed] /\ slotStart' = slotStart
        /\ bootstrapped' = FALSE
    BY Zenon, <1>0, <1>6 DEF ReadTables, Phases, Rows
  <2>2. Len(scan') = NRows /\ committed >= slotStart
    BY <1>0, <1>a, <2>1, LogFacts DEF Shape
  <2>3. \A n \in 1..Len(scan') : scan'[n] >= slotStart'
    BY Zenon, <2>1, <2>2
  <2>4. \A r \in 1..(NRows - Len(scan')) : FALSE
    BY <1>a, <2>2
  <2>. QED  BY <1>a, <2>1, <2>2, <2>3, <2>4 DEF Scanned
<1>7. CASE PublishSnapshotRow
  <2>. DEFINE r == NRows - Len(scan) + 1
  <2>1. /\ mode = "scan" /\ scan # <<>> /\ scan' = Tail(scan) /\ Published(SnapshotOf(r, Head(scan)), 0)
        /\ bootstrapped' = FALSE /\ UNCHANGED <<slotStart, delivered, mode>>
    BY Zenon, <1>0, <1>7 DEF PublishSnapshotRow, BootStill, Phases
  <2>2. /\ NRows - Len(scan) \in Nat /\ r \in Rows
        /\ Head(scan) \in Nat /\ slotStart \in Nat /\ Head(scan) >= slotStart
        /\ Len(scan) \in Nat /\ Len(scan') = Len(scan) - 1
        /\ \A n \in 1..Len(scan') : scan'[n] = scan[n + 1]
    BY Zenon, <1>0, <2>1, ScanFacts
  <2>3. SnapshotOf(r, Head(scan)) \in SUBSET Items /\ SnapshotOf(r, slotStart) \subseteq SnapshotOf(r, Head(scan))
    BY Zenon, <2>2, SnapshotFacts
  <2>4. /\ Len(pipe') = Len(pipe) + 1
        /\ \A k \in 1..Len(pipe) : pipe'[k] = pipe[k]
        /\ pipe'[Len(pipe) + 1].brings = SnapshotOf(r, Head(scan))
    BY Zenon, <1>a, <2>1, <2>3, PublishFacts, LogFacts
  <2>5. \A x : Covered(delivered, pipe, x, Len(pipe)) => Covered(delivered, pipe', x, Len(pipe'))
    <3>1. Len(pipe') \in Nat /\ Len(pipe) <= Len(pipe')
      BY <1>a, <2>4
    <3>. QED  BY Zenon, <1>a, <2>4, <3>1, CoveredGrows
  <2>6. \A x \in SnapshotOf(r, slotStart) : Covered(delivered, pipe', x, Len(pipe'))
    <3>1. Len(pipe) + 1 \in 1..Len(pipe')
      BY <1>a, <2>4
    <3>. QED  BY Zenon, <2>3, <2>4, <3>1 DEF Covered
  <2>7. ASSUME NEW q \in 1..(NRows - Len(scan'))
        PROVE  q \in 1..(NRows - Len(scan)) \/ q = r
    <3>1. PICK b \in Nat : b = Len(scan)
      BY Zenon, <2>2
    <3>2. Len(scan') = b - 1 /\ NRows - b \in Nat
      BY Zenon, <2>2, <3>1
    <3>3. q \in 1..(NRows - (b - 1))
      BY Zenon, <2>7, <3>2
    <3>4. q \in 1..(NRows - b) \/ q = NRows - b + 1
      BY <1>a, <3>2, <3>3
    <3>. QED  BY Zenon, <3>1, <3>4
  <2>8. \A n \in 1..Len(scan') : scan'[n] >= slotStart
    <3>. TAKE n \in 1..Len(scan')
    <3>1. n + 1 \in 1..Len(scan)
      BY <2>2
    <3>. QED  BY Zenon, <1>0, <2>1, <2>2, <3>1 DEF Scanned
  <2>9. Len(scan') <= NRows
    BY <1>a, <2>2
  <2>. HIDE DEF r
  <2>10. \A q \in 1..(NRows - Len(scan')) : \A x \in SnapshotOf(q, slotStart) : Covered(delivered, pipe', x, Len(pipe'))
    BY Zenon, <1>0, <2>1, <2>5, <2>6, <2>7 DEF Scanned
  <2>. QED  BY Zenon, <2>1, <2>8, <2>9, <2>10 DEF Scanned
<1>8. CASE BootstrapDone
  <2>1. /\ mode = "scan" /\ scan = <<>> /\ mode' = "connect" /\ UNCHANGED <<slotStart, pipe, delivered>>
    BY Zenon, <1>8 DEF BootstrapDone, BootStill
  <2>2. 1..(NRows - Len(scan)) = Rows
    BY <1>a, <2>1 DEF Rows
  <2>. QED  BY Zenon, <1>0, <2>1, <2>2 DEF Scanned
<1>9. \/ HandleEvent \/ AdvanceProgress \/ PublishEvent \/ CreateSlot \/ Restart \/ ReadTables
      \/ PublishSnapshotRow \/ BootstrapDone
      \/ /\ UNCHANGED <<slotStart, scan, bootstrapped, delivered, pipe>>
         /\ mode' = "scan" => mode = "scan"
  BY Zenon DEF Next, vars, serverVars, bootVars, sinkVars, Bootstrap, Stream, Deliver, CommitTxn, SkipBootstrap,
     BootStill, Connect, SlotMissing, ReceiveBegin, ReceiveCommit, FlushTimer, KeepAlive, StatusUpdate,
     StreamStill, ServerStill, StreamEnds, EngineReturns, ConnectFails, ConnectionDrops, Retry, Crash, LoseSlot
<1>. QED  BY Zenon, <1>1, <1>2, <1>3, <1>4, <1>5, <1>6, <1>7, <1>8, <1>9

\* The invariant is inductive.
LEMMA Inductive == ASSUME PostgresAssumption PROVE Spec => []IInv
<1>1. Init => IInv
  BY Zenon, InitInv
<1>2. IInv /\ [Next]_vars => IInv'
  <2>. SUFFICES ASSUME IInv, [Next]_vars PROVE IInv'
    BY Zenon
  <2>. QED
    BY Zenon, ShapeStep, PhasesStep, OutboxStep, MarksStep, AckedStep, StreamedStep, ScannedStep DEF IInv
<1>. QED  BY <1>1, <1>2, PTL DEF Spec

-----------------------------------------------------------------------------
(* The theorems. *)

\* The state stays in its domain, and the bus within its capacity.
THEOREM Typed == ASSUME PostgresAssumption PROVE Spec => []TypeOK
<1>1. IInv => TypeOK
  <2>. SUFFICES ASSUME Shape, Phases PROVE TypeOK
    BY Zenon DEF IInv
  <2>1. committed \in 0..NTxns /\ slotStart \in 0..NTxns /\ sent \in 0..NTxns
    <3>1. committed \in 0..NTxns /\ slotStart \in 0..committed /\ sent \in 0..NTxns /\ NTxns \in Nat
      BY Zenon, LogFacts DEF Shape
    <3>. QED  BY <3>1
  <2>2. /\ confirmed \in LSNs /\ lastAcked \in LSNs /\ walHighWater \in LSNs /\ sinkProgress \in LSNs
        /\ failures \in 0..MaxFailures /\ faults \in 0..MaxFaults /\ Len(pipe) <= BusCapacity
        /\ delivered \subseteq AllChanges \cup {Base(r) : r \in Rows}
    BY Zenon DEF Shape, Items
  <2>3. /\ slot \in BOOLEAN /\ bootstrapped \in BOOLEAN /\ open \in BOOLEAN
        /\ mode \in {"down", "boot", "slot", "scan", "connect", "stream", "ended"}
    BY Zenon DEF Phases, Modes
  <2>. QED  BY Zenon, <2>1, <2>2, <2>3 DEF TypeOK
<1>. QED  BY <1>1, Inductive, PTL

\* The source acknowledges no more than min(wal_high_water, sink progress), a keepalive
\* or an empty transaction only when nothing is outstanding, and loses both marks with
\* the connection: whatever was dropped or crashed, every transaction of the slot up to
\* the confirmed LSN is completely in the sink.
THEOREM ConfirmedIsInSink == ASSUME PostgresAssumption PROVE Spec => []ConfirmedIsDelivered
<1>1. IInv => ConfirmedIsDelivered
  <2>. SUFFICES ASSUME IInv, slot, NEW c \in AllChanges, slotStart < c[1], End[c[1]] <= confirmed
                PROVE  c \in delivered
    BY Zenon DEF ConfirmedIsDelivered
  <2>1. c = <<c[1], c[2]>> /\ Owed(slotStart, c[1], c[2]) /\ End[c[1]] \in Nat
    BY Zenon, ChangeFacts, LogFacts DEF Owed
  <2>2. confirmed \in Nat
    BY Zenon, LogFacts DEF IInv, Shape
  <2>3. c \notin delivered => End[c[1]] > confirmed
    BY Zenon, <2>1 DEF IInv, Acked
  <2>. QED  BY <2>1, <2>2, <2>3
<1>. QED  BY <1>1, Inductive, PTL

\* maybe_bootstrap creates the slot before snapshot_table reads: a snapshot and the
\* stream after it leave no gap, however many transactions commit in between.
THEOREM SnapshotMeetsStream == ASSUME PostgresAssumption PROVE Spec => []BootstrapLeavesNoGap
<1>1. IInv => BootstrapLeavesNoGap
  <2>. SUFFICES ASSUME IInv, bootstrapped, mode = "stream", ~open, outbox = <<>>, pipe = <<>>
                PROVE  /\ \A r \in Rows : Base(r) \in delivered
                       /\ \A c \in AllChanges : c[1] <= sent => c \in delivered
    BY Zenon DEF BootstrapLeavesNoGap
  <2>1. \A x : Covered(delivered, pipe, x, Len(pipe)) => x \in delivered
    BY DEF Covered
  <2>2. \A r \in Rows : \A x \in SnapshotOf(r, slotStart) : x \in delivered
    BY Zenon, <2>1 DEF IInv, Scanned
  <2>3. \A r \in Rows : Base(r) \in delivered
    BY Zenon, <2>2 DEF SnapshotOf
  <2>4. ASSUME NEW c \in AllChanges, c[1] <= sent PROVE c \in delivered
    <3>1. /\ c = <<c[1], c[2]>> /\ c[1] \in Txns /\ c[1] \in Nat /\ c[2] \in 1..Len(Changes[c[1]])
          /\ Len(Changes[c[1]]) \in Nat /\ Changes[c[1]][c[2]].row \in Rows
      BY Zenon, ChangeFacts, LogFacts
    <3>2. slotStart \in Nat /\ sent \in Nat
      BY LogFacts DEF IInv, Shape
    <3>3. CASE c[1] <= slotStart
      BY Zenon, <2>2, <3>1, <3>3 DEF SnapshotOf
    <3>4. CASE slotStart < c[1]
      <4>1. Owed(slotStart, c[1], c[2])
        BY Zenon, <3>1, <3>4 DEF Owed
      <4>2. c[1] < sent \/ c[1] = sent
        BY <2>4, <3>1, <3>2
      <4>3. c[1] = sent => c[2] <= Left
        BY <3>1 DEF Left
      <4>. QED  BY Zenon, <2>1, <3>1, <4>1, <4>2, <4>3 DEF IInv, Streamed
    <3>. QED  BY <3>1, <3>2, <3>3, <3>4
  <2>. QED  BY Zenon, <2>3, <2>4
<1>. QED  BY <1>1, Inductive, PTL
==============================================================================
