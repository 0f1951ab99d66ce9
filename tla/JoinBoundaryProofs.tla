------------------------- MODULE JoinBoundaryProofs -------------------------
(***************************************************************************)
(* In-memory joins lose nothing for any number of changes and rows, any    *)
(* bus capacity and any number of crashes and failures: what the source    *)
(* has confirmed is in the sink and, once the state is dumped, in the redb *)
(* tables; the tables never run ahead of the sink; and when the log has    *)
(* been consumed the state in memory is the source's.                      *)
(***************************************************************************)
EXTENDS JoinBoundary, SequenceTheorems, TLAPS

InputItems ==
    [kind : {"wal"}, id : Events] \cup [kind : {"snapshot"}, row : Rows, version : 0..NEvents]
    \cup [kind : {"snapshot-complete"}] \cup [kind : {"barrier"}, id : 0..NEvents]
OutputItems ==
    [kind : {"doc"}, row : Rows \cup {0}, version : 0..NEvents, id : 0..NEvents]
    \cup [kind : {"barrier"}, id : 0..NEvents] \cup [kind : {"join_barrier"}, sequence : Nat]

In(x, bus) == \E i \in 1..Len(bus) : bus[i] = x
MarkOf(item) == IF item.kind \in {"wal", "barrier"} THEN item.id ELSE 0
Changes(r) == {e \in Events : RowOf[e] = r}
IsVersion(r, v) == v \in Versions /\ v <= committed /\ (v > 0 => RowOf[v] = r)

Numbers ==
    /\ committed \in 0..NEvents /\ next \in 1..(committed + 1)
    /\ acked \in 0..(next - 1) /\ slotStart \in 0..acked
    /\ sourceProgress \in 0..(next - 1) /\ pendingMark \in 0..(next - 1)
    /\ sequence \in Nat /\ sinkProgress \in 0..sequence
    /\ crashes \in 0..MaxCrashes

Flags ==
    /\ slot \in BOOLEAN /\ barrierDue \in BOOLEAN /\ persistOn \in BOOLEAN
    /\ persistFailed \in BOOLEAN /\ dumpPending \in BOOLEAN /\ pendingWork \in BOOLEAN
    /\ identity \in BOOLEAN
    /\ phase \in {"scan", "snapshot", "complete", "tail"}
    /\ pc \in {"run", "barrier", "wait", "publish", "stopped"}

\* What a row may be: its source row, or an earlier state of it.
Tables ==
    /\ table \in [Rows -> 0..NEvents] /\ mem \in [Rows -> Versions]
    /\ tx \in [Rows -> Versions] /\ disk \in [Rows -> Versions]
    /\ \A r \in Rows : /\ IsVersion(r, table[r]) /\ IsVersion(r, mem[r])
                       /\ IsVersion(r, tx[r]) /\ IsVersion(r, disk[r])
    /\ \A r \in Rows : \A e \in Changes(r) : e <= committed => e <= table[r]
    /\ delivered \subseteq Events /\ quarantined \subseteq Poison

\* b may come after a on the input bus: marks grow, snapshot rows come first and the
\* sentinel after them.
Follows(a, b) ==
    /\ b.kind = "wal" => MarkOf(a) < b.id
    /\ b.kind \in {"snapshot", "snapshot-complete"} => a.kind = "snapshot"

Input ==
    /\ input \in Seq(InputItems) /\ Len(input) <= BusCapacity
    /\ \A i \in 1..Len(input) : \A j \in 1..(i - 1) : Follows(input[j], input[i])
    /\ \A i \in 1..Len(input) : MarkOf(input[i]) < next
    /\ \A i \in 1..Len(input) : input[i].kind = "wal" =>
        /\ input[i].id > acked /\ input[i].id > sourceProgress /\ input[i].id > pendingMark
    /\ \A e, f \in Events : In(Wal(e), input) /\ e <= f /\ f < next => In(Wal(f), input)

\* The boundary's barrier is the last thing on the output bus, and is waited for.
Output ==
    /\ output \in Seq(OutputItems) /\ Len(output) <= BusCapacity
    /\ \A i \in 1..Len(output) : output[i].kind = "join_barrier" =>
        i = Len(output) /\ output[i].sequence = sequence /\ pc \in {"wait", "stopped"}
    /\ pc = "wait" /\ output # <<>> =>
        output[Len(output)] = JoinBarrier(sequence) /\ sinkProgress < sequence
    /\ pc = "publish" => output = <<>>

\* Snapshot rows that were read and not published.
Scanned ==
    phase = "snapshot" =>
      /\ scan \in Seq(0..NEvents) /\ Len(scan) \in 1..NRows
      /\ \A i \in 1..Len(scan) :
          /\ IsVersion(NRows - Len(scan) + i, scan[i])
          /\ \A e \in Changes(NRows - Len(scan) + i) : e < next => e <= scan[i]

\* The sentinel separates the snapshot from the log, and the dump follows it.
Sentinel ==
    /\ phase # "tail" => /\ ~dumpPending /\ ~identity
                         /\ \A i \in 1..Len(input) : input[i].kind = "snapshot"
    /\ phase = "tail" => In(Complete, input) \/ dumpPending \/ identity
    /\ \A i \in 1..Len(input) : input[i].kind \in {"snapshot", "snapshot-complete"} =>
        ~dumpPending /\ ~identity
    /\ pendingMark > 0 => dumpPending \/ identity
    /\ sourceProgress > 0 => identity
    /\ pc = "publish" => ~dumpPending
    /\ identity => persistOn
    /\ ~identity => acked = slotStart

\* Every change that was published, or that a snapshot is to cover, is in memory or on
\* its way there.
SnapPending(r) ==
    \/ phase = "scan"
    \/ phase = "snapshot" /\ r > NRows - Len(scan)
    \/ \E i \in 1..Len(input) : input[i].kind = "snapshot" /\ input[i].row = r
Reaching ==
    /\ \A i \in 1..Len(input) : input[i].kind = "snapshot" =>
        /\ IsVersion(input[i].row, input[i].version)
        /\ \A e \in Changes(input[i].row) :
            e < next => e <= input[i].version \/ In(Wal(e), input)
    /\ \A r \in Rows : SnapPending(r) \/ mem[r] >= 0
    /\ \A r \in Rows : \A e \in Changes(r) :
        e < next => mem[r] >= e \/ In(Wal(e), input) \/ SnapPending(r)

\* What memory, and a pending transaction, hold was sent to the sink.
Sent(e) ==
    \/ e \in delivered
    \/ \E i \in 1..Len(output) : output[i].kind = "doc" /\ e \in CarriedBy(output[i])
Emitted ==
    /\ \A r \in Rows : \A e \in Changes(r) : e <= mem[r] \/ e <= tx[r] => Sent(e)
    /\ \A e \in Changes(0) :
        e < next => e <= slotStart \/ e \in quarantined \/ In(Wal(e), input) \/ Sent(e)

\* The open transaction makes the tables those of memory.
Mirrored ==
    /\ persistOn /\ ~persistFailed =>
        \A r \in Rows : mem[r] = IF tx[r] # Absent THEN tx[r] ELSE disk[r]
    /\ pc = "publish" \/ (pc = "run" /\ ~pendingWork) => tx = NoRow /\ ~persistFailed

Durable(e) ==
    \/ RowOf[e] # 0 /\ e \in delivered /\ disk[RowOf[e]] >= e
    \/ RowOf[e] = 0 /\ (e <= slotStart \/ e \in delivered \cup quarantined)
Safe ==
    /\ StateBehindSink
    /\ identity => \A r \in Rows : disk[r] >= 0
    /\ identity => \A e \in 1..acked : Durable(e)
    /\ identity => \A e \in 1..sourceProgress : Durable(e)
    /\ pc = "publish" => \A e \in 1..pendingMark : Durable(e)

IInv == /\ Numbers /\ Flags /\ Tables /\ Input /\ Output /\ Scanned /\ Sentinel
        /\ Reaching /\ Emitted /\ Mirrored /\ Safe

-----------------------------------------------------------------------------
\* The two ends of a bus.
LEMMA AppendFacts ==
    ASSUME NEW S, NEW s \in Seq(S), NEW x \in S
    PROVE  /\ Append(s, x) \in Seq(S) /\ Len(Append(s, x)) = Len(s) + 1 /\ Len(s) \in Nat
           /\ \A i \in 1..Len(s) : Append(s, x)[i] = s[i]
           /\ Append(s, x)[Len(s) + 1] = x
           /\ \A y : In(y, Append(s, x)) <=> In(y, s) \/ y = x
  <1>1. /\ Append(s, x) \in Seq(S) /\ Len(Append(s, x)) = Len(s) + 1 /\ Len(s) \in Nat
        /\ \A i \in 1..Len(s) : Append(s, x)[i] = s[i]
        /\ Append(s, x)[Len(s) + 1] = x
    BY AppendProperties, LenProperties
  <1> DEFINE t == Append(s, x)
             n == Len(s)
  <1>2. \A i : i \in 1..Len(t) <=> i \in 1..n \/ i = n + 1  BY <1>1
  <1>3. \A i \in 1..n : t[i] = s[i]  BY Zenon, <1>1
  <1>4. t[n + 1] = x  BY Zenon, <1>1
  <1> HIDE DEF t, n
  <1>5. \A y : In(y, t) <=> (\E i \in 1..n : s[i] = y) \/ y = x
    BY Zenon, <1>2, <1>3, <1>4 DEF In
  <1> QED  BY Zenon, <1>1, <1>5 DEF t, n, In

LEMMA TailFacts ==
    ASSUME NEW S, NEW s \in Seq(S), s # <<>>
    PROVE  /\ Tail(s) \in Seq(S) /\ Len(s) \in Nat \ {0} /\ Len(Tail(s)) = Len(s) - 1
           /\ \A i \in 1..Len(Tail(s)) : i + 1 \in 1..Len(s) /\ Tail(s)[i] = s[i + 1]
           /\ Head(s) = s[1] /\ Head(s) \in S /\ 1 \in 1..Len(s)
           /\ \A y : In(y, s) <=> y = Head(s) \/ In(y, Tail(s))
  <1>1. /\ Tail(s) \in Seq(S) /\ Len(s) \in Nat \ {0} /\ Len(Tail(s)) = Len(s) - 1
        /\ \A i \in 1..Len(Tail(s)) : i + 1 \in 1..Len(s) /\ Tail(s)[i] = s[i + 1]
        /\ Head(s) = s[1] /\ Head(s) \in S /\ 1 \in 1..Len(s)
    OBVIOUS
  <1> DEFINE t == Tail(s)
             n == Len(s)
  <1>2. n \in Nat \ {0} /\ Len(t) = n - 1 /\ \A i \in 1..(n - 1) : t[i] = s[i + 1]  BY Zenon, <1>1
  <1> HIDE DEF t, n
  <1>3. \A y : (\E i \in 1..n : s[i] = y) <=> y = s[1] \/ (\E i \in 1..(n - 1) : t[i] = y)
    <2>1. ASSUME NEW i \in 1..n PROVE i = 1 \/ (i - 1 \in 1..(n - 1) /\ t[i - 1] = s[i])
      BY <1>2
    <2>2. \A i \in 1..(n - 1) : i + 1 \in 1..n /\ 1 \in 1..n  BY <1>2
    <2>3. 1 \in 1..n  BY <1>2
    <2> QED  BY Zenon, <1>2, <2>1, <2>2, <2>3
  <1> QED  BY Zenon, <1>1, <1>2, <1>3 DEF In, t, n

LEMMA Items ==
    /\ \A e \in Events : Wal(e) \in InputItems /\ Wal(e).kind = "wal" /\ Wal(e).id = e
    /\ \A r \in Rows, v \in 0..NEvents :
         Snap(r, v) \in InputItems /\ Snap(r, v).kind = "snapshot"
         /\ Snap(r, v).row = r /\ Snap(r, v).version = v
    /\ Complete \in InputItems /\ Complete.kind = "snapshot-complete"
    /\ \A e \in 0..NEvents :
         /\ AckBarrier(e) \in InputItems /\ AckBarrier(e) \in OutputItems
         /\ AckBarrier(e).kind = "barrier" /\ AckBarrier(e).id = e
    /\ \A r \in Rows \cup {0}, v \in 0..NEvents, e \in 0..NEvents :
         /\ Doc(r, v, e) \in OutputItems /\ Doc(r, v, e).kind = "doc" /\ Doc(r, v, e).row = r
         /\ Doc(r, v, e).version = v /\ Doc(r, v, e).id = e
    /\ \A n \in Nat : /\ JoinBarrier(n) \in OutputItems /\ JoinBarrier(n).kind = "join_barrier"
                       /\ JoinBarrier(n).sequence = n
  BY Zenon DEF Wal, Snap, Complete, AckBarrier, Doc, JoinBarrier, InputItems, OutputItems

LEMMA InitIInv == ASSUME Init PROVE IInv
  <1> USE JoinAssumption DEF JoinAssumption, Init
  <1>0. Numbers  BY DEF Numbers
  <1>1. Flags  BY Zenon DEF Flags
  <1>2. Tables  BY DEF Tables, NoRow, Versions, Absent, IsVersion, Changes, Events
  <1>3. Input  BY DEF Input, In
  <1>4. Output /\ Scanned  BY DEF Output, Scanned
  <1>5. Sentinel /\ Reaching  BY DEF Sentinel, Reaching, SnapPending
  <1>6. Emitted
    <2>1. \A r \in Rows : mem[r] = -1 /\ tx[r] = -1  BY Zenon DEF NoRow, Absent
    <2> QED  BY <2>1 DEF Emitted, Changes, Events
  <1>7. Mirrored  BY Zenon DEF Mirrored, NoRow, Absent
  <1>8. Safe
    <2>1. \A r \in Rows : disk[r] = -1  BY Zenon DEF NoRow, Absent
    <2> QED  BY <2>1 DEF Safe, StateBehindSink, Events
  <1> QED  BY Zenon, <1>0, <1>1, <1>2, <1>3, <1>4, <1>5, <1>6, <1>7, <1>8 DEF IInv

\* What the invariant says of the run's properties.
LEMMA IInvImplies ==
    ASSUME IInv
    PROVE  AckedIsDurable /\ StateBehindSink /\ BoundaryPersistsState /\ StateConverges /\ TypeOK
  <1> USE JoinAssumption DEF JoinAssumption, IInv
  <1>1. AckedIsDurable /\ StateBehindSink  BY Zenon DEF AckedIsDurable, Safe, Durable
  <1>2. BoundaryPersistsState
    <2> SUFFICES ASSUME identity, pc = "run", ~pendingWork PROVE disk = mem
      BY Zenon DEF BoundaryPersistsState
    <2>1. persistOn /\ ~persistFailed /\ tx = NoRow  BY Zenon DEF Sentinel, Mirrored
    <2>2. \A r \in Rows : mem[r] = disk[r]  BY Zenon, <2>1 DEF Mirrored, NoRow
    <2>3. mem \in [Rows -> Versions] /\ disk \in [Rows -> Versions]  BY Zenon DEF Tables
    <2>4. mem = [r \in Rows |-> mem[r]] /\ disk = [r \in Rows |-> disk[r]]  BY Zenon, <2>3
    <2>5. [r \in Rows |-> mem[r]] = [r \in Rows |-> disk[r]]  BY Zenon, <2>2
    <2> QED  BY Zenon, <2>4, <2>5
  <1>3. StateConverges
    <2> SUFFICES ASSUME phase = "tail", next > committed, input = <<>> PROVE mem = table
      BY Zenon DEF StateConverges
    <2>1. next = committed + 1 /\ committed \in 0..NEvents  BY DEF Numbers
    <2>2. ~\E i \in 1..Len(input) : TRUE  OBVIOUS
    <2>3. ASSUME NEW r \in Rows PROVE mem[r] = table[r]
      <3>1. ~SnapPending(r)  BY Zenon, <2>2 DEF SnapPending
      <3>2. mem[r] >= 0 /\ \A e \in Changes(r) : e <= committed => mem[r] >= e
        BY <2>1, <2>2, <3>1 DEF Reaching, In, Changes, Events
      <3>3. /\ table[r] \in 0..committed /\ (table[r] > 0 => table[r] \in Changes(r))
            /\ mem[r] \in 0..committed /\ (mem[r] > 0 => mem[r] \in Changes(r))
            /\ \A e \in Changes(r) : e <= committed => e <= table[r]
        BY <2>1, <3>2 DEF Tables, IsVersion, Changes, Events, Versions, Absent
      <3> QED  BY <2>1, <3>2, <3>3
    <2>4. mem \in [Rows -> Versions] /\ table \in [Rows -> 0..NEvents]  BY Zenon DEF Tables
    <2>5. mem = [r \in Rows |-> mem[r]] /\ table = [r \in Rows |-> table[r]]  BY Zenon, <2>4
    <2>6. [r \in Rows |-> mem[r]] = [r \in Rows |-> table[r]]  BY Zenon, <2>3
    <2> QED  BY Zenon, <2>5, <2>6
  <1>4. TypeOK
    <2>1. /\ committed \in 0..NEvents /\ acked \in 0..NEvents /\ slotStart \in 0..NEvents
          /\ next \in 1..(NEvents + 1) /\ pendingMark \in 0..NEvents
          /\ sequence \in Nat /\ sinkProgress \in 0..sequence
          /\ sourceProgress \in 0..NEvents /\ crashes \in 0..MaxCrashes
      BY DEF Numbers
    <2>2. /\ slot \in BOOLEAN /\ barrierDue \in BOOLEAN /\ persistOn \in BOOLEAN
          /\ persistFailed \in BOOLEAN /\ dumpPending \in BOOLEAN /\ pendingWork \in BOOLEAN
          /\ identity \in BOOLEAN
          /\ phase \in {"scan", "snapshot", "complete", "tail"}
          /\ pc \in {"run", "barrier", "wait", "publish", "stopped"}
      BY Zenon DEF Flags
    <2>3. /\ table \in [Rows -> 0..NEvents] /\ mem \in [Rows -> Versions]
          /\ tx \in [Rows -> Versions] /\ disk \in [Rows -> Versions]
          /\ delivered \subseteq Events /\ quarantined \subseteq Poison
      BY Zenon DEF Tables
    <2>4. Len(input) <= BusCapacity /\ Len(output) <= BusCapacity  BY Zenon DEF Input, Output
    <2> QED  BY Zenon, <2>1, <2>2, <2>3, <2>4 DEF TypeOK
  <1> QED  BY Zenon, <1>1, <1>2, <1>3, <1>4

-----------------------------------------------------------------------------
\* Each part of the invariant is about a few variables.
LEMMA NumbersFrame ==
    ASSUME Numbers, UNCHANGED <<committed, next, acked, slotStart, sourceProgress, pendingMark,
                                sequence, sinkProgress, crashes>>
    PROVE  Numbers'
  BY Zenon DEF Numbers
LEMMA TablesFrame ==
    ASSUME Tables, UNCHANGED <<committed, table, mem, tx, disk, delivered, quarantined>>
    PROVE  Tables'
  BY Zenon DEF Tables, IsVersion
LEMMA InputFrame ==
    ASSUME Input, UNCHANGED <<input, next, acked, sourceProgress, pendingMark>> PROVE Input'
  BY Zenon DEF Input
LEMMA OutputFrame ==
    ASSUME Output, UNCHANGED <<output, sequence, sinkProgress, pc>> PROVE Output'
  BY Zenon DEF Output
LEMMA ScannedFrame ==
    ASSUME Scanned, UNCHANGED <<phase, scan, committed, next>> PROVE Scanned'
  BY Zenon DEF Scanned, IsVersion
LEMMA SentinelFrame ==
    ASSUME Sentinel, UNCHANGED <<phase, dumpPending, identity, input, pendingMark, sourceProgress,
                                 pc, persistOn, acked, slotStart>>
    PROVE  Sentinel'
  BY Zenon DEF Sentinel
LEMMA ReachingFrame ==
    ASSUME Reaching, UNCHANGED <<input, next, phase, scan, mem, committed>> PROVE Reaching'
  BY Zenon DEF Reaching, SnapPending, IsVersion
LEMMA EmittedFrame ==
    ASSUME Emitted, UNCHANGED <<mem, tx, delivered, output, next, slotStart, quarantined, input>>
    PROVE  Emitted'
  BY Zenon DEF Emitted, Sent
LEMMA MirroredFrame ==
    ASSUME Mirrored, UNCHANGED <<persistOn, persistFailed, mem, tx, disk, pc, pendingWork>>
    PROVE  Mirrored'
  BY Zenon DEF Mirrored
LEMMA SafeFrame ==
    ASSUME Safe, UNCHANGED <<disk, delivered, identity, acked, sourceProgress, pc, pendingMark,
                             slotStart, quarantined>>
    PROVE  Safe'
  BY Zenon DEF Safe, StateBehindSink, Durable

LEMMA CommitChangeKeeps == ASSUME IInv, CommitChange PROVE IInv'
  <1> USE JoinAssumption DEF JoinAssumption
  <1>1. /\ committed < NEvents /\ committed' = committed + 1
        /\ table' = [r \in Rows |-> IF RowOf[committed + 1] = r THEN committed + 1 ELSE table[r]]
        /\ UNCHANGED <<slot, slotStart, acked, scan, phase, next, barrierDue, input, pc, mem, tx,
                       persistOn, persistFailed, dumpPending, pendingWork, pendingMark, sequence,
                       sourceProgress, output, sinkProgress, disk, identity, delivered,
                       quarantined, crashes>>
    BY Zenon DEF CommitChange, sourceVars, stateVars, boundaryVars, dispatcherVars, diskVars
  <1>2. committed \in Nat /\ next <= committed + 1  BY DEF IInv, Numbers
  <1>3. \A r, v : IsVersion(r, v) => IsVersion(r, v)'
    BY <1>1, <1>2 DEF IsVersion, Versions, Absent
  <1>4. Numbers'  BY <1>1 DEF IInv, Numbers
  <1>5. Flags'  BY ZenonT(30), <1>1 DEF IInv, Flags
  <1>6. Tables'
    <2>1. ASSUME NEW r \in Rows
          PROVE  /\ table'[r] \in 0..NEvents /\ IsVersion(r, table[r])'
                 /\ \A e \in Changes(r) : e <= committed' => e <= table'[r]
      <3>1. /\ table[r] \in 0..NEvents /\ IsVersion(r, table[r])
            /\ \A e \in Changes(r) : e <= committed => e <= table[r]
        BY Zenon DEF IInv, Tables
      <3>2. CASE RowOf[committed + 1] = r
        <4>1. table'[r] = committed + 1  BY Zenon, <1>1, <3>2
        <4> QED  BY <1>1, <1>2, <3>2, <4>1 DEF IsVersion, Versions, Absent, Changes, Events
      <3>3. CASE RowOf[committed + 1] # r
        <4>1. table'[r] = table[r]  BY Zenon, <1>1, <3>3
        <4>2. \A e \in Changes(r) : e <= committed' => e <= committed
          BY <1>1, <1>2, <3>3 DEF Changes, Events
        <4> QED  BY Zenon, <1>3, <3>1, <4>1, <4>2
      <3> QED  BY Zenon, <3>2, <3>3
    <2>2. table' \in [Rows -> 0..NEvents]  BY Zenon, <1>1, <2>1
    <2> QED  BY Zenon, <1>1, <1>3, <2>1, <2>2 DEF IInv, Tables
  <1>7. Input' /\ Output'  BY Zenon, <1>1, InputFrame, OutputFrame DEF IInv
  <1>8. Scanned'  BY Zenon, <1>1, <1>3 DEF IInv, Scanned
  <1>9. Sentinel'  BY Zenon, <1>1, SentinelFrame DEF IInv
  <1>10. Reaching'  BY Zenon, <1>1, <1>3 DEF IInv, Reaching, SnapPending
  <1>11. Emitted' /\ Mirrored' /\ Safe'
    BY Zenon, <1>1, EmittedFrame, MirroredFrame, SafeFrame DEF IInv
  <1> QED  BY Zenon, <1>4, <1>5, <1>6, <1>7, <1>8, <1>9, <1>10, <1>11 DEF IInv

-----------------------------------------------------------------------------
\* The source.
LEMMA SourceFrame ==
    ASSUME IInv, SourceStill
    PROVE  /\ Tables' /\ Output' /\ Mirrored' /\ Safe'
           /\ UNCHANGED <<committed, table, slot, slotStart, acked, pc, mem, tx, persistOn,
                          persistFailed, dumpPending, pendingWork, pendingMark, sequence,
                          sourceProgress, output, sinkProgress, disk, identity, delivered,
                          quarantined, crashes>>
  <1>1. UNCHANGED <<committed, table, slot, slotStart, acked, pc, mem, tx, persistOn,
                    persistFailed, dumpPending, pendingWork, pendingMark, sequence,
                    sourceProgress, output, sinkProgress, disk, identity, delivered,
                    quarantined, crashes>>
    BY Zenon DEF SourceStill, dbVars, stateVars, boundaryVars, dispatcherVars, diskVars
  <1> QED  BY Zenon, <1>1, TablesFrame, OutputFrame, MirroredFrame, SafeFrame DEF IInv

LEMMA ScanTablesKeeps == ASSUME IInv, ScanTables PROVE IInv'
  <1> USE JoinAssumption DEF JoinAssumption
  <1>1. /\ phase = "scan" /\ scan' = table /\ phase' = "snapshot" /\ SourceStill
        /\ UNCHANGED <<next, barrierDue, input>>
    BY Zenon DEF ScanTables
  <1>2. /\ Tables' /\ Output' /\ Mirrored' /\ Safe'
        /\ UNCHANGED <<committed, table, slot, slotStart, acked, pc, mem, tx, persistOn,
                       persistFailed, dumpPending, pendingWork, pendingMark, sequence,
                       sourceProgress, output, sinkProgress, disk, identity, delivered,
                       quarantined, crashes>>
    BY Zenon, <1>1, SourceFrame
  <1>3. Numbers'  BY Zenon, <1>1, <1>2, NumbersFrame DEF IInv
  <1>4. Flags'  BY Zenon, <1>1, <1>2 DEF IInv, Flags
  <1>5. Input'  BY Zenon, <1>1, <1>2, InputFrame DEF IInv
  <1>6. table \in Seq(0..NEvents) /\ Len(table) = NRows
    <2>1. table \in [1..NRows -> 0..NEvents]  BY Zenon DEF IInv, Tables, Rows
    <2> QED  BY <2>1
  <1>7. Scanned'
    <2>1. next <= committed + 1 /\ next \in Nat /\ committed \in Nat  BY DEF IInv, Numbers
    <2>2. ASSUME NEW i \in 1..NRows
          PROVE  IsVersion(i, table[i]) /\ \A e \in Changes(i) : e < next => e <= table[i]
      BY <2>1 DEF IInv, Tables, Rows, Changes, Events
    <2>3. \A i \in 1..NRows : NRows - NRows + i = i  OBVIOUS
    <2> QED  BY <1>1, <1>2, <1>6, <2>2, <2>3 DEF Scanned, IsVersion
  <1>8. Sentinel'  BY Zenon, <1>1, <1>2 DEF IInv, Sentinel
  <1>9. Reaching'
    <2>1. \A r \in Rows : SnapPending(r)'  BY <1>1, <1>6 DEF SnapPending, Rows
    <2> QED  BY Zenon, <1>1, <1>2, <2>1 DEF IInv, Reaching, IsVersion
  <1>10. Emitted'  BY Zenon, <1>1, <1>2, EmittedFrame DEF IInv
  <1> QED  BY Zenon, <1>2, <1>3, <1>4, <1>5, <1>7, <1>8, <1>9, <1>10 DEF IInv

LEMMA PublishInput ==
    ASSUME IInv, NEW x \in InputItems, HasRoom(input), input' = Append(input, x),
           UNCHANGED <<acked, sourceProgress, pendingMark>>,
           \A i \in 1..Len(input) : Follows(input[i], x),
           \/ x.kind # "wal" /\ next' = next /\ MarkOf(x) < next
           \/ x = Wal(next) /\ next' = next + 1
    PROVE  /\ Input'
           /\ \A y : In(y, input') <=> In(y, input) \/ y = x
           /\ Len(input) \in Nat /\ Len(input') = Len(input) + 1
           /\ \A i \in 1..Len(input') : i \in 1..Len(input) \/ i = Len(input) + 1
           /\ \A i \in 1..Len(input) : i \in 1..Len(input') /\ input'[i] = input[i]
           /\ input'[Len(input) + 1] = x /\ Len(input) + 1 \in 1..Len(input')
  <1> USE JoinAssumption DEF JoinAssumption
  <1>1. /\ next \in 1..(NEvents + 1) /\ acked < next /\ sourceProgress < next /\ pendingMark < next
        /\ acked \in Nat /\ sourceProgress \in Nat /\ pendingMark \in Nat
    BY DEF IInv, Numbers
  <1>2. input \in Seq(InputItems) /\ Len(input) < BusCapacity  BY Zenon DEF IInv, Input, HasRoom
  <1>3. /\ input' \in Seq(InputItems) /\ Len(input') = Len(input) + 1 /\ Len(input) \in Nat
        /\ \A i \in 1..Len(input) : input'[i] = input[i]
        /\ input'[Len(input) + 1] = x
        /\ \A y : In(y, input') <=> In(y, input) \/ y = x
    BY <1>2, AppendFacts
  <1>4. /\ \A i \in 1..Len(input') : i \in 1..Len(input) \/ i = Len(input) + 1
        /\ \A i \in 1..Len(input) : i \in 1..Len(input') /\ input'[i] = input[i]
        /\ Len(input) + 1 \in 1..Len(input')
    BY <1>3
  <1>5. x = Wal(next) => next \in Events /\ x.kind = "wal" /\ x.id = next /\ MarkOf(x) = next
    BY DEF Wal, InputItems, MarkOf
  <1>6. Len(input') <= BusCapacity  BY <1>2, <1>3
  <1>7. ASSUME NEW i \in 1..Len(input'), NEW j \in 1..(i - 1) PROVE Follows(input'[j], input'[i])
    <2>1. j \in 1..Len(input) /\ input'[j] = input[j]  BY <1>3
    <2>2. CASE i \in 1..Len(input)
      <3>1. Follows(input[j], input[i])  BY Zenon, <2>2 DEF IInv, Input
      <3> QED  BY Zenon, <1>4, <2>1, <2>2, <3>1
    <2>3. CASE i = Len(input) + 1  BY Zenon, <1>3, <2>1, <2>3
    <2> QED  BY Zenon, <1>4, <2>2, <2>3
  <1>8. ASSUME NEW i \in 1..Len(input') PROVE MarkOf(input'[i]) < next'
    <2>1. CASE i \in 1..Len(input)
      <3>1. MarkOf(input[i]) < next  BY Zenon, <2>1 DEF IInv, Input
      <3>2. MarkOf(input[i]) \in Nat
        <4>1. input[i] \in InputItems  BY <1>2, <2>1
        <4> QED  BY <4>1 DEF InputItems, MarkOf, Events
      <3>3. next' >= next /\ next' \in Nat  BY <1>1
      <3>4. MarkOf(input'[i]) = MarkOf(input[i])  BY Zenon, <1>4, <2>1
      <3> QED  BY <1>1, <3>1, <3>2, <3>3, <3>4
    <2>2. CASE i = Len(input) + 1
      <3>1. input'[i] = x  BY Zenon, <1>3, <2>2
      <3>2. MarkOf(x) < next'  BY <1>1, <1>5
      <3> QED  BY Zenon, <3>1, <3>2
    <2> QED  BY Zenon, <1>4, <2>1, <2>2
  <1>9. ASSUME NEW i \in 1..Len(input'), input'[i].kind = "wal"
        PROVE  /\ input'[i].id > acked' /\ input'[i].id > sourceProgress'
               /\ input'[i].id > pendingMark'
    <2>1. CASE i \in 1..Len(input)  BY Zenon, <1>4, <1>9, <2>1 DEF IInv, Input
    <2>2. CASE i = Len(input) + 1  BY Zenon, <1>1, <1>3, <1>5, <1>9, <2>2
    <2> QED  BY Zenon, <1>4, <2>1, <2>2
  <1>10. ASSUME NEW e \in Events, NEW f \in Events, In(Wal(e), input'), e <= f, f < next'
         PROVE  In(Wal(f), input')
    <2>1. e \in Nat /\ f \in Nat /\ Wal(e).kind = "wal" /\ Wal(e).id = e /\ Wal(f).kind = "wal"
      BY Items DEF Events
    <2>2. CASE f < next
      <3>1. Wal(e) # x  BY <1>1, <1>5, <1>10, <2>1, <2>2
      <3>2. In(Wal(e), input)  BY Zenon, <1>3, <1>10, <3>1
      <3>3. In(Wal(f), input)  BY Zenon, <1>10, <2>2, <3>2 DEF IInv, Input
      <3> QED  BY Zenon, <1>3, <3>3
    <2>3. CASE ~(f < next)
      <3>1. next' = next + 1 /\ x = Wal(next) /\ f = next  BY <1>1, <1>10, <2>1, <2>3
      <3> QED  BY Zenon, <1>3, <3>1
    <2> QED  BY Zenon, <2>2, <2>3
  <1>11. Input'  BY Zenon, <1>3, <1>6, <1>7, <1>8, <1>9, <1>10 DEF Input
  <1> QED  BY Zenon, <1>3, <1>4, <1>11

LEMMA PublishSnapshotRowKeeps == ASSUME IInv, PublishSnapshotRow PROVE IInv'
  <1> USE JoinAssumption DEF JoinAssumption
  <1>0. PICK r, v, x : r = NRows - Len(scan) + 1 /\ v = Head(scan) /\ x = Snap(r, v)
    BY Zenon
  <1>1. /\ phase = "snapshot" /\ HasRoom(input) /\ input' = Append(input, x) /\ scan' = Tail(scan)
        /\ phase' = (IF Len(scan) = 1 THEN "complete" ELSE "snapshot")
        /\ UNCHANGED <<next, barrierDue>> /\ SourceStill
    BY Zenon, <1>0 DEF PublishSnapshotRow
  <1>2. /\ Tables' /\ Output' /\ Mirrored' /\ Safe'
        /\ UNCHANGED <<committed, table, slot, slotStart, acked, pc, mem, tx, persistOn,
                       persistFailed, dumpPending, pendingWork, pendingMark, sequence,
                       sourceProgress, output, sinkProgress, disk, identity, delivered,
                       quarantined, crashes>>
    BY Zenon, <1>1, SourceFrame
  <1>3. next \in Nat \ {0}  BY DEF IInv, Numbers
  <1>4. /\ scan \in Seq(0..NEvents) /\ Len(scan) \in 1..NRows
        /\ \A i \in 1..Len(scan) :
            /\ IsVersion(NRows - Len(scan) + i, scan[i])
            /\ \A e \in Changes(NRows - Len(scan) + i) : e < next => e <= scan[i]
    BY Zenon, <1>1 DEF IInv, Scanned
  <1>5. scan # <<>>  BY <1>4
  <1>6. /\ Tail(scan) \in Seq(0..NEvents) /\ Len(Tail(scan)) = Len(scan) - 1
        /\ \A i \in 1..Len(Tail(scan)) : i + 1 \in 1..Len(scan) /\ Tail(scan)[i] = scan[i + 1]
        /\ v = scan[1] /\ v \in 0..NEvents /\ 1 \in 1..Len(scan)
    BY Zenon, <1>0, <1>4, <1>5, TailFacts
  <1>7. /\ r \in Rows /\ IsVersion(r, v)
        /\ \A e \in Changes(r) : e < next => e <= v
    <2>1. IsVersion(NRows - Len(scan) + 1, scan[1])
          /\ \A e \in Changes(NRows - Len(scan) + 1) : e < next => e <= scan[1]
      BY Zenon, <1>4, <1>6
    <2>2. r \in Rows  BY <1>0, <1>4 DEF Rows
    <2> QED  BY Zenon, <1>0, <1>6, <2>1, <2>2
  <1>8. x \in InputItems /\ x.kind = "snapshot" /\ x.row = r /\ x.version = v
    BY <1>0, <1>6, <1>7, Items
  <1>9. \A i \in 1..Len(input) : input[i].kind = "snapshot"  BY Zenon, <1>1 DEF IInv, Sentinel
  <1>10. \A i \in 1..Len(input) : Follows(input[i], x)  BY Zenon, <1>8, <1>9 DEF Follows
  <1>11. MarkOf(x) < next  BY <1>3, <1>8 DEF MarkOf
  <1>12. /\ Input'
         /\ \A y : In(y, input') <=> In(y, input) \/ y = x
         /\ Len(input) \in Nat /\ Len(input') = Len(input) + 1
         /\ \A i \in 1..Len(input') : i \in 1..Len(input) \/ i = Len(input) + 1
         /\ \A i \in 1..Len(input) : i \in 1..Len(input') /\ input'[i] = input[i]
         /\ input'[Len(input) + 1] = x /\ Len(input) + 1 \in 1..Len(input')
    BY Zenon, <1>1, <1>2, <1>8, <1>10, <1>11, PublishInput
  <1>13. Numbers'  BY Zenon, <1>1, <1>2, NumbersFrame DEF IInv
  <1>14. Flags'  BY Zenon, <1>1, <1>2 DEF IInv, Flags
  <1>15. Scanned'
    <2> SUFFICES ASSUME Len(scan) # 1
                 PROVE  /\ scan' \in Seq(0..NEvents) /\ Len(scan') \in 1..NRows
                        /\ \A i \in 1..Len(scan') :
                            /\ IsVersion(NRows - Len(scan') + i, scan'[i])
                            /\ \A e \in Changes(NRows - Len(scan') + i) : e < next => e <= scan'[i]
      BY Zenon, <1>1, <1>2 DEF Scanned, IsVersion
    <2>1. \A i \in 1..Len(scan') : NRows - Len(scan') + i = NRows - Len(scan) + (i + 1)
      BY <1>1, <1>4, <1>6
    <2>2. Len(scan') \in 1..NRows  BY <1>1, <1>4, <1>6
    <2> QED  BY Zenon, <1>1, <1>4, <1>6, <2>1, <2>2
  <1>16. Sentinel'
    <2>1. \A i \in 1..Len(input') : input'[i].kind = "snapshot"  BY Zenon, <1>8, <1>9, <1>12
    <2> QED  BY Zenon, <1>1, <1>2, <2>1 DEF IInv, Sentinel
  <1>17. \A q \in Rows : SnapPending(q) => SnapPending(q)'
    <2> SUFFICES ASSUME NEW q \in Rows, SnapPending(q) PROVE SnapPending(q)'
      BY Zenon
    <2>1. CASE q = r  BY Zenon, <1>8, <1>12, <2>1 DEF SnapPending
    <2>2. CASE q # r /\ q > NRows - Len(scan)
      <3>1. q > NRows - Len(scan') /\ Len(scan) # 1
        <4>1. Len(scan') = Len(scan) - 1  BY Zenon, <1>1, <1>6
        <4>2. Len(scan) \in 1..NRows /\ r = NRows - Len(scan) + 1 /\ q \in 1..NRows
          BY Zenon, <1>0, <1>4 DEF Rows
        <4> QED  BY <2>2, <4>1, <4>2
      <3> QED  BY Zenon, <1>1, <3>1 DEF SnapPending
    <2>3. CASE \E i \in 1..Len(input) : input[i].kind = "snapshot" /\ input[i].row = q
      BY Zenon, <1>12, <2>3 DEF SnapPending
    <2> QED  BY Zenon, <1>1, <2>1, <2>2, <2>3 DEF SnapPending
  <1>18. Reaching'
    <2>1. ASSUME NEW i \in 1..Len(input'), input'[i].kind = "snapshot"
          PROVE  /\ IsVersion(input'[i].row, input'[i].version)
                 /\ \A e \in Changes(input'[i].row) :
                     e < next => e <= input'[i].version \/ In(Wal(e), input')
      <3>1. CASE i \in 1..Len(input)  BY Zenon, <1>12, <2>1, <3>1 DEF IInv, Reaching
      <3>2. CASE i = Len(input) + 1  BY Zenon, <1>7, <1>8, <1>12, <3>2
      <3> QED  BY Zenon, <1>12, <3>1, <3>2
    <2> QED  BY ZenonT(30), <1>1, <1>2, <1>12, <1>17, <2>1 DEF IInv, Reaching, IsVersion
  <1>19. Emitted'  BY Zenon, <1>1, <1>2, <1>12 DEF IInv, Emitted, Sent
  <1> QED  BY Zenon, <1>2, <1>12, <1>13, <1>14, <1>15, <1>16, <1>18, <1>19 DEF IInv

LEMMA PublishCompleteKeeps == ASSUME IInv, PublishComplete PROVE IInv'
  <1> USE JoinAssumption DEF JoinAssumption
  <1> DEFINE x == Complete
  <1>1. /\ phase = "complete" /\ HasRoom(input) /\ input' = Append(input, x) /\ phase' = "tail"
        /\ UNCHANGED <<scan, next, barrierDue>> /\ SourceStill
    BY Zenon DEF PublishComplete
  <1>2. /\ Tables' /\ Output' /\ Mirrored' /\ Safe'
        /\ UNCHANGED <<committed, table, slot, slotStart, acked, pc, mem, tx, persistOn,
                       persistFailed, dumpPending, pendingWork, pendingMark, sequence,
                       sourceProgress, output, sinkProgress, disk, identity, delivered,
                       quarantined, crashes>>
    BY Zenon, <1>1, SourceFrame
  <1>3. next \in Nat \ {0}  BY DEF IInv, Numbers
  <1>4. x \in InputItems /\ x.kind = "snapshot-complete"  BY Zenon, Items
  <1>5. x = Complete  BY Zenon
  <1> HIDE DEF x
  <1>6. \A i \in 1..Len(input) : input[i].kind = "snapshot"  BY Zenon, <1>1 DEF IInv, Sentinel
  <1>7. \A i \in 1..Len(input) : Follows(input[i], x)  BY Zenon, <1>4, <1>6 DEF Follows
  <1>8. MarkOf(x) < next  BY <1>3, <1>4 DEF MarkOf
  <1>9. /\ Input'
        /\ \A y : In(y, input') <=> In(y, input) \/ y = x
        /\ Len(input) \in Nat /\ Len(input') = Len(input) + 1
        /\ \A i \in 1..Len(input') : i \in 1..Len(input) \/ i = Len(input) + 1
        /\ \A i \in 1..Len(input) : i \in 1..Len(input') /\ input'[i] = input[i]
        /\ input'[Len(input) + 1] = x /\ Len(input) + 1 \in 1..Len(input')
    BY Zenon, <1>1, <1>2, <1>4, <1>7, <1>8, PublishInput
  <1>10. Numbers'  BY Zenon, <1>1, <1>2, NumbersFrame DEF IInv
  <1>11. Flags'  BY Zenon, <1>1, <1>2 DEF IInv, Flags
  <1>12. Scanned'  BY Zenon, <1>1 DEF Scanned
  <1>13. Sentinel'
    <2>1. In(Complete, input') /\ ~dumpPending /\ ~identity
      BY Zenon, <1>1, <1>5, <1>9 DEF IInv, Sentinel
    <2> QED  BY Zenon, <1>1, <1>2, <2>1 DEF IInv, Sentinel
  <1>14. \A q \in Rows : SnapPending(q) => SnapPending(q)'
    BY Zenon, <1>1, <1>9 DEF SnapPending
  <1>15. \A i \in 1..Len(input') : input'[i].kind = "snapshot" =>
           i \in 1..Len(input) /\ input'[i] = input[i]
    BY Zenon, <1>4, <1>9
  <1>16. Reaching'  BY ZenonT(30), <1>1, <1>2, <1>9, <1>14, <1>15 DEF IInv, Reaching, IsVersion
  <1>17. Emitted'  BY ZenonT(30), <1>1, <1>2, <1>9 DEF IInv, Emitted, Sent
  <1> QED  BY Zenon, <1>2, <1>9, <1>10, <1>11, <1>12, <1>13, <1>16, <1>17 DEF IInv

\* In the log phase nothing but a change or a barrier is published.
LEMMA PublishTail ==
    ASSUME IInv, phase = "tail", NEW x \in InputItems, x.kind \in {"wal", "barrier"},
           input' = Append(input, x), SourceStill, UNCHANGED <<scan, phase>>,
           HasRoom(input), \A i \in 1..Len(input) : Follows(input[i], x),
           \/ x.kind # "wal" /\ next' = next /\ MarkOf(x) < next
           \/ x = Wal(next) /\ next' = next + 1 /\ next <= committed
    PROVE  /\ Tables' /\ Input' /\ Output' /\ Scanned' /\ Sentinel' /\ Reaching' /\ Emitted'
           /\ Mirrored' /\ Safe' /\ Numbers'
           /\ UNCHANGED <<slot, pc, persistOn, persistFailed, dumpPending, pendingWork, identity>>
  <1> USE JoinAssumption DEF JoinAssumption
  <1>1. SourceStill  BY Zenon
  <1>2. /\ Tables' /\ Output' /\ Mirrored' /\ Safe'
        /\ UNCHANGED <<committed, table, slot, slotStart, acked, pc, mem, tx, persistOn,
                       persistFailed, dumpPending, pendingWork, pendingMark, sequence,
                       sourceProgress, output, sinkProgress, disk, identity, delivered,
                       quarantined, crashes>>
    BY Zenon, <1>1, SourceFrame
  <1>3. next \in 1..(NEvents + 1) /\ committed \in Nat  BY SMTT(30) DEF IInv, Numbers
  <1>4. x = Wal(next) => next \in Events /\ x.kind = "wal"  BY DEF Wal, InputItems
  <1>5. /\ Input'
        /\ \A y : In(y, input') <=> In(y, input) \/ y = x
        /\ Len(input) \in Nat /\ Len(input') = Len(input) + 1
        /\ \A i \in 1..Len(input') : i \in 1..Len(input) \/ i = Len(input) + 1
        /\ \A i \in 1..Len(input) : i \in 1..Len(input') /\ input'[i] = input[i]
        /\ input'[Len(input) + 1] = x /\ Len(input) + 1 \in 1..Len(input')
    BY Zenon, <1>2, PublishInput
  <1>6. Numbers'  BY <1>2, <1>3 DEF IInv, Numbers
  <1>7. Scanned'  BY Zenon DEF Scanned
  <1>8. Sentinel'  BY ZenonT(30), <1>2, <1>5 DEF IInv, Sentinel
  <1>9. \A e \in Events : e < next' => e < next \/ In(Wal(e), input')
    BY <1>3, <1>4, <1>5 DEF Events
  <1>10. \A q \in Rows : SnapPending(q) => SnapPending(q)'  BY Zenon, <1>5 DEF SnapPending
  <1>11. Reaching'
    <2>1. \A i \in 1..Len(input') : input'[i].kind = "snapshot" =>
            i \in 1..Len(input) /\ input'[i] = input[i]
      BY Zenon, <1>5
    <2> QED  BY ZenonT(30), <1>2, <1>5, <1>9, <1>10, <2>1 DEF IInv, Reaching, IsVersion, Changes
  <1>12. Emitted'  BY Zenon, <1>2, <1>5, <1>9 DEF IInv, Emitted, Sent, Changes
  <1> QED  BY Zenon, <1>2, <1>5, <1>6, <1>7, <1>8, <1>11, <1>12

LEMMA PublishChangeKeeps == ASSUME IInv, PublishChange PROVE IInv'
  <1> USE JoinAssumption DEF JoinAssumption
  <1>1. /\ phase = "tail" /\ HasRoom(input) /\ next <= committed
        /\ input' = Append(input, Wal(next)) /\ next' = next + 1 /\ barrierDue' = TRUE
        /\ UNCHANGED <<scan, phase>> /\ SourceStill
    BY Zenon DEF PublishChange
  <1>2. next \in Events  BY <1>1 DEF IInv, Numbers, Events
  <1>3. Wal(next) \in InputItems /\ Wal(next).kind = "wal" /\ Wal(next).id = next  BY Zenon, <1>2, Items
  <1>4. \A i \in 1..Len(input) : Follows(input[i], Wal(next))
    BY Zenon, <1>3 DEF IInv, Input, Follows
  <1>5. /\ Tables' /\ Input' /\ Output' /\ Scanned' /\ Sentinel' /\ Reaching' /\ Emitted'
        /\ Mirrored' /\ Safe' /\ Numbers'
        /\ UNCHANGED <<slot, pc, persistOn, persistFailed, dumpPending, pendingWork, identity>>
    BY Zenon, <1>1, <1>3, <1>4, PublishTail
  <1>6. Flags'  BY Zenon, <1>1, <1>5 DEF IInv, Flags
  <1> QED  BY Zenon, <1>5, <1>6 DEF IInv

LEMMA PublishAckBarrierKeeps == ASSUME IInv, PublishAckBarrier PROVE IInv'
  <1> USE JoinAssumption DEF JoinAssumption
  <1>1. /\ phase = "tail" /\ HasRoom(input)
        /\ input' = Append(input, AckBarrier(next - 1)) /\ next' = next /\ barrierDue' = FALSE
        /\ UNCHANGED <<scan, phase>> /\ SourceStill
    BY Zenon DEF PublishAckBarrier
  <1>2. next \in Nat /\ next - 1 \in 0..NEvents /\ next - 1 < next  BY DEF IInv, Numbers
  <1>3. /\ AckBarrier(next - 1) \in InputItems /\ AckBarrier(next - 1).kind = "barrier"
        /\ AckBarrier(next - 1).id = next - 1
    BY Zenon, <1>2, Items
  <1>4. MarkOf(AckBarrier(next - 1)) < next  BY Zenon, <1>2, <1>3 DEF MarkOf
  <1>5. \A i \in 1..Len(input) : Follows(input[i], AckBarrier(next - 1))
    BY Zenon, <1>3 DEF Follows
  <1>6. /\ Tables' /\ Input' /\ Output' /\ Scanned' /\ Sentinel' /\ Reaching' /\ Emitted'
        /\ Mirrored' /\ Safe' /\ Numbers'
        /\ UNCHANGED <<slot, pc, persistOn, persistFailed, dumpPending, pendingWork, identity>>
    BY Zenon, <1>1, <1>3, <1>4, <1>5, PublishTail
  <1>7. Flags'  BY Zenon, <1>1, <1>6 DEF IInv, Flags
  <1> QED  BY Zenon, <1>6, <1>7 DEF IInv

LEMMA AckKeeps == ASSUME IInv, Ack PROVE IInv'
  <1> USE JoinAssumption DEF JoinAssumption
  <1>1. /\ sourceProgress > acked /\ acked' = sourceProgress
        /\ UNCHANGED <<committed, table, slot, slotStart, scan, phase, next, barrierDue, input, pc,
                       mem, tx, persistOn, persistFailed, dumpPending, pendingWork, pendingMark,
                       sequence, sourceProgress, output, sinkProgress, disk, identity, delivered,
                       quarantined, crashes>>
    BY Zenon DEF Ack, sourceVars, stateVars, boundaryVars, dispatcherVars, diskVars
  <1>2. acked \in Nat /\ sourceProgress \in Nat  BY DEF IInv, Numbers
  <1>3. Numbers'  BY <1>1 DEF IInv, Numbers
  <1>4. Flags'  BY Zenon, <1>1 DEF IInv, Flags
  <1>5. Input'  BY Zenon, <1>1 DEF IInv, Input
  <1>6. sourceProgress > 0  BY <1>1, <1>2
  <1>7. identity  BY Zenon, <1>6 DEF IInv, Sentinel
  <1>8. Sentinel'  BY ZenonT(30), <1>1, <1>7 DEF IInv, Sentinel
  <1>9. Safe'  BY Zenon, <1>1 DEF IInv, Safe, StateBehindSink, Durable
  <1>10. Tables' /\ Output' /\ Scanned' /\ Reaching' /\ Emitted' /\ Mirrored'
    BY Zenon, <1>1, TablesFrame, OutputFrame, ScannedFrame, ReachingFrame, EmittedFrame, MirroredFrame
    DEF IInv
  <1> QED  BY Zenon, <1>3, <1>4, <1>5, <1>8, <1>9, <1>10 DEF IInv

-----------------------------------------------------------------------------
\* The join engine takes the head of its input and adds to its output.
LEMMA TakeInput ==
    ASSUME IInv, input # <<>>, input' = Tail(input), UNCHANGED <<next, acked, sourceProgress>>,
           pendingMark' = Larger(pendingMark, MarkOf(Head(input)))
    PROVE  /\ Input' /\ Head(input) \in InputItems /\ Head(input) = input[1] /\ 1 \in 1..Len(input)
           /\ MarkOf(Head(input)) \in 0..(next - 1) /\ pendingMark' \in 0..(next - 1)
           /\ \A y : In(y, input) <=> y = Head(input) \/ In(y, input')
           /\ \A i \in 1..Len(input') :
                /\ i + 1 \in 1..Len(input) /\ input'[i] = input[i + 1]
                /\ Follows(Head(input), input'[i])
           /\ \A i \in 1..Len(input) : input[i] = Head(input) \/ \E j \in 1..Len(input') : input'[j] = input[i]
  <1> USE JoinAssumption DEF JoinAssumption
  <1>1. input \in Seq(InputItems) /\ Len(input) <= BusCapacity  BY Zenon DEF IInv, Input
  <1>2. /\ input' \in Seq(InputItems) /\ Len(input) \in Nat \ {0} /\ Len(input') = Len(input) - 1
        /\ \A i \in 1..Len(input') : i + 1 \in 1..Len(input) /\ input'[i] = input[i + 1]
        /\ Head(input) = input[1] /\ Head(input) \in InputItems /\ 1 \in 1..Len(input)
        /\ \A y : In(y, input) <=> y = Head(input) \/ In(y, input')
    BY Zenon, <1>1, TailFacts
  <1>3. PICK h : h = Head(input)  BY Zenon
  <1>4. /\ next \in Nat /\ acked \in Nat /\ sourceProgress \in Nat /\ pendingMark \in 0..(next - 1)
    BY DEF IInv, Numbers
  <1>5. MarkOf(h) \in 0..(next - 1)
    <2>1. MarkOf(h) < next  BY Zenon, <1>2, <1>3 DEF IInv, Input
    <2>2. MarkOf(h) \in Nat  BY <1>2, <1>3 DEF InputItems, MarkOf, Events
    <2> QED  BY <1>4, <2>1, <2>2
  <1>6. pendingMark' \in {pendingMark, MarkOf(h)}  BY Zenon, <1>3 DEF Larger
  <1>7. pendingMark' \in 0..(next - 1)  BY Zenon, <1>4, <1>5, <1>6
  <1>8. ASSUME NEW i \in 1..Len(input') PROVE Follows(h, input'[i])
    <2>1. 1 \in 1..((i + 1) - 1) /\ i + 1 \in 1..Len(input)  BY <1>2
    <2>2. Follows(input[1], input[i + 1])  BY Zenon, <2>1 DEF IInv, Input
    <2> QED  BY Zenon, <1>2, <1>3, <2>2
  <1>9. ASSUME NEW i \in 1..Len(input'), NEW j \in 1..(i - 1) PROVE Follows(input'[j], input'[i])
    <2>1. /\ i + 1 \in 1..Len(input) /\ j + 1 \in 1..((i + 1) - 1) /\ j \in 1..Len(input')
      BY <1>2
    <2>2. Follows(input[j + 1], input[i + 1])  BY Zenon, <2>1 DEF IInv, Input
    <2> QED  BY Zenon, <1>2, <2>1, <2>2
  <1>10. ASSUME NEW i \in 1..Len(input')
         PROVE  /\ MarkOf(input'[i]) < next'
                /\ input'[i].kind = "wal" =>
                     /\ input'[i].id > acked' /\ input'[i].id > sourceProgress'
                     /\ input'[i].id > pendingMark'
    <2>1. i + 1 \in 1..Len(input) /\ input'[i] = input[i + 1]  BY Zenon, <1>2
    <2>2. MarkOf(input'[i]) < next  BY Zenon, <2>1 DEF IInv, Input
    <2>3. ASSUME input'[i].kind = "wal"
          PROVE  /\ input'[i].id > acked /\ input'[i].id > sourceProgress
                 /\ input'[i].id > pendingMark /\ input'[i].id \in Nat
      <3>1. input'[i] \in InputItems  BY <1>2
      <3>2. input'[i].id \in Nat  BY <2>3, <3>1 DEF InputItems, Events
      <3> QED  BY Zenon, <2>1, <2>3, <3>2 DEF IInv, Input
    <2>4. input'[i].kind = "wal" => input'[i].id > MarkOf(h)
      BY Zenon, <1>5, <1>8, <2>3 DEF Follows
    <2> QED  BY Zenon, <1>6, <2>2, <2>3, <2>4
  <1>11. ASSUME NEW e \in Events, NEW f \in Events, In(Wal(e), input'), e <= f, f < next'
         PROVE  In(Wal(f), input')
    <2>1. Wal(e).kind = "wal" /\ Wal(e).id = e /\ MarkOf(Wal(f)) = f
      BY ZenonT(30), Items DEF MarkOf
    <2>2. In(Wal(f), input)  BY Zenon, <1>2, <1>11 DEF IInv, Input
    <2>3. MarkOf(h) < e  BY Zenon, <1>8, <1>11, <2>1 DEF In, Follows
    <2>4. Wal(f) # h  BY <1>5, <1>11, <2>1, <2>3 DEF Events
    <2> QED  BY Zenon, <1>2, <1>3, <2>2, <2>4
  <1>12. Len(input') <= BusCapacity  BY SMTT(30), <1>1, <1>2
  <1>13. Input'  BY Zenon, <1>2, <1>9, <1>10, <1>11, <1>12 DEF Input
  <1>14. \A i \in 1..Len(input) : input[i] = Head(input) \/ \E j \in 1..Len(input') : input'[j] = input[i]
    BY Zenon, <1>2 DEF In
  <1> QED  BY Zenon, <1>2, <1>3, <1>5, <1>7, <1>8, <1>13, <1>14

LEMMA EmitOutput ==
    ASSUME IInv, pc = "run", HasRoom(output), NEW x \in OutputItems, x.kind # "join_barrier",
           output' = Append(output, x), pc' \in {"run", "barrier"}, UNCHANGED delivered
    PROVE  /\ Output' /\ \A e : Sent(e) => Sent(e)'
           /\ x.kind = "doc" => \A e \in CarriedBy(x) : Sent(e)'
  <1> USE JoinAssumption DEF JoinAssumption
  <1>1. output \in Seq(OutputItems) /\ Len(output) < BusCapacity  BY Zenon DEF IInv, Output, HasRoom
  <1>2. /\ output' \in Seq(OutputItems) /\ Len(output') = Len(output) + 1 /\ Len(output) \in Nat
        /\ \A i \in 1..Len(output) : output'[i] = output[i]
        /\ output'[Len(output) + 1] = x
    BY <1>1, AppendFacts
  <1>3. /\ \A i \in 1..Len(output') : i \in 1..Len(output) \/ i = Len(output) + 1
        /\ \A i \in 1..Len(output) : i \in 1..Len(output') /\ output'[i] = output[i]
        /\ Len(output) + 1 \in 1..Len(output')
    BY <1>2
  <1>4. \A i \in 1..Len(output) : output[i].kind # "join_barrier"  BY Zenon DEF IInv, Output
  <1>5. \A i \in 1..Len(output') : output'[i].kind # "join_barrier"  BY Zenon, <1>2, <1>3, <1>4
  <1>6. Len(output') <= BusCapacity  BY <1>1, <1>2
  <1>7. Output'  BY Zenon, <1>2, <1>5, <1>6 DEF Output
  <1>8. \A e : Sent(e) => Sent(e)'  BY Zenon, <1>3 DEF Sent, CarriedBy
  <1>9. x.kind = "doc" => \A e \in CarriedBy(x) : Sent(e)'  BY Zenon, <1>2, <1>3 DEF Sent, CarriedBy
  <1> QED  BY Zenon, <1>7, <1>8, <1>9

LEMMA OutputRests ==
    ASSUME IInv, pc = "run", pc' \in {"run", "barrier"}, UNCHANGED <<output, sequence, sinkProgress>>
    PROVE  Output'
  BY Zenon DEF IInv, Output

\* Behind a change or a barrier there is no snapshot left.
LEMMA LogHead ==
    ASSUME IInv, input # <<>>, Head(input).kind \in {"wal", "barrier"}
    PROVE  /\ phase = "tail" /\ (dumpPending \/ identity)
           /\ \A i \in 1..Len(input) : input[i].kind \notin {"snapshot", "snapshot-complete"}
           /\ \A r \in Rows : ~SnapPending(r)
  <1>1. input \in Seq(InputItems)  BY Zenon DEF IInv, Input
  <1>2. Head(input) = input[1] /\ 1 \in 1..Len(input) /\ Len(input) \in Nat  BY Zenon, <1>1, TailFacts
  <1>3. phase = "tail"  BY Zenon, <1>2 DEF IInv, Sentinel
  <1>4. ASSUME NEW i \in 1..Len(input) PROVE input[i].kind \notin {"snapshot", "snapshot-complete"}
    <2>1. CASE i = 1  BY Zenon, <1>2, <2>1
    <2>2. CASE i # 1
      <3>1. 1 \in 1..(i - 1)  BY <1>2, <2>2
      <3>2. Follows(input[1], input[i])  BY Zenon, <3>1 DEF IInv, Input
      <3> QED  BY Zenon, <1>2, <3>2 DEF Follows
    <2> QED  BY Zenon, <2>1, <2>2
  <1>5. ~In(Complete, input)  BY <1>4, Items DEF In
  <1>6. dumpPending \/ identity  BY Zenon, <1>3, <1>5 DEF IInv, Sentinel
  <1>7. \A r \in Rows : ~SnapPending(r)  BY Zenon, <1>3, <1>4 DEF SnapPending
  <1> QED  BY Zenon, <1>3, <1>4, <1>6, <1>7

LEMMA SafeGrows ==
    ASSUME Safe, UNCHANGED <<disk, identity, acked, sourceProgress, slotStart>>, pc' # "publish",
           delivered \subseteq delivered', quarantined \subseteq quarantined'
    PROVE  Safe'
  BY Zenon DEF Safe, StateBehindSink, Durable

LEMMA Receiving ==
    ASSUME IInv, NEW item, Receives(item, MarkOf(item)), JoinStill
    PROVE  /\ pc = "run" /\ HasRoom(output) /\ input # <<>> /\ item = Head(input) /\ pendingWork'
           /\ UNCHANGED <<committed, table, slot, slotStart, acked, scan, phase, next, barrierDue,
                          sinkProgress, sequence, sourceProgress, disk, identity, delivered>>
           /\ Input' /\ Scanned' /\ item \in InputItems /\ item = input[1] /\ 1 \in 1..Len(input)
           /\ MarkOf(item) \in 0..(next - 1)
           /\ \A y : In(y, input) <=> y = item \/ In(y, input')
           /\ \A i \in 1..Len(input') :
                /\ i + 1 \in 1..Len(input) /\ input'[i] = input[i + 1] /\ Follows(item, input'[i])
           /\ \A i \in 1..Len(input) : input[i] = item \/ \E j \in 1..Len(input') : input'[j] = input[i]
           /\ crashes' \in 0..MaxCrashes => Numbers'
           /\ quarantined \subseteq quarantined' /\ pc' # "publish" => Safe'
           /\ pendingMark' = Larger(pendingMark, MarkOf(item))
  <1>1. /\ pc = "run" /\ HasRoom(output) /\ input # <<>> /\ item = Head(input) /\ pendingWork'
        /\ input' = Tail(input) /\ pendingMark' = Larger(pendingMark, MarkOf(Head(input)))
        /\ pendingMark' = Larger(pendingMark, MarkOf(item))
    BY Zenon DEF Receives
  <1>2. UNCHANGED <<committed, table, slot, slotStart, acked, scan, phase, next, barrierDue,
                    sinkProgress, sequence, sourceProgress, disk, identity, delivered>>
    BY Zenon DEF JoinStill, dbVars, sourceVars
  <1>3. /\ Input' /\ item \in InputItems /\ item = input[1] /\ 1 \in 1..Len(input)
        /\ MarkOf(item) \in 0..(next - 1) /\ pendingMark' \in 0..(next - 1)
        /\ \A y : In(y, input) <=> y = item \/ In(y, input')
        /\ \A i \in 1..Len(input') :
             /\ i + 1 \in 1..Len(input) /\ input'[i] = input[i + 1] /\ Follows(item, input'[i])
        /\ \A i \in 1..Len(input) : input[i] = item \/ \E j \in 1..Len(input') : input'[j] = input[i]
    BY Zenon, <1>1, <1>2, TakeInput
  <1>4. Scanned'  BY Zenon, <1>2, ScannedFrame DEF IInv
  <1>5. crashes' \in 0..MaxCrashes => Numbers'  BY Zenon, <1>2, <1>3 DEF IInv, Numbers
  <1>6. quarantined \subseteq quarantined' /\ pc' # "publish" => Safe'
    BY Zenon, <1>2, SafeGrows DEF IInv
  <1> QED  BY Zenon, <1>1, <1>2, <1>3, <1>4, <1>5, <1>6

LEMMA HandleSnapshotRowKeeps ==
    ASSUME IInv, NEW r \in Rows, NEW v \in 0..NEvents, HandleSnapshotRow(r, v) PROVE IInv'
  <1> USE JoinAssumption DEF JoinAssumption
  <1>1. PICK x : x = Snap(r, v)  BY Zenon
  <1>2. /\ x.kind = "snapshot" /\ x.row = r /\ x.version = v /\ MarkOf(x) = 0
        /\ \A e : Wal(e) # x
        /\ Complete # x
    BY Zenon, <1>1, Items DEF Snap, MarkOf, Wal, Complete
  <1>3. /\ Receives(x, MarkOf(x)) /\ JoinStill /\ persistOn' = FALSE
        /\ output' = Append(output, Doc(r, v, 0))
        /\ UNCHANGED <<pc, tx, persistFailed, dumpPending, quarantined, crashes>>
    BY Zenon, <1>1, <1>2 DEF HandleSnapshotRow
  <1>4. mem' = [mem EXCEPT ![r] = v]  BY Zenon DEF HandleSnapshotRow
  <1>5. /\ pc = "run" /\ HasRoom(output) /\ input # <<>> /\ pendingWork'
        /\ UNCHANGED <<committed, table, slot, slotStart, acked, scan, phase, next, barrierDue,
                       sinkProgress, sequence, sourceProgress, disk, identity, delivered>>
        /\ Input' /\ Scanned' /\ x = input[1] /\ 1 \in 1..Len(input)
        /\ \A y : In(y, input) <=> y = x \/ In(y, input')
        /\ \A i \in 1..Len(input') : i + 1 \in 1..Len(input) /\ input'[i] = input[i + 1]
        /\ \A i \in 1..Len(input) : input[i] = x \/ \E j \in 1..Len(input') : input'[j] = input[i]
        /\ Safe' /\ pendingMark' = Larger(pendingMark, 0)
    BY Zenon, <1>2, <1>3, Receiving
  <1>6. Numbers'
    <2>1. crashes' \in 0..MaxCrashes  BY Zenon, <1>3 DEF IInv, Numbers
    <2> QED  BY Zenon, <1>3, <2>1, Receiving
  <1>7. Flags'  BY Zenon, <1>3, <1>5 DEF IInv, Flags
  <1>8. pendingMark' = pendingMark
    BY <1>5 DEF IInv, Numbers, Larger
  <1>9. /\ IsVersion(r, v)
        /\ \A e \in Changes(r) : e < next => e <= v \/ In(Wal(e), input')
    BY ZenonT(30), <1>2, <1>5 DEF IInv, Reaching
  <1>10. /\ mem \in [Rows -> Versions] /\ mem'[r] = v /\ \A q \in Rows : q # r => mem'[q] = mem[q]
         /\ mem' \in [Rows -> Versions]
    BY Zenon, <1>4, <1>9 DEF IInv, Tables, IsVersion
  <1>11. Tables'
    BY Zenon, <1>3, <1>5, <1>9, <1>10 DEF IInv, Tables, IsVersion
  <1>12. Sentinel'
    <2>1. ~dumpPending /\ ~identity  BY Zenon, <1>2, <1>5 DEF IInv, Sentinel
    <2>2. /\ ~dumpPending' /\ ~identity'
          /\ UNCHANGED <<phase, pendingMark, sourceProgress, pc, acked, slotStart>>
      BY Zenon, <1>3, <1>5, <1>8, <2>1
    <2>3. phase = "tail" => In(Complete, input')  BY Zenon, <1>2, <1>5, <2>1 DEF IInv, Sentinel
    <2>4. phase # "tail" => \A i \in 1..Len(input') : input'[i].kind = "snapshot"
      BY Zenon, <1>5 DEF IInv, Sentinel
    <2>5. /\ ~(pendingMark > 0) /\ ~(sourceProgress > 0) /\ acked = slotStart
      BY Zenon, <2>1 DEF IInv, Sentinel
    <2> QED  BY Zenon, <2>2, <2>3, <2>4, <2>5 DEF Sentinel
  <1>13. \A y : (\E e : y = Wal(e)) => (In(y, input) <=> In(y, input'))  BY Zenon, <1>2, <1>5
  <1>14. ASSUME NEW q \in Rows, q # r, SnapPending(q) PROVE SnapPending(q)'
    <2>1. CASE phase = "scan" \/ (phase = "snapshot" /\ q > NRows - Len(scan))
      BY Zenon, <1>5, <2>1 DEF SnapPending
    <2>2. CASE \E i \in 1..Len(input) : input[i].kind = "snapshot" /\ input[i].row = q
      <3>1. PICK i \in 1..Len(input) : input[i].kind = "snapshot" /\ input[i].row = q  BY Zenon, <2>2
      <3>2. input[i] # x  BY Zenon, <1>2, <1>14, <3>1
      <3>3. PICK j \in 1..Len(input') : input'[j] = input[i]  BY Zenon, <1>5, <3>2
      <3> QED  BY Zenon, <3>1, <3>3 DEF SnapPending
    <2> QED  BY Zenon, <1>14, <2>1, <2>2 DEF SnapPending
  <1>15. Reaching'
    <2>1. ASSUME NEW i \in 1..Len(input'), input'[i].kind = "snapshot"
          PROVE  /\ IsVersion(input'[i].row, input'[i].version)
                 /\ \A e \in Changes(input'[i].row) :
                     e < next' => e <= input'[i].version \/ In(Wal(e), input')
      <3>1. i + 1 \in 1..Len(input) /\ input'[i] = input[i + 1]  BY Zenon, <1>5
      <3>2. /\ IsVersion(input'[i].row, input'[i].version)
            /\ \A e \in Changes(input'[i].row) :
                e < next => e <= input'[i].version \/ In(Wal(e), input)
        BY Zenon, <2>1, <3>1 DEF IInv, Reaching
      <3> QED  BY Zenon, <1>5, <1>13, <3>2
    <2>2. \A q \in Rows : SnapPending(q)' \/ mem'[q] >= 0
      BY <1>10, <1>14 DEF IInv, Reaching
    <2>3. \A q \in Rows : \A e \in Changes(q) :
            e < next' => mem'[q] >= e \/ In(Wal(e), input') \/ SnapPending(q)'
      BY Zenon, <1>5, <1>9, <1>10, <1>13, <1>14 DEF IInv, Reaching, Changes, Events
    <2> QED  BY Zenon, <1>5, <2>1, <2>2, <2>3 DEF Reaching, IsVersion
  <1>16. PICK d : d = Doc(r, v, 0)  BY Zenon
  <1>17. /\ d \in OutputItems /\ d.kind = "doc" /\ d.row = r /\ d.version = v
    BY <1>16 DEF Doc, OutputItems
  <1>18. /\ Output' /\ \A e : Sent(e) => Sent(e)'
         /\ \A e \in CarriedBy(d) : Sent(e)'
    BY Zenon, <1>3, <1>5, <1>16, <1>17, EmitOutput
  <1>19. Emitted'
    <2>1. \A e \in Changes(r) : e <= v => Sent(e)'
      BY <1>17, <1>18 DEF Changes, CarriedBy, Rows
    <2>2. \A q \in Rows : \A e \in Changes(q) : e <= mem'[q] \/ e <= tx'[q] => Sent(e)'
      BY Zenon, <1>3, <1>10, <1>18, <2>1 DEF IInv, Emitted
    <2>3. \A e \in Changes(0) :
            e < next' => e <= slotStart' \/ e \in quarantined' \/ In(Wal(e), input') \/ Sent(e)'
      BY Zenon, <1>3, <1>5, <1>13, <1>18 DEF IInv, Emitted
    <2> QED  BY Zenon, <2>2, <2>3 DEF Emitted
  <1>20. Mirrored'  BY ZenonT(30), <1>3, <1>5 DEF Mirrored
  <1> QED  BY Zenon, <1>5, <1>6, <1>7, <1>11, <1>12, <1>15, <1>18, <1>19, <1>20 DEF IInv

LEMMA HandleCompleteKeeps == ASSUME IInv, HandleComplete PROVE IInv'
  <1> USE JoinAssumption DEF JoinAssumption
  <1>1. PICK x : x = Complete  BY Zenon
  <1>2. /\ x.kind = "snapshot-complete" /\ MarkOf(x) = 0 /\ \A e : Wal(e) # x
    BY Zenon, <1>1, Items DEF Complete, MarkOf, Wal
  <1>3. /\ Receives(x, MarkOf(x)) /\ JoinStill /\ dumpPending' = TRUE
        /\ UNCHANGED <<pc, mem, tx, persistOn, persistFailed, output, quarantined, crashes>>
    BY Zenon, <1>1, <1>2 DEF HandleComplete, stateVars
  <1>5. /\ pc = "run" /\ input # <<>> /\ pendingWork'
        /\ UNCHANGED <<committed, table, slot, slotStart, acked, scan, phase, next, barrierDue,
                       sinkProgress, sequence, sourceProgress, disk, identity, delivered>>
        /\ Input' /\ Scanned' /\ x = input[1] /\ 1 \in 1..Len(input)
        /\ \A y : In(y, input) <=> y = x \/ In(y, input')
        /\ \A i \in 1..Len(input') :
             /\ i + 1 \in 1..Len(input) /\ input'[i] = input[i + 1] /\ Follows(x, input'[i])
        /\ \A i \in 1..Len(input) : input[i] = x \/ \E j \in 1..Len(input') : input'[j] = input[i]
        /\ Safe' /\ pendingMark' = Larger(pendingMark, 0)
    BY Zenon, <1>2, <1>3, Receiving
  <1>6. Numbers'
    <2>1. crashes' \in 0..MaxCrashes  BY Zenon, <1>3 DEF IInv, Numbers
    <2> QED  BY Zenon, <1>3, <2>1, Receiving
  <1>7. Flags'  BY Zenon, <1>3, <1>5 DEF IInv, Flags
  <1>8. Tables'  BY Zenon, <1>3, <1>5, TablesFrame DEF IInv
  <1>9. \A i \in 1..Len(input') : input'[i].kind \notin {"snapshot", "snapshot-complete"}
    <2>1. \A i \in 1..Len(input') : Follows(x, input'[i])  BY Zenon, <1>5
    <2> QED  BY Zenon, <1>2, <2>1 DEF Follows
  <1>10. Sentinel'
    <2>1. phase = "tail"  BY ZenonT(30), <1>2, <1>5 DEF IInv, Sentinel
    <2> QED  BY ZenonT(30), <1>3, <1>5, <1>9, <2>1 DEF IInv, Sentinel
  <1>11. \A y : (\E e : y = Wal(e)) => (In(y, input) <=> In(y, input'))  BY Zenon, <1>2, <1>5
  <1>12. ASSUME NEW q \in Rows, SnapPending(q) PROVE SnapPending(q)'
    <2>1. CASE phase = "scan" \/ (phase = "snapshot" /\ q > NRows - Len(scan))
      BY Zenon, <1>5, <2>1 DEF SnapPending
    <2>2. CASE \E i \in 1..Len(input) : input[i].kind = "snapshot" /\ input[i].row = q
      <3>1. PICK i \in 1..Len(input) : input[i].kind = "snapshot" /\ input[i].row = q  BY Zenon, <2>2
      <3>2. input[i] # x  BY Zenon, <1>2, <3>1
      <3>3. PICK j \in 1..Len(input') : input'[j] = input[i]  BY Zenon, <1>5, <3>2
      <3> QED  BY Zenon, <3>1, <3>3 DEF SnapPending
    <2> QED  BY Zenon, <1>12, <2>1, <2>2 DEF SnapPending
  <1>13. Reaching'
    BY ZenonT(30), <1>3, <1>5, <1>9, <1>11, <1>12 DEF IInv, Reaching
  <1>14. Output'  BY Zenon, <1>3, <1>5, OutputRests
  <1>15. Emitted'  BY ZenonT(30), <1>3, <1>5, <1>11 DEF IInv, Emitted, Sent
  <1>16. Mirrored'  BY ZenonT(30), <1>3, <1>5 DEF IInv, Mirrored
  <1> QED  BY Zenon, <1>5, <1>6, <1>7, <1>8, <1>10, <1>13, <1>14, <1>15, <1>16 DEF IInv

\* What every change and every ack barrier of the log has in common.
LEMMA LogItem ==
    ASSUME IInv, NEW item, Receives(item, MarkOf(item)), JoinStill, item.kind \in {"wal", "barrier"},
           UNCHANGED <<persistOn, dumpPending>>, pc' \in {"run", "barrier"},
           quarantined \subseteq quarantined', crashes' \in 0..MaxCrashes
    PROVE  /\ pc = "run" /\ HasRoom(output) /\ pendingWork'
           /\ UNCHANGED <<committed, table, slot, slotStart, acked, scan, phase, next, barrierDue,
                          sinkProgress, sequence, sourceProgress, disk, identity, delivered>>
           /\ Numbers' /\ Input' /\ Scanned' /\ Sentinel' /\ Safe'
           /\ MarkOf(item) \in 0..(next - 1) /\ In(item, input)
           /\ \A y : In(y, input) <=> y = item \/ In(y, input')
           /\ \A i \in 1..Len(input') : input'[i].kind \notin {"snapshot", "snapshot-complete"}
           /\ \A r \in Rows : ~SnapPending(r)
  <1>1. /\ pc = "run" /\ HasRoom(output) /\ input # <<>> /\ item = Head(input) /\ pendingWork'
        /\ UNCHANGED <<committed, table, slot, slotStart, acked, scan, phase, next, barrierDue,
                       sinkProgress, sequence, sourceProgress, disk, identity, delivered>>
        /\ Input' /\ Scanned' /\ item \in InputItems /\ item = input[1] /\ 1 \in 1..Len(input)
        /\ MarkOf(item) \in 0..(next - 1)
        /\ \A y : In(y, input) <=> y = item \/ In(y, input')
        /\ \A i \in 1..Len(input') : i + 1 \in 1..Len(input) /\ input'[i] = input[i + 1]
        /\ Numbers' /\ Safe'
    BY Zenon, Receiving
  <1>2. /\ phase = "tail" /\ (dumpPending \/ identity)
        /\ \A i \in 1..Len(input) : input[i].kind \notin {"snapshot", "snapshot-complete"}
        /\ \A r \in Rows : ~SnapPending(r)
    BY Zenon, <1>1, LogHead
  <1>3. \A i \in 1..Len(input') : input'[i].kind \notin {"snapshot", "snapshot-complete"}
    BY Zenon, <1>1, <1>2
  <1>4. Sentinel'  BY ZenonT(30), <1>1, <1>2, <1>3 DEF IInv, Sentinel
  <1> QED  BY Zenon, <1>1, <1>2, <1>3, <1>4

\* A row's changes stay in memory or on the bus when item e of the log is taken.
LEMMA LogReaching ==
    ASSUME IInv, NEW item, \A y : In(y, input) <=> y = item \/ In(y, input'),
           \A i \in 1..Len(input') : input'[i].kind # "snapshot",
           \A r \in Rows : ~SnapPending(r), UNCHANGED <<committed, next>>,
           \A r \in Rows : mem'[r] >= 0,
           \A r \in Rows : \A e \in Changes(r) :
               e < next /\ (mem[r] >= e \/ Wal(e) = item) => mem'[r] >= e \/ In(Wal(e), input')
    PROVE  Reaching'
  <1>1. \A r \in Rows : \A e \in Changes(r) : e < next => mem[r] >= e \/ In(Wal(e), input)
    BY ZenonT(30) DEF IInv, Reaching
  <1> QED  BY ZenonT(30), <1>1 DEF Reaching

LEMMA HandleChangeKeeps ==
    ASSUME IInv, NEW e \in Events, NEW ok \in BOOLEAN, HandleChange(e, ok) PROVE IInv'
  <1> USE JoinAssumption DEF JoinAssumption
  <1>1. PICK x : x = Wal(e)  BY Zenon
  <1>2. /\ x.kind = "wal" /\ x.id = e /\ MarkOf(x) = e /\ e \in 1..NEvents
        /\ \A f \in Events : Wal(f) = x <=> f = e
    BY Zenon, <1>1, Items DEF MarkOf, Wal, Events
  <1>3. PICK r \in Rows : r = RowOf[e]  BY Zenon DEF HandleChange
  <1>4. /\ Receives(x, MarkOf(x)) /\ JoinStill /\ (ok \/ (persistOn /\ crashes < MaxCrashes))
        /\ output' = Append(output, Doc(r, e, e))
        /\ crashes' = IF ok THEN crashes ELSE crashes + 1
        /\ UNCHANGED <<pc, persistOn, dumpPending, quarantined>>
    BY Zenon, <1>1, <1>2, <1>3 DEF HandleChange
  <1>5. /\ mem' = [mem EXCEPT ![r] = e]
        /\ tx' = IF persistOn /\ ok THEN [tx EXCEPT ![r] = e] ELSE tx
        /\ persistFailed' = (persistFailed \/ ~ok)
    BY Zenon, <1>3 DEF HandleChange
  <1>6. crashes' \in 0..MaxCrashes  BY <1>4 DEF IInv, Numbers
  <1>7. pc = "run"  BY Zenon, <1>4 DEF Receives
  <1>8. /\ HasRoom(output) /\ pendingWork'
        /\ UNCHANGED <<committed, table, slot, slotStart, acked, scan, phase, next, barrierDue,
                       sinkProgress, sequence, sourceProgress, disk, identity, delivered>>
        /\ Numbers' /\ Input' /\ Scanned' /\ Sentinel' /\ Safe'
        /\ MarkOf(x) \in 0..(next - 1) /\ In(x, input)
        /\ \A y : In(y, input) <=> y = x \/ In(y, input')
        /\ \A i \in 1..Len(input') : input'[i].kind \notin {"snapshot", "snapshot-complete"}
        /\ \A q \in Rows : ~SnapPending(q)
    BY ZenonT(30), <1>2, <1>4, <1>6, <1>7, LogItem
  <1>9. e < next /\ next - 1 <= committed /\ committed \in 0..NEvents /\ next \in Nat
    <2>1. e \in 0..(next - 1)  BY Zenon, <1>2, <1>8
    <2>2. committed \in 0..NEvents /\ next \in 1..(committed + 1)
      BY Zenon DEF IInv, Numbers
    <2> QED  BY <2>1, <2>2
  <1>10. /\ mem \in [Rows -> Versions] /\ mem'[r] = e /\ mem' \in [Rows -> Versions]
         /\ \A q \in Rows : q # r => mem'[q] = mem[q]
    BY <1>2, <1>5 DEF IInv, Tables, Versions, Absent
  <1>11. /\ tx' \in [Rows -> Versions] /\ \A q \in Rows : q # r => tx'[q] = tx[q]
         /\ tx'[r] = IF persistOn /\ ok THEN e ELSE tx[r]
    BY <1>2, <1>5 DEF IInv, Tables, Versions, Absent
  <1>12. IsVersion(r, e)  BY <1>2, <1>3, <1>9 DEF IsVersion, Versions, Absent
  <1>13. Tables'
    <2>1. \A q \in Rows : IsVersion(q, mem'[q]) /\ IsVersion(q, tx'[q])
      BY ZenonT(30), <1>10, <1>11, <1>12 DEF IInv, Tables
    <2> QED  BY ZenonT(30), <1>4, <1>8, <1>10, <1>11, <2>1 DEF IInv, Tables, IsVersion
  <1>14. Flags'  BY ZenonT(30), <1>4, <1>5, <1>8 DEF IInv, Flags
  <1>15. Reaching'
    <2>1. \A q \in Rows : mem[q] >= 0  BY Zenon, <1>8 DEF IInv, Reaching
    <2>2. \A q \in Rows : mem'[q] >= 0  BY <1>2, <1>10, <2>1
    <2>3. ASSUME NEW q \in Rows, NEW f \in Changes(q), f < next, mem[q] >= f \/ Wal(f) = x
          PROVE  mem'[q] >= f \/ In(Wal(f), input')
      <3>1. f \in Events /\ RowOf[f] = q /\ f \in Nat  BY DEF Changes, Events
      <3>2. CASE q # r  BY Zenon, <1>2, <1>3, <1>10, <2>3, <3>1, <3>2
      <3>3. CASE q = r /\ f <= e  BY Zenon, <1>10, <3>3
      <3>4. CASE q = r /\ f > e
        <4>1. In(Wal(e), input)  BY Zenon, <1>1, <1>8
        <4>2. In(Wal(f), input)  BY <2>3, <3>1, <3>4, <4>1 DEF IInv, Input, Events
        <4>3. Wal(f) # x  BY <1>2, <3>1, <3>4
        <4> QED  BY Zenon, <1>8, <4>2, <4>3
      <3> QED  BY <1>2, <3>1, <3>2, <3>3, <3>4
    <2> QED  BY ZenonT(30), <1>8, <2>2, <2>3, LogReaching
  <1>16. PICK d : d = Doc(r, e, e)  BY Zenon
  <1>17. d \in OutputItems /\ d.kind = "doc" /\ d.row = r /\ d.version = e
    BY SMTT(30), <1>2, <1>16 DEF Doc, OutputItems
  <1>18. /\ Output' /\ \A f : Sent(f) => Sent(f)'
         /\ \A f \in CarriedBy(d) : Sent(f)'
    BY ZenonT(30), <1>4, <1>7, <1>8, <1>16, <1>17, EmitOutput
  <1>19. Emitted'
    <2>1. \A f \in Changes(r) : f <= e => Sent(f)'
      BY <1>17, <1>18 DEF Changes, CarriedBy, Rows
    <2>2. \A q \in Rows : \A f \in Changes(q) : f <= mem'[q] \/ f <= tx'[q] => Sent(f)'
      BY Zenon, <1>10, <1>11, <1>18, <2>1 DEF IInv, Emitted
    <2>3. \A f \in Changes(0) : Wal(f) # x  BY SMTT(30), <1>2, <1>3 DEF Changes, Rows
    <2>4. \A f \in Changes(0) :
            f < next' => f <= slotStart' \/ f \in quarantined' \/ In(Wal(f), input') \/ Sent(f)'
      BY ZenonT(30), <1>4, <1>8, <1>18, <2>3 DEF IInv, Emitted
    <2> QED  BY Zenon, <2>2, <2>4 DEF Emitted
  <1>20. Mirrored'
    <2>1. ASSUME persistOn', ~persistFailed', NEW q \in Rows
          PROVE  mem'[q] = IF tx'[q] # Absent THEN tx'[q] ELSE disk'[q]
      <3>1. persistOn /\ ok /\ ~persistFailed  BY Zenon, <1>4, <1>5, <2>1
      <3>2. e # Absent  BY <1>2 DEF Absent
      <3>3. CASE q = r  BY Zenon, <1>10, <1>11, <3>1, <3>2, <3>3
      <3>4. CASE q # r  BY ZenonT(30), <1>8, <1>10, <1>11, <3>1, <3>4 DEF IInv, Mirrored
      <3> QED  BY Zenon, <3>3, <3>4
    <2> QED  BY Zenon, <1>4, <1>7, <1>8, <2>1 DEF Mirrored
  <1> QED  BY Zenon, <1>8, <1>13, <1>14, <1>15, <1>18, <1>19, <1>20 DEF IInv

LEMMA HandleUnrelatedKeeps ==
    ASSUME IInv, NEW e \in Events, HandleUnrelated(e) PROVE IInv'
  <1> USE JoinAssumption DEF JoinAssumption
  <1>1. PICK x : x = Wal(e)  BY Zenon
  <1>2. /\ x.kind = "wal" /\ MarkOf(x) = e /\ e \in 1..NEvents /\ RowOf[e] = 0
        /\ \A f \in Events : Wal(f) = x <=> f = e
    BY Zenon, <1>1, Items DEF MarkOf, Wal, Events, HandleUnrelated
  <1>3. /\ Receives(x, MarkOf(x)) /\ JoinStill /\ output' = Append(output, Doc(0, e, e))
        /\ UNCHANGED <<pc, mem, tx, persistOn, persistFailed, dumpPending, quarantined, crashes>>
    BY Zenon, <1>1, <1>2 DEF HandleUnrelated, stateVars
  <1>4. crashes' \in 0..MaxCrashes  BY Zenon, <1>3 DEF IInv, Numbers
  <1>5. pc = "run"  BY Zenon, <1>3 DEF Receives
  <1>6. /\ HasRoom(output) /\ pendingWork'
        /\ UNCHANGED <<committed, table, slot, slotStart, acked, scan, phase, next, barrierDue,
                       sinkProgress, sequence, sourceProgress, disk, identity, delivered>>
        /\ Numbers' /\ Input' /\ Scanned' /\ Sentinel' /\ Safe'
        /\ \A y : In(y, input) <=> y = x \/ In(y, input')
        /\ \A i \in 1..Len(input') : input'[i].kind \notin {"snapshot", "snapshot-complete"}
        /\ \A q \in Rows : ~SnapPending(q)
    BY Zenon, <1>2, <1>3, <1>4, <1>5, LogItem
  <1>7. Flags'  BY ZenonT(30), <1>3, <1>6 DEF IInv, Flags
  <1>8. Tables'  BY ZenonT(30), <1>3, <1>6, TablesFrame DEF IInv
  <1>9. Reaching'
    <2>1. \A q \in Rows : mem'[q] >= 0  BY Zenon, <1>3, <1>6 DEF IInv, Reaching
    <2>2. \A q \in Rows : \A f \in Changes(q) : Wal(f) # x  BY <1>2 DEF Changes, Rows
    <2> QED  BY ZenonT(30), <1>3, <1>6, <2>1, <2>2, LogReaching
  <1>10. PICK d : d = Doc(0, e, e)  BY Zenon
  <1>11. d \in OutputItems /\ d.kind = "doc" /\ d.id = e
    BY <1>2, <1>10 DEF Doc, OutputItems
  <1>12. /\ Output' /\ \A f : Sent(f) => Sent(f)'
         /\ \A f \in CarriedBy(d) : Sent(f)'
    BY Zenon, <1>3, <1>5, <1>6, <1>10, <1>11, EmitOutput
  <1>13. Sent(e)'  BY Zenon, <1>11, <1>12 DEF CarriedBy
  <1>14. Emitted'
    <2>1. \A q \in Rows : \A f \in Changes(q) : f <= mem'[q] \/ f <= tx'[q] => Sent(f)'
      BY Zenon, <1>3, <1>12 DEF IInv, Emitted
    <2>2. \A f \in Changes(0) : Wal(f) = x => f = e  BY Zenon, <1>2 DEF Changes
    <2>3. \A f \in Changes(0) :
            f < next' => f <= slotStart' \/ f \in quarantined' \/ In(Wal(f), input') \/ Sent(f)'
      BY ZenonT(30), <1>3, <1>6, <1>12, <1>13, <2>2 DEF IInv, Emitted
    <2> QED  BY Zenon, <2>1, <2>3 DEF Emitted
  <1>15. Mirrored'  BY ZenonT(30), <1>3, <1>5, <1>6 DEF IInv, Mirrored
  <1> QED  BY Zenon, <1>6, <1>7, <1>8, <1>9, <1>12, <1>14, <1>15 DEF IInv

LEMMA HandlePoisonKeeps ==
    ASSUME IInv, NEW e \in Events, HandlePoison(e) PROVE IInv'
  <1> USE JoinAssumption DEF JoinAssumption
  <1>1. PICK x : x = Wal(e)  BY Zenon
  <1>2. /\ x.kind = "wal" /\ MarkOf(x) = e /\ e \in 1..NEvents /\ RowOf[e] = 0 /\ e \in Poison
        /\ \A f \in Events : Wal(f) = x <=> f = e
    BY ZenonT(30), <1>1, Items DEF MarkOf, Wal, Events, HandlePoison
  <1>3. /\ Receives(x, MarkOf(x)) /\ JoinStill /\ quarantined' = quarantined \cup {e}
        /\ UNCHANGED <<pc, mem, tx, persistOn, persistFailed, output, dumpPending, crashes>>
    BY Zenon, <1>1, <1>2 DEF HandlePoison, stateVars
  <1>4. crashes' \in 0..MaxCrashes  BY Zenon, <1>3 DEF IInv, Numbers
  <1>5. pc = "run"  BY Zenon, <1>3 DEF Receives
  <1>6. /\ pendingWork'
        /\ UNCHANGED <<committed, table, slot, slotStart, acked, scan, phase, next, barrierDue,
                       sinkProgress, sequence, sourceProgress, disk, identity, delivered>>
        /\ Numbers' /\ Input' /\ Scanned' /\ Sentinel' /\ Safe'
        /\ \A y : In(y, input) <=> y = x \/ In(y, input')
        /\ \A i \in 1..Len(input') : input'[i].kind \notin {"snapshot", "snapshot-complete"}
        /\ \A q \in Rows : ~SnapPending(q)
    BY ZenonT(30), <1>2, <1>3, <1>4, <1>5, LogItem
  <1>7. Flags'  BY ZenonT(30), <1>3, <1>6 DEF IInv, Flags
  <1>8. Tables'
    <2>1. quarantined' \subseteq Poison  BY Zenon, <1>2, <1>3 DEF IInv, Tables
    <2> QED  BY ZenonT(30), <1>3, <1>6, <2>1 DEF IInv, Tables, IsVersion
  <1>9. Reaching'
    <2>1. \A q \in Rows : mem'[q] >= 0  BY Zenon, <1>3, <1>6 DEF IInv, Reaching
    <2>2. \A q \in Rows : \A f \in Changes(q) : Wal(f) # x  BY SMTT(30), <1>2 DEF Changes, Rows
    <2> QED  BY ZenonT(30), <1>3, <1>6, <2>1, <2>2, LogReaching
  <1>12. Output'  BY ZenonT(30), <1>3, <1>5, <1>6, OutputRests
  <1>14. Emitted'
    <2>1. \A f : Sent(f) => Sent(f)'  BY Zenon, <1>3, <1>6 DEF Sent
    <2>2. \A f \in Changes(0) : Wal(f) = x => f = e  BY Zenon, <1>2 DEF Changes
    <2>3. \A q \in Rows : \A f \in Changes(q) : f <= mem'[q] \/ f <= tx'[q] => Sent(f)'
      BY Zenon, <1>3, <2>1 DEF IInv, Emitted
    <2>4. \A f \in Changes(0) :
            f < next' => f <= slotStart' \/ f \in quarantined' \/ In(Wal(f), input') \/ Sent(f)'
      BY ZenonT(30), <1>3, <1>6, <2>1, <2>2 DEF IInv, Emitted
    <2> QED  BY Zenon, <2>3, <2>4 DEF Emitted
  <1>15. Mirrored'  BY ZenonT(30), <1>3, <1>5, <1>6 DEF IInv, Mirrored
  <1> QED  BY ZenonT(30), <1>6, <1>7, <1>8, <1>9, <1>12, <1>14, <1>15 DEF IInv

LEMMA HandleAckBarrierKeeps ==
    ASSUME IInv, NEW e \in Events, HandleAckBarrier(e) PROVE IInv'
  <1> USE JoinAssumption DEF JoinAssumption
  <1>1. PICK x : x = AckBarrier(e)  BY Zenon
  <1>2. /\ x.kind = "barrier" /\ MarkOf(x) = e /\ e \in 0..NEvents /\ \A f : Wal(f) # x
        /\ x \in OutputItems
    BY <1>1, Items DEF MarkOf, AckBarrier, Wal, Events
  <1>3. /\ Receives(x, MarkOf(x)) /\ JoinStill /\ output' = Append(output, x) /\ pc' = "barrier"
        /\ UNCHANGED <<mem, tx, persistOn, persistFailed, dumpPending, quarantined, crashes>>
    BY Zenon, <1>1, <1>2 DEF HandleAckBarrier, stateVars
  <1>4. crashes' \in 0..MaxCrashes  BY Zenon, <1>3 DEF IInv, Numbers
  <1>5. pc = "run"  BY Zenon, <1>3 DEF Receives
  <1>6. /\ HasRoom(output) /\ pendingWork'
        /\ UNCHANGED <<committed, table, slot, slotStart, acked, scan, phase, next, barrierDue,
                       sinkProgress, sequence, sourceProgress, disk, identity, delivered>>
        /\ Numbers' /\ Input' /\ Scanned' /\ Sentinel' /\ Safe'
        /\ \A y : In(y, input) <=> y = x \/ In(y, input')
        /\ \A i \in 1..Len(input') : input'[i].kind \notin {"snapshot", "snapshot-complete"}
        /\ \A q \in Rows : ~SnapPending(q)
    BY ZenonT(30), <1>2, <1>3, <1>4, <1>5, LogItem
  <1>7. Flags'  BY ZenonT(30), <1>3, <1>6 DEF IInv, Flags
  <1>8. Tables'  BY ZenonT(30), <1>3, <1>6, TablesFrame DEF IInv
  <1>9. Reaching'
    <2>1. \A q \in Rows : mem'[q] >= 0  BY ZenonT(30), <1>3, <1>6 DEF IInv, Reaching
    <2> QED  BY ZenonT(30), <1>2, <1>3, <1>6, <2>1, LogReaching
  <1>12. Output' /\ \A f : Sent(f) => Sent(f)'
    BY ZenonT(30), <1>2, <1>3, <1>5, <1>6, EmitOutput
  <1>14. Emitted'
    <2>1. \A q \in Rows : \A f \in Changes(q) : f <= mem'[q] \/ f <= tx'[q] => Sent(f)'
      BY Zenon, <1>3, <1>12 DEF IInv, Emitted
    <2>2. \A f \in Changes(0) :
            f < next' => f <= slotStart' \/ f \in quarantined' \/ In(Wal(f), input') \/ Sent(f)'
      BY ZenonT(30), <1>2, <1>3, <1>6, <1>12 DEF IInv, Emitted
    <2> QED  BY Zenon, <2>1, <2>2 DEF Emitted
  <1>15. Mirrored'  BY ZenonT(30), <1>3, <1>6 DEF IInv, Mirrored
  <1> QED  BY Zenon, <1>6, <1>7, <1>8, <1>9, <1>12, <1>14, <1>15 DEF IInv

-----------------------------------------------------------------------------
\* The process stops, by a failure or a crash, or loses its slot while stopped.
LEMMA StopKeeps ==
    ASSUME IInv, pc' = "stopped", crashes' \in 0..MaxCrashes, slot' \in BOOLEAN,
           UNCHANGED <<committed, table, slotStart, acked, scan, phase, next, barrierDue, input, mem,
                       tx, persistOn, persistFailed, dumpPending, pendingWork, pendingMark, sequence,
                       sourceProgress, output, sinkProgress, disk, identity, delivered, quarantined>>
    PROVE  IInv'
  <1>1. Numbers'  BY Zenon DEF IInv, Numbers
  <1>2. Flags'  BY Zenon DEF IInv, Flags
  <1>3. Tables' /\ Input' /\ Scanned' /\ Reaching' /\ Emitted'
    BY Zenon, TablesFrame, InputFrame, ScannedFrame, ReachingFrame, EmittedFrame DEF IInv
  <1>4. Output'  BY ZenonT(30) DEF IInv, Output
  <1>5. Sentinel'  BY ZenonT(30) DEF IInv, Sentinel
  <1>6. Mirrored'  BY ZenonT(30) DEF IInv, Mirrored
  <1>7. Safe'  BY Zenon, SafeGrows DEF IInv
  <1> QED  BY Zenon, <1>1, <1>2, <1>3, <1>4, <1>5, <1>6, <1>7 DEF IInv

LEMMA FailuresKeep ==
    ASSUME IInv, HandleFails \/ CommitStateFails \/ Crash \/ LoseSlot PROVE IInv'
  <1> USE JoinAssumption DEF JoinAssumption
  <1>1. crashes \in 0..MaxCrashes  BY Zenon DEF IInv, Numbers
  <1>2. crashes' \in 0..MaxCrashes
    BY SMTT(30), <1>1 DEF HandleFails, CommitStateFails, Crash, LoseSlot
  <1>3. /\ pc' = "stopped"
        /\ UNCHANGED <<committed, table, slotStart, acked, scan, phase, next, barrierDue, input, mem,
                       tx, persistOn, persistFailed, dumpPending, pendingWork, pendingMark, sequence,
                       sourceProgress, output, sinkProgress, disk, identity, delivered, quarantined>>
    BY ZenonT(30) DEF HandleFails, CommitStateFails, Crash, LoseSlot, BoundaryStill, dbVars, sourceVars,
           stateVars, boundaryVars, dispatcherVars, diskVars
  <1>4. slot' \in BOOLEAN
    BY ZenonT(30) DEF HandleFails, CommitStateFails, Crash, LoseSlot, BoundaryStill, dbVars, IInv, Flags
  <1> QED  BY Zenon, <1>2, <1>3, <1>4, StopKeeps

LEMMA IdleTickKeeps == ASSUME IInv, IdleTick PROVE IInv'
  <1>1. /\ pc = "run" /\ pendingWork /\ pc' = "barrier"
        /\ UNCHANGED <<committed, table, slot, slotStart, acked, scan, phase, next, barrierDue, input,
                       mem, tx, persistOn, persistFailed, dumpPending, pendingWork, pendingMark,
                       sequence, sourceProgress, output, sinkProgress, disk, identity, delivered,
                       quarantined, crashes>>
    BY Zenon DEF IdleTick, BoundaryStill, dbVars, sourceVars, stateVars, boundaryVars, dispatcherVars
  <1>2. Numbers' /\ Tables' /\ Input' /\ Scanned' /\ Reaching' /\ Emitted'
    BY Zenon, <1>1, NumbersFrame, TablesFrame, InputFrame, ScannedFrame, ReachingFrame, EmittedFrame DEF IInv
  <1>3. Flags'  BY Zenon, <1>1 DEF IInv, Flags
  <1>4. Output'  BY Zenon, <1>1, OutputRests
  <1>5. Sentinel'  BY Zenon, <1>1 DEF IInv, Sentinel
  <1>6. Mirrored'  BY ZenonT(30), <1>1 DEF IInv, Mirrored
  <1>7. Safe'  BY Zenon, <1>1, SafeGrows DEF IInv
  <1> QED  BY Zenon, <1>2, <1>3, <1>4, <1>5, <1>6, <1>7 DEF IInv

LEMMA SendJoinBarrierKeeps == ASSUME IInv, SendJoinBarrier PROVE IInv'
  <1> USE JoinAssumption DEF JoinAssumption
  <1>1. /\ pc = "barrier" /\ HasRoom(output) /\ pc' = "wait" /\ sequence' = sequence + 1
        /\ output' = Append(output, JoinBarrier(sequence + 1))
        /\ UNCHANGED <<committed, table, slot, slotStart, acked, scan, phase, next, barrierDue, input,
                       mem, tx, persistOn, persistFailed, dumpPending, pendingWork, pendingMark,
                       sourceProgress, sinkProgress, disk, identity, delivered, quarantined, crashes>>
    BY Zenon DEF SendJoinBarrier, BoundaryStill, dbVars, sourceVars, stateVars
  <1>2. sequence \in Nat /\ sequence' \in Nat /\ sinkProgress \in 0..sequence /\ sinkProgress < sequence'
    BY <1>1 DEF IInv, Numbers
  <1>3. Numbers'  BY <1>1, <1>2 DEF IInv, Numbers
  <1>4. Flags'  BY Zenon, <1>1 DEF IInv, Flags
  <1>5. Tables' /\ Input' /\ Scanned' /\ Reaching'
    BY Zenon, <1>1, TablesFrame, InputFrame, ScannedFrame, ReachingFrame DEF IInv
  <1>6. PICK x : x = JoinBarrier(sequence')  BY Zenon
  <1>7. x \in OutputItems /\ x.kind = "join_barrier" /\ x.sequence = sequence'
    BY Zenon, <1>2, <1>6, Items
  <1>8. output \in Seq(OutputItems) /\ Len(output) < BusCapacity  BY ZenonT(30), <1>1 DEF IInv, Output, HasRoom
  <1>9. output' = Append(output, x)  BY Zenon, <1>1, <1>6
  <1>10. /\ output' \in Seq(OutputItems) /\ Len(output') = Len(output) + 1 /\ Len(output) \in Nat
         /\ \A i \in 1..Len(output) : output'[i] = output[i]
         /\ output'[Len(output) + 1] = x
    BY SMTT(30), <1>7, <1>8, <1>9, AppendFacts
  <1>11. /\ \A i \in 1..Len(output') : i \in 1..Len(output) \/ i = Len(output')
         /\ \A i \in 1..Len(output) : i \in 1..Len(output') /\ output'[i] = output[i]
         /\ output'[Len(output')] = x /\ Len(output') <= BusCapacity
    BY SMTT(30), <1>8, <1>10
  <1>12. \A i \in 1..Len(output) : output[i].kind # "join_barrier"  BY ZenonT(30), <1>1 DEF IInv, Output
  <1>13. \A i \in 1..Len(output') : output'[i].kind = "join_barrier" => i = Len(output')
    BY Zenon, <1>11, <1>12
  <1>14. Output'  BY ZenonT(30), <1>1, <1>2, <1>6, <1>7, <1>10, <1>11, <1>13 DEF Output
  <1>15. \A e : Sent(e) => Sent(e)'  BY ZenonT(30), <1>1, <1>11 DEF Sent, CarriedBy
  <1>16. Emitted'  BY Zenon, <1>1, <1>15 DEF IInv, Emitted
  <1>17. Sentinel'  BY ZenonT(30), <1>1 DEF IInv, Sentinel
  <1>18. Mirrored'  BY ZenonT(30), <1>1 DEF IInv, Mirrored
  <1>19. Safe'  BY Zenon, <1>1, SafeGrows DEF IInv
  <1> QED  BY Zenon, <1>3, <1>4, <1>5, <1>14, <1>16, <1>17, <1>18, <1>19 DEF IInv

\* At the commit everything emitted is in the sink, and what is written is memory.
LEMMA CommitFacts ==
    ASSUME IInv, CommitState
    PROVE  /\ output = <<>> /\ \A e : Sent(e) => e \in delivered
           /\ \A r \in Rows : disk'[r] = IF dumpPending THEN mem[r]
                                         ELSE IF tx[r] # Absent THEN tx[r] ELSE disk[r]
           /\ disk' \in [Rows -> Versions]
           /\ dumpPending \/ (persistOn /\ ~persistFailed) => \A r \in Rows : disk'[r] = mem[r]
  <1>1. output = <<>>
    <2>1. pc = "wait" /\ ~(sinkProgress < sequence)
      <3>1. pc = "wait" /\ sinkProgress >= sequence  BY Zenon DEF CommitState
      <3>2. sinkProgress \in Nat /\ sequence \in Nat  BY SMTT(30) DEF IInv, Numbers
      <3> QED  BY <3>1, <3>2
    <2> QED  BY Zenon, <2>1 DEF IInv, Output
  <1>2. \A e : Sent(e) => e \in delivered
    <2>1. ~\E i \in 1..Len(output) : TRUE  BY <1>1
    <2> QED  BY Zenon, <2>1 DEF Sent
  <1>3. /\ mem \in [Rows -> Versions] /\ tx \in [Rows -> Versions] /\ disk \in [Rows -> Versions]
    BY Zenon DEF IInv, Tables
  <1>4. IF dumpPending THEN disk' = mem
        ELSE disk' = [r \in Rows |-> IF tx[r] # Absent THEN tx[r] ELSE disk[r]]
    BY Zenon DEF CommitState, CommitAndGoOn, Dump, Flush
  <1>5. \A r \in Rows : disk'[r] = IF dumpPending THEN mem[r]
                                  ELSE IF tx[r] # Absent THEN tx[r] ELSE disk[r]
    BY Zenon, <1>4
  <1>6. disk' \in [Rows -> Versions]  BY Zenon, <1>3, <1>4
  <1>7. dumpPending \/ (persistOn /\ ~persistFailed) => \A r \in Rows : disk'[r] = mem[r]
    BY Zenon, <1>5 DEF IInv, Mirrored
  <1> QED  BY ZenonT(30), <1>1, <1>2, <1>5, <1>6, <1>7

LEMMA CommitStateKeeps == ASSUME IInv, CommitState PROVE IInv'
  <1> USE JoinAssumption DEF JoinAssumption
  <1>1. /\ pc = "wait" /\ ~persistFailed /\ pc' = "publish" /\ tx' = NoRow /\ dumpPending' = FALSE
        /\ UNCHANGED <<committed, table, slot, slotStart, acked, scan, phase, next, barrierDue, input,
                       mem, persistFailed, pendingWork, pendingMark, sequence, sourceProgress,
                       output, sinkProgress, delivered, quarantined, crashes>>
    BY Zenon DEF CommitState, CommitAndGoOn, BoundaryStill, dbVars, sourceVars, dispatcherVars
  <1>2. IF dumpPending THEN identity' = TRUE /\ persistOn' = TRUE ELSE UNCHANGED <<identity, persistOn>>
    BY ZenonT(30) DEF CommitState, CommitAndGoOn, Dump, Flush
  <1>3. /\ output = <<>> /\ \A e : Sent(e) => e \in delivered
        /\ \A r \in Rows : disk'[r] = IF dumpPending THEN mem[r]
                                      ELSE IF tx[r] # Absent THEN tx[r] ELSE disk[r]
        /\ disk' \in [Rows -> Versions]
        /\ dumpPending \/ (persistOn /\ ~persistFailed) => \A r \in Rows : disk'[r] = mem[r]
    BY ZenonT(30), CommitFacts
  <1>4. tx' \in [Rows -> Versions] /\ \A r \in Rows : tx'[r] = Absent
    BY <1>1 DEF NoRow, Versions, Absent
  <1>5. Numbers'  BY Zenon, <1>1, NumbersFrame DEF IInv
  <1>6. Flags'  BY ZenonT(30), <1>1, <1>2 DEF IInv, Flags
  <1>7. Input' /\ Scanned' /\ Reaching'
    BY Zenon, <1>1, InputFrame, ScannedFrame, ReachingFrame DEF IInv
  <1>8. Tables'
    <2>1. \A r \in Rows : IsVersion(r, disk'[r])  BY Zenon, <1>3 DEF IInv, Tables
    <2>2. \A r \in Rows : IsVersion(r, tx'[r])
      BY SMTT(30), <1>4 DEF IInv, Numbers, IsVersion, Versions, Absent
    <2> QED  BY ZenonT(30), <1>1, <1>3, <1>4, <2>1, <2>2 DEF IInv, Tables, IsVersion
  <1>9. Output'  BY <1>1, <1>3 DEF IInv, Output
  <1>10. Sentinel'  BY Zenon, <1>1, <1>2 DEF IInv, Sentinel, Flags
  <1>11. Emitted'
    <2>1. \A e : Sent(e) => Sent(e)'  BY ZenonT(30), <1>1 DEF Sent
    <2>2. \A r \in Rows : \A e \in Changes(r) : ~(e <= tx'[r])
      BY SMTT(30), <1>4 DEF Absent, Changes, Events
    <2> QED  BY ZenonT(30), <1>1, <2>1, <2>2 DEF IInv, Emitted
  <1>12. Mirrored'
    <2>1. persistOn' => \A r \in Rows : mem'[r] = disk'[r]  BY ZenonT(30), <1>1, <1>2, <1>3
    <2> QED  BY ZenonT(30), <1>1, <1>4, <2>1 DEF Mirrored
  <1>13. Safe'
    <2>1. \A r \in Rows : \A e \in Changes(r) : e <= disk'[r] => e \in delivered
      <3>1. \A r \in Rows : \A e \in Changes(r) : e <= mem[r] \/ e <= tx[r] => e \in delivered
        BY Zenon, <1>3 DEF IInv, Emitted
      <3>2. \A r \in Rows : \A e \in Changes(r) : e <= disk[r] => e \in delivered
        BY Zenon DEF IInv, Safe, StateBehindSink, Changes
      <3> QED  BY Zenon, <1>3, <3>1, <3>2
    <2>2. StateBehindSink'  BY Zenon, <1>1, <2>1 DEF StateBehindSink, Changes
    <2>3. ASSUME dumpPending \/ identity
          PROVE  \A r \in Rows : disk'[r] = mem[r] /\ ~SnapPending(r)
      <3>1. persistOn \/ dumpPending  BY Zenon, <2>3 DEF IInv, Sentinel
      <3>2. \A r \in Rows : disk'[r] = mem[r]  BY ZenonT(30), <1>1, <1>3, <3>1
      <3>3. phase = "tail" /\ \A i \in 1..Len(input) : input[i].kind # "snapshot"
        BY Zenon, <2>3 DEF IInv, Sentinel
      <3> QED  BY Zenon, <3>2, <3>3 DEF SnapPending
    <2>4. identity' => dumpPending \/ identity  BY Zenon, <1>2
    <2>5. identity' => \A r \in Rows : disk'[r] >= 0  BY Zenon, <2>3, <2>4 DEF IInv, Reaching
    <2>6. ASSUME dumpPending \/ identity, NEW m \in {acked, sourceProgress, pendingMark},
                 NEW e \in 1..m
          PROVE  Durable(e)'
      <3>1. e \in Events /\ e < next /\ e <= m /\ RowOf[e] \in Rows \cup {0}
        BY DEF IInv, Numbers, Events
      <3>2. ~In(Wal(e), input)
        <4>1. Wal(e).kind = "wal" /\ Wal(e).id = e  BY ZenonT(30), <3>1, Items
        <4>2. In(Wal(e), input) => e > m  BY ZenonT(30), <4>1 DEF In, IInv, Input
        <4>3. ~(e > m)  BY <3>1 DEF IInv, Numbers
        <4> QED  BY Zenon, <4>2, <4>3
      <3>3. CASE RowOf[e] # 0
        <4>1. PICK r \in Rows : r = RowOf[e]  BY ZenonT(30), <3>1, <3>3
        <4>2. e \in Changes(r)  BY Zenon, <3>1, <4>1 DEF Changes
        <4>3. mem[r] >= e  BY Zenon, <2>3, <2>6, <3>1, <3>2, <4>2 DEF IInv, Reaching
        <4>4. disk'[r] >= e  BY Zenon, <2>3, <2>6, <4>3
        <4>5. e \in Nat /\ disk'[r] \in Int  BY <1>3, <3>1 DEF Versions, Events, Absent
        <4>6. e <= disk'[r]  BY Zenon, <4>4, <4>5
        <4>7. e \in delivered  BY Zenon, <2>1, <4>2, <4>6
        <4> QED  BY Zenon, <1>1, <3>3, <4>1, <4>4, <4>7 DEF Durable
      <3>4. CASE RowOf[e] = 0
        <4>1. e \in Changes(0)  BY Zenon, <3>1, <3>4 DEF Changes
        <4>2. e <= slotStart \/ e \in quarantined \/ Sent(e)
          BY Zenon, <3>1, <3>2, <4>1 DEF IInv, Emitted
        <4> QED  BY Zenon, <1>1, <1>3, <3>4, <4>2 DEF Durable
      <3> QED  BY Zenon, <3>3, <3>4
    <2>7. identity' => \A e \in 1..acked' : Durable(e)'  BY Zenon, <1>1, <2>4, <2>6
    <2>8. identity' => \A e \in 1..sourceProgress' : Durable(e)'  BY Zenon, <1>1, <2>4, <2>6
    <2>9. \A e \in 1..pendingMark' : Durable(e)'
      <3>1. CASE dumpPending \/ identity  BY Zenon, <1>1, <2>6, <3>1
      <3>2. CASE ~(dumpPending \/ identity)
        <4>1. ~(pendingMark > 0) /\ pendingMark \in Nat  BY <3>2 DEF IInv, Sentinel, Numbers
        <4>2. \A e : e \notin 1..pendingMark  BY <4>1
        <4> QED  BY Zenon, <1>1, <4>2
      <3> QED  BY Zenon, <3>1, <3>2
    <2> QED  BY Zenon, <2>2, <2>5, <2>7, <2>8, <2>9 DEF Safe
  <1> QED  BY Zenon, <1>5, <1>6, <1>7, <1>8, <1>9, <1>10, <1>11, <1>12, <1>13 DEF IInv

LEMMA PublishProgressKeeps == ASSUME IInv, PublishProgress PROVE IInv'
  <1> USE JoinAssumption DEF JoinAssumption
  <1>1. /\ pc = "publish" /\ pc' = "run" /\ pendingWork' = FALSE /\ pendingMark' = 0
        /\ sourceProgress' = Larger(sourceProgress, pendingMark)
        /\ UNCHANGED <<committed, table, slot, slotStart, acked, scan, phase, next, barrierDue, input,
                       mem, tx, persistOn, persistFailed, dumpPending, sequence, output,
                       sinkProgress, disk, identity, delivered, quarantined, crashes>>
    BY Zenon DEF PublishProgress, BoundaryStill, dbVars, sourceVars, stateVars, dispatcherVars
  <1>2. /\ sourceProgress' \in {sourceProgress, pendingMark}
        /\ next \in Nat /\ sourceProgress \in 0..(next - 1) /\ pendingMark \in 0..(next - 1)
        /\ next \in 1..(committed + 1)
    BY <1>1 DEF Larger, IInv, Numbers
  <1>3. sourceProgress' \in 0..(next - 1) /\ pendingMark' \in 0..(next - 1)  BY SMTT(30), <1>1, <1>2
  <1>4. Numbers'  BY ZenonT(30), <1>1, <1>3 DEF IInv, Numbers
  <1>5. Flags'  BY ZenonT(30), <1>1 DEF IInv, Flags
  <1>6. Tables' /\ Scanned' /\ Reaching' /\ Emitted'
    BY Zenon, <1>1, TablesFrame, ScannedFrame, ReachingFrame, EmittedFrame DEF IInv
  <1>7. Input'
    <2>1. ASSUME NEW i \in 1..Len(input), input[i].kind = "wal"
          PROVE  /\ input[i].id > acked' /\ input[i].id > sourceProgress'
                 /\ input[i].id > pendingMark'
      <3>1. input[i] \in InputItems  BY DEF IInv, Input
      <3>2. input[i].id \in 1..NEvents  BY Zenon, <2>1, <3>1 DEF InputItems, Events
      <3> QED  BY SMTT(30), <1>1, <1>2, <2>1, <3>2 DEF IInv, Input
    <2> QED  BY ZenonT(30), <1>1, <2>1 DEF IInv, Input
  <1>8. Output'  BY Zenon, <1>1 DEF IInv, Output
  <1>9. Sentinel'
    <2>1. sourceProgress' > 0 => identity  BY ZenonT(30), <1>1, <1>2 DEF IInv, Sentinel
    <2>2. ~(pendingMark' > 0)  BY SMTT(30), <1>1
    <2> QED  BY ZenonT(30), <1>1, <2>1, <2>2 DEF IInv, Sentinel
  <1>10. Mirrored'  BY ZenonT(30), <1>1 DEF IInv, Mirrored
  <1>11. Safe'  BY ZenonT(30), <1>1, <1>2 DEF IInv, Safe, StateBehindSink, Durable
  <1> QED  BY Zenon, <1>4, <1>5, <1>6, <1>7, <1>8, <1>9, <1>10, <1>11 DEF IInv

-----------------------------------------------------------------------------
LEMMA DispatchKeeps == ASSUME IInv, Dispatch PROVE IInv'
  <1> USE JoinAssumption DEF JoinAssumption
  <1>1. /\ pc # "stopped" /\ output # <<>> /\ output' = Tail(output)
        /\ UNCHANGED <<committed, table, slot, slotStart, acked, scan, phase, next, barrierDue, input,
                       pc, mem, tx, persistOn, persistFailed, dumpPending, pendingWork, pendingMark,
                       sequence, sourceProgress, disk, identity, quarantined, crashes>>
    BY Zenon DEF Dispatch, dbVars, sourceVars, stateVars, boundaryVars
  <1>2. PICK x : x = Head(output)  BY Zenon
  <1>3. /\ sinkProgress' = IF x.kind = "join_barrier" THEN x.sequence ELSE sinkProgress
        /\ delivered' = IF x.kind = "doc" THEN delivered \cup CarriedBy(x) ELSE delivered
    BY ZenonT(30), <1>2 DEF Dispatch
  <1>4. output \in Seq(OutputItems) /\ Len(output) <= BusCapacity  BY ZenonT(30) DEF IInv, Output
  <1>5. /\ output' \in Seq(OutputItems) /\ Len(output) \in Nat \ {0} /\ Len(output') = Len(output) - 1
        /\ \A i \in 1..Len(output') : i + 1 \in 1..Len(output) /\ output'[i] = output[i + 1]
        /\ x = output[1] /\ 1 \in 1..Len(output)
        /\ \A y : In(y, output) <=> y = x \/ In(y, output')
    BY Zenon, <1>1, <1>2, <1>4, TailFacts
  <1>6. x.kind = "join_barrier" => x.sequence = sequence /\ Len(output) = 1 /\ pc = "wait"
    BY ZenonT(30), <1>1, <1>5 DEF IInv, Output
  <1>7. /\ sinkProgress' \in {sequence, sinkProgress} /\ sequence \in Nat
        /\ sinkProgress \in 0..sequence
    BY Zenon, <1>3, <1>6 DEF IInv, Numbers
  <1>8. Numbers'
    <2>1. sinkProgress' \in 0..sequence  BY <1>7
    <2> QED  BY Zenon, <1>1, <2>1 DEF IInv, Numbers
  <1>9. Flags'  BY Zenon, <1>1 DEF IInv, Flags
  <1>10. delivered \subseteq delivered' /\ delivered' \subseteq Events
    BY Zenon, <1>3 DEF IInv, Tables, CarriedBy
  <1>11. Tables'  BY ZenonT(30), <1>1, <1>10 DEF IInv, Tables, IsVersion
  <1>12. Input' /\ Scanned' /\ Sentinel' /\ Reaching' /\ Mirrored'
    BY ZenonT(30), <1>1, InputFrame, ScannedFrame, SentinelFrame, ReachingFrame, MirroredFrame DEF IInv
  <1>13. Output'
    <2>1. Len(output') <= BusCapacity  BY <1>4, <1>5
    <2>2. ASSUME NEW i \in 1..Len(output'), output'[i].kind = "join_barrier"
          PROVE  i = Len(output') /\ output'[i].sequence = sequence /\ pc \in {"wait", "stopped"}
      <3>1. i + 1 \in 1..Len(output) /\ output[i + 1].kind = "join_barrier"  BY ZenonT(30), <1>5, <2>2
      <3>2. /\ i + 1 = Len(output) /\ output[i + 1].sequence = sequence
            /\ pc \in {"wait", "stopped"}
        BY Zenon, <3>1 DEF IInv, Output
      <3> QED  BY SMTT(30), <1>5, <3>2
    <2>3. ASSUME pc = "wait", output' # <<>>
          PROVE  output'[Len(output')] = JoinBarrier(sequence) /\ sinkProgress' < sequence
      <3>1. output[Len(output)] = JoinBarrier(sequence) /\ sinkProgress < sequence
        BY ZenonT(30), <1>1, <2>3 DEF IInv, Output
      <3>2. Len(output') \in Nat \ {0}  BY <1>5, <2>3
      <3>3. Len(output') \in 1..Len(output') /\ Len(output') + 1 = Len(output) /\ Len(output) # 1
        BY <1>5, <3>2
      <3>4. output'[Len(output')] = output[Len(output)]  BY Zenon, <1>5, <3>3
      <3>5. sinkProgress' = sinkProgress  BY Zenon, <1>3, <1>6, <3>3
      <3> QED  BY Zenon, <3>1, <3>4, <3>5
    <2>4. pc # "publish"  BY ZenonT(30), <1>1 DEF IInv, Output
    <2> QED  BY ZenonT(30), <1>1, <1>5, <2>1, <2>2, <2>3, <2>4 DEF Output
  <1>14. \A e : Sent(e) => Sent(e)'
    <2> SUFFICES ASSUME NEW e, Sent(e) PROVE Sent(e)'  BY Zenon
    <2>1. CASE e \in delivered  BY ZenonT(30), <1>10, <2>1 DEF Sent
    <2>2. CASE \E i \in 1..Len(output) : output[i].kind = "doc" /\ e \in CarriedBy(output[i])
      <3>1. PICK y : In(y, output) /\ y.kind = "doc" /\ e \in CarriedBy(y)  BY ZenonT(30), <2>2 DEF In
      <3>2. CASE y = x  BY Zenon, <1>3, <3>1, <3>2 DEF Sent
      <3>3. CASE In(y, output')  BY ZenonT(30), <3>1, <3>3 DEF Sent, In, CarriedBy
      <3> QED  BY ZenonT(30), <1>5, <3>1, <3>2, <3>3
    <2> QED  BY ZenonT(30), <2>1, <2>2 DEF Sent
  <1>15. Emitted'  BY ZenonT(30), <1>1, <1>14 DEF IInv, Emitted
  <1>16. Safe'  BY ZenonT(30), <1>1, <1>10 DEF IInv, Safe, StateBehindSink, Durable
  <1> QED  BY Zenon, <1>8, <1>9, <1>11, <1>12, <1>13, <1>15, <1>16 DEF IInv

LEMMA RestartKeeps == ASSUME IInv, Restart PROVE IInv'
  <1> USE JoinAssumption DEF JoinAssumption
  <1>1. /\ slot' = TRUE /\ barrierDue' = FALSE /\ persistOn' = TRUE /\ persistFailed' = FALSE
        /\ dumpPending' = FALSE /\ pendingWork' = FALSE
        /\ pc' = "run" /\ phase' = (IF Recoverable THEN "tail" ELSE "scan")
        /\ identity' = Recoverable
    BY Zenon DEF Restart
  <1>2. /\ slotStart' = (IF slot THEN slotStart ELSE committed)
        /\ acked' = (IF slot THEN acked ELSE committed) /\ next' = acked' + 1
        /\ pendingMark' = 0 /\ sequence' = 0 /\ sourceProgress' = 0 /\ sinkProgress' = 0
        /\ UNCHANGED <<committed, table, delivered, quarantined, crashes>>
    BY Zenon DEF Restart
  <1>3. /\ input' = <<>> /\ output' = <<>> /\ tx' = NoRow /\ mem' = disk'
        /\ disk' = (IF Recoverable THEN disk ELSE NoRow)
    BY Zenon DEF Restart
  <1>4. Numbers'  BY <1>2 DEF IInv, Numbers
  <1>5. Flags'  BY ZenonT(30), <1>1 DEF IInv, Flags, Recoverable
  <1>6. NoRow \in [Rows -> Versions] /\ \A r \in Rows : NoRow[r] = -1
    BY DEF NoRow, Versions, Absent
  <1>7. disk \in [Rows -> Versions] /\ disk' \in [Rows -> Versions]  BY Zenon, <1>3, <1>6 DEF IInv, Tables
  <1>8. Tables'
    <2>1. \A r \in Rows : IsVersion(r, NoRow[r])
      BY <1>6 DEF IInv, Numbers, IsVersion, Versions, Absent
    <2>2. \A r \in Rows : IsVersion(r, disk'[r])  BY Zenon, <1>3, <2>1 DEF IInv, Tables
    <2> QED  BY ZenonT(30), <1>2, <1>3, <1>6, <1>7, <2>1, <2>2 DEF IInv, Tables, IsVersion
  <1>9. Len(input') = 0 /\ Len(output') = 0  BY Zenon, <1>3
  <1>10. Input'
    <2>1. input' \in Seq(InputItems) /\ \A i : i \notin 1..Len(input')  BY SMTT(30), <1>3, <1>9
    <2> QED  BY <1>9, <2>1 DEF Input, In
  <1>11. Output'
    <2>1. output' \in Seq(OutputItems) /\ \A i : i \notin 1..Len(output')  BY <1>3, <1>9
    <2> QED  BY <1>1, <1>9, <2>1 DEF Output
  <1>12. Scanned'  BY Zenon, <1>1 DEF Scanned
  <1>13. \A i : i \notin 1..Len(input')  BY <1>9
  <1>14. Sentinel'
    <2>1. ~Recoverable => acked' = slotStart'  BY Zenon, <1>2 DEF IInv, Sentinel, Recoverable
    <2>2. ~(pendingMark' > 0) /\ ~(sourceProgress' > 0)  BY <1>2
    <2> QED  BY ZenonT(30), <1>1, <1>13, <2>1, <2>2 DEF Sentinel
  <1>15. Recoverable => /\ acked' = acked /\ slotStart' = slotStart /\ disk' = disk /\ mem' = disk
                        /\ \A r \in Rows : disk[r] >= 0
                        /\ \A e \in 1..acked : Durable(e)
    BY Zenon, <1>2, <1>3 DEF Recoverable, IInv, Safe
  <1>16. acked' \in Nat /\ slotStart' \in Nat  BY <1>2 DEF IInv, Numbers
  <1>17. \A e \in Events : e < next' => e \in 1..acked'  BY <1>2, <1>16 DEF Events
  <1>18. Reaching'
    <2>1. CASE ~Recoverable  BY ZenonT(30), <1>1, <1>13, <2>1 DEF Reaching, SnapPending
    <2>2. CASE Recoverable
      <3>1. ASSUME NEW r \in Rows, NEW e \in Changes(r), e < next' PROVE mem'[r] >= e
        <4>1. e \in Events /\ RowOf[e] = r /\ r # 0  BY DEF Changes, Rows
        <4>2. Durable(e)  BY Zenon, <1>15, <1>17, <2>2, <3>1, <4>1
        <4> QED  BY Zenon, <1>15, <2>2, <4>1, <4>2 DEF Durable
      <3>2. \A r \in Rows : mem'[r] >= 0  BY Zenon, <1>15, <2>2
      <3> QED  BY ZenonT(30), <1>13, <3>1, <3>2 DEF Reaching
    <2> QED  BY Zenon, <2>1, <2>2
  <1>19. StateBehindSink'
    <2>1. ASSUME NEW r \in Rows, NEW e \in Events, RowOf[e] = r, e <= disk'[r] PROVE e \in delivered
      <3>1. ~(e <= NoRow[r])  BY <1>6 DEF Events
      <3>2. disk' = disk  BY Zenon, <1>3, <2>1, <3>1
      <3> QED  BY Zenon, <2>1, <3>2 DEF IInv, Safe, StateBehindSink
    <2> QED  BY Zenon, <1>2, <2>1 DEF StateBehindSink
  <1>20. Emitted'
    <2>1. \A r \in Rows : \A e \in Changes(r) : e <= mem'[r] \/ e <= tx'[r] => e \in delivered'
      <3>1. \A r \in Rows : \A e \in Changes(r) : ~(e <= tx'[r])
        BY <1>3, <1>6 DEF Changes, Events
      <3> QED  BY Zenon, <1>3, <1>19, <3>1 DEF StateBehindSink, Changes
    <2>2. ASSUME NEW e \in Changes(0), e < next'
          PROVE  e <= slotStart' \/ e \in quarantined' \/ e \in delivered'
      <3>1. e \in Events /\ RowOf[e] = 0  BY Zenon DEF Changes
      <3>2. e \in 1..acked'  BY Zenon, <1>17, <2>2, <3>1
      <3>3. CASE Recoverable  BY Zenon, <1>2, <1>15, <3>1, <3>2, <3>3 DEF Durable
      <3>4. CASE ~Recoverable
        <4>1. acked' = slotStart'  BY ZenonT(30), <1>1, <1>14, <3>4 DEF Sentinel
        <4> QED  BY SMTT(30), <1>16, <3>2, <4>1
      <3> QED  BY Zenon, <3>3, <3>4
    <2> QED  BY ZenonT(30), <2>1, <2>2 DEF Emitted, Sent
  <1>21. Mirrored'
    <2>1. \A r \in Rows : tx'[r] = Absent  BY Zenon, <1>3, <1>6 DEF Absent
    <2> QED  BY Zenon, <1>1, <1>3, <2>1 DEF Mirrored
  <1>22. Safe'
    <2>1. Recoverable => \A e \in 1..acked' : Durable(e)'  BY Zenon, <1>2, <1>15 DEF Durable
    <2>2. Recoverable => \A r \in Rows : disk'[r] >= 0  BY Zenon, <1>15
    <2>3. \A e : e \notin 1..sourceProgress'  BY <1>2
    <2> QED  BY Zenon, <1>1, <1>19, <2>1, <2>2, <2>3 DEF Safe
  <1> QED  BY Zenon, <1>4, <1>5, <1>8, <1>10, <1>11, <1>12, <1>14, <1>18, <1>20, <1>21, <1>22 DEF IInv

-----------------------------------------------------------------------------
LEMMA NextKeeps == ASSUME IInv, [Next]_vars PROVE IInv'
  <1>1. CASE CommitChange  BY Zenon, <1>1, CommitChangeKeeps
  <1>2. CASE Source
    BY Zenon, <1>2, ScanTablesKeeps, PublishSnapshotRowKeeps, PublishCompleteKeeps, PublishChangeKeeps,
       PublishAckBarrierKeeps DEF Source
  <1>3. CASE Ack  BY Zenon, <1>3, AckKeeps
  <1>4. CASE JoinTask
    <2>1. CASE \E r \in Rows, v \in 0..NEvents : HandleSnapshotRow(r, v)
      BY Zenon, <2>1, HandleSnapshotRowKeeps
    <2>2. CASE \E e \in Events, ok \in BOOLEAN : HandleChange(e, ok)  BY Zenon, <2>2, HandleChangeKeeps
    <2>3. CASE \E e \in Events : HandleUnrelated(e) \/ HandlePoison(e) \/ HandleAckBarrier(e)
      BY Zenon, <2>3, HandleUnrelatedKeeps, HandlePoisonKeeps, HandleAckBarrierKeeps
    <2>4. CASE HandleComplete \/ HandleFails \/ CommitStateFails
      BY Zenon, <2>4, HandleCompleteKeeps, FailuresKeep
    <2>5. CASE IdleTick \/ SendJoinBarrier \/ CommitState \/ PublishProgress
      BY Zenon, <2>5, IdleTickKeeps, SendJoinBarrierKeeps, CommitStateKeeps, PublishProgressKeeps
    <2> QED  BY Zenon, <1>4, <2>1, <2>2, <2>3, <2>4, <2>5 DEF JoinTask
  <1>5. CASE Dispatch  BY Zenon, <1>5, DispatchKeeps
  <1>6. CASE Crash \/ LoseSlot  BY Zenon, <1>6, FailuresKeep
  <1>7. CASE Restart  BY Zenon, <1>7, RestartKeeps
  <1>8. CASE UNCHANGED vars
    <2>1. UNCHANGED <<committed, table, slot, slotStart, acked, scan, phase, next, barrierDue, input,
                      pc, mem, tx, persistOn, persistFailed, dumpPending, pendingWork, pendingMark,
                      sequence, sourceProgress, output, sinkProgress, disk, identity, delivered,
                      quarantined, crashes>>
      BY ZenonT(30), <1>8 DEF vars, dbVars, sourceVars, stateVars, boundaryVars, dispatcherVars, diskVars
    <2>2. Flags'  BY Zenon, <2>1 DEF IInv, Flags
    <2> QED
      BY ZenonT(30), <2>1, <2>2, NumbersFrame, TablesFrame, InputFrame, OutputFrame, ScannedFrame,
         SentinelFrame, ReachingFrame, EmittedFrame, MirroredFrame, SafeFrame DEF IInv
  <1> QED  BY Zenon, <1>1, <1>2, <1>3, <1>4, <1>5, <1>6, <1>7, <1>8 DEF Next

LEMMA Invariance == Spec => []IInv
  BY InitIInv, NextKeeps, PTL DEF Spec

\* Nothing is confirmed to the source before it is durable: as long as the persisted state may
\* be resumed (identity), every change up to the confirmed position is in the sink and in the
\* redb tables, or was quarantined, or lies before the slot (commit_durable_boundary, and
\* join_checkpoint_recoverable at a restart).
THEOREM ConfirmedIsDurable == Spec => []AckedIsDurable
  BY Invariance, IInvImplies, PTL

\* The persisted state never runs ahead of the sink, whenever the process dies between the
\* barrier, the wait, the commit and the publication of commit_durable_boundary.
THEOREM TablesFollowSink == Spec => []StateBehindSink
  BY Invariance, IInvImplies, PTL

\* After a boundary the redb tables are the state in memory (flush_state: the dump after a
\* snapshot, and the mirrored writes after it), so that a restart loads what was in memory.
THEOREM BoundaryIsWhole == Spec => [](BoundaryPersistsState /\ TypeOK)
  BY Invariance, IInvImplies, PTL

\* When the log is consumed memory holds the last change of every row, although snapshot rows
\* are read before the changes that overtake them and changes are replayed after a restart
\* (handle_inner, build_and_run_pg_engine).
THEOREM MemoryConverges == Spec => []StateConverges
  BY Invariance, IInvImplies, PTL
=============================================================================
