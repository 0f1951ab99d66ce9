----------------------------- MODULE PostgresCdc -----------------------------
(***************************************************************************)
(* The PostgreSQL source in flat mode (crates/ventstream-sources/src/      *)
(* postgres: source.rs, snapshot.rs): bootstrap, logical replication,      *)
(* acknowledgement of the slot, reconnects and restarts.                   *)
(*                                                                         *)
(* The server's log is the sequence Txns of transactions in commit order.  *)
(* A transaction is the sequence of the changes it decodes to (empty for   *)
(* one that touches no published table) and the LSN its commit ends at.    *)
(* Changes of interleaved transactions have interleaved LSNs.  Behind the  *)
(* source stands the promise of DurablePrefix: published events are        *)
(* handled in any order, and sinkProgress covers a handled prefix.         *)
(***************************************************************************)
EXTENDS Integers, Sequences

CONSTANTS
    NTxns,        \* transactions the server commits
    NRows,        \* rows of the published tables
    Changes,      \* Changes[t]: sequence of [row, lsn], in order
    End,          \* End[t]: LSN of the end of t's commit record
    BusCapacity,  \* events published and not yet settled
    MaxFailures,  \* MAX_CONSECUTIVE_FAILURES
    MaxFaults     \* bound on crashes, dropped connections and lost slots

Txns == 1..NTxns
Rows == 1..NRows
LSNs == 0..(End[NTxns] + 1)

PostgresAssumption ==
    /\ NTxns \in Nat \ {0} /\ NRows \in Nat
    /\ End \in [Txns -> Nat \ {0}]
    /\ \A t, u \in Txns : t < u => End[t] < End[u]
    /\ Changes \in [Txns -> Seq([row : Rows, lsn : Nat])]
    /\ \A t \in Txns : \A i \in 1..Len(Changes[t]) :
          Changes[t][i].lsn \in 1..(End[t] - 1)
    /\ BusCapacity \in Nat \ {0} /\ MaxFailures \in Nat \ {0} /\ MaxFaults \in Nat

VARIABLES
    \* the server
    committed,     \* transactions committed so far
    slot,          \* the replication slot exists
    slotStart,     \* transactions committed before it was created
    confirmed,     \* confirmed_flush_lsn
    sent,          \* last transaction whose Begin was sent on this connection
    \* the source
    mode,          \* "down", "boot", "slot", "scan", "connect", "stream" or "ended"
    scan,          \* snapshot rows read and still to be published
    bootstrapped,  \* this iteration took the snapshot
    open,          \* a TransactionBuffer is open
    outbox,        \* events of the committed transaction still to be published
    walHighWater,  \* wal_high_water
    lastAcked,     \* last_acked, the LSN last passed to update_applied_lsn
    failures,      \* consecutive_failures
    \* dispatcher and sink
    pipe,          \* published events, each with whether it is handled
    sinkProgress,
    delivered,     \* what is in the sink
    faults

serverVars == <<committed, slot, slotStart, confirmed>>
bootVars == <<scan, bootstrapped>>
connVars == <<sent, open, outbox, walHighWater, lastAcked>>
sinkVars == <<pipe, sinkProgress, delivered>>
vars == <<serverVars, mode, bootVars, connVars, failures, sinkVars, faults>>

Larger(a, b) == IF a > b THEN a ELSE b
Smaller(a, b) == IF a < b THEN a ELSE b

\* What an event brings to the sink: a change, or a row as it was after the
\* first v transactions, which covers the base row and every earlier change.
Base(r) == <<0, r>>
Change(t, i) == <<t, i>>
AllChanges == UNION {{Change(t, i) : i \in 1..Len(Changes[t])} : t \in Txns}
SnapshotOf(r, v) ==
    {Base(r)} \cup {c \in AllChanges : c[1] <= v /\ Changes[c[1]][c[2]].row = r}

Init ==
    /\ committed = 0 /\ slot = FALSE /\ slotStart = 0 /\ confirmed = 0
    /\ mode = "boot" /\ scan = <<>> /\ bootstrapped = FALSE
    /\ sent = 0 /\ open = FALSE /\ outbox = <<>> /\ walHighWater = 0 /\ lastAcked = 0
    /\ failures = 0
    /\ pipe = <<>> /\ sinkProgress = 0 /\ delivered = {}
    /\ faults = 0

CommitTxn ==
    /\ committed < NTxns /\ committed' = committed + 1
    /\ UNCHANGED <<slot, slotStart, confirmed, mode, bootVars, connVars, failures,
                   sinkVars, faults>>

(***************************************************************************)
(* The bus, the dispatcher and the sink.                                   *)
(***************************************************************************)
HasRoom == Len(pipe) < BusCapacity
Published(brings, mark) ==
    pipe' = Append(pipe, [brings |-> brings, mark |-> mark, handled |-> FALSE])

HandleEvent ==
    /\ mode # "down"
    /\ \E i \in 1..Len(pipe) :
         /\ ~pipe[i].handled
         /\ pipe' = [pipe EXCEPT ![i].handled = TRUE]
         /\ delivered' = delivered \cup pipe[i].brings
    /\ UNCHANGED <<serverVars, mode, bootVars, connVars, failures, sinkProgress, faults>>

AdvanceProgress ==
    /\ mode # "down" /\ pipe # <<>> /\ Head(pipe).handled
    /\ pipe' = Tail(pipe)
    /\ sinkProgress' = Larger(sinkProgress, Head(pipe).mark)
    /\ UNCHANGED <<serverVars, mode, bootVars, connVars, failures, delivered, faults>>

(***************************************************************************)
(* maybe_bootstrap: skipped when the slot exists; otherwise the slot is    *)
(* created before the tables are read.                                     *)
(***************************************************************************)
BootStill == UNCHANGED <<committed, confirmed, connVars, failures, sinkProgress,
                         delivered, faults>>

SkipBootstrap ==
    /\ mode = "boot" /\ slot
    /\ mode' = "connect"
    /\ UNCHANGED <<slot, slotStart, bootVars, pipe>> /\ BootStill

\* Mutant: the tables are read first (after n transactions), the slot is created
\* afterwards.
ReadThenCreateSlot ==
    /\ mode = "boot" /\ ~slot
    /\ \E n \in 0..committed : scan' = [r \in Rows |-> n]
    /\ slot' = TRUE /\ slotStart' = committed
    /\ confirmed' = (IF committed = 0 THEN 0 ELSE End[committed])
    /\ mode' = "scan"
    /\ UNCHANGED <<committed, bootstrapped, connVars, failures, sinkVars, faults>>

CreateSlot ==
    /\ mode = "boot" /\ ~slot
    /\ slot' = TRUE /\ slotStart' = committed
    /\ confirmed' = (IF committed = 0 THEN 0 ELSE End[committed])
    /\ mode' = "slot"
    /\ UNCHANGED <<committed, bootVars, connVars, failures, sinkVars, faults>>

\* snapshot_table: one chunk is read ...
ReadTables ==
    /\ mode = "slot"
    /\ scan' = [r \in Rows |-> committed]
    /\ mode' = "scan"
    /\ UNCHANGED <<slot, slotStart, bootstrapped, pipe>> /\ BootStill

\* ... and its rows are published one by one; they carry no LSN.
PublishSnapshotRow ==
    /\ mode = "scan" /\ scan # <<>> /\ HasRoom
    /\ Published(SnapshotOf(NRows - Len(scan) + 1, Head(scan)), 0)
    /\ scan' = Tail(scan)
    /\ UNCHANGED <<slot, slotStart, mode, bootstrapped>> /\ BootStill

BootstrapDone ==
    /\ mode = "scan" /\ scan = <<>>
    /\ bootstrapped' = TRUE /\ mode' = "connect"
    /\ UNCHANGED <<slot, slotStart, scan, pipe>> /\ BootStill

(***************************************************************************)
(* drive_with_reconnect and drive_replication.                             *)
(***************************************************************************)
ServerStill == UNCHANGED <<committed, slot, slotStart, confirmed>>

\* The server resumes after the transactions that end at or before confirmed.
Connect ==
    /\ mode = "connect" /\ slot
    /\ mode' = "stream"
    /\ \E n \in 0..NTxns : /\ \A t \in Txns : t <= n <=> End[t] <= confirmed
                           /\ sent' = n
    /\ open' = FALSE /\ outbox' = <<>> /\ walHighWater' = 0 /\ lastAcked' = 0
    /\ UNCHANGED <<bootVars, failures, sinkVars, faults>> /\ ServerStill

\* A missing slot cannot heal by retrying: fail at once.
SlotMissing ==
    /\ mode = "connect" /\ ~slot
    /\ mode' = "down"
    /\ UNCHANGED <<bootVars, connVars, failures, sinkVars, faults>> /\ ServerStill

\* One more failure; the budget may first have been reset by a healthy period.
Retry(healthy) ==
    /\ faults < MaxFaults /\ faults' = faults + 1
    /\ LET n == (IF healthy THEN 0 ELSE failures) + 1
       IN  /\ failures' = n
           /\ mode' = IF n >= MaxFailures THEN "down" ELSE "connect"
    /\ UNCHANGED <<bootVars, connVars, sinkVars>> /\ ServerStill

ConnectFails == mode = "connect" /\ Retry(FALSE)

\* Noticed in recv, so never while a transaction is being published.
ConnectionDrops == mode = "stream" /\ outbox = <<>> /\ \E healthy \in BOOLEAN : Retry(healthy)

\* recv returns None: the source returns and the dispatcher drains the bus.
StreamEnds ==
    /\ mode = "stream" /\ outbox = <<>> /\ faults < MaxFaults
    /\ mode' = "ended" /\ faults' = faults + 1
    /\ UNCHANGED <<bootVars, connVars, failures, sinkVars>> /\ ServerStill

EngineReturns ==
    /\ mode = "ended" /\ pipe = <<>>
    /\ mode' = "down"
    /\ UNCHANGED <<bootVars, connVars, failures, sinkVars, faults>> /\ ServerStill

\* compute_safe_ack
SafeAck(hw) == Smaller(hw, sinkProgress)
StreamStill == UNCHANGED <<mode, bootVars, failures, faults>> /\ ServerStill

\* Mutant: an empty transaction raises the high-water mark too.
EveryCommitRaisesMark(t, published) ==
    /\ walHighWater' = Larger(walHighWater, End[t])
    /\ lastAcked' = Larger(lastAcked, SafeAck(walHighWater'))

\* The end of a transaction: what was published raises the high-water mark, an
\* empty transaction is acknowledged directly if nothing is outstanding.
AfterCommit(t, published) ==
    LET hw == IF published THEN Larger(walHighWater, End[t]) ELSE walHighWater
        direct == ~published /\ SafeAck(hw) = hw
        ack == IF direct THEN Larger(lastAcked, End[t]) ELSE lastAcked
    IN  /\ walHighWater' = hw
        /\ lastAcked' = Larger(ack, SafeAck(hw))

ReceiveBegin ==
    /\ mode = "stream" /\ outbox = <<>> /\ ~open /\ sent < committed
    /\ open' = TRUE /\ sent' = sent + 1
    /\ UNCHANGED <<outbox, walHighWater, lastAcked, sinkVars>> /\ StreamStill

\* Only the last event of a transaction carries the end of its commit.
EventsOf(t) ==
    [i \in 1..Len(Changes[t]) |->
        [change |-> Change(t, i),
         mark |-> IF i = Len(Changes[t]) THEN End[t] ELSE Changes[t][i].lsn]]

ReceiveCommit ==
    /\ mode = "stream" /\ open
    /\ open' = FALSE /\ outbox' = EventsOf(sent)
    /\ IF Changes[sent] = <<>> THEN AfterCommit(sent, FALSE)
       ELSE UNCHANGED <<walHighWater, lastAcked>>
    /\ UNCHANGED <<sent, sinkVars>> /\ StreamStill

\* Mutant: the send does not wait for a free slot.
PublishUnbounded ==
    /\ mode = "stream" /\ outbox # <<>>
    /\ Published({Head(outbox).change}, Head(outbox).mark)
    /\ outbox' = Tail(outbox)
    /\ IF Len(outbox) = 1 THEN AfterCommit(sent, TRUE)
       ELSE UNCHANGED <<walHighWater, lastAcked>>
    /\ UNCHANGED <<sent, open, sinkProgress, delivered>> /\ StreamStill

PublishEvent ==
    /\ mode = "stream" /\ outbox # <<>> /\ HasRoom
    /\ Published({Head(outbox).change}, Head(outbox).mark)
    /\ outbox' = Tail(outbox)
    /\ IF Len(outbox) = 1 THEN AfterCommit(sent, TRUE)
       ELSE UNCHANGED <<walHighWater, lastAcked>>
    /\ UNCHANGED <<sent, open, sinkProgress, delivered>> /\ StreamStill

\* lsn_flush_timer
FlushTimer ==
    /\ mode = "stream" /\ outbox = <<>> /\ SafeAck(walHighWater) > lastAcked
    /\ lastAcked' = SafeAck(walHighWater)
    /\ UNCHANGED <<sent, open, outbox, walHighWater, sinkVars>> /\ StreamStill

\* The server announces that everything up to L has been sent (or, while a
\* transaction is open, is being sent).
Announced(L) == \A t \in Txns : End[t] <= L => t <= sent

Drained == walHighWater = 0 \/ SafeAck(walHighWater) = walHighWater

\* Mutant: a keepalive is acknowledged although a transaction is buffered.
KeepAliveInTransaction ==
    /\ mode = "stream" /\ outbox = <<>> /\ Drained
    /\ \E L \in LSNs : Announced(L) /\ L > lastAcked /\ lastAcked' = L
    /\ UNCHANGED <<sent, open, outbox, walHighWater, sinkVars>> /\ StreamStill

KeepAlive ==
    /\ mode = "stream" /\ outbox = <<>>
    /\ ~open /\ Drained
    /\ \E L \in LSNs : Announced(L) /\ L > lastAcked /\ lastAcked' = L
    /\ UNCHANGED <<sent, open, outbox, walHighWater, sinkVars>> /\ StreamStill

\* The driver's standby status update.
StatusUpdate ==
    /\ mode = "stream" /\ lastAcked > confirmed
    /\ confirmed' = lastAcked
    /\ UNCHANGED <<committed, slot, slotStart, mode, bootVars, connVars, failures,
                   sinkVars, faults>>

(***************************************************************************)
(* Faults and restarts.                                                    *)
(***************************************************************************)
\* A crash, a shutdown, or an error that ends the iteration.
Crash ==
    /\ mode # "down" /\ faults < MaxFaults
    /\ mode' = "down" /\ faults' = faults + 1
    /\ UNCHANGED <<serverVars, bootVars, connVars, failures, sinkVars>>

LoseSlot ==
    /\ slot /\ mode \in {"down", "connect"} /\ faults < MaxFaults
    /\ slot' = FALSE /\ faults' = faults + 1
    /\ UNCHANGED <<committed, slotStart, confirmed, mode, bootVars, connVars, failures,
                   sinkVars>>

Restart ==
    /\ mode = "down"
    /\ mode' = "boot" /\ scan' = <<>> /\ bootstrapped' = FALSE
    /\ sent' = 0 /\ open' = FALSE /\ outbox' = <<>> /\ walHighWater' = 0 /\ lastAcked' = 0
    /\ failures' = 0 /\ pipe' = <<>> /\ sinkProgress' = 0
    /\ UNCHANGED <<serverVars, delivered, faults>>

-----------------------------------------------------------------------------
Bootstrap == SkipBootstrap \/ CreateSlot \/ ReadTables \/ PublishSnapshotRow \/ BootstrapDone
Stream == Connect \/ SlotMissing \/ ReceiveBegin \/ ReceiveCommit \/ PublishEvent
Deliver == HandleEvent \/ AdvanceProgress

Next ==
    \/ CommitTxn \/ Bootstrap \/ Stream \/ Deliver
    \/ FlushTimer \/ KeepAlive \/ StatusUpdate \/ StreamEnds \/ EngineReturns
    \/ ConnectFails \/ ConnectionDrops \/ Crash \/ LoseSlot \/ Restart

Spec == Init /\ [][Next]_vars

-----------------------------------------------------------------------------
\* Types of the state, and the bus holds no more events than its capacity.
TypeOK ==
    /\ committed \in 0..NTxns /\ slotStart \in 0..NTxns /\ sent \in 0..NTxns
    /\ confirmed \in LSNs /\ lastAcked \in LSNs
    /\ walHighWater \in LSNs /\ sinkProgress \in LSNs
    /\ slot \in BOOLEAN /\ bootstrapped \in BOOLEAN /\ open \in BOOLEAN
    /\ mode \in {"down", "boot", "slot", "scan", "connect", "stream", "ended"}
    /\ failures \in 0..MaxFailures /\ faults \in 0..MaxFaults
    /\ Len(pipe) <= BusCapacity
    /\ delivered \subseteq AllChanges \cup {Base(r) : r \in Rows}

\* architecture.mdx: source progress is not confirmed beyond the prefix the sink
\* has handled.  Every transaction of the slot that ends at or before the
\* confirmed LSN is completely in the sink, whatever was dropped or crashed.
ConfirmedIsDelivered ==
    slot => \A c \in AllChanges :
        slotStart < c[1] /\ End[c[1]] <= confirmed => c \in delivered

\* maybe_bootstrap creates the slot before the snapshot reads, so snapshot and
\* stream together leave no gap: once an iteration that took the snapshot is
\* drained, every base row and every change up to there is in the sink.
BootstrapLeavesNoGap ==
    (bootstrapped /\ mode = "stream" /\ ~open /\ outbox = <<>> /\ pipe = <<>>) =>
        /\ \A r \in Rows : Base(r) \in delivered
        /\ \A c \in AllChanges : c[1] <= sent => c \in delivered

\* The confirmed position moves back only with the slot.
CursorStep == slot /\ slot' => confirmed' >= confirmed

\* Comments of drive_replication: neither an idle publication nor traffic on
\* unpublished tables may pin the server's log.  The confirmed position has passed
\* every committed transaction.
Done == slot /\ \A t \in 1..committed : confirmed >= End[t]

\* Every row that existed before the slot is in the sink.
BaseRowsDelivered == \A r \in Rows : Base(r) \in delivered
==============================================================================
