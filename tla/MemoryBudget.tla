----------------------------- MODULE MemoryBudget -----------------------------
(***************************************************************************)
(* The byte budget for retained events and the controller that adapts it   *)
(* (crates/ventstream-core/src/memory.rs and bus.rs,                       *)
(* crates/ventstream/src/memory_controller.rs).  Producers reserve the     *)
(* charge of an event with a compare-and-swap loop and sleep on a          *)
(* tokio::sync::Notify when it does not fit; a reservation is released     *)
(* when the last clone of the event is dropped.  Without a transform       *)
(* events go straight to the sink; with one (joins, projections) they      *)
(* first wait in the transform's input bus, and the transform reserves     *)
(* its output while it still holds its input.                              *)
(***************************************************************************)
EXTENDS Integers, Sequences, FiniteSets, SequencesExt, FiniteSetsExt

CONSTANTS
    Producers,     \* tasks that send events (a source, the admin resync)
    T,             \* the transform task
    HardLimit,     \* hard_limit_bytes
    MaxEvent,      \* max_event_bytes as requested
    Charges,       \* sizes of events
    BusCapacity,   \* slots of a bus
    MaxEvents,     \* bound on events sent
    Target, High, Critical, Hysteresis,  \* percentages of the controller
    Utilizations,  \* cgroup utilizations the probe may read
    MaxSamples     \* bound on samples that change the pressure

Larger(a, b) == IF a > b THEN a ELSE b
Smaller(a, b) == IF a < b THEN a ELSE b
Actors == Producers \cup {T}

\* MemoryBudget::new: one event takes at most a quarter of the budget.
MaxEventBytes == Smaller(Larger(MaxEvent, 1), Larger(HardLimit \div 4, 1))

MemoryAssumption ==
    /\ T \notin Producers /\ HardLimit \in Nat \ {0} /\ MaxEvent \in Nat
    /\ Charges \subseteq 1..MaxEventBytes
    /\ BusCapacity \in Nat \ {0} /\ MaxEvents \in Nat /\ MaxSamples \in Nat
    /\ 0 < Target /\ Target < High /\ High < Critical /\ Critical < 100
    /\ 0 < Hysteresis /\ Hysteresis < Target
    /\ Utilizations \subseteq Nat

Normal == 0
Constrained == 1
HighPressure == 2
CriticalPressure == 3
Pressures == 0..3

VARIABLES
    transform,  \* the engine has a transform stage
    used,       \* used_bytes
    pressure,
    recovering, \* recovery_started is set
    samples,    \* samples that changed the pressure so far
    st,         \* st[p]: where p is in send()
    want,       \* want[p]: charge it reserves
    limit,      \* limit[p]: admission limit it read
    seen,       \* seen[p]: used_bytes it read
    told,       \* told[p]: its Notified future has been notified
    permit,     \* the Notify stores a permit
    waiters,    \* tasks registered with the Notify, in order
    input,      \* charges of the events waiting for the transform
    work,       \* charge of the event the transform holds, 0 for none
    output,     \* charges of the events waiting for the sink
    left        \* events still to be sent

pressureVars == <<transform, pressure, recovering, samples>>
taskVars == <<st, want, limit, seen>>
notifyVars == <<told, permit, waiters>>
busVars == <<input, work, output, left>>
vars == <<pressureVars, used, taskVars, notifyVars, busVars>>

States == {"idle", "register", "cas", "full", "asleep", "reserved"}
Waiting(p) == st[p] \in States \ {"idle", "reserved"}

(***************************************************************************)
(* admission_limit                                                         *)
(***************************************************************************)
DivCeil(a, b) == (a + b - 1) \div b

AdmissionOf(p) == IF p = T THEN "output" ELSE IF transform THEN "input" ELSE "direct"

\* Mutant: the input of a transform may take the whole budget.
PercentWithoutHeadroom(q, admission) ==
    IF admission = "direct" THEN <<100, 65, 45, 25>>[q + 1] ELSE <<100, 65, 50, 50>>[q + 1]

Percent(q, admission) ==
    CASE admission = "input"  -> <<70, 35, 15, 5>>[q + 1]
      [] admission = "output" -> <<100, 65, 50, 50>>[q + 1]
      [] admission = "direct" -> <<100, 65, 45, 25>>[q + 1]

AdmissionLimit(q, admission) ==
    Smaller(HardLimit, Larger(MaxEventBytes, DivCeil(HardLimit * Percent(q, admission), 100)))

Init ==
    /\ transform \in BOOLEAN
    /\ used = 0 /\ pressure = Normal /\ recovering = FALSE /\ samples = 0
    /\ st = [p \in Actors |-> "idle"] /\ want = [p \in Actors |-> 0]
    /\ limit = [p \in Actors |-> 0] /\ seen = [p \in Actors |-> 0]
    /\ told = [p \in Actors |-> FALSE] /\ permit = FALSE /\ waiters = <<>>
    /\ input = <<>> /\ work = 0 /\ output = <<>>
    /\ left = MaxEvents

(***************************************************************************)
(* tokio::sync::Notify: notify_one wakes the first registered task or      *)
(* stores one permit; notify_waiters wakes every future that exists.       *)
(***************************************************************************)
\* Mutant: the task that is woken stays registered.
NotifyKeepsWaiter ==
    IF waiters # <<>>
    THEN told' = [told EXCEPT ![Head(waiters)] = TRUE] /\ UNCHANGED <<permit, waiters>>
    ELSE permit' = TRUE /\ UNCHANGED <<told, waiters>>

NotifyOne ==
    IF waiters # <<>>
    THEN /\ told' = [told EXCEPT ![Head(waiters)] = TRUE]
         /\ waiters' = Tail(waiters) /\ UNCHANGED permit
    ELSE permit' = TRUE /\ UNCHANGED <<told, waiters>>

NotifyWaiters ==
    /\ told' = [p \in Actors |-> told[p] \/ st[p] \in {"cas", "full", "asleep"}]
    /\ waiters' = <<>> /\ UNCHANGED permit

(***************************************************************************)
(* reserve and try_reserve_inner                                           *)
(***************************************************************************)
TaskStill == UNCHANGED <<pressureVars, busVars>>

Send(p, c) ==
    /\ st[p] = "idle" /\ left > 0
    /\ st' = [st EXCEPT ![p] = "register"] /\ want' = [want EXCEPT ![p] = c]
    /\ left' = left - 1
    /\ UNCHANGED <<pressureVars, used, limit, seen, notifyVars, input, work, output>>

\* What p read is of no further use once its compare-and-swap loop ends.
Forget(p) == limit' = [limit EXCEPT ![p] = 0] /\ seen' = [seen EXCEPT ![p] = 0]

\* One turn of the loop with limit l and u bytes found in use.
Check(p, l, u) ==
    IF u + want[p] > l
    THEN st' = [st EXCEPT ![p] = "full"] /\ Forget(p)
    ELSE /\ st' = [st EXCEPT ![p] = "cas"]
         /\ limit' = [limit EXCEPT ![p] = l] /\ seen' = [seen EXCEPT ![p] = u]

\* The future is created before the check.
Register(p) ==
    /\ st[p] = "register"
    /\ Check(p, AdmissionLimit(pressure, AdmissionOf(p)), used)
    /\ UNCHANGED <<used, want, notifyVars>> /\ TaskStill

\* Mutant: the sum is stored without comparing.
StoreWithoutCompare(p) ==
    /\ st[p] = "cas"
    /\ used' = seen[p] + want[p]
    /\ st' = [st EXCEPT ![p] = "reserved"] /\ Forget(p)
    /\ told' = [told EXCEPT ![p] = FALSE]
    /\ UNCHANGED <<want, permit, waiters>> /\ TaskStill

\* compare_exchange_weak: on failure the value found is checked, against the
\* limit read at the start.
Cas(p) ==
    /\ st[p] = "cas"
    /\ IF used = seen[p]
       THEN /\ used' = used + want[p]
            /\ st' = [st EXCEPT ![p] = "reserved"] /\ Forget(p)
            /\ told' = [told EXCEPT ![p] = FALSE]
       ELSE Check(p, limit[p], used) /\ UNCHANGED <<used, told>>
    /\ UNCHANGED <<want, permit, waiters>> /\ TaskStill

\* Polling the future: it is ready, takes the permit, or is registered.
Await(p) ==
    /\ st[p] = "full"
    /\ \/ /\ told[p] /\ told' = [told EXCEPT ![p] = FALSE]
          /\ st' = [st EXCEPT ![p] = "register"] /\ UNCHANGED <<permit, waiters>>
       \/ /\ ~told[p] /\ permit /\ permit' = FALSE
          /\ st' = [st EXCEPT ![p] = "register"] /\ UNCHANGED <<told, waiters>>
       \/ /\ ~told[p] /\ ~permit /\ waiters' = Append(waiters, p)
          /\ st' = [st EXCEPT ![p] = "asleep"] /\ UNCHANGED <<told, permit>>
    /\ UNCHANGED <<used, want, limit, seen>> /\ TaskStill

Wake(p) ==
    /\ st[p] = "asleep" /\ told[p]
    /\ st' = [st EXCEPT ![p] = "register"] /\ told' = [told EXCEPT ![p] = FALSE]
    /\ UNCHANGED <<used, want, limit, seen, permit, waiters>> /\ TaskStill

(***************************************************************************)
(* The buses, the transform and the sink.                                  *)
(***************************************************************************)
\* The event goes into the bus once it is reserved and there is a free slot.
Publish(p) ==
    /\ st[p] = "reserved"
    /\ IF transform THEN /\ Len(input) < BusCapacity
                         /\ input' = Append(input, want[p]) /\ UNCHANGED output
       ELSE /\ Len(output) < BusCapacity
            /\ output' = Append(output, want[p]) /\ UNCHANGED input
    /\ st' = [st EXCEPT ![p] = "idle"] /\ want' = [want EXCEPT ![p] = 0]
    /\ UNCHANGED <<pressureVars, used, limit, seen, notifyVars, work, left>>

\* The join engine takes an event and composes a document of charge c ...
Transform(c) ==
    /\ st[T] = "idle" /\ work = 0 /\ input # <<>>
    /\ work' = Head(input) /\ input' = Tail(input)
    /\ st' = [st EXCEPT ![T] = "register"] /\ want' = [want EXCEPT ![T] = c]
    /\ UNCHANGED <<pressureVars, used, limit, seen, notifyVars, output, left>>

\* ... or passes it through with the reservation it has.
PassThrough ==
    /\ st[T] = "idle" /\ work = 0 /\ input # <<>> /\ Len(output) < BusCapacity
    /\ input' = Tail(input) /\ output' = Append(output, Head(input))
    /\ UNCHANGED <<pressureVars, used, taskVars, notifyVars, work, left>>

Emit ==
    /\ st[T] = "reserved" /\ Len(output) < BusCapacity
    /\ output' = Append(output, want[T])
    /\ st' = [st EXCEPT ![T] = "idle"] /\ want' = [want EXCEPT ![T] = 0]
    /\ UNCHANGED <<pressureVars, used, limit, seen, notifyVars, input, work, left>>

\* Mutant: a dropped reservation wakes nobody.
ReleaseSilently(c) == used' = used - c /\ UNCHANGED notifyVars

\* Dropping a reservation.
Release(c) ==
    /\ used' = used - c
    /\ NotifyOne

TransformDone ==
    /\ st[T] = "idle" /\ work > 0
    /\ Release(work) /\ work' = 0
    /\ UNCHANGED <<pressureVars, taskVars, input, output, left>>

\* Writes finish in any order.
SinkDone ==
    /\ \E i \in 1..Len(output) : Release(output[i]) /\ output' = RemoveAt(output, i)
    /\ UNCHANGED <<pressureVars, taskVars, input, work, left>>

(***************************************************************************)
(* The controller: escalate at once, recover one level after a quiet       *)
(* interval.                                                               *)
(***************************************************************************)
Level(u) ==
    IF u >= Critical THEN CriticalPressure
    ELSE IF u >= High THEN HighPressure
    ELSE IF u >= Target THEN Constrained ELSE Normal

Threshold(q) == <<Target, High, Critical>>[q]

NextPressure(q, u) ==
    IF Level(u) > q THEN Level(u)
    ELSE IF q > Normal /\ u < Threshold(q) - Hysteresis THEN q - 1 ELSE q

SetPressure(q) ==
    /\ pressure' = q /\ samples' = samples + 1 /\ NotifyWaiters

Sample(u, elapsed) ==
    /\ samples < MaxSamples
    /\ LET desired == NextPressure(pressure, u)
       IN  \/ /\ desired > pressure
              /\ recovering' = FALSE /\ SetPressure(desired)
           \/ /\ desired < pressure /\ ~recovering
              /\ recovering' = TRUE
              /\ UNCHANGED <<pressure, samples, notifyVars>>
           \/ /\ desired < pressure /\ recovering /\ elapsed
              /\ recovering' = FALSE /\ SetPressure(desired)
           \/ /\ desired = pressure /\ recovering
              /\ recovering' = FALSE
              /\ UNCHANGED <<pressure, samples, notifyVars>>
    /\ UNCHANGED <<transform, used, taskVars, busVars>>

-----------------------------------------------------------------------------
Reserve(p) == Register(p) \/ Cas(p) \/ Await(p) \/ Wake(p)
TransformTask ==
    \/ Reserve(T) \/ (\E c \in Charges : Transform(c)) \/ PassThrough \/ Emit \/ TransformDone

Next ==
    \/ \E p \in Producers : (\E c \in Charges : Send(p, c)) \/ Reserve(p) \/ Publish(p)
    \/ TransformTask \/ SinkDone
    \/ \E u \in Utilizations, elapsed \in BOOLEAN : Sample(u, elapsed)

Spec == Init /\ [][Next]_vars

-----------------------------------------------------------------------------
\* Types of the state; the events waiting on the Notify are the ones asleep that
\* have not been notified, so notify_one never wakes a task that is not there.
TypeOK ==
    /\ used \in Nat /\ pressure \in Pressures /\ samples \in 0..MaxSamples
    /\ st \in [Actors -> States]
    /\ \A p \in Actors : want[p] \in Charges \cup {0}
    /\ Len(input) <= BusCapacity /\ Len(output) <= BusCapacity
    /\ work \in Charges \cup {0}
    /\ ToSet(waiters) = {p \in Actors : st[p] = "asleep" /\ ~told[p]}
    /\ Len(waiters) = Cardinality(ToSet(waiters))

SumSeq(s) == FoldSeq(LAMBDA c, total : total + c, 0, s)
ReservedBy(P) == FoldSet(LAMBDA p, total : total + want[p], 0, {p \in P : st[p] = "reserved"})

\* used_bytes is exactly what live events are charged and never exceeds the hard
\* limit, whatever producers, transform, sink and controller do concurrently.
AccountingExact ==
    /\ used = SumSeq(input) + work + SumSeq(output) + ReservedBy(Actors)
    /\ used <= HardLimit

\* Nobody waits for memory that is there.  Without a transform no producer waits,
\* under any pressure (comment of reserve: no release becomes a lost wakeup); and
\* at normal pressure the input limit leaves room for an output, so the transform,
\* which holds its input while it waits, has its reservation.
Served ==
    /\ ~transform => \A p \in Producers : ~Waiting(p)
    /\ pressure = Normal => ~Waiting(T)
==============================================================================
