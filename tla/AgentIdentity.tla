---------------------------- MODULE AgentIdentity ----------------------------
(***************************************************************************)
(* The mTLS identity of a managed engine (ventstream-managed): the first   *)
(* enrollment of run_managed, the credential file of CredentialStore, and  *)
(* the renewal_loop that replaces the certificate before it expires and    *)
(* hands the new endpoint to the control stream.                           *)
(*                                                                         *)
(* A key is the number of its generation, a certificate the key it was     *)
(* issued for and its expiry.  Time is counted in units of half the        *)
(* RENEWAL_LEAD_FLOOR: the minimal and the retry delay (1 and 5 minutes)   *)
(* are rounded to nothing, a half-life is rounded up, and the agent is     *)
(* busy only between two units.  The gateway is external: it certifies the *)
(* key of a request it receives while the client's certificate is valid.   *)
(***************************************************************************)
EXTENDS Integers

CONSTANTS
    Lifetime,    \* how long the gateway's certificates are valid
    LeadFloor,   \* RENEWAL_LEAD_FLOOR
    MaxTime,     \* bound on the clock
    MaxOutage,   \* longest time without an agent that runs and a gateway that answers
    MaxFaults    \* bound on crashes, lost answers and failures of the file system

\* Every outage is shorter than the floor, and a new certificate outlives it.
IdentityAssumption ==
    /\ Lifetime \in Nat /\ LeadFloor \in Nat /\ MaxTime \in Nat
    /\ MaxOutage \in Nat /\ MaxFaults \in Nat
    /\ MaxOutage < LeadFloor /\ LeadFloor <= Lifetime

VARIABLES
    disk,       \* the credential file
    held,       \* the renewal loop's state
    work,       \* the state inside renew_once
    answer,     \* the certificate just received
    endpoint,   \* what the control stream connects with (endpoint_tx)
    pc,         \* where the agent is
    due,        \* end of the renewal loop's sleep
    now, up, outage,
    minted,     \* keys generated so far
    certified,  \* keys for which a renewal was granted
    faults,
    lapses      \* "sync": a promoted file was reported as failed; "read": a reload failed

vars == <<disk, held, work, answer, endpoint, pc, due, now, up, outage, minted, certified,
          faults, lapses>>
agent == <<held, work, answer, endpoint, pc, due>>
world == <<now, up, outage>>

NoMaterial == [key |-> 0, cert |-> 0, expires |-> 0]
NoState == [active |-> NoMaterial, pending |-> 0]

Material(key, response) == [key |-> key, cert |-> response.cert, expires |-> response.expires]
Issued(key) == [cert |-> key, expires |-> now + Lifetime]

Present(state) == state # NoState
Valid(state) == state.active.expires > now

\* Without the floor.
HalfLife(remaining) == IF remaining > 0 THEN remaining - remaining \div 2 ELSE 0

\* The certificate is renewed at half its remaining life, but no later than the floor
\* before its expiry.
renewal_delay(remaining) ==
    LET lead == IF remaining \div 2 > LeadFloor THEN remaining \div 2 ELSE LeadFloor
    IN  IF remaining > lead THEN remaining - lead ELSE 0

Fault == faults < MaxFaults /\ faults' = faults + 1

\* An invalid state is refused; a failing write leaves the old file or, when only
\* the directory could not be synced, the new one.
save(state, ok) ==
    \/ ok /\ Valid(state) /\ disk' = state /\ UNCHANGED faults
    \/ ~ok /\ ~Valid(state) /\ UNCHANGED <<disk, faults>>
    \/ ~ok /\ Valid(state) /\ Fault /\ disk' \in {disk, state}

Sleeps(state) ==
    /\ held' = state /\ work' = NoState /\ answer' = NoMaterial
    /\ pc' = "sleep" /\ due' = now + renewal_delay(state.active.expires - now)

Exits ==
    /\ held' = NoState /\ work' = NoState /\ answer' = NoMaterial /\ endpoint' = NoMaterial
    /\ pc' = "down" /\ due' = 0

Fails == pc' = "failed" /\ UNCHANGED <<held, work, answer, endpoint, due>>

Init ==
    /\ disk = NoState /\ held = NoState /\ work = NoState /\ answer = NoMaterial
    /\ endpoint = NoMaterial /\ pc = "down" /\ due = 0
    /\ now = 0 /\ up = TRUE /\ outage = 0
    /\ minted = 0 /\ certified = {} /\ faults = 0 /\ lapses = {}

-----------------------------------------------------------------------------
\* run_managed with an identity on disk; an expired one is an error and the
\* process exits.
Start ==
    /\ pc = "down" /\ Present(disk) /\ Valid(disk)
    /\ Sleeps(disk) /\ endpoint' = disk.active
    /\ lapses' = lapses \ {"sync"}
    /\ UNCHANGED <<disk, world, minted, certified, faults>>

\* The agent key binds a new key pair; a failure ends the process.
enroll_with_key ==
    /\ pc = "down" /\ ~Present(disk) /\ up
    /\ minted' = minted + 1
    /\ \/ /\ pc' = "bootstrap" /\ answer' = Issued(minted')
          /\ UNCHANGED <<held, work, endpoint, due, faults>>
       \/ Fault /\ Exits
    /\ UNCHANGED <<disk, world, certified, lapses>>

load_or_bootstrap ==
    /\ pc = "bootstrap"
    /\ LET state == [active |-> Material(minted, answer), pending |-> 0]
       IN \/ save(state, TRUE) /\ Sleeps(state) /\ endpoint' = state.active
          \/ save(state, FALSE) /\ Exits
    /\ UNCHANGED <<world, minted, certified, lapses>>

\* A new key each time, as if the pending one were not kept.
FreshKeyPerAttempt ==
    /\ pc = "sleep" /\ due <= now
    /\ \/ /\ Valid(held)
          /\ minted' = minted + 1
          /\ LET state == [held EXCEPT !.pending = minted']
             IN \/ /\ save(state, TRUE) /\ work' = state /\ pc' = "request"
                   /\ UNCHANGED <<held, answer, endpoint, due>>
                \/ save(state, FALSE) /\ Fails
       \/ ~Valid(held) /\ Fails /\ UNCHANGED <<disk, minted, faults>>
    /\ UNCHANGED <<world, certified, lapses>>

\* The sleep is over: renew_once needs a current endpoint and a key on disk before
\* it asks for a certificate.
ensure_pending_renewal ==
    /\ pc = "sleep" /\ due <= now
    /\ \/ /\ Valid(held) /\ held.pending # 0
          /\ work' = held /\ pc' = "request"
          /\ UNCHANGED <<disk, held, answer, endpoint, due, minted, faults>>
       \/ /\ Valid(held) /\ held.pending = 0
          /\ minted' = minted + 1
          /\ LET state == [held EXCEPT !.pending = minted']
             IN \/ /\ save(state, TRUE) /\ work' = state /\ pc' = "request"
                   /\ UNCHANGED <<held, answer, endpoint, due>>
                \/ save(state, FALSE) /\ Fails
       \/ ~Valid(held) /\ Fails /\ UNCHANGED <<disk, minted, faults>>
    /\ UNCHANGED <<world, certified, lapses>>

\* The gateway grants the request, and its answer may be lost; or it is not reached.
renew_once ==
    /\ pc = "request"
    /\ \/ /\ up /\ certified' = certified \cup {work.pending}
          /\ pc' = "activate" /\ answer' = Issued(work.pending)
          /\ UNCHANGED <<held, work, endpoint, due, faults>>
       \/ /\ up /\ Fault /\ Fails
          /\ certified' \in {certified, certified \cup {work.pending}}
       \/ ~up /\ Fails /\ UNCHANGED <<certified, faults>>
    /\ UNCHANGED <<disk, world, minted, lapses>>

Promoted == [active |-> Material(work.pending, answer), pending |-> 0]

\* The file is promoted, the control stream never told.
PromotedSilently ==
    /\ pc = "activate"
    /\ \/ save(Promoted, TRUE) /\ Sleeps(Promoted) /\ UNCHANGED <<endpoint, lapses>>
       \/ /\ save(Promoted, FALSE) /\ Fails
          /\ lapses' = lapses \cup (IF disk' = Promoted THEN {"sync"} ELSE {})
    /\ UNCHANGED <<world, minted, certified>>

activate_renewal ==
    /\ pc = "activate"
    /\ \/ /\ save(Promoted, TRUE) /\ Sleeps(Promoted)
          /\ endpoint' = Promoted.active /\ lapses' = lapses \ {"sync"}
       \/ /\ save(Promoted, FALSE) /\ Fails
          /\ lapses' = lapses \cup (IF disk' = Promoted THEN {"sync"} ELSE {})
    /\ UNCHANGED <<world, minted, certified>>

\* The loop goes on with what is on disk or, if that cannot be loaded, with what it
\* had; its next sleep is computed anew.
renewal_loop ==
    /\ pc = "failed"
    /\ \/ /\ Sleeps(IF Valid(disk) THEN disk ELSE held)
          /\ UNCHANGED <<faults, lapses>>
       \/ Fault /\ Sleeps(held) /\ lapses' = lapses \cup {"read"}
    /\ UNCHANGED <<disk, endpoint, world, minted, certified>>

-----------------------------------------------------------------------------
Crash ==
    /\ pc # "down" /\ Fault /\ Exits
    /\ UNCHANGED <<disk, world, minted, certified, lapses>>

Gateway ==
    /\ up' = ~up
    /\ UNCHANGED <<disk, agent, now, outage, minted, certified, faults, lapses>>

\* A unit of time passes while nothing can be done at once.
Tick ==
    /\ now < MaxTime
    /\ pc = "down" \/ (pc = "sleep" /\ (due > now \/ ~up))
    /\ LET online == pc # "down" /\ up
       IN /\ online \/ outage < MaxOutage
          /\ outage' = IF online THEN 0 ELSE outage + 1
    /\ now' = now + 1
    /\ UNCHANGED <<disk, agent, up, minted, certified, faults, lapses>>

Next ==
    \/ Start \/ enroll_with_key \/ load_or_bootstrap
    \/ ensure_pending_renewal \/ renew_once \/ activate_renewal \/ renewal_loop
    \/ Crash \/ Gateway \/ Tick

Spec == Init /\ [][Next]_vars

-----------------------------------------------------------------------------
\* Every certificate the agent keeps or uses was issued for the key beside it.
KeysMatch == \A m \in {disk.active, held.active, endpoint} : m.key = m.cert

\* The identity on disk does not expire, so that the process can always start again.
NeverExpires == Present(disk) => Valid(disk)

\* While the loop sleeps the control stream connects with the identity on disk.
EndpointCurrent == pc = "sleep" /\ "sync" \notin lapses => endpoint = disk.active

\* A renewal, however often it is retried, asks for one key: each key the gateway
\* has certified is the pending one or has become active.
NoOrphanedKey ==
    "read" \notin lapses => \A k \in certified : k = disk.pending \/ k <= disk.active.key

\* Keys match their certificates, the file never expires while every outage is shorter
\* than the lead floor, the control stream follows the file, and a retried renewal asks
\* for one key.
IdentityHolds == KeysMatch /\ NeverExpires /\ EndpointCurrent /\ NoOrphanedKey
===============================================================================
