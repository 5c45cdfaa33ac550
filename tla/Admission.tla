------------------------------ MODULE Admission ------------------------------
(***************************************************************************)
(* AdmissionQueue of crates/eltdx-runtime/src/request.rs: the only gate to *)
(* the pool's Slots.  A request either holds a lease on one Slot, or holds *)
(* a waiting permit (in the global FIFO, or local to a pin), or owns       *)
(* nothing.  The queue serves one engine epoch at a time; close seals it.  *)
(*                                                                         *)
(* Abstractions.  The FIFO `waiting` is the set of the requests in it:     *)
(* push_back always takes the next permit id and nothing else inserts, so  *)
(* a waiter's place is its permit id and the front is the least one (the   *)
(* module SlotPool has the sequence, and Admission is checked against it). *)
(* `idle` is the set of the idle Slots: no property depends on which of    *)
(* them is at the front.  `deadline.is_elapsed_at(now)` is membership in   *)
(* `elapsed`, which only grows.                                            *)
(***************************************************************************)
EXTENDS Naturals, FiniteSets

CONSTANTS
    Requests,            \* the request ids the engine hands out, each once
    PoolSize,            \* number of Slots
    MaxPendingRequests,  \* waiting permits, global and pin-local together
    MaxEpoch             \* bound: engine epochs the model runs through

ASSUME PoolSizeAssumption == PoolSize \in Nat \ {0}
ASSUME MaxPendingAssumption == MaxPendingRequests \in Nat \ {0}
ASSUME MaxEpochAssumption == MaxEpoch \in Nat
ASSUME RequestsAssumption == IsFiniteSet(Requests)

VARIABLES
    epoch,          \* the open engine epoch, 0 for none
    sealed,         \* no admission any more in this epoch
    idle,           \* Slots nobody holds
    waiting,        \* requests in the global FIFO
    pinWaiting,     \* requests that wait for their turn on a pin
    ownership,      \* what each request owns
    activeBySlot,   \* the lease id a Slot is held under, 0 for none
    permitCounter,
    leaseCounter,
    handles,        \* every permit and lease handed out: callers keep copies
    elapsed,        \* requests whose deadline has passed
    outcome         \* what the queue last told the caller of each request

admissionVars == <<epoch, sealed, idle, waiting, pinWaiting, ownership,
                   activeBySlot, permitCounter, leaseCounter>>
vars == <<admissionVars, handles, elapsed, outcome>>

Slots == 0 .. PoolSize - 1
Id == Nat \ {0}

NoOwner == [kind |-> "none"]
Permit == [kind : {"permit"}, epoch : Id, request : Requests, id : Id]
Lease == [kind : {"lease"}, epoch : Id, request : Requests, id : Id,
          slot : Slots]

Outcome == {"unseen", "refused", "queued", "leased",
            "released", "cancelled", "timed_out", "rejected"}
Answered == {"refused", "released", "cancelled", "timed_out", "rejected"}

-----------------------------------------------------------------------------
(* Reading the state. *)

\* require_open_epoch
Open == epoch # 0 /\ ~sealed

Waiters == waiting \cup pinWaiting
Live(r) == r \notin elapsed
LiveWaiters == {r \in waiting : Live(r)}

\* r's permit is older than q's: r stands before q in the FIFO.
Before(r, q) == ownership[r].id < ownership[q].id

\* Mutants of FirstLiveWaiter: any live waiter; the oldest waiter, alive or not.
AnyLiveWaiter(r) == r \in LiveWaiters
OldestWaiter(r) == r \in waiting /\ \A q \in waiting : q = r \/ Before(r, q)

\* first_live_waiter
FirstLiveWaiter(r) == r \in LiveWaiters /\ \A q \in LiveWaiters : q = r \/ Before(r, q)

\* remove_expired_front: everyone who stands before the first live waiter.
ExpiredFront == {r \in waiting \cap elapsed : \A q \in LiveWaiters : Before(r, q)}

\* Mutant of OwnsSlot: a stale lease is taken for the current one.
OwnsSlotLoosely(lease) == epoch = lease.epoch /\ activeBySlot[lease.slot] # 0

\* Does the lease still own its Slot, exactly?
OwnsSlot(lease) ==
    /\ epoch = lease.epoch
    /\ ownership[lease.request] = lease
    /\ activeBySlot[lease.slot] = lease.id

NewLease(r, s) == [kind |-> "lease", epoch |-> epoch, request |-> r,
                   id |-> leaseCounter + 1, slot |-> s]
NewPermit(r) == [kind |-> "permit", epoch |-> epoch, request |-> r,
                 id |-> permitCounter + 1]

\* ownership and outcome once the requests in R own nothing any more
Disown(R, why) ==
    /\ ownership' = [r \in Requests |-> IF r \in R THEN NoOwner ELSE ownership[r]]
    /\ outcome' = [r \in Requests |-> IF r \in R THEN why ELSE outcome[r]]

-----------------------------------------------------------------------------
Init ==
    /\ epoch = 0
    /\ sealed = TRUE
    /\ idle = {}
    /\ waiting = {}
    /\ pinWaiting = {}
    /\ ownership = [r \in Requests |-> NoOwner]
    /\ activeBySlot = [s \in Slots |-> 0]
    /\ permitCounter = 0
    /\ leaseCounter = 0
    /\ handles = {}
    /\ elapsed = {}
    /\ outcome = [r \in Requests |-> "unseen"]

\* open: refused while ownership of an earlier epoch remains.
OpenEpoch(e) ==
    /\ epoch = 0
    /\ \A r \in Requests : ownership[r] = NoOwner
    /\ waiting = {} /\ pinWaiting = {}
    /\ \A s \in Slots : activeBySlot[s] = 0
    /\ epoch' = e
    /\ sealed' = FALSE
    /\ idle' = Slots
    /\ UNCHANGED <<waiting, pinWaiting, ownership, activeBySlot, permitCounter,
                   leaseCounter, handles, elapsed, outcome>>

\* The engine numbers requests and never reuses a number.
Fresh(r) == outcome[r] = "unseen" /\ ownership[r] = NoOwner

Grant(r, s) ==
    /\ activeBySlot' = [activeBySlot EXCEPT ![s] = leaseCounter + 1]
    /\ ownership' = [ownership EXCEPT ![r] = NewLease(r, s)]
    /\ handles' = handles \cup {NewLease(r, s)}
    /\ leaseCounter' = leaseCounter + 1
    /\ outcome' = [outcome EXCEPT ![r] = "leased"]

\* submit, and open_pin's reservation: a Slot is free and nobody waits for it.
SubmitDirect(r) ==
    /\ Open /\ Fresh(r) /\ Live(r)
    /\ waiting = {}
    /\ \E s \in idle :
         /\ idle' = idle \ {s}
         /\ Grant(r, s)
    /\ UNCHANGED <<epoch, sealed, waiting, pinWaiting, permitCounter, elapsed>>

TakePermit(r) ==
    /\ ownership' = [ownership EXCEPT ![r] = NewPermit(r)]
    /\ handles' = handles \cup {NewPermit(r)}
    /\ permitCounter' = permitCounter + 1
    /\ outcome' = [outcome EXCEPT ![r] = "queued"]

\* submit: every Slot is taken, a permit is left.
SubmitWaiting(r) ==
    /\ Open /\ Fresh(r) /\ Live(r)
    /\ waiting # {} \/ idle = {}
    /\ Cardinality(Waiters) < MaxPendingRequests
    /\ waiting' = waiting \cup {r}
    /\ TakePermit(r)
    /\ UNCHANGED <<epoch, sealed, idle, pinWaiting, activeBySlot, leaseCounter, elapsed>>

\* submit and reserve_pin_waiting: PoolBusy, a closed pool, or a deadline that
\* elapsed before admission.  The queue's own state does not change.  (With all
\* permits out, a pin's call is refused even while a Slot is idle.)
Refuse(r) ==
    /\ Fresh(r)
    /\ ~Open \/ ~Live(r) \/ Cardinality(Waiters) >= MaxPendingRequests
    /\ outcome' = [outcome EXCEPT ![r] = "refused"]
    /\ UNCHANGED <<admissionVars, handles, elapsed>>

\* claim_idle_for_heartbeat: only an idle Slot, only when nobody waits.
ClaimIdleForHeartbeat(r, s) ==
    /\ Open /\ Fresh(r) /\ Live(r)
    /\ Waiters = {}
    /\ s \in idle
    /\ activeBySlot[s] = 0
    /\ idle' = idle \ {s}
    /\ Grant(r, s)
    /\ UNCHANGED <<epoch, sealed, waiting, pinWaiting, permitCounter, elapsed>>

\* reserve_pin_waiting: a call on a busy pin takes one of the shared permits.
ReservePinWaiting(r) ==
    /\ Open /\ Fresh(r) /\ Live(r)
    /\ Cardinality(Waiters) < MaxPendingRequests
    /\ pinWaiting' = pinWaiting \cup {r}
    /\ TakePermit(r)
    /\ UNCHANGED <<epoch, sealed, idle, waiting, activeBySlot, leaseCounter, elapsed>>

\* release_pin_waiting: the call got the pin, was cancelled, or the pin closed.
ReleasePinWaiting(permit) ==
    /\ epoch = permit.epoch
    /\ permit.request \in pinWaiting
    /\ ownership[permit.request] = permit
    /\ pinWaiting' = pinWaiting \ {permit.request}
    /\ Disown({permit.request}, "released")
    /\ UNCHANGED <<epoch, sealed, idle, waiting, activeBySlot, permitCounter,
                   leaseCounter, handles, elapsed>>

\* Mutant of CancelWaiting: the permit is not compared with what is owned.
CancelWaitingLate(permit) ==
    /\ epoch = permit.epoch
    /\ waiting' = waiting \ {permit.request}
    /\ Disown({permit.request}, "cancelled")
    /\ UNCHANGED <<epoch, sealed, idle, pinWaiting, activeBySlot, permitCounter,
                   leaseCounter, handles, elapsed>>

\* cancel_waiting
CancelWaiting(permit) ==
    /\ epoch = permit.epoch
    /\ ownership[permit.request] = permit
    /\ permit.request \in waiting
    /\ waiting' = waiting \ {permit.request}
    /\ Disown({permit.request}, "cancelled")
    /\ UNCHANGED <<epoch, sealed, idle, pinWaiting, activeBySlot, permitCounter,
                   leaseCounter, handles, elapsed>>

\* The answers release_active returns: the lease is given back and the
\* waiters of the expired front have timed out.
AfterRelease(lease, r) ==
    IF r = lease.request THEN "released"
    ELSE IF r \in ExpiredFront THEN "timed_out"
    ELSE outcome[r]

\* release_active, not sealed, somebody alive waits: the expired front times
\* out and the first live waiter takes the Slot over in the same mutation.
ReleaseAndPromote(lease) ==
    /\ OwnsSlot(lease)
    /\ ~sealed
    /\ \E r \in waiting :
         LET next == NewLease(r, lease.slot) IN
         /\ FirstLiveWaiter(r)
         /\ waiting' = waiting \ (ExpiredFront \cup {r})
         /\ activeBySlot' = [activeBySlot EXCEPT ![lease.slot] = next.id]
         /\ ownership' = [q \in Requests |->
               IF q = r THEN next
               ELSE IF q \in ExpiredFront \cup {lease.request} THEN NoOwner
               ELSE ownership[q]]
         /\ handles' = handles \cup {next}
         /\ leaseCounter' = leaseCounter + 1
         /\ outcome' = [q \in Requests |->
               IF q = r THEN "leased" ELSE AfterRelease(lease, q)]
    /\ UNCHANGED <<epoch, sealed, idle, pinWaiting, permitCounter, elapsed>>

\* Mutants of ReleaseToIdle: the lease's id goes into the list of idle Slots; the
\* Slot becomes idle although somebody waits.
ReleaseIdToIdle(lease) ==
    /\ OwnsSlot(lease)
    /\ sealed \/ LiveWaiters = {}
    /\ idle' = IF sealed THEN idle ELSE idle \cup {lease.id}
    /\ waiting' = waiting \ ExpiredFront
    /\ activeBySlot' = [activeBySlot EXCEPT ![lease.slot] = 0]
    /\ ownership' = [q \in Requests |->
          IF q \in ExpiredFront \cup {lease.request} THEN NoOwner ELSE ownership[q]]
    /\ outcome' = [q \in Requests |-> AfterRelease(lease, q)]
    /\ UNCHANGED <<epoch, sealed, pinWaiting, permitCounter, leaseCounter, handles, elapsed>>

ReleaseToIdleAlways(lease) ==
    /\ OwnsSlot(lease)
    /\ idle' = IF sealed THEN idle ELSE idle \cup {lease.slot}
    /\ waiting' = waiting \ ExpiredFront
    /\ activeBySlot' = [activeBySlot EXCEPT ![lease.slot] = 0]
    /\ ownership' = [q \in Requests |->
          IF q \in ExpiredFront \cup {lease.request} THEN NoOwner ELSE ownership[q]]
    /\ outcome' = [q \in Requests |-> AfterRelease(lease, q)]
    /\ UNCHANGED <<epoch, sealed, pinWaiting, permitCounter, leaseCounter, handles, elapsed>>

\* release_active otherwise: the Slot becomes idle, or nothing once sealed.
ReleaseToIdle(lease) ==
    /\ OwnsSlot(lease)
    /\ sealed \/ LiveWaiters = {}
    /\ idle' = IF sealed THEN idle ELSE idle \cup {lease.slot}
    /\ waiting' = waiting \ ExpiredFront
    /\ activeBySlot' = [activeBySlot EXCEPT ![lease.slot] = 0]
    /\ ownership' = [q \in Requests |->
          IF q \in ExpiredFront \cup {lease.request} THEN NoOwner ELSE ownership[q]]
    /\ outcome' = [q \in Requests |-> AfterRelease(lease, q)]
    /\ UNCHANGED <<epoch, sealed, pinWaiting, permitCounter, leaseCounter, handles, elapsed>>

ReleaseActive(lease) == ReleaseAndPromote(lease) \/ ReleaseToIdle(lease)

\* Mutants of ExpireWaiting: nobody is told; only the front of the FIFO is
\* looked at, and only while a Slot is idle.
ExpireSilently ==
    /\ waiting \cap elapsed # {}
    /\ waiting' = LiveWaiters
    /\ ownership' = [r \in Requests |-> IF r \in waiting \cap elapsed THEN NoOwner ELSE ownership[r]]
    /\ UNCHANGED <<epoch, sealed, idle, pinWaiting, activeBySlot, permitCounter,
                   leaseCounter, handles, elapsed, outcome>>

ExpireWhenIdle ==
    /\ ExpiredFront # {} /\ idle # {}
    /\ waiting' = waiting \ ExpiredFront
    /\ Disown(ExpiredFront, "timed_out")
    /\ UNCHANGED <<epoch, sealed, idle, pinWaiting, activeBySlot, permitCounter,
                   leaseCounter, handles, elapsed>>

\* expire_waiting, called by every tick of the runtime: every waiter of the
\* FIFO whose deadline has elapsed, wherever it stands.
ExpireWaiting ==
    /\ waiting \cap elapsed # {}
    /\ waiting' = LiveWaiters
    /\ Disown(waiting \cap elapsed, "timed_out")
    /\ UNCHANGED <<epoch, sealed, idle, pinWaiting, activeBySlot, permitCounter,
                   leaseCounter, handles, elapsed>>

\* seal: the linearization point of close.  Both kinds of waiters are rejected.
Seal ==
    /\ epoch # 0 /\ ~sealed
    /\ sealed' = TRUE
    /\ idle' = {}
    /\ waiting' = {}
    /\ pinWaiting' = {}
    /\ Disown(Waiters, "rejected")
    /\ UNCHANGED <<epoch, activeBySlot, permitCounter, leaseCounter, handles, elapsed>>

\* close_complete: Supervisor::finish_close calls it once nothing is owned.
CloseComplete ==
    /\ epoch # 0 /\ sealed
    /\ \A r \in Requests : ownership[r] = NoOwner
    /\ epoch' = 0
    /\ sealed' = TRUE
    /\ idle' = {}
    /\ waiting' = {}
    /\ pinWaiting' = {}
    /\ ownership' = [r \in Requests |-> NoOwner]
    /\ activeBySlot' = [s \in Slots |-> 0]
    /\ UNCHANGED <<permitCounter, leaseCounter, handles, elapsed, outcome>>

\* Time passes a request's deadline.
Elapse(r) ==
    /\ r \notin elapsed
    /\ elapsed' = elapsed \cup {r}
    /\ UNCHANGED <<admissionVars, handles, outcome>>

-----------------------------------------------------------------------------
\* Epochs are numbered upwards and never reused (Supervisor::begin_start).
NextEpoch(e) ==
    /\ e <= MaxEpoch
    /\ \A h \in handles : h.epoch < e
    /\ OpenEpoch(e)

Next ==
    \/ \E e \in 1 .. MaxEpoch : NextEpoch(e)
    \/ \E r \in Requests :
         \/ SubmitDirect(r) \/ SubmitWaiting(r) \/ Refuse(r)
         \/ ReservePinWaiting(r) \/ Elapse(r)
         \/ \E s \in Slots : ClaimIdleForHeartbeat(r, s)
    \/ \E h \in handles : h.kind = "permit" /\ (ReleasePinWaiting(h) \/ CancelWaiting(h))
    \/ \E h \in handles : h.kind = "lease" /\ ReleaseActive(h)
    \/ ExpireWaiting
    \/ Seal
    \/ CloseComplete

\* Deadlines are finite, and the runtime's tick runs expire_waiting.
Fairness ==
    /\ \A r \in Requests : WF_vars(Elapse(r))
    /\ WF_vars(ExpireWaiting)

Spec == Init /\ [][Next]_vars /\ Fairness

-----------------------------------------------------------------------------
Held(s) == {r \in Requests : ownership[r].kind = "lease" /\ ownership[r].slot = s}

\* Every variable has its type.
TypeOK ==
    /\ epoch \in Nat
    /\ sealed \in BOOLEAN
    /\ idle \subseteq Slots
    /\ waiting \subseteq Requests
    /\ pinWaiting \subseteq Requests
    /\ ownership \in [Requests -> {NoOwner} \cup Permit \cup Lease]
    /\ activeBySlot \in [Slots -> Nat]
    /\ permitCounter \in Nat
    /\ leaseCounter \in Nat
    /\ handles \subseteq Permit \cup Lease
    /\ elapsed \subseteq Requests
    /\ outcome \in [Requests -> Outcome]

\* The FIFO and the pins' waiters share one budget of waiting permits, and
\* nobody stands in both lines or holds a permit in neither (request.rs
\* check_invariants; the queue takes permits in two operations and returns
\* them in five).
WaitersHoldPermits ==
    /\ Cardinality(Waiters) <= MaxPendingRequests
    /\ waiting \cap pinWaiting = {}
    /\ \A r \in Requests : ownership[r].kind = "permit" <=> r \in Waiters

\* A Slot is held by exactly one request or by nobody, the lease id at the
\* Slot is its holder's, and a Slot is idle exactly when nobody holds it while
\* admission is open; sealed admission keeps no idle Slot to hand out.
SlotsHaveOneOwner ==
    /\ \A r \in Requests : ownership[r].kind = "lease" =>
          /\ activeBySlot[ownership[r].slot] = ownership[r].id
          /\ ownership[r].request = r
    /\ \A s \in Slots : activeBySlot[s] # 0 =>
          \E r \in Requests : ownership[r].kind = "lease" /\ ownership[r].slot = s
    /\ \A q, r \in Requests :
          /\ ownership[q].kind = "lease" /\ ownership[r].kind = "lease"
          /\ ownership[q].id = ownership[r].id
          => q = r
    /\ IF Open THEN idle = {s \in Slots : activeBySlot[s] = 0} ELSE idle = {}

\* An idle Slot and a request in the FIFO never exist together: whoever frees
\* a Slot hands it over in the same mutation.
NobodyWaitsForAnIdleSlot == idle # {} => waiting = {}

\* Strict FIFO: once a later permit of the FIFO has become a lease, the earlier
\* one no longer waits (it was promoted, cancelled, or timed out).  Pin-local
\* waiters follow their pin's order instead.
NoOvertaking ==
    \A q, r \in waiting \cup {x \in Requests : outcome[x] = "leased"} :
        \A p \in handles :
            (/\ r \in waiting
             /\ p.kind = "permit" /\ p.request = q
             /\ outcome[q] = "leased"
             /\ p.epoch = ownership[r].epoch)
            => p.id < ownership[r].id

\* The queue answers for exactly what it owns: a request it called queued or
\* leased is still owned, one it answered finally owns nothing.  No operation
\* drops a waiter silently.
AnswersMatchOwnership ==
    \A r \in Requests :
        /\ outcome[r] = "queued" <=> ownership[r].kind = "permit"
        /\ outcome[r] = "leased" <=> ownership[r].kind = "lease"

\* Nothing of an earlier epoch owns anything in the current one.
OwnersAreOfThisEpoch ==
    \A r \in Requests : ownership[r] # NoOwner => ownership[r].epoch = epoch

\* The queue's books agree: what it answered is what it owns, in this epoch, and
\* the two lines together hold exactly the permits it counts.
BooksAgree ==
    AnswersMatchOwnership /\ OwnersAreOfThisEpoch /\ WaitersHoldPermits

\* A final answer is given once, and a lease is never turned back into a permit.
AnsweredOnce ==
    [][\A r \in Requests :
          /\ outcome[r] \in Answered => outcome'[r] = outcome[r]
          /\ outcome[r] = "leased" => outcome'[r] \in {"leased", "released"}]_vars

\* No Slot is handed to a request whose deadline has passed, and none is handed
\* out at all once close has sealed the queue.
LeasesGoToTheLiving ==
    [][\A r \in Requests :
          (outcome[r] # "leased" /\ outcome'[r] = "leased")
              => r \notin elapsed /\ Open]_vars

\* Nobody waits in the FIFO for ever: the tick times the waiter out at the
\* latest, even if no Slot is ever given back.
WaitersLeave ==
    \A r \in Requests : r \in waiting ~> r \notin waiting
=============================================================================
