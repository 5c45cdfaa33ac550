--------------------------- MODULE RuntimeCoreProofs ---------------------------
(***************************************************************************)
(* Proofs about the event loop of RuntimeCore, for any finite set of       *)
(* requests, any number of Slots, endpoints and attempts, and any setting  *)
(* of the flags.                                                           *)
(*                                                                         *)
(* The argument is one inductive invariant, IInv.  What the theorems say   *)
(* of the tracker and the leases does not survive a step by itself: an     *)
(* event was sent before, and is handled after, a cancellation, a close or *)
(* a failure, and what the handler does depends on whether the event still *)
(* fits.  So IInv also says what an event in a channel tells of the worker *)
(* that sent it (Shape); that before a close a Slot has at most one thing  *)
(* under way, a piece of work, an event, or a worker between the two, and  *)
(* that it is of the request holding the Slot's lease (OpenSlot); and what *)
(* is left of this once a close has begun (ClosingSlot, ClosingBooks).     *)
(* Admission's invariant is carried along by the lemma InvStep of          *)
(* AdmissionProofs.  The lemmas take the workers' steps first, then the    *)
(* core's, one lemma per handler.                                          *)
(***************************************************************************)
EXTENDS RuntimeCore, FiniteSetTheorems, TLAPS

AP == INSTANCE AdmissionProofs WITH MaxEpoch <- 1, nobody <- NoRequest

-----------------------------------------------------------------------------
(* The invariant. *)

Owns(r, s) == ownership[r].kind = "lease" /\ ownership[r].slot = s

\* The queue: Admission's own invariant, and every lease in use was handed out.
QueueInv ==
    /\ AP!Inv
    /\ \A r \in Requests : ownership[r].kind = "lease" => ownership[r] \in handles

Event ==
    [type : {"Transition"}, req : Requests, to : DOMAIN Follows, wire : WireType]
    \cup [type : {"Bytes", "Completed"}, req : Requests, wire : WireType]
    \cup [type : {"Failed"}, req : Requests, wire : WireType, same : BOOLEAN]
    \cup [type : {"Retired"}, req : Requests, gen : Nat]
    \cup [type : {"Unstarted"}, req : Requests]
    \cup [type : {"Stopped"}, ok : BOOLEAN]

\* A worker has a request in hand.
Serving(s) == worker[s].pc \in AtIO \cup Waits

Typed ==
    /\ TypeOK
    /\ events \in [Slots -> Seq(Event)]
    /\ \A s \in Slots : /\ Serving(s) => worker[s].req \in Requests
                        /\ work[s] # NoWork => work[s].req \in Requests

\* Permits and leases are the tracker's; plans belong to started requests; a
\* command in the channel is of a request nobody has heard of.
Books ==
    \A r \in Requests :
        /\ ownership[r].kind = "permit" <=> req[r].state = "Queued"
        /\ ownership[r].kind = "lease" <=> req[r].state = "Assigned" \/ Started(r)
        /\ req[r].intent # "none" => Started(r)
        /\ req[r].intent = "retry" => req[r].attempts < MaxAttempts
        /\ retirements[r] # "none" \/ lifecycle[r] # "none" => Started(r)
        /\ retirements[r] = "lifecycle" => lifecycle[r] # "none"
        /\ r \in inbox => answer[r] = "none" /\ outcome[r] = "unseen"
        /\ confirm[r] = "confirmed" => answer[r] # "none" /\ r \notin inbox

\* A worker that has reported waits for the core's answer.
Reports == {"Transition", "Bytes", "Completed", "Failed"}

\* What an event in the channel says about the worker that sent it.
SentBy(w, a, e) ==
    /\ e.type \in {"Retired", "Unstarted"} => w.pc \in {"idle", "stopped"}
    /\ e.type = "Stopped" => w.pc = "stopped"
    /\ e.type \in Reports =>
          /\ w.pc = IF e.type = "Transition" THEN e.to ELSE e.type
          /\ w.req = e.req
          /\ a = "none"
    /\ (e.type = "Failed" /\ e.same) => w.left > 0

Sent(s, e) == SentBy(worker[s], reply[s], e)

Shape(s) ==
    /\ \A i \in 1 .. Len(events[s]) :
          /\ Sent(s, events[s][i])
          /\ events[s][i].type \in Reports => i = Len(events[s])
    /\ reply[s] # "none" => worker[s].pc \in Waits

\* The worker is ready for its next request.
Settled(s) == /\ worker[s].pc \in {"idle", "Completed"}
              /\ worker[s].pc = "Completed" => reply[s] = "ok"

\* Before a close, what is under way at a Slot is of the request that has it:
\* a piece of work on its way, or an event, or a worker between the two.
OpenSlot(s) ==
    /\ work[s] # NoWork => /\ Owns(work[s].req, s) /\ alive[s]
                           /\ Settled(s) /\ events[s] = <<>>
                           /\ ~work[s].fresh => worker[s].left > 0 /\ Started(work[s].req)
    /\ Len(events[s]) <= 1 /\ directive[s] # "stop"
    /\ events[s] # <<>> /\ Ev(s).type # "Stopped" =>
          /\ Owns(Ev(s).req, s)
          /\ Ev(s).type \notin {"Transition", "Unstarted"} => Started(Ev(s).req)
    /\ events[s] # <<>> => worker[s].pc # "idle" \/ Ev(s).type \in {"Retired", "Unstarted"}
    /\ reply[s] # "err"
    /\ Serving(s) /\ ~Settled(s) =>
          /\ Owns(worker[s].req, s)
          /\ (\/ reply[s] = "ok"
              \/ worker[s].pc \in AtIO \cup {"Bytes", "WaitingResponse", "Completed", "Failed"})
             => Started(worker[s].req)
    /\ worker[s].pc = "stopped" => /\ events[s] # <<>> /\ Ev(s).type = "Stopped"
                                   /\ \E r \in Requests : Owns(r, s)
    /\ \A r \in Requests : retirements[r] = "continue" /\ Owns(r, s) =>
          worker[s].left > 0 /\ work[s] = NoWork

\* Once a close has begun nothing new is started, and what is under way keeps
\* its Slot until its worker is done with it.
ClosingSlot(s) ==
    /\ work[s] = NoWork \/ directive[s] = "stop"
    /\ (\/ worker[s].pc \in AtIO
        \/ worker[s].pc \in Waits \ {"Completed", "Failed"} /\ reply[s] = "ok")
       => Owns(worker[s].req, s)

ClosingBooks ==
    /\ sealed
    /\ \A r \in Requests : /\ req[r].state \notin {"Assigned", "Queued"}
                           /\ Started(r) => req[r].intent = "terminal"

IInv ==
    /\ QueueInv /\ Typed /\ Books
    /\ \A s \in Slots : Shape(s)
    /\ ~Closing => \A s \in Slots : OpenSlot(s)
    /\ Closing => ClosingBooks /\ \A s \in Slots : ClosingSlot(s)
-----------------------------------------------------------------------------
(* The queue under the core. *)

\* Admission's proofs are about the same finite sets.
LEMMA SameFinite == ASSUME NEW S PROVE IsFiniteSet(S) <=> AP!IsFiniteSet(S)
  BY DEF IsFiniteSet, AP!IsFiniteSet

\* Admission's invariant holds after each of its steps.
LEMMA QueueSteps == AP!Inv /\ [AP!Next]_(AP!vars) => AP!Inv'
  BY PoolAssumption, NoRequestAssumption, SameFinite, AP!InvStep

\* The core calls the queue with the permits and leases it holds.
LEMMA QueueKept ==
  ASSUME QueueInv,
         \/ \E r \in Requests : A!SubmitDirect(r) \/ A!SubmitWaiting(r) \/ A!Refuse(r) \/ A!Elapse(r)
         \/ \E r \in Requests : ownership[r].kind = "permit" /\ A!CancelWaiting(ownership[r])
         \/ \E r \in Requests : ownership[r].kind = "lease" /\ A!ReleaseActive(ownership[r])
         \/ A!ExpireWaiting
         \/ A!CloseComplete
         \/ UNCHANGED admissionVars
  PROVE  QueueInv'
<1> USE DEF A!Open, AP!Open, A!Fresh, AP!Fresh, A!Live, AP!Live, A!Waiters, AP!Waiters,
            A!NoOwner, AP!NoOwner, A!Slots, AP!Slots, A!admissionVars, AP!admissionVars,
            A!LiveWaiters, AP!LiveWaiters, A!Before, AP!Before, A!NewLease, AP!NewLease,
            A!NewPermit, AP!NewPermit, A!Disown, AP!Disown
<1>1. ASSUME NEW S PROVE A!Cardinality(S) = AP!Cardinality(S)
  BY DEF A!Cardinality, AP!Cardinality
<1>2. ASSUME NEW r \in Requests, A!SubmitDirect(r) PROVE AP!SubmitDirect(r)
  BY <1>2 DEF A!SubmitDirect, AP!SubmitDirect, A!Grant, AP!Grant
<1>3. ASSUME NEW r \in Requests, A!SubmitWaiting(r) PROVE AP!SubmitWaiting(r)
  BY <1>1, <1>3 DEF A!SubmitWaiting, AP!SubmitWaiting, A!TakePermit, AP!TakePermit
<1>4. ASSUME NEW r \in Requests, A!Refuse(r) PROVE AP!Refuse(r)
  BY <1>1, <1>4 DEF A!Refuse, AP!Refuse
<1>5. ASSUME NEW r \in Requests, A!Elapse(r) PROVE AP!Elapse(r)
  BY <1>5 DEF A!Elapse, AP!Elapse
<1>6. ASSUME NEW r \in Requests, A!CancelWaiting(ownership[r]) PROVE AP!CancelWaiting(ownership[r])
  BY <1>6 DEF A!CancelWaiting, AP!CancelWaiting
<1>7. ASSUME NEW r \in Requests, A!ReleaseActive(ownership[r]) PROVE AP!ReleaseActive(ownership[r])
  BY <1>7 DEF A!ReleaseActive, AP!ReleaseActive, A!ReleaseAndPromote, AP!ReleaseAndPromote,
       A!ReleaseToIdle, AP!ReleaseToIdle, A!OwnsSlot, AP!OwnsSlot, A!FirstLiveWaiter,
       AP!FirstLiveWaiter, A!ExpiredFront, AP!ExpiredFront, A!AfterRelease, AP!AfterRelease
<1>8. A!ExpireWaiting => AP!ExpireWaiting
  BY DEF A!ExpireWaiting, AP!ExpireWaiting
<1>9. A!CloseComplete => AP!CloseComplete
  BY DEF A!CloseComplete, AP!CloseComplete
<1>10. \A r \in Requests : ownership[r].kind \in {"permit", "lease"} => ownership[r] \in handles
  BY DEF QueueInv, AP!Inv, AP!PermitsAreOnce
<1>11. [AP!Next]_(AP!vars)
  BY <1>2, <1>3, <1>4, <1>5, <1>6, <1>7, <1>8, <1>9, <1>10 DEF AP!Next, AP!vars, admissionVars
<1>12. AP!Inv'
  BY <1>11, QueueSteps DEF QueueInv
<1>13. ASSUME NEW r \in Requests, ownership'[r].kind = "lease"
       PROVE  ownership'[r] \in handles'
  <2>0. ownership = [q \in Requests |-> ownership[q]]
    BY DEF QueueInv, AP!Inv, AP!TypeOK
  <2> USE <1>13, <2>0 DEF QueueInv
  <2>1. ASSUME NEW q \in Requests, A!SubmitDirect(q) \/ A!SubmitWaiting(q) \/ A!Refuse(q) \/ A!Elapse(q)
        PROVE  ownership'[r] \in handles'
    BY <2>1 DEF A!SubmitDirect, A!Grant, A!SubmitWaiting, A!TakePermit, A!NewPermit, A!Refuse,
                A!Elapse, A!Fresh
  <2>2. ASSUME NEW q \in Requests, A!CancelWaiting(ownership[q])
        PROVE  ownership'[r] \in handles'
    BY <2>2 DEF A!CancelWaiting, A!Disown
  <2>3. ASSUME NEW q \in Requests, A!ReleaseActive(ownership[q])
        PROVE  ownership'[r] \in handles'
    BY <2>3 DEF A!ReleaseActive, A!ReleaseAndPromote, A!ReleaseToIdle
  <2>4. CASE A!ExpireWaiting \/ A!CloseComplete
    BY <2>4 DEF A!ExpireWaiting, A!CloseComplete, A!Disown
  <2> QED
    BY <2>1, <2>2, <2>3, <2>4 DEF admissionVars
<1> QED
  BY <1>12, <1>13 DEF QueueInv

\* What the core relies on of the queue.
LEMMA QueueFacts ==
  QueueInv =>
    /\ A!TypeOK
    /\ A!SlotsHaveOneOwner /\ A!WaitersHoldPermits /\ A!NobodyWaitsForAnIdleSlot
    /\ \A r \in Requests :
          /\ ownership[r].kind = "permit" => ownership[r] \in A!Permit
          /\ ownership[r].kind = "lease" =>
                ownership[r] \in A!Lease /\ ownership[r].request = r
          /\ ownership[r].kind \notin {"permit", "lease"} => ownership[r] = A!NoOwner
          /\ ownership[r].kind = "permit" <=> r \in A!Waiters
          /\ ownership[r].kind = "permit" <=> outcome[r] = "queued"
          /\ ownership[r].kind = "lease" <=> outcome[r] = "leased"
    /\ \A q, r \in Requests, s \in Slots : Owns(q, s) /\ Owns(r, s) => q = r
    /\ \A r \in Requests, s \in Slots : Owns(r, s) => s \notin idle
<1> SUFFICES ASSUME QueueInv PROVE QueueFacts!2
  OBVIOUS
<1>1. A!TypeOK
  BY DEF QueueInv, AP!Inv, AP!TypeOK, A!TypeOK, A!Slots, AP!Slots, A!Id, AP!Id, A!Permit,
         AP!Permit, A!Lease, AP!Lease, A!NoOwner, AP!NoOwner, A!Outcome, AP!Outcome
<1>2. A!SlotsHaveOneOwner
  BY DEF QueueInv, AP!Inv, AP!SlotsHaveOneOwner, A!SlotsHaveOneOwner, A!Slots, AP!Slots,
         A!Open, AP!Open
<1>3. A!WaitersHoldPermits /\ A!NobodyWaitsForAnIdleSlot
  <2>1. A!Cardinality(A!Waiters) = AP!Cardinality(A!Waiters)
    BY DEF A!Cardinality, AP!Cardinality
  <2> QED
    BY <2>1 DEF QueueInv, AP!Inv, AP!LinesHoldPermits, AP!Budget, A!WaitersHoldPermits,
         AP!NobodyWaitsForAnIdleSlot, A!NobodyWaitsForAnIdleSlot, A!Waiters, AP!Waiters
<1>4. ASSUME NEW r \in Requests
      PROVE  /\ ownership[r].kind = "permit" => ownership[r] \in A!Permit
             /\ ownership[r].kind = "lease" =>
                   ownership[r] \in A!Lease /\ ownership[r].request = r
             /\ ownership[r].kind \notin {"permit", "lease"} => ownership[r] = A!NoOwner
             /\ ownership[r].kind = "permit" <=> r \in A!Waiters
             /\ ownership[r].kind = "permit" <=> outcome[r] = "queued"
             /\ ownership[r].kind = "lease" <=> outcome[r] = "leased"
  <2>1. ownership[r] \in {A!NoOwner} \cup A!Permit \cup A!Lease
    BY <1>1 DEF A!TypeOK
  <2> QED
    BY <1>2, <1>3, <2>1 DEF A!SlotsHaveOneOwner, A!WaitersHoldPermits, A!Permit, A!Lease, A!NoOwner,
         QueueInv, AP!Inv, AP!AnswersMatchOwnership
<1>5. ASSUME NEW q \in Requests, NEW r \in Requests, NEW s \in Slots, Owns(q, s), Owns(r, s)
      PROVE  q = r /\ s \notin idle
  <2>1. activeBySlot[s] = ownership[q].id /\ activeBySlot[s] = ownership[r].id /\ activeBySlot[s] # 0
    BY <1>2, <1>4, <1>5 DEF A!SlotsHaveOneOwner, Owns, A!Lease, A!Id
  <2>2. q = r
    BY <1>2, <1>5, <2>1 DEF A!SlotsHaveOneOwner, Owns
  <2>3. s \notin idle
    BY <1>2, <2>1 DEF A!SlotsHaveOneOwner
  <2> QED
    BY <2>2, <2>3
<1> QED
  BY <1>1, <1>2, <1>3, <1>4, <1>5

-----------------------------------------------------------------------------
(* The event channels. *)

\* What the core's taking the first event of a channel does.
LEMMA Taken ==
  ASSUME Typed, NEW s \in Slots, NEW type, Took(s, type)
  PROVE  /\ Ev(s) \in Event /\ Ev(s).type = type /\ Ev(s) = events[s][1] /\ ~Closed
         /\ events[s] # <<>> /\ Len(events[s]) \in Nat \ {0}
         /\ events' \in [Slots -> Seq(Event)]
         /\ \A t \in Slots : t # s => events'[t] = events[t]
         /\ Len(events'[s]) = Len(events[s]) - 1
         /\ \A i \in 1 .. Len(events'[s]) :
               i + 1 \in 1 .. Len(events[s]) /\ events'[s][i] = events[s][i + 1]
         /\ Len(events[s]) <= 1 => events'[s] = <<>>
<1>1. events[s] \in Seq(Event) /\ events[s] # <<>> /\ events' = [events EXCEPT ![s] = Tail(@)]
  BY DEF Typed, Took
<1>2. /\ Len(events[s]) \in Nat \ {0} /\ Head(events[s]) = events[s][1]
      /\ Head(events[s]) \in Event
      /\ Tail(events[s]) \in Seq(Event) /\ Len(Tail(events[s])) = Len(events[s]) - 1
      /\ \A i \in 1 .. Len(Tail(events[s])) : Tail(events[s])[i] = events[s][i + 1]
  BY <1>1
<1>3. events'[s] = Tail(events[s])
  BY <1>1 DEF Typed
<1>4. Len(events[s]) <= 1 => events'[s] = <<>>
  BY <1>2, <1>3
<1> QED
  BY <1>1, <1>2, <1>3, <1>4 DEF Took, Ev, Typed

\* What a worker's sending an event does.
LEMMA Added ==
  ASSUME Typed, NEW s \in Slots, NEW e \in Event, Emit(s, e)
  PROVE  /\ events' \in [Slots -> Seq(Event)]
         /\ \A t \in Slots : t # s => events'[t] = events[t]
         /\ Len(events'[s]) = Len(events[s]) + 1 /\ events'[s] # <<>>
         /\ \A i \in 1 .. Len(events'[s]) :
               events'[s][i] = IF i = Len(events[s]) + 1 THEN e ELSE events[s][i]
         /\ events[s] = <<>> => Head(events'[s]) = e /\ Len(events'[s]) = 1
<1>1. events[s] \in Seq(Event) /\ events' = [events EXCEPT ![s] = Append(events[s], e)]
  BY DEF Typed, Emit
<1>2. /\ Append(events[s], e) \in Seq(Event) /\ Append(events[s], e) # <<>>
      /\ Len(Append(events[s], e)) = Len(events[s]) + 1
      /\ \A i \in 1 .. Len(events[s]) + 1 :
            Append(events[s], e)[i] = IF i = Len(events[s]) + 1 THEN e ELSE events[s][i]
  BY <1>1
<1>3. events'[s] = Append(events[s], e)
  BY <1>1 DEF Typed
<1>4. events[s] = <<>> => Head(Append(events[s], e)) = e /\ Len(Append(events[s], e)) = 1
  BY <1>1, <1>2
<1> QED
  BY <1>1, <1>2, <1>3, <1>4 DEF Typed

-----------------------------------------------------------------------------
(* The callers. *)

\* The same, of the state after a step.
LEMMA QueueTypedNext == QueueInv' => A!TypeOK'
<1>1. QueueInv => A!TypeOK
  BY QueueFacts
<1> QED
  BY <1>1, PTL

\* A step that leaves a Slot, its channels and its owner alone.
LEMMA SlotSame ==
  ASSUME NEW s \in Slots, Typed,
         worker'[s] = worker[s], work'[s] = work[s], reply'[s] = reply[s], events'[s] = events[s],
         alive[s] => alive'[s],
         directive[s] = "stop" => directive'[s] = "stop",
         \A r \in Requests :
            /\ Owns(r, s) => Owns(r, s)' /\ (Started(r) => Started(r)')
            /\ retirements'[r] = "continue" /\ Owns(r, s)' => retirements[r] = "continue" /\ Owns(r, s)
  PROVE  (Shape(s) => Shape(s)') /\ (ClosingSlot(s) => ClosingSlot(s)')
         /\ (OpenSlot(s) /\ directive'[s] # "stop" => OpenSlot(s)')
<1>1. Shape(s) => Shape(s)'
  BY DEF Shape, Sent, SentBy, Reports
<1>2. ASSUME events[s] # <<>>, Ev(s).type # "Stopped" PROVE Ev(s).req \in Requests
  <2>1. Ev(s) \in Event
    BY <1>2 DEF Typed, Ev
  <2> QED
    BY <1>2, <2>1 DEF Event
<1>3. Serving(s) => worker[s].req \in Requests
  BY DEF Typed
<1>4. work[s] # NoWork => work[s].req \in Requests
  BY DEF Typed
<1>5. /\ Ev(s)' = Ev(s) /\ (Serving(s)' <=> Serving(s)) /\ (Settled(s)' <=> Settled(s))
  BY DEF Ev, Serving, Settled
<1>6. OpenSlot(s) /\ directive'[s] # "stop" => OpenSlot(s)'
  BY <1>2, <1>3, <1>4, <1>5 DEF OpenSlot
<1>7. ClosingSlot(s) => ClosingSlot(s)'
  BY <1>3 DEF ClosingSlot, Serving
<1> QED
  BY <1>1, <1>6, <1>7

\* The callers' steps, and the missed deadline of a close.
LEMMA CallersKeep == IInv /\ (CallerStep \/ AskClose \/ HandleCloseTimeout) => IInv'
<1> SUFFICES ASSUME IInv, CallerStep \/ AskClose \/ HandleCloseTimeout PROVE IInv'
  OBVIOUS
<1>1. UNCHANGED <<ownership, outcome, sealed, req, lifecycle, retirements, answer, alive, work, directive,
                  reply, events, worker>> /\ Closing' = Closing
  BY DEF CallerStep, AskClose, HandleCloseTimeout, SendCommand, AskCancel, Elapse, A!Elapse,
         A!admissionVars, admissionVars, callerVars, workerVars, channelVars, coreVars, Closing, Closed
<1>2. QueueInv'
  BY QueueKept DEF IInv, CallerStep, AskClose, HandleCloseTimeout, SendCommand, AskCancel, Elapse
<1>3. Typed'
  <2> DEFINE TypesKept ==
        /\ engine' \in {"Running", "Closing", "FailedClosing", "Stopped", "FailedClosed"}
        /\ confirm' \in [Requests -> {"none", "asked", "held", "confirmed"}]
        /\ inbox' \subseteq Requests /\ preCancelled' \subseteq Requests /\ closeAsked' \in BOOLEAN
  <2>1. TypesKept
    <3>1. /\ engine \in {"Running", "Closing", "FailedClosing", "Stopped", "FailedClosed"}
          /\ confirm \in [Requests -> {"none", "asked", "held", "confirmed"}]
          /\ inbox \subseteq Requests /\ preCancelled \subseteq Requests /\ closeAsked \in BOOLEAN
      BY DEF IInv, Typed, TypeOK
    <3>2. ASSUME NEW r \in Requests, SendCommand(r) \/ Elapse(r) PROVE TypesKept
      BY <3>1, <3>2 DEF SendCommand, Elapse, callerVars, coreVars
    <3>3. ASSUME NEW r \in Requests, AskCancel(r) PROVE TypesKept
      BY <3>1, <3>3 DEF AskCancel, callerVars
    <3>4. CASE AskClose \/ HandleCloseTimeout
      BY <3>1, <3>4 DEF AskClose, HandleCloseTimeout, callerVars, coreVars
    <3> QED
      BY <3>2, <3>3, <3>4 DEF CallerStep
  <2>2. TypeOK'
    BY <1>1, <1>2, <2>1, QueueTypedNext DEF IInv, Typed, TypeOK
  <2> QED
    BY <1>1, <2>2 DEF IInv, Typed, Serving
<1>4. Books'
  BY <1>1 DEF IInv, Typed, TypeOK, Books, Started, CallerStep, AskClose, HandleCloseTimeout, SendCommand,
     AskCancel, Elapse, callerVars, coreVars
<1>5. \A s \in Slots : Shape(s)' /\ (~Closing => OpenSlot(s)') /\ (Closing => ClosingSlot(s)')
  BY <1>1, SlotSame DEF IInv, Owns, Started, OpenSlot
<1>6. Closing => ClosingBooks'
  BY <1>1 DEF IInv, ClosingBooks, Started
<1> QED
  BY <1>1, <1>2, <1>3, <1>4, <1>5, <1>6 DEF IInv

-----------------------------------------------------------------------------
(* The workers. *)

WorkerState == [pc : {"idle", "stopped"} \cup AtIO \cup Waits,
                req : Requests \cup {NoRequest}, gen : Nat \ {0},
                up : BOOLEAN, left : Nat]

WorkerTypes ==
    /\ worker \in [Slots -> WorkerState]
    /\ work \in [Slots -> [req : Requests \cup {NoRequest}, fresh : BOOLEAN]]
    /\ reply \in [Slots -> {"none", "ok", "err"}]
    /\ events \in [Slots -> Seq(Event)]
    /\ \A s \in Slots : /\ Serving(s) => worker[s].req \in Requests
                        /\ work[s] # NoWork => work[s].req \in Requests

SlotOK(s) ==
    /\ Shape(s)
    /\ ~Closing => OpenSlot(s)
    /\ Closing => ClosingSlot(s)

\* What a step of the worker of s touches.
OnlyAt(s) ==
    /\ UNCHANGED <<admissionVars, callerVars, coreVars, alive, directive>>
    /\ \A t \in Slots : t # s => /\ worker'[t] = worker[t] /\ work'[t] = work[t]
                                 /\ reply'[t] = reply[t] /\ events'[t] = events[t]

\* A worker's step is right if its own Slot is in order after it: the rest is not
\* touched.
LEMMA WorkerFrame ==
  ASSUME IInv, NEW s \in Slots, OnlyAt(s), WorkerTypes', SlotOK(s)'
  PROVE  IInv'
<1>1. UNCHANGED admissionVars /\ UNCHANGED coreVars /\ UNCHANGED callerVars
  BY DEF OnlyAt
<1>2. QueueInv'
  BY <1>1, QueueKept DEF IInv
<1>3. Typed'
  <2>1. TypeOK'
    BY <1>1, <1>2, QueueTypedNext DEF IInv, Typed, TypeOK, WorkerTypes, WorkerState, OnlyAt, coreVars, callerVars
  <2> QED
    BY <2>1 DEF WorkerTypes, Typed
<1>4. Books'
  BY <1>1 DEF IInv, Books, Started, coreVars, callerVars, admissionVars
<1>5. /\ Closing' = Closing
      /\ \A r \in Requests, t \in Slots :
            /\ Owns(r, t)' <=> Owns(r, t)
            /\ Started(r)' <=> Started(r)
            /\ retirements'[r] = retirements[r]
  BY <1>1 DEF Closing, Closed, Owns, Started, coreVars, admissionVars
<1>6. ASSUME NEW t \in Slots, t # s PROVE SlotOK(t)'
  <2>1. /\ worker'[t] = worker[t] /\ work'[t] = work[t] /\ reply'[t] = reply[t]
        /\ events'[t] = events[t] /\ alive'[t] = alive[t] /\ directive'[t] = directive[t]
    BY <1>6 DEF OnlyAt
  <2>2. SlotOK(t) /\ Typed
    BY DEF IInv, SlotOK
  <2>3. (Shape(t) => Shape(t)') /\ (ClosingSlot(t) => ClosingSlot(t)')
        /\ (OpenSlot(t) /\ directive'[t] # "stop" => OpenSlot(t)')
    <3>1. \A r \in Requests :
            /\ Owns(r, t) => Owns(r, t)' /\ (Started(r) => Started(r)')
            /\ retirements'[r] = "continue" /\ Owns(r, t)' => retirements[r] = "continue" /\ Owns(r, t)
      BY <1>5
    <3> QED
      BY <3>1, <2>1, <2>2, SlotSame
  <2>4. OpenSlot(t) => directive[t] # "stop"
    BY DEF OpenSlot
  <2> QED
    BY <1>5, <2>1, <2>2, <2>3, <2>4 DEF SlotOK
<1>7. Closing => ClosingBooks'
  BY <1>1 DEF IInv, ClosingBooks, Started, coreVars, admissionVars
<1> QED
  BY <1>2, <1>3, <1>4, <1>5, <1>6, <1>7 DEF IInv, SlotOK

\* What is known of a worker and its channels before it makes a step.
LEMMA WorkerKnown ==
  ASSUME IInv, NEW s \in Slots
  PROVE  /\ worker[s] \in WorkerState
         /\ work[s] \in [req : Requests \cup {NoRequest}, fresh : BOOLEAN]
         /\ reply[s] \in {"none", "ok", "err"}
         /\ events[s] \in Seq(Event) /\ Len(events[s]) \in Nat
         /\ WorkerTypes /\ SlotOK(s)
         /\ Serving(s) => worker[s].req \in Requests
         /\ work[s] # NoWork => work[s].req \in Requests
         /\ worker[s].pc \in AtIO => events[s] = <<>> /\ reply[s] = "none"
         /\ worker[s].pc \in Waits /\ reply[s] # "none" => events[s] = <<>>
<1>1. WorkerTypes /\ SlotOK(s)
  BY DEF IInv, Typed, TypeOK, WorkerTypes, WorkerState, SlotOK
<1>2. events[s] # <<>> => events[s][1] \in Event /\ Sent(s, events[s][1])
  <2>1. events[s] \in Seq(Event)
    BY <1>1 DEF WorkerTypes
  <2>2. events[s] # <<>> => 1 \in 1 .. Len(events[s]) /\ events[s][1] \in Event
    BY <2>1
  <2> QED
    BY <1>1, <2>2 DEF SlotOK, Shape
<1>3. worker[s].pc \in AtIO => events[s] = <<>> /\ reply[s] = "none"
  BY <1>1, <1>2 DEF AtIO, Waits, Sent, SentBy, Reports, Event, Follows, SlotOK, Shape, WorkerTypes
<1>4. worker[s].pc \in Waits /\ reply[s] # "none" => events[s] = <<>>
  BY <1>1, <1>2 DEF Waits, Sent, SentBy, Reports, Event
<1> QED
  BY <1>1, <1>3, <1>4 DEF WorkerTypes

\* What an empty channel says once one event is in it.
LEMMA FirstEvent ==
  ASSUME Typed, NEW s \in Slots, NEW e \in Event, Emit(s, e), events[s] = <<>>, SentBy(worker'[s], reply'[s], e)
  PROVE  /\ Ev(s)' = e /\ Len(events[s])' <= 1 /\ events'[s] # <<>>
         /\ \A i \in 1 .. Len(events'[s]) : Sent(s, events[s][i])'
  BY Added DEF Ev, Sent

\* A worker that writes its own state, and its channels.
LEMMA WorkerWrites ==
  ASSUME IInv, NEW s \in Slots, NEW x \in WorkerState, NEW w, NEW a,
         worker' = [worker EXCEPT ![s] = x],
         work' = [work EXCEPT ![s] = w], w \in {work[s], NoWork},
         reply' = [reply EXCEPT ![s] = a], a \in {reply[s], "none"},
         events' \in [Slots -> Seq(Event)], \A t \in Slots : t # s => events'[t] = events[t],
         x.pc \in AtIO \cup Waits => x.req \in Requests,
         FromWorker
  PROVE  /\ OnlyAt(s) /\ WorkerTypes'
         /\ worker'[s] = x /\ work'[s] = w /\ reply'[s] = a
         /\ UNCHANGED <<ownership, req, retirements, alive, directive>> /\ Closing' = Closing
<1>1. /\ worker \in [Slots -> WorkerState]
      /\ work \in [Slots -> [req : Requests \cup {NoRequest}, fresh : BOOLEAN]]
      /\ reply \in [Slots -> {"none", "ok", "err"}]
  BY WorkerKnown DEF WorkerTypes
<1>2. worker'[s] = x /\ work'[s] = w /\ reply'[s] = a
  BY <1>1
<1>3. \A t \in Slots : t # s => worker'[t] = worker[t] /\ work'[t] = work[t] /\ reply'[t] = reply[t]
  BY <1>1
<1>4. OnlyAt(s)
  BY <1>3 DEF OnlyAt, FromWorker
<1>5. w \in [req : Requests \cup {NoRequest}, fresh : BOOLEAN] /\ a \in {"none", "ok", "err"}
  <2>1. NoWork \in [req : Requests \cup {NoRequest}, fresh : BOOLEAN]
    BY DEF NoWork
  <2>2. work[s] \in [req : Requests \cup {NoRequest}, fresh : BOOLEAN]
    BY <1>1
  <2>3. reply[s] \in {"none", "ok", "err"}
    BY <1>1
  <2> QED
    BY <2>1, <2>2, <2>3
<1>6. /\ worker' \in [Slots -> WorkerState]
      /\ work' \in [Slots -> [req : Requests \cup {NoRequest}, fresh : BOOLEAN]]
      /\ reply' \in [Slots -> {"none", "ok", "err"}]
  BY <1>1, <1>5
<1>7. ASSUME NEW t \in Slots
      PROVE  (Serving(t)' => worker'[t].req \in Requests) /\ (work'[t] # NoWork => work'[t].req \in Requests)
  <2>1. (Serving(t) => worker[t].req \in Requests) /\ (work[t] # NoWork => work[t].req \in Requests)
    BY WorkerKnown
  <2> QED
    BY <1>2, <1>3, <2>1 DEF Serving
<1> QED
  BY <1>2, <1>4, <1>6, <1>7 DEF WorkerTypes, FromWorker, admissionVars, coreVars, Closing, Closed

\* A worker that is told to stop (stop_slot).
LEMMA WorkerStopsKeeps == ASSUME IInv, NEW s \in Slots, WorkerStops(s) PROVE IInv'
<1>1. Closing /\ worker[s].pc = "idle" /\ SlotOK(s)
  BY WorkerKnown DEF WorkerStops, SlotOK, OpenSlot
<1> DEFINE e == [type |-> "Stopped", ok |-> TRUE]
           x == [worker[s] EXCEPT !.pc = "stopped", !.up = FALSE,
                                  !.gen = IF worker[s].up THEN @ + 1 ELSE @]
<1>2. e \in Event /\ Typed /\ Emit(s, e)
  BY DEF Event, WorkerStops, IInv
<1>3. x \in WorkerState /\ x.pc = "stopped"
  <2>1. worker[s] \in WorkerState
    BY WorkerKnown
  <2>2. worker[s].gen + 1 \in Nat \ {0}
    BY <2>1 DEF WorkerState
  <2>3. (IF worker[s].up THEN worker[s].gen + 1 ELSE worker[s].gen) \in Nat \ {0}
    BY <2>1, <2>2 DEF WorkerState
  <2> QED
    BY <2>1, <2>3 DEF WorkerState
<1>4. OnlyAt(s) /\ WorkerTypes' /\ worker'[s] = x /\ work'[s] = work[s] /\ reply'[s] = reply[s]
      /\ UNCHANGED <<ownership, directive>> /\ Closing'
  <2>1. worker' = [worker EXCEPT ![s] = x] /\ work' = [work EXCEPT ![s] = work[s]]
        /\ reply' = [reply EXCEPT ![s] = reply[s]]
    BY WorkerKnown DEF WorkerStops, WorkerTypes
  <2>2. events' \in [Slots -> Seq(Event)] /\ \A t \in Slots : t # s => events'[t] = events[t]
    BY <1>2, Added
  <2>3. FromWorker /\ ~(x.pc \in AtIO \cup Waits)
    BY <1>3 DEF WorkerStops, AtIO, Waits
  <2>4. x \in WorkerState /\ work[s] \in {work[s], NoWork} /\ reply[s] \in {reply[s], "none"}
    BY <1>3
  <2> HIDE DEF x
  <2>5. /\ OnlyAt(s) /\ WorkerTypes'
        /\ worker'[s] = x /\ work'[s] = work[s] /\ reply'[s] = reply[s]
        /\ UNCHANGED <<ownership, req, retirements, alive, directive>> /\ Closing' = Closing
    BY <2>1, <2>2, <2>3, <2>4, WorkerWrites
  <2> QED
    BY <1>1, <2>5
<1>5. Shape(s)'
  <2>1. ASSUME NEW i \in 1 .. Len(events[s]) PROVE events[s][i].type \in {"Retired", "Unstarted"}
    <3>1. events[s][i] \in Event /\ Sent(s, events[s][i])
      BY <1>1, WorkerKnown DEF SlotOK, Shape
    <3> QED
      BY <1>1, <3>1 DEF Event, Sent, SentBy, Reports, Follows
  <2>2. reply[s] = "none"
    BY <1>1, WorkerKnown DEF SlotOK, Shape, Waits
  <2> QED
    BY <1>2, <1>3, <1>4, <2>1, <2>2, Added DEF Shape, Sent, SentBy, Reports
<1>6. ClosingSlot(s)'
  BY <1>1, <1>3, <1>4 DEF SlotOK, ClosingSlot, AtIO, Waits
<1> QED
  BY <1>4, <1>5, <1>6, WorkerFrame DEF SlotOK

\* A worker that reports into an empty channel.
LEMMA WorkerReports ==
  ASSUME IInv, NEW s \in Slots, NEW x \in WorkerState, NEW w, NEW a, NEW e \in Event,
         worker' = [worker EXCEPT ![s] = x],
         work' = [work EXCEPT ![s] = w], w \in {work[s], NoWork},
         reply' = [reply EXCEPT ![s] = a], a = "none",
         Emit(s, e), events[s] = <<>>, SentBy(x, "none", e),
         x.pc \in AtIO \cup Waits => x.req \in Requests,
         FromWorker
  PROVE  /\ OnlyAt(s) /\ WorkerTypes' /\ Shape(s)'
         /\ worker'[s] = x /\ work'[s] = w /\ reply'[s] = "none"
         /\ Ev(s)' = e /\ Len(events[s])' <= 1 /\ events'[s] # <<>>
         /\ UNCHANGED <<ownership, req, retirements, alive, directive>> /\ Closing' = Closing
<1>1. Typed
  BY DEF IInv
<1>2. events' \in [Slots -> Seq(Event)] /\ \A t \in Slots : t # s => events'[t] = events[t]
  BY <1>1, Added
<1>3. /\ OnlyAt(s) /\ WorkerTypes'
      /\ worker'[s] = x /\ work'[s] = w /\ reply'[s] = a
      /\ UNCHANGED <<ownership, req, retirements, alive, directive>> /\ Closing' = Closing
  BY <1>2, WorkerWrites, ZenonT(40)
<1>4. /\ Ev(s)' = e /\ Len(events[s])' <= 1 /\ events'[s] # <<>>
      /\ \A i \in 1 .. Len(events'[s]) : Sent(s, events[s][i])'
  BY <1>1, <1>3, FirstEvent
<1>5. Shape(s)'
  BY <1>3, <1>4 DEF Shape, Sent
<1> QED
  BY <1>3, <1>4, <1>5

\* A worker takes up a piece of work (execute_work).
LEMMA WorkerTakesKeeps == ASSUME IInv, NEW s \in Slots, WorkerTakes(s) PROVE IInv'
<1> DEFINE r == work[s].req
<1>1. /\ worker[s].pc = "idle" /\ work[s] # NoWork /\ work' = [work EXCEPT ![s] = NoWork]
      /\ r \in Requests /\ FromWorker /\ UNCHANGED reply /\ SlotOK(s) /\ reply[s] = "none"
      /\ Typed /\ worker[s] \in WorkerState
  BY WorkerKnown DEF WorkerTakes, SlotOK, Shape, Waits, IInv
<1>2. UNCHANGED reply => reply' = [reply EXCEPT ![s] = "none"]
  BY <1>1, WorkerKnown DEF WorkerTypes
<1>3. CASE directive[s] \in {"stop", r}
  <2> DEFINE e == [type |-> "Unstarted", req |-> r]
  <2>1. Emit(s, e) /\ UNCHANGED worker /\ e \in Event
    BY <1>1, <1>3 DEF WorkerTakes, Event
  <2>2. events' \in [Slots -> Seq(Event)] /\ \A t \in Slots : t # s => events'[t] = events[t]
    BY <1>1, <2>1, Added
  <2>3. worker' = [worker EXCEPT ![s] = worker[s]]
    BY <2>1, WorkerKnown DEF WorkerTypes
  <2>4. ~(worker[s].pc \in AtIO \cup Waits)
    BY <1>1 DEF AtIO, Waits
  <2>5. /\ OnlyAt(s) /\ WorkerTypes'
        /\ worker'[s] = worker[s] /\ work'[s] = NoWork /\ reply'[s] = "none"
        /\ UNCHANGED <<ownership, req, retirements, alive, directive>> /\ Closing' = Closing
    BY <1>1, <1>2, <2>2, <2>3, <2>4, WorkerWrites
  <2>6. Shape(s)'
    <3>1. \A i \in 1 .. Len(events'[s]) :
             events'[s][i] = e \/ (i \in 1 .. Len(events[s]) /\ events'[s][i] = events[s][i])
      <4>1. Len(events[s]) \in Nat
        BY WorkerKnown
      <4>2. /\ Len(events'[s]) = Len(events[s]) + 1
            /\ \A i \in 1 .. Len(events'[s]) :
                  events'[s][i] = IF i = Len(events[s]) + 1 THEN e ELSE events[s][i]
        BY <1>1, <2>1, Added
      <4> QED
        BY <4>1, <4>2
    <3>2. ASSUME NEW i \in 1 .. Len(events'[s]) PROVE Sent(s, events[s][i])'
      <4>1. SentBy(worker[s], "none", events'[s][i])
        BY <1>1, <3>1 DEF SlotOK, Shape, Sent, SentBy, Reports
      <4> QED
        BY <2>5, <4>1 DEF Sent
    <3>3. ASSUME NEW i \in 1 .. Len(events'[s]) PROVE events'[s][i].type \notin Reports
      <4>1. ASSUME NEW j \in 1 .. Len(events[s]) PROVE events[s][j].type \notin Reports
        <5>1. events[s][j] \in Event /\ Sent(s, events[s][j])
          BY <1>1, WorkerKnown DEF SlotOK, Shape
        <5> QED
          BY <1>1, <5>1 DEF Sent, SentBy, Reports, Event, Follows
      <4> QED
        BY <3>1, <4>1 DEF Reports
    <3> QED
      BY <2>5, <3>2, <3>3 DEF Shape
  <2>7. ~Closing => OpenSlot(s)'
    <3> SUFFICES ASSUME ~Closing PROVE OpenSlot(s)'
      OBVIOUS
    <3>1. OpenSlot(s) /\ events[s] = <<>> /\ Owns(r, s)
      BY <1>1 DEF SlotOK, OpenSlot
    <3>2. Ev(s)' = e /\ Len(events[s])' <= 1
      BY <1>1, <2>1, <3>1, Added DEF Ev
    <3> QED
      BY <1>1, <2>4, <2>5, <3>1, <3>2 DEF OpenSlot, Owns, Settled, Serving
  <2>8. Closing => ClosingSlot(s)'
    BY <1>1, <2>4, <2>5 DEF ClosingSlot, AtIO, Waits
  <2> QED
    BY <2>5, <2>6, <2>7, <2>8, WorkerFrame DEF SlotOK
<1>4. CASE directive[s] \notin {"stop", r}
  <2>1. ~Closing /\ OpenSlot(s) /\ events[s] = <<>> /\ Owns(r, s)
    BY <1>1, <1>4 DEF SlotOK, ClosingSlot, OpenSlot
  <2>2. ~work[s].fresh => worker[s].left - 1 \in Nat /\ Started(r)
    BY <1>1, <2>1 DEF OpenSlot, WorkerState
  <2>3. \A q \in Requests : retirements[q] = "continue" => ~Owns(q, s)
    BY <1>1, <2>1 DEF OpenSlot
  <2>4. CASE worker[s].up
    <3> DEFINE x == [worker[s] EXCEPT !.pc = "Sending", !.req = r]
               e == [type |-> "Transition", req |-> r, to |-> "Sending", wire |-> Wire(worker[s].gen, "business")]
    <3>1. x \in WorkerState /\ x.pc = "Sending" /\ x.req = r /\ x.gen = worker[s].gen /\ x.left = worker[s].left
      BY <1>1 DEF WorkerState, Waits
    <3>2. worker' = [worker EXCEPT ![s] = x] /\ worker'[s] = x
      BY <1>1, <1>4, <2>4, WorkerKnown DEF WorkerTakes, WorkerTypes
    <3>3. e \in Event /\ Emit(s, e)
      BY <1>1, <1>4, <2>4, <3>1, <3>2 DEF WorkerTakes, Transition, Event, Follows, Wire, WireType, WorkerState
    <3>4. SentBy(x, "none", e)
      BY <1>1, <3>1 DEF SentBy, Reports
    <3> HIDE DEF x, e
    <3>5. /\ OnlyAt(s) /\ WorkerTypes' /\ Shape(s)'
          /\ worker'[s] = x /\ work'[s] = NoWork /\ reply'[s] = "none"
          /\ Ev(s)' = e /\ Len(events[s])' <= 1 /\ events'[s] # <<>>
          /\ UNCHANGED <<ownership, req, retirements, alive, directive>> /\ Closing' = Closing
      BY <1>1, <1>2, <2>1, <3>1, <3>2, <3>3, <3>4, WorkerReports
    <3>6. OpenSlot(s)'
      BY <2>1, <2>3, <3>1, <3>5 DEF e, OpenSlot, Owns, Settled, Serving, AtIO
    <3> QED
      BY <2>1, <3>5, <3>6, WorkerFrame DEF SlotOK
  <2>5. CASE ~worker[s].up /\ work[s].fresh /\ r \notin elapsed
    <3> DEFINE x == [worker[s] EXCEPT !.pc = "Connecting", !.req = r, !.left = Endpoints - 1]
               e == [type |-> "Transition", req |-> r, to |-> "Connecting", wire |-> Wire(worker[s].gen, "none")]
    <3>1. x \in WorkerState /\ x.pc = "Connecting" /\ x.req = r /\ x.gen = worker[s].gen
      <4>1. Endpoints - 1 \in Nat
        BY AttemptsAssumption
      <4> QED
        BY <1>1, <4>1 DEF WorkerState, Waits
    <3>2. worker' = [worker EXCEPT ![s] = x] /\ worker'[s] = x
      BY <1>1, <1>4, <2>5, WorkerKnown DEF WorkerTakes, WorkerTypes
    <3>3. e \in Event /\ Emit(s, e)
      BY <1>1, <1>4, <2>5, <3>1, <3>2 DEF WorkerTakes, Transition, Event, Follows, Wire, WireType, WorkerState
    <3>4. SentBy(x, "none", e)
      BY <1>1, <3>1 DEF SentBy, Reports
    <3> HIDE DEF x, e
    <3>5. /\ OnlyAt(s) /\ WorkerTypes' /\ Shape(s)'
          /\ worker'[s] = x /\ work'[s] = NoWork /\ reply'[s] = "none"
          /\ Ev(s)' = e /\ Len(events[s])' <= 1 /\ events'[s] # <<>>
          /\ UNCHANGED <<ownership, req, retirements, alive, directive>> /\ Closing' = Closing
      BY <1>1, <1>2, <2>1, <3>1, <3>2, <3>3, <3>4, WorkerReports
    <3>6. OpenSlot(s)'
      BY <2>1, <2>3, <3>1, <3>5 DEF e, OpenSlot, Owns, Settled, Serving, AtIO
    <3> QED
      BY <2>1, <3>5, <3>6, WorkerFrame DEF SlotOK
  <2>6. CASE ~worker[s].up /\ ~work[s].fresh /\ r \notin elapsed
    <3> DEFINE x == [worker[s] EXCEPT !.pc = "connecting", !.req = r, !.left = @ - 1]
    <3>1. x \in WorkerState /\ x.pc = "connecting" /\ x.req = r
      BY <1>1, <2>2, <2>6 DEF WorkerState, AtIO
    <3>2. worker' = [worker EXCEPT ![s] = x] /\ UNCHANGED events
      BY <1>1, <1>4, <2>6, WorkerKnown DEF WorkerTakes, WorkerTypes
    <3> HIDE DEF x
    <3>3. /\ OnlyAt(s) /\ WorkerTypes'
          /\ worker'[s] = x /\ work'[s] = NoWork /\ reply'[s] = "none"
          /\ UNCHANGED <<ownership, req, retirements, alive, directive>> /\ Closing' = Closing
      BY <1>1, <1>2, <3>1, <3>2, WorkerKnown, WorkerWrites DEF WorkerTypes
    <3>4. Shape(s)'
      BY <2>1, <3>2, <3>3 DEF Shape
    <3>5. OpenSlot(s)'
      BY <2>1, <2>2, <2>3, <2>6, <3>1, <3>2, <3>3 DEF OpenSlot, Owns, Started, Settled, Serving, AtIO
    <3> QED
      BY <2>1, <3>3, <3>4, <3>5, WorkerFrame DEF SlotOK
  <2>7. CASE ~worker[s].up /\ r \in elapsed
    <3> DEFINE x == [worker[s] EXCEPT !.pc = "stopped"]
               e == [type |-> "Stopped", ok |-> FALSE]
    <3>1. x \in WorkerState /\ x.pc = "stopped"
      BY <1>1 DEF WorkerState
    <3>2. worker' = [worker EXCEPT ![s] = x] /\ worker'[s] = x
      BY <1>1, <1>4, <2>7, WorkerKnown DEF WorkerTakes, WorkerTypes
    <3>3. e \in Event /\ Emit(s, e)
      BY <1>1, <1>4, <2>7 DEF WorkerTakes, Event
    <3>4. SentBy(x, "none", e) /\ ~(x.pc \in AtIO \cup Waits)
      BY <3>1, <3>2 DEF Sent, SentBy, Reports, AtIO, Waits
    <3> HIDE DEF x, e
    <3>5. /\ OnlyAt(s) /\ WorkerTypes' /\ Shape(s)'
          /\ worker'[s] = x /\ work'[s] = NoWork /\ reply'[s] = "none"
          /\ Ev(s)' = e /\ Len(events[s])' <= 1 /\ events'[s] # <<>>
          /\ UNCHANGED <<ownership, req, retirements, alive, directive>> /\ Closing' = Closing
      BY <1>1, <1>2, <2>1, <3>1, <3>2, <3>3, <3>4, WorkerReports
    <3>6. OpenSlot(s)'
      BY <1>1, <2>1, <2>3, <3>1, <3>4, <3>5 DEF e, OpenSlot, Owns, Settled, Serving, AtIO
    <3> QED
      BY <2>1, <3>5, <3>6, WorkerFrame DEF SlotOK
  <2> QED
    BY <1>4, <2>4, <2>5, <2>6, <2>7 DEF WorkerTakes
<1> QED
  BY <1>3, <1>4

\* A worker at an I/O step reports how it went.
LEMMA IOReports ==
  ASSUME IInv, NEW s \in Slots, worker[s].pc \in AtIO,
         NEW x \in WorkerState, NEW e \in Event,
         worker' = [worker EXCEPT ![s] = x], UNCHANGED <<work, reply>>, Emit(s, e), FromWorker,
         x.pc \in Waits, x.req = worker[s].req, x.left = worker[s].left,
         e.type \in Reports, e.req = worker[s].req,
         SentBy(x, "none", e)
  PROVE  IInv'
<1>1. /\ events[s] = <<>> /\ reply[s] = "none" /\ SlotOK(s) /\ worker[s].req \in Requests
      /\ work' = [work EXCEPT ![s] = work[s]] /\ reply' = [reply EXCEPT ![s] = "none"]
  BY WorkerKnown DEF WorkerTypes, Serving
<1>2. /\ OnlyAt(s) /\ WorkerTypes' /\ Shape(s)'
      /\ worker'[s] = x /\ work'[s] = work[s] /\ reply'[s] = "none"
      /\ Ev(s)' = e /\ Len(events[s])' <= 1 /\ events'[s] # <<>>
      /\ UNCHANGED <<ownership, req, retirements, alive, directive>> /\ Closing' = Closing
  BY <1>1, WorkerReports
<1>3. ~Closing => OpenSlot(s)'
  <2> SUFFICES ASSUME ~Closing PROVE OpenSlot(s)'
    OBVIOUS
  <2>1. /\ OpenSlot(s) /\ work[s] = NoWork
        /\ Owns(worker[s].req, s) /\ Started(worker[s].req)
    BY <1>1 DEF SlotOK, OpenSlot, Settled, Serving, AtIO
  <2>2. x.pc \notin {"idle", "stopped"}
    BY DEF Waits
  <2>3. \A r \in Requests : (Owns(r, s)' <=> Owns(r, s)) /\ (Started(r)' <=> Started(r))
    BY <1>2 DEF Owns, Started
  <2> QED
    BY <1>1, <1>2, <2>1, <2>2, <2>3 DEF OpenSlot
<1>4. Closing => ClosingSlot(s)'
  BY <1>1, <1>2 DEF SlotOK, ClosingSlot, AtIO, Waits
<1> QED
  BY <1>2, <1>3, <1>4, WorkerFrame DEF SlotOK

\* A worker drops its connection and reports the generation's end.
LEMMA Retires ==
  ASSUME IInv, NEW s \in Slots, worker[s].pc \in AtIO \cup Waits, events[s] = <<>>,
         ~Closing => ~Settled(s) /\ Started(worker[s].req),
         RetireWire(s), UNCHANGED work, reply' = [reply EXCEPT ![s] = "none"], FromWorker
  PROVE  IInv'
<1> DEFINE x == [worker[s] EXCEPT !.pc = "idle", !.req = NoRequest, !.up = FALSE, !.gen = @ + 1]
           e == [type |-> "Retired", req |-> worker[s].req, gen |-> worker[s].gen]
<1>1. /\ SlotOK(s) /\ worker[s].req \in Requests /\ worker[s] \in WorkerState
      /\ work' = [work EXCEPT ![s] = work[s]]
  BY WorkerKnown DEF WorkerTypes, Serving
<1>2. x \in WorkerState /\ x.pc = "idle" /\ x.left = worker[s].left
  <2>1. worker[s].gen + 1 \in Nat \ {0}
    BY <1>1 DEF WorkerState
  <2> QED
    BY <1>1, <2>1 DEF WorkerState
<1>3. worker' = [worker EXCEPT ![s] = x] /\ Emit(s, e)
  BY WorkerKnown DEF RetireWire, WorkerTypes
<1>4. e \in Event /\ e.type = "Retired" /\ e.req = worker[s].req
  BY <1>1 DEF Event, WorkerState
<1>5. SentBy(x, "none", e) /\ ~(x.pc \in AtIO \cup Waits)
  BY <1>2, <1>4 DEF SentBy, Reports, AtIO, Waits
<1> HIDE DEF x, e
<1>6. /\ OnlyAt(s) /\ WorkerTypes' /\ Shape(s)'
      /\ worker'[s] = x /\ work'[s] = work[s] /\ reply'[s] = "none"
      /\ Ev(s)' = e /\ Len(events[s])' <= 1 /\ events'[s] # <<>>
      /\ UNCHANGED <<ownership, req, retirements, alive, directive>> /\ Closing' = Closing
  BY <1>1, <1>2, <1>3, <1>4, <1>5, WorkerReports
<1>7. ~Closing => OpenSlot(s)'
  <2> SUFFICES ASSUME ~Closing PROVE OpenSlot(s)'
    OBVIOUS
  <2>1. /\ OpenSlot(s) /\ work[s] = NoWork
        /\ Owns(worker[s].req, s) /\ Started(worker[s].req)
    BY <1>1 DEF SlotOK, OpenSlot, Serving
  <2>2. \A r \in Requests : (Owns(r, s)' <=> Owns(r, s)) /\ (Started(r)' <=> Started(r))
    BY <1>6 DEF Owns, Started
  <2> QED
    BY <1>1, <1>2, <1>4, <1>5, <1>6, <2>1, <2>2 DEF OpenSlot, Serving
<1>8. Closing => ClosingSlot(s)'
  BY <1>1, <1>5, <1>6 DEF SlotOK, ClosingSlot
<1> QED
  BY <1>6, <1>7, <1>8, WorkerFrame DEF SlotOK

\* An I/O step that succeeds.
LEMMA WorkerIOKeeps == ASSUME IInv, NEW s \in Slots, WorkerIO(s) PROVE IInv'
<1> DEFINE x(pc) == [worker[s] EXCEPT !.pc = pc]
           t(to, msg) == [type |-> "Transition", req |-> worker[s].req, to |-> to,
                          wire |-> Wire(worker[s].gen, msg)]
           b(type) == [type |-> type, req |-> worker[s].req, wire |-> Wire(worker[s].gen, "business")]
<1>1. /\ worker[s].pc \in AtIO /\ UNCHANGED <<work, reply>> /\ FromWorker
      /\ worker[s] \in WorkerState /\ worker[s].req \in Requests
      /\ worker \in [Slots -> WorkerState]
  BY WorkerKnown DEF WorkerIO, Serving, WorkerTypes
<1>2. \A m \in {"none", "handshake", "business"} : Wire(worker[s].gen, m) \in WireType
  BY <1>1 DEF Wire, WireType, WorkerState
<1>3. CASE worker[s].pc = "connecting"
  <2> DEFINE y == [worker[s] EXCEPT !.pc = "Handshaking", !.up = TRUE]
             e == t("Handshaking", "handshake")
  <2>1. /\ y \in WorkerState /\ y.pc = "Handshaking" /\ y.req = worker[s].req
        /\ y.left = worker[s].left /\ y.gen = worker[s].gen
    BY <1>1 DEF WorkerState, Waits
  <2>2. worker' = [worker EXCEPT ![s] = y] /\ worker'[s] = y
    BY <1>1, <1>3 DEF WorkerIO
  <2>3. Emit(s, e) /\ e \in Event
    BY <1>1, <1>2, <1>3, <2>1, <2>2 DEF WorkerIO, Transition, Event, Follows
  <2>4. SentBy(y, "none", e) /\ e.type \in Reports /\ e.req = worker[s].req /\ y.pc \in Waits
    BY <2>1 DEF SentBy, Reports, Waits
  <2> HIDE DEF y, e
  <2> QED
    BY <1>1, <2>1, <2>2, <2>3, <2>4, IOReports
<1>4. CASE worker[s].pc = "handshaking"
  <2> DEFINE y == [worker[s] EXCEPT !.pc = "Sending"]
             e == t("Sending", "business")
  <2>1. /\ y \in WorkerState /\ y.pc = "Sending" /\ y.req = worker[s].req
        /\ y.left = worker[s].left /\ y.gen = worker[s].gen
    BY <1>1 DEF WorkerState, Waits
  <2>2. worker' = [worker EXCEPT ![s] = y] /\ worker'[s] = y
    BY <1>1, <1>4 DEF WorkerIO
  <2>3. Emit(s, e) /\ e \in Event
    BY <1>1, <1>2, <1>4, <2>1, <2>2 DEF WorkerIO, Transition, Event, Follows
  <2>4. SentBy(y, "none", e) /\ e.type \in Reports /\ e.req = worker[s].req /\ y.pc \in Waits
    BY <2>1 DEF SentBy, Reports, Waits
  <2> HIDE DEF y, e
  <2> QED
    BY <1>1, <2>1, <2>2, <2>3, <2>4, IOReports
<1>5. CASE worker[s].pc = "finishing"
  <2> DEFINE y == [worker[s] EXCEPT !.pc = "WaitingResponse"]
             e == t("WaitingResponse", "business")
  <2>1. /\ y \in WorkerState /\ y.pc = "WaitingResponse" /\ y.req = worker[s].req
        /\ y.left = worker[s].left /\ y.gen = worker[s].gen
    BY <1>1 DEF WorkerState, Waits
  <2>2. worker' = [worker EXCEPT ![s] = y] /\ worker'[s] = y
    BY <1>1, <1>5 DEF WorkerIO
  <2>3. Emit(s, e) /\ e \in Event
    BY <1>1, <1>2, <1>5, <2>1, <2>2 DEF WorkerIO, Transition, Event, Follows
  <2>4. SentBy(y, "none", e) /\ e.type \in Reports /\ e.req = worker[s].req /\ y.pc \in Waits
    BY <2>1 DEF SentBy, Reports, Waits
  <2> HIDE DEF y, e
  <2> QED
    BY <1>1, <2>1, <2>2, <2>3, <2>4, IOReports
<1>6. ASSUME NEW pc \in {"writing", "reading"}, NEW type \in {"Bytes", "Completed"},
             worker[s].pc = pc, pc = "writing" <=> type = "Bytes"
      PROVE  IInv'
  <2> DEFINE y == [worker[s] EXCEPT !.pc = type]
             e == b(type)
  <2>1. /\ y \in WorkerState /\ y.pc = type /\ y.req = worker[s].req
        /\ y.left = worker[s].left /\ y.gen = worker[s].gen
    BY <1>1, <1>6 DEF WorkerState, Waits
  <2>2. worker' = [worker EXCEPT ![s] = y] /\ worker'[s] = y
    BY <1>1, <1>6 DEF WorkerIO
  <2>3. Emit(s, e) /\ e \in Event
    BY <1>1, <1>2, <1>6 DEF WorkerIO, Event
  <2>4. SentBy(y, "none", e) /\ e.type \in Reports /\ e.req = worker[s].req /\ y.pc \in Waits
    BY <1>6, <2>1 DEF SentBy, Reports, Waits
  <2> HIDE DEF y, e
  <2> QED
    BY <1>1, <1>6, <2>1, <2>2, <2>3, <2>4, IOReports
<1> QED
  BY <1>1, <1>3, <1>4, <1>5, <1>6 DEF AtIO

\* An I/O step that fails.
LEMMA WorkerIOFailsKeeps == ASSUME IInv, NEW s \in Slots, WorkerIOFails(s) PROVE IInv'
<1> DEFINE y == [worker[s] EXCEPT !.pc = "Failed"]
           e == [type |-> "Failed", req |-> worker[s].req,
                 wire |-> Wire(worker[s].gen, Msg(worker[s].pc)),
                 same |-> worker[s].pc = "connecting" /\ worker[s].left > 0]
<1>1. /\ worker[s].pc \in AtIO /\ UNCHANGED <<work, reply>> /\ FromWorker
      /\ worker[s] \in WorkerState /\ worker[s].req \in Requests
      /\ worker \in [Slots -> WorkerState]
  BY WorkerKnown DEF WorkerIOFails, Serving, WorkerTypes
<1>2. Wire(worker[s].gen, Msg(worker[s].pc)) \in WireType
  BY <1>1 DEF Wire, Msg, WireType, WorkerState
<1>3. y \in WorkerState /\ y.pc = "Failed" /\ y.req = worker[s].req /\ y.left = worker[s].left
  BY <1>1 DEF WorkerState, Waits
<1>4. worker' = [worker EXCEPT ![s] = y] /\ Emit(s, e)
  BY <1>1 DEF WorkerIOFails
<1>5. e \in Event
  <2>1. (worker[s].pc = "connecting" /\ worker[s].left > 0) \in BOOLEAN
    OBVIOUS
  <2> QED
    BY <1>1, <1>2, <2>1 DEF Event
<1>6. SentBy(y, "none", e) /\ e.type \in Reports /\ e.req = worker[s].req /\ y.pc \in Waits
  BY <1>3 DEF SentBy, Reports, Waits
<1> HIDE DEF y, e
<1> QED
  BY <1>1, <1>3, <1>4, <1>5, <1>6, IOReports

\* A worker interrupted at an I/O step (wait_for_interrupt).
LEMMA WorkerInterruptedKeeps == ASSUME IInv, NEW s \in Slots, WorkerInterrupted(s) PROVE IInv'
<1>1. /\ worker[s].pc \in AtIO /\ events[s] = <<>> /\ SlotOK(s)
      /\ reply' = [reply EXCEPT ![s] = "none"]
  BY WorkerKnown DEF WorkerInterrupted, WorkerTypes
<1>2. ~Closing => ~Settled(s) /\ Started(worker[s].req)
  BY <1>1 DEF SlotOK, OpenSlot, Settled, Serving, AtIO
<1> QED
  BY <1>1, <1>2, Retires DEF WorkerInterrupted

\* A worker that has the core's answer.
LEMMA WorkerAnsweredKeeps == ASSUME IInv, NEW s \in Slots, WorkerAnswered(s) PROVE IInv'
<1>1. /\ worker[s].pc \in Waits /\ reply[s] # "none" /\ events[s] = <<>> /\ SlotOK(s)
      /\ reply' = [reply EXCEPT ![s] = "none"] /\ UNCHANGED work /\ FromWorker
      /\ work' = [work EXCEPT ![s] = work[s]]
      /\ worker[s] \in WorkerState /\ worker[s].req \in Requests /\ reply[s] \in {"ok", "err"}
      /\ worker \in [Slots -> WorkerState] /\ events \in [Slots -> Seq(Event)]
  BY WorkerKnown DEF WorkerAnswered, WorkerTypes, Serving
<1>2. CASE reply[s] = "ok" /\ worker[s].pc \notin {"Completed", "Failed"}
  <2>1. PICK pc \in AtIO : worker' = [worker EXCEPT ![s].pc = pc] /\ UNCHANGED events
    BY <1>1, <1>2 DEF WorkerAnswered, Waits, AtIO
  <2> DEFINE x == [worker[s] EXCEPT !.pc = pc]
  <2>2. x \in WorkerState /\ x.pc \in AtIO /\ x.req = worker[s].req /\ x.left = worker[s].left
    BY <1>1, <2>1 DEF WorkerState
  <2>3. worker' = [worker EXCEPT ![s] = x]
    BY <1>1, <2>1
  <2> HIDE DEF x
  <2>4. /\ OnlyAt(s) /\ WorkerTypes'
        /\ worker'[s] = x /\ work'[s] = work[s] /\ reply'[s] = "none"
        /\ UNCHANGED <<ownership, req, retirements, alive, directive>> /\ Closing' = Closing
    BY <1>1, <2>1, <2>2, <2>3, WorkerWrites, ZenonT(40)
  <2>5. Shape(s)' /\ events'[s] = <<>>
    BY <1>1, <2>1, <2>4 DEF Shape
  <2>6. ~Closing => OpenSlot(s)'
    <3> SUFFICES ASSUME ~Closing PROVE OpenSlot(s)'
      OBVIOUS
    <3>1. /\ OpenSlot(s) /\ work[s] = NoWork
          /\ Owns(worker[s].req, s) /\ Started(worker[s].req)
      BY <1>1, <1>2 DEF SlotOK, OpenSlot, Settled, Serving, Waits
    <3>2. \A r \in Requests : (Owns(r, s)' <=> Owns(r, s)) /\ (Started(r)' <=> Started(r))
      BY <2>4 DEF Owns, Started
    <3>3. x.pc \notin {"idle", "stopped"}
      BY <2>2 DEF AtIO
    <3> QED
      BY <1>1, <2>2, <2>4, <2>5, <3>1, <3>2, <3>3 DEF OpenSlot
  <2>7. Closing => ClosingSlot(s)'
    BY <1>1, <1>2, <2>2, <2>4 DEF SlotOK, ClosingSlot, Owns
  <2> QED
    BY <2>4, <2>5, <2>6, <2>7, WorkerFrame DEF SlotOK
<1>3. CASE reply[s] = "ok" /\ worker[s].pc = "Completed"
  <2> DEFINE x == [worker[s] EXCEPT !.pc = "idle", !.req = NoRequest]
  <2>1. x \in WorkerState /\ x.pc = "idle" /\ x.left = worker[s].left
    BY <1>1 DEF WorkerState
  <2>2. worker' = [worker EXCEPT ![s] = x] /\ UNCHANGED events
    BY <1>1, <1>3 DEF WorkerAnswered
  <2>3. ~(x.pc \in AtIO \cup Waits)
    BY <2>1 DEF AtIO, Waits
  <2> HIDE DEF x
  <2>4. /\ OnlyAt(s) /\ WorkerTypes'
        /\ worker'[s] = x /\ work'[s] = work[s] /\ reply'[s] = "none"
        /\ UNCHANGED <<ownership, req, retirements, alive, directive>> /\ Closing' = Closing
    BY <1>1, <2>1, <2>2, <2>3, WorkerWrites
  <2>5. Shape(s)' /\ events'[s] = <<>>
    BY <1>1, <2>2, <2>4 DEF Shape
  <2>6. ~Closing => OpenSlot(s)'
    <3> SUFFICES ASSUME ~Closing PROVE OpenSlot(s)'
      OBVIOUS
    <3>1. OpenSlot(s)
      BY <1>1 DEF SlotOK
    <3>2. \A r \in Requests : /\ Owns(r, s)' <=> Owns(r, s)
                              /\ Started(r)' <=> Started(r)
      BY <2>4 DEF Owns, Started
    <3>3. work[s] # NoWork => work[s].req \in Requests
      BY WorkerKnown
    <3> QED
      BY <1>1, <2>1, <2>3, <2>4, <2>5, <3>1, <3>2, <3>3 DEF OpenSlot, Settled, Serving
  <2>7. Closing => ClosingSlot(s)'
    BY <1>1, <2>3, <2>4 DEF SlotOK, ClosingSlot
  <2> QED
    BY <2>4, <2>5, <2>6, <2>7, WorkerFrame DEF SlotOK
<1>4. CASE (reply[s] = "ok") = (worker[s].pc = "Failed")
  <2>1. RetireWire(s)
    BY <1>1, <1>4 DEF WorkerAnswered
  <2>2. ~Closing => ~Settled(s) /\ Started(worker[s].req)
    BY <1>1, <1>4 DEF SlotOK, OpenSlot, Settled, Serving
  <2> QED
    BY <1>1, <2>1, <2>2, Retires
<1>5. CASE reply[s] = "err" /\ worker[s].pc = "Failed"
  <2> DEFINE x == [worker[s] EXCEPT !.pc = "stopped"]
             e == [type |-> "Stopped", ok |-> FALSE]
  <2>1. x \in WorkerState /\ x.pc = "stopped"
    BY <1>1 DEF WorkerState
  <2>2. worker' = [worker EXCEPT ![s] = x] /\ Emit(s, e) /\ e \in Event
    BY <1>1, <1>5 DEF WorkerAnswered, Event
  <2>3. SentBy(x, "none", e) /\ ~(x.pc \in AtIO \cup Waits)
    BY <2>1 DEF SentBy, Reports, AtIO, Waits
  <2> HIDE DEF x, e
  <2>4. /\ OnlyAt(s) /\ WorkerTypes' /\ Shape(s)'
        /\ worker'[s] = x /\ work'[s] = work[s] /\ reply'[s] = "none"
        /\ Ev(s)' = e /\ Len(events[s])' <= 1 /\ events'[s] # <<>>
        /\ UNCHANGED <<ownership, req, retirements, alive, directive>> /\ Closing' = Closing
    BY <1>1, <2>1, <2>2, <2>3, WorkerReports
  <2>5. Closing
    BY <1>1, <1>5 DEF SlotOK, OpenSlot
  <2>6. ClosingSlot(s)'
    BY <1>1, <2>3, <2>4, <2>5 DEF SlotOK, ClosingSlot
  <2> QED
    BY <2>4, <2>5, <2>6, WorkerFrame DEF SlotOK
<1> QED
  BY <1>1, <1>2, <1>3, <1>4, <1>5

\* Every step of a worker.
LEMMA WorkersKeep == ASSUME IInv, NEW s \in Slots, WorkerStep(s) PROVE IInv'
  BY WorkerStopsKeeps, WorkerTakesKeeps, WorkerIOKeeps, WorkerIOFailsKeeps,
     WorkerInterruptedKeeps, WorkerAnsweredKeeps DEF WorkerStep

-----------------------------------------------------------------------------
(* The core. *)

ReqRecord == [state : States, wire : WireType, shown : WireType,
              attempts : 0 .. MaxAttempts, sent : BOOLEAN,
              intent : {"none", "retry", "terminal"}, failed : BOOLEAN]
Confirmation == {"none", "asked", "held", "confirmed"}
Retirement == {"none", "continue", "retry", "fail", "cancel", "lifecycle"}

CoreTypes ==
    /\ engine \in {"Running", "Closing", "FailedClosing", "Stopped", "FailedClosed"}
    /\ req \in [Requests -> ReqRecord]
    /\ lifecycle \in [Requests -> Results \cup {"none"}]
    /\ retirements \in [Requests -> Retirement]
    /\ answer \in [Requests -> Results \cup {"none"}]
    /\ confirm \in [Requests -> Confirmation]
    /\ inbox \subseteq Requests /\ preCancelled \subseteq Requests
    /\ closeAsked \in BOOLEAN /\ alive \in [Slots -> BOOLEAN]
    /\ work \in [Slots -> [req : Requests \cup {NoRequest}, fresh : BOOLEAN]]
    /\ directive \in [Slots -> {"run", "stop"} \cup Requests]
    /\ \A s \in Slots : work[s] # NoWork => work[s].req \in Requests

\* The core takes one event and may answer it, or takes none.
CoreReads ==
    /\ UNCHANGED worker
    /\ \/ UNCHANGED <<events, reply>>
       \/ \E s \in Slots, type \in {"Retired", "Unstarted", "Stopped"} :
             Took(s, type) /\ UNCHANGED reply
       \/ \E s \in Slots, type \in Reports, a \in {"ok", "err"} :
             Took(s, type) /\ Answered(s, a)

\* What is known of the core before it makes a step.
LEMMA CoreKnown ==
  IInv => /\ CoreTypes /\ Typed /\ QueueInv /\ Books
          /\ \A s \in Slots : SlotOK(s) /\ (~Closing => OpenSlot(s)) /\ (Closing => ClosingSlot(s))
          /\ Closing => ClosingBooks
          /\ DOMAIN req = Requests /\ DOMAIN work = Slots
  BY DEF IInv, CoreTypes, Typed, TypeOK, ReqRecord, Confirmation, Retirement, SlotOK

\* The event at the front, and what is behind it.
LEMMA ShapesKept ==
  ASSUME IInv, CoreReads
  PROVE  /\ events' \in [Slots -> Seq(Event)] /\ reply' \in [Slots -> {"none", "ok", "err"}]
         /\ \A t \in Slots : Shape(t)'
<1>1. Typed /\ events \in [Slots -> Seq(Event)] /\ reply \in [Slots -> {"none", "ok", "err"}]
  BY CoreKnown DEF Typed, TypeOK
<1>2. ASSUME NEW t \in Slots, events'[t] = events[t], reply'[t] = reply[t] PROVE Shape(t)'
  <2>1. Shape(t)
    BY CoreKnown DEF SlotOK
  <2> QED
    BY <1>2, <2>1 DEF CoreReads, Shape, Sent, SentBy
<1>3. ASSUME NEW s \in Slots, NEW type \in {"Retired", "Unstarted", "Stopped"},
             Took(s, type), UNCHANGED reply
      PROVE  /\ events' \in [Slots -> Seq(Event)] /\ reply' \in [Slots -> {"none", "ok", "err"}]
             /\ \A t \in Slots : Shape(t)'
  <2>1. Shape(s)
    BY CoreKnown DEF SlotOK
  <2>2. /\ events' \in [Slots -> Seq(Event)]
        /\ \A t \in Slots : t # s => events'[t] = events[t]
        /\ Len(events'[s]) = Len(events[s]) - 1
        /\ \A i \in 1 .. Len(events'[s]) :
              i + 1 \in 1 .. Len(events[s]) /\ events'[s][i] = events[s][i + 1]
        /\ Len(events[s]) \in Nat
    BY <1>1, <1>3, Taken
  <2>3. ASSUME NEW i \in 1 .. Len(events'[s])
        PROVE  Sent(s, events[s][i])' /\ (events'[s][i].type \in Reports => i = Len(events'[s]))
    <3>1. Sent(s, events[s][i + 1])
          /\ (events[s][i + 1].type \in Reports => i + 1 = Len(events[s]))
      BY <2>1, <2>2 DEF Shape
    <3> QED
      BY <1>3, <2>2, <3>1 DEF Sent, SentBy, CoreReads
  <2>4. Shape(s)'
    BY <1>3, <2>1, <2>3 DEF Shape, CoreReads
  <2> QED
    BY <1>1, <1>2, <1>3, <2>2, <2>4
<1>4. ASSUME NEW s \in Slots, NEW type \in Reports, NEW a \in {"ok", "err"},
             Took(s, type), Answered(s, a)
      PROVE  /\ events' \in [Slots -> Seq(Event)] /\ reply' \in [Slots -> {"none", "ok", "err"}]
             /\ \A t \in Slots : Shape(t)'
  <2>1. /\ events' \in [Slots -> Seq(Event)] /\ Len(events[s]) \in Nat \ {0}
        /\ \A t \in Slots : t # s => events'[t] = events[t]
        /\ Ev(s) = events[s][1] /\ Ev(s).type = type /\ Ev(s) \in Event
        /\ Len(events[s]) <= 1 => events'[s] = <<>>
    BY <1>1, <1>4, Taken
  <2>2. Sent(s, Ev(s)) /\ Len(events[s]) = 1
    <3>1. Shape(s) /\ 1 \in 1 .. Len(events[s])
      BY <2>1, CoreKnown DEF SlotOK
    <3> QED
      BY <1>4, <2>1, <3>1 DEF Shape
  <2>3. worker[s].pc \in Waits
    BY <1>4, <2>1, <2>2 DEF Sent, SentBy, Reports, Waits, Event, Follows
  <2>4. Shape(s)'
    BY <2>1, <2>2, <2>3 DEF Shape, CoreReads
  <2>5. reply' \in [Slots -> {"none", "ok", "err"}] /\ \A t \in Slots : t # s => reply'[t] = reply[t]
    BY <1>1, <1>4 DEF Answered
  <2> QED
    BY <1>2, <2>1, <2>4, <2>5
<1> QED
  BY <1>1, <1>2, <1>3, <1>4 DEF CoreReads

\* What the events at the front say.
LEMMA EventKnown ==
  ASSUME IInv, NEW s \in Slots, NEW type, Took(s, type)
  PROVE  /\ Ev(s) \in Event /\ Ev(s).type = type /\ Sent(s, Ev(s)) /\ ~Closed
         /\ type # "Stopped" => Ev(s).req \in Requests
         /\ \A t \in Slots : t # s => events'[t] = events[t]
         /\ ~Closing => /\ events'[s] = <<>> /\ work[s] = NoWork
                        /\ type # "Stopped" => /\ Owns(Ev(s).req, s) /\ worker[s].pc # "stopped"
                                               /\ type \notin {"Transition", "Unstarted"}
                                                     => Started(Ev(s).req)
<1>1. /\ Ev(s) \in Event /\ Ev(s).type = type /\ Ev(s) = events[s][1] /\ ~Closed
      /\ events[s] # <<>> /\ Len(events[s]) \in Nat \ {0}
      /\ \A t \in Slots : t # s => events'[t] = events[t]
      /\ Len(events[s]) <= 1 => events'[s] = <<>>
  BY CoreKnown, Taken
<1>2. Sent(s, Ev(s))
  BY <1>1, CoreKnown DEF SlotOK, Shape
<1>3. type # "Stopped" => Ev(s).req \in Requests
  BY <1>1 DEF Event
<1>4. ASSUME ~Closing
      PROVE  /\ events'[s] = <<>> /\ work[s] = NoWork
             /\ type # "Stopped" => /\ Owns(Ev(s).req, s) /\ worker[s].pc # "stopped"
                                    /\ type \notin {"Transition", "Unstarted"}
                                          => Started(Ev(s).req)
  <2>1. OpenSlot(s)
    BY <1>4, CoreKnown
  <2> QED
    BY <1>1, <2>1 DEF OpenSlot
<1> QED
  BY <1>1, <1>2, <1>3, <1>4

\* The types after a step of the core, which moves no worker.
LEMMA TypedNext == ASSUME IInv, CoreReads, QueueInv', CoreTypes' PROVE Typed'
<1>1. A!TypeOK'
  BY QueueTypedNext
<1>2. events' \in [Slots -> Seq(Event)] /\ reply' \in [Slots -> {"none", "ok", "err"}]
  BY ShapesKept
<1>3. UNCHANGED worker
  BY DEF CoreReads
<1>4. TypeOK'
  BY <1>1, <1>2, <1>3 DEF IInv, Typed, TypeOK, CoreTypes, ReqRecord, Confirmation, Retirement
<1> QED
  BY <1>2, <1>3, <1>4 DEF IInv, Typed, CoreTypes, Serving

\* A step of the core after which the engine is closing.
LEMMA ClosingKept ==
  ASSUME IInv, CoreReads, QueueInv', CoreTypes', Books', ClosingBooks', Closing',
         \A t \in Slots : ClosingSlot(t)'
  PROVE  IInv'
  BY TypedNext, ShapesKept DEF IInv

\* A step of the core after which the engine is open.
LEMMA OpenKept ==
  ASSUME IInv, CoreReads, QueueInv', CoreTypes', Books', ~Closing',
         \A t \in Slots : OpenSlot(t)'
  PROVE  IInv'
  BY TypedNext, ShapesKept DEF IInv

\* What the callers are told.
Told(conf) ==
    conf \in [Requests -> Confirmation]
    /\ \A r \in Requests : conf[r] = "confirmed" => confirm[r] = "confirmed"

\* What process_notifications leaves behind.
LEMMA Notified ==
  ASSUME IInv, NEW N, DOMAIN N \subseteq Requests, \A r \in DOMAIN N : N[r] \in Results,
         NEW conf, Told(conf), Notify(N, conf)
  PROVE  /\ answer' \in [Requests -> Results \cup {"none"}]
         /\ confirm' \in [Requests -> Confirmation]
         /\ \A r \in Requests :
               /\ r \in DOMAIN N => answer'[r] # "none"
               /\ r \notin DOMAIN N => answer'[r] = answer[r]
               /\ confirm'[r] = "confirmed" => r \in DOMAIN N \/ confirm[r] = "confirmed"
<1>1. answer \in [Requests -> Results \cup {"none"}] /\ "none" \notin Results
  BY CoreKnown DEF CoreTypes, Results
<1>2. conf \in [Requests -> Confirmation] /\ "confirmed" \in Confirmation
  BY DEF Told, Confirmation
<1> QED
  BY <1>1, <1>2 DEF Notify, Told

\* Who owns what, in the tracker's words.
LEMMA OwnersKnown ==
  ASSUME IInv, NEW r \in Requests
  PROVE  /\ ownership[r] \in {A!NoOwner} \cup A!Permit \cup A!Lease
         /\ req[r].state = "Queued" <=> r \in A!Waiters
         /\ req[r].state = "Queued" <=> ownership[r].kind = "permit"
         /\ req[r].state = "Queued" <=> outcome[r] = "queued"
         /\ req[r].state = "Assigned" \/ Started(r) <=> ownership[r].kind = "lease"
         /\ req[r].state = "Assigned" \/ Started(r) <=> outcome[r] = "leased"
         /\ ownership[r].kind = "lease" =>
               ownership[r] \in A!Lease /\ ownership[r].request = r /\ SlotOf(r) \in Slots
         /\ ownership[r].kind \notin {"permit", "lease"} => ownership[r] = A!NoOwner
         /\ r \in inbox => req[r].state = "Absent"
         /\ Started(r) => req[r].state \notin {"Absent", "Queued", "Assigned"}
         /\ req[r].state \in {"Absent", "Queued", "Assigned"} \/ Started(r)
         /\ req[r] \in ReqRecord
<1>1. /\ ownership[r].kind = "permit" => ownership[r] \in A!Permit
      /\ ownership[r].kind = "lease" => ownership[r] \in A!Lease /\ ownership[r].request = r
      /\ ownership[r].kind \notin {"permit", "lease"} => ownership[r] = A!NoOwner
      /\ ownership[r].kind = "permit" <=> r \in A!Waiters
      /\ ownership[r].kind = "permit" <=> outcome[r] = "queued"
      /\ ownership[r].kind = "lease" <=> outcome[r] = "leased"
      /\ ownership[r] \in {A!NoOwner} \cup A!Permit \cup A!Lease
  BY CoreKnown, QueueFacts DEF A!TypeOK
<1>2. /\ ownership[r].kind = "permit" <=> req[r].state = "Queued"
      /\ ownership[r].kind = "lease" <=> req[r].state = "Assigned" \/ Started(r)
      /\ r \in inbox => outcome[r] = "unseen"
  BY CoreKnown DEF Books
<1>3. req[r] \in ReqRecord
  BY CoreKnown DEF CoreTypes
<1>4. /\ Started(r) => req[r].state \notin {"Absent", "Queued", "Assigned"}
      /\ req[r].state \in {"Absent", "Queued", "Assigned"} \/ Started(r)
  BY <1>3 DEF ReqRecord, States, Started, OnWire
<1>5. ownership[r].kind = "lease" => SlotOf(r) \in Slots
  BY <1>1 DEF A!Lease, SlotOf, Slots
<1> QED
  BY <1>1, <1>2, <1>3, <1>4, <1>5

-----------------------------------------------------------------------------
(* The core: close, and the failure of the engine. *)

\* What the queue is after the requests of `gone` left it and it was sealed.
LEMMA QueueShut ==
  ASSUME IInv, NEW gone \in SUBSET Requests, A!Waiters \subseteq gone,
         \A r \in gone : ownership[r].kind \in {"permit", "lease"},
         sealed' = TRUE, idle' = {}, waiting' = {}, pinWaiting' = {},
         ownership' = [r \in Requests |-> IF r \in gone THEN A!NoOwner ELSE ownership[r]],
         activeBySlot' = [s \in Slots |->
            IF \E r \in gone : ownership[r].kind = "lease" /\ SlotOf(r) = s
            THEN 0 ELSE activeBySlot[s]],
         outcome' = [r \in Requests |->
            IF r \in A!Waiters THEN "rejected" ELSE IF r \in gone THEN "released" ELSE outcome[r]],
         UNCHANGED <<epoch, permitCounter, leaseCounter, handles, elapsed>>
  PROVE  QueueInv'
<1>1. AP!Inv /\ AP!TypeOK
  BY CoreKnown DEF QueueInv, AP!Inv
<1>2. /\ A!Waiters = AP!Waiters /\ A!NoOwner = AP!NoOwner /\ Slots = AP!Slots
      /\ A!Permit = AP!Permit /\ A!Lease = AP!Lease
  BY DEF A!Waiters, AP!Waiters, A!NoOwner, AP!NoOwner, A!Slots, AP!Slots, Slots, A!Permit, AP!Permit,
         A!Lease, AP!Lease, A!Id, AP!Id
<1>3. A!NoOwner.kind = "none" /\ A!NoOwner.kind \notin {"permit", "lease"}
  BY DEF A!NoOwner
<1>4. \A r \in Requests :
         /\ ownership[r].kind = "permit" <=> r \in A!Waiters
         /\ ownership'[r].kind # "permit"
         /\ ownership'[r].kind = "lease" => r \notin gone /\ ownership'[r] = ownership[r]
         /\ ownership'[r] # A!NoOwner => r \notin gone /\ ownership'[r] = ownership[r]
  BY <1>3, OwnersKnown
<1>5. AP!TypeOK'
  BY <1>1, <1>2 DEF AP!TypeOK, AP!Outcome
<1>6. AP!LinesHoldPermits'
  BY <1>4 DEF AP!LinesHoldPermits, AP!Waiters
<1>7. AP!Budget'
  <2>1. Cardinality({}) = 0
    BY FS_EmptySet
  <2>2. AP!Cardinality({}) = Cardinality({})
    BY DEF Cardinality, AP!Cardinality
  <2>3. AP!Waiters' = {}
    BY DEF AP!Waiters
  <2> QED
    BY <2>1, <2>2, <2>3, PoolAssumption DEF AP!Budget
<1>8. AP!CounterAhead'
  BY <1>1, <1>4 DEF AP!Inv, AP!CounterAhead
<1>9. AP!SlotsHaveOneOwner'
  <2>1. AP!SlotsHaveOneOwner
    BY <1>1 DEF AP!Inv
  <2>2. ASSUME NEW r \in Requests, ownership'[r].kind = "lease"
        PROVE  /\ activeBySlot'[ownership'[r].slot] = ownership'[r].id
               /\ ownership'[r].request = r
    <3>1. r \notin gone /\ ownership'[r] = ownership[r] /\ SlotOf(r) \in Slots /\ Owns(r, SlotOf(r))
      BY <1>4, <2>2, OwnersKnown DEF Owns, SlotOf
    <3>2. ASSUME NEW q \in gone, ownership[q].kind = "lease", SlotOf(q) = SlotOf(r) PROVE FALSE
      BY <3>1, <3>2, CoreKnown, QueueFacts DEF Owns, SlotOf
    <3> QED
      BY <2>1, <2>2, <3>1, <3>2 DEF AP!SlotsHaveOneOwner, SlotOf
  <2>3. ASSUME NEW s \in AP!Slots, activeBySlot'[s] # 0
        PROVE  \E r \in Requests : ownership'[r].kind = "lease" /\ ownership'[r].slot = s
    <3>1. activeBySlot[s] # 0 /\ ~\E r \in gone : ownership[r].kind = "lease" /\ SlotOf(r) = s
      BY <1>2, <2>3
    <3>2. PICK r \in Requests : ownership[r].kind = "lease" /\ ownership[r].slot = s
      BY <2>1, <3>1 DEF AP!SlotsHaveOneOwner
    <3> QED
      BY <3>1, <3>2 DEF SlotOf
  <2>4. \A q, r \in Requests :
           ownership'[q].kind = "lease" /\ ownership'[r].kind = "lease" /\ ownership'[q].id = ownership'[r].id
           => q = r
    BY <1>4, <2>1 DEF AP!SlotsHaveOneOwner
  <2> QED
    BY <2>2, <2>3, <2>4 DEF AP!SlotsHaveOneOwner, AP!Open
<1>10. AP!NobodyWaitsForAnIdleSlot'
  BY DEF AP!NobodyWaitsForAnIdleSlot
<1>11. AP!PermitsAreOnce'
  <2>1. AP!PermitsAreOnce /\ handles \subseteq AP!Permit \cup AP!Lease
    BY <1>1 DEF AP!Inv, AP!TypeOK
  <2>2. \A h \in handles : outcome'[h.request] # "unseen"
    BY <2>1 DEF AP!PermitsAreOnce, AP!Permit, AP!Lease
  <2> QED
    BY <1>4, <2>1, <2>2 DEF AP!PermitsAreOnce
<1>12. AP!NoOvertaking'
  BY DEF AP!NoOvertaking
<1>13. AP!AnswersMatchOwnership'
  BY <1>3, <1>4, OwnersKnown DEF AP!AnswersMatchOwnership
<1>14. AP!OwnersAreOfThisEpoch'
  BY <1>1, <1>2, <1>4 DEF AP!Inv, AP!OwnersAreOfThisEpoch
<1>15. \A r \in Requests : ownership'[r].kind = "lease" => ownership'[r] \in handles'
  BY <1>4, CoreKnown DEF QueueInv
<1> QED
  BY <1>5, <1>6, <1>7, <1>8, <1>9, <1>10, <1>11, <1>12, <1>13, <1>14, <1>15 DEF QueueInv, AP!Inv

\* A running engine is shut down: what is not on a wire is answered, the rest
\* waits for its generation.
LEMMA ShutsKeeps ==
  ASSUME IInv, ~Closing, Closing', engine' \in {"Closing", "FailedClosing"},
         NEW why \in {"failed", "cancelled"}, NEW joined \in SUBSET Requests,
         \A r \in joined : Started(r) /\ worker[SlotOf(r)].pc = "stopped",
         NEW conf, Told(conf), Shutdown(why, joined, conf), CoreReads,
         \A t \in Slots : reply'[t] = "ok" => reply[t] = "ok",
         UNCHANGED <<work, inbox, closeAsked, preCancelled>>, alive' \in [Slots -> BOOLEAN]
  PROVE  IInv'
<1> DEFINE started == {r \in Requests : Started(r)}
           gone == A!Waiters \cup {r \in Requests : req[r].state = "Assigned"} \cup (started \cap joined)
           held(r) == IF req[r].intent = "terminal" /\ req[r].failed THEN "failed" ELSE why
           N == [r \in gone |-> IF r \in joined THEN held(r) ELSE why]
<1>1. /\ sealed' = TRUE /\ idle' = {} /\ waiting' = {} /\ pinWaiting' = {}
      /\ ownership' = [r \in Requests |-> IF r \in gone THEN A!NoOwner ELSE ownership[r]]
      /\ activeBySlot' = [s \in Slots |->
            IF \E r \in gone : ownership[r].kind = "lease" /\ SlotOf(r) = s
            THEN 0 ELSE activeBySlot[s]]
      /\ outcome' = [r \in Requests |->
            IF r \in A!Waiters THEN "rejected" ELSE IF r \in gone THEN "released" ELSE outcome[r]]
      /\ UNCHANGED <<epoch, permitCounter, leaseCounter, handles, elapsed>>
      /\ Notify(N, conf)
      /\ req' = [r \in Requests |->
            IF r \in gone THEN Absent
            ELSE IF r \in started THEN [req[r] EXCEPT !.intent = "terminal"] ELSE req[r]]
      /\ lifecycle' = [r \in Requests |-> IF r \in started \ joined THEN held(r) ELSE "none"]
      /\ retirements' = [r \in Requests |->
            IF r \in started \ joined THEN "lifecycle"
            ELSE IF r \in joined THEN "none" ELSE retirements[r]]
      /\ directive' = [s \in Slots |-> IF alive[s] THEN "stop" ELSE directive[s]]
  BY DEF Shutdown
<1>2. ASSUME NEW r \in Requests
      PROVE  /\ r \in gone <=> req[r].state \in {"Queued", "Assigned"} \/ (Started(r) /\ r \in joined)
             /\ r \in gone => ownership[r].kind \in {"permit", "lease"}
             /\ r \in gone => r \notin inbox
             /\ held(r) \in Results
             /\ r \notin gone => req[r].state = "Absent" \/ (Started(r) /\ r \notin joined)
  BY OwnersKnown DEF Results
<1>3. /\ gone \in SUBSET Requests /\ A!Waiters \subseteq gone
  <2>1. A!Waiters \subseteq Requests
    BY CoreKnown, QueueFacts DEF A!TypeOK, A!Waiters
  <2> QED
    BY <2>1
<1>4. QueueInv'
  <2> HIDE DEF gone
  <2>1. \A r \in gone : ownership[r].kind \in {"permit", "lease"}
    BY <1>2, <1>3
  <2> QED
    BY <1>1, <1>3, <2>1, QueueShut
<1>5. /\ DOMAIN N \subseteq Requests /\ \A r \in DOMAIN N : N[r] \in Results
      /\ DOMAIN N = gone
  BY <1>2, <1>3 DEF Results
<1>6. /\ answer' \in [Requests -> Results \cup {"none"}]
      /\ confirm' \in [Requests -> Confirmation]
      /\ \A r \in Requests :
            /\ r \in gone => answer'[r] # "none"
            /\ r \notin gone => answer'[r] = answer[r]
            /\ confirm'[r] = "confirmed" => r \in gone \/ confirm[r] = "confirmed"
  <2> HIDE DEF N, gone, held
  <2> QED
    BY <1>1, <1>5, Notified
<1>7. ASSUME NEW r \in Requests
      PROVE  /\ r \in gone => req'[r] = Absent /\ ownership'[r] = A!NoOwner
             /\ r \notin gone => /\ req'[r].state = req[r].state /\ ownership'[r] = ownership[r]
                                 /\ outcome'[r] = outcome[r]
             /\ r \notin gone /\ Started(r) => req'[r].intent = "terminal"
             /\ r \notin gone /\ ~Started(r) => req'[r].intent = req[r].intent
             /\ req'[r] \in ReqRecord
             /\ lifecycle'[r] = IF r \in started \ joined THEN held(r) ELSE "none"
             /\ retirements'[r] = IF r \in started \ joined THEN "lifecycle"
                                  ELSE IF r \in joined THEN "none" ELSE retirements[r]
  <2>1. req[r] \in ReqRecord
    BY OwnersKnown
  <2>2. [req[r] EXCEPT !.intent = "terminal"] \in ReqRecord
        /\ [req[r] EXCEPT !.intent = "terminal"].state = req[r].state
        /\ [req[r] EXCEPT !.intent = "terminal"].intent = "terminal"
    BY <2>1 DEF ReqRecord
  <2>3. Absent \in ReqRecord
    BY AttemptsAssumption DEF Absent, ReqRecord, States, NoWire, WireType
  <2>4. r \in A!Waiters => r \in gone
    OBVIOUS
  <2> HIDE DEF gone, held
  <2> QED
    BY <1>1, <2>1, <2>2, <2>3, <2>4 DEF started
<1>8. CoreTypes'
  <2> HIDE DEF gone, held, started
  <2>1. req' \in [Requests -> ReqRecord]
    BY <1>1, <1>7
  <2>2. lifecycle' \in [Requests -> Results \cup {"none"}]
    BY <1>1, <1>2
  <2>3. retirements' \in [Requests -> Retirement]
    <3>1. retirements \in [Requests -> Retirement]
      BY CoreKnown DEF CoreTypes
    <3> QED
      BY <1>1, <3>1 DEF Retirement
  <2>4. directive' \in [Slots -> {"run", "stop"} \cup Requests]
    <3>1. directive \in [Slots -> {"run", "stop"} \cup Requests]
      BY CoreKnown DEF CoreTypes
    <3> QED
      BY <1>1, <3>1
  <2> QED
    BY <1>6, <2>1, <2>2, <2>3, <2>4, CoreKnown DEF CoreTypes
<1>9. ASSUME NEW r \in Requests PROVE Started(r)' <=> r \notin gone /\ Started(r)
  BY <1>7 DEF Started, Absent, OnWire
<1>10. Books'
  <2> SUFFICES ASSUME NEW r \in Requests
               PROVE  /\ ownership'[r].kind = "permit" <=> req'[r].state = "Queued"
                      /\ ownership'[r].kind = "lease" <=> req'[r].state = "Assigned" \/ Started(r)'
                      /\ req'[r].intent # "none" => Started(r)'
                      /\ req'[r].intent = "retry" => req'[r].attempts < MaxAttempts
                      /\ retirements'[r] # "none" \/ lifecycle'[r] # "none" => Started(r)'
                      /\ retirements'[r] = "lifecycle" => lifecycle'[r] # "none"
                      /\ r \in inbox' => answer'[r] = "none" /\ outcome'[r] = "unseen"
                      /\ confirm'[r] = "confirmed" => answer'[r] # "none" /\ r \notin inbox'
    BY DEF Books
  <2>1. /\ req[r].intent # "none" => Started(r)
        /\ retirements[r] # "none" \/ lifecycle[r] # "none" => Started(r)
        /\ retirements[r] = "lifecycle" => lifecycle[r] # "none"
        /\ r \in inbox => answer[r] = "none" /\ outcome[r] = "unseen"
        /\ confirm[r] = "confirmed" => answer[r] # "none" /\ r \notin inbox
    BY CoreKnown DEF Books
  <2>2. A!NoOwner.kind \notin {"permit", "lease"}
    BY DEF A!NoOwner
  <2>3. "none" \notin Results
    BY DEF Results
  <2>4. CASE r \in gone
    <3>1. Absent.state = "Absent" /\ Absent.intent = "none"
      BY DEF Absent
    <3>2. r \notin joined => ~Started(r)
      BY <1>2, <2>4, OwnersKnown
    <3> HIDE DEF gone, held
    <3> QED
      BY <1>2, <1>6, <1>7, <1>9, <2>1, <2>2, <2>4, <3>1, <3>2 DEF started
  <2>5. CASE r \notin gone
    <3>1. req'[r].state \notin {"Queued", "Assigned"}
      BY <1>2, <1>7, <2>5, OwnersKnown
    <3>2. ownership'[r].kind = "lease" <=> Started(r)
      BY <1>7, <2>5, <1>2, OwnersKnown
    <3>3. ownership'[r].kind # "permit"
      BY <1>7, <2>5, <1>2, OwnersKnown
    <3>4. r \in started => r \notin joined
      BY <1>2, <2>5
    <3>5. r \in joined => r \in started
      OBVIOUS
    <3> HIDE DEF gone, held
    <3> QED
      BY <1>2, <1>6, <1>7, <1>9, <2>1, <2>3, <2>5, <3>1, <3>2, <3>3, <3>4, <3>5 DEF started
  <2> QED
    BY <2>4, <2>5
<1>11. ClosingBooks'
  <2> SUFFICES ASSUME NEW r \in Requests
               PROVE  /\ req'[r].state \notin {"Assigned", "Queued"}
                      /\ Started(r)' => req'[r].intent = "terminal"
    BY <1>1 DEF ClosingBooks
  <2>1. Absent.state = "Absent"
    BY DEF Absent
  <2>2. Started(r) => req[r].state \notin {"Absent", "Queued", "Assigned"}
    BY OwnersKnown
  <2> QED
    BY <1>2, <1>7, <1>9, <2>1, <2>2
<1>12. ASSUME NEW t \in Slots PROVE ClosingSlot(t)'
  <2>1. OpenSlot(t) /\ worker'[t] = worker[t] /\ work'[t] = work[t] /\ Typed
    BY CoreKnown DEF CoreReads
  <2>2. work[t] = NoWork \/ directive'[t] = "stop"
    BY <1>1, <2>1 DEF OpenSlot
  <2>3. ASSUME \/ worker[t].pc \in AtIO
               \/ worker[t].pc \in Waits \ {"Completed", "Failed"} /\ reply[t] = "ok"
        PROVE  Owns(worker[t].req, t)'
    <3>1. Serving(t) /\ ~Settled(t) /\ worker[t].pc # "stopped"
      BY <2>3 DEF Serving, Settled, AtIO, Waits
    <3>2. Owns(worker[t].req, t) /\ Started(worker[t].req) /\ worker[t].req \in Requests
      BY <2>1, <2>3, <3>1 DEF OpenSlot, Typed
    <3>3. worker[t].req \notin joined
      BY <3>1, <3>2 DEF Owns, SlotOf
    <3>4. ownership'[worker[t].req] = ownership[worker[t].req]
      BY <1>2, <1>7, <3>2, <3>3, OwnersKnown
    <3> QED
      BY <2>1, <3>2, <3>4 DEF Owns
  <2> QED
    BY <2>1, <2>2, <2>3 DEF ClosingSlot
<1> QED
  BY <1>4, <1>8, <1>10, <1>11, <1>12, ClosingKept

\* A closing engine whose queue and tracker stay as they are.
LEMMA ClosingSame ==
  ASSUME IInv, Closing, Closing', CoreReads, CoreTypes',
         UNCHANGED admissionVars, UNCHANGED <<req, work>>,
         \A t \in Slots : /\ directive[t] = "stop" => directive'[t] = "stop"
                          /\ reply'[t] = "ok" => reply[t] = "ok" \/ worker[t].pc \in {"Completed", "Failed"},
         \A r \in Requests :
            /\ retirements'[r] # "none" \/ lifecycle'[r] # "none" => Started(r)
            /\ retirements'[r] = "lifecycle" => lifecycle'[r] # "none"
            /\ r \in inbox' => answer'[r] = "none" /\ outcome[r] = "unseen"
            /\ confirm'[r] = "confirmed" => answer'[r] # "none" /\ r \notin inbox'
  PROVE  IInv'
<1>1. QueueInv'
  BY CoreKnown, QueueKept
<1>2. Books /\ ClosingBooks /\ UNCHANGED <<ownership, outcome, sealed>>
  BY CoreKnown DEF admissionVars
<1>3. \A r \in Requests : Started(r)' <=> Started(r)
  BY DEF Started
<1>4. Books'
  BY <1>2, <1>3 DEF Books
<1>5. ClosingBooks'
  BY <1>2, <1>3 DEF ClosingBooks
<1>6. ASSUME NEW t \in Slots PROVE ClosingSlot(t)'
  <2>1. ClosingSlot(t) /\ worker'[t] = worker[t] /\ work'[t] = work[t] /\ Typed
    BY CoreKnown DEF CoreReads
  <2> QED
    BY <1>2, <2>1 DEF ClosingSlot, Owns
<1> QED
  BY <1>1, <1>4, <1>5, <1>6, ClosingKept

\* A closing core that takes an event and changes nothing of its own.
LEMMA SameCoreKeeps ==
  ASSUME IInv, Closing, SameCore, CoreReads, UNCHANGED <<work, inbox, closeAsked, preCancelled>>,
         alive' \in [Slots -> BOOLEAN],
         \A t \in Slots : reply'[t] = "ok" => reply[t] = "ok" \/ worker[t].pc \in {"Completed", "Failed"}
  PROVE  IInv'
<1>1. Closing' /\ UNCHANGED admissionVars
      /\ UNCHANGED <<engine, req, lifecycle, retirements, answer, confirm, directive>>
  BY DEF SameCore, Closing, Closed
<1>2. CoreTypes'
  BY <1>1, CoreKnown DEF CoreTypes
<1>3. \A r \in Requests :
         /\ retirements[r] # "none" \/ lifecycle[r] # "none" => Started(r)
         /\ retirements[r] = "lifecycle" => lifecycle[r] # "none"
         /\ r \in inbox => answer[r] = "none" /\ outcome[r] = "unseen"
         /\ confirm[r] = "confirmed" => answer[r] # "none" /\ r \notin inbox
  BY CoreKnown DEF Books
<1> QED
  BY <1>1, <1>2, <1>3, ClosingSame

\* begin_runtime_fatal, in an open engine and in a closing one.
LEMMA FailKeeps ==
  ASSUME IInv, NEW why, NEW joined \in SUBSET Requests,
         \A r \in joined : Started(r) /\ worker[SlotOf(r)].pc = "stopped",
         NEW conf, Told(conf), Fail(why, joined, conf), CoreReads,
         \A t \in Slots : reply'[t] = "ok" => reply[t] = "ok",
         UNCHANGED <<work, inbox, closeAsked, preCancelled>>, alive' \in [Slots -> BOOLEAN]
  PROVE  IInv'
<1>1. engine' = "FailedClosing" /\ Closing'
  BY DEF Fail, Closing
<1>2. CASE ~Closing
  <2>1. Shutdown("failed", joined, conf)
    BY <1>2 DEF Fail
  <2> QED
    BY <1>1, <1>2, <2>1, ShutsKeeps
<1>3. CASE Closing
  <2>1. /\ lifecycle' = [r \in Requests |->
              IF lifecycle[r] = "cancelled" THEN "failed" ELSE lifecycle[r]]
        /\ directive' = [s \in Slots |-> IF alive[s] THEN "stop" ELSE directive[s]]
        /\ retirements' = [r \in Requests |->
              IF lifecycle[r] # "none" THEN "lifecycle" ELSE retirements[r]]
        /\ confirm' = conf /\ UNCHANGED admissionVars /\ UNCHANGED <<req, answer>>
    BY <1>3 DEF Fail
  <2>2. CoreTypes'
    <3>1. CoreTypes
      BY CoreKnown
    <3>2. lifecycle' \in [Requests -> Results \cup {"none"}]
      BY <2>1, <3>1 DEF CoreTypes, Results
    <3>3. retirements' \in [Requests -> Retirement]
      BY <2>1, <3>1 DEF CoreTypes, Retirement
    <3>4. directive' \in [Slots -> {"run", "stop"} \cup Requests]
      BY <2>1, <3>1 DEF CoreTypes
    <3>5. confirm' \in [Requests -> Confirmation]
      BY <2>1 DEF Told
    <3> QED
      BY <1>1, <2>1, <3>1, <3>2, <3>3, <3>4, <3>5 DEF CoreTypes
  <2>3. ASSUME NEW r \in Requests
        PROVE  /\ retirements'[r] # "none" \/ lifecycle'[r] # "none" => Started(r)
               /\ retirements'[r] = "lifecycle" => lifecycle'[r] # "none"
               /\ r \in inbox' => answer'[r] = "none" /\ outcome[r] = "unseen"
               /\ confirm'[r] = "confirmed" => answer'[r] # "none" /\ r \notin inbox'
    <3>1. /\ retirements[r] # "none" \/ lifecycle[r] # "none" => Started(r)
          /\ retirements[r] = "lifecycle" => lifecycle[r] # "none"
          /\ r \in inbox => answer[r] = "none" /\ outcome[r] = "unseen"
          /\ confirm[r] = "confirmed" => answer[r] # "none" /\ r \notin inbox
      BY CoreKnown DEF Books
    <3>2. conf[r] = "confirmed" => confirm[r] = "confirmed"
      BY DEF Told
    <3> QED
      BY <2>1, <3>1, <3>2
  <2>4. \A t \in Slots : directive[t] = "stop" => directive'[t] = "stop"
    BY <2>1
  <2> QED
    BY <1>1, <1>3, <2>1, <2>2, <2>3, <2>4, ClosingSame
<1> QED
  BY <1>2, <1>3

\* begin_close.
LEMMA HandleCloseKeeps == ASSUME IInv, HandleClose PROVE IInv'
<1>1. /\ ~Closing /\ engine' = "Closing" /\ Closing' /\ Shutdown("cancelled", {}, confirm) /\ CoreReads
      /\ UNCHANGED <<work, inbox, closeAsked, preCancelled, alive, reply>>
  BY DEF HandleClose, Closing, CoreReads, callerVars, workerVars
<1>2. Told(confirm) /\ alive' \in [Slots -> BOOLEAN]
  BY <1>1, CoreKnown DEF Told, CoreTypes
<1>3. \A r \in {} : Started(r) /\ worker[SlotOf(r)].pc = "stopped"
  OBVIOUS
<1> QED
  BY <1>1, <1>2, <1>3, ShutsKeeps

\* finish_close.
LEMMA FinishCloseKeeps == ASSUME IInv, FinishClose PROVE IInv'
<1>1. /\ Closing /\ Closing' /\ CoreReads /\ A!CloseComplete
      /\ engine' \in {"Stopped", "FailedClosed"}
      /\ \A r \in Requests : req[r].state = "Absent"
      /\ UNCHANGED <<req, lifecycle, retirements, answer, confirm, preCancelled, inbox, closeAsked,
                     work, directive, alive, reply, worker>>
  BY DEF FinishClose, Closing, Closed, CoreReads, callerVars, workerVars, channelVars
<1>2. QueueInv'
  BY <1>1, CoreKnown, QueueKept
<1>3. CoreTypes'
  BY <1>1, CoreKnown DEF CoreTypes
<1>4. sealed' = TRUE /\ outcome' = outcome /\ \A r \in Requests : ownership'[r] = A!NoOwner
      /\ A!NoOwner.kind = "none"
  BY <1>1 DEF A!CloseComplete, A!NoOwner
<1>5. \A r \in Requests : ~Started(r) /\ (Started(r)' <=> Started(r))
  BY <1>1 DEF Started, OnWire
<1>6. Books'
  <2>1. Books
    BY CoreKnown
  <2> QED
    BY <1>1, <1>4, <1>5, <2>1 DEF Books
<1>7. ClosingBooks'
  BY <1>1, <1>4, <1>5 DEF ClosingBooks
<1>8. ASSUME NEW t \in Slots PROVE ClosingSlot(t)'
  <2>1. ClosingSlot(t) /\ Typed
    BY <1>1, CoreKnown
  <2>2. ASSUME Owns(worker[t].req, t), Serving(t) PROVE FALSE
    BY <1>1, <1>5, <2>1, <2>2, OwnersKnown DEF Owns, Typed
  <2> QED
    BY <1>1, <2>1, <2>2 DEF ClosingSlot, Serving
<1> QED
  BY <1>1, <1>2, <1>3, <1>6, <1>7, <1>8, ClosingKept

-----------------------------------------------------------------------------
(* The core: a request ends, and its Slot goes on. *)

\* Who is promoted and who has timed out when the lease of r is given back.
LEMMA ReleaseEffect ==
  ASSUME IInv, NEW r \in Requests, ownership[r].kind = "lease", A!ReleaseActive(ownership[r])
  PROVE  /\ \A q \in TimedOut : /\ req[q].state = "Queued" /\ q # r /\ q \notin Promoted
                                /\ ownership'[q] = A!NoOwner
         /\ \A q \in Promoted : /\ req[q].state = "Queued" /\ q # r
                                /\ ownership'[q].kind = "lease" /\ SlotOf(q)' = SlotOf(r)
         /\ ownership'[r] = A!NoOwner
         /\ \A q \in Requests : q # r /\ q \notin TimedOut /\ q \notin Promoted =>
               ownership'[q] = ownership[q] /\ outcome'[q] = outcome[q]
         /\ Promoted = {} \/ \E p \in Requests : Promoted = {p}
         /\ sealed' = sealed /\ (sealed => Promoted = {})
<1> DEFINE TO == A!ExpiredFront
<1>1. ownership[r].request = r /\ outcome[r] = "leased" /\ req[r].state # "Queued"
  BY OwnersKnown
<1>2. ASSUME NEW q \in A!Waiters
      PROVE  q \in Requests /\ outcome[q] = "queued" /\ req[q].state = "Queued" /\ q # r
  <2>1. q \in Requests
    BY CoreKnown, QueueFacts DEF A!TypeOK, A!Waiters
  <2> QED
    BY <1>1, <2>1, OwnersKnown
<1>3. TO \subseteq A!Waiters
  BY DEF A!ExpiredFront, A!Waiters
<1>4. ASSUME NEW q \in Requests PROVE outcome[q] = "queued" => req[q].state = "Queued"
  BY OwnersKnown
<1>5. CASE A!ReleaseToIdle(ownership[r])
  <2>1. /\ ownership' = [q \in Requests |-> IF q \in TO \cup {r} THEN A!NoOwner ELSE ownership[q]]
        /\ outcome' = [q \in Requests |-> IF q = r THEN "released"
                                          ELSE IF q \in TO THEN "timed_out" ELSE outcome[q]]
        /\ sealed' = sealed
    BY <1>1, <1>5 DEF A!ReleaseToIdle, A!AfterRelease
  <2> HIDE DEF TO
  <2>2. Promoted = {}
    BY <1>1, <2>1 DEF Promoted
  <2>3. TimedOut = TO
    BY <1>1, <1>2, <1>3, <2>1 DEF TimedOut
  <2> QED
    BY <1>2, <1>3, <2>1, <2>2, <2>3
<1>6. CASE A!ReleaseAndPromote(ownership[r])
  <2>1. PICK p \in waiting :
           /\ A!FirstLiveWaiter(p)
           /\ ownership' = [q \in Requests |->
                 IF q = p THEN A!NewLease(p, SlotOf(r))
                 ELSE IF q \in TO \cup {r} THEN A!NoOwner ELSE ownership[q]]
           /\ outcome' = [q \in Requests |-> IF q = p THEN "leased"
                            ELSE IF q = r THEN "released"
                            ELSE IF q \in TO THEN "timed_out" ELSE outcome[q]]
           /\ sealed' = sealed /\ ~sealed
    BY <1>1, <1>6 DEF A!ReleaseAndPromote, A!AfterRelease, SlotOf
  <2>2. p \in A!Waiters /\ p \notin TO
    BY <2>1 DEF A!FirstLiveWaiter, A!LiveWaiters, A!Live, A!ExpiredFront, A!Waiters
  <2>3. A!NewLease(p, SlotOf(r)).kind = "lease" /\ A!NewLease(p, SlotOf(r)).slot = SlotOf(r)
    BY DEF A!NewLease
  <2> HIDE DEF TO
  <2>4. Promoted = {p}
    BY <1>1, <1>2, <2>1, <2>2 DEF Promoted
  <2>5. TimedOut = TO
    BY <1>1, <1>2, <1>3, <2>1, <2>2 DEF TimedOut
  <2>6. SlotOf(p)' = SlotOf(r)
    BY <1>2, <2>1, <2>2, <2>3 DEF SlotOf
  <2> QED
    BY <1>2, <1>3, <2>1, <2>2, <2>3, <2>4, <2>5, <2>6
<1> QED
  BY <1>5, <1>6 DEF A!ReleaseActive

\* What terminal_active does: the request is gone, and its Slot is idle or of the
\* waiter that was promoted.
LEMMA FinishEffect ==
  ASSUME IInv, NEW r \in Requests, ownership[r].kind = "lease", NEW why \in Results,
         NEW conf, Told(conf), Finish(r, why, conf),
         UNCHANGED <<engine, inbox, closeAsked, preCancelled, directive>>
  PROVE  /\ QueueInv' /\ CoreTypes' /\ Books' /\ Closing' = Closing
         /\ Closing => ClosingBooks' /\ work' = work
         /\ \A q \in Requests : /\ Started(q)' <=> q # r /\ Started(q)
                                /\ retirements'[q] = "continue" => q # r /\ retirements[q] = "continue"
         /\ \/ /\ UNCHANGED <<work, alive>>
               /\ \A q \in Requests, t \in Slots : Owns(q, t)' <=> q # r /\ Owns(q, t)
            \/ \E p \in Requests :
                  /\ p # r /\ ~Started(p) /\ ~Closing /\ (\A t \in Slots : ~Owns(p, t))
                  /\ work' = [work EXCEPT ![SlotOf(r)] = [req |-> p, fresh |-> TRUE]]
                  /\ alive' = [alive EXCEPT ![SlotOf(r)] = TRUE]
                  /\ \A t \in Slots : Owns(p, t)' <=> t = SlotOf(r)
                  /\ \A q \in Requests, t \in Slots : q # p => (Owns(q, t)' <=> q # r /\ Owns(q, t))
<1> DEFINE N == [q \in {r} \cup TimedOut |-> IF q = r THEN why ELSE "timed_out"]
<1>1. /\ A!ReleaseActive(ownership[r]) /\ Notify(N, conf)
      /\ req' = [q \in Requests |->
            IF q \in {r} \cup TimedOut THEN Absent
            ELSE IF q \in Promoted THEN [req[q] EXCEPT !.state = "Assigned", !.attempts = 1]
            ELSE req[q]]
      /\ IF Promoted = {} THEN UNCHANGED <<work, alive>>
         ELSE \E q \in Promoted : Dispatch(q, SlotOf(r), TRUE)
      /\ retirements' = [retirements EXCEPT ![r] = "none"]
      /\ lifecycle' = [lifecycle EXCEPT ![r] = "none"]
  BY DEF Finish
<1>2. /\ \A q \in TimedOut : /\ req[q].state = "Queued" /\ q # r /\ q \notin Promoted
                             /\ ownership'[q] = A!NoOwner
      /\ \A q \in Promoted : /\ req[q].state = "Queued" /\ q # r
                             /\ ownership'[q].kind = "lease" /\ SlotOf(q)' = SlotOf(r)
      /\ ownership'[r] = A!NoOwner
      /\ \A q \in Requests : q # r /\ q \notin TimedOut /\ q \notin Promoted =>
            ownership'[q] = ownership[q] /\ outcome'[q] = outcome[q]
      /\ Promoted = {} \/ \E p \in Requests : Promoted = {p}
      /\ sealed' = sealed /\ (sealed => Promoted = {})
  BY <1>1, ReleaseEffect
<1>3. QueueInv'
  BY <1>1, CoreKnown, QueueKept
<1>4. TimedOut \subseteq Requests /\ Promoted \subseteq Requests
  BY DEF TimedOut, Promoted
<1>5. /\ answer' \in [Requests -> Results \cup {"none"}]
      /\ confirm' \in [Requests -> Confirmation]
      /\ \A q \in Requests :
            /\ q \in {r} \cup TimedOut => answer'[q] # "none"
            /\ q \notin {r} \cup TimedOut => answer'[q] = answer[q]
            /\ confirm'[q] = "confirmed" => q \in {r} \cup TimedOut \/ confirm[q] = "confirmed"
  <2>1. DOMAIN N = {r} \cup TimedOut /\ DOMAIN N \subseteq Requests /\ \A q \in DOMAIN N : N[q] \in Results
    BY <1>4 DEF Results
  <2> HIDE DEF N
  <2> QED
    BY <1>1, <2>1, Notified
<1>6. ASSUME NEW q \in Requests
      PROVE  /\ req'[q] \in ReqRecord
             /\ q \in {r} \cup TimedOut => req'[q].state = "Absent" /\ req'[q].intent = "none"
             /\ q \in Promoted /\ q # r /\ q \notin TimedOut =>
                   req'[q].state = "Assigned" /\ req'[q].intent = req[q].intent
                   /\ req'[q].attempts = 1
             /\ q # r /\ q \notin TimedOut /\ q \notin Promoted => req'[q] = req[q]
  <2>1. req[q] \in ReqRecord
    BY OwnersKnown
  <2>2. /\ [req[q] EXCEPT !.state = "Assigned", !.attempts = 1] \in ReqRecord
        /\ [req[q] EXCEPT !.state = "Assigned", !.attempts = 1].state = "Assigned"
        /\ [req[q] EXCEPT !.state = "Assigned", !.attempts = 1].attempts = 1
        /\ [req[q] EXCEPT !.state = "Assigned", !.attempts = 1].intent = req[q].intent
    <3>1. 1 \in 0 .. MaxAttempts /\ "Assigned" \in States
      BY AttemptsAssumption DEF States
    <3> QED
      BY <2>1, <3>1 DEF ReqRecord
  <2>3. Absent \in ReqRecord /\ Absent.state = "Absent" /\ Absent.intent = "none"
    BY AttemptsAssumption DEF Absent, ReqRecord, States, NoWire, WireType
  <2> QED
    BY <1>1, <2>1, <2>2, <2>3
<1>7. ASSUME NEW q \in Requests
      PROVE  /\ Started(q)' <=> q # r /\ Started(q)
             /\ retirements'[q] = IF q = r THEN "none" ELSE retirements[q]
             /\ lifecycle'[q] = IF q = r THEN "none" ELSE lifecycle[q]
  <2>1. retirements \in [Requests -> Retirement] /\ lifecycle \in [Requests -> Results \cup {"none"}]
    BY CoreKnown DEF CoreTypes
  <2>2. q \in TimedOut \cup Promoted => ~Started(q)
    BY <1>2, OwnersKnown
  <2>3. q \in TimedOut => q # r /\ q \notin Promoted
    BY <1>2
  <2>4. Started(q)' <=> q # r /\ Started(q)
    BY <1>2, <1>6, <2>2, <2>3 DEF Started, OnWire
  <2> QED
    BY <1>1, <2>1, <2>4
<1>8. \/ /\ UNCHANGED <<work, alive>>
         /\ \A q \in Requests, t \in Slots : Owns(q, t)' <=> q # r /\ Owns(q, t)
      \/ \E p \in Requests :
            /\ p # r /\ ~Started(p) /\ ~sealed /\ (\A t \in Slots : ~Owns(p, t))
            /\ work' = [work EXCEPT ![SlotOf(r)] = [req |-> p, fresh |-> TRUE]]
            /\ alive' = [alive EXCEPT ![SlotOf(r)] = TRUE]
            /\ \A t \in Slots : Owns(p, t)' <=> t = SlotOf(r)
            /\ \A q \in Requests, t \in Slots : q # p => (Owns(q, t)' <=> q # r /\ Owns(q, t))
  <2>1. \A q \in TimedOut : ownership[q].kind # "lease"
    BY <1>2, <1>4, OwnersKnown
  <2>2. A!NoOwner.kind # "lease"
    BY DEF A!NoOwner
  <2>3. CASE Promoted = {}
    BY <1>1, <1>2, <2>1, <2>2, <2>3 DEF Owns
  <2>4. ASSUME NEW p \in Requests, Promoted = {p}
        PROVE  /\ p # r /\ ~Started(p) /\ ~sealed /\ (\A t \in Slots : ~Owns(p, t))
               /\ work' = [work EXCEPT ![SlotOf(r)] = [req |-> p, fresh |-> TRUE]]
               /\ alive' = [alive EXCEPT ![SlotOf(r)] = TRUE]
               /\ \A t \in Slots : Owns(p, t)' <=> t = SlotOf(r)
               /\ \A q \in Requests, t \in Slots : q # p => (Owns(q, t)' <=> q # r /\ Owns(q, t))
    <3>1. p # r /\ ~sealed /\ Dispatch(p, SlotOf(r), TRUE) /\ req[p].state = "Queued"
      BY <1>1, <1>2, <2>4
    <3>2. ~Started(p) /\ \A t \in Slots : ~Owns(p, t)
      BY <3>1, OwnersKnown DEF Owns
    <3>3. \A t \in Slots : Owns(p, t)' <=> t = SlotOf(r)
      BY <1>2, <2>4 DEF Owns, SlotOf
    <3>4. \A q \in Requests, t \in Slots : q # p => (Owns(q, t)' <=> q # r /\ Owns(q, t))
      BY <1>2, <2>1, <2>2, <2>4 DEF Owns
    <3> QED
      BY <3>1, <3>2, <3>3, <3>4 DEF Dispatch
  <2> QED
    BY <1>2, <2>3, <2>4
<1>9. CoreTypes'
  <2>1. CoreTypes
    BY CoreKnown
  <2>2. req' \in [Requests -> ReqRecord]
    BY <1>1, <1>6
  <2>3. retirements' \in [Requests -> Retirement] /\ lifecycle' \in [Requests -> Results \cup {"none"}]
    BY <1>1, <2>1 DEF CoreTypes, Retirement
  <2>4. /\ work' \in [Slots -> [req : Requests \cup {NoRequest}, fresh : BOOLEAN]]
        /\ alive' \in [Slots -> BOOLEAN]
        /\ \A s \in Slots : work'[s] # NoWork => work'[s].req \in Requests
    <3>1. CASE UNCHANGED <<work, alive>>
      BY <2>1, <3>1 DEF CoreTypes
    <3>2. ASSUME NEW p \in Requests,
                 work' = [work EXCEPT ![SlotOf(r)] = [req |-> p, fresh |-> TRUE]],
                 alive' = [alive EXCEPT ![SlotOf(r)] = TRUE]
          PROVE  /\ work' \in [Slots -> [req : Requests \cup {NoRequest}, fresh : BOOLEAN]]
                 /\ alive' \in [Slots -> BOOLEAN]
                 /\ \A s \in Slots : work'[s] # NoWork => work'[s].req \in Requests
      <4>1. [req |-> p, fresh |-> TRUE] \in [req : Requests \cup {NoRequest}, fresh : BOOLEAN]
        OBVIOUS
      <4> QED
        BY <2>1, <3>2, <4>1 DEF CoreTypes
    <3> QED
      BY <1>8, <3>1, <3>2
  <2> QED
    BY <1>5, <2>1, <2>2, <2>3, <2>4 DEF CoreTypes
<1>10. Books'
  <2> SUFFICES ASSUME NEW q \in Requests
               PROVE  /\ ownership'[q].kind = "permit" <=> req'[q].state = "Queued"
                      /\ ownership'[q].kind = "lease" <=> req'[q].state = "Assigned" \/ Started(q)'
                      /\ req'[q].intent # "none" => Started(q)'
                      /\ req'[q].intent = "retry" => req'[q].attempts < MaxAttempts
                      /\ retirements'[q] # "none" \/ lifecycle'[q] # "none" => Started(q)'
                      /\ retirements'[q] = "lifecycle" => lifecycle'[q] # "none"
                      /\ q \in inbox' => answer'[q] = "none" /\ outcome'[q] = "unseen"
                      /\ confirm'[q] = "confirmed" => answer'[q] # "none" /\ q \notin inbox'
    BY DEF Books
  <2>1. /\ ownership[q].kind = "permit" <=> req[q].state = "Queued"
        /\ ownership[q].kind = "lease" <=> req[q].state = "Assigned" \/ Started(q)
        /\ req[q].intent # "none" => Started(q)
        /\ req[q].intent = "retry" => req[q].attempts < MaxAttempts
        /\ retirements[q] # "none" \/ lifecycle[q] # "none" => Started(q)
        /\ retirements[q] = "lifecycle" => lifecycle[q] # "none"
        /\ q \in inbox => answer[q] = "none" /\ outcome[q] = "unseen"
        /\ confirm[q] = "confirmed" => answer[q] # "none" /\ q \notin inbox
    BY CoreKnown DEF Books
  <2>2. A!NoOwner.kind \notin {"permit", "lease"}
    BY DEF A!NoOwner
  <2>3. /\ q \in inbox => req[q].state = "Absent"
        /\ Started(q) => req[q].state \notin {"Absent", "Queued", "Assigned"}
        /\ ownership[r].kind = "lease" => req[r].state \notin {"Absent", "Queued"}
    BY OwnersKnown
  <2>4. CASE q \in {r} \cup TimedOut
    BY <1>2, <1>5, <1>6, <1>7, <2>1, <2>2, <2>3, <2>4
  <2>5. CASE q \in Promoted /\ q \notin {r} \cup TimedOut
    BY <1>2, <1>5, <1>6, <1>7, <2>1, <2>2, <2>3, <2>5
  <2>6. CASE q \notin Promoted \cup {r} \cup TimedOut
    BY <1>2, <1>5, <1>6, <1>7, <2>1, <2>3, <2>6
  <2> QED
    BY <2>4, <2>5, <2>6
<1>11. Closing => ClosingBooks' /\ work' = work /\ sealed
  <2> SUFFICES ASSUME Closing PROVE ClosingBooks' /\ work' = work /\ sealed
    OBVIOUS
  <2>1. ClosingBooks
    BY CoreKnown
  <2>2. Promoted = {} /\ sealed' /\ sealed
    BY <1>2, <2>1 DEF ClosingBooks
  <2>3. \A q \in Requests : req'[q].state = "Absent" \/ req'[q] = req[q]
    BY <1>6, <2>2
  <2> QED
    <3>1. \A q \in Requests : req'[q].state \notin {"Assigned", "Queued"}
      BY <2>1, <2>3 DEF ClosingBooks
    <3>2. \A q \in Requests : Started(q)' => req'[q].intent = "terminal"
      BY <1>7, <2>1, <2>3 DEF ClosingBooks, Started, OnWire
    <3>3. work' = work
      BY <1>1, <2>2
    <3> QED
      BY <2>2, <3>1, <3>2, <3>3 DEF ClosingBooks
<1> QED
  BY <1>3, <1>7, <1>8, <1>9, <1>10, <1>11 DEF Closing, Closed

-----------------------------------------------------------------------------
(* The core: commands and the tick. *)

\* A step that leaves every worker, its channels and its owner alone.
LEMMA SlotsSame ==
  ASSUME IInv, Closing' = Closing, QueueInv', CoreTypes', Books', Closing => ClosingBooks',
         UNCHANGED <<worker, work, reply, events, alive>>,
         \A t \in Slots : /\ directive[t] = "stop" => directive'[t] = "stop"
                          /\ ~Closing => directive'[t] # "stop",
         \A q \in Requests :
            /\ \A t \in Slots : Owns(q, t) <=> Owns(q, t)'
            /\ Started(q) => Started(q)'
            /\ retirements'[q] = "continue" => retirements[q] = "continue"
  PROVE  IInv'
<1>1. Typed /\ CoreReads
  BY CoreKnown DEF CoreReads
<1>2. ASSUME NEW t \in Slots PROVE (Closing => ClosingSlot(t)') /\ (~Closing => OpenSlot(t)')
  <2>1. (ClosingSlot(t) => ClosingSlot(t)') /\ (OpenSlot(t) /\ directive'[t] # "stop" => OpenSlot(t)')
    BY <1>1, SlotSame
  <2> QED
    BY <2>1, CoreKnown
<1> QED
  BY <1>1, <1>2, ClosingKept, OpenKept

\* A command is answered at once.
LEMMA AnsweredAtOnce ==
  ASSUME IInv, NEW r \in inbox, inbox' = inbox \ {r}, NEW why \in Results,
         Notify([q \in {r} |-> why], confirm), QueueInv',
         UNCHANGED <<ownership, sealed>>, \A p \in Requests : p # r => outcome'[p] = outcome[p],
         preCancelled' \subseteq Requests,
         UNCHANGED <<req, work, alive, directive, engine, lifecycle, retirements, closeAsked,
                     worker, events, reply>>
  PROVE  IInv'
<1>1. r \in Requests /\ Told(confirm) /\ CoreTypes
  BY CoreKnown DEF CoreTypes, Told
<1>2. /\ answer' \in [Requests -> Results \cup {"none"}]
      /\ confirm' \in [Requests -> Confirmation]
      /\ \A q \in Requests :
            /\ q = r => answer'[q] # "none"
            /\ q # r => answer'[q] = answer[q]
            /\ confirm'[q] = "confirmed" => q = r \/ confirm[q] = "confirmed"
  <2> DEFINE N == [q \in {r} |-> why]
  <2>1. DOMAIN N = {r} /\ DOMAIN N \subseteq Requests /\ \A q \in DOMAIN N : N[q] \in Results
    BY <1>1
  <2>2. Notify(N, confirm)
    OBVIOUS
  <2> HIDE DEF N
  <2> QED
    BY <1>1, <2>1, <2>2, Notified
<1>3. CoreTypes'
  BY <1>1, <1>2 DEF CoreTypes
<1>4. /\ Closing' = Closing
      /\ \A q \in Requests : Started(q)' <=> Started(q)
      /\ \A q \in Requests, t \in Slots : Owns(q, t) <=> Owns(q, t)'
  BY DEF Closing, Closed, Started, Owns
<1>5. Books'
  <2>1. Books
    BY CoreKnown
  <2> QED
    BY <1>1, <1>2, <1>4, <2>1 DEF Books
<1>6. Closing => ClosingBooks'
  BY <1>4, CoreKnown DEF ClosingBooks
<1>7. \A t \in Slots : ~Closing => directive[t] # "stop"
  BY CoreKnown DEF OpenSlot
<1> QED
  BY <1>3, <1>4, <1>5, <1>6, <1>7, SlotsSame

\* A command: refused, queued or dispatched.
LEMMA HandleCommandKeeps == ASSUME IInv, NEW r \in Requests, HandleCommand(r) PROVE IInv'
<1>1. /\ r \in inbox /\ inbox' = inbox \ {r} /\ ~Closed
      /\ UNCHANGED <<closeAsked, worker, directive, reply, events, engine, lifecycle, retirements>>
      /\ Closing' = Closing
  BY DEF HandleCommand, workerVars, Closing, Closed
<1>2. /\ req[r].state = "Absent" /\ answer[r] = "none" /\ outcome[r] = "unseen" /\ req[r] \in ReqRecord
      /\ retirements[r] = "none" /\ lifecycle[r] = "none" /\ req[r].intent = "none"
      /\ confirm[r] # "confirmed" /\ ~Started(r)
  BY <1>1, OwnersKnown, CoreKnown DEF Books
<1>3. CoreTypes /\ Books /\ Typed /\ QueueInv
  BY CoreKnown
<1>4. /\ inbox' \subseteq Requests
      /\ \A t \in Slots : ~Closing => directive[t] # "stop"
  BY <1>1, <1>3, CoreKnown DEF CoreTypes, OpenSlot
<1>5. CASE /\ r \in preCancelled
           /\ Notify([q \in {r} |-> "cancelled"], confirm)
           /\ preCancelled' = preCancelled \ {r}
           /\ UNCHANGED <<admissionVars, req, work, alive>>
  <2>1. QueueInv' /\ UNCHANGED <<ownership, sealed, outcome>> /\ preCancelled' \subseteq Requests
    BY <1>3, <1>5, QueueKept DEF CoreTypes, admissionVars
  <2>2. "cancelled" \in Results
    BY DEF Results
  <2> QED
    BY <1>1, <1>5, <2>1, <2>2, AnsweredAtOnce
<1>6. CASE /\ Notify([q \in {r} |-> "refused"], confirm)
           /\ UNCHANGED <<preCancelled, req, work, alive>>
           /\ UNCHANGED admissionVars \/ A!Refuse(r)
  <2>1. QueueInv' /\ preCancelled' \subseteq Requests
    BY <1>3, <1>6, QueueKept DEF CoreTypes
  <2>2. UNCHANGED <<ownership, sealed>> /\ \A q \in Requests : q # r => outcome'[q] = outcome[q]
    <3>1. outcome = [q \in Requests |-> outcome[q]]
      BY <1>3, QueueFacts DEF A!TypeOK
    <3> QED
      BY <1>6, <3>1 DEF A!Refuse, A!admissionVars, admissionVars
  <2>3. "refused" \in Results
    BY DEF Results
  <2> QED
    BY <1>1, <1>6, <2>1, <2>2, <2>3, AnsweredAtOnce
<1>7. CASE /\ ~Closing /\ A!SubmitWaiting(r)
           /\ req' = [req EXCEPT ![r].state = "Queued"]
           /\ UNCHANGED <<preCancelled, answer, confirm, work, alive>>
  <2> DEFINE y == [req[r] EXCEPT !.state = "Queued"]
  <2>1. y \in ReqRecord /\ y.state = "Queued" /\ y.intent = "none"
    BY <1>2 DEF ReqRecord, States
  <2>2. req' = [req EXCEPT ![r] = y]
    BY <1>7
  <2> HIDE DEF y
  <2>3. QueueInv'
    BY <1>3, <1>7, QueueKept
  <2>4. /\ \A q \in Requests : q # r => ownership'[q] = ownership[q] /\ outcome'[q] = outcome[q]
        /\ ownership'[r].kind = "permit"
    <3>1. /\ outcome = [q \in Requests |-> outcome[q]] /\ ownership = [q \in Requests |-> ownership[q]]
      BY <1>3, QueueFacts DEF A!TypeOK
    <3> QED
      BY <1>7, <3>1 DEF A!SubmitWaiting, A!TakePermit, A!NewPermit
  <2>5. \A q \in Requests : /\ q # r => req'[q] = req[q]
                            /\ q = r => req'[q] = y
    BY <1>3, <2>2 DEF CoreTypes
  <2>6. CoreTypes'
    <3>1. req' \in [Requests -> ReqRecord]
      BY <1>3, <2>1, <2>2 DEF CoreTypes
    <3> QED
      BY <1>1, <1>3, <1>4, <1>7, <3>1 DEF CoreTypes
  <2>7. \A q \in Requests : Started(q)' <=> Started(q)
    BY <1>2, <2>1, <2>5 DEF Started, OnWire
  <2>8. Books'
    <3>1. ASSUME NEW q \in Requests, q # r
          PROVE  /\ ownership'[q] = ownership[q] /\ outcome'[q] = outcome[q] /\ req'[q] = req[q]
                 /\ q \in inbox' <=> q \in inbox
      BY <1>1, <2>4, <2>5, <3>1
    <3>2. ASSUME NEW q \in Requests, q = r
          PROVE  /\ ownership'[q].kind = "permit" /\ req'[q].state = "Queued" /\ req'[q].intent = "none"
                 /\ retirements'[q] = "none" /\ lifecycle'[q] = "none" /\ q \notin inbox'
                 /\ confirm'[q] # "confirmed" /\ ~Started(q)'
      BY <1>1, <1>2, <1>7, <2>1, <2>4, <2>5, <2>7, <3>2
    <3> QED
      BY <1>1, <1>3, <1>7, <2>7, <3>1, <3>2 DEF Books
  <2>9. \A q \in Requests, t \in Slots : Owns(q, t) <=> Owns(q, t)'
    <3>1. ownership[r].kind # "lease"
      BY <1>2, OwnersKnown
    <3> QED
      BY <2>4, <3>1 DEF Owns
  <2> QED
    BY <1>1, <1>4, <1>7, <2>3, <2>6, <2>7, <2>8, <2>9, SlotsSame
<1>8. CASE /\ ~Closing /\ A!SubmitDirect(r)
           /\ req' = [req EXCEPT ![r].state = "Assigned", ![r].attempts = 1]
           /\ Dispatch(r, ownership'[r].slot, TRUE)
           /\ UNCHANGED <<preCancelled, answer, confirm>>
  <2> DEFINE y == [req[r] EXCEPT !.state = "Assigned", !.attempts = 1]
             w == [req |-> r, fresh |-> TRUE]
  <2>0. PICK s \in Slots : s \in idle /\ ownership'[r].slot = s /\ ownership'[r].kind = "lease"
    <3>1. ownership = [q \in Requests |-> ownership[q]] /\ idle \subseteq Slots
      BY <1>3, QueueFacts DEF A!TypeOK, Slots
    <3> QED
      BY <1>8, <3>1 DEF A!SubmitDirect, A!Grant, A!NewLease
  <2>1. y \in ReqRecord /\ y.state = "Assigned" /\ y.intent = "none"
    <3>1. 1 \in 0 .. MaxAttempts
      BY AttemptsAssumption
    <3> QED
      BY <1>2, <3>1 DEF ReqRecord, States
  <2>2. req' = [req EXCEPT ![r] = y]
    BY <1>8
  <2> HIDE DEF y
  <2>3. QueueInv'
    BY <1>3, <1>8, QueueKept
  <2>4. /\ \A q \in Requests : q # r => ownership'[q] = ownership[q] /\ outcome'[q] = outcome[q]
        /\ ownership'[r].kind = "lease" /\ s \in idle /\ s \in Slots
    <3>1. /\ outcome = [q \in Requests |-> outcome[q]] /\ ownership = [q \in Requests |-> ownership[q]]
      BY <1>3, QueueFacts DEF A!TypeOK
    <3> QED
      BY <1>8, <2>0, <3>1 DEF A!SubmitDirect, A!Grant
  <2>5. \A q \in Requests : /\ q # r => req'[q] = req[q]
                            /\ q = r => req'[q] = y
    BY <1>3, <2>2 DEF CoreTypes
  <2>6. work' = [work EXCEPT ![s] = w] /\ alive' = [alive EXCEPT ![s] = TRUE]
    BY <1>8, <2>0 DEF Dispatch
  <2>7. CoreTypes'
    <3>1. req' \in [Requests -> ReqRecord]
      BY <1>3, <2>1, <2>2 DEF CoreTypes
    <3>2. w \in [req : Requests \cup {NoRequest}, fresh : BOOLEAN] /\ w.req \in Requests
      OBVIOUS
    <3>3. /\ work' \in [Slots -> [req : Requests \cup {NoRequest}, fresh : BOOLEAN]]
          /\ alive' \in [Slots -> BOOLEAN]
          /\ \A t \in Slots : work'[t] # NoWork => work'[t].req \in Requests
      BY <1>3, <2>6, <3>2 DEF CoreTypes
    <3> QED
      BY <1>1, <1>3, <1>4, <1>8, <3>1, <3>3 DEF CoreTypes
  <2>8. \A q \in Requests : Started(q)' <=> Started(q)
    BY <1>2, <2>1, <2>5 DEF Started, OnWire
  <2>9. Books'
    <3>1. ASSUME NEW q \in Requests, q # r
          PROVE  /\ ownership'[q] = ownership[q] /\ outcome'[q] = outcome[q] /\ req'[q] = req[q]
                 /\ q \in inbox' <=> q \in inbox
      BY <1>1, <2>4, <2>5, <3>1
    <3>2. ASSUME NEW q \in Requests, q = r
          PROVE  /\ ownership'[q].kind = "lease" /\ req'[q].state = "Assigned" /\ req'[q].intent = "none"
                 /\ retirements'[q] = "none" /\ lifecycle'[q] = "none" /\ q \notin inbox'
                 /\ confirm'[q] # "confirmed" /\ ~Started(q)'
      BY <1>1, <1>2, <1>8, <2>1, <2>4, <2>5, <2>8, <3>2
    <3> SUFFICES ASSUME NEW q \in Requests
                 PROVE  /\ ownership'[q].kind = "permit" <=> req'[q].state = "Queued"
                        /\ ownership'[q].kind = "lease" <=> req'[q].state = "Assigned" \/ Started(q)'
                        /\ req'[q].intent # "none" => Started(q)'
                        /\ req'[q].intent = "retry" => req'[q].attempts < MaxAttempts
                        /\ retirements'[q] # "none" \/ lifecycle'[q] # "none" => Started(q)'
                        /\ retirements'[q] = "lifecycle" => lifecycle'[q] # "none"
                        /\ q \in inbox' => answer'[q] = "none" /\ outcome'[q] = "unseen"
                        /\ confirm'[q] = "confirmed" => answer'[q] # "none" /\ q \notin inbox'
      BY DEF Books
    <3>3. CASE q = r
      BY <3>2, <3>3
    <3>4. CASE q # r
      <4>1. /\ ownership'[q] = ownership[q] /\ outcome'[q] = outcome[q] /\ req'[q] = req[q]
            /\ q \in inbox' <=> q \in inbox
            /\ retirements'[q] = retirements[q] /\ lifecycle'[q] = lifecycle[q]
            /\ answer'[q] = answer[q] /\ confirm'[q] = confirm[q]
            /\ Started(q)' <=> Started(q)
        BY <1>1, <1>8, <2>8, <3>1, <3>4
      <4> QED
        BY <1>3, <4>1 DEF Books
    <3> QED
      BY <3>3, <3>4
  <2>10. /\ \A q \in Requests, t \in Slots : q # r => (Owns(q, t)' <=> Owns(q, t))
         /\ \A t \in Slots : Owns(r, t)' <=> t = s
         /\ \A t \in Slots : ~Owns(r, t)
         /\ \A q \in Requests : ~Owns(q, s)
    <3>1. ownership[r].kind # "lease"
      BY <1>2, OwnersKnown
    <3>2. \A q \in Requests : ~Owns(q, s)
      BY <1>3, <2>4, QueueFacts
    <3> QED
      BY <2>0, <2>4, <3>1, <3>2 DEF Owns
  <2>11. ASSUME NEW t \in Slots, t # s PROVE OpenSlot(t)'
    <3>1. /\ worker'[t] = worker[t] /\ work'[t] = work[t] /\ reply'[t] = reply[t] /\ events'[t] = events[t]
          /\ alive'[t] = alive[t] /\ directive'[t] = directive[t] /\ directive[t] # "stop"
      BY <1>1, <1>3, <1>4, <1>8, <2>6, <2>11 DEF CoreTypes
    <3>2. \A q \in Requests :
             /\ Owns(q, t) => Owns(q, t)' /\ (Started(q) => Started(q)')
             /\ retirements'[q] = "continue" /\ Owns(q, t)' => retirements[q] = "continue" /\ Owns(q, t)
      BY <1>1, <2>8, <2>10, <2>11
    <3>3. OpenSlot(t) => OpenSlot(t)'
      BY <1>3, <3>1, <3>2, SlotSame
    <3> QED
      BY <1>8, <3>3, CoreKnown
  <2>12. OpenSlot(s)'
    <3>1. /\ OpenSlot(s) /\ events[s] \in Seq(Event)
          /\ worker[s] \in WorkerState /\ (Serving(s) => worker[s].req \in Requests)
          /\ (work[s] # NoWork => work[s].req \in Requests)
      BY <1>8, <2>4, CoreKnown, WorkerKnown DEF CoreTypes
    <3>2. worker[s].pc # "stopped"
      BY <2>10, <3>1 DEF OpenSlot
    <3>3. events[s] = <<>>
      <4>1. events[s] # <<>> => Ev(s) \in Event /\ Ev(s) = events[s][1] /\ 1 \in 1 .. Len(events[s])
        BY <3>1 DEF Ev
      <4>2. events[s] # <<>> => Sent(s, Ev(s))
        BY <2>4, <4>1, CoreKnown DEF SlotOK, Shape
      <4>3. events[s] # <<>> => Ev(s).type # "Stopped"
        BY <3>2, <4>2 DEF Sent, SentBy
      <4>4. events[s] # <<>> => Ev(s).req \in Requests
        BY <4>1, <4>3 DEF Event
      <4> QED
        BY <2>10, <3>1, <4>3, <4>4 DEF OpenSlot
    <3>4. Settled(s)
      <4>1. Serving(s) => Settled(s)
        BY <2>10, <3>1 DEF OpenSlot
      <4> QED
        BY <3>1, <3>2, <4>1 DEF Serving, Settled, WorkerState, Waits
    <3>5. /\ worker'[s] = worker[s] /\ reply'[s] = reply[s] /\ events'[s] = <<>> /\ directive'[s] = directive[s]
          /\ work'[s] = w /\ alive'[s] = TRUE /\ w.req = r /\ w.fresh = TRUE
      BY <1>1, <1>3, <2>4, <2>6, <3>3 DEF CoreTypes
    <3>6. Settled(s)' /\ (Serving(s)' => Settled(s)')
      BY <3>4, <3>5 DEF Settled
    <3>7. Owns(r, s)'
      BY <2>4, <2>10
    <3>8. \A q \in Requests : Owns(q, s)' => retirements'[q] # "continue"
      BY <1>1, <1>2, <2>10
    <3> QED
      BY <1>1, <2>4, <3>1, <3>2, <3>5, <3>6, <3>7, <3>8 DEF OpenSlot
  <2>13. CoreReads
    BY <1>1 DEF CoreReads
  <2> QED
    BY <1>1, <1>8, <2>3, <2>7, <2>9, <2>11, <2>12, <2>13, OpenKept
<1> QED
  BY <1>5, <1>6, <1>7, <1>8 DEF HandleCommand

\* The tick, which answers the waiters whose deadline has passed.
LEMMA HandleTickKeeps == ASSUME IInv, HandleTick PROVE IInv'
<1>1. /\ A!ExpireWaiting /\ Notify([q \in TimedOut |-> "timed_out"], confirm)
      /\ req' = [q \in Requests |-> IF q \in TimedOut THEN Absent ELSE req[q]]
      /\ UNCHANGED <<inbox, closeAsked, worker, alive, work, directive, reply, events, engine,
                     lifecycle, retirements, preCancelled>>
      /\ Closing' = Closing
  BY DEF HandleTick, callerVars, workerVars, channelVars, Closing, Closed
<1>2. QueueInv'
  BY <1>1, CoreKnown, QueueKept
<1>3. CoreTypes /\ Books /\ Told(confirm)
  BY CoreKnown DEF CoreTypes, Told
<1>4. TimedOut \subseteq Requests
  BY DEF TimedOut
<1>5. /\ answer' \in [Requests -> Results \cup {"none"}]
      /\ confirm' \in [Requests -> Confirmation]
      /\ \A q \in Requests :
            /\ q \in TimedOut => answer'[q] # "none"
            /\ q \notin TimedOut => answer'[q] = answer[q]
            /\ confirm'[q] = "confirmed" => q \in TimedOut \/ confirm[q] = "confirmed"
  <2> DEFINE N == [q \in TimedOut |-> "timed_out"]
  <2>1. DOMAIN N = TimedOut /\ DOMAIN N \subseteq Requests /\ \A q \in DOMAIN N : N[q] \in Results
    BY <1>4 DEF Results
  <2>2. Notify(N, confirm)
    BY <1>1
  <2> HIDE DEF N
  <2> QED
    BY <1>3, <2>1, <2>2, Notified
<1>6. /\ waiting \cap elapsed # {} /\ sealed' = sealed
      /\ ownership' = [q \in Requests |-> IF q \in waiting \cap elapsed THEN A!NoOwner ELSE ownership[q]]
      /\ outcome' = [q \in Requests |-> IF q \in waiting \cap elapsed THEN "timed_out" ELSE outcome[q]]
  BY <1>1 DEF A!ExpireWaiting, A!Disown
<1>7. \A q \in waiting : q \in Requests /\ req[q].state = "Queued" /\ outcome[q] = "queued"
  <2>1. waiting \subseteq Requests /\ waiting \subseteq A!Waiters
    BY CoreKnown, QueueFacts DEF A!TypeOK, A!Waiters
  <2> QED
    BY <2>1, OwnersKnown
<1>8. TimedOut = waiting \cap elapsed
  BY <1>6, <1>7 DEF TimedOut
<1>9. ~Closing
  BY <1>6, <1>7, CoreKnown DEF ClosingBooks
<1>10. Absent \in ReqRecord /\ Absent.state = "Absent" /\ Absent.intent = "none"
  BY AttemptsAssumption DEF Absent, ReqRecord, States, NoWire, WireType
<1>11. CoreTypes'
  <2>1. req' \in [Requests -> ReqRecord]
    BY <1>1, <1>3, <1>10 DEF CoreTypes
  <2> QED
    BY <1>1, <1>3, <1>5, <2>1 DEF CoreTypes
<1>12. ASSUME NEW q \in Requests
       PROVE  /\ Started(q)' <=> Started(q)
              /\ q \in TimedOut => /\ ~Started(q) /\ req'[q].state = "Absent" /\ req'[q].intent = "none"
                                   /\ ownership'[q] = A!NoOwner /\ q \notin inbox
                                   /\ ownership[q].kind # "lease"
              /\ q \notin TimedOut => /\ req'[q] = req[q] /\ ownership'[q] = ownership[q]
                                      /\ outcome'[q] = outcome[q]
  <2>1. req[q].state = "Queued" => ~Started(q) /\ q \notin inbox /\ ownership[q].kind # "lease"
    BY OwnersKnown
  <2>2. CASE q \in TimedOut
    BY <1>1, <1>6, <1>7, <1>8, <1>10, <2>1, <2>2 DEF Started, OnWire
  <2>3. CASE q \notin TimedOut
    BY <1>1, <1>6, <1>8, <2>3 DEF Started
  <2> QED
    BY <2>2, <2>3
<1>13. A!NoOwner.kind \notin {"permit", "lease"}
  BY DEF A!NoOwner
<1>14. Books'
  BY <1>1, <1>3, <1>5, <1>12, <1>13 DEF Books
<1>15. \A q \in Requests, t \in Slots : Owns(q, t) <=> Owns(q, t)'
  BY <1>12, <1>13 DEF Owns
<1>16. \A t \in Slots : directive[t] # "stop"
  BY <1>9, CoreKnown DEF OpenSlot
<1> QED
  BY <1>1, <1>2, <1>9, <1>11, <1>12, <1>14, <1>15, <1>16, SlotsSame

-----------------------------------------------------------------------------
(* The core: cancellations. *)

\* A started request whose record and plan change while it keeps its Slot.
LEMMA OneChanges ==
  ASSUME IInv, ~Closing, NEW r \in Requests, NEW y \in ReqRecord, req' = [req EXCEPT ![r] = y],
         ownership[r].kind = "lease", y.state \in OnWire \cup {"Retrying"},
         y.intent = "retry" => y.attempts < MaxAttempts,
         NEW p \in Retirement, retirements' = [retirements EXCEPT ![r] = p],
         p = "lifecycle" => p = retirements[r], Told(confirm'),
         UNCHANGED admissionVars,
         UNCHANGED <<engine, lifecycle, answer, inbox, closeAsked, preCancelled>>,
         directive' \in [Slots -> {"run", "stop"} \cup Requests],
         alive' \in [Slots -> BOOLEAN],
         work' \in [Slots -> [req : Requests \cup {NoRequest}, fresh : BOOLEAN]],
         \A s \in Slots : work'[s] # NoWork => work'[s].req \in Requests
  PROVE  /\ QueueInv' /\ CoreTypes' /\ Books' /\ ~Closing'
         /\ req'[r] = y /\ retirements'[r] = p /\ Started(r)'
         /\ \A q \in Requests : /\ Started(q) => Started(q)'
                                /\ \A t \in Slots : Owns(q, t)' <=> Owns(q, t)
                                /\ q # r => retirements'[q] = retirements[q]
<1>1. CoreTypes /\ Books
  BY CoreKnown
<1>2. QueueInv'
  BY CoreKnown, QueueKept
<1>3. /\ req' \in [Requests -> ReqRecord] /\ req'[r] = y
      /\ retirements' \in [Requests -> Retirement] /\ retirements'[r] = p
      /\ \A q \in Requests : q # r => req'[q] = req[q] /\ retirements'[q] = retirements[q]
  BY <1>1 DEF CoreTypes
<1>4. CoreTypes'
  BY <1>1, <1>3 DEF CoreTypes, Told
<1>5. /\ Started(r)' /\ req'[r].state # "Queued" /\ req'[r].state # "Assigned"
      /\ \A q \in Requests : q # r => (Started(q)' <=> Started(q))
  BY <1>3 DEF Started, OnWire
<1>6. UNCHANGED <<ownership, outcome>>
  BY DEF admissionVars
<1>7. Books'
  <2> SUFFICES ASSUME NEW q \in Requests
               PROVE  /\ ownership'[q].kind = "permit" <=> req'[q].state = "Queued"
                      /\ ownership'[q].kind = "lease" <=> req'[q].state = "Assigned" \/ Started(q)'
                      /\ req'[q].intent # "none" => Started(q)'
                      /\ req'[q].intent = "retry" => req'[q].attempts < MaxAttempts
                      /\ retirements'[q] # "none" \/ lifecycle'[q] # "none" => Started(q)'
                      /\ retirements'[q] = "lifecycle" => lifecycle'[q] # "none"
                      /\ q \in inbox' => answer'[q] = "none" /\ outcome'[q] = "unseen"
                      /\ confirm'[q] = "confirmed" => answer'[q] # "none" /\ q \notin inbox'
    BY DEF Books
  <2>1. confirm'[q] = "confirmed" => confirm[q] = "confirmed"
    BY DEF Told
  <2>2. CASE q = r
    BY <1>1, <1>3, <1>5, <1>6, <2>1, <2>2 DEF Books
  <2>3. CASE q # r
    BY <1>1, <1>3, <1>5, <1>6, <2>1, <2>3 DEF Books
  <2> QED
    BY <2>2, <2>3
<1>8. /\ ~Closing'
      /\ \A q \in Requests, t \in Slots : Owns(q, t)' <=> Owns(q, t)
  BY <1>6 DEF Closing, Closed, Owns
<1> QED
  BY <1>2, <1>3, <1>4, <1>5, <1>7, <1>8

\* A cancellation, wherever it meets its request.
LEMMA HandleCancelKeeps == ASSUME IInv, NEW r \in Requests, HandleCancel(r) PROVE IInv'
<1> DEFINE conf == [confirm EXCEPT ![r] = "held"]
<1>1. /\ confirm[r] = "asked" /\ ~Closed
      /\ UNCHANGED <<inbox, closeAsked, worker, alive, work, reply, events>>
  BY DEF HandleCancel, callerVars, workerVars
<1>2. CoreTypes /\ Books /\ Typed /\ QueueInv
  BY CoreKnown
<1>3. /\ Told(conf) /\ conf \in [Requests -> Confirmation]
      /\ \A q \in Requests : conf[q] = "confirmed" => confirm[q] = "confirmed"
  BY <1>2 DEF CoreTypes, Told, Confirmation
<1> HIDE DEF conf
<1>4. CoreReads
  BY <1>1 DEF CoreReads
<1>5. \A t \in Slots : ~Closing => directive[t] # "stop"
  BY CoreKnown DEF OpenSlot
<1>6. CASE CancelUnknown(r)
  <2>1. /\ preCancelled' = preCancelled \cup {r} /\ confirm' = conf /\ UNCHANGED admissionVars
        /\ UNCHANGED <<engine, req, lifecycle, retirements, answer, directive>>
    BY <1>6 DEF CancelUnknown, conf
  <2>2. QueueInv'
    BY <1>2, <2>1, QueueKept
  <2>3. CoreTypes'
    BY <1>1, <1>2, <1>3, <2>1 DEF CoreTypes
  <2>4. /\ Closing' = Closing /\ UNCHANGED <<ownership, outcome, sealed>>
        /\ \A q \in Requests : Started(q)' <=> Started(q)
    BY <2>1 DEF Closing, Closed, Started, admissionVars
  <2>5. Books'
    BY <1>1, <1>2, <1>3, <2>1, <2>4 DEF Books
  <2>6. Closing => ClosingBooks'
    BY <2>1, <2>4, CoreKnown DEF ClosingBooks
  <2>7. \A q \in Requests, t \in Slots : Owns(q, t)' <=> Owns(q, t)
    BY <2>4 DEF Owns
  <2> QED
    BY <1>1, <1>5, <2>1, <2>2, <2>3, <2>4, <2>5, <2>6, <2>7, SlotsSame
<1>7. CASE CancelQueued(r)
  <2> DEFINE N == [q \in {r} |-> "cancelled"]
  <2>1. /\ req[r].state = "Queued" /\ A!CancelWaiting(ownership[r]) /\ Notify(N, conf)
        /\ req' = [req EXCEPT ![r] = Absent]
        /\ UNCHANGED <<engine, lifecycle, retirements, preCancelled, directive>>
    BY <1>7 DEF CancelQueued, conf
  <2>2. ownership[r].kind = "permit" /\ r \notin inbox /\ ~Started(r)
    BY <2>1, OwnersKnown
  <2>3. QueueInv'
    BY <1>2, <2>1, <2>2, QueueKept
  <2>4. DOMAIN N = {r} /\ DOMAIN N \subseteq Requests /\ \A q \in DOMAIN N : N[q] \in Results
    BY DEF Results
  <2> HIDE DEF N
  <2>5. /\ answer' \in [Requests -> Results \cup {"none"}]
        /\ confirm' \in [Requests -> Confirmation]
        /\ \A q \in Requests :
              /\ q = r => answer'[q] # "none"
              /\ q # r => answer'[q] = answer[q]
              /\ confirm'[q] = "confirmed" => q = r \/ confirm[q] = "confirmed"
    BY <1>3, <2>1, <2>4, Notified
  <2>6. Absent \in ReqRecord /\ Absent.state = "Absent" /\ Absent.intent = "none"
    BY AttemptsAssumption DEF Absent, ReqRecord, States, NoWire, WireType
  <2>7. /\ req' \in [Requests -> ReqRecord] /\ req'[r] = Absent
        /\ \A q \in Requests : q # r => req'[q] = req[q]
    BY <1>2, <2>1, <2>6 DEF CoreTypes
  <2>8. CoreTypes'
    BY <1>1, <1>2, <2>1, <2>5, <2>7 DEF CoreTypes
  <2>9. /\ \A q \in Requests : q # r => ownership'[q] = ownership[q] /\ outcome'[q] = outcome[q]
        /\ ownership'[r].kind \notin {"permit", "lease"}
    <3>1. r \in A!Waiters
      BY <2>1, OwnersKnown
    <3>2. ownership[r] \in A!Permit /\ ownership[r].request = r
      <4>1. ownership[r] \in A!Permit
        BY <1>2, <2>2, QueueFacts
      <4>2. ownership[r].request = r
        BY <1>2, <2>2 DEF QueueInv, AP!Inv, AP!PermitsAreOnce
      <4> QED
        BY <4>1, <4>2
    <3> QED
      BY <2>1, <3>2 DEF A!CancelWaiting, A!Disown, A!NoOwner
  <2>10. \A q \in Requests : Started(q)' <=> Started(q)
    BY <2>2, <2>6, <2>7 DEF Started, OnWire
  <2>11. Books'
    <3> SUFFICES ASSUME NEW q \in Requests
                 PROVE  /\ ownership'[q].kind = "permit" <=> req'[q].state = "Queued"
                        /\ ownership'[q].kind = "lease" <=> req'[q].state = "Assigned" \/ Started(q)'
                        /\ req'[q].intent # "none" => Started(q)'
                        /\ req'[q].intent = "retry" => req'[q].attempts < MaxAttempts
                        /\ retirements'[q] # "none" \/ lifecycle'[q] # "none" => Started(q)'
                        /\ retirements'[q] = "lifecycle" => lifecycle'[q] # "none"
                        /\ q \in inbox' => answer'[q] = "none" /\ outcome'[q] = "unseen"
                        /\ confirm'[q] = "confirmed" => answer'[q] # "none" /\ q \notin inbox'
      BY DEF Books
    <3>1. CASE q = r
      BY <1>1, <1>2, <2>1, <2>2, <2>5, <2>6, <2>7, <2>9, <2>10, <3>1 DEF Books
    <3>2. CASE q # r
      <4>1. /\ ownership'[q] = ownership[q] /\ outcome'[q] = outcome[q] /\ req'[q] = req[q]
            /\ q \in inbox' <=> q \in inbox
            /\ retirements'[q] = retirements[q] /\ lifecycle'[q] = lifecycle[q]
            /\ answer'[q] = answer[q] /\ (confirm'[q] = "confirmed" => confirm[q] = "confirmed")
            /\ Started(q)' <=> Started(q)
        BY <1>1, <2>1, <2>5, <2>7, <2>9, <2>10, <3>2
      <4> QED
        BY <1>2, <4>1 DEF Books
    <3> QED
      BY <3>1, <3>2
  <2>12. ~Closing /\ Closing' = Closing
    <3>1. ~Closing
      BY <2>1, CoreKnown DEF ClosingBooks
    <3> QED
      BY <2>1, <3>1 DEF Closing, Closed
  <2>13. \A q \in Requests, t \in Slots : Owns(q, t) <=> Owns(q, t)'
    BY <2>2, <2>9 DEF Owns
  <2> QED
    BY <1>1, <1>5, <2>1, <2>3, <2>8, <2>10, <2>11, <2>12, <2>13, SlotsSame
<1>8. ASSUME NEW s \in Slots
      PROVE  /\ [directive EXCEPT ![s] = r] \in [Slots -> {"run", "stop"} \cup Requests]
             /\ \A t \in Slots : ~Closing => [directive EXCEPT ![s] = r][t] # "stop"
  <2>1. r # "stop"
    BY DirectiveAssumption
  <2> QED
    BY <1>2, <1>5, <2>1 DEF CoreTypes
<1>9. CASE CancelDispatched(r)
  <2>1. /\ req[r].state = "Assigned" /\ directive' = [directive EXCEPT ![SlotOf(r)] = r]
        /\ confirm' = conf /\ UNCHANGED admissionVars
        /\ UNCHANGED <<engine, req, lifecycle, retirements, answer, preCancelled>>
    BY <1>9 DEF CancelDispatched, conf
  <2>2. SlotOf(r) \in Slots
    BY <2>1, OwnersKnown
  <2>3. /\ directive' \in [Slots -> {"run", "stop"} \cup Requests]
        /\ \A t \in Slots : ~Closing => directive'[t] # "stop"
    BY <1>8, <2>1, <2>2
  <2>4. QueueInv'
    BY <1>2, <2>1, QueueKept
  <2>5. CoreTypes'
    BY <1>1, <1>2, <1>3, <2>1, <2>3 DEF CoreTypes
  <2>6. /\ Closing' = Closing /\ UNCHANGED <<ownership, outcome, sealed>>
        /\ \A q \in Requests : Started(q)' <=> Started(q)
        /\ ~Closing
    BY <2>1, CoreKnown DEF Closing, Closed, Started, admissionVars, ClosingBooks
  <2>7. Books'
    BY <1>1, <1>2, <1>3, <2>1, <2>6 DEF Books
  <2>8. \A q \in Requests, t \in Slots : Owns(q, t)' <=> Owns(q, t)
    BY <2>6 DEF Owns
  <2>9. \A t \in Slots : directive[t] = "stop" => directive'[t] = "stop"
    BY <1>5, <2>6
  <2> QED
    BY <1>1, <2>1, <2>3, <2>4, <2>5, <2>6, <2>7, <2>8, <2>9, SlotsSame
<1>10. CASE CancelOnWire(r)
  <2> DEFINE y == [req[r] EXCEPT !.intent = "terminal", !.failed = TRUE]
  <2>1. /\ ~Closing /\ req[r].state \in OnWire
        /\ req' = [req EXCEPT ![r] = y] /\ retirements' = [retirements EXCEPT ![r] = "cancel"]
        /\ directive' = [directive EXCEPT ![SlotOf(r)] = r]
        /\ confirm' = conf /\ UNCHANGED admissionVars
        /\ UNCHANGED <<engine, lifecycle, answer, preCancelled>>
    BY <1>10 DEF CancelOnWire, MayRetire, conf
  <2>2. /\ y \in ReqRecord /\ y.state = req[r].state /\ y.intent = "terminal"
        /\ ownership[r].kind = "lease" /\ SlotOf(r) \in Slots
    <3>1. req[r] \in ReqRecord /\ Started(r)
      BY <2>1, OwnersKnown DEF Started
    <3> QED
      BY <3>1, OwnersKnown DEF ReqRecord
  <2> HIDE DEF y
  <2>3. /\ directive' \in [Slots -> {"run", "stop"} \cup Requests]
        /\ \A t \in Slots : directive'[t] # "stop"
    BY <1>8, <2>1, <2>2
  <2>4. "cancel" \in Retirement /\ Told(confirm')
    BY <1>3, <2>1 DEF Retirement
  <2>5. /\ alive' \in [Slots -> BOOLEAN]
        /\ work' \in [Slots -> [req : Requests \cup {NoRequest}, fresh : BOOLEAN]]
        /\ \A s \in Slots : work'[s] # NoWork => work'[s].req \in Requests
    BY <1>1, <1>2 DEF CoreTypes
  <2>6. /\ QueueInv' /\ CoreTypes' /\ Books' /\ ~Closing'
        /\ retirements'[r] = "cancel"
        /\ \A q \in Requests : /\ Started(q) => Started(q)'
                               /\ \A t \in Slots : Owns(q, t)' <=> Owns(q, t)
                               /\ q # r => retirements'[q] = retirements[q]
    BY <1>1, <2>1, <2>2, <2>3, <2>4, <2>5, OneChanges
  <2>7. \A t \in Slots : directive[t] # "stop"
    BY <1>5, <2>1
  <2> QED
    <3>1. \A q \in Requests :
             /\ \A t \in Slots : Owns(q, t) <=> Owns(q, t)'
             /\ Started(q) => Started(q)'
             /\ retirements'[q] = "continue" => retirements[q] = "continue"
      BY <2>6
    <3>2. /\ Closing' = Closing /\ (Closing => ClosingBooks')
          /\ \A t \in Slots : /\ directive[t] = "stop" => directive'[t] = "stop"
                              /\ ~Closing => directive'[t] # "stop"
      BY <2>1, <2>3, <2>6, <2>7 DEF Closing, Closed
    <3> QED
      BY <1>1, <2>6, <3>1, <3>2, SlotsSame
<1>11. CASE CancelStale(r)
  <2>1. Fail("cancellation was stale", {}, conf) /\ UNCHANGED preCancelled
    BY <1>11 DEF CancelStale, conf
  <2>2. /\ alive' \in [Slots -> BOOLEAN] /\ \A q \in {} : Started(q) /\ worker[SlotOf(q)].pc = "stopped"
    BY <1>1, <1>2 DEF CoreTypes
  <2> QED
    BY <1>1, <1>3, <1>4, <2>1, <2>2, FailKeeps
<1> QED
  BY <1>6, <1>7, <1>9, <1>10, <1>11 DEF HandleCancel

-----------------------------------------------------------------------------
(* The core: the workers' events. *)

\* A report that is accepted: the worker goes on with the request it has.
LEMMA AcceptedKeeps ==
  ASSUME IInv, ~Closing, NEW s \in Slots, NEW type \in {"Transition", "Bytes", "Failed"},
         Took(s, type), Answered(s, "ok"), UNCHANGED <<worker, work, alive, directive>>,
         NEW r \in Requests, r = Ev(s).req,
         QueueInv', CoreTypes', Books', ~Closing', Started(r)',
         \A q \in Requests : /\ Started(q) => Started(q)'
                             /\ \A t \in Slots : Owns(q, t)' <=> Owns(q, t)
                             /\ q # r => retirements'[q] = retirements[q],
         retirements'[r] = "continue" => retirements[r] = "continue" \/ worker[s].left > 0
  PROVE  IInv'
<1>1. CoreReads
  BY DEF CoreReads, Reports
<1>2. /\ Ev(s) \in Event /\ Ev(s).type = type /\ Sent(s, Ev(s))
      /\ \A t \in Slots : t # s => events'[t] = events[t]
      /\ events'[s] = <<>> /\ work[s] = NoWork /\ Owns(r, s) /\ worker[s].pc # "stopped"
  BY EventKnown
<1>3. /\ worker[s].req = r
      /\ worker[s].pc \in Waits \ {"Completed"}
  BY <1>2 DEF Sent, SentBy, Reports, Event, Follows, Waits
<1>4. reply'[s] = "ok" /\ \A t \in Slots : t # s => reply'[t] = reply[t]
  <2>1. reply \in [Slots -> {"none", "ok", "err"}]
    BY CoreKnown DEF Typed, TypeOK
  <2> QED
    BY <2>1 DEF Answered
<1>5. Typed /\ \A t \in Slots : OpenSlot(t) /\ directive[t] # "stop"
  BY CoreKnown DEF OpenSlot
<1>6. \A q \in Requests, t \in Slots : Owns(q, t) /\ Owns(r, t) => q = r
  BY CoreKnown, QueueFacts
<1>7. ASSUME NEW t \in Slots, t # s PROVE OpenSlot(t)'
  <2>1. ~Owns(r, t)
    BY <1>2, <1>7 DEF Owns
  <2>2. \A q \in Requests :
           /\ Owns(q, t) => Owns(q, t)' /\ (Started(q) => Started(q)')
           /\ retirements'[q] = "continue" /\ Owns(q, t)' => retirements[q] = "continue" /\ Owns(q, t)
    BY <2>1
  <2>3. OpenSlot(t) => OpenSlot(t)'
    BY <1>2, <1>4, <1>5, <1>7, <2>2, SlotSame
  <2> QED
    BY <1>5, <2>3
<1>8. OpenSlot(s)'
  <2>1. Owns(r, s)' /\ worker[s].pc \notin {"idle", "stopped"}
    BY <1>2, <1>3 DEF Waits
  <2>2. ~(Settled(s)')
    BY <1>3, <2>1 DEF Settled
  <2>3. ASSUME NEW q \in Requests, retirements'[q] = "continue", Owns(q, s)'
        PROVE  worker[s].left > 0
    <3>1. Owns(q, s) /\ q = r
      BY <1>2, <1>6, <2>3
    <3> QED
      BY <1>5, <2>3, <3>1 DEF OpenSlot
  <2> QED
    BY <1>2, <1>3, <1>4, <1>5, <2>1, <2>2, <2>3 DEF OpenSlot
<1> QED
  BY <1>1, <1>7, <1>8, OpenKept

\* The Slot of a request that has ended takes its next one, or becomes idle.
LEMMA FinishKeeps ==
  ASSUME IInv, NEW s \in Slots, NEW type \in {"Completed", "Unstarted", "Retired"}, Took(s, type),
         IF type = "Completed" THEN Answered(s, "ok") ELSE UNCHANGED reply,
         UNCHANGED worker, NEW r \in Requests, r = Ev(s).req, Owns(r, s),
         NEW why \in Results, Finish(r, why, confirm),
         UNCHANGED <<engine, inbox, closeAsked, preCancelled, directive>>
  PROVE  IInv'
<1>1. CoreReads
  BY DEF CoreReads, Reports
<1>2. /\ Ev(s) \in Event /\ Ev(s).type = type /\ Sent(s, Ev(s))
      /\ \A t \in Slots : t # s => events'[t] = events[t]
      /\ ~Closing => events'[s] = <<>> /\ work[s] = NoWork /\ worker[s].pc # "stopped"
  BY EventKnown
<1>3. /\ worker[s].pc \in {"idle", "stopped", "Completed"}
      /\ worker[s].pc = "Completed" => type = "Completed"
  BY <1>2 DEF Sent, SentBy, Reports
<1>4. Told(confirm) /\ ownership[r].kind = "lease" /\ SlotOf(r) = s
  BY CoreKnown DEF Told, CoreTypes, Owns, SlotOf
<1>5. /\ QueueInv' /\ CoreTypes' /\ Books' /\ Closing' = Closing
      /\ Closing => ClosingBooks' /\ work' = work
      /\ \A q \in Requests : /\ Started(q)' <=> q # r /\ Started(q)
                             /\ retirements'[q] = "continue" => q # r /\ retirements[q] = "continue"
      /\ \/ /\ UNCHANGED <<work, alive>>
            /\ \A q \in Requests, t \in Slots : Owns(q, t)' <=> q # r /\ Owns(q, t)
         \/ \E p \in Requests :
               /\ p # r /\ ~Started(p) /\ ~Closing /\ (\A t \in Slots : ~Owns(p, t))
               /\ work' = [work EXCEPT ![s] = [req |-> p, fresh |-> TRUE]]
               /\ alive' = [alive EXCEPT ![s] = TRUE]
               /\ \A t \in Slots : Owns(p, t)' <=> t = s
               /\ \A q \in Requests, t \in Slots : q # p => (Owns(q, t)' <=> q # r /\ Owns(q, t))
  BY <1>4, FinishEffect
<1>6. /\ reply'[s] = IF type = "Completed" THEN "ok" ELSE reply[s]
      /\ \A t \in Slots : t # s => reply'[t] = reply[t]
  <2>1. reply \in [Slots -> {"none", "ok", "err"}]
    BY CoreKnown DEF Typed, TypeOK
  <2> QED
    BY <2>1 DEF Answered
<1>7. \A t \in Slots : t # s => ~Owns(r, t)
  BY DEF Owns
<1>8. CASE Closing
  <2>1. ASSUME NEW t \in Slots PROVE ClosingSlot(t)'
    <3>1. ClosingSlot(t) /\ Typed
      BY <1>8, CoreKnown
    <3>2. CASE t = s
      BY <1>3, <1>5, <1>8, <3>1, <3>2 DEF ClosingSlot, AtIO, Waits
    <3>3. ASSUME t # s, Owns(worker[t].req, t), Serving(t) PROVE Owns(worker[t].req, t)'
      <4>1. worker[t].req \in Requests
        BY <3>1, <3>3 DEF Typed
      <4>2. PICK q \in Requests : q = worker[t].req
        BY <4>1
      <4>3. Owns(q, t)'
        BY <1>5, <1>7, <1>8, <3>3, <4>2
      <4> QED
        BY <4>2, <4>3 DEF Owns
    <3>4. CASE t # s
      BY <1>5, <1>6, <1>8, <3>1, <3>3, <3>4 DEF ClosingSlot, Serving
    <3> QED
      BY <3>2, <3>4
  <2> QED
    BY <1>1, <1>5, <1>8, <2>1, ClosingKept
<1>9. CASE ~Closing
  <2>1. Typed /\ CoreTypes /\ \A t \in Slots : OpenSlot(t) /\ directive[t] # "stop"
    BY <1>9, CoreKnown DEF OpenSlot
  <2>2. ASSUME NEW t \in Slots, t # s PROVE OpenSlot(t)'
    <3>1. work'[t] = work[t] /\ alive'[t] = alive[t]
      BY <1>5, <2>1, <2>2 DEF CoreTypes
    <3>2. ASSUME NEW q \in Requests
          PROVE  /\ Owns(q, t) => Owns(q, t)' /\ (Started(q) => Started(q)')
                 /\ Owns(q, t)' => Owns(q, t)
      <4>1. Owns(q, t) => q # r
        BY <1>7, <2>2
      <4>2. CASE \A x \in Requests, u \in Slots : Owns(x, u)' <=> x # r /\ Owns(x, u)
        BY <1>5, <4>1, <4>2
      <4>3. ASSUME NEW p \in Requests, p # r, \A u \in Slots : ~Owns(p, u), \A u \in Slots : Owns(p, u)' <=> u = s,
                   \A x \in Requests, u \in Slots : x # p => (Owns(x, u)' <=> x # r /\ Owns(x, u))
            PROVE  /\ Owns(q, t) => Owns(q, t)' /\ (Started(q) => Started(q)')
                   /\ Owns(q, t)' => Owns(q, t)
        <5> QED
          BY <1>5, <2>2, <4>1, <4>3
      <4> QED
        BY <1>5, <4>2, <4>3
    <3>3. \A q \in Requests :
             retirements'[q] = "continue" /\ Owns(q, t)' => retirements[q] = "continue" /\ Owns(q, t)
      BY <1>5, <3>2
    <3>4. OpenSlot(t) => OpenSlot(t)'
      BY <1>2, <1>6, <2>1, <2>2, <3>1, <3>2, <3>3, SlotSame
    <3> QED
      BY <2>1, <3>4
  <2>3. /\ events'[s] = <<>> /\ work[s] = NoWork /\ OpenSlot(s) /\ worker[s].pc # "stopped"
        /\ \A q \in Requests : Owns(q, s) => q = r
    <3>1. QueueInv
      BY CoreKnown
    <3> QED
      BY <1>2, <1>9, <2>1, <3>1, QueueFacts
  <2>4. Settled(s)'
    BY <1>3, <1>6, <2>3 DEF Settled
  <2>5. reply'[s] # "err"
    BY <1>6, <2>3 DEF OpenSlot
  <2>6. /\ work'[s] # NoWork => work'[s].fresh /\ alive'[s] /\ \E q \in Requests : q = work'[s].req /\ Owns(q, s)'
        /\ \A q \in Requests : Owns(q, s)' => retirements'[q] # "continue"
    <3>1. CASE /\ UNCHANGED <<work, alive>>
               /\ \A x \in Requests, u \in Slots : Owns(x, u)' <=> x # r /\ Owns(x, u)
      BY <2>3, <3>1
    <3>2. ASSUME NEW p \in Requests, p # r, ~Started(p),
                 work' = [work EXCEPT ![s] = [req |-> p, fresh |-> TRUE]],
                 alive' = [alive EXCEPT ![s] = TRUE],
                 \A u \in Slots : Owns(p, u)' <=> u = s,
                 \A x \in Requests, u \in Slots : x # p => (Owns(x, u)' <=> x # r /\ Owns(x, u))
          PROVE  /\ work'[s].fresh /\ alive'[s] /\ \E q \in Requests : q = work'[s].req /\ Owns(q, s)'
                 /\ \A q \in Requests : Owns(q, s)' => retirements'[q] # "continue"
      <4>1. work'[s] = [req |-> p, fresh |-> TRUE] /\ alive'[s] /\ Owns(p, s)'
        BY <2>1, <3>2 DEF CoreTypes
      <4>2. ASSUME NEW q \in Requests, Owns(q, s)' PROVE q = p
        BY <2>3, <3>2, <4>2
      <4>3. retirements'[p] # "continue"
        <5>1. retirements[p] = "none"
          BY <3>2, CoreKnown DEF Books
        <5> QED
          BY <1>5, <5>1
      <4> QED
        BY <4>1, <4>2, <4>3
    <3> QED
      BY <1>5, <3>1, <3>2
  <2>7. OpenSlot(s)'
    <3>1. work'[s] # NoWork => Owns(work[s].req, s)'
      BY <2>6 DEF Owns
    <3>2. ~(Serving(s) /\ ~Settled(s))'
      BY <2>4
    <3>3. Len(events'[s]) = 0
      BY <2>3
    <3> QED
      BY <1>3, <2>1, <2>3, <2>4, <2>5, <2>6, <3>1, <3>2, <3>3 DEF OpenSlot
  <2> QED
    BY <1>1, <1>5, <1>9, <2>2, <2>7, OpenKept
<1> QED
  BY <1>8, <1>9

\* The core takes an event, keeps its queue, and fails.
LEMMA EventFailsKeeps ==
  ASSUME IInv, NEW why, Fail(why, {}, confirm), CoreReads,
         \A t \in Slots : reply'[t] = "ok" => reply[t] = "ok",
         UNCHANGED <<work, inbox, closeAsked, preCancelled>>, alive' \in [Slots -> BOOLEAN]
  PROVE  IInv'
<1>1. Told(confirm)
  BY CoreKnown DEF Told, CoreTypes
<1>2. \A q \in {} : Started(q) /\ worker[SlotOf(q)].pc = "stopped"
  OBVIOUS
<1> QED
  BY <1>1, <1>2, FailKeeps

\* A report that is rejected, which fails an open engine.
LEMMA RejectedKeeps ==
  ASSUME IInv, NEW s \in Slots, NEW type \in Reports, Took(s, type), Answered(s, "err"),
         NEW why, IF Closing THEN SameCore ELSE Fail(why, {}, confirm),
         FromEvent, UNCHANGED <<alive, work>>
  PROVE  IInv'
<1>1. CoreReads /\ UNCHANGED <<work, inbox, closeAsked, preCancelled>> /\ alive' \in [Slots -> BOOLEAN]
  BY CoreKnown DEF CoreReads, FromEvent, callerVars, workerVars, CoreTypes
<1>2. \A t \in Slots : reply'[t] = "ok" => reply[t] = "ok"
  <2>1. reply \in [Slots -> {"none", "ok", "err"}]
    BY CoreKnown DEF Typed, TypeOK
  <2> QED
    BY <2>1 DEF Answered
<1>3. CASE Closing
  BY <1>1, <1>2, <1>3, SameCoreKeeps
<1>4. CASE ~Closing
  BY <1>1, <1>2, <1>4, EventFailsKeeps
<1> QED
  BY <1>3, <1>4

\* A report that is accepted, in the tracker's words.
LEMMA GoesOnKeeps ==
  ASSUME IInv, ~Closing, NEW s \in Slots, NEW type \in {"Transition", "Bytes", "Failed"},
         Took(s, type), Answered(s, "ok"), FromEvent, UNCHANGED <<alive, work>>,
         UNCHANGED <<admissionVars, engine, fatal, lifecycle, answer, confirm, directive>>,
         NEW r \in Requests, r = Ev(s).req,
         req' = [req EXCEPT ![r] = req'[r]], req'[r] \in ReqRecord,
         req'[r].state \in OnWire \cup {"Retrying"},
         req'[r].intent = "retry" => req'[r].attempts < MaxAttempts,
         retirements' = [retirements EXCEPT ![r] = retirements'[r]], retirements'[r] \in Retirement,
         retirements'[r] = "lifecycle" => retirements[r] = "lifecycle",
         retirements'[r] = "continue" => retirements[r] = "continue" \/ worker[s].left > 0
  PROVE  IInv'
<1>1. CoreTypes /\ Owns(r, s) /\ ownership[r].kind = "lease"
  BY CoreKnown, EventKnown DEF Owns
<1>2. /\ Told(confirm') /\ UNCHANGED <<inbox, closeAsked, preCancelled, worker>>
      /\ directive' \in [Slots -> {"run", "stop"} \cup Requests]
      /\ alive' \in [Slots -> BOOLEAN]
      /\ work' \in [Slots -> [req : Requests \cup {NoRequest}, fresh : BOOLEAN]]
      /\ \A t \in Slots : work'[t] # NoWork => work'[t].req \in Requests
  BY <1>1 DEF CoreTypes, Told, FromEvent, callerVars, workerVars
<1>3. PICK y \in ReqRecord, p \in Retirement : y = req'[r] /\ p = retirements'[r]
  OBVIOUS
<1>4. /\ QueueInv' /\ CoreTypes' /\ Books' /\ ~Closing' /\ Started(r)'
      /\ \A q \in Requests : /\ Started(q) => Started(q)'
                             /\ \A t \in Slots : Owns(q, t)' <=> Owns(q, t)
                             /\ q # r => retirements'[q] = retirements[q]
  <2>1. /\ req' = [req EXCEPT ![r] = y] /\ y.state \in OnWire \cup {"Retrying"}
        /\ (y.intent = "retry" => y.attempts < MaxAttempts)
        /\ retirements' = [retirements EXCEPT ![r] = p]
        /\ (p = "lifecycle" => p = retirements[r])
    BY <1>3
  <2> QED
    BY <1>1, <1>2, <2>1, OneChanges
<1> QED
  BY <1>2, <1>4, AcceptedKeeps

\* A worker reports the next state of its request.
LEMMA HandleTransitionKeeps == ASSUME IInv, NEW s \in Slots, HandleTransition(s) PROVE IInv'
<1>1. Took(s, "Transition") /\ FromEvent /\ UNCHANGED <<alive, work>>
  BY DEF HandleTransition
<1>2. CASE Answered(s, "err") /\ IF Closing THEN SameCore ELSE Fail("transition was rejected", {}, confirm)
  <2>1. "Transition" \in Reports
    BY SMTT(30) DEF Reports
  <2> QED
    BY <1>1, <1>2, <2>1, RejectedKeeps
<1>3. ASSUME NEW r, NEW to, NEW w, r = Ev(s).req, to = Ev(s).to, w = Ev(s).wire,
             MayAdvance(r, to, w), Answered(s, "ok"),
             req' = [req EXCEPT ![r].state = to, ![r].wire = w, ![r].shown = w],
             UNCHANGED <<admissionVars, engine, fatal, lifecycle, retirements, answer, confirm, directive>>
      PROVE  IInv'
  <2> DEFINE y == [req[r] EXCEPT !.state = to, !.wire = w, !.shown = w]
  <2>1. ~Closing /\ CoreTypes /\ req[r].intent = "none"
    BY <1>3, CoreKnown DEF MayAdvance
  <2>2. r \in Requests /\ to \in DOMAIN Follows /\ w \in WireType
    <3>1. Ev(s) \in Event /\ Ev(s).type = "Transition" /\ Ev(s).req \in Requests
      BY <1>1, EventKnown
    <3> QED
      BY <1>3, <3>1 DEF Event
  <2>3. to \in OnWire /\ to \in States
    BY <2>2 DEF Follows, OnWire, States
  <2>4. y \in ReqRecord /\ y.state = to /\ y.intent = "none"
    <3>1. req[r] \in ReqRecord
      BY <2>1, <2>2 DEF CoreTypes
    <3> QED
      BY <2>1, <2>2, <2>3, <3>1 DEF ReqRecord
  <2>5. /\ req' = [req EXCEPT ![r] = y] /\ req'[r] = y
        /\ retirements' = [retirements EXCEPT ![r] = retirements'[r]]
        /\ retirements'[r] = retirements[r] /\ retirements'[r] \in Retirement
    BY <1>3, <2>1, <2>2 DEF CoreTypes
  <2> HIDE DEF y
  <2> QED
    BY <1>1, <1>3, <2>1, <2>2, <2>3, <2>4, <2>5, GoesOnKeeps
<1> QED
  BY <1>2, <1>3 DEF HandleTransition

\* A worker reports that the request's bytes have gone out.
LEMMA HandleBytesKeeps == ASSUME IInv, NEW s \in Slots, HandleBytes(s) PROVE IInv'
<1>1. Took(s, "Bytes") /\ FromEvent /\ UNCHANGED <<alive, work>>
  BY DEF HandleBytes
<1>2. CASE Answered(s, "err") /\ IF Closing THEN SameCore ELSE Fail("send boundary was rejected", {}, confirm)
  <2>1. "Bytes" \in Reports
    BY DEF Reports
  <2> QED
    BY <1>1, <1>2, <2>1, RejectedKeeps
<1>3. ASSUME NEW r, r = Ev(s).req, req[r].intent = "none", req[r].state \in {"Sending", "WaitingResponse"},
             Answered(s, "ok"), req' = [req EXCEPT ![r].sent = TRUE],
             UNCHANGED <<admissionVars, engine, fatal, lifecycle, retirements, answer, confirm, directive>>
      PROVE  IInv'
  <2> DEFINE y == [req[r] EXCEPT !.sent = TRUE]
  <2>1. CoreTypes /\ r \in Requests
    BY <1>1, <1>3, CoreKnown, EventKnown
  <2>2. ~Closing
    <3>1. Started(r)
      BY <1>3 DEF Started, OnWire
    <3> QED
      BY <1>3, <2>1, <3>1, CoreKnown DEF ClosingBooks
  <2>3. y \in ReqRecord /\ y.state \in OnWire /\ y.intent = "none"
    <3>1. req[r] \in ReqRecord
      BY <2>1 DEF CoreTypes
    <3> QED
      BY <1>3, <3>1 DEF ReqRecord, OnWire
  <2>4. /\ req' = [req EXCEPT ![r] = y] /\ req'[r] = y
        /\ retirements' = [retirements EXCEPT ![r] = retirements'[r]]
        /\ retirements'[r] = retirements[r] /\ retirements'[r] \in Retirement
    BY <1>3, <2>1 DEF CoreTypes
  <2> HIDE DEF y
  <2> QED
    BY <1>1, <1>3, <2>1, <2>2, <2>3, <2>4, GoesOnKeeps
<1> QED
  BY <1>2, <1>3 DEF HandleBytes

\* A worker reports a failure: the next endpoint, a retry or the end.
LEMMA HandleFailedKeeps == ASSUME IInv, NEW s \in Slots, HandleFailed(s) PROVE IInv'
<1>0. Took(s, "Failed") /\ FromEvent /\ UNCHANGED <<alive, work>>
  BY DEF HandleFailed
<1>1. /\ Took(s, "Failed") /\ FromEvent /\ UNCHANGED <<alive, work>>
      /\ Ev(s) \in Event /\ Ev(s).type = "Failed" /\ Sent(s, Ev(s)) /\ Ev(s).req \in Requests
      /\ Ev(s).type \in Reports /\ "Failed" \in Reports
  BY <1>0, EventKnown DEF Reports
<1>2. /\ worker[s].pc = "Failed" /\ (Ev(s).same => worker[s].left > 0)
      /\ CoreTypes /\ Books
  BY <1>1, CoreKnown DEF Sent, SentBy
<1>3. CASE Closing /\ Answered(s, "ok")
           /\ retirements' = (IF lifecycle[Ev(s).req] = "none" THEN retirements
                              ELSE [retirements EXCEPT ![Ev(s).req] = "lifecycle"])
           /\ UNCHANGED <<admissionVars, engine, fatal, req, lifecycle, answer, confirm, directive>>
  <2>1. CoreReads /\ Closing' /\ UNCHANGED <<inbox, closeAsked, preCancelled>>
    BY <1>1, <1>3 DEF CoreReads, FromEvent, callerVars, workerVars, Closing, Closed
  <2>2. retirements' \in [Requests -> Retirement]
    BY <1>2, <1>3 DEF CoreTypes, Retirement
  <2>3. CoreTypes'
    BY <1>1, <1>2, <1>3, <2>1, <2>2 DEF CoreTypes
  <2>4. reply \in [Slots -> {"none", "ok", "err"}]
    BY CoreKnown DEF Typed, TypeOK
  <2>5. \A t \in Slots : reply'[t] = "ok" => reply[t] = "ok" \/ worker[t].pc \in {"Completed", "Failed"}
    BY <1>2, <1>3, <2>4 DEF Answered
  <2>6. ASSUME NEW q \in Requests
        PROVE  /\ retirements'[q] # "none" \/ lifecycle'[q] # "none" => Started(q)
               /\ retirements'[q] = "lifecycle" => lifecycle'[q] # "none"
               /\ q \in inbox' => answer'[q] = "none" /\ outcome[q] = "unseen"
               /\ confirm'[q] = "confirmed" => answer'[q] # "none" /\ q \notin inbox'
    <3>1. /\ retirements[q] # "none" \/ lifecycle[q] # "none" => Started(q)
          /\ retirements[q] = "lifecycle" => lifecycle[q] # "none"
          /\ q \in inbox => answer[q] = "none" /\ outcome[q] = "unseen"
          /\ confirm[q] = "confirmed" => answer[q] # "none" /\ q \notin inbox
      BY <1>2 DEF Books
    <3>2. retirements'[q] = retirements[q] \/ (retirements'[q] = "lifecycle" /\ lifecycle[q] # "none")
      BY <1>2, <1>3 DEF CoreTypes
    <3> QED
      BY <1>3, <2>1, <3>1, <3>2
  <2> QED
    BY <1>1, <1>3, <2>1, <2>3, <2>5, <2>6, ClosingSame
<1>4. CASE ~Closing /\ Ev(s).same /\ Answered(s, "ok")
           /\ retirements' = [retirements EXCEPT ![Ev(s).req] = "continue"]
           /\ UNCHANGED <<admissionVars, engine, fatal, req, lifecycle, answer, confirm, directive>>
  <2>1. PICK r \in Requests : r = Ev(s).req
    BY <1>1
  <2>2. Started(r)
    BY <1>1, <1>4, <2>1, EventKnown
  <2>3. /\ req' = [req EXCEPT ![r] = req'[r]] /\ req'[r] = req[r] /\ req[r] \in ReqRecord
        /\ retirements' = [retirements EXCEPT ![r] = retirements'[r]] /\ retirements'[r] = "continue"
        /\ "continue" \in Retirement
    BY <1>2, <1>4, <2>1 DEF CoreTypes, Retirement
  <2>4. /\ req'[r].state \in OnWire \cup {"Retrying"}
        /\ req'[r].intent = "retry" => req'[r].attempts < MaxAttempts
        /\ req'[r] \in ReqRecord /\ retirements'[r] \in Retirement
        /\ (retirements'[r] = "lifecycle" => retirements[r] = "lifecycle")
        /\ (retirements'[r] = "continue" => retirements[r] = "continue" \/ worker[s].left > 0)
    BY <1>2, <1>4, <2>2, <2>3 DEF Started, Books
  <2> QED
    BY <1>1, <1>2, <1>4, <2>1, <2>3, <2>4, GoesOnKeeps
<1>5. ASSUME MayRetire(Ev(s).req, Ev(s).wire), Answered(s, "ok"),
             IF MustStop(Ev(s).req)
             THEN /\ req' = [req EXCEPT ![Ev(s).req].intent = "terminal", ![Ev(s).req].failed = TRUE]
                  /\ retirements' = [retirements EXCEPT ![Ev(s).req] = "fail"]
             ELSE /\ req' = [req EXCEPT ![Ev(s).req].intent = "retry", ![Ev(s).req].failed = TRUE,
                                        ![Ev(s).req].state = "Retrying"]
                  /\ retirements' = [retirements EXCEPT ![Ev(s).req] = "retry"],
             UNCHANGED <<admissionVars, engine, fatal, lifecycle, answer, confirm, directive>>
      PROVE  IInv'
  <2>1. PICK r \in Requests : r = Ev(s).req
    BY <1>1
  <2>2. /\ ~Closing /\ req[r].state \in OnWire /\ req[r] \in ReqRecord /\ req[r].attempts \in Nat
        /\ ~MustStop(r) => ~(req[r].attempts >= MaxAttempts)
    BY <1>2, <1>5, <2>1 DEF MayRetire, CoreTypes, ReqRecord, MustStop
  <2>3. /\ req' = [req EXCEPT ![r] = req'[r]]
        /\ req'[r] \in ReqRecord
        /\ req'[r].state \in OnWire \cup {"Retrying"}
        /\ (req'[r].intent = "retry" => req'[r].attempts < MaxAttempts)
    <3>1. CASE MustStop(r)
      <4> DEFINE y == [req[r] EXCEPT !.intent = "terminal", !.failed = TRUE]
      <4>1. y \in ReqRecord /\ y.state = req[r].state /\ y.intent = "terminal"
        BY <2>2 DEF ReqRecord
      <4>2. req' = [req EXCEPT ![r] = y] /\ req'[r] = y
        BY <1>2, <1>5, <2>1, <3>1 DEF CoreTypes
      <4> HIDE DEF y
      <4> QED
        BY <2>2, <4>1, <4>2
    <3>2. CASE ~MustStop(r)
      <4> DEFINE y == [req[r] EXCEPT !.intent = "retry", !.failed = TRUE, !.state = "Retrying"]
      <4>1. "Retrying" \in States
        BY DEF States
      <4>2. y \in ReqRecord /\ y.state = "Retrying" /\ y.attempts = req[r].attempts
        BY <2>2, <4>1 DEF ReqRecord
      <4>3. req' = [req EXCEPT ![r] = y] /\ req'[r] = y
        BY <1>2, <1>5, <2>1, <3>2 DEF CoreTypes
      <4> HIDE DEF y
      <4>4. req[r].attempts < MaxAttempts
        BY <2>2, <3>2, AttemptsAssumption
      <4> QED
        BY <4>2, <4>3, <4>4
    <3> QED
      BY <3>1, <3>2
  <2>4. /\ retirements' = [retirements EXCEPT ![r] = retirements'[r]]
        /\ retirements'[r] \in {"fail", "retry"} /\ {"fail", "retry"} \subseteq Retirement
    BY <1>2, <1>5, <2>1 DEF CoreTypes, Retirement
  <2>5. /\ retirements'[r] \in Retirement
        /\ (retirements'[r] = "lifecycle" => retirements[r] = "lifecycle")
        /\ (retirements'[r] = "continue" => retirements[r] = "continue" \/ worker[s].left > 0)
    BY <2>4
  <2> QED
    BY <1>1, <1>5, <2>1, <2>2, <2>3, <2>4, <2>5, GoesOnKeeps
<1>6. CASE ~Closing /\ Answered(s, "err") /\ Fail("failure was stale", {}, confirm)
  BY <1>1, <1>6, RejectedKeeps
<1> QED
  BY <1>3, <1>4, <1>5, <1>6 DEF HandleFailed

\* A worker reports the response.
LEMMA HandleCompletedKeeps == ASSUME IInv, NEW s \in Slots, HandleCompleted(s) PROVE IInv'
<1>1. Took(s, "Completed") /\ FromEvent /\ "Completed" \in Reports
  BY DEF HandleCompleted, Reports
<1>2. PICK r \in Requests : r = Ev(s).req
  BY <1>1, EventKnown
<1>3. CASE MayFinish(r, Ev(s).wire) /\ Finish(r, "completed", confirm) /\ Answered(s, "ok")
           /\ UNCHANGED <<engine, fatal, directive>>
  <2>1. ~Closing
    BY <1>3, CoreKnown DEF MayFinish, ClosingBooks
  <2>2. Owns(r, s) /\ "completed" \in Results
    BY <1>1, <1>2, <2>1, EventKnown DEF Results
  <2>3. UNCHANGED <<worker, inbox, closeAsked, preCancelled>>
    BY <1>1 DEF FromEvent, callerVars, workerVars
  <2> QED
    BY <1>1, <1>2, <1>3, <2>2, <2>3, FinishKeeps
<1>4. CASE Answered(s, "err") /\ (IF Closing THEN SameCore ELSE Fail("completion was stale", {}, confirm))
           /\ UNCHANGED <<alive, work>>
  BY <1>1, <1>4, RejectedKeeps
<1> QED
  BY <1>2, <1>3, <1>4 DEF HandleCompleted

\* A worker gives back what it has not started.
LEMMA HandleUnstartedKeeps == ASSUME IInv, NEW s \in Slots, HandleUnstarted(s) PROVE IInv'
<1>1. /\ Took(s, "Unstarted") /\ FromEvent /\ UNCHANGED reply
      /\ UNCHANGED <<worker, inbox, closeAsked, preCancelled>>
  BY DEF HandleUnstarted, FromEvent, callerVars, workerVars
<1>2. PICK r \in Requests : r = Ev(s).req
  BY <1>1, EventKnown
<1>3. CoreReads /\ CoreTypes
  BY <1>1, CoreKnown DEF CoreReads
<1>4. ~Closing => Owns(r, s) /\ req[r].state # "Absent"
  <2>1. ~Closing => Owns(r, s)
    BY <1>1, <1>2, EventKnown
  <2> QED
    BY <2>1, OwnersKnown DEF Owns
<1>5. CASE req[r].state = "Absent" /\ SameCore /\ UNCHANGED <<alive, work>>
  <2>1. Closing
    BY <1>4, <1>5
  <2>2. alive' \in [Slots -> BOOLEAN]
    BY <1>3, <1>5 DEF CoreTypes
  <2> QED
    BY <1>1, <1>3, <1>5, <2>1, <2>2, SameCoreKeeps
<1>6. CASE MayFinish(r, NoWire) /\ Finish(r, "cancelled", confirm) /\ UNCHANGED <<engine, fatal, directive>>
  <2>1. ~Closing
    BY <1>6, CoreKnown DEF MayFinish, ClosingBooks
  <2>2. "cancelled" \in Results
    BY DEF Results
  <2> QED
    BY <1>1, <1>2, <1>4, <1>6, <2>1, <2>2, FinishKeeps
<1>7. CASE Fail("unstarted cancellation was stale", {}, confirm) /\ UNCHANGED <<alive, work>>
  <2>1. alive' \in [Slots -> BOOLEAN]
    BY <1>3, <1>7 DEF CoreTypes
  <2> QED
    BY <1>1, <1>3, <1>7, <2>1, EventFailsKeeps
<1> QED
  BY <1>2, <1>5, <1>6, <1>7 DEF HandleUnstarted

\* A retired generation whose request goes on at once, on the next one.
LEMMA GoOnKeeps ==
  ASSUME IInv, NEW s \in Slots, Took(s, "Retired"), FromEvent, UNCHANGED reply, ~Closing,
         NEW r \in Requests, r = Ev(s).req, NEW fresh \in BOOLEAN, GoOn(s, r, fresh),
         IF fresh THEN MayRetryNow(s, r) ELSE MayContinue(s, r) /\ retirements[r] = "continue"
  PROVE  IInv'
<1>1. /\ CoreTypes /\ Books /\ Typed /\ QueueInv
      /\ \A t \in Slots : OpenSlot(t) /\ directive[t] # "stop"
  BY CoreKnown DEF OpenSlot
<1>2. /\ Ev(s) \in Event /\ Ev(s).type = "Retired" /\ Sent(s, Ev(s))
      /\ \A t \in Slots : t # s => events'[t] = events[t]
      /\ events'[s] = <<>> /\ work[s] = NoWork /\ worker[s].pc # "stopped"
      /\ Owns(r, s) /\ ownership[r].kind = "lease"
  BY EventKnown DEF Owns
<1>3. worker[s].pc = "idle"
  BY <1>2 DEF Sent, SentBy
<1>4. /\ UNCHANGED <<worker, inbox, closeAsked, preCancelled, directive>> /\ CoreReads
  BY DEF FromEvent, callerVars, workerVars, GoOn, CoreReads
<1> DEFINE y == [req[r] EXCEPT !.wire = Wire(Ev(s).gen + 1, "none"), !.intent = "none",
                               !.attempts = IF fresh THEN @ + 1 ELSE @,
                               !.sent = IF fresh THEN FALSE ELSE @]
<1>5. y \in ReqRecord /\ y.intent = "none" /\ y.state \in OnWire \cup {"Retrying"}
  <2>1. req[r] \in ReqRecord /\ req[r].attempts \in 0 .. MaxAttempts
    BY <1>1 DEF CoreTypes, ReqRecord
  <2>2. fresh => req[r].attempts + 1 \in 0 .. MaxAttempts
    BY <1>1, <2>1, AttemptsAssumption DEF MayRetryNow, Books
  <2>3. Wire(Ev(s).gen + 1, "none") \in WireType
    BY <1>2 DEF Event, Wire, WireType
  <2>4. req[r].state \in OnWire \cup {"Retrying"}
    BY DEF MayRetryNow, MayContinue, OnWire
  <2> QED
    BY <2>1, <2>2, <2>3, <2>4 DEF ReqRecord
<1>6. /\ req' = [req EXCEPT ![r] = y]
      /\ retirements' = [retirements EXCEPT ![r] = "none"] /\ "none" \in Retirement
      /\ UNCHANGED admissionVars /\ UNCHANGED <<engine, lifecycle, answer, confirm>>
      /\ work' = [work EXCEPT ![s] = [req |-> r, fresh |-> fresh]]
      /\ alive' = [alive EXCEPT ![s] = TRUE]
  BY <1>1 DEF GoOn, Dispatch, CoreTypes, Retirement
<1> HIDE DEF y
<1>7. /\ Told(confirm') /\ directive' \in [Slots -> {"run", "stop"} \cup Requests]
      /\ alive' \in [Slots -> BOOLEAN] /\ alive'[s]
      /\ work' \in [Slots -> [req : Requests \cup {NoRequest}, fresh : BOOLEAN]]
      /\ work'[s].req = r /\ work'[s].fresh = fresh
      /\ \A t \in Slots : /\ work'[t] # NoWork => work'[t].req \in Requests
                          /\ t # s => work'[t] = work[t] /\ alive'[t] = alive[t]
  <2>1. [req |-> r, fresh |-> fresh] \in [req : Requests \cup {NoRequest}, fresh : BOOLEAN]
    OBVIOUS
  <2> QED
    BY <1>1, <1>4, <1>6, <2>1 DEF CoreTypes, Told
<1>8. /\ QueueInv' /\ CoreTypes' /\ Books' /\ ~Closing' /\ retirements'[r] = "none" /\ Started(r)'
      /\ \A q \in Requests : /\ Started(q) => Started(q)'
                             /\ \A t \in Slots : Owns(q, t)' <=> Owns(q, t)
                             /\ q # r => retirements'[q] = retirements[q]
  <2>1. PICK x \in ReqRecord : x = y
    BY <1>5
  <2>2. /\ req' = [req EXCEPT ![r] = x] /\ x.state \in OnWire \cup {"Retrying"}
        /\ (x.intent = "retry" => x.attempts < MaxAttempts)
        /\ UNCHANGED <<engine, lifecycle, answer, inbox, closeAsked, preCancelled>>
        /\ \A t \in Slots : work'[t] # NoWork => work'[t].req \in Requests
    BY <1>4, <1>5, <1>6, <1>7, <2>1
  <2>3. PICK p \in Retirement : p = "none"
    BY <1>6
  <2>4. /\ retirements' = [retirements EXCEPT ![r] = p] /\ (p = "lifecycle" => p = retirements[r])
        /\ ownership[r].kind = "lease" /\ UNCHANGED admissionVars /\ Told(confirm')
        /\ directive' \in [Slots -> {"run", "stop"} \cup Requests]
        /\ alive' \in [Slots -> BOOLEAN]
        /\ work' \in [Slots -> [req : Requests \cup {NoRequest}, fresh : BOOLEAN]]
    BY <1>2, <1>6, <1>7, <2>3
  <2>5. /\ QueueInv' /\ CoreTypes' /\ Books' /\ ~Closing' /\ retirements'[r] = p /\ Started(r)'
        /\ \A q \in Requests : /\ Started(q) => Started(q)'
                               /\ \A t \in Slots : Owns(q, t)' <=> Owns(q, t)
                               /\ q # r => retirements'[q] = retirements[q]
    BY <2>2, <2>4, OneChanges
  <2> QED
    BY <2>3, <2>5
<1>9. ASSUME NEW t \in Slots, t # s PROVE OpenSlot(t)'
  <2>1. \A q \in Requests :
           /\ Owns(q, t) => Owns(q, t)' /\ (Started(q) => Started(q)')
           /\ retirements'[q] = "continue" /\ Owns(q, t)' => retirements[q] = "continue" /\ Owns(q, t)
    BY <1>8
  <2>2. OpenSlot(t) => OpenSlot(t)'
    BY <1>1, <1>2, <1>4, <1>7, <1>9, <2>1, SlotSame
  <2> QED
    BY <1>1, <2>2
<1>10. OpenSlot(s)'
  <2>1. Owns(r, s)' /\ (~fresh => worker[s].left > 0)
    BY <1>1, <1>2, <1>8 DEF OpenSlot
  <2>2. Settled(s)' /\ ~(Serving(s)') /\ Len(events'[s]) = 0
    BY <1>2, <1>3, <1>4 DEF Settled, Serving, AtIO, Waits
  <2>3. \A q \in Requests : Owns(q, s)' => retirements'[q] # "continue"
    BY <1>1, <1>2, <1>8, QueueFacts
  <2>4. reply'[s] # "err" /\ directive'[s] # "stop"
    BY <1>1, <1>4 DEF OpenSlot
  <2>5. Owns(work[s].req, s)' /\ Started(work[s].req)'
    BY <1>7, <1>8, <2>1 DEF Owns, Started
  <2> QED
    BY <1>2, <1>3, <1>4, <1>7, <2>1, <2>2, <2>3, <2>4, <2>5 DEF OpenSlot
<1> QED
  BY <1>4, <1>8, <1>9, <1>10, OpenKept

\* A worker reports that its generation is over.
LEMMA HandleRetiredKeeps == ASSUME IInv, NEW s \in Slots, HandleRetired(s) PROVE IInv'
<1>1. /\ Took(s, "Retired") /\ FromEvent /\ UNCHANGED reply
      /\ UNCHANGED <<worker, inbox, closeAsked, preCancelled>>
  BY DEF HandleRetired, FromEvent, callerVars, workerVars
<1>2. PICK r \in Requests : r = Ev(s).req
  BY <1>1, EventKnown
<1>3. CoreReads /\ CoreTypes /\ Books
  BY <1>1, CoreKnown DEF CoreReads
<1>4. ASSUME NEW why, RetirementFails(why) PROVE IInv'
  <2>1. alive' \in [Slots -> BOOLEAN]
    BY <1>3, <1>4 DEF CoreTypes, RetirementFails
  <2> QED
    BY <1>1, <1>3, <1>4, <2>1, EventFailsKeeps DEF RetirementFails
<1>5. CASE req[r].state = "Absent" /\ SameCore /\ UNCHANGED <<alive, work>>
  <2>1. Closing
    <3>1. ~Closing => Owns(r, s)
      BY <1>1, <1>2, EventKnown
    <3> QED
      BY <1>5, <3>1, OwnersKnown DEF Owns
  <2>2. alive' \in [Slots -> BOOLEAN]
    BY <1>3, <1>5 DEF CoreTypes
  <2> QED
    BY <1>1, <1>3, <1>5, <2>1, <2>2, SameCoreKeeps
<1>6. CASE Plan(r) = "continue" /\ MayContinue(s, r) /\ ~Closing /\ GoOn(s, r, FALSE)
  <2>1. retirements[r] = "continue"
    BY <1>6 DEF Plan
  <2> QED
    BY <1>1, <1>2, <1>6, <2>1, GoOnKeeps
<1>7. CASE MayRetryNow(s, r) /\ ~Closing /\ GoOn(s, r, TRUE)
  BY <1>1, <1>2, <1>7, GoOnKeeps
<1>8. ASSUME Plan(r) \in {"cancel", "fail", "lifecycle"}, MayEnd(s, r),
             NEW why, why = (CASE Plan(r) = "cancel" -> "cancelled"
                               [] Plan(r) = "fail" -> "failed"
                               [] OTHER -> lifecycle[r]),
             Finish(r, why, confirm), UNCHANGED <<engine, fatal, directive>>
      PROVE  IInv'
  <2>1. Owns(r, s)
    <3>1. Started(r) /\ SlotOf(r) = s
      BY <1>3, <1>8 DEF MayEnd, Acknowledges, Books
    <3> QED
      BY <3>1, OwnersKnown DEF Owns, SlotOf
  <2>2. why \in Results
    <3>1. "cancelled" \in Results /\ "failed" \in Results
      BY DEF Results
    <3>2. lifecycle[r] \in Results \cup {"none"}
      BY <1>3 DEF CoreTypes
    <3>3. Plan(r) = "lifecycle" => lifecycle[r] # "none"
      BY <1>3 DEF Plan, Books
    <3> QED
      BY <1>8, <3>1, <3>2, <3>3
  <2> QED
    BY <1>1, <1>2, <1>8, <2>1, <2>2, FinishKeeps
<1> QED
  BY <1>2, <1>4, <1>5, <1>6, <1>7, <1>8 DEF HandleRetired

\* During a close, a worker that is gone ends the request it had.
LEMMA StoppedEndsKeeps ==
  ASSUME IInv, Closing, NEW s \in Slots, worker[s].pc = "stopped", CoreReads, UNCHANGED reply,
         NEW r \in Requests, Started(r), SlotOf(r) = s,
         NEW held \in [Requests -> Results \cup {"none"}],
         \A q \in Requests : held[q] # "none" <=> lifecycle[q] # "none",
         held[r] # "none", A!ReleaseActive(ownership[r]), Notify([q \in {r} |-> held[r]], confirm),
         req' = [req EXCEPT ![r] = Absent], lifecycle' = [held EXCEPT ![r] = "none"],
         retirements' = [retirements EXCEPT ![r] = "none"],
         engine' \in {engine, "FailedClosing"},
         UNCHANGED <<directive, work, inbox, closeAsked, preCancelled>>, alive' \in [Slots -> BOOLEAN]
  PROVE  IInv'
<1>1. /\ CoreTypes /\ Books /\ ClosingBooks /\ QueueInv
      /\ \A t \in Slots : ClosingSlot(t) /\ reply'[t] = reply[t]
  BY CoreKnown
<1>2. ownership[r].kind = "lease"
  BY OwnersKnown
<1>3. /\ sealed' = sealed
      /\ ownership'[r] = A!NoOwner /\ A!NoOwner.kind = "none"
      /\ \A q \in Requests : q # r => ownership'[q] = ownership[q] /\ outcome'[q] = outcome[q]
  <2>1. /\ \A q \in TimedOut : req[q].state = "Queued"
        /\ \A q \in Promoted : req[q].state = "Queued"
        /\ ownership'[r] = A!NoOwner
        /\ \A q \in Requests : q # r /\ q \notin TimedOut /\ q \notin Promoted =>
              ownership'[q] = ownership[q] /\ outcome'[q] = outcome[q]
        /\ sealed' = sealed
    BY <1>2, ReleaseEffect
  <2>2. \A q \in Requests : q \notin TimedOut /\ q \notin Promoted
    BY <1>1, <2>1 DEF ClosingBooks
  <2> QED
    BY <2>1, <2>2 DEF A!NoOwner
<1>4. QueueInv'
  BY <1>1, <1>2, QueueKept
<1>5. Closing'
  BY DEF Closing, Closed
<1> DEFINE N == [q \in {r} |-> held[r]]
<1>6. /\ answer' \in [Requests -> Results \cup {"none"}]
      /\ confirm' \in [Requests -> Confirmation]
      /\ \A q \in Requests :
            /\ q = r => answer'[q] # "none"
            /\ q # r => answer'[q] = answer[q]
            /\ confirm'[q] = "confirmed" => q = r \/ confirm[q] = "confirmed"
  <2>1. DOMAIN N = {r} /\ DOMAIN N \subseteq Requests /\ \A q \in DOMAIN N : N[q] \in Results
    OBVIOUS
  <2>2. Told(confirm)
    BY <1>1 DEF Told, CoreTypes
  <2>3. Notify(N, confirm)
    OBVIOUS
  <2> HIDE DEF N
  <2> QED
    BY <2>1, <2>2, <2>3, Notified
<1>7. Absent \in ReqRecord /\ Absent.state = "Absent" /\ Absent.intent = "none"
  BY AttemptsAssumption DEF Absent, ReqRecord, States, NoWire, WireType
<1>8. /\ req' \in [Requests -> ReqRecord] /\ req'[r] = Absent
      /\ lifecycle' \in [Requests -> Results \cup {"none"}] /\ lifecycle'[r] = "none"
      /\ retirements' \in [Requests -> Retirement] /\ retirements'[r] = "none"
      /\ \A q \in Requests : q # r =>
            req'[q] = req[q] /\ lifecycle'[q] = held[q] /\ retirements'[q] = retirements[q]
  BY <1>1, <1>7 DEF CoreTypes, Retirement
<1>9. CoreTypes'
  BY <1>1, <1>6, <1>8 DEF CoreTypes
<1>10. \A q \in Requests : Started(q)' <=> q # r /\ Started(q)
  BY <1>7, <1>8 DEF Started, OnWire
<1>11. Books'
  <2> SUFFICES ASSUME NEW q \in Requests
               PROVE  /\ ownership'[q].kind = "permit" <=> req'[q].state = "Queued"
                      /\ ownership'[q].kind = "lease" <=> req'[q].state = "Assigned" \/ Started(q)'
                      /\ req'[q].intent # "none" => Started(q)'
                      /\ req'[q].intent = "retry" => req'[q].attempts < MaxAttempts
                      /\ retirements'[q] # "none" \/ lifecycle'[q] # "none" => Started(q)'
                      /\ retirements'[q] = "lifecycle" => lifecycle'[q] # "none"
                      /\ q \in inbox' => answer'[q] = "none" /\ outcome'[q] = "unseen"
                      /\ confirm'[q] = "confirmed" => answer'[q] # "none" /\ q \notin inbox'
    BY DEF Books
  <2>1. /\ ownership[q].kind = "permit" <=> req[q].state = "Queued"
        /\ ownership[q].kind = "lease" <=> req[q].state = "Assigned" \/ Started(q)
        /\ req[q].intent # "none" => Started(q)
        /\ req[q].intent = "retry" => req[q].attempts < MaxAttempts
        /\ retirements[q] # "none" \/ lifecycle[q] # "none" => Started(q)
        /\ retirements[q] = "lifecycle" => lifecycle[q] # "none"
        /\ q \in inbox => answer[q] = "none" /\ outcome[q] = "unseen"
        /\ confirm[q] = "confirmed" => answer[q] # "none" /\ q \notin inbox
    BY <1>1 DEF Books
  <2>2. r \notin inbox
    BY OwnersKnown
  <2>3. CASE q = r
    BY <1>3, <1>6, <1>7, <1>8, <1>10, <2>2, <2>3
  <2>4. CASE q # r
    BY <1>3, <1>6, <1>8, <1>10, <2>1, <2>4
  <2> QED
    BY <2>3, <2>4
<1>12. ClosingBooks'
  <2>1. ASSUME NEW q \in Requests
        PROVE  req'[q].state \notin {"Assigned", "Queued"} /\ (Started(q)' => req'[q].intent = "terminal")
    BY <1>1, <1>7, <1>8, <1>10 DEF ClosingBooks
  <2> QED
    BY <1>1, <1>3, <2>1 DEF ClosingBooks
<1>13. ASSUME NEW t \in Slots PROVE ClosingSlot(t)'
  <2>1. ClosingSlot(t) /\ worker'[t] = worker[t] /\ work'[t] = work[t]
        /\ directive'[t] = directive[t] /\ reply'[t] = reply[t] /\ Typed
    BY <1>1, CoreKnown DEF CoreReads
  <2>2. Serving(t) => t # s
    BY DEF Serving, AtIO, Waits
  <2>3. ASSUME Serving(t), Owns(worker[t].req, t) PROVE Owns(worker[t].req, t)'
    <3>1. PICK q \in Requests : q = worker[t].req
      BY <2>1, <2>3 DEF Typed
    <3>2. q # r /\ ownership'[q] = ownership[q]
      BY <1>3, <2>2, <2>3, <3>1 DEF Owns, SlotOf
    <3> QED
      BY <2>1, <2>3, <3>1, <3>2 DEF Owns
  <2> QED
    BY <2>1, <2>3 DEF ClosingSlot, Serving
<1> QED
  BY <1>4, <1>5, <1>9, <1>11, <1>12, <1>13, ClosingKept

\* A worker is gone.
LEMMA HandleStoppedKeeps == ASSUME IInv, NEW s \in Slots, HandleStopped(s) PROVE IInv'
<1> DEFINE mine == {r \in Requests : Started(r) /\ SlotOf(r) = s}
<1>1. /\ Took(s, "Stopped") /\ FromEvent /\ alive' = [alive EXCEPT ![s] = FALSE]
      /\ UNCHANGED <<work, reply>> /\ UNCHANGED <<worker, inbox, closeAsked, preCancelled>>
  BY DEF HandleStopped, FromEvent, callerVars, workerVars
<1>2. CoreReads /\ CoreTypes /\ Books /\ alive' \in [Slots -> BOOLEAN]
  BY <1>1, CoreKnown DEF CoreReads, CoreTypes
<1>3. worker[s].pc = "stopped"
  BY <1>1, EventKnown DEF Sent, SentBy
<1>4. CASE Fail("worker ended", mine, confirm)
  <2>1. Told(confirm)
    BY <1>2 DEF Told, CoreTypes
  <2>2. mine \in SUBSET Requests /\ \A r \in mine : Started(r) /\ worker[SlotOf(r)].pc = "stopped"
    BY <1>3
  <2> HIDE DEF mine
  <2> QED
    BY <1>1, <1>2, <1>4, <2>1, <2>2, FailKeeps
<1>5. CASE Closing /\ SameCore
  BY <1>1, <1>2, <1>5, SameCoreKeeps
<1>6. CASE Fail("worker ended", {}, confirm)
  BY <1>1, <1>2, <1>6, EventFailsKeeps
<1>7. ASSUME NEW ok, NEW r \in Requests, Closing, Started(r), SlotOf(r) = s,
             NEW held, held = [q \in Requests |-> IF ~ok /\ lifecycle[q] = "cancelled" THEN "failed"
                                                  ELSE lifecycle[q]],
             held[r] # "none", A!ReleaseActive(ownership[r]), Notify([q \in {r} |-> held[r]], confirm),
             req' = [req EXCEPT ![r] = Absent], lifecycle' = [held EXCEPT ![r] = "none"],
             retirements' = [retirements EXCEPT ![r] = "none"],
             engine' = (IF ok THEN engine ELSE "FailedClosing"), UNCHANGED directive
      PROVE  IInv'
  <2>1. held \in [Requests -> Results \cup {"none"}] /\ \A q \in Requests : held[q] # "none" <=> lifecycle[q] # "none"
    BY <1>2, <1>7 DEF CoreTypes, Results
  <2>2. engine' \in {engine, "FailedClosing"}
    BY <1>7
  <2> QED
    BY <1>1, <1>2, <1>3, <1>7, <2>1, <2>2, StoppedEndsKeeps
<1> QED
  BY <1>4, <1>5, <1>6, <1>7 DEF HandleStopped

\* Every event.
LEMMA EventsKeep == ASSUME IInv, NEW s \in Slots, EventStep(s) PROVE IInv'
  BY HandleTransitionKeeps, HandleBytesKeeps, HandleCompletedKeeps, HandleUnstartedKeeps,
     HandleFailedKeeps, HandleRetiredKeeps, HandleStoppedKeeps DEF EventStep

\* Everything the core does that no event asked for.
LEMMA ControlKeeps == ASSUME IInv, ControlStep PROVE IInv'
  BY HandleCloseKeeps, FinishCloseKeeps, HandleTickKeeps, HandleCommandKeeps, HandleCancelKeeps
  DEF ControlStep

-----------------------------------------------------------------------------
(* The invariant holds. *)

\* The queue at the start.
LEMMA QueueHolds == Init => QueueInv
<1> SUFFICES ASSUME Init PROVE QueueInv
  OBVIOUS
<1>1. /\ epoch = 1 /\ sealed = FALSE /\ idle = Slots /\ waiting = {} /\ pinWaiting = {}
      /\ ownership = [r \in Requests |-> A!NoOwner] /\ activeBySlot = [s \in Slots |-> 0]
      /\ permitCounter = 0 /\ leaseCounter = 0 /\ handles = {} /\ elapsed = {}
      /\ outcome = [r \in Requests |-> "unseen"]
  BY DEF Init
<1>2. /\ A!NoOwner = AP!NoOwner /\ Slots = AP!Slots /\ AP!NoOwner.kind = "none"
      /\ AP!NoOwner.kind \notin {"permit", "lease"}
  BY DEF A!NoOwner, AP!NoOwner, A!Slots, AP!Slots, Slots
<1>3. AP!TypeOK
  BY <1>1, <1>2, PoolAssumption DEF AP!TypeOK, AP!Outcome, AP!Slots
<1>4. AP!Budget
  <2>1. AP!Waiters = {} /\ Cardinality({}) = 0 /\ AP!Cardinality({}) = Cardinality({})
    BY <1>1, FS_EmptySet DEF AP!Waiters, Cardinality, AP!Cardinality
  <2> QED
    BY <2>1, PoolAssumption DEF AP!Budget
<1>5. AP!LinesHoldPermits /\ AP!CounterAhead /\ AP!SlotsHaveOneOwner /\ AP!NobodyWaitsForAnIdleSlot
  BY <1>1, <1>2 DEF AP!LinesHoldPermits, AP!CounterAhead, AP!SlotsHaveOneOwner,
         AP!NobodyWaitsForAnIdleSlot, AP!Waiters, AP!Open
<1>6. AP!PermitsAreOnce /\ AP!NoOvertaking /\ AP!AnswersMatchOwnership /\ AP!OwnersAreOfThisEpoch
  BY <1>1, <1>2 DEF AP!PermitsAreOnce, AP!NoOvertaking, AP!AnswersMatchOwnership,
         AP!OwnersAreOfThisEpoch
<1> QED
  BY <1>1, <1>2, <1>3, <1>4, <1>5, <1>6 DEF QueueInv, AP!Inv

\* The invariant at the start.
LEMMA AtFirst == Init => IInv
<1> SUFFICES ASSUME Init PROVE IInv
  OBVIOUS
<1>1. QueueInv /\ A!TypeOK
  BY QueueHolds, QueueFacts
<1>2. Absent \in ReqRecord /\ Absent.state = "Absent" /\ Absent.intent = "none"
  BY AttemptsAssumption DEF Absent, ReqRecord, States, NoWire, WireType
<1>3. TypeOK
  <2>1. req \in [Requests -> ReqRecord]
    BY <1>2 DEF Init
  <2>2. /\ lifecycle \in [Requests -> Results \cup {"none"}]
        /\ retirements \in [Requests -> {"none", "continue", "retry", "fail", "cancel", "lifecycle"}]
        /\ answer \in [Requests -> Results \cup {"none"}]
        /\ confirm \in [Requests -> {"none", "asked", "held", "confirmed"}]
        /\ inbox \subseteq Requests /\ preCancelled \subseteq Requests
        /\ engine \in {"Running", "Closing", "FailedClosing", "Stopped", "FailedClosed"}
        /\ closeAsked \in BOOLEAN
    BY DEF Init
  <2>3. /\ alive \in [Slots -> BOOLEAN]
        /\ work \in [Slots -> [req : Requests \cup {NoRequest}, fresh : BOOLEAN]]
        /\ directive \in [Slots -> {"run", "stop"} \cup Requests]
        /\ reply \in [Slots -> {"none", "ok", "err"}]
    BY DEF Init, NoWork
  <2>4. worker \in [Slots -> [pc : {"idle", "stopped"} \cup AtIO \cup Waits,
                             req : Requests \cup {NoRequest}, gen : Nat \ {0},
                             up : BOOLEAN, left : Nat]]
    BY DEF Init
  <2> QED
    BY <1>1, <2>1, <2>2, <2>3, <2>4 DEF TypeOK, ReqRecord
<1>4. ~Closing /\ A!NoOwner.kind = "none"
  BY DEF Init, Closing, Closed, A!NoOwner
<1>5. \A s \in Slots : /\ worker[s].pc = "idle" /\ work[s] = NoWork /\ events[s] = <<>>
                       /\ reply[s] = "none" /\ directive[s] = "run"
  BY DEF Init
<1>6. \A s \in Slots : ~Serving(s) /\ Settled(s)
  BY <1>5 DEF Serving, Settled, AtIO, Waits
<1>7. Typed
  BY <1>3, <1>5, <1>6 DEF Init, Typed
<1>8. \A r \in Requests : /\ ownership[r] = A!NoOwner /\ req[r] = Absent /\ ~Started(r)
                          /\ retirements[r] = "none" /\ lifecycle[r] = "none"
  BY <1>2 DEF Init, Started, OnWire
<1>9. Books
  BY <1>2, <1>4, <1>8 DEF Init, Books
<1>10. ASSUME NEW s \in Slots PROVE Shape(s) /\ OpenSlot(s)
  <2>1. Len(events[s]) = 0
    BY <1>5
  <2>2. Shape(s)
    BY <1>5, <2>1 DEF Shape
  <2>3. OpenSlot(s)
    BY <1>5, <1>6, <1>8, <2>1 DEF OpenSlot
  <2> QED
    BY <2>2, <2>3
<1> QED
  BY <1>1, <1>4, <1>7, <1>9, <1>10 DEF IInv

\* A stuttering step.
LEMMA IdleKeeps == ASSUME IInv, UNCHANGED vars PROVE IInv'
<1>1. /\ UNCHANGED admissionVars /\ UNCHANGED callerVars /\ UNCHANGED workerVars
      /\ UNCHANGED channelVars /\ UNCHANGED coreVars
  BY DEF vars
<1>2. CoreReads /\ CoreTypes /\ Books /\ QueueInv /\ UNCHANGED <<ownership, sealed, outcome>>
  BY <1>1, CoreKnown DEF CoreReads, workerVars, channelVars, admissionVars
<1>3. QueueInv'
  BY <1>1, <1>2, QueueKept
<1>4. CoreTypes'
  BY <1>1, <1>2 DEF CoreTypes, coreVars, channelVars, callerVars
<1>5. /\ Closing' = Closing
      /\ \A q \in Requests : /\ Started(q)' <=> Started(q)
                             /\ \A t \in Slots : Owns(q, t) <=> Owns(q, t)'
  BY <1>1, <1>2 DEF Closing, Closed, Started, Owns, coreVars
<1>6. Books'
  BY <1>1, <1>2, <1>5 DEF Books, coreVars, callerVars
<1>7. Closing => ClosingBooks'
  BY <1>1, <1>2, <1>5, CoreKnown DEF ClosingBooks, coreVars
<1>8. /\ UNCHANGED <<worker, work, reply, events, alive, directive, retirements>>
      /\ \A t \in Slots : ~Closing => directive[t] # "stop"
  BY <1>1, CoreKnown DEF workerVars, channelVars, coreVars, OpenSlot
<1> QED
  BY <1>3, <1>4, <1>5, <1>6, <1>7, <1>8, SlotsSame

\* The invariant is inductive.
LEMMA StepKeeps == IInv /\ [Next]_vars => IInv'
<1> SUFFICES ASSUME IInv, [Next]_vars PROVE IInv'
  OBVIOUS
<1>1. CASE CallerStep \/ AskClose \/ HandleCloseTimeout
  BY <1>1, CallersKeep
<1>2. CASE ControlStep
  BY <1>2, ControlKeeps
<1>3. ASSUME NEW s \in Slots, EventStep(s) \/ WorkerStep(s) PROVE IInv'
  BY <1>3, EventsKeep, WorkersKeep
<1>4. CASE UNCHANGED vars
  BY <1>4, IdleKeeps
<1> QED
  BY <1>1, <1>2, <1>3, <1>4 DEF Next

\* It holds in every reachable state.
LEMMA Invariance == Spec => []IInv
  BY AtFirst, StepKeeps, PTL DEF Spec

-----------------------------------------------------------------------------
(* What follows. *)

\* In every reachable state every variable of the core, of its channels and of
\* its workers has its type; among others no attempt is counted beyond the
\* retry policy's limit (RequestTracker, RetryPolicy).
THEOREM TypeCorrect == Spec => []TypeOK
<1>1. IInv => TypeOK
  BY DEF IInv, Typed
<1> QED
  BY <1>1, Invariance, PTL

\* The tracker and the admission queue agree in every state, and driving the
\* queue from the core's handlers never breaks the queue's own invariants
\* (check_admission_invariants).
THEOREM TrackerMatches == Spec => []TrackerMatchesAdmission
<1>1. IInv => TrackerMatchesAdmission
  BY QueueFacts DEF IInv, Books, TrackerMatchesAdmission
<1> QED
  BY <1>1, Invariance, PTL

\* A worker is at an I/O step only for the request that holds the lease on its
\* Slot, whatever was cancelled, failed or closed meanwhile, and a confirmed
\* cancellation is final (execute_work, cancel_and_confirm).
THEOREM IOUnderLease == Spec => []IOOnlyUnderLease
<1>1. IInv => IOOnlyUnderLease
  <2> SUFFICES ASSUME IInv PROVE IOOnlyUnderLease
    OBVIOUS
  <2>1. ASSUME NEW s \in Slots, worker[s].pc \in AtIO PROVE Owns(worker[s].req, s)
    <3>1. (~Closing => OpenSlot(s)) /\ (Closing => ClosingSlot(s))
      BY CoreKnown
    <3>2. Serving(s) /\ ~Settled(s)
      BY <2>1 DEF Serving, Settled, AtIO
    <3> QED
      BY <2>1, <3>1, <3>2 DEF OpenSlot, ClosingSlot
  <2>2. \A r \in Requests : confirm[r] = "confirmed" => answer[r] # "none" /\ r \notin inbox
    BY CoreKnown DEF Books
  <2> QED
    BY <2>1, <2>2 DEF IOOnlyUnderLease, Owns
<1> QED
  BY <1>1, Invariance, PTL

\* A retirement plan, or an answer held back for a retirement, belongs to a
\* request that is still on a wire, so that none is left over to keep a close
\* from ending (close_ready).
THEOREM PlansHaveOwners == Spec => []NoOrphanPlan
<1>1. IInv => NoOrphanPlan
  BY DEF IInv, Books, NoOrphanPlan
<1> QED
  BY <1>1, Invariance, PTL

-----------------------------------------------------------------------------
(* The work channel. *)

\* A Slot that has nothing under way can be given work.
HasRoom(s) == work[s] = NoWork /\ worker[s].pc # "stopped"

\* A request that ends hands its Slot, which has room, to the next one.
LEMMA FinishFindsRoom ==
  ASSUME IInv, NEW s \in Slots, NEW type, type # "Stopped", Took(s, type),
         NEW r \in Requests, r = Ev(s).req, NEW why \in Results, Finish(r, why, confirm),
         Started(r) \/ req[r].state = "Assigned",
         type = "Retired" => SlotOf(r) = s,
         UNCHANGED <<engine, inbox, closeAsked, preCancelled, directive>>,
         NEW t \in Slots, work'[t] # work[t]
  PROVE  HasRoom(t)
<1>1. Told(confirm) /\ ownership[r].kind = "lease" /\ CoreTypes
  BY CoreKnown, OwnersKnown DEF Told, CoreTypes
<1>2. \/ work' = work
      \/ \E p \in Requests : ~Closing /\ work' = [work EXCEPT ![SlotOf(r)] = [req |-> p, fresh |-> TRUE]]
  BY <1>1, FinishEffect
<1>3. ~Closing /\ t = SlotOf(r)
  BY <1>1, <1>2 DEF CoreTypes
<1>4. Owns(r, s) /\ work[s] = NoWork /\ worker[s].pc # "stopped"
  BY <1>3, EventKnown
<1> QED
  BY <1>3, <1>4 DEF HasRoom, Owns, SlotOf

\* A command that is dispatched at once goes to a Slot with room.
LEMMA CommandFindsRoom ==
  ASSUME IInv, NEW r \in Requests, HandleCommand(r), NEW t \in Slots, work'[t] # work[t]
  PROVE  HasRoom(t)
<1>1. ~Closing /\ A!SubmitDirect(r) /\ Dispatch(r, ownership'[r].slot, TRUE)
  BY DEF HandleCommand
<1>2. CoreTypes /\ QueueInv /\ A!TypeOK
  BY CoreKnown, QueueFacts
<1>3. PICK s \in idle : ownership' = [ownership EXCEPT ![r] = A!NewLease(r, s)]
  BY <1>1 DEF A!SubmitDirect, A!Grant
<1>4. ownership'[r].slot = s /\ s \in Slots
  BY <1>2, <1>3 DEF A!TypeOK, A!NewLease, Slots
<1>5. t = s
  BY <1>1, <1>2, <1>4 DEF Dispatch, CoreTypes
<1>6. \A q \in Requests : ~Owns(q, s)
  BY <1>2, <1>3, <1>4, QueueFacts
<1>7. OpenSlot(s) /\ (work[s] # NoWork => work[s].req \in Requests)
  BY <1>1, <1>4, CoreKnown DEF CoreTypes
<1> QED
  BY <1>5, <1>6, <1>7 DEF HasRoom, OpenSlot

\* What an event makes the core dispatch goes to a Slot with room.
LEMMA EventFindsRoom ==
  ASSUME IInv, NEW s \in Slots, EventStep(s), NEW t \in Slots, work'[t] # work[t]
  PROVE  HasRoom(t)
<1>1. CASE HandleTransition(s) \/ HandleBytes(s) \/ HandleFailed(s) \/ HandleStopped(s)
  BY <1>1 DEF HandleTransition, HandleBytes, HandleFailed, HandleStopped
<1>2. CASE HandleCompleted(s)
  <2>1. /\ Took(s, "Completed") /\ MayFinish(Ev(s).req, Ev(s).wire)
        /\ Finish(Ev(s).req, "completed", confirm) /\ UNCHANGED <<engine, directive>>
        /\ UNCHANGED <<inbox, closeAsked, preCancelled>> /\ "completed" \in Results
    BY <1>2 DEF HandleCompleted, FromEvent, callerVars, Results
  <2>2. PICK r \in Requests : r = Ev(s).req
    BY <2>1, EventKnown
  <2> QED
    BY <2>1, <2>2, FinishFindsRoom DEF MayFinish
<1>3. CASE HandleUnstarted(s)
  <2>1. /\ Took(s, "Unstarted") /\ MayFinish(Ev(s).req, NoWire)
        /\ Finish(Ev(s).req, "cancelled", confirm) /\ UNCHANGED <<engine, directive>>
        /\ UNCHANGED <<inbox, closeAsked, preCancelled>> /\ "cancelled" \in Results
    BY <1>3 DEF HandleUnstarted, FromEvent, callerVars, Results
  <2>2. PICK r \in Requests : r = Ev(s).req
    BY <2>1, EventKnown
  <2> QED
    BY <2>1, <2>2, FinishFindsRoom DEF MayFinish
<1>4. CASE HandleRetired(s)
  <2>1. /\ Took(s, "Retired") /\ UNCHANGED <<inbox, closeAsked, preCancelled>>
    BY <1>4 DEF HandleRetired, FromEvent, callerVars
  <2>2. PICK r \in Requests : r = Ev(s).req
    BY <2>1, EventKnown
  <2>3. CoreTypes /\ Books
    BY CoreKnown
  <2>4. ASSUME NEW fresh, ~Closing, GoOn(s, r, fresh) PROVE HasRoom(t)
    <3>1. t = s
      BY <2>3, <2>4 DEF GoOn, Dispatch, CoreTypes
    <3> QED
      BY <2>1, <2>4, <3>1, EventKnown DEF HasRoom
  <2>5. ASSUME Plan(r) \in {"cancel", "fail", "lifecycle"}, MayEnd(s, r),
               NEW why, why = (CASE Plan(r) = "cancel" -> "cancelled"
                                 [] Plan(r) = "fail" -> "failed"
                                 [] OTHER -> lifecycle[r]),
               Finish(r, why, confirm), UNCHANGED <<engine, fatal, directive>>
        PROVE  HasRoom(t)
    <3>1. Started(r) /\ SlotOf(r) = s
      BY <2>3, <2>5 DEF MayEnd, Acknowledges, Books
    <3>2. /\ "cancelled" \in Results /\ "failed" \in Results /\ lifecycle[r] \in Results \cup {"none"}
          /\ (Plan(r) = "lifecycle" => lifecycle[r] # "none")
      BY <2>3 DEF CoreTypes, Results, Plan, Books
    <3>3. why \in Results
      BY <2>5, <3>2
    <3> QED
      BY <2>1, <2>2, <2>5, <3>1, <3>3, FinishFindsRoom
  <2> QED
    BY <1>4, <2>2, <2>4, <2>5 DEF HandleRetired, RetirementFails
<1> QED
  BY <1>1, <1>2, <1>3, <1>4 DEF EventStep

\* A worker puts nothing into its own channel.
LEMMA WorkersTakeOnly ==
  ASSUME IInv, NEW s \in Slots, WorkerStep(s), NEW t \in Slots, work'[t] # work[t]
  PROVE  work'[t] = NoWork
<1>1. CoreTypes
  BY CoreKnown
<1> QED
  BY <1>1 DEF WorkerStep, WorkerStops, WorkerTakes, WorkerIO, WorkerIOFails, WorkerInterrupted,
     WorkerAnswered, CoreTypes

\* The core sends work only into an empty channel whose worker is there to take
\* it, so that send_slot_work never fails the engine.
THEOREM DispatchHasRoom == Spec => DispatchFindsRoom
<1> DEFINE Room == \A s \in Slots : work'[s] # work[s] /\ work'[s] # NoWork =>
                      work[s] = NoWork /\ worker[s].pc # "stopped"
<1>1. IInv /\ [Next]_vars => Room
  <2> SUFFICES ASSUME IInv, [Next]_vars, NEW t \in Slots, work'[t] # work[t], work'[t] # NoWork
               PROVE  HasRoom(t)
    BY DEF HasRoom
  <2>1. CASE CallerStep \/ AskClose \/ HandleCloseTimeout \/ UNCHANGED vars
    BY <2>1 DEF CallerStep, AskClose, HandleCloseTimeout, SendCommand, AskCancel, Elapse, vars, channelVars
  <2>2. CASE ControlStep
    <3>1. \E r \in Requests : HandleCommand(r)
      BY <2>2 DEF ControlStep, HandleClose, FinishClose, HandleTick, HandleCancel, channelVars
    <3> QED
      BY <3>1, CommandFindsRoom
  <2>3. ASSUME NEW s \in Slots, EventStep(s) PROVE HasRoom(t)
    BY <2>3, EventFindsRoom
  <2>4. ASSUME NEW s \in Slots, WorkerStep(s) PROVE HasRoom(t)
    BY <2>4, WorkersTakeOnly
  <2> QED
    BY <2>1, <2>2, <2>3, <2>4 DEF Next
<1>2. IInv /\ [Next]_vars => [Room]_vars
  BY <1>1
<1>3. [][Room]_vars => DispatchFindsRoom
  BY PTL DEF DispatchFindsRoom
<1> QED
  BY <1>2, <1>3, Invariance, PTL DEF Spec

-----------------------------------------------------------------------------
(***************************************************************************)
(* Proofs about the life of one request in RuntimeCore: what a step may do *)
(* to its record and its answer, how often its bytes go out, and what is   *)
(* left of it when the engine has closed.                                  *)
(*                                                                         *)
(* The invariant IInv of RuntimeCoreProofs is known; StepMoves says of     *)
(* every step, whichever handler makes it, which of a few moves a request  *)
(* makes, and the invariants here (Answers, Spent, Ends) are proved from   *)
(* those moves.                                                            *)
(***************************************************************************)
-----------------------------------------------------------------------------
(* What a step may do to a request. *)

Untouched(r) == req'[r] = req[r] /\ answer'[r] = answer[r] /\ outcome'[r] = outcome[r]

\* A command leaves the channel with a refusal, or a request is over.
Refused(r) == r \in inbox /\ req'[r] = req[r] /\ answer'[r] # "none"
Over(r) == req[r].state # "Absent" /\ req'[r].state = "Absent" /\ answer'[r] # "none"

\* A command, or a waiter, goes into the line or to a Slot.
Admitted(r) ==
    /\ r \in inbox \/ req[r].state = "Queued"
    /\ answer'[r] = answer[r]
    /\ req'[r].state = "Queued" \/ (req'[r].state = "Assigned" /\ req'[r].attempts = 1)
    /\ req'[r].intent = req[r].intent

Same(r) == req'[r].attempts = req[r].attempts /\ req'[r].sent = req[r].sent

\* The worker's reports, and what the core decides about a request on a wire.
Advances(r) ==
    /\ \E to \in DOMAIN Follows :
          req[r].state \in Follows[to] /\ req'[r].state = to /\ worker[SlotOf(r)].pc = to
    /\ Same(r) /\ req[r].intent = "none" /\ req'[r].intent = "none"
Marked(r) ==
    /\ req'[r].state = req[r].state /\ req'[r].attempts = req[r].attempts
    /\ req'[r].intent = req[r].intent /\ req'[r].sent
    /\ Started(r)
Condemned(r) == req'[r].state = req[r].state /\ Same(r) /\ req'[r].intent = "terminal" /\ Started(r)
Retries(r) ==
    /\ req[r].state \in OnWire /\ req'[r].state = "Retrying"
    /\ Same(r) /\ req[r].intent = "none" /\ req'[r].intent = "retry"
    /\ r \in RetrySafe \/ ~req[r].sent
    /\ worker[SlotOf(r)].pc = "Failed" /\ ~Closing
Reconnects(r) ==
    /\ req'[r].state = req[r].state /\ req'[r].intent = "none"
    /\ \/ req[r].state = "Connecting" /\ Same(r) /\ req[r].intent = "none"
       \/ /\ req[r].state = "Retrying" /\ req[r].intent = "retry"
          /\ req'[r].attempts = req[r].attempts + 1

Kept(r) ==
    /\ answer'[r] = answer[r] /\ outcome'[r] = outcome[r]
    /\ Advances(r) \/ Marked(r) \/ Condemned(r) \/ Retries(r) \/ Reconnects(r)

Move(r) == Untouched(r) \/ Refused(r) \/ Over(r) \/ Admitted(r) \/ Kept(r)

\* What process_notifications leaves of the answers.
LEMMA NotifyAnswers ==
  ASSUME IInv, NEW S \in SUBSET Requests, NEW f, \A q \in S : f[q] \in Results,
         f = [q \in S |-> f[q]], NEW conf, Notify(f, conf), NEW r \in Requests
  PROVE  answer'[r] = (IF r \in S THEN f[r] ELSE answer[r]) /\ (r \in S => answer'[r] # "none")
  BY DEF Notify, Results

\* The end of a request, and what it does to the others.
LEMMA FinishMoves ==
  ASSUME IInv, NEW r \in Requests, ownership[r].kind = "lease", NEW why \in Results,
         NEW conf, Finish(r, why, conf), NEW q \in Requests
  PROVE  Move(q)
<1>1. CoreTypes /\ ownership[r].kind = "lease"
  BY CoreKnown
<1> DEFINE S == {r} \cup TimedOut
           N == [p \in S |-> IF p = r THEN why ELSE "timed_out"]
<1>2. /\ A!ReleaseActive(ownership[r]) /\ Notify(N, conf)
      /\ req' = [p \in Requests |->
            IF p \in S THEN Absent
            ELSE IF p \in Promoted THEN [req[p] EXCEPT !.state = "Assigned", !.attempts = 1]
            ELSE req[p]]
  BY DEF Finish
<1>3. S \subseteq Requests /\ N = [p \in S |-> N[p]] /\ \A p \in S : N[p] \in Results
  BY DEF TimedOut, Results
<1>4. q \in S => answer'[q] # "none"
  <2> HIDE DEF N, S
  <2> QED
    BY <1>2, <1>3, NotifyAnswers
<1>5. q \notin S => answer'[q] = answer[q]
  <2> HIDE DEF N, S
  <2> QED
    BY <1>2, <1>3, NotifyAnswers
<1>6. /\ \A p \in TimedOut : req[p].state = "Queued" /\ p # r /\ p \notin Promoted
      /\ \A p \in Promoted : req[p].state = "Queued" /\ p # r
      /\ q # r /\ q \notin TimedOut /\ q \notin Promoted => outcome'[q] = outcome[q]
  BY <1>1, <1>2, ReleaseEffect
<1>7. req[r].state # "Absent" /\ Absent.state = "Absent" /\ req[q] \in ReqRecord
  BY <1>1, OwnersKnown DEF Absent, CoreTypes
<1>8. CASE q \in S
  <2>1. req'[q] = Absent
    BY <1>2, <1>8
  <2> QED
    BY <1>4, <1>6, <1>7, <1>8, <2>1 DEF Move, Over
<1>9. CASE q \notin S /\ q \in Promoted
  <2>1. req'[q] = [req[q] EXCEPT !.state = "Assigned", !.attempts = 1]
    BY <1>2, <1>9
  <2>2. req'[q].state = "Assigned" /\ req'[q].attempts = 1 /\ req'[q].intent = req[q].intent
    BY <1>7, <2>1 DEF ReqRecord
  <2> QED
    BY <1>5, <1>6, <1>9, <2>2 DEF Move, Admitted
<1>10. CASE q \notin S /\ q \notin Promoted
  <2>1. req'[q] = req[q] /\ q # r /\ q \notin TimedOut
    BY <1>2, <1>10
  <2> QED
    BY <1>5, <1>6, <1>10, <2>1 DEF Move, Untouched
<1> QED
  BY <1>8, <1>9, <1>10

\* A shutdown answers what is not on a wire and condemns the rest.
LEMMA ShutdownMoves ==
  ASSUME IInv, NEW why \in {"failed", "cancelled"}, NEW joined \in SUBSET Requests,
         NEW conf, Shutdown(why, joined, conf), NEW q \in Requests
  PROVE  Move(q)
<1> DEFINE started == {r \in Requests : Started(r)}
           gone == A!Waiters \cup {r \in Requests : req[r].state = "Assigned"} \cup (started \cap joined)
           held(r) == IF req[r].intent = "terminal" /\ req[r].failed THEN "failed" ELSE why
           N == [r \in gone |-> IF r \in joined THEN held(r) ELSE why]
<1>1. /\ Notify(N, conf)
      /\ req' = [r \in Requests |->
            IF r \in gone THEN Absent
            ELSE IF r \in started THEN [req[r] EXCEPT !.intent = "terminal"] ELSE req[r]]
      /\ outcome' = [r \in Requests |->
            IF r \in A!Waiters THEN "rejected" ELSE IF r \in gone THEN "released" ELSE outcome[r]]
  BY DEF Shutdown
<1>2. /\ gone \subseteq Requests /\ A!Waiters \subseteq gone
      /\ N = [r \in gone |-> N[r]] /\ \A r \in gone : N[r] \in Results
  <2>1. why \in Results /\ "failed" \in Results
    BY DEF Results
  <2>2. N = [r \in gone |-> N[r]]
    OBVIOUS
  <2>3. ASSUME NEW r \in gone PROVE N[r] \in Results
    <3>1. held(r) \in {"failed", why} /\ N[r] \in {held(r), why}
      OBVIOUS
    <3> QED
      BY <2>1, <3>1
  <2>4. A!Waiters \subseteq Requests
    BY CoreKnown, QueueFacts DEF A!TypeOK, A!Waiters
  <2>5. gone \subseteq Requests /\ A!Waiters \subseteq gone
    BY <2>4
  <2> QED
    BY <2>2, <2>3, <2>5
<1>3. (q \in gone => answer'[q] # "none") /\ (q \notin gone => answer'[q] = answer[q])
  <2> HIDE DEF N, gone
  <2> QED
    BY <1>1, <1>2, NotifyAnswers
<1>4. q \in gone => req[q].state # "Absent"
  BY OwnersKnown DEF Started, OnWire
<1>5. Absent.state = "Absent" /\ req[q] \in ReqRecord
  BY OwnersKnown DEF Absent
<1>6. CASE q \in gone
  <2>1. req'[q] = Absent
    BY <1>1, <1>6
  <2> QED
    BY <1>3, <1>4, <1>5, <1>6, <2>1 DEF Move, Over
<1>7. CASE q \notin gone /\ q \in started
  <2>1. req'[q] = [req[q] EXCEPT !.intent = "terminal"] /\ outcome'[q] = outcome[q]
    BY <1>1, <1>2, <1>7
  <2>2. /\ req'[q].state = req[q].state /\ req'[q].attempts = req[q].attempts
        /\ req'[q].sent = req[q].sent /\ req'[q].intent = "terminal"
    BY <1>5, <2>1 DEF ReqRecord
  <2> QED
    BY <1>3, <1>7, <2>1, <2>2 DEF Move, Kept, Condemned, Same
<1>8. CASE q \notin gone /\ q \notin started
  <2>1. req'[q] = req[q] /\ outcome'[q] = outcome[q]
    BY <1>1, <1>2, <1>8
  <2> QED
    BY <1>3, <1>8, <2>1 DEF Move, Untouched
<1> QED
  BY <1>6, <1>7, <1>8

\* A failure of the engine is a shutdown, or changes no request.
LEMMA FailMoves ==
  ASSUME IInv, NEW why, NEW joined \in SUBSET Requests, NEW conf, Fail(why, joined, conf),
         NEW q \in Requests
  PROVE  Move(q)
<1>1. CASE ~Closing
  BY <1>1, ShutdownMoves DEF Fail
<1>2. CASE Closing
  BY <1>2 DEF Fail, Move, Untouched, admissionVars
<1> QED
  BY <1>1, <1>2

\* A handler that leaves the tracker and the answers alone.
LEMMA NothingMoves ==
  ASSUME UNCHANGED admissionVars, UNCHANGED <<req, answer>>, NEW q \in Requests
  PROVE  Move(q)
  BY DEF Move, Untouched, admissionVars

\* A handler that changes the record of one request.
LEMMA OneMoves ==
  ASSUME IInv, NEW r \in Requests, NEW y, req' = [req EXCEPT ![r] = y],
         UNCHANGED admissionVars, UNCHANGED answer,
         req'[r] = y => Kept(r),
         NEW q \in Requests
  PROVE  Move(q)
<1>1. CoreTypes
  BY CoreKnown
<1>2. req'[r] = y /\ (q # r => req'[q] = req[q])
  BY <1>1 DEF CoreTypes
<1> QED
  BY <1>2 DEF Move, Untouched, admissionVars

\* A command.
LEMMA CommandMoves ==
  ASSUME IInv, NEW r \in Requests, HandleCommand(r), NEW q \in Requests
  PROVE  Move(q)
<1>1. CoreTypes /\ Books /\ r \in inbox
  BY CoreKnown DEF HandleCommand
<1>2. /\ outcome = [p \in Requests |-> outcome[p]] /\ req[r] \in ReqRecord
      /\ req = [p \in Requests |-> req[p]]
  BY <1>1, CoreKnown, QueueFacts DEF A!TypeOK, CoreTypes
<1>3. ASSUME NEW why \in Results, Notify([p \in {r} |-> why], confirm),
             UNCHANGED req, \A p \in Requests : p # r => outcome'[p] = outcome[p]
      PROVE  Move(q)
  <2> DEFINE N == [p \in {r} |-> why]
  <2>1. N = [p \in {r} |-> N[p]] /\ {r} \subseteq Requests /\ \A p \in {r} : N[p] \in Results
    OBVIOUS
  <2>2. Notify(N, confirm)
    BY <1>3
  <2>3. (q = r => answer'[q] # "none") /\ (q # r => answer'[q] = answer[q])
    <3> HIDE DEF N
    <3> QED
      BY <2>1, <2>2, NotifyAnswers
  <2> QED
    BY <1>1, <1>3, <2>3 DEF Move, Refused, Untouched
<1>4. CASE \E why \in {"cancelled", "refused"} :
              /\ Notify([p \in {r} |-> why], confirm) /\ UNCHANGED req
              /\ UNCHANGED admissionVars \/ A!Refuse(r)
  <2>1. \A p \in Requests : p # r => outcome'[p] = outcome[p]
    BY <1>2, <1>4 DEF A!Refuse, A!admissionVars, admissionVars
  <2> QED
    BY <1>3, <1>4, <2>1 DEF Results
<1>5. CASE /\ A!SubmitWaiting(r) /\ req' = [req EXCEPT ![r].state = "Queued"] /\ UNCHANGED answer
  <2>1. \A p \in Requests : p # r => outcome'[p] = outcome[p] /\ req'[p] = req[p]
    BY <1>2, <1>5 DEF A!SubmitWaiting, A!TakePermit
  <2>2. req'[r].state = "Queued" /\ req'[r].intent = req[r].intent
    BY <1>2, <1>5 DEF ReqRecord
  <2> QED
    BY <1>1, <1>5, <2>1, <2>2 DEF Move, Admitted, Untouched
<1>6. CASE /\ A!SubmitDirect(r) /\ UNCHANGED answer
           /\ req' = [req EXCEPT ![r].state = "Assigned", ![r].attempts = 1]
  <2>1. \A p \in Requests : p # r => outcome'[p] = outcome[p] /\ req'[p] = req[p]
    BY <1>2, <1>6 DEF A!SubmitDirect, A!Grant
  <2>2. req'[r].state = "Assigned" /\ req'[r].attempts = 1 /\ req'[r].intent = req[r].intent
    BY <1>2, <1>6 DEF ReqRecord
  <2> QED
    BY <1>1, <1>6, <2>1, <2>2 DEF Move, Admitted, Untouched
<1> QED
  BY <1>4, <1>5, <1>6 DEF HandleCommand

\* The tick.
LEMMA TickMoves == ASSUME IInv, HandleTick, NEW q \in Requests PROVE Move(q)
<1> DEFINE N == [p \in TimedOut |-> "timed_out"]
<1>1. /\ A!ExpireWaiting /\ Notify(N, confirm)
      /\ req' = [p \in Requests |-> IF p \in TimedOut THEN Absent ELSE req[p]]
  BY DEF HandleTick
<1>2. TimedOut \subseteq Requests /\ N = [p \in TimedOut |-> N[p]] /\ \A p \in TimedOut : N[p] \in Results
  BY DEF TimedOut, Results
<1>3. (q \in TimedOut => answer'[q] # "none") /\ (q \notin TimedOut => answer'[q] = answer[q])
  <2> HIDE DEF N
  <2> QED
    BY <1>1, <1>2, NotifyAnswers
<1>4. waiting \subseteq A!Waiters /\ waiting \subseteq Requests
  BY CoreKnown, QueueFacts DEF A!TypeOK, A!Waiters
<1>5. q \in waiting => outcome[q] = "queued"
  BY <1>4, OwnersKnown
<1>6. outcome' = [p \in Requests |-> IF p \in waiting \cap elapsed THEN "timed_out" ELSE outcome[p]]
  BY <1>1 DEF A!ExpireWaiting, A!Disown
<1>7. CASE q \in TimedOut
  <2>1. req'[q] = Absent /\ req[q].state = "Queued"
    BY <1>1, <1>7, OwnersKnown DEF TimedOut
  <2> QED
    BY <1>3, <1>7, <2>1 DEF Move, Over, Absent
<1>8. CASE q \notin TimedOut
  <2>1. req'[q] = req[q] /\ outcome'[q] = outcome[q]
    BY <1>1, <1>5, <1>6, <1>8 DEF TimedOut
  <2> QED
    BY <1>3, <1>8, <2>1 DEF Move, Untouched
<1> QED
  BY <1>7, <1>8

\* A cancellation.
LEMMA CancelMoves ==
  ASSUME IInv, NEW r \in Requests, HandleCancel(r), NEW q \in Requests
  PROVE  Move(q)
<1>1. CoreTypes /\ req[r] \in ReqRecord
  BY CoreKnown, OwnersKnown
<1>2. CASE CancelUnknown(r) \/ CancelDispatched(r)
  BY <1>2, NothingMoves DEF CancelUnknown, CancelDispatched
<1>3. CASE CancelQueued(r)
  <2> DEFINE N == [p \in {r} |-> "cancelled"]
             conf == [confirm EXCEPT ![r] = "held"]
  <2>1. N = [p \in {r} |-> N[p]] /\ {r} \subseteq Requests /\ \A p \in {r} : N[p] \in Results
    BY DEF Results
  <2>2. Notify(N, conf)
    BY <1>3 DEF CancelQueued
  <2>3. (q = r => answer'[q] # "none") /\ (q # r => answer'[q] = answer[q])
    <3> HIDE DEF N, conf
    <3> QED
      BY <2>1, <2>2, NotifyAnswers
  <2>4. /\ q = r => req'[q].state = "Absent" /\ req[q].state # "Absent"
        /\ q # r => req'[q] = req[q]
    BY <1>1, <1>3 DEF CancelQueued, CoreTypes, Absent
  <2>5. q # r => outcome'[q] = outcome[q]
    <3>1. outcome = [p \in Requests |-> outcome[p]] /\ ownership[r].request = r
      <4>1. ownership[r] \in A!Permit /\ ownership[r].kind = "permit"
        BY <1>3, CoreKnown, OwnersKnown, QueueFacts DEF CancelQueued
      <4>2. ownership[r].request = r
        BY <4>1, CoreKnown DEF QueueInv, AP!Inv, AP!PermitsAreOnce
      <4> QED
        BY <4>2, CoreKnown, QueueFacts DEF A!TypeOK
    <3> QED
      BY <1>3, <3>1 DEF CancelQueued, A!CancelWaiting, A!Disown
  <2> QED
    BY <2>3, <2>4, <2>5 DEF Move, Over, Untouched
<1>4. CASE CancelOnWire(r)
  <2> DEFINE y == [req[r] EXCEPT !.intent = "terminal", !.failed = TRUE]
  <2>1. /\ y \in ReqRecord /\ y.state = req[r].state /\ y.attempts = req[r].attempts
        /\ y.sent = req[r].sent /\ y.intent = "terminal"
    BY <1>1 DEF ReqRecord
  <2>2. /\ req' = [req EXCEPT ![r] = y] /\ Started(r) /\ UNCHANGED admissionVars
        /\ UNCHANGED answer
    BY <1>4 DEF CancelOnWire, MayRetire, Started
  <2> HIDE DEF y
  <2>3. req'[r] = y => Kept(r)
    BY <2>1, <2>2 DEF Kept, Condemned, Same, admissionVars
  <2> QED
    BY <2>1, <2>2, <2>3, OneMoves
<1>5. CASE CancelStale(r)
  <2>1. {} \in SUBSET Requests
    OBVIOUS
  <2> QED
    BY <1>5, <2>1, FailMoves DEF CancelStale
<1> QED
  BY <1>2, <1>3, <1>4, <1>5 DEF HandleCancel

\* The events of the workers.
LEMMA ReportMoves ==
  ASSUME IInv, NEW s \in Slots, HandleTransition(s) \/ HandleBytes(s) \/ HandleFailed(s),
         NEW q \in Requests
  PROVE  Move(q)
<1>1. PICK type \in {"Transition", "Bytes", "Failed"} : Took(s, type)
  BY DEF HandleTransition, HandleBytes, HandleFailed
<1>2. PICK r \in Requests : r = Ev(s).req
  BY <1>1, EventKnown
<1>3. CoreTypes /\ req[r] \in ReqRecord /\ Ev(s) \in Event /\ Ev(s).type = type /\ {} \in SUBSET Requests
  BY <1>1, CoreKnown, OwnersKnown, EventKnown
<1>4. CASE UNCHANGED admissionVars /\ UNCHANGED <<req, answer>>
  BY <1>4, NothingMoves
<1>5. CASE \E why : Fail(why, {}, confirm)
  BY <1>3, <1>5, FailMoves
<1>6. CASE /\ HandleTransition(s) /\ MayAdvance(r, Ev(s).to, Ev(s).wire)
           /\ req' = [req EXCEPT ![r].state = Ev(s).to, ![r].wire = Ev(s).wire, ![r].shown = Ev(s).wire]
           /\ UNCHANGED admissionVars /\ UNCHANGED answer
  <2>1. Took(s, "Transition")
    BY <1>6 DEF HandleTransition
  <2>2. Ev(s).to \in DOMAIN Follows /\ Ev(s).wire \in WireType
    BY <1>3, <2>1 DEF Event, Took
  <2>3. PICK to \in DOMAIN Follows, w \in WireType : to = Ev(s).to /\ w = Ev(s).wire
    BY <2>2
  <2> DEFINE y == [req[r] EXCEPT !.state = to, !.wire = w, !.shown = w]
  <2>4. to \in States
    BY DEF Follows, States, OnWire
  <2>5. /\ y \in ReqRecord /\ y.state = to /\ y.attempts = req[r].attempts
        /\ y.sent = req[r].sent /\ y.intent = req[r].intent
    BY <1>3, <2>4 DEF ReqRecord
  <2>6. /\ req' = [req EXCEPT ![r] = y] /\ req[r].intent = "none" /\ req[r].state \in Follows[to]
        /\ UNCHANGED admissionVars /\ UNCHANGED answer
    BY <1>6, <2>3 DEF MayAdvance
  <2>7. worker[SlotOf(r)].pc = to
    <3>1. Sent(s, Ev(s)) /\ Ev(s).type = "Transition" /\ Owns(r, s)
      BY <1>2, <1>6, <2>1, EventKnown DEF MayAdvance
    <3> QED
      BY <2>3, <3>1 DEF Sent, SentBy, Reports, Owns, SlotOf
  <2> HIDE DEF y
  <2>8. req'[r] = y => Kept(r)
    BY <2>5, <2>6, <2>7 DEF Kept, Advances, Same, admissionVars
  <2> QED
    BY <2>5, <2>6, <2>8, OneMoves
<1>7. CASE /\ req[r].state \in {"Sending", "WaitingResponse"}
           /\ req' = [req EXCEPT ![r].sent = TRUE]
           /\ UNCHANGED admissionVars /\ UNCHANGED answer
  <2> DEFINE y == [req[r] EXCEPT !.sent = TRUE]
  <2>1. /\ y \in ReqRecord /\ y.state = req[r].state /\ y.attempts = req[r].attempts
        /\ y.sent = TRUE /\ y.intent = req[r].intent
    BY <1>3 DEF ReqRecord
  <2>2. /\ req' = [req EXCEPT ![r] = y] /\ Started(r)
        /\ UNCHANGED admissionVars /\ UNCHANGED answer
    BY <1>7 DEF Started, OnWire
  <2> HIDE DEF y
  <2>3. req'[r] = y => Kept(r)
    BY <2>1, <2>2 DEF Kept, Marked, admissionVars
  <2> QED
    BY <2>1, <2>2, <2>3, OneMoves
<1>8. CASE /\ Took(s, "Failed") /\ MayRetire(r, Ev(s).wire) /\ MustStop(r)
           /\ req' = [req EXCEPT ![r].intent = "terminal", ![r].failed = TRUE]
           /\ UNCHANGED admissionVars /\ UNCHANGED answer
  <2> DEFINE y == [req[r] EXCEPT !.intent = "terminal", !.failed = TRUE]
  <2>1. /\ y \in ReqRecord /\ y.state = req[r].state /\ y.attempts = req[r].attempts
        /\ y.sent = req[r].sent /\ y.intent = "terminal"
    BY <1>3 DEF ReqRecord
  <2>2. /\ req' = [req EXCEPT ![r] = y] /\ Started(r)
        /\ UNCHANGED admissionVars /\ UNCHANGED answer
    BY <1>8 DEF MayRetire, Started
  <2> HIDE DEF y
  <2>3. req'[r] = y => Kept(r)
    BY <2>1, <2>2 DEF Kept, Condemned, Same, admissionVars
  <2> QED
    BY <2>1, <2>2, <2>3, OneMoves
<1>9. CASE /\ Took(s, "Failed") /\ MayRetire(r, Ev(s).wire) /\ ~MustStop(r)
           /\ req' = [req EXCEPT ![r].intent = "retry", ![r].failed = TRUE, ![r].state = "Retrying"]
           /\ UNCHANGED admissionVars /\ UNCHANGED answer
  <2> DEFINE y == [req[r] EXCEPT !.intent = "retry", !.failed = TRUE, !.state = "Retrying"]
  <2>1. /\ y \in ReqRecord /\ y.state = "Retrying" /\ y.attempts = req[r].attempts
        /\ y.sent = req[r].sent /\ y.intent = "retry"
    BY <1>3 DEF ReqRecord, States
  <2>2. /\ req' = [req EXCEPT ![r] = y] /\ req[r].intent = "none" /\ req[r].state \in OnWire
        /\ UNCHANGED admissionVars /\ UNCHANGED answer
        /\ r \in RetrySafe \/ ~req[r].sent
    BY <1>9 DEF MayRetire, MustStop
  <2>3. worker[SlotOf(r)].pc = "Failed" /\ ~Closing
    <3>1. Sent(s, Ev(s)) /\ Ev(s).type = "Failed" /\ ~Closing
      BY <1>9, EventKnown DEF MayRetire, Took
    <3>2. Owns(r, s)
      BY <1>2, <1>9, <3>1, EventKnown
    <3> QED
      BY <3>1, <3>2 DEF Sent, SentBy, Reports, Owns, SlotOf
  <2> HIDE DEF y
  <2>4. req'[r] = y => Kept(r)
    BY <2>1, <2>2, <2>3 DEF Kept, Retries, Same, admissionVars
  <2> QED
    BY <2>1, <2>2, <2>4, OneMoves
<1>10. CASE HandleTransition(s)
  BY <1>2, <1>4, <1>5, <1>6, <1>10 DEF HandleTransition, SameCore
<1>11. CASE HandleBytes(s)
  BY <1>2, <1>4, <1>5, <1>7, <1>11 DEF HandleBytes, SameCore
<1>12. CASE HandleFailed(s)
  BY <1>2, <1>4, <1>5, <1>8, <1>9, <1>12 DEF HandleFailed
<1> QED
  BY <1>10, <1>11, <1>12

\* An event that may end its request.
LEMMA EndMoves ==
  ASSUME IInv, NEW s \in Slots, HandleCompleted(s) \/ HandleUnstarted(s) \/ HandleRetired(s),
         NEW q \in Requests
  PROVE  Move(q)
<1>1. PICK type \in {"Completed", "Unstarted", "Retired"} : Took(s, type)
  BY DEF HandleCompleted, HandleUnstarted, HandleRetired
<1>2. PICK r \in Requests : r = Ev(s).req
  BY <1>1, EventKnown
<1>3. CoreTypes /\ Books /\ req[r] \in ReqRecord /\ {} \in SUBSET Requests
  BY <1>1, CoreKnown, OwnersKnown
<1>4. CASE UNCHANGED admissionVars /\ UNCHANGED <<req, answer>>
  BY <1>4, NothingMoves
<1>5. CASE \E why : Fail(why, {}, confirm)
  BY <1>3, <1>5, FailMoves
<1>6. ASSUME Started(r) \/ req[r].state = "Assigned", NEW why \in Results, Finish(r, why, confirm)
      PROVE  Move(q)
  <2>1. ownership[r].kind = "lease"
    BY <1>6, OwnersKnown
  <2> QED
    BY <1>6, <2>1, FinishMoves
<1>7. ASSUME NEW fresh \in BOOLEAN, GoOn(s, r, fresh),
             IF fresh THEN MayRetryNow(s, r) ELSE MayContinue(s, r)
      PROVE  Move(q)
  <2> DEFINE y == [req[r] EXCEPT !.wire = Wire(Ev(s).gen + 1, "none"), !.intent = "none",
                                 !.attempts = IF fresh THEN @ + 1 ELSE @,
                                 !.sent = IF fresh THEN FALSE ELSE @]
  <2>1. /\ y.state = req[r].state /\ y.intent = "none"
        /\ fresh => y.attempts = req[r].attempts + 1
        /\ ~fresh => y.attempts = req[r].attempts /\ y.sent = req[r].sent
    BY <1>3 DEF ReqRecord
  <2>2. /\ req' = [req EXCEPT ![r] = y] /\ UNCHANGED admissionVars /\ UNCHANGED answer
        /\ fresh => req[r].state = "Retrying" /\ req[r].intent = "retry"
        /\ ~fresh => req[r].state = "Connecting" /\ req[r].intent = "none"
    BY <1>3, <1>7 DEF GoOn, MayRetryNow, MayContinue, CoreTypes
  <2> HIDE DEF y
  <2>3. req'[r] = y => Kept(r)
    BY <2>1, <2>2 DEF Kept, Reconnects, Same, admissionVars
  <2> QED
    BY <2>2, <2>3, OneMoves
<1>8. CASE HandleCompleted(s)
  <2>1. "completed" \in Results
    BY DEF Results
  <2> QED
    BY <1>2, <1>4, <1>5, <1>6, <1>8, <2>1 DEF HandleCompleted, MayFinish, SameCore
<1>9. CASE HandleUnstarted(s)
  <2>1. "cancelled" \in Results
    BY DEF Results
  <2> QED
    BY <1>2, <1>4, <1>5, <1>6, <1>9, <2>1 DEF HandleUnstarted, MayFinish, SameCore
<1>10. CASE HandleRetired(s)
  <2>1. ASSUME Plan(r) \in {"cancel", "fail", "lifecycle"}, MayEnd(s, r),
               NEW why, why = (CASE Plan(r) = "cancel" -> "cancelled"
                                 [] Plan(r) = "fail" -> "failed"
                                 [] OTHER -> lifecycle[r]),
               Finish(r, why, confirm)
        PROVE  Move(q)
    <3>1. Started(r)
      BY <1>3, <2>1 DEF MayEnd, Books
    <3>2. /\ "cancelled" \in Results /\ "failed" \in Results
          /\ lifecycle[r] \in Results \cup {"none"}
          /\ (Plan(r) = "lifecycle" => lifecycle[r] # "none")
      BY <1>3 DEF CoreTypes, Results, Plan, Books
    <3>3. why \in Results
      BY <2>1, <3>2
    <3> QED
      BY <1>6, <2>1, <3>1, <3>3
  <2>2. ASSUME Plan(r) \in {"continue", "retry"} PROVE Plan(r) # "none"
    BY <2>2
  <2> QED
    BY <1>2, <1>4, <1>5, <1>7, <1>10, <2>1 DEF HandleRetired, RetirementFails, SameCore
<1> QED
  BY <1>8, <1>9, <1>10

\* A worker that is gone takes what it had on its wire with it.
LEMMA StoppedMoves ==
  ASSUME IInv, NEW s \in Slots, HandleStopped(s), NEW q \in Requests
  PROVE  Move(q)
<1> DEFINE mine == {r \in Requests : Started(r) /\ SlotOf(r) = s}
           ok == Ev(s).ok
           held == [r \in Requests |-> IF ~ok /\ lifecycle[r] = "cancelled" THEN "failed"
                                      ELSE lifecycle[r]]
<1>1. CoreTypes /\ mine \in SUBSET Requests /\ {} \in SUBSET Requests
  BY CoreKnown
<1>2. CASE UNCHANGED admissionVars /\ UNCHANGED <<req, answer>>
  BY <1>2, NothingMoves
<1>3. CASE \E joined \in SUBSET Requests : \E why : Fail(why, joined, confirm)
  BY <1>3, FailMoves
<1>4. ASSUME NEW r \in mine, held[r] # "none", A!ReleaseActive(ownership[r]), Closing,
             Notify([p \in {r} |-> held[r]], confirm), req' = [req EXCEPT ![r] = Absent]
      PROVE  Move(q)
  <2>1. r \in Requests /\ Started(r) /\ ownership[r].kind = "lease" /\ req[r].state # "Absent"
    BY <1>4, OwnersKnown
  <2>2. held[r] \in Results
    BY <1>1, <1>4, <2>1 DEF CoreTypes, Results
  <2> DEFINE N == [p \in {r} |-> held[r]]
  <2>3. N = [p \in {r} |-> N[p]] /\ {r} \subseteq Requests /\ \A p \in {r} : N[p] \in Results
    BY <2>1, <2>2
  <2>4. Notify(N, confirm)
    BY <1>4
  <2>5. (q = r => answer'[q] # "none") /\ (q # r => answer'[q] = answer[q])
    <3> HIDE DEF N, held, mine
    <3> QED
      BY <2>1, <2>3, <2>4, NotifyAnswers
  <2>6. req'[r].state = "Absent" /\ (q # r => req'[q] = req[q])
    BY <1>1, <1>4, <2>1 DEF CoreTypes, Absent
  <2>7. q # r => outcome'[q] = outcome[q]
    <3>1. TimedOut = {} /\ Promoted = {}
      <4>1. \A p \in Requests : outcome[p] = "queued" => req[p].state = "Queued"
        BY OwnersKnown
      <4>2. \A p \in Requests : req[p].state # "Queued"
        BY <1>4, CoreKnown DEF ClosingBooks
      <4> QED
        BY <4>1, <4>2 DEF TimedOut, Promoted
    <3> QED
      BY <1>4, <2>1, <3>1, ReleaseEffect
  <2> QED
    BY <2>1, <2>5, <2>6, <2>7 DEF Move, Over, Untouched
<1>5. \/ ~Closing /\ Fail("worker ended", mine, confirm)
      \/ SameCore
      \/ Fail("worker ended", {}, confirm)
      \/ /\ Closing
         /\ \E r \in mine :
              /\ held[r] # "none"
              /\ A!ReleaseActive(ownership[r])
              /\ Notify([p \in {r} |-> held[r]], confirm)
              /\ req' = [req EXCEPT ![r] = Absent]
  BY DEF HandleStopped
<1>6. CASE SameCore
  BY <1>2, <1>6 DEF SameCore
<1>7. CASE \E joined \in SUBSET Requests : \E why : Fail(why, joined, confirm)
  BY <1>3, <1>7
<1>8. CASE /\ Closing
           /\ \E r \in mine :
                /\ held[r] # "none"
                /\ A!ReleaseActive(ownership[r])
                /\ Notify([p \in {r} |-> held[r]], confirm)
                /\ req' = [req EXCEPT ![r] = Absent]
  <2>1. PICK r \in mine : /\ held[r] # "none"
                          /\ A!ReleaseActive(ownership[r])
                          /\ Notify([p \in {r} |-> held[r]], confirm)
                          /\ req' = [req EXCEPT ![r] = Absent]
    BY <1>8, Zenon
  <2> HIDE DEF mine, held
  <2> QED
    BY <1>4, <1>8, <2>1, Zenon
<1>9. CASE Fail("worker ended", mine, confirm) \/ Fail("worker ended", {}, confirm)
  <2> HIDE DEF mine
  <2> QED
    BY <1>1, <1>7, <1>9
<1> HIDE DEF mine, held
<1> QED
  BY <1>5, <1>6, <1>8, <1>9, Zenon

\* Whatever happens, a request makes one of these moves.
LEMMA StepMoves == ASSUME IInv, [Next]_vars, NEW q \in Requests PROVE Move(q)
<1>1. CASE CallerStep \/ AskClose \/ HandleCloseTimeout
  <2>1. UNCHANGED <<req, answer>> /\ outcome' = outcome
    BY <1>1 DEF CallerStep, SendCommand, AskCancel, Elapse, A!Elapse, A!admissionVars, AskClose,
                HandleCloseTimeout, coreVars, admissionVars
  <2> QED
    BY <2>1 DEF Move, Untouched
<1>2. CASE HandleClose
  <2>1. Shutdown("cancelled", {}, confirm) /\ {} \in SUBSET Requests
    BY <1>2 DEF HandleClose
  <2> QED
    BY <2>1, ShutdownMoves
<1>3. CASE FinishClose
  <2>1. UNCHANGED <<req, answer>> /\ outcome' = outcome
    BY <1>3 DEF FinishClose, A!CloseComplete
  <2> QED
    BY <2>1 DEF Move, Untouched
<1>4. CASE ControlStep
  BY <1>2, <1>3, <1>4, TickMoves, CommandMoves, CancelMoves DEF ControlStep
<1>5. ASSUME NEW s \in Slots, EventStep(s) PROVE Move(q)
  BY <1>5, ReportMoves, EndMoves, StoppedMoves DEF EventStep
<1>6. ASSUME NEW s \in Slots, WorkerStep(s) PROVE Move(q)
  <2>1. UNCHANGED admissionVars /\ UNCHANGED <<req, answer>>
    BY <1>6 DEF WorkerStep, WorkerStops, WorkerTakes, WorkerIO, WorkerIOFails, WorkerInterrupted,
                WorkerAnswered, FromWorker, coreVars
  <2> QED
    BY <2>1, NothingMoves
<1>7. CASE UNCHANGED vars
  BY <1>7, NothingMoves DEF vars, coreVars
<1> QED
  BY <1>1, <1>4, <1>5, <1>6, <1>7 DEF Next

\* A worker writes.
Writes(s) == worker[s].pc = "writing" /\ WorkerIO(s)

\* Bytes go out only so, and for the request that has the worker's Slot.
LEMMA SentOnlyByWrites ==
  ASSUME IInv, [Next]_vars
  PROVE  \/ sentOn' = sentOn
         \/ \E s \in Slots :
               /\ Writes(s) /\ Owns(worker[s].req, s) /\ worker[s].req \in Requests
               /\ Started(worker[s].req)
               /\ sentOn' = [sentOn EXCEPT ![worker[s].req] = @ \cup {<<s, worker[s].gen>>}]
<1>1. CASE CallerStep \/ AskClose \/ HandleCloseTimeout \/ ControlStep \/ UNCHANGED vars
  BY <1>1 DEF CallerStep, SendCommand, AskCancel, Elapse, AskClose, HandleCloseTimeout, ControlStep,
              HandleClose, FinishClose, HandleTick, HandleCommand, HandleCancel, vars, workerVars
<1>2. ASSUME NEW s \in Slots, EventStep(s) PROVE sentOn' = sentOn
  BY <1>2 DEF EventStep, HandleTransition, HandleBytes, HandleCompleted, HandleUnstarted, HandleFailed,
              HandleRetired, HandleStopped, FromEvent, workerVars
<1>3. ASSUME NEW s \in Slots, WorkerStep(s), ~WorkerIO(s) PROVE sentOn' = sentOn
  BY <1>3 DEF WorkerStep, WorkerStops, WorkerTakes, WorkerIOFails, WorkerInterrupted, WorkerAnswered
<1>4. ASSUME NEW s \in Slots, WorkerIO(s), worker[s].pc # "writing" PROVE sentOn' = sentOn
  BY <1>4 DEF WorkerIO
<1>5. ASSUME NEW s \in Slots, WorkerIO(s), worker[s].pc = "writing"
      PROVE  /\ Writes(s) /\ Owns(worker[s].req, s) /\ worker[s].req \in Requests
             /\ Started(worker[s].req)
             /\ sentOn' = [sentOn EXCEPT ![worker[s].req] = @ \cup {<<s, worker[s].gen>>}]
  <2>1. worker[s].req \in Requests
    BY <1>5, WorkerKnown DEF Serving, AtIO
  <2>2. Owns(worker[s].req, s) /\ Started(worker[s].req)
    <3>1. CASE Closing
      <4>1. Owns(worker[s].req, s)
        BY <1>5, <3>1, CoreKnown DEF ClosingSlot, AtIO
      <4> QED
        BY <2>1, <3>1, <4>1, CoreKnown, OwnersKnown DEF Owns, ClosingBooks
    <3>2. CASE ~Closing
      <4>1. OpenSlot(s)
        BY <3>2, CoreKnown
      <4> QED
        BY <1>5, <4>1 DEF OpenSlot, Serving, Settled, AtIO
    <3> QED
      BY <3>1, <3>2
  <2> QED
    BY <1>5, <2>1, <2>2 DEF Writes, WorkerIO
<1> QED
  BY <1>1, <1>2, <1>3, <1>4, <1>5 DEF Next

-----------------------------------------------------------------------------
(* The answer is the last thing of a request. *)

SentType == sentOn \in [Requests -> SUBSET (Slots \X Nat)]

Answers ==
    /\ SentType
    /\ \A r \in Requests :
          /\ answer[r] # "none" => req[r].state = "Absent"
          /\ outcome[r] # "unseen" /\ req[r].state = "Absent" => answer[r] # "none"

\* Answers is inductive: a move answers a request exactly when it leaves the
\* tracker.
LEMMA AnswersKept == IInv /\ Answers /\ [Next]_vars => Answers'
<1> SUFFICES ASSUME IInv, Answers, [Next]_vars PROVE Answers'
  OBVIOUS
<1>0. SentType'
  <2>1. \A s \in Slots : worker[s].gen \in Nat
    BY WorkerKnown DEF WorkerState
  <2>2. CASE sentOn' = sentOn
    BY <2>2 DEF Answers, SentType
  <2>3. ASSUME NEW s \in Slots, NEW r \in Requests,
               sentOn' = [sentOn EXCEPT ![r] = @ \cup {<<s, worker[s].gen>>}]
        PROVE  SentType'
    BY <2>1, <2>3 DEF Answers, SentType
  <2> QED
    BY <2>2, <2>3, SentOnlyByWrites
<1>1. SUFFICES ASSUME NEW r \in Requests
               PROVE  /\ answer'[r] # "none" => req'[r].state = "Absent"
                      /\ outcome'[r] # "unseen" /\ req'[r].state = "Absent" => answer'[r] # "none"
  BY <1>0 DEF Answers
<1>2. Move(r) /\ Books
  BY StepMoves, CoreKnown
<1>3. /\ answer[r] # "none" => req[r].state = "Absent"
      /\ outcome[r] # "unseen" /\ req[r].state = "Absent" => answer[r] # "none"
      /\ r \in inbox => req[r].state = "Absent" /\ answer[r] = "none"
  BY <1>2, OwnersKnown DEF Answers, Books
<1>4. CASE Untouched(r) \/ Refused(r) \/ Over(r) \/ Admitted(r)
  BY <1>3, <1>4 DEF Untouched, Refused, Over, Admitted
<1>5. CASE Kept(r)
  BY <1>3, <1>5 DEF Kept, Advances, Marked, Condemned, Retries, Reconnects, Same, Started, OnWire, Follows
<1> QED
  BY <1>2, <1>4, <1>5 DEF Move

\* It holds in every reachable state.
LEMMA AnswersHold == Spec => [](IInv /\ Answers)
<1>1. Init => Answers
  BY DEF Init, Answers, SentType
<1> QED
  BY <1>1, AtFirst, StepKeeps, AnswersKept, PTL DEF Spec

\* A caller gets one result, and after it nothing of its request goes out any
\* more, on whatever connection (process_notifications, terminal_active).
THEOREM AnswerIsLast == Spec => NothingAfterTheAnswer
<1> DEFINE Last == \A r \in Requests : answer[r] # "none" =>
                      answer'[r] = answer[r] /\ sentOn'[r] = sentOn[r]
<1>1. IInv /\ Answers /\ [Next]_vars => Last
  <2> SUFFICES ASSUME IInv, Answers, [Next]_vars, NEW r \in Requests, answer[r] # "none"
               PROVE  answer'[r] = answer[r] /\ sentOn'[r] = sentOn[r]
    OBVIOUS
  <2>1. req[r].state = "Absent" /\ r \notin inbox /\ ~Started(r)
    BY CoreKnown DEF Answers, Books, Started, OnWire
  <2>2. answer'[r] = answer[r]
    <3>1. Move(r)
      BY StepMoves
    <3> QED
      BY <2>1, <3>1 DEF Move, Untouched, Refused, Over, Admitted, Kept
  <2>3. sentOn'[r] = sentOn[r]
    BY <2>1, SentOnlyByWrites DEF Answers, SentType
  <2> QED
    BY <2>2, <2>3
<1>2. IInv /\ Answers /\ [Next]_vars => [Last]_vars
  BY <1>1
<1>3. [][Last]_vars => NothingAfterTheAnswer
  BY PTL DEF NothingAfterTheAnswer
<1> QED
  BY <1>2, <1>3, AnswersHold, PTL DEF Spec

-----------------------------------------------------------------------------
(* What a closed engine leaves. *)

\* A worker that is not there has stopped, or has never been given anything;
\* after the close there is neither a worker nor a request.
Ends ==
    /\ \A s \in Slots :
          /\ worker[s].pc = "idle" => worker[s].req = NoRequest
          /\ ~alive[s] => worker[s].pc = "stopped" \/ (worker[s].pc = "idle" /\ work[s] = NoWork)
    /\ Closed => /\ inbox = {} /\ \A s \in Slots : ~alive[s]
                 /\ \A r \in Requests : req[r].state = "Absent"

\* What a step may do to the engine's state.
LEMMA EngineMoves ==
  ASSUME [Next]_vars
  PROVE  engine' = engine \/ engine' = "FailedClosing" \/ HandleClose \/ FinishClose
<1>1. CASE CallerStep \/ AskClose \/ HandleCloseTimeout \/ HandleTick \/ UNCHANGED vars
  BY <1>1 DEF CallerStep, SendCommand, AskCancel, Elapse, AskClose, HandleCloseTimeout,
     HandleTick, vars, coreVars
<1>2. ASSUME NEW r \in Requests, HandleCommand(r) \/ HandleCancel(r)
      PROVE  engine' = engine \/ engine' = "FailedClosing"
  BY <1>2, ZenonT(40) DEF HandleCommand, HandleCancel, CancelUnknown, CancelQueued, CancelDispatched,
     CancelOnWire, CancelStale, Fail
<1>3. ASSUME NEW s \in Slots, EventStep(s)
      PROVE  engine' = engine \/ engine' = "FailedClosing"
  BY <1>3, ZenonT(40) DEF EventStep, HandleTransition, HandleBytes, HandleCompleted, HandleUnstarted,
     HandleFailed, HandleRetired, HandleStopped, Fail, SameCore, RetirementFails, GoOn
<1>4. ASSUME NEW s \in Slots, WorkerStep(s) PROVE engine' = engine
  BY <1>4 DEF WorkerStep, WorkerStops, WorkerTakes, WorkerIO, WorkerIOFails, WorkerInterrupted,
     WorkerAnswered, FromWorker, coreVars
<1> QED
  BY <1>1, <1>2, <1>3, <1>4 DEF Next, ControlStep

\* Only finish_close closes the engine, and a close that has begun is not undone.
LEMMA CloseMoves ==
  ASSUME [Next]_vars
  PROVE  (~Closed /\ Closed' => FinishClose) /\ (Closing => Closing')
  BY EngineMoves DEF Closed, Closing, HandleClose, FinishClose

\* A closed engine handles nothing any more.
LEMMA ClosedIsStill ==
  ASSUME Closed, [Next]_vars
  PROVE  UNCHANGED <<inbox, req, alive, work>> \/ \E s \in Slots : WorkerStep(s)
<1>1. Closing /\ engine # "Closing"
  BY DEF Closed, Closing
<1>2. ASSUME NEW s \in Slots PROVE ~EventStep(s)
  BY DEF EventStep, HandleTransition, HandleBytes, HandleCompleted, HandleUnstarted,
     HandleFailed, HandleRetired, HandleStopped, Took
<1>3. ~ControlStep
  BY <1>1 DEF ControlStep, HandleClose, FinishClose, HandleTick, HandleCommand, HandleCancel
<1> QED
  BY <1>1, <1>2, <1>3 DEF Next, CallerStep, SendCommand, AskCancel, Elapse, AskClose, HandleCloseTimeout,
     vars, callerVars, channelVars, coreVars

\* A worker's step, as far as its being there is concerned.
LEMMA WorkersEnd ==
  ASSUME IInv, Ends, NEW s \in Slots, WorkerStep(s), NEW t \in Slots
  PROVE  /\ UNCHANGED <<inbox, req, alive, engine>>
         /\ worker'[t].pc = "idle" => worker'[t].req = NoRequest
         /\ ~alive[t] => worker'[t].pc = "stopped" \/ (worker'[t].pc = "idle" /\ work'[t] = NoWork)
<1>1. UNCHANGED <<inbox, req, alive, engine>>
  BY DEF WorkerStep, WorkerStops, WorkerTakes, WorkerIO, WorkerIOFails, WorkerInterrupted,
     WorkerAnswered, FromWorker, coreVars, callerVars
<1>2. /\ worker \in [Slots -> WorkerState] /\ worker[t] \in WorkerState
      /\ work \in [Slots -> [req : Requests \cup {NoRequest}, fresh : BOOLEAN]]
  BY WorkerKnown DEF WorkerTypes
<1>3. /\ worker[t].pc = "idle" => worker[t].req = NoRequest
      /\ ~alive[t] => worker[t].pc = "stopped" \/ (worker[t].pc = "idle" /\ work[t] = NoWork)
  BY DEF Ends
<1>4. CASE t # s
  <2>1. worker'[t] = worker[t] /\ work'[t] = work[t]
    BY <1>2, <1>4 DEF WorkerStep, WorkerStops, WorkerTakes, WorkerIO, WorkerIOFails, WorkerInterrupted,
       WorkerAnswered, RetireWire
  <2> QED
    BY <1>1, <1>3, <2>1
<1>5. CASE t = s /\ (WorkerStops(s) \/ WorkerTakes(s))
  BY <1>1, <1>2, <1>3, <1>5 DEF WorkerStops, WorkerTakes, WorkerState
<1>6. CASE t = s /\ (WorkerIO(s) \/ WorkerIOFails(s) \/ WorkerInterrupted(s) \/ WorkerAnswered(s))
  <2>1. worker[s].pc \in AtIO \cup Waits
    BY <1>6 DEF WorkerIO, WorkerIOFails, WorkerInterrupted, WorkerAnswered
  <2>2. alive[s]
    BY <1>3, <1>6, <2>1 DEF AtIO, Waits
  <2>3. worker'[s].pc = "idle" => worker'[s].req = NoRequest
    <3>1. CASE WorkerIO(s) \/ WorkerIOFails(s)
      BY <1>2, <3>1 DEF WorkerIO, WorkerIOFails, WorkerState
    <3>2. CASE RetireWire(s)
      BY <1>2, <3>2 DEF RetireWire, WorkerState
    <3>3. CASE WorkerAnswered(s) /\ ~RetireWire(s)
      BY <1>2, <3>3 DEF WorkerAnswered, WorkerState, Waits
    <3> QED
      BY <1>6, <3>1, <3>2, <3>3 DEF WorkerInterrupted
  <2> QED
    BY <1>1, <1>6, <2>2, <2>3
<1> QED
  BY <1>4, <1>5, <1>6 DEF WorkerStep

\* A step of the core gives work only to a worker that is there, and counts a
\* worker out only when it has stopped.
LEMMA CoreKeepsWorkers ==
  ASSUME IInv, NEW t \in Slots,
         \/ CallerStep \/ AskClose \/ HandleCloseTimeout \/ ControlStep \/ UNCHANGED vars
         \/ \E s \in Slots : EventStep(s)
  PROVE  /\ worker' = worker
         /\ alive'[t] \/ worker[t].pc = "stopped" \/ (alive'[t] = alive[t] /\ work'[t] = work[t])
<1>1. CoreTypes
  BY CoreKnown
<1>2. ASSUME NEW r, NEW s, NEW fresh, Dispatch(r, s, fresh)
      PROVE  alive'[t] \/ (alive'[t] = alive[t] /\ work'[t] = work[t])
  BY <1>1, <1>2 DEF Dispatch, CoreTypes
<1>3. ASSUME NEW r, NEW why, NEW conf, Finish(r, why, conf)
      PROVE  alive'[t] \/ (alive'[t] = alive[t] /\ work'[t] = work[t])
  BY <1>2, <1>3 DEF Finish
<1>4. CASE CallerStep \/ AskClose \/ HandleCloseTimeout \/ UNCHANGED vars
  BY <1>4 DEF CallerStep, SendCommand, AskCancel, Elapse, AskClose, HandleCloseTimeout, vars,
     workerVars, channelVars
<1>5. CASE ControlStep
  <2>1. CASE HandleClose \/ FinishClose \/ HandleTick
    BY <2>1 DEF HandleClose, FinishClose, HandleTick, workerVars, channelVars
  <2>2. ASSUME NEW r \in Requests, HandleCommand(r)
        PROVE  worker' = worker /\ (alive'[t] \/ (alive'[t] = alive[t] /\ work'[t] = work[t]))
    BY <1>2, <2>2 DEF HandleCommand, workerVars
  <2>3. ASSUME NEW r \in Requests, HandleCancel(r)
        PROVE  worker' = worker /\ alive'[t] = alive[t] /\ work'[t] = work[t]
    BY <2>3 DEF HandleCancel, workerVars
  <2> QED
    BY <1>5, <2>1, <2>2, <2>3 DEF ControlStep
<1>6. ASSUME NEW s \in Slots, EventStep(s)
      PROVE  /\ worker' = worker
             /\ alive'[t] \/ worker[t].pc = "stopped" \/ (alive'[t] = alive[t] /\ work'[t] = work[t])
  <2>1. CASE HandleTransition(s) \/ HandleBytes(s) \/ HandleFailed(s)
    BY <2>1 DEF HandleTransition, HandleBytes, HandleFailed, FromEvent, workerVars
  <2>2. CASE HandleCompleted(s)
    BY <1>3, <2>2 DEF HandleCompleted, FromEvent, workerVars
  <2>3. CASE HandleUnstarted(s)
    BY <1>3, <2>3 DEF HandleUnstarted, FromEvent, workerVars
  <2>4. CASE HandleRetired(s)
    BY <1>2, <1>3, <2>4 DEF HandleRetired, RetirementFails, GoOn, FromEvent, workerVars
  <2>5. CASE HandleStopped(s)
    <3>1. Sent(s, Ev(s)) /\ Ev(s).type = "Stopped"
      BY <2>5, EventKnown DEF HandleStopped
    <3>2. worker[s].pc = "stopped"
      BY <3>1 DEF Sent, SentBy
    <3> QED
      BY <1>1, <2>5, <3>2 DEF HandleStopped, FromEvent, workerVars, CoreTypes
  <2> QED
    BY <1>6, <2>1, <2>2, <2>3, <2>4, <2>5 DEF EventStep
<1> QED
  BY <1>4, <1>5, <1>6

\* Ends is inductive.
LEMMA EndsKept == IInv /\ Ends /\ [Next]_vars => Ends'
<1> SUFFICES ASSUME IInv, Ends, [Next]_vars PROVE Ends'
  OBVIOUS
<1>1. CASE \E s \in Slots : WorkerStep(s)
  <2>1. UNCHANGED <<inbox, req, alive, engine>>
    BY <1>1, WorkersEnd
  <2> QED
    BY <1>1, <2>1, WorkersEnd DEF Ends, Closed
<1>2. CASE ~\E s \in Slots : WorkerStep(s)
  <2>1. ASSUME NEW t \in Slots
        PROVE  /\ worker' = worker
               /\ \/ alive'[t] \/ worker[t].pc = "stopped"
                  \/ alive'[t] = alive[t] /\ work'[t] = work[t]
    BY <1>2, CoreKeepsWorkers DEF Next
  <2>2. CASE Closed
    <3>1. UNCHANGED <<inbox, req, alive, work>>
      BY <1>2, <2>2, ClosedIsStill
    <3> QED
      BY <2>1, <2>2, <3>1 DEF Ends
  <2>3. CASE ~Closed /\ Closed'
    <3>1. FinishClose
      BY <2>3, CloseMoves
    <3> QED
      BY <2>1, <3>1 DEF FinishClose, Ends, callerVars, channelVars
  <2>4. CASE ~Closed'
    BY <2>1, <2>4 DEF Ends
  <2> QED
    BY <2>2, <2>3, <2>4
<1> QED
  BY <1>1, <1>2

\* When the engine has closed, every request it ever took up has its answer, no
\* command waits in the channel, and no worker has a request in hand
\* (close_ready, finish_close, stop_slot).
THEOREM ClosedIsClean == Spec => []ClosedLeavesNothing
<1>1. Init => Ends
  BY DEF Init, Ends, Closed, NoWork
<1>2. Spec => []Ends
  BY <1>1, AtFirst, StepKeeps, EndsKept, PTL DEF Spec
<1>3. IInv /\ Answers /\ Ends => ClosedLeavesNothing
  <2> SUFFICES ASSUME IInv, Answers, Ends, Closed
               PROVE  /\ \A r \in Requests : outcome[r] # "unseen" => answer[r] # "none"
                      /\ \A s \in Slots : worker[s].pc = "stopped" \/ worker[s].req = NoRequest
                      /\ inbox = {}
    BY DEF ClosedLeavesNothing
  <2> QED
    BY DEF Answers, Ends
<1> QED
  BY <1>2, <1>3, AnswersHold, PTL

-----------------------------------------------------------------------------
(* How often a request's bytes go out. *)

Writings(r) == Cardinality(sentOn[r])
AtMost(r) == IF r \in RetrySafe THEN MaxAttempts ELSE 1

\* The attempt a request is in has not written it, and may.
MayWrite(r) == Writings(r) < req[r].attempts /\ (r \in RetrySafe \/ Writings(r) = 0)

\* The worker writes, or will when it sees the core's answer.
Armed(s) == worker[s].pc = "writing" \/ (worker[s].pc = "Sending" /\ reply[s] = "ok")

\* The bytes are out, and the core has not been told yet.
Unreported(r) ==
    \E s \in Slots : worker[s].pc = "Bytes" /\ worker[s].req = r /\ reply[s] = "none"

\* An attempt writes once at most, and what the core knows of earlier writings
\* is enough for begin_retry to see that a command was sent.
Budget(r) ==
    /\ IsFiniteSet(sentOn[r])
    /\ Writings(r) <= AtMost(r)
    /\ answer[r] = "none" /\ req[r].state \in {"Absent", "Queued"} => Writings(r) = 0
    /\ Started(r) => Writings(r) <= req[r].attempts
    /\ \/ req[r].state \in {"Assigned", "Connecting", "Handshaking"}
       \/ req[r].state = "Retrying" /\ req[r].intent = "none"
       => MayWrite(r)
    /\ req[r].intent = "retry" => req[r].state = "Retrying" /\ (r \in RetrySafe \/ Writings(r) = 0)
    /\ ~Closing /\ Started(r) /\ req[r].intent = "none" /\ Writings(r) > 0 /\ ~req[r].sent =>
          r \in RetrySafe \/ Unreported(r)

Spent ==
    /\ \A r \in Requests : Budget(r)
    /\ \A s \in Slots : Armed(s) =>
          req[worker[s].req].state = "Sending" /\ MayWrite(worker[s].req)

\* What the core answers, a worker takes to mean what the core has noted.
LEMMA ReplyMoves ==
  ASSUME IInv, NEW s \in Slots, reply'[s] # reply[s],
         \/ CallerStep \/ AskClose \/ HandleCloseTimeout \/ ControlStep \/ UNCHANGED vars
         \/ \E t \in Slots : EventStep(t)
  PROVE  /\ worker' = worker
         /\ worker[s].pc = "Sending" /\ reply'[s] = "ok" =>
               /\ req[worker[s].req].state \in {"Assigned", "Handshaking"}
               /\ req'[worker[s].req].state = "Sending"
               /\ Same(worker[s].req)
         /\ worker[s].pc = "Bytes" => Closing' \/ req'[worker[s].req].sent
<1>1. CoreTypes /\ reply \in [Slots -> {"none", "ok", "err"}]
  BY CoreKnown, WorkerKnown DEF WorkerTypes
<1>2. PICK t \in Slots : EventStep(t)
  BY ZenonT(40) DEF CallerStep, SendCommand, AskCancel, Elapse, AskClose, HandleCloseTimeout, ControlStep, vars,
     HandleClose, FinishClose, HandleTick, HandleCommand, HandleCancel, channelVars
<1>3. PICK type \in Reports, what \in {"ok", "err"} : Took(t, type) /\ Answered(t, what)
  BY <1>2, ZenonT(40) DEF EventStep, HandleTransition, HandleBytes, HandleCompleted, HandleUnstarted, HandleFailed,
     HandleRetired, HandleStopped, Reports
<1>4. t = s /\ worker' = worker
  BY <1>1, <1>2, <1>3, ZenonT(40) DEF Answered, EventStep, HandleTransition, HandleBytes, HandleCompleted,
     HandleUnstarted, HandleFailed, HandleRetired, HandleStopped, FromEvent, workerVars
<1>5. Ev(s) \in Event /\ Ev(s).type = type /\ Sent(s, Ev(s)) /\ Ev(s).req \in Requests
  BY <1>3, <1>4, EventKnown DEF Reports
<1>6. worker[s].req = Ev(s).req /\ worker[s].pc = IF type = "Transition" THEN Ev(s).to ELSE type
  BY <1>3, <1>5 DEF Sent, SentBy
<1>7. ASSUME worker[s].pc = "Sending", reply'[s] = "ok"
      PROVE  /\ req[worker[s].req].state \in {"Assigned", "Handshaking"}
             /\ req'[worker[s].req].state = "Sending"
             /\ Same(worker[s].req)
  <2>1. type = "Transition" /\ Ev(s).to = "Sending"
    BY <1>3, <1>6, <1>7, SMTT(30) DEF Reports
  <2>2. HandleTransition(s)
    BY <1>2, <1>4, <1>5, <2>1, ZenonT(40) DEF EventStep, HandleBytes, HandleCompleted, HandleUnstarted,
       HandleFailed, HandleRetired, HandleStopped, Took
  <2>3. PICK r \in Requests : r = Ev(s).req
    BY <1>5
  <2>4. /\ MayAdvance(r, "Sending", Ev(s).wire)
        /\ req' = [req EXCEPT ![r].state = "Sending", ![r].wire = Ev(s).wire, ![r].shown = Ev(s).wire]
    BY <1>1, <1>7, <2>1, <2>2, <2>3 DEF HandleTransition, Answered
  <2>5. req[r] \in ReqRecord
    BY OwnersKnown
  <2> QED
    BY <1>1, <1>6, <2>3, <2>4, <2>5 DEF MayAdvance, Follows, Same, CoreTypes, ReqRecord
<1>8. ASSUME worker[s].pc = "Bytes" PROVE Closing' \/ req'[worker[s].req].sent
  <2>1. type = "Bytes"
    BY <1>3, <1>5, <1>6, <1>8, SMTT(30) DEF Reports, Event, Follows
  <2>2. HandleBytes(s)
    BY <1>2, <1>4, <1>5, <2>1, ZenonT(40) DEF EventStep, HandleTransition, HandleCompleted, HandleUnstarted,
       HandleFailed, HandleRetired, HandleStopped, Took
  <2>3. PICK r \in Requests : r = Ev(s).req
    BY <1>5
  <2>4. CASE req' = [req EXCEPT ![r].sent = TRUE]
    BY <1>1, <1>6, <2>3, <2>4, OwnersKnown DEF CoreTypes, ReqRecord
  <2>5. CASE IF Closing THEN SameCore ELSE Fail("send boundary was rejected", {}, confirm)
    BY <2>5 DEF SameCore, Fail, Closing, Closed
  <2> QED
    BY <2>2, <2>3, <2>4, <2>5 DEF HandleBytes
<1> QED
  BY <1>4, <1>7, <1>8

\* A worker becomes ready to write only by the core's answer, and waits with
\* what it has written until the core knows.
LEMMA WorkersArm ==
  ASSUME IInv, NEW s \in Slots, WorkerStep(s), NEW t \in Slots
  PROVE  /\ Armed(t)' => Armed(t) /\ worker'[t].req = worker[t].req
         /\ worker[t].pc = "Bytes" /\ reply[t] = "none" => worker'[t] = worker[t] /\ reply'[t] = "none"
         /\ UNCHANGED <<req, answer, engine>>
<1>1. UNCHANGED <<req, answer, engine>>
  BY DEF WorkerStep, WorkerStops, WorkerTakes, WorkerIO, WorkerIOFails, WorkerInterrupted,
     WorkerAnswered, FromWorker, coreVars
<1>2. /\ worker \in [Slots -> WorkerState] /\ worker[t] \in WorkerState
      /\ reply \in [Slots -> {"none", "ok", "err"}] /\ Shape(t)
  BY WorkerKnown DEF WorkerTypes, SlotOK
<1>3. CASE t # s
  <2>1. worker'[t] = worker[t] /\ reply'[t] = reply[t]
    BY <1>2, <1>3 DEF WorkerStep, WorkerStops, WorkerTakes, WorkerIO, WorkerIOFails, WorkerInterrupted,
       WorkerAnswered, RetireWire
  <2> QED
    BY <1>1, <2>1 DEF Armed
<1>4. CASE t = s /\ WorkerAnswered(s)
  <2>1. worker'[s].pc = "writing" => worker[s].pc = "Sending" /\ reply[s] = "ok"
                                     /\ worker'[s].req = worker[s].req
    <3>1. CASE RetireWire(s)
      BY <1>2, <1>4, <3>1 DEF RetireWire, WorkerState
    <3>2. CASE ~RetireWire(s)
      BY <1>2, <1>4, <3>2 DEF WorkerAnswered, WorkerState, Waits
    <3> QED
      BY <3>1, <3>2
  <2>2. reply[s] # "none" /\ reply'[s] = "none"
    BY <1>2, <1>4 DEF WorkerAnswered
  <2> QED
    BY <1>1, <1>4, <2>1, <2>2 DEF Armed
<1>5. CASE t = s /\ WorkerTakes(s)
  <2>1. worker[s].pc = "idle" /\ reply' = reply /\ reply[s] = "none"
    BY <1>2, <1>5 DEF WorkerTakes, Shape, Waits
  <2>2. worker'[s].pc # "writing"
    BY <1>2, <1>5 DEF WorkerTakes, WorkerState
  <2> QED
    BY <1>1, <1>5, <2>1, <2>2 DEF Armed
<1>6. CASE t = s /\ (WorkerStops(s) \/ WorkerIO(s) \/ WorkerIOFails(s) \/ WorkerInterrupted(s))
  <2>1. worker[s].pc \in AtIO \cup {"idle"} /\ reply' = reply
    BY <1>6 DEF WorkerStops, WorkerIO, WorkerIOFails, WorkerInterrupted
  <2>2. reply[s] = "none"
    BY <1>2, <1>6, <2>1 DEF Shape, AtIO, Waits
  <2>3. worker'[s].pc # "writing"
    BY <1>2, <1>6 DEF WorkerStops, WorkerIO, WorkerIOFails, WorkerInterrupted, RetireWire, WorkerState
  <2> QED
    BY <1>1, <1>6, <2>1, <2>2, <2>3 DEF Armed, AtIO
<1> QED
  BY <1>3, <1>4, <1>5, <1>6 DEF WorkerStep

\* What a write leaves.
LEMMA WriteEffect ==
  ASSUME IInv, NEW s \in Slots, Writes(s)
  PROVE  /\ worker'[s].pc = "Bytes" /\ worker'[s].req = worker[s].req /\ reply'[s] = "none"
         /\ Armed(s) /\ ~(Armed(s)') /\ UNCHANGED <<req, answer, engine>>
         /\ \A t \in Slots : t # s => worker'[t] = worker[t] /\ reply'[t] = reply[t]
<1>1. /\ worker \in [Slots -> WorkerState] /\ worker[s] \in WorkerState
      /\ reply \in [Slots -> {"none", "ok", "err"}] /\ Shape(s)
  BY WorkerKnown DEF WorkerTypes, SlotOK
<1>2. reply[s] = "none" /\ reply' = reply
  BY <1>1 DEF Writes, WorkerIO, Shape, Waits
<1>3. worker' = [worker EXCEPT ![s].pc = "Bytes"]
  BY DEF Writes, WorkerIO
<1> QED
  BY <1>1, <1>2, <1>3 DEF Writes, WorkerIO, WorkerState, FromWorker, coreVars, Armed

\* An armed worker has the Slot of its request.
LEMMA ArmedOwns ==
  ASSUME IInv, NEW s \in Slots, Armed(s)
  PROVE  /\ worker[s].req \in Requests /\ Owns(worker[s].req, s) /\ worker[s].pc \in {"writing", "Sending"}
         /\ req[worker[s].req].state # "Absent"
<1>1. worker[s].req \in Requests /\ Serving(s) /\ ~Settled(s)
  BY WorkerKnown DEF Armed, Serving, Settled, AtIO, Waits
<1>2. Owns(worker[s].req, s)
  BY <1>1, CoreKnown DEF OpenSlot, ClosingSlot, Armed, AtIO, Waits
<1>3. req[worker[s].req].state # "Absent"
  BY <1>1, <1>2, OwnersKnown DEF Owns, Started, OnWire
<1> QED
  BY <1>1, <1>2, <1>3 DEF Armed

\* A worker whose writing the core has not heard of has the Slot of its request.
LEMMA UnreportedOwns ==
  ASSUME IInv, ~Closing, NEW r \in Requests, Unreported(r)
  PROVE  worker[SlotOf(r)].pc = "Bytes"
<1>1. PICK s \in Slots : worker[s].pc = "Bytes" /\ worker[s].req = r /\ reply[s] = "none"
  BY DEF Unreported
<1>2. Owns(r, s)
  BY <1>1, CoreKnown DEF OpenSlot, Serving, Settled, Waits
<1> QED
  BY <1>1, <1>2 DEF Owns, SlotOf

\* The same, of the state after a step.
LEMMA ArmedNext ==
  IInv' => (\A s \in Slots : Armed(s) => req[worker[s].req].state # "Absent")'
<1>1. IInv => \A s \in Slots : Armed(s) => req[worker[s].req].state # "Absent"
  BY ArmedOwns
<1> QED
  BY <1>1, PTL

\* What a request may still be told stays known while its record moves.
LEMMA UnreportedKept ==
  ASSUME IInv, [Next]_vars, NEW r \in Requests, Unreported(r)
  PROVE  Unreported(r)' \/ Closing' \/ req'[r].sent
<1>1. PICK s \in Slots : worker[s].pc = "Bytes" /\ worker[s].req = r /\ reply[s] = "none"
  BY DEF Unreported
<1>2. ASSUME NEW t \in Slots, WorkerStep(t) PROVE Unreported(r)'
  BY <1>1, <1>2, WorkersArm DEF Unreported
<1>3. CASE \/ CallerStep \/ AskClose \/ HandleCloseTimeout \/ ControlStep \/ UNCHANGED vars
           \/ \E t \in Slots : EventStep(t)
  <2>1. CASE reply'[s] # reply[s]
    BY <1>1, <1>3, <2>1, ReplyMoves
  <2>2. CASE reply'[s] = reply[s]
    <3>1. worker' = worker
      BY <1>3, CoreKeepsWorkers
    <3> QED
      BY <1>1, <2>2, <3>1 DEF Unreported
  <2> QED
    BY <2>1, <2>2
<1> QED
  BY <1>2, <1>3 DEF Next

\* A step that writes nothing keeps the budget of every request.
LEMMA BudgetKept ==
  ASSUME IInv, Books', Answers, Spent, [Next]_vars, sentOn' = sentOn, NEW r \in Requests
  PROVE  Budget(r)'
<1>1. /\ Budget(r) /\ Move(r) /\ Books /\ req[r] \in ReqRecord
      /\ (answer[r] # "none" => req[r].state = "Absent")
      /\ r \in inbox => answer[r] = "none" /\ req[r].state = "Absent"
  BY StepMoves, CoreKnown, OwnersKnown DEF Spent, Answers, Books
<1>2. /\ Writings(r)' = Writings(r) /\ Writings(r) \in Nat /\ IsFiniteSet(sentOn[r])
      /\ req[r].attempts \in Nat
  BY <1>1, FS_CardinalityType DEF Writings, Budget, ReqRecord
<1>3. /\ Closing => Closing'
      /\ Unreported(r) => Unreported(r)' \/ Closing' \/ req'[r].sent
  BY CloseMoves, UnreportedKept
<1>4. req'[r].intent # "none" => Started(r)'
  BY DEF Books
<1>5. ASSUME ~Closing, Unreported(r) PROVE worker[SlotOf(r)].pc = "Bytes"
  BY <1>5, UnreportedOwns
<1>6. CASE Untouched(r)
  BY <1>1, <1>2, <1>3, <1>6 DEF Untouched, Budget, MayWrite, Started, AtMost
<1>7. CASE Refused(r) \/ Over(r)
  BY <1>1, <1>2, <1>4, <1>7 DEF Refused, Over, Budget, MayWrite, Started, OnWire, AtMost
<1>8. CASE Admitted(r)
  BY <1>1, <1>2, <1>4, <1>8 DEF Admitted, Budget, MayWrite, Started, OnWire, AtMost
<1>9. CASE Kept(r)
  <2>1. CASE Advances(r)
    BY <1>1, <1>2, <1>3, <2>1 DEF Advances, Same, Follows, Budget, MayWrite, Started, OnWire, AtMost
  <2>2. CASE Marked(r)
    BY <1>1, <1>2, <1>3, <2>2 DEF Marked, Budget, MayWrite, Started, OnWire, AtMost
  <2>3. CASE Condemned(r)
    BY <1>1, <1>2, <1>3, <2>3 DEF Condemned, Same, Budget, MayWrite, Started, OnWire, AtMost
  <2>4. CASE Retries(r)
    <3>1. r \in RetrySafe \/ Writings(r) = 0
      BY <1>1, <1>2, <1>5, <2>4 DEF Retries, Budget, Started
    <3> QED
      BY <1>1, <1>2, <2>4, <3>1 DEF Retries, Same, Budget, MayWrite, Started, OnWire, AtMost
  <2>5. CASE Reconnects(r)
    BY <1>1, <1>2, <1>3, <2>5 DEF Reconnects, Same, Budget, MayWrite, Started, OnWire, AtMost
  <2> QED
    BY <1>9, <2>1, <2>2, <2>3, <2>4, <2>5 DEF Kept
<1> QED
  BY <1>1, <1>6, <1>7, <1>8, <1>9 DEF Move

\* A step that writes nothing arms no worker whose request may not write.
LEMMA ArmedKept ==
  ASSUME IInv, IInv', Answers, Spent, [Next]_vars, sentOn' = sentOn, NEW s \in Slots, Armed(s)'
  PROVE  req'[worker'[s].req].state = "Sending" /\ MayWrite(worker[s].req)'
<1>1. CASE \E t \in Slots : WorkerStep(t)
  <2>1. Armed(s) /\ worker'[s].req = worker[s].req /\ UNCHANGED req
    BY <1>1, WorkersArm
  <2> QED
    BY <2>1 DEF Spent, MayWrite, Writings
<1>2. CASE ~\E t \in Slots : WorkerStep(t)
  <2>1. worker' = worker
    BY <1>2, CoreKeepsWorkers DEF Next
  <2>2. PICK r \in Requests : r = worker[s].req
    <3>1. Serving(s)
      BY <2>1 DEF Armed, Serving, AtIO, Waits
    <3> QED
      BY <3>1, WorkerKnown
  <2>3. req'[r].state # "Absent"
    BY <2>1, <2>2, ArmedNext
  <2>4. Budget(r) /\ Move(r) /\ req[r] \in ReqRecord
    BY StepMoves, OwnersKnown DEF Spent
  <2>5. CASE ~Armed(s)
    <3>1. reply'[s] # reply[s] /\ worker[s].pc = "Sending" /\ reply'[s] = "ok"
      BY <2>1, <2>5 DEF Armed
    <3>2. /\ req[r].state \in {"Assigned", "Handshaking"} /\ req'[r].state = "Sending" /\ Same(r)
      BY <1>2, <2>2, <3>1, ReplyMoves DEF Next
    <3> QED
      BY <2>1, <2>2, <2>4, <3>2 DEF Budget, MayWrite, Same, Writings
  <2>6. CASE Armed(s)
    <3>1. req[r].state = "Sending" /\ MayWrite(r) /\ Owns(r, s) /\ worker[s].pc \in {"writing", "Sending"}
      BY <2>2, <2>6, ArmedOwns DEF Spent
    <3>2. SlotOf(r) = s /\ r \notin inbox
      BY <3>1, OwnersKnown DEF Owns, SlotOf
    <3>3. req'[r].state = "Sending" /\ req'[r].attempts = req[r].attempts
      BY <2>3, <2>4, <3>1, <3>2 DEF Move, Untouched, Refused, Over, Admitted, Kept, Advances, Marked,
         Condemned, Retries, Reconnects, Same, Follows
    <3> QED
      BY <2>1, <2>2, <3>1, <3>3 DEF MayWrite, Writings
  <2> QED
    BY <2>5, <2>6
<1> QED
  BY <1>1, <1>2

\* A write is the only one of its attempt.
LEMMA WriteKept ==
  ASSUME IInv, Answers, Spent, NEW s \in Slots, Writes(s),
         sentOn' = [sentOn EXCEPT ![worker[s].req] = @ \cup {<<s, worker[s].gen>>}]
  PROVE  Spent'
<1>1. PICK r \in Requests : r = worker[s].req
  BY WriteEffect, ArmedOwns
<1>2. /\ Armed(s) /\ Owns(r, s) /\ req[r].state = "Sending" /\ MayWrite(r) /\ Budget(r)
      /\ req[r] \in ReqRecord
  BY <1>1, WriteEffect, ArmedOwns, OwnersKnown DEF Spent
<1>3. /\ worker'[s].pc = "Bytes" /\ worker'[s].req = r /\ reply'[s] = "none"
      /\ ~(Armed(s)') /\ UNCHANGED <<req, answer, engine>>
      /\ \A t \in Slots : t # s => worker'[t] = worker[t] /\ reply'[t] = reply[t]
  BY <1>1, WriteEffect
<1>4. sentOn'[r] = sentOn[r] \cup {<<s, worker[s].gen>>} /\ \A q \in Requests : q # r => sentOn'[q] = sentOn[q]
  BY <1>1 DEF Answers, SentType
<1>5. /\ IsFiniteSet(sentOn'[r]) /\ Writings(r) \in Nat
      /\ Writings(r)' = Writings(r) \/ Writings(r)' = Writings(r) + 1
  <2>1. PICK S, x : S = sentOn[r] /\ x = <<s, worker[s].gen>>
    OBVIOUS
  <2>2. IsFiniteSet(S)
    BY <1>2, <2>1 DEF Budget
  <2>3. /\ IsFiniteSet(S \cup {x}) /\ Cardinality(S) \in Nat
        /\ Cardinality(S \cup {x}) = IF x \in S THEN Cardinality(S) ELSE Cardinality(S) + 1
    BY <2>2, FS_AddElement, FS_CardinalityType
  <2>4. sentOn'[r] = S \cup {x}
    BY <1>4, <2>1
  <2> QED
    BY <2>1, <2>3, <2>4 DEF Writings
<1>6. Budget(r)'
  <2>1. Unreported(r)'
    BY <1>3 DEF Unreported
  <2>2. Writings(r)' <= req[r].attempts /\ req[r].attempts \in 0 .. MaxAttempts
    BY <1>2, <1>5 DEF MayWrite, ReqRecord
  <2>3. Writings(r)' <= AtMost(r)
    BY <1>2, <1>5, <2>2, AttemptsAssumption DEF MayWrite, AtMost
  <2>4. req[r].intent # "retry"
    BY <1>2 DEF Budget
  <2> QED
    BY <1>2, <1>3, <1>5, <2>1, <2>2, <2>3, <2>4 DEF Budget, AtMost, Started
<1>7. ASSUME NEW q \in Requests, q # r PROVE Budget(q)'
  <2>1. Budget(q) /\ sentOn'[q] = sentOn[q] /\ Closing' = Closing
    BY <1>3, <1>4, <1>7 DEF Spent, Closing, Closed
  <2>2. Unreported(q) => Unreported(q)'
    BY <1>2, <1>3, ArmedOwns DEF Unreported
  <2> QED
    BY <1>3, <2>1, <2>2 DEF Budget, Writings, AtMost, Started, MayWrite
<1>8. ASSUME NEW t \in Slots, Armed(t)'
      PROVE  req'[worker'[t].req].state = "Sending" /\ MayWrite(worker[t].req)'
  <2>1. t # s /\ worker'[t] = worker[t] /\ Armed(t)
    BY <1>3, <1>8 DEF Armed
  <2>2. PICK q \in Requests : q = worker[t].req /\ Owns(q, t)
    BY <2>1, ArmedOwns
  <2>3. q # r
    BY <1>2, <2>1, <2>2 DEF Owns
  <2>4. req[q].state = "Sending" /\ MayWrite(q)
    BY <2>1, <2>2 DEF Spent
  <2>5. MayWrite(q)'
    BY <1>3, <1>4, <2>3, <2>4 DEF MayWrite, Writings
  <2> QED
    BY <1>3, <2>1, <2>2, <2>4, <2>5
<1> QED
  BY <1>1, <1>6, <1>7, <1>8 DEF Spent

\* The budget is inductive.
LEMMA SpentKept == IInv /\ Answers /\ Spent /\ [Next]_vars => Spent'
<1> SUFFICES ASSUME IInv, Answers, Spent, [Next]_vars PROVE Spent'
  OBVIOUS
<1>1. IInv' /\ Books'
  <2>1. IInv'
    BY StepKeeps
  <2> QED
    BY <2>1 DEF IInv
<1>2. CASE sentOn' = sentOn
  BY <1>1, <1>2, BudgetKept, ArmedKept DEF Spent
<1>3. CASE sentOn' # sentOn
  BY <1>3, SentOnlyByWrites, WriteKept
<1> QED
  BY <1>2, <1>3

\* A command's bytes go out at most once, or, if the command is safe to repeat,
\* at most once per attempt, through every failure, retry, cancellation and close
\* (begin_retry, mark_business_bytes_sent).
THEOREM SentWithinPolicy == Spec => []SentAsOftenAsAllowed
<1>1. Init => Spent
  BY FS_EmptySet, AttemptsAssumption DEF Init, Spent, Budget, Writings, AtMost, Absent, Armed, Started, OnWire
<1>2. Spec => []Spent
  BY <1>1, AnswersHold, SpentKept, PTL DEF Spec
<1>3. Spent => SentAsOftenAsAllowed
  BY DEF Spent, Budget, Writings, AtMost, SentAsOftenAsAllowed
<1> QED
  BY <1>2, <1>3, PTL

-----------------------------------------------------------------------------
(***************************************************************************)
(* Proofs about RuntimeCore while nothing but connections fails: no        *)
(* deadline has passed, nobody has cancelled, no close was asked for.      *)
(* Whatever connects, writes and reads fail then, on any endpoint and in   *)
(* any order, the engine keeps running.                                    *)
(*                                                                         *)
(* The core fails the engine when a report of a worker does not fit its    *)
(* record of the request.  The invariant says, for each Slot, how the two  *)
(* correspond at every place where one may be ahead of the other: a piece  *)
(* of work on its way (Dispatched), a report on its way (Fits), an answer  *)
(* on its way or a worker at an I/O step (InStep), and a generation that   *)
(* is to be retired (Doomed).                                              *)
(***************************************************************************)
-----------------------------------------------------------------------------
(* The invariant. *)

\* Nothing but connections has failed.
Quiet == elapsed = {} /\ ~closeAsked /\ \A r \in Requests : confirm[r] = "none"

\* The message of a wire in each state on the wire.
MsgIn == [Connecting |-> "none", Handshaking |-> "handshake",
          Sending |-> "business", WaitingResponse |-> "business"]

\* The state of the request a worker has in hand, once its report is taken.
StateAt == [Connecting |-> "Connecting", connecting |-> "Connecting",
            Handshaking |-> "Handshaking", handshaking |-> "Handshaking",
            Sending |-> "Sending", writing |-> "Sending", Bytes |-> "Sending",
            finishing |-> "Sending", WaitingResponse |-> "WaitingResponse",
            reading |-> "WaitingResponse", Completed |-> "WaitingResponse"]

\* r is in state st on generation g, and nothing is decided about it.
On(r, g, st) == req[r].state = st /\ req[r].intent = "none" /\ req[r].wire = Wire(g, MsgIn[st])

\* r has no generation yet, or waits for a new one after a retry.
New(r) == req[r].state = "Assigned" /\ req[r].intent = "none" /\ req[r].wire = NoWire
Again(r, g) == req[r].state = "Retrying" /\ req[r].intent = "none" /\ req[r].wire = Wire(g, "none")

\* The generation g of r is to be retired, and the plan for r fits its record.
Doomed(r, g) ==
    /\ req[r].wire.gen = g
    /\ \/ retirements[r] = "continue" /\ req[r].state = "Connecting" /\ req[r].intent = "none"
       \/ retirements[r] = "retry" /\ req[r].state = "Retrying" /\ req[r].intent = "retry"
       \/ retirements[r] = "fail" /\ req[r].intent = "terminal"

\* A piece of work r on its way to a worker whose generation is g.
Dispatched(s, r, g) ==
    \/ work[s].fresh /\ New(r)
    \/ /\ worker[s].pc = "idle" /\ ~worker[s].up
       /\ IF work[s].fresh THEN Again(r, g) ELSE On(r, g, "Connecting")

\* The core is where the transition of r to `to` starts from.
Ready(r, g, to) ==
    \/ to = "Connecting" /\ (New(r) \/ Again(r, g))
    \/ to = "Handshaking" /\ On(r, g, "Connecting")
    \/ to = "Sending" /\ (New(r) \/ On(r, g, "Handshaking"))
    \/ to = "WaitingResponse" /\ On(r, g, "Sending")

\* A report on its way fits what the core has noted of r.
Fits(r, g, e) ==
    \/ e.type = "Transition" /\ e.wire = Wire(g, MsgIn[e.to]) /\ Ready(r, g, e.to)
    \/ e.type = "Bytes" /\ e.wire = Wire(g, "business") /\ On(r, g, "Sending")
    \/ e.type = "Completed" /\ e.wire = Wire(g, "business") /\ On(r, g, "WaitingResponse")
    \/ /\ e.type = "Failed" /\ \E st \in OnWire :
              On(r, g, st) /\ e.wire = Wire(g, MsgIn[st]) /\ (e.same => st = "Connecting")

\* A worker whose last report is taken, or that reports nothing.
InStep(s, r, g) ==
    IF worker[s].pc = "Failed" THEN Doomed(r, g) ELSE On(r, g, StateAt[worker[s].pc])

QuietSlot(s) ==
    /\ directive[s] = "run" /\ worker[s].pc # "stopped"
    /\ work[s] # NoWork => Dispatched(s, work[s].req, worker[s].gen)
    /\ events[s] # <<>> =>
          \/ Ev(s).type \in Reports /\ Fits(Ev(s).req, worker[s].gen, Ev(s))
          \/ /\ Ev(s).type = "Retired" /\ Ev(s).gen + 1 = worker[s].gen /\ ~worker[s].up
             /\ Doomed(Ev(s).req, Ev(s).gen)
    /\ Serving(s) /\ ~Settled(s) /\ (worker[s].pc \in AtIO \/ reply[s] = "ok") =>
          InStep(s, worker[s].req, worker[s].gen)

\* A request without a generation has no wire.
QuietBooks ==
    \A r \in Requests :
        /\ req[r].state \in {"Absent", "Queued", "Assigned"} => req[r].wire = NoWire
        /\ lifecycle[r] = "none"

Calm == Quiet => /\ fatal = "none" /\ ~Closing /\ QuietBooks
                 /\ \A s \in Slots : QuietSlot(s)

-----------------------------------------------------------------------------
(* A step leaves a Slot alone. *)

\* What is under way at a Slot, before a close, is of its owner.
LEMMA OwnersHere ==
  ASSUME IInv, ~Closing, NEW s \in Slots
  PROVE  /\ work[s] # NoWork => work[s].req \in Requests /\ Owns(work[s].req, s)
         /\ events[s] # <<>> /\ Ev(s).type # "Stopped" => Ev(s).req \in Requests /\ Owns(Ev(s).req, s)
         /\ Serving(s) /\ ~Settled(s) => worker[s].req \in Requests /\ Owns(worker[s].req, s)
         /\ Settled(s) <=> worker[s].pc = "idle" \/ (worker[s].pc = "Completed" /\ reply[s] = "ok")
<1>1. OpenSlot(s) /\ Typed /\ worker[s] \in WorkerState /\ events[s] \in Seq(Event)
  BY CoreKnown, WorkerKnown
<1>2. events[s] # <<>> /\ Ev(s).type # "Stopped" => Ev(s).req \in Requests
  <2>1. events[s] # <<>> => Ev(s) \in Event
    BY <1>1 DEF Ev
  <2> QED
    BY <2>1 DEF Event
<1> QED
  BY <1>1, <1>2 DEF OpenSlot, Typed, Settled, WorkerState

\* A Slot whose worker, channels and owner are left alone.
LEMMA SlotStays ==
  ASSUME IInv, ~Closing, NEW s \in Slots, QuietSlot(s),
         worker'[s] = worker[s], work'[s] = work[s], reply'[s] = reply[s],
         events'[s] = events[s], directive'[s] = directive[s],
         \A r \in Requests : Owns(r, s) => req'[r] = req[r] /\ retirements'[r] = retirements[r]
  PROVE  QuietSlot(s)'
<1>1. ASSUME NEW r \in Requests, Owns(r, s)
      PROVE  /\ New(r) => New(r)'
             /\ \A g : /\ Again(r, g) => Again(r, g)'
                       /\ Doomed(r, g) => Doomed(r, g)'
                       /\ \A st : On(r, g, st) => On(r, g, st)'
                       /\ \A e : Fits(r, g, e) => Fits(r, g, e)'
  BY <1>1 DEF New, Again, Doomed, On, Fits, Ready
<1>2. /\ work[s] # NoWork => work[s].req \in Requests /\ Owns(work[s].req, s)
      /\ events[s] # <<>> /\ Ev(s).type # "Stopped" => Ev(s).req \in Requests /\ Owns(Ev(s).req, s)
      /\ Serving(s) /\ ~Settled(s) => worker[s].req \in Requests /\ Owns(worker[s].req, s)
  BY OwnersHere
<1>3. work[s] # NoWork => Dispatched(s, work[s].req, worker[s].gen)'
  <2> SUFFICES ASSUME work[s] # NoWork PROVE Dispatched(s, work[s].req, worker[s].gen)'
    OBVIOUS
  <2>1. PICK r \in Requests : r = work[s].req /\ Owns(r, s)
    BY <1>2
  <2>2. PICK g : g = worker[s].gen
    OBVIOUS
  <2>3. Dispatched(s, r, g)
    BY <2>1, <2>2 DEF QuietSlot
  <2> QED
    BY <1>1, <2>1, <2>2, <2>3 DEF Dispatched
<1>4. events[s] # <<>> =>
          (\/ Ev(s).type \in Reports /\ Fits(Ev(s).req, worker[s].gen, Ev(s))
           \/ /\ Ev(s).type = "Retired" /\ Ev(s).gen + 1 = worker[s].gen /\ ~worker[s].up
              /\ Doomed(Ev(s).req, Ev(s).gen))'
  <2> SUFFICES ASSUME events[s] # <<>> PROVE <1>4!2
    OBVIOUS
  <2>1. Ev(s).type # "Stopped"
    BY DEF QuietSlot, Reports
  <2>2. PICK r \in Requests : r = Ev(s).req /\ Owns(r, s)
    BY <1>2, <2>1
  <2>3. PICK g, e : g = worker[s].gen /\ e = Ev(s)
    OBVIOUS
  <2>4. \/ e.type \in Reports /\ Fits(r, g, e)
        \/ e.type = "Retired" /\ e.gen + 1 = g /\ ~worker[s].up /\ Doomed(r, e.gen)
    BY <2>2, <2>3 DEF QuietSlot
  <2>5. \/ e.type \in Reports /\ Fits(r, g, e)'
        \/ e.type = "Retired" /\ e.gen + 1 = g /\ ~worker[s].up /\ Doomed(r, e.gen)'
    BY <1>1, <2>2, <2>4
  <2>6. Ev(s)' = e /\ e.req = r /\ worker'[s].gen = g
    BY <2>2, <2>3 DEF Ev
  <2> QED
    BY <2>5, <2>6
<1>5. Serving(s) /\ ~Settled(s) /\ (worker[s].pc \in AtIO \/ reply[s] = "ok") =>
          InStep(s, worker[s].req, worker[s].gen)'
  <2> SUFFICES ASSUME Serving(s), ~Settled(s), worker[s].pc \in AtIO \/ reply[s] = "ok"
               PROVE  InStep(s, worker[s].req, worker[s].gen)'
    OBVIOUS
  <2>1. PICK r \in Requests : r = worker[s].req /\ Owns(r, s)
    BY <1>2
  <2>2. PICK g, pc : g = worker[s].gen /\ pc = worker[s].pc
    OBVIOUS
  <2>3. IF pc = "Failed" THEN Doomed(r, g) ELSE On(r, g, StateAt[pc])
    BY <2>1, <2>2 DEF QuietSlot, InStep
  <2> QED
    BY <1>1, <2>1, <2>2, <2>3 DEF InStep
<1>6. Serving(s)' = Serving(s) /\ Settled(s)' = Settled(s)
  BY DEF Serving, Settled
<1> QED
  BY <1>3, <1>4, <1>5, <1>6 DEF QuietSlot

-----------------------------------------------------------------------------
(* The workers. *)

\* What is known before a step while nothing but connections fails.
LEMMA CalmKnown ==
  ASSUME IInv, Calm, Quiet
  PROVE  /\ ~Closing /\ fatal = "none" /\ QuietBooks /\ elapsed = {} /\ ~closeAsked
         /\ \A r \in Requests : confirm[r] = "none"
         /\ \A s \in Slots : /\ QuietSlot(s) /\ OpenSlot(s) /\ Shape(s)
                             /\ directive[s] = "run" /\ worker[s].pc # "stopped"
                             /\ events[s] # <<>> => Ev(s).type # "Stopped"
         /\ "run" \notin Requests
<1>1. \A s \in Slots : QuietSlot(s) => /\ directive[s] = "run" /\ worker[s].pc # "stopped"
                                       /\ events[s] # <<>> => Ev(s).type # "Stopped"
  BY DEF QuietSlot, Reports
<1> QED
  BY <1>1, CoreKnown, DirectiveAssumption DEF Calm, Quiet, SlotOK

\* A worker's step concerns its own Slot only.
LEMMA WorkerFrameCalm ==
  ASSUME IInv, Calm, Quiet, NEW s \in Slots, FromWorker,
         \A t \in Slots : t # s => /\ worker'[t] = worker[t] /\ work'[t] = work[t]
                                   /\ reply'[t] = reply[t] /\ events'[t] = events[t],
         QuietSlot(s)'
  PROVE  Calm'
<1>1. /\ UNCHANGED <<engine, fatal, req, lifecycle, retirements, ownership, directive>>
      /\ Closing' = Closing
  BY DEF FromWorker, coreVars, admissionVars, Closing, Closed
<1>2. ASSUME NEW t \in Slots, t # s PROVE QuietSlot(t)'
  BY <1>1, <1>2, CalmKnown, SlotStays
<1>3. QuietBooks'
  BY <1>1, CalmKnown DEF QuietBooks
<1> QED
  BY <1>1, <1>2, <1>3, CalmKnown DEF Calm

\* The worker sends a report or an acknowledgement.
LEMMA SendsCalm ==
  ASSUME IInv, Calm, Quiet, NEW s \in Slots, FromWorker,
         NEW x \in WorkerState, worker' = [worker EXCEPT ![s] = x],
         NEW e \in Event, Emit(s, e), events[s] = <<>>,
         work' = [work EXCEPT ![s] = NoWork], reply' = [reply EXCEPT ![s] = "none"],
         x.pc \notin AtIO \cup {"stopped"},
         \/ e.type \in Reports /\ Fits(e.req, x.gen, e)
         \/ e.type = "Retired" /\ e.gen + 1 = x.gen /\ ~x.up /\ Doomed(e.req, e.gen)
  PROVE  Calm'
<1>1. Typed /\ WorkerTypes /\ directive' = directive /\ directive[s] = "run"
  BY CoreKnown, WorkerKnown, CalmKnown DEF FromWorker
<1>2. worker'[s] = x /\ work'[s] = NoWork /\ reply'[s] = "none"
  BY <1>1 DEF WorkerTypes
<1>3. Ev(s)' = e /\ \A t \in Slots : t # s => events'[t] = events[t]
  BY <1>1, Added DEF Ev
<1>4. UNCHANGED <<req, retirements>>
  BY DEF FromWorker, coreVars
<1>5. \/ e.type \in Reports /\ Fits(e.req, x.gen, e)'
      \/ e.type = "Retired" /\ e.gen + 1 = x.gen /\ ~x.up /\ Doomed(e.req, e.gen)'
  BY <1>4 DEF Fits, Ready, New, Again, On, Doomed
<1>6. QuietSlot(s)'
  BY <1>1, <1>2, <1>3, <1>5 DEF QuietSlot
<1>7. \A t \in Slots : t # s => /\ worker'[t] = worker[t] /\ work'[t] = work[t]
                                /\ reply'[t] = reply[t] /\ events'[t] = events[t]
  BY <1>1, <1>3 DEF WorkerTypes
<1> QED
  BY <1>6, <1>7, WorkerFrameCalm

\* The worker goes on without sending.
LEMMA MovesCalm ==
  ASSUME IInv, Calm, Quiet, NEW s \in Slots, FromWorker,
         NEW x \in WorkerState, worker' = [worker EXCEPT ![s] = x],
         events' = events, events[s] = <<>>, reply' = [reply EXCEPT ![s] = "none"],
         \/ work' = [work EXCEPT ![s] = NoWork]
         \/ work' = work /\ (work[s] # NoWork => work[s].fresh /\ New(work[s].req)),
         x.pc # "stopped", x.pc \in AtIO => On(x.req, x.gen, StateAt[x.pc])
  PROVE  Calm'
<1>1. Typed /\ WorkerTypes /\ directive' = directive /\ directive[s] = "run"
  BY CoreKnown, WorkerKnown, CalmKnown DEF FromWorker
<1>2. worker'[s] = x /\ reply'[s] = "none"
  BY <1>1 DEF WorkerTypes
<1>3. UNCHANGED <<req, retirements>>
  BY DEF FromWorker, coreVars
<1>4. work'[s] # NoWork => Dispatched(s, work[s].req, worker[s].gen)'
  BY <1>1, <1>3 DEF WorkerTypes, Dispatched, New
<1>5. x.pc \in AtIO => On(x.req, x.gen, StateAt[x.pc])' /\ x.pc # "Failed"
  BY <1>3 DEF On, AtIO
<1>6. QuietSlot(s)'
  BY <1>1, <1>2, <1>4, <1>5 DEF QuietSlot, InStep
<1>7. \A t \in Slots : t # s => /\ worker'[t] = worker[t] /\ work'[t] = work[t]
                                /\ reply'[t] = reply[t] /\ events'[t] = events[t]
  BY <1>1 DEF WorkerTypes
<1> QED
  BY <1>6, <1>7, WorkerFrameCalm

\* A worker at an I/O step: nothing else is under way.
LEMMA AtIOCalm ==
  ASSUME IInv, Calm, Quiet, NEW s \in Slots, worker[s].pc \in AtIO
  PROVE  /\ worker[s] \in WorkerState /\ worker[s].req \in Requests
         /\ events[s] = <<>> /\ reply[s] = "none" /\ work[s] = NoWork
         /\ worker = [worker EXCEPT ![s] = worker[s]]
         /\ work = [work EXCEPT ![s] = NoWork] /\ reply = [reply EXCEPT ![s] = "none"]
         /\ On(worker[s].req, worker[s].gen, StateAt[worker[s].pc])
<1>1. /\ WorkerTypes /\ worker[s] \in WorkerState /\ events[s] = <<>> /\ reply[s] = "none"
      /\ Serving(s) => worker[s].req \in Requests
      /\ OpenSlot(s) /\ QuietSlot(s) /\ Serving(s)
  BY WorkerKnown, CalmKnown DEF Serving
<1>2. ~Settled(s) /\ worker[s].pc # "Failed"
  BY DEF Settled, AtIO
<1>3. work[s] = NoWork
  BY <1>1, <1>2 DEF OpenSlot
<1>4. On(worker[s].req, worker[s].gen, StateAt[worker[s].pc])
  BY <1>1, <1>2 DEF QuietSlot, InStep
<1> QED
  BY <1>1, <1>3, <1>4 DEF WorkerTypes

\* execute_work
LEMMA TakesCalm == ASSUME IInv, Calm, Quiet, NEW s \in Slots, WorkerTakes(s) PROVE Calm'
<1> DEFINE r == work[s].req
<1>1. /\ worker[s].pc = "idle" /\ work[s] # NoWork /\ work' = [work EXCEPT ![s] = NoWork]
      /\ FromWorker /\ UNCHANGED reply
  BY DEF WorkerTakes
<1>2. /\ WorkerTypes /\ worker[s] \in WorkerState /\ r \in Requests /\ OpenSlot(s) /\ Shape(s)
      /\ QuietSlot(s) /\ directive[s] = "run" /\ elapsed = {} /\ "run" \notin Requests
  BY <1>1, WorkerKnown, CalmKnown
<1>3. /\ Dispatched(s, r, worker[s].gen) /\ events[s] = <<>> /\ reply[s] = "none"
      /\ reply' = [reply EXCEPT ![s] = "none"]
  BY <1>1, <1>2 DEF QuietSlot, OpenSlot, Shape, Waits, WorkerTypes
<1>4. directive[s] \notin {"stop", r} /\ r \notin elapsed
  BY <1>2
<1>5. CASE worker[s].up
  <2> DEFINE x == [worker[s] EXCEPT !.pc = "Sending", !.req = r]
             e == [type |-> "Transition", req |-> r, to |-> "Sending", wire |-> Wire(worker[s].gen, "business")]
  <2>1. x \in WorkerState /\ x.pc = "Sending" /\ x.gen = worker[s].gen /\ x.req = r
    BY <1>2 DEF WorkerState, Waits
  <2>2. worker' = [worker EXCEPT ![s] = x] /\ worker'[s] = x
    BY <1>1, <1>2, <1>4, <1>5 DEF WorkerTakes, WorkerTypes
  <2>3. Emit(s, e)
    BY <1>1, <1>4, <1>5, <2>1, <2>2 DEF WorkerTakes, Transition
  <2>4. e \in Event /\ e.type \in Reports
    BY <1>2 DEF Event, Follows, Wire, WireType, WorkerState, Reports
  <2>5. New(r)
    BY <1>3, <1>5 DEF Dispatched
  <2>6. Fits(e.req, x.gen, e)
    BY <2>1, <2>5 DEF Fits, Ready, MsgIn
  <2>7. x.pc \notin AtIO \cup {"stopped"}
    BY <2>1 DEF AtIO
  <2> HIDE DEF x, e
  <2> QED
    BY <1>1, <1>3, <2>1, <2>2, <2>3, <2>4, <2>6, <2>7, SendsCalm
<1>6. CASE ~worker[s].up /\ work[s].fresh
  <2> DEFINE x == [worker[s] EXCEPT !.pc = "Connecting", !.req = r, !.left = Endpoints - 1]
             e == [type |-> "Transition", req |-> r, to |-> "Connecting", wire |-> Wire(worker[s].gen, "none")]
  <2>0. Endpoints - 1 \in Nat
    BY AttemptsAssumption
  <2>1. x \in WorkerState /\ x.pc = "Connecting" /\ x.gen = worker[s].gen /\ x.req = r
    BY <1>2, <2>0 DEF WorkerState, Waits
  <2>2. worker' = [worker EXCEPT ![s] = x] /\ worker'[s] = x
    BY <1>1, <1>2, <1>4, <1>6 DEF WorkerTakes, WorkerTypes
  <2>3. Emit(s, e)
    BY <1>1, <1>4, <1>6, <2>1, <2>2 DEF WorkerTakes, Transition
  <2>4. e \in Event /\ e.type \in Reports
    BY <1>2 DEF Event, Follows, Wire, WireType, WorkerState, Reports
  <2>5. New(r) \/ Again(r, worker[s].gen)
    BY <1>3, <1>6 DEF Dispatched
  <2>6. Fits(e.req, x.gen, e)
    BY <2>1, <2>5 DEF Fits, Ready, MsgIn
  <2>7. x.pc \notin AtIO \cup {"stopped"}
    BY <2>1 DEF AtIO
  <2> HIDE DEF x, e
  <2> QED
    BY <1>1, <1>3, <2>1, <2>2, <2>3, <2>4, <2>6, <2>7, SendsCalm
<1>7. CASE ~worker[s].up /\ ~work[s].fresh
  <2> DEFINE x == [worker[s] EXCEPT !.pc = "connecting", !.req = r, !.left = @ - 1]
  <2>1. worker[s].left - 1 \in Nat
    BY <1>1, <1>2, <1>7 DEF OpenSlot, WorkerState
  <2>2. x \in WorkerState /\ x.pc = "connecting" /\ x.gen = worker[s].gen /\ x.req = r
    BY <1>2, <2>1 DEF WorkerState, AtIO
  <2>3. worker' = [worker EXCEPT ![s] = x] /\ events' = events
    BY <1>1, <1>4, <1>7 DEF WorkerTakes
  <2>4. On(x.req, x.gen, StateAt[x.pc]) /\ x.pc # "stopped"
    BY <1>3, <1>7, <2>2 DEF Dispatched, StateAt, New
  <2> HIDE DEF x
  <2> QED
    BY <1>1, <1>3, <2>2, <2>3, <2>4, MovesCalm
<1> QED
  BY <1>5, <1>6, <1>7

\* An I/O step completes.
LEMMA IOCalm == ASSUME IInv, Calm, Quiet, NEW s \in Slots, WorkerIO(s) PROVE Calm'
<1> DEFINE x(pc) == [worker[s] EXCEPT !.pc = pc]
           up == [worker[s] EXCEPT !.pc = "Handshaking", !.up = TRUE]
           t(to) == [type |-> "Transition", req |-> worker[s].req, to |-> to,
                     wire |-> Wire(worker[s].gen, MsgIn[to])]
           b(type) == [type |-> type, req |-> worker[s].req, wire |-> Wire(worker[s].gen, "business")]
<1>1. worker[s].pc \in AtIO /\ UNCHANGED <<work, reply>> /\ FromWorker
  BY DEF WorkerIO
<1>2. /\ worker[s] \in WorkerState /\ worker[s].req \in Requests
      /\ events[s] = <<>> /\ work' = [work EXCEPT ![s] = NoWork] /\ reply' = [reply EXCEPT ![s] = "none"]
      /\ On(worker[s].req, worker[s].gen, StateAt[worker[s].pc]) /\ WorkerTypes
  BY <1>1, AtIOCalm, WorkerKnown
<1>3. ASSUME NEW y \in WorkerState, worker' = [worker EXCEPT ![s] = y], y.pc \in Waits \ {"Failed"},
             y.gen = worker[s].gen, NEW e \in Event, Emit(s, e), e.type \in Reports,
             e.req = worker[s].req, Fits(e.req, y.gen, e)
      PROVE  Calm'
  <2>1. y.pc \notin AtIO \cup {"stopped"}
    BY <1>3 DEF AtIO, Waits
  <2> QED
    BY <1>1, <1>2, <1>3, <2>1, SendsCalm
<1>4. /\ up \in WorkerState /\ up.pc = "Handshaking" /\ up.gen = worker[s].gen /\ up.req = worker[s].req
      /\ \A pc \in Waits : /\ x(pc) \in WorkerState /\ x(pc).pc = pc /\ x(pc).gen = worker[s].gen
                           /\ x(pc).req = worker[s].req
      /\ \A to \in {"Handshaking", "Sending", "WaitingResponse"} : t(to) \in Event
      /\ \A type \in {"Bytes", "Completed"} : b(type) \in Event
  <2>1. up \in WorkerState /\ up.pc = "Handshaking" /\ up.gen = worker[s].gen /\ up.req = worker[s].req
    BY <1>2 DEF WorkerState, Waits
  <2>2. \A pc \in Waits : /\ x(pc) \in WorkerState /\ x(pc).pc = pc /\ x(pc).gen = worker[s].gen
                          /\ x(pc).req = worker[s].req
    BY <1>2 DEF WorkerState, Waits
  <2>3. \A msg \in {"none", "handshake", "business"} : Wire(worker[s].gen, msg) \in WireType
    BY <1>2 DEF WorkerState, Wire, WireType
  <2>4. \A to \in {"Handshaking", "Sending", "WaitingResponse"} : t(to) \in Event
    BY <1>2, <2>3 DEF Event, Follows, MsgIn
  <2>5. \A type \in {"Bytes", "Completed"} : b(type) \in Event
    BY <1>2, <2>3 DEF Event
  <2> QED
    BY <2>1, <2>2, <2>4, <2>5
<1>5. CASE worker[s].pc = "connecting"
  <2>1. worker' = [worker EXCEPT ![s] = up] /\ worker'[s] = up
    BY <1>2, <1>5 DEF WorkerIO, WorkerTypes
  <2>2. Emit(s, t("Handshaking"))
    BY <1>4, <1>5, <2>1 DEF WorkerIO, Transition, MsgIn
  <2>3. Fits(t("Handshaking").req, up.gen, t("Handshaking")) /\ t("Handshaking").type \in Reports
    BY <1>2, <1>4, <1>5 DEF Fits, Ready, StateAt, Reports
  <2> QED
    BY <1>3, <1>4, <2>1, <2>2, <2>3 DEF Waits
<1>6. CASE worker[s].pc = "handshaking"
  <2>1. worker' = [worker EXCEPT ![s] = x("Sending")] /\ worker'[s] = x("Sending")
    BY <1>2, <1>6 DEF WorkerIO, WorkerTypes
  <2>2. Emit(s, t("Sending"))
    BY <1>4, <1>6, <2>1 DEF WorkerIO, Transition, MsgIn, Waits
  <2>3. Fits(t("Sending").req, x("Sending").gen, t("Sending")) /\ t("Sending").type \in Reports
    BY <1>2, <1>4, <1>6 DEF Fits, Ready, StateAt, Reports, Waits
  <2> QED
    BY <1>3, <1>4, <2>1, <2>2, <2>3 DEF Waits
<1>7. CASE worker[s].pc = "writing"
  <2>1. worker' = [worker EXCEPT ![s] = x("Bytes")] /\ Emit(s, b("Bytes"))
    BY <1>7 DEF WorkerIO
  <2>2. Fits(b("Bytes").req, x("Bytes").gen, b("Bytes")) /\ b("Bytes").type \in Reports
    BY <1>2, <1>4, <1>7 DEF Fits, StateAt, Reports, Waits
  <2> QED
    BY <1>3, <1>4, <2>1, <2>2 DEF Waits
<1>8. CASE worker[s].pc = "finishing"
  <2>1. worker' = [worker EXCEPT ![s] = x("WaitingResponse")] /\ worker'[s] = x("WaitingResponse")
    BY <1>2, <1>8 DEF WorkerIO, WorkerTypes
  <2>2. Emit(s, t("WaitingResponse"))
    BY <1>4, <1>8, <2>1 DEF WorkerIO, Transition, MsgIn, Waits
  <2>3. /\ Fits(t("WaitingResponse").req, x("WaitingResponse").gen, t("WaitingResponse"))
        /\ t("WaitingResponse").type \in Reports
    BY <1>2, <1>4, <1>8 DEF Fits, Ready, StateAt, Reports, Waits
  <2> QED
    BY <1>3, <1>4, <2>1, <2>2, <2>3 DEF Waits
<1>9. CASE worker[s].pc = "reading"
  <2>1. worker' = [worker EXCEPT ![s] = x("Completed")] /\ Emit(s, b("Completed"))
    BY <1>9 DEF WorkerIO
  <2>2. Fits(b("Completed").req, x("Completed").gen, b("Completed")) /\ b("Completed").type \in Reports
    BY <1>2, <1>4, <1>9 DEF Fits, StateAt, Reports, Waits
  <2> QED
    BY <1>3, <1>4, <2>1, <2>2 DEF Waits
<1> QED
  BY <1>1, <1>5, <1>6, <1>7, <1>8, <1>9 DEF AtIO

\* An I/O step fails: what is reported is the wire the core has.
LEMMA IOFailsCalm == ASSUME IInv, Calm, Quiet, NEW s \in Slots, WorkerIOFails(s) PROVE Calm'
<1> DEFINE x == [worker[s] EXCEPT !.pc = "Failed"]
           e == [type |-> "Failed", req |-> worker[s].req,
                 wire |-> Wire(worker[s].gen, Msg(worker[s].pc)),
                 same |-> worker[s].pc = "connecting" /\ worker[s].left > 0]
<1>1. /\ worker[s].pc \in AtIO /\ UNCHANGED <<work, reply>> /\ FromWorker
      /\ worker' = [worker EXCEPT ![s] = x] /\ Emit(s, e)
  BY DEF WorkerIOFails
<1>2. /\ worker[s] \in WorkerState /\ worker[s].req \in Requests
      /\ events[s] = <<>> /\ work' = [work EXCEPT ![s] = NoWork] /\ reply' = [reply EXCEPT ![s] = "none"]
      /\ On(worker[s].req, worker[s].gen, StateAt[worker[s].pc])
  BY <1>1, AtIOCalm
<1>3. x \in WorkerState /\ x.pc = "Failed" /\ x.gen = worker[s].gen /\ x.pc \notin AtIO \cup {"stopped"}
  BY <1>2 DEF WorkerState, Waits, AtIO
<1>4. e \in Event /\ e.type \in Reports
  BY <1>2 DEF Event, Wire, WireType, Msg, WorkerState, Reports
<1>5. /\ StateAt[worker[s].pc] \in OnWire
      /\ MsgIn[StateAt[worker[s].pc]] = Msg(worker[s].pc)
      /\ worker[s].pc = "connecting" => StateAt[worker[s].pc] = "Connecting"
  BY <1>1 DEF AtIO, StateAt, OnWire, MsgIn, Msg
<1>6. Fits(e.req, x.gen, e)
  BY <1>2, <1>3, <1>5 DEF Fits
<1> HIDE DEF x, e
<1> QED
  BY <1>1, <1>2, <1>3, <1>4, <1>6, SendsCalm

\* The core's answer: it is never a refusal.
LEMMA AnsweredCalm == ASSUME IInv, Calm, Quiet, NEW s \in Slots, WorkerAnswered(s) PROVE Calm'
<1>1. /\ worker[s].pc \in Waits /\ reply[s] # "none" /\ reply' = [reply EXCEPT ![s] = "none"]
      /\ UNCHANGED work /\ FromWorker
  BY DEF WorkerAnswered
<1>2. /\ worker[s] \in WorkerState /\ WorkerTypes /\ events[s] = <<>> /\ reply[s] = "ok"
      /\ worker[s].req \in Requests /\ OpenSlot(s) /\ QuietSlot(s) /\ Serving(s)
  BY <1>1, WorkerKnown, CalmKnown DEF OpenSlot, Serving
<1>3. worker[s].pc # "Completed" =>
         /\ InStep(s, worker[s].req, worker[s].gen) /\ work[s] = NoWork
         /\ work' = [work EXCEPT ![s] = NoWork]
  <2> SUFFICES ASSUME worker[s].pc # "Completed" PROVE <1>3!2
    OBVIOUS
  <2>1. ~Settled(s)
    BY <1>1 DEF Settled, Waits
  <2>2. InStep(s, worker[s].req, worker[s].gen)
    BY <1>2, <2>1 DEF QuietSlot
  <2>3. work[s] = NoWork
    BY <1>2, <2>1 DEF OpenSlot
  <2> QED
    BY <1>1, <1>2, <2>2, <2>3 DEF WorkerTypes
<1>4. CASE worker[s].pc \notin {"Completed", "Failed"}
  <2> DEFINE Goes == [Connecting |-> "connecting", Handshaking |-> "handshaking", Sending |-> "writing",
                      Bytes |-> "finishing", WaitingResponse |-> "reading"]
             x == [worker[s] EXCEPT !.pc = Goes[worker[s].pc]]
  <2>1. worker' = [worker EXCEPT ![s] = x] /\ events' = events
    BY <1>1, <1>2, <1>4 DEF WorkerAnswered, Waits
  <2>2. x \in WorkerState /\ x.pc \in AtIO /\ x.gen = worker[s].gen /\ x.req = worker[s].req
        /\ StateAt[x.pc] = StateAt[worker[s].pc] /\ x.pc # "stopped"
    BY <1>1, <1>2, <1>4 DEF WorkerState, Waits, AtIO, StateAt
  <2>3. On(x.req, x.gen, StateAt[x.pc])
    BY <1>3, <1>4, <2>2 DEF InStep
  <2> HIDE DEF x
  <2> QED
    BY <1>1, <1>2, <1>3, <1>4, <2>1, <2>2, <2>3, MovesCalm
<1>5. CASE worker[s].pc = "Completed"
  <2> DEFINE x == [worker[s] EXCEPT !.pc = "idle", !.req = NoRequest]
  <2>1. worker' = [worker EXCEPT ![s] = x] /\ events' = events
    BY <1>1, <1>2, <1>5 DEF WorkerAnswered
  <2>2. x \in WorkerState /\ x.pc # "stopped" /\ x.pc \notin AtIO
    BY <1>2 DEF WorkerState, AtIO
  <2>3. work[s] # NoWork => work[s].fresh /\ New(work[s].req)
    BY <1>2, <1>5 DEF QuietSlot, Dispatched
  <2> HIDE DEF x
  <2> QED
    BY <1>1, <1>2, <2>1, <2>2, <2>3, MovesCalm
<1>6. CASE worker[s].pc = "Failed"
  <2> DEFINE x == [worker[s] EXCEPT !.pc = "idle", !.req = NoRequest, !.up = FALSE, !.gen = @ + 1]
             e == [type |-> "Retired", req |-> worker[s].req, gen |-> worker[s].gen]
  <2>1. worker' = [worker EXCEPT ![s] = x] /\ Emit(s, e)
    BY <1>1, <1>2, <1>6 DEF WorkerAnswered, RetireWire
  <2>0. worker[s].gen + 1 \in Nat \ {0}
    BY <1>2 DEF WorkerState
  <2>2. x \in WorkerState /\ x.pc \notin AtIO \cup {"stopped"} /\ x.gen = worker[s].gen + 1 /\ ~x.up
    BY <1>2, <2>0 DEF WorkerState, AtIO
  <2>3. e \in Event /\ e.type = "Retired" /\ e.gen + 1 = x.gen /\ Doomed(e.req, e.gen)
    BY <1>2, <1>3, <1>6, <2>2 DEF Event, WorkerState, InStep
  <2> HIDE DEF x, e
  <2> QED
    BY <1>1, <1>2, <1>3, <1>6, <2>1, <2>2, <2>3, SendsCalm
<1> QED
  BY <1>4, <1>5, <1>6

\* No worker is told to stop or to drop what it has.
LEMMA WorkersCalm == ASSUME IInv, Calm, Quiet, NEW s \in Slots, WorkerStep(s) PROVE Calm'
<1>1. ~WorkerStops(s)
  BY CalmKnown DEF WorkerStops
<1>2. ~WorkerInterrupted(s)
  BY CalmKnown, AtIOCalm DEF WorkerInterrupted, Interrupted
<1> QED
  BY <1>1, <1>2, TakesCalm, IOCalm, IOFailsCalm, AnsweredCalm DEF WorkerStep

-----------------------------------------------------------------------------
(* The core: reports. *)

\* A step of the core for the owner of one Slot.
LEMMA CoreFrameCalm ==
  ASSUME IInv, Calm, Quiet, NEW s \in Slots, UNCHANGED <<engine, fatal, worker, directive>>,
         \A t \in Slots : t # s =>
            /\ work'[t] = work[t] /\ reply'[t] = reply[t] /\ events'[t] = events[t]
            /\ \A q \in Requests : Owns(q, t) => req'[q] = req[q] /\ retirements'[q] = retirements[q],
         QuietSlot(s)', QuietBooks'
  PROVE  Calm'
<1>1. ASSUME NEW t \in Slots, t # s PROVE QuietSlot(t)'
  BY <1>1, CalmKnown, SlotStays
<1>2. Closing' = Closing
  BY DEF Closing, Closed
<1> QED
  BY <1>1, <1>2, CalmKnown DEF Calm

\* The owner of a Slot owns no other.
LEMMA OneSlot ==
  ASSUME IInv, NEW r \in Requests, NEW s \in Slots, Owns(r, s), NEW t \in Slots, t # s,
         NEW q \in Requests, Owns(q, t)
  PROVE  q # r
  BY DEF Owns

\* What the core finds when it takes a report.
LEMMA ReportCalm ==
  ASSUME IInv, Calm, Quiet, NEW s \in Slots, NEW type \in Reports, Took(s, type)
  PROVE  /\ Ev(s) \in Event /\ Ev(s).type = type /\ Ev(s).req \in Requests /\ Owns(Ev(s).req, s)
         /\ Fits(Ev(s).req, worker[s].gen, Ev(s)) /\ worker[s].gen \in Nat
         /\ worker[s].req = Ev(s).req /\ work[s] = NoWork /\ events'[s] = <<>>
         /\ worker[s].pc = IF type = "Transition" THEN Ev(s).to ELSE type
         /\ \A t \in Slots : t # s => events'[t] = events[t]
         /\ req[Ev(s).req] \in ReqRecord
<1>1. /\ Ev(s) \in Event /\ Ev(s).type = type /\ Sent(s, Ev(s)) /\ Ev(s).req \in Requests
      /\ Owns(Ev(s).req, s) /\ work[s] = NoWork /\ events'[s] = <<>>
      /\ \A t \in Slots : t # s => events'[t] = events[t]
  <2>1. ~Closing /\ type # "Stopped"
    BY CalmKnown DEF Reports
  <2> QED
    BY <2>1, EventKnown
<1>2. events[s] # <<>> /\ QuietSlot(s)
  BY CalmKnown DEF Took
<1>3. Fits(Ev(s).req, worker[s].gen, Ev(s))
  BY <1>1, <1>2 DEF QuietSlot, Reports
<1>4. worker[s].gen \in Nat
  BY WorkerKnown DEF WorkerState
<1> QED
  BY <1>1, <1>3, <1>4, OwnersKnown DEF Sent, SentBy

\* A report is accepted: the worker goes on, or retires its generation.
LEMMA AcceptsCalm ==
  ASSUME IInv, Calm, Quiet, NEW s \in Slots, NEW type \in Reports, Took(s, type),
         Answered(s, "ok"), FromEvent, UNCHANGED <<alive, work>>,
         UNCHANGED <<engine, fatal, lifecycle, directive>>,
         NEW r \in Requests, r = Ev(s).req, NEW g, g = worker[s].gen,
         NEW y, req' = [req EXCEPT ![r] = y],
         y.state \in OnWire \cup {"Retrying"},
         \A q \in Requests : q # r => retirements'[q] = retirements[q],
         worker[s].pc # "Completed", InStep(s, r, g)'
  PROVE  Calm'
<1>1. /\ Owns(r, s) /\ worker[s].req = r /\ work[s] = NoWork /\ events'[s] = <<>>
      /\ \A t \in Slots : t # s => events'[t] = events[t]
  BY ReportCalm
<1>2. UNCHANGED worker /\ reply' = [reply EXCEPT ![s] = "ok"] /\ reply \in [Slots -> {"none", "ok", "err"}]
      /\ CoreTypes /\ directive[s] = "run" /\ worker[s].pc # "stopped"
  BY CoreKnown, WorkerKnown, CalmKnown DEF FromEvent, workerVars, Answered, WorkerTypes
<1>3. QuietSlot(s)'
  BY <1>1, <1>2 DEF QuietSlot
<1>4. \A q \in Requests : q # r => req'[q] = req[q]
  BY <1>2 DEF CoreTypes
<1>5. ASSUME NEW t \in Slots, t # s
      PROVE  /\ work'[t] = work[t] /\ reply'[t] = reply[t] /\ events'[t] = events[t]
             /\ \A q \in Requests : Owns(q, t) => req'[q] = req[q] /\ retirements'[q] = retirements[q]
  BY <1>1, <1>2, <1>4, <1>5, OneSlot
<1>6. QuietBooks'
  <2>1. req'[r] = y /\ y.state \notin {"Absent", "Queued", "Assigned"}
    BY <1>2 DEF CoreTypes, OnWire
  <2> QED
    BY <1>4, <2>1, CalmKnown DEF QuietBooks
<1> QED
  BY <1>2, <1>3, <1>5, <1>6, CoreFrameCalm

\* transition_request: the transition is one the core waits for.
LEMMA TransitionCalm == ASSUME IInv, Calm, Quiet, NEW s \in Slots, HandleTransition(s) PROVE Calm'
<1>1. Took(s, "Transition") /\ FromEvent /\ UNCHANGED <<alive, work>> /\ "Transition" \in Reports
  BY DEF HandleTransition, Reports
<1>0. PICK r \in Requests : r = Ev(s).req
  BY <1>1, ReportCalm
<1>2. PICK g, to, w : r = Ev(s).req /\ g = worker[s].gen /\ to = Ev(s).to /\ w = Ev(s).wire
  BY <1>0
<1>3. /\ w = Wire(g, MsgIn[to]) /\ Ready(r, g, to) /\ to \in DOMAIN Follows /\ g \in Nat
      /\ worker[s].pc = to /\ req[r] \in ReqRecord /\ CoreTypes /\ ~Closing
  <2>1. Ev(s) \in Event /\ Ev(s).type = "Transition" /\ Fits(Ev(s).req, worker[s].gen, Ev(s))
    BY <1>1, ReportCalm
  <2> QED
    BY <1>1, <1>2, <2>1, ReportCalm, CoreKnown, CalmKnown DEF Fits, Event
<1>4. MayAdvance(r, to, w)
  <2>1. to \in {"Connecting", "Handshaking", "Sending", "WaitingResponse"}
    BY <1>3 DEF Follows
  <2> QED
    BY <1>3, <2>1 DEF MayAdvance, Ready, New, Again, On, Follows, Wire, MsgIn
<1>5. /\ req' = [req EXCEPT ![r].state = to, ![r].wire = w, ![r].shown = w] /\ Answered(s, "ok")
      /\ UNCHANGED <<engine, fatal, lifecycle, retirements, directive>>
  BY <1>2, <1>4 DEF HandleTransition
<1> DEFINE y == [req[r] EXCEPT !.state = to, !.wire = w, !.shown = w]
<1>6. req' = [req EXCEPT ![r] = y] /\ req'[r] = y
  BY <1>3, <1>5 DEF CoreTypes
<1>7. y.state = to /\ y.wire = w /\ y.intent = "none" /\ to \in OnWire
  BY <1>3, <1>4 DEF ReqRecord, MayAdvance, Follows, OnWire
<1>8. InStep(s, r, g)' /\ worker[s].pc # "Completed"
  <2>1. StateAt[to] = to /\ to # "Failed" /\ to # "Completed"
    BY <1>7 DEF OnWire, StateAt
  <2>2. worker' = worker
    BY <1>1 DEF FromEvent, workerVars
  <2> HIDE DEF y
  <2> QED
    BY <1>3, <1>6, <1>7, <2>1, <2>2 DEF InStep, On
<1>9. y.state \in OnWire \cup {"Retrying"} /\ \A q \in Requests : q # r => retirements'[q] = retirements[q]
  BY <1>5, <1>7
<1> HIDE DEF y
<1>10. /\ Took(s, "Transition") /\ FromEvent /\ UNCHANGED <<alive, work>>
       /\ Answered(s, "ok") /\ UNCHANGED <<engine, fatal, lifecycle, directive>>
       /\ req' = [req EXCEPT ![r] = y] /\ InStep(s, r, g)' /\ worker[s].pc # "Completed"
  BY <1>1, <1>5, <1>6, <1>8
<1> QED
  BY <1>1, <1>2, <1>9, <1>10, AcceptsCalm

\* mark_business_bytes_sent: the request is on the wire that was written.
LEMMA BytesCalm == ASSUME IInv, Calm, Quiet, NEW s \in Slots, HandleBytes(s) PROVE Calm'
<1>1. Took(s, "Bytes") /\ FromEvent /\ UNCHANGED <<alive, work>> /\ "Bytes" \in Reports
  BY DEF HandleBytes, Reports
<1>0. PICK r \in Requests : r = Ev(s).req
  BY <1>1, ReportCalm
<1>2. PICK g : r = Ev(s).req /\ g = worker[s].gen
  BY <1>0
<1>3. /\ Ev(s).wire = Wire(g, "business") /\ On(r, g, "Sending")
      /\ worker[s].pc = "Bytes" /\ req[r] \in ReqRecord /\ CoreTypes
  BY <1>1, <1>2, ReportCalm, CoreKnown DEF Fits
<1>4. req' = [req EXCEPT ![r].sent = TRUE] /\ Answered(s, "ok")
      /\ UNCHANGED <<engine, fatal, lifecycle, retirements, directive>>
  BY <1>2, <1>3 DEF HandleBytes, On, MsgIn
<1> DEFINE y == [req[r] EXCEPT !.sent = TRUE]
<1>5. req' = [req EXCEPT ![r] = y] /\ req'[r] = y
  BY <1>3, <1>4 DEF CoreTypes
<1>6. y.state = req[r].state /\ y.wire = req[r].wire /\ y.intent = req[r].intent
  BY <1>3 DEF ReqRecord
<1> HIDE DEF y
<1>7. InStep(s, r, g)' /\ worker[s].pc # "Completed" /\ y.state \in OnWire
  BY <1>1, <1>3, <1>5, <1>6 DEF InStep, On, StateAt, OnWire, FromEvent, workerVars
<1> QED
  BY <1>1, <1>2, <1>4, <1>5, <1>7, AcceptsCalm

\* Failed: the request is on the wire that failed, so a next endpoint, a retry
\* or the end is decided, and the report is accepted.
LEMMA FailedCalm == ASSUME IInv, Calm, Quiet, NEW s \in Slots, HandleFailed(s) PROVE Calm'
<1>1. Took(s, "Failed") /\ FromEvent /\ UNCHANGED <<alive, work>> /\ "Failed" \in Reports
  BY DEF HandleFailed, Reports
<1>0. PICK r \in Requests : r = Ev(s).req
  BY <1>1, ReportCalm
<1>2. PICK g : r = Ev(s).req /\ g = worker[s].gen
  BY <1>0
<1>3. /\ worker[s].pc = "Failed" /\ req[r] \in ReqRecord /\ CoreTypes /\ ~Closing
      /\ \E st \in OnWire : On(r, g, st) /\ Ev(s).wire = Wire(g, MsgIn[st]) /\ (Ev(s).same => st = "Connecting")
  BY <1>1, <1>2, ReportCalm, CoreKnown, CalmKnown DEF Fits
<1>4. /\ req[r].state \in OnWire /\ req[r].intent = "none" /\ req[r].wire = Ev(s).wire /\ req[r].wire.gen = g
      /\ Ev(s).same => req[r].state = "Connecting"
  BY <1>3 DEF On, Wire
<1>5. MayRetire(r, Ev(s).wire)
  BY <1>3, <1>4 DEF MayRetire
<1>6. worker' = worker /\ retirements = [q \in Requests |-> retirements[q]]
  BY <1>1, <1>3 DEF FromEvent, workerVars, CoreTypes
<1>7. CASE /\ Ev(s).same /\ retirements' = [retirements EXCEPT ![r] = "continue"]
           /\ Answered(s, "ok")
           /\ UNCHANGED <<engine, fatal, req, lifecycle, directive>>
  <2>1. req' = [req EXCEPT ![r] = req[r]]
    BY <1>3, <1>7 DEF CoreTypes
  <2>2. InStep(s, r, g)'
    BY <1>3, <1>4, <1>6, <1>7 DEF InStep, Doomed
  <2>3. \A q \in Requests : q # r => retirements'[q] = retirements[q]
    BY <1>6, <1>7
  <2> QED
    BY <1>1, <1>2, <1>3, <1>4, <1>7, <2>1, <2>2, <2>3, AcceptsCalm
<1>8. CASE /\ MustStop(r) /\ req' = [req EXCEPT ![r].intent = "terminal", ![r].failed = TRUE]
           /\ retirements' = [retirements EXCEPT ![r] = "fail"]
           /\ Answered(s, "ok") /\ UNCHANGED <<engine, fatal, lifecycle, directive>>
  <2> DEFINE y == [req[r] EXCEPT !.intent = "terminal", !.failed = TRUE]
  <2>1. req' = [req EXCEPT ![r] = y] /\ req'[r] = y
    BY <1>3, <1>8 DEF CoreTypes
  <2>2. y.state \in OnWire /\ y.wire.gen = g /\ y.intent = "terminal"
    BY <1>3, <1>4 DEF ReqRecord
  <2> HIDE DEF y
  <2>5. retirements'[r] = "fail" /\ worker'[s].pc = "Failed"
    BY <1>3, <1>6, <1>8 DEF CoreTypes
  <2>6. Doomed(r, g)'
    BY <2>1, <2>2, <2>5 DEF Doomed
  <2>3. InStep(s, r, g)'
    BY <2>5, <2>6 DEF InStep
  <2>4. \A q \in Requests : q # r => retirements'[q] = retirements[q]
    BY <1>6, <1>8
  <2>7. Answered(s, "ok") /\ UNCHANGED <<engine, fatal, lifecycle, directive>>
    BY <1>8
  <2>8. y.state \in OnWire \cup {"Retrying"} /\ worker[s].pc # "Completed"
    BY <1>3, <2>2
  <2> QED
    BY <1>1, <1>2, <2>1, <2>3, <2>4, <2>7, <2>8, AcceptsCalm
<1>9. CASE /\ req' = [req EXCEPT ![r].intent = "retry", ![r].failed = TRUE, ![r].state = "Retrying"]
           /\ retirements' = [retirements EXCEPT ![r] = "retry"]
           /\ Answered(s, "ok") /\ UNCHANGED <<engine, fatal, lifecycle, directive>>
  <2> DEFINE y == [req[r] EXCEPT !.intent = "retry", !.failed = TRUE, !.state = "Retrying"]
  <2>1. req' = [req EXCEPT ![r] = y] /\ req'[r] = y
    BY <1>3, <1>9 DEF CoreTypes
  <2>2. y.state = "Retrying" /\ y.wire.gen = g /\ y.intent = "retry"
    BY <1>3, <1>4 DEF ReqRecord
  <2> HIDE DEF y
  <2>5. retirements'[r] = "retry" /\ worker'[s].pc = "Failed"
    BY <1>3, <1>6, <1>9 DEF CoreTypes
  <2>6. Doomed(r, g)'
    BY <2>1, <2>2, <2>5 DEF Doomed
  <2>3. InStep(s, r, g)'
    BY <2>5, <2>6 DEF InStep
  <2>4. \A q \in Requests : q # r => retirements'[q] = retirements[q]
    BY <1>6, <1>9
  <2>7. Answered(s, "ok") /\ UNCHANGED <<engine, fatal, lifecycle, directive>>
    BY <1>9
  <2>8. y.state \in OnWire \cup {"Retrying"} /\ worker[s].pc # "Completed"
    BY <1>3, <2>2
  <2> QED
    BY <1>1, <1>2, <2>1, <2>3, <2>4, <2>7, <2>8, AcceptsCalm
<1> QED
  BY <1>2, <1>3, <1>5, <1>7, <1>8, <1>9 DEF HandleFailed

-----------------------------------------------------------------------------
(* The core: the end of a request, and a generation that has retired. *)

\* What may still be under way at the Slot of a request that is over: nothing.
SlotDone(s) ==
    /\ events'[s] = <<>> /\ work[s] = NoWork
    /\ worker[s].pc = "idle" \/ (worker[s].pc = "Completed" /\ reply'[s] = "ok")

\* A waiter that gets the Slot has no wire.
LEMMA FinishCalm ==
  ASSUME IInv, Calm, Quiet, NEW s \in Slots, NEW r \in Requests, Owns(r, s),
         NEW why, Finish(r, why, confirm), SlotDone(s),
         UNCHANGED <<engine, fatal, worker, directive>>,
         \A t \in Slots : t # s => reply'[t] = reply[t] /\ events'[t] = events[t]
  PROVE  Calm'
<1>1. /\ A!ReleaseActive(ownership[r])
      /\ req' = [q \in Requests |->
            IF q \in {r} \cup TimedOut THEN Absent
            ELSE IF q \in Promoted THEN [req[q] EXCEPT !.state = "Assigned", !.attempts = 1]
            ELSE req[q]]
      /\ IF Promoted = {} THEN UNCHANGED <<work, alive>>
         ELSE \E q \in Promoted : Dispatch(q, SlotOf(r), TRUE)
      /\ retirements' = [retirements EXCEPT ![r] = "none"]
      /\ lifecycle' = [lifecycle EXCEPT ![r] = "none"]
  BY DEF Finish
<1>2. ownership[r].kind = "lease" /\ SlotOf(r) = s
  BY DEF Owns, SlotOf
<1>3. /\ \A q \in TimedOut : req[q].state = "Queued" /\ q # r /\ q \notin Promoted
      /\ \A q \in Promoted : req[q].state = "Queued" /\ q # r
  BY <1>1, <1>2, ReleaseEffect, ZenonT(40)
<1>4. CoreTypes /\ Books /\ QuietBooks /\ QuietSlot(s) /\ WorkerTypes
  BY CoreKnown, CalmKnown, WorkerKnown
<1>5. /\ Absent.state = "Absent" /\ Absent.wire = NoWire
      /\ \A q \in Promoted : LET y == [req[q] EXCEPT !.state = "Assigned", !.attempts = 1]
                             IN y.state = "Assigned" /\ y.wire = NoWire /\ y.intent = "none"
  <2>1. ASSUME NEW q \in Promoted
        PROVE  req[q] \in ReqRecord /\ req[q].wire = NoWire /\ req[q].intent = "none"
    <3>1. q \in Requests /\ req[q].state = "Queued"
      BY <1>3 DEF Promoted
    <3> QED
      BY <1>4, <3>1 DEF CoreTypes, Books, QuietBooks, Started, OnWire
  <2> QED
    BY <2>1 DEF Absent, ReqRecord
<1>6. QuietBooks'
  <2> SUFFICES ASSUME NEW q \in Requests
               PROVE  /\ req'[q].state \in {"Absent", "Queued", "Assigned"} => req'[q].wire = NoWire
                      /\ lifecycle'[q] = "none"
    BY DEF QuietBooks
  <2>1. lifecycle'[q] = "none"
    BY <1>1, <1>4 DEF QuietBooks, CoreTypes
  <2>2. req'[q] = Absent \/ (q \in Promoted /\ req'[q] = [req[q] EXCEPT !.state = "Assigned", !.attempts = 1])
        \/ req'[q] = req[q]
    BY <1>1
  <2> QED
    BY <1>4, <1>5, <2>1, <2>2 DEF QuietBooks
<1>7. /\ \A t \in Slots : t # s => work'[t] = work[t]
      /\ work'[s] = NoWork \/ \E p \in Promoted : work'[s] = [req |-> p, fresh |-> TRUE]
  BY <1>1, <1>2, <1>4 DEF Dispatch, WorkerTypes, SlotDone
<1>8. work'[s] # NoWork => Dispatched(s, work[s].req, worker[s].gen)'
  <2> SUFFICES ASSUME NEW p \in Promoted, work'[s] = [req |-> p, fresh |-> TRUE]
               PROVE  Dispatched(s, work[s].req, worker[s].gen)'
    BY <1>7
  <2>1. /\ p \in Requests /\ p # r /\ p \notin TimedOut
    BY <1>3 DEF Promoted
  <2>2. req'[p] = [req[p] EXCEPT !.state = "Assigned", !.attempts = 1]
    BY <1>1, <2>1
  <2>3. New(p)'
    BY <1>5, <2>2 DEF New
  <2>4. work'[s].req = p /\ work'[s].fresh
    OBVIOUS
  <2> QED
    BY <2>3, <2>4 DEF Dispatched, New
<1>9. QuietSlot(s)'
  <2>1. Settled(s)'
    BY DEF SlotDone, Settled
  <2> QED
    BY <1>4, <1>8, <2>1 DEF QuietSlot, SlotDone
<1>10. ASSUME NEW t \in Slots, t # s, NEW q \in Requests, Owns(q, t)
       PROVE  req'[q] = req[q] /\ retirements'[q] = retirements[q]
  <2>1. q # r
    BY <1>10, OneSlot
  <2>2. req[q].state # "Queued"
    BY <1>10, OwnersKnown DEF Owns
  <2> QED
    BY <1>1, <1>3, <1>4, <2>1, <2>2 DEF CoreTypes
<1> QED
  BY <1>6, <1>7, <1>9, <1>10, CoreFrameCalm

\* complete_request: the request waits for its response on the wire it came on.
LEMMA CompletedCalm == ASSUME IInv, Calm, Quiet, NEW s \in Slots, HandleCompleted(s) PROVE Calm'
<1>1. Took(s, "Completed") /\ FromEvent /\ "Completed" \in Reports
  BY DEF HandleCompleted, Reports
<1>0. PICK r \in Requests : r = Ev(s).req
  BY <1>1, ReportCalm
<1>2. PICK g : r = Ev(s).req /\ g = worker[s].gen
  BY <1>0
<1>3. /\ Ev(s).wire = Wire(g, "business") /\ On(r, g, "WaitingResponse")
      /\ worker[s].pc = "Completed" /\ work[s] = NoWork /\ events'[s] = <<>> /\ Owns(r, s)
      /\ \A t \in Slots : t # s => events'[t] = events[t]
  BY <1>1, <1>2, ReportCalm DEF Fits
<1>4. MayFinish(r, Ev(s).wire)
  BY <1>3 DEF MayFinish, On, MsgIn, Started, OnWire
<1>5. Finish(r, "completed", confirm) /\ Answered(s, "ok") /\ UNCHANGED <<engine, fatal, directive>>
  BY <1>2, <1>4 DEF HandleCompleted
<1>6. UNCHANGED worker /\ reply'[s] = "ok" /\ \A t \in Slots : t # s => reply'[t] = reply[t]
  BY <1>1, <1>5, WorkerKnown DEF FromEvent, workerVars, Answered, WorkerTypes
<1>7. SlotDone(s)
  BY <1>3, <1>6 DEF SlotDone
<1> QED
  BY <1>3, <1>5, <1>6, <1>7, FinishCalm

\* No work is dropped before it is begun.
LEMMA UnstartedCalm == ASSUME IInv, Calm, Quiet, NEW s \in Slots PROVE ~HandleUnstarted(s)
  BY CalmKnown DEF HandleUnstarted, Took, QuietSlot, Reports

\* No worker ends.
LEMMA StoppedCalm == ASSUME IInv, Calm, Quiet, NEW s \in Slots PROVE ~HandleStopped(s)
  BY CalmKnown DEF HandleStopped, Took, QuietSlot, Reports

\* What the core finds when a generation has retired: the plan fits its record.
LEMMA RetiredFound ==
  ASSUME IInv, Calm, Quiet, NEW s \in Slots, Took(s, "Retired")
  PROVE  /\ Ev(s).req \in Requests /\ Owns(Ev(s).req, s) /\ Doomed(Ev(s).req, Ev(s).gen)
         /\ Ev(s).gen + 1 = worker[s].gen /\ ~worker[s].up /\ worker[s].pc = "idle"
         /\ work[s] = NoWork /\ events'[s] = <<>> /\ Started(Ev(s).req)
         /\ \A t \in Slots : t # s => events'[t] = events[t]
<1>1. ~Closing /\ events[s] # <<>> /\ QuietSlot(s) /\ worker[s].pc # "stopped"
  BY CalmKnown DEF Took
<1>2. /\ Ev(s).req \in Requests /\ Owns(Ev(s).req, s) /\ Ev(s).type = "Retired" /\ Sent(s, Ev(s))
      /\ work[s] = NoWork /\ events'[s] = <<>> /\ Started(Ev(s).req)
      /\ \A t \in Slots : t # s => events'[t] = events[t]
  BY <1>1, EventKnown
<1> QED
  BY <1>1, <1>2 DEF QuietSlot, Reports, Sent, SentBy

\* handle_retired: the next endpoint, the next attempt, or the end.
LEMMA RetiredCalm == ASSUME IInv, Calm, Quiet, NEW s \in Slots, HandleRetired(s) PROVE Calm'
<1>1. Took(s, "Retired") /\ FromEvent /\ UNCHANGED reply
  BY DEF HandleRetired
<1>0. PICK r \in Requests : r = Ev(s).req
  BY <1>1, RetiredFound
<1>2. PICK g : r = Ev(s).req /\ g = Ev(s).gen
  BY <1>0
<1>3. /\ Owns(r, s) /\ Doomed(r, g) /\ g + 1 = worker[s].gen /\ ~worker[s].up /\ worker[s].pc = "idle"
      /\ work[s] = NoWork /\ events'[s] = <<>> /\ Started(r) /\ SlotOf(r) = s
      /\ \A t \in Slots : t # s => events'[t] = events[t]
  BY <1>1, <1>2, RetiredFound DEF Owns, SlotOf
<1>4. /\ ~Closing /\ r \notin elapsed /\ lifecycle[r] = "none" /\ CoreTypes /\ WorkerTypes
      /\ QuietBooks /\ directive[s] = "run" /\ req[r] \in ReqRecord /\ Plan(r) = retirements[r]
  BY CoreKnown, CalmKnown, WorkerKnown, OwnersKnown DEF QuietBooks, Plan
<1>5. UNCHANGED worker
  BY <1>1 DEF FromEvent, workerVars
<1>6. ASSUME NEW fresh \in BOOLEAN, GoOn(s, r, fresh),
             IF fresh THEN req[r].state = "Retrying" ELSE req[r].state = "Connecting"
      PROVE  Calm'
  <2> DEFINE y == [req[r] EXCEPT !.wire = Wire(Ev(s).gen + 1, "none"), !.intent = "none",
                                 !.attempts = IF fresh THEN @ + 1 ELSE @,
                                 !.sent = IF fresh THEN FALSE ELSE @]
  <2>1. /\ req' = [req EXCEPT ![r] = y] /\ req'[r] = y
        /\ work' = [work EXCEPT ![s] = [req |-> r, fresh |-> fresh]]
        /\ retirements' = [retirements EXCEPT ![r] = "none"]
        /\ UNCHANGED <<engine, fatal, lifecycle, directive>>
    BY <1>4, <1>6 DEF GoOn, Dispatch, CoreTypes
  <2>2. y.state = req[r].state /\ y.intent = "none" /\ y.wire = Wire(worker[s].gen, "none")
    BY <1>2, <1>3, <1>4 DEF ReqRecord
  <2> HIDE DEF y
  <2>3. work'[s].req = r /\ work'[s].fresh = fresh /\ \A t \in Slots : t # s => work'[t] = work[t]
    BY <1>4, <2>1 DEF WorkerTypes
  <2>4. Dispatched(s, work[s].req, worker[s].gen)'
    BY <1>3, <1>5, <1>6, <2>1, <2>2, <2>3 DEF Dispatched, Again, On, MsgIn
  <2>5. QuietSlot(s)'
    <3>1. Settled(s)'
      BY <1>3, <1>5 DEF Settled
    <3> QED
      BY <1>3, <1>4, <1>5, <2>1, <2>4, <3>1 DEF QuietSlot
  <2>6. \A q \in Requests : q # r => req'[q] = req[q] /\ retirements'[q] = retirements[q]
    BY <1>4, <2>1 DEF CoreTypes
  <2>7. QuietBooks'
    BY <1>4, <1>6, <2>1, <2>2, <2>6 DEF QuietBooks
  <2>8. ASSUME NEW t \in Slots, t # s, NEW q \in Requests, Owns(q, t)
        PROVE  req'[q] = req[q] /\ retirements'[q] = retirements[q]
    BY <1>3, <2>6, <2>8, OneSlot
  <2> QED
    BY <1>1, <1>3, <1>5, <2>1, <2>3, <2>5, <2>7, <2>8, CoreFrameCalm
<1>7. CASE retirements[r] = "continue"
  <2>1. MayContinue(s, r) /\ req[r].state = "Connecting"
    BY <1>2, <1>3, <1>7 DEF Doomed, MayContinue, Acknowledges
  <2>2. GoOn(s, r, FALSE)
    BY <1>2, <1>3, <1>4, <1>7, <2>1 DEF HandleRetired
  <2> QED
    BY <1>6, <2>1, <2>2
<1>8. CASE retirements[r] = "retry"
  <2>1. MayRetryNow(s, r) /\ req[r].state = "Retrying"
    BY <1>2, <1>3, <1>8 DEF Doomed, MayRetryNow, Acknowledges
  <2>2. GoOn(s, r, TRUE)
    BY <1>2, <1>3, <1>4, <1>8, <2>1 DEF HandleRetired
  <2> QED
    BY <1>6, <2>1, <2>2
<1>9. CASE retirements[r] = "fail"
  <2>1. MayEnd(s, r)
    BY <1>2, <1>3, <1>9 DEF Doomed, MayEnd, Acknowledges
  <2>2. Finish(r, "failed", confirm) /\ UNCHANGED <<engine, fatal, directive>>
    BY <1>2, <1>3, <1>4, <1>9, <2>1 DEF HandleRetired
  <2>3. SlotDone(s)
    BY <1>3 DEF SlotDone
  <2> QED
    BY <1>1, <1>3, <1>5, <2>2, <2>3, FinishCalm
<1> QED
  BY <1>3, <1>7, <1>8, <1>9 DEF Doomed

-----------------------------------------------------------------------------
(* The core: commands and the tick. *)

\* A step of the core that no owner of a Slot notices.
LEMMA AllStay ==
  ASSUME IInv, Calm, Quiet, UNCHANGED <<engine, fatal, worker, work, reply, events, directive>>,
         \A q \in Requests : ownership[q].kind = "lease" =>
            req'[q] = req[q] /\ retirements'[q] = retirements[q],
         QuietBooks'
  PROVE  Calm'
<1>1. ASSUME NEW t \in Slots PROVE QuietSlot(t)'
  BY CalmKnown, SlotStays DEF Owns
<1>2. Closing' = Closing
  BY DEF Closing, Closed
<1> QED
  BY <1>1, <1>2, CalmKnown DEF Calm

\* A Slot nobody owns has nothing under way.
LEMMA FreeSlot ==
  ASSUME IInv, Calm, Quiet, NEW s \in Slots, \A q \in Requests : ~Owns(q, s)
  PROVE  work[s] = NoWork /\ events[s] = <<>> /\ Settled(s)
<1>1. ~Closing /\ worker[s].pc # "stopped" /\ worker[s] \in WorkerState
      /\ (events[s] # <<>> => Ev(s).type # "Stopped")
  BY CalmKnown, WorkerKnown
<1>2. work[s] = NoWork /\ events[s] = <<>> /\ ~(Serving(s) /\ ~Settled(s))
  BY <1>1, OwnersHere
<1>3. Settled(s)
  BY <1>1, <1>2 DEF Serving, Settled, WorkerState
<1> QED
  BY <1>2, <1>3

\* A command is admitted or refused: a new request has no wire.
LEMMA CommandCalm == ASSUME IInv, Calm, Quiet, NEW r \in Requests, HandleCommand(r) PROVE Calm'
<1>1. /\ r \in inbox
      /\ UNCHANGED <<worker, directive, reply, events, engine, fatal, lifecycle, retirements>>
  BY DEF HandleCommand, workerVars
<1>2. /\ req[r].state = "Absent" /\ req[r] \in ReqRecord /\ ownership[r].kind # "lease"
      /\ req[r].wire = NoWire /\ req[r].intent = "none" /\ CoreTypes /\ QuietBooks
  <2>1. req[r].state = "Absent" /\ req[r] \in ReqRecord /\ ownership[r].kind # "lease" /\ ~Started(r)
    BY <1>1, OwnersKnown
  <2> QED
    BY <2>1, CoreKnown, CalmKnown DEF QuietBooks, Books
<1>3. CASE UNCHANGED <<req, work>>
  BY <1>1, <1>2, <1>3, AllStay DEF QuietBooks
<1>4. CASE req' = [req EXCEPT ![r].state = "Queued"] /\ UNCHANGED work
  <2> DEFINE y == [req[r] EXCEPT !.state = "Queued"]
  <2>1. req' = [req EXCEPT ![r] = y] /\ y.wire = NoWire
    BY <1>2, <1>4 DEF ReqRecord
  <2> HIDE DEF y
  <2>2. \A q \in Requests : /\ q # r => req'[q] = req[q]
                            /\ q = r => req'[q].wire = NoWire
    BY <1>2, <2>1 DEF CoreTypes
  <2>3. QuietBooks'
    BY <1>1, <1>2, <2>2 DEF QuietBooks
  <2> QED
    BY <1>1, <1>2, <1>4, <2>2, <2>3, AllStay
<1>5. CASE /\ A!SubmitDirect(r)
           /\ req' = [req EXCEPT ![r].state = "Assigned", ![r].attempts = 1]
           /\ Dispatch(r, ownership'[r].slot, TRUE)
  <2>1. PICK s : s = ownership'[r].slot
    OBVIOUS
  <2>2. s \in idle /\ s \in Slots
    <3>1. ownership = [q \in Requests |-> ownership[q]] /\ idle \subseteq Slots
      BY CoreKnown, QueueFacts DEF A!TypeOK, Slots
    <3> QED
      BY <1>5, <2>1, <3>1 DEF A!SubmitDirect, A!Grant, A!NewLease
  <2>3. \A q \in Requests : ~Owns(q, s)
    BY <2>2, CoreKnown, QueueFacts
  <2>4. work[s] = NoWork /\ events[s] = <<>> /\ Settled(s) /\ QuietSlot(s) /\ WorkerTypes
    BY <2>2, <2>3, FreeSlot, CalmKnown, WorkerKnown
  <2> DEFINE y == [req[r] EXCEPT !.state = "Assigned", !.attempts = 1]
             w == [req |-> r, fresh |-> TRUE]
  <2>5. /\ req' = [req EXCEPT ![r] = y] /\ work' = [work EXCEPT ![s] = w]
        /\ y.state = "Assigned" /\ y.intent = "none" /\ y.wire = NoWire
        /\ w.req = r /\ w.fresh
    BY <1>2, <1>5, <2>1 DEF ReqRecord, Dispatch
  <2> HIDE DEF y, w
  <2>6. /\ \A q \in Requests : q # r => req'[q] = req[q]
        /\ req'[r] = y /\ work'[s] = w
        /\ \A t \in Slots : t # s => work'[t] = work[t]
    BY <1>2, <2>2, <2>4, <2>5 DEF CoreTypes, WorkerTypes
  <2>7. Dispatched(s, work[s].req, worker[s].gen)'
    BY <2>5, <2>6 DEF Dispatched, New
  <2>8. QuietSlot(s)'
    <3>1. Settled(s)'
      BY <1>1, <2>4 DEF Settled
    <3> QED
      BY <1>1, <2>4, <2>7, <3>1 DEF QuietSlot
  <2>9. QuietBooks'
    BY <1>1, <1>2, <2>5, <2>6 DEF QuietBooks
  <2>10. ASSUME NEW t \in Slots, t # s, NEW q \in Requests, Owns(q, t)
         PROVE  req'[q] = req[q] /\ retirements'[q] = retirements[q]
    BY <1>1, <1>2, <2>6, <2>10 DEF Owns
  <2> QED
    BY <1>1, <2>2, <2>6, <2>8, <2>9, <2>10, CoreFrameCalm
<1> QED
  BY <1>3, <1>4, <1>5 DEF HandleCommand

\* No tick finds a deadline that has passed, or a close to do.
LEMMA TickCalm == ASSUME IInv, Calm, Quiet PROVE ~HandleTick
  BY CalmKnown DEF HandleTick, A!ExpireWaiting

-----------------------------------------------------------------------------
(* What is not a broken connection stays known. *)

\* The core does not undo a deadline or a cancellation.
Noticed == elapsed' = elapsed /\ \A r \in Requests : confirm[r] # "none" => confirm'[r] # "none"

\* Only time passes a deadline.
LEMMA ElapsedKept ==
  /\ \A r \in Requests :
        A!SubmitDirect(r) \/ A!SubmitWaiting(r) \/ A!Refuse(r) \/ A!ReleaseActive(ownership[r])
        \/ A!CancelWaiting(ownership[r]) => elapsed' = elapsed
  /\ A!ExpireWaiting \/ A!CloseComplete \/ UNCHANGED admissionVars => elapsed' = elapsed
  BY DEF A!SubmitDirect, A!SubmitWaiting, A!Refuse, A!ReleaseActive, A!ReleaseAndPromote, A!ReleaseToIdle,
     A!CancelWaiting, A!ExpireWaiting, A!CloseComplete, admissionVars

\* A request's end makes no noise of its own.
LEMMA NotifyNoticed ==
  ASSUME NEW N, NEW conf, Notify(N, conf), \A r \in Requests : confirm[r] # "none" => conf[r] # "none"
  PROVE  \A r \in Requests : /\ confirm[r] # "none" => confirm'[r] # "none"
                             /\ conf[r] # "none" => confirm'[r] # "none"
  BY DEF Notify

\* finish_request: what an end, and the waiters it starts, leave as it was.
LEMMA FinishNoticed ==
  ASSUME NEW r \in Requests, NEW why, Finish(r, why, confirm)
  PROVE  Noticed
<1>1. \E N : Notify(N, confirm)
  BY DEF Finish
<1>2. A!ReleaseActive(ownership[r])
  BY DEF Finish
<1> QED
  BY <1>1, <1>2, NotifyNoticed, ElapsedKept DEF Noticed

\* A fatal error answers every request and forgets no deadline, cancellation or close.
LEMMA FailNoticed ==
  ASSUME NEW why, NEW joined, NEW conf, Fail(why, joined, conf),
         \A r \in Requests : confirm[r] # "none" => conf[r] # "none"
  PROVE  Noticed
<1>1. elapsed' = elapsed /\ (confirm' = conf \/ \E N : Notify(N, conf))
  BY DEF Fail, Shutdown, admissionVars
<1> QED
  BY <1>1, NotifyNoticed DEF Noticed

\* No handler of a worker's event takes back a deadline, a cancellation or a close.
LEMMA EventsNoticed == ASSUME IInv, NEW s \in Slots, EventStep(s) PROVE Noticed
<1>1. SameCore => Noticed
  BY ElapsedKept DEF SameCore, Noticed
<1>2. UNCHANGED <<admissionVars, confirm>> => Noticed
  BY ElapsedKept DEF Noticed
<1>3. \A why, joined : Fail(why, joined, confirm) => Noticed
  BY FailNoticed
<1>4. \A r \in Requests : \A why : Finish(r, why, confirm) => Noticed
  BY FinishNoticed
<1>5. events[s] # <<>> /\ Ev(s).type # "Stopped" => Ev(s).req \in Requests
  <2>1. events[s] \in Seq(Event)
    BY WorkerKnown
  <2>2. events[s] # <<>> => Ev(s) \in Event
    BY <2>1 DEF Ev
  <2> QED
    BY <2>2 DEF Event
<1>6. HandleTransition(s) => Noticed
  BY <1>1, <1>2, <1>3 DEF HandleTransition
<1>7. HandleBytes(s) => Noticed
  BY <1>1, <1>2, <1>3 DEF HandleBytes
<1>8. HandleCompleted(s) => Noticed
  BY <1>1, <1>3, <1>4, <1>5 DEF HandleCompleted, Took
<1>9. HandleUnstarted(s) => Noticed
  BY <1>1, <1>3, <1>4, <1>5 DEF HandleUnstarted, Took
<1>10. HandleFailed(s) => Noticed
  BY <1>2, <1>3 DEF HandleFailed
<1>11. HandleRetired(s) => Noticed
  <2>1. \A why : RetirementFails(why) => Noticed
    BY <1>3 DEF RetirementFails
  <2>2. \A r, fresh : GoOn(s, r, fresh) => Noticed
    BY <1>2 DEF GoOn
  <2> QED
    BY <1>1, <1>4, <1>5, <2>1, <2>2 DEF HandleRetired, Took
<1>12. HandleStopped(s) => Noticed
  <2>1. \A N : Notify(N, confirm) => \A r \in Requests : confirm[r] # "none" => confirm'[r] # "none"
    BY NotifyNoticed
  <2> QED
    BY <1>1, <1>3, <2>1, ElapsedKept DEF HandleStopped, Noticed
<1> QED
  BY <1>6, <1>7, <1>8, <1>9, <1>10, <1>11, <1>12 DEF EventStep

\* After a cancellation was handled it is not forgotten.
LEMMA CancelHeld == ASSUME IInv, NEW r \in Requests, HandleCancel(r) PROVE confirm'[r] # "none"
<1> DEFINE conf == [confirm EXCEPT ![r] = "held"]
<1>1. confirm \in [Requests -> Confirmation]
  BY CoreKnown DEF CoreTypes
<1>2. conf[r] = "held" /\ \A q \in Requests : confirm[q] # "none" => conf[q] # "none"
  BY <1>1
<1>3. confirm' = conf \/ \E N : Notify(N, conf)
  BY DEF HandleCancel, CancelUnknown, CancelQueued, CancelDispatched, CancelOnWire, CancelStale, Fail, Shutdown
<1> HIDE DEF conf
<1> QED
  BY <1>2, <1>3, NotifyNoticed

\* What was not quiet does not become quiet.
LEMMA NoiseStays == IInv /\ [Next]_vars /\ Quiet' => Quiet
<1> SUFFICES ASSUME IInv, [Next]_vars, Quiet' PROVE Quiet
  OBVIOUS
<1>1. Noticed /\ closeAsked' = closeAsked => Quiet
  BY DEF Noticed, Quiet
<1>2. UNCHANGED <<elapsed, closeAsked, confirm>> => Quiet
  BY DEF Quiet
<1>3. CASE CallerStep
  <2>1. confirm \in [Requests -> Confirmation]
    BY CoreKnown DEF CoreTypes
  <2> QED
    BY <1>2, <1>3, <2>1 DEF CallerStep, SendCommand, AskCancel, Elapse, A!Elapse, Quiet, admissionVars, callerVars,
       coreVars
<1>4. CASE AskClose \/ HandleCloseTimeout \/ UNCHANGED vars
  BY <1>2, <1>4 DEF AskClose, HandleCloseTimeout, Quiet, vars, admissionVars, callerVars, coreVars
<1>5. CASE ControlStep
  <2>1. CASE HandleClose
    <3>1. elapsed' = elapsed /\ closeAsked' = closeAsked /\ \E N : Notify(N, confirm)
      BY <2>1 DEF HandleClose, Shutdown, callerVars
    <3> QED
      BY <1>1, <3>1, NotifyNoticed DEF Noticed
  <2>2. CASE FinishClose
    BY <1>2, <2>2, ElapsedKept DEF FinishClose, callerVars
  <2>3. CASE HandleTick
    <3>1. elapsed' = elapsed /\ closeAsked' = closeAsked /\ \E N : Notify(N, confirm)
      BY <2>3, ElapsedKept DEF HandleTick, callerVars
    <3> QED
      BY <1>1, <3>1, NotifyNoticed DEF Noticed
  <2>4. ASSUME NEW r \in Requests, HandleCommand(r) PROVE Quiet
    <3>1. elapsed' = elapsed /\ closeAsked' = closeAsked /\ (confirm' = confirm \/ \E N : Notify(N, confirm))
      BY <2>4, ElapsedKept DEF HandleCommand
    <3> QED
      BY <1>1, <3>1, NotifyNoticed DEF Noticed
  <2>5. ASSUME NEW r \in Requests, HandleCancel(r) PROVE Quiet
    BY <2>5, CancelHeld DEF Quiet
  <2> QED
    BY <1>5, <2>1, <2>2, <2>3, <2>4, <2>5 DEF ControlStep
<1>6. ASSUME NEW s \in Slots, EventStep(s) PROVE Quiet
  <2>1. FromEvent
    BY <1>6 DEF EventStep, HandleTransition, HandleBytes, HandleCompleted, HandleUnstarted, HandleFailed,
       HandleRetired, HandleStopped
  <2> QED
    BY <1>1, <1>6, <2>1, EventsNoticed, SMTT(30) DEF FromEvent, callerVars
<1>7. ASSUME NEW s \in Slots, WorkerStep(s) PROVE Quiet
  <2>1. FromWorker
    BY <1>7 DEF WorkerStep, WorkerStops, WorkerTakes, WorkerIO, WorkerIOFails, WorkerInterrupted, WorkerAnswered
  <2> QED
    BY <1>2, <2>1 DEF FromWorker, admissionVars, callerVars, coreVars
<1> QED
  BY <1>3, <1>4, <1>5, <1>6, <1>7 DEF Next

-----------------------------------------------------------------------------
(* The result. *)

\* Every step of the engine keeps what is said of quiet states.
LEMMA CalmStep == IInv /\ Calm /\ [Next]_vars => Calm'
<1> SUFFICES ASSUME IInv, Calm, [Next]_vars, Quiet' PROVE Calm'
  BY DEF Calm
<1>1. Quiet
  BY NoiseStays
<1>2. /\ ~Closing /\ ~closeAsked /\ QuietBooks /\ \A r \in Requests : confirm[r] = "none"
  BY <1>1, CalmKnown
<1>3. CASE CallerStep
  <2>1. UNCHANGED <<workerVars, channelVars, engine, fatal, req, lifecycle, retirements>>
    BY <1>3 DEF CallerStep, SendCommand, AskCancel, Elapse, coreVars
  <2> QED
    BY <1>1, <1>2, <2>1, AllStay DEF workerVars, channelVars, QuietBooks
<1>4. CASE AskClose \/ HandleCloseTimeout
  BY <1>2, <1>4 DEF AskClose, HandleCloseTimeout, Quiet
<1>5. CASE ControlStep
  <2>1. ~HandleClose /\ ~FinishClose
    BY <1>2 DEF HandleClose, FinishClose
  <2>2. \A r \in Requests : ~HandleCancel(r)
    BY <1>2 DEF HandleCancel
  <2> QED
    BY <1>1, <1>5, <2>1, <2>2, TickCalm, CommandCalm DEF ControlStep
<1>6. ASSUME NEW s \in Slots, EventStep(s) PROVE Calm'
  BY <1>1, <1>6, TransitionCalm, BytesCalm, CompletedCalm, UnstartedCalm, FailedCalm, RetiredCalm, StoppedCalm
     DEF EventStep
<1>7. ASSUME NEW s \in Slots, WorkerStep(s) PROVE Calm'
  BY <1>1, <1>7, WorkersCalm
<1>8. CASE UNCHANGED vars
  BY <1>1, <1>2, <1>8, AllStay DEF vars, workerVars, channelVars, coreVars, QuietBooks
<1> QED
  BY <1>3, <1>4, <1>5, <1>6, <1>7, <1>8 DEF Next

\* At first no Slot has anything under way.
LEMMA CalmAtFirst == Init => Calm
  BY DEF Init, Calm, Closing, Closed, QuietBooks, QuietSlot, Absent, Serving, AtIO, Waits, NoWork

\* As long as no deadline passes, no caller cancels and no close is asked for,
\* the engine does not fail, however often and wherever connecting, writing and
\* reading do (transition_request, begin_retry, handle_retired: none of their
\* refusals is reached).
THEOREM BrokenWiresAreHarmless == Spec => []BrokenConnectionsAreNotFatal
<1>1. IInv /\ Calm => BrokenConnectionsAreNotFatal
  BY DEF Calm, Quiet, BrokenConnectionsAreNotFatal
<1>2. Spec => []Calm
  <2>1. Calm /\ IInv /\ [Next]_vars => Calm'
    BY CalmStep
  <2> QED
    BY <2>1, CalmAtFirst, Invariance, PTL DEF Spec
<1> QED
  BY <1>1, <1>2, Invariance, PTL

=============================================================================
