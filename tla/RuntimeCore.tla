----------------------------- MODULE RuntimeCore -----------------------------
(***************************************************************************)
(* The event loop of crates/eltdx-runtime/src/engine.rs: one RuntimeCore   *)
(* owns the Supervisor and handles, one at a time, cancellations and close *)
(* requests from the control cell, events from the Slot workers, commands  *)
(* from the callers and its own tick.  A SlotWorker owns one connection;   *)
(* it reports each step of a request and waits for the core's answer, and  *)
(* it sees the core's directives (Cancel, Stop) only between those steps.  *)
(* Every hard question is about an event that was sent before, and is      *)
(* handled after, a cancellation, a close or a failure.                    *)
(*                                                                         *)
(* Modelled here: ordinary requests, their retries and cancellations, one  *)
(* engine epoch from start to closed.  Pins, heartbeats, explicit connect  *)
(* and pushes are not in this module.                                      *)
(*                                                                         *)
(* The Admission module's variables are part of the state, and its actions *)
(* are conjoined to the handlers that call them.  A request's tracker      *)
(* record and its PendingRequest live and die in the same handlers and are *)
(* one record here; PendingRequest::wire, which lags behind the tracker's  *)
(* wire after a retry, is the field `shown`.  Events keep their order per  *)
(* worker.  An attempt's slice of the deadline is the request's deadline;  *)
(* the earlier timeout of the slice is one of the failures of an I/O step. *)
(***************************************************************************)
EXTENDS Naturals, Sequences, FiniteSets

CONSTANTS
    Requests, PoolSize, MaxPendingRequests,   \* as in Admission
    RetrySafe,     \* requests whose command may be sent twice
    Cancellable,   \* requests whose caller may be interrupted
    MaxAttempts,   \* RetryPolicy::ordinary: 2
    Endpoints,     \* endpoints one attempt may try, one after the other
    MayFail,       \* can connects, writes and reads fail?
    MayElapse,     \* can deadlines pass?
    MayClose,      \* can the host close the engine?
    NoRequest

ASSUME PoolAssumption ==
    PoolSize \in Nat \ {0} /\ MaxPendingRequests \in Nat \ {0} /\ IsFiniteSet(Requests)
ASSUME RetrySafeAssumption == RetrySafe \subseteq Requests
ASSUME CancellableAssumption == Cancellable \subseteq Requests
ASSUME AttemptsAssumption == MaxAttempts \in Nat \ {0} /\ Endpoints \in Nat \ {0}
ASSUME FlagsAssumption == MayFail \in BOOLEAN /\ MayElapse \in BOOLEAN /\ MayClose \in BOOLEAN
ASSUME NoRequestAssumption == NoRequest \notin Requests
ASSUME DirectiveAssumption == Requests \cap {"run", "stop"} = {}

VARIABLES
    epoch, sealed, idle, waiting, pinWaiting, ownership, activeBySlot,
    permitCounter, leaseCounter, handles, elapsed, outcome,   \* Admission
    engine,       \* EngineState of the Supervisor
    fatal,        \* what failed the engine first, "none" if nothing did
    req,          \* tracker record and pending entry of each request
    lifecycle,    \* the answer a lifecycle retirement holds back, or "none"
    retirements,  \* what to do when a request's generation has retired
    answer,       \* the result sent to the caller, "none" before
    inbox,        \* requests whose Execute command is in the channel
    confirm,      \* a caller's cancellation, from asked to confirmed
    preCancelled, \* pre_cancelled_submissions
    closeAsked,   \* the control cell's close_requested
    alive,        \* Slots with a worker the core has not seen stop
    work,         \* the work channel of each worker, capacity one
    directive,    \* the watch cell of each worker: "run", "stop", or a request
    reply,        \* the core's answer to the event a worker waits on
    events,       \* each worker's events not handled yet
    worker,       \* each worker's own state
    sentOn        \* history: generations a request's bytes went out on

A == INSTANCE Admission WITH MaxEpoch <- 1

admissionVars == <<epoch, sealed, idle, waiting, pinWaiting, ownership, activeBySlot,
                   permitCounter, leaseCounter, handles, elapsed, outcome>>
callerVars == <<inbox, closeAsked>>
workerVars == <<worker, sentOn>>
channelVars == <<alive, work, directive, reply, events>>
coreVars == <<engine, fatal, req, lifecycle, retirements, answer, confirm, preCancelled>>
vars == <<admissionVars, callerVars, workerVars, channelVars, coreVars>>

Slots == A!Slots
SlotOf(r) == ownership[r].slot

Closed == engine \in {"Stopped", "FailedClosed"}
Closing == engine \in {"Closing", "FailedClosing"} \/ Closed

NoWire == [gen |-> 0, msg |-> "none"]
Wire(g, m) == [gen |-> g, msg |-> m]
Absent == [state |-> "Absent", wire |-> NoWire, shown |-> NoWire, attempts |-> 0,
           sent |-> FALSE, intent |-> "none", failed |-> FALSE]

OnWire == {"Connecting", "Handshaking", "Sending", "WaitingResponse"}
Started(r) == req[r].state \in OnWire \cup {"Retrying"}
NoWork == [req |-> NoRequest, fresh |-> FALSE]

\* A worker's places where it performs I/O and may be interrupted, and the
\* events it waits on the core's answer for.
AtIO == {"connecting", "handshaking", "writing", "finishing", "reading"}
Waits == {"Connecting", "Handshaking", "Sending", "Bytes", "WaitingResponse",
          "Completed", "Failed"}

-----------------------------------------------------------------------------
Init ==
    /\ epoch = 1 /\ sealed = FALSE /\ idle = Slots
    /\ waiting = {} /\ pinWaiting = {}
    /\ ownership = [r \in Requests |-> A!NoOwner]
    /\ activeBySlot = [s \in Slots |-> 0]
    /\ permitCounter = 0 /\ leaseCounter = 0
    /\ handles = {} /\ elapsed = {}
    /\ outcome = [r \in Requests |-> "unseen"]
    /\ engine = "Running" /\ fatal = "none"
    /\ req = [r \in Requests |-> Absent]
    /\ lifecycle = [r \in Requests |-> "none"]
    /\ retirements = [r \in Requests |-> "none"]
    /\ answer = [r \in Requests |-> "none"]
    /\ inbox = {} /\ preCancelled = {} /\ closeAsked = FALSE
    /\ confirm = [r \in Requests |-> "none"]
    /\ alive = [s \in Slots |-> FALSE]
    /\ work = [s \in Slots |-> NoWork]
    /\ directive = [s \in Slots |-> "run"]
    /\ reply = [s \in Slots |-> "none"]
    /\ events = [s \in Slots |-> <<>>]
    /\ worker = [s \in Slots |-> [pc |-> "idle", req |-> NoRequest, gen |-> 1,
                                  up |-> FALSE, left |-> 0]]
    /\ sentOn = [r \in Requests |-> {}]

-----------------------------------------------------------------------------
(* The callers. *)

\* begin_execute: the command is in the channel, the ingress slot is taken.
SendCommand(r) ==
    /\ answer[r] = "none" /\ outcome[r] = "unseen" /\ r \notin inbox
    /\ ~closeAsked /\ ~Closed
    /\ inbox' = inbox \cup {r}
    /\ UNCHANGED <<admissionVars, closeAsked, workerVars, channelVars, coreVars>>

\* cancel_and_confirm: the caller has not seen a result, and asks.
AskCancel(r) ==
    /\ r \in Cancellable
    /\ r \in inbox \/ req[r].state # "Absent"
    /\ answer[r] = "none" /\ confirm[r] = "none"
    /\ confirm' = [confirm EXCEPT ![r] = "asked"]
    /\ UNCHANGED <<admissionVars, callerVars, workerVars, channelVars, engine, fatal,
                   req, lifecycle, retirements, answer, preCancelled>>

\* PendingClose, or a confirmation the core did not give within its second.
AskClose ==
    /\ MayClose \/ \E r \in Requests : confirm[r] = "held"
    /\ ~closeAsked
    /\ closeAsked' = TRUE
    /\ UNCHANGED <<admissionVars, inbox, workerVars, channelVars, coreVars>>

Elapse(r) ==
    /\ MayElapse
    /\ A!Elapse(r)
    /\ UNCHANGED <<callerVars, workerVars, channelVars, coreVars>>

-----------------------------------------------------------------------------
(* What the handlers have in common. *)

\* process_notifications: the requests of N (a function from requests to
\* answers) are answered, forgotten, and their cancellations confirmed.
Notify(N, conf) ==
    /\ answer' = [r \in Requests |-> IF r \in DOMAIN N THEN N[r] ELSE answer[r]]
    /\ confirm' = [r \in Requests |->
          IF r \in DOMAIN N /\ conf[r] = "held" THEN "confirmed" ELSE conf[r]]

\* begin_attempt and dispatch_attempt: the Slot's worker gets the request.
Dispatch(r, s, fresh) ==
    /\ work' = [work EXCEPT ![s] = [req |-> r, fresh |-> fresh]]
    /\ alive' = [alive EXCEPT ![s] = TRUE]

\* terminal_active: r, on the wire w, is answered; its Slot goes to the next
\* live waiter, which is dispatched at once, or becomes idle.
MayFinish(r, w) ==
    /\ Started(r) \/ req[r].state = "Assigned"
    /\ req[r].intent = "none"
    /\ req[r].wire = w

Promoted == {q \in Requests : outcome[q] = "queued" /\ outcome'[q] = "leased"}
TimedOut == {q \in Requests : outcome[q] = "queued" /\ outcome'[q] = "timed_out"}

\* Mutant of Finish: the plan is read and not removed.
FinishKeepingPlan(r, why, conf) ==
    /\ A!ReleaseActive(ownership[r])
    /\ Notify([q \in {r} \cup TimedOut |-> IF q = r THEN why ELSE "timed_out"], conf)
    /\ req' = [q \in Requests |->
          IF q \in {r} \cup TimedOut THEN Absent
          ELSE IF q \in Promoted THEN [req[q] EXCEPT !.state = "Assigned", !.attempts = 1]
          ELSE req[q]]
    /\ IF Promoted = {} THEN UNCHANGED <<work, alive>>
       ELSE \E q \in Promoted : Dispatch(q, SlotOf(r), TRUE)
    /\ lifecycle' = [lifecycle EXCEPT ![r] = "none"]
    /\ UNCHANGED retirements


Finish(r, why, conf) ==
    /\ A!ReleaseActive(ownership[r])
    /\ Notify([q \in {r} \cup TimedOut |-> IF q = r THEN why ELSE "timed_out"], conf)
    /\ req' = [q \in Requests |->
          IF q \in {r} \cup TimedOut THEN Absent
          ELSE IF q \in Promoted THEN [req[q] EXCEPT !.state = "Assigned", !.attempts = 1]
          ELSE req[q]]
    /\ IF Promoted = {} THEN UNCHANGED <<work, alive>>
       ELSE \E q \in Promoted : Dispatch(q, SlotOf(r), TRUE)
    /\ retirements' = [retirements EXCEPT ![r] = "none"]
    /\ lifecycle' = [lifecycle EXCEPT ![r] = "none"]

\* seal_and_close_pins, begin_lifecycle_cleanup and synchronize_lifecycle_cleanup:
\* admission is sealed; waiters and requests without a wire are answered now;
\* a request on a wire is answered when its generation has retired, with the
\* failure it already had, if it had one; every worker is told to stop.  The
\* requests of `joined` have a worker that is gone, which counts as retired.
Shutdown(why, joined, conf) ==
    LET unstarted == {r \in Requests : req[r].state = "Assigned"}
        started == {r \in Requests : Started(r)}
        gone == A!Waiters \cup unstarted \cup (started \cap joined)
        held(r) == IF req[r].intent = "terminal" /\ req[r].failed THEN "failed" ELSE why
    IN
    /\ sealed' = TRUE /\ idle' = {} /\ waiting' = {} /\ pinWaiting' = {}
    /\ ownership' = [r \in Requests |-> IF r \in gone THEN A!NoOwner ELSE ownership[r]]
    /\ activeBySlot' = [s \in Slots |->
          IF \E r \in gone : ownership[r].kind = "lease" /\ SlotOf(r) = s
          THEN 0 ELSE activeBySlot[s]]
    /\ outcome' = [r \in Requests |->
          IF r \in A!Waiters THEN "rejected" ELSE IF r \in gone THEN "released" ELSE outcome[r]]
    /\ UNCHANGED <<epoch, permitCounter, leaseCounter, handles, elapsed>>
    /\ Notify([r \in gone |-> IF r \in joined THEN held(r) ELSE why], conf)
    /\ req' = [r \in Requests |->
          IF r \in gone THEN Absent
          ELSE IF r \in started THEN [req[r] EXCEPT !.intent = "terminal"] ELSE req[r]]
    /\ lifecycle' = [r \in Requests |-> IF r \in started \ joined THEN held(r) ELSE "none"]
    /\ retirements' = [r \in Requests |->
          IF r \in started \ joined THEN "lifecycle"
          ELSE IF r \in joined THEN "none" ELSE retirements[r]]
    /\ directive' = [s \in Slots |-> IF alive[s] THEN "stop" ELSE directive[s]]

\* begin_runtime_fatal: the first error is kept; a running engine is shut down,
\* a closing one answers "failed" where it would have answered "cancelled".
Fail(why, joined, conf) ==
    /\ fatal' = IF fatal = "none" THEN why ELSE fatal
    /\ engine' = "FailedClosing"
    /\ IF ~Closing THEN Shutdown("failed", joined, conf)
       ELSE /\ lifecycle' = [r \in Requests |->
                  IF lifecycle[r] = "cancelled" THEN "failed" ELSE lifecycle[r]]
            /\ directive' = [s \in Slots |-> IF alive[s] THEN "stop" ELSE directive[s]]
            /\ retirements' = [r \in Requests |->
                  IF lifecycle[r] # "none" THEN "lifecycle" ELSE retirements[r]]
            /\ confirm' = conf
            /\ UNCHANGED <<admissionVars, req, answer>>

-----------------------------------------------------------------------------
(* The core: commands. *)

\* handle_command, Execute: refused, queued, or dispatched.  A cancellation
\* that came first, or a close, wins.
HandleCommand(r) ==
    /\ r \in inbox /\ ~Closed
    /\ inbox' = inbox \ {r}
    /\ \/ /\ r \in preCancelled
          /\ Notify([q \in {r} |-> "cancelled"], confirm)
          /\ preCancelled' = preCancelled \ {r}
          /\ UNCHANGED <<admissionVars, req, work, alive>>
       \/ /\ r \notin preCancelled /\ Closing
          /\ Notify([q \in {r} |-> "refused"], confirm)
          /\ UNCHANGED <<admissionVars, preCancelled, req, work, alive>>
       \/ /\ r \notin preCancelled /\ ~Closing
          /\ A!Refuse(r)
          /\ ~A!Live(r) \/ waiting # {} \/ idle = {}
          /\ Notify([q \in {r} |-> "refused"], confirm)
          /\ UNCHANGED <<preCancelled, req, work, alive>>
       \/ /\ r \notin preCancelled /\ ~Closing
          /\ A!SubmitWaiting(r)
          /\ req' = [req EXCEPT ![r].state = "Queued"]
          /\ UNCHANGED <<preCancelled, answer, confirm, work, alive>>
       \/ /\ r \notin preCancelled /\ ~Closing
          /\ A!SubmitDirect(r)
          /\ req' = [req EXCEPT ![r].state = "Assigned", ![r].attempts = 1]
          /\ Dispatch(r, ownership'[r].slot, TRUE)
          /\ UNCHANGED <<preCancelled, answer, confirm>>
    /\ UNCHANGED <<closeAsked, workerVars, directive, reply, events, engine, fatal,
                   lifecycle, retirements>>

\* Mutant of HandleTick: the expired waiters are dropped without an answer.
HandleTickSilently ==
    /\ ~Closed
    /\ A!ExpireWaiting
    /\ req' = [q \in Requests |-> IF q \in TimedOut THEN Absent ELSE req[q]]
    /\ UNCHANGED <<callerVars, workerVars, channelVars, engine, fatal, lifecycle,
                   retirements, preCancelled, answer, confirm>>

\* handle_tick: the waiters whose deadline has passed are answered.
HandleTick ==
    /\ ~Closed
    /\ A!ExpireWaiting
    /\ Notify([q \in TimedOut |-> "timed_out"], confirm)
    /\ req' = [q \in Requests |-> IF q \in TimedOut THEN Absent ELSE req[q]]
    /\ UNCHANGED <<callerVars, workerVars, channelVars, engine, fatal, lifecycle,
                   retirements, preCancelled>>

-----------------------------------------------------------------------------
(* The core: cancellation and close. *)

\* RequestTracker::begin_retry may set a retirement in motion.
MayRetire(r, w) ==
    ~Closing /\ req[r].wire = w /\ req[r].intent = "none" /\ req[r].state \in OnWire

\* cancel_request, nothing pending under this id: remembered for a command
\* that has yet to come.
CancelUnknown(r) ==
    /\ req[r].state = "Absent"
    /\ preCancelled' = preCancelled \cup {r}
    /\ confirm' = [confirm EXCEPT ![r] = "held"]
    /\ UNCHANGED <<admissionVars, engine, fatal, req, lifecycle, retirements, answer, directive>>

\* Mutant of CancelQueued: the permit goes back, the tracker record stays.
CancelQueuedHalfway(r) ==
    /\ req[r].state = "Queued"
    /\ A!CancelWaiting(ownership[r])
    /\ Notify([q \in {r} |-> "cancelled"], [confirm EXCEPT ![r] = "held"])
    /\ UNCHANGED <<req, engine, fatal, lifecycle, retirements, preCancelled, directive>>


CancelQueued(r) ==
    /\ req[r].state = "Queued"
    /\ A!CancelWaiting(ownership[r])
    /\ Notify([q \in {r} |-> "cancelled"], [confirm EXCEPT ![r] = "held"])
    /\ req' = [req EXCEPT ![r] = Absent]
    /\ UNCHANGED <<engine, fatal, lifecycle, retirements, preCancelled, directive>>

\* Mutant of CancelDispatched: the Slot is released without waiting for its
\* worker.
CancelDispatchedAtOnce(r) ==
    /\ req[r].state = "Assigned" /\ req[r].shown = NoWire
    /\ Finish(r, "cancelled", [confirm EXCEPT ![r] = "held"])
    /\ UNCHANGED <<engine, fatal, preCancelled, directive>>

\* Dispatched, no wire reported yet: only the worker is told.
CancelDispatched(r) ==
    /\ req[r].state = "Assigned" /\ req[r].shown = NoWire
    /\ worker[SlotOf(r)].pc # "stopped"
    /\ directive' = [directive EXCEPT ![SlotOf(r)] = r]
    /\ confirm' = [confirm EXCEPT ![r] = "held"]
    /\ UNCHANGED <<admissionVars, engine, fatal, req, lifecycle, retirements, answer,
                   preCancelled>>

\* Mutant of CancelOnWire: answered before the generation has retired.
CancelOnWireAtOnce(r) ==
    /\ req[r].shown # NoWire
    /\ MayRetire(r, req[r].shown)
    /\ Finish(r, "cancelled", [confirm EXCEPT ![r] = "held"])
    /\ directive' = [directive EXCEPT ![SlotOf(r)] = r]
    /\ UNCHANGED <<engine, fatal, preCancelled>>

\* On the wire: the generation is to be retired, then the request is cancelled.
CancelOnWire(r) ==
    /\ req[r].shown # NoWire
    /\ MayRetire(r, req[r].shown)
    /\ req' = [req EXCEPT ![r].intent = "terminal", ![r].failed = TRUE]
    /\ retirements' = [retirements EXCEPT ![r] = "cancel"]
    /\ directive' = [directive EXCEPT ![SlotOf(r)] = r]
    /\ confirm' = [confirm EXCEPT ![r] = "held"]
    /\ UNCHANGED <<admissionVars, engine, fatal, lifecycle, answer, preCancelled>>

\* On the wire, but begin_retry finds it retrying, retiring, or on a later
\* generation ("started cancellation was stale"), or the worker is gone.
CancelStale(r) ==
    /\ req[r].state \notin {"Absent", "Queued"}
    /\ IF req[r].shown = NoWire THEN worker[SlotOf(r)].pc = "stopped"
       ELSE ~MayRetire(r, req[r].shown)
    /\ Fail("cancellation was stale", {}, [confirm EXCEPT ![r] = "held"])
    /\ UNCHANGED preCancelled

HandleCancel(r) ==
    /\ confirm[r] = "asked" /\ ~Closed
    /\ \/ CancelUnknown(r) \/ CancelQueued(r) \/ CancelDispatched(r)
       \/ CancelOnWire(r) \/ CancelStale(r)
    /\ UNCHANGED <<callerVars, workerVars, alive, work, reply, events>>

\* begin_close
HandleClose ==
    /\ closeAsked /\ ~Closing
    /\ engine' = "Closing"
    /\ Shutdown("cancelled", {}, confirm)
    /\ UNCHANGED <<callerVars, workerVars, alive, work, reply, events, fatal, preCancelled>>

\* handle_control, close_timed_out: the one-second gate of close was missed.
HandleCloseTimeout ==
    /\ closeAsked /\ engine = "Closing"
    /\ engine' = "FailedClosing"
    /\ UNCHANGED <<admissionVars, callerVars, workerVars, channelVars, fatal, req,
                   lifecycle, retirements, answer, confirm, preCancelled>>

\* close_ready, finish_close: the runtime ends.
FinishClose ==
    /\ Closing /\ ~Closed
    /\ \A s \in Slots : ~alive[s]
    /\ \A r \in Requests : /\ req[r].state = "Absent" /\ retirements[r] = "none"
                           /\ confirm[r] # "held"
    /\ inbox = {} /\ preCancelled = {}
    /\ A!CloseComplete
    /\ engine' = IF engine = "Closing" THEN "Stopped" ELSE "FailedClosed"
    /\ UNCHANGED <<callerVars, workerVars, channelVars, fatal, req, lifecycle,
                   retirements, answer, confirm, preCancelled>>

-----------------------------------------------------------------------------
(* The core: events of the Slot workers. *)

Ev(s) == Head(events[s])
Took(s, type) == ~Closed /\ events[s] # <<>> /\ Ev(s).type = type /\ events' = [events EXCEPT ![s] = Tail(@)]
Answered(s, what) == reply' = [reply EXCEPT ![s] = what]
SameCore == UNCHANGED <<admissionVars, engine, fatal, req, lifecycle, retirements, answer,
                        confirm, directive>>
FromEvent == UNCHANGED <<callerVars, workerVars, preCancelled>>

\* Mutant of Follows: a retry's new connection is not expected.
FollowsNoRetry == [Connecting |-> {"Assigned"}, Handshaking |-> {"Connecting"},
                   Sending |-> {"Assigned", "Handshaking"}, WaitingResponse |-> {"Sending"}]

\* transition_request and RequestTracker::transition
Follows == [Connecting |-> {"Assigned", "Retrying"}, Handshaking |-> {"Connecting"},
            Sending |-> {"Assigned", "Handshaking"}, WaitingResponse |-> {"Sending"}]
MayAdvance(r, to, w) ==
    /\ ~Closing
    /\ req[r].state \in Follows[to]
    /\ req[r].intent = "none"
    /\ req[r].wire # NoWire => req[r].wire.gen = w.gen
    /\ to = "WaitingResponse" => req[r].wire.msg = w.msg

HandleTransition(s) ==
    /\ Took(s, "Transition")
    /\ LET r == Ev(s).req  w == Ev(s).wire IN
       \/ /\ MayAdvance(r, Ev(s).to, w)
          /\ req' = [req EXCEPT ![r].state = Ev(s).to, ![r].wire = w, ![r].shown = w]
          /\ Answered(s, "ok")
          /\ UNCHANGED <<admissionVars, engine, fatal, lifecycle, retirements, answer,
                         confirm, directive>>
       \/ /\ ~MayAdvance(r, Ev(s).to, w)
          /\ Answered(s, "err")
          /\ IF Closing THEN SameCore
             ELSE Fail("transition was rejected", {}, confirm)
    /\ FromEvent /\ UNCHANGED <<alive, work>>

\* mark_business_bytes_sent
HandleBytes(s) ==
    /\ Took(s, "Bytes")
    /\ LET r == Ev(s).req IN
       \/ /\ req[r].wire = Ev(s).wire /\ req[r].intent = "none"
          /\ req[r].state \in {"Sending", "WaitingResponse"}
          /\ req' = [req EXCEPT ![r].sent = TRUE]
          /\ Answered(s, "ok")
          /\ UNCHANGED <<admissionVars, engine, fatal, lifecycle, retirements, answer,
                         confirm, directive>>
       \/ /\ ~(/\ req[r].wire = Ev(s).wire /\ req[r].intent = "none"
               /\ req[r].state \in {"Sending", "WaitingResponse"})
          /\ Answered(s, "err")
          /\ IF Closing THEN SameCore
             ELSE Fail("send boundary was rejected", {}, confirm)
    /\ FromEvent /\ UNCHANGED <<alive, work>>

HandleCompleted(s) ==
    /\ Took(s, "Completed")
    /\ LET r == Ev(s).req IN
       \/ /\ MayFinish(r, Ev(s).wire)
          /\ Finish(r, "completed", confirm)
          /\ Answered(s, "ok")
          /\ UNCHANGED <<engine, fatal, directive>>
       \/ /\ ~MayFinish(r, Ev(s).wire)
          /\ Answered(s, "err")
          /\ IF Closing THEN SameCore
             ELSE Fail("completion was stale", {}, confirm)
          /\ UNCHANGED <<alive, work>>
    /\ FromEvent

\* UnstartedCancelled
HandleUnstarted(s) ==
    /\ Took(s, "Unstarted")
    /\ LET r == Ev(s).req IN
       \/ /\ req[r].state = "Absent"
          /\ SameCore /\ UNCHANGED <<alive, work>>
       \/ /\ req[r].state # "Absent" /\ req[r].shown = NoWire /\ MayFinish(r, NoWire)
          /\ Finish(r, "cancelled", confirm)
          /\ UNCHANGED <<engine, fatal, directive>>
       \/ /\ req[r].state # "Absent" /\ ~(req[r].shown = NoWire /\ MayFinish(r, NoWire))
          /\ Fail("unstarted cancellation was stale", {}, confirm)
          /\ UNCHANGED <<alive, work>>
    /\ FromEvent /\ UNCHANGED reply

\* Mutants of MustStop: one attempt too many; bytes sent do not count.
MustStopLate(r) ==
    req[r].attempts > MaxAttempts \/ r \in elapsed \/ (req[r].sent /\ r \notin RetrySafe)
MustStopUnlessSafe(r) == req[r].attempts >= MaxAttempts \/ r \in elapsed

\* RequestTracker::begin_retry's reasons not to try again
MustStop(r) ==
    \/ req[r].attempts >= MaxAttempts
    \/ r \in elapsed
    \/ req[r].sent /\ r \notin RetrySafe

\* Failed: the same attempt goes on with the next endpoint, the request is
\* retried, or it ends; each only after the generation has retired.
HandleFailed(s) ==
    /\ Took(s, "Failed")
    /\ LET r == Ev(s).req IN
       \/ /\ Closing
          /\ retirements' = IF lifecycle[r] = "none" THEN retirements
                            ELSE [retirements EXCEPT ![r] = "lifecycle"]
          /\ Answered(s, "ok")
          /\ UNCHANGED <<admissionVars, engine, fatal, req, lifecycle, answer, confirm, directive>>
       \/ /\ ~Closing /\ Ev(s).same
          /\ retirements' = [retirements EXCEPT ![r] = "continue"]
          /\ Answered(s, "ok")
          /\ UNCHANGED <<admissionVars, engine, fatal, req, lifecycle, answer, confirm, directive>>
       \/ /\ ~Ev(s).same /\ MayRetire(r, Ev(s).wire)
          /\ IF MustStop(r)
             THEN /\ req' = [req EXCEPT ![r].intent = "terminal", ![r].failed = TRUE]
                  /\ retirements' = [retirements EXCEPT ![r] = "fail"]
             ELSE /\ req' = [req EXCEPT ![r].intent = "retry", ![r].failed = TRUE,
                                        ![r].state = "Retrying"]
                  /\ retirements' = [retirements EXCEPT ![r] = "retry"]
          /\ Answered(s, "ok")
          /\ UNCHANGED <<admissionVars, engine, fatal, lifecycle, answer, confirm, directive>>
       \/ /\ ~Closing /\ ~Ev(s).same /\ ~MayRetire(r, Ev(s).wire)
          /\ Answered(s, "err")
          /\ Fail("failure was stale", {}, confirm)
    /\ FromEvent /\ UNCHANGED <<alive, work>>

\* The acknowledgement names the generation the request is on.
Acknowledges(s, r) == req[r].wire.gen = Ev(s).gen /\ SlotOf(r) = s

\* continue_connect_after_reconnect
MayContinue(s, r) == req[r].state = "Connecting" /\ req[r].intent = "none" /\ Acknowledges(s, r)
\* finish_retry_retirement
MayRetryNow(s, r) == req[r].state = "Retrying" /\ req[r].intent = "retry" /\ Acknowledges(s, r)
\* finish_terminal_retirement
MayEnd(s, r) == req[r].intent = "terminal" /\ Acknowledges(s, r)

\* The plan a retirement of r follows, if it has one.
Plan(r) == IF retirements[r] = "none" /\ lifecycle[r] # "none" THEN "lifecycle" ELSE retirements[r]

GoOn(s, r, fresh) ==
    /\ req' = [req EXCEPT ![r].wire = Wire(Ev(s).gen + 1, "none"),
                          ![r].intent = "none",
                          ![r].attempts = IF fresh THEN @ + 1 ELSE @,
                          ![r].sent = IF fresh THEN FALSE ELSE @]
    /\ retirements' = [retirements EXCEPT ![r] = "none"]
    /\ Dispatch(r, s, fresh)
    /\ UNCHANGED <<admissionVars, engine, fatal, lifecycle, answer, confirm, directive>>

RetirementFails(why) == Fail(why, {}, confirm) /\ UNCHANGED <<alive, work>>

\* handle_retired
HandleRetired(s) ==
    /\ Took(s, "Retired")
    /\ LET r == Ev(s).req IN
       \/ /\ Plan(r) = "none" /\ req[r].state = "Absent"
          /\ SameCore /\ UNCHANGED <<alive, work>>
       \/ /\ Plan(r) = "none" /\ req[r].state # "Absent"
          /\ RetirementFails("retired generation has no owner")
       \/ /\ Plan(r) = "continue" /\ MayContinue(s, r) /\ r \notin elapsed /\ ~Closing
          /\ GoOn(s, r, FALSE)
       \/ /\ Plan(r) = "retry" /\ MayRetryNow(s, r) /\ r \notin elapsed /\ ~Closing
          /\ GoOn(s, r, TRUE)
       \/ /\ Plan(r) = "continue" /\ ~(MayContinue(s, r) /\ r \notin elapsed /\ ~Closing)
          /\ RetirementFails(IF MayContinue(s, r) THEN "deadline passed" ELSE "retirement was rejected")
       \/ /\ Plan(r) = "retry" /\ ~(MayRetryNow(s, r) /\ r \notin elapsed /\ ~Closing)
          /\ RetirementFails(IF MayRetryNow(s, r) THEN "deadline passed" ELSE "retirement was rejected")
       \/ /\ Plan(r) \in {"cancel", "fail", "lifecycle"} /\ MayEnd(s, r)
          /\ Finish(r, CASE Plan(r) = "cancel" -> "cancelled"
                         [] Plan(r) = "fail" -> "failed"
                         [] OTHER -> lifecycle[r], confirm)
          /\ UNCHANGED <<engine, fatal, directive>>
       \/ /\ Plan(r) \in {"cancel", "fail", "lifecycle"} /\ ~MayEnd(s, r)
          /\ RetirementFails("retirement was rejected")
    /\ FromEvent /\ UNCHANGED reply

\* Stopped: the worker is gone.  If it ended with an error the engine fails;
\* what it had on the wire has retired with it.
HandleStopped(s) ==
    /\ Took(s, "Stopped")
    /\ alive' = [alive EXCEPT ![s] = FALSE]
    /\ LET mine == {r \in Requests : Started(r) /\ SlotOf(r) = s}
           ok == Ev(s).ok
           held == [r \in Requests |-> IF ~ok /\ lifecycle[r] = "cancelled" THEN "failed"
                                       ELSE lifecycle[r]]
       IN
       \/ /\ ~Closing /\ ~ok
          /\ Fail("worker ended", mine, confirm)
       \/ /\ Closing /\ mine = {}
          /\ IF ok THEN SameCore ELSE Fail("worker ended", {}, confirm)
       \/ /\ Closing
          /\ \E r \in mine :
               /\ held[r] # "none"
               /\ A!ReleaseActive(ownership[r])
               /\ Notify([q \in {r} |-> held[r]], confirm)
               /\ req' = [req EXCEPT ![r] = Absent]
               /\ lifecycle' = [held EXCEPT ![r] = "none"]
               /\ retirements' = [retirements EXCEPT ![r] = "none"]
          /\ engine' = IF ok THEN engine ELSE "FailedClosing"
          /\ fatal' = IF ~ok /\ fatal = "none" THEN "worker ended" ELSE fatal
          /\ UNCHANGED directive
    /\ FromEvent /\ UNCHANGED <<work, reply>>

-----------------------------------------------------------------------------
(* The Slot workers. *)

Emit(s, e) == events' = [events EXCEPT ![s] = Append(@, e)]
Transition(s, to, msg) ==
    [type |-> "Transition", req |-> worker'[s].req, to |-> to, wire |-> Wire(worker'[s].gen, msg)]
Interrupted(s) == directive[s] = "stop" \/ directive[s] = worker[s].req
Msg(pc) == IF pc = "connecting" THEN "none" ELSE IF pc = "handshaking" THEN "handshake" ELSE "business"
FromWorker == UNCHANGED <<admissionVars, callerVars, coreVars, alive, directive>>

\* run_inner and stop_slot: told to stop while it has nothing in hand.
WorkerStops(s) ==
    /\ alive[s] /\ worker[s].pc = "idle" /\ directive[s] = "stop"
    /\ worker' = [worker EXCEPT ![s].pc = "stopped", ![s].up = FALSE,
                                ![s].gen = IF worker[s].up THEN @ + 1 ELSE @]
    /\ Emit(s, [type |-> "Stopped", ok |-> TRUE])
    /\ UNCHANGED <<work, reply, sentOn>> /\ FromWorker

\* execute_work, before anything is sent: cancelled or told to stop since the
\* work was received; on a ready connection; on a connection that has to be
\* opened first, for a new attempt or on the next endpoint of the same one; or
\* start_connect finds the deadline passed, an error that ends the worker.
WorkerTakes(s) ==
    /\ worker[s].pc = "idle" /\ work[s] # NoWork
    /\ work' = [work EXCEPT ![s] = NoWork]
    /\ LET r == work[s].req
           called == directive[s] \in {"stop", r}
       IN
       \/ /\ called
          /\ Emit(s, [type |-> "Unstarted", req |-> r])
          /\ UNCHANGED worker
       \/ /\ ~called /\ worker[s].up
          /\ worker' = [worker EXCEPT ![s].pc = "Sending", ![s].req = r]
          /\ Emit(s, Transition(s, "Sending", "business"))
       \/ /\ ~called /\ ~worker[s].up /\ work[s].fresh /\ r \notin elapsed
          /\ worker' = [worker EXCEPT ![s].pc = "Connecting", ![s].req = r,
                                      ![s].left = Endpoints - 1]
          /\ Emit(s, Transition(s, "Connecting", "none"))
       \/ /\ ~called /\ ~worker[s].up /\ ~work[s].fresh /\ r \notin elapsed
          /\ worker' = [worker EXCEPT ![s].pc = "connecting", ![s].req = r, ![s].left = @ - 1]
          /\ UNCHANGED events
       \/ /\ ~called /\ ~worker[s].up /\ r \in elapsed
          /\ worker' = [worker EXCEPT ![s].pc = "stopped"]
          /\ Emit(s, [type |-> "Stopped", ok |-> FALSE])
    /\ UNCHANGED <<reply, sentOn>> /\ FromWorker

\* retire_wire: the connection is dropped and its generation is over.
RetireWire(s) ==
    /\ worker' = [worker EXCEPT ![s].pc = "idle", ![s].req = NoRequest, ![s].up = FALSE,
                                ![s].gen = @ + 1]
    /\ Emit(s, [type |-> "Retired", req |-> worker[s].req, gen |-> worker[s].gen])

\* An I/O step completes; the next thing is reported.
WorkerIO(s) ==
    /\ worker[s].pc \in AtIO
    /\ CASE worker[s].pc = "connecting" ->
              /\ worker' = [worker EXCEPT ![s].pc = "Handshaking", ![s].up = TRUE]
              /\ Emit(s, Transition(s, "Handshaking", "handshake"))
         [] worker[s].pc = "handshaking" ->
              /\ worker' = [worker EXCEPT ![s].pc = "Sending"]
              /\ Emit(s, Transition(s, "Sending", "business"))
         [] worker[s].pc = "writing" ->
              /\ worker' = [worker EXCEPT ![s].pc = "Bytes"]
              /\ Emit(s, [type |-> "Bytes", req |-> worker[s].req,
                          wire |-> Wire(worker[s].gen, "business")])
         [] worker[s].pc = "finishing" ->
              /\ worker' = [worker EXCEPT ![s].pc = "WaitingResponse"]
              /\ Emit(s, Transition(s, "WaitingResponse", "business"))
         [] OTHER ->
              /\ worker' = [worker EXCEPT ![s].pc = "Completed"]
              /\ Emit(s, [type |-> "Completed", req |-> worker[s].req,
                          wire |-> Wire(worker[s].gen, "business")])
    /\ sentOn' = IF worker[s].pc # "writing" THEN sentOn
                 ELSE [sentOn EXCEPT ![worker[s].req] = @ \cup {<<s, worker[s].gen>>}]
    /\ UNCHANGED <<work, reply>> /\ FromWorker

\* An I/O step fails, or its deadline passes.
WorkerIOFails(s) ==
    /\ worker[s].pc \in AtIO
    /\ MayFail \/ worker[s].req \in elapsed
    /\ worker' = [worker EXCEPT ![s].pc = "Failed"]
    /\ Emit(s, [type |-> "Failed", req |-> worker[s].req,
                wire |-> Wire(worker[s].gen, Msg(worker[s].pc)),
                same |-> worker[s].pc = "connecting" /\ worker[s].left > 0])
    /\ UNCHANGED <<work, reply, sentOn>> /\ FromWorker

\* wait_for_interrupt: Stop, or Cancel of the request in hand.
WorkerInterrupted(s) ==
    /\ worker[s].pc \in AtIO /\ Interrupted(s)
    /\ RetireWire(s)
    /\ UNCHANGED <<work, reply, sentOn>> /\ FromWorker

\* The core has answered.  A rejected step ends in a retirement; a rejected
\* failure report ends the worker.
WorkerAnswered(s) ==
    /\ worker[s].pc \in Waits /\ reply[s] # "none"
    /\ reply' = [reply EXCEPT ![s] = "none"]
    /\ \/ /\ reply[s] = "ok" /\ worker[s].pc \notin {"Completed", "Failed"}
          /\ worker' = [worker EXCEPT ![s].pc =
                CASE @ = "Connecting" -> "connecting" [] @ = "Handshaking" -> "handshaking"
                  [] @ = "Sending" -> "writing"       [] @ = "Bytes" -> "finishing"
                  [] @ = "WaitingResponse" -> "reading"]
          /\ UNCHANGED events
       \/ /\ reply[s] = "ok" /\ worker[s].pc = "Completed"
          /\ worker' = [worker EXCEPT ![s].pc = "idle", ![s].req = NoRequest]
          /\ UNCHANGED events
       \/ /\ (reply[s] = "ok") = (worker[s].pc = "Failed")
          /\ RetireWire(s)
       \/ /\ reply[s] = "err" /\ worker[s].pc = "Failed"
          /\ worker' = [worker EXCEPT ![s].pc = "stopped"]
          /\ Emit(s, [type |-> "Stopped", ok |-> FALSE])
    /\ UNCHANGED <<work, sentOn>> /\ FromWorker

-----------------------------------------------------------------------------
CallerStep == \E r \in Requests : SendCommand(r) \/ AskCancel(r) \/ Elapse(r)

ControlStep == HandleClose \/ FinishClose \/ HandleTick
               \/ \E r \in Requests : HandleCommand(r) \/ HandleCancel(r)

EventStep(s) == \/ HandleTransition(s) \/ HandleBytes(s) \/ HandleCompleted(s) \/ HandleUnstarted(s)
                \/ HandleFailed(s) \/ HandleRetired(s) \/ HandleStopped(s)

WorkerStep(s) == \/ WorkerStops(s) \/ WorkerTakes(s) \/ WorkerIO(s) \/ WorkerIOFails(s)
                 \/ WorkerInterrupted(s) \/ WorkerAnswered(s)

Next == CallerStep \/ AskClose \/ HandleCloseTimeout \/ ControlStep
        \/ \E s \in Slots : EventStep(s) \/ WorkerStep(s)

\* The core polls every source again and again, a worker runs whenever it can,
\* and its I/O ends, at the latest by the deadline.
Fairness ==
    /\ WF_vars(HandleClose) /\ WF_vars(FinishClose) /\ WF_vars(HandleTick)
    /\ \A r \in Requests : WF_vars(HandleCommand(r)) /\ WF_vars(HandleCancel(r))
    /\ \A s \in Slots : WF_vars(EventStep(s)) /\ WF_vars(WorkerStep(s))

Spec == Init /\ [][Next]_vars /\ Fairness

-----------------------------------------------------------------------------
WireType == [gen : Nat, msg : {"none", "handshake", "business"}]
States == {"Absent", "Queued", "Assigned", "Retrying"} \cup OnWire
Results == {"refused", "completed", "cancelled", "timed_out", "failed"}

\* Every variable has its type.
TypeOK ==
    /\ A!TypeOK
    /\ engine \in {"Running", "Closing", "FailedClosing", "Stopped", "FailedClosed"}
    /\ req \in [Requests -> [state : States, wire : WireType, shown : WireType,
                             attempts : 0 .. MaxAttempts, sent : BOOLEAN,
                             intent : {"none", "retry", "terminal"}, failed : BOOLEAN]]
    /\ lifecycle \in [Requests -> Results \cup {"none"}]
    /\ retirements \in [Requests -> {"none", "continue", "retry", "fail", "cancel", "lifecycle"}]
    /\ answer \in [Requests -> Results \cup {"none"}]
    /\ confirm \in [Requests -> {"none", "asked", "held", "confirmed"}]
    /\ inbox \subseteq Requests /\ preCancelled \subseteq Requests
    /\ closeAsked \in BOOLEAN /\ alive \in [Slots -> BOOLEAN]
    /\ work \in [Slots -> [req : Requests \cup {NoRequest}, fresh : BOOLEAN]]
    /\ directive \in [Slots -> {"run", "stop"} \cup Requests]
    /\ reply \in [Slots -> {"none", "ok", "err"}]
    /\ worker \in [Slots -> [pc : {"idle", "stopped"} \cup AtIO \cup Waits,
                             req : Requests \cup {NoRequest}, gen : Nat \ {0},
                             up : BOOLEAN, left : Nat]]

\* The tracker and admission agree (check_admission_invariants): what holds a
\* permit is queued, what holds a lease is assigned or started, and the queue's
\* own invariants survive the handlers that drive it.
TrackerMatchesAdmission ==
    /\ \A r \in Requests :
          /\ ownership[r].kind = "permit" <=> req[r].state = "Queued"
          /\ ownership[r].kind = "lease" <=> req[r].state = "Assigned" \/ Started(r)
    /\ A!SlotsHaveOneOwner /\ A!WaitersHoldPermits /\ A!NobodyWaitsForAnIdleSlot

\* No request is written to the network more often than its policy allows: a
\* command that is not safe to repeat goes out on one connection at most,
\* whatever fails, is retried or is cancelled (begin_retry, business_bytes_sent).
SentAsOftenAsAllowed ==
    \A r \in Requests :
        Cardinality(sentOn[r]) <= IF r \in RetrySafe THEN MaxAttempts ELSE 1

\* A worker connects, writes or reads for a request only while that request
\* holds the lease on the worker's Slot: the Slot is never handed on under it.
\* A request whose cancellation the caller saw confirmed is over for good: it has
\* its result, no command of it is to come, and no worker has it at an I/O step.
IOOnlyUnderLease ==
    /\ \A s \in Slots : worker[s].pc \in AtIO =>
        LET owner == ownership[worker[s].req] IN owner.kind = "lease" /\ owner.slot = s
    /\ \A r \in Requests : confirm[r] = "confirmed" => answer[r] # "none" /\ r \notin inbox

\* A retirement plan belongs to a request that is still there: a plan left over
\* would keep close_ready false for ever.
NoOrphanPlan ==
    \A r \in Requests : retirements[r] # "none" \/ lifecycle[r] # "none" => Started(r)

\* Once the engine has closed nobody is left without an answer and no worker
\* runs: accepted requests, queued commands and waiters included.
ClosedLeavesNothing ==
    Closed => /\ \A r \in Requests : outcome[r] # "unseen" => answer[r] # "none"
              /\ \A s \in Slots : worker[s].pc = "stopped" \/ worker[s].req = NoRequest
              /\ inbox = {}

\* A broken connection, a timeout or a cancellation ends its own request and
\* nothing else (README.md 371, ACTOR_REFACTOR_PLAN.md 423): what the documents
\* promise.
EngineStaysHealthy == fatal = "none"

\* What holds of it: connects, writes and reads that fail, in any order and on
\* any endpoint, never fail the engine by themselves; a deadline has passed, a
\* caller was interrupted, or a close was asked for before.  (Close is not clean
\* either: a worker stopped at the moment it takes up the next endpoint or a
\* retry reports the request as unstarted, which the core refuses.)
BrokenConnectionsAreNotFatal ==
    fatal # "none" =>
        elapsed # {} \/ closeAsked \/ \E r \in Requests : confirm[r] # "none"

\* A result is sent once, and nothing goes out for a request after its result.
NothingAfterTheAnswer ==
    [][\A r \in Requests : answer[r] # "none" =>
          answer'[r] = answer[r] /\ sentOn'[r] = sentOn[r]]_vars

\* send_slot_work fails the engine when the channel, which holds one piece of
\* work, is full or its worker is gone: a dispatch never meets either.
DispatchFindsRoom ==
    [][\A s \in Slots : work'[s] # work[s] /\ work'[s] # NoWork =>
          work[s] = NoWork /\ worker[s].pc # "stopped"]_vars

\* Every accepted command is answered, by completion, failure or close.
EveryCallReturns ==
    \A r \in Requests : r \in inbox ~> answer[r] # "none"

\* Close comes to its end.
CloseEnds == closeAsked ~> Closed
=============================================================================
