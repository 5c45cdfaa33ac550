-------------------------------- MODULE Pins --------------------------------
(***************************************************************************)
(* A pin of crates/eltdx-runtime: PinRegistry (pin.rs) and the handlers of *)
(* engine.rs and supervisor.rs that open it, run calls through it and      *)
(* close it.  OpenPin asks for a lease of a Slot like any request; when    *)
(* the Slot's worker has connected, the lease becomes the pin's.  The      *)
(* pin's calls run on that Slot one at a time and wait in a line of its    *)
(* own, for permits they share with the requests that wait for a Slot.     *)
(*                                                                         *)
(* Modelled here: one Slot, one pin and one worker, and other requests     *)
(* that want the Slot too, and a heartbeat, which the worker asks for when *)
(* its connection was silent for long.  The core handles events before commands and    *)
(* cancellations before both (its select is biased); a command is one step *)
(* with its handling, because the channel only delays it.  The worker's    *)
(* first report of an attempt binds the call to its wire, and its later    *)
(* reports and the generations of RuntimeCore are left out.  A deadline    *)
(* passes while a request waits; on the wire it is one of the failures of  *)
(* I/O.  When the engine fails, all that is open is answered (Fail); how   *)
(* that comes about, and a cancellation that arrives after the answer, is  *)
(* in RuntimeCore.                                                         *)
(***************************************************************************)
EXTENDS Naturals, Sequences, FiniteSets, SequencesExt

CONSTANTS
    Calls,         \* calls through the pin
    Others,        \* ordinary requests
    Closers,       \* calls of the proxy's close()
    MaxWaiting,    \* max_pending_requests
    Cancellable,   \* requests whose caller may be interrupted
    MayFail        \* can connects, writes and reads fail?

ThePin == "pin"      \* the reservation, and the pin's lease
Nobody == "nobody"
Beat == "beat"       \* the one heartbeat of this instance
ForTheSlot == Others \cup {ThePin, Beat}
Everybody == Calls \cup ForTheSlot

PinAssumption ==
    /\ Calls \cap Others = {} /\ {ThePin, Beat, Nobody} \cap (Calls \cup Others) = {}
    /\ MaxWaiting \in Nat \ {0}
    /\ Cancellable \subseteq Everybody \ {Beat} /\ MayFail \in BOOLEAN

VARIABLES
    health,        \* is the engine "running", or "failed"?
    pin,           \* the record of the registry: "none", "open", "closing", "gone"
    lease,         \* who has the Slot
    globalLine,    \* who waits for the Slot
    localLine,     \* PinRecord::waiting
    activeCall,    \* PinRecord::active
    state,         \* each request's tracker record, or its answer
    plan,          \* retirements, and the tracker's retirement_intent
    tries,         \* attempts of a request
    late,          \* waiters whose deadline has passed
    closeWaiters,  \* pin_close_waiters
    replied,       \* what each close() was told
    work,          \* the worker's channel, capacity one
    directive,     \* the worker's watch cell: the request to cancel
    pinWorker,     \* the worker's own state: where it is, for whom, is it connected
    reports,       \* its events, not handled yet
    admitted       \* history: the pin's calls in the order they were accepted

lineVars == <<globalLine, localLine, late>>
closeVars == <<closeWaiters, replied>>
slotVars == <<work, directive, pinWorker, reports>>
pinVars == <<health, pin, lease, activeCall, state, plan, tries, admitted, lineVars, closeVars,
             slotVars>>

OnSlot == {"assigned", "wire", "retrying"}
Unanswered == OnSlot \cup {"queued"}

PinsInit ==
    /\ health = "running" /\ pin = "none" /\ lease = Nobody /\ activeCall = Nobody
    /\ globalLine = <<>> /\ localLine = <<>> /\ late = {} /\ admitted = <<>>
    /\ state = [r \in Everybody |-> "new"]
    /\ plan = [r \in Everybody |-> "none"]
    /\ tries = [r \in Everybody |-> 1]
    /\ closeWaiters = {} /\ replied = [k \in Closers |-> "none"]
    /\ work = Nobody /\ directive = Nobody /\ reports = <<>>
    /\ pinWorker = [pc |-> "idle", req |-> Nobody, linked |-> FALSE]

-----------------------------------------------------------------------------
(* What the handlers have in common. *)

\* begin_runtime_fatal and begin_close: whatever is open is answered with the
\* failure, waiting closers included, and the pins are gone.
Fail ==
    /\ health' = "failed"
    /\ state' = [r \in Everybody |-> IF state[r] \in Unanswered THEN "failed" ELSE state[r]]
    /\ replied' = [k \in Closers |-> IF k \in closeWaiters THEN "failed" ELSE replied[k]]
    /\ pin' = IF pin \in {"open", "closing"} THEN "gone" ELSE pin
    /\ lease' = Nobody /\ activeCall' = Nobody /\ globalLine' = <<>> /\ localLine' = <<>>
    /\ late' = {} /\ closeWaiters' = {}
    /\ plan' = [r \in Everybody |-> "none"]
    /\ work' = Nobody /\ directive' = Nobody /\ reports' = <<>>
    /\ pinWorker' = [pc |-> "idle", req |-> Nobody, linked |-> FALSE]
    /\ UNCHANGED <<tries, admitted>>

\* The expired waiters at the head of a line, and the first live one.
Expired(line) ==
    CHOOSE n \in 0 .. Len(line) :
        /\ \A i \in 1 .. n : line[i] \in late
        /\ n < Len(line) => line[n + 1] \notin late
NextIn(line) == IF Expired(line) < Len(line) THEN line[Expired(line) + 1] ELSE Nobody
TimedOutIn(line) == {line[i] : i \in 1 .. Expired(line)}
RestOf(line) == SubSeq(line, Expired(line) + 2, Len(line))

\* send_slot_work: the worker's channel holds one request, and is full if the
\* worker has not taken the last one.
HasRoomFor(r) == r # Nobody => work = Nobody
Send(r) == work' = IF r = Nobody THEN work ELSE r

\* What becomes of the requests when those of `ends` are answered and the
\* first live one of the line is served.
After(ends, line) ==
    [r \in Everybody |->
        IF r \in DOMAIN ends THEN ends[r]
        ELSE IF r \in TimedOutIn(line) THEN "timed_out"
        ELSE IF r = NextIn(line) THEN "assigned"
        ELSE state[r]]

\* release_active, apply_release_outcome and apply_promotion: the Slot goes to
\* the first live waiter, whose work is sent to the worker.
GiveSlotOn(ends) ==
    /\ lease' = NextIn(globalLine)
    /\ globalLine' = RestOf(globalLine)
    /\ late' = late \ TimedOutIn(globalLine)
    /\ state' = After(ends, globalLine)
    /\ Send(NextIn(globalLine))

Forget(r) == plan' = [plan EXCEPT ![r] = "none"]

\* terminal_active: an ordinary request or a reservation is over.
End(r, why) ==
    \/ /\ HasRoomFor(NextIn(globalLine))
       /\ GiveSlotOn([q \in {r} |-> why])
       /\ Forget(r)
       /\ UNCHANGED <<health, pin, activeCall, localLine, tries, admitted, closeVars>>
    \/ /\ ~HasRoomFor(NextIn(globalLine))
       /\ Fail

\* Mutant of NextCall: the last of the line comes first.
NextCallBackwards(c, why) ==
    LET line == Reverse(localLine) IN
    /\ pin = "open"
    /\ activeCall' = NextIn(line)
    /\ localLine' = Reverse(RestOf(line))
    /\ late' = late \ TimedOutIn(line)
    /\ state' = After([q \in {c} |-> why], line)
    /\ Send(NextIn(line))
    /\ Forget(c)
    /\ UNCHANGED <<health, pin, lease, globalLine, tries, admitted, closeVars>>

\* terminal_pin on an open pin: plan_terminal takes the expired heads and the
\* first live waiter of the pin's own line, which becomes the active call
\* (commit_terminal, apply_pin_promotion).
NextCall(c, why) ==
    /\ pin = "open"
    /\ activeCall' = NextIn(localLine)
    /\ localLine' = RestOf(localLine)
    /\ late' = late \ TimedOutIn(localLine)
    /\ state' = After([q \in {c} |-> why], localLine)
    /\ Send(NextIn(localLine))
    /\ Forget(c)
    /\ UNCHANGED <<health, pin, lease, globalLine, tries, admitted, closeVars>>

\* terminal_pin on a closing pin: the lease is released with its last call,
\* and process_pin_terminal_batch tells the closers.
LastCall(c, why) ==
    /\ pin = "closing"
    /\ HasRoomFor(NextIn(globalLine))
    /\ GiveSlotOn([q \in {c} |-> why])
    /\ pin' = "gone" /\ activeCall' = Nobody
    /\ replied' = [k \in Closers |-> IF k \in closeWaiters THEN "ok" ELSE replied[k]]
    /\ closeWaiters' = {}
    /\ Forget(c)
    /\ UNCHANGED <<health, localLine, tries, admitted>>

EndCall(c, why) ==
    \/ NextCall(c, why) \/ LastCall(c, why)
    \/ /\ pin = "closing" /\ ~HasRoomFor(NextIn(globalLine))
       /\ Fail

Over(r, why) == IF r \in Calls THEN EndCall(r, why) ELSE End(r, why)
WorkerKeeps == UNCHANGED <<directive, pinWorker, reports>>

-----------------------------------------------------------------------------
(* The core: commands. *)

Waiting == Len(globalLine) + Len(localLine)

\* Mutant of MayWait: the pin's own waiters do not count.
MayWaitApart == Len(globalLine) < MaxWaiting /\ Len(localLine) < MaxWaiting

\* submit and reserve_pin_waiting: one count for both lines.
MayWait == Waiting < MaxWaiting

TakesCommands == health = "running" /\ reports = <<>>

\* handle_command: OpenPin and Execute.  The Slot is free, or there is room to
\* wait, or there is none.  A reservation the worker cannot be told of fails
\* and gives the Slot back; a request fails the engine.
Submit(r) ==
    /\ TakesCommands /\ state[r] = "new"
    /\ \/ /\ lease = Nobody /\ globalLine = <<>> /\ work = Nobody
          /\ lease' = r /\ work' = r
          /\ state' = [state EXCEPT ![r] = "assigned"]
          /\ UNCHANGED globalLine
       \/ /\ lease = Nobody /\ globalLine = <<>> /\ work # Nobody /\ r = ThePin
          /\ state' = [state EXCEPT ![r] = "failed"]
          /\ UNCHANGED <<globalLine, lease, work>>
       \/ /\ lease # Nobody /\ MayWait
          /\ globalLine' = Append(globalLine, r)
          /\ state' = [state EXCEPT ![r] = "queued"]
          /\ UNCHANGED <<lease, work>>
       \/ /\ lease # Nobody /\ ~MayWait
          /\ state' = [state EXCEPT ![r] = "refused"]
          /\ UNCHANGED <<globalLine, lease, work>>
    /\ UNCHANGED <<health, pin, activeCall, plan, tries, admitted, localLine, late, closeVars>>
    /\ WorkerKeeps

\* Execute finds the Slot free and the worker's channel full.
SubmitUndeliverable(r) ==
    /\ TakesCommands /\ state[r] = "new" /\ r # ThePin
    /\ lease = Nobody /\ globalLine = <<>> /\ work # Nobody
    /\ Fail

Opened == state[ThePin] = "opened"

\* Mutant of SubmitPinned: a free pin serves a call whoever waits in its line.
SubmitPinnedPastTheLine(c) ==
    /\ TakesCommands /\ Opened /\ state[c] = "new"
    /\ \/ /\ pin = "open" /\ MayWait
          /\ localLine' = <<c>> \o localLine
          /\ state' = [state EXCEPT ![c] = "queued"]
          /\ admitted' = Append(admitted, c)
          /\ UNCHANGED <<activeCall, work>>
       \/ /\ pin = "open" /\ activeCall = Nobody /\ localLine = <<>> /\ work = Nobody
          /\ activeCall' = c /\ work' = c
          /\ state' = [state EXCEPT ![c] = "assigned"]
          /\ admitted' = Append(admitted, c)
          /\ UNCHANGED localLine
    /\ UNCHANGED <<health, pin, lease, plan, tries, globalLine, late, closeVars>>
    /\ WorkerKeeps

\* handle_command, ExecutePinned, and submit_pin: the call runs at once, or
\* waits in the pin's line, or there is no permit, or the pin is closed.
SubmitPinned(c) ==
    /\ TakesCommands /\ Opened /\ state[c] = "new"
    /\ \/ /\ pin = "open" /\ activeCall = Nobody /\ localLine = <<>> /\ work = Nobody
          /\ activeCall' = c /\ work' = c
          /\ state' = [state EXCEPT ![c] = "assigned"]
          /\ admitted' = Append(admitted, c)
          /\ UNCHANGED localLine
       \/ /\ pin = "open" /\ ~(activeCall = Nobody /\ localLine = <<>>) /\ MayWait
          /\ localLine' = Append(localLine, c)
          /\ state' = [state EXCEPT ![c] = "queued"]
          /\ admitted' = Append(admitted, c)
          /\ UNCHANGED <<activeCall, work>>
       \/ /\ pin # "open" \/ (~(activeCall = Nobody /\ localLine = <<>>) /\ ~MayWait)
          /\ state' = [state EXCEPT ![c] = "refused"]
          /\ UNCHANGED <<activeCall, localLine, work, admitted>>
    /\ UNCHANGED <<health, pin, lease, plan, tries, globalLine, late, closeVars>>
    /\ WorkerKeeps

-----------------------------------------------------------------------------
(* The core: closing the pin. *)

InLocalLine == ToSet(localLine)

\* close_pin, a pin that is closing already: one more waits for its end, if
\* there is room for another.
JoinClose(k) ==
    /\ closeWaiters # {}
    /\ IF Cardinality(closeWaiters) >= MaxWaiting
       THEN /\ replied' = [replied EXCEPT ![k] = "busy"]
            /\ UNCHANGED closeWaiters
       ELSE closeWaiters' = closeWaiters \cup {k} /\ UNCHANGED replied
    /\ UNCHANGED <<health, pin, lease, activeCall, state, plan, tries, admitted, lineVars,
                   slotVars>>

\* The registry does not know the pin any more: it is closed.
CloseUnknown(k) ==
    /\ closeWaiters = {} /\ pin = "gone"
    /\ replied' = [replied EXCEPT ![k] = "ok"]
    /\ UNCHANGED <<health, pin, lease, activeCall, state, plan, tries, admitted, lineVars,
                   closeWaiters, slotVars>>

\* begin_close on a pin without a call on the wire: its waiters are rejected,
\* a call that no report has bound to a wire yet is withdrawn - the worker's
\* channel keeps it -, and the Slot is given on.
CloseIdle(k) ==
    LET withdrawn == IF activeCall = Nobody THEN {} ELSE {activeCall} IN
    /\ closeWaiters = {} /\ pin = "open"
    /\ activeCall # Nobody => state[activeCall] = "assigned"
    /\ \/ /\ HasRoomFor(NextIn(globalLine))
          /\ lease' = NextIn(globalLine)
          /\ globalLine' = RestOf(globalLine)
          /\ late' = (late \ TimedOutIn(globalLine)) \ InLocalLine
          /\ state' = After([q \in InLocalLine \cup withdrawn |-> "closed"], globalLine)
          /\ Send(NextIn(globalLine))
          /\ localLine' = <<>> /\ activeCall' = Nobody /\ pin' = "gone"
          /\ replied' = [replied EXCEPT ![k] = "ok"]
          /\ UNCHANGED <<health, plan, tries, admitted, closeWaiters>>
          /\ WorkerKeeps
       \/ /\ ~HasRoomFor(NextIn(globalLine))
          /\ Fail

\* Mutant of CloseBusy: the Slot is given on while the call is on its wire.
CloseBusyAtOnce(k) ==
    /\ closeWaiters = {} /\ pin = "open"
    /\ activeCall # Nobody /\ state[activeCall] # "assigned"
    /\ GiveSlotOn([q \in InLocalLine \cup {activeCall} |-> "closed"])
    /\ localLine' = <<>> /\ activeCall' = Nobody /\ pin' = "gone"
    /\ replied' = [replied EXCEPT ![k] = "ok"]
    /\ directive' = activeCall
    /\ UNCHANGED <<health, plan, tries, admitted, closeWaiters, pinWorker, reports>>

\* begin_close on a pin with a call on the wire: its waiters are rejected, the
\* closer waits, and the worker is told to cancel the call.  No retirement is
\* planned for it.
CloseBusy(k) ==
    /\ closeWaiters = {} /\ pin = "open"
    /\ activeCall # Nobody /\ state[activeCall] # "assigned"
    /\ pin' = "closing"
    /\ state' = [r \in Everybody |-> IF r \in InLocalLine THEN "closed" ELSE state[r]]
    /\ late' = late \ InLocalLine
    /\ localLine' = <<>>
    /\ closeWaiters' = {k}
    /\ directive' = activeCall
    /\ UNCHANGED <<health, lease, activeCall, plan, tries, admitted, globalLine, replied, work,
                   pinWorker, reports>>

ClosePin(k) ==
    /\ TakesCommands /\ Opened /\ replied[k] = "none" /\ k \notin closeWaiters
    /\ \/ JoinClose(k) \/ CloseUnknown(k) \/ CloseIdle(k) \/ CloseBusy(k)

-----------------------------------------------------------------------------
(* The core: cancellations, deadlines and its tick. *)

\* cancel_request: a waiter leaves its line, a reservation gives the Slot back,
\* a dispatched call is left to the worker, and one on the wire is to be
\* cancelled when it has retired.  begin_retry rejects a second plan.
CancelRequest(r) ==
    /\ health = "running" /\ r \in Cancellable
    /\ \/ /\ state[r] = "queued"
          /\ state' = [state EXCEPT ![r] = "cancelled"]
          /\ globalLine' = SelectSeq(globalLine, LAMBDA q : q # r)
          /\ localLine' = SelectSeq(localLine, LAMBDA q : q # r)
          /\ late' = late \ {r}
          /\ UNCHANGED <<health, pin, lease, activeCall, plan, tries, admitted, closeVars, slotVars>>
       \/ /\ r = ThePin /\ state[r] = "assigned"
          /\ End(r, "cancelled") /\ WorkerKeeps
       \/ /\ r # ThePin /\ state[r] = "assigned" /\ directive # r
          /\ directive' = r
          /\ UNCHANGED <<health, pin, lease, activeCall, state, plan, tries, admitted, lineVars,
                         closeVars, work, pinWorker, reports>>
       \/ /\ state[r] = "wire" /\ plan[r] = "none"
          /\ plan' = [plan EXCEPT ![r] = "cancel"]
          /\ directive' = r
          /\ UNCHANGED <<health, pin, lease, activeCall, state, tries, admitted, lineVars,
                         closeVars, work, pinWorker, reports>>
       \/ /\ state[r] = "retrying" \/ (state[r] = "wire" /\ plan[r] = "fail")
          /\ Fail

\* The deadline of a waiter passes.
Elapse(r) ==
    /\ health = "running" /\ state[r] = "queued" /\ r \notin late
    /\ late' = late \cup {r}
    /\ UNCHANGED <<health, pin, lease, activeCall, state, plan, tries, admitted, globalLine,
                   localLine, closeVars, slotVars>>

\* Mutant of ExpireWaiting: the pin's own waiters are forgotten in its line.
ExpireWaitingHalfway ==
    /\ TakesCommands /\ late # {}
    /\ globalLine' = SelectSeq(globalLine, LAMBDA r : r \notin late)
    /\ state' = [r \in Everybody |-> IF r \in late THEN "timed_out" ELSE state[r]]
    /\ late' = {}
    /\ UNCHANGED <<health, pin, lease, activeCall, localLine, plan, tries, admitted, closeVars,
                   slotVars>>

\* handle_tick and expire_waiting_terminals: both lines.
ExpireWaiting ==
    /\ TakesCommands /\ late # {}
    /\ globalLine' = SelectSeq(globalLine, LAMBDA r : r \notin late)
    /\ localLine' = SelectSeq(localLine, LAMBDA r : r \notin late)
    /\ state' = [r \in Everybody |-> IF r \in late THEN "timed_out" ELSE state[r]]
    /\ late' = {}
    /\ UNCHANGED <<health, pin, lease, activeCall, plan, tries, admitted, closeVars, slotVars>>

-----------------------------------------------------------------------------
(* The core: events of the worker. *)

Event == Head(reports)
Takes(type) == health = "running" /\ reports # <<>> /\ Event.type = type
Took == reports' = Tail(reports)
WorkerGoes(pc, r) == pinWorker' = [pinWorker EXCEPT !.pc = pc, !.req = r]
HasLine(pc, yes) == pinWorker' = [pc |-> pc, req |-> Nobody, linked |-> yes]

\* Transition: transition_request binds the call to its wire (bind_wire, or
\* advance_generation before it on a retry); a call that is not known any more
\* is an error, and so is every error of a handler: it fails the engine.
HandleTransition ==
    /\ Takes("Transition")
    /\ LET r == Event.req IN
       \/ /\ state[r] \in {"assigned", "retrying"} /\ plan[r] = "none"
          /\ state' = [state EXCEPT ![r] = "wire"]
          /\ WorkerGoes("io", r) /\ Took
          /\ UNCHANGED <<health, pin, lease, activeCall, plan, tries, admitted, lineVars,
                         closeVars, work, directive>>
       \/ /\ ~(state[r] \in {"assigned", "retrying"} /\ plan[r] = "none")
          /\ Fail

HandleCompleted ==
    /\ Takes("Completed")
    /\ LET r == Event.req IN
       \/ /\ state[r] = "wire" /\ plan[r] = "none"
          /\ Over(r, "completed")
          /\ health' = "running" => /\ HasLine("idle", TRUE) /\ Took
                                    /\ UNCHANGED directive
       \/ /\ ~(state[r] = "wire" /\ plan[r] = "none")
          /\ Fail

\* Failed: begin_retry plans the retirement, and what follows it.  Whether a
\* first attempt may be repeated depends on the command and on what was sent.
HandleFailed ==
    /\ Takes("Failed")
    /\ LET r == Event.req IN
       \/ /\ state[r] = "wire" /\ plan[r] = "none"
          /\ \/ /\ plan' = [plan EXCEPT ![r] = "fail"]
                /\ UNCHANGED state
             \/ /\ tries[r] = 1 /\ r # Beat
                /\ plan' = [plan EXCEPT ![r] = "retry"]
                /\ state' = [state EXCEPT ![r] = "retrying"]
          /\ WorkerGoes("retiring", r) /\ Took
          /\ UNCHANGED <<health, pin, lease, activeCall, tries, admitted, lineVars, closeVars,
                         work, directive>>
       \/ /\ ~(state[r] = "wire" /\ plan[r] = "none")
          /\ Fail

\* handle_retired: the plan is followed; a request without one has no owner.
HandleRetired ==
    /\ Takes("Retired")
    /\ LET r == Event.req IN
       \/ /\ plan[r] \in {"cancel", "fail"}
          /\ Over(r, IF plan[r] = "cancel" THEN "cancelled" ELSE "failed")
          /\ health' = "running" => Took /\ UNCHANGED <<directive, pinWorker>>
       \/ /\ plan[r] = "retry" /\ work = Nobody
          /\ work' = r /\ Took
          /\ plan' = [plan EXCEPT ![r] = "none"]
          /\ tries' = [tries EXCEPT ![r] = 2]
          /\ UNCHANGED <<health, pin, lease, activeCall, state, admitted, lineVars, closeVars,
                         directive, pinWorker>>
       \/ /\ plan[r] = "none" /\ state[r] \in Unanswered
          /\ Fail

\* UnstartedCancelled: the worker found the directive before it had started.
\* An ordinary request ends.  A call of the pin does not: terminal_pin is given
\* a wire, plan_terminal finds none on an unstarted call, and "unstarted pinned
\* cancellation was stale" ends the engine.
HandleUnstarted ==
    /\ Takes("Unstarted")
    /\ LET r == Event.req IN
       \/ /\ state[r] = "assigned" /\ r \notin Calls
          /\ End(r, "cancelled")
          /\ health' = "running" => Took /\ UNCHANGED <<directive, pinWorker>>
       \/ /\ state[r] \notin Unanswered
          /\ Took
          /\ UNCHANGED <<health, pin, lease, activeCall, state, plan, tries, admitted, lineVars,
                         closeVars, work, directive, pinWorker>>
       \/ /\ state[r] \in {"wire", "retrying"} \/ (state[r] = "assigned" /\ r \in Calls)
          /\ Fail

\* ConnectFinished: complete_pin_reservation and open_pin, or
\* fail_pin_reservation, unless the reservation is gone.
HandleConnected ==
    /\ Takes("Connected")
    /\ \/ /\ state[ThePin] = "assigned" /\ Event.ok
          /\ state' = [state EXCEPT ![ThePin] = "opened"]
          /\ pin' = "open"
          /\ UNCHANGED <<health, lease, activeCall, plan, tries, admitted, lineVars, closeVars,
                         work>>
       \/ /\ state[ThePin] = "assigned" /\ ~Event.ok
          /\ End(ThePin, "failed")
       \/ /\ state[ThePin] # "assigned"
          /\ UNCHANGED <<health, pin, lease, activeCall, state, plan, tries, admitted, lineVars,
                         closeVars, work>>
    /\ health' = "running" => Took /\ UNCHANGED <<directive, pinWorker>>

\* Mutant of HandleDue: the pin that has the Slot is not looked at.
HandleDuePastThePin ==
    /\ Takes("Due") /\ Took
    /\ \/ /\ lease \in {Nobody, ThePin} /\ Waiting = 0 /\ activeCall = Nobody
          /\ lease' = Beat
          /\ state' = [state EXCEPT ![Beat] = "assigned"]
          /\ WorkerGoes("starting", Beat)
       \/ /\ ~(lease \in {Nobody, ThePin} /\ Waiting = 0 /\ activeCall = Nobody)
          /\ state' = [state EXCEPT ![Beat] = "refused"]
          /\ WorkerGoes("idle", Nobody)
          /\ UNCHANGED lease
    /\ UNCHANGED <<health, pin, activeCall, plan, tries, admitted, lineVars, closeVars, work,
                   directive>>

\* HeartbeatDue: claim_heartbeat takes a Slot that nobody has and nobody waits
\* for, a pin included; otherwise the worker puts the heartbeat off.
HandleDue ==
    /\ Takes("Due") /\ Took
    /\ \/ /\ lease = Nobody /\ Waiting = 0
          /\ lease' = Beat
          /\ state' = [state EXCEPT ![Beat] = "assigned"]
          /\ WorkerGoes("starting", Beat)
       \/ /\ ~(lease = Nobody /\ Waiting = 0)
          /\ state' = [state EXCEPT ![Beat] = "refused"]
          /\ WorkerGoes("idle", Nobody)
          /\ UNCHANGED lease
    /\ UNCHANGED <<health, pin, activeCall, plan, tries, admitted, lineVars, closeVars, work,
                   directive>>

-----------------------------------------------------------------------------
(* The worker of the Slot. *)

CoreKeeps == UNCHANGED <<health, pin, lease, activeCall, state, plan, tries, admitted, lineVars,
                         closeVars, directive>>
Reports(type, r, ok) == reports' = Append(reports, [type |-> type, req |-> r, ok |-> ok])

\* run_inner and execute_work: connect for a reservation; drop what is to be
\* cancelled; report the start of everything else.
TakeWork ==
    /\ pinWorker.pc = "idle" /\ work # Nobody
    /\ work' = Nobody
    /\ \/ /\ work = ThePin
          /\ WorkerGoes("ensuring", ThePin)
          /\ UNCHANGED reports
       \/ /\ work # ThePin /\ directive = work
          /\ Reports("Unstarted", work, TRUE)
          /\ UNCHANGED pinWorker
       \/ /\ work # ThePin /\ directive # work
          /\ WorkerGoes("asking", work)
          /\ Reports("Transition", work, TRUE)
    /\ CoreKeeps

\* ensure_connected
Connects ==
    /\ pinWorker.pc = "ensuring"
    /\ \E ok \in {TRUE} \cup (IF MayFail /\ ~pinWorker.linked THEN {FALSE} ELSE {}) :
          /\ Reports("Connected", ThePin, ok)
          /\ HasLine("idle", ok)
    /\ UNCHANGED work /\ CoreKeeps

\* An exchange ends with its response, or with a failure.
Exchanges ==
    /\ pinWorker.pc = "io"
    /\ \/ /\ WorkerGoes("reported", pinWorker.req)
          /\ Reports("Completed", pinWorker.req, TRUE)
       \/ /\ MayFail
          /\ WorkerGoes("reported", pinWorker.req)
          /\ Reports("Failed", pinWorker.req, TRUE)
    /\ UNCHANGED work /\ CoreKeeps

\* retire_wire: after a failure the core has heard of, or because the worker
\* was told to cancel this request (wait_for_interrupt).
Retires ==
    /\ \/ pinWorker.pc = "retiring"
       \/ pinWorker.pc = "io" /\ directive = pinWorker.req
    /\ HasLine("idle", FALSE)
    /\ Reports("Retired", pinWorker.req, TRUE)
    /\ UNCHANGED work /\ CoreKeeps

\* run_heartbeat_if_due: the connection was silent for heartbeat_interval, and
\* no work is in the channel (run_inner's select).
AskHeartbeat ==
    /\ health = "running" /\ state[Beat] = "new"
    /\ pinWorker.pc = "idle" /\ pinWorker.linked /\ work = Nobody
    /\ WorkerGoes("due", Beat)
    /\ Reports("Due", Beat, TRUE)
    /\ UNCHANGED work /\ CoreKeeps

\* execute_heartbeat
StartHeartbeat ==
    /\ pinWorker.pc = "starting"
    /\ WorkerGoes("asking", Beat)
    /\ Reports("Transition", Beat, TRUE)
    /\ UNCHANGED work /\ CoreKeeps

WorkerSteps == TakeWork \/ Connects \/ Exchanges \/ Retires \/ StartHeartbeat
HandleEvent == \/ HandleTransition \/ HandleCompleted \/ HandleFailed
               \/ HandleRetired \/ HandleUnstarted \/ HandleConnected \/ HandleDue

PinsNext ==
    \/ \E r \in Others \cup {ThePin} : Submit(r) \/ SubmitUndeliverable(r)
    \/ \E c \in Calls : SubmitPinned(c)
    \/ \E k \in Closers : ClosePin(k)
    \/ \E r \in Everybody : CancelRequest(r) \/ Elapse(r)
    \/ ExpireWaiting \/ HandleEvent \/ WorkerSteps \/ AskHeartbeat

\* The core takes its events and its ticks, the worker goes on, and deadlines
\* pass.  Callers owe nothing.
PinsFairness ==
    /\ WF_pinVars(HandleEvent) /\ WF_pinVars(ExpireWaiting)
    /\ WF_pinVars(WorkerSteps)
    /\ \A r \in Everybody : WF_pinVars(Elapse(r))

PinsSpec == PinsInit /\ [][PinsNext]_pinVars /\ PinsFairness

-----------------------------------------------------------------------------

Ends == {"completed", "failed", "cancelled", "timed_out", "refused", "closed", "opened"}

PinsTypeOK ==
    /\ health \in {"running", "failed"} /\ pin \in {"none", "open", "closing", "gone"}
    /\ lease \in ForTheSlot \cup {Nobody} /\ activeCall \in Calls \cup {Nobody}
    /\ ToSet(globalLine) \subseteq Others \cup {ThePin} /\ InLocalLine \subseteq Calls
    /\ state \in [Everybody -> {"new"} \cup Unanswered \cup Ends]
    /\ plan \in [Everybody -> {"none", "cancel", "fail", "retry"}]
    /\ tries \in [Everybody -> 1 .. 2] /\ late \subseteq Everybody
    /\ closeWaiters \subseteq Closers
    /\ replied \in [Closers -> {"none", "ok", "busy", "failed"}]
    /\ work \in Everybody \cup {Nobody} /\ directive \in Everybody \cup {Nobody}
    /\ pinWorker.pc \in {"idle", "ensuring", "due", "starting", "asking", "io", "reported", "retiring"}
    /\ pinWorker.req \in Everybody \cup {Nobody}
    /\ ToSet(admitted) \subseteq Calls

\* A Slot's connection carries the bytes of its owner only: of the request
\* that has the lease, or of the active call of the pin that has it - also
\* when a close has withdrawn a call that is still in the worker's channel
\* (close_pin, supervisor.rs:1412).
OnlyTheOwnerIsOnTheWire ==
    pinWorker.pc = "io" =>
        LET r == pinWorker.req IN
        /\ state[r] = "wire"
        /\ r \in Others \cup {Beat} => lease = r
        /\ r \in Calls => activeCall = r /\ lease = ThePin /\ pin \in {"open", "closing"}

\* Every accepted request is in exactly one place, its line, the Slot or the
\* pin's active call, until it is answered, nobody waits for a
\* free Slot, and the two lines together keep to
\* max_pending_requests (reserve_pin_waiting, terminal_pin, close_pin).
EverybodyHasAPlace ==
    /\ \A c \in Calls :
        /\ (state[c] = "queued") = (c \in InLocalLine)
        /\ (state[c] \in OnSlot) = (activeCall = c)
    /\ \A r \in ForTheSlot :
        /\ (state[r] = "queued") = (r \in ToSet(globalLine))
        /\ (state[r] \in OnSlot \/ (r = ThePin /\ pin \in {"open", "closing"})) = (lease = r)
    /\ IsInjective(localLine) /\ IsInjective(globalLine)
    /\ Waiting <= MaxWaiting /\ (lease = Nobody => globalLine = <<>>)
    /\ late \subseteq InLocalLine \cup ToSet(globalLine)

\* The calls of a pin are served in the order they were accepted, whichever of
\* them expire, are cancelled or fail meanwhile (pin.rs).
ServedInOrder ==
    \A i, j \in DOMAIN admitted :
        i < j /\ state[admitted[j]] \in OnSlot \cup {"completed"}
        => state[admitted[i]] # "queued"

\* Whoever is told that the pin is closed finds its Slot given back; while
\* somebody waits for that, a call is on the wire and nobody waits in the
\* pin's line (close_pin, process_pin_terminal_batch).
ClosedMeansReleased ==
    /\ (\E k \in Closers : replied[k] = "ok") => pin = "gone" /\ lease # ThePin
    /\ closeWaiters # {} =>
          pin = "closing" /\ activeCall # Nobody /\ localLine = <<>>
    /\ pin = "closing" => closeWaiters # {}

\* close() of a pin returns, and every call is answered.
PinCallsEnd ==
    /\ \A k \in Closers : k \in closeWaiters ~> replied[k] # "none"
    /\ \A r \in Everybody : state[r] \in Unanswered ~> state[r] \in Ends

\* Where no I/O fails and nobody is interrupted, nothing ends the shared
\* engine: closing a pin releases the pin and leaves the engine running
\* (docs/ARCHITECTURE.md:59, docs/API_REFERENCE.md:87).  The code does not
\* keep this (close_pin, handle_retired).
CloseSparesTheEngine == ~MayFail /\ Cancellable = {} => health = "running"

\* A request whose caller gave it up before anything was sent is cancelled, and
\* nothing else: a pinned lease stays with its pin
\* (ACTOR_REFACTOR_PLAN.md:704, 706).  The code does not keep this for the calls
\* of a pin (handle_slot_event, UnstartedCancelled).
UnstartedCancelEndsAlone == [][HandleUnstarted => health' = "running"]_pinVars
=============================================================================
