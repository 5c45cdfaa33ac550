------------------------------ MODULE PushFeed ------------------------------
(***************************************************************************)
(* Unsolicited frames, from the Slot workers to whoever polls for them:    *)
(* the bounded channel into RuntimeCore and the count of what did not fit  *)
(* (engine.rs publish_push), the bounded PushBuffer of push.rs, and the    *)
(* pollers that wait in the core for the next frame.  One engine epoch.    *)
(*                                                                         *)
(* A frame is its number, in the order the workers published, and a size.  *)
(* A counter of lost frames is the set of their numbers: its cardinality   *)
(* is the count, and it grows when the count does.  The buffer's flags     *)
(* `accepting` and `closed` change together and are one.  A poller calls   *)
(* poll_push or drain_pushes any number of times, one call at a time; the  *)
(* command channel has room for all of them.                               *)
(***************************************************************************)
EXTENDS Naturals, Sequences, FiniteSets, SequencesExt

CONSTANTS
    Pollers,       \* threads that call poll_push and drain_pushes
    Workers,       \* Slot workers
    MaxFrames,     \* push_queue_size: frames in the buffer, and in the channel
    MaxBytes,      \* push_queue_bytes
    MaxWaiters,    \* max_pending_requests bounds the waiting pollers too
    Sizes,         \* wire sizes of frames
    MaxSent        \* bound: frames the server sends

ASSUME LimitsAssumption ==
    /\ MaxFrames \in Nat \ {0} /\ MaxBytes \in Nat \ {0} /\ MaxWaiters \in Nat \ {0}
    /\ MaxSent \in Nat /\ Sizes \subseteq Nat \ {0}

VARIABLES
    running,    \* RuntimeCore has not returned
    sent,       \* frames published so far
    refused,    \* each worker: the frame the channel refused, 0 once it is counted
    channel,    \* push_tx, push_rx
    missed,     \* push_dropped: frames refused, not yet reported to the buffer
    push,       \* PushBuffer: frames, bytes, dropped_total, reported, closed, fatal
    commands,   \* command_tx, command_rx: pollers whose command waits there
    waiters,    \* push_waiters, in the order they came
    call,       \* each poller: "idle", "poll", "drain", or "waiting" in the core
    answer,     \* each poller: what its call returned, until it calls again
    late,       \* pollers whose deadline has passed
    delivered,  \* history: numbers of the frames handed to pollers
    owed        \* history: what had been lost before each poller's call

feedVars == <<running, sent, refused, channel, missed, push>>
pollerVars == <<commands, waiters, call, answer, late, delivered, owed>>
vars == <<feedVars, pollerVars>>

Answers == {"none", "frame", "gap", "nothing", "fatal", "busy", "stopped"}

Numbers(frames) == [i \in DOMAIN frames |-> frames[i].number]
Total(frames) == FoldLeft(LAMBDA sum, f : sum + f.size, 0, frames)

Init ==
    /\ running = TRUE /\ sent = 0 /\ channel = <<>> /\ missed = {}
    /\ refused = [w \in Workers |-> 0]
    /\ push = [frames |-> <<>>, bytes |-> 0, dropped |-> {}, reported |-> {},
               closed |-> FALSE, fatal |-> FALSE]
    /\ commands = <<>> /\ waiters = <<>> /\ late = {} /\ delivered = <<>>
    /\ call = [p \in Pollers |-> "idle"]
    /\ answer = [p \in Pollers |-> "none"]
    /\ owed = [p \in Pollers |-> {}]

-----------------------------------------------------------------------------
(* The workers. *)

\* Mutant of Publish: the channel takes one frame too many.
PublishOneMore(w, size) ==
    /\ running /\ refused[w] = 0 /\ sent < MaxSent
    /\ sent' = sent + 1
    /\ IF Len(channel) <= MaxFrames
       THEN /\ channel' = Append(channel, [number |-> sent + 1, size |-> size])
            /\ UNCHANGED refused
       ELSE /\ refused' = [refused EXCEPT ![w] = sent + 1]
            /\ UNCHANGED channel
    /\ UNCHANGED <<running, missed, push, pollerVars>>

\* publish_push: try_send never blocks the worker; a full channel refuses the
\* frame.
Publish(w, size) ==
    /\ running /\ refused[w] = 0 /\ sent < MaxSent
    /\ sent' = sent + 1
    /\ IF Len(channel) < MaxFrames
       THEN /\ channel' = Append(channel, [number |-> sent + 1, size |-> size])
            /\ UNCHANGED refused
       ELSE /\ refused' = [refused EXCEPT ![w] = sent + 1]
            /\ UNCHANGED channel
    /\ UNCHANGED <<running, missed, push, pollerVars>>

\* publish_push: the frame is counted after it was refused, in a step of its own.
CountRefused(w) ==
    /\ refused[w] # 0
    /\ missed' = missed \cup {refused[w]}
    /\ refused' = [refused EXCEPT ![w] = 0]
    /\ UNCHANGED <<running, sent, channel, push, pollerVars>>

-----------------------------------------------------------------------------
(* PushBuffer. *)

\* Mutant of Room: the oldest frame makes room, whatever its size.
RoomForOne(b, size) ==
    IF b.frames # <<>> /\ (Len(b.frames) >= MaxFrames \/ b.bytes + size > MaxBytes)
    THEN 1 ELSE 0

\* offer: how many of the oldest frames are dropped for one of this size.
Room(b, size) ==
    LET fits(n) == \/ n = Len(b.frames)
                   \/ /\ Len(b.frames) - n < MaxFrames
                      /\ b.bytes - Total(SubSeq(b.frames, 1, n)) + size <= MaxBytes
    IN  CHOOSE n \in 0 .. Len(b.frames) : fits(n) /\ \A k \in 0 .. n - 1 : ~fits(k)

\* offer: a frame above the limit is dropped itself, after all the others.
Offered(b, frame) ==
    LET n == Room(b, frame.size)
        oldest == SubSeq(b.frames, 1, n)
        rest == SubSeq(b.frames, n + 1, Len(b.frames))
        tooBig == frame.size > MaxBytes
    IN  IF b.closed THEN b
        ELSE [b EXCEPT
              !.frames = IF tooBig THEN rest ELSE Append(rest, frame),
              !.bytes = @ - Total(oldest) + (IF tooBig THEN 0 ELSE frame.size),
              !.dropped = @ \cup ToSet(Numbers(oldest))
                            \cup (IF tooBig THEN {frame.number} ELSE {})]

\* record_external_drop, through the supervisor's record_push_drop
Recorded(b, numbers) ==
    IF b.closed THEN b ELSE [b EXCEPT !.dropped = @ \cup numbers]

\* poll: a fatal error first, then a gap, once, then the oldest frame
PollAnswer(b) ==
    IF b.fatal THEN "fatal"
    ELSE IF b.dropped # b.reported THEN "gap"
    ELSE IF b.frames = <<>> THEN "nothing" ELSE "frame"

\* Mutant of AfterPoll: the frame that is handed out stays.
AfterPeek(b) ==
    IF PollAnswer(b) = "gap" THEN [b EXCEPT !.reported = b.dropped] ELSE b

AfterPoll(b) ==
    CASE PollAnswer(b) = "gap" -> [b EXCEPT !.reported = b.dropped]
      [] PollAnswer(b) = "frame" ->
             [b EXCEPT !.frames = Tail(@), !.bytes = @ - Head(b.frames).size]
      [] OTHER -> b

\* Mutant of ClosedWith: what is in the buffer, or to be reported, outlives the close.
ClosedButFull(b, fatal) == [b EXCEPT !.closed = TRUE, !.fatal = @ \/ fatal]

\* close: pending frames and the pending gap are given up.
ClosedWith(b, fatal) ==
    [b EXCEPT !.frames = <<>>, !.bytes = 0, !.reported = b.dropped,
              !.closed = TRUE, !.fatal = @ \/ fatal]

-----------------------------------------------------------------------------
(* The pollers. *)

\* poll_push and drain_pushes send a command.
Ask(p, what) ==
    /\ running /\ call[p] = "idle"
    /\ commands' = Append(commands, p)
    /\ call' = [call EXCEPT ![p] = what]
    /\ owed' = [owed EXCEPT ![p] = missed \cup push.dropped]
    /\ answer' = [answer EXCEPT ![p] = "none"]
    /\ UNCHANGED <<feedVars, waiters, late, delivered>>

\* current_runtime: a host that knows of the close refuses the call, and without
\* a runtime there is nothing.
AskInVain(p) ==
    /\ call[p] = "idle" /\ (push.closed \/ ~running)
    /\ answer' = [answer EXCEPT ![p] = IF running THEN "stopped" ELSE "nothing"]
    /\ UNCHANGED <<feedVars, commands, waiters, call, late, delivered, owed>>

\* The deadline of a poll passes.
Elapse(p) ==
    /\ call[p] \in {"poll", "waiting"} /\ p \notin late
    /\ late' = late \cup {p}
    /\ UNCHANGED <<feedVars, commands, waiters, call, answer, delivered, owed>>

-----------------------------------------------------------------------------
(* RuntimeCore. *)

\* Mutant of Flushed: the refused frames are not recorded before the poll.
FlushedNever == push

\* flush_pending_push_drops
Flushed == Recorded(push, missed)

\* What the core has to say to its pollers: the buffer, who waits and what has
\* been answered.
Desk(buffer) == [push |-> buffer, waiters |-> <<>>, call |-> call, answer |-> answer,
                 delivered |-> delivered]

\* The poller p is answered as the buffer says.
Replied(desk, p) ==
    [push |-> AfterPoll(desk.push),
     waiters |-> desk.waiters,
     call |-> [desk.call EXCEPT ![p] = "idle"],
     answer |-> [desk.answer EXCEPT ![p] = PollAnswer(desk.push)],
     delivered |-> IF PollAnswer(desk.push) = "frame"
                   THEN Append(desk.delivered, Head(desk.push.frames).number)
                   ELSE desk.delivered]

\* Mutant of Served: a waiting poller is woken by a frame only.
ServedByFrame(desk, p) ==
    IF PollAnswer(desk.push) = "frame" THEN Replied(desk, p)
    ELSE [desk EXCEPT !.waiters = Append(@, p)]

\* fulfill_push_waiters, for one of them
Served(desk, p) ==
    IF PollAnswer(desk.push) = "nothing" /\ p \notin late
    THEN [desk EXCEPT !.waiters = Append(@, p)]
    ELSE Replied(desk, p)

\* fulfill_push_waiters
Fulfilled(buffer) == FoldLeft(Served, Desk(buffer), waiters)

\* The deadline and the history of a call end with it.
EndCalls ==
    /\ late' = {p \in late : call'[p] # "idle"}
    /\ owed' = [p \in Pollers |-> IF call'[p] = "idle" THEN {} ELSE owed[p]]

\* The core goes on with what is on the desk.
Become(desk) ==
    /\ push' = desk.push /\ waiters' = desk.waiters
    /\ call' = desk.call /\ answer' = desk.answer /\ delivered' = desk.delivered
    /\ EndCalls

\* Mutant of TakeFrame: whoever waits is not told that there is a frame.
TakeFrameQuietly ==
    /\ running /\ channel # <<>>
    /\ channel' = Tail(channel)
    /\ push' = Offered(push, Head(channel))
    /\ UNCHANGED <<running, sent, refused, missed, pollerVars>>

\* The push_rx arm of the select: offer_push, then fulfill_push_waiters.  The
\* refused frames are not recorded here.
TakeFrame ==
    /\ running /\ channel # <<>>
    /\ channel' = Tail(channel)
    /\ Become(Fulfilled(Offered(push, Head(channel))))
    /\ UNCHANGED <<running, sent, refused, missed, commands>>

\* handle_tick
Tick ==
    /\ running
    /\ missed' = {}
    /\ Become(Fulfilled(Flushed))
    /\ UNCHANGED <<running, sent, refused, channel, commands>>

\* handle_command and handle_control with anything else: the flush is what they
\* do to the feed.
HandleOther ==
    /\ running /\ missed # {}
    /\ missed' = {}
    /\ push' = Flushed
    /\ UNCHANGED <<running, sent, refused, channel, pollerVars>>

\* handle_command, PollPush; after close has begun the poller is answered at once.
HandlePoll ==
    /\ running /\ commands # <<>> /\ call[Head(commands)] = "poll"
    /\ missed' = {}
    /\ commands' = Tail(commands)
    /\ LET p == Head(commands)
           nothing == PollAnswer(Flushed) = "nothing" /\ p \notin late /\ ~push.closed
       IN  IF ~nothing
           THEN Become(Replied([Desk(Flushed) EXCEPT !.waiters = waiters], p))
           ELSE /\ push' = Flushed
                /\ UNCHANGED delivered
                /\ IF Len(waiters) >= MaxWaiters
                   THEN /\ call' = [call EXCEPT ![p] = "idle"]
                        /\ answer' = [answer EXCEPT ![p] = "busy"]
                        /\ UNCHANGED waiters
                   ELSE /\ call' = [call EXCEPT ![p] = "waiting"]
                        /\ waiters' = Append(waiters, p)
                        /\ UNCHANGED answer
                /\ EndCalls
    /\ UNCHANGED <<running, sent, refused, channel>>

\* handle_command, DrainPushes: drain
HandleDrain ==
    /\ running /\ commands # <<>> /\ call[Head(commands)] = "drain"
    /\ missed' = {}
    /\ commands' = Tail(commands)
    /\ LET p == Head(commands)
           all == PollAnswer(Flushed) \in {"frame", "nothing"}
       IN  /\ call' = [call EXCEPT ![p] = "idle"]
           /\ answer' = [answer EXCEPT ![p] = PollAnswer(Flushed)]
           /\ push' = IF all THEN [Flushed EXCEPT !.frames = <<>>, !.bytes = 0]
                      ELSE AfterPoll(Flushed)
           /\ delivered' = IF all THEN delivered \o Numbers(push.frames) ELSE delivered
           /\ EndCalls
    /\ UNCHANGED <<running, sent, refused, channel, waiters>>

\* begin_close, from a caller's close or from begin_runtime_fatal, which may also
\* come while the engine closes: the buffer is closed and every waiting poller
\* is answered.
Close(fatal) ==
    /\ running /\ (~push.closed \/ (fatal /\ ~push.fatal))
    /\ missed' = {}
    /\ Become(FoldLeft(Replied, Desk(ClosedWith(Flushed, fatal)), waiters))
    /\ UNCHANGED <<running, sent, refused, channel, commands>>

\* The workers have ended and run returns; what is left in the command channel is
\* dropped, which its caller sees as a closed connection.
Exit ==
    /\ running /\ push.closed
    /\ \A w \in Workers : refused[w] = 0
    /\ running' = FALSE
    /\ channel' = <<>> /\ commands' = <<>>
    /\ call' = [p \in Pollers |-> "idle"]
    /\ answer' = [p \in Pollers |-> IF call[p] = "idle" THEN answer[p] ELSE "stopped"]
    /\ EndCalls
    /\ UNCHANGED <<sent, refused, missed, push, waiters, delivered>>

-----------------------------------------------------------------------------

Core == TakeFrame \/ Tick \/ HandleOther \/ HandlePoll \/ HandleDrain

Next ==
    \/ \E w \in Workers, size \in Sizes : Publish(w, size)
    \/ \E w \in Workers : CountRefused(w)
    \/ \E p \in Pollers, what \in {"poll", "drain"} : Ask(p, what)
    \/ \E p \in Pollers : AskInVain(p)
    \/ \E p \in Pollers : Elapse(p)
    \/ Core
    \/ \E fatal \in BOOLEAN : Close(fatal)
    \/ Exit

Spec == Init /\ [][Next]_vars

\* Deadlines pass, the tick comes again and again and the command arm is reached
\* again and again.  The arm order of the select (`biased`) justifies the latter
\* only while frames do not come faster than the core takes them: MaxSent.
Fairness ==
    /\ WF_vars(TakeFrame) /\ WF_vars(HandlePoll) /\ WF_vars(HandleDrain)
    /\ WF_vars(Tick)
    /\ \A p \in Pollers : WF_vars(Elapse(p))

FairSpec == Spec /\ Fairness

-----------------------------------------------------------------------------

Lost == missed \cup push.dropped \cup ({refused[w] : w \in Workers} \ {0})

TypeOK ==
    /\ running \in BOOLEAN /\ sent \in 0 .. MaxSent
    /\ refused \in [Workers -> 0 .. MaxSent]
    /\ missed \subseteq 1 .. MaxSent /\ Len(channel) <= MaxFrames
    /\ push.dropped \subseteq 1 .. MaxSent /\ push.reported \subseteq push.dropped
    /\ call \in [Pollers -> {"idle", "poll", "drain", "waiting"}]
    /\ answer \in [Pollers -> Answers] /\ late \subseteq Pollers
    /\ ToSet(commands) = {p \in Pollers : call[p] \in {"poll", "drain"}}

\* The bytes the buffer counts are those of its frames, within both limits, as
\* check_invariants asks (push.rs:181-209); and while the feed is open no frame
\* disappears without trace: each one the server sent was handed out, waits in
\* the channel or the buffer, or is counted as lost, and it is only one of these
\* (publish_push, offer, flush_pending_push_drops).
EveryFrameIsAccounted ==
    LET places == <<ToSet(delivered), ToSet(Numbers(channel)),
                    ToSet(Numbers(push.frames)), missed, push.dropped,
                    {refused[w] : w \in Workers} \ {0}>>
    IN  /\ Len(push.frames) <= MaxFrames /\ Len(waiters) <= MaxWaiters
        /\ push.bytes = Total(push.frames) /\ push.bytes <= MaxBytes
        /\ ~push.closed =>
          /\ UNION ToSet(places) = 1 .. sent
          /\ \A i, j \in DOMAIN places : i # j => places[i] \cap places[j] = {}

\* Pollers are handed frames in the order in which they were published, each once,
\* however many of them poll, drain and wait.
DeliveredInOrder ==
    \A i, j \in DOMAIN delivered : i < j => delivered[i] < delivered[j]

\* Nobody waits in the core while there is a frame to have (poll, push_waiters,
\* fulfill_push_waiters), and nobody waits twice.
NobodyWaitsBesideAFrame ==
    /\ waiters # <<>> => push.frames = <<>>
    /\ ToSet(waiters) = {p \in Pollers : call[p] = "waiting"}
    /\ IsInjective(waiters)

\* A caller never gets a frame while a loss that was counted before its call has
\* not been reported as a gap, to it or to another (raise_fatal_or_gap, and the
\* flush that opens handle_command and handle_tick).
NoSilentGap ==
    [][\A p \in Pollers :
          call[p] # "idle" /\ call'[p] = "idle" /\ answer'[p] = "frame"
              => owed[p] \subseteq push'.reported]_vars

\* After close nothing is handed out and nobody is left waiting; a poll in flight
\* is told the fatal error if there is one (push.rs close, begin_close).
ClosedFeedIsSilent ==
    [][push.closed =>
          /\ delivered' = delivered /\ push'.frames = <<>> /\ waiters' = <<>>
          /\ \A p \in Pollers : running' /\ call[p] # "idle" /\ call'[p] = "idle" =>
                answer'[p] = IF push.fatal THEN "fatal" ELSE "nothing"]_vars

\* Every poll and every drain comes back (deadlines, the tick, close).
PollersReturn == \A p \in Pollers : call[p] # "idle" ~> call[p] = "idle"

\* What docs/API_REFERENCE.md says of a full queue: the oldest frames are dropped
\* so that the newest stay.  A frame that is lost is older than every frame that
\* can still be read.
KeepsNewest ==
    \A n \in Lost : \A m \in ToSet(Numbers(push.frames \o channel)) : n < m
=============================================================================
