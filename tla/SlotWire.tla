------------------------------ MODULE SlotWire ------------------------------
(***************************************************************************)
(* One Slot of the runtime and the worker that owns it (slot.rs, and the   *)
(* wire side of SlotWorker in engine.rs): generations of its connection,   *)
(* endpoints taken in turn, one exchange at a time, and what becomes of    *)
(* every frame the server sends.                                           *)
(*                                                                         *)
(* An exchange is told apart by its number; a frame carries a message      *)
(* identity and, to judge it by, the exchange the server answered with it. *)
(* Frames on the wire, in the decoder and in the socket are one sequence:  *)
(* a connection delivers in order, and ends with its generation.           *)
(***************************************************************************)
EXTENDS Integers, Sequences, FiniteSets, SequencesExt

CONSTANTS
    NEndpoints,     \* endpoints of the Slot
    MaxExchanges,   \* bound: exchanges and connections begun
    MaxUnasked,     \* bound: frames the server sends unasked
    FlowIds,        \* low bytes a money-flow message identity can have
    RefreshIds,     \* size of the refresh identity space
    FrameBudget     \* SLOT_FRAME_BUDGET

WireAssumption ==
    {NEndpoints, MaxExchanges, MaxUnasked, FlowIds, RefreshIds, FrameBudget} \subseteq Nat \ {0}

VARIABLES
    repeats,    \* whether the server may answer a request again
    slot,       \* state, generation, active request, exchange, receive_sequence
    rotation,   \* EndpointRotation: next_index, remaining_in_attempt
    worker,     \* the work, how far it is, its receive_boundary, and whether the
                \* attempt may go on to another endpoint
    used,       \* MessageIdGenerator: exchanges begun, refresh_counter
    inbound,    \* frames on their way to the Slot
    asked,      \* exchanges the server of this connection knows
    unasked,    \* frames sent unasked so far
    taken,      \* the exchange completed last, and the one its frame answered
    routed,     \* frames of this generation published as pushes, and as answers
    tried       \* endpoints of the current attempt, in order

wireVars == <<repeats, slot, rotation, worker, used, inbound, asked, unasked, taken, routed,
              tried>>

Types == {"ordinary", "flow", "refresh", "heartbeat", "connect"}
States == {"disconnected", "connecting", "handshaking", "idle", "busy"}
NoExchange == 0
None == [type |-> "none", id |-> 0]
Push == [type |-> "refresh", id |-> 0]
Bad == [type |-> "bad", id |-> 0]

Nothing == [message |-> None, number |-> NoExchange, boundary |-> 0]
Free == [work |-> "none", at |-> "free", boundary |-> 0, again |-> FALSE]
Fresh == [published |-> 0, answered |-> 0]

Messages == [type : Types \cup {"handshake", "bad", "none"}, id : 0 .. MaxExchanges + FlowIds]

SlotTypeOK ==
    /\ repeats \in BOOLEAN
    /\ slot \in [state : States, generation : Nat, active : BOOLEAN,
                 exchange : [message : Messages, number : Nat, boundary : Nat], sequence : Nat]
    /\ rotation \in [next : 1 .. NEndpoints, remaining : 0 .. NEndpoints]
    /\ worker \in [work : Types \cup {"none"},
                   at : {"free", "connecting", "writing", "reading", "greeted", "answered",
                         "retired", "failed"},
                   boundary : Nat, again : BOOLEAN]
    /\ used \in [exchanges : 0 .. MaxExchanges, refresh : 0 .. RefreshIds]
    /\ inbound \in Seq([message : Messages, answers : Nat])
    /\ asked \subseteq [message : Messages, number : Nat]
    /\ unasked \in 0 .. MaxUnasked
    /\ taken \in [exchange : Nat, answers : Nat, type : Types \cup {"handshake", "none"}]
    /\ routed \in [published : Nat, answered : Nat]
    /\ tried \in Seq(1 .. NEndpoints)

SlotInit ==
    /\ repeats \in BOOLEAN
    /\ slot = [state |-> "disconnected", generation |-> 1, active |-> FALSE,
               exchange |-> Nothing, sequence |-> 0]
    /\ rotation = [next |-> 1, remaining |-> 0]
    /\ worker = Free
    /\ used = [exchanges |-> 0, refresh |-> 0]
    /\ inbound = <<>>
    /\ asked = {}
    /\ unasked = 0
    /\ taken = [exchange |-> NoExchange, answers |-> NoExchange, type |-> "none"]
    /\ routed = Fresh
    /\ tried = <<>>

-----------------------------------------------------------------------------
(* Message identities and exchanges                                        *)

\* Mutant of Identities: every request takes its identity from one low byte.
IdentitiesShort(type) == [type : {type}, id : 1 .. FlowIds]

\* MessageIdGenerator::next.  A keyed permutation of a counter never returns an
\* identity twice; of a money-flow identity only the low byte is free; refresh
\* identities are counted, and run out.
Identities(type) ==
    IF type = "flow" THEN [type : {type}, id : 1 .. FlowIds]
    ELSE IF type = "refresh" THEN [type : {type}, id : {used.refresh + 1} \cap 1 .. RefreshIds]
    ELSE [type : {type}, id : {used.exchanges + 1}]

\* install_exchange, with a fresh identity.
Begin(type, state, boundary) ==
    /\ used.exchanges < MaxExchanges
    /\ \E m \in Identities(type) :
          slot' = [slot EXCEPT !.state = state, !.active = TRUE,
                       !.exchange = [message |-> m, number |-> used.exchanges + 1,
                                     boundary |-> boundary]]
    /\ used' = [used EXCEPT !.exchanges = @ + 1, !.refresh = @ + IF type = "refresh" THEN 1 ELSE 0]

-----------------------------------------------------------------------------
(* Connecting                                                              *)

\* Mutant of Following: a failed endpoint is tried again.
FollowingItself(e) == e

Following(e) == (e % NEndpoints) + 1

\* begin_endpoint_attempt, unless the attempt goes on, and start_connect.
StartConnect(work, begin) ==
    LET left == IF begin THEN NEndpoints ELSE rotation.remaining
    IN  /\ slot.state = "disconnected"
        /\ left > 0
        /\ used.exchanges < MaxExchanges
        /\ rotation' = [next |-> Following(rotation.next), remaining |-> left - 1]
        /\ tried' = Append(IF begin THEN <<>> ELSE tried, rotation.next)
        /\ slot' = [slot EXCEPT !.state = "connecting", !.active = TRUE]
        /\ worker' = [work |-> work, at |-> "connecting", boundary |-> 0, again |-> left > 1]
        /\ used' = [used EXCEPT !.exchanges = @ + 1]
        /\ UNCHANGED <<repeats, inbound, asked, unasked, taken, routed>>

\* connect_stream succeeds: on_connected and begin_handshake.
Connected ==
    /\ worker.at = "connecting"
    /\ Begin("handshake", "handshaking", 0)
    /\ worker' = [worker EXCEPT !.at = "writing"]
    /\ UNCHANGED <<repeats, rotation, inbound, asked, unasked, taken, routed, tried>>

\* What a retirement leaves: the stream is dropped with its decoder, and the
\* generation's exchange and its owner go with it.
Retired == [state |-> "disconnected", generation |-> slot.generation + 1, active |-> FALSE,
            exchange |-> Nothing, sequence |-> 0]

\* Mutant of Drop: the new generation keeps the stream and the exchange.
DropKeepingTheStream ==
    /\ slot' = [Retired EXCEPT !.exchange = slot.exchange]
    /\ UNCHANGED <<repeats, rotation, used, inbound, asked, unasked, taken, routed, tried>>

Drop ==
    /\ slot' = Retired
    /\ inbound' = <<>>
    /\ asked' = {}
    /\ routed' = Fresh
    /\ UNCHANGED <<repeats, rotation, used, unasked, taken, tried>>

\* An I/O error, a deadline or an interrupt while the work is under way, or an
\* answer the core does not accept.  Another endpoint is due after a failed
\* dial, and in an explicit connect after any failure.
Fail ==
    /\ worker.at \in {"connecting", "writing", "reading", "answered"}
    /\ Drop
    /\ worker' = [worker EXCEPT
           !.at = "retired",
           !.again = @ /\ (slot.state = "connecting" \/ worker.work = "connect")]

\* The next endpoint of the attempt, another attempt, or the failure goes to the
\* caller; a heartbeat and an explicit connect have no second attempt.
GoOn == worker.at = "retired" /\ worker.again /\ StartConnect(worker.work, FALSE)
Retry ==
    /\ worker.at = "retired"
    /\ ~worker.again
    /\ worker.work \notin {"heartbeat", "connect"}
    /\ StartConnect(worker.work, TRUE)
GiveUp ==
    /\ worker.at = "retired"
    /\ worker' = Free
    /\ UNCHANGED <<repeats, slot, rotation, used, inbound, asked, unasked, taken, routed, tried>>

-----------------------------------------------------------------------------
(* Work on a connected Slot                                                *)

\* assign_ready, assign_heartbeat or nothing: the Slot is idle.
OnIdle(type) ==
    /\ worker.at = "free"
    /\ slot.state = "idle"
    /\ IF type = "connect"
       THEN UNCHANGED <<slot, worker, used>>
       ELSE /\ Begin(type, "busy", slot.sequence)
            /\ worker' = [work |-> type, at |-> "writing", boundary |-> 0, again |-> FALSE]
    /\ UNCHANGED <<repeats, rotation, inbound, asked, unasked, taken, routed, tried>>

OnDisconnected(type) ==
    /\ worker.at = "free"
    /\ type # "heartbeat"
    /\ StartConnect(type, TRUE)

\* begin_business on the connection that was just greeted.
BeginGreeted ==
    /\ worker.at = "greeted"
    /\ Begin(worker.work, "busy", worker.boundary)
    /\ worker' = [worker EXCEPT !.at = "writing"]
    /\ UNCHANGED <<repeats, rotation, inbound, asked, unasked, taken, routed, tried>>

\* No refresh identity is left: the error ends the worker, and with it the
\* engine.
RunOut ==
    /\ worker.at \in {"free", "greeted"}
    /\ slot.state = "idle"
    /\ used.refresh = RefreshIds
    /\ worker.at = "greeted" => worker.work = "refresh"
    /\ worker' = [worker EXCEPT !.work = "refresh", !.at = "failed"]
    /\ slot' = [slot EXCEPT !.active = TRUE]
    /\ UNCHANGED <<repeats, rotation, used, inbound, asked, unasked, taken, routed, tried>>

\* The last byte is written.
Write ==
    /\ worker.at = "writing"
    /\ worker' = [worker EXCEPT !.at = "reading"]
    /\ asked' = asked \cup {[message |-> slot.exchange.message, number |-> slot.exchange.number]}
    /\ UNCHANGED <<repeats, slot, rotation, used, inbound, unasked, taken, routed, tried>>

\* Mutant of Matches: whatever arrives while an exchange is open answers it.
MatchesAnything(frame, exchange, number, sendComplete) ==
    exchange # Nothing /\ sendComplete

\* on_frame: what makes a frame the answer to the open exchange.
Matches(frame, exchange, number, sendComplete) ==
    /\ exchange # Nothing
    /\ frame.message = exchange.message
    /\ sendComplete
    /\ number > exchange.boundary

\* The first of n frames that answers the open exchange, or 0.
Answering(n, sendComplete) ==
    LET fits == { i \in 1 .. n :
                    Matches(inbound[i], slot.exchange, slot.sequence + i, sendComplete) }
    IN  IF fits = {} THEN 0 ELSE CHOOSE i \in fits : \A j \in fits : i <= j

\* Every frame of a turn but the answer is a push.
Published(n, answer) == IF answer = 0 THEN n ELSE n - 1

\* decode_turn and route_decoded_turn of n frames that have come in.  The
\* exchange ends with the frame that answers it; those behind it are pushes.  A
\* frame that cannot be decoded, or has no message identity, spoils the whole
\* turn: what is left is to retire the generation.
Turn(n, sendComplete) ==
    LET answer == Answering(n, sendComplete)
    IN  /\ n \in 1 .. FrameBudget
        /\ n <= Len(inbound)
        /\ \A i \in 1 .. n : inbound[i].message # Bad
        /\ inbound' = SubSeq(inbound, n + 1, Len(inbound))
        /\ routed' = [published |-> routed.published + Published(n, answer),
                      answered |-> routed.answered + IF answer = 0 THEN 0 ELSE 1]
        /\ IF answer = 0
           THEN slot' = [slot EXCEPT !.sequence = @ + n] /\ UNCHANGED taken
           ELSE /\ slot' = [slot EXCEPT
                      !.sequence = @ + n, !.exchange = Nothing, !.state = "idle",
                      !.active = ~(slot.state = "handshaking" /\ worker.work = "connect")]
                /\ taken' = [exchange |-> slot.exchange.number,
                             answers |-> inbound[answer].answers,
                             type |-> slot.exchange.message.type]
        /\ UNCHANGED <<repeats, rotation, used, asked, unasked, tried>>

\* read_matching_response: turns until one brings the answer.  That of a
\* handshake is the boundary of the business that waits for it.
Read(n) ==
    LET answer == Answering(n, TRUE)
    IN  /\ worker.at = "reading"
        /\ Turn(n, TRUE)
        /\ worker' =
              IF answer = 0 THEN worker
              ELSE IF slot.state = "busy" THEN [worker EXCEPT !.at = "answered"]
              ELSE IF worker.work = "connect" THEN Free
              ELSE [worker EXCEPT !.at = "greeted", !.boundary = slot.sequence + answer]

\* The core accepted the answer: finish_business or finish_heartbeat.
Finish ==
    /\ worker.at = "answered"
    /\ worker' = Free
    /\ slot' = [slot EXCEPT !.active = FALSE]
    /\ UNCHANGED <<repeats, rotation, used, inbound, asked, unasked, taken, routed, tried>>

\* read_idle_push_turn.
ReadIdle(n) ==
    /\ worker.at = "free"
    /\ slot.state = "idle"
    /\ Turn(n, FALSE)
    /\ UNCHANGED worker

\* The end of an idle stream, a stop, or a frame on it that cannot be decoded.
RetireIdle ==
    /\ worker.at = "free"
    /\ slot.state = "idle"
    /\ Drop
    /\ UNCHANGED worker

-----------------------------------------------------------------------------
(* The server of the current connection                                    *)

Send(frame) ==
    /\ Len(inbound) <= FrameBudget
    /\ inbound' = Append(inbound, frame)
    /\ UNCHANGED <<repeats, slot, rotation, worker, used, taken, routed, tried>>

\* It answers in any order, some perhaps never, or twice.
Answer(e) ==
    /\ e \in asked
    /\ Send([message |-> e.message, answers |-> e.number])
    /\ asked' \in {asked \ {e}} \cup (IF repeats THEN {asked} ELSE {})
    /\ unasked' = IF asked' = asked THEN unasked + 1 ELSE unasked
    /\ unasked' <= MaxUnasked

Unasked(message) ==
    /\ slot.state \in {"handshaking", "idle", "busy"}
    /\ unasked < MaxUnasked
    /\ Send([message |-> message, answers |-> NoExchange])
    /\ unasked' = unasked + 1
    /\ UNCHANGED asked

SlotNext ==
    \/ \E type \in Types : OnIdle(type) \/ OnDisconnected(type)
    \/ Connected \/ BeginGreeted \/ Write \/ Finish \/ RunOut
    \/ Fail \/ GoOn \/ Retry \/ GiveUp \/ RetireIdle
    \/ \E n \in 1 .. FrameBudget : Read(n) \/ ReadIdle(n)
    \/ \E e \in asked : Answer(e)
    \/ Unasked(Push) \/ Unasked(Bad)

SlotSpec == SlotInit /\ [][SlotNext]_wireVars

-----------------------------------------------------------------------------

\* The frame that completes an exchange is one that the server answered that
\* very exchange with (slot.rs, on_frame; docs/ARCHITECTURE.md:47): whatever
\* failed before, on whatever connection, and though the server may answer
\* twice.  Of money-flow exchanges it holds if the server does not, for their
\* identities come again after a few requests.
AnswersAreTheirOwn ==
    taken.exchange = taken.answers \/ (repeats /\ taken.type = "flow")

\* Every frame that was decoded on a connection went to the feed or completed an
\* exchange, and to one of them only.
EveryFrameGoesOnce == routed.published + routed.answered = slot.sequence

\* A connection is handed on clean: an idle worker's Slot has no owner and no
\* open exchange, and a new generation nothing of the one before
\* (slot.rs, check of release_unstarted_request and of start_connect).
HandedOnClean ==
    /\ worker.at = "free" =>
          slot.state \in {"idle", "disconnected"} /\ ~slot.active /\ slot.exchange = Nothing
    /\ slot.state \in {"disconnected", "connecting"} =>
          inbound = <<>> /\ asked = {} /\ slot.exchange = Nothing
    /\ slot.exchange # Nothing <=> slot.state \in {"handshaking", "busy"}

\* An attempt takes each endpoint once before it may call them all unreachable
\* (endpoint.rs; docs/ARCHITECTURE.md).
EveryEndpointGetsItsTurn ==
    /\ IsInjective(tried)
    /\ worker.at = "retired" /\ ~worker.again /\ worker.work = "connect"
          => ToSet(tried) = 1 .. NEndpoints
=============================================================================
