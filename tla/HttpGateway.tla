---------------------------- MODULE HttpGateway ----------------------------
(***************************************************************************)
(* The WebSocket side of the HTTP gateway (http_server.py): one handler    *)
(* and one writer per connection, and the hub whose pump polls the native  *)
(* pushes and fans them out.  Everything runs on one event loop; a step is *)
(* what runs between two awaits that can really suspend.  The hub's lock   *)
(* is never held across one, so it costs no step.  asyncio.to_thread calls *)
(* run beside the loop and cannot be stopped: a cancelled poll still takes *)
(* a push.                                                                 *)
(*                                                                         *)
(* Pushes are numbered; the baseline of a subscription is the number of    *)
(* the last push its page includes.  Every subscription is for the code    *)
(* the pushes are about.                                                   *)
(***************************************************************************)
EXTENDS Integers, Sequences, FiniteSets, SequencesExt

CONSTANTS
    Sockets,        \* WebSocket connections
    MaxRequests,    \* bound: requests the clients send in all
    MaxPushes,      \* bound: pushes the server sends
    MaxResponses,   \* _MAX_WS_RESPONSES
    MaxEvents,      \* _MAX_WS_QUEUE
    Ahead           \* requests a client sends before it has read the replies

GatewayAssumption ==
    {MaxRequests, MaxPushes, MaxResponses, MaxEvents, Ahead} \subseteq Nat \ {0}

VARIABLES
    handler,        \* websocket_rpc of each connection: where it is, the request and baseline in hand
    responses,      \* _WebSocketSession.responses: request numbers, with the id a reply tells
    events,         \* _WebSocketSession.events
    ready,          \* _WebSocketSession.ready
    closed,         \* _WebSocketSession.closed
    writer,         \* the writer task: waiting, sending a message, or over
    client,         \* the other end: requests sent, inbox of the handler, replies read, ids known,
                    \* whether it has left, and what it noticed
    subscribers,    \* _QuoteHub._subscribers
    pump,           \* _pump_task: off, about to look, polling, or with the result in hand
    orphans,        \* threads whose poll was cancelled
    pushed,         \* pushes so far
    queue,          \* pushes that were not polled yet
    missed          \* ghost: subscriptions that an update passed by

gatewayVars == <<handler, responses, events, ready, closed, writer, client, subscribers, pump,
                 orphans, pushed, queue, missed>>

Off == [at |-> "off", snapshot |-> {}, push |-> 0]
Receiving == [at |-> "receive", n |-> 0, id |-> 0, base |-> 0]
NoMessage == [kind |-> "none", n |-> 0, id |-> 0]
Message(kind, n, id) == [kind |-> kind, n |-> n, id |-> id]
Ids == 1 .. MaxRequests

GatewayTypeOK ==
    /\ \A s \in Sockets :
          /\ handler[s].at \in {"receive", "baseline", "put", "leave", "gone"}
          /\ Len(responses[s]) <= MaxResponses
          /\ Len(events[s]) <= MaxEvents
          /\ writer[s].at \in {"wait", "send", "over"}
          /\ client[s].sent \in 0 .. MaxRequests
    /\ {ready[s] : s \in Sockets} \cup {closed[s] : s \in Sockets} \subseteq BOOLEAN
    /\ subscribers \subseteq [id : Ids, socket : Sockets, base : 0 .. MaxPushes]
    /\ pump.at \in {"off", "look", "poll", "got"}
    /\ pump.snapshot \subseteq [id : Ids, socket : Sockets, base : 0 .. MaxPushes]
    /\ orphans \in Nat
    /\ pushed \in 0 .. MaxPushes
    /\ missed \subseteq Ids

GatewayInit ==
    /\ handler = [s \in Sockets |-> Receiving]
    /\ responses = [s \in Sockets |-> <<>>]
    /\ events = [s \in Sockets |-> <<>>]
    /\ ready = [s \in Sockets |-> FALSE]
    /\ closed = [s \in Sockets |-> FALSE]
    /\ writer = [s \in Sockets |-> [at |-> "wait", message |-> NoMessage]]
    /\ client = [s \in Sockets |-> [sent |-> 0, inbox |-> <<>>, read |-> 0, ids |-> {},
                                    left |-> FALSE, odd |-> {}]]
    /\ subscribers = {}
    /\ pump = Off
    /\ orphans = 0
    /\ pushed = 0
    /\ queue = <<>>
    /\ missed = {}

-----------------------------------------------------------------------------
(* The client and the market                                               *)

\* quotes.subscribe, quotes.unsubscribe, or any other method (also one that
\* is refused: it has an error for its reply).
Send(s, kind) ==
    /\ ~client[s].left
    /\ Cardinality({ m \in Sockets \X Ids : m[2] <= client[m[1]].sent }) < MaxRequests
    /\ client[s].sent - client[s].read < Ahead
    /\ client' = [client EXCEPT ![s].sent = @ + 1, ![s].inbox = Append(@, kind)]
    /\ UNCHANGED <<handler, responses, events, ready, closed, writer, subscribers, pump, orphans,
                   pushed, queue, missed>>

Disconnect(s) ==
    /\ ~client[s].left
    /\ client' = [client EXCEPT ![s].left = TRUE]
    /\ UNCHANGED <<handler, responses, events, ready, closed, writer, subscribers, pump, orphans,
                   pushed, queue, missed>>

Push ==
    /\ pushed < MaxPushes
    /\ pushed' = pushed + 1
    /\ queue' = Append(queue, pushed + 1)
    /\ UNCHANGED <<handler, responses, events, ready, closed, writer, client, subscribers, pump,
                   orphans, missed>>

-----------------------------------------------------------------------------
(* _WebSocketSession                                                       *)

\* send(): waits while the queue of replies is full.
Reply(s, message) ==
    IF Len(responses[s]) < MaxResponses
    THEN /\ responses' = [responses EXCEPT ![s] = Append(@, message)]
         /\ ready' = [ready EXCEPT ![s] = TRUE]
         /\ handler' = [handler EXCEPT ![s] = Receiving]
    ELSE /\ handler' = [handler EXCEPT ![s] = [at |-> "put", n |-> message.n, id |-> message.id,
                                               base |-> 0]]
         /\ UNCHANGED <<responses, ready>>

Put(s) ==
    /\ handler[s].at = "put"
    /\ Len(responses[s]) < MaxResponses
    /\ Reply(s, Message("reply", handler[s].n, handler[s].id))
    /\ UNCHANGED <<events, closed, writer, client, subscribers, pump, orphans, pushed, queue, missed>>

\* send_event_nowait: the newest events stay.
WithEvent(deque, message) ==
    LET all == Append(deque, message)
    IN  IF Len(all) > MaxEvents THEN Tail(all) ELSE all

\* writer(): replies before events, and never beside a message without ready.
WriterTakes(s) ==
    /\ writer[s].at = "wait"
    /\ ready[s]
    /\ \/ /\ responses[s] # <<>>
          /\ writer' = [writer EXCEPT ![s] = [at |-> "send", message |-> Head(responses[s])]]
          /\ responses' = [responses EXCEPT ![s] = Tail(@)]
          /\ UNCHANGED <<events, ready>>
       \/ /\ responses[s] = <<>> /\ events[s] # <<>>
          /\ writer' = [writer EXCEPT ![s] = [at |-> "send", message |-> Head(events[s])]]
          /\ events' = [events EXCEPT ![s] = Tail(@)]
          /\ UNCHANGED <<responses, ready>>
       \/ /\ responses[s] = <<>> /\ events[s] = <<>>
          /\ ready' = [ready EXCEPT ![s] = FALSE]
          /\ writer' = [writer EXCEPT ![s].at = IF closed[s] THEN "over" ELSE "wait"]
          /\ UNCHANGED <<responses, events>>
    /\ UNCHANGED <<handler, closed, client, subscribers, pump, orphans, pushed, queue, missed>>

Noticed(s, m) ==
    (IF m.kind = "reply" /\ m.n # client[s].read + 1 THEN {"order"} ELSE {})
        \cup (IF m.kind = "event" /\ m.id \notin client[s].ids THEN {"early"} ELSE {})

\* The client reads the message, or is gone and the writer dies of it.
WriterSends(s) ==
    /\ writer[s].at = "send"
    /\ LET m == writer[s].message IN
       IF client[s].left
       THEN /\ writer' = [writer EXCEPT ![s] = [at |-> "over", message |-> NoMessage]]
            /\ UNCHANGED client
       ELSE /\ writer' = [writer EXCEPT ![s] = [at |-> "wait", message |-> NoMessage]]
            /\ client' = [client EXCEPT
                   ![s].read = IF m.kind = "reply" THEN m.n ELSE @,
                   ![s].ids = IF m.kind = "reply" THEN @ \cup {m.id} ELSE @,
                   ![s].odd = @ \cup Noticed(s, m)]
    /\ UNCHANGED <<handler, responses, events, ready, closed, subscribers, pump, orphans, pushed,
                   queue, missed>>

-----------------------------------------------------------------------------
(* _QuoteHub: subscribe and unsubscribe                                    *)

\* A push that goes to nobody new: every subscription that has not had it, and
\* every handler that has its baseline but is not registered, misses it.
PassedBy(push, served) ==
    { sub.id : sub \in { sub \in subscribers \ served : sub.base < push } }

\* Mutant of StopPump: every unsubscribe ends the pump.
StopPumpAlways(left) ==
    IF pump.at # "off"
    THEN /\ pump' = Off
         /\ orphans' = IF pump.at = "poll" THEN orphans + 1 ELSE orphans
    ELSE UNCHANGED <<pump, orphans>>

\* Without subscribers there is no pump: the task is cancelled and awaited, its
\* thread goes on.
StopPump(left) ==
    IF left = {} /\ pump.at # "off"
    THEN /\ pump' = Off
         /\ orphans' = IF pump.at = "poll" THEN orphans + 1 ELSE orphans
    ELSE UNCHANGED <<pump, orphans>>

\* The number of the request that is received next.
Number(s) == client[s].sent - Len(client[s].inbox) + 1
Received(s, kinds) == client[s].inbox # <<>> /\ Head(client[s].inbox) \in kinds
Taken(s) == client' = [client EXCEPT ![s].inbox = Tail(@)]

\* The first page is read in a thread ...
Baseline(s) ==
    /\ handler[s].at = "receive"
    /\ Received(s, {"subscribe"})
    /\ handler' = [handler EXCEPT ![s] =
                     [at |-> "baseline", n |-> Number(s), id |-> 0, base |-> pushed]]
    /\ Taken(s)
    /\ UNCHANGED <<responses, events, ready, closed, writer, subscribers, pump, orphans, pushed,
                   queue, missed>>

\* ... and on the loop the subscription is registered, the pump started when
\* none runs, and the reply sent without another await.
SubId(s) == CHOOSE id \in Ids \ { sub.id : sub \in subscribers \cup pump.snapshot } : TRUE

Register(s) ==
    /\ handler[s].at = "baseline"
    /\ LET id == SubId(s) IN
       /\ subscribers' = subscribers \cup {[id |-> id, socket |-> s, base |-> handler[s].base]}
       /\ Reply(s, Message("reply", handler[s].n, id))
    /\ pump' = IF pump.at = "off" THEN [Off EXCEPT !.at = "look"] ELSE pump
    /\ UNCHANGED <<events, closed, writer, client, orphans, pushed, queue, missed>>

\* get_depth fails: an error is the reply.
BaselineFails(s) ==
    /\ handler[s].at = "baseline"
    /\ Reply(s, Message("reply", handler[s].n, 0))
    /\ UNCHANGED <<events, closed, writer, client, subscribers, pump, orphans, pushed, queue, missed>>

Own(s) == { sub \in subscribers : sub.socket = s }

\* Any other method runs in a thread; quotes.unsubscribe names a subscription
\* that may be gone already.
Call(s) ==
    /\ handler[s].at = "receive"
    /\ Received(s, {"call"})
    /\ Taken(s)
    /\ Reply(s, Message("reply", Number(s), 0))
    /\ UNCHANGED <<events, closed, writer, subscribers, pump, orphans, pushed, queue, missed>>

Unsubscribe(s) ==
    /\ handler[s].at = "receive"
    /\ Received(s, {"unsubscribe"})
    /\ Taken(s)
    /\ \E gone \in {{}} \cup { {sub} : sub \in Own(s) } :
          /\ subscribers' = subscribers \ gone
          /\ StopPump(subscribers \ gone)
    /\ Reply(s, Message("reply", Number(s), 0))
    /\ UNCHANGED <<events, closed, writer, pushed, queue, missed>>

\* The disconnect is the last thing that is received: session.close(), then
\* remove_session, one subscription after the other, then the writer is ended.
Leave(s) ==
    /\ handler[s].at = "receive"
    /\ client[s].left
    /\ client[s].inbox = <<>>
    /\ handler' = [handler EXCEPT ![s].at = "leave"]
    /\ closed' = [closed EXCEPT ![s] = TRUE]
    /\ ready' = [ready EXCEPT ![s] = TRUE]
    /\ UNCHANGED <<responses, events, writer, client, subscribers, pump, orphans, pushed, queue,
                   missed>>

RemoveSession(s) ==
    /\ handler[s].at = "leave"
    /\ IF Own(s) = {}
       THEN /\ handler' = [handler EXCEPT ![s].at = "gone"]
            /\ writer' = [writer EXCEPT ![s] = [at |-> "over", message |-> NoMessage]]
            /\ UNCHANGED <<subscribers, pump, orphans>>
       ELSE /\ \E sub \in Own(s) :
                  /\ subscribers' = subscribers \ {sub}
                  /\ StopPump(subscribers \ {sub})
            /\ UNCHANGED <<handler, writer>>
    /\ UNCHANGED <<responses, events, ready, closed, client, pushed, queue, missed>>

-----------------------------------------------------------------------------
(* _QuoteHub: the pump                                                     *)

\* The subscribers of this round are those of now.
PumpLooks ==
    /\ pump.at = "look"
    /\ pump' = [pump EXCEPT !.at = "poll", !.snapshot = subscribers]
    /\ UNCHANGED <<handler, responses, events, ready, closed, writer, client, subscribers, orphans,
                   pushed, queue, missed>>

\* poll_push in its thread: a push, or none in time, and the pump looks anew.
PumpPolls ==
    /\ pump.at = "poll"
    /\ IF queue # <<>>
       THEN /\ pump' = [pump EXCEPT !.at = "got", !.push = Head(queue)]
            /\ queue' = Tail(queue)
       ELSE /\ pump' = [Off EXCEPT !.at = "look"]
            /\ UNCHANGED queue
    /\ UNCHANGED <<handler, responses, events, ready, closed, writer, client, subscribers, orphans,
                   pushed, missed>>

\* The deque of a session with the record in hand for one of its subscriptions.
Told(sub, deque) == WithEvent(deque, Message("event", pump.push, sub.id))

\* The record goes to the subscribers of the round whose session is not closed;
\* the next round begins without an await.
PumpDelivers ==
    /\ pump.at = "got"
    /\ LET reached == { sub \in pump.snapshot : ~closed[sub.socket] }
           told == { sub.socket : sub \in reached } IN
       /\ events' = [s \in Sockets |->
             FoldSet(Told, events[s], { sub \in reached : sub.socket = s })]
       /\ ready' = [s \in Sockets |-> ready[s] \/ s \in told]
    /\ missed' = missed \cup PassedBy(pump.push, pump.snapshot)
    /\ pump' = [at |-> "poll", snapshot |-> subscribers, push |-> 0]
    /\ UNCHANGED <<handler, responses, closed, writer, client, subscribers, orphans, pushed, queue>>

\* A cancelled poll takes a push that nobody gets.
OrphanPolls ==
    /\ orphans > 0
    /\ orphans' = orphans - 1
    /\ IF queue # <<>>
       THEN /\ queue' = Tail(queue)
            /\ missed' = missed \cup PassedBy(Head(queue), {})
       ELSE UNCHANGED <<queue, missed>>
    /\ UNCHANGED <<handler, responses, events, ready, closed, writer, client, subscribers, pump,
                   pushed>>

-----------------------------------------------------------------------------

HandlerStep(s) ==
    \/ Put(s) \/ Baseline(s) \/ BaselineFails(s) \/ Register(s)
    \/ Call(s) \/ Unsubscribe(s) \/ Leave(s) \/ RemoveSession(s)
WriterStep(s) == WriterTakes(s) \/ WriterSends(s)
PumpStep == PumpLooks \/ PumpPolls \/ PumpDelivers

GatewayNext ==
    \/ \E s \in Sockets :
          \/ HandlerStep(s) \/ WriterStep(s) \/ Disconnect(s)
          \/ \E kind \in {"subscribe", "unsubscribe", "call"} : Send(s, kind)
    \/ PumpStep \/ OrphanPolls
    \/ Push

GatewaySpec == GatewayInit /\ [][GatewayNext]_gatewayVars

-----------------------------------------------------------------------------

\* There is a pump exactly while somebody is subscribed, however subscriptions
\* and their ends cross each other; and a session that is over has none.
PumpWhileSubscribed ==
    /\ (subscribers # {}) <=> (pump.at # "off")
    /\ \A s \in Sockets : handler[s].at = "gone" => Own(s) = {}

\* A client reads the replies in the order of its requests, each once, and no
\* event of a subscription before the reply that tells its id.
RepliesComeFirst == \A s \in Sockets : client[s].odd = {}

\* Every request is answered while its client stays, and the session of a
\* client that leaves comes to its end: the writer never sleeps beside a
\* message and the handler never waits for room that nobody makes.
GatewayAnswers ==
    \A s \in Sockets :
        /\ client[s].read < client[s].sent ~> client[s].left \/ client[s].read = client[s].sent
        /\ client[s].left ~> handler[s].at = "gone"

\* "subsequent updates arrive as quote events": no update that comes after a
\* subscription's baseline passes a registered subscription by.
SubsequentUpdatesArrive == missed = {}

=============================================================================
