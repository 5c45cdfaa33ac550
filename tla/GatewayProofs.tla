----------------------------- MODULE GatewayProofs -----------------------------
(***************************************************************************)
(* What is proved of the two places where answers are put on one line and  *)
(* told apart by their order alone.                                        *)
(*                                                                         *)
(*   the gateway's WebSocket sessions (HttpGateway): IInv, by which the    *)
(*     replies that a client has read, that are on their way and that are  *)
(*     still to be given are those to its requests, one after the other;   *)
(*   the blocking quote clients (QuoteSessions): SessionInv, by which a    *)
(*     line with an answer still to be read is one of which a failure was  *)
(*     told.                                                               *)
(***************************************************************************)
EXTENDS HttpGateway, QuoteSessions, FiniteSetTheorems, TLAPS

-----------------------------------------------------------------------------
(* The gateway: the invariant                                              *)

\* The ids a reply may tell: that of a new subscription, or none.
Id == { CHOOSE id \in V : TRUE : V \in SUBSET Ids } \cup {0}

Messages == [kind : {"none", "reply", "event"}, n : Int, id : Id]
Handlers == [at : {"receive", "baseline", "put", "leave", "gone"}, n : Int, id : Id, base : Nat]
WriterStates == [at : {"wait", "send", "over"}, message : Messages]
Clients == [sent : Nat, inbox : Seq({"subscribe", "unsubscribe", "call"}), read : Int,
            ids : SUBSET Id, left : BOOLEAN, odd : SUBSET {"order", "early"}]
SubscriberStates == [id : Id, socket : Sockets, base : Nat]
Pumps == [at : {"off", "look", "poll", "got"}, snapshot : SUBSET SubscriberStates, push : Nat]

Typed ==
    /\ handler \in [Sockets -> Handlers]
    /\ responses \in [Sockets -> Seq(Messages)]
    /\ events \in [Sockets -> Seq(Messages)]
    /\ ready \in [Sockets -> BOOLEAN]
    /\ closed \in [Sockets -> BOOLEAN]
    /\ writer \in [Sockets -> WriterStates]
    /\ client \in [Sockets -> Clients]
    /\ subscribers \in SUBSET SubscriberStates /\ IsFiniteSet(subscribers)
    /\ pump \in Pumps /\ IsFiniteSet(pump.snapshot)
    /\ pushed \in Nat
    /\ queue \in Seq(Nat)

\* The reply the writer sends.
ReplyOut(s) == writer[s].at = "send" /\ writer[s].message.kind = "reply"
OnWire(s) == IF ReplyOut(s) THEN 1 ELSE 0
InHand(s) == IF handler[s].at = "baseline" THEN 1 ELSE 0

\* The ids the client knows, or will know when it has read the replies on their way.
Knows(s, id) ==
    \/ id \in client[s].ids
    \/ ReplyOut(s) /\ writer[s].message.id = id
    \/ \E i \in 1 .. Len(responses[s]) : responses[s][i].id = id

\* While its client is there, every request of a connection is at one place:
\* its reply read, on the wire or queued, its handler at work, or in the inbox.
Counted(s) ==
    /\ handler[s].at \in {"receive", "baseline"}
    /\ writer[s].at \in {"wait", "send"} /\ ~closed[s]
    /\ client[s].sent = client[s].read + OnWire(s) + Len(responses[s]) + InHand(s)
                        + Len(client[s].inbox)
    /\ client[s].sent <= client[s].read + Ahead

\* The replies are numbered as the requests were.
Numbered(s) ==
    /\ ReplyOut(s) => writer[s].message.n = client[s].read + 1
    /\ \A i \in 1 .. Len(responses[s]) :
          responses[s][i].kind = "reply" /\ responses[s][i].n = client[s].read + OnWire(s) + i
    /\ handler[s].at = "baseline" =>
          handler[s].n = client[s].read + OnWire(s) + Len(responses[s]) + 1

\* Events are of subscriptions the client knows of by then.
Announced(s) ==
    /\ \A i \in 1 .. Len(events[s]) : events[s][i].kind = "event" /\ Knows(s, events[s][i].id)
    /\ writer[s].at = "send" /\ ~ReplyOut(s) => writer[s].message.id \in client[s].ids
    /\ \A sub \in subscribers \cup pump.snapshot : sub.socket = s => Knows(s, sub.id)

Present(s) == Counted(s) /\ Numbered(s) /\ Announced(s)

IInv == /\ Typed
        /\ \A s \in Sockets : client[s].odd = {} /\ (~client[s].left => Present(s))

-----------------------------------------------------------------------------
(* The types. *)

Delivering == INSTANCE FoldInduction WITH P <- IsFiniteSet, op <- Told

LEMMA Constants ==
  ASSUME GatewayAssumption
  PROVE  MaxRequests \in Nat /\ MaxResponses \in Nat \ {0} /\ MaxEvents \in Nat \ {0} /\ Ahead \in Nat
  BY DEF GatewayAssumption

LEMMA FreshIds == \A s : SubId(s) \in Id
<1> TAKE s
<1>1. PICK V : V = Ids \ { sub.id : sub \in subscribers \cup pump.snapshot }
  OBVIOUS
<1>2. SubId(s) = CHOOSE id \in V : TRUE
  BY <1>1 DEF SubId
<1>3. V \in SUBSET Ids
  BY <1>1
<1> QED
  BY <1>2, <1>3 DEF Id

LEMMA MessageTyped ==
  ASSUME NEW sort \in {"none", "reply", "event"}, NEW n \in Int, NEW id \in Id
  PROVE  /\ Message(sort, n, id) \in Messages
         /\ Message(sort, n, id).kind = sort /\ Message(sort, n, id).n = n
         /\ Message(sort, n, id).id = id
  BY DEF Message, Messages

LEMMA Blanks ==
    /\ 0 \in Id /\ NoMessage \in Messages /\ NoMessage.kind = "none" /\ Receiving \in Handlers
    /\ Receiving.at = "receive" /\ Off \in Pumps /\ IsFiniteSet(Off.snapshot) /\ Off.snapshot = {}
<1>1. 0 \in Id
  BY DEF Id
<1> QED
  BY <1>1, FS_EmptySet DEF NoMessage, Messages, Receiving, Handlers, Off, Pumps

\* The parts of a sequence that is not empty.
LEMMA HeadAndTail ==
  ASSUME NEW M, NEW q \in Seq(M), q # <<>>
  PROVE  Head(q) \in M /\ Tail(q) \in Seq(M)
  OBVIOUS

\* The number of the next request is a number.
LEMMA NumberTyped == Typed => \A s \in Sockets : Number(s) \in Int
<1> SUFFICES ASSUME Typed, NEW s \in Sockets PROVE Number(s) \in Int
  OBVIOUS
<1>1. client[s] \in Clients
  BY DEF Typed
<1>2. client[s].sent \in Nat /\ Len(client[s].inbox) \in Nat
  BY <1>1 DEF Clients
<1> QED
  BY <1>2 DEF Number

\* A deque after one event more holds what it held, or the event.
LEMMA WithEventTyped ==
  ASSUME NEW M, NEW q \in Seq(M), NEW m \in M
  PROVE  WithEvent(q, m) \in Seq(M)
<1>1. PICK all : all = Append(q, m)
  OBVIOUS
<1>2. all \in Seq(M) /\ all # <<>>
  BY <1>1
<1>3. Tail(all) \in Seq(M)
  BY <1>2
<1> QED
  BY <1>1, <1>2, <1>3 DEF WithEvent

\* What is true of all that is in a session's deque and of its records on the
\* way, is true of the deque after the delivery.
LEMMA DeliveredFold ==
  ASSUME NEW M, NEW S, IsFiniteSet(S), NEW q \in Seq(M),
         \A sub \in S : Message("event", pump.push, sub.id) \in M
  PROVE  FoldSet(Told, q, S) \in Seq(M)
<1>1. \A a \in Seq(M) : \A sub \in S : Told(sub, a) \in Seq(M)
  BY WithEventTyped DEF Told
<1>2. Delivering!FoldSet(Told, q, S) \in Seq(M)
  <2>1. PICK R : R = Seq(M)
    OBVIOUS
  <2>2. q \in R /\ \A a \in R : \A sub \in S : Told(sub, a) \in R
    BY <1>1, <2>1
  <2>3. Delivering!IsFiniteSet(S)
    BY DEF IsFiniteSet, Delivering!IsFiniteSet
  <2>4. Delivering!FoldSet(Told, q, S) \in R
    BY <2>2, <2>3, Delivering!FoldSetKeeps
  <2> QED
    BY <2>1, <2>4
<1>3. Delivering!FoldSet(Told, q, S) = FoldSet(Told, q, S)
  BY DEF FoldSet, Delivering!FoldSet, MapThenFoldSet, Delivering!MapThenFoldSet
<1> QED
  BY <1>2, <1>3

\* What a reply of s with a message does to the types.
LEMMA ReplyTyped ==
  ASSUME Typed, GatewayAssumption, NEW s \in Sockets, NEW m \in Messages, Reply(s, m)
  PROVE  /\ handler' \in [Sockets -> Handlers] /\ responses' \in [Sockets -> Seq(Messages)]
         /\ ready' \in [Sockets -> BOOLEAN]
<1>1. m.n \in Int /\ m.id \in Id
  BY DEF Messages
<1>2. [at |-> "put", n |-> m.n, id |-> m.id, base |-> 0] \in Handlers
  BY <1>1 DEF Handlers
<1>3. responses[s] \in Seq(Messages) /\ Append(responses[s], m) \in Seq(Messages)
  BY DEF Typed
<1> QED
  BY <1>2, <1>3, Blanks DEF Typed, Reply

LEMMA StopPumpTyped ==
  ASSUME Typed, NEW left, StopPump(left)
  PROVE  pump' \in Pumps /\ IsFiniteSet(pump'.snapshot) /\ pump'.snapshot \subseteq pump.snapshot
<1>1. pump' = Off \/ pump' = pump
  BY DEF StopPump
<1> QED
  BY <1>1, Blanks DEF Typed

LEMMA InitTyped == GatewayAssumption /\ GatewayInit => Typed
<1> SUFFICES ASSUME GatewayAssumption, GatewayInit PROVE Typed
  OBVIOUS
<1>1. [sent |-> 0, inbox |-> <<>>, read |-> 0, ids |-> {}, left |-> FALSE, odd |-> {}] \in Clients
  BY DEF Clients
<1>2. [at |-> "wait", message |-> NoMessage] \in WriterStates
  BY Blanks DEF WriterStates
<1> QED
  BY <1>1, <1>2, Blanks, FS_EmptySet DEF GatewayInit, Typed

\* What each step does, its types first.
LEMMA TypedStep ==
  ASSUME Typed, GatewayAssumption, [GatewayNext]_gatewayVars
  PROVE  Typed'
<1> USE DEF Typed
<1>1. CASE UNCHANGED gatewayVars
  BY <1>1 DEF gatewayVars
<1>2. ASSUME NEW s \in Sockets, NEW ask \in {"subscribe", "unsubscribe", "call"}, Send(s, ask)
      PROVE  Typed'
  <2>1. client[s] \in Clients
    OBVIOUS
  <2>2. [client[s] EXCEPT !.sent = @ + 1, !.inbox = Append(@, ask)] \in Clients
    <3>1. client[s].sent + 1 \in Nat
      BY <2>1 DEF Clients
    <3>2. Append(client[s].inbox, ask) \in Seq({"subscribe", "unsubscribe", "call"})
      BY <2>1 DEF Clients
    <3> QED
      BY <2>1, <3>1, <3>2, Zenon DEF Clients
  <2>3. client' = [client EXCEPT ![s] = [client[s] EXCEPT !.sent = @ + 1, !.inbox = Append(@, ask)]]
    BY <1>2 DEF Send
  <2>4. client' \in [Sockets -> Clients]
    BY <2>2, <2>3
  <2> QED
    BY <1>2, <2>4 DEF Send
<1>3. ASSUME NEW s \in Sockets, Disconnect(s) PROVE Typed'
  <2>1. client' \in [Sockets -> Clients]
    BY <1>3, ZenonT(40) DEF Disconnect, Clients
  <2> QED
    BY <1>3, <2>1 DEF Disconnect
<1>4. CASE Push
  <2>1. pushed' \in Nat /\ queue' \in Seq(Nat)
    BY <1>4 DEF Push
  <2> QED
    BY <1>4, <2>1 DEF Push
<1>5. ASSUME NEW s \in Sockets, Put(s) PROVE Typed'
  <2>1. Message("reply", handler[s].n, handler[s].id) \in Messages
    BY MessageTyped DEF Handlers
  <2> QED
    BY <1>5, <2>1, ReplyTyped DEF Put
<1>6. ASSUME NEW s \in Sockets, WriterTakes(s) PROVE Typed'
  <2>1. writer[s] \in WriterStates /\ responses[s] \in Seq(Messages) /\ events[s] \in Seq(Messages)
    OBVIOUS
  <2>2. \A m \in Messages : [at |-> "send", message |-> m] \in WriterStates
    BY DEF WriterStates
  <2>3. responses[s] # <<>> => Head(responses[s]) \in Messages /\ Tail(responses[s]) \in Seq(Messages)
    BY <2>1, HeadAndTail
  <2>4. events[s] # <<>> => Head(events[s]) \in Messages /\ Tail(events[s]) \in Seq(Messages)
    BY <2>1, HeadAndTail
  <2>5. [writer[s] EXCEPT !.at = IF closed[s] THEN "over" ELSE "wait"] \in WriterStates
    BY <2>1 DEF WriterStates
  <2>6. /\ writer' \in [Sockets -> WriterStates] /\ responses' \in [Sockets -> Seq(Messages)]
        /\ events' \in [Sockets -> Seq(Messages)] /\ ready' \in [Sockets -> BOOLEAN]
    <3>1. CASE responses[s] # <<>>
      BY <1>6, <2>2, <2>3, <3>1, ZenonT(40) DEF WriterTakes
    <3>2. CASE responses[s] = <<>> /\ events[s] # <<>>
      BY <1>6, <2>2, <2>4, <3>2, ZenonT(40) DEF WriterTakes
    <3>3. CASE responses[s] = <<>> /\ events[s] = <<>>
      BY <1>6, <2>5, <3>3, ZenonT(40) DEF WriterTakes
    <3> QED
      BY <3>1, <3>2, <3>3
  <2> QED
    BY <1>6, <2>6 DEF WriterTakes
<1>7. ASSUME NEW s \in Sockets, WriterSends(s) PROVE Typed'
  <2>1. PICK m \in Messages : m = writer[s].message
    BY DEF WriterStates
  <2>2. [at |-> "over", message |-> NoMessage] \in WriterStates
        /\ [at |-> "wait", message |-> NoMessage] \in WriterStates
    BY Blanks DEF WriterStates
  <2>3. writer' \in [Sockets -> WriterStates]
    BY <1>7, <2>2, ZenonT(40) DEF WriterSends
  <2>4. client' \in [Sockets -> Clients]
    <3>1. CASE client[s].left
      BY <1>7, <3>1 DEF WriterSends
    <3>2. CASE ~client[s].left
      <4> DEFINE c == [client[s] EXCEPT
                         !.read = IF m.kind = "reply" THEN m.n ELSE @,
                         !.ids = IF m.kind = "reply" THEN @ \cup {m.id} ELSE @,
                         !.odd = @ \cup Noticed(s, m)]
      <4>1. Noticed(s, m) \subseteq {"order", "early"}
        BY DEF Noticed
      <4>2. client[s] \in Clients /\ m.n \in Int /\ m.id \in Id
        BY DEF Messages
      <4>3. c \in Clients
        BY <4>1, <4>2 DEF Clients
      <4>4. client' = [client EXCEPT ![s] = c]
        BY <1>7, <2>1, <3>2 DEF WriterSends
      <4> QED
        BY <4>3, <4>4
    <3> QED
      BY <3>1, <3>2
  <2> QED
    BY <1>7, <2>3, <2>4 DEF WriterSends
<1>8. ASSUME NEW s \in Sockets, Taken(s), Received(s, {"subscribe", "unsubscribe", "call"})
      PROVE  client' \in [Sockets -> Clients]
  <2>1. client[s] \in Clients /\ client[s].inbox # <<>>
    BY <1>8 DEF Received
  <2>2. [client[s] EXCEPT !.inbox = Tail(@)] \in Clients
    <3>1. client[s].inbox \in Seq({"subscribe", "unsubscribe", "call"})
      BY <2>1 DEF Clients
    <3>2. Tail(client[s].inbox) \in Seq({"subscribe", "unsubscribe", "call"})
      BY <2>1, <3>1, HeadAndTail
    <3> QED
      BY <2>1, <3>2, Zenon DEF Clients
  <2> QED
    BY <1>8, <2>2 DEF Taken
<1>9. ASSUME NEW s \in Sockets, Baseline(s) PROVE Typed'
  <2>1. Number(s) \in Int /\ 0 \in Id
    BY NumberTyped, Blanks
  <2>2. [at |-> "baseline", n |-> Number(s), id |-> 0, base |-> pushed] \in Handlers
    BY <2>1 DEF Handlers
  <2>3. client' \in [Sockets -> Clients]
    BY <1>8, <1>9 DEF Baseline, Received
  <2> QED
    BY <1>9, <2>2, <2>3 DEF Baseline
<1>10. ASSUME NEW s \in Sockets, Register(s) PROVE Typed'
  <2>1. PICK m : m = Message("reply", handler[s].n, SubId(s))
    OBVIOUS
  <2>2. handler[s].n \in Int /\ handler[s].base \in Nat /\ SubId(s) \in Id
    BY FreshIds DEF Handlers
  <2>3. m \in Messages
    BY <2>1, <2>2, MessageTyped
  <2>4. PICK new \in SubscriberStates : new = [id |-> SubId(s), socket |-> s, base |-> handler[s].base]
    BY <2>2 DEF SubscriberStates
  <2>5. subscribers' = subscribers \cup {new} /\ Reply(s, m)
    BY <1>10, <2>1, <2>4 DEF Register
  <2>6. IsFiniteSet(subscribers')
    BY <2>5, FS_AddElement
  <2>7. pump' \in Pumps /\ IsFiniteSet(pump'.snapshot)
    <3>1. [Off EXCEPT !.at = "look"] \in Pumps /\ [Off EXCEPT !.at = "look"].snapshot = {}
      BY Blanks DEF Pumps
    <3>2. pump' = pump \/ pump' = [Off EXCEPT !.at = "look"]
      BY <1>10 DEF Register
    <3> QED
      BY <3>1, <3>2, FS_EmptySet
  <2> QED
    BY <1>10, <2>3, <2>5, <2>6, <2>7, ReplyTyped DEF Register
<1>11. ASSUME NEW s \in Sockets, BaselineFails(s) PROVE Typed'
  <2>1. Message("reply", handler[s].n, 0) \in Messages
    BY MessageTyped, Blanks DEF Handlers
  <2> QED
    BY <1>11, <2>1, ReplyTyped DEF BaselineFails
<1>12. ASSUME NEW s \in Sockets, Call(s) PROVE Typed'
  <2>1. Message("reply", Number(s), 0) \in Messages
    BY MessageTyped, NumberTyped, Blanks
  <2>2. client' \in [Sockets -> Clients]
    BY <1>8, <1>12 DEF Call, Received
  <2> QED
    BY <1>12, <2>1, <2>2, ReplyTyped DEF Call
<1>13. ASSUME NEW s \in Sockets, Unsubscribe(s) PROVE Typed'
  <2>1. Message("reply", Number(s), 0) \in Messages
    BY MessageTyped, NumberTyped, Blanks
  <2>2. client' \in [Sockets -> Clients]
    BY <1>8, <1>13 DEF Unsubscribe, Received
  <2>3. PICK gone : subscribers' = subscribers \ gone /\ StopPump(subscribers \ gone)
    BY <1>13 DEF Unsubscribe
  <2>4. IsFiniteSet(subscribers') /\ subscribers' \in SUBSET SubscriberStates
    BY <2>3, FS_Subset
  <2>5. pump' \in Pumps /\ IsFiniteSet(pump'.snapshot)
    BY <2>3, StopPumpTyped
  <2> QED
    BY <1>13, <2>1, <2>2, <2>4, <2>5, ReplyTyped DEF Unsubscribe
<1>14. ASSUME NEW s \in Sockets, Leave(s) PROVE Typed'
  <2>1. handler' \in [Sockets -> Handlers]
    BY <1>14, ZenonT(40) DEF Leave, Handlers
  <2> QED
    BY <1>14, <2>1 DEF Leave
<1>15. ASSUME NEW s \in Sockets, RemoveSession(s) PROVE Typed'
  <2>1. CASE Own(s) = {}
    <3>1. handler' \in [Sockets -> Handlers]
      <4>1. [handler[s] EXCEPT !.at = "gone"] \in Handlers
        BY DEF Handlers
      <4>2. handler' = [handler EXCEPT ![s] = [handler[s] EXCEPT !.at = "gone"]]
        BY <1>15, <2>1 DEF RemoveSession
      <4> QED
        BY <4>1, <4>2
    <3>2. [at |-> "over", message |-> NoMessage] \in WriterStates
      BY Blanks DEF WriterStates
    <3>3. writer' \in [Sockets -> WriterStates]
      BY <1>15, <2>1, <3>2 DEF RemoveSession
    <3> QED
      BY <1>15, <2>1, <3>1, <3>3 DEF RemoveSession
  <2>2. CASE Own(s) # {}
    <3>1. PICK sub : subscribers' = subscribers \ {sub} /\ StopPump(subscribers \ {sub})
      BY <1>15, <2>2 DEF RemoveSession
    <3>2. IsFiniteSet(subscribers') /\ subscribers' \in SUBSET SubscriberStates
      BY <3>1, FS_Subset
    <3>3. pump' \in Pumps /\ IsFiniteSet(pump'.snapshot)
      BY <3>1, StopPumpTyped
    <3> QED
      BY <1>15, <2>2, <3>2, <3>3 DEF RemoveSession
  <2> QED
    BY <2>1, <2>2
<1>16. CASE PumpLooks
  <2>1. pump' \in Pumps
    BY <1>16 DEF PumpLooks, Pumps
  <2>2. pump'.snapshot = subscribers
    BY <1>16 DEF PumpLooks, Pumps
  <2> QED
    BY <1>16, <2>1, <2>2 DEF PumpLooks
<1>17. CASE PumpPolls
  <2>1. CASE queue # <<>>
    <3>1. Head(queue) \in Nat /\ queue' \in Seq(Nat)
      BY <1>17, <2>1, HeadAndTail, ZenonT(40) DEF PumpPolls
    <3>2. pump' \in Pumps /\ pump'.snapshot = pump.snapshot
      BY <1>17, <2>1, <3>1 DEF PumpPolls, Pumps
    <3> QED
      BY <1>17, <3>1, <3>2 DEF PumpPolls
  <2>2. CASE queue = <<>>
    <3>1. [Off EXCEPT !.at = "look"] \in Pumps /\ [Off EXCEPT !.at = "look"].snapshot = {}
      BY Blanks DEF Pumps
    <3>2. pump' \in Pumps /\ IsFiniteSet(pump'.snapshot)
      BY <1>17, <2>2, <3>1, FS_EmptySet DEF PumpPolls
    <3> QED
      BY <1>17, <2>2, <3>2 DEF PumpPolls
  <2> QED
    BY <2>1, <2>2
<1>18. CASE PumpDelivers
  <2>1. \A sub \in pump.snapshot : Message("event", pump.push, sub.id) \in Messages
    BY MessageTyped DEF Pumps, SubscriberStates
  <2>2. \A s \in Sockets : \A S : S \subseteq pump.snapshot => FoldSet(Told, events[s], S) \in Seq(Messages)
    <3> SUFFICES ASSUME NEW s \in Sockets, NEW S, S \subseteq pump.snapshot
                 PROVE  FoldSet(Told, events[s], S) \in Seq(Messages)
      OBVIOUS
    <3>1. IsFiniteSet(S)
      BY FS_Subset
    <3>2. \A sub \in S : Message("event", pump.push, sub.id) \in Messages
      BY <2>1
    <3>3. PICK q \in Seq(Messages) : q = events[s]
      OBVIOUS
    <3> QED
      BY <3>1, <3>2, <3>3, DeliveredFold
  <2>3. \A s \in Sockets : { sub \in { sub \in pump.snapshot : ~closed[sub.socket] } : sub.socket = s }
                             \subseteq pump.snapshot
    OBVIOUS
  <2>4. events' \in [Sockets -> Seq(Messages)] /\ ready' \in [Sockets -> BOOLEAN]
    BY <1>18, <2>2, <2>3 DEF PumpDelivers
  <2>5. pump' \in Pumps /\ pump'.snapshot = subscribers
    BY <1>18 DEF PumpDelivers, Pumps
  <2> QED
    BY <1>18, <2>4, <2>5 DEF PumpDelivers
<1>19. CASE OrphanPolls
  <2>1. queue' \in Seq(Nat)
    BY <1>19, HeadAndTail DEF OrphanPolls
  <2> QED
    BY <1>19, <2>1 DEF OrphanPolls
<1> QED
  BY <1>1, <1>2, <1>3, <1>4, <1>5, <1>6, <1>7, <1>9, <1>10, <1>11, <1>12, <1>13, <1>14, <1>15,
     <1>16, <1>17, <1>18, <1>19 DEF GatewayNext, HandlerStep, WriterStep, PumpStep

-----------------------------------------------------------------------------
(* What a connection is told. *)

Subs == subscribers \cup pump.snapshot

\* A step elsewhere changes nothing here.
LEMMA Elsewhere ==
  ASSUME NEW s \in Sockets, Present(s),
         handler'[s] = handler[s], responses'[s] = responses[s], events'[s] = events[s],
         writer'[s] = writer[s], client'[s] = client[s], closed'[s] = closed[s],
         \A sub \in Subs' : sub.socket = s => sub \in Subs
  PROVE  Present(s)'
<1>1. ReplyOut(s)' = ReplyOut(s)
  BY DEF ReplyOut
<1>2. OnWire(s)' = OnWire(s) /\ InHand(s)' = InHand(s)
  BY <1>1 DEF OnWire, InHand
<1>3. \A id : Knows(s, id)' = Knows(s, id)
  BY <1>1 DEF Knows
<1>4. Counted(s)'
  BY <1>2 DEF Present, Counted
<1>5. Numbered(s)'
  BY <1>1, <1>2 DEF Present, Numbered
<1>6. Announced(s)'
  BY <1>1, <1>3 DEF Present, Announced, Subs
<1> QED
  BY <1>4, <1>5, <1>6 DEF Present

LEMMA Numbers ==
  ASSUME Typed, NEW s \in Sockets
  PROVE  /\ client[s].sent \in Nat /\ client[s].read \in Int /\ Len(responses[s]) \in Nat
         /\ Len(client[s].inbox) \in Nat /\ responses[s] \in Seq(Messages)
         /\ OnWire(s) \in Nat /\ InHand(s) \in Nat
<1>1. client[s] \in Clients /\ responses[s] \in Seq(Messages)
  BY DEF Typed
<1>2. client[s].inbox \in Seq({"subscribe", "unsubscribe", "call"}) /\ client[s].sent \in Nat
      /\ client[s].read \in Int
  BY <1>1 DEF Clients
<1> QED
  BY <1>1, <1>2 DEF OnWire, InHand

\* Another message at the end of a queue.
LEMMA OneMore ==
  ASSUME NEW M, NEW q \in Seq(M), NEW m \in M, NEW r, r = Append(q, m)
  PROVE  /\ Len(q) \in Nat /\ Len(r) = Len(q) + 1 /\ r[Len(q) + 1] = m
         /\ \A i \in 1 .. Len(q) : r[i] = q[i] /\ i \in 1 .. Len(r)
         /\ Len(q) + 1 \in 1 .. Len(r)
         /\ \A i \in 1 .. Len(r) : i \in 1 .. Len(q) \/ i = Len(q) + 1
  OBVIOUS

\* One message less at its front.
LEMMA OneGone ==
  ASSUME NEW M, NEW q \in Seq(M), q # <<>>, NEW r, r = Tail(q)
  PROVE  /\ Len(q) \in Nat \ {0} /\ Len(r) = Len(q) - 1 /\ Head(q) = q[1] /\ 1 \in 1 .. Len(q)
         /\ \A i \in 1 .. Len(r) : i + 1 \in 1 .. Len(q) /\ r[i] = q[i + 1] /\ i \in Int
         /\ \A i \in 1 .. Len(q) : i # 1 => i - 1 \in 1 .. Len(r) /\ r[i - 1] = q[i]
  OBVIOUS

\* A reply in the queue: its request is accounted for, and the client will know its id.
LEMMA Replied ==
  ASSUME Typed, NEW s \in Sockets, Present(s), NEW n \in Int, NEW id \in Id,
         responses'[s] = Append(responses[s], Message("reply", n, id)),
         handler'[s].at = "receive", events'[s] = events[s],
         writer'[s] = writer[s], closed'[s] = closed[s],
         client'[s].sent = client[s].sent, client'[s].read = client[s].read,
         client'[s].ids = client[s].ids,
         Len(client'[s].inbox) + 1 = InHand(s) + Len(client[s].inbox),
         Len(client'[s].inbox) \in Nat,
         n = client[s].read + OnWire(s) + Len(responses[s]) + 1,
         \A sub \in Subs' : sub.socket = s => sub \in Subs \/ sub.id = id
  PROVE  Present(s)'
<1>1. PICK m : m = Message("reply", n, id)
  OBVIOUS
<1>2. m \in Messages /\ m.kind = "reply" /\ m.n = n /\ m.id = id
  BY <1>1, MessageTyped
<1>3. /\ responses[s] \in Seq(Messages) /\ client[s].sent \in Nat /\ client[s].read \in Int
      /\ OnWire(s) \in Nat /\ InHand(s) \in Nat /\ Len(client[s].inbox) \in Nat
  BY Numbers
<1>4. PICK q, r : q = responses[s] /\ r = responses'[s]
  OBVIOUS
<1>5. /\ Len(q) \in Nat /\ Len(r) = Len(q) + 1 /\ r[Len(q) + 1] = m
      /\ \A i \in 1 .. Len(q) : r[i] = q[i] /\ i \in 1 .. Len(r)
      /\ Len(q) + 1 \in 1 .. Len(r)
      /\ \A i \in 1 .. Len(r) : i \in 1 .. Len(q) \/ i = Len(q) + 1
  <2>1. q \in Seq(Messages) /\ m \in Messages /\ r = Append(q, m)
    BY <1>1, <1>2, <1>3, <1>4
  <2> QED
    BY <2>1, OneMore
<1>6. ReplyOut(s)' = ReplyOut(s)
  BY DEF ReplyOut
<1>7. OnWire(s)' = OnWire(s) /\ InHand(s)' = 0
  BY <1>6 DEF OnWire, InHand
<1>8. \A x : Knows(s, x) \/ x = id => Knows(s, x)'
  <2> SUFFICES ASSUME NEW x, Knows(s, x) \/ x = id PROVE Knows(s, x)'
    OBVIOUS
  <2>1. CASE \E i \in 1 .. Len(q) : q[i].id = x
    <3>1. PICK i \in 1 .. Len(q) : q[i].id = x
      BY <2>1
    <3>2. i \in 1 .. Len(r) /\ r[i].id = x
      BY <1>5, <3>1
    <3> QED
      BY <1>4, <3>2 DEF Knows
  <2>2. CASE x = id
    <3>1. r[Len(q) + 1].id = x
      BY <1>2, <1>5, <2>2
    <3> QED
      BY <1>4, <1>5, <3>1 DEF Knows
  <2>3. CASE x \in client[s].ids \/ (ReplyOut(s) /\ writer[s].message.id = x)
    BY <1>6, <2>3 DEF Knows
  <2> QED
    BY <1>4, <2>1, <2>2, <2>3 DEF Knows
<1>9. Counted(s)'
  <2>1. /\ writer[s].at \in {"wait", "send"} /\ ~closed[s]
        /\ client[s].sent = client[s].read + OnWire(s) + Len(q) + InHand(s) + Len(client[s].inbox)
        /\ client[s].sent <= client[s].read + Ahead
    BY <1>4 DEF Present, Counted
  <2>2. client[s].sent = client[s].read + OnWire(s) + Len(r) + 0 + Len(client'[s].inbox)
    <3>1. PICK a, b, c, e, f, g : /\ a = client[s].sent /\ b = client[s].read /\ c = OnWire(s)
                                  /\ e = InHand(s) /\ f = Len(client[s].inbox)
                                  /\ g = Len(client'[s].inbox)
      OBVIOUS
    <3>2. a \in Nat /\ b \in Int /\ c \in Nat /\ e \in Nat /\ f \in Nat /\ g \in Nat
      BY <1>3, <3>1
    <3>3. a = b + c + Len(q) + e + f /\ g + 1 = e + f
      BY <2>1, <3>1
    <3>4. a = b + c + Len(r) + 0 + g
      BY <1>5, <3>2, <3>3
    <3> QED
      BY <3>1, <3>4
  <2> QED
    BY <1>4, <1>7, <2>1, <2>2 DEF Counted
<1>10. Numbered(s)'
  <2>1. /\ ReplyOut(s) => writer[s].message.n = client[s].read + 1
        /\ \A i \in 1 .. Len(q) : q[i].kind = "reply" /\ q[i].n = client[s].read + OnWire(s) + i
    BY <1>4 DEF Present, Numbered
  <2>2. \A i \in 1 .. Len(r) : r[i].kind = "reply" /\ r[i].n = client[s].read + OnWire(s) + i
    <3> TAKE i \in 1 .. Len(r)
    <3>1. CASE i \in 1 .. Len(q)
      BY <1>5, <2>1, <3>1
    <3>2. CASE i = Len(q) + 1
      <4>1. n = client[s].read + OnWire(s) + i
        <5>1. PICK b, c, k : b = client[s].read /\ c = OnWire(s) /\ k = Len(q)
          OBVIOUS
        <5>2. b \in Int /\ c \in Nat /\ k \in Nat /\ n = b + c + k + 1 /\ i = k + 1
          BY <1>3, <1>4, <1>5, <3>2, <5>1
        <5>3. n = b + c + i
          BY <5>2
        <5> QED
          BY <5>1, <5>3
      <4> QED
        BY <1>2, <1>5, <3>2, <4>1
    <3> QED
      BY <1>5, <3>1, <3>2
  <2> QED
    BY <1>4, <1>6, <1>7, <2>1, <2>2 DEF Numbered
<1>11. Announced(s)'
  <2>1. /\ \A i \in 1 .. Len(events[s]) : events[s][i].kind = "event" /\ Knows(s, events[s][i].id)
        /\ writer[s].at = "send" /\ ~ReplyOut(s) => writer[s].message.id \in client[s].ids
        /\ \A sub \in Subs : sub.socket = s => Knows(s, sub.id)
    BY DEF Present, Announced, Subs
  <2>2. \A sub \in Subs' : sub.socket = s => Knows(s, sub.id)'
    BY <1>8, <2>1
  <2>3. \A i \in 1 .. Len(events[s]) : events[s][i].kind = "event" /\ Knows(s, events[s][i].id)'
    BY <1>8, <2>1
  <2> QED
    BY <1>6, <2>1, <2>2, <2>3 DEF Announced, Subs
<1> QED
  BY <1>9, <1>10, <1>11 DEF Present

\* There is room for the reply to a request that is under way.
LEMMA RoomForReply ==
  ASSUME Typed, GatewayAssumption, Ahead <= MaxResponses, NEW s \in Sockets, Present(s), NEW m,
         Reply(s, m), InHand(s) + Len(client[s].inbox) > 0
  PROVE  /\ responses' = [responses EXCEPT ![s] = Append(@, m)]
         /\ handler' = [handler EXCEPT ![s] = Receiving]
<1>1. /\ client[s].sent = client[s].read + OnWire(s) + Len(responses[s]) + InHand(s)
                          + Len(client[s].inbox)
      /\ client[s].sent <= client[s].read + Ahead
  BY DEF Present, Counted
<1>2. Len(responses[s]) < MaxResponses
  <2>1. PICK a, b, c, d, e, f : /\ a = client[s].sent /\ b = client[s].read /\ c = OnWire(s)
                                /\ d = Len(responses[s]) /\ e = InHand(s) /\ f = Len(client[s].inbox)
    OBVIOUS
  <2>2. a \in Nat /\ b \in Int /\ c \in Nat /\ d \in Nat /\ e \in Nat /\ f \in Nat
    BY <2>1, Numbers
  <2>3. a = b + c + d + e + f /\ a <= b + Ahead /\ e + f > 0
    BY <1>1, <2>1
  <2>4. d < MaxResponses
    BY <2>2, <2>3, Constants
  <2> QED
    BY <2>1, <2>4
<1> QED
  BY <1>2 DEF Reply

-----------------------------------------------------------------------------
(* What the steps do to the connections. *)

Good(s) == client[s].odd = {} /\ (~client[s].left => Present(s))

LEMMA Unmoved ==
  ASSUME NEW q \in Sockets, Good(q),
         handler'[q] = handler[q], responses'[q] = responses[q], events'[q] = events[q],
         writer'[q] = writer[q], client'[q] = client[q], closed'[q] = closed[q],
         \A sub \in Subs' : sub.socket = q => sub \in Subs
  PROVE  Good(q)'
<1>1. client[q].odd = {} /\ (~client[q].left => Present(q))
  BY DEF Good
<1>2. ~client[q].left => Present(q)'
  BY <1>1, Elsewhere
<1> QED
  BY <1>1, <1>2 DEF Good

\* Nothing happens to a client that has left.
LEMMA Departed ==
  ASSUME NEW q \in Sockets, Good(q), client'[q].left, client'[q].odd = client[q].odd
  PROVE  Good(q)'
  BY DEF Good

LEMMA ReplyElsewhere ==
  ASSUME Typed, NEW s \in Sockets, NEW q \in Sockets, q # s, NEW m, Reply(s, m)
  PROVE  handler'[q] = handler[q] /\ responses'[q] = responses[q]
  BY DEF Reply, Typed

LEMMA TakenOne ==
  ASSUME Typed, NEW s \in Sockets, Taken(s), client[s].inbox # <<>>
  PROVE  /\ client'[s].sent = client[s].sent /\ client'[s].read = client[s].read
         /\ client'[s].ids = client[s].ids /\ client'[s].left = client[s].left
         /\ client'[s].odd = client[s].odd
         /\ Len(client'[s].inbox) = Len(client[s].inbox) - 1
         /\ Len(client[s].inbox) \in Nat \ {0}
         /\ \A q \in Sockets : q # s => client'[q] = client[q]
<1>1. client[s] \in Clients /\ client' = [client EXCEPT ![s].inbox = Tail(@)]
      /\ client \in [Sockets -> Clients]
  BY DEF Typed, Taken
<1>2. client[s].inbox \in Seq({"subscribe", "unsubscribe", "call"})
  BY <1>1 DEF Clients
<1>3. client'[s].inbox = Tail(client[s].inbox)
  BY <1>1 DEF Clients
<1>4. Len(client'[s].inbox) = Len(client[s].inbox) - 1 /\ Len(client[s].inbox) \in Nat \ {0}
  BY <1>2, <1>3, OneGone
<1> QED
  BY <1>1, <1>4 DEF Clients

\* A request is received and answered at once, and its subscription, if it
\* named one, is gone.
LEMMA AnsweredAtOnce ==
  ASSUME Typed, GatewayAssumption, Ahead <= MaxResponses, NEW s \in Sockets, NEW q \in Sockets,
         Good(q), handler[s].at = "receive", client[s].inbox # <<>>, Taken(s),
         Reply(s, Message("reply", Number(s), 0)),
         events' = events, writer' = writer, closed' = closed,
         \A sub \in Subs' : sub \in Subs
  PROVE  Good(q)'
<1>1. client[q].odd = {} /\ (~client[q].left => Present(q))
  BY DEF Good
<1>2. /\ client'[s].sent = client[s].sent /\ client'[s].read = client[s].read
      /\ client'[s].ids = client[s].ids /\ client'[s].left = client[s].left
      /\ client'[s].odd = client[s].odd
      /\ Len(client'[s].inbox) = Len(client[s].inbox) - 1
      /\ Len(client[s].inbox) \in Nat \ {0}
      /\ \A p \in Sockets : p # s => client'[p] = client[p]
  BY TakenOne
<1>3. CASE q # s
  <2>1. handler'[q] = handler[q] /\ responses'[q] = responses[q]
    BY <1>3, ReplyElsewhere
  <2> QED
    BY <1>2, <1>3, <2>1, Unmoved
<1>4. CASE q = s /\ client[s].left
  BY <1>2, <1>4, Departed
<1>5. CASE q = s /\ ~client[s].left
  <2>1. Present(s)
    BY <1>1, <1>5
  <2>2. InHand(s) = 0
    BY DEF InHand
  <2>3. InHand(s) + Len(client[s].inbox) > 0
    BY <1>2, <2>2
  <2>4. PICK n : n = Number(s)
    OBVIOUS
  <2>5. /\ responses' = [responses EXCEPT ![s] = Append(@, Message("reply", n, 0))]
        /\ handler' = [handler EXCEPT ![s] = Receiving]
    BY <2>1, <2>3, <2>4, RoomForReply
  <2>6. responses'[s] = Append(responses[s], Message("reply", n, 0)) /\ handler'[s].at = "receive"
    BY <2>5, Blanks DEF Typed
  <2>7. n \in Int /\ 0 \in Id
    BY <2>4, NumberTyped, Blanks
  <2>8. n = client[s].read + OnWire(s) + Len(responses[s]) + 1
    <3>1. PICK a, b, c, d, f : /\ a = client[s].sent /\ b = client[s].read /\ c = OnWire(s)
                               /\ d = Len(responses[s]) /\ f = Len(client[s].inbox)
      OBVIOUS
    <3>2. a \in Nat /\ b \in Int /\ c \in Nat /\ d \in Nat /\ f \in Nat
      BY <3>1, Numbers
    <3>3. a = b + c + d + 0 + f /\ n = a - f + 1
      BY <2>1, <2>2, <2>4, <3>1 DEF Present, Counted, Number
    <3>4. n = b + c + d + 1
      BY <3>2, <3>3
    <3> QED
      BY <3>1, <3>4
  <2>9. Len(client'[s].inbox) + 1 = InHand(s) + Len(client[s].inbox) /\ Len(client'[s].inbox) \in Nat
    BY <1>2, <2>2
  <2>10. events'[s] = events[s] /\ writer'[s] = writer[s] /\ closed'[s] = closed[s]
    OBVIOUS
  <2>11. Present(s)'
    BY <1>2, <2>1, <2>6, <2>7, <2>8, <2>9, <2>10, Replied
  <2> QED
    BY <1>1, <1>2, <1>5, <2>11 DEF Good
<1> QED
  BY <1>3, <1>4, <1>5

\* The request of a handler at its baseline is answered, with the id of a new
\* subscription or with an error.
LEMMA AnsweredAfterBaseline ==
  ASSUME Typed, GatewayAssumption, Ahead <= MaxResponses, NEW s \in Sockets, NEW q \in Sockets,
         Good(q), handler[s].at = "baseline", client' = client, NEW id \in Id,
         Reply(s, Message("reply", handler[s].n, id)),
         events' = events, writer' = writer, closed' = closed,
         \A sub \in Subs' : sub \in Subs \/ (sub.socket = s /\ sub.id = id)
  PROVE  Good(q)'
<1>1. client[q].odd = {} /\ (~client[q].left => Present(q))
  BY DEF Good
<1>2. CASE q # s
  <2>1. handler'[q] = handler[q] /\ responses'[q] = responses[q]
    BY <1>2, ReplyElsewhere
  <2> QED
    BY <1>2, <2>1, Unmoved
<1>3. CASE q = s /\ client[s].left
  BY <1>3, Departed
<1>4. CASE q = s /\ ~client[s].left
  <2>1. Present(s)
    BY <1>1, <1>4
  <2>2. InHand(s) = 1
    BY DEF InHand
  <2>3. Len(client[s].inbox) \in Nat
    BY Numbers
  <2>4. InHand(s) + Len(client[s].inbox) > 0
    BY <2>2, <2>3
  <2>5. PICK n : n = handler[s].n
    OBVIOUS
  <2>6. /\ responses' = [responses EXCEPT ![s] = Append(@, Message("reply", n, id))]
        /\ handler' = [handler EXCEPT ![s] = Receiving]
    BY <2>1, <2>4, <2>5, RoomForReply
  <2>7. responses'[s] = Append(responses[s], Message("reply", n, id)) /\ handler'[s].at = "receive"
    BY <2>6, Blanks DEF Typed
  <2>8. n \in Int
    BY <2>5 DEF Typed, Handlers
  <2>9. n = client[s].read + OnWire(s) + Len(responses[s]) + 1
    BY <2>1, <2>5 DEF Present, Numbered
  <2>10. Len(client'[s].inbox) + 1 = InHand(s) + Len(client[s].inbox) /\ Len(client'[s].inbox) \in Nat
    BY <2>2, <2>3
  <2>11. events'[s] = events[s] /\ writer'[s] = writer[s] /\ closed'[s] = closed[s]
         /\ client'[s] = client[s]
    OBVIOUS
  <2>12. Present(s)'
    BY <2>1, <2>7, <2>8, <2>9, <2>10, <2>11, Replied
  <2> QED
    BY <1>1, <1>4, <2>12 DEF Good
<1> QED
  BY <1>2, <1>3, <1>4

\* A request more in the inbox.
LEMMA SendGood ==
  ASSUME Typed, GatewayAssumption, NEW s \in Sockets, NEW q \in Sockets, Good(q),
         NEW ask \in {"subscribe", "unsubscribe", "call"}, Send(s, ask)
  PROVE  Good(q)'
<1>1. client[q].odd = {} /\ (~client[q].left => Present(q))
  BY DEF Good
<1>2. Subs' = Subs
  BY DEF Send, Subs
<1>3. client[s] \in Clients /\ client \in [Sockets -> Clients]
  BY DEF Typed
<1>4. CASE q # s
  <2>1. client'[q] = client[q]
    BY <1>3, <1>4 DEF Send
  <2> QED
    BY <1>2, <2>1, Unmoved DEF Send
<1>5. CASE q = s
  <2>1. /\ client'[s].sent = client[s].sent + 1 /\ client'[s].read = client[s].read
        /\ client'[s].ids = client[s].ids /\ client'[s].left = client[s].left
        /\ client'[s].odd = client[s].odd
        /\ client'[s].inbox = Append(client[s].inbox, ask)
    BY <1>3 DEF Send, Clients
  <2>2. Present(s)
    BY <1>1, <1>5 DEF Send
  <2>3. client[s].inbox \in Seq({"subscribe", "unsubscribe", "call"})
    BY <1>3 DEF Clients
  <2>4. Len(client'[s].inbox) = Len(client[s].inbox) + 1
    BY <2>1, <2>3, OneMore
  <2>5. /\ handler'[s] = handler[s] /\ responses'[s] = responses[s] /\ events'[s] = events[s]
        /\ writer'[s] = writer[s] /\ closed'[s] = closed[s]
    BY DEF Send
  <2>6. ReplyOut(s)' = ReplyOut(s)
    BY <2>5 DEF ReplyOut
  <2>7. OnWire(s)' = OnWire(s) /\ InHand(s)' = InHand(s)
    BY <2>5, <2>6 DEF OnWire, InHand
  <2>8. \A id : Knows(s, id)' = Knows(s, id)
    BY <2>1, <2>5, <2>6 DEF Knows
  <2>9. Counted(s)'
    <3>1. PICK a, b, c, d, e, f, g : /\ a = client[s].sent /\ b = client[s].read /\ c = OnWire(s)
                                     /\ d = Len(responses[s]) /\ e = InHand(s)
                                     /\ f = Len(client[s].inbox) /\ g = Len(client'[s].inbox)
      OBVIOUS
    <3>2. a \in Nat /\ b \in Int /\ c \in Nat /\ d \in Nat /\ e \in Nat /\ f \in Nat
      BY <3>1, Numbers
    <3>3. a = b + c + d + e + f /\ g = f + 1 /\ a - b < Ahead
      BY <2>2, <2>4, <3>1 DEF Present, Counted, Send
    <3>4. a + 1 = b + c + d + e + g /\ a + 1 <= b + Ahead
      BY <3>2, <3>3, Constants
    <3> QED
      BY <2>1, <2>2, <2>5, <2>7, <3>1, <3>4 DEF Present, Counted
  <2>10. Numbered(s)'
    BY <2>1, <2>2, <2>5, <2>6, <2>7 DEF Present, Numbered
  <2>11. Announced(s)'
    BY <1>2, <2>1, <2>2, <2>5, <2>6, <2>8 DEF Present, Announced, Subs
  <2> QED
    BY <1>1, <1>5, <2>1, <2>9, <2>10, <2>11 DEF Good, Present
<1> QED
  BY <1>4, <1>5

\* A subscription's first page is asked for.
LEMMA BaselineGood ==
  ASSUME Typed, NEW s \in Sockets, NEW q \in Sockets, Good(q), Baseline(s)
  PROVE  Good(q)'
<1>1. client[q].odd = {} /\ (~client[q].left => Present(q))
  BY DEF Good
<1>2. Subs' = Subs
  BY DEF Baseline, Subs
<1>3. /\ client'[s].sent = client[s].sent /\ client'[s].read = client[s].read
      /\ client'[s].ids = client[s].ids /\ client'[s].left = client[s].left
      /\ client'[s].odd = client[s].odd
      /\ Len(client'[s].inbox) = Len(client[s].inbox) - 1
      /\ Len(client[s].inbox) \in Nat \ {0}
      /\ \A p \in Sockets : p # s => client'[p] = client[p]
  BY TakenOne DEF Baseline, Received
<1>4. handler' = [handler EXCEPT ![s] =
                     [at |-> "baseline", n |-> Number(s), id |-> 0, base |-> pushed]]
      /\ handler \in [Sockets -> Handlers]
  BY DEF Baseline, Typed
<1>5. /\ responses' = responses /\ events' = events /\ writer' = writer /\ closed' = closed
      /\ handler[s].at = "receive"
  BY DEF Baseline
<1>6. CASE q # s
  <2>1. handler'[q] = handler[q]
    BY <1>4, <1>6
  <2> QED
    BY <1>2, <1>3, <1>5, <1>6, <2>1, Unmoved
<1>7. CASE q = s /\ client[s].left
  BY <1>3, <1>7, Departed
<1>8. CASE q = s /\ ~client[s].left
  <2>1. handler'[s].at = "baseline" /\ handler'[s].n = Number(s)
    BY <1>4
  <2>2. Present(s)
    BY <1>1, <1>8
  <2>3. ReplyOut(s)' = ReplyOut(s)
    BY <1>5 DEF ReplyOut
  <2>4. OnWire(s)' = OnWire(s) /\ InHand(s)' = 1 /\ InHand(s) = 0
    BY <1>5, <2>1, <2>3 DEF OnWire, InHand
  <2>5. \A id : Knows(s, id)' = Knows(s, id)
    BY <1>3, <1>5, <2>3 DEF Knows
  <2>6. /\ Number(s) = client[s].read + OnWire(s) + Len(responses[s]) + 1
        /\ client[s].sent = client[s].read + OnWire(s) + Len(responses[s]) + 1 + Len(client'[s].inbox)
    <3>1. PICK a, b, c, d, f, g : /\ a = client[s].sent /\ b = client[s].read /\ c = OnWire(s)
                                  /\ d = Len(responses[s]) /\ f = Len(client[s].inbox)
                                  /\ g = Len(client'[s].inbox)
      OBVIOUS
    <3>2. a \in Nat /\ b \in Int /\ c \in Nat /\ d \in Nat /\ f \in Nat
      BY <3>1, Numbers
    <3>3. a = b + c + d + 0 + f /\ g = f - 1
      BY <1>3, <2>2, <2>4, <3>1 DEF Present, Counted
    <3>4. a - f + 1 = b + c + d + 1 /\ a = b + c + d + 1 + g
      BY <3>2, <3>3
    <3> QED
      BY <3>1, <3>4 DEF Number
  <2>7. Counted(s)'
    BY <1>3, <1>5, <2>1, <2>2, <2>4, <2>6 DEF Present, Counted
  <2>8. Numbered(s)'
    BY <1>3, <1>5, <2>1, <2>2, <2>3, <2>4, <2>6 DEF Present, Numbered
  <2>9. Announced(s)'
    BY <1>2, <1>3, <1>5, <2>2, <2>3, <2>5 DEF Present, Announced, Subs
  <2> QED
    BY <1>1, <1>3, <1>8, <2>7, <2>8, <2>9 DEF Good, Present
<1> QED
  BY <1>6, <1>7, <1>8

\* The writer takes the first reply, or an event when there is none.
LEMMA WriterTakesGood ==
  ASSUME Typed, NEW s \in Sockets, NEW q \in Sockets, Good(q), WriterTakes(s)
  PROVE  Good(q)'
<1>1. client[q].odd = {} /\ (~client[q].left => Present(q))
  BY DEF Good
<1>2. /\ Subs' = Subs /\ handler' = handler /\ closed' = closed /\ client' = client
      /\ writer[s].at = "wait"
  BY DEF WriterTakes, Subs
<1>3. /\ responses \in [Sockets -> Seq(Messages)] /\ events \in [Sockets -> Seq(Messages)]
      /\ writer \in [Sockets -> WriterStates]
  BY DEF Typed
<1>4. CASE q # s
  <2>1. responses'[q] = responses[q] /\ events'[q] = events[q] /\ writer'[q] = writer[q]
    BY <1>3, <1>4 DEF WriterTakes
  <2> QED
    BY <1>2, <2>1, Unmoved
<1>5. CASE q = s /\ client[s].left
  BY <1>2, <1>5, Departed
<1>6. CASE q = s /\ ~client[s].left
  <2>1. Present(s) /\ ~closed[s]
    BY <1>1, <1>6 DEF Present, Counted
  <2>2. ~ReplyOut(s) /\ OnWire(s) = 0 /\ InHand(s)' = InHand(s)
    BY <1>2 DEF ReplyOut, OnWire, InHand
  <2>3. PICK q1, q2 : q1 = responses[s] /\ q2 = responses'[s]
    OBVIOUS
  <2>4. CASE responses[s] # <<>>
    <3>1. /\ writer'[s] = [at |-> "send", message |-> Head(q1)] /\ q2 = Tail(q1)
          /\ events'[s] = events[s]
      BY <1>3, <2>3, <2>4 DEF WriterTakes
    <3>2. q1 \in Seq(Messages) /\ q1 # <<>>
      BY <1>3, <2>3, <2>4
    <3>3. /\ Len(q1) \in Nat \ {0} /\ Len(q2) = Len(q1) - 1 /\ Head(q1) = q1[1] /\ 1 \in 1 .. Len(q1)
          /\ \A i \in 1 .. Len(q2) : i + 1 \in 1 .. Len(q1) /\ q2[i] = q1[i + 1] /\ i \in Int
          /\ \A i \in 1 .. Len(q1) : i # 1 => i - 1 \in 1 .. Len(q2) /\ q2[i - 1] = q1[i]
      BY <3>1, <3>2, OneGone
    <3>4. writer'[s].at = "send" /\ writer'[s].message = q1[1]
      BY <3>1, <3>3
    <3>5. \A i \in 1 .. Len(q1) : q1[i].kind = "reply" /\ q1[i].n = client[s].read + 0 + i
      BY <2>1, <2>2, <2>3 DEF Present, Numbered
    <3>6. ReplyOut(s)'
      BY <3>3, <3>4, <3>5 DEF ReplyOut
    <3>7. OnWire(s)' = 1
      BY <3>6 DEF OnWire
    <3>8. client[s].read \in Int /\ client[s].sent \in Nat /\ Len(client[s].inbox) \in Nat
          /\ InHand(s) \in Nat
      BY Numbers
    <3>9. \A id : Knows(s, id) => Knows(s, id)'
      <4> SUFFICES ASSUME NEW id, Knows(s, id) PROVE Knows(s, id)'
        OBVIOUS
      <4>1. CASE id \in client[s].ids
        BY <1>2, <4>1 DEF Knows
      <4>2. CASE \E i \in 1 .. Len(q1) : q1[i].id = id
        <5>1. PICK i \in 1 .. Len(q1) : q1[i].id = id
          BY <4>2
        <5>2. CASE i = 1
          BY <3>4, <3>6, <5>1, <5>2 DEF Knows
        <5>3. CASE i # 1
          <6>1. i - 1 \in 1 .. Len(q2) /\ q2[i - 1].id = id
            BY <3>3, <5>1, <5>3
          <6> QED
            BY <2>3, <6>1 DEF Knows
        <5> QED
          BY <5>2, <5>3
      <4> QED
        BY <2>2, <2>3, <4>1, <4>2 DEF Knows
    <3>10. Counted(s)'
      <4>1. PICK a, b, e, f : /\ a = client[s].sent /\ b = client[s].read
                              /\ e = InHand(s) /\ f = Len(client[s].inbox)
        OBVIOUS
      <4>2. a = b + 0 + Len(q1) + e + f
        BY <2>1, <2>2, <2>3, <4>1 DEF Present, Counted
      <4>3. a \in Nat /\ b \in Int /\ e \in Nat /\ f \in Nat
        BY <3>8, <4>1
      <4>4. a = b + 1 + Len(q2) + e + f
        BY <3>3, <4>2, <4>3
      <4> QED
        BY <1>2, <2>1, <2>2, <2>3, <3>4, <3>7, <4>1, <4>4 DEF Present, Counted
    <3>11. Numbered(s)'
      <4>1. q1[1].n = client[s].read + 1
        BY <3>3, <3>5, <3>8
      <4>2. \A i \in 1 .. Len(q2) : q2[i].kind = "reply" /\ q2[i].n = client[s].read + 1 + i
        <5> TAKE i \in 1 .. Len(q2)
        <5>1. i + 1 \in 1 .. Len(q1) /\ q2[i] = q1[i + 1] /\ i \in Int
          BY <3>3
        <5>2. q2[i].kind = "reply" /\ q2[i].n = client[s].read + 0 + (i + 1)
          BY <3>5, <5>1
        <5>3. client[s].read + 0 + (i + 1) = client[s].read + 1 + i
          <6>1. \A r \in Int : r + 0 + (i + 1) = r + 1 + i
            BY <5>1
          <6> QED
            BY <3>8, <6>1
        <5> QED
          BY <5>2, <5>3
      <4>3. handler[s].at = "baseline" => handler[s].n = client[s].read + 1 + Len(q2) + 1
        <5>1. handler[s].at = "baseline" => handler[s].n = client[s].read + 0 + Len(q1) + 1
          BY <2>1, <2>2, <2>3 DEF Present, Numbered
        <5>2. client[s].read + 0 + Len(q1) + 1 = client[s].read + 1 + Len(q2) + 1
          BY <3>3, <3>8
        <5> QED
          BY <5>1, <5>2
      <4> QED
        BY <1>2, <2>3, <3>4, <3>7, <4>1, <4>2, <4>3 DEF Numbered
    <3>12. Announced(s)'
      BY <1>2, <2>1, <3>1, <3>6, <3>9 DEF Present, Announced, Subs
    <3> QED
      BY <1>1, <1>2, <1>6, <3>10, <3>11, <3>12 DEF Good, Present
  <2>5. CASE responses[s] = <<>>
    <3>1. q1 = <<>> /\ q2 = <<>> /\ Len(q1) = 0
      BY <1>3, <2>3, <2>5 DEF WriterTakes
    <3>2. \A id : Knows(s, id) => id \in client[s].ids
      BY <2>2, <2>3, <3>1 DEF Knows
    <3>3. \A id : id \in client[s].ids => Knows(s, id)'
      BY <1>2 DEF Knows
    <3>4. ~ReplyOut(s)' /\ writer'[s].at \in {"wait", "send"}
          /\ (writer'[s].at = "send" => writer'[s].message.id \in client[s].ids)
          /\ (\A i \in 1 .. Len(events'[s]) : \E j \in 1 .. Len(events[s]) : events'[s][i] = events[s][j])
      <4>1. CASE events[s] # <<>>
        <5>1. writer'[s] = [at |-> "send", message |-> Head(events[s])] /\ events'[s] = Tail(events[s])
          BY <1>3, <2>5, <4>1 DEF WriterTakes
        <5>2. events[s] \in Seq(Messages)
          BY <1>3
        <5>3. PICK v, w : v = events[s] /\ w = events'[s]
          OBVIOUS
        <5>4. /\ Head(v) = v[1] /\ 1 \in 1 .. Len(v)
              /\ \A i \in 1 .. Len(w) : i + 1 \in 1 .. Len(v) /\ w[i] = v[i + 1]
          BY <4>1, <5>1, <5>2, <5>3, OneGone
        <5>5. v[1].kind = "event" /\ Knows(s, v[1].id)
          BY <2>1, <5>3, <5>4 DEF Present, Announced
        <5>6. writer'[s].at = "send" /\ writer'[s].message = v[1]
          BY <5>1, <5>3, <5>4
        <5> QED
          BY <3>2, <5>3, <5>4, <5>5, <5>6 DEF ReplyOut
      <4>2. CASE events[s] = <<>>
        <5>1. events'[s] = events[s] /\ writer'[s] = [writer[s] EXCEPT !.at = "wait"]
          BY <1>3, <2>1, <2>5, <4>2 DEF WriterTakes
        <5>2. writer'[s].at = "wait"
          BY <1>3, <5>1 DEF WriterStates
        <5> QED
          BY <5>1, <5>2 DEF ReplyOut
      <4> QED
        BY <4>1, <4>2
    <3>5. OnWire(s)' = 0
      BY <3>4 DEF OnWire
    <3>6. Counted(s)'
      BY <1>2, <2>1, <2>2, <2>3, <3>1, <3>4, <3>5 DEF Present, Counted
    <3>7. Numbered(s)'
      BY <1>2, <2>1, <2>2, <2>3, <3>1, <3>4, <3>5 DEF Present, Numbered
    <3>8. Announced(s)'
      <4>1. \A i \in 1 .. Len(events[s]) :
                events[s][i].kind = "event" /\ events[s][i].id \in client[s].ids
        BY <2>1, <3>2 DEF Present, Announced
      <4>2. \A i \in 1 .. Len(events'[s]) :
                events'[s][i].kind = "event" /\ events'[s][i].id \in client[s].ids
        BY <3>4, <4>1
      <4>3. \A sub \in Subs : sub.socket = s => sub.id \in client[s].ids
        BY <2>1, <3>2 DEF Present, Announced, Subs
      <4> QED
        BY <1>2, <3>3, <3>4, <4>2, <4>3 DEF Announced, Subs
    <3> QED
      BY <1>1, <1>2, <1>6, <3>6, <3>7, <3>8 DEF Good, Present
  <2> QED
    BY <2>4, <2>5
<1> QED
  BY <1>4, <1>5, <1>6

\* The client reads the message.
LEMMA WriterSendsGood ==
  ASSUME Typed, GatewayAssumption, NEW s \in Sockets, NEW q \in Sockets, Good(q), WriterSends(s)
  PROVE  Good(q)'
<1>1. client[q].odd = {} /\ (~client[q].left => Present(q))
  BY DEF Good
<1>2. /\ Subs' = Subs /\ handler' = handler /\ closed' = closed /\ responses' = responses
      /\ events' = events /\ writer[s].at = "send"
  BY DEF WriterSends, Subs
<1>3. writer \in [Sockets -> WriterStates] /\ client \in [Sockets -> Clients]
  BY DEF Typed
<1>4. CASE q # s
  <2>1. writer'[q] = writer[q] /\ client'[q] = client[q]
    BY <1>3, <1>4 DEF WriterSends
  <2> QED
    BY <1>2, <2>1, Unmoved
<1>5. CASE q = s /\ client[s].left
  <2>1. client' = client
    BY <1>5 DEF WriterSends
  <2> QED
    BY <1>5, <2>1, Departed
<1>6. CASE q = s /\ ~client[s].left
  <2>1. Present(s)
    BY <1>1, <1>6
  <2>2. PICK m : m = writer[s].message
    OBVIOUS
  <2>3. writer'[s] = [at |-> "wait", message |-> NoMessage]
    BY <1>3, <1>6 DEF WriterSends
  <2>4. writer'[s].at = "wait" /\ ~ReplyOut(s)'
    BY <2>3 DEF ReplyOut
  <2>5. OnWire(s)' = 0 /\ InHand(s)' = InHand(s)
    BY <1>2, <2>4 DEF OnWire, InHand
  <2>6. client[s] \in Clients
    BY <1>3
  <2>7. client' = [client EXCEPT ![s] = [client[s] EXCEPT
                       !.read = IF m.kind = "reply" THEN m.n ELSE @,
                       !.ids = IF m.kind = "reply" THEN @ \cup {m.id} ELSE @,
                       !.odd = @ \cup Noticed(s, m)]]
    BY <1>6, <2>2 DEF WriterSends
  <2>8. /\ client'[s].read = (IF m.kind = "reply" THEN m.n ELSE client[s].read)
        /\ client'[s].ids = (IF m.kind = "reply" THEN client[s].ids \cup {m.id} ELSE client[s].ids)
        /\ client'[s].odd = client[s].odd \cup Noticed(s, m)
        /\ client'[s].sent = client[s].sent /\ client'[s].inbox = client[s].inbox
        /\ client'[s].left = client[s].left
    BY <1>3, <2>6, <2>7 DEF Clients
  <2>9. /\ client[s].read \in Int /\ client[s].sent \in Nat /\ Len(client[s].inbox) \in Nat
        /\ InHand(s) \in Nat /\ Len(responses[s]) \in Nat
    BY Numbers
  <2>10. CASE m.kind = "reply"
    <3>1. ReplyOut(s) /\ m.n = client[s].read + 1
      BY <1>2, <2>1, <2>2, <2>10 DEF ReplyOut, Present, Numbered
    <3>2. OnWire(s) = 1
      BY <3>1 DEF OnWire
    <3>3. client'[s].odd = {}
      BY <1>1, <1>6, <2>8, <2>10, <3>1 DEF Noticed
    <3>4. \A id : Knows(s, id) => Knows(s, id)'
      BY <1>2, <2>2, <2>8, <2>10 DEF Knows
    <3>5. PICK k : k = client'[s].read
      OBVIOUS
    <3>6. k = client[s].read + 1 /\ k \in Int
      BY <2>8, <2>9, <2>10, <3>1, <3>5
    <3>7. Counted(s)'
      <4>1. PICK a, b, d, e, f : /\ a = client[s].sent /\ b = client[s].read
                                 /\ d = Len(responses[s]) /\ e = InHand(s) /\ f = Len(client[s].inbox)
        OBVIOUS
      <4>2. a = b + 1 + d + e + f /\ a <= b + Ahead
        BY <2>1, <3>2, <4>1 DEF Present, Counted
      <4>3. a \in Nat /\ b \in Int /\ d \in Nat /\ e \in Nat /\ f \in Nat /\ k = b + 1
        BY <2>9, <3>6, <4>1
      <4>4. a = k + 0 + d + e + f
        BY <4>2, <4>3
      <4>5. a <= k + Ahead
        BY <4>2, <4>3, Constants
      <4> QED
        BY <1>2, <2>1, <2>4, <2>5, <2>8, <3>5, <4>1, <4>4, <4>5 DEF Present, Counted
    <3>8. Numbered(s)'
      <4>1. \A i \in 1 .. Len(responses[s]) :
                responses[s][i].kind = "reply" /\ responses[s][i].n = k + 0 + i
        <5> TAKE i \in 1 .. Len(responses[s])
        <5>1. responses[s][i].kind = "reply" /\ responses[s][i].n = client[s].read + 1 + i
          BY <2>1, <3>2 DEF Present, Numbered
        <5>2. client[s].read + 1 + i = k + 0 + i
          BY <2>9, <3>6
        <5> QED
          BY <5>1, <5>2
      <4>2. handler[s].at = "baseline" => handler[s].n = k + 0 + Len(responses[s]) + 1
        <5>1. handler[s].at = "baseline" => handler[s].n = client[s].read + 1 + Len(responses[s]) + 1
          BY <2>1, <3>2 DEF Present, Numbered
        <5>2. client[s].read + 1 + Len(responses[s]) + 1 = k + 0 + Len(responses[s]) + 1
          BY <2>9, <3>6
        <5> QED
          BY <5>1, <5>2
      <4> QED
        BY <1>2, <2>4, <2>5, <3>5, <4>1, <4>2 DEF Numbered
    <3>9. Announced(s)'
      BY <1>2, <2>1, <2>4, <3>4 DEF Present, Announced, Subs
    <3> QED
      BY <1>6, <3>3, <3>7, <3>8, <3>9 DEF Good, Present
  <2>11. CASE m.kind # "reply"
    <3>1. ~ReplyOut(s) /\ m.id \in client[s].ids
      BY <1>2, <2>1, <2>2, <2>11 DEF ReplyOut, Present, Announced
    <3>2. OnWire(s) = 0
      BY <3>1 DEF OnWire
    <3>3. client'[s].odd = {}
      BY <1>1, <1>6, <2>8, <2>11, <3>1 DEF Noticed
    <3>4. client'[s].read = client[s].read /\ client'[s].ids = client[s].ids
      BY <2>8, <2>11
    <3>5. \A id : Knows(s, id) => Knows(s, id)'
      BY <1>2, <3>1, <3>4 DEF Knows
    <3>6. Counted(s)'
      BY <1>2, <2>1, <2>4, <2>5, <2>8, <3>2, <3>4 DEF Present, Counted
    <3>7. Numbered(s)'
      BY <1>2, <2>1, <2>4, <2>5, <3>2, <3>4 DEF Present, Numbered
    <3>8. Announced(s)'
      BY <1>2, <2>1, <2>4, <3>5 DEF Present, Announced, Subs
    <3> QED
      BY <1>6, <3>3, <3>6, <3>7, <3>8 DEF Good, Present
  <2> QED
    BY <2>10, <2>11
<1> QED
  BY <1>4, <1>5, <1>6

\* The pump's record goes to subscriptions whose clients know, or will know, their ids.
LEMMA PumpDeliversGood ==
  ASSUME Typed, NEW q \in Sockets, Good(q), PumpDelivers
  PROVE  Good(q)'
<1>1. client[q].odd = {} /\ (~client[q].left => Present(q))
  BY DEF Good
<1>2. /\ Subs' \subseteq Subs /\ handler' = handler /\ closed' = closed /\ responses' = responses
      /\ writer' = writer /\ client' = client
  BY DEF PumpDelivers, Subs
<1>3. CASE client[q].left
  BY <1>2, <1>3, Departed
<1>4. CASE ~client[q].left
  <2>1. Present(q)
    BY <1>1, <1>4
  <2>2. PICK M : M = { m \in Messages : m.kind = "event" /\ Knows(q, m.id) }
    OBVIOUS
  <2>3. PICK S : S = { sub \in { sub \in pump.snapshot : ~closed[sub.socket] } : sub.socket = q }
    OBVIOUS
  <2>4. S \subseteq pump.snapshot /\ pump.snapshot \subseteq Subs /\ \A sub \in S : sub.socket = q
    BY <2>3 DEF Subs
  <2>5. IsFiniteSet(S)
    BY <2>4, FS_Subset DEF Typed
  <2>6. \A sub \in S : Message("event", pump.push, sub.id) \in M
    <3> TAKE sub \in S
    <3>1. sub.id \in Id /\ pump.push \in Int
      BY <2>4 DEF Typed, Pumps, SubscriberStates
    <3>2. Knows(q, sub.id)
      BY <2>1, <2>4 DEF Present, Announced, Subs
    <3>3. PICK m : m = Message("event", pump.push, sub.id)
      OBVIOUS
    <3>4. m \in Messages /\ m.kind = "event" /\ m.id = sub.id
      BY <3>1, <3>3, MessageTyped
    <3>5. m \in M
      BY <2>2, <3>2, <3>4
    <3> QED
      BY <3>3, <3>5
  <2>7. PICK v : v = events[q]
    OBVIOUS
  <2>8. v \in Seq(M)
    <3>1. v \in Seq(Messages) /\ \A i \in 1 .. Len(v) : v[i].kind = "event" /\ Knows(q, v[i].id)
      BY <2>1, <2>7 DEF Typed, Present, Announced
    <3>2. \A i \in 1 .. Len(v) : v[i] \in M
      BY <2>2, <3>1
    <3> QED
      BY <3>1, <3>2
  <2>9. FoldSet(Told, v, S) \in Seq(M)
    BY <2>5, <2>6, <2>8, DeliveredFold
  <2>10. events'[q] \in Seq(M)
    <3>1. events'[q] = FoldSet(Told, events[q], S)
      BY <2>3 DEF PumpDelivers
    <3> QED
      BY <2>7, <2>9, <3>1
  <2>11. \A i \in 1 .. Len(events'[q]) : events'[q][i].kind = "event" /\ Knows(q, events'[q][i].id)
    BY <2>2, <2>10
  <2>12. ReplyOut(q)' = ReplyOut(q)
    BY <1>2 DEF ReplyOut
  <2>13. OnWire(q)' = OnWire(q) /\ InHand(q)' = InHand(q)
    BY <1>2, <2>12 DEF OnWire, InHand
  <2>14. \A id : Knows(q, id) => Knows(q, id)'
    BY <1>2, <2>12 DEF Knows
  <2>15. Counted(q)'
    BY <1>2, <2>1, <2>13 DEF Present, Counted
  <2>16. Numbered(q)'
    BY <1>2, <2>1, <2>12, <2>13 DEF Present, Numbered
  <2>17. Announced(q)'
    BY <1>2, <2>1, <2>11, <2>12, <2>14 DEF Present, Announced, Subs
  <2> QED
    BY <1>1, <1>2, <1>4, <2>15, <2>16, <2>17 DEF Good, Present
<1> QED
  BY <1>3, <1>4

-----------------------------------------------------------------------------
(* The invariant is kept. *)

LEMMA StopPumpSubs ==
  ASSUME NEW left, left \subseteq subscribers, subscribers' = left, StopPump(left)
  PROVE  \A sub \in Subs' : sub \in Subs
<1>1. pump' = pump \/ pump' = Off
  BY DEF StopPump
<1>2. CASE pump' = pump
  BY <1>2 DEF Subs
<1>3. CASE pump' = Off
  BY <1>3, Blanks DEF Subs
<1> QED
  BY <1>1, <1>2, <1>3

LEMMA GoodStep ==
  ASSUME Typed, GatewayAssumption, Ahead <= MaxResponses, NEW q \in Sockets, Good(q),
         [GatewayNext]_gatewayVars
  PROVE  Good(q)'
<1> USE DEF Typed
<1>1. CASE UNCHANGED gatewayVars
  BY <1>1, Unmoved DEF gatewayVars, Subs
<1>2. ASSUME NEW s \in Sockets, NEW ask \in {"subscribe", "unsubscribe", "call"}, Send(s, ask)
      PROVE  Good(q)'
  BY <1>2, SendGood
<1>3. ASSUME NEW s \in Sockets, Disconnect(s) PROVE Good(q)'
  <2>1. client[s] \in Clients /\ client \in [Sockets -> Clients]
    OBVIOUS
  <2>2. CASE q = s
    <3>1. client'[q].left /\ client'[q].odd = client[q].odd
      BY <1>3, <2>1, <2>2 DEF Disconnect, Clients
    <3> QED
      BY <3>1, Departed
  <2>3. CASE q # s
    <3>1. client'[q] = client[q]
      BY <1>3, <2>1, <2>3 DEF Disconnect
    <3> QED
      BY <1>3, <3>1, Unmoved DEF Disconnect, Subs
  <2> QED
    BY <2>2, <2>3
<1>4. CASE Push
  BY <1>4, Unmoved DEF Push, Subs
<1>5. ASSUME NEW s \in Sockets, Put(s) PROVE Good(q)'
  <2>1. CASE q = s
    <3>1. client[q].left
      BY <1>5, <2>1 DEF Put, Good, Present, Counted
    <3> QED
      BY <1>5, <3>1, Departed DEF Put
  <2>2. CASE q # s
    <3>1. handler'[q] = handler[q] /\ responses'[q] = responses[q]
      BY <1>5, <2>2, ReplyElsewhere DEF Put
    <3> QED
      BY <1>5, <3>1, Unmoved DEF Put, Subs
  <2> QED
    BY <2>1, <2>2
<1>6. ASSUME NEW s \in Sockets, WriterTakes(s) PROVE Good(q)'
  BY <1>6, WriterTakesGood
<1>7. ASSUME NEW s \in Sockets, WriterSends(s) PROVE Good(q)'
  BY <1>7, WriterSendsGood
<1>8. ASSUME NEW s \in Sockets, Baseline(s) PROVE Good(q)'
  BY <1>8, BaselineGood
<1>9. ASSUME NEW s \in Sockets, Register(s) PROVE Good(q)'
  <2>1. PICK id \in Id : id = SubId(s)
    BY FreshIds
  <2>2. [Off EXCEPT !.at = "look"].snapshot = {}
    BY Blanks DEF Off
  <2>3. \A sub \in Subs' : sub \in Subs \/ (sub.socket = s /\ sub.id = id)
    <3>1. subscribers' = subscribers \cup {[id |-> id, socket |-> s, base |-> handler[s].base]}
      BY <1>9, <2>1 DEF Register
    <3>2. pump'.snapshot = pump.snapshot \/ pump'.snapshot = {}
      BY <1>9, <2>2 DEF Register
    <3> QED
      BY <3>1, <3>2 DEF Subs
  <2>4. /\ handler[s].at = "baseline" /\ client' = client
        /\ Reply(s, Message("reply", handler[s].n, id))
        /\ events' = events /\ writer' = writer /\ closed' = closed
    BY <1>9, <2>1 DEF Register
  <2> QED
    BY <2>3, <2>4, AnsweredAfterBaseline
<1>10. ASSUME NEW s \in Sockets, BaselineFails(s) PROVE Good(q)'
  <2>1. PICK id \in Id : id = 0
    BY Blanks
  <2>2. /\ handler[s].at = "baseline" /\ client' = client
        /\ Reply(s, Message("reply", handler[s].n, id))
        /\ events' = events /\ writer' = writer /\ closed' = closed
        /\ \A sub \in Subs' : sub \in Subs \/ (sub.socket = s /\ sub.id = id)
    BY <1>10, <2>1 DEF BaselineFails, Subs
  <2> QED
    BY <2>2, AnsweredAfterBaseline
<1>11. ASSUME NEW s \in Sockets, Call(s) PROVE Good(q)'
  <2>1. /\ handler[s].at = "receive" /\ client[s].inbox # <<>> /\ Taken(s)
        /\ Reply(s, Message("reply", Number(s), 0))
        /\ events' = events /\ writer' = writer /\ closed' = closed
        /\ \A sub \in Subs' : sub \in Subs
    BY <1>11 DEF Call, Received, Subs
  <2> QED
    BY <2>1, AnsweredAtOnce
<1>12. ASSUME NEW s \in Sockets, Unsubscribe(s) PROVE Good(q)'
  <2>1. PICK left : left \subseteq subscribers /\ subscribers' = left /\ StopPump(left)
    BY <1>12 DEF Unsubscribe
  <2>2. /\ handler[s].at = "receive" /\ client[s].inbox # <<>> /\ Taken(s)
        /\ Reply(s, Message("reply", Number(s), 0))
        /\ events' = events /\ writer' = writer /\ closed' = closed
    BY <1>12 DEF Unsubscribe, Received
  <2>3. \A sub \in Subs' : sub \in Subs
    BY <2>1, StopPumpSubs
  <2> QED
    BY <2>2, <2>3, AnsweredAtOnce
<1>13. ASSUME NEW s \in Sockets, Leave(s) PROVE Good(q)'
  <2>1. CASE q = s
    BY <1>13, <2>1, Departed DEF Leave
  <2>2. CASE q # s
    <3>1. handler'[q] = handler[q] /\ closed'[q] = closed[q]
      BY <1>13, <2>2 DEF Leave
    <3> QED
      BY <1>13, <3>1, Unmoved DEF Leave, Subs
  <2> QED
    BY <2>1, <2>2
<1>14. ASSUME NEW s \in Sockets, RemoveSession(s) PROVE Good(q)'
  <2>1. \A sub \in Subs' : sub \in Subs
    <3>1. CASE Own(s) = {}
      BY <1>14, <3>1 DEF RemoveSession, Subs
    <3>2. CASE Own(s) # {}
      <4>1. PICK left : left \subseteq subscribers /\ subscribers' = left /\ StopPump(left)
        BY <1>14, <3>2 DEF RemoveSession
      <4> QED
        BY <4>1, StopPumpSubs
    <3> QED
      BY <3>1, <3>2
  <2>2. CASE q = s
    <3>1. client[q].left
      BY <1>14, <2>2 DEF RemoveSession, Good, Present, Counted
    <3> QED
      BY <1>14, <3>1, Departed DEF RemoveSession
  <2>3. CASE q # s
    <3>1. handler'[q] = handler[q] /\ writer'[q] = writer[q]
      BY <1>14, <2>3 DEF RemoveSession
    <3> QED
      BY <1>14, <2>1, <3>1, Unmoved DEF RemoveSession
  <2> QED
    BY <2>2, <2>3
<1>15. CASE PumpLooks
  <2>1. pump'.snapshot = subscribers
    BY <1>15 DEF PumpLooks, Pumps
  <2>2. \A sub \in Subs' : sub \in Subs
    BY <1>15, <2>1 DEF PumpLooks, Subs
  <2> QED
    BY <1>15, <2>2, Unmoved DEF PumpLooks
<1>16. CASE PumpPolls
  <2>1. [Off EXCEPT !.at = "look"].snapshot = {}
    BY Blanks DEF Off
  <2>2. pump'.snapshot = pump.snapshot \/ pump'.snapshot = {}
    BY <1>16, <2>1 DEF PumpPolls, Pumps
  <2>3. \A sub \in Subs' : sub \in Subs
    BY <1>16, <2>2 DEF PumpPolls, Subs
  <2> QED
    BY <1>16, <2>3, Unmoved DEF PumpPolls
<1>17. CASE PumpDelivers
  BY <1>17, PumpDeliversGood
<1>18. CASE OrphanPolls
  BY <1>18, Unmoved DEF OrphanPolls, Subs
<1> QED
  BY <1>1, <1>2, <1>3, <1>4, <1>5, <1>6, <1>7, <1>8, <1>9, <1>10, <1>11, <1>12, <1>13, <1>14,
     <1>15, <1>16, <1>17, <1>18 DEF GatewayNext, HandlerStep, WriterStep, PumpStep

\* The replies a client reads are those to its requests, in their order, and no
\* event of a subscription comes before the reply that tells its id, as long as
\* the client has no more requests under way than the queue of replies holds.
THEOREM GatewayReplies ==
    GatewayAssumption /\ Ahead <= MaxResponses /\ GatewaySpec => []RepliesComeFirst
<1> SUFFICES ASSUME GatewayAssumption, Ahead <= MaxResponses
             PROVE  GatewaySpec => []RepliesComeFirst
  OBVIOUS
<1>1. GatewayInit => IInv
  <2> SUFFICES ASSUME GatewayInit PROVE IInv
    OBVIOUS
  <2>1. Typed
    BY InitTyped
  <2>2. ASSUME NEW s \in Sockets PROVE client[s].odd = {} /\ Present(s)
    <3>1. /\ client[s] = [sent |-> 0, inbox |-> <<>>, read |-> 0, ids |-> {}, left |-> FALSE, odd |-> {}]
          /\ handler[s] = Receiving /\ responses[s] = <<>> /\ events[s] = <<>> /\ ~closed[s]
          /\ writer[s] = [at |-> "wait", message |-> NoMessage]
      BY DEF GatewayInit
    <3>2. subscribers = {} /\ pump.snapshot = {}
      BY Blanks DEF GatewayInit
    <3>3. ~ReplyOut(s) /\ OnWire(s) = 0 /\ InHand(s) = 0
      BY <3>1, Blanks DEF ReplyOut, OnWire, InHand
    <3>4. Counted(s)
      BY <3>1, <3>3, Blanks, Constants DEF Counted
    <3>5. Numbered(s) /\ Announced(s)
      BY <3>1, <3>2, <3>3, Blanks DEF Numbered, Announced
    <3> QED
      BY <3>1, <3>4, <3>5 DEF Present
  <2> QED
    BY <2>1, <2>2 DEF IInv
<1>2. IInv /\ [GatewayNext]_gatewayVars => IInv'
  <2> SUFFICES ASSUME IInv, [GatewayNext]_gatewayVars PROVE IInv'
    OBVIOUS
  <2>1. Typed /\ \A s \in Sockets : Good(s)
    BY DEF IInv, Good
  <2>2. Typed'
    BY <2>1, TypedStep
  <2>3. \A s \in Sockets : Good(s)'
    BY <2>1, GoodStep
  <2> QED
    BY <2>2, <2>3 DEF IInv, Good
<1>3. IInv => RepliesComeFirst
  BY DEF IInv, RepliesComeFirst
<1> QED
  BY <1>1, <1>2, <1>3, PTL DEF GatewaySpec


\* A step that keeps the subscriptions, the pump's being there, and all the
\* sessions that are over.
LEMMA SamePump ==
  ASSUME PumpWhileSubscribed, subscribers' = subscribers,
         pump'.at = "off" <=> pump.at = "off",
         \A s \in Sockets : handler'[s].at = "gone" => handler[s].at = "gone" \/ Own(s) = {}
  PROVE  PumpWhileSubscribed'
  BY DEF PumpWhileSubscribed, Own

LEMMA ReplyEndsNothing ==
  ASSUME Typed, NEW s \in Sockets, NEW m, Reply(s, m)
  PROVE  \A q \in Sockets : handler'[q].at = "gone" => handler[q].at = "gone" /\ q # s
<1> SUFFICES ASSUME NEW q \in Sockets, handler'[q].at = "gone"
             PROVE  handler[q].at = "gone" /\ q # s
  OBVIOUS
<1>1. CASE q # s
  BY <1>1, ReplyElsewhere
<1>2. CASE q = s
  <2>1. handler'[s] = Receiving \/ handler'[s] = [at |-> "put", n |-> m.n, id |-> m.id, base |-> 0]
    BY DEF Reply, Typed
  <2> QED
    BY <1>2, <2>1, Blanks
<1> QED
  BY <1>1, <1>2

\* Fewer subscriptions: the pump ends with the last.
LEMMA FewerSubscribed ==
  ASSUME PumpWhileSubscribed, NEW left, left \subseteq subscribers, subscribers' = left,
         StopPump(left),
         \A s \in Sockets : handler'[s].at = "gone" => handler[s].at = "gone"
  PROVE  PumpWhileSubscribed'
<1>1. (left # {}) <=> (pump'.at # "off")
  BY DEF PumpWhileSubscribed, StopPump, Off
<1>2. \A s \in Sockets : handler'[s].at = "gone" => Own(s)' = {}
  BY DEF PumpWhileSubscribed, Own
<1> QED
  BY <1>1, <1>2 DEF PumpWhileSubscribed

LEMMA PumpStays ==
  ASSUME Typed, PumpWhileSubscribed, [GatewayNext]_gatewayVars
  PROVE  PumpWhileSubscribed'
<1> USE DEF Typed
<1>1. CASE UNCHANGED gatewayVars
  BY <1>1, SamePump DEF gatewayVars
<1>2. ASSUME NEW s \in Sockets, NEW ask \in {"subscribe", "unsubscribe", "call"}, Send(s, ask)
      PROVE  PumpWhileSubscribed'
  BY <1>2, SamePump DEF Send
<1>3. ASSUME NEW s \in Sockets,
             Disconnect(s) \/ WriterTakes(s) \/ WriterSends(s)
      PROVE  PumpWhileSubscribed'
  BY <1>3, SamePump DEF Disconnect, WriterTakes, WriterSends
<1>4. ASSUME NEW s \in Sockets, Put(s) \/ BaselineFails(s) \/ Call(s) PROVE PumpWhileSubscribed'
  <2>1. /\ subscribers' = subscribers /\ pump' = pump
        /\ \E m : Reply(s, m)
    BY <1>4 DEF Put, BaselineFails, Call
  <2>2. \A q \in Sockets : handler'[q].at = "gone" => handler[q].at = "gone"
    BY <2>1, ReplyEndsNothing
  <2> QED
    BY <2>1, <2>2, SamePump
<1>5. ASSUME NEW s \in Sockets, Baseline(s) PROVE PumpWhileSubscribed'
  <2>1. \A q \in Sockets : handler'[q].at = "gone" => handler[q].at = "gone"
    BY <1>5 DEF Baseline
  <2> QED
    BY <1>5, <2>1, SamePump DEF Baseline
<1>6. ASSUME NEW s \in Sockets, Register(s) PROVE PumpWhileSubscribed'
  <2>1. PICK new : new.socket = s /\ subscribers' = subscribers \cup {new}
    BY <1>6 DEF Register
  <2>2. pump'.at # "off"
    BY <1>6 DEF Register, Off
  <2>3. \A q \in Sockets : handler'[q].at = "gone" => handler[q].at = "gone" /\ q # s
    BY <1>6, ReplyEndsNothing DEF Register
  <2>4. \A q \in Sockets : handler'[q].at = "gone" => Own(q)' = {}
    BY <2>1, <2>3 DEF Own, PumpWhileSubscribed
  <2> QED
    BY <2>1, <2>2, <2>4 DEF PumpWhileSubscribed
<1>7. ASSUME NEW s \in Sockets, Unsubscribe(s) PROVE PumpWhileSubscribed'
  <2>1. PICK left : left \subseteq subscribers /\ subscribers' = left /\ StopPump(left)
    BY <1>7 DEF Unsubscribe
  <2>2. \A q \in Sockets : handler'[q].at = "gone" => handler[q].at = "gone"
    BY <1>7, ReplyEndsNothing DEF Unsubscribe
  <2> QED
    BY <2>1, <2>2, FewerSubscribed
<1>8. ASSUME NEW s \in Sockets, Leave(s) PROVE PumpWhileSubscribed'
  <2>1. \A q \in Sockets : handler'[q].at = "gone" => handler[q].at = "gone"
    BY <1>8 DEF Leave, Handlers
  <2> QED
    BY <1>8, <2>1, SamePump DEF Leave
<1>9. ASSUME NEW s \in Sockets, RemoveSession(s) PROVE PumpWhileSubscribed'
  <2>1. CASE Own(s) = {}
    <3>1. \A q \in Sockets : handler'[q].at = "gone" => handler[q].at = "gone" \/ q = s
      BY <1>9, <2>1 DEF RemoveSession
    <3> QED
      BY <1>9, <2>1, <3>1, SamePump DEF RemoveSession
  <2>2. CASE Own(s) # {}
    <3>1. PICK left : left \subseteq subscribers /\ subscribers' = left /\ StopPump(left)
      BY <1>9, <2>2 DEF RemoveSession
    <3>2. handler' = handler
      BY <1>9, <2>2 DEF RemoveSession
    <3> QED
      BY <3>1, <3>2, FewerSubscribed
  <2> QED
    BY <2>1, <2>2
<1>10. CASE PumpLooks \/ PumpPolls
  <2>1. pump.at # "off" /\ pump'.at # "off"
    BY <1>10 DEF PumpLooks, PumpPolls, Pumps, Off
  <2> QED
    BY <1>10, <2>1, SamePump DEF PumpLooks, PumpPolls
<1>11. CASE PumpDelivers
  BY <1>11, SamePump DEF PumpDelivers
<1>12. CASE OrphanPolls \/ Push
  BY <1>12, SamePump DEF OrphanPolls, Push
<1> QED
  BY <1>1, <1>2, <1>3, <1>4, <1>5, <1>6, <1>7, <1>8, <1>9, <1>10, <1>11, <1>12
  DEF GatewayNext, HandlerStep, WriterStep, PumpStep

\* There is a pump exactly while somebody is subscribed, and a session that is
\* over has no subscription left.
THEOREM GatewayPump == GatewayAssumption /\ GatewaySpec => []PumpWhileSubscribed
<1> SUFFICES ASSUME GatewayAssumption PROVE GatewaySpec => []PumpWhileSubscribed
  OBVIOUS
<1> DEFINE Inv == Typed /\ PumpWhileSubscribed
<1>1. GatewayInit => Inv
  <2> SUFFICES ASSUME GatewayInit PROVE Inv
    OBVIOUS
  <2>1. PumpWhileSubscribed
    BY Blanks DEF GatewayInit, PumpWhileSubscribed, Off
  <2> QED
    BY <2>1, InitTyped
<1>2. Inv /\ [GatewayNext]_gatewayVars => Inv'
  BY TypedStep, PumpStays
<1> QED
  BY <1>1, <1>2, PTL DEF GatewaySpec

-----------------------------------------------------------------------------
(* The blocking quote clients (QuoteSessions).                             *)

\* A line with an answer still to be read is one a failure was told about.
SessionInv ==
    /\ \E h, u, p, d : line = [host |-> h, up |-> u, pipe |-> p, doubt |-> d]
    /\ line.pipe # <<>> => line.doubt
    /\ OwnAnswers

LEMMA LineStays ==
  ASSUME SessionInv, line' = line
  PROVE  /\ (\E h, u, p, d : line = [host |-> h, up |-> u, pipe |-> p, doubt |-> d])'
         /\ (line.pipe # <<>> => line.doubt)'
BY DEF SessionInv

LEMMA NewLine ==
  ASSUME NEW h, NEW u, NEW p, NEW d, line' = [host |-> h, up |-> u, pipe |-> p, doubt |-> d],
         p # <<>> => d
  PROVE  /\ (\E g, v, q, e : line = [host |-> g, up |-> v, pipe |-> q, doubt |-> e])'
         /\ (line.pipe # <<>> => line.doubt)'
BY DEF SessionInv

LEMMA RaisedIsOwn ==
  ASSUME NEW result \in {"failed", "malformed"}, NEW doubtful, Raise(result, doubtful)
  PROVE  OwnAnswers'
BY DEF Raise, OwnAnswers

LEMMA AnswerStays ==
  ASSUME SessionInv, answer' = answer
  PROVE  OwnAnswers'
BY DEF SessionInv, OwnAnswers

\* Reading one answer off a line on which none was to come leaves none.
LEMMA ReadOff ==
  ASSUME NEW c
  PROVE  Append(<<>>, c) = <<c>> /\ Head(<<c>>) = c /\ Tail(<<c>>) = <<>>
OBVIOUS

LEMMA InitSession ==
  ASSUME SessionInit
  PROVE  SessionInv
<1>1. line = NoLine /\ answer = NoAnswer
  BY DEF SessionInit
<1> QED
  BY <1>1 DEF SessionInv, NoLine, NoAnswer, OwnAnswers

LEMMA SessionStep ==
  ASSUME SessionInv, [SessionNext]_sessionVars
  PROVE  SessionInv'
<1>1. CASE Connect
  BY <1>1, LineStays, AnswerStays DEF Connect, SessionInv
<1>2. CASE Close
  <2>1. line' = [host |-> 0, up |-> FALSE, pipe |-> <<>>, doubt |-> FALSE] /\ answer' = answer
    BY <1>2 DEF Close, NoLine
  <2> QED
    BY <2>1, NewLine, AnswerStays DEF SessionInv
<1>3. CASE RefreshHosts
  BY <1>3, LineStays, AnswerStays DEF RefreshHosts, SessionInv
<1>4. CASE \E c \in Commands : Execute(c)
  BY <1>4, LineStays, AnswerStays DEF Execute, SessionInv
<1>5. CASE Accepts
  <2>1. PICK late \in {<<>>, <<0>>} : line' = Fresh(Head(call.todo), late)
    BY <1>5, Zenon DEF Accepts
  <2>2. OwnAnswers'
    <3>1. answer' = answer \/ Raise("failed", FALSE)
      BY <1>5, Zenon DEF Accepts
    <3> QED
      BY <3>1, AnswerStays, RaisedIsOwn
  <2> QED
    BY <2>1, <2>2, NewLine DEF Fresh, SessionInv
<1>6. CASE Refuses
  <2>1. \/ line' = line
        \/ line' = NoLine
        \/ line' = [host |-> Head(call.todo), up |-> TRUE, pipe |-> <<0>>, doubt |-> TRUE]
    BY <1>6 DEF Refuses, Fresh
  <2>2. answer' = answer \/ Raise("failed", FALSE)
    BY <1>6, Zenon DEF Refuses
  <2>3. OwnAnswers'
    BY <2>2, AnswerStays, RaisedIsOwn
  <2> QED
    BY <2>1, <2>3, LineStays, NewLine DEF NoLine, SessionInv
<1>7. CASE Resets
  <2>1. OwnAnswers' /\ line' = line
    BY <1>7 DEF Resets, OwnAnswers
  <2> QED
    BY <2>1, LineStays DEF SessionInv
<1>8. CASE LoginMalformed
  <2>1. Raise("malformed", FALSE) /\ line' = Fresh(Head(call.todo), <<>>)
    BY <1>8 DEF LoginMalformed
  <2> QED
    BY <2>1, RaisedIsOwn, NewLine DEF Fresh, SessionInv
<1>9. PICK h, u, p, d : line = [host |-> h, up |-> u, pipe |-> p, doubt |-> d] /\ (p # <<>> => d)
  BY DEF SessionInv
<1>10. PICK c, q : c = call.command /\ q = Append(p, c)
  OBVIOUS
<1>11. p = <<>> => q = <<c>> /\ Head(q) = c /\ Tail(q) = <<>>
  BY <1>10, ReadOff
<1>12. line.pipe = p /\ line.doubt = d /\ line.host = h /\ line.up = u
  BY <1>9
<1>13. CASE Answers
  <2>1. line' = [line EXCEPT !.pipe = Tail(q)] /\ Return(Head(q), d)
    BY <1>10, <1>12, <1>13 DEF Answers
  <2>2. line' = [host |-> h, up |-> u, pipe |-> Tail(q), doubt |-> d]
    BY <1>9, <2>1
  <2>3. answer' = [command |-> c, of |-> Head(q), result |-> "value", doubt |-> d]
    BY <1>10, <2>1 DEF Return
  <2>4. OwnAnswers'
    BY <1>9, <1>11, <2>3 DEF OwnAnswers
  <2> QED
    BY <1>9, <1>11, <2>2, <2>4, NewLine DEF SessionInv
<1>14. CASE Malformed
  <2>1. line' = [line EXCEPT !.pipe = Tail(Append(@, call.command))] /\ Raise("malformed", line.doubt)
    BY <1>14 DEF Malformed
  <2>2. line' = [host |-> h, up |-> u, pipe |-> Tail(q), doubt |-> d]
    BY <1>9, <1>10, <2>1
  <2>3. OwnAnswers'
    BY <2>1, RaisedIsOwn
  <2> QED
    BY <1>9, <1>11, <2>2, <2>3, NewLine DEF SessionInv
<1>15. CASE Fails
  <2>1. MacRetry \/ MacExRetry \/ ExRetry \/ GiveUp
    BY <1>15, Zenon DEF Fails
  <2>2. CASE MacRetry \/ MacExRetry \/ ExRetry
    <3>1. line' = NoLine /\ answer' = answer
      BY <2>2 DEF MacRetry, MacExRetry, ExRetry
    <3> QED
      BY <3>1, NewLine, AnswerStays DEF NoLine, SessionInv
  <2>3. CASE GiveUp
    <3>1. PICK broken \in Broken : line' = [broken EXCEPT !.doubt = TRUE]
      BY <2>3 DEF GiveUp
    <3>2. OwnAnswers'
      BY <2>3, RaisedIsOwn DEF GiveUp
    <3>3. \E v, w : broken = [host |-> h, up |-> v, pipe |-> w, doubt |-> d]
      BY <1>9 DEF Broken
    <3>4. PICK v, w : broken = [host |-> h, up |-> v, pipe |-> w, doubt |-> d]
      BY <3>3
    <3>5. line' = [host |-> h, up |-> v, pipe |-> w, doubt |-> TRUE]
      BY <3>1, <3>4
    <3> QED
      BY <3>2, <3>5, NewLine DEF SessionInv
  <2> QED
    BY <2>1, <2>2, <2>3
<1>16. CASE \E g \in Hosts : BecomesSteady(g)
  BY <1>16, LineStays, AnswerStays DEF BecomesSteady, SessionInv
<1>17. CASE UNCHANGED sessionVars
  BY <1>17, LineStays, AnswerStays DEF sessionVars, SessionInv
<1> QED
  BY <1>1, <1>2, <1>3, <1>4, <1>5, <1>6, <1>7, <1>8, <1>13, <1>14, <1>15, <1>16, <1>17 DEF SessionNext

\* What a call of a quote client returns is the answer to its own command,
\* unless a failure on that line was told before (mac/client.py, ex/client.py).
THEOREM SessionsGetTheirOwn == SessionSpec => []OwnAnswers
<1>1. SessionInit => SessionInv
  BY InitSession
<1>2. SessionInv /\ [SessionNext]_sessionVars => SessionInv'
  BY SessionStep
<1>3. SessionInv => OwnAnswers
  BY DEF SessionInv
<1> QED
  BY <1>1, <1>2, <1>3, PTL DEF SessionSpec
================================================================================
