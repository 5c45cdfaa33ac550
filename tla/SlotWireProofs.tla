---------------------------- MODULE SlotWireProofs ----------------------------
(***************************************************************************)
(* Proofs about SlotWire, for any number of endpoints, exchanges, unasked  *)
(* frames and identities (WireAssumption: there is one of each at least).  *)
(* Everything rests on the worker and its Slot agreeing on what is open    *)
(* (InStep).  An answer is its exchange's own because no two exchanges     *)
(* that a connection knows of share an identity (Identified), and where    *)
(* identities come again, because no more than one answer can be under way *)
(* (OneAnswer); an attempt reaches each endpoint because it takes them in  *)
(* turn from where it began (Rotates).                                     *)
(***************************************************************************)
EXTENDS SlotWire, SequenceTheorems, WellFoundedInduction, TLAPS

-----------------------------------------------------------------------------
(* Types. *)

Exchanges == [message : Messages, number : Nat, boundary : Nat]
SlotRecords == [state : States, generation : Nat, active : BOOLEAN, exchange : Exchanges,
                sequence : Nat]
Places == {"free", "connecting", "writing", "reading", "greeted", "answered", "retired", "failed"}
WorkerRecords == [work : Types \cup {"none"}, at : Places, boundary : Nat, again : BOOLEAN]
UsedRecords == [exchanges : 0 .. MaxExchanges, refresh : 0 .. RefreshIds]
Frames == [message : Messages, answers : Nat]
Questions == [message : Messages, number : Nat]
TakenTypes == Types \cup {"handshake", "none"}
TakenRecords == [exchange : Nat, answers : Nat, type : TakenTypes]
RoutedRecords == [published : Nat, answered : Nat]
Rotations == [next : 1 .. NEndpoints, remaining : 0 .. NEndpoints]

TypeInv ==
    /\ SlotTypeOK
    /\ used.refresh <= used.exchanges
    /\ slot.exchange.message.type \in TakenTypes

\* The types by their names.
LEMMA Typed ==
  TypeInv <=> /\ repeats \in BOOLEAN /\ slot \in SlotRecords /\ rotation \in Rotations
              /\ worker \in WorkerRecords /\ used \in UsedRecords /\ inbound \in Seq(Frames)
              /\ asked \subseteq Questions /\ unasked \in 0 .. MaxUnasked
              /\ taken \in TakenRecords /\ routed \in RoutedRecords
              /\ tried \in Seq(1 .. NEndpoints) /\ used.refresh <= used.exchanges
              /\ slot.exchange.message.type \in TakenTypes
  BY DEF TypeInv, SlotTypeOK, Exchanges, SlotRecords, Places, WorkerRecords, UsedRecords, Frames,
         Questions, TakenTypes, TakenRecords, RoutedRecords, Rotations

LEMMA TypedThen ==
  TypeInv' <=> /\ repeats' \in BOOLEAN /\ slot' \in SlotRecords /\ rotation' \in Rotations
               /\ worker' \in WorkerRecords /\ used' \in UsedRecords /\ inbound' \in Seq(Frames)
               /\ asked' \subseteq Questions /\ unasked' \in 0 .. MaxUnasked
               /\ taken' \in TakenRecords /\ routed' \in RoutedRecords
               /\ tried' \in Seq(1 .. NEndpoints) /\ used'.refresh <= used'.exchanges
               /\ slot'.exchange.message.type \in TakenTypes
  BY DEF TypeInv, SlotTypeOK, Exchanges, SlotRecords, Places, WorkerRecords, UsedRecords, Frames,
         Questions, TakenTypes, TakenRecords, RoutedRecords, Rotations

LEMMA TypesOfTheConstants ==
  ASSUME WireAssumption
  PROVE  /\ None \in Messages /\ Push \in Messages /\ Bad \in Messages
         /\ Nothing \in Exchanges /\ Nothing.message = None /\ None.type = "none"
         /\ Nothing.number = 0
         /\ Free \in WorkerRecords /\ Free.work = "none" /\ Free.at = "free"
         /\ Fresh \in RoutedRecords /\ Fresh.published = 0 /\ Fresh.answered = 0
<1>1. 0 \in 0 .. MaxExchanges + FlowIds
  BY DEF WireAssumption
<1>2. None \in Messages /\ Push \in Messages /\ Bad \in Messages
  BY <1>1 DEF None, Push, Bad, Messages, Types
<1>3. Nothing \in Exchanges /\ Nothing.message = None /\ Nothing.number = 0
  BY <1>2 DEF Nothing, Exchanges, NoExchange
<1> QED
  BY <1>2, <1>3 DEF None, Free, Fresh, WorkerRecords, RoutedRecords, Places

LEMMA TypesOfTheParts ==
  ASSUME TypeInv
  PROVE  /\ slot.state \in States /\ slot.generation \in Nat /\ slot.active \in BOOLEAN
         /\ slot.sequence \in Nat /\ slot.exchange \in Exchanges
         /\ slot.exchange.message \in Messages
         /\ slot.exchange.number \in Nat /\ slot.exchange.boundary \in Nat
         /\ rotation.next \in 1 .. NEndpoints /\ rotation.remaining \in 0 .. NEndpoints
         /\ used.exchanges \in 0 .. MaxExchanges /\ used.refresh \in 0 .. RefreshIds
         /\ used.refresh <= used.exchanges
         /\ worker.again \in BOOLEAN /\ worker.boundary \in Nat /\ worker.at \in Places
         /\ worker.work \in Types \cup {"none"}
         /\ routed.published \in Nat /\ routed.answered \in Nat
         /\ Len(inbound) \in Nat /\ DOMAIN inbound = 1 .. Len(inbound)
         /\ \A i \in DOMAIN inbound : inbound[i] \in Frames /\ inbound[i].answers \in Nat
<1>1. /\ slot \in SlotRecords /\ rotation \in Rotations /\ worker \in WorkerRecords
      /\ used \in UsedRecords /\ inbound \in Seq(Frames) /\ routed \in RoutedRecords
      /\ used.refresh <= used.exchanges
  BY Typed
<1>2. /\ slot.state \in States /\ slot.generation \in Nat /\ slot.active \in BOOLEAN
      /\ slot.sequence \in Nat /\ slot.exchange \in Exchanges
  BY <1>1 DEF SlotRecords
<1>3. /\ slot.exchange.message \in Messages
      /\ slot.exchange.number \in Nat /\ slot.exchange.boundary \in Nat
  BY <1>2 DEF Exchanges
<1>4. rotation.next \in 1 .. NEndpoints /\ rotation.remaining \in 0 .. NEndpoints
  BY <1>1 DEF Rotations
<1>5. used.exchanges \in 0 .. MaxExchanges /\ used.refresh \in 0 .. RefreshIds
  BY <1>1 DEF UsedRecords
<1>6. /\ worker.again \in BOOLEAN /\ worker.boundary \in Nat /\ worker.at \in Places
      /\ worker.work \in Types \cup {"none"}
  BY <1>1 DEF WorkerRecords
<1>7. routed.published \in Nat /\ routed.answered \in Nat
  BY <1>1 DEF RoutedRecords
<1>8. Len(inbound) \in Nat /\ DOMAIN inbound = 1 .. Len(inbound)
  BY <1>1
<1>9. \A i \in 1 .. Len(inbound) : inbound[i] \in Frames
  BY <1>1
<1>10. \A f \in Frames : f.answers \in Nat
  BY DEF Frames
<1> QED
  BY <1>1, <1>2, <1>3, <1>4, <1>5, <1>6, <1>7, <1>8, <1>9, <1>10

\* What an exchange begins with.
LEMMA Began ==
  ASSUME WireAssumption, TypeInv, NEW type \in {"ordinary", "flow", "refresh", "heartbeat", "handshake"},
         NEW state \in States, NEW boundary \in Nat, Begin(type, state, boundary)
  PROVE  /\ slot'.exchange.message \in Messages /\ slot'.exchange # Nothing
         /\ slot'.exchange.number = used.exchanges + 1 /\ slot'.exchange.boundary = boundary
         /\ slot'.state = state /\ slot'.active = TRUE
         /\ slot'.generation = slot.generation /\ slot'.sequence = slot.sequence
         /\ slot' \in SlotRecords
         /\ slot'.exchange.message.type = type /\ slot'.exchange.message.type \in TakenTypes
         /\ type \notin {"flow", "refresh"} => slot'.exchange.message.id = used.exchanges + 1
         /\ type = "refresh" => /\ slot'.exchange.message.id = used.refresh + 1
                                /\ used'.refresh = used.refresh + 1
         /\ used'.exchanges = used.exchanges + 1
         /\ used' \in UsedRecords
         /\ used'.refresh \in {used.refresh, used.refresh + 1}
         /\ used'.refresh <= used'.exchanges
<1>1. PICK m \in Identities(type) :
         slot' = [slot EXCEPT !.state = state, !.active = TRUE,
                       !.exchange = [message |-> m, number |-> used.exchanges + 1,
                                     boundary |-> boundary]]
  BY DEF Begin
<1>2. /\ used.exchanges \in 0 .. MaxExchanges /\ used.refresh \in 0 .. RefreshIds
      /\ used.refresh <= used.exchanges /\ used.exchanges < MaxExchanges
      /\ MaxExchanges \in Nat /\ FlowIds \in Nat /\ RefreshIds \in Nat
  BY TypesOfTheParts DEF Begin, WireAssumption
<1>3. /\ m.type = type
      /\ type = "flow" => m.id \in 1 .. FlowIds
      /\ type = "refresh" => m.id = used.refresh + 1 /\ m.id \in 1 .. RefreshIds
      /\ type \notin {"flow", "refresh"} => m.id = used.exchanges + 1
      /\ m = [type |-> m.type, id |-> m.id]
  BY DEF Identities
<1>4. m.id \in 0 .. MaxExchanges + FlowIds
  BY <1>2, <1>3
<1>5. m \in Messages
  BY <1>3, <1>4 DEF Messages, Types
<1>6. used' = [used EXCEPT !.exchanges = @ + 1, !.refresh = @ + IF type = "refresh" THEN 1 ELSE 0]
  BY DEF Begin
<1>7. used \in UsedRecords
  BY Typed
<1>8. /\ used'.exchanges = used.exchanges + 1
      /\ used'.refresh = IF type = "refresh" THEN used.refresh + 1 ELSE used.refresh
  BY <1>2, <1>6, <1>7 DEF UsedRecords
<1>9. /\ used'.exchanges \in 0 .. MaxExchanges /\ used'.refresh \in 0 .. RefreshIds
      /\ used'.refresh <= used'.exchanges
  BY <1>2, <1>3, <1>8
<1>10. used' \in UsedRecords
  <2>1. PICK x, y : x = used'.exchanges /\ y = used'.refresh
    OBVIOUS
  <2>2. DOMAIN used' = {"exchanges", "refresh"} /\ used' = [i \in DOMAIN used' |-> used'[i]]
    BY <1>6, <1>7 DEF UsedRecords
  <2>3. used' = [exchanges |-> x, refresh |-> y]
    BY <2>1, <2>2
  <2> QED
    BY <1>9, <2>1, <2>3 DEF UsedRecords
<1>11. PICK x : /\ x = [message |-> m, number |-> used.exchanges + 1, boundary |-> boundary]
                /\ x \in Exchanges
  <2>1. PICK k : k = used.exchanges + 1 /\ k \in Nat
    BY <1>2
  <2>2. [message |-> m, number |-> k, boundary |-> boundary] \in Exchanges
    BY <1>5, <2>1 DEF Exchanges
  <2> QED
    BY <2>1, <2>2
<1>12. slot' = [slot EXCEPT !.state = state, !.active = TRUE, !.exchange = x]
  BY <1>1, <1>11
<1>13. slot \in SlotRecords
  BY Typed
<1>14. /\ slot'.exchange = x /\ slot'.state = state /\ slot'.active = TRUE
       /\ slot'.generation = slot.generation /\ slot'.sequence = slot.sequence
       /\ slot' \in SlotRecords
  BY <1>11, <1>12, <1>13 DEF SlotRecords
<1>15. slot'.exchange.message.type \in TakenTypes /\ slot'.exchange # Nothing
  <2>1. x.message = m /\ Nothing.message.type = "none"
    BY <1>11 DEF Nothing, None
  <2> QED
    BY <1>3, <1>14, <2>1 DEF TakenTypes, Types
<1>16. /\ slot'.exchange.message = m /\ slot'.exchange.number = used.exchanges + 1
       /\ slot'.exchange.boundary = boundary
  BY <1>11, <1>14
<1> QED
  BY <1>3, <1>5, <1>8, <1>9, <1>10, <1>14, <1>15, <1>16

\* What the first frame that answers the open exchange is.
LEMMA AnswerMatches ==
  ASSUME NEW n \in Nat, NEW sent
  PROVE  /\ Answering(n, sent) \in 0 .. n
         /\ Answering(n, sent) # 0 =>
               Matches(inbound[Answering(n, sent)], slot.exchange, slot.sequence + Answering(n, sent),
                       sent)
<1> DEFINE fits == { i \in 1 .. n : Matches(inbound[i], slot.exchange, slot.sequence + i, sent) }
<1>1. Answering(n, sent) = IF fits = {} THEN 0 ELSE CHOOSE i \in fits : \A j \in fits : i <= j
  BY DEF Answering
<1>2. ASSUME fits # {} PROVE \E i \in fits : \A j \in fits : i <= j
  <2>1. PICK R : R = OpToRel(<, Nat)
    OBVIOUS
  <2>2. IsWellFoundedOn(R, Nat)
    BY <2>1, NatLessThanWellFounded, Zenon
  <2>3. fits \subseteq Nat
    OBVIOUS
  <2>4. PICK i \in fits : \A j \in fits : ~(<<j, i>> \in R)
    <3> HIDE DEF fits
    <3> QED
      BY <1>2, <2>2, <2>3, WFMin
  <2>5. \A i1, j1 \in Nat : i1 < j1 => <<i1, j1>> \in OpToRel(<, Nat)
    BY DEF OpToRel
  <2>6. \A i1, j1 \in Nat : i1 < j1 => <<i1, j1>> \in R
    BY <2>1, <2>5, Zenon
  <2>7. \A j \in fits : ~(j < i)
    BY <2>3, <2>4, <2>6
  <2> QED
    BY <2>3, <2>7
<1>3. CASE fits = {}
  BY <1>1, <1>3
<1>4. CASE fits # {}
  <2>1. PICK a : a = Answering(n, sent)
    OBVIOUS
  <2>2. a \in fits
    <3> HIDE DEF fits
    <3> QED
      BY <1>1, <1>2, <1>4, <2>1
  <2>3. a \in 1 .. n /\ Matches(inbound[a], slot.exchange, slot.sequence + a, sent)
    BY <2>2
  <2> QED
    BY <2>1, <2>3
<1> QED
  BY <1>3, <1>4

\* What a turn of n frames does, of which frame a answers the open exchange.
LEMMA Turned ==
  ASSUME WireAssumption, TypeInv, NEW n, NEW sent, Turn(n, sent)
  PROVE  \E a \in 0 .. n :
            /\ a = Answering(n, sent) /\ n \in 1 .. Len(inbound)
            /\ a # 0 => /\ Matches(inbound[a], slot.exchange, slot.sequence + a, sent)
                        /\ a \in DOMAIN inbound
            /\ inbound' \in Seq(Frames)
            /\ \A i \in DOMAIN inbound' :
                  i + n \in DOMAIN inbound /\ inbound'[i] = inbound[i + n] /\ i + n # a
            /\ slot' \in SlotRecords /\ routed' \in RoutedRecords
            /\ slot'.exchange.message.type \in TakenTypes
            /\ slot'.sequence = slot.sequence + n
            /\ routed'.published + routed'.answered = routed.published + routed.answered + n
            /\ a = 0 => /\ slot'.exchange = slot.exchange /\ slot'.state = slot.state
                        /\ slot'.active = slot.active /\ taken' = taken
            /\ a # 0 => /\ slot'.exchange = Nothing /\ slot'.state = "idle"
                        /\ slot'.active = ~(slot.state = "handshaking" /\ worker.work = "connect")
                        /\ taken' = [exchange |-> slot.exchange.number,
                                     answers |-> inbound[a].answers,
                                     type |-> slot.exchange.message.type]
                        /\ taken' \in TakenRecords
<1>1. PICK a : a = Answering(n, sent)
  OBVIOUS
<1>2. /\ n \in Nat /\ n \in 1 .. Len(inbound) /\ Len(inbound) \in Nat
      /\ DOMAIN inbound = 1 .. Len(inbound)
      /\ \A i \in DOMAIN inbound : inbound[i] \in Frames /\ inbound[i].answers \in Nat
      /\ slot.sequence \in Nat /\ slot.exchange.number \in Nat
      /\ routed.published \in Nat /\ routed.answered \in Nat
  BY TypesOfTheParts DEF Turn, WireAssumption
<1>3. /\ a \in 0 .. n
      /\ a # 0 => Matches(inbound[a], slot.exchange, slot.sequence + a, sent) /\ a \in DOMAIN inbound
  BY <1>1, <1>2, AnswerMatches
<1>4. slot \in SlotRecords /\ slot.exchange.message.type \in TakenTypes /\ inbound \in Seq(Frames)
  BY Typed
<1>5. /\ inbound' \in Seq(Frames)
      /\ \A i \in DOMAIN inbound' :
            i + n \in DOMAIN inbound /\ inbound'[i] = inbound[i + n] /\ i + n # a
  <2>1. inbound' = SubSeq(inbound, n + 1, Len(inbound))
    BY DEF Turn
  <2>2. PICK q, l : q = inbound /\ l = Len(inbound) /\ q \in Seq(Frames) /\ l \in Nat /\ l = Len(q)
    BY <1>2, <1>4
  <2>3. inbound' = SubSeq(q, n + 1, l) /\ DOMAIN q = 1 .. l /\ n <= l
    BY <1>2, <2>1, <2>2
  <2>4. inbound' \in Seq(Frames) /\ Len(inbound') = l - n /\ \A i \in 1 .. l - n : inbound'[i] = q[i + n]
    <3>1. PICK m : m = n + 1 /\ m \in Int /\ l \in Int
      BY <1>2, <2>2
    <3>2. \A i \in m .. l : q[i] \in Frames
      <4>1. \A i \in m .. l : i \in 1 .. l
        BY <1>2, <2>2, <3>1
      <4> QED
        BY <1>2, <2>2, <2>3, <4>1
    <3>3. /\ SubSeq(q, m, l) \in Seq(Frames)
          /\ Len(SubSeq(q, m, l)) = IF m <= l THEN l - m + 1 ELSE 0
          /\ \A i \in 1 .. l - m + 1 : SubSeq(q, m, l)[i] = q[m + i - 1]
      <4>1. PICK R : R = Frames
        OBVIOUS
      <4>2. \A i \in m .. l : q[i] \in R
        BY <3>2, <4>1
      <4>3. /\ SubSeq(q, m, l) \in Seq(R)
            /\ Len(SubSeq(q, m, l)) = IF m <= l THEN l - m + 1 ELSE 0
            /\ \A i \in 1 .. l - m + 1 : SubSeq(q, m, l)[i] = q[m + i - 1]
        BY <3>1, <4>2, SubSeqProperties
      <4> QED
        BY <4>1, <4>3
    <3>4. (IF m <= l THEN l - m + 1 ELSE 0) = l - n /\ l - m + 1 = l - n
      <4>1. n \in Nat /\ l \in Nat /\ n <= l /\ m = n + 1
        BY <1>2, <2>2, <2>3, <3>1
      <4>2. l - m + 1 = l - n
        BY <4>1
      <4>3. CASE m <= l
        BY <4>2, <4>3
      <4>4. CASE ~(m <= l)
        <5>1. l - n = 0
          BY <4>1, <4>4
        <5> QED
          BY <4>2, <4>4, <5>1
      <4> QED
        BY <4>3, <4>4
    <3>5. \A i \in 1 .. l - n : m + i - 1 = i + n
      BY <1>2, <2>2, <3>1
    <3>6. inbound' = SubSeq(q, m, l)
      BY <2>3, <3>1
    <3>7. \A i \in 1 .. l - n : inbound'[i] = q[m + i - 1]
      BY <3>3, <3>4, <3>6
    <3>8. \A i \in 1 .. l - n : inbound'[i] = q[i + n]
      BY <3>5, <3>7
    <3>9. inbound' \in Seq(Frames)
      BY <3>3, <3>6
    <3>10. Len(inbound') = l - n
      BY <3>3, <3>4, <3>6
    <3> QED
      BY <3>8, <3>9, <3>10
  <2>5. \A i \in 1 .. l - n : i + n \in 1 .. l
    BY <1>2, <2>2, <2>3
  <2>6. DOMAIN inbound' = 1 .. l - n
    BY <2>4
  <2>7. \A i \in 1 .. l - n : i + n # a
    BY <1>2, <1>3, <2>2
  <2> QED
    BY <2>2, <2>3, <2>4, <2>5, <2>6, <2>7, Zenon
<1>6. /\ routed' \in RoutedRecords
      /\ routed'.published + routed'.answered = routed.published + routed.answered + n
  <2>1. routed' = [published |-> routed.published + Published(n, a),
                   answered |-> routed.answered + IF a = 0 THEN 0 ELSE 1]
    BY <1>1 DEF Turn
  <2>2. PICK p : p = routed.published + Published(n, a)
    OBVIOUS
  <2>3. PICK w : w = routed.answered + IF a = 0 THEN 0 ELSE 1
    OBVIOUS
  <2>4. p = routed.published + (IF a = 0 THEN n ELSE n - 1)
    BY <2>2 DEF Published
  <2>5. p \in Nat /\ w \in Nat /\ p + w = routed.published + routed.answered + n
    <3>1. PICK x, y : x = routed.published /\ y = routed.answered /\ x \in Nat /\ y \in Nat
      BY <1>2
    <3>2. p = x + (IF a = 0 THEN n ELSE n - 1) /\ w = y + (IF a = 0 THEN 0 ELSE 1)
      BY <2>3, <2>4, <3>1
    <3>3. n \in Nat /\ n >= 1
      BY <1>2
    <3>4. p \in Nat /\ w \in Nat /\ p + w = x + y + n
      BY <3>1, <3>2, <3>3
    <3> QED
      BY <3>1, <3>4
  <2>6. routed' = [published |-> p, answered |-> w]
    BY <2>1, <2>2, <2>3
  <2> QED
    BY <2>5, <2>6 DEF RoutedRecords
<1>7. PICK k : k = slot.sequence + n /\ k \in Nat
  BY <1>2
<1>8. CASE a = 0
  <2>1. slot' = [slot EXCEPT !.sequence = k] /\ taken' = taken
    <3>1. slot' = [slot EXCEPT !.sequence = @ + n] /\ taken' = taken
      BY <1>1, <1>8 DEF Turn
    <3>2. slot' = [slot EXCEPT !.sequence = slot.sequence + n]
      BY <3>1
    <3>3. k = slot.sequence + n
      BY <1>7
    <3>4. slot' = [slot EXCEPT !.sequence = k]
      BY <3>2, <3>3, Zenon
    <3>5. taken' = taken
      BY <3>1
    <3> QED
      BY <3>4, <3>5
  <2>2. /\ slot' \in SlotRecords /\ slot'.sequence = k /\ slot'.exchange = slot.exchange
        /\ slot'.state = slot.state /\ slot'.active = slot.active
    BY <1>4, <1>7, <2>1 DEF SlotRecords
  <2> QED
    BY <1>1, <1>2, <1>3, <1>4, <1>5, <1>6, <1>7, <1>8, <2>1, <2>2
<1>9. CASE a # 0
  <2>1. PICK b \in BOOLEAN : b = ~(slot.state = "handshaking" /\ worker.work = "connect")
    OBVIOUS
  <2>2. /\ slot' = [slot EXCEPT !.sequence = k, !.exchange = Nothing, !.state = "idle", !.active = b]
        /\ taken' = [exchange |-> slot.exchange.number, answers |-> inbound[a].answers,
                     type |-> slot.exchange.message.type]
    <3>1. /\ slot' = [slot EXCEPT
                      !.sequence = @ + n, !.exchange = Nothing, !.state = "idle",
                      !.active = ~(slot.state = "handshaking" /\ worker.work = "connect")]
          /\ taken' = [exchange |-> slot.exchange.number, answers |-> inbound[a].answers,
                       type |-> slot.exchange.message.type]
      BY <1>1, <1>9 DEF Turn
    <3>2. slot' = [slot EXCEPT
                      !.sequence = slot.sequence + n, !.exchange = Nothing, !.state = "idle",
                      !.active = ~(slot.state = "handshaking" /\ worker.work = "connect")]
      BY <3>1
    <3>3. k = slot.sequence + n
      BY <1>7
    <3>4. slot' = [slot EXCEPT
                      !.sequence = k, !.exchange = Nothing, !.state = "idle",
                      !.active = ~(slot.state = "handshaking" /\ worker.work = "connect")]
      BY <3>2, <3>3, Zenon
    <3> QED
      BY <2>1, <3>1, <3>4, Zenon
  <2>3. Nothing \in Exchanges /\ Nothing.message.type = "none"
    BY TypesOfTheConstants
  <2>4. /\ slot' \in SlotRecords /\ slot'.sequence = k /\ slot'.exchange = Nothing
        /\ slot'.state = "idle" /\ slot'.active = b
    BY <1>4, <1>7, <2>2, <2>3 DEF SlotRecords, States
  <2>5. taken' \in TakenRecords
    BY <1>2, <1>3, <1>4, <1>9, <2>2 DEF TakenRecords
  <2>6. slot'.exchange.message.type \in TakenTypes
    BY <2>3, <2>4 DEF TakenTypes
  <2> QED
    BY <1>1, <1>2, <1>3, <1>4, <1>5, <1>6, <1>7, <1>9, <2>1, <2>2, <2>4, <2>5, <2>6
<1> QED
  BY <1>8, <1>9

\* The endpoint after the last is the first.
LEMMA FollowingWraps ==
  ASSUME NEW n \in Nat \ {0}, NEW e \in 1 .. n
  PROVE  (e % n) + 1 = IF e = n THEN 1 ELSE e + 1
<1>1. CASE e = n
  <2>1. n % n = 0
    OBVIOUS
  <2> QED
    BY <1>1, <2>1
<1>2. CASE e < n
  <2>1. e % n = e
    BY <1>2
  <2> QED
    BY <1>2, <2>1
<1> QED
  BY <1>1, <1>2

\* What beginning to dial does.
LEMMA Dialled ==
  ASSUME WireAssumption, TypeInv, NEW work \in Types, NEW begin \in BOOLEAN,
         NEW left, left = IF begin THEN NEndpoints ELSE rotation.remaining,
         StartConnect(work, begin)
  PROVE  /\ slot.state = "disconnected" /\ left \in 1 .. NEndpoints
         /\ slot' \in SlotRecords /\ slot'.exchange = slot.exchange
         /\ slot'.state = "connecting" /\ slot'.sequence = slot.sequence
         /\ rotation' \in Rotations /\ rotation'.remaining = left - 1
         /\ rotation'.next = IF rotation.next = NEndpoints THEN 1 ELSE rotation.next + 1
         /\ tried' \in Seq(1 .. NEndpoints)
         /\ tried' = IF begin THEN <<rotation.next>> ELSE Append(tried, rotation.next)
         /\ worker' = [work |-> work, at |-> "connecting", boundary |-> 0, again |-> left > 1]
         /\ worker' \in WorkerRecords /\ worker'.again = (left > 1)
         /\ used' \in UsedRecords /\ used'.exchanges = used.exchanges + 1
         /\ used'.refresh = used.refresh /\ used'.refresh <= used'.exchanges
         /\ UNCHANGED <<repeats, inbound, asked, unasked, taken, routed>>
<1>1. /\ slot.state = "disconnected" /\ left > 0 /\ used.exchanges < MaxExchanges
      /\ rotation' = [next |-> Following(rotation.next), remaining |-> left - 1]
      /\ tried' = Append(IF begin THEN <<>> ELSE tried, rotation.next)
      /\ slot' = [slot EXCEPT !.state = "connecting", !.active = TRUE]
      /\ worker' = [work |-> work, at |-> "connecting", boundary |-> 0, again |-> left > 1]
      /\ used' = [used EXCEPT !.exchanges = @ + 1]
      /\ UNCHANGED <<repeats, inbound, asked, unasked, taken, routed>>
  BY DEF StartConnect
<1>2. /\ rotation.next \in 1 .. NEndpoints /\ rotation.remaining \in 0 .. NEndpoints
      /\ used.exchanges \in 0 .. MaxExchanges /\ used.refresh \in 0 .. RefreshIds
      /\ used.refresh <= used.exchanges /\ NEndpoints \in Nat \ {0} /\ MaxExchanges \in Nat
  BY TypesOfTheParts DEF WireAssumption
<1>3. left \in 1 .. NEndpoints /\ left - 1 \in 0 .. NEndpoints
  BY <1>1, <1>2
<1>4. slot \in SlotRecords /\ used \in UsedRecords /\ tried \in Seq(1 .. NEndpoints)
  BY Typed
<1>5. /\ slot' \in SlotRecords /\ slot'.exchange = slot.exchange
      /\ slot'.state = "connecting" /\ slot'.sequence = slot.sequence
  BY <1>1, <1>4 DEF SlotRecords, States
<1>6. PICK e \in 1 .. NEndpoints : /\ e = Following(rotation.next)
                                   /\ e = IF rotation.next = NEndpoints THEN 1 ELSE rotation.next + 1
  <2>1. (rotation.next % NEndpoints) + 1 = IF rotation.next = NEndpoints THEN 1 ELSE rotation.next + 1
    BY <1>2, FollowingWraps
  <2>2. Following(rotation.next) = IF rotation.next = NEndpoints THEN 1 ELSE rotation.next + 1
    BY <2>1 DEF Following
  <2>3. (IF rotation.next = NEndpoints THEN 1 ELSE rotation.next + 1) \in 1 .. NEndpoints
    BY <1>2
  <2> QED
    BY <2>2, <2>3
<1>7. PICK r \in 0 .. NEndpoints : r = left - 1
  BY <1>3
<1>8. rotation' = [next |-> e, remaining |-> r]
  BY <1>1, <1>6, <1>7
<1>9. rotation' \in Rotations /\ rotation'.next = e /\ rotation'.remaining = r
  BY <1>8 DEF Rotations
<1>10. /\ tried' \in Seq(1 .. NEndpoints)
       /\ tried' = IF begin THEN <<rotation.next>> ELSE Append(tried, rotation.next)
  <2>1. PICK E : E = 1 .. NEndpoints
    OBVIOUS
  <2>2. Append(tried, rotation.next) \in Seq(E)
    BY <1>2, <1>4, <2>1
  <2>3. Append(<<>>, rotation.next) = <<rotation.next>> /\ <<rotation.next>> \in Seq(E)
    BY <1>2, <2>1
  <2> QED
    BY <1>1, <2>1, <2>2, <2>3
<1>11. worker' \in WorkerRecords /\ worker'.again = (left > 1)
  <2>1. PICK b \in BOOLEAN : b = (left > 1)
    <3>1. CASE left > 1
      <4>1. TRUE = (left > 1)
        BY <3>1
      <4> QED
        BY <4>1, Zenon
    <3>2. CASE ~(left > 1)
      <4>1. FALSE = (left > 1)
        BY <3>2
      <4> QED
        BY <4>1, Zenon
    <3> QED
      BY <3>1, <3>2
  <2>2. worker' = [work |-> work, at |-> "connecting", boundary |-> 0, again |-> b]
    BY <1>1, <2>1, Zenon
  <2> QED
    BY <2>1, <2>2 DEF WorkerRecords, Places
<1>12. /\ used' \in UsedRecords /\ used'.exchanges = used.exchanges + 1
       /\ used'.refresh = used.refresh /\ used'.refresh <= used'.exchanges
  <2>1. PICK k \in 0 .. MaxExchanges : k = used.exchanges + 1 /\ used.refresh <= k
    BY <1>1, <1>2
  <2>2. used' = [used EXCEPT !.exchanges = k]
    <3>1. used' = [used EXCEPT !.exchanges = used.exchanges + 1]
      BY <1>1
    <3> QED
      BY <2>1, <3>1, Zenon
  <2>3. used' \in UsedRecords /\ used'.exchanges = k /\ used'.refresh = used.refresh
    BY <1>4, <2>1, <2>2 DEF UsedRecords
  <2> QED
    BY <2>1, <2>3
<1> QED
  BY <1>1, <1>3, <1>5, <1>6, <1>7, <1>9, <1>10, <1>11, <1>12

\* What dropping a generation does.
LEMMA Dropped ==
  ASSUME WireAssumption, TypeInv, Drop
  PROVE  /\ slot' \in SlotRecords /\ slot'.exchange = Nothing /\ slot'.state = "disconnected"
         /\ slot'.active = FALSE /\ slot'.sequence = 0
         /\ slot'.exchange.message.type \in TakenTypes
         /\ inbound' = <<>> /\ inbound' \in Seq(Frames) /\ asked' = {} /\ routed' = Fresh
         /\ routed' \in RoutedRecords
         /\ UNCHANGED <<repeats, rotation, used, unasked, taken, tried>>
<1>1. PICK g \in Nat : g = slot.generation + 1
  BY TypesOfTheParts
<1>2. slot' = [state |-> "disconnected", generation |-> g, active |-> FALSE,
               exchange |-> Nothing, sequence |-> 0]
  BY <1>1 DEF Drop, Retired
<1>3. Nothing \in Exchanges /\ Nothing.message.type = "none" /\ Fresh \in RoutedRecords
  BY TypesOfTheConstants
<1>4. /\ slot' \in SlotRecords /\ slot'.exchange = Nothing /\ slot'.state = "disconnected"
      /\ slot'.active = FALSE /\ slot'.sequence = 0
  BY <1>2, <1>3 DEF SlotRecords, States
<1>5. slot'.exchange.message.type \in TakenTypes
  BY <1>3, <1>4 DEF TakenTypes
<1>6. <<>> \in Seq(Frames)
  OBVIOUS
<1> QED
  BY <1>3, <1>4, <1>5, <1>6 DEF Drop

\* What the server does to the Slot's input.
LEMMA Received ==
  ASSUME TypeInv, NEW frame \in Frames, Send(frame)
  PROVE  /\ inbound' \in Seq(Frames) /\ DOMAIN inbound' = 1 .. Len(inbound) + 1
         /\ \A i \in DOMAIN inbound' :
               inbound'[i] = IF i = Len(inbound) + 1 THEN frame ELSE inbound[i]
         /\ UNCHANGED <<repeats, slot, rotation, worker, used, taken, routed, tried>>
<1>1. PICK q, n : q = inbound /\ q \in Seq(Frames) /\ n = Len(q) /\ n \in Nat
  BY Typed
<1>2. inbound' = Append(q, frame)
  BY <1>1 DEF Send
<1>3. /\ inbound' \in Seq(Frames) /\ DOMAIN inbound' = 1 .. n + 1
      /\ \A i \in 1 .. n + 1 : inbound'[i] = IF i = n + 1 THEN frame ELSE q[i]
  BY <1>1, <1>2
<1> QED
  BY <1>1, <1>3 DEF Send

-----------------------------------------------------------------------------
(* The worker and its Slot. *)

\* What the worker is at, its Slot is in; and what no connection serves is empty.
InStep ==
    /\ slot.exchange # Nothing <=> slot.state \in {"handshaking", "busy"}
    /\ slot.state \in {"disconnected", "connecting"} => inbound = <<>> /\ asked = {}
    /\ slot.state = "disconnected" => ~slot.active
    /\ worker.at = "free" => slot.state \in {"idle", "disconnected"} /\ ~slot.active
    /\ worker.at = "connecting" => slot.state = "connecting"
    /\ worker.at \in {"writing", "reading"} => slot.state \in {"handshaking", "busy"}
    /\ worker.at \in {"greeted", "answered", "failed"} => slot.state = "idle"
    /\ worker.at = "retired" => slot.state = "disconnected"
    /\ worker.at # "free" => worker.work \in Types
    /\ worker.at = "greeted" => worker.work # "connect"

InHand == TypeInv /\ InStep

\* The worker turns to something else.
LEMMA WorkerTurns ==
  ASSUME TypeInv, NEW at \in Places, worker' = [worker EXCEPT !.at = at]
  PROVE  /\ worker' \in WorkerRecords /\ worker'.at = at /\ worker'.work = worker.work
         /\ worker'.again = worker.again
<1>1. worker \in WorkerRecords
  BY Typed
<1> QED
  BY <1>1 DEF WorkerRecords

LEMMA ConnectedInHand == WireAssumption /\ InHand /\ Connected => InHand'
<1> SUFFICES ASSUME WireAssumption, InHand, Connected PROVE InHand'
  OBVIOUS
<1>1. TypeInv /\ InStep
  BY DEF InHand
<1>2.       /\ slot'.state = "handshaking" /\ slot' \in SlotRecords
            /\ slot'.exchange.message.type \in TakenTypes /\ slot'.exchange # Nothing
            /\ used' \in UsedRecords /\ used'.refresh <= used'.exchanges
  <2>1. Begin("handshake", "handshaking", 0) /\ "handshaking" \in States /\ 0 \in Nat
    BY DEF Connected, States
  <2> QED
    BY <1>1, <2>1, Began
<1>3. worker' \in WorkerRecords /\ worker'.at = "writing" /\ worker'.work = worker.work
  BY <1>1, WorkerTurns DEF Connected, Places
<1>4. UNCHANGED <<repeats, rotation, inbound, asked, unasked, taken, routed, tried>>
  BY DEF Connected
<1>5. TypeInv'
  BY <1>1, <1>2, <1>3, <1>4, Typed, TypedThen
<1>6. worker.at = "connecting"
  BY DEF Connected
<1>7. InStep'
  BY <1>1, <1>2, <1>3, <1>4, <1>6 DEF InStep, States
<1> QED
  BY <1>5, <1>7 DEF InHand

LEMMA BegunInHand ==
  ASSUME WireAssumption, InHand, NEW type \in Types, OnIdle(type) \/ BeginGreeted
  PROVE  InHand'
<1>1. TypeInv /\ InStep
  BY DEF InHand
<1>2. CASE OnIdle(type) /\ type = "connect"
  <2>1. UNCHANGED wireVars
    BY <1>2 DEF OnIdle, wireVars
  <2>2. TypeInv'
    BY <1>1, <2>1, Typed, TypedThen DEF wireVars
  <2>3. InStep'
    BY <1>1, <2>1 DEF InStep, wireVars
  <2> QED
    BY <2>2, <2>3 DEF InHand
<1>3. CASE ~(OnIdle(type) /\ type = "connect")
  <2>1. PICK work \in Types \ {"connect"}, boundary \in Nat : Begin(work, "busy", boundary)
    <3>1. slot.sequence \in Nat /\ worker.boundary \in Nat
      BY <1>1, TypesOfTheParts
    <3>2. CASE OnIdle(type)
      <4>1. type \in Types \ {"connect"} /\ Begin(type, "busy", slot.sequence)
        BY <1>3, <3>2 DEF OnIdle
      <4> QED
        BY <3>1, <4>1
    <3>3. CASE BeginGreeted
      <4>1. worker.work \in Types \ {"connect"} /\ Begin(worker.work, "busy", worker.boundary)
        BY <1>1, <3>3 DEF BeginGreeted, InStep
      <4> QED
        BY <3>1, <4>1
    <3> QED
      BY <3>2, <3>3
  <2>2. /\ slot'.state = "busy" /\ slot' \in SlotRecords
        /\ slot'.exchange.message.type \in TakenTypes /\ slot'.exchange # Nothing
        /\ used' \in UsedRecords /\ used'.refresh <= used'.exchanges
    <3>1. work \in {"ordinary", "flow", "refresh", "heartbeat", "handshake"} /\ "busy" \in States
      BY DEF Types, States
    <3> QED
      BY <1>1, <2>1, <3>1, Began
  <2>3. worker' \in WorkerRecords /\ worker'.at = "writing" /\ worker'.work \in Types
    <3>1. CASE OnIdle(type)
      <4>1. worker' = [work |-> type, at |-> "writing", boundary |-> 0, again |-> FALSE]
        BY <1>3, <3>1 DEF OnIdle
      <4> QED
        BY <4>1 DEF WorkerRecords, Places
    <3>2. CASE BeginGreeted
      <4>1. "writing" \in Places /\ worker' = [worker EXCEPT !.at = "writing"]
        BY <3>2 DEF BeginGreeted, Places
      <4>2. worker.work \in Types
        BY <1>1, <3>2 DEF BeginGreeted, InStep
      <4> QED
        BY <1>1, <4>1, <4>2, WorkerTurns
    <3> QED
      BY <3>1, <3>2
  <2>4. /\ UNCHANGED <<repeats, rotation, inbound, asked, unasked, taken, routed, tried>>
        /\ worker.at \in {"free", "greeted"} /\ slot.state = "idle"
    BY <1>1 DEF OnIdle, BeginGreeted, InStep
  <2>5. TypeInv'
    BY <1>1, <2>2, <2>3, <2>4, Typed, TypedThen
  <2>6. InStep'
    BY <1>1, <2>2, <2>3, <2>4 DEF InStep, States
  <2> QED
    BY <2>5, <2>6 DEF InHand
<1> QED
  BY <1>2, <1>3

\* OnDisconnected, GoOn and Retry.
LEMMA DialledInHand ==
  ASSUME WireAssumption, InHand, NEW work \in Types, NEW begin \in BOOLEAN,
         StartConnect(work, begin), worker.at \in {"free", "retired"}
  PROVE  InHand'
<1>1. TypeInv /\ InStep
  BY DEF InHand
<1>2. /\ slot.state = "disconnected"
      /\ slot' \in SlotRecords /\ slot'.exchange = slot.exchange
      /\ slot'.state = "connecting"
      /\ rotation' \in Rotations /\ tried' \in Seq(1 .. NEndpoints)
      /\ worker'.at = "connecting" /\ worker'.work = work
      /\ worker' \in WorkerRecords
      /\ used' \in UsedRecords /\ used'.refresh <= used'.exchanges
      /\ UNCHANGED <<repeats, inbound, asked, unasked, taken, routed>>
  <2>1. PICK left : left = IF begin THEN NEndpoints ELSE rotation.remaining
    OBVIOUS
  <2> QED
    BY <1>1, <2>1, Dialled
<1>3. TypeInv'
  BY <1>1, <1>2, Typed, TypedThen
<1>4. InStep'
  BY <1>1, <1>2 DEF InStep, States
<1> QED
  BY <1>3, <1>4 DEF InHand

LEMMA FailedInHand ==
  ASSUME WireAssumption, InHand, Fail \/ RetireIdle
  PROVE  InHand'
<1>1. TypeInv /\ InStep
  BY DEF InHand
<1>2. /\ slot' \in SlotRecords /\ slot'.exchange = Nothing /\ slot'.state = "disconnected"
      /\ slot'.active = FALSE /\ slot'.exchange.message.type \in TakenTypes
      /\ inbound' = <<>> /\ inbound' \in Seq(Frames) /\ asked' = {}
      /\ routed' \in RoutedRecords
      /\ UNCHANGED <<repeats, rotation, used, unasked, taken, tried>>
  BY <1>1, Dropped DEF Fail, RetireIdle
<1>3. /\ worker' \in WorkerRecords
      /\ \/ worker'.at = "retired" /\ worker'.work = worker.work /\ worker.at # "free"
         \/ worker'.at = "free"
  <2>1. CASE Fail
    <3>1. PICK b : b = (worker.again /\ (slot.state = "connecting" \/ worker.work = "connect"))
      OBVIOUS
    <3>2. b \in BOOLEAN
      BY <3>1
    <3>3. worker' = [worker EXCEPT !.at = "retired", !.again = b]
      BY <2>1, <3>1 DEF Fail
    <3>4. worker \in WorkerRecords
      BY <1>1, Typed
    <3>5. worker' \in WorkerRecords /\ worker'.at = "retired" /\ worker'.work = worker.work
      BY <3>2, <3>3, <3>4 DEF WorkerRecords, Places
    <3> QED
      BY <2>1, <3>5 DEF Fail
  <2>2. CASE RetireIdle
    BY <1>1, <2>2, Typed DEF RetireIdle
  <2> QED
    BY <2>1, <2>2
<1>4. TypeInv'
  BY <1>1, <1>2, <1>3, Typed, TypedThen
<1>5. InStep'
  BY <1>1, <1>2, <1>3 DEF InStep, States
<1> QED
  BY <1>4, <1>5 DEF InHand

LEMMA ReadInHand ==
  ASSUME WireAssumption, InHand, NEW n \in 1 .. FrameBudget, Read(n) \/ ReadIdle(n)
  PROVE  InHand'
<1>1. TypeInv /\ InStep
  BY DEF InHand
<1>2. PICK sent \in BOOLEAN : Turn(n, sent) /\ sent = (worker.at = "reading")
  BY DEF Read, ReadIdle
<1>3. PICK a \in 0 .. n :
            /\ a = Answering(n, sent) /\ inbound' \in Seq(Frames) /\ n \in 1 .. Len(inbound)
            /\ a # 0 => Matches(inbound[a], slot.exchange, slot.sequence + a, sent)
            /\ slot' \in SlotRecords /\ routed' \in RoutedRecords
            /\ slot'.exchange.message.type \in TakenTypes
            /\ a = 0 => /\ slot'.exchange = slot.exchange /\ slot'.state = slot.state
                        /\ slot'.active = slot.active /\ taken' = taken
            /\ a # 0 => /\ slot'.exchange = Nothing /\ slot'.state = "idle"
                        /\ slot'.active = ~(slot.state = "handshaking" /\ worker.work = "connect")
                        /\ taken' \in TakenRecords
  BY <1>1, <1>2, Turned
<1>4. UNCHANGED <<repeats, rotation, used, asked, unasked, tried>>
  BY <1>2 DEF Turn
<1>5. slot.state \notin {"disconnected", "connecting"} /\ inbound # <<>>
  <2>1. Len(<<>>) = 0
    OBVIOUS
  <2>2. inbound # <<>>
    BY <1>1, <1>3, <2>1, TypesOfTheParts
  <2> QED
    BY <1>1, <2>2 DEF InStep
<1>6. a # 0 => slot.exchange # Nothing /\ sent
  BY <1>3 DEF Matches
<1>7. CASE a = 0
  <2>1. worker' = worker
    BY <1>2, <1>3, <1>7 DEF Read, ReadIdle
  <2>2. TypeInv'
    BY <1>1, <1>3, <1>4, <1>7, <2>1, Typed, TypedThen
  <2>3. InStep'
    BY <1>1, <1>3, <1>4, <1>5, <1>7, <2>1 DEF InStep
  <2> QED
    BY <2>2, <2>3 DEF InHand
<1>8. CASE a # 0
  <2>1. worker.at = "reading" /\ Read(n) /\ slot.state \in {"handshaking", "busy"}
    BY <1>1, <1>2, <1>6, <1>8 DEF ReadIdle, InStep
  <2>2. worker' = IF slot.state = "busy" THEN [worker EXCEPT !.at = "answered"]
                  ELSE IF worker.work = "connect" THEN Free
                  ELSE [worker EXCEPT !.at = "greeted", !.boundary = slot.sequence + a]
    BY <1>2, <1>3, <1>8, <2>1 DEF Read
  <2>3. /\ worker' \in WorkerRecords
        /\ \/ worker'.at = "answered" /\ worker'.work = worker.work /\ slot.state = "busy"
           \/ worker'.at = "free" /\ slot.state = "handshaking" /\ worker.work = "connect"
           \/ worker'.at = "greeted" /\ worker'.work = worker.work /\ worker.work # "connect"
    <3>1. CASE slot.state = "busy"
      <4>1. "answered" \in Places
        BY DEF Places
      <4> QED
        BY <1>1, <2>2, <3>1, <4>1, WorkerTurns
    <3>2. CASE slot.state # "busy" /\ worker.work = "connect"
      BY <2>1, <2>2, <3>2, TypesOfTheConstants
    <3>3. CASE slot.state # "busy" /\ worker.work # "connect"
      <4>1. PICK b \in Nat : b = slot.sequence + a
        BY <1>1, <1>3, TypesOfTheParts
      <4>2. worker' = [worker EXCEPT !.at = "greeted", !.boundary = b]
        BY <2>2, <3>3, <4>1, Zenon
      <4>3. worker \in WorkerRecords
        BY <1>1, Typed
      <4> QED
        BY <3>3, <4>1, <4>2, <4>3 DEF WorkerRecords, Places
    <3> QED
      BY <3>1, <3>2, <3>3
  <2>4. TypeInv'
    BY <1>1, <1>3, <1>4, <1>8, <2>3, Typed, TypedThen
  <2>5. worker.work \in Types
    BY <1>1, <2>1 DEF InStep
  <2>6. InStep'
    BY <1>1, <1>3, <1>4, <1>8, <2>3, <2>5 DEF InStep
  <2> QED
    BY <2>4, <2>6 DEF InHand
<1> QED
  BY <1>7, <1>8

LEMMA ServedInHand ==
  ASSUME WireAssumption, InHand,
         (\E e \in asked : Answer(e)) \/ Unasked(Push) \/ Unasked(Bad)
  PROVE  InHand'
<1>1. TypeInv /\ InStep
  BY DEF InHand
<1>2. PICK frame \in Frames : Send(frame)
  <2>1. ASSUME NEW e \in asked, Answer(e) PROVE \E frame \in Frames : Send(frame)
    <3>1. e \in Questions
      BY <1>1, Typed
    <3>2. [message |-> e.message, answers |-> e.number] \in Frames
      BY <3>1 DEF Questions, Frames
    <3> QED
      BY <2>1, <3>2 DEF Answer
  <2>2. ASSUME NEW message \in {Push, Bad}, Unasked(message) PROVE \E frame \in Frames : Send(frame)
    <3>1. message \in Messages
      BY <2>2, TypesOfTheConstants
    <3>2. [message |-> message, answers |-> NoExchange] \in Frames
      BY <3>1 DEF Frames, NoExchange
    <3> QED
      BY <2>2, <3>2 DEF Unasked
  <2> QED
    BY <2>1, <2>2
<1>3. /\ inbound' \in Seq(Frames)
      /\ UNCHANGED <<repeats, slot, rotation, worker, used, taken, routed, tried>>
  BY <1>1, <1>2, Received
<1>4. asked' \subseteq asked
  BY DEF Answer, Unasked
<1>5. unasked' \in 0 .. MaxUnasked
  <2>1. unasked \in 0 .. MaxUnasked /\ MaxUnasked \in Nat
    BY <1>1, Typed DEF WireAssumption
  <2>2. unasked' \in {unasked, unasked + 1} /\ (unasked' <= MaxUnasked \/ unasked < MaxUnasked)
    BY DEF Answer, Unasked
  <2> QED
    BY <2>1, <2>2 DEF Answer, Unasked
<1>6. TypeInv'
  BY <1>1, <1>3, <1>4, <1>5, Typed, TypedThen
<1>7. slot.state \notin {"disconnected", "connecting"}
  BY <1>1 DEF Answer, Unasked, InStep
<1>8. InStep'
  BY <1>1, <1>3, <1>7 DEF InStep
<1> QED
  BY <1>6, <1>8 DEF InHand

LEMMA WorkedInHand ==
  ASSUME WireAssumption, InHand, Write \/ Finish \/ GiveUp \/ RunOut
  PROVE  InHand'
<1>1. TypeInv /\ InStep
  BY DEF InHand
<1>2. UNCHANGED <<repeats, rotation, used, inbound, unasked, taken, routed, tried>>
  BY DEF Write, Finish, GiveUp, RunOut
<1>3. asked' \subseteq Questions
  <2>1. asked \subseteq Questions /\ slot.exchange.message \in Messages /\ slot.exchange.number \in Nat
    BY <1>1, Typed, TypesOfTheParts
  <2>2. [message |-> slot.exchange.message, number |-> slot.exchange.number] \in Questions
    BY <2>1 DEF Questions
  <2> QED
    BY <2>1, <2>2 DEF Write, Finish, GiveUp, RunOut
<1>4. /\ slot' \in SlotRecords /\ slot'.exchange = slot.exchange /\ slot'.state = slot.state
      /\ \/ Finish /\ slot'.active = FALSE
         \/ (Write \/ GiveUp) /\ slot'.active = slot.active
         \/ RunOut
  <2>1. slot \in SlotRecords
    BY <1>1, Typed
  <2> QED
    BY <2>1 DEF Write, Finish, GiveUp, RunOut, SlotRecords
<1>5. /\ worker' \in WorkerRecords
      /\ \/ Write /\ worker'.at = "reading" /\ worker'.work = worker.work
         \/ (Finish \/ GiveUp) /\ worker'.at = "free"
         \/ RunOut /\ worker'.at = "failed" /\ worker'.work = "refresh"
  <2>1. worker \in WorkerRecords
    BY <1>1, Typed
  <2>2. CASE Write
    <3>1. "reading" \in Places /\ worker' = [worker EXCEPT !.at = "reading"]
      BY <2>2 DEF Write, Places
    <3> QED
      BY <1>1, <2>2, <3>1, WorkerTurns
  <2>3. CASE Finish \/ GiveUp
    BY <2>3, TypesOfTheConstants DEF Finish, GiveUp
  <2>4. CASE RunOut
    BY <2>1, <2>4 DEF RunOut, WorkerRecords, Places, Types
  <2> QED
    BY <2>2, <2>3, <2>4
<1>6. TypeInv'
  BY <1>1, <1>2, <1>3, <1>4, <1>5, Typed, TypedThen
<1>7. CASE Write
  <2>1. worker.at = "writing" /\ slot' = slot /\ worker'.at = "reading" /\ worker'.work = worker.work
    BY <1>1, <1>7, WorkerTurns DEF Write, Places
  <2> QED
    BY <1>1, <1>2, <1>6, <2>1 DEF InStep, InHand
<1>8. CASE Finish
  <2>1. worker.at = "answered" /\ asked' = asked /\ worker'.at = "free" /\ slot'.active = FALSE
    BY <1>1, <1>8, Typed DEF Finish, Free, SlotRecords
  <2> QED
    BY <1>1, <1>2, <1>4, <1>6, <2>1 DEF InStep, InHand
<1>9. CASE GiveUp
  <2>1. worker.at = "retired" /\ asked' = asked /\ worker'.at = "free" /\ slot' = slot
    BY <1>9 DEF GiveUp, Free
  <2> QED
    BY <1>1, <1>2, <1>6, <2>1 DEF InStep, InHand
<1>10. CASE RunOut
  <2>1. asked' = asked /\ worker'.at = "failed" /\ worker'.work = "refresh" /\ slot.state = "idle"
    BY <1>1, <1>10, Typed DEF RunOut, WorkerRecords
  <2> QED
    BY <1>1, <1>2, <1>4, <1>6, <2>1 DEF InStep, InHand, Types
<1> QED
  BY <1>7, <1>8, <1>9, <1>10

LEMMA InHandInit == WireAssumption /\ SlotInit => InHand
<1> SUFFICES ASSUME WireAssumption, SlotInit PROVE InHand
  OBVIOUS
<1>1. /\ Nothing \in Exchanges /\ Nothing.message.type = "none" /\ Free \in WorkerRecords
      /\ Free.at = "free" /\ Free.work = "none" /\ Fresh \in RoutedRecords
  BY TypesOfTheConstants
<1>2. NEndpoints \in Nat \ {0} /\ MaxUnasked \in Nat /\ MaxExchanges \in Nat /\ RefreshIds \in Nat
  BY DEF WireAssumption
<1>3. /\ slot \in SlotRecords /\ slot.exchange = Nothing /\ slot.state = "disconnected"
      /\ slot.active = FALSE
  BY <1>1 DEF SlotInit, SlotRecords, States
<1>4. rotation \in Rotations
  BY <1>2 DEF SlotInit, Rotations
<1>5. used \in UsedRecords /\ used.refresh <= used.exchanges
  BY <1>2 DEF SlotInit, UsedRecords
<1>6. taken \in TakenRecords
  BY DEF SlotInit, TakenRecords, TakenTypes, NoExchange
<1>7. /\ repeats \in BOOLEAN /\ worker = Free /\ inbound = <<>> /\ asked = {}
      /\ unasked \in 0 .. MaxUnasked /\ routed = Fresh /\ tried = <<>>
  BY <1>2 DEF SlotInit
<1>8. <<>> \in Seq(Frames) /\ <<>> \in Seq(1 .. NEndpoints)
  OBVIOUS
<1>9. TypeInv
  BY <1>1, <1>3, <1>4, <1>5, <1>6, <1>7, <1>8, Typed DEF TakenTypes
<1>10. InStep
  BY <1>1, <1>3, <1>7 DEF InStep
<1> QED
  BY <1>9, <1>10 DEF InHand

LEMMA InHandNext == WireAssumption /\ InHand /\ [SlotNext]_wireVars => InHand'
<1> SUFFICES ASSUME WireAssumption, InHand, [SlotNext]_wireVars PROVE InHand'
  OBVIOUS
<1>1. TypeInv /\ InStep
  BY DEF InHand
<1>2. CASE \E type \in Types : OnIdle(type) \/ OnDisconnected(type)
  <2>1. PICK type \in Types : OnIdle(type) \/ OnDisconnected(type)
    BY <1>2
  <2>2. CASE OnIdle(type)
    BY <2>2, BegunInHand
  <2>3. CASE OnDisconnected(type)
    <3>1. StartConnect(type, TRUE) /\ worker.at = "free" /\ TRUE \in BOOLEAN
      BY <2>3 DEF OnDisconnected
    <3> QED
      BY <3>1, DialledInHand
  <2> QED
    BY <2>1, <2>2, <2>3
<1>3. CASE Connected
  BY <1>3, ConnectedInHand
<1>4. CASE BeginGreeted
  <2>1. "flow" \in Types
    BY DEF Types
  <2> QED
    BY <1>4, <2>1, BegunInHand
<1>5. CASE Write \/ Finish \/ GiveUp \/ RunOut
  BY <1>5, WorkedInHand
<1>6. CASE Fail \/ RetireIdle
  BY <1>6, FailedInHand
<1>7. CASE GoOn \/ Retry
  <2>1. PICK begin \in BOOLEAN : StartConnect(worker.work, begin) /\ worker.at = "retired"
    BY <1>7 DEF GoOn, Retry
  <2>2. worker.work \in Types
    BY <1>1, <2>1 DEF InStep
  <2> QED
    BY <2>1, <2>2, DialledInHand
<1>8. CASE \E n \in 1 .. FrameBudget : Read(n) \/ ReadIdle(n)
  BY <1>8, ReadInHand
<1>9. CASE (\E e \in asked : Answer(e)) \/ Unasked(Push) \/ Unasked(Bad)
  BY <1>9, ServedInHand
<1>10. CASE UNCHANGED wireVars
  <2>1. TypeInv'
    BY <1>1, <1>10, Typed, TypedThen DEF wireVars
  <2>2. InStep'
    BY <1>1, <1>10 DEF InStep, wireVars
  <2> QED
    BY <2>1, <2>2 DEF InHand
<1> QED
  BY <1>2, <1>3, <1>4, <1>5, <1>6, <1>7, <1>8, <1>9, <1>10 DEF SlotNext

LEMMA SlotInHand == WireAssumption /\ SlotSpec => []InHand
<1>1. InHand /\ WireAssumption /\ [SlotNext]_wireVars => InHand'
  BY InHandNext
<1>2. WireAssumption => []WireAssumption
  OBVIOUS
<1> QED
  BY <1>1, <1>2, InHandInit, PTL DEF SlotSpec

\* A connection is handed on clean: between two requests the Slot has no owner
\* and no open exchange, and a new generation nothing of the one before
\* (slot.rs, check of release_unstarted_request and of start_connect).
THEOREM ConnectionsAreHandedOnClean == WireAssumption /\ SlotSpec => [](SlotTypeOK /\ HandedOnClean)
<1>1. InHand => SlotTypeOK /\ HandedOnClean
  BY DEF InHand, TypeInv, InStep, HandedOnClean
<1> QED
  BY <1>1, SlotInHand, PTL

-----------------------------------------------------------------------------
(* Every frame has one use. *)

LEMMA FramesInit == WireAssumption /\ SlotInit => EveryFrameGoesOnce
<1> SUFFICES ASSUME WireAssumption, SlotInit PROVE EveryFrameGoesOnce
  OBVIOUS
<1> QED
  BY DEF SlotInit, Fresh, EveryFrameGoesOnce

LEMMA FramesNext ==
  WireAssumption /\ InHand /\ EveryFrameGoesOnce /\ [SlotNext]_wireVars => EveryFrameGoesOnce'
<1> SUFFICES ASSUME WireAssumption, InHand, EveryFrameGoesOnce, [SlotNext]_wireVars
             PROVE  EveryFrameGoesOnce'
  OBVIOUS
<1>1. TypeInv /\ InStep
  BY DEF InHand
<1>2. routed.published + routed.answered = slot.sequence
  BY DEF EveryFrameGoesOnce
<1>3. ASSUME routed' = routed, slot'.sequence = slot.sequence PROVE EveryFrameGoesOnce'
  BY <1>2, <1>3 DEF EveryFrameGoesOnce
<1>4. CASE Drop
  <2>1. routed' = Fresh /\ slot'.sequence = 0
    BY <1>1, <1>4, Dropped
  <2> QED
    BY <2>1 DEF Fresh, EveryFrameGoesOnce
<1>5. ASSUME NEW n, NEW sent, Turn(n, sent) PROVE EveryFrameGoesOnce'
  <2>1. /\ slot'.sequence = slot.sequence + n
        /\ routed'.published + routed'.answered = routed.published + routed.answered + n
    BY <1>1, <1>5, Turned
  <2> QED
    BY <1>2, <2>1 DEF EveryFrameGoesOnce
<1>6. ASSUME NEW type, NEW state, NEW boundary, Begin(type, state, boundary), routed' = routed
      PROVE  EveryFrameGoesOnce'
  <2>1. slot \in SlotRecords
    BY <1>1, Typed
  <2>2. slot'.sequence = slot.sequence
    BY <1>6, <2>1 DEF Begin, SlotRecords
  <2> QED
    BY <1>3, <1>6, <2>2
<1>7. ASSUME NEW work, NEW begin, StartConnect(work, begin) PROVE EveryFrameGoesOnce'
  <2>1. slot \in SlotRecords
    BY <1>1, Typed
  <2>2. slot'.sequence = slot.sequence /\ routed' = routed
    BY <1>7, <2>1 DEF StartConnect, SlotRecords
  <2> QED
    BY <1>3, <2>2
<1>8. CASE Write \/ Finish \/ GiveUp \/ RunOut
  <2>1. slot \in SlotRecords
    BY <1>1, Typed
  <2>2. slot'.sequence = slot.sequence /\ routed' = routed
    BY <1>8, <2>1 DEF Write, Finish, GiveUp, RunOut, SlotRecords
  <2> QED
    BY <1>3, <2>2
<1>9. CASE \/ \E type \in Types : OnIdle(type) \/ OnDisconnected(type)
           \/ Connected \/ BeginGreeted \/ GoOn \/ Retry
  <2>1. ASSUME NEW type \in Types, OnIdle(type) PROVE EveryFrameGoesOnce'
    BY <1>3, <1>6, <2>1 DEF OnIdle
  <2>2. ASSUME NEW type \in Types, OnDisconnected(type) PROVE EveryFrameGoesOnce'
    BY <1>7, <2>2 DEF OnDisconnected
  <2>3. CASE Connected \/ BeginGreeted
    BY <1>6, <2>3 DEF Connected, BeginGreeted
  <2>4. CASE GoOn \/ Retry
    BY <1>7, <2>4 DEF GoOn, Retry
  <2> QED
    BY <1>9, <2>1, <2>2, <2>3, <2>4
<1>10. CASE \E n \in 1 .. FrameBudget : Read(n) \/ ReadIdle(n)
  BY <1>5, <1>10 DEF Read, ReadIdle
<1>11. CASE (\E e \in asked : Answer(e)) \/ Unasked(Push) \/ Unasked(Bad)
  BY <1>3, <1>11 DEF Answer, Unasked, Send
<1>12. CASE Fail \/ RetireIdle
  BY <1>4, <1>12 DEF Fail, RetireIdle
<1>13. CASE UNCHANGED wireVars
  BY <1>3, <1>13 DEF wireVars
<1> QED
  BY <1>8, <1>9, <1>10, <1>11, <1>12, <1>13 DEF SlotNext

\* Every frame that was decoded on a connection went to the feed or completed
\* an exchange, and to one of them only (decode_turn and route_decoded_turn).
THEOREM FramesGoOnce == WireAssumption /\ SlotSpec => []EveryFrameGoesOnce
<1>1. EveryFrameGoesOnce /\ InHand /\ WireAssumption /\ [SlotNext]_wireVars => EveryFrameGoesOnce'
  BY FramesNext
<1>2. WireAssumption => []WireAssumption
  OBVIOUS
<1> QED
  BY <1>1, <1>2, FramesInit, SlotInHand, PTL DEF SlotSpec

-----------------------------------------------------------------------------
(* Every answer is its exchange's own. *)

\* The exchanges that this connection knows of: those that its server may still
\* answer, those whose answer is under way, and the open one.
Open == IF slot.exchange = Nothing THEN {}
        ELSE {[message |-> slot.exchange.message, number |-> slot.exchange.number]}
UnderWay == {[message |-> inbound[i].message, number |-> inbound[i].answers] :
                i \in {j \in DOMAIN inbound : inbound[j].answers # NoExchange}}
Known == asked \cup UnderWay \cup Open

\* An exchange has the identity that it was given.
IsItself(e) ==
    /\ e.number \in 1 .. used.exchanges
    /\ e.message.type \in Types \cup {"handshake"}
    /\ e.message.type \notin {"flow", "refresh"} => e.message.id = e.number
    /\ e.message.type = "refresh" => e.message.id \in 1 .. used.refresh

\* But for money flow, no two of them share one, and what was not asked for has none.
Identified ==
    /\ \A e \in Known : IsItself(e)
    /\ \A e, f \in Known : e.message = f.message /\ e.message.type = "refresh" => e.number = f.number
    /\ \A i \in DOMAIN inbound :
          inbound[i].answers = NoExchange => inbound[i].message \in {Push, Bad}

\* A server that answers once has at most one answer to give, that of the
\* exchange whose answer the worker waits for.
OneAnswer ==
    repeats \/
    /\ \A e \in asked : worker.at = "reading" /\ e.number = slot.exchange.number
    /\ \A e, f \in asked : e = f
    /\ \A i \in DOMAIN inbound : inbound[i].answers # NoExchange =>
          worker.at = "reading" /\ inbound[i].answers = slot.exchange.number /\ asked = {}
    /\ \A i, j \in DOMAIN inbound :
          inbound[i].answers # NoExchange /\ inbound[j].answers # NoExchange => i = j

Own == Identified /\ OneAnswer /\ AnswersAreTheirOwn

\* A member of what is under way is the answer in some frame.
LEMMA AnswersUnderWay ==
  /\ \A e \in UnderWay : \E i \in DOMAIN inbound :
        /\ inbound[i].answers # NoExchange
        /\ e = [message |-> inbound[i].message, number |-> inbound[i].answers]
  /\ \A i \in DOMAIN inbound : inbound[i].answers # NoExchange =>
        [message |-> inbound[i].message, number |-> inbound[i].answers] \in UnderWay
  BY DEF UnderWay

LEMMA AnswersUnderWayThen ==
  /\ \A e \in UnderWay' : \E i \in DOMAIN inbound' :
        /\ inbound'[i].answers # NoExchange
        /\ e = [message |-> inbound'[i].message, number |-> inbound'[i].answers]
  /\ \A i \in DOMAIN inbound' : inbound'[i].answers # NoExchange =>
        [message |-> inbound'[i].message, number |-> inbound'[i].answers] \in UnderWay'
  BY DEF UnderWay

\* Forgetting an exchange leaves the others what they are.
LEMMA StayIdentified ==
  ASSUME TypeInv, Identified, Known' \subseteq Known, UNCHANGED used,
         \A i \in DOMAIN inbound' :
            inbound'[i].answers = NoExchange => inbound'[i].message \in {Push, Bad}
  PROVE  Identified'
<1>1. PICK K, L : K = Known /\ L = Known'
  OBVIOUS
<1>2. L \subseteq K
  BY <1>1
<1>3. \A e \in L : IsItself(e)
  BY <1>1, <1>2 DEF Identified
<1>4. \A e \in L : IsItself(e)'
  BY <1>3 DEF IsItself
<1>5. \A e, f \in L : e.message = f.message /\ e.message.type = "refresh" => e.number = f.number
  BY <1>1, <1>2 DEF Identified
<1> QED
  BY <1>1, <1>4, <1>5 DEF Identified

\* A frame that matches the open exchange was sent to answer it, unless the
\* exchange is one about money flow.
LEMMA AnswerIsOwn ==
  ASSUME TypeInv, Identified, NEW i \in DOMAIN inbound, NEW number, NEW sent,
         Matches(inbound[i], slot.exchange, number, sent)
  PROVE  /\ inbound[i].answers # NoExchange
         /\ slot.exchange.message.type # "flow" => inbound[i].answers = slot.exchange.number
<1>1. slot.exchange # Nothing /\ inbound[i].message = slot.exchange.message
  BY DEF Matches
<1>2. PICK o : o = [message |-> slot.exchange.message, number |-> slot.exchange.number] /\ o \in Known
  BY <1>1 DEF Known, Open
<1>3. IsItself(o)
  BY <1>2 DEF Identified
<1>4. inbound[i].answers # NoExchange
  <2> SUFFICES ASSUME inbound[i].answers = NoExchange PROVE FALSE
    OBVIOUS
  <2>1. inbound[i].message \in {Push, Bad}
    BY DEF Identified
  <2>2. o.message \in {Push, Bad}
    BY <1>1, <1>2, <2>1
  <2>3. (o.message.type = "refresh" /\ o.message.id = 0) \/ o.message.type = "bad"
    BY <2>2 DEF Push, Bad
  <2>4. used.refresh \in Nat
    BY TypesOfTheParts DEF WireAssumption
  <2> QED
    BY <1>3, <2>3, <2>4 DEF IsItself, Types
<1>5. PICK e : e = [message |-> inbound[i].message, number |-> inbound[i].answers] /\ e \in Known
  BY <1>4, AnswersUnderWay DEF Known
<1>6. IsItself(e)
  BY <1>5 DEF Identified
<1>7. e.message = o.message
  BY <1>1, <1>2, <1>5
<1>8. o.message.type # "flow" => e.number = o.number
  <2>1. CASE o.message.type = "refresh"
    BY <1>2, <1>5, <1>7, <2>1 DEF Identified
  <2>2. CASE o.message.type \notin {"flow", "refresh"}
    BY <1>3, <1>6, <1>7, <2>2 DEF IsItself
  <2> QED
    BY <2>1, <2>2
<1> QED
  BY <1>2, <1>4, <1>5, <1>8

LEMMA OwnInit == WireAssumption /\ SlotInit => Own
<1> SUFFICES ASSUME WireAssumption, SlotInit PROVE Own
  OBVIOUS
<1>1. slot.exchange = Nothing /\ asked = {} /\ inbound = <<>> /\ taken.exchange = taken.answers
  BY DEF SlotInit
<1>2. DOMAIN inbound = {}
  BY <1>1
<1>3. Known = {}
  BY <1>1, <1>2 DEF Known, UnderWay, Open
<1>4. Identified
  BY <1>2, <1>3 DEF Identified
<1>5. OneAnswer
  BY <1>1, <1>2 DEF OneAnswer
<1>6. AnswersAreTheirOwn
  BY <1>1 DEF AnswersAreTheirOwn
<1> QED
  BY <1>4, <1>5, <1>6 DEF Own

\* Where nothing is known, nothing is mistaken.
LEMMA OwnOfNothing ==
  ASSUME Own, inbound' = <<>>, asked' = {}, slot'.exchange = Nothing, UNCHANGED <<taken, repeats>>
  PROVE  Own'
<1>1. DOMAIN inbound' = {}
  OBVIOUS
<1>2. Known' = {}
  BY <1>1 DEF Known, UnderWay, Open
<1>3. Identified'
  BY <1>1, <1>2 DEF Identified
<1>4. OneAnswer'
  BY <1>1 DEF OneAnswer
<1>5. AnswersAreTheirOwn'
  BY DEF Own, AnswersAreTheirOwn
<1> QED
  BY <1>3, <1>4, <1>5 DEF Own

\* A worker that does not wait for an answer has none coming, if the server
\* answers once.
LEMMA NoAnswer ==
  ASSUME OneAnswer, worker.at # "reading", UNCHANGED <<repeats, asked, inbound>>
  PROVE  OneAnswer'
<1>1. CASE repeats
  BY <1>1 DEF OneAnswer
<1>2. CASE ~repeats
  <2>1. asked = {} /\ \A i \in DOMAIN inbound : inbound[i].answers = NoExchange
    BY <1>2 DEF OneAnswer
  <2>2. asked' = {} /\ \A i \in DOMAIN inbound' : inbound'[i].answers = NoExchange
    BY <2>1
  <2> QED
    BY <2>2 DEF OneAnswer
<1> QED
  BY <1>1, <1>2

LEMMA BegunOwn ==
  ASSUME WireAssumption, InHand, Own, worker.at # "reading", slot.exchange = Nothing,
         NEW type \in {"ordinary", "flow", "refresh", "heartbeat", "handshake"},
         NEW state \in States, NEW boundary \in Nat, Begin(type, state, boundary),
         UNCHANGED <<repeats, inbound, asked, taken>>
  PROVE  Own'
<1>1. TypeInv /\ Identified /\ OneAnswer /\ AnswersAreTheirOwn
  BY DEF InHand, Own
<1>2. PICK m, k : m = slot'.exchange.message /\ k = used.exchanges + 1
  OBVIOUS
<1>3. /\ slot'.exchange # Nothing /\ slot'.exchange.message = m /\ slot'.exchange.number = k
      /\ m.type = type
      /\ type \notin {"flow", "refresh"} => m.id = k
      /\ type = "refresh" => m.id = used.refresh + 1 /\ used'.refresh = used.refresh + 1
      /\ used'.exchanges = k /\ used'.refresh \in {used.refresh, used.refresh + 1}
  BY <1>1, <1>2, Began
<1>4. used.exchanges \in Nat /\ used.refresh \in Nat /\ used'.refresh \in Nat /\ k \in Nat
  <2>1. MaxExchanges \in Nat /\ RefreshIds \in Nat
    BY DEF WireAssumption
  <2>2. used.exchanges \in Nat /\ used.refresh \in Nat
    BY <1>1, <2>1, TypesOfTheParts
  <2> QED
    BY <1>2, <1>3, <2>2
<1>5. Known' = Known \cup {[message |-> m, number |-> k]}
  BY <1>3 DEF Known, Open, UnderWay
<1>6. ASSUME NEW e \in Known
      PROVE  IsItself(e)' /\ (e.message.type = "refresh" => e.message.id <= used.refresh)
  <2>1. IsItself(e)
    BY <1>1 DEF Identified
  <2>2. e.number \in 1 .. used'.exchanges
    BY <1>2, <1>3, <1>4, <2>1 DEF IsItself
  <2>3. e.message.type = "refresh" => /\ e.message.id \in 1 .. used'.refresh
                                      /\ e.message.id <= used.refresh
    BY <1>3, <1>4, <2>1 DEF IsItself
  <2> QED
    BY <2>1, <2>2, <2>3 DEF IsItself
<1>7. PICK o : o = [message |-> m, number |-> k]
  OBVIOUS
<1>8. IsItself(o)'
  <2>1. o.number \in 1 .. used'.exchanges
    BY <1>2, <1>3, <1>4, <1>7
  <2>2. o.message.type \in Types \cup {"handshake"} /\ o.message = m /\ o.number = k
    BY <1>3, <1>7 DEF Types
  <2>3. m.type = "refresh" => m.id \in 1 .. used'.refresh
    BY <1>3, <1>4
  <2>4. m.type \notin {"flow", "refresh"} => m.id = k
    BY <1>3
  <2> QED
    BY <2>1, <2>2, <2>3, <2>4 DEF IsItself
<1>9. o.message.type = "refresh" => o.message.id = used.refresh + 1
  BY <1>3, <1>7
<1>10. \A e, f \in Known' : e.message = f.message /\ e.message.type = "refresh" => e.number = f.number
  <2> SUFFICES ASSUME NEW e \in Known', NEW f \in Known',
                      e.message = f.message, e.message.type = "refresh"
               PROVE  e.number = f.number
    OBVIOUS
  <2>1. CASE e = o /\ f = o
    BY <2>1
  <2>2. CASE e \in Known /\ f \in Known
    BY <1>1, <2>2 DEF Identified
  <2>3. CASE e \in Known /\ f = o
    <3>1. e.message.id <= used.refresh /\ e.message.id = used.refresh + 1 /\ e.message.id \in Nat
      BY <1>4, <1>6, <1>9, <2>3
    <3> QED
      BY <1>4, <3>1
  <2>4. CASE f \in Known /\ e = o
    <3>1. f.message.id <= used.refresh /\ f.message.id = used.refresh + 1 /\ f.message.id \in Nat
      BY <1>4, <1>6, <1>9, <2>4
    <3> QED
      BY <1>4, <3>1
  <2> QED
    BY <1>5, <1>7, <2>1, <2>2, <2>3, <2>4
<1>11. \A e \in Known' : IsItself(e)'
  BY <1>5, <1>6, <1>7, <1>8
<1>12. \A i \in DOMAIN inbound' :
          inbound'[i].answers = NoExchange => inbound'[i].message \in {Push, Bad}
  BY <1>1 DEF Identified
<1>13. Identified'
  <2>1. PICK L : L = Known'
    OBVIOUS
  <2>2. \A e \in L : IsItself(e)'
    BY <1>11, <2>1
  <2>3. \A e, f \in L : e.message = f.message /\ e.message.type = "refresh" => e.number = f.number
    BY <1>10, <2>1
  <2> QED
    BY <1>12, <2>1, <2>2, <2>3 DEF Identified
<1>14. OneAnswer'
  BY <1>1, NoAnswer
<1>15. AnswersAreTheirOwn'
  BY <1>1 DEF AnswersAreTheirOwn
<1> QED
  BY <1>13, <1>14, <1>15 DEF Own

LEMMA WorkedOwn ==
  ASSUME WireAssumption, InHand, Own, Write \/ Finish \/ GiveUp \/ RunOut
  PROVE  Own'
<1>1. TypeInv /\ InStep /\ Identified /\ OneAnswer /\ AnswersAreTheirOwn
  BY DEF InHand, Own
<1>2. /\ UNCHANGED <<repeats, used, inbound, taken>>
      /\ worker.at \in {"writing", "answered", "retired", "free", "greeted"}
  BY DEF Write, Finish, GiveUp, RunOut
<1>3. slot'.exchange = slot.exchange
  <2>1. slot \in SlotRecords
    BY <1>1, Typed
  <2> QED
    BY <2>1 DEF Write, Finish, GiveUp, RunOut, SlotRecords
<1>4. asked' = asked \/ (Write /\ asked' = asked \cup Open)
  <2>1. Write => slot.exchange # Nothing
    BY <1>1 DEF Write, InStep
  <2> QED
    BY <2>1 DEF Write, Finish, GiveUp, RunOut, Open
<1>5. Known' \subseteq Known
  <2>1. UnderWay' = UnderWay /\ Open' = Open
    BY <1>2, <1>3 DEF UnderWay, Open
  <2> QED
    BY <1>4, <2>1 DEF Known
<1>6. \A i \in DOMAIN inbound' :
          inbound'[i].answers = NoExchange => inbound'[i].message \in {Push, Bad}
  BY <1>1, <1>2 DEF Identified
<1>7. Identified'
  BY <1>1, <1>2, <1>5, <1>6, StayIdentified
<1>8. OneAnswer'
  <2>1. CASE asked' = asked
    BY <1>1, <1>2, <2>1, NoAnswer
  <2>2. CASE Write /\ ~repeats
    <3>1. asked = {} /\ \A i \in DOMAIN inbound : inbound[i].answers = NoExchange
      BY <1>1, <1>2, <2>2 DEF OneAnswer
    <3>2. PICK o : asked' = {o} /\ o.number = slot.exchange.number
      <4>1. PICK p : p = [message |-> slot.exchange.message, number |-> slot.exchange.number]
        OBVIOUS
      <4>2. asked' = {p} /\ p.number = slot.exchange.number
        BY <2>2, <3>1, <4>1 DEF Write
      <4> QED
        BY <4>2
    <3>3. worker'.at = "reading"
      BY <1>1, <2>2, WorkerTurns DEF Write, Places
    <3>4. \A i \in DOMAIN inbound' : inbound'[i].answers = NoExchange
      BY <1>2, <3>1
    <3> QED
      BY <1>3, <3>2, <3>3, <3>4 DEF OneAnswer
  <2>3. CASE repeats
    BY <1>2, <2>3 DEF OneAnswer
  <2> QED
    BY <1>4, <2>1, <2>2, <2>3
<1>9. AnswersAreTheirOwn'
  BY <1>1, <1>2 DEF AnswersAreTheirOwn
<1> QED
  BY <1>7, <1>8, <1>9 DEF Own

LEMMA ReadOwn ==
  ASSUME WireAssumption, InHand, Own, NEW n \in 1 .. FrameBudget, Read(n) \/ ReadIdle(n)
  PROVE  Own'
<1>1. TypeInv /\ InStep /\ Identified /\ OneAnswer /\ AnswersAreTheirOwn
  BY DEF InHand, Own
<1>2. PICK sent \in BOOLEAN : Turn(n, sent) /\ sent = (worker.at = "reading")
  BY DEF Read, ReadIdle
<1>3. PICK a \in 0 .. n :
            /\ a = Answering(n, sent)
            /\ a # 0 => /\ Matches(inbound[a], slot.exchange, slot.sequence + a, sent)
                        /\ a \in DOMAIN inbound
            /\ \A i \in DOMAIN inbound' :
                  i + n \in DOMAIN inbound /\ inbound'[i] = inbound[i + n] /\ i + n # a
            /\ a = 0 => slot'.exchange = slot.exchange /\ taken' = taken
            /\ a # 0 => /\ slot'.exchange = Nothing
                        /\ taken' = [exchange |-> slot.exchange.number,
                                     answers |-> inbound[a].answers,
                                     type |-> slot.exchange.message.type]
  BY <1>1, <1>2, Turned
<1>4. UNCHANGED <<repeats, used, asked>>
  BY <1>2 DEF Turn
<1>5. UnderWay' \subseteq UnderWay
  <2> SUFFICES ASSUME NEW e \in UnderWay' PROVE e \in UnderWay
    OBVIOUS
  <2>1. PICK i \in DOMAIN inbound' :
           /\ inbound'[i].answers # NoExchange
           /\ e = [message |-> inbound'[i].message, number |-> inbound'[i].answers]
    BY AnswersUnderWayThen
  <2>2. i + n \in DOMAIN inbound /\ inbound'[i] = inbound[i + n]
    BY <1>3
  <2> QED
    BY <2>1, <2>2, AnswersUnderWay
<1>6. Known' \subseteq Known
  <2>1. Open' \subseteq Open
    BY <1>3 DEF Open
  <2> QED
    BY <1>4, <1>5, <2>1 DEF Known
<1>7. \A i \in DOMAIN inbound' :
          inbound'[i].answers = NoExchange => inbound'[i].message \in {Push, Bad}
  BY <1>1, <1>3 DEF Identified
<1>8. Identified'
  BY <1>1, <1>4, <1>6, <1>7, StayIdentified
<1>9. a # 0 => /\ inbound[a].answers # NoExchange
               /\ slot.exchange.message.type # "flow" => inbound[a].answers = slot.exchange.number
               /\ ~repeats => inbound[a].answers = slot.exchange.number
  <2>1. a # 0 => /\ inbound[a].answers # NoExchange
                 /\ slot.exchange.message.type # "flow" => inbound[a].answers = slot.exchange.number
    BY <1>1, <1>3, AnswerIsOwn
  <2> QED
    BY <1>1, <1>3, <2>1 DEF OneAnswer
<1>10. OneAnswer'
  <2>1. CASE repeats
    BY <1>4, <2>1 DEF OneAnswer
  <2>2. CASE ~repeats /\ a = 0
    <3>1. worker' = worker
      BY <1>2, <1>3, <2>2 DEF Read, ReadIdle
    <3>2. \A i \in DOMAIN inbound : inbound[i].answers # NoExchange =>
             worker.at = "reading" /\ inbound[i].answers = slot.exchange.number /\ asked = {}
      BY <1>1, <2>2 DEF OneAnswer
    <3>3. \A i \in DOMAIN inbound' : inbound'[i].answers # NoExchange =>
             worker'.at = "reading" /\ inbound'[i].answers = slot'.exchange.number /\ asked' = {}
      BY <1>3, <1>4, <2>2, <3>1, <3>2
    <3>4. \A i, j \in DOMAIN inbound' :
             inbound'[i].answers # NoExchange /\ inbound'[j].answers # NoExchange => i = j
      <4> SUFFICES ASSUME NEW i \in DOMAIN inbound', NEW j \in DOMAIN inbound',
                          inbound'[i].answers # NoExchange, inbound'[j].answers # NoExchange
                   PROVE  i = j
        OBVIOUS
      <4>1. /\ i + n \in DOMAIN inbound /\ inbound[i + n].answers # NoExchange
            /\ j + n \in DOMAIN inbound /\ inbound[j + n].answers # NoExchange
        BY <1>3
      <4>2. i + n = j + n
        BY <1>1, <2>2, <4>1 DEF OneAnswer
      <4>3. i \in Int /\ j \in Int /\ n \in Int
        <5>1. inbound' \in Seq(Frames)
          BY <1>1, <1>2, Turned
        <5> QED
          BY <5>1
      <4> QED
        BY <4>2, <4>3
    <3>5. /\ \A e \in asked' : worker'.at = "reading" /\ e.number = slot'.exchange.number
          /\ \A e, f \in asked' : e = f
      BY <1>1, <1>3, <1>4, <2>2, <3>1 DEF OneAnswer
    <3> QED
      BY <3>3, <3>4, <3>5 DEF OneAnswer
  <2>3. CASE ~repeats /\ a # 0
    <3>1. asked = {} /\ \A i \in DOMAIN inbound : inbound[i].answers # NoExchange => i = a
      BY <1>1, <1>3, <1>9, <2>3 DEF OneAnswer
    <3>2. asked' = {} /\ \A i \in DOMAIN inbound' : inbound'[i].answers = NoExchange
      BY <1>3, <1>4, <3>1
    <3> QED
      BY <3>2 DEF OneAnswer
  <2> QED
    BY <2>1, <2>2, <2>3
<1>11. AnswersAreTheirOwn'
  <2>1. CASE a = 0
    BY <1>1, <1>3, <1>4, <2>1 DEF AnswersAreTheirOwn
  <2>2. CASE a # 0
    <3>1. /\ taken'.exchange = slot.exchange.number /\ taken'.answers = inbound[a].answers
          /\ taken'.type = slot.exchange.message.type
      BY <1>3, <2>2
    <3> QED
      BY <1>4, <1>9, <2>2, <3>1 DEF AnswersAreTheirOwn
  <2> QED
    BY <2>1, <2>2
<1> QED
  BY <1>8, <1>10, <1>11 DEF Own

LEMMA ServedOwn ==
  ASSUME WireAssumption, InHand, Own,
         (\E e \in asked : Answer(e)) \/ Unasked(Push) \/ Unasked(Bad)
  PROVE  Own'
<1>1. TypeInv /\ InStep /\ Identified /\ OneAnswer /\ AnswersAreTheirOwn
  BY DEF InHand, Own
<1>2. PICK frame \in Frames :
         /\ Send(frame)
         /\ \/ /\ frame.answers = NoExchange /\ frame.message \in {Push, Bad} /\ asked' = asked
            \/ /\ [message |-> frame.message, number |-> frame.answers] \in asked
               /\ repeats \/ asked' = asked \ {[message |-> frame.message, number |-> frame.answers]}
               /\ asked' \subseteq asked
  <2>1. CASE Unasked(Push) \/ Unasked(Bad)
    <3>1. PICK message \in {Push, Bad} : Unasked(message)
      BY <2>1
    <3>2. PICK f : f = [message |-> message, answers |-> NoExchange]
      OBVIOUS
    <3>3. f \in Frames /\ f.answers = NoExchange /\ f.message = message
      <4>1. message \in Messages
        BY TypesOfTheConstants
      <4> QED
        BY <3>2, <4>1 DEF Frames, NoExchange
    <3> QED
      BY <3>1, <3>2, <3>3 DEF Unasked
  <2>2. ASSUME NEW e \in asked, Answer(e)
        PROVE  \E f \in Frames :
                  /\ Send(f) /\ [message |-> f.message, number |-> f.answers] = e
                  /\ asked' \subseteq asked /\ (repeats \/ asked' = asked \ {e})
    <3>1. e \in Questions
      BY <1>1, Typed
    <3>2. PICK f : f = [message |-> e.message, answers |-> e.number]
      OBVIOUS
    <3>3. f \in Frames /\ f.message = e.message /\ f.answers = e.number
      BY <3>1, <3>2 DEF Questions, Frames
    <3>4. [message |-> f.message, number |-> f.answers] = e
      BY <3>1, <3>3 DEF Questions
    <3>5. asked' \subseteq asked /\ (repeats \/ asked' = asked \ {e}) /\ Send(f)
      BY <2>2, <3>2 DEF Answer
    <3> QED
      BY <3>3, <3>4, <3>5
  <2>3. CASE \E e \in asked : Answer(e)
    <3>1. PICK e \in asked : Answer(e)
      BY <2>3
    <3>2. PICK f \in Frames :
                  /\ Send(f) /\ [message |-> f.message, number |-> f.answers] = e
                  /\ asked' \subseteq asked /\ (repeats \/ asked' = asked \ {e})
      BY <2>2, <3>1
    <3> QED
      BY <3>2
  <2> QED
    BY <2>1, <2>3
<1>3. /\ DOMAIN inbound' = 1 .. Len(inbound) + 1
      /\ \A i \in DOMAIN inbound' :
            inbound'[i] = IF i = Len(inbound) + 1 THEN frame ELSE inbound[i]
      /\ UNCHANGED <<repeats, slot, rotation, worker, used, taken, routed, tried>>
  BY <1>1, <1>2, Received
<1>4. PICK l : l = Len(inbound) /\ l \in Nat /\ DOMAIN inbound = 1 .. l
  BY <1>1, TypesOfTheParts
<1>5. \A i \in DOMAIN inbound' :
         \/ i \in DOMAIN inbound /\ inbound'[i] = inbound[i] /\ i # l + 1
         \/ i = l + 1 /\ inbound'[i] = frame
  BY <1>3, <1>4
<1>6. Known' \subseteq Known
  <2>1. ASSUME NEW e \in UnderWay' PROVE e \in Known
    <3>1. PICK i \in DOMAIN inbound' :
             /\ inbound'[i].answers # NoExchange
             /\ e = [message |-> inbound'[i].message, number |-> inbound'[i].answers]
      BY <2>1, AnswersUnderWayThen
    <3>2. CASE i \in DOMAIN inbound /\ inbound'[i] = inbound[i]
      BY <3>1, <3>2, AnswersUnderWay DEF Known
    <3>3. CASE inbound'[i] = frame
      BY <1>2, <3>1, <3>3 DEF Known
    <3> QED
      BY <1>5, <3>2, <3>3
  <2>2. Open' = Open /\ asked' \subseteq asked
    BY <1>2, <1>3 DEF Open
  <2> QED
    BY <2>1, <2>2 DEF Known
<1>7. \A i \in DOMAIN inbound' :
          inbound'[i].answers = NoExchange => inbound'[i].message \in {Push, Bad}
  <2>1. frame.answers = NoExchange => frame.message \in {Push, Bad}
    <3>1. ASSUME [message |-> frame.message, number |-> frame.answers] \in asked
          PROVE  frame.answers # NoExchange
      <4>1. PICK e : e = [message |-> frame.message, number |-> frame.answers] /\ e \in Known
        BY <3>1 DEF Known
      <4>2. e.number \in 1 .. used.exchanges
        BY <1>1, <4>1 DEF Identified, IsItself
      <4> QED
        BY <4>1, <4>2 DEF NoExchange
    <3> QED
      BY <1>2, <3>1
  <2> QED
    BY <1>1, <1>5, <2>1 DEF Identified
<1>8. Identified'
  BY <1>1, <1>3, <1>6, <1>7, StayIdentified
<1>9. OneAnswer'
  <2>1. CASE repeats
    BY <1>3, <2>1 DEF OneAnswer
  <2>2. CASE ~repeats /\ frame.answers = NoExchange /\ asked' = asked
    <3>1. /\ \A e \in asked : worker.at = "reading" /\ e.number = slot.exchange.number
          /\ \A e, f \in asked : e = f
          /\ \A i \in DOMAIN inbound : inbound[i].answers # NoExchange =>
                worker.at = "reading" /\ inbound[i].answers = slot.exchange.number /\ asked = {}
          /\ \A i, j \in DOMAIN inbound :
                inbound[i].answers # NoExchange /\ inbound[j].answers # NoExchange => i = j
      BY <1>1, <2>2 DEF OneAnswer
    <3>2. \A i \in DOMAIN inbound' : inbound'[i].answers # NoExchange =>
             i \in DOMAIN inbound /\ inbound'[i] = inbound[i]
      BY <1>5, <2>2
    <3>3. \A i \in DOMAIN inbound' : inbound'[i].answers # NoExchange =>
             worker'.at = "reading" /\ inbound'[i].answers = slot'.exchange.number /\ asked' = {}
      BY <1>3, <2>2, <3>1, <3>2
    <3>4. \A i, j \in DOMAIN inbound' :
             inbound'[i].answers # NoExchange /\ inbound'[j].answers # NoExchange => i = j
      BY <3>1, <3>2
    <3> QED
      BY <1>3, <2>2, <3>1, <3>3, <3>4 DEF OneAnswer
  <2>3. ASSUME NEW o, o = [message |-> frame.message, number |-> frame.answers], o \in asked,
               ~repeats, asked' = asked \ {o}
        PROVE  OneAnswer'
    <3>1. /\ worker.at = "reading" /\ o.number = slot.exchange.number
          /\ \A e \in asked : e = o
          /\ \A i \in DOMAIN inbound : inbound[i].answers = NoExchange
      BY <1>1, <2>3 DEF OneAnswer
    <3>2. asked' = {}
      BY <2>3, <3>1
    <3>3. \A i \in DOMAIN inbound' : inbound'[i].answers # NoExchange => i = l + 1 /\ inbound'[i] = frame
      BY <1>5, <3>1
    <3>4. frame.answers = slot'.exchange.number /\ worker'.at = "reading"
      BY <1>3, <2>3, <3>1
    <3> QED
      BY <3>2, <3>3, <3>4 DEF OneAnswer
  <2>4. PICK o : o = [message |-> frame.message, number |-> frame.answers]
    OBVIOUS
  <2> QED
    BY <1>2, <2>1, <2>2, <2>3, <2>4
<1>10. AnswersAreTheirOwn'
  BY <1>1, <1>3 DEF AnswersAreTheirOwn
<1> QED
  BY <1>8, <1>9, <1>10 DEF Own

LEMMA OwnNext == WireAssumption /\ InHand /\ Own /\ [SlotNext]_wireVars => Own'
<1> SUFFICES ASSUME WireAssumption, InHand, Own, [SlotNext]_wireVars PROVE Own'
  OBVIOUS
<1>1. TypeInv /\ InStep
  BY DEF InHand
<1>2. ASSUME UNCHANGED <<repeats, inbound, asked, taken, used>>, slot'.exchange = slot.exchange,
             worker' = worker
      PROVE  Own'
  <2>1. Known' = Known
    BY <1>2 DEF Known, Open, UnderWay
  <2>2. Identified'
    BY <1>1, <1>2, <2>1, StayIdentified DEF Own, Identified
  <2>3. OneAnswer' /\ AnswersAreTheirOwn'
    BY <1>2 DEF Own, OneAnswer, AnswersAreTheirOwn
  <2> QED
    BY <2>2, <2>3 DEF Own
<1>3. ASSUME NEW work \in Types, NEW begin \in BOOLEAN, StartConnect(work, begin) PROVE Own'
  <2>1. PICK left : left = IF begin THEN NEndpoints ELSE rotation.remaining
    OBVIOUS
  <2>2. /\ slot.state = "disconnected" /\ slot'.exchange = slot.exchange
        /\ UNCHANGED <<repeats, inbound, asked, taken>>
    BY <1>1, <1>3, <2>1, Dialled
  <2>3. slot.exchange = Nothing /\ inbound = <<>> /\ asked = {}
    BY <1>1, <2>2 DEF InStep
  <2> QED
    BY <2>2, <2>3, OwnOfNothing
<1>4. CASE \E type \in Types : OnIdle(type) \/ OnDisconnected(type)
  <2>1. PICK type \in Types : OnIdle(type) \/ OnDisconnected(type)
    BY <1>4
  <2>2. CASE OnIdle(type) /\ type = "connect"
    BY <1>2, <2>2 DEF OnIdle
  <2>3. CASE OnIdle(type) /\ type # "connect"
    <3>1. /\ Begin(type, "busy", slot.sequence) /\ worker.at # "reading" /\ slot.exchange = Nothing
          /\ UNCHANGED <<repeats, inbound, asked, taken>>
      BY <1>1, <2>3 DEF OnIdle, InStep
    <3>2. /\ type \in {"ordinary", "flow", "refresh", "heartbeat", "handshake"}
          /\ "busy" \in States /\ slot.sequence \in Nat
      BY <1>1, <2>3, TypesOfTheParts DEF Types, States
    <3> QED
      BY <3>1, <3>2, BegunOwn
  <2>4. CASE OnDisconnected(type)
    BY <1>3, <2>4 DEF OnDisconnected
  <2> QED
    BY <2>1, <2>2, <2>3, <2>4
<1>5. CASE Connected
  <2>1. /\ Begin("handshake", "handshaking", 0) /\ worker.at # "reading" /\ slot.exchange = Nothing
        /\ UNCHANGED <<repeats, inbound, asked, taken>> /\ "handshaking" \in States
    BY <1>1, <1>5 DEF Connected, InStep, States
  <2> QED
    BY <2>1, BegunOwn
<1>6. CASE BeginGreeted
  <2>1. /\ Begin(worker.work, "busy", worker.boundary) /\ worker.at # "reading"
        /\ slot.exchange = Nothing /\ UNCHANGED <<repeats, inbound, asked, taken>>
    BY <1>1, <1>6 DEF BeginGreeted, InStep
  <2>2. /\ worker.work \in {"ordinary", "flow", "refresh", "heartbeat", "handshake"}
        /\ "busy" \in States /\ worker.boundary \in Nat
    BY <1>1, <1>6, TypesOfTheParts DEF BeginGreeted, InStep, Types, States
  <2> QED
    BY <2>1, <2>2, BegunOwn
<1>7. CASE GoOn \/ Retry
  <2>1. worker.work \in Types
    BY <1>1, <1>7 DEF GoOn, Retry, InStep
  <2> QED
    BY <1>3, <1>7, <2>1 DEF GoOn, Retry
<1>8. CASE Fail \/ RetireIdle
  <2>1. /\ inbound' = <<>> /\ asked' = {} /\ slot'.exchange = Nothing
        /\ UNCHANGED <<taken, repeats>>
    BY <1>1, <1>8, Dropped DEF Fail, RetireIdle
  <2> QED
    BY <2>1, OwnOfNothing
<1>9. CASE Write \/ Finish \/ GiveUp \/ RunOut
  BY <1>9, WorkedOwn
<1>10. CASE \E n \in 1 .. FrameBudget : Read(n) \/ ReadIdle(n)
  BY <1>10, ReadOwn
<1>11. CASE (\E e \in asked : Answer(e)) \/ Unasked(Push) \/ Unasked(Bad)
  BY <1>11, ServedOwn
<1>12. CASE UNCHANGED wireVars
  BY <1>2, <1>12 DEF wireVars
<1> QED
  BY <1>4, <1>5, <1>6, <1>7, <1>8, <1>9, <1>10, <1>11, <1>12 DEF SlotNext

\* The frame that completes an exchange is one that the server answered that
\* very exchange with, over reconnections and late or repeated answers; of
\* money-flow exchanges, whose identities come again, if the server answers
\* once (slot.rs, on_frame and install_exchange).
THEOREM ExchangesGetTheirOwnAnswers == WireAssumption /\ SlotSpec => []AnswersAreTheirOwn
<1>1. Own /\ InHand /\ WireAssumption /\ [SlotNext]_wireVars => Own'
  BY OwnNext
<1>2. WireAssumption => []WireAssumption
  OBVIOUS
<1>3. WireAssumption /\ SlotSpec => []Own
  BY <1>1, <1>2, OwnInit, SlotInHand, PTL DEF SlotSpec
<1>4. Own => AnswersAreTheirOwn
  BY DEF Own
<1> QED
  BY <1>3, <1>4, PTL

-----------------------------------------------------------------------------
(* Every endpoint has its turn. *)

\* The endpoint k places after none, the first being after the last.
Wrap(k) == IF k > NEndpoints THEN k - NEndpoints ELSE k

\* The attempt took the endpoints in turn from a, and b is due.
TakenInTurn(s, a, b) ==
    /\ \A i \in 1 .. Len(s) : s[i] = Wrap(a + i - 1)
    /\ b = Wrap(a + Len(s))

\* What was not tried of an attempt remains, and an explicit connect goes on
\* while anything does.
Rotates ==
    /\ \E a \in 1 .. NEndpoints : TakenInTurn(tried, a, rotation.next)
    /\ IF tried = <<>> THEN rotation.remaining = 0 /\ worker.work # "connect"
       ELSE Len(tried) + rotation.remaining = NEndpoints
    /\ worker.work = "connect" => (worker.again <=> rotation.remaining > 0)

LEMMA RotatesInit == WireAssumption /\ SlotInit => Rotates
<1> SUFFICES ASSUME WireAssumption, SlotInit PROVE Rotates
  OBVIOUS
<1>1. /\ rotation.next = 1 /\ rotation.remaining = 0 /\ tried = <<>> /\ worker.work = "none"
      /\ NEndpoints \in Nat \ {0}
  BY DEF SlotInit, Free, WireAssumption
<1>2. TakenInTurn(tried, 1, rotation.next) /\ 1 \in 1 .. NEndpoints
  <2>1. Len(<<>>) = 0 /\ 1 .. Len(<<>>) = {}
    OBVIOUS
  <2>2. Wrap(1 + 0) = 1
    BY <1>1 DEF Wrap
  <2> QED
    BY <1>1, <2>1, <2>2 DEF TakenInTurn
<1> QED
  BY <1>1, <1>2 DEF Rotates

LEMMA DialledRotates ==
  ASSUME WireAssumption, TypeInv, Rotates, NEW work \in Types, NEW begin \in BOOLEAN,
         StartConnect(work, begin)
  PROVE  Rotates'
<1>1. PICK left : left = IF begin THEN NEndpoints ELSE rotation.remaining
  OBVIOUS
<1>2. PICK N, b, c : /\ N = NEndpoints /\ b = rotation.next /\ c = rotation'.next
                     /\ N \in Nat \ {0} /\ b \in 1 .. N
  BY TypesOfTheParts DEF WireAssumption
<1>3. /\ left \in 1 .. N /\ rotation'.remaining = left - 1
      /\ c = IF b = N THEN 1 ELSE b + 1
      /\ tried' = IF begin THEN <<b>> ELSE Append(tried, b)
      /\ worker'.again = (left > 1)
  BY <1>1, <1>2, Dialled
<1>4. \A k : Wrap(k) = IF k > N THEN k - N ELSE k
  BY <1>2 DEF Wrap
<1>5. CASE begin
  <2>1. PICK s : s = tried' /\ Len(s) = 1 /\ s[1] = b /\ s # <<>>
    BY <1>3, <1>5
  <2>2. Wrap(b + 1 - 1) = b /\ c = Wrap(b + 1)
    BY <1>2, <1>3, <1>4
  <2>3. TakenInTurn(s, b, c)
    <3>1. \A i \in 1 .. Len(s) : i = 1
      BY <2>1
    <3> QED
      BY <2>1, <2>2, <3>1 DEF TakenInTurn
  <2>4. \E a \in 1 .. NEndpoints : TakenInTurn(s, a, c)
    BY <1>2, <2>3
  <2>5. (\E a \in 1 .. NEndpoints : TakenInTurn(tried, a, rotation.next))'
    BY <1>2, <2>1, <2>4 DEF TakenInTurn, Wrap
  <2>6. 1 + rotation'.remaining = NEndpoints
    BY <1>1, <1>2, <1>3, <1>5
  <2>7. worker'.again <=> rotation'.remaining > 0
    <3>1. left > 1 <=> left - 1 > 0
      BY <1>2, <1>3
    <3>2. rotation'.remaining = left - 1 /\ worker'.again = (left > 1)
      BY <1>3
    <3> QED
      BY <3>1, <3>2, Zenon
  <2> QED
    BY <2>1, <2>5, <2>6, <2>7 DEF Rotates
<1>6. CASE ~begin
  <2>1. left = rotation.remaining /\ tried # <<>>
    BY <1>1, <1>2, <1>3, <1>6 DEF Rotates
  <2>2. PICK q, l : q = tried /\ q \in Seq(1 .. NEndpoints) /\ l = Len(q) /\ l \in Nat
    BY Typed
  <2>3. l + left = N
    BY <1>2, <2>1, <2>2 DEF Rotates
  <2>4. PICK a \in 1 .. N : TakenInTurn(q, a, b)
    BY <1>2, <2>2 DEF Rotates
  <2>5. PICK s : s = tried' /\ s = Append(q, b)
    BY <1>3, <1>6, <2>2
  <2>6. /\ Len(s) = l + 1 /\ s[l + 1] = b /\ s # <<>>
        /\ \A i \in 1 .. l : s[i] = q[i]
    <3>1. PICK E : E = 1 .. NEndpoints /\ b \in E /\ q \in Seq(E)
      BY <1>2, <2>2
    <3> QED
      BY <2>2, <2>5, <3>1
  <2>7. \A i \in 1 .. l + 1 : s[i] = Wrap(a + i - 1)
    <3>1. \A i \in 1 .. l : s[i] = Wrap(a + i - 1)
      BY <2>2, <2>4, <2>6 DEF TakenInTurn
    <3>2. s[l + 1] = Wrap(a + l) /\ a + (l + 1) - 1 = a + l
      BY <2>2, <2>4, <2>6 DEF TakenInTurn
    <3>3. \A i \in 1 .. l + 1 : i \in 1 .. l \/ i = l + 1
      BY <2>2
    <3>4. s[l + 1] = Wrap(a + (l + 1) - 1)
      BY <3>2
    <3> QED
      BY <3>1, <3>3, <3>4
  <2>8. c = Wrap(a + (l + 1))
    <3>1. b = Wrap(a + l)
      BY <2>2, <2>4 DEF TakenInTurn
    <3> QED
      BY <1>2, <1>3, <1>4, <2>2, <2>3, <2>4, <3>1
  <2>9. TakenInTurn(s, a, c)
    BY <2>6, <2>7, <2>8 DEF TakenInTurn
  <2>10. \E d \in 1 .. NEndpoints : TakenInTurn(s, d, c)
    BY <1>2, <2>4, <2>9
  <2>11. (\E d \in 1 .. NEndpoints : TakenInTurn(tried, d, rotation.next))'
    BY <1>2, <2>5, <2>10 DEF TakenInTurn, Wrap
  <2>12. Len(s) + rotation'.remaining = NEndpoints
    <3>1. PICK r : r = rotation'.remaining /\ r = left - 1
      BY <1>3
    <3>2. Len(s) + r = N
      <4>1. PICK x : x = Len(s) /\ x = l + 1
        BY <2>6
      <4>2. left \in Nat /\ l \in Nat
        BY <1>2, <1>3, <2>2
      <4>3. x + r = N
        BY <2>3, <3>1, <4>1, <4>2
      <4> QED
        BY <4>1, <4>3
    <3> QED
      BY <1>2, <3>1, <3>2
  <2>13. worker'.again <=> rotation'.remaining > 0
    <3>1. left > 1 <=> left - 1 > 0
      BY <1>2, <1>3
    <3>2. rotation'.remaining = left - 1 /\ worker'.again = (left > 1)
      BY <1>3
    <3> QED
      BY <3>1, <3>2, Zenon
  <2> QED
    BY <2>5, <2>6, <2>11, <2>12, <2>13 DEF Rotates
<1> QED
  BY <1>5, <1>6

LEMMA RotatesNext == WireAssumption /\ InHand /\ Rotates /\ [SlotNext]_wireVars => Rotates'
<1> SUFFICES ASSUME WireAssumption, InHand, Rotates, [SlotNext]_wireVars PROVE Rotates'
  OBVIOUS
<1>1. TypeInv /\ InStep /\ worker \in WorkerRecords
  BY Typed DEF InHand
<1>2. ASSUME UNCHANGED <<rotation, tried>>,
             worker'.work = "connect" => worker.work = "connect" /\ worker'.again = worker.again
      PROVE  Rotates'
  <2>1. (\E a \in 1 .. NEndpoints : TakenInTurn(tried, a, rotation.next))'
    BY <1>2 DEF Rotates, TakenInTurn, Wrap
  <2> QED
    BY <1>2, <2>1 DEF Rotates
<1>3. CASE \E type \in Types : OnIdle(type) \/ OnDisconnected(type)
  <2>1. PICK type \in Types : OnIdle(type) \/ OnDisconnected(type)
    BY <1>3
  <2>2. CASE OnIdle(type)
    <3>1. worker' = worker \/ (type # "connect" /\ worker'.work = type)
      BY <2>2 DEF OnIdle
    <3>2. UNCHANGED <<rotation, tried>>
      BY <2>2 DEF OnIdle
    <3> QED
      BY <1>2, <3>1, <3>2
  <2>3. CASE OnDisconnected(type)
    <3>1. StartConnect(type, TRUE) /\ TRUE \in BOOLEAN
      BY <2>3 DEF OnDisconnected
    <3> QED
      BY <1>1, <3>1, DialledRotates
  <2> QED
    BY <2>1, <2>2, <2>3
<1>4. CASE GoOn \/ Retry
  <2>1. PICK begin \in BOOLEAN : StartConnect(worker.work, begin) /\ worker.work \in Types
    BY <1>1, <1>4 DEF GoOn, Retry, InStep
  <2> QED
    BY <1>1, <2>1, DialledRotates
<1>5. CASE Connected \/ BeginGreeted \/ Write
  <2>1. worker'.work = worker.work /\ worker'.again = worker.again
    BY <1>1, <1>5 DEF Connected, BeginGreeted, Write, WorkerRecords
  <2> QED
    BY <1>2, <1>5, <2>1 DEF Connected, BeginGreeted, Write
<1>6. CASE Finish \/ GiveUp \/ RunOut
  <2>1. worker'.work # "connect"
    <3>1. CASE Finish \/ GiveUp
      BY <3>1 DEF Finish, GiveUp, Free
    <3>2. CASE RunOut
      BY <1>1, <3>2 DEF RunOut, WorkerRecords
    <3> QED
      BY <1>6, <3>1, <3>2
  <2> QED
    BY <1>2, <1>6, <2>1 DEF Finish, GiveUp, RunOut
<1>7. CASE Fail
  <2>1. UNCHANGED <<rotation, tried>>
    BY <1>7 DEF Fail, Drop
  <2>2. worker'.work = worker.work
    BY <1>1, <1>7 DEF Fail, WorkerRecords
  <2>3. worker.work = "connect" => worker'.again = worker.again
    <3> SUFFICES ASSUME worker.work = "connect" PROVE worker'.again = worker.again
      OBVIOUS
    <3>1. worker.again \in BOOLEAN
      BY <1>1, TypesOfTheParts
    <3>2. worker'.again = (worker.again /\ (slot.state = "connecting" \/ worker.work = "connect"))
      BY <1>1, <1>7 DEF Fail, WorkerRecords
    <3> QED
      BY <3>1, <3>2
  <2> QED
    BY <1>2, <2>1, <2>2, <2>3
<1>8. CASE RetireIdle
  BY <1>2, <1>8 DEF RetireIdle, Drop
<1>9. CASE \E n \in 1 .. FrameBudget : Read(n) \/ ReadIdle(n)
  <2>1. PICK n \in 1 .. FrameBudget : Read(n) \/ ReadIdle(n)
    BY <1>9
  <2>2. UNCHANGED <<rotation, tried>>
    BY <2>1 DEF Read, ReadIdle, Turn
  <2>3. worker' = Free \/ (worker'.work = worker.work /\ worker'.again = worker.again)
    BY <1>1, <2>1 DEF Read, ReadIdle, WorkerRecords
  <2> QED
    BY <1>2, <2>2, <2>3 DEF Free
<1>10. CASE (\E e \in asked : Answer(e)) \/ Unasked(Push) \/ Unasked(Bad)
  BY <1>2, <1>10 DEF Answer, Unasked, Send
<1>11. CASE UNCHANGED wireVars
  BY <1>2, <1>11 DEF wireVars
<1> QED
  BY <1>3, <1>4, <1>5, <1>6, <1>7, <1>8, <1>9, <1>10, <1>11 DEF SlotNext

LEMMA RotatesOnce == ASSUME WireAssumption, TypeInv, InStep, Rotates PROVE EveryEndpointGetsItsTurn
<1>1. PICK N, q, l : /\ N = NEndpoints /\ N \in Nat \ {0} /\ q = tried
                     /\ q \in Seq(1 .. NEndpoints) /\ l = Len(q) /\ l \in Nat /\ DOMAIN q = 1 .. l
  BY Typed, SMTT(30) DEF WireAssumption
<1>2. PICK a \in 1 .. N : \A i \in 1 .. l : q[i] = Wrap(a + i - 1)
  BY <1>1 DEF Rotates, TakenInTurn
<1>3. \A k : Wrap(k) = IF k > N THEN k - N ELSE k
  BY <1>1 DEF Wrap
<1>4. l <= N
  <2>1. rotation.remaining \in 0 .. NEndpoints
    BY TypesOfTheParts
  <2>2. tried = <<>> => Len(tried) = 0
    OBVIOUS
  <2> QED
    BY <1>1, <2>1, <2>2 DEF Rotates
<1>5. ASSUME NEW i \in 1 .. l
      PROVE  \E k \in Int : k = a + i - 1 /\ q[i] = IF k > N THEN k - N ELSE k
  <2>1. PICK k : k = a + i - 1
    OBVIOUS
  <2>2. k \in Int
    BY <1>1, <2>1
  <2>3. q[i] = Wrap(a + i - 1)
    BY <1>2
  <2>4. q[i] = Wrap(k)
    BY <2>1, <2>3, Zenon
  <2> QED
    BY <1>3, <2>1, <2>2, <2>4
<1>6. IsInjective(tried)
  <2>1. ASSUME NEW i \in 1 .. l, NEW j \in 1 .. l, q[i] = q[j] PROVE i = j
    <3>1. PICK k \in Int : k = a + i - 1 /\ q[i] = IF k > N THEN k - N ELSE k
      BY <1>5
    <3>2. PICK m \in Int : m = a + j - 1 /\ q[j] = IF m > N THEN m - N ELSE m
      BY <1>5
    <3>3. i \in Int /\ j \in Int /\ i >= 1 /\ j >= 1 /\ i <= N /\ j <= N
      BY <1>1, <1>4
    <3>4. (IF k > N THEN k - N ELSE k) = IF m > N THEN m - N ELSE m
      BY <2>1, <3>1, <3>2, Zenon
    <3>5. N \in Int /\ a \in Int /\ k = a + i - 1 /\ m = a + j - 1
      BY <1>1, <3>1, <3>2
    <3>6. k = m
      <4>1. k - m = i - j /\ k - m < N /\ m - k < N
        BY <3>3, <3>5
      <4> QED
        BY <3>4, <3>5, <4>1
    <3> QED
      BY <3>3, <3>5, <3>6
  <2> QED
    BY <1>1, <2>1 DEF IsInjective
<1>7. ASSUME worker.at = "retired", ~worker.again, worker.work = "connect"
      PROVE  ToSet(tried) = 1 .. NEndpoints
  <2>1. ~(rotation.remaining > 0) /\ tried # <<>>
    BY <1>7 DEF Rotates
  <2>2. l = N
    <3>1. rotation.remaining \in 0 .. NEndpoints
      BY TypesOfTheParts
    <3> QED
      BY <1>1, <2>1, <3>1 DEF Rotates
  <2>3. ASSUME NEW e \in 1 .. N PROVE \E i \in 1 .. l : q[i] = e
    <3>1. CASE e >= a
      <4>1. PICK i \in 1 .. l : i = e - a + 1
        BY <1>1, <2>2, <3>1
      <4>2. a + i - 1 = e /\ q[i] = e
        <5>1. a + i - 1 = e
          BY <1>1, <1>2, <4>1
        <5>2. PICK k \in Int : k = a + i - 1 /\ q[i] = IF k > N THEN k - N ELSE k
          BY <1>5
        <5> QED
          BY <1>1, <5>1, <5>2
      <4> QED
        BY <4>2
    <3>2. CASE e < a
      <4>1. PICK i \in 1 .. l : i = e - a + 1 + N
        BY <1>1, <2>2, <3>2
      <4>2. a + i - 1 = e + N /\ q[i] = e
        <5>1. a + i - 1 = e + N
          BY <1>1, <1>2, <4>1
        <5>2. PICK k \in Int : k = a + i - 1 /\ q[i] = IF k > N THEN k - N ELSE k
          BY <1>5
        <5> QED
          BY <1>1, <5>1, <5>2
      <4> QED
        BY <4>2
    <3> QED
      BY <1>1, <3>1, <3>2
  <2>4. ASSUME NEW i \in 1 .. l PROVE q[i] \in 1 .. N
    BY <1>1
  <2>5. ToSet(q) = {q[i] : i \in 1 .. l}
    BY <1>1 DEF ToSet
  <2>6. ToSet(q) \subseteq 1 .. N
    BY <2>4, <2>5
  <2>7. 1 .. N \subseteq ToSet(q)
    BY <2>3, <2>5
  <2>8. ToSet(q) = 1 .. N
    BY <2>6, <2>7
  <2> QED
    BY <1>1, <2>8
<1> QED
  BY <1>6, <1>7 DEF EveryEndpointGetsItsTurn

\* An attempt takes no endpoint twice, and each before an explicit connect
\* calls them all unreachable (endpoint.rs, begin_attempt and take_next).
THEOREM EndpointsTakeTurns == WireAssumption /\ SlotSpec => []EveryEndpointGetsItsTurn
<1>1. Rotates /\ InHand /\ WireAssumption /\ [SlotNext]_wireVars => Rotates'
  BY RotatesNext
<1>2. WireAssumption => []WireAssumption
  OBVIOUS
<1>3. WireAssumption /\ InHand /\ Rotates => EveryEndpointGetsItsTurn
  BY RotatesOnce DEF InHand
<1> QED
  BY <1>1, <1>2, <1>3, RotatesInit, SlotInHand, PTL DEF SlotSpec
=============================================================================
