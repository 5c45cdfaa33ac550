---------------------------- MODULE PushFeedProofs ----------------------------
(***************************************************************************)
(* Proofs about PushFeed: frames are handed out in order and each is       *)
(* accounted for, nobody waits beside a frame or misses a gap, and a       *)
(* closed feed is silent, for any number of pollers and workers and for    *)
(* every limit of the buffer.                                              *)
(*                                                                         *)
(* The core answers its waiters in a loop, and the buffer counts bytes:    *)
(* both are folds, and what they do to a sequence of any length is shown   *)
(* by induction on its prefixes (FoldInduction).                           *)
(***************************************************************************)
EXTENDS PushFeed, SequenceTheorems, TLAPS

-----------------------------------------------------------------------------
(* The invariant. *)

Frame == [number : 1 .. MaxSent, size : Sizes]
Buffer == [frames : Seq(Frame), bytes : Nat, dropped : SUBSET (1 .. MaxSent),
           reported : SUBSET (1 .. MaxSent), closed : BOOLEAN, fatal : BOOLEAN]

NumbersIn(q) == {q[i].number : i \in DOMAIN q}
InOrder(q) == \A i, j \in DOMAIN q : i < j => q[i].number < q[j].number
Rising(s) == \A i, j \in DOMAIN s : i < j => s[i] < s[j]

\* What push.rs asks of a buffer, and that a closed one is empty.
GoodBuffer(b) ==
    /\ b \in Buffer
    /\ Len(b.frames) <= MaxFrames /\ b.bytes = Total(b.frames) /\ b.bytes <= MaxBytes
    /\ b.reported \subseteq b.dropped
    /\ b.closed => b.frames = <<>> /\ b.reported = b.dropped
    /\ b.fatal => b.closed

\* The frames that left the channel and are not lost: handed out or in the buffer.
Live(s, b) == ToSet(s) \cup NumbersIn(b.frames)

\* What was handed out is older than what is in the buffer, and neither is lost.
Sorted(s, b) ==
    /\ Rising(s) /\ InOrder(b.frames)
    /\ \A x \in ToSet(s), y \in NumbersIn(b.frames) : x < y
    /\ Live(s, b) \cap b.dropped = {}

\* The frames that left the channel.
Known(s, b) == Live(s, b) \cup b.dropped

RefusedNow == {refused[w] : w \in Workers} \ {0}

Types ==
    /\ running \in BOOLEAN /\ sent \in 0 .. MaxSent /\ refused \in [Workers -> 0 .. MaxSent]
    /\ channel \in Seq(Frame) /\ Len(channel) <= MaxFrames /\ missed \in SUBSET (1 .. MaxSent)
    /\ delivered \in Seq(1 .. MaxSent) /\ Rising(delivered)
    /\ late \in SUBSET Pollers /\ owed \in [Pollers -> SUBSET (1 .. MaxSent)]

\* Whoever is in a call is in one of the two queues, once.
Queues ==
    /\ commands \in Seq(Pollers) /\ IsInjective(commands)
    /\ waiters \in Seq(Pollers) /\ IsInjective(waiters) /\ Len(waiters) <= MaxWaiters
    /\ call \in [Pollers -> {"idle", "poll", "drain", "waiting"}]
    /\ answer \in [Pollers -> Answers]
    /\ ToSet(commands) = {p \in Pollers : call[p] \in {"poll", "drain"}}
    /\ ToSet(waiters) = {p \in Pollers : call[p] = "waiting"}
    /\ \A p \in Pollers : call[p] # "idle" => answer[p] = "none"
    /\ waiters # <<>> => push.frames = <<>>
    /\ push.closed => waiters = <<>>

\* Every frame the server sent has one place, and the places are in order.
Places ==
    /\ Sorted(delivered, push) /\ InOrder(channel)
    /\ \A x \in Live(delivered, push), y \in NumbersIn(channel) : x < y
    /\ \A v, w \in Workers : refused[v] # 0 /\ refused[v] = refused[w] => v = w
    /\ Known(delivered, push) \cap NumbersIn(channel) = {}
    /\ (Known(delivered, push) \cup NumbersIn(channel)) \cap missed = {}
    /\ (Known(delivered, push) \cup NumbersIn(channel) \cup missed) \cap RefusedNow = {}
    /\ Known(delivered, push) \cup NumbersIn(channel) \cup missed \cup RefusedNow = 1 .. sent

\* What a caller is owed is counted; by the time it waits, in the buffer.
Owed ==
    \A p \in Pollers : /\ owed[p] \subseteq missed \cup push.dropped
                       /\ call[p] = "waiting" => owed[p] \subseteq push.dropped

IInv == Types /\ Queues /\ GoodBuffer(push) /\ (~push.closed => Places /\ Owed)

-----------------------------------------------------------------------------
(* Sums of sizes. *)

Adds(sum, f) == sum + f.size

\* A sum of sizes can be taken in two parts, for prefixes of length m.
SplitsAt(m) ==
    \A q \in Seq(Frame) : \A n \in 0 .. m :
        m <= Len(q) =>
            /\ Total(SubSeq(q, 1, n)) \in Nat /\ Total(SubSeq(q, n + 1, m)) \in Nat
            /\ Total(SubSeq(q, 1, m)) = Total(SubSeq(q, 1, n)) + Total(SubSeq(q, n + 1, m))

Summing == INSTANCE FoldInduction WITH P <- SplitsAt, op <- Adds

\* Total is the fold of Adds.
LEMMA TotalIsFold == \A q : Total(q) = Summing!FoldLeft(Adds, 0, q)
  BY DEF Total, Adds, FoldLeft, Summing!FoldLeft, MapThenFoldSet, Summing!MapThenFoldSet,
     Max, Summing!Max

LEMMA TotalEmpty == Total(<<>>) = 0
  BY Summing!FoldEmpty, TotalIsFold

LEMMA TotalAppend ==
  ASSUME NEW q \in Seq(Frame), NEW f \in Frame
  PROVE  Total(Append(q, f)) = Total(q) + f.size
<1>1. Summing!FoldLeft(Adds, 0, Append(q, f)) = Adds(Summing!FoldLeft(Adds, 0, q), f)
  BY Summing!FoldAppend
<1> QED
  BY <1>1, TotalIsFold DEF Adds

\* A prefix, or an infix, with one element more.
LEMMA SubSeqMore ==
  ASSUME NEW S, NEW q \in Seq(S), NEW n \in Nat, NEW m \in Nat, n <= m, m < Len(q)
  PROVE  /\ SubSeq(q, n + 1, m) \in Seq(S) /\ q[m + 1] \in S
         /\ SubSeq(q, n + 1, m + 1) = Append(SubSeq(q, n + 1, m), q[m + 1])
<1>1. n + 1 \in 1 .. Len(q) /\ m + 1 \in n + 1 .. Len(q) /\ m + 1 \in 1 .. Len(q) /\ m + 1 - 1 = m
  OBVIOUS
<1>2. SubSeq(q, n + 1, m + 1) = SubSeq(q, n + 1, m + 1 - 1) \o <<q[m + 1]>>
  BY <1>1, SubSeqRecursiveSecond
<1>3. \A i \in n + 1 .. m : q[i] \in S
  BY <1>1
<1>4. SubSeq(q, n + 1, m) \in Seq(S)
  BY <1>1, <1>3, SubSeqProperties
<1>5. q[m + 1] \in S
  BY <1>1
<1>6. Append(SubSeq(q, n + 1, m), q[m + 1]) = SubSeq(q, n + 1, m) \o <<q[m + 1]>>
  BY <1>4, <1>5, AppendIsConcat
<1> QED
  BY <1>1, <1>2, <1>4, <1>5, <1>6

LEMMA TotalSplitsAlways == \A m \in Nat : SplitsAt(m)
<1>1. SplitsAt(0)
  <2> SUFFICES ASSUME NEW q \in Seq(Frame), NEW n \in 0 .. 0
               PROVE  /\ Total(SubSeq(q, 1, n)) \in Nat /\ Total(SubSeq(q, n + 1, 0)) \in Nat
                      /\ Total(SubSeq(q, 1, 0)) = Total(SubSeq(q, 1, n)) + Total(SubSeq(q, n + 1, 0))
    BY DEF SplitsAt
  <2>1. n = 0 /\ n + 1 = 1
    OBVIOUS
  <2>2. SubSeq(q, 1, 0) = <<>>
    BY SubSeqEmpty
  <2>3. SubSeq(q, 1, n) = <<>> /\ SubSeq(q, n + 1, 0) = <<>>
    BY <2>1, <2>2
  <2>4. /\ Total(SubSeq(q, 1, n)) = 0 /\ Total(SubSeq(q, n + 1, 0)) = 0
        /\ Total(SubSeq(q, 1, 0)) = 0
    BY <2>2, <2>3, TotalEmpty, Zenon
  <2> QED
    BY <2>4
<1>2. ASSUME NEW m \in Nat, SplitsAt(m) PROVE SplitsAt(m + 1)
  <2> SUFFICES ASSUME NEW q \in Seq(Frame), NEW n \in 0 .. m + 1, m + 1 <= Len(q)
               PROVE  /\ Total(SubSeq(q, 1, n)) \in Nat /\ Total(SubSeq(q, n + 1, m + 1)) \in Nat
                      /\ Total(SubSeq(q, 1, m + 1))
                            = Total(SubSeq(q, 1, n)) + Total(SubSeq(q, n + 1, m + 1))
    BY DEF SplitsAt
  <2>1. /\ Len(q) \in Nat /\ m <= Len(q) /\ m < Len(q) /\ 0 \in 0 .. m /\ 0 + 1 = 1
    OBVIOUS
  <2>6. q[m + 1].size \in Nat
    <3>1. m + 1 \in 1 .. Len(q)
      OBVIOUS
    <3>2. q[m + 1] \in Frame
      BY <3>1
    <3> QED
      BY <3>2, LimitsAssumption DEF Frame
  <2>2. Total(SubSeq(q, 1, m + 1)) = Total(SubSeq(q, 1, m)) + q[m + 1].size
    <3>1. /\ SubSeq(q, 0 + 1, m) \in Seq(Frame) /\ q[m + 1] \in Frame
          /\ SubSeq(q, 0 + 1, m + 1) = Append(SubSeq(q, 0 + 1, m), q[m + 1])
      BY <2>1, SubSeqMore
    <3>2. /\ SubSeq(q, 1, m) \in Seq(Frame)
          /\ SubSeq(q, 1, m + 1) = Append(SubSeq(q, 1, m), q[m + 1])
      BY <2>1, <3>1
    <3> QED
      BY <3>1, <3>2, TotalAppend
  <2>3. Total(SubSeq(q, 1, m)) \in Nat
    <3>1. m \in 0 .. m
      OBVIOUS
    <3> QED
      BY <1>2, <2>1, <3>1 DEF SplitsAt
  <2>4. CASE n = m + 1
    <3>1. Total(SubSeq(q, n + 1, m + 1)) = 0
      <4>1. m + 1 \in Int /\ n + 1 \in Int /\ m + 1 < n + 1
        BY <2>4
      <4>2. SubSeq(q, n + 1, m + 1) = <<>>
        BY <4>1, SubSeqEmpty
      <4> QED
        BY <4>2, TotalEmpty, Zenon
    <3>2. Total(SubSeq(q, 1, m + 1)) \in Nat
      BY <2>2, <2>3, <2>6
    <3> QED
      BY <2>4, <3>1, <3>2
  <2>5. CASE n # m + 1
    <3>1. n \in 0 .. m /\ n \in Nat /\ n <= m
      BY <2>5
    <3>2. Total(SubSeq(q, n + 1, m + 1)) = Total(SubSeq(q, n + 1, m)) + q[m + 1].size
      <4>1. /\ SubSeq(q, n + 1, m) \in Seq(Frame) /\ q[m + 1] \in Frame
            /\ SubSeq(q, n + 1, m + 1) = Append(SubSeq(q, n + 1, m), q[m + 1])
        BY <2>1, <3>1, SubSeqMore
      <4> QED
        BY <4>1, TotalAppend
    <3>3. /\ Total(SubSeq(q, 1, n)) \in Nat /\ Total(SubSeq(q, n + 1, m)) \in Nat
          /\ Total(SubSeq(q, 1, m)) = Total(SubSeq(q, 1, n)) + Total(SubSeq(q, n + 1, m))
      BY <1>2, <2>1, <3>1 DEF SplitsAt
    <3> QED
      BY <2>2, <2>6, <3>2, <3>3
  <2> QED
    BY <2>4, <2>5
<1> QED
  BY <1>1, <1>2, Summing!Induction

\* What the sizes of a sequence and of its parts have to do with each other.
LEMMA TotalSplits ==
  ASSUME NEW q \in Seq(Frame)
  PROVE  /\ Total(q) \in Nat
         /\ \A n \in 0 .. Len(q) :
               /\ Total(SubSeq(q, 1, n)) \in Nat /\ Total(SubSeq(q, n + 1, Len(q))) \in Nat
               /\ Total(q) = Total(SubSeq(q, 1, n)) + Total(SubSeq(q, n + 1, Len(q)))
<1>1. Len(q) \in Nat /\ SplitsAt(Len(q)) /\ Len(q) \in 0 .. Len(q)
  BY TotalSplitsAlways
<1>2. SubSeq(q, 1, Len(q)) = q
  BY SubSeqFull
<1>3. ASSUME NEW n \in 0 .. Len(q)
      PROVE  /\ Total(SubSeq(q, 1, n)) \in Nat /\ Total(SubSeq(q, n + 1, Len(q))) \in Nat
             /\ Total(SubSeq(q, 1, Len(q))) = Total(SubSeq(q, 1, n)) + Total(SubSeq(q, n + 1, Len(q)))
  BY <1>1 DEF SplitsAt
<1>4. Total(SubSeq(q, 1, Len(q))) \in Nat
  BY <1>1, <1>3
<1> QED
  BY <1>2, <1>3, <1>4

LEMMA TotalTail ==
  ASSUME NEW q \in Seq(Frame), q # <<>>
  PROVE  Total(q) = Head(q).size + Total(Tail(q)) /\ Head(q) \in Frame /\ Total(Tail(q)) \in Nat
<1>1. Len(q) \in Nat /\ 1 \in 0 .. Len(q) /\ 1 + 1 = 2 /\ Head(q) = q[1] /\ q[1] \in Frame /\ 0 < Len(q)
  OBVIOUS
<1>2. Tail(q) = SubSeq(q, 2, Len(q))
  BY TailIsSubSeq
<1>3. SubSeq(q, 1, 1) = Append(<<>>, q[1])
  <2>1. SubSeq(q, 0 + 1, 0 + 1) = Append(SubSeq(q, 0 + 1, 0), q[0 + 1])
    BY <1>1, SubSeqMore
  <2>2. SubSeq(q, 1, 0) = <<>> /\ 0 + 1 = 1
    BY SubSeqEmpty
  <2> QED
    BY <2>1, <2>2
<1>4. Total(SubSeq(q, 1, 1)) = 0 + q[1].size
  <2>1. <<>> \in Seq(Frame)
    OBVIOUS
  <2> QED
    BY <1>1, <1>3, <2>1, TotalAppend, TotalEmpty
<1>5. q[1].size \in Nat
  BY <1>1, LimitsAssumption DEF Frame
<1>6. /\ Total(SubSeq(q, 1, 1)) \in Nat /\ Total(SubSeq(q, 1 + 1, Len(q))) \in Nat
      /\ Total(q) = Total(SubSeq(q, 1, 1)) + Total(SubSeq(q, 1 + 1, Len(q)))
  BY <1>1, TotalSplits
<1>7. SubSeq(q, 1 + 1, Len(q)) = Tail(q)
  BY <1>1, <1>2
<1>8. PICK x : x = q[1].size
  OBVIOUS
<1>9. PICK y : y = Total(Tail(q))
  OBVIOUS
<1>10. y \in Nat /\ x \in Nat
  BY <1>5, <1>6, <1>7, <1>8, <1>9, Zenon
<1>11. Total(q) = 0 + x + y
  BY <1>4, <1>6, <1>7, <1>8, <1>9, Zenon
<1>12. Total(q) = x + y
  BY <1>10, <1>11
<1> QED
  BY <1>1, <1>8, <1>9, <1>10, <1>12

-----------------------------------------------------------------------------
(* Numbers. *)

LEMMA FrameNumbers ==
  ASSUME NEW q \in Seq(Frame)
  PROVE  /\ NumbersIn(q) \subseteq 1 .. MaxSent /\ ToSet(Numbers(q)) = NumbersIn(q)
         /\ Numbers(q) \in Seq(1 .. MaxSent) /\ Len(Numbers(q)) = Len(q)
         /\ \A i \in 1 .. Len(q) : Numbers(q)[i] = q[i].number
<1>1. DOMAIN q = 1 .. Len(q) /\ Len(q) \in Nat /\ \A i \in 1 .. Len(q) : q[i] \in Frame
  OBVIOUS
<1>2. \A i \in 1 .. Len(q) : q[i].number \in 1 .. MaxSent
  BY <1>1 DEF Frame
<1>3. Numbers(q) = [i \in 1 .. Len(q) |-> q[i].number]
  BY <1>1 DEF Numbers
<1>4. [i \in 1 .. Len(q) |-> q[i].number] \in [1 .. Len(q) -> 1 .. MaxSent]
  BY <1>2
<1>5. Numbers(q) \in Seq(1 .. MaxSent)
  BY <1>1, <1>3, <1>4, SeqDef
<1>6. DOMAIN Numbers(q) = 1 .. Len(q) /\ Len(Numbers(q)) = Len(q)
  BY <1>1, <1>3, <1>5
<1> QED
  BY <1>1, <1>2, <1>3, <1>5, <1>6 DEF ToSet, NumbersIn

LEMMA NumbersOfTail ==
  ASSUME NEW q \in Seq(Frame), q # <<>>, InOrder(q)
  PROVE  /\ Tail(q) \in Seq(Frame) /\ Len(q) \in Nat /\ 0 < Len(q) /\ Len(Tail(q)) = Len(q) - 1
         /\ Head(q) \in Frame /\ InOrder(Tail(q))
         /\ NumbersIn(q) = NumbersIn(Tail(q)) \cup {Head(q).number}
         /\ \A y \in NumbersIn(Tail(q)) : Head(q).number < y
<1>1. /\ Tail(q) \in Seq(Frame) /\ Len(q) \in Nat /\ 0 < Len(q) /\ Len(Tail(q)) = Len(q) - 1
      /\ Head(q) \in Frame /\ Head(q) = q[1] /\ DOMAIN q = 1 .. Len(q)
      /\ DOMAIN Tail(q) = 1 .. Len(q) - 1
  OBVIOUS
<1>2. \A i \in 1 .. Len(q) - 1 : Tail(q)[i] = q[i + 1] /\ i + 1 \in 1 .. Len(q)
  BY <1>1
<1>3. InOrder(Tail(q))
  <2> SUFFICES ASSUME NEW i \in 1 .. Len(q) - 1, NEW j \in 1 .. Len(q) - 1, i < j
               PROVE  Tail(q)[i].number < Tail(q)[j].number
    BY <1>1 DEF InOrder
  <2>1. i + 1 < j + 1 /\ i + 1 \in DOMAIN q /\ j + 1 \in DOMAIN q
    BY <1>1
  <2> QED
    BY <1>2, <2>1 DEF InOrder
<1>4. \A y \in NumbersIn(Tail(q)) : Head(q).number < y
  <2> SUFFICES ASSUME NEW i \in 1 .. Len(q) - 1 PROVE q[1].number < Tail(q)[i].number
    BY <1>1 DEF NumbersIn
  <2>1. 1 < i + 1 /\ i + 1 \in DOMAIN q /\ 1 \in DOMAIN q
    BY <1>1
  <2> QED
    BY <1>2, <2>1 DEF InOrder
<1>5. \A i \in 1 .. Len(q) : i = 1 \/ (i - 1 \in 1 .. Len(q) - 1 /\ q[i] = Tail(q)[i - 1])
  BY <1>1
<1>6. NumbersIn(q) = NumbersIn(Tail(q)) \cup {Head(q).number}
  <2>1. \A x \in NumbersIn(q) : x \in NumbersIn(Tail(q)) \cup {Head(q).number}
    <3> SUFFICES ASSUME NEW i \in 1 .. Len(q)
                 PROVE  q[i].number \in NumbersIn(Tail(q)) \cup {q[1].number}
      BY <1>1 DEF NumbersIn
    <3> QED
      BY <1>1, <1>5 DEF NumbersIn
  <2>2. \A x \in NumbersIn(Tail(q)) : x \in NumbersIn(q)
    BY <1>1, <1>2 DEF NumbersIn
  <2>3. 1 \in DOMAIN q
    BY <1>1
  <2>4. Head(q).number \in NumbersIn(q)
    BY <1>1, <2>3 DEF NumbersIn
  <2> QED
    BY <2>1, <2>2, <2>4
<1> QED
  BY <1>1, <1>3, <1>4, <1>6

LEMMA NumbersOfAppend ==
  ASSUME NEW q \in Seq(Frame), NEW f \in Frame, InOrder(q), \A x \in NumbersIn(q) : x < f.number
  PROVE  /\ Append(q, f) \in Seq(Frame) /\ Len(Append(q, f)) = Len(q) + 1 /\ InOrder(Append(q, f))
         /\ NumbersIn(Append(q, f)) = NumbersIn(q) \cup {f.number}
<1>1. /\ Append(q, f) \in Seq(Frame) /\ Len(q) \in Nat /\ Len(Append(q, f)) = Len(q) + 1
      /\ DOMAIN q = 1 .. Len(q) /\ DOMAIN Append(q, f) = 1 .. Len(q) + 1
      /\ Append(q, f)[Len(q) + 1] = f /\ \A i \in 1 .. Len(q) : Append(q, f)[i] = q[i]
  OBVIOUS
<1>2. \A i \in 1 .. Len(q) + 1 : i \in 1 .. Len(q) \/ i = Len(q) + 1
  BY <1>1
<1>3. Len(q) + 1 \in 1 .. Len(q) + 1 /\ \A i \in 1 .. Len(q) : i \in 1 .. Len(q) + 1
  BY <1>1
<1>4. NumbersIn(Append(q, f)) = NumbersIn(q) \cup {f.number}
  BY <1>1, <1>2, <1>3 DEF NumbersIn
<1>5. InOrder(Append(q, f))
  <2> SUFFICES ASSUME NEW i \in 1 .. Len(q) + 1, NEW j \in 1 .. Len(q) + 1, i < j
               PROVE  Append(q, f)[i].number < Append(q, f)[j].number
    BY <1>1 DEF InOrder
  <2>1. i \in 1 .. Len(q)
    BY <1>1
  <2>2. CASE j \in 1 .. Len(q)
    BY <1>1, <2>1, <2>2 DEF InOrder
  <2>3. CASE j = Len(q) + 1
    BY <1>1, <2>1, <2>3 DEF NumbersIn
  <2> QED
    BY <1>2, <2>2, <2>3
<1> QED
  BY <1>1, <1>4, <1>5

\* A sequence of frames is what is before a position and what is behind it.
LEMMA NumbersOfParts ==
  ASSUME NEW q \in Seq(Frame), NEW n \in 0 .. Len(q), InOrder(q)
  PROVE  /\ SubSeq(q, 1, n) \in Seq(Frame) /\ SubSeq(q, n + 1, Len(q)) \in Seq(Frame)
         /\ Len(SubSeq(q, n + 1, Len(q))) = Len(q) - n
         /\ InOrder(SubSeq(q, n + 1, Len(q)))
         /\ NumbersIn(q) = NumbersIn(SubSeq(q, 1, n)) \cup NumbersIn(SubSeq(q, n + 1, Len(q)))
         /\ NumbersIn(SubSeq(q, 1, n)) \cap NumbersIn(SubSeq(q, n + 1, Len(q))) = {}
<1>1. /\ n \in Nat /\ n <= Len(q) /\ n + 1 - 1 = n /\ Len(q) \in Nat /\ DOMAIN q = 1 .. Len(q)
      /\ \A i \in 1 .. Len(q) : q[i] \in Frame
  OBVIOUS
<1> DEFINE s == SubSeq(q, 1, n)
           t == SubSeq(q, n + 1, Len(q))
<1>2. s \in Seq(Frame) /\ Len(s) = n /\ \A i \in 1 .. n : s[i] = q[i]
  BY <1>1, SMTT(30)
<1>3. t \in Seq(Frame) /\ Len(t) = Len(q) - n /\ \A i \in 1 .. Len(q) - n : t[i] = q[n + i]
  <2>1. n + 1 \in Int /\ Len(q) \in Int /\ \A i \in n + 1 .. Len(q) : q[i] \in Frame
    BY <1>1
  <2>2. /\ t \in Seq(Frame) /\ Len(t) = IF n + 1 <= Len(q) THEN Len(q) - (n + 1) + 1 ELSE 0
        /\ \A i \in 1 .. Len(q) - (n + 1) + 1 : t[i] = q[n + 1 + i - 1]
    BY <2>1, SubSeqProperties
  <2>3. Len(q) - (n + 1) + 1 = Len(q) - n /\ \A i \in 1 .. Len(q) - n : n + 1 + i - 1 = n + i
    BY <1>1
  <2>4. (IF n + 1 <= Len(q) THEN Len(q) - n ELSE 0) = Len(q) - n
    <3>1. CASE n + 1 <= Len(q)
      BY <3>1, Zenon
    <3>2. CASE ~(n + 1 <= Len(q))
      <4>1. \A k, m \in Nat : m <= k /\ ~(m + 1 <= k) => k - m = 0
        BY SMTT(30)
      <4>2. Len(q) - n = 0
        BY <1>1, <3>2, <4>1
      <4> QED
        BY <3>2, <4>2, Zenon
    <3> QED
      BY <3>1, <3>2
  <2> QED
    BY <2>2, <2>3, <2>4
<1>4. DOMAIN s = 1 .. n /\ DOMAIN t = 1 .. Len(q) - n
  BY <1>2, <1>3
<1> HIDE DEF s, t
<1>5. \A i \in 1 .. Len(q) : i \in 1 .. n \/ (i - n \in 1 .. Len(q) - n /\ n + (i - n) = i)
  BY <1>1
<1>6. /\ \A i \in 1 .. n : i \in 1 .. Len(q)
      /\ \A i \in 1 .. Len(q) - n : n + i \in 1 .. Len(q)
  BY <1>1
<1>7. NumbersIn(q) = NumbersIn(s) \cup NumbersIn(t)
  <2>1. \A x \in NumbersIn(q) : x \in NumbersIn(s) \cup NumbersIn(t)
    <3> SUFFICES ASSUME NEW i \in 1 .. Len(q)
                 PROVE  q[i].number \in NumbersIn(s) \cup NumbersIn(t)
      BY <1>1 DEF NumbersIn
    <3>1. CASE i \in 1 .. n
      BY <1>2, <1>4, <3>1 DEF NumbersIn
    <3>2. CASE i - n \in 1 .. Len(q) - n /\ n + (i - n) = i
      <4>1. t[i - n] = q[i]
        BY <1>3, <3>2
      <4> QED
        BY <1>4, <3>2, <4>1 DEF NumbersIn
    <3> QED
      BY <1>5, <3>1, <3>2
  <2>2. \A x \in NumbersIn(s) : x \in NumbersIn(q)
    BY <1>1, <1>2, <1>4, <1>6 DEF NumbersIn
  <2>3. \A x \in NumbersIn(t) : x \in NumbersIn(q)
    BY <1>1, <1>3, <1>4, <1>6 DEF NumbersIn
  <2> QED
    BY <2>1, <2>2, <2>3
<1>8. InOrder(t)
  <2> SUFFICES ASSUME NEW i \in 1 .. Len(q) - n, NEW j \in 1 .. Len(q) - n, i < j
               PROVE  t[i].number < t[j].number
    BY <1>4 DEF InOrder
  <2>1. n + i < n + j /\ n + i \in DOMAIN q /\ n + j \in DOMAIN q
    BY <1>1
  <2> QED
    BY <1>3, <2>1 DEF InOrder
<1>9. NumbersIn(s) \cap NumbersIn(t) = {}
  <2> SUFFICES ASSUME NEW i \in 1 .. n, NEW j \in 1 .. Len(q) - n PROVE s[i].number # t[j].number
    BY <1>4 DEF NumbersIn
  <2>1. i < n + j /\ i \in DOMAIN q /\ n + j \in DOMAIN q
    BY <1>1
  <2>2. q[i].number < q[n + j].number
    BY <2>1 DEF InOrder
  <2>3. q[i].number \in Nat /\ q[n + j].number \in Nat
    BY <1>1, <2>1 DEF Frame
  <2> QED
    BY <1>2, <1>3, <2>2, <2>3
<1> QED
  BY <1>2, <1>3, <1>7, <1>8, <1>9 DEF s, t

LEMMA SetOfAppend ==
  ASSUME NEW S, NEW s \in Seq(S), NEW e \in S
  PROVE  /\ Append(s, e) \in Seq(S) /\ ToSet(Append(s, e)) = ToSet(s) \cup {e}
         /\ Len(s) \in Nat /\ Len(Append(s, e)) = Len(s) + 1 /\ Append(s, e) # <<>>
<1>1. /\ Append(s, e) \in Seq(S) /\ Len(s) \in Nat /\ Len(Append(s, e)) = Len(s) + 1
      /\ DOMAIN s = 1 .. Len(s) /\ DOMAIN Append(s, e) = 1 .. Len(s) + 1 /\ Append(s, e) # <<>>
      /\ Append(s, e)[Len(s) + 1] = e /\ \A i \in 1 .. Len(s) : Append(s, e)[i] = s[i]
  OBVIOUS
<1>2. \A i \in 1 .. Len(s) + 1 : i \in 1 .. Len(s) \/ i = Len(s) + 1
  BY <1>1
<1>3. Len(s) + 1 \in 1 .. Len(s) + 1 /\ \A i \in 1 .. Len(s) : i \in 1 .. Len(s) + 1
  BY <1>1
<1> QED
  BY <1>1, <1>2, <1>3 DEF ToSet

LEMMA InjectiveAppend ==
  ASSUME NEW S, NEW s \in Seq(S), NEW e \in S, IsInjective(s), e \notin ToSet(s)
  PROVE  IsInjective(Append(s, e))
<1>1. /\ Append(s, e) \in Seq(S) /\ Len(s) \in Nat
      /\ DOMAIN s = 1 .. Len(s) /\ DOMAIN Append(s, e) = 1 .. Len(s) + 1
      /\ Append(s, e)[Len(s) + 1] = e /\ \A i \in 1 .. Len(s) : Append(s, e)[i] = s[i]
  OBVIOUS
<1>2. \A i \in 1 .. Len(s) + 1 : i \in 1 .. Len(s) \/ i = Len(s) + 1
  BY <1>1
<1> QED
  BY <1>1, <1>2 DEF IsInjective, ToSet

LEMMA InjectiveTail ==
  ASSUME NEW S, NEW s \in Seq(S), s # <<>>, IsInjective(s)
  PROVE  /\ Tail(s) \in Seq(S) /\ IsInjective(Tail(s)) /\ ToSet(Tail(s)) = ToSet(s) \ {Head(s)}
         /\ Head(s) \in ToSet(s) /\ Head(s) \in S
<1>1. /\ Tail(s) \in Seq(S) /\ Len(s) \in Nat /\ 0 < Len(s) /\ Head(s) = s[1] /\ Head(s) \in S
      /\ DOMAIN s = 1 .. Len(s) /\ DOMAIN Tail(s) = 1 .. Len(s) - 1
  OBVIOUS
<1>2. \A i \in 1 .. Len(s) - 1 : Tail(s)[i] = s[i + 1] /\ i + 1 \in 1 .. Len(s) /\ i + 1 # 1
  BY <1>1
<1>3. \A i \in 1 .. Len(s) : i = 1 \/ (i - 1 \in 1 .. Len(s) - 1 /\ s[i] = Tail(s)[i - 1])
  BY <1>1
<1>4. IsInjective(Tail(s))
  <2> SUFFICES ASSUME NEW i \in 1 .. Len(s) - 1, NEW j \in 1 .. Len(s) - 1, Tail(s)[i] = Tail(s)[j]
               PROVE  i = j
    BY <1>1 DEF IsInjective
  <2>1. s[i + 1] = s[j + 1] /\ i + 1 \in DOMAIN s /\ j + 1 \in DOMAIN s
    BY <1>1, <1>2
  <2>2. i + 1 = j + 1
    BY <2>1 DEF IsInjective
  <2> QED
    BY <2>2
<1>5. 1 \in 1 .. Len(s)
  BY <1>1
<1>6. Head(s) \in ToSet(s)
  BY <1>1, <1>5 DEF ToSet
<1>7. ToSet(Tail(s)) \subseteq ToSet(s) \ {Head(s)}
  <2> SUFFICES ASSUME NEW i \in 1 .. Len(s) - 1 PROVE Tail(s)[i] \in ToSet(s) /\ Tail(s)[i] # s[1]
    BY <1>1 DEF ToSet
  <2>1. s[i + 1] # s[1]
    BY <1>1, <1>2, <1>5 DEF IsInjective
  <2> QED
    BY <1>1, <1>2, <2>1 DEF ToSet
<1>8. ToSet(s) \ {Head(s)} \subseteq ToSet(Tail(s))
  <2> SUFFICES ASSUME NEW i \in 1 .. Len(s), s[i] # s[1] PROVE s[i] \in ToSet(Tail(s))
    BY <1>1 DEF ToSet
  <2> QED
    BY <1>1, <1>3 DEF ToSet
<1> QED
  BY <1>1, <1>4, <1>6, <1>7, <1>8

LEMMA RisingAppend ==
  ASSUME NEW s \in Seq(1 .. MaxSent), NEW n \in 1 .. MaxSent, Rising(s), \A x \in ToSet(s) : x < n
  PROVE  Rising(Append(s, n))
<1>1. /\ Append(s, n) \in Seq(1 .. MaxSent) /\ Len(s) \in Nat
      /\ DOMAIN s = 1 .. Len(s) /\ DOMAIN Append(s, n) = 1 .. Len(s) + 1
      /\ Append(s, n)[Len(s) + 1] = n /\ \A i \in 1 .. Len(s) : Append(s, n)[i] = s[i]
  OBVIOUS
<1> SUFFICES ASSUME NEW i \in 1 .. Len(s) + 1, NEW j \in 1 .. Len(s) + 1, i < j
             PROVE  Append(s, n)[i] < Append(s, n)[j]
  BY <1>1 DEF Rising
<1>2. i \in 1 .. Len(s) /\ (j \in 1 .. Len(s) \/ j = Len(s) + 1)
  BY <1>1
<1>3. CASE j \in 1 .. Len(s)
  BY <1>1, <1>2, <1>3 DEF Rising
<1>4. CASE j = Len(s) + 1
  BY <1>1, <1>2, <1>4 DEF ToSet
<1> QED
  BY <1>2, <1>3, <1>4

\* What is drained goes behind what was handed out.
LEMMA RisingConcat ==
  ASSUME NEW s \in Seq(1 .. MaxSent), NEW q \in Seq(Frame), Rising(s), InOrder(q),
         \A x \in ToSet(s), y \in NumbersIn(q) : x < y
  PROVE  /\ s \o Numbers(q) \in Seq(1 .. MaxSent) /\ Rising(s \o Numbers(q))
         /\ ToSet(s \o Numbers(q)) = ToSet(s) \cup NumbersIn(q)
<1> DEFINE t == Numbers(q)
<1>1. /\ t \in Seq(1 .. MaxSent) /\ ToSet(t) = NumbersIn(q) /\ Len(t) = Len(q)
      /\ \A i \in 1 .. Len(q) : t[i] = q[i].number
  BY FrameNumbers
<1>2. DOMAIN q = 1 .. Len(q) /\ DOMAIN t = 1 .. Len(t) /\ Len(q) \in Nat
  BY <1>1
<1> HIDE DEF t
<1>3. Rising(t)
  BY <1>1, <1>2 DEF Rising, InOrder
<1>4. /\ s \o t \in Seq(1 .. MaxSent) /\ Len(s) \in Nat /\ Len(t) \in Nat
      /\ DOMAIN s = 1 .. Len(s) /\ DOMAIN (s \o t) = 1 .. Len(s) + Len(t)
      /\ \A i \in 1 .. Len(s) : (s \o t)[i] = s[i]
      /\ \A i \in 1 .. Len(t) : (s \o t)[Len(s) + i] = t[i]
  <2>1. Len(s) \in Nat /\ Len(t) \in Nat /\ DOMAIN s = 1 .. Len(s)
    BY <1>1
  <2>2. /\ s \o t \in Seq(1 .. MaxSent) /\ Len(s \o t) = Len(s) + Len(t)
        /\ \A i \in 1 .. Len(s) + Len(t) :
              (s \o t)[i] = IF i <= Len(s) THEN s[i] ELSE t[i - Len(s)]
    BY <1>1, ConcatProperties
  <2>3. DOMAIN (s \o t) = 1 .. Len(s) + Len(t)
    BY <2>2
  <2>4. \A i \in 1 .. Len(s) : i \in 1 .. Len(s) + Len(t) /\ i <= Len(s)
    BY <2>1
  <2>5. \A i \in 1 .. Len(t) :
           Len(s) + i \in 1 .. Len(s) + Len(t) /\ ~(Len(s) + i <= Len(s)) /\ Len(s) + i - Len(s) = i
    BY <2>1
  <2>6. \A i \in 1 .. Len(s) : (s \o t)[i] = s[i]
    BY <2>2, <2>4
  <2>7. \A i \in 1 .. Len(t) : (s \o t)[Len(s) + i] = t[i]
    BY <2>2, <2>5
  <2> QED
    BY <2>1, <2>2, <2>3, <2>6, <2>7
<1>5. \A i \in 1 .. Len(s) + Len(t) :
         i \in 1 .. Len(s) \/ (i - Len(s) \in 1 .. Len(t) /\ (s \o t)[i] = t[i - Len(s)])
  <2>1. \A i \in 1 .. Len(s) + Len(t) :
           i \in 1 .. Len(s) \/ (i - Len(s) \in 1 .. Len(t) /\ Len(s) + (i - Len(s)) = i)
    BY <1>4
  <2> QED
    BY <1>4, <2>1
<1>6. /\ \A i \in 1 .. Len(s) : i \in 1 .. Len(s) + Len(t)
      /\ \A i \in 1 .. Len(t) : Len(s) + i \in 1 .. Len(s) + Len(t)
  BY <1>4
<1>7. ToSet(s \o t) = ToSet(s) \cup ToSet(t)
  <2>1. \A x \in ToSet(s \o t) : x \in ToSet(s) \cup ToSet(t)
    BY <1>2, <1>4, <1>5 DEF ToSet
  <2>2. \A x \in ToSet(s) : x \in ToSet(s \o t)
    BY <1>4, <1>6 DEF ToSet
  <2>3. \A x \in ToSet(t) : x \in ToSet(s \o t)
    BY <1>2, <1>4, <1>6 DEF ToSet
  <2> QED
    BY <2>1, <2>2, <2>3
<1>8. Rising(s \o t)
  <2> SUFFICES ASSUME NEW i \in 1 .. Len(s) + Len(t), NEW j \in 1 .. Len(s) + Len(t), i < j
               PROVE  (s \o t)[i] < (s \o t)[j]
    BY <1>4 DEF Rising
  <2>1. CASE j \in 1 .. Len(s)
    <3>1. i \in 1 .. Len(s)
      BY <1>4, <2>1
    <3> QED
      BY <1>4, <2>1, <3>1 DEF Rising
  <2>2. CASE i \in 1 .. Len(s) /\ j \notin 1 .. Len(s)
    <3>1. (s \o t)[i] \in ToSet(s)
      BY <1>4, <2>2 DEF ToSet
    <3>2. (s \o t)[j] \in NumbersIn(q)
      BY <1>1, <1>2, <1>5, <2>2 DEF ToSet
    <3> QED
      BY <3>1, <3>2
  <2>3. CASE i \notin 1 .. Len(s) /\ j \notin 1 .. Len(s)
    <3>1. /\ i - Len(s) \in 1 .. Len(t) /\ (s \o t)[i] = t[i - Len(s)]
          /\ j - Len(s) \in 1 .. Len(t) /\ (s \o t)[j] = t[j - Len(s)]
      BY <1>5, <2>3
    <3>2. i - Len(s) < j - Len(s)
      BY <1>4
    <3> QED
      BY <1>2, <1>3, <3>1, <3>2 DEF Rising
  <2> QED
    BY <2>1, <2>2, <2>3
<1> QED
  BY <1>1, <1>4, <1>7, <1>8 DEF t

-----------------------------------------------------------------------------
(* The buffer. *)

\* What has been handed out once the buffer b was polled.
Given(s, b) == IF PollAnswer(b) = "frame" THEN Append(s, Head(b.frames).number) ELSE s

Told == {"frame", "gap", "nothing", "fatal"}

LEMMA PollAnswers ==
  ASSUME NEW b, GoodBuffer(b)
  PROVE  /\ PollAnswer(b) \in Told
         /\ PollAnswer(b) = "frame" => b.frames # <<>> /\ b.reported = b.dropped /\ ~b.closed
         /\ PollAnswer(b) = "nothing" => b.frames = <<>> /\ b.reported = b.dropped
         /\ b.closed => PollAnswer(b) = IF b.fatal THEN "fatal" ELSE "nothing"
  BY DEF GoodBuffer, PollAnswer, Told

\* A poll reports the gap, or takes the oldest frame, or changes nothing.
LEMMA PollCases ==
  ASSUME NEW b, GoodBuffer(b)
  PROVE  /\ PollAnswer(b) = "gap" => AfterPoll(b) = [b EXCEPT !.reported = b.dropped]
         /\ PollAnswer(b) = "frame" =>
               AfterPoll(b) = [b EXCEPT !.frames = Tail(b.frames),
                                        !.bytes = b.bytes - Head(b.frames).size]
         /\ PollAnswer(b) \notin {"gap", "frame"} => AfterPoll(b) = b
  BY DEF AfterPoll

LEMMA PollKeepsBuffer ==
  ASSUME NEW b, GoodBuffer(b)
  PROVE  /\ GoodBuffer(AfterPoll(b)) /\ AfterPoll(b).dropped = b.dropped
         /\ AfterPoll(b).closed = b.closed /\ AfterPoll(b).fatal = b.fatal
         /\ b.reported = b.dropped => AfterPoll(b).reported = b.dropped
         /\ PollAnswer(b) = "nothing" => AfterPoll(b) = b
         /\ b.closed => AfterPoll(b) = b
<1> DEFINE c == AfterPoll(b)
<1>1. b \in Buffer
  BY DEF GoodBuffer
<1>2. CASE PollAnswer(b) = "gap"
  <2>1. /\ c \in Buffer /\ c.frames = b.frames /\ c.bytes = b.bytes /\ c.dropped = b.dropped
        /\ c.reported = b.dropped /\ c.closed = b.closed /\ c.fatal = b.fatal
    <3>1. c = [b EXCEPT !.reported = b.dropped]
      BY <1>2, PollCases
    <3> HIDE DEF c
    <3> QED
      BY <1>1, <3>1 DEF Buffer
  <2>2. GoodBuffer(c)
    <3> HIDE DEF c
    <3> QED
      BY <2>1 DEF GoodBuffer
  <2>3. ~b.closed
    BY <1>2, PollAnswers
  <2> QED
    BY <1>2, <2>1, <2>2, <2>3
<1>3. CASE PollAnswer(b) = "frame"
  <2>1. /\ b.frames \in Seq(Frame) /\ b.frames # <<>> /\ b.reported = b.dropped /\ ~b.closed
    BY <1>1, <1>3, PollAnswers DEF Buffer
  <2>2. /\ Tail(b.frames) \in Seq(Frame) /\ Len(Tail(b.frames)) = Len(b.frames) - 1
        /\ Len(b.frames) \in Nat
    BY <2>1
  <2>3. /\ Total(b.frames) = Head(b.frames).size + Total(Tail(b.frames))
        /\ Head(b.frames) \in Frame /\ Total(Tail(b.frames)) \in Nat
    BY <2>1, TotalTail
  <2>4. PICK h : h = Head(b.frames).size
    OBVIOUS
  <2>5. h \in Nat /\ h # 0
    BY <2>3, <2>4, LimitsAssumption DEF Frame
  <2>6. PICK t : t = Total(Tail(b.frames))
    OBVIOUS
  <2>7. b.bytes = h + t /\ t \in Nat /\ b.bytes - h = t /\ b.bytes <= MaxBytes /\ t <= MaxBytes
    <3>1. b.bytes = Total(b.frames) /\ b.bytes <= MaxBytes
      BY DEF GoodBuffer
    <3>2. b.bytes = h + t /\ t \in Nat
      BY <2>3, <2>4, <2>6, <3>1
    <3> QED
      BY <2>5, <3>1, <3>2, LimitsAssumption
  <2>8. /\ c \in Buffer /\ c.frames = Tail(b.frames) /\ c.bytes = t /\ c.dropped = b.dropped
        /\ c.reported = b.reported /\ c.closed = b.closed /\ c.fatal = b.fatal
    <3>1. c = [b EXCEPT !.frames = Tail(b.frames), !.bytes = t]
      BY <1>3, <2>4, <2>7, PollCases
    <3> HIDE DEF c
    <3> QED
      BY <1>1, <2>2, <2>7, <3>1 DEF Buffer
  <2>9. Len(c.frames) <= MaxFrames
    <3>1. Len(b.frames) <= MaxFrames
      BY DEF GoodBuffer
    <3> QED
      BY <2>2, <2>8, <3>1, LimitsAssumption
  <2>10. GoodBuffer(c)
    <3>1. b.reported \subseteq b.dropped /\ (b.fatal => b.closed)
      BY DEF GoodBuffer
    <3> HIDE DEF c
    <3> QED
      BY <2>1, <2>6, <2>7, <2>8, <2>9, <3>1 DEF GoodBuffer
  <2> QED
    BY <1>3, <2>1, <2>8, <2>10
<1>4. CASE PollAnswer(b) \notin {"gap", "frame"}
  BY <1>4, PollCases
<1> QED
  BY <1>2, <1>3, <1>4

\* What is handed out leaves the buffer, and it was the oldest.
LEMMA PollKeepsOrder ==
  ASSUME NEW b, NEW s \in Seq(1 .. MaxSent), GoodBuffer(b), Rising(s), ~b.closed => Sorted(s, b)
  PROVE  /\ Given(s, b) \in Seq(1 .. MaxSent) /\ Rising(Given(s, b))
         /\ ~b.closed => /\ Sorted(Given(s, b), AfterPoll(b))
                         /\ Live(Given(s, b), AfterPoll(b)) = Live(s, b)
<1>1. CASE PollAnswer(b) # "frame"
  <2>1. Given(s, b) = s
    BY <1>1 DEF Given
  <2>2. AfterPoll(b).frames = b.frames /\ AfterPoll(b).dropped = b.dropped
    BY <1>1, PollCases DEF GoodBuffer, Buffer
  <2> QED
    BY <2>1, <2>2 DEF Sorted, Live
<1>2. CASE PollAnswer(b) = "frame"
  <2>1. b.frames \in Seq(Frame) /\ b.frames # <<>> /\ ~b.closed
    BY <1>2, PollAnswers DEF GoodBuffer, Buffer
  <2>2. InOrder(b.frames) /\ \A x \in ToSet(s), y \in NumbersIn(b.frames) : x < y
    BY <2>1 DEF Sorted
  <2>3. PICK q : q = Tail(b.frames)
    OBVIOUS
  <2>4. PICK n : n = Head(b.frames).number
    OBVIOUS
  <2>5. /\ Head(b.frames) \in Frame /\ InOrder(q)
        /\ NumbersIn(b.frames) = NumbersIn(q) \cup {n} /\ \A y \in NumbersIn(q) : n < y
    BY <2>1, <2>2, <2>3, <2>4, NumbersOfTail
  <2>6. n \in 1 .. MaxSent /\ \A x \in ToSet(s) : x < n
    BY <2>2, <2>4, <2>5 DEF Frame
  <2>7. Given(s, b) = Append(s, n)
    BY <1>2, <2>4 DEF Given
  <2>8. AfterPoll(b).frames = q /\ AfterPoll(b).dropped = b.dropped
    <3>1. PICK c : c = AfterPoll(b)
      OBVIOUS
    <3>2. PICK m : m = b.bytes - Head(b.frames).size
      OBVIOUS
    <3>3. c = [b EXCEPT !.frames = q, !.bytes = m] /\ b \in Buffer
      BY <1>2, <2>3, <3>1, <3>2, PollCases DEF GoodBuffer
    <3>4. c.frames = q /\ c.dropped = b.dropped
      BY <3>3 DEF Buffer
    <3> QED
      BY <3>1, <3>4
  <2>9. Append(s, n) \in Seq(1 .. MaxSent) /\ ToSet(Append(s, n)) = ToSet(s) \cup {n}
    <3>1. PICK N : N = 1 .. MaxSent
      OBVIOUS
    <3>2. s \in Seq(N) /\ n \in N
      BY <2>6, <3>1
    <3>3. Append(s, n) \in Seq(N) /\ ToSet(Append(s, n)) = ToSet(s) \cup {n}
      BY <3>2, SetOfAppend
    <3> QED
      BY <3>1, <3>3
  <2>10. Rising(Append(s, n))
    BY <2>6, RisingAppend
  <2>11. Live(Append(s, n), AfterPoll(b)) = Live(s, b)
    BY <2>5, <2>8, <2>9 DEF Live
  <2>12. Sorted(Append(s, n), AfterPoll(b))
    <3>1. \A x \in ToSet(Append(s, n)), y \in NumbersIn(q) : x < y
      BY <2>2, <2>5, <2>9
    <3>2. Live(s, b) \cap b.dropped = {}
      BY <2>1 DEF Sorted
    <3> QED
      BY <2>5, <2>8, <2>10, <2>11, <3>1, <3>2 DEF Sorted
  <2> QED
    BY <2>1, <2>7, <2>9, <2>10, <2>11, <2>12
<1> QED
  BY <1>1, <1>2

\* offer makes as much room as it must: no more than the limits are left.
LEMMA RoomIsEnough ==
  ASSUME NEW b, NEW size, GoodBuffer(b)
  PROVE  /\ Room(b, size) \in 0 .. Len(b.frames)
         /\ \/ Room(b, size) = Len(b.frames)
            \/ /\ Len(b.frames) - Room(b, size) < MaxFrames
               /\ b.bytes - Total(SubSeq(b.frames, 1, Room(b, size))) + size <= MaxBytes
<1> DEFINE fits(n) == \/ n = Len(b.frames)
                      \/ /\ Len(b.frames) - n < MaxFrames
                         /\ b.bytes - Total(SubSeq(b.frames, 1, n)) + size <= MaxBytes
           T == {n \in 0 .. Len(b.frames) : fits(n)}
<1>1. Room(b, size) = CHOOSE n \in 0 .. Len(b.frames) : fits(n) /\ \A k \in 0 .. n - 1 : ~fits(k)
  BY DEF Room
<1>2. Len(b.frames) \in Nat
  BY DEF GoodBuffer, Buffer
<1>3. Len(b.frames) \in T /\ T \in SUBSET Nat
  BY <1>2
<1>4. PICK n \in T : \A k \in T : n <= k
  BY <1>3, Summing!LeastNumber
<1>5. n \in 0 .. Len(b.frames) /\ fits(n)
  BY <1>4
<1>6. \A k \in 0 .. n - 1 : k \in 0 .. Len(b.frames) /\ ~(n <= k)
  BY <1>2, <1>5
<1>7. \A k \in 0 .. n - 1 : ~fits(k)
  BY <1>4, <1>6
<1>8. \E m \in 0 .. Len(b.frames) : fits(m) /\ \A k \in 0 .. m - 1 : ~fits(k)
  BY <1>5, <1>7
<1> HIDE DEF T, fits
<1>9. Room(b, size) \in 0 .. Len(b.frames) /\ fits(Room(b, size))
  BY <1>1, <1>8
<1> QED
  BY <1>9 DEF fits

LEMMA OfferKeepsBuffer ==
  ASSUME NEW b, NEW f \in Frame, GoodBuffer(b), ~b.closed,
         InOrder(b.frames), \A x \in NumbersIn(b.frames) : x < f.number,
         NumbersIn(b.frames) \cap b.dropped = {}, f.number \notin b.dropped
  PROVE  LET c == Offered(b, f)
         IN  /\ GoodBuffer(c) /\ ~c.closed /\ ~c.fatal /\ b.dropped \subseteq c.dropped
             /\ InOrder(c.frames) /\ NumbersIn(c.frames) \cap c.dropped = {}
             /\ NumbersIn(c.frames) \cup c.dropped
                   = NumbersIn(b.frames) \cup b.dropped \cup {f.number}
<1>1. PICK q : q = b.frames
  OBVIOUS
<1>2. PICK n : n = Room(b, f.size)
  OBVIOUS
<1>3. b \in Buffer /\ q \in Seq(Frame) /\ Len(q) \in Nat /\ Len(q) <= MaxFrames
  BY <1>1 DEF GoodBuffer, Buffer
<1>4. n \in 0 .. Len(q)
  BY <1>1, <1>2, RoomIsEnough
<1>5. PICK old : old = SubSeq(q, 1, n)
  OBVIOUS
<1>6. PICK rest : rest = SubSeq(q, n + 1, Len(q))
  OBVIOUS
<1>7. /\ old \in Seq(Frame) /\ rest \in Seq(Frame) /\ Len(rest) = Len(q) - n
      /\ InOrder(rest) /\ NumbersIn(q) = NumbersIn(old) \cup NumbersIn(rest)
      /\ NumbersIn(old) \cap NumbersIn(rest) = {}
  BY <1>1, <1>3, <1>4, <1>5, <1>6, NumbersOfParts
<1>8. ToSet(Numbers(old)) = NumbersIn(old) /\ NumbersIn(old) \subseteq 1 .. MaxSent
  BY <1>7, FrameNumbers
<1>9. PICK x : x = Total(old)
  OBVIOUS
<1>10. PICK y : y = Total(rest)
  OBVIOUS
<1>11. x \in Nat /\ y \in Nat /\ b.bytes = x + y
  <2>1. /\ Total(SubSeq(q, 1, n)) \in Nat /\ Total(SubSeq(q, n + 1, Len(q))) \in Nat
        /\ Total(q) = Total(SubSeq(q, 1, n)) + Total(SubSeq(q, n + 1, Len(q)))
    BY <1>3, <1>4, TotalSplits
  <2>2. b.bytes = Total(q)
    BY <1>1 DEF GoodBuffer
  <2> QED
    BY <1>5, <1>6, <1>9, <1>10, <2>1, <2>2
<1>12. b.bytes - x = y /\ b.bytes <= MaxBytes /\ y <= MaxBytes
  <2>1. b.bytes <= MaxBytes
    BY DEF GoodBuffer
  <2> QED
    BY <1>11, <2>1, LimitsAssumption
<1>13. PICK z : z = f.size
  OBVIOUS
<1>14. PICK m : m = f.number
  OBVIOUS
<1>15. z \in Nat /\ m \in 1 .. MaxSent
  BY <1>13, <1>14, LimitsAssumption DEF Frame
<1>16. n = Len(q) \/ (Len(q) - n < MaxFrames /\ y + z <= MaxBytes)
  BY <1>1, <1>2, <1>5, <1>9, <1>12, <1>13, RoomIsEnough
<1>17. /\ \A k \in NumbersIn(rest) : k < m
       /\ NumbersIn(rest) \cap b.dropped = {} /\ NumbersIn(old) \cap b.dropped = {}
       /\ m \notin b.dropped /\ m \notin NumbersIn(old) /\ m \notin NumbersIn(rest)
  <2>1. \A k \in NumbersIn(q) : k < m /\ k \in 1 .. MaxSent
    BY <1>1, <1>3, <1>14, FrameNumbers
  <2>2. m \notin NumbersIn(q)
    BY <1>15, <2>1
  <2> QED
    BY <1>1, <1>7, <1>14, <2>1, <2>2
<1>18. b.reported \subseteq b.dropped /\ b.dropped \subseteq 1 .. MaxSent /\ ~b.fatal
  BY <1>3 DEF GoodBuffer, Buffer
<1>19. CASE z > MaxBytes
  <2>1. Offered(b, f) = [b EXCEPT !.frames = rest, !.bytes = b.bytes - x + 0,
                                  !.dropped = b.dropped \cup ToSet(Numbers(old)) \cup {m}]
    BY <1>1, <1>2, <1>5, <1>6, <1>9, <1>13, <1>14, <1>19 DEF Offered
  <2>2. b.bytes - x + 0 = y
    BY <1>11, <1>12
  <2>3. PICK d : d = b.dropped \cup NumbersIn(old) \cup {m}
    OBVIOUS
  <2>4. d \in SUBSET (1 .. MaxSent)
    BY <1>8, <1>15, <1>18, <2>3
  <2>5. PICK c : c = Offered(b, f)
    OBVIOUS
  <2>6. c = [b EXCEPT !.frames = rest, !.bytes = y, !.dropped = d]
    BY <1>8, <2>1, <2>2, <2>3, <2>5
  <2>7. /\ c \in Buffer /\ c.frames = rest /\ c.bytes = y /\ c.dropped = d
        /\ c.reported = b.reported /\ c.closed = b.closed /\ c.fatal = b.fatal
    BY <1>3, <1>7, <1>11, <2>4, <2>6 DEF Buffer
  <2>8. Len(rest) <= MaxFrames
    BY <1>3, <1>4, <1>7, LimitsAssumption
  <2>9. GoodBuffer(c)
    BY <1>10, <1>12, <1>18, <2>3, <2>7, <2>8 DEF GoodBuffer
  <2>10. NumbersIn(rest) \cap d = {}
    BY <1>7, <1>17, <2>3
  <2>11. NumbersIn(rest) \cup d = NumbersIn(q) \cup b.dropped \cup {m}
    BY <1>7, <2>3
  <2> QED
    BY <1>1, <1>7, <1>14, <1>18, <2>3, <2>5, <2>7, <2>9, <2>10, <2>11
<1>20. CASE ~(z > MaxBytes)
  <2>0. PICK r : r = Append(rest, f)
    OBVIOUS
  <2>1. Offered(b, f) = [b EXCEPT !.frames = r, !.bytes = b.bytes - x + z,
                                  !.dropped = b.dropped \cup ToSet(Numbers(old)) \cup {}]
    BY <1>1, <1>2, <1>5, <1>6, <1>9, <1>13, <1>14, <1>20, <2>0 DEF Offered
  <2>2. b.bytes - x + z = y + z /\ y + z \in Nat
    BY <1>11, <1>12, <1>15
  <2>3. PICK d : d = b.dropped \cup NumbersIn(old)
    OBVIOUS
  <2>4. d \in SUBSET (1 .. MaxSent)
    BY <1>8, <1>18, <2>3
  <2>5. PICK c : c = Offered(b, f)
    OBVIOUS
  <2>6. c = [b EXCEPT !.frames = r, !.bytes = y + z, !.dropped = d]
    BY <1>8, <2>1, <2>2, <2>3, <2>5
  <2>7. /\ r \in Seq(Frame) /\ Len(r) = Len(rest) + 1 /\ InOrder(r)
        /\ NumbersIn(r) = NumbersIn(rest) \cup {m}
    BY <1>7, <1>14, <1>17, <2>0, NumbersOfAppend
  <2>8. /\ c \in Buffer /\ c.frames = r /\ c.bytes = y + z /\ c.dropped = d
        /\ c.reported = b.reported /\ c.closed = b.closed /\ c.fatal = b.fatal
    BY <1>3, <2>2, <2>4, <2>6, <2>7 DEF Buffer
  <2>9. Total(r) = y + z
    BY <1>7, <1>10, <1>13, <2>0, TotalAppend
  <2>10. Len(r) <= MaxFrames /\ y + z <= MaxBytes
    <3>1. CASE n = Len(q)
      <4>1. Len(rest) = 0
        BY <1>3, <1>7, <3>1
      <4>2. rest = <<>>
        BY <1>7, <4>1
      <4>3. y = 0
        BY <1>10, <4>2, TotalEmpty, Zenon
      <4> QED
        BY <1>15, <1>20, <2>7, <4>1, <4>3, LimitsAssumption
    <3>2. CASE Len(q) - n < MaxFrames /\ y + z <= MaxBytes
      BY <1>3, <1>4, <1>7, <2>7, <3>2, LimitsAssumption
    <3> QED
      BY <1>16, <3>1, <3>2
  <2>11. GoodBuffer(c)
    BY <1>18, <2>3, <2>8, <2>9, <2>10 DEF GoodBuffer
  <2>12. NumbersIn(r) \cap d = {}
    BY <1>7, <1>17, <2>3, <2>7
  <2>13. NumbersIn(r) \cup d = NumbersIn(q) \cup b.dropped \cup {m}
    BY <1>7, <2>3, <2>7
  <2> QED
    BY <1>1, <1>14, <1>18, <2>3, <2>5, <2>7, <2>8, <2>11, <2>12, <2>13
<1> QED
  BY <1>19, <1>20

\* Frames that were refused are counted.
LEMMA RecordKeepsBuffer ==
  ASSUME NEW b, NEW lost \in SUBSET (1 .. MaxSent), GoodBuffer(b)
  PROVE  /\ GoodBuffer(Recorded(b, lost)) /\ Recorded(b, lost).frames = b.frames
         /\ Recorded(b, lost).closed = b.closed /\ Recorded(b, lost).fatal = b.fatal
         /\ Recorded(b, lost).dropped = IF b.closed THEN b.dropped ELSE b.dropped \cup lost
         /\ b.closed => Recorded(b, lost) = b
<1>1. b \in Buffer
  BY DEF GoodBuffer
<1>2. CASE b.closed
  BY <1>2 DEF Recorded
<1>3. CASE ~b.closed
  <2>1. PICK c : c = Recorded(b, lost)
    OBVIOUS
  <2>2. PICK d : d = b.dropped \cup lost
    OBVIOUS
  <2>3. c = [b EXCEPT !.dropped = d] /\ d \in SUBSET (1 .. MaxSent)
    BY <1>1, <1>3, <2>1, <2>2 DEF Recorded, Buffer
  <2>4. /\ c \in Buffer /\ c.frames = b.frames /\ c.bytes = b.bytes /\ c.dropped = d
        /\ c.reported = b.reported /\ c.closed = b.closed /\ c.fatal = b.fatal
    BY <1>1, <2>3 DEF Buffer
  <2>5. GoodBuffer(c)
    BY <1>3, <2>2, <2>4 DEF GoodBuffer
  <2> QED
    BY <1>3, <2>1, <2>2, <2>4, <2>5
<1> QED
  BY <1>2, <1>3

\* Nothing is left in a buffer that was closed, and a poll says no more than why.
LEMMA CloseKeepsBuffer ==
  ASSUME NEW b, NEW fatal \in BOOLEAN, GoodBuffer(b)
  PROVE  /\ GoodBuffer(ClosedWith(b, fatal)) /\ ClosedWith(b, fatal).closed
         /\ ClosedWith(b, fatal).dropped = b.dropped
<1>1. b \in Buffer
  BY DEF GoodBuffer
<1>2. PICK c : c = ClosedWith(b, fatal)
  OBVIOUS
<1>3. PICK x : x = (b.fatal \/ fatal)
  OBVIOUS
<1>4. c = [b EXCEPT !.frames = <<>>, !.bytes = 0, !.reported = b.dropped, !.closed = TRUE, !.fatal = x]
  BY <1>2, <1>3 DEF ClosedWith
<1>5. <<>> \in Seq(Frame) /\ 0 \in Nat /\ x \in BOOLEAN /\ Len(<<>>) = 0
  BY <1>3
<1>6. /\ c \in Buffer /\ c.frames = <<>> /\ c.bytes = 0 /\ c.dropped = b.dropped
      /\ c.reported = b.dropped /\ c.closed = TRUE /\ c.fatal = x
  BY <1>1, <1>4, <1>5 DEF Buffer
<1>7. Total(c.frames) = 0
  BY <1>6, TotalEmpty, Zenon
<1>8. GoodBuffer(c)
  BY <1>5, <1>6, <1>7, LimitsAssumption DEF GoodBuffer
<1> QED
  BY <1>2, <1>6, <1>8

\* So is a buffer that was drained.
LEMMA DrainKeepsBuffer ==
  ASSUME NEW b, GoodBuffer(b)
  PROVE  LET c == [b EXCEPT !.frames = <<>>, !.bytes = 0]
         IN  /\ GoodBuffer(c) /\ c.frames = <<>> /\ c.dropped = b.dropped
             /\ c.reported = b.reported /\ c.closed = b.closed /\ c.fatal = b.fatal
<1>1. b \in Buffer
  BY DEF GoodBuffer
<1>2. PICK c : c = [b EXCEPT !.frames = <<>>, !.bytes = 0]
  OBVIOUS
<1>3. <<>> \in Seq(Frame) /\ 0 \in Nat /\ Len(<<>>) = 0
  OBVIOUS
<1>4. /\ c \in Buffer /\ c.frames = <<>> /\ c.bytes = 0 /\ c.dropped = b.dropped
      /\ c.reported = b.reported /\ c.closed = b.closed /\ c.fatal = b.fatal
  BY <1>1, <1>2, <1>3 DEF Buffer
<1>5. Total(c.frames) = 0
  BY <1>4, TotalEmpty, Zenon
<1>6. GoodBuffer(c)
  BY <1>3, <1>4, <1>5, LimitsAssumption DEF GoodBuffer
<1> QED
  BY <1>2, <1>4, <1>6

-----------------------------------------------------------------------------
(* The waiters, as the core answers one after the other. *)

Calls == {"idle", "poll", "drain", "waiting"}
Desks == [push : Buffer, waiters : Seq(Pollers), call : [Pollers -> Calls],
          answer : [Pollers -> Answers], delivered : Seq(1 .. MaxSent)]

\* The first k waiters.
First(k) == {waiters[i] : i \in 1 .. k}

\* A buffer the core may answer its waiters from.
Servable(b) == GoodBuffer(b) /\ (~b.closed => Sorted(delivered, b))

\* The desk d after the first k waiters were looked at, with the buffer b before.
DeskAfter(d, b, k) ==
    /\ d \in Desks /\ GoodBuffer(d.push) /\ Rising(d.delivered)
    /\ d.push.dropped = b.dropped /\ d.push.closed = b.closed /\ d.push.fatal = b.fatal
    /\ ~b.closed => Sorted(d.delivered, d.push) /\ Live(d.delivered, d.push) = Live(delivered, b)
    /\ IsInjective(d.waiters) /\ Len(d.waiters) <= k
    /\ d.waiters # <<>> => PollAnswer(d.push) = "nothing"
    /\ ToSet(d.waiters) = {p \in First(k) : d.call[p] # "idle"}
    /\ \A p \in Pollers :
          \/ d.call[p] = call[p] /\ d.answer[p] = answer[p]
          \/ /\ p \in First(k) /\ d.call[p] = "idle" /\ d.answer[p] \in Told
             /\ d.answer[p] = "frame" => d.push.reported = b.dropped

LEMMA NextWaiter ==
  ASSUME Queues, NEW k \in Nat, k < Len(waiters)
  PROVE  /\ waiters[k + 1] \in Pollers /\ call[waiters[k + 1]] = "waiting"
         /\ waiters[k + 1] \notin First(k) /\ First(k + 1) = First(k) \cup {waiters[k + 1]}
<1>1. /\ waiters \in Seq(Pollers) /\ IsInjective(waiters)
      /\ ToSet(waiters) = {p \in Pollers : call[p] = "waiting"}
  BY DEF Queues
<1>2. /\ Len(waiters) \in Nat /\ DOMAIN waiters = 1 .. Len(waiters) /\ k + 1 \in 1 .. Len(waiters)
      /\ \A i \in 1 .. k : i \in 1 .. Len(waiters) /\ i # k + 1 /\ i \in 1 .. k + 1
      /\ \A i \in 1 .. k + 1 : i \in 1 .. k \/ i = k + 1
      /\ k + 1 \in 1 .. k + 1
  BY <1>1
<1>3. waiters[k + 1] \in ToSet(waiters)
  BY <1>2 DEF ToSet
<1>4. waiters[k + 1] \notin First(k)
  BY <1>1, <1>2 DEF First, IsInjective
<1>5. First(k + 1) = First(k) \cup {waiters[k + 1]}
  BY <1>2 DEF First
<1> QED
  BY <1>1, <1>3, <1>4, <1>5

\* Looking at one waiter more.
LEMMA OneMoreServed ==
  ASSUME Queues, NEW k \in Nat, k < Len(waiters), NEW b, NEW d, DeskAfter(d, b, k)
  PROVE  DeskAfter(Served(d, waiters[k + 1]), b, k + 1)
<1>1. PICK p : p = waiters[k + 1]
  OBVIOUS
<1>2. /\ p \in Pollers /\ call[p] = "waiting" /\ p \notin First(k)
      /\ First(k + 1) = First(k) \cup {p}
  BY <1>1, NextWaiter
<1>3. /\ d \in Desks /\ GoodBuffer(d.push) /\ Rising(d.delivered)
      /\ d.push.dropped = b.dropped /\ d.push.closed = b.closed /\ d.push.fatal = b.fatal
      /\ ~b.closed => Sorted(d.delivered, d.push) /\ Live(d.delivered, d.push) = Live(delivered, b)
      /\ IsInjective(d.waiters) /\ Len(d.waiters) <= k
      /\ d.waiters # <<>> => PollAnswer(d.push) = "nothing"
      /\ ToSet(d.waiters) = {x \in First(k) : d.call[x] # "idle"}
  BY DEF DeskAfter
<1>4. \A x \in Pollers :
         \/ d.call[x] = call[x] /\ d.answer[x] = answer[x]
         \/ /\ x \in First(k) /\ d.call[x] = "idle" /\ d.answer[x] \in Told
            /\ d.answer[x] = "frame" => d.push.reported = b.dropped
  BY DEF DeskAfter
<1>5. /\ d.waiters \in Seq(Pollers) /\ d.call \in [Pollers -> Calls]
      /\ d.answer \in [Pollers -> Answers] /\ d.delivered \in Seq(1 .. MaxSent)
      /\ Len(d.waiters) \in Nat
  BY <1>3 DEF Desks
<1>6. d.call[p] = "waiting" /\ p \notin ToSet(d.waiters)
  BY <1>2, <1>3, <1>4
<1>7. First(k) \subseteq Pollers
  <2>1. \A i \in 1 .. k : i \in 1 .. Len(waiters)
    BY DEF Queues
  <2>2. waiters \in Seq(Pollers)
    BY DEF Queues
  <2> QED
    BY <2>1, <2>2 DEF First
<1>8. PICK e : e = Served(d, p)
  OBVIOUS
<1>9. CASE PollAnswer(d.push) = "nothing" /\ p \notin late
  <2>1. PICK w : w = Append(d.waiters, p)
    OBVIOUS
  <2>2. /\ w \in Seq(Pollers) /\ ToSet(w) = ToSet(d.waiters) \cup {p}
        /\ Len(w) = Len(d.waiters) + 1
    BY <1>2, <1>5, <2>1, SetOfAppend
  <2>3. IsInjective(w)
    BY <1>2, <1>3, <1>5, <1>6, <2>1, InjectiveAppend
  <2>4. e = [d EXCEPT !.waiters = w]
    BY <1>8, <1>9, <2>1 DEF Served
  <2>5. /\ e \in Desks /\ e.waiters = w /\ e.push = d.push /\ e.call = d.call
        /\ e.answer = d.answer /\ e.delivered = d.delivered
    BY <1>3, <2>2, <2>4 DEF Desks
  <2>6. Len(w) <= k + 1
    BY <1>3, <1>5, <2>2
  <2>7. ToSet(w) = {x \in First(k + 1) : d.call[x] # "idle"}
    BY <1>2, <1>3, <1>6, <2>2
  <2>8. \A x \in Pollers :
           \/ e.call[x] = call[x] /\ e.answer[x] = answer[x]
           \/ /\ x \in First(k + 1) /\ e.call[x] = "idle" /\ e.answer[x] \in Told
              /\ e.answer[x] = "frame" => e.push.reported = b.dropped
    BY <1>2, <1>4, <2>5
  <2> QED
    BY <1>1, <1>3, <1>8, <1>9, <2>3, <2>5, <2>6, <2>7, <2>8 DEF DeskAfter
<1>10. CASE ~(PollAnswer(d.push) = "nothing" /\ p \notin late)
  <2>1. PICK c : c = AfterPoll(d.push)
    OBVIOUS
  <2>2. PICK r : r = PollAnswer(d.push)
    OBVIOUS
  <2>3. PICK s : s = Given(d.delivered, d.push)
    OBVIOUS
  <2>4. e = Replied(d, p)
    BY <1>8, <1>10 DEF Served
  <2>5. e = [push |-> c, waiters |-> d.waiters, call |-> [d.call EXCEPT ![p] = "idle"],
             answer |-> [d.answer EXCEPT ![p] = r], delivered |-> s]
    BY <2>1, <2>2, <2>3, <2>4 DEF Replied, Given
  <2>6. /\ e.push = c /\ e.waiters = d.waiters /\ e.call = [d.call EXCEPT ![p] = "idle"]
        /\ e.answer = [d.answer EXCEPT ![p] = r] /\ e.delivered = s
    BY <2>5
  <2>7. /\ GoodBuffer(c) /\ c.dropped = b.dropped /\ c.closed = b.closed /\ c.fatal = b.fatal
        /\ d.push.reported = b.dropped => c.reported = b.dropped
        /\ r = "nothing" => c = d.push
    BY <1>3, <2>1, <2>2, PollKeepsBuffer
  <2>8. r \in Told /\ (r = "frame" => d.push.reported = b.dropped)
    BY <1>3, <2>2, PollAnswers
  <2>9. /\ s \in Seq(1 .. MaxSent) /\ Rising(s)
        /\ ~d.push.closed => Sorted(s, c) /\ Live(s, c) = Live(d.delivered, d.push)
    BY <1>3, <1>5, <2>1, <2>3, PollKeepsOrder
  <2>10. ~b.closed => Sorted(e.delivered, e.push) /\ Live(e.delivered, e.push) = Live(delivered, b)
    BY <1>3, <2>6, <2>9
  <2>11. e \in Desks
    <3>1. c \in Buffer
      BY <2>7 DEF GoodBuffer
    <3>2. r \in Answers
      BY <2>8 DEF Told, Answers
    <3>3. /\ [d.call EXCEPT ![p] = "idle"] \in [Pollers -> Calls]
          /\ [d.answer EXCEPT ![p] = r] \in [Pollers -> Answers]
      BY <1>5, <3>2 DEF Calls
    <3> QED
      BY <1>5, <2>5, <2>9, <3>1, <3>3 DEF Desks
  <2>12. e.waiters # <<>> => PollAnswer(e.push) = "nothing"
    BY <1>3, <2>2, <2>6, <2>7
  <2>13. \A x \in Pollers : x # p => e.call[x] = d.call[x] /\ e.answer[x] = d.answer[x]
    BY <1>5, <2>6
  <2>14. e.call[p] = "idle" /\ e.answer[p] = r
    BY <1>2, <1>5, <2>6
  <2>15. ToSet(e.waiters) = {x \in First(k + 1) : e.call[x] # "idle"}
    BY <1>2, <1>3, <1>7, <2>6, <2>13, <2>14
  <2>16. \A x \in Pollers :
            \/ e.call[x] = call[x] /\ e.answer[x] = answer[x]
            \/ /\ x \in First(k + 1) /\ e.call[x] = "idle" /\ e.answer[x] \in Told
               /\ e.answer[x] = "frame" => e.push.reported = b.dropped
    <3> SUFFICES ASSUME NEW x \in Pollers
                 PROVE  \/ e.call[x] = call[x] /\ e.answer[x] = answer[x]
                        \/ /\ x \in First(k + 1) /\ e.call[x] = "idle" /\ e.answer[x] \in Told
                           /\ e.answer[x] = "frame" => e.push.reported = b.dropped
      OBVIOUS
    <3>1. CASE x = p
      BY <1>2, <2>6, <2>7, <2>8, <2>14, <3>1
    <3>2. CASE x # p
      <4>1. e.call[x] = d.call[x] /\ e.answer[x] = d.answer[x]
        BY <2>13, <3>2
      <4>2. d.push.reported = b.dropped => e.push.reported = b.dropped
        BY <2>6, <2>7
      <4> QED
        BY <1>2, <1>4, <4>1, <4>2
    <3> QED
      BY <3>1, <3>2
  <2>17. IsInjective(e.waiters) /\ Len(e.waiters) <= k + 1
    BY <1>3, <1>5, <2>6
  <2> QED
    BY <1>1, <1>8, <2>6, <2>7, <2>9, <2>10, <2>11, <2>12, <2>15, <2>16, <2>17 DEF DeskAfter
<1> QED
  BY <1>9, <1>10

\* The desk when the waiters in q were looked at.
Answered(b, q) == FoldLeft(Served, Desk(b), q)

ServedUpTo(k) ==
    k <= Len(waiters) =>
        \A b : Servable(b) => DeskAfter(Answered(b, SubSeq(waiters, 1, k)), b, k)

Serving == INSTANCE FoldInduction WITH P <- ServedUpTo, op <- Served

LEMMA AnsweredIsFold == \A b, q : Answered(b, q) = Serving!FoldLeft(Served, Desk(b), q)
  BY DEF Answered, FoldLeft, Serving!FoldLeft, MapThenFoldSet, Serving!MapThenFoldSet,
     Max, Serving!Max

LEMMA AnsweredNone == \A b : Answered(b, <<>>) = Desk(b)
  BY Serving!FoldEmpty, AnsweredIsFold

LEMMA AnsweredMore ==
  ASSUME NEW b, NEW S, NEW s \in Seq(S), NEW e \in S
  PROVE  Answered(b, Append(s, e)) = Served(Answered(b, s), e)
<1>1. Serving!FoldLeft(Served, Desk(b), Append(s, e)) = Served(Serving!FoldLeft(Served, Desk(b), s), e)
  BY Serving!FoldAppend
<1>2. Serving!FoldLeft(Served, Desk(b), Append(s, e)) = Answered(b, Append(s, e))
  BY AnsweredIsFold
<1>3. Serving!FoldLeft(Served, Desk(b), s) = Answered(b, s)
  BY AnsweredIsFold
<1> QED
  BY <1>1, <1>2, <1>3

\* fulfill_push_waiters looks at all of them.
LEMMA AllServed ==
  ASSUME Types, Queues
  PROVE  \A b : Servable(b) => DeskAfter(Fulfilled(b), b, Len(waiters))
<1>1. waiters \in Seq(Pollers) /\ Len(waiters) \in Nat
  BY DEF Queues
<1>2. SubSeq(waiters, 1, 0) = <<>>
  BY SubSeqEmpty
<1>3. ServedUpTo(0)
  <2> SUFFICES ASSUME NEW b, Servable(b) PROVE DeskAfter(Answered(b, <<>>), b, 0)
    BY <1>2 DEF ServedUpTo
  <2>1. PICK d : d = Desk(b)
    OBVIOUS
  <2>2. /\ d.push = b /\ d.waiters = <<>> /\ d.call = call /\ d.answer = answer
        /\ d.delivered = delivered
    BY <2>1 DEF Desk
  <2>3. d \in Desks /\ GoodBuffer(b) /\ Rising(delivered) /\ (~b.closed => Sorted(delivered, b))
    <3>1. GoodBuffer(b) /\ b \in Buffer /\ (~b.closed => Sorted(delivered, b))
      BY DEF Servable, GoodBuffer
    <3>2. call \in [Pollers -> Calls] /\ answer \in [Pollers -> Answers]
      BY DEF Queues, Calls
    <3>3. delivered \in Seq(1 .. MaxSent) /\ Rising(delivered)
      BY DEF Types
    <3>4. <<>> \in Seq(Pollers)
      OBVIOUS
    <3>5. d \in Desks
      BY <2>1, <3>1, <3>2, <3>3, <3>4 DEF Desk, Desks
    <3> QED
      BY <3>1, <3>3, <3>5
  <2>4. First(0) = {} /\ ToSet(d.waiters) = {} /\ IsInjective(d.waiters) /\ Len(d.waiters) <= 0
    BY <2>2 DEF First, ToSet, IsInjective
  <2>5. DeskAfter(d, b, 0)
    BY <2>2, <2>3, <2>4 DEF DeskAfter
  <2> QED
    BY <2>1, <2>5, AnsweredNone
<1>4. ASSUME NEW k \in Nat, ServedUpTo(k) PROVE ServedUpTo(k + 1)
  <2> SUFFICES ASSUME k + 1 <= Len(waiters), NEW b, Servable(b)
               PROVE  DeskAfter(Answered(b, SubSeq(waiters, 1, k + 1)), b, k + 1)
    BY DEF ServedUpTo
  <2>1. k < Len(waiters) /\ k <= Len(waiters) /\ 0 + 1 = 1 /\ 0 <= k
    BY <1>1
  <2>2. DeskAfter(Answered(b, SubSeq(waiters, 1, k)), b, k)
    BY <1>4, <2>1 DEF ServedUpTo
  <2>3. /\ SubSeq(waiters, 0 + 1, k) \in Seq(Pollers) /\ waiters[k + 1] \in Pollers
        /\ SubSeq(waiters, 0 + 1, k + 1) = Append(SubSeq(waiters, 0 + 1, k), waiters[k + 1])
    BY <1>1, <2>1, SubSeqMore
  <2>4. PICK s : s = SubSeq(waiters, 1, k)
    OBVIOUS
  <2>5. /\ s \in Seq(Pollers) /\ waiters[k + 1] \in Pollers
        /\ SubSeq(waiters, 1, k + 1) = Append(s, waiters[k + 1])
    BY <2>1, <2>3, <2>4
  <2>6. Answered(b, SubSeq(waiters, 1, k + 1)) = Served(Answered(b, s), waiters[k + 1])
    <3>1. Answered(b, Append(s, waiters[k + 1])) = Served(Answered(b, s), waiters[k + 1])
      <4>1. PICK w : w = waiters[k + 1]
        OBVIOUS
      <4>2. s \in Seq(Pollers) /\ w \in Pollers
        BY <2>5, <4>1
      <4>3. Answered(b, Append(s, w)) = Served(Answered(b, s), w)
        BY <4>2, AnsweredMore
      <4> QED
        BY <4>1, <4>3, Zenon
    <3> QED
      BY <2>5, <3>1, Zenon
  <2>7. PICK d : d = Answered(b, s)
    OBVIOUS
  <2>8. DeskAfter(Served(d, waiters[k + 1]), b, k + 1)
    BY <2>1, <2>2, <2>4, <2>7, OneMoreServed
  <2> QED
    BY <2>6, <2>7, <2>8
<1>5. \A k \in Nat : ServedUpTo(k)
  BY <1>3, <1>4, Serving!Induction
<1>6. ServedUpTo(Len(waiters)) /\ Len(waiters) <= Len(waiters)
  BY <1>1, <1>5
<1>7. SubSeq(waiters, 1, Len(waiters)) = waiters
  BY <1>1, SubSeqFull
<1>8. \A b : Servable(b) => DeskAfter(Answered(b, waiters), b, Len(waiters))
  BY <1>6, <1>7 DEF ServedUpTo
<1> QED
  BY <1>8 DEF Answered, Fulfilled

-----------------------------------------------------------------------------
(* The waiters, as the close answers one after the other. *)

\* The desk d after the first k waiters were told of the close, with the buffer b.
DeskClosed(d, b, k) ==
    /\ d.push = b /\ d.waiters = <<>> /\ d.delivered = delivered
    /\ d.call \in [Pollers -> Calls] /\ d.answer \in [Pollers -> Answers]
    /\ \A p \in Pollers : IF p \in First(k) THEN d.call[p] = "idle" /\ d.answer[p] = PollAnswer(b)
                                            ELSE d.call[p] = call[p] /\ d.answer[p] = answer[p]

\* The desk when the waiters in q were told.
Dismissed(b, q) == FoldLeft(Replied, Desk(b), q)

DismissedUpTo(k) ==
    k <= Len(waiters) =>
        \A b : GoodBuffer(b) /\ b.closed => DeskClosed(Dismissed(b, SubSeq(waiters, 1, k)), b, k)

Closing == INSTANCE FoldInduction WITH P <- DismissedUpTo, op <- Replied

LEMMA DismissedIsFold == \A b, q : Dismissed(b, q) = Closing!FoldLeft(Replied, Desk(b), q)
  BY DEF Dismissed, FoldLeft, Closing!FoldLeft, MapThenFoldSet, Closing!MapThenFoldSet,
     Max, Closing!Max

LEMMA DismissedNone == \A b : Dismissed(b, <<>>) = Desk(b)
  BY Closing!FoldEmpty, DismissedIsFold

LEMMA DismissedMore ==
  ASSUME NEW b, NEW S, NEW s \in Seq(S), NEW e \in S
  PROVE  Dismissed(b, Append(s, e)) = Replied(Dismissed(b, s), e)
<1>1. Closing!FoldLeft(Replied, Desk(b), Append(s, e)) = Replied(Closing!FoldLeft(Replied, Desk(b), s), e)
  BY Closing!FoldAppend
<1>2. Closing!FoldLeft(Replied, Desk(b), Append(s, e)) = Dismissed(b, Append(s, e))
  BY DismissedIsFold
<1>3. Closing!FoldLeft(Replied, Desk(b), s) = Dismissed(b, s)
  BY DismissedIsFold
<1> QED
  BY <1>1, <1>2, <1>3

\* begin_close tells each waiter why, once.
LEMMA AllDismissed ==
  ASSUME Types, Queues
  PROVE  \A b : GoodBuffer(b) /\ b.closed => DeskClosed(Dismissed(b, waiters), b, Len(waiters))
<1>1. waiters \in Seq(Pollers) /\ Len(waiters) \in Nat
  BY DEF Queues
<1>2. SubSeq(waiters, 1, 0) = <<>>
  BY SubSeqEmpty
<1>3. DismissedUpTo(0)
  <2> SUFFICES ASSUME NEW b, GoodBuffer(b), b.closed PROVE DeskClosed(Dismissed(b, <<>>), b, 0)
    BY <1>2 DEF DismissedUpTo
  <2>1. call \in [Pollers -> Calls] /\ answer \in [Pollers -> Answers]
    BY DEF Queues, Calls
  <2>2. First(0) = {}
    BY DEF First
  <2>3. DeskClosed(Desk(b), b, 0)
    BY <2>1, <2>2 DEF DeskClosed, Desk
  <2> QED
    BY <2>3, DismissedNone
<1>4. ASSUME NEW k \in Nat, DismissedUpTo(k) PROVE DismissedUpTo(k + 1)
  <2> SUFFICES ASSUME k + 1 <= Len(waiters), NEW b, GoodBuffer(b), b.closed
               PROVE  DeskClosed(Dismissed(b, SubSeq(waiters, 1, k + 1)), b, k + 1)
    BY DEF DismissedUpTo
  <2>1. k < Len(waiters) /\ k <= Len(waiters) /\ 0 + 1 = 1 /\ 0 <= k
    BY <1>1
  <2>2. DeskClosed(Dismissed(b, SubSeq(waiters, 1, k)), b, k)
    BY <1>4, <2>1 DEF DismissedUpTo
  <2>3. /\ SubSeq(waiters, 0 + 1, k) \in Seq(Pollers) /\ waiters[k + 1] \in Pollers
        /\ SubSeq(waiters, 0 + 1, k + 1) = Append(SubSeq(waiters, 0 + 1, k), waiters[k + 1])
    BY <1>1, <2>1, SubSeqMore
  <2>4. PICK s : s = SubSeq(waiters, 1, k)
    OBVIOUS
  <2>5. PICK w : w = waiters[k + 1]
    OBVIOUS
  <2>6. s \in Seq(Pollers) /\ w \in Pollers /\ SubSeq(waiters, 1, k + 1) = Append(s, w)
    BY <2>1, <2>3, <2>4, <2>5
  <2>7. PICK d : d = Dismissed(b, s)
    OBVIOUS
  <2>8. Dismissed(b, Append(s, w)) = Replied(Dismissed(b, s), w)
    BY <2>6, DismissedMore
  <2>9. PICK e : e = Replied(d, w)
    OBVIOUS
  <2>10. DeskClosed(d, b, k)
    BY <2>2, <2>4, <2>7
  <2>11. /\ d.push = b /\ d.waiters = <<>> /\ d.delivered = delivered
         /\ d.call \in [Pollers -> Calls] /\ d.answer \in [Pollers -> Answers]
    BY <2>10 DEF DeskClosed
  <2>12. w \notin First(k) /\ First(k + 1) = First(k) \cup {w}
    BY <2>1, <2>5, NextWaiter
  <2>13. AfterPoll(b) = b /\ PollAnswer(b) # "frame" /\ PollAnswer(b) \in Answers
    BY PollKeepsBuffer, PollAnswers DEF Told, Answers
  <2>14. /\ e.push = b /\ e.waiters = <<>> /\ e.delivered = delivered
         /\ e.call = [d.call EXCEPT ![w] = "idle"] /\ e.answer = [d.answer EXCEPT ![w] = PollAnswer(b)]
    BY <2>9, <2>11, <2>13 DEF Replied
  <2>15. e.call \in [Pollers -> Calls] /\ e.answer \in [Pollers -> Answers]
    BY <2>11, <2>13, <2>14, ZenonT(40) DEF Calls
  <2>16. \A p \in Pollers : IF p \in First(k + 1) THEN e.call[p] = "idle" /\ e.answer[p] = PollAnswer(b)
                                                  ELSE e.call[p] = call[p] /\ e.answer[p] = answer[p]
    BY <2>10, <2>11, <2>12, <2>14 DEF DeskClosed
  <2>17. DeskClosed(e, b, k + 1)
    BY <2>14, <2>15, <2>16 DEF DeskClosed
  <2>18. Dismissed(b, SubSeq(waiters, 1, k + 1)) = e
    BY <2>6, <2>7, <2>8, <2>9, Zenon
  <2> QED
    BY <2>17, <2>18
<1>5. \A k \in Nat : DismissedUpTo(k)
  BY <1>3, <1>4, Closing!Induction
<1>6. DismissedUpTo(Len(waiters)) /\ Len(waiters) <= Len(waiters)
  BY <1>1, <1>5
<1>7. SubSeq(waiters, 1, Len(waiters)) = waiters
  BY <1>1, SubSeqFull
<1> QED
  BY <1>6, <1>7 DEF DismissedUpTo

-----------------------------------------------------------------------------
(* Every step keeps the invariant. *)

\* What the core leaves behind when it answered its waiters from the buffer b.
Waited(b) ==
    /\ Queues' /\ GoodBuffer(push')
    /\ push'.dropped = b.dropped /\ push'.closed = b.closed /\ push'.fatal = b.fatal
    /\ delivered' \in Seq(1 .. MaxSent) /\ Rising(delivered')
    /\ ~b.closed => Sorted(delivered', push') /\ Live(delivered', push') = Live(delivered, b)
    /\ late' \in SUBSET Pollers /\ owed' \in [Pollers -> SUBSET (1 .. MaxSent)]
    /\ \A p \in Pollers : /\ owed'[p] \subseteq owed[p]
                          /\ call'[p] = "waiting" => call[p] = "waiting"
    /\ \A p \in Pollers : call[p] # "idle" /\ call'[p] = "idle" =>
                             /\ call[p] = "waiting"
                             /\ answer'[p] = "frame" => push'.reported = b.dropped

LEMMA EndOfCalls ==
  ASSUME Types, EndCalls
  PROVE  /\ late' \in SUBSET Pollers /\ owed' \in [Pollers -> SUBSET (1 .. MaxSent)]
         /\ \A p \in Pollers : owed'[p] \subseteq owed[p]
<1>1. late \in SUBSET Pollers /\ owed \in [Pollers -> SUBSET (1 .. MaxSent)]
  BY DEF Types
<1>2. /\ late' = {p \in late : call'[p] # "idle"}
      /\ owed' = [p \in Pollers |-> IF call'[p] = "idle" THEN {} ELSE owed[p]]
  BY DEF EndCalls
<1>3. late' \in SUBSET Pollers
  BY <1>1, <1>2
<1>4. \A p \in Pollers : owed'[p] \subseteq owed[p] /\ owed'[p] \in SUBSET (1 .. MaxSent)
  BY <1>1, <1>2
<1>5. owed' \in [Pollers -> SUBSET (1 .. MaxSent)]
  BY <1>2, <1>4
<1> QED
  BY <1>3, <1>4, <1>5

LEMMA ServingWaiters ==
  ASSUME Types, Queues, NEW b, Servable(b), b.closed => push.closed,
         Become(Fulfilled(b)), commands' = commands
  PROVE  Waited(b)
<1>1. PICK d : d = Fulfilled(b)
  OBVIOUS
<1>2. DeskAfter(d, b, Len(waiters))
  BY <1>1, AllServed
<1>3. /\ push' = d.push /\ waiters' = d.waiters
      /\ call' = d.call /\ answer' = d.answer /\ delivered' = d.delivered /\ EndCalls
  BY <1>1 DEF Become
<1>4. /\ d \in Desks /\ GoodBuffer(d.push) /\ Rising(d.delivered)
      /\ d.push.dropped = b.dropped /\ d.push.closed = b.closed /\ d.push.fatal = b.fatal
      /\ ~b.closed => Sorted(d.delivered, d.push) /\ Live(d.delivered, d.push) = Live(delivered, b)
      /\ IsInjective(d.waiters) /\ Len(d.waiters) <= Len(waiters)
      /\ d.waiters # <<>> => PollAnswer(d.push) = "nothing"
      /\ ToSet(d.waiters) = {p \in First(Len(waiters)) : d.call[p] # "idle"}
  BY <1>2 DEF DeskAfter
<1>5. \A p \in Pollers :
         \/ d.call[p] = call[p] /\ d.answer[p] = answer[p]
         \/ /\ p \in First(Len(waiters)) /\ d.call[p] = "idle" /\ d.answer[p] \in Told
            /\ d.answer[p] = "frame" => d.push.reported = b.dropped
  BY <1>2 DEF DeskAfter
<1>6. /\ d.waiters \in Seq(Pollers) /\ d.call \in [Pollers -> Calls]
      /\ d.answer \in [Pollers -> Answers] /\ d.delivered \in Seq(1 .. MaxSent)
  BY <1>4 DEF Desks
<1>7. /\ waiters \in Seq(Pollers) /\ Len(waiters) \in Nat /\ Len(waiters) <= MaxWaiters
      /\ ToSet(waiters) = {p \in Pollers : call[p] = "waiting"}
      /\ commands \in Seq(Pollers) /\ IsInjective(commands)
      /\ ToSet(commands) = {p \in Pollers : call[p] \in {"poll", "drain"}}
      /\ \A p \in Pollers : call[p] # "idle" => answer[p] = "none"
      /\ push.closed => waiters = <<>>
  BY DEF Queues
<1>8. First(Len(waiters)) = ToSet(waiters)
  BY <1>7, SMTT(30) DEF First, ToSet
<1>9. Len(d.waiters) \in Nat /\ Len(d.waiters) <= MaxWaiters
  BY <1>4, <1>6, <1>7, LimitsAssumption
<1>10. \A p \in Pollers : /\ d.call[p] = call[p] \/ (call[p] = "waiting" /\ d.call[p] = "idle")
                          /\ d.call[p] # "idle" => d.call[p] = call[p] /\ d.answer[p] = answer[p]
  BY <1>5, <1>7, <1>8
<1>11. ToSet(d.waiters) = {p \in Pollers : d.call[p] = "waiting"}
  BY <1>4, <1>7, <1>8, <1>10
<1>12. ToSet(commands) = {p \in Pollers : d.call[p] \in {"poll", "drain"}}
  BY <1>7, <1>10
<1>13. \A p \in Pollers : d.call[p] # "idle" => d.answer[p] = "none"
  BY <1>7, <1>10
<1>14. d.waiters # <<>> => d.push.frames = <<>>
  BY <1>4, PollAnswers
<1>15. d.push.closed => d.waiters = <<>>
  <2> SUFFICES ASSUME d.push.closed PROVE d.waiters = <<>>
    OBVIOUS
  <2>1. Len(waiters) = 0
    BY <1>4, <1>7
  <2>2. Len(d.waiters) = 0
    BY <1>4, <1>9, <2>1
  <2> QED
    BY <1>6, <2>2
<1>16. Queues'
  BY <1>3, <1>4, <1>6, <1>7, <1>9, <1>11, <1>12, <1>13, <1>14, <1>15 DEF Queues, Calls
<1>17. /\ late' \in SUBSET Pollers /\ owed' \in [Pollers -> SUBSET (1 .. MaxSent)]
       /\ \A p \in Pollers : owed'[p] \subseteq owed[p]
  BY <1>3, EndOfCalls
<1>18. \A p \in Pollers : call'[p] = "waiting" => call[p] = "waiting"
  BY <1>3, <1>10
<1>19. \A p \in Pollers : call[p] # "idle" /\ call'[p] = "idle" =>
                             /\ call[p] = "waiting"
                             /\ answer'[p] = "frame" => push'.reported = b.dropped
  <2> SUFFICES ASSUME NEW p \in Pollers, call[p] # "idle", call'[p] = "idle"
               PROVE  call[p] = "waiting" /\ (answer'[p] = "frame" => push'.reported = b.dropped)
    OBVIOUS
  <2>1. d.call[p] = "idle" /\ answer'[p] = d.answer[p] /\ push'.reported = d.push.reported
    BY <1>3
  <2> QED
    BY <1>5, <1>10, <2>1
<1> QED
  BY <1>3, <1>4, <1>6, <1>16, <1>17, <1>18, <1>19 DEF Waited

\* The invariant in parts.
LEMMA IInvParts ==
  ASSUME IInv
  PROVE  /\ Types /\ Queues /\ GoodBuffer(push) /\ push \in Buffer
         /\ ~push.closed => Places /\ Owed
         /\ Servable(push)
  BY DEF IInv, GoodBuffer, Servable, Places

LEMMA PublishKeeps ==
  ASSUME IInv, NEW w \in Workers, NEW size \in Sizes, Publish(w, size)
  PROVE  IInv'
<1>1. /\ Types /\ Queues /\ GoodBuffer(push) /\ (~push.closed => Places /\ Owed)
  BY IInvParts
<1>2. PICK n : n = sent + 1
  OBVIOUS
<1>3. /\ refused[w] = 0 /\ sent < MaxSent /\ sent' = n
      /\ IF Len(channel) < MaxFrames
         THEN channel' = Append(channel, [number |-> n, size |-> size]) /\ refused' = refused
         ELSE refused' = [refused EXCEPT ![w] = n] /\ channel' = channel
  BY <1>2 DEF Publish
<1>4. UNCHANGED <<running, missed, push, commands, waiters, call, answer, late, delivered, owed>>
  BY DEF Publish, pollerVars
<1>5. sent \in 0 .. MaxSent /\ channel \in Seq(Frame) /\ refused \in [Workers -> 0 .. MaxSent]
  BY <1>1 DEF Types
<1>6. n \in 1 .. MaxSent /\ sent \in Nat /\ n = sent + 1 /\ n # 0 /\ n \in 0 .. MaxSent
  BY <1>2, <1>3, <1>5, LimitsAssumption
<1>7. PICK f : f = [number |-> n, size |-> size]
  OBVIOUS
<1>8. f \in Frame /\ f.number = n
  BY <1>6, <1>7 DEF Frame
<1>9. /\ channel' \in Seq(Frame) /\ refused' \in [Workers -> 0 .. MaxSent]
      /\ Len(channel') <= MaxFrames
  <2>1. CASE Len(channel) < MaxFrames
    <3>1. channel' = Append(channel, f) /\ refused' = refused
      BY <1>3, <1>7, <2>1
    <3>2. Append(channel, f) \in Seq(Frame) /\ Len(Append(channel, f)) = Len(channel) + 1 /\ Len(channel) \in Nat
      BY <1>5, <1>8
    <3> QED
      BY <1>5, <2>1, <3>1, <3>2, LimitsAssumption
  <2>2. CASE ~(Len(channel) < MaxFrames)
    <3>1. refused' = [refused EXCEPT ![w] = n] /\ channel' = channel
      BY <1>3, <2>2
    <3> QED
      BY <1>1, <1>5, <1>6, <3>1 DEF Types
  <2> QED
    BY <2>1, <2>2
<1>10. Types'
  BY <1>1, <1>3, <1>4, <1>6, <1>9 DEF Types
<1>11. Queues'
  BY <1>1, <1>4 DEF Queues
<1>12. ASSUME ~push.closed PROVE Places'
  <2>1. /\ Sorted(delivered, push) /\ InOrder(channel)
        /\ \A x \in Live(delivered, push), y \in NumbersIn(channel) : x < y
        /\ \A v, u \in Workers : refused[v] # 0 /\ refused[v] = refused[u] => v = u
        /\ Known(delivered, push) \cap NumbersIn(channel) = {}
        /\ (Known(delivered, push) \cup NumbersIn(channel)) \cap missed = {}
        /\ (Known(delivered, push) \cup NumbersIn(channel) \cup missed) \cap RefusedNow = {}
        /\ Known(delivered, push) \cup NumbersIn(channel) \cup missed \cup RefusedNow = 1 .. sent
    BY <1>1, <1>12 DEF Places
  <2>2. PICK K : K = Known(delivered, push)
    OBVIOUS
  <2>3. PICK L : L = Live(delivered, push)
    OBVIOUS
  <2>4. PICK C : C = NumbersIn(channel)
    OBVIOUS
  <2>5. PICK R : R = RefusedNow
    OBVIOUS
  <2>6. L \subseteq K
    BY <2>2, <2>3 DEF Known
  <2>7. 1 .. n = 1 .. sent \cup {n} /\ n \notin 1 .. sent /\ \A x \in 1 .. sent : x < n
    BY <1>6
  <2>8. K \cup C \cup missed \cup R = 1 .. sent
    BY <2>1, <2>2, <2>4, <2>5
  <2>9. n \notin K /\ n \notin C /\ n \notin missed /\ n \notin R /\ \A x \in K \cup C : x < n
    BY <2>7, <2>8
  <2>10. Known(delivered, push)' = K /\ Live(delivered, push)' = L
    BY <1>4, <2>2, <2>3 DEF Known, Live
  <2>11. CASE Len(channel) < MaxFrames
    <3>1. channel' = Append(channel, f) /\ refused' = refused
      BY <1>3, <1>7, <2>11
    <3>2. InOrder(channel') /\ NumbersIn(channel') = C \cup {n}
      BY <1>5, <1>8, <2>1, <2>4, <2>9, <3>1, NumbersOfAppend
    <3>3. RefusedNow' = R
      BY <2>5, <3>1 DEF RefusedNow
    <3>4. \A x \in L, y \in C \cup {n} : x < y
      BY <2>1, <2>3, <2>4, <2>6, <2>9
    <3>5. /\ K \cap (C \cup {n}) = {} /\ (K \cup C \cup {n}) \cap missed = {}
          /\ (K \cup C \cup {n} \cup missed) \cap R = {}
          /\ K \cup C \cup {n} \cup missed \cup R = 1 .. n
      BY <2>1, <2>2, <2>4, <2>5, <2>7, <2>8, <2>9
    <3>6. Sorted(delivered, push)'
      BY <1>4, <2>1 DEF Sorted, Live
    <3>7. \A v, u \in Workers : refused'[v] # 0 /\ refused'[v] = refused'[u] => v = u
      BY <2>1, <3>1
    <3> QED
      BY <1>3, <1>4, <2>10, <3>2, <3>3, <3>4, <3>5, <3>6, <3>7 DEF Places
  <2>12. CASE ~(Len(channel) < MaxFrames)
    <3>1. refused' = [refused EXCEPT ![w] = n] /\ channel' = channel
      BY <1>3, <2>12
    <3>2. InOrder(channel)' /\ NumbersIn(channel)' = C
      BY <2>1, <2>4, <3>1 DEF InOrder, NumbersIn
    <3>3. \A v \in Workers : refused'[v] = IF v = w THEN n ELSE refused[v]
      BY <1>5, <3>1
    <3>4. RefusedNow' = R \cup {n}
      BY <1>3, <1>6, <2>5, <3>3 DEF RefusedNow
    <3>5. \A v \in Workers : refused[v] # n
      BY <1>6, <2>5, <2>9 DEF RefusedNow
    <3>6. \A v, u \in Workers : refused'[v] # 0 /\ refused'[v] = refused'[u] => v = u
      BY <2>1, <3>3, <3>5
    <3>7. /\ (K \cup C \cup missed) \cap (R \cup {n}) = {}
          /\ K \cup C \cup missed \cup R \cup {n} = 1 .. n
      BY <2>1, <2>2, <2>4, <2>5, <2>7, <2>8, <2>9
    <3>8. K \cap C = {} /\ (K \cup C) \cap missed = {} /\ \A x \in L, y \in C : x < y
      BY <2>1, <2>2, <2>3, <2>4
    <3>9. Sorted(delivered, push)'
      BY <1>4, <2>1 DEF Sorted, Live
    <3> QED
      BY <1>3, <1>4, <2>10, <3>2, <3>4, <3>6, <3>7, <3>8, <3>9 DEF Places
  <2> QED
    BY <2>11, <2>12
<1>13. ASSUME ~push.closed PROVE Owed'
  BY <1>1, <1>4, <1>13 DEF Owed
<1> QED
  BY <1>1, <1>4, <1>10, <1>11, <1>12, <1>13 DEF IInv

LEMMA CountRefusedKeeps ==
  ASSUME IInv, NEW w \in Workers, CountRefused(w)
  PROVE  IInv'
<1>1. /\ Types /\ Queues /\ GoodBuffer(push) /\ (~push.closed => Places /\ Owed)
  BY IInvParts
<1>2. PICK n : n = refused[w]
  OBVIOUS
<1>3. /\ n # 0 /\ missed' = missed \cup {n} /\ refused' = [refused EXCEPT ![w] = 0]
      /\ UNCHANGED <<running, sent, channel, push, commands, waiters, call, answer, late, delivered, owed>>
  BY <1>2 DEF CountRefused, pollerVars
<1>4. /\ refused \in [Workers -> 0 .. MaxSent] /\ n \in 0 .. MaxSent /\ n \in 1 .. MaxSent
  BY <1>1, <1>2, <1>3, LimitsAssumption DEF Types
<1>5. \A v \in Workers : refused'[v] = IF v = w THEN 0 ELSE refused[v]
  BY <1>3, <1>4
<1>6. Types'
  <2>1. refused' \in [Workers -> 0 .. MaxSent]
    BY <1>3, <1>4, LimitsAssumption
  <2> QED
    BY <1>1, <1>3, <1>4, <2>1 DEF Types
<1>7. Queues'
  BY <1>1, <1>3 DEF Queues
<1>8. ASSUME ~push.closed PROVE Places'
  <2>1. /\ Sorted(delivered, push) /\ InOrder(channel)
        /\ \A x \in Live(delivered, push), y \in NumbersIn(channel) : x < y
        /\ \A v, u \in Workers : refused[v] # 0 /\ refused[v] = refused[u] => v = u
        /\ Known(delivered, push) \cap NumbersIn(channel) = {}
        /\ (Known(delivered, push) \cup NumbersIn(channel)) \cap missed = {}
        /\ (Known(delivered, push) \cup NumbersIn(channel) \cup missed) \cap RefusedNow = {}
        /\ Known(delivered, push) \cup NumbersIn(channel) \cup missed \cup RefusedNow = 1 .. sent
    BY <1>1, <1>8 DEF Places
  <2>2. n \in RefusedNow
    BY <1>2, <1>3 DEF RefusedNow
  <2>3. RefusedNow' = RefusedNow \ {n}
    <3>1. RefusedNow' = {refused'[v] : v \in Workers} \ {0}
      BY DEF RefusedNow
    <3>2. \A v \in Workers : refused[v] = n => v = w
      BY <1>2, <1>3, <2>1
    <3> QED
      BY <1>2, <1>3, <1>5, <3>1, <3>2 DEF RefusedNow
  <2>4. PICK K : K = Known(delivered, push) \cup NumbersIn(channel)
    OBVIOUS
  <2>5. /\ (K \cup missed) \cap (RefusedNow \ {n}) = {} /\ K \cap (missed \cup {n}) = {}
        /\ (K \cup (missed \cup {n})) \cap (RefusedNow \ {n}) = {}
        /\ K \cup (missed \cup {n}) \cup (RefusedNow \ {n}) = 1 .. sent
    BY <2>1, <2>2, <2>4
  <2>6. \A v, u \in Workers : refused'[v] # 0 /\ refused'[v] = refused'[u] => v = u
    BY <1>5, <2>1
  <2>7. /\ Known(delivered, push)' = Known(delivered, push) /\ NumbersIn(channel)' = NumbersIn(channel)
        /\ Live(delivered, push)' = Live(delivered, push) /\ Sorted(delivered, push)' /\ InOrder(channel)'
    BY <1>3, <2>1 DEF Known, NumbersIn, Live, Sorted, InOrder
  <2> QED
    BY <1>3, <2>1, <2>3, <2>4, <2>5, <2>6, <2>7 DEF Places
<1>9. ASSUME ~push.closed PROVE Owed'
  BY <1>1, <1>3, <1>9 DEF Owed
<1> QED
  BY <1>1, <1>3, <1>6, <1>7, <1>8, <1>9 DEF IInv

LEMMA PlacesUntouched ==
  ASSUME Places, UNCHANGED <<delivered, push, channel, missed, refused, sent>>
  PROVE  Places'
<1>1. /\ Live(delivered, push)' = Live(delivered, push) /\ Known(delivered, push)' = Known(delivered, push)
      /\ NumbersIn(channel)' = NumbersIn(channel) /\ InOrder(channel)' = InOrder(channel)
      /\ Sorted(delivered, push)' = Sorted(delivered, push) /\ RefusedNow' = RefusedNow
  BY DEF Live, Known, NumbersIn, InOrder, Sorted, RefusedNow
<1> QED
  BY <1>1 DEF Places

LEMMA AskKeeps ==
  ASSUME IInv, NEW p \in Pollers, NEW what \in {"poll", "drain"}, Ask(p, what)
  PROVE  IInv'
<1>1. /\ Types /\ Queues /\ GoodBuffer(push) /\ push \in Buffer /\ (~push.closed => Places /\ Owed)
  BY IInvParts
<1>2. PICK o : o = missed \cup push.dropped
  OBVIOUS
<1>3. /\ call[p] = "idle" /\ commands' = Append(commands, p) /\ call' = [call EXCEPT ![p] = what]
      /\ owed' = [owed EXCEPT ![p] = o] /\ answer' = [answer EXCEPT ![p] = "none"]
      /\ UNCHANGED <<running, sent, refused, channel, missed, push, waiters, late, delivered>>
  BY <1>2 DEF Ask, feedVars
<1>4. /\ commands \in Seq(Pollers) /\ IsInjective(commands)
      /\ ToSet(commands) = {x \in Pollers : call[x] \in {"poll", "drain"}}
      /\ ToSet(waiters) = {x \in Pollers : call[x] = "waiting"}
      /\ call \in [Pollers -> {"idle", "poll", "drain", "waiting"}]
      /\ answer \in [Pollers -> Answers]
      /\ \A x \in Pollers : call[x] # "idle" => answer[x] = "none"
  BY <1>1 DEF Queues
<1>5. o \in SUBSET (1 .. MaxSent)
  BY <1>1, <1>2 DEF Types, Buffer
<1>6. Types'
  BY <1>1, <1>3, <1>5 DEF Types
<1>7. /\ commands' \in Seq(Pollers) /\ ToSet(commands') = ToSet(commands) \cup {p}
  BY <1>3, <1>4, SetOfAppend
<1>8. p \notin ToSet(commands)
  BY <1>3, <1>4
<1>9. IsInjective(commands')
  BY <1>3, <1>4, <1>8, InjectiveAppend
<1>10. /\ call' \in [Pollers -> {"idle", "poll", "drain", "waiting"}]
       /\ answer' \in [Pollers -> Answers]
       /\ \A x \in Pollers : call'[x] = (IF x = p THEN what ELSE call[x])
       /\ \A x \in Pollers : answer'[x] = (IF x = p THEN "none" ELSE answer[x])
  BY <1>3, <1>4 DEF Answers
<1>11. /\ ToSet(commands') = {x \in Pollers : call'[x] \in {"poll", "drain"}}
       /\ ToSet(waiters) = {x \in Pollers : call'[x] = "waiting"}
       /\ \A x \in Pollers : call'[x] # "idle" => answer'[x] = "none"
  BY <1>3, <1>4, <1>7, <1>10
<1>12. Queues'
  BY <1>1, <1>3, <1>7, <1>9, <1>10, <1>11 DEF Queues
<1>13. ASSUME ~push.closed PROVE Places' /\ Owed'
  <2>1. Places'
    BY <1>1, <1>3, <1>13, PlacesUntouched
  <2>2. \A x \in Pollers : /\ owed'[x] \subseteq missed \cup push.dropped
                           /\ call'[x] = "waiting" => owed'[x] \subseteq push.dropped
    <3> SUFFICES ASSUME NEW x \in Pollers
                 PROVE  /\ owed'[x] \subseteq missed \cup push.dropped
                        /\ call'[x] = "waiting" => owed'[x] \subseteq push.dropped
      OBVIOUS
    <3>1. owed'[x] = IF x = p THEN o ELSE owed[x]
      BY <1>1, <1>3 DEF Types
    <3> QED
      BY <1>1, <1>2, <1>10, <1>13, <3>1 DEF Owed
  <2> QED
    BY <1>3, <2>1, <2>2 DEF Owed
<1> QED
  BY <1>1, <1>3, <1>6, <1>12, <1>13 DEF IInv

LEMMA AskInVainKeeps ==
  ASSUME IInv, NEW p \in Pollers, AskInVain(p)
  PROVE  IInv'
<1>1. /\ Types /\ Queues /\ GoodBuffer(push) /\ (~push.closed => Places /\ Owed)
  BY IInvParts
<1>2. PICK r : r = IF running THEN "stopped" ELSE "nothing"
  OBVIOUS
<1>3. /\ call[p] = "idle" /\ answer' = [answer EXCEPT ![p] = r] /\ r \in Answers
      /\ UNCHANGED <<running, sent, refused, channel, missed, push, commands, waiters, call, late,
                     delivered, owed>>
  BY <1>2 DEF AskInVain, feedVars, Answers
<1>4. Types'
  BY <1>1, <1>3 DEF Types
<1>5. answer' \in [Pollers -> Answers] /\ \A x \in Pollers : call[x] # "idle" => answer'[x] = "none"
  BY <1>1, <1>3 DEF Queues
<1>6. Queues'
  BY <1>1, <1>3, <1>5 DEF Queues
<1>7. ASSUME ~push.closed PROVE Places' /\ Owed'
  <2>1. Places'
    BY <1>1, <1>3, <1>7, PlacesUntouched
  <2>2. Owed'
    BY <1>1, <1>3, <1>7 DEF Owed
  <2> QED
    BY <2>1, <2>2
<1> QED
  BY <1>1, <1>3, <1>4, <1>6, <1>7 DEF IInv

LEMMA ElapseKeeps ==
  ASSUME IInv, NEW p \in Pollers, Elapse(p)
  PROVE  IInv'
<1>1. /\ Types /\ Queues /\ GoodBuffer(push) /\ (~push.closed => Places /\ Owed)
  BY IInvParts
<1>2. /\ late' = late \cup {p}
      /\ UNCHANGED <<running, sent, refused, channel, missed, push, commands, waiters, call, answer,
                     delivered, owed>>
  BY DEF Elapse, feedVars
<1>3. Types' /\ Queues'
  BY <1>1, <1>2 DEF Types, Queues
<1>4. ASSUME ~push.closed PROVE Places' /\ Owed'
  <2>1. Places'
    BY <1>1, <1>2, <1>4, PlacesUntouched
  <2>2. Owed'
    BY <1>1, <1>2, <1>4 DEF Owed
  <2> QED
    BY <2>1, <2>2
<1> QED
  BY <1>1, <1>2, <1>3, <1>4 DEF IInv

LEMMA HandleOtherKeeps ==
  ASSUME IInv, HandleOther
  PROVE  IInv'
<1>1. /\ Types /\ Queues /\ GoodBuffer(push) /\ (~push.closed => Places /\ Owed)
  BY IInvParts
<1>2. PICK lost : lost = missed
  OBVIOUS
<1>3. /\ missed' = {} /\ push' = Recorded(push, lost)
      /\ UNCHANGED <<running, sent, refused, channel, commands, waiters, call, answer, late,
                     delivered, owed>>
  BY <1>2 DEF HandleOther, Flushed, pollerVars
<1>4. lost \in SUBSET (1 .. MaxSent)
  BY <1>1, <1>2 DEF Types
<1>5. /\ GoodBuffer(push') /\ push'.frames = push.frames
      /\ push'.closed = push.closed /\ push'.fatal = push.fatal
      /\ push'.dropped = IF push.closed THEN push.dropped ELSE push.dropped \cup lost
  BY <1>1, <1>3, <1>4, RecordKeepsBuffer
<1>6. Types' /\ Queues'
  BY <1>1, <1>3, <1>5 DEF Types, Queues
<1>7. ASSUME ~push.closed PROVE Places' /\ Owed'
  <2>1. push'.dropped = push.dropped \cup missed
    BY <1>2, <1>5, <1>7
  <2>2. /\ Sorted(delivered, push) /\ InOrder(channel)
        /\ \A x \in Live(delivered, push), y \in NumbersIn(channel) : x < y
        /\ \A v, u \in Workers : refused[v] # 0 /\ refused[v] = refused[u] => v = u
        /\ Known(delivered, push) \cap NumbersIn(channel) = {}
        /\ (Known(delivered, push) \cup NumbersIn(channel)) \cap missed = {}
        /\ (Known(delivered, push) \cup NumbersIn(channel) \cup missed) \cap RefusedNow = {}
        /\ Known(delivered, push) \cup NumbersIn(channel) \cup missed \cup RefusedNow = 1 .. sent
    BY <1>1, <1>7 DEF Places
  <2>3. Live(delivered', push') = Live(delivered, push)
    BY <1>3, <1>5 DEF Live
  <2>4. Known(delivered', push') = Known(delivered, push) \cup missed
    BY <2>1, <2>3 DEF Known
  <2>5. Live(delivered, push) \cap push'.dropped = {}
    BY <2>1, <2>2 DEF Sorted, Known
  <2>6. Sorted(delivered', push')
    BY <1>3, <1>5, <2>2, <2>3, <2>5 DEF Sorted
  <2>7. Places'
    BY <1>3, <2>2, <2>3, <2>4, <2>6 DEF Places, InOrder, NumbersIn, RefusedNow
  <2>8. Owed'
    BY <1>1, <1>3, <1>7, <2>1 DEF Owed
  <2> QED
    BY <2>7, <2>8
<1> QED
  BY <1>1, <1>5, <1>6, <1>7 DEF IInv

\* What the core does with the buffer b, when every loss in it is counted.
LEMMA WaitedKeeps ==
  ASSUME IInv, NEW b, Waited(b), b.closed = push.closed,
         UNCHANGED <<running, sent, refused>>,
         channel' \in Seq(Frame), Len(channel') <= MaxFrames,
         missed' \in SUBSET (1 .. MaxSent),
         ~b.closed =>
            /\ push.dropped \subseteq b.dropped /\ missed \subseteq b.dropped \cup missed'
            /\ InOrder(channel') /\ \A x \in Live(delivered, b), y \in NumbersIn(channel') : x < y
            /\ Known(delivered, b) \cap NumbersIn(channel') = {}
            /\ (Known(delivered, b) \cup NumbersIn(channel')) \cap missed' = {}
            /\ Known(delivered, b) \cup NumbersIn(channel') \cup missed'
                  = Known(delivered, push) \cup NumbersIn(channel) \cup missed
  PROVE  IInv'
<1>1. /\ Types /\ Queues /\ GoodBuffer(push) /\ (~push.closed => Places /\ Owed)
  BY IInvParts
<1>2. /\ Queues' /\ GoodBuffer(push')
      /\ push'.dropped = b.dropped /\ push'.closed = b.closed /\ push'.fatal = b.fatal
      /\ delivered' \in Seq(1 .. MaxSent) /\ Rising(delivered')
      /\ ~b.closed => Sorted(delivered', push') /\ Live(delivered', push') = Live(delivered, b)
      /\ late' \in SUBSET Pollers /\ owed' \in [Pollers -> SUBSET (1 .. MaxSent)]
      /\ \A p \in Pollers : /\ owed'[p] \subseteq owed[p]
                            /\ call'[p] = "waiting" => call[p] = "waiting"
  BY DEF Waited
<1>3. Types'
  BY <1>1, <1>2 DEF Types
<1>4. ASSUME ~push.closed PROVE Places'
  <2>1. Known(delivered', push') = Known(delivered, b)
    BY <1>2, <1>4 DEF Known
  <2>2. RefusedNow' = RefusedNow
    BY DEF RefusedNow
  <2>3. /\ \A v, u \in Workers : refused[v] # 0 /\ refused[v] = refused[u] => v = u
        /\ (Known(delivered, push) \cup NumbersIn(channel) \cup missed) \cap RefusedNow = {}
        /\ Known(delivered, push) \cup NumbersIn(channel) \cup missed \cup RefusedNow = 1 .. sent
    BY <1>1, <1>4 DEF Places
  <2>4. PICK K : K = Known(delivered, b) \cup NumbersIn(channel') \cup missed'
    OBVIOUS
  <2>5. K \cap RefusedNow = {} /\ K \cup RefusedNow = 1 .. sent
    BY <1>4, <2>3, <2>4
  <2>6. /\ InOrder(channel') /\ \A x \in Live(delivered', push'), y \in NumbersIn(channel') : x < y
        /\ Known(delivered', push') \cap NumbersIn(channel') = {}
        /\ (Known(delivered', push') \cup NumbersIn(channel')) \cap missed' = {}
        /\ Sorted(delivered', push')
    BY <1>2, <1>4, <2>1
  <2>7. /\ (Known(delivered', push') \cup NumbersIn(channel') \cup missed') \cap RefusedNow = {}
        /\ Known(delivered', push') \cup NumbersIn(channel') \cup missed' \cup RefusedNow = 1 .. sent
    BY <2>1, <2>4, <2>5
  <2>8. /\ Live(delivered', push') = Live(delivered, push)' /\ Known(delivered', push') = Known(delivered, push)'
        /\ NumbersIn(channel') = NumbersIn(channel)' /\ InOrder(channel') = InOrder(channel)'
        /\ Sorted(delivered', push') = Sorted(delivered, push)'
    OBVIOUS
  <2> QED
    BY <2>2, <2>3, <2>6, <2>7, <2>8 DEF Places
<1>5. ASSUME ~push.closed PROVE Owed'
  <2> SUFFICES ASSUME NEW p \in Pollers
               PROVE  /\ owed'[p] \subseteq missed' \cup push'.dropped
                      /\ call'[p] = "waiting" => owed'[p] \subseteq push'.dropped
    BY DEF Owed
  <2>1. /\ owed[p] \subseteq missed \cup push.dropped
        /\ call[p] = "waiting" => owed[p] \subseteq push.dropped
    BY <1>1, <1>5 DEF Owed
  <2>2. owed'[p] \subseteq owed[p] /\ (call'[p] = "waiting" => call[p] = "waiting")
    BY <1>2
  <2>3. push'.dropped = b.dropped
    BY <1>2
  <2>4. push.dropped \subseteq b.dropped /\ missed \subseteq b.dropped \cup missed'
    BY <1>5
  <2> QED
    BY <2>1, <2>2, <2>3, <2>4
<1> QED
  BY <1>1, <1>2, <1>3, <1>4, <1>5 DEF IInv

\* The buffer once the refused frames are counted.
LEMMA FlushedFacts ==
  ASSUME IInv
  PROVE  /\ GoodBuffer(Flushed) /\ Servable(Flushed) /\ Flushed.frames = push.frames
         /\ Flushed.closed = push.closed /\ Flushed.fatal = push.fatal
         /\ push.dropped \subseteq Flushed.dropped /\ Flushed.dropped \in SUBSET (1 .. MaxSent)
         /\ push.closed => Flushed = push
         /\ ~push.closed => /\ Flushed.dropped = push.dropped \cup missed
                            /\ Live(delivered, Flushed) = Live(delivered, push)
                            /\ Known(delivered, Flushed) = Known(delivered, push) \cup missed
<1>1. /\ Types /\ GoodBuffer(push) /\ (~push.closed => Places)
  BY IInvParts
<1>2. PICK lost : lost = missed
  OBVIOUS
<1>3. lost \in SUBSET (1 .. MaxSent)
  BY <1>1, <1>2 DEF Types
<1>4. PICK b : b = Flushed
  OBVIOUS
<1>5. b = Recorded(push, lost)
  BY <1>2, <1>4 DEF Flushed
<1>6. /\ GoodBuffer(b) /\ b.frames = push.frames /\ b.closed = push.closed /\ b.fatal = push.fatal
      /\ b.dropped = (IF push.closed THEN push.dropped ELSE push.dropped \cup lost)
      /\ push.closed => b = push
  BY <1>1, <1>3, <1>5, RecordKeepsBuffer
<1>7. push.dropped \subseteq b.dropped /\ b.dropped \in SUBSET (1 .. MaxSent)
  BY <1>6 DEF GoodBuffer, Buffer
<1>8. ASSUME ~push.closed
      PROVE  /\ b.dropped = push.dropped \cup missed /\ Live(delivered, b) = Live(delivered, push)
             /\ Known(delivered, b) = Known(delivered, push) \cup missed /\ Sorted(delivered, b)
  <2>1. b.dropped = push.dropped \cup missed
    BY <1>2, <1>6, <1>8
  <2>2. Live(delivered, b) = Live(delivered, push)
    BY <1>6 DEF Live
  <2>3. Known(delivered, b) = Known(delivered, push) \cup missed
    BY <2>1, <2>2 DEF Known
  <2>4. Sorted(delivered, push) /\ Known(delivered, push) \cap missed = {}
    BY <1>1, <1>8 DEF Places
  <2>5. Live(delivered, push) \cap (push.dropped \cup missed) = {}
    BY <2>4 DEF Sorted, Known
  <2>6. Sorted(delivered, b)
    BY <1>6, <2>1, <2>2, <2>4, <2>5 DEF Sorted
  <2> QED
    BY <2>1, <2>2, <2>3, <2>6
<1>9. Servable(b)
  BY <1>6, <1>8 DEF Servable
<1> QED
  BY <1>4, <1>6, <1>7, <1>8, <1>9

LEMMA TickWaits ==
  ASSUME IInv, Tick
  PROVE  Waited(Flushed) /\ missed' = {} /\ UNCHANGED <<running, sent, refused, channel, commands>>
<1>1. /\ missed' = {} /\ Become(Fulfilled(Flushed))
      /\ UNCHANGED <<running, sent, refused, channel, commands>>
  BY DEF Tick
<1>2. PICK b : b = Flushed
  OBVIOUS
<1>3. Servable(b) /\ (b.closed => push.closed) /\ Types /\ Queues
  BY <1>2, FlushedFacts, IInvParts
<1>4. Become(Fulfilled(b)) /\ commands' = commands
  BY <1>1, <1>2
<1>5. Waited(b)
  BY <1>3, <1>4, ServingWaiters
<1> QED
  BY <1>1, <1>2, <1>5

LEMMA TickKeeps ==
  ASSUME IInv, Tick
  PROVE  IInv'
<1>1. Waited(Flushed) /\ missed' = {} /\ UNCHANGED <<running, sent, refused, channel, commands>>
  BY TickWaits
<1>2. PICK b : b = Flushed
  OBVIOUS
<1>3. /\ b.closed = push.closed /\ push.dropped \subseteq b.dropped
      /\ ~push.closed => /\ b.dropped = push.dropped \cup missed
                         /\ Live(delivered, b) = Live(delivered, push)
                         /\ Known(delivered, b) = Known(delivered, push) \cup missed
  BY <1>2, FlushedFacts
<1>4. Types /\ (~push.closed => Places)
  BY IInvParts
<1>5. channel' \in Seq(Frame) /\ Len(channel') <= MaxFrames /\ missed' \in SUBSET (1 .. MaxSent)
  BY <1>1, <1>4 DEF Types
<1>6. ~b.closed =>
         /\ push.dropped \subseteq b.dropped /\ missed \subseteq b.dropped \cup missed'
         /\ InOrder(channel') /\ \A x \in Live(delivered, b), y \in NumbersIn(channel') : x < y
         /\ Known(delivered, b) \cap NumbersIn(channel') = {}
         /\ (Known(delivered, b) \cup NumbersIn(channel')) \cap missed' = {}
         /\ Known(delivered, b) \cup NumbersIn(channel') \cup missed'
               = Known(delivered, push) \cup NumbersIn(channel) \cup missed
  <2> SUFFICES ASSUME ~push.closed
               PROVE  /\ push.dropped \subseteq b.dropped /\ missed \subseteq b.dropped \cup missed'
                      /\ InOrder(channel')
                      /\ \A x \in Live(delivered, b), y \in NumbersIn(channel') : x < y
                      /\ Known(delivered, b) \cap NumbersIn(channel') = {}
                      /\ (Known(delivered, b) \cup NumbersIn(channel')) \cap missed' = {}
                      /\ Known(delivered, b) \cup NumbersIn(channel') \cup missed'
                            = Known(delivered, push) \cup NumbersIn(channel) \cup missed
    BY <1>3
  <2>1. /\ InOrder(channel) /\ \A x \in Live(delivered, push), y \in NumbersIn(channel) : x < y
        /\ Known(delivered, push) \cap NumbersIn(channel) = {}
        /\ (Known(delivered, push) \cup NumbersIn(channel)) \cap missed = {}
    BY <1>4 DEF Places
  <2>2. channel' = channel /\ missed' = {}
    BY <1>1
  <2>3. /\ InOrder(channel') /\ NumbersIn(channel') = NumbersIn(channel)
    BY <2>1, <2>2
  <2> QED
    BY <1>3, <2>1, <2>2, <2>3
<1>7. Waited(b) /\ UNCHANGED <<running, sent, refused>>
  BY <1>1, <1>2
<1> QED
  BY <1>3, <1>5, <1>6, <1>7, WaitedKeeps

\* What is in the buffer when a frame came out of the channel.
LEMMA OfferedFacts ==
  ASSUME IInv, channel # <<>>
  PROVE  LET b == Offered(push, Head(channel))
         IN  /\ Servable(b) /\ b.closed = push.closed /\ push.dropped \subseteq b.dropped
             /\ push.closed => b = push
             /\ ~push.closed =>
                   /\ Known(delivered, b) = Known(delivered, push) \cup {Head(channel).number}
                   /\ Live(delivered, b) \subseteq Live(delivered, push) \cup {Head(channel).number}
<1>1. /\ Types /\ GoodBuffer(push) /\ (~push.closed => Places)
  BY IInvParts
<1>2. PICK f : f = Head(channel)
  OBVIOUS
<1>3. PICK b : b = Offered(push, f)
  OBVIOUS
<1>4. channel \in Seq(Frame) /\ f \in Frame
  BY <1>1, <1>2 DEF Types
<1>5. CASE push.closed
  <2>1. b = push
    BY <1>3, <1>5 DEF Offered
  <2> QED
    BY <1>1, <1>2, <1>3, <1>5, <2>1 DEF Servable
<1>6. CASE ~push.closed
  <2>1. /\ Sorted(delivered, push) /\ InOrder(channel)
        /\ \A x \in Live(delivered, push), y \in NumbersIn(channel) : x < y
        /\ Known(delivered, push) \cap NumbersIn(channel) = {}
    BY <1>1, <1>6 DEF Places
  <2>2. NumbersIn(channel) = NumbersIn(Tail(channel)) \cup {f.number}
    BY <1>2, <1>4, <2>1, NumbersOfTail
  <2>3. f.number \in NumbersIn(channel)
    BY <2>2
  <2>4. /\ InOrder(push.frames) /\ \A x \in ToSet(delivered), y \in NumbersIn(push.frames) : x < y
        /\ Rising(delivered) /\ (ToSet(delivered) \cup NumbersIn(push.frames)) \cap push.dropped = {}
    BY <2>1 DEF Sorted, Live
  <2>5. /\ \A x \in NumbersIn(push.frames) : x < f.number
        /\ \A x \in ToSet(delivered) : x < f.number
        /\ f.number \notin push.dropped /\ f.number \notin NumbersIn(push.frames)
        /\ f.number \notin ToSet(delivered)
        /\ NumbersIn(push.frames) \cap push.dropped = {}
    BY <2>1, <2>3, <2>4 DEF Live, Known
  <2>6. /\ GoodBuffer(b) /\ ~b.closed /\ push.dropped \subseteq b.dropped
        /\ InOrder(b.frames) /\ NumbersIn(b.frames) \cap b.dropped = {}
        /\ NumbersIn(b.frames) \cup b.dropped
              = NumbersIn(push.frames) \cup push.dropped \cup {f.number}
    BY <1>1, <1>3, <1>4, <1>6, <2>4, <2>5, OfferKeepsBuffer
  <2>7. NumbersIn(b.frames) \subseteq NumbersIn(push.frames) \cup {f.number}
    BY <2>6
  <2>8. \A x \in ToSet(delivered) : x \notin NumbersIn(push.frames)
    <3>1. delivered \in Seq(1 .. MaxSent)
      BY <1>1 DEF Types
    <3>2. \A i \in DOMAIN delivered : delivered[i] \in 1 .. MaxSent
      <4>1. PICK N : N = 1 .. MaxSent
        OBVIOUS
      <4>2. delivered \in Seq(N)
        BY <3>1, <4>1
      <4>3. \A i \in DOMAIN delivered : delivered[i] \in N
        BY <4>2
      <4> QED
        BY <4>1, <4>3
    <3>3. \A x \in ToSet(delivered) : x \in 1 .. MaxSent
      BY <3>2 DEF ToSet
    <3>4. \A x \in 1 .. MaxSent : x \in Nat
      OBVIOUS
    <3> QED
      BY <2>4, <3>3, <3>4
  <2>9. ToSet(delivered) \cap b.dropped = {}
    BY <2>4, <2>5, <2>6, <2>8
  <2>10. \A x \in ToSet(delivered), y \in NumbersIn(b.frames) : x < y
    BY <2>4, <2>5, <2>7
  <2>11. Sorted(delivered, b)
    BY <2>4, <2>6, <2>9, <2>10 DEF Sorted, Live
  <2>12. /\ Known(delivered, b) = Known(delivered, push) \cup {f.number}
         /\ Live(delivered, b) \subseteq Live(delivered, push) \cup {f.number}
    BY <2>6, <2>7 DEF Known, Live
  <2>13. b.closed = push.closed
    BY <1>1, <1>6, <2>6 DEF GoodBuffer, Buffer
  <2> QED
    BY <1>2, <1>3, <1>6, <2>6, <2>11, <2>12, <2>13 DEF Servable
<1> QED
  BY <1>5, <1>6

LEMMA TakeFrameWaits ==
  ASSUME IInv, TakeFrame
  PROVE  /\ channel # <<>> /\ Waited(Offered(push, Head(channel))) /\ channel' = Tail(channel)
         /\ UNCHANGED <<running, sent, refused, missed, commands>>
<1>1. /\ channel # <<>> /\ channel' = Tail(channel)
      /\ Become(Fulfilled(Offered(push, Head(channel))))
      /\ UNCHANGED <<running, sent, refused, missed, commands>>
  BY DEF TakeFrame
<1>2. PICK b : b = Offered(push, Head(channel))
  OBVIOUS
<1>3. Servable(b) /\ (b.closed => push.closed) /\ Types /\ Queues
  BY <1>1, <1>2, OfferedFacts, IInvParts
<1>4. Become(Fulfilled(b)) /\ commands' = commands
  BY <1>1, <1>2
<1>5. Waited(b)
  BY <1>3, <1>4, ServingWaiters
<1> QED
  BY <1>1, <1>2, <1>5

LEMMA TakeFrameKeeps ==
  ASSUME IInv, TakeFrame
  PROVE  IInv'
<1>1. /\ channel # <<>> /\ Waited(Offered(push, Head(channel))) /\ channel' = Tail(channel)
      /\ UNCHANGED <<running, sent, refused, missed, commands>>
  BY TakeFrameWaits
<1>2. PICK b : b = Offered(push, Head(channel))
  OBVIOUS
<1>3. PICK n : n = Head(channel).number
  OBVIOUS
<1>4. /\ b.closed = push.closed /\ push.dropped \subseteq b.dropped
      /\ ~push.closed => /\ Known(delivered, b) = Known(delivered, push) \cup {n}
                         /\ Live(delivered, b) \subseteq Live(delivered, push) \cup {n}
  BY <1>1, <1>2, <1>3, OfferedFacts
<1>5. Types /\ (~push.closed => Places)
  BY IInvParts
<1>6. channel \in Seq(Frame) /\ Len(channel) <= MaxFrames /\ missed \in SUBSET (1 .. MaxSent)
  BY <1>5 DEF Types
<1>7. channel' \in Seq(Frame) /\ Len(channel') <= MaxFrames /\ missed' \in SUBSET (1 .. MaxSent)
  <2>1. Tail(channel) \in Seq(Frame) /\ Len(Tail(channel)) = Len(channel) - 1 /\ Len(channel) \in Nat
    BY <1>1, <1>6
  <2> QED
    BY <1>1, <1>6, <2>1, LimitsAssumption
<1>8. ~b.closed =>
         /\ push.dropped \subseteq b.dropped /\ missed \subseteq b.dropped \cup missed'
         /\ InOrder(channel') /\ \A x \in Live(delivered, b), y \in NumbersIn(channel') : x < y
         /\ Known(delivered, b) \cap NumbersIn(channel') = {}
         /\ (Known(delivered, b) \cup NumbersIn(channel')) \cap missed' = {}
         /\ Known(delivered, b) \cup NumbersIn(channel') \cup missed'
               = Known(delivered, push) \cup NumbersIn(channel) \cup missed
  <2> SUFFICES ASSUME ~push.closed
               PROVE  /\ push.dropped \subseteq b.dropped /\ missed \subseteq b.dropped \cup missed'
                      /\ InOrder(channel')
                      /\ \A x \in Live(delivered, b), y \in NumbersIn(channel') : x < y
                      /\ Known(delivered, b) \cap NumbersIn(channel') = {}
                      /\ (Known(delivered, b) \cup NumbersIn(channel')) \cap missed' = {}
                      /\ Known(delivered, b) \cup NumbersIn(channel') \cup missed'
                            = Known(delivered, push) \cup NumbersIn(channel) \cup missed
    BY <1>4
  <2>1. /\ InOrder(channel) /\ \A x \in Live(delivered, push), y \in NumbersIn(channel) : x < y
        /\ Known(delivered, push) \cap NumbersIn(channel) = {}
        /\ (Known(delivered, push) \cup NumbersIn(channel)) \cap missed = {}
    BY <1>5 DEF Places
  <2>2. PICK q : q = channel'
    OBVIOUS
  <2>3. PICK C : C = NumbersIn(q)
    OBVIOUS
  <2>4. InOrder(q) /\ NumbersIn(channel) = C \cup {n} /\ \A y \in C : n < y
    BY <1>1, <1>3, <1>6, <2>1, <2>2, <2>3, NumbersOfTail
  <2>5. C \subseteq 1 .. MaxSent /\ n \in 1 .. MaxSent
    <3>1. NumbersIn(channel) \subseteq 1 .. MaxSent
      BY <1>6, FrameNumbers
    <3> QED
      BY <2>4, <3>1
  <2>6. n \notin C
    BY <2>4, <2>5
  <2>7. \A x \in Live(delivered, b), y \in C : x < y
    BY <1>4, <2>1, <2>4
  <2>8. /\ Known(delivered, b) \cap C = {} /\ (Known(delivered, b) \cup C) \cap missed = {}
        /\ Known(delivered, b) \cup C \cup missed
              = Known(delivered, push) \cup NumbersIn(channel) \cup missed
    BY <1>4, <2>1, <2>4, <2>6
  <2>9. missed' = missed
    BY <1>1
  <2> QED
    BY <1>4, <2>2, <2>3, <2>4, <2>7, <2>8, <2>9
<1>9. Waited(b) /\ UNCHANGED <<running, sent, refused>>
  BY <1>1, <1>2
<1> QED
  BY <1>4, <1>7, <1>8, <1>9, WaitedKeeps

\* What leaves the command channel: the poller p, whose call ends or goes on to wait.
LEMMA NextCommand ==
  ASSUME Queues, commands # <<>>
  PROVE  /\ Head(commands) \in Pollers /\ call[Head(commands)] \in {"poll", "drain"}
         /\ Tail(commands) \in Seq(Pollers) /\ IsInjective(Tail(commands))
         /\ ToSet(Tail(commands)) = ToSet(commands) \ {Head(commands)}
<1>1. /\ commands \in Seq(Pollers) /\ IsInjective(commands)
      /\ ToSet(commands) = {p \in Pollers : call[p] \in {"poll", "drain"}}
  BY DEF Queues
<1>2. /\ Tail(commands) \in Seq(Pollers) /\ IsInjective(Tail(commands))
      /\ ToSet(Tail(commands)) = ToSet(commands) \ {Head(commands)} /\ Head(commands) \in ToSet(commands)
  BY <1>1, InjectiveTail
<1> QED
  BY <1>1, <1>2

\* The command of the poller p is answered with r, and the buffer is c from now on.
LEMMA CommandAnswered ==
  ASSUME IInv, NEW p, NEW r \in Answers, NEW c, commands # <<>>, p = Head(commands),
         GoodBuffer(c), c.closed = push.closed, push.frames = <<>> => c.frames = <<>>,
         ~push.closed => c.dropped = push.dropped \cup missed,
         UNCHANGED <<running, sent, refused, channel, waiters>>, missed' = {},
         commands' = Tail(commands), push' = c,
         call' = [call EXCEPT ![p] = "idle"], answer' = [answer EXCEPT ![p] = r], EndCalls,
         delivered' \in Seq(1 .. MaxSent), Rising(delivered'),
         ~push.closed => Sorted(delivered', c) /\ Live(delivered', c) = Live(delivered, push)
  PROVE  IInv'
<1>1. /\ Types /\ Queues /\ GoodBuffer(push) /\ (~push.closed => Places /\ Owed)
  BY IInvParts
<1>2. /\ p \in Pollers /\ call[p] \in {"poll", "drain"}
      /\ commands' \in Seq(Pollers) /\ IsInjective(commands')
      /\ ToSet(commands') = ToSet(commands) \ {p}
  BY <1>1, NextCommand
<1>3. /\ late' \in SUBSET Pollers /\ owed' \in [Pollers -> SUBSET (1 .. MaxSent)]
      /\ \A x \in Pollers : owed'[x] \subseteq owed[x]
  BY <1>1, EndOfCalls
<1>4. Types'
  BY <1>1, <1>3 DEF Types
<1>5. /\ ToSet(commands) = {x \in Pollers : call[x] \in {"poll", "drain"}}
      /\ ToSet(waiters) = {x \in Pollers : call[x] = "waiting"}
      /\ call \in [Pollers -> {"idle", "poll", "drain", "waiting"}]
      /\ answer \in [Pollers -> Answers]
      /\ \A x \in Pollers : call[x] # "idle" => answer[x] = "none"
      /\ waiters # <<>> => push.frames = <<>>
      /\ push.closed => waiters = <<>>
  BY <1>1 DEF Queues
<1>6. /\ call' \in [Pollers -> {"idle", "poll", "drain", "waiting"}]
      /\ answer' \in [Pollers -> Answers]
      /\ \A x \in Pollers : call'[x] = (IF x = p THEN "idle" ELSE call[x])
      /\ \A x \in Pollers : answer'[x] = (IF x = p THEN r ELSE answer[x])
  BY <1>5 DEF Answers
<1>7. /\ ToSet(commands') = {x \in Pollers : call'[x] \in {"poll", "drain"}}
      /\ ToSet(waiters) = {x \in Pollers : call'[x] = "waiting"}
      /\ \A x \in Pollers : call'[x] # "idle" => answer'[x] = "none"
  BY <1>2, <1>5, <1>6
<1>8. waiters # <<>> => c.frames = <<>>
  BY <1>5
<1>9. Queues'
  BY <1>1, <1>2, <1>5, <1>6, <1>7, <1>8 DEF Queues
<1>10. ASSUME ~push.closed PROVE Places'
  <2>1. /\ InOrder(channel)
        /\ \A x \in Live(delivered, push), y \in NumbersIn(channel) : x < y
        /\ \A v, u \in Workers : refused[v] # 0 /\ refused[v] = refused[u] => v = u
        /\ Known(delivered, push) \cap NumbersIn(channel) = {}
        /\ (Known(delivered, push) \cup NumbersIn(channel)) \cap missed = {}
        /\ (Known(delivered, push) \cup NumbersIn(channel) \cup missed) \cap RefusedNow = {}
        /\ Known(delivered, push) \cup NumbersIn(channel) \cup missed \cup RefusedNow = 1 .. sent
    BY <1>1, <1>10 DEF Places
  <2>2. PICK s : s = delivered'
    OBVIOUS
  <2>3. Sorted(s, c) /\ Live(s, c) = Live(delivered, push) /\ c.dropped = push.dropped \cup missed
    BY <1>10, <2>2
  <2>4. Known(s, c) = Known(delivered, push) \cup missed
    BY <2>3 DEF Known
  <2>5. /\ Known(s, c) \cap NumbersIn(channel) = {}
        /\ (Known(s, c) \cup NumbersIn(channel)) \cap {} = {}
        /\ (Known(s, c) \cup NumbersIn(channel) \cup {}) \cap RefusedNow = {}
        /\ Known(s, c) \cup NumbersIn(channel) \cup {} \cup RefusedNow = 1 .. sent
    BY <2>1, <2>4
  <2>6. /\ NumbersIn(channel)' = NumbersIn(channel) /\ InOrder(channel)' = InOrder(channel)
        /\ RefusedNow' = RefusedNow
    BY DEF NumbersIn, InOrder, RefusedNow
  <2>7. /\ Known(delivered, push)' = Known(s, c) /\ Live(delivered, push)' = Live(s, c)
        /\ Sorted(delivered, push)' = Sorted(s, c)
    BY <2>2
  <2> QED
    BY <2>1, <2>3, <2>5, <2>6, <2>7 DEF Places
<1>11. ASSUME ~push.closed PROVE Owed'
  <2> SUFFICES ASSUME NEW x \in Pollers
               PROVE  /\ owed'[x] \subseteq missed' \cup push'.dropped
                      /\ call'[x] = "waiting" => owed'[x] \subseteq push'.dropped
    BY DEF Owed
  <2>1. owed[x] \subseteq missed \cup push.dropped
    BY <1>1, <1>11 DEF Owed
  <2>2. owed'[x] \subseteq owed[x]
    BY <1>3
  <2>3. push'.dropped = push.dropped \cup missed
    BY <1>11
  <2> QED
    BY <2>1, <2>2, <2>3
<1> QED
  BY <1>1, <1>4, <1>9, <1>10, <1>11 DEF IInv

\* The three ways a poll command ends in the core.
LEMMA HandlePollCases ==
  ASSUME Queues, HandlePoll, NEW p, p = Head(commands)
  PROVE  /\ running /\ commands # <<>> /\ call[p] = "poll" /\ missed' = {}
         /\ commands' = Tail(commands) /\ UNCHANGED <<running, sent, refused, channel>> /\ EndCalls
         /\ \/ /\ push' = AfterPoll(Flushed) /\ waiters' = waiters
               /\ call' = [call EXCEPT ![p] = "idle"]
               /\ answer' = [answer EXCEPT ![p] = PollAnswer(Flushed)]
               /\ delivered' = Given(delivered, Flushed)
            \/ /\ push' = Flushed /\ delivered' = delivered /\ waiters' = waiters
               /\ PollAnswer(Flushed) = "nothing" /\ ~push.closed
               /\ call' = [call EXCEPT ![p] = "idle"] /\ answer' = [answer EXCEPT ![p] = "busy"]
            \/ /\ push' = Flushed /\ delivered' = delivered /\ Len(waiters) < MaxWaiters
               /\ PollAnswer(Flushed) = "nothing" /\ ~push.closed
               /\ call' = [call EXCEPT ![p] = "waiting"] /\ answer' = answer
               /\ waiters' = Append(waiters, p)
<1>1. PICK nothing \in BOOLEAN : nothing = (PollAnswer(Flushed) = "nothing" /\ p \notin late /\ ~push.closed)
  OBVIOUS
<1>2. /\ running /\ commands # <<>> /\ call[p] = "poll" /\ missed' = {}
      /\ commands' = Tail(commands) /\ UNCHANGED <<running, sent, refused, channel>>
      /\ IF ~nothing
         THEN Become(Replied([Desk(Flushed) EXCEPT !.waiters = waiters], p))
         ELSE /\ push' = Flushed /\ UNCHANGED delivered
              /\ IF Len(waiters) >= MaxWaiters
                 THEN /\ call' = [call EXCEPT ![p] = "idle"]
                      /\ answer' = [answer EXCEPT ![p] = "busy"]
                      /\ UNCHANGED waiters
                 ELSE /\ call' = [call EXCEPT ![p] = "waiting"]
                      /\ waiters' = Append(waiters, p)
                      /\ UNCHANGED answer
              /\ EndCalls
  BY <1>1 DEF HandlePoll
<1>3. CASE ~nothing
  <2>1. PICK d : d = [Desk(Flushed) EXCEPT !.waiters = waiters]
    OBVIOUS
  <2>2. /\ d.push = Flushed /\ d.waiters = waiters /\ d.call = call /\ d.answer = answer
        /\ d.delivered = delivered
    BY <2>1 DEF Desk
  <2>3. PICK e : e = Replied(d, p)
    OBVIOUS
  <2>4. /\ e.push = AfterPoll(Flushed) /\ e.waiters = waiters /\ e.call = [call EXCEPT ![p] = "idle"]
        /\ e.answer = [answer EXCEPT ![p] = PollAnswer(Flushed)]
        /\ e.delivered = Given(delivered, Flushed)
    BY <2>2, <2>3 DEF Replied, Given
  <2>5. Become(e)
    BY <1>2, <1>3, <2>1, <2>3
  <2> QED
    BY <1>2, <2>4, <2>5 DEF Become
<1>4. CASE nothing /\ Len(waiters) >= MaxWaiters
  BY <1>1, <1>2, <1>4
<1>5. CASE nothing /\ ~(Len(waiters) >= MaxWaiters)
  <2>1. Len(waiters) < MaxWaiters
    BY <1>5, LimitsAssumption DEF Queues
  <2> QED
    BY <1>1, <1>2, <1>5, <2>1
<1> QED
  BY <1>3, <1>4, <1>5

LEMMA HandlePollKeeps ==
  ASSUME IInv, HandlePoll
  PROVE  IInv'
<1>1. /\ Types /\ Queues /\ GoodBuffer(push) /\ (~push.closed => Places /\ Owed)
  BY IInvParts
<1>2. PICK p : p = Head(commands)
  OBVIOUS
<1>3. PICK b : b = Flushed
  OBVIOUS
<1>4. /\ commands # <<>> /\ call[p] = "poll" /\ missed' = {} /\ commands' = Tail(commands)
      /\ UNCHANGED <<running, sent, refused, channel>> /\ EndCalls
      /\ \/ /\ push' = AfterPoll(b) /\ waiters' = waiters
            /\ call' = [call EXCEPT ![p] = "idle"]
            /\ answer' = [answer EXCEPT ![p] = PollAnswer(b)]
            /\ delivered' = Given(delivered, b)
         \/ /\ push' = b /\ delivered' = delivered /\ waiters' = waiters
            /\ PollAnswer(b) = "nothing" /\ ~push.closed
            /\ call' = [call EXCEPT ![p] = "idle"] /\ answer' = [answer EXCEPT ![p] = "busy"]
         \/ /\ push' = b /\ delivered' = delivered /\ Len(waiters) < MaxWaiters
            /\ PollAnswer(b) = "nothing" /\ ~push.closed
            /\ call' = [call EXCEPT ![p] = "waiting"] /\ answer' = answer
            /\ waiters' = Append(waiters, p)
  BY <1>1, <1>2, <1>3, HandlePollCases
<1>5. /\ GoodBuffer(b) /\ Servable(b) /\ b.frames = push.frames /\ b.closed = push.closed
      /\ ~push.closed => b.dropped = push.dropped \cup missed /\ Live(delivered, b) = Live(delivered, push)
  BY <1>3, FlushedFacts
<1>6. ~push.closed => Sorted(delivered, b)
  BY <1>5 DEF Servable
<1>7. /\ delivered \in Seq(1 .. MaxSent) /\ Rising(delivered)
  BY <1>1 DEF Types
<1>8. CASE /\ push' = AfterPoll(b) /\ waiters' = waiters
           /\ call' = [call EXCEPT ![p] = "idle"]
           /\ answer' = [answer EXCEPT ![p] = PollAnswer(b)]
           /\ delivered' = Given(delivered, b)
  <2>1. PICK c : c = AfterPoll(b)
    OBVIOUS
  <2>2. PICK r : r = PollAnswer(b)
    OBVIOUS
  <2>3. r \in Answers
    BY <1>5, <2>2, PollAnswers DEF Told, Answers
  <2>4. /\ GoodBuffer(c) /\ c.dropped = b.dropped /\ c.closed = b.closed
    BY <1>5, <2>1, PollKeepsBuffer
  <2>5. push.frames = <<>> => c.frames = <<>>
    <3>1. b.frames = <<>> => c.frames = <<>>
      BY <1>5, <2>1, PollAnswers, PollCases DEF GoodBuffer, Buffer
    <3> QED
      BY <1>5, <3>1
  <2>6. /\ Given(delivered, b) \in Seq(1 .. MaxSent) /\ Rising(Given(delivered, b))
        /\ ~b.closed => /\ Sorted(Given(delivered, b), c)
                        /\ Live(Given(delivered, b), c) = Live(delivered, b)
    BY <1>5, <1>6, <1>7, <2>1, PollKeepsOrder
  <2>7. /\ delivered' \in Seq(1 .. MaxSent) /\ Rising(delivered')
        /\ ~push.closed => Sorted(delivered', c) /\ Live(delivered', c) = Live(delivered, push)
    BY <1>5, <1>8, <2>6
  <2>8. /\ c.closed = push.closed /\ (~push.closed => c.dropped = push.dropped \cup missed)
    BY <1>5, <2>4
  <2>9. /\ push' = c /\ answer' = [answer EXCEPT ![p] = r]
        /\ call' = [call EXCEPT ![p] = "idle"]
        /\ UNCHANGED <<running, sent, refused, channel, waiters>>
    BY <1>4, <1>8, <2>1, <2>2
  <2> QED
    BY <1>2, <1>4, <2>3, <2>4, <2>5, <2>7, <2>8, <2>9, CommandAnswered
<1>9. CASE /\ push' = b /\ delivered' = delivered /\ waiters' = waiters
           /\ PollAnswer(b) = "nothing" /\ ~push.closed
           /\ call' = [call EXCEPT ![p] = "idle"] /\ answer' = [answer EXCEPT ![p] = "busy"]
  <2>1. PICK r : r = "busy"
    OBVIOUS
  <2>2. r \in Answers
    BY <2>1 DEF Answers
  <2>3. /\ push' = b /\ answer' = [answer EXCEPT ![p] = r]
        /\ call' = [call EXCEPT ![p] = "idle"]
        /\ UNCHANGED <<running, sent, refused, channel, waiters>>
    BY <1>4, <1>9, <2>1
  <2>4. /\ delivered' \in Seq(1 .. MaxSent) /\ Rising(delivered')
        /\ ~push.closed => Sorted(delivered', b) /\ Live(delivered', b) = Live(delivered, push)
    BY <1>5, <1>6, <1>7, <1>9
  <2>5. /\ b.closed = push.closed /\ (push.frames = <<>> => b.frames = <<>>)
        /\ ~push.closed => b.dropped = push.dropped \cup missed
    BY <1>5
  <2> QED
    BY <1>2, <1>4, <1>5, <2>2, <2>3, <2>4, <2>5, CommandAnswered
<1>10. CASE /\ push' = b /\ delivered' = delivered /\ Len(waiters) < MaxWaiters
            /\ PollAnswer(b) = "nothing" /\ ~push.closed
            /\ call' = [call EXCEPT ![p] = "waiting"] /\ answer' = answer
            /\ waiters' = Append(waiters, p)
  <2>1. /\ p \in Pollers /\ commands' \in Seq(Pollers) /\ IsInjective(commands')
        /\ ToSet(commands') = ToSet(commands) \ {p}
    BY <1>1, <1>2, <1>4, NextCommand
  <2>2. /\ late' \in SUBSET Pollers /\ owed' \in [Pollers -> SUBSET (1 .. MaxSent)]
        /\ \A x \in Pollers : owed'[x] \subseteq owed[x]
    BY <1>1, <1>4, EndOfCalls
  <2>3. Types'
    BY <1>1, <1>4, <1>10, <2>2 DEF Types
  <2>4. /\ ToSet(commands) = {x \in Pollers : call[x] \in {"poll", "drain"}}
        /\ ToSet(waiters) = {x \in Pollers : call[x] = "waiting"}
        /\ call \in [Pollers -> {"idle", "poll", "drain", "waiting"}]
        /\ waiters \in Seq(Pollers) /\ IsInjective(waiters)
        /\ \A x \in Pollers : call[x] # "idle" => answer[x] = "none"
    BY <1>1 DEF Queues
  <2>5. p \notin ToSet(waiters)
    BY <1>4, <2>4
  <2>6. /\ waiters' \in Seq(Pollers) /\ ToSet(waiters') = ToSet(waiters) \cup {p}
        /\ Len(waiters') = Len(waiters) + 1 /\ Len(waiters) \in Nat
    BY <1>10, <2>1, <2>4, SetOfAppend
  <2>7. IsInjective(waiters')
    BY <1>10, <2>1, <2>4, <2>5, InjectiveAppend
  <2>8. Len(waiters') <= MaxWaiters
    BY <1>10, <2>6, LimitsAssumption
  <2>9. /\ call' \in [Pollers -> {"idle", "poll", "drain", "waiting"}]
        /\ \A x \in Pollers : call'[x] = (IF x = p THEN "waiting" ELSE call[x])
    BY <1>10, <2>4
  <2>10. /\ ToSet(commands') = {x \in Pollers : call'[x] \in {"poll", "drain"}}
         /\ ToSet(waiters') = {x \in Pollers : call'[x] = "waiting"}
         /\ \A x \in Pollers : call'[x] # "idle" => answer'[x] = "none"
    BY <1>4, <1>10, <2>1, <2>4, <2>6, <2>9
  <2>11. push'.frames = <<>> /\ ~push'.closed
    BY <1>5, <1>10, PollAnswers
  <2>12. Queues'
    BY <1>1, <1>10, <2>1, <2>6, <2>7, <2>8, <2>9, <2>10, <2>11 DEF Queues
  <2>13. Places'
    <3>1. /\ InOrder(channel)
          /\ \A x \in Live(delivered, push), y \in NumbersIn(channel) : x < y
          /\ \A v, u \in Workers : refused[v] # 0 /\ refused[v] = refused[u] => v = u
          /\ Known(delivered, push) \cap NumbersIn(channel) = {}
          /\ (Known(delivered, push) \cup NumbersIn(channel)) \cap missed = {}
          /\ (Known(delivered, push) \cup NumbersIn(channel) \cup missed) \cap RefusedNow = {}
          /\ Known(delivered, push) \cup NumbersIn(channel) \cup missed \cup RefusedNow = 1 .. sent
      BY <1>1, <1>10 DEF Places
    <3>2. Known(delivered, b) = Known(delivered, push) \cup missed
      BY <1>5, <1>10 DEF Known
    <3>3. /\ Known(delivered, b) \cap NumbersIn(channel) = {}
          /\ (Known(delivered, b) \cup NumbersIn(channel)) \cap {} = {}
          /\ (Known(delivered, b) \cup NumbersIn(channel) \cup {}) \cap RefusedNow = {}
          /\ Known(delivered, b) \cup NumbersIn(channel) \cup {} \cup RefusedNow = 1 .. sent
      BY <3>1, <3>2
    <3>4. /\ NumbersIn(channel)' = NumbersIn(channel) /\ InOrder(channel)' = InOrder(channel)
          /\ RefusedNow' = RefusedNow
      BY <1>4 DEF NumbersIn, InOrder, RefusedNow
    <3>5. /\ Known(delivered, push)' = Known(delivered, b) /\ Live(delivered, push)' = Live(delivered, b)
          /\ Sorted(delivered, push)' = Sorted(delivered, b)
      BY <1>10
    <3> QED
      BY <1>4, <1>5, <1>6, <1>10, <3>1, <3>3, <3>4, <3>5 DEF Places
  <2>14. Owed'
    <3> SUFFICES ASSUME NEW x \in Pollers
                 PROVE  /\ owed'[x] \subseteq missed' \cup push'.dropped
                        /\ call'[x] = "waiting" => owed'[x] \subseteq push'.dropped
      BY DEF Owed
    <3>1. owed[x] \subseteq missed \cup push.dropped
      BY <1>1, <1>10 DEF Owed
    <3>2. push'.dropped = push.dropped \cup missed
      BY <1>5, <1>10
    <3> QED
      BY <2>2, <3>1, <3>2
  <2>15. GoodBuffer(push')
    BY <1>5, <1>10
  <2> QED
    BY <2>3, <2>12, <2>13, <2>14, <2>15 DEF IInv
<1> QED
  BY <1>4, <1>8, <1>9, <1>10

LEMMA HandleDrainKeeps ==
  ASSUME IInv, HandleDrain
  PROVE  IInv'
<1>1. /\ Types /\ Queues /\ GoodBuffer(push) /\ (~push.closed => Places /\ Owed)
  BY IInvParts
<1>2. PICK p : p = Head(commands)
  OBVIOUS
<1>3. PICK b : b = Flushed
  OBVIOUS
<1>4. PICK r : r = PollAnswer(b)
  OBVIOUS
<1>5. PICK c : c = IF r \in {"frame", "nothing"} THEN [b EXCEPT !.frames = <<>>, !.bytes = 0]
                                                 ELSE AfterPoll(b)
  OBVIOUS
<1>6. /\ commands # <<>> /\ missed' = {} /\ commands' = Tail(commands)
      /\ UNCHANGED <<running, sent, refused, channel, waiters>> /\ EndCalls
      /\ call' = [call EXCEPT ![p] = "idle"] /\ answer' = [answer EXCEPT ![p] = r] /\ push' = c
      /\ delivered' = IF r \in {"frame", "nothing"} THEN delivered \o Numbers(push.frames) ELSE delivered
  BY <1>2, <1>3, <1>4, <1>5 DEF HandleDrain
<1>7. /\ GoodBuffer(b) /\ Servable(b) /\ b.frames = push.frames /\ b.closed = push.closed
      /\ ~push.closed => b.dropped = push.dropped \cup missed /\ Live(delivered, b) = Live(delivered, push)
  BY <1>3, FlushedFacts
<1>8. ~push.closed => Sorted(delivered, b)
  BY <1>7 DEF Servable
<1>9. /\ delivered \in Seq(1 .. MaxSent) /\ Rising(delivered) /\ push.frames \in Seq(Frame)
  BY <1>1 DEF Types, GoodBuffer, Buffer
<1>10. r \in Answers
  BY <1>4, <1>7, PollAnswers DEF Told, Answers
<1>11. CASE r \in {"frame", "nothing"}
  <2>1. c = [b EXCEPT !.frames = <<>>, !.bytes = 0]
    BY <1>5, <1>11
  <2>2. /\ GoodBuffer(c) /\ c.frames = <<>> /\ c.dropped = b.dropped /\ c.closed = b.closed
    BY <1>7, <2>1, DrainKeepsBuffer
  <2>3. PICK s : s = delivered \o Numbers(push.frames)
    OBVIOUS
  <2>4. delivered' = s
    BY <1>6, <1>11, <2>3
  <2>5. CASE push.closed
    <3>1. push.frames = <<>>
      BY <1>1, <2>5 DEF GoodBuffer
    <3>2. Len(Numbers(push.frames)) = 0 /\ Numbers(push.frames) \in Seq(1 .. MaxSent)
      <4>1. Len(push.frames) = 0
        BY <3>1
      <4> QED
        BY <1>9, <4>1, FrameNumbers
    <3>3. Numbers(push.frames) = <<>>
      BY <3>2
    <3>4. s = delivered
      BY <1>9, <2>3, <3>3, ConcatEmptySeq
    <3>5. /\ delivered' \in Seq(1 .. MaxSent) /\ Rising(delivered')
          /\ ~push.closed => Sorted(delivered', c) /\ Live(delivered', c) = Live(delivered, push)
      BY <1>9, <2>4, <2>5, <3>4
    <3>6. /\ c.closed = push.closed /\ (push.frames = <<>> => c.frames = <<>>)
          /\ ~push.closed => c.dropped = push.dropped \cup missed
      BY <1>7, <2>2
    <3> QED
      BY <1>2, <1>6, <1>10, <2>2, <3>5, <3>6, CommandAnswered
  <2>6. CASE ~push.closed
    <3>1. /\ InOrder(push.frames) /\ Live(delivered, b) \cap b.dropped = {}
          /\ \A x \in ToSet(delivered), y \in NumbersIn(push.frames) : x < y
      BY <1>7, <1>8, <2>6 DEF Sorted
    <3>2. /\ s \in Seq(1 .. MaxSent) /\ Rising(s) /\ ToSet(s) = ToSet(delivered) \cup NumbersIn(push.frames)
      BY <1>9, <2>3, <3>1, RisingConcat
    <3>3. NumbersIn(c.frames) = {} /\ InOrder(c.frames)
      BY <2>2 DEF NumbersIn, InOrder
    <3>4. Live(s, c) = Live(delivered, push) /\ Live(s, c) = Live(delivered, b)
      BY <1>7, <2>6, <3>2, <3>3 DEF Live
    <3>5. Sorted(s, c)
      BY <2>2, <3>1, <3>2, <3>3, <3>4 DEF Sorted
    <3>6. /\ delivered' \in Seq(1 .. MaxSent) /\ Rising(delivered')
          /\ ~push.closed => Sorted(delivered', c) /\ Live(delivered', c) = Live(delivered, push)
      BY <2>4, <3>2, <3>4, <3>5
    <3>7. /\ c.closed = push.closed /\ (push.frames = <<>> => c.frames = <<>>)
          /\ ~push.closed => c.dropped = push.dropped \cup missed
      BY <1>7, <2>2
    <3> QED
      BY <1>2, <1>6, <1>10, <2>2, <3>6, <3>7, CommandAnswered
  <2> QED
    BY <2>5, <2>6
<1>12. CASE r \notin {"frame", "nothing"}
  <2>1. c = AfterPoll(b) /\ delivered' = delivered
    BY <1>5, <1>6, <1>12
  <2>2. /\ GoodBuffer(c) /\ c.dropped = b.dropped /\ c.closed = b.closed
    BY <1>7, <2>1, PollKeepsBuffer
  <2>3. c.frames = b.frames
    BY <1>4, <1>7, <1>12, <2>1, PollCases DEF GoodBuffer, Buffer
  <2>4. Live(delivered, c) = Live(delivered, b)
    BY <2>3 DEF Live
  <2>5. ~push.closed => Sorted(delivered, c)
    BY <1>8, <2>2, <2>3, <2>4 DEF Sorted
  <2>6. /\ delivered' \in Seq(1 .. MaxSent) /\ Rising(delivered')
        /\ ~push.closed => Sorted(delivered', c) /\ Live(delivered', c) = Live(delivered, push)
    BY <1>7, <1>9, <2>1, <2>4, <2>5
  <2>7. /\ c.closed = push.closed /\ (push.frames = <<>> => c.frames = <<>>)
        /\ ~push.closed => c.dropped = push.dropped \cup missed
    BY <1>7, <2>2, <2>3
  <2> QED
    BY <1>2, <1>6, <1>10, <2>2, <2>6, <2>7, CommandAnswered
<1> QED
  BY <1>11, <1>12

LEMMA CloseKeeps ==
  ASSUME IInv, NEW fatal \in BOOLEAN, Close(fatal)
  PROVE  /\ IInv' /\ push'.closed
         /\ \A p \in Pollers : call[p] # "idle" /\ call'[p] = "idle" =>
                                  ~push.closed /\ answer'[p] # "frame"
         /\ push.closed => delivered' = delivered /\ call' = call
<1>1. /\ Types /\ Queues
  BY IInvParts
<1>2. PICK b : b = ClosedWith(Flushed, fatal)
  OBVIOUS
<1>3. /\ missed' = {} /\ Become(Dismissed(b, waiters))
      /\ UNCHANGED <<running, sent, refused, channel, commands>>
  BY <1>2 DEF Close, Dismissed
<1>4. GoodBuffer(b) /\ b.closed
  BY <1>2, FlushedFacts, CloseKeepsBuffer
<1>5. PICK d : d = Dismissed(b, waiters)
  OBVIOUS
<1>6. DeskClosed(d, b, Len(waiters))
  BY <1>1, <1>4, <1>5, AllDismissed
<1>7. /\ push' = d.push /\ waiters' = d.waiters
      /\ call' = d.call /\ answer' = d.answer /\ delivered' = d.delivered /\ EndCalls
  BY <1>3, <1>5 DEF Become
<1>8. /\ push' = b /\ waiters' = <<>> /\ delivered' = delivered
      /\ call' \in [Pollers -> Calls] /\ answer' \in [Pollers -> Answers]
      /\ \A p \in Pollers : IF p \in First(Len(waiters))
                            THEN call'[p] = "idle" /\ answer'[p] = PollAnswer(b)
                            ELSE call'[p] = call[p] /\ answer'[p] = answer[p]
  BY <1>6, <1>7 DEF DeskClosed
<1>9. /\ waiters \in Seq(Pollers)
      /\ ToSet(waiters) = {p \in Pollers : call[p] = "waiting"}
      /\ commands \in Seq(Pollers) /\ IsInjective(commands)
      /\ ToSet(commands) = {p \in Pollers : call[p] \in {"poll", "drain"}}
      /\ call \in [Pollers -> Calls]
      /\ \A p \in Pollers : call[p] # "idle" => answer[p] = "none"
      /\ push.closed => waiters = <<>>
  BY <1>1 DEF Queues, Calls
<1>10. First(Len(waiters)) = ToSet(waiters)
  BY <1>9 DEF First, ToSet
<1>11. \A p \in Pollers : IF call[p] = "waiting" THEN call'[p] = "idle" /\ answer'[p] = PollAnswer(b)
                          ELSE call'[p] = call[p] /\ answer'[p] = answer[p]
  BY <1>8, <1>9, <1>10
<1>12. /\ ToSet(commands) = {p \in Pollers : call'[p] \in {"poll", "drain"}}
       /\ {p \in Pollers : call'[p] = "waiting"} = {}
       /\ \A p \in Pollers : call'[p] # "idle" => answer'[p] = "none"
  BY <1>9, <1>11
<1>13. /\ waiters' \in Seq(Pollers) /\ IsInjective(waiters') /\ Len(waiters') <= MaxWaiters
       /\ ToSet(waiters') = {}
  <2>1. <<>> \in Seq(Pollers) /\ IsInjective(<<>>) /\ Len(<<>>) = 0 /\ ToSet(<<>>) = {}
    BY DEF IsInjective, ToSet
  <2> QED
    BY <1>8, <2>1, LimitsAssumption
<1>14. Queues'
  BY <1>3, <1>8, <1>9, <1>12, <1>13 DEF Queues, Calls
<1>15. Types'
  <2>1. late' \in SUBSET Pollers /\ owed' \in [Pollers -> SUBSET (1 .. MaxSent)]
    BY <1>1, <1>7, EndOfCalls
  <2> QED
    BY <1>1, <1>3, <1>8, <2>1 DEF Types
<1>16. IInv'
  BY <1>4, <1>8, <1>14, <1>15 DEF IInv
<1>17. PollAnswer(b) # "frame"
  BY <1>4, PollAnswers
<1>18. \A p \in Pollers : call[p] # "idle" /\ call'[p] = "idle" =>
                             ~push.closed /\ answer'[p] # "frame"
  <2> SUFFICES ASSUME NEW p \in Pollers, call[p] # "idle", call'[p] = "idle"
               PROVE  ~push.closed /\ answer'[p] # "frame"
    OBVIOUS
  <2>1. call[p] = "waiting" /\ answer'[p] = PollAnswer(b)
    BY <1>11
  <2>2. p \in ToSet(waiters)
    BY <1>9, <2>1
  <2>3. waiters # <<>>
    BY <2>2 DEF ToSet
  <2> QED
    BY <1>9, <1>17, <2>1, <2>3
<1>19. push.closed => call' = call
  <2> SUFFICES ASSUME push.closed PROVE call' = call
    OBVIOUS
  <2>1. ToSet(waiters) = {}
    BY <1>9 DEF ToSet
  <2>2. \A p \in Pollers : call'[p] = call[p]
    BY <1>9, <1>11, <2>1
  <2> QED
    BY <1>8, <1>9, <2>2
<1> QED
  BY <1>4, <1>8, <1>16, <1>18, <1>19

LEMMA ExitKeeps ==
  ASSUME IInv, Exit
  PROVE  IInv'
<1>1. /\ Types /\ Queues /\ GoodBuffer(push)
  BY IInvParts
<1>2. /\ push.closed /\ running' = FALSE /\ channel' = <<>> /\ commands' = <<>>
      /\ call' = [p \in Pollers |-> "idle"]
      /\ answer' = [p \in Pollers |-> IF call[p] = "idle" THEN answer[p] ELSE "stopped"]
      /\ EndCalls /\ UNCHANGED <<sent, refused, missed, push, waiters, delivered>>
  BY DEF Exit
<1>3. <<>> \in Seq(Pollers) /\ IsInjective(<<>>) /\ Len(<<>>) = 0 /\ ToSet(<<>>) = {} /\ <<>> \in Seq(Frame)
  BY DEF IsInjective, ToSet
<1>4. waiters = <<>> /\ answer \in [Pollers -> Answers]
  BY <1>1, <1>2 DEF Queues
<1>5. /\ call' \in [Pollers -> {"idle", "poll", "drain", "waiting"}]
      /\ answer' \in [Pollers -> Answers]
      /\ {p \in Pollers : call'[p] \in {"poll", "drain"}} = {}
      /\ {p \in Pollers : call'[p] = "waiting"} = {}
      /\ \A p \in Pollers : call'[p] = "idle"
  BY <1>2, <1>4 DEF Answers
<1>6. Queues'
  BY <1>2, <1>3, <1>4, <1>5, LimitsAssumption DEF Queues
<1>7. Types'
  <2>1. late' \in SUBSET Pollers /\ owed' \in [Pollers -> SUBSET (1 .. MaxSent)]
    BY <1>1, <1>2, EndOfCalls
  <2>2. Len(channel') <= MaxFrames
    BY <1>2, <1>3, LimitsAssumption
  <2> QED
    BY <1>1, <1>2, <1>3, <2>1, <2>2 DEF Types
<1> QED
  BY <1>1, <1>2, <1>6, <1>7 DEF IInv

LEMMA InitInvariant ==
  ASSUME Init
  PROVE  IInv
<1>1. /\ running = TRUE /\ sent = 0 /\ channel = <<>> /\ missed = {}
      /\ refused = [w \in Workers |-> 0]
      /\ push = [frames |-> <<>>, bytes |-> 0, dropped |-> {}, reported |-> {},
                 closed |-> FALSE, fatal |-> FALSE]
      /\ commands = <<>> /\ waiters = <<>> /\ late = {} /\ delivered = <<>>
      /\ call = [p \in Pollers |-> "idle"]
      /\ answer = [p \in Pollers |-> "none"]
      /\ owed = [p \in Pollers |-> {}]
  BY DEF Init
<1>2. /\ <<>> \in Seq(Pollers) /\ IsInjective(<<>>) /\ Len(<<>>) = 0 /\ ToSet(<<>>) = {}
      /\ <<>> \in Seq(Frame) /\ <<>> \in Seq(1 .. MaxSent) /\ Rising(<<>>) /\ InOrder(<<>>)
      /\ NumbersIn(<<>>) = {}
  BY DEF IsInjective, ToSet, Rising, InOrder, NumbersIn
<1>3. Total(<<>>) = 0
  BY TotalEmpty
<1>4. Types
  BY <1>1, <1>2, LimitsAssumption DEF Types
<1>5. Queues
  <2>1. /\ call \in [Pollers -> {"idle", "poll", "drain", "waiting"}] /\ answer \in [Pollers -> Answers]
        /\ {p \in Pollers : call[p] \in {"poll", "drain"}} = {}
        /\ {p \in Pollers : call[p] = "waiting"} = {}
        /\ \A p \in Pollers : call[p] # "idle" => answer[p] = "none"
    BY <1>1 DEF Answers
  <2> QED
    BY <1>1, <1>2, <2>1, LimitsAssumption DEF Queues
<1>6. /\ push \in Buffer /\ push.frames = <<>> /\ push.bytes = 0 /\ push.dropped = {}
      /\ push.reported = {} /\ push.closed = FALSE /\ push.fatal = FALSE
  BY <1>1, <1>2 DEF Buffer
<1>7. GoodBuffer(push)
  BY <1>2, <1>3, <1>6, LimitsAssumption DEF GoodBuffer
<1>8. Live(delivered, push) = {} /\ Known(delivered, push) = {}
  BY <1>1, <1>2, <1>6 DEF Live, Known
<1>9. RefusedNow = {}
  BY <1>1 DEF RefusedNow
<1>10. Places
  <2>1. Sorted(delivered, push)
    BY <1>1, <1>2, <1>6, <1>8 DEF Sorted
  <2>2. NumbersIn(channel) = {} /\ InOrder(channel)
    BY <1>1, <1>2
  <2>3. \A v, u \in Workers : refused[v] # 0 /\ refused[v] = refused[u] => v = u
    BY <1>1
  <2>4. 1 .. sent = {}
    BY <1>1
  <2> QED
    BY <1>1, <1>8, <1>9, <2>1, <2>2, <2>3, <2>4 DEF Places
<1>11. Owed
  BY <1>1 DEF Owed
<1> QED
  BY <1>4, <1>5, <1>7, <1>10, <1>11 DEF IInv

LEMMA StepInvariant == IInv /\ [Next]_vars => IInv'
<1> SUFFICES ASSUME IInv, [Next]_vars PROVE IInv'
  OBVIOUS
<1>1. CASE \E w \in Workers, size \in Sizes : Publish(w, size)
  BY <1>1, PublishKeeps
<1>2. CASE \E w \in Workers : CountRefused(w)
  BY <1>2, CountRefusedKeeps
<1>3. CASE \E p \in Pollers, what \in {"poll", "drain"} : Ask(p, what)
  BY <1>3, AskKeeps
<1>4. CASE \E p \in Pollers : AskInVain(p)
  BY <1>4, AskInVainKeeps
<1>5. CASE \E p \in Pollers : Elapse(p)
  BY <1>5, ElapseKeeps
<1>6. CASE TakeFrame
  BY <1>6, TakeFrameKeeps
<1>7. CASE Tick
  BY <1>7, TickKeeps
<1>8. CASE HandleOther
  BY <1>8, HandleOtherKeeps
<1>9. CASE HandlePoll
  BY <1>9, HandlePollKeeps
<1>10. CASE HandleDrain
  BY <1>10, HandleDrainKeeps
<1>11. CASE \E fatal \in BOOLEAN : Close(fatal)
  BY <1>11, CloseKeeps
<1>12. CASE Exit
  BY <1>12, ExitKeeps
<1>13. CASE UNCHANGED vars
  <2>1. UNCHANGED <<running, sent, refused, channel, missed, push, commands, waiters, call, answer,
                    late, delivered, owed>>
    BY <1>13 DEF vars, feedVars, pollerVars
  <2>2. Types' /\ Queues'
    BY <2>1, IInvParts DEF Types, Queues
  <2>3. ASSUME ~push.closed PROVE Places' /\ Owed'
    <3>1. Places /\ Owed
      BY <2>3, IInvParts
    <3>2. Places'
      BY <2>1, <3>1, PlacesUntouched
    <3>3. Owed'
      BY <2>1, <3>1 DEF Owed
    <3> QED
      BY <3>2, <3>3
  <2> QED
    BY <2>1, <2>2, <2>3, IInvParts DEF IInv
<1> QED
  BY <1>1, <1>2, <1>3, <1>4, <1>5, <1>6, <1>7, <1>8, <1>9, <1>10, <1>11, <1>12, <1>13 DEF Next, Core

LEMMA Invariant == Spec => []IInv
<1>1. Init => IInv
  BY InitInvariant
<1> QED
  BY <1>1, StepInvariant, PTL DEF Spec

-----------------------------------------------------------------------------
(* What follows. *)

\* The variables of the feed have their types, and exactly the pollers in a poll or
\* a drain are in the command channel, in every reachable state (engine.rs,
\* PushBuffer).
THEOREM TypesHold == Spec => []TypeOK
<1>1. IInv => TypeOK
  <2> SUFFICES ASSUME IInv PROVE TypeOK
    OBVIOUS
  <2>1. Types /\ Queues /\ GoodBuffer(push) /\ push \in Buffer
    BY IInvParts
  <2>2. push.dropped \subseteq 1 .. MaxSent /\ push.reported \subseteq push.dropped
    BY <2>1 DEF GoodBuffer, Buffer
  <2> QED
    BY <2>1, <2>2 DEF TypeOK, Types, Queues
<1> QED
  BY <1>1, Invariant, PTL

\* Six sets in a row.
LEMMA SixPlaces ==
  ASSUME NEW a, NEW b, NEW c, NEW d, NEW e, NEW f
  PROVE  LET places == <<a, b, c, d, e, f>>
         IN  /\ UNION ToSet(places) = a \cup b \cup c \cup d \cup e \cup f
             /\ /\ a \cap b = {} /\ (a \cup b) \cap c = {} /\ (a \cup b \cup c) \cap d = {}
                /\ (a \cup b \cup c \cup d) \cap e = {} /\ (a \cup b \cup c \cup d \cup e) \cap f = {}
                => \A i, j \in DOMAIN places : i # j => places[i] \cap places[j] = {}
<1> DEFINE places == <<a, b, c, d, e, f>>
<1>1. DOMAIN places = 1 .. 6
  OBVIOUS
<1>2. /\ places[1] = a /\ places[2] = b /\ places[3] = c /\ places[4] = d /\ places[5] = e
      /\ places[6] = f
  OBVIOUS
<1> HIDE DEF places
<1>3. \A i \in 1 .. 6 : i = 1 \/ i = 2 \/ i = 3 \/ i = 4 \/ i = 5 \/ i = 6
  OBVIOUS
<1>4. 1 \in 1 .. 6 /\ 2 \in 1 .. 6 /\ 3 \in 1 .. 6 /\ 4 \in 1 .. 6 /\ 5 \in 1 .. 6 /\ 6 \in 1 .. 6
  OBVIOUS
<1>5. ToSet(places) = {a, b, c, d, e, f}
  <2>1. \A x \in ToSet(places) : x \in {a, b, c, d, e, f}
    BY <1>1, <1>2, <1>3 DEF ToSet
  <2>2. /\ a \in ToSet(places) /\ b \in ToSet(places) /\ c \in ToSet(places)
        /\ d \in ToSet(places) /\ e \in ToSet(places) /\ f \in ToSet(places)
    BY <1>1, <1>2, <1>4 DEF ToSet
  <2> QED
    BY <2>1, <2>2
<1>6. UNION ToSet(places) = a \cup b \cup c \cup d \cup e \cup f
  <2>1. UNION {a, b, c, d, e, f} = a \cup b \cup c \cup d \cup e \cup f
    OBVIOUS
  <2> QED
    BY <1>5, <2>1
<1>7. ASSUME a \cap b = {}, (a \cup b) \cap c = {}, (a \cup b \cup c) \cap d = {},
             (a \cup b \cup c \cup d) \cap e = {}, (a \cup b \cup c \cup d \cup e) \cap f = {}
      PROVE  \A i, j \in DOMAIN places : i # j => places[i] \cap places[j] = {}
  <2>1. /\ a \cap b = {} /\ a \cap c = {} /\ a \cap d = {} /\ a \cap e = {} /\ a \cap f = {}
        /\ b \cap c = {} /\ b \cap d = {} /\ b \cap e = {} /\ b \cap f = {}
        /\ c \cap d = {} /\ c \cap e = {} /\ c \cap f = {}
        /\ d \cap e = {} /\ d \cap f = {} /\ e \cap f = {}
    BY <1>7
  <2>2. \A x, y : x \cap y = {} => y \cap x = {}
    OBVIOUS
  <2> SUFFICES ASSUME NEW i \in 1 .. 6, NEW j \in 1 .. 6, i # j
               PROVE  places[i] \cap places[j] = {}
    BY <1>1
  <2>3. /\ i = 1 \/ i = 2 \/ i = 3 \/ i = 4 \/ i = 5 \/ i = 6
        /\ j = 1 \/ j = 2 \/ j = 3 \/ j = 4 \/ j = 5 \/ j = 6
    BY <1>3
  <2>4. CASE i = 1
    BY <1>2, <2>1, <2>3, <2>4
  <2>5. CASE i = 2
    BY <1>2, <2>1, <2>2, <2>3, <2>5
  <2>6. CASE i = 3
    BY <1>2, <2>1, <2>2, <2>3, <2>6
  <2>7. CASE i = 4
    BY <1>2, <2>1, <2>2, <2>3, <2>7
  <2>8. CASE i = 5
    BY <1>2, <2>1, <2>2, <2>3, <2>8
  <2>9. CASE i = 6
    BY <1>2, <2>1, <2>2, <2>3, <2>9
  <2> QED
    BY <2>3, <2>4, <2>5, <2>6, <2>7, <2>8, <2>9
<1> QED
  BY <1>6, <1>7 DEF places

\* The buffer counts the bytes it holds and stays within its limits, and while the
\* feed is open each frame the server sent is handed out, waits or is counted as
\* lost, and only one of these (publish_push, offer, flush_pending_push_drops).
THEOREM EveryFrameHasAPlace == Spec => []EveryFrameIsAccounted
<1>1. IInv => EveryFrameIsAccounted
  <2> SUFFICES ASSUME IInv PROVE EveryFrameIsAccounted
    OBVIOUS
  <2>1. /\ Types /\ Queues /\ GoodBuffer(push) /\ push \in Buffer /\ (~push.closed => Places)
    BY IInvParts
  <2>2. /\ Len(push.frames) <= MaxFrames /\ Len(waiters) <= MaxWaiters
        /\ push.bytes = Total(push.frames) /\ push.bytes <= MaxBytes
    BY <2>1 DEF GoodBuffer, Queues
  <2>3. PICK a, b, c, d, e, f :
           /\ a = ToSet(delivered) /\ b = ToSet(Numbers(channel)) /\ c = ToSet(Numbers(push.frames))
           /\ d = missed /\ e = push.dropped /\ f = {refused[w] : w \in Workers} \ {0}
    OBVIOUS
  <2>4. ASSUME ~push.closed
        PROVE  /\ UNION ToSet(<<a, b, c, d, e, f>>) = 1 .. sent
               /\ \A i, j \in DOMAIN <<a, b, c, d, e, f>> :
                     i # j => <<a, b, c, d, e, f>>[i] \cap <<a, b, c, d, e, f>>[j] = {}
    <3>1. channel \in Seq(Frame) /\ push.frames \in Seq(Frame)
      BY <2>1 DEF Types, Buffer
    <3>2. b = NumbersIn(channel) /\ c = NumbersIn(push.frames) /\ f = RefusedNow
      BY <2>3, <3>1, FrameNumbers DEF RefusedNow
    <3>3. Live(delivered, push) = a \cup c /\ Known(delivered, push) = a \cup c \cup e
      BY <2>3, <3>2 DEF Live, Known
    <3>4. a \cap c = {}
      <4>1. PICK N : N = 1 .. MaxSent
        OBVIOUS
      <4>2. delivered \in Seq(N)
        BY <2>1, <4>1 DEF Types
      <4>3. \A x \in a : x \in N
        BY <2>3, <4>2 DEF ToSet
      <4>4. \A x \in a, y \in c : x < y
        BY <2>1, <2>3, <2>4, <3>2 DEF Places, Sorted
      <4>5. \A x \in N : x \in Nat
        BY <4>1
      <4> QED
        BY <4>3, <4>4, <4>5
    <3>5. (a \cup c) \cap e = {}
      BY <2>1, <2>3, <2>4, <3>3 DEF Places, Sorted
    <3>6. /\ (a \cup c \cup e) \cap b = {} /\ (a \cup c \cup e \cup b) \cap d = {}
          /\ (a \cup c \cup e \cup b \cup d) \cap f = {}
          /\ a \cup c \cup e \cup b \cup d \cup f = 1 .. sent
      BY <2>1, <2>3, <2>4, <3>2, <3>3 DEF Places
    <3>7. /\ a \cap b = {} /\ (a \cup b) \cap c = {} /\ (a \cup b \cup c) \cap d = {}
          /\ (a \cup b \cup c \cup d) \cap e = {} /\ (a \cup b \cup c \cup d \cup e) \cap f = {}
          /\ a \cup b \cup c \cup d \cup e \cup f = 1 .. sent
      BY <3>4, <3>5, <3>6
    <3>8. UNION ToSet(<<a, b, c, d, e, f>>) = a \cup b \cup c \cup d \cup e \cup f
      BY SixPlaces
    <3>9. \A i, j \in DOMAIN <<a, b, c, d, e, f>> :
             i # j => <<a, b, c, d, e, f>>[i] \cap <<a, b, c, d, e, f>>[j] = {}
      BY <3>7, SixPlaces
    <3> QED
      BY <3>7, <3>8, <3>9
  <2>5. ~push.closed =>
           LET places == <<ToSet(delivered), ToSet(Numbers(channel)),
                           ToSet(Numbers(push.frames)), missed, push.dropped,
                           {refused[w] : w \in Workers} \ {0}>>
           IN  /\ UNION ToSet(places) = 1 .. sent
               /\ \A i, j \in DOMAIN places : i # j => places[i] \cap places[j] = {}
    <3> SUFFICES ASSUME ~push.closed, NEW t,
                        t = <<ToSet(delivered), ToSet(Numbers(channel)),
                              ToSet(Numbers(push.frames)), missed, push.dropped,
                              {refused[w] : w \in Workers} \ {0}>>
                 PROVE  /\ UNION ToSet(t) = 1 .. sent
                        /\ \A i, j \in DOMAIN t : i # j => t[i] \cap t[j] = {}
      OBVIOUS
    <3>1. t = <<a, b, c, d, e, f>>
      BY <2>3, Zenon
    <3> QED
      BY <2>4, <3>1, Zenon
  <2> QED
    BY <2>2, <2>5, Zenon DEF EveryFrameIsAccounted
<1> QED
  BY <1>1, Invariant, PTL

\* Frames are handed out in the order in which they were published, each once
\* (offer, poll, drain, fulfill_push_waiters).
THEOREM FramesInOrder == Spec => []DeliveredInOrder
<1>1. IInv => DeliveredInOrder
  BY IInvParts DEF DeliveredInOrder, Types, Rising
<1> QED
  BY <1>1, Invariant, PTL

\* Nobody waits in the core while the buffer holds a frame, and nobody waits twice
\* (push_waiters, fulfill_push_waiters).
THEOREM NobodyIsForgotten == Spec => []NobodyWaitsBesideAFrame
<1>1. IInv => NobodyWaitsBesideAFrame
  BY IInvParts DEF NobodyWaitsBesideAFrame, Queues
<1> QED
  BY <1>1, Invariant, PTL

\* A frame goes to p only after every loss p is owed was reported.
LEMMA GapFirst ==
  ASSUME IInv, Next, NEW p \in Pollers, call[p] # "idle", call'[p] = "idle", answer'[p] = "frame"
  PROVE  owed[p] \subseteq push'.reported
<1>1. /\ Types /\ Queues /\ GoodBuffer(push) /\ (~push.closed => Owed)
  BY IInvParts
<1>2. call[p] = "waiting" => ~push.closed
  <2> SUFFICES ASSUME call[p] = "waiting", push.closed PROVE FALSE
    OBVIOUS
  <2>1. p \in ToSet(waiters) /\ waiters = <<>>
    BY <1>1 DEF Queues
  <2> QED
    BY <2>1 DEF ToSet
<1>3. ASSUME NEW b, Waited(b), push.dropped \subseteq b.dropped PROVE owed[p] \subseteq push'.reported
  <2>1. call[p] = "waiting" /\ push'.reported = b.dropped
    BY <1>3 DEF Waited
  <2>2. owed[p] \subseteq push.dropped
    BY <1>1, <1>2, <2>1 DEF Owed
  <2> QED
    BY <1>3, <2>1, <2>2
<1>4. CASE TakeFrame
  <2>1. PICK b : b = Offered(push, Head(channel))
    OBVIOUS
  <2>2. Waited(b) /\ channel # <<>>
    BY <1>4, <2>1, TakeFrameWaits
  <2>3. push.dropped \subseteq b.dropped
    BY <2>1, <2>2, OfferedFacts
  <2> QED
    BY <1>3, <2>2, <2>3
<1>5. CASE Tick
  <2>1. PICK b : b = Flushed
    OBVIOUS
  <2>2. Waited(b) /\ push.dropped \subseteq b.dropped
    BY <1>5, <2>1, TickWaits, FlushedFacts
  <2> QED
    BY <1>3, <2>2
<1>6. ASSUME NEW b, b = Flushed, PollAnswer(b) = "frame", push'.reported = b.dropped
      PROVE  owed[p] \subseteq push'.reported
  <2>1. GoodBuffer(b) /\ b.closed = push.closed /\ (~push.closed => b.dropped = push.dropped \cup missed)
    BY <1>6, FlushedFacts
  <2>2. ~push.closed
    BY <1>6, <2>1, PollAnswers
  <2>3. owed[p] \subseteq missed \cup push.dropped
    BY <1>1, <2>2 DEF Owed
  <2> QED
    BY <1>6, <2>1, <2>2, <2>3
<1>7. call \in [Pollers -> {"idle", "poll", "drain", "waiting"}] /\ answer \in [Pollers -> Answers]
  BY <1>1 DEF Queues
<1>8. CASE HandlePoll
  <2>1. PICK h : h = Head(commands)
    OBVIOUS
  <2>2. PICK b : b = Flushed
    OBVIOUS
  <2>3. /\ commands # <<>>
        /\ \/ /\ push' = AfterPoll(b) /\ waiters' = waiters
              /\ call' = [call EXCEPT ![h] = "idle"]
              /\ answer' = [answer EXCEPT ![h] = PollAnswer(b)]
              /\ delivered' = Given(delivered, b)
           \/ /\ push' = b /\ delivered' = delivered /\ waiters' = waiters
              /\ PollAnswer(b) = "nothing" /\ ~push.closed
              /\ call' = [call EXCEPT ![h] = "idle"] /\ answer' = [answer EXCEPT ![h] = "busy"]
           \/ /\ push' = b /\ delivered' = delivered /\ Len(waiters) < MaxWaiters
              /\ PollAnswer(b) = "nothing" /\ ~push.closed
              /\ call' = [call EXCEPT ![h] = "waiting"] /\ answer' = answer
              /\ waiters' = Append(waiters, h)
    BY <1>1, <1>8, <2>1, <2>2, HandlePollCases
  <2>4. p = h
    BY <1>7, <2>3
  <2>5. PICK r : r = PollAnswer(b)
    OBVIOUS
  <2>6. push' = AfterPoll(b) /\ r = "frame"
    BY <1>7, <2>3, <2>4, <2>5
  <2>7. GoodBuffer(b)
    BY <2>2, FlushedFacts
  <2>8. b.reported = b.dropped
    BY <2>5, <2>6, <2>7, PollAnswers
  <2>9. push'.reported = b.dropped
    BY <2>6, <2>7, <2>8, PollKeepsBuffer
  <2> QED
    BY <1>6, <2>2, <2>5, <2>6, <2>9
<1>9. CASE HandleDrain
  <2>1. PICK h : h = Head(commands)
    OBVIOUS
  <2>2. PICK b : b = Flushed
    OBVIOUS
  <2>3. PICK r : r = PollAnswer(b)
    OBVIOUS
  <2>4. /\ call' = [call EXCEPT ![h] = "idle"] /\ answer' = [answer EXCEPT ![h] = r]
        /\ push' = IF r \in {"frame", "nothing"} THEN [b EXCEPT !.frames = <<>>, !.bytes = 0]
                   ELSE AfterPoll(b)
    BY <1>9, <2>1, <2>2, <2>3 DEF HandleDrain
  <2>5. p = h /\ r = "frame"
    BY <1>7, <2>4
  <2>6. GoodBuffer(b) /\ push' = [b EXCEPT !.frames = <<>>, !.bytes = 0]
    BY <2>2, <2>4, <2>5, FlushedFacts
  <2>7. push'.reported = b.reported
    BY <2>6, DrainKeepsBuffer
  <2>8. b.reported = b.dropped
    BY <2>3, <2>5, <2>6, PollAnswers
  <2> QED
    BY <1>6, <2>2, <2>3, <2>5, <2>7, <2>8
<1>10. CASE \E fatal \in BOOLEAN : Close(fatal)
  BY <1>10, CloseKeeps
<1>11. CASE Exit
  BY <1>11 DEF Exit
<1>12. CASE \E x \in Pollers, what \in {"poll", "drain"} : Ask(x, what)
  BY <1>7, <1>12 DEF Ask
<1>13. CASE \/ \E w \in Workers, size \in Sizes : Publish(w, size)
            \/ \E w \in Workers : CountRefused(w)
            \/ \E x \in Pollers : AskInVain(x)
            \/ \E x \in Pollers : Elapse(x)
            \/ HandleOther
  <2>1. call' = call
    BY <1>13 DEF Publish, CountRefused, AskInVain, Elapse, HandleOther, pollerVars
  <2> QED
    BY <2>1
<1> QED
  BY <1>4, <1>5, <1>8, <1>9, <1>10, <1>11, <1>12, <1>13 DEF Next, Core

\* A caller never gets a frame while a loss that was counted before its call has not
\* been reported (raise_fatal_or_gap, and the flush that opens handle_command and
\* handle_tick).
THEOREM GapBeforeFrame == Spec => NoSilentGap
<1>1. IInv /\ [Next]_vars =>
        [\A p \in Pollers : call[p] # "idle" /\ call'[p] = "idle" /\ answer'[p] = "frame"
                               => owed[p] \subseteq push'.reported]_vars
  BY GapFirst
<1> QED
  BY <1>1, Invariant, PTL DEF Spec, NoSilentGap

\* Once the buffer is closed, no step of the core hands anything out.
LEMMA SilentOnceClosed ==
  ASSUME IInv, Next, push.closed
  PROVE  /\ delivered' = delivered /\ push'.closed
         /\ \A p \in Pollers : running' /\ call[p] # "idle" /\ call'[p] = "idle" =>
               answer'[p] = IF push.fatal THEN "fatal" ELSE "nothing"
<1>1. /\ Types /\ Queues /\ GoodBuffer(push) /\ waiters = <<>>
  BY IInvParts DEF Queues
<1>2. call \in [Pollers -> {"idle", "poll", "drain", "waiting"}] /\ answer \in [Pollers -> Answers]
  BY <1>1 DEF Queues
<1>3. Flushed = push
  BY FlushedFacts
<1>4. PICK b : b = push
  OBVIOUS
<1>5. PICK r : r = IF push.fatal THEN "fatal" ELSE "nothing"
  OBVIOUS
<1>6. GoodBuffer(b) /\ PollAnswer(b) = r /\ AfterPoll(b) = b /\ b.frames = <<>> /\ r # "frame"
  <2>1. GoodBuffer(b) /\ b.closed /\ b.frames = <<>>
    BY <1>1, <1>4 DEF GoodBuffer
  <2> QED
    BY <1>4, <1>5, <2>1, PollAnswers, PollKeepsBuffer
<1>7. ASSUME Become(Fulfilled(b)) PROVE delivered' = delivered /\ call' = call /\ push' = push
  <2>1. Fulfilled(b) = Answered(b, <<>>)
    BY <1>1 DEF Fulfilled, Answered
  <2>2. Become(Desk(b))
    BY <1>7, <2>1, AnsweredNone
  <2> QED
    BY <1>4, <2>2 DEF Become, Desk
<1>8. CASE TakeFrame
  <2>1. Become(Fulfilled(Offered(push, Head(channel))))
    BY <1>8 DEF TakeFrame
  <2>2. Offered(push, Head(channel)) = b
    BY <1>4 DEF Offered
  <2>3. Become(Fulfilled(b))
    BY <2>1, <2>2
  <2> QED
    BY <1>7, <2>3
<1>9. CASE Tick
  <2>1. Become(Fulfilled(b))
    BY <1>3, <1>4, <1>9 DEF Tick
  <2> QED
    BY <1>7, <2>1
<1>10. CASE HandleOther
  BY <1>3, <1>10 DEF HandleOther, pollerVars
<1>11. CASE HandlePoll
  <2>1. PICK h : h = Head(commands)
    OBVIOUS
  <2>2. /\ \/ /\ push' = AfterPoll(b) /\ waiters' = waiters
              /\ call' = [call EXCEPT ![h] = "idle"]
              /\ answer' = [answer EXCEPT ![h] = PollAnswer(b)]
              /\ delivered' = Given(delivered, b)
           \/ ~push.closed
    BY <1>1, <1>3, <1>4, <1>11, <2>1, HandlePollCases
  <2>3. /\ push' = b /\ call' = [call EXCEPT ![h] = "idle"] /\ answer' = [answer EXCEPT ![h] = r]
        /\ delivered' = delivered
    BY <1>6, <2>2 DEF Given
  <2> QED
    BY <1>2, <1>4, <1>5, <2>3
<1>12. CASE HandleDrain
  <2>1. PICK h : h = Head(commands)
    OBVIOUS
  <2>2. /\ call' = [call EXCEPT ![h] = "idle"] /\ answer' = [answer EXCEPT ![h] = r]
        /\ push' = IF r \in {"frame", "nothing"} THEN [b EXCEPT !.frames = <<>>, !.bytes = 0]
                   ELSE AfterPoll(b)
        /\ delivered' = IF r \in {"frame", "nothing"} THEN delivered \o Numbers(push.frames)
                        ELSE delivered
    BY <1>3, <1>4, <1>6, <1>12, <2>1 DEF HandleDrain
  <2>3. delivered \o Numbers(push.frames) = delivered
    <3>1. <<>> \in Seq(Frame) /\ Len(<<>>) = 0
      OBVIOUS
    <3>2. Numbers(<<>>) \in Seq(1 .. MaxSent) /\ Len(Numbers(<<>>)) = 0
      BY <3>1, FrameNumbers
    <3>3. Numbers(<<>>) = <<>>
      BY <3>2
    <3>4. delivered \in Seq(1 .. MaxSent)
      BY <1>1 DEF Types
    <3>5. delivered \o <<>> = delivered
      BY <3>4, ConcatEmptySeq
    <3> QED
      BY <1>4, <1>6, <3>3, <3>5
  <2>4. push'.closed
    <3>1. [b EXCEPT !.frames = <<>>, !.bytes = 0].closed = b.closed
      BY <1>6, DrainKeepsBuffer
    <3> QED
      BY <1>4, <1>6, <2>2, <3>1
  <2>5. delivered' = delivered
    BY <2>2, <2>3
  <2> QED
    BY <1>2, <1>5, <2>2, <2>4, <2>5
<1>13. CASE \E fatal \in BOOLEAN : Close(fatal)
  BY <1>13, CloseKeeps
<1>14. CASE Exit
  BY <1>14 DEF Exit
<1>15. CASE \E x \in Pollers, what \in {"poll", "drain"} : Ask(x, what)
  BY <1>2, <1>15 DEF Ask, feedVars
<1>16. CASE \/ \E w \in Workers, size \in Sizes : Publish(w, size)
            \/ \E w \in Workers : CountRefused(w)
            \/ \E x \in Pollers : AskInVain(x)
            \/ \E x \in Pollers : Elapse(x)
  <2>1. call' = call /\ push' = push /\ delivered' = delivered
    BY <1>16 DEF Publish, CountRefused, AskInVain, Elapse, pollerVars, feedVars
  <2> QED
    BY <2>1
<1> QED
  BY <1>8, <1>9, <1>10, <1>11, <1>12, <1>13, <1>14, <1>15, <1>16 DEF Next, Core

\* After close nothing is handed out and nobody is left waiting; a poll in flight is
\* told the fatal error if there is one (push.rs close, begin_close).
THEOREM SilentAfterClose == Spec => ClosedFeedIsSilent
<1>1. IInv /\ [Next]_vars =>
        [push.closed =>
          /\ delivered' = delivered /\ push'.frames = <<>> /\ waiters' = <<>>
          /\ \A p \in Pollers : running' /\ call[p] # "idle" /\ call'[p] = "idle" =>
                answer'[p] = IF push.fatal THEN "fatal" ELSE "nothing"]_vars
  <2> SUFFICES ASSUME IInv, Next, push.closed
               PROVE  /\ delivered' = delivered /\ push'.frames = <<>> /\ waiters' = <<>>
                      /\ \A p \in Pollers : running' /\ call[p] # "idle" /\ call'[p] = "idle" =>
                            answer'[p] = IF push.fatal THEN "fatal" ELSE "nothing"
    OBVIOUS
  <2>1. /\ delivered' = delivered /\ push'.closed
        /\ \A p \in Pollers : running' /\ call[p] # "idle" /\ call'[p] = "idle" =>
              answer'[p] = IF push.fatal THEN "fatal" ELSE "nothing"
    BY SilentOnceClosed
  <2>2. IInv'
    BY StepInvariant
  <2>3. push'.frames = <<>> /\ waiters' = <<>>
    BY <2>1, <2>2 DEF IInv, GoodBuffer, Queues
  <2> QED
    BY <2>1, <2>3
<1> QED
  BY <1>1, Invariant, PTL DEF Spec, ClosedFeedIsSilent
=============================================================================
