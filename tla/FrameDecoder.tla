---------------------------- MODULE FrameDecoder ----------------------------
(***************************************************************************)
(* ResponseFrameDecoder (eltdx-protocol, frame.rs): frames are cut out of  *)
(* the bytes of a connection, however the network has split them and       *)
(* however little a turn of the Slot may decode.  Bytes that start no      *)
(* frame are discarded up to a limit.                                      *)
(*                                                                         *)
(* The prefix of a frame is two bytes here, P and Q, and its header four:  *)
(* the prefix, the length of the payload as it is sent (zip_length) and as *)
(* it is decoded (length).  A payload whose two lengths differ is to be    *)
(* inflated; its first byte tells to how many bytes.                       *)
(***************************************************************************)
EXTENDS Integers, Sequences, FiniteSets, SequencesExt

CONSTANTS
    MaxPayload,    \* max_payload_size
    MaxBuffer,     \* max_buffer_size
    MaxResync,     \* max_resync_bytes
    QueueFrames,   \* MAX_DECODED_QUEUE_FRAMES, the most that one feed() returns
    MaxPieces      \* bound: pieces a stream is made of

P == 11
Q == 12
HeaderSize == 4

DecoderAssumption ==
    /\ MaxPayload \in Nat /\ MaxPayload < P
    /\ MaxBuffer \in Nat /\ MaxBuffer >= HeaderSize + MaxPayload
    /\ MaxResync \in Nat /\ QueueFrames \in Nat \ {0} /\ MaxPieces \in Nat

VARIABLES
    stream,      \* all that the server sends
    at,          \* how much of it has been taken
    buffer,      \* the decoder's
    discarded,   \* resync_discarded
    frames,      \* the frames it has returned
    fault,       \* the error that ends the generation
    settled      \* has the last turn decoded all it could?

decoderVars == <<stream, at, buffer, discarded, frames, fault, settled>>

\* Frames, compressed ones and such whose payload looks like a prefix among
\* them; noise, and the first half of a prefix; frames that lie.
Header(zip, length) == <<P, Q, zip, length>>
Pieces == {Header(0, 0), Header(2, 2) \o <<P, Q>>, Header(1, 2) \o <<1>>,
           <<0>>, <<P>>, <<P, P>>,
           Header(1, 2) \o <<2>>, Header(MaxPayload + 1, 1), Header(1, MaxPayload + 1)}

DecoderInit ==
    /\ stream \in {FlattenSeq(s) : s \in SeqOf(Pieces, MaxPieces)}
    /\ at = 0 /\ buffer = <<>> /\ discarded = 0 /\ frames = <<>>
    /\ fault = "none" /\ settled = TRUE

-----------------------------------------------------------------------------
(* The decoder. *)

PrefixAt(bytes, i) == i < Len(bytes) /\ bytes[i] = P /\ bytes[i + 1] = Q
PrefixesIn(bytes) == {i \in DOMAIN bytes : PrefixAt(bytes, i)}
First(S) == CHOOSE i \in S : \A j \in S : i <= j

TooLong(header) == header[3] > MaxPayload \/ header[4] > MaxPayload
FrameSize(header) == HeaderSize + header[3]

\* decode_response_bytes: a payload of the declared length, or one that
\* inflates to exactly that.
Inflated(payload) == IF payload = <<>> THEN 0 ELSE 2 * payload[1]
Honest(raw) == raw[3] = raw[4] \/ Inflated(SubSeq(raw, HeaderSize + 1, Len(raw))) = raw[4]

\* Mutant of Kept: half a prefix at the end of the buffer is discarded too.
KeptNothing(bytes) == 0

\* response_prefix_suffix_length: a prefix may have arrived in part.
Kept(bytes) == IF bytes # <<>> /\ Last(bytes) = P THEN 1 ELSE 0

Ends(d, why) == [d EXCEPT !.end = why]

\* Mutant of Discard: each turn has the whole limit to itself.
DiscardForgetful(d, n) ==
    LET sum == [d EXCEPT !.discarded = n] IN
    IF n > MaxResync THEN Ends(sum, "resync")
    ELSE [sum EXCEPT !.buffer = SubSeq(d.buffer, n + 1, Len(d.buffer))]

\* discard_resync: one count for the whole generation.
Discard(d, n) ==
    LET sum == [d EXCEPT !.discarded = @ + n] IN
    IF sum.discarded > MaxResync THEN Ends(sum, "resync")
    ELSE [sum EXCEPT !.buffer = SubSeq(d.buffer, n + 1, Len(d.buffer))]

\* A decoder within a turn.
Decoders == [buffer : Seq(Nat), discarded : Nat, frames : Seq(Seq(Nat)), bytes : Nat,
             end : STRING]

\* decode_available: one frame after another, until the bytes or the budget
\* of the turn are used up, or something is wrong with them.
Decode(start, maxFrames, maxBytes) ==
    LET decode[d \in Decoders] ==
          IF PrefixesIn(d.buffer) = {}
          THEN LET rest == Discard(d, Len(d.buffer) - Kept(d.buffer)) IN
               IF rest.end = "none" THEN Ends(rest, "settled") ELSE rest
          ELSE
          LET e == Discard(d, First(PrefixesIn(d.buffer)) - 1)
              size == FrameSize(e.buffer)
              raw == SubSeq(e.buffer, 1, size) IN
          CASE e.end # "none" -> e
            [] e.end = "none" /\ Len(e.buffer) < HeaderSize -> Ends(e, "settled")
            [] e.end = "none" /\ Len(e.buffer) >= HeaderSize ->
               CASE TooLong(e.buffer) -> Ends(e, "too long")
                 [] ~TooLong(e.buffer) /\ Len(e.buffer) < size -> Ends(e, "settled")
                 [] ~TooLong(e.buffer) /\ Len(e.buffer) >= size ->
                    CASE \/ Len(e.frames) >= maxFrames
                         \/ e.bytes + raw[4] > maxBytes -> Ends(e, "exhausted")
                      [] Len(e.frames) < maxFrames /\ e.bytes + raw[4] <= maxBytes ->
                         LET f == [e EXCEPT !.buffer = SubSeq(@, size + 1, Len(@)),
                                            !.frames = Append(@, raw),
                                            !.bytes = @ + raw[4]] IN
                         IF Honest(raw) THEN decode[f] ELSE Ends(f, "invalid")
    IN decode[start]

Start(bytes, skipped) ==
    [buffer |-> bytes, discarded |-> skipped, frames |-> <<>>, bytes |-> 0, end |-> "none"]

\* An error takes the frames of its turn with it.
Becomes(d) ==
    /\ buffer' = d.buffer /\ discarded' = d.discarded
    /\ settled' = (d.end = "settled")
    /\ IF d.end \in {"settled", "exhausted"}
       THEN frames' = frames \o d.frames /\ UNCHANGED fault
       ELSE fault' = d.end /\ UNCHANGED frames

-----------------------------------------------------------------------------
(* Its callers. *)

Room == MaxBuffer - Len(buffer)
Rest == Len(stream) - at
Least(a, b) == IF a < b THEN a ELSE b

\* push: as many of the n bytes that arrived as there is room for.
Push(n) ==
    /\ fault = "none" /\ n <= Rest /\ Room > 0
    /\ at' = at + Least(n, Room)
    /\ buffer' = buffer \o SubSeq(stream, at + 1, at')
    /\ settled' = FALSE
    /\ UNCHANGED <<stream, discarded, frames, fault>>

\* decode_available, as a Slot's decode turn calls it.
DecodeTurn(maxFrames, maxBytes) ==
    /\ fault = "none"
    /\ Becomes(Decode(Start(buffer, discarded), maxFrames, maxBytes))
    /\ UNCHANGED <<stream, at>>

\* feed: push and decode until the n bytes are taken.
Feeding(start, all) ==
    LET feeding[d \in Decoders, bytes \in Seq(Nat)] ==
          LET n == Least(Len(bytes), MaxBuffer - Len(d.buffer))
              e == Decode([d EXCEPT !.buffer = @ \o SubSeq(bytes, 1, n)],
                          QueueFrames, QueueFrames * MaxPayload) IN
          CASE e.end = "exhausted" -> Ends(e, "queue")
            [] e.end = "settled" /\ n < Len(bytes) ->
               feeding[[e EXCEPT !.end = "none"], SubSeq(bytes, n + 1, Len(bytes))]
            [] OTHER -> e
    IN feeding[start, all]

Feed(n) ==
    /\ fault = "none" /\ n <= Rest
    /\ at' = at + n
    /\ Becomes(Feeding(Start(buffer, discarded), SubSeq(stream, at + 1, at + n)))
    /\ UNCHANGED stream

\* finish: at the end of the connection nothing may be left.
Finish ==
    /\ fault = "none" /\ Rest = 0
    /\ LET d == Decode(Start(buffer, discarded), QueueFrames, QueueFrames * MaxPayload) IN
       Becomes(CASE d.end = "settled" /\ d.buffer # <<>> -> Ends(d, "truncated")
                 [] d.end = "exhausted" -> Ends(d, "queue")
                 [] OTHER -> d)
    /\ UNCHANGED <<stream, at>>

DecoderNext ==
    \/ \E n \in 1 .. Rest : Push(n) \/ Feed(n)
    \/ \E f \in 1 .. 2, b \in {MaxPayload, 2 * MaxPayload} : DecodeTurn(f, b)
    \/ Finish

DecoderSpec == DecoderInit /\ [][DecoderNext]_decoderVars

-----------------------------------------------------------------------------
(* What a stream contains, read as a whole. *)

\* The frames from position i on, after `junk` bytes that started none; the
\* first thing that is wrong; and what is left at the end.
Reading[i \in Nat, junk \in Nat, found \in Seq(Seq(Nat))] ==
    LET starts == {j \in i .. Len(stream) : PrefixAt(stream, j)}
        none == starts = {}
        tail == SubSeq(stream, i, Len(stream))
        skipped == IF none THEN Len(tail) - Kept(tail) ELSE First(starts) - i
        rest == SubSeq(stream, i + skipped, Len(stream))
        Result(why) == [frames |-> found, fault |-> why, rest |-> rest] IN
    CASE junk + skipped > MaxResync -> Result("resync")
      [] junk + skipped <= MaxResync /\ (none \/ Len(rest) < HeaderSize) -> Result("none")
      [] junk + skipped <= MaxResync /\ ~none /\ Len(rest) >= HeaderSize ->
         LET size == FrameSize(rest)
             raw == SubSeq(rest, 1, size) IN
         CASE TooLong(rest) -> Result("too long")
           [] ~TooLong(rest) /\ Len(rest) < size -> Result("none")
           [] ~TooLong(rest) /\ Len(rest) >= size ->
              IF Honest(raw) THEN Reading[i + skipped + size, junk + skipped, Append(found, raw)]
              ELSE Result("invalid")

Meant == Reading[1, 0, <<>>]

DecoderTypeOK ==
    /\ at \in 0 .. Len(stream) /\ Len(buffer) <= MaxBuffer
    /\ discarded \in Nat /\ settled \in BOOLEAN
    /\ \A i \in DOMAIN frames : PrefixAt(frames[i], 1)
    /\ fault \in {"none", "resync", "too long", "invalid", "queue", "truncated"}

\* Whatever the chunks and the budgets of the turns, the frames returned are
\* those of the stream, in its order; once all has arrived and a turn has
\* settled they are all of them, and the buffer holds the start of a frame or
\* nothing; and an error is the stream's own (decode_available, feed, finish).
FramesAreTheStreams ==
    /\ IsPrefix(frames, Meant.frames)
    /\ fault = "none" /\ settled /\ Rest = 0 =>
          Meant.fault = "none" /\ frames = Meant.frames /\ buffer = Meant.rest
    /\ fault \in {"resync", "too long", "invalid"} => fault = Meant.fault
    /\ fault = "truncated" => Meant.fault = "none" /\ Meant.rest # <<>>
    /\ fault = "queue" => Len(Meant.frames) > QueueFrames \/ Meant.fault = "invalid"

\* A turn that is settled leaves room for more, so reading never stops with a
\* full buffer that no turn can empty (wire_read_capacity, slot.rs).
NeverFullOfNothing == settled => Len(buffer) < MaxBuffer
=============================================================================
