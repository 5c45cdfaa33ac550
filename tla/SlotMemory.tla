----------------------------- MODULE SlotMemory -----------------------------
(***************************************************************************)
(* The memory budget of an engine (memory.rs) and the workers that read    *)
(* under it (slot.rs, read_matching_response and read_idle_push_turn in    *)
(* engine.rs), on several threads: what one atomic operation does is one   *)
(* step.  Bytes that were read are raw until a turn decodes them; a turn   *)
(* reserves its whole share of decoded bytes, decodes, gives back what it  *)
(* did not need and, once its frames are routed, the rest.                 *)
(*                                                                         *)
(* A frame is FrameRaw bytes on the wire and FrameDecoded bytes decoded.   *)
(***************************************************************************)
EXTENDS Integers, FiniteSets, FiniteSetsExt, Functions

CONSTANTS
    Readers,        \* the Slots' workers
    RawMax,         \* global_raw_bytes
    Staging,        \* MAX_RAW_STAGING_BUFFER_SIZE of one Slot
    DecodedMax,     \* global_decoded_bytes
    Share,          \* SLOT_DECODED_BUDGET_BYTES of one turn
    FrameRaw,
    FrameDecoded

MemoryAssumption ==
    /\ {RawMax, Staging, DecodedMax, Share, FrameRaw, FrameDecoded} \subseteq Nat \ {0}
    /\ FrameRaw <= Staging /\ Staging <= RawMax
    /\ FrameDecoded <= Share /\ Share <= DecodedMax

VARIABLES
    raw,        \* raw_bytes
    decoded,    \* decoded_bytes
    reader,     \* each worker: where it is, its raw_reserved, what it holds of the
                \* decoded budget, and the bytes it has read and not yet reserved
    permit      \* the permits raw_released and decoded_released hold for the next waiter

memoryVars == <<raw, decoded, reader, permit>>

Resources == {"raw", "decoded"}
Asleep == [raw |-> "rawAsleep", decoded |-> "decodedAsleep"]
Waits == [raw |-> "rawFull", decoded |-> "decodedFull"]

MemoryTypeOK ==
    /\ raw \in Nat /\ decoded \in Nat
    /\ reader \in [Readers -> [at : {"turn", "decode", "trim", "route", "look", "readable",
                                     "reserve", "ready", "broken"}
                                   \cup Range(Asleep) \cup Range(Waits),
                               raw : 0 .. Staging, decoded : 0 .. Share, read : 0 .. Staging]]
    /\ permit \in [Resources -> BOOLEAN]

MemoryInit ==
    /\ raw = 0
    /\ decoded = 0
    /\ reader = [s \in Readers |-> [at |-> "turn", raw |-> 0, decoded |-> 0, read |-> 0]]
    /\ permit = [r \in Resources |-> FALSE]

-----------------------------------------------------------------------------
(* Notify: a release wakes whoever sleeps, and leaves a permit for the next *)
(* one that comes to sleep.                                                *)

\* The readers after s is at its next step and a release of r has woken the
\* others.
Woken(next, resources) ==
    [t \in Readers |->
        IF \E r \in resources : next[t].at = Asleep[r] THEN [next[t] EXCEPT !.at = "turn"]
        ELSE next[t]]

\* Mutant of Released: only those that sleep already are told.
ReleasedToSleepers(next, resources) ==
    reader' = Woken(next, resources) /\ UNCHANGED permit

Released(next, resources) ==
    /\ reader' = Woken(next, resources)
    /\ permit' = [r \in Resources |-> permit[r] \/ r \in resources]

Some(r, bytes) == IF bytes > 0 THEN {r} ELSE {}

-----------------------------------------------------------------------------
(* A worker that waits for an answer, or reads pushes                      *)

\* decode_turn reserves its share, or there is none and the worker is to wait.
ReserveTurn(s) ==
    /\ reader[s].at = "turn"
    /\ IF decoded + Share <= DecodedMax
       THEN /\ decoded' = decoded + Share
            /\ reader' = [reader EXCEPT ![s].at = "decode", ![s].decoded = Share]
       ELSE /\ reader' = [reader EXCEPT ![s].at = Waits["decoded"]]
            /\ UNCHANGED decoded
    /\ UNCHANGED <<raw, permit>>

\* The frames that are complete in so many raw bytes, within a turn's share.
Complete(bytes) ==
    LET fits == { k \in 0 .. bytes : k * FrameRaw <= bytes /\ k * FrameDecoded <= Share }
    IN  CHOOSE k \in fits : \A j \in fits : j <= k

\* The decoder takes the complete frames out; their raw bytes are released.
Decode(s) ==
    LET k == Complete(reader[s].raw)
        consumed == k * FrameRaw
    IN  /\ reader[s].at = "decode"
        /\ raw' = raw - consumed
        /\ Released([reader EXCEPT ![s].at = "trim", ![s].raw = @ - consumed,
                                   ![s].read = k * FrameDecoded],
                    Some("raw", consumed))
        /\ UNCHANGED decoded

\* The unused part of the share goes back.
Trim(s) ==
    LET rest == reader[s].decoded - reader[s].read
    IN  /\ reader[s].at = "trim"
        /\ decoded' = decoded - rest
        /\ Released([reader EXCEPT ![s].at = "route", ![s].decoded = @ - rest, ![s].read = 0],
                    Some("decoded", rest))
        /\ UNCHANGED raw

\* route_decoded_turn releases the frames it routes; one of them may be the
\* answer.
Route(s) ==
    \E next \in {"look"} \cup (IF reader[s].decoded > 0 THEN {"ready"} ELSE {}) :
        /\ reader[s].at = "route"
        /\ decoded' = decoded - reader[s].decoded
        /\ Released([reader EXCEPT ![s].at = next, ![s].decoded = 0],
                    Some("decoded", reader[s].decoded))
        /\ UNCHANGED raw

\* The Slot is idle, or the next request begins to read.
TurnAgain(s) ==
    /\ reader[s].at = "ready"
    /\ reader' = [reader EXCEPT ![s].at = "turn"]
    /\ UNCHANGED <<raw, decoded, permit>>

\* wire_read_capacity: none, or so much is read from the socket later.
Room(s) == IF Staging - reader[s].raw < RawMax - raw THEN Staging - reader[s].raw
               ELSE RawMax - raw
Look(s) ==
    /\ reader[s].at = "look"
    /\ IF Room(s) = 0
       THEN reader' = [reader EXCEPT ![s].at = Waits["raw"]]
       ELSE reader' = [reader EXCEPT ![s].at = "readable", ![s].read = Room(s)]
    /\ UNCHANGED <<raw, decoded, permit>>

\* The socket gives up to so many bytes.
ReadSome(s) ==
    /\ reader[s].at = "readable"
    /\ \E n \in 1 .. reader[s].read :
          reader' = [reader EXCEPT ![s].at = "reserve", ![s].read = n]
    /\ UNCHANGED <<raw, decoded, permit>>

\* push_wire_bytes looks at the capacity again.  If another worker was faster,
\* the bytes do not all fit, and the connection is given up.
Reserve(s) ==
    LET fits == reader[s].read <= Room(s)
        taken == IF fits THEN reader[s].read ELSE Room(s)
    IN  /\ reader[s].at = "reserve"
        /\ raw' = raw + taken
        /\ reader' = [reader EXCEPT ![s].at = IF fits THEN "turn" ELSE "broken",
                                    ![s].raw = @ + taken, ![s].read = 0]
        /\ UNCHANGED <<decoded, permit>>

\* wait_for_raw_release, wait_for_decoded_release.
FallAsleep(s, r) ==
    /\ reader[s].at = Waits[r]
    /\ reader' = [reader EXCEPT ![s].at = IF permit[r] THEN "turn" ELSE Asleep[r]]
    /\ permit' = [permit EXCEPT ![r] = FALSE]
    /\ UNCHANGED <<raw, decoded>>

\* The worker of an idle Slot does not sleep; its tick brings it back.
TickAgain(s) ==
    /\ reader[s].at \in Range(Waits)
    /\ reader' = [reader EXCEPT ![s].at = "turn"]
    /\ UNCHANGED <<raw, decoded, permit>>

-----------------------------------------------------------------------------
(* Failures                                                                *)

\* Mutant of DecodeFails: the share of the turn is not given back.
DecodeFailsHolding(s) ==
    /\ reader[s].at = "decode"
    /\ reader' = [reader EXCEPT ![s].at = "broken", ![s].decoded = 0]
    /\ UNCHANGED <<raw, decoded, permit>>

\* decode_turn fails behind some frames that it has taken out already.
DecodeFails(s) ==
    \E k \in 0 .. Complete(reader[s].raw) :
        /\ reader[s].at = "decode"
        /\ raw' = raw - k * FrameRaw
        /\ decoded' = decoded - Share
        /\ Released([reader EXCEPT ![s].at = "broken", ![s].raw = @ - k * FrameRaw,
                                   ![s].decoded = 0],
                    {"decoded"} \cup Some("raw", k * FrameRaw))

\* A frame without a message identity.
RouteFails(s) ==
    /\ reader[s].at = "route"
    /\ reader[s].decoded > 0
    /\ reader' = [reader EXCEPT ![s].at = "broken"]
    /\ UNCHANGED <<raw, decoded, permit>>

\* The generation is dropped: after a failure, or when a deadline or an
\* interrupt ends a wait.
Retire(s) ==
    /\ reader[s].at \in {"broken", "readable"} \cup Range(Asleep) \cup Range(Waits)
    /\ raw' = raw - reader[s].raw
    /\ decoded' = decoded - reader[s].decoded
    /\ Released([reader EXCEPT ![s] = [at |-> "turn", raw |-> 0, decoded |-> 0, read |-> 0]],
                Some("raw", reader[s].raw) \cup Some("decoded", reader[s].decoded))

ReaderStep(s) ==
    \/ ReserveTurn(s) \/ Decode(s) \/ Trim(s) \/ Route(s) \/ TurnAgain(s)
    \/ Look(s) \/ ReadSome(s) \/ Reserve(s) \/ TickAgain(s)
    \/ \E r \in Resources : FallAsleep(s, r)
    \/ DecodeFails(s) \/ RouteFails(s) \/ Retire(s)

MemoryNext == \E s \in Readers : ReaderStep(s)
MemorySpec == MemoryInit /\ [][MemoryNext]_memoryVars

-----------------------------------------------------------------------------

\* The budgets count exactly what the Slots hold, within their limits, at every
\* step and after every failure (memory.rs; Slot::check_decode_invariants,
\* check_empty at close; docs/THREADING_SCALE_PLAN.md:168-190).
MemoryIsAccounted ==
    /\ raw = MapThenSumSet(LAMBDA s : reader[s].raw, Readers)
    /\ decoded = MapThenSumSet(LAMBDA s : reader[s].decoded, Readers)
    /\ raw <= RawMax
    /\ decoded <= DecodedMax

\* The workers do not all sleep while there is memory for one of them: a
\* release that falls between a worker's look and its sleep is not lost
\* (memory.rs, release_raw and release_decoded).
SomebodyIsAwake ==
    (\A s \in Readers : reader[s].at \in Range(Asleep)) =>
        \A s \in Readers :
            /\ reader[s].at = Asleep["raw"] => Room(s) = 0
            /\ reader[s].at = Asleep["decoded"] => decoded + Share > DecodedMax
=============================================================================
