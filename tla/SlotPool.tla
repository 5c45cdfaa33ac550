------------------------------- MODULE SlotPool -------------------------------
(***************************************************************************)
(* What admission promises, without permits, leases, counters or epochs:   *)
(* a pool of Slots and one line of requests.  A Slot is held by at most    *)
(* one request; the line is a sequence that is joined only at its tail,    *)
(* left from anywhere, and served only at its head; nobody stands in line  *)
(* while a Slot is free; a closed pool has no line and grants nothing.     *)
(***************************************************************************)
EXTENDS Naturals, Sequences

CONSTANTS Requests, Slots, LineBound, Nobody

VARIABLES open, line, holder

poolVars == <<open, line, holder>>

Holding == {holder[s] : s \in Slots}
InLine == {line[i] : i \in DOMAIN line}
FreeSlots == {s \in Slots : holder[s] = Nobody}

\* rest is what is left of the line once the requests in gone have left it: the
\* others, in the order they stood in.
Remains(rest, gone) ==
    /\ rest \in Seq(InLine \ gone)
    /\ \A r \in InLine \ gone : \E i \in DOMAIN rest : rest[i] = r
    /\ \A i, j \in DOMAIN rest : i < j =>
          \E k, l \in DOMAIN line : k < l /\ line[k] = rest[i] /\ line[l] = rest[j]

Init ==
    /\ open = FALSE
    /\ line = <<>>
    /\ holder = [s \in Slots |-> Nobody]

OpenPool ==
    /\ ~open /\ Holding = {Nobody}
    /\ open' = TRUE
    /\ UNCHANGED <<line, holder>>

Join(r) ==
    /\ open /\ r \notin InLine \cup Holding
    /\ Len(line) < LineBound
    /\ FreeSlots = {} \/ line # <<>>
    /\ line' = Append(line, r)
    /\ UNCHANGED <<open, holder>>

Take(r, s) ==
    /\ open /\ r \notin InLine \cup Holding
    /\ line = <<>> /\ s \in FreeSlots
    /\ holder' = [holder EXCEPT ![s] = r]
    /\ UNCHANGED <<open, line>>

Leave(gone) ==
    /\ gone # {}
    /\ Remains(line', gone)
    /\ UNCHANGED <<open, holder>>

\* The Slot goes from its holder to the first in line once the requests in
\* gone, all of them before that one, have left the line.
HandOver(s, gone) ==
    /\ open /\ holder[s] # Nobody
    /\ \A i, j \in DOMAIN line : line[j] \in gone /\ i < j => line[i] \in gone
    /\ \E r \in InLine \ gone :
         /\ Remains(<<r>> \o line', gone)
         /\ holder' = [holder EXCEPT ![s] = r]
    /\ UNCHANGED open

\* The Slot becomes free: everyone in line left with it, or the pool is closed.
Free(s) ==
    /\ holder[s] # Nobody
    /\ holder' = [holder EXCEPT ![s] = Nobody]
    /\ line' = <<>>
    /\ UNCHANGED open

ClosePool ==
    /\ open
    /\ open' = FALSE
    /\ line' = <<>>
    /\ UNCHANGED holder

Next ==
    \/ OpenPool \/ ClosePool
    \/ \E r \in Requests : Join(r) \/ \E s \in Slots : Take(r, s)
    \/ \E gone \in SUBSET InLine : Leave(gone)
    \/ \E s \in Slots : Free(s) \/ \E gone \in SUBSET InLine : HandOver(s, gone)

Spec == Init /\ [][Next]_poolVars
=============================================================================
