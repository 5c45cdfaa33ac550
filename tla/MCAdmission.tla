---------------------------- MODULE MCAdmission ----------------------------
(***************************************************************************)
(* Admission with a few requests, one Slot or two, and two engine epochs,  *)
(* and the refinement mapping onto SlotPool: the set of waiters, put in    *)
(* the order of their permits, is the pool's line.                         *)
(***************************************************************************)
EXTENDS Admission, Sequences, TLC

CONSTANT nobody

ASSUME NobodyAssumption == nobody \notin Requests

RequestSymmetry == Permutations(Requests)

\* The sequence of the requests in W, the least key first.
Arranged(W, key) ==
    CHOOSE s \in [1 .. Cardinality(W) -> W] :
        /\ \A r \in W : \E i \in DOMAIN s : s[i] = r
        /\ \A i, j \in DOMAIN s : i < j => key[s[i]] < key[s[j]]

Line == Arranged(waiting, [r \in waiting |-> ownership[r].id])

Holder == [s \in Slots |-> IF Held(s) = {} THEN nobody
                           ELSE CHOOSE r \in Held(s) : TRUE]

Pool == INSTANCE SlotPool WITH
    LineBound <- MaxPendingRequests,
    Nobody <- nobody,
    open <- Open,
    line <- Line,
    holder <- Holder

\* The permits, leases and counters of request.rs implement the abstract pool:
\* exclusive Slots, a line served at its head, nothing granted once closed.
ImplementsSlotPool == Pool!Spec
=============================================================================
