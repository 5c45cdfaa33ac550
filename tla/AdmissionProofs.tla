--------------------------- MODULE AdmissionProofs ---------------------------
(***************************************************************************)
(* Proofs about Admission, for every number of requests, Slots, permits    *)
(* and epochs.  A lemma per named part of the invariant says that every    *)
(* operation keeps it; the theorems at the end put the parts together.     *)
(*                                                                         *)
(* What a request owns, the two lines and the Slots need each other: a     *)
(* waiter is disowned without a look at the Slots because only permits     *)
(* stand in line (LinesHoldPermits), and a new lease is unlike every other *)
(* because the counter is ahead of them all (CounterAhead).  The order of  *)
(* the FIFO needs the history of the permits (PermitsAreOnce).             *)
(***************************************************************************)
EXTENDS MCAdmission, FiniteSetTheorems, WellFoundedInduction, TLAPS

\* Every operation keeps the type of every variable.
LEMMA TypeStep == TypeOK /\ [Next]_vars => TypeOK'
<1> SUFFICES ASSUME TypeOK, [Next]_vars PROVE TypeOK'
  OBVIOUS
<1> USE DEF TypeOK, Slots, Id, NoOwner, Permit, Lease, Outcome, Waiters,
            NewLease, NewPermit, Disown, OwnsSlot, LiveWaiters, Open
<1> USE PoolSizeAssumption
<1>1. CASE UNCHANGED vars
  BY <1>1 DEF vars, admissionVars
<1>2. ASSUME NEW e \in 1 .. MaxEpoch, NextEpoch(e) PROVE TypeOK'
  <2>1. e \in Nat
    BY MaxEpochAssumption
  <2> QED
    BY <1>2, <2>1 DEF NextEpoch, OpenEpoch
<1>3. ASSUME NEW r \in Requests, SubmitDirect(r) PROVE TypeOK'
  BY <1>3 DEF SubmitDirect, Grant
<1>4. ASSUME NEW r \in Requests, SubmitWaiting(r) PROVE TypeOK'
  BY <1>4 DEF SubmitWaiting, TakePermit
<1>5. ASSUME NEW r \in Requests, Refuse(r) PROVE TypeOK'
  BY <1>5 DEF Refuse, admissionVars
<1>6. ASSUME NEW r \in Requests, ReservePinWaiting(r) PROVE TypeOK'
  BY <1>6 DEF ReservePinWaiting, TakePermit
<1>7. ASSUME NEW r \in Requests, Elapse(r) PROVE TypeOK'
  BY <1>7 DEF Elapse, admissionVars
<1>8. ASSUME NEW r \in Requests, NEW s \in Slots, ClaimIdleForHeartbeat(r, s) PROVE TypeOK'
  BY <1>8 DEF ClaimIdleForHeartbeat, Grant
<1>9. ASSUME NEW h \in handles, h.kind = "permit", ReleasePinWaiting(h) PROVE TypeOK'
  BY <1>9 DEF ReleasePinWaiting
<1>10. ASSUME NEW h \in handles, h.kind = "permit", CancelWaiting(h) PROVE TypeOK'
  BY <1>10 DEF CancelWaiting
<1>11. ASSUME NEW h \in handles, h.kind = "lease", ReleaseAndPromote(h) PROVE TypeOK'
  BY <1>11 DEF ReleaseAndPromote, AfterRelease, FirstLiveWaiter
<1>12. ASSUME NEW h \in handles, h.kind = "lease", ReleaseToIdle(h) PROVE TypeOK'
  BY <1>12 DEF ReleaseToIdle, AfterRelease
<1>13. CASE ExpireWaiting
  BY <1>13 DEF ExpireWaiting
<1>14. CASE Seal
  BY <1>14 DEF Seal
<1>15. CASE CloseComplete
  BY <1>15 DEF CloseComplete
<1> QED
  BY <1>1, <1>2, <1>3, <1>4, <1>5, <1>6, <1>7, <1>8, <1>9, <1>10, <1>11, <1>12,
     <1>13, <1>14, <1>15 DEF Next, ReleaseActive

-----------------------------------------------------------------------------
(* The parts of the invariant that the module Admission does not name. *)

\* In each line exactly the holders of a permit, and nobody in both.
LinesHoldPermits ==
    /\ waiting \cap pinWaiting = {}
    /\ \A r \in Requests : ownership[r].kind = "permit" <=> r \in Waiters

\* No lease id is handed out twice: the counter is ahead of every lease.
CounterAhead ==
    \A r \in Requests : ownership[r].kind = "lease" => ownership[r].id <= leaseCounter

\* Every permit ever handed out: its id was taken from the counter, its request
\* was new then, and what a request waits under is one of them.
PermitsAreOnce ==
    /\ \A h \in handles : outcome[h.request] # "unseen"
    /\ \A r \in Requests : ownership[r].kind = "permit" =>
          ownership[r] \in handles /\ ownership[r].request = r
    /\ \A p \in handles : p.kind = "permit" => p.id <= permitCounter
    /\ \A p, q \in handles : p.kind = "permit" /\ q.kind = "permit" =>
          /\ p.id = q.id => p = q
          /\ p.request = q.request => p = q

Budget == Cardinality(Waiters) <= MaxPendingRequests

Inv ==
    /\ TypeOK
    /\ LinesHoldPermits /\ Budget
    /\ CounterAhead /\ SlotsHaveOneOwner
    /\ NobodyWaitsForAnIdleSlot
    /\ PermitsAreOnce /\ NoOvertaking
    /\ AnswersMatchOwnership
    /\ OwnersAreOfThisEpoch

-----------------------------------------------------------------------------
\* Permits and places in line come and go together, in every operation.
LEMMA LinesStep == TypeOK /\ LinesHoldPermits /\ [Next]_vars => LinesHoldPermits'
<1> SUFFICES ASSUME TypeOK, LinesHoldPermits, [Next]_vars PROVE LinesHoldPermits'
  OBVIOUS
<1> USE DEF LinesHoldPermits, NoOwner, Permit, Lease, TypeOK, Waiters, Id
<1>1. CASE UNCHANGED vars
  BY <1>1 DEF vars, admissionVars
<1>2. ASSUME NEW e \in 1 .. MaxEpoch, NextEpoch(e) PROVE LinesHoldPermits'
  BY <1>2 DEF NextEpoch, OpenEpoch
<1>3. ASSUME NEW r \in Requests, SubmitDirect(r) PROVE LinesHoldPermits'
  BY <1>3 DEF SubmitDirect, Grant, Fresh, NewLease
<1>4. ASSUME NEW r \in Requests, SubmitWaiting(r) PROVE LinesHoldPermits'
  BY <1>4 DEF SubmitWaiting, TakePermit, Fresh, NewPermit
<1>5. ASSUME NEW r \in Requests, Refuse(r) PROVE LinesHoldPermits'
  BY <1>5 DEF Refuse, admissionVars, Fresh
<1>6. ASSUME NEW r \in Requests, ReservePinWaiting(r) PROVE LinesHoldPermits'
  BY <1>6 DEF ReservePinWaiting, TakePermit, Fresh, NewPermit
<1>7. ASSUME NEW r \in Requests, Elapse(r) PROVE LinesHoldPermits'
  BY <1>7 DEF Elapse, admissionVars
<1>8. ASSUME NEW r \in Requests, NEW s \in Slots, ClaimIdleForHeartbeat(r, s) PROVE LinesHoldPermits'
  BY <1>8 DEF ClaimIdleForHeartbeat, Grant, Fresh, NewLease
<1>9. ASSUME NEW h \in handles, h.kind = "permit", ReleasePinWaiting(h) PROVE LinesHoldPermits'
  BY <1>9 DEF ReleasePinWaiting, Disown
<1>10. ASSUME NEW h \in handles, h.kind = "permit", CancelWaiting(h) PROVE LinesHoldPermits'
  BY <1>10 DEF CancelWaiting, Disown
<1>11. ASSUME NEW h \in handles, h.kind = "lease", ReleaseAndPromote(h) PROVE LinesHoldPermits'
  BY <1>11 DEF ReleaseAndPromote, AfterRelease, FirstLiveWaiter, OwnsSlot, ExpiredFront,
       LiveWaiters, NewLease
<1>12. ASSUME NEW h \in handles, h.kind = "lease", ReleaseToIdle(h) PROVE LinesHoldPermits'
  BY <1>12 DEF ReleaseToIdle, AfterRelease, OwnsSlot, ExpiredFront
<1>13. CASE ExpireWaiting
  BY <1>13 DEF ExpireWaiting, Disown, LiveWaiters, Live
<1>14. CASE Seal
  BY <1>14 DEF Seal, Disown
<1>15. CASE CloseComplete
  BY <1>15 DEF CloseComplete
<1> QED
  BY <1>1, <1>2, <1>3, <1>4, <1>5, <1>6, <1>7, <1>8, <1>9, <1>10, <1>11, <1>12, <1>13, <1>14, <1>15 DEF Next,
       ReleaseActive

\* The count of waiters when none joins, and when one does.
LEMMA FewerWait ==
  ASSUME TypeOK, Cardinality(Waiters) <= MaxPendingRequests, Waiters' \subseteq Waiters
  PROVE  Cardinality(Waiters') <= MaxPendingRequests
<1>1. IsFiniteSet(Waiters)
  BY RequestsAssumption, FS_Subset DEF TypeOK, Waiters
<1>2. IsFiniteSet(Waiters') /\ Cardinality(Waiters') <= Cardinality(Waiters)
  BY <1>1, FS_Subset
<1>3. Cardinality(Waiters) \in Nat /\ Cardinality(Waiters') \in Nat
  BY <1>1, <1>2, FS_CardinalityType
<1> QED
  BY <1>2, <1>3, MaxPendingAssumption

LEMMA OneMoreWaits ==
  ASSUME TypeOK, Cardinality(Waiters) < MaxPendingRequests, NEW r, Waiters' = Waiters \cup {r}
  PROVE  Cardinality(Waiters') <= MaxPendingRequests
<1>1. IsFiniteSet(Waiters)
  BY RequestsAssumption, FS_Subset DEF TypeOK, Waiters
<1>2. /\ IsFiniteSet(Waiters')
      /\ \/ Cardinality(Waiters') = Cardinality(Waiters)
         \/ Cardinality(Waiters') = Cardinality(Waiters) + 1
  BY <1>1, FS_AddElement
<1>3. Cardinality(Waiters) \in Nat /\ Cardinality(Waiters') \in Nat
  BY <1>1, <1>2, FS_CardinalityType
<1> QED
  BY <1>2, <1>3, MaxPendingAssumption

\* The two lines share the budget of permits: only two operations add a waiter,
\* and both look at the budget first.
LEMMA BudgetStep == TypeOK /\ Budget /\ [Next]_vars => Budget'
<1> SUFFICES ASSUME TypeOK, Cardinality(Waiters) <= MaxPendingRequests, [Next]_vars
             PROVE  Cardinality(Waiters') <= MaxPendingRequests
  BY DEF Budget
<1>1. ASSUME NEW r \in Requests, SubmitWaiting(r) \/ ReservePinWaiting(r)
      PROVE  Cardinality(Waiters') <= MaxPendingRequests
  <2>1. Waiters' = Waiters \cup {r} /\ Cardinality(Waiters) < MaxPendingRequests
    BY <1>1 DEF SubmitWaiting, ReservePinWaiting, Waiters
  <2> QED
    BY <2>1, OneMoreWaits
<1>2. CASE UNCHANGED vars \/ ~ \E r \in Requests : SubmitWaiting(r) \/ ReservePinWaiting(r)
  <2>1. Waiters' \subseteq Waiters
    BY <1>2 DEF vars, admissionVars, Waiters, LiveWaiters, Next, NextEpoch, OpenEpoch,
                SubmitDirect, Refuse, Elapse, ClaimIdleForHeartbeat, ReleasePinWaiting,
                CancelWaiting, ReleaseActive, ReleaseAndPromote, ReleaseToIdle,
                ExpireWaiting, Seal, CloseComplete
  <2> QED
    BY <2>1, FewerWait
<1> QED
  BY <1>1, <1>2

\* A lease's id is the counter's next value, and the counter never goes back.
LEMMA CounterStep == TypeOK /\ CounterAhead /\ [Next]_vars => CounterAhead'
<1> SUFFICES ASSUME TypeOK, CounterAhead, [Next]_vars PROVE CounterAhead'
  OBVIOUS
<1> USE DEF CounterAhead, NoOwner, Permit, Lease, TypeOK, Waiters, Id
<1>1. CASE UNCHANGED vars
  BY <1>1 DEF vars, admissionVars
<1>2. ASSUME NEW e \in 1 .. MaxEpoch, NextEpoch(e) PROVE CounterAhead'
  BY <1>2 DEF NextEpoch, OpenEpoch
<1>3. ASSUME NEW r \in Requests, SubmitDirect(r) PROVE CounterAhead'
  BY <1>3 DEF SubmitDirect, Grant, Fresh, NewLease
<1>4. ASSUME NEW r \in Requests, SubmitWaiting(r) PROVE CounterAhead'
  BY <1>4 DEF SubmitWaiting, TakePermit, Fresh, NewPermit
<1>5. ASSUME NEW r \in Requests, Refuse(r) PROVE CounterAhead'
  BY <1>5 DEF Refuse, admissionVars, Fresh
<1>6. ASSUME NEW r \in Requests, ReservePinWaiting(r) PROVE CounterAhead'
  BY <1>6 DEF ReservePinWaiting, TakePermit, Fresh, NewPermit
<1>7. ASSUME NEW r \in Requests, Elapse(r) PROVE CounterAhead'
  BY <1>7 DEF Elapse, admissionVars
<1>8. ASSUME NEW r \in Requests, NEW s \in Slots, ClaimIdleForHeartbeat(r, s) PROVE CounterAhead'
  BY <1>8 DEF ClaimIdleForHeartbeat, Grant, Fresh, NewLease
<1>9. ASSUME NEW h \in handles, h.kind = "permit", ReleasePinWaiting(h) PROVE CounterAhead'
  BY <1>9 DEF ReleasePinWaiting, Disown
<1>10. ASSUME NEW h \in handles, h.kind = "permit", CancelWaiting(h) PROVE CounterAhead'
  BY <1>10 DEF CancelWaiting, Disown
<1>11. ASSUME NEW h \in handles, h.kind = "lease", ReleaseAndPromote(h) PROVE CounterAhead'
  BY <1>11 DEF ReleaseAndPromote, AfterRelease, FirstLiveWaiter, OwnsSlot, ExpiredFront,
       LiveWaiters, NewLease
<1>12. ASSUME NEW h \in handles, h.kind = "lease", ReleaseToIdle(h) PROVE CounterAhead'
  BY <1>12 DEF ReleaseToIdle, AfterRelease, OwnsSlot, ExpiredFront
<1>13. CASE ExpireWaiting
  BY <1>13 DEF ExpireWaiting, Disown, LiveWaiters, Live
<1>14. CASE Seal
  BY <1>14 DEF Seal, Disown
<1>15. CASE CloseComplete
  BY <1>15 DEF CloseComplete
<1> QED
  BY <1>1, <1>2, <1>3, <1>4, <1>5, <1>6, <1>7, <1>8, <1>9, <1>10, <1>11, <1>12, <1>13, <1>14, <1>15 DEF Next,
       ReleaseActive

\* A Slot changes hands only with the lease that holds it.
LEMMA SlotsStep == TypeOK /\ LinesHoldPermits /\ CounterAhead /\ SlotsHaveOneOwner /\ [Next]_vars => SlotsHaveOneOwner'
<1> SUFFICES ASSUME TypeOK, LinesHoldPermits, CounterAhead, SlotsHaveOneOwner, [Next]_vars PROVE SlotsHaveOneOwner'
  OBVIOUS
<1> USE DEF LinesHoldPermits, CounterAhead, SlotsHaveOneOwner, Open, NoOwner, Permit,
            Lease, TypeOK, Waiters, Id
<1>1. CASE UNCHANGED vars
  BY <1>1 DEF vars, admissionVars
<1>2. ASSUME NEW e \in 1 .. MaxEpoch, NextEpoch(e) PROVE SlotsHaveOneOwner'
  BY <1>2 DEF NextEpoch, OpenEpoch
<1>3. ASSUME NEW r \in Requests, SubmitDirect(r) PROVE SlotsHaveOneOwner'
  BY <1>3 DEF SubmitDirect, Grant, Fresh, NewLease
<1>4. ASSUME NEW r \in Requests, SubmitWaiting(r) PROVE SlotsHaveOneOwner'
  BY <1>4 DEF SubmitWaiting, TakePermit, Fresh, NewPermit
<1>5. ASSUME NEW r \in Requests, Refuse(r) PROVE SlotsHaveOneOwner'
  BY <1>5 DEF Refuse, admissionVars, Fresh
<1>6. ASSUME NEW r \in Requests, ReservePinWaiting(r) PROVE SlotsHaveOneOwner'
  BY <1>6 DEF ReservePinWaiting, TakePermit, Fresh, NewPermit
<1>7. ASSUME NEW r \in Requests, Elapse(r) PROVE SlotsHaveOneOwner'
  BY <1>7 DEF Elapse, admissionVars
<1>8. ASSUME NEW r \in Requests, NEW s \in Slots, ClaimIdleForHeartbeat(r, s) PROVE SlotsHaveOneOwner'
  BY <1>8 DEF ClaimIdleForHeartbeat, Grant, Fresh, NewLease
<1>9. ASSUME NEW h \in handles, h.kind = "permit", ReleasePinWaiting(h) PROVE SlotsHaveOneOwner'
  BY <1>9 DEF ReleasePinWaiting, Disown
<1>10. ASSUME NEW h \in handles, h.kind = "permit", CancelWaiting(h) PROVE SlotsHaveOneOwner'
  BY <1>10 DEF CancelWaiting, Disown
<1>11. ASSUME NEW h \in handles, h.kind = "lease", ReleaseAndPromote(h) PROVE SlotsHaveOneOwner'
  BY <1>11 DEF ReleaseAndPromote, AfterRelease, FirstLiveWaiter, OwnsSlot, ExpiredFront,
       LiveWaiters, NewLease
<1>12. ASSUME NEW h \in handles, h.kind = "lease", ReleaseToIdle(h) PROVE SlotsHaveOneOwner'
  BY <1>12 DEF ReleaseToIdle, AfterRelease, OwnsSlot, ExpiredFront
<1>13. CASE ExpireWaiting
  BY <1>13 DEF ExpireWaiting, Disown, LiveWaiters, Live
<1>14. CASE Seal
  BY <1>14 DEF Seal, Disown
<1>15. CASE CloseComplete
  BY <1>15 DEF CloseComplete
<1> QED
  BY <1>1, <1>2, <1>3, <1>4, <1>5, <1>6, <1>7, <1>8, <1>9, <1>10, <1>11, <1>12, <1>13, <1>14, <1>15 DEF Next,
       ReleaseActive

\* A Slot becomes idle only when its release left nobody in the FIFO.
LEMMA IdleStep == TypeOK /\ NobodyWaitsForAnIdleSlot /\ [Next]_vars => NobodyWaitsForAnIdleSlot'
<1> SUFFICES ASSUME TypeOK, NobodyWaitsForAnIdleSlot, [Next]_vars PROVE NobodyWaitsForAnIdleSlot'
  OBVIOUS
<1> USE DEF NobodyWaitsForAnIdleSlot, LiveWaiters, Live, NoOwner, Permit, Lease, TypeOK,
            Waiters, Id
<1>1. CASE UNCHANGED vars
  BY <1>1 DEF vars, admissionVars
<1>2. ASSUME NEW e \in 1 .. MaxEpoch, NextEpoch(e) PROVE NobodyWaitsForAnIdleSlot'
  BY <1>2 DEF NextEpoch, OpenEpoch
<1>3. ASSUME NEW r \in Requests, SubmitDirect(r) PROVE NobodyWaitsForAnIdleSlot'
  BY <1>3 DEF SubmitDirect, Grant, Fresh, NewLease
<1>4. ASSUME NEW r \in Requests, SubmitWaiting(r) PROVE NobodyWaitsForAnIdleSlot'
  BY <1>4 DEF SubmitWaiting, TakePermit, Fresh, NewPermit
<1>5. ASSUME NEW r \in Requests, Refuse(r) PROVE NobodyWaitsForAnIdleSlot'
  BY <1>5 DEF Refuse, admissionVars, Fresh
<1>6. ASSUME NEW r \in Requests, ReservePinWaiting(r) PROVE NobodyWaitsForAnIdleSlot'
  BY <1>6 DEF ReservePinWaiting, TakePermit, Fresh, NewPermit
<1>7. ASSUME NEW r \in Requests, Elapse(r) PROVE NobodyWaitsForAnIdleSlot'
  BY <1>7 DEF Elapse, admissionVars
<1>8. ASSUME NEW r \in Requests, NEW s \in Slots, ClaimIdleForHeartbeat(r, s) PROVE NobodyWaitsForAnIdleSlot'
  BY <1>8 DEF ClaimIdleForHeartbeat, Grant, Fresh, NewLease
<1>9. ASSUME NEW h \in handles, h.kind = "permit", ReleasePinWaiting(h) PROVE NobodyWaitsForAnIdleSlot'
  BY <1>9 DEF ReleasePinWaiting, Disown
<1>10. ASSUME NEW h \in handles, h.kind = "permit", CancelWaiting(h) PROVE NobodyWaitsForAnIdleSlot'
  BY <1>10 DEF CancelWaiting, Disown
<1>11. ASSUME NEW h \in handles, h.kind = "lease", ReleaseAndPromote(h) PROVE NobodyWaitsForAnIdleSlot'
  BY <1>11 DEF ReleaseAndPromote, AfterRelease, FirstLiveWaiter, OwnsSlot, ExpiredFront,
       LiveWaiters, NewLease
<1>12. ASSUME NEW h \in handles, h.kind = "lease", ReleaseToIdle(h) PROVE NobodyWaitsForAnIdleSlot'
  BY <1>12 DEF ReleaseToIdle, AfterRelease, OwnsSlot, ExpiredFront
<1>13. CASE ExpireWaiting
  BY <1>13 DEF ExpireWaiting, Disown, LiveWaiters, Live
<1>14. CASE Seal
  BY <1>14 DEF Seal, Disown
<1>15. CASE CloseComplete
  BY <1>15 DEF CloseComplete
<1> QED
  BY <1>1, <1>2, <1>3, <1>4, <1>5, <1>6, <1>7, <1>8, <1>9, <1>10, <1>11, <1>12, <1>13, <1>14, <1>15 DEF Next,
       ReleaseActive

\* Permits are numbered upwards, one for a request.
LEMMA PermitsStep == TypeOK /\ PermitsAreOnce /\ [Next]_vars => PermitsAreOnce'
<1> SUFFICES ASSUME TypeOK, PermitsAreOnce, [Next]_vars PROVE PermitsAreOnce'
  OBVIOUS
<1> USE DEF PermitsAreOnce, Outcome, NoOwner, Permit, Lease, TypeOK, Waiters, Id
<1>1. CASE UNCHANGED vars
  BY <1>1 DEF vars, admissionVars
<1>2. ASSUME NEW e \in 1 .. MaxEpoch, NextEpoch(e) PROVE PermitsAreOnce'
  BY <1>2 DEF NextEpoch, OpenEpoch
<1>3. ASSUME NEW r \in Requests, SubmitDirect(r) PROVE PermitsAreOnce'
  BY <1>3 DEF SubmitDirect, Grant, Fresh, NewLease
<1>4. ASSUME NEW r \in Requests, SubmitWaiting(r) PROVE PermitsAreOnce'
  BY <1>4 DEF SubmitWaiting, TakePermit, Fresh, NewPermit
<1>5. ASSUME NEW r \in Requests, Refuse(r) PROVE PermitsAreOnce'
  BY <1>5 DEF Refuse, admissionVars, Fresh
<1>6. ASSUME NEW r \in Requests, ReservePinWaiting(r) PROVE PermitsAreOnce'
  BY <1>6 DEF ReservePinWaiting, TakePermit, Fresh, NewPermit
<1>7. ASSUME NEW r \in Requests, Elapse(r) PROVE PermitsAreOnce'
  BY <1>7 DEF Elapse, admissionVars
<1>8. ASSUME NEW r \in Requests, NEW s \in Slots, ClaimIdleForHeartbeat(r, s) PROVE PermitsAreOnce'
  BY <1>8 DEF ClaimIdleForHeartbeat, Grant, Fresh, NewLease
<1>9. ASSUME NEW h \in handles, h.kind = "permit", ReleasePinWaiting(h) PROVE PermitsAreOnce'
  BY <1>9 DEF ReleasePinWaiting, Disown
<1>10. ASSUME NEW h \in handles, h.kind = "permit", CancelWaiting(h) PROVE PermitsAreOnce'
  BY <1>10 DEF CancelWaiting, Disown
<1>11. ASSUME NEW h \in handles, h.kind = "lease", ReleaseAndPromote(h) PROVE PermitsAreOnce'
  BY <1>11 DEF ReleaseAndPromote, AfterRelease, FirstLiveWaiter, OwnsSlot, ExpiredFront,
       LiveWaiters, NewLease
<1>12. ASSUME NEW h \in handles, h.kind = "lease", ReleaseToIdle(h) PROVE PermitsAreOnce'
  BY <1>12 DEF ReleaseToIdle, AfterRelease, OwnsSlot, ExpiredFront
<1>13. CASE ExpireWaiting
  BY <1>13 DEF ExpireWaiting, Disown, LiveWaiters, Live
<1>14. CASE Seal
  BY <1>14 DEF Seal, Disown
<1>15. CASE CloseComplete
  BY <1>15 DEF CloseComplete
<1> QED
  BY <1>1, <1>2, <1>3, <1>4, <1>5, <1>6, <1>7, <1>8, <1>9, <1>10, <1>11, <1>12, <1>13, <1>14, <1>15 DEF Next,
       ReleaseActive

\* A Slot is handed to the front of the FIFO: whoever stands behind has a later
\* permit, and so does whoever joins after it.
LEMMA FifoStep == TypeOK /\ LinesHoldPermits /\ PermitsAreOnce /\ NoOvertaking /\ [Next]_vars => NoOvertaking'
<1> SUFFICES ASSUME TypeOK, LinesHoldPermits, PermitsAreOnce, NoOvertaking, [Next]_vars PROVE NoOvertaking'
  OBVIOUS
<1> USE DEF LinesHoldPermits, PermitsAreOnce, NoOvertaking, Before, Live, LiveWaiters,
            Outcome, NoOwner, Permit, Lease, TypeOK, Waiters, Id
<1>1. CASE UNCHANGED vars
  BY <1>1 DEF vars, admissionVars
<1>2. ASSUME NEW e \in 1 .. MaxEpoch, NextEpoch(e) PROVE NoOvertaking'
  BY <1>2 DEF NextEpoch, OpenEpoch
<1>3. ASSUME NEW r \in Requests, SubmitDirect(r) PROVE NoOvertaking'
  BY <1>3 DEF SubmitDirect, Grant, Fresh, NewLease
<1>4. ASSUME NEW r \in Requests, SubmitWaiting(r) PROVE NoOvertaking'
  BY <1>4 DEF SubmitWaiting, TakePermit, Fresh, NewPermit
<1>5. ASSUME NEW r \in Requests, Refuse(r) PROVE NoOvertaking'
  BY <1>5 DEF Refuse, admissionVars, Fresh
<1>6. ASSUME NEW r \in Requests, ReservePinWaiting(r) PROVE NoOvertaking'
  BY <1>6 DEF ReservePinWaiting, TakePermit, Fresh, NewPermit
<1>7. ASSUME NEW r \in Requests, Elapse(r) PROVE NoOvertaking'
  BY <1>7 DEF Elapse, admissionVars
<1>8. ASSUME NEW r \in Requests, NEW s \in Slots, ClaimIdleForHeartbeat(r, s) PROVE NoOvertaking'
  BY <1>8 DEF ClaimIdleForHeartbeat, Grant, Fresh, NewLease
<1>9. ASSUME NEW h \in handles, h.kind = "permit", ReleasePinWaiting(h) PROVE NoOvertaking'
  BY <1>9 DEF ReleasePinWaiting, Disown
<1>10. ASSUME NEW h \in handles, h.kind = "permit", CancelWaiting(h) PROVE NoOvertaking'
  BY <1>10 DEF CancelWaiting, Disown
<1>11. ASSUME NEW h \in handles, h.kind = "lease", ReleaseAndPromote(h)
       PROVE  NoOvertaking'
  <2>1. PICK first \in waiting :
          /\ FirstLiveWaiter(first)
          /\ waiting' = waiting \ (ExpiredFront \cup {first})
          /\ handles' = handles \cup {NewLease(first, h.slot)}
          /\ ownership' = [q \in Requests |->
                IF q = first THEN NewLease(first, h.slot)
                ELSE IF q \in ExpiredFront \cup {h.request} THEN NoOwner ELSE ownership[q]]
          /\ outcome' = [q \in Requests |-> IF q = first THEN "leased" ELSE AfterRelease(h, q)]
    BY <1>11 DEF ReleaseAndPromote
  <2> SUFFICES ASSUME NEW q \in Requests, NEW r \in waiting', NEW p \in handles',
                      p.kind = "permit", p.request = q, outcome'[q] = "leased",
                      p.epoch = ownership'[r].epoch
               PROVE  p.id < ownership'[r].id
    BY <2>1
  <2>2. p \in handles /\ p \in Permit
    BY <2>1 DEF NewLease
  <2>3. r \in waiting /\ r # first /\ r \notin ExpiredFront /\ r \in Requests
    BY <2>1
  <2>4. ownership[r] \in Permit /\ ownership[r] \in handles /\ ownership[r].request = r
    BY <2>3
  <2>5. r # h.request
    BY <1>11, <2>4 DEF ReleaseAndPromote, OwnsSlot
  <2>6. ownership'[r] = ownership[r]
    BY <2>1, <2>3, <2>5
  <2>7. CASE q # first
    <3>1. outcome[q] = "leased" \/ q = h.request
      BY <2>1, <2>7 DEF AfterRelease
    <3> QED
      BY <2>1, <2>2, <2>3, <2>6, <2>7, <3>1 DEF AfterRelease
  <2>8. CASE q = first
    <3>1. p = ownership[first]
      BY <2>1, <2>2, <2>8
    <3>2. PICK live \in LiveWaiters : ~ (ownership[r].id < ownership[live].id)
      BY <2>1, <2>3 DEF ExpiredFront, FirstLiveWaiter
    <3>3. live = first \/ ownership[first].id < ownership[live].id
      BY <2>1 DEF FirstLiveWaiter
    <3>4. ownership[first] \in Permit /\ ownership[live] \in Permit
      BY <2>1, <3>2
    <3>5. ownership[first].id # ownership[r].id
      BY <2>1, <2>3, <2>4, <3>4
    <3> QED
      BY <2>4, <2>6, <3>1, <3>2, <3>3, <3>4, <3>5
  <2> QED
    BY <2>7, <2>8
<1>12. ASSUME NEW h \in handles, h.kind = "lease", ReleaseToIdle(h) PROVE NoOvertaking'
  BY <1>12 DEF ReleaseToIdle, AfterRelease, OwnsSlot, ExpiredFront
<1>13. CASE ExpireWaiting
  BY <1>13 DEF ExpireWaiting, Disown, LiveWaiters, Live
<1>14. CASE Seal
  BY <1>14 DEF Seal, Disown
<1>15. CASE CloseComplete
  BY <1>15 DEF CloseComplete
<1> QED
  BY <1>1, <1>2, <1>3, <1>4, <1>5, <1>6, <1>7, <1>8, <1>9, <1>10, <1>11, <1>12, <1>13, <1>14, <1>15 DEF Next,
       ReleaseActive

\* What a request owns and what its caller was told change together.
LEMMA AnswersStep == TypeOK /\ AnswersMatchOwnership /\ [Next]_vars => AnswersMatchOwnership'
<1> SUFFICES ASSUME TypeOK, AnswersMatchOwnership, [Next]_vars PROVE AnswersMatchOwnership'
  OBVIOUS
<1> USE DEF AnswersMatchOwnership, NoOwner, Permit, Lease, TypeOK, Waiters, Id
<1>1. CASE UNCHANGED vars
  BY <1>1 DEF vars, admissionVars
<1>2. ASSUME NEW e \in 1 .. MaxEpoch, NextEpoch(e) PROVE AnswersMatchOwnership'
  BY <1>2 DEF NextEpoch, OpenEpoch
<1>3. ASSUME NEW r \in Requests, SubmitDirect(r) PROVE AnswersMatchOwnership'
  BY <1>3 DEF SubmitDirect, Grant, Fresh, NewLease
<1>4. ASSUME NEW r \in Requests, SubmitWaiting(r) PROVE AnswersMatchOwnership'
  BY <1>4 DEF SubmitWaiting, TakePermit, Fresh, NewPermit
<1>5. ASSUME NEW r \in Requests, Refuse(r) PROVE AnswersMatchOwnership'
  BY <1>5 DEF Refuse, admissionVars, Fresh
<1>6. ASSUME NEW r \in Requests, ReservePinWaiting(r) PROVE AnswersMatchOwnership'
  BY <1>6 DEF ReservePinWaiting, TakePermit, Fresh, NewPermit
<1>7. ASSUME NEW r \in Requests, Elapse(r) PROVE AnswersMatchOwnership'
  BY <1>7 DEF Elapse, admissionVars
<1>8. ASSUME NEW r \in Requests, NEW s \in Slots, ClaimIdleForHeartbeat(r, s) PROVE AnswersMatchOwnership'
  BY <1>8 DEF ClaimIdleForHeartbeat, Grant, Fresh, NewLease
<1>9. ASSUME NEW h \in handles, h.kind = "permit", ReleasePinWaiting(h) PROVE AnswersMatchOwnership'
  BY <1>9 DEF ReleasePinWaiting, Disown
<1>10. ASSUME NEW h \in handles, h.kind = "permit", CancelWaiting(h) PROVE AnswersMatchOwnership'
  BY <1>10 DEF CancelWaiting, Disown
<1>11. ASSUME NEW h \in handles, h.kind = "lease", ReleaseAndPromote(h) PROVE AnswersMatchOwnership'
  BY <1>11 DEF ReleaseAndPromote, AfterRelease, FirstLiveWaiter, OwnsSlot, ExpiredFront,
       LiveWaiters, NewLease
<1>12. ASSUME NEW h \in handles, h.kind = "lease", ReleaseToIdle(h) PROVE AnswersMatchOwnership'
  BY <1>12 DEF ReleaseToIdle, AfterRelease, OwnsSlot, ExpiredFront
<1>13. CASE ExpireWaiting
  BY <1>13 DEF ExpireWaiting, Disown, LiveWaiters, Live
<1>14. CASE Seal
  BY <1>14 DEF Seal, Disown
<1>15. CASE CloseComplete
  BY <1>15 DEF CloseComplete
<1> QED
  BY <1>1, <1>2, <1>3, <1>4, <1>5, <1>6, <1>7, <1>8, <1>9, <1>10, <1>11, <1>12, <1>13, <1>14, <1>15 DEF Next,
       ReleaseActive

\* An epoch is opened only over empty hands.
LEMMA EpochStep == TypeOK /\ OwnersAreOfThisEpoch /\ [Next]_vars => OwnersAreOfThisEpoch'
<1> SUFFICES ASSUME TypeOK, OwnersAreOfThisEpoch, [Next]_vars PROVE OwnersAreOfThisEpoch'
  OBVIOUS
<1> USE DEF OwnersAreOfThisEpoch, NoOwner, Permit, Lease, TypeOK, Waiters, Id
<1>1. CASE UNCHANGED vars
  BY <1>1 DEF vars, admissionVars
<1>2. ASSUME NEW e \in 1 .. MaxEpoch, NextEpoch(e) PROVE OwnersAreOfThisEpoch'
  BY <1>2 DEF NextEpoch, OpenEpoch
<1>3. ASSUME NEW r \in Requests, SubmitDirect(r) PROVE OwnersAreOfThisEpoch'
  BY <1>3 DEF SubmitDirect, Grant, Fresh, NewLease
<1>4. ASSUME NEW r \in Requests, SubmitWaiting(r) PROVE OwnersAreOfThisEpoch'
  BY <1>4 DEF SubmitWaiting, TakePermit, Fresh, NewPermit
<1>5. ASSUME NEW r \in Requests, Refuse(r) PROVE OwnersAreOfThisEpoch'
  BY <1>5 DEF Refuse, admissionVars, Fresh
<1>6. ASSUME NEW r \in Requests, ReservePinWaiting(r) PROVE OwnersAreOfThisEpoch'
  BY <1>6 DEF ReservePinWaiting, TakePermit, Fresh, NewPermit
<1>7. ASSUME NEW r \in Requests, Elapse(r) PROVE OwnersAreOfThisEpoch'
  BY <1>7 DEF Elapse, admissionVars
<1>8. ASSUME NEW r \in Requests, NEW s \in Slots, ClaimIdleForHeartbeat(r, s) PROVE OwnersAreOfThisEpoch'
  BY <1>8 DEF ClaimIdleForHeartbeat, Grant, Fresh, NewLease
<1>9. ASSUME NEW h \in handles, h.kind = "permit", ReleasePinWaiting(h) PROVE OwnersAreOfThisEpoch'
  BY <1>9 DEF ReleasePinWaiting, Disown
<1>10. ASSUME NEW h \in handles, h.kind = "permit", CancelWaiting(h) PROVE OwnersAreOfThisEpoch'
  BY <1>10 DEF CancelWaiting, Disown
<1>11. ASSUME NEW h \in handles, h.kind = "lease", ReleaseAndPromote(h) PROVE OwnersAreOfThisEpoch'
  BY <1>11 DEF ReleaseAndPromote, AfterRelease, FirstLiveWaiter, OwnsSlot, ExpiredFront,
       LiveWaiters, NewLease
<1>12. ASSUME NEW h \in handles, h.kind = "lease", ReleaseToIdle(h) PROVE OwnersAreOfThisEpoch'
  BY <1>12 DEF ReleaseToIdle, AfterRelease, OwnsSlot, ExpiredFront
<1>13. CASE ExpireWaiting
  BY <1>13 DEF ExpireWaiting, Disown, LiveWaiters, Live
<1>14. CASE Seal
  BY <1>14 DEF Seal, Disown
<1>15. CASE CloseComplete
  BY <1>15 DEF CloseComplete
<1> QED
  BY <1>1, <1>2, <1>3, <1>4, <1>5, <1>6, <1>7, <1>8, <1>9, <1>10, <1>11, <1>12, <1>13, <1>14, <1>15 DEF Next,
       ReleaseActive

\* Whoever was answered owns nothing, and no operation answers for what is not
\* owned.
LEMMA AnsweredOnceStep ==
  ASSUME TypeOK, LinesHoldPermits, AnswersMatchOwnership, [Next]_vars
  PROVE  \A r \in Requests :
          /\ outcome[r] \in Answered => outcome'[r] = outcome[r]
          /\ outcome[r] = "leased" => outcome'[r] \in {"leased", "released"}
<1> USE DEF LinesHoldPermits, AnswersMatchOwnership, Answered, Outcome, NoOwner, Permit,
            Lease, TypeOK, Waiters, Id
<1> DEFINE Kept ==
      \A r \in Requests :
          /\ outcome[r] \in Answered => outcome'[r] = outcome[r]
          /\ outcome[r] = "leased" => outcome'[r] \in {"leased", "released"}
<1>1. CASE UNCHANGED vars
  BY <1>1 DEF vars, admissionVars
<1>2. ASSUME NEW e \in 1 .. MaxEpoch, NextEpoch(e) PROVE Kept
  BY <1>2 DEF NextEpoch, OpenEpoch
<1>3. ASSUME NEW r \in Requests, SubmitDirect(r) PROVE Kept
  BY <1>3 DEF SubmitDirect, Grant, Fresh, NewLease
<1>4. ASSUME NEW r \in Requests, SubmitWaiting(r) PROVE Kept
  BY <1>4 DEF SubmitWaiting, TakePermit, Fresh, NewPermit
<1>5. ASSUME NEW r \in Requests, Refuse(r) PROVE Kept
  BY <1>5 DEF Refuse, admissionVars, Fresh
<1>6. ASSUME NEW r \in Requests, ReservePinWaiting(r) PROVE Kept
  BY <1>6 DEF ReservePinWaiting, TakePermit, Fresh, NewPermit
<1>7. ASSUME NEW r \in Requests, Elapse(r) PROVE Kept
  BY <1>7 DEF Elapse, admissionVars
<1>8. ASSUME NEW r \in Requests, NEW s \in Slots, ClaimIdleForHeartbeat(r, s) PROVE Kept
  BY <1>8 DEF ClaimIdleForHeartbeat, Grant, Fresh, NewLease
<1>9. ASSUME NEW h \in handles, h.kind = "permit", ReleasePinWaiting(h) PROVE Kept
  BY <1>9 DEF ReleasePinWaiting, Disown
<1>10. ASSUME NEW h \in handles, h.kind = "permit", CancelWaiting(h) PROVE Kept
  BY <1>10 DEF CancelWaiting, Disown
<1>11. ASSUME NEW h \in handles, h.kind = "lease", ReleaseAndPromote(h) PROVE Kept
  BY <1>11 DEF ReleaseAndPromote, AfterRelease, FirstLiveWaiter, OwnsSlot, ExpiredFront,
       LiveWaiters, NewLease
<1>12. ASSUME NEW h \in handles, h.kind = "lease", ReleaseToIdle(h) PROVE Kept
  BY <1>12 DEF ReleaseToIdle, AfterRelease, OwnsSlot, ExpiredFront
<1>13. CASE ExpireWaiting
  BY <1>13 DEF ExpireWaiting, Disown, LiveWaiters, Live
<1>14. CASE Seal
  BY <1>14 DEF Seal, Disown
<1>15. CASE CloseComplete
  BY <1>15 DEF CloseComplete
<1> QED
  BY <1>1, <1>2, <1>3, <1>4, <1>5, <1>6, <1>7, <1>8, <1>9, <1>10, <1>11, <1>12, <1>13, <1>14, <1>15 DEF Next,
       ReleaseActive

\* The three operations that give a lease look at the deadline and at the seal.
LEMMA LivingStep ==
  ASSUME TypeOK, [Next]_vars
  PROVE  \A r \in Requests :
          (outcome[r] # "leased" /\ outcome'[r] = "leased")
              => r \notin elapsed /\ Open
<1> USE DEF Open, Live, LiveWaiters, NoOwner, Permit, Lease, TypeOK, Waiters, Id
<1> DEFINE Kept ==
      \A r \in Requests :
          (outcome[r] # "leased" /\ outcome'[r] = "leased")
              => r \notin elapsed /\ Open
<1>1. CASE UNCHANGED vars
  BY <1>1 DEF vars, admissionVars
<1>2. ASSUME NEW e \in 1 .. MaxEpoch, NextEpoch(e) PROVE Kept
  BY <1>2 DEF NextEpoch, OpenEpoch
<1>3. ASSUME NEW r \in Requests, SubmitDirect(r) PROVE Kept
  BY <1>3 DEF SubmitDirect, Grant, Fresh, NewLease
<1>4. ASSUME NEW r \in Requests, SubmitWaiting(r) PROVE Kept
  BY <1>4 DEF SubmitWaiting, TakePermit, Fresh, NewPermit
<1>5. ASSUME NEW r \in Requests, Refuse(r) PROVE Kept
  BY <1>5 DEF Refuse, admissionVars, Fresh
<1>6. ASSUME NEW r \in Requests, ReservePinWaiting(r) PROVE Kept
  BY <1>6 DEF ReservePinWaiting, TakePermit, Fresh, NewPermit
<1>7. ASSUME NEW r \in Requests, Elapse(r) PROVE Kept
  BY <1>7 DEF Elapse, admissionVars
<1>8. ASSUME NEW r \in Requests, NEW s \in Slots, ClaimIdleForHeartbeat(r, s) PROVE Kept
  BY <1>8 DEF ClaimIdleForHeartbeat, Grant, Fresh, NewLease
<1>9. ASSUME NEW h \in handles, h.kind = "permit", ReleasePinWaiting(h) PROVE Kept
  BY <1>9 DEF ReleasePinWaiting, Disown
<1>10. ASSUME NEW h \in handles, h.kind = "permit", CancelWaiting(h) PROVE Kept
  BY <1>10 DEF CancelWaiting, Disown
<1>11. ASSUME NEW h \in handles, h.kind = "lease", ReleaseAndPromote(h) PROVE Kept
  BY <1>11 DEF ReleaseAndPromote, AfterRelease, FirstLiveWaiter, OwnsSlot, ExpiredFront,
       LiveWaiters, NewLease
<1>12. ASSUME NEW h \in handles, h.kind = "lease", ReleaseToIdle(h) PROVE Kept
  BY <1>12 DEF ReleaseToIdle, AfterRelease, OwnsSlot, ExpiredFront
<1>13. CASE ExpireWaiting
  BY <1>13 DEF ExpireWaiting, Disown, LiveWaiters, Live
<1>14. CASE Seal
  BY <1>14 DEF Seal, Disown
<1>15. CASE CloseComplete
  BY <1>15 DEF CloseComplete
<1> QED
  BY <1>1, <1>2, <1>3, <1>4, <1>5, <1>6, <1>7, <1>8, <1>9, <1>10, <1>11, <1>12, <1>13, <1>14, <1>15 DEF Next,
       ReleaseActive

-----------------------------------------------------------------------------
\* Every operation keeps the invariant.
LEMMA InvStep == Inv /\ [Next]_vars => Inv'
  BY TypeStep, LinesStep, BudgetStep, CounterStep, SlotsStep, IdleStep, PermitsStep,
     FifoStep, AnswersStep, EpochStep DEF Inv

\* The invariant holds when the queue is new and in every state after it.
LEMMA Invariance == Spec => []Inv
<1>1. Init => Inv
  <2> SUFFICES ASSUME Init PROVE Inv
    OBVIOUS
  <2>1. TypeOK
    BY PoolSizeAssumption DEF Init, TypeOK, Slots, NoOwner, Outcome
  <2>2. Budget
    <3>1. Waiters = {}
      BY DEF Init, Waiters
    <3> QED
      BY <3>1, FS_EmptySet, MaxPendingAssumption DEF Budget
  <2>3. LinesHoldPermits /\ CounterAhead /\ SlotsHaveOneOwner /\ NobodyWaitsForAnIdleSlot
    BY DEF Init, LinesHoldPermits, CounterAhead, SlotsHaveOneOwner,
           NobodyWaitsForAnIdleSlot, Waiters, NoOwner, Open
  <2>4. PermitsAreOnce /\ NoOvertaking /\ AnswersMatchOwnership /\ OwnersAreOfThisEpoch
    BY DEF Init, PermitsAreOnce, NoOvertaking, AnswersMatchOwnership,
           OwnersAreOfThisEpoch, NoOwner
  <2> QED
    BY <2>1, <2>2, <2>3, <2>4 DEF Inv
<1> QED
  BY <1>1, InvStep, PTL DEF Spec

\* In every reachable state every variable of the queue has its type: what is
\* owned is nothing, a permit or a lease on a Slot of the pool (TypeOK).
THEOREM TypeCorrect == Spec => []TypeOK
<1>1. Inv => TypeOK
  BY DEF Inv
<1> QED
  BY <1>1, Invariance, PTL

\* At most MaxPendingRequests requests wait, in both lines together, and the
\* waiters are exactly the holders of permits, whatever is cancelled, expires or
\* is promoted in whatever order (AdmissionQueue's waiting capacity).
THEOREM WaitersAreBounded == Spec => []WaitersHoldPermits
<1>1. Inv => WaitersHoldPermits
  BY DEF Inv, Budget, LinesHoldPermits, WaitersHoldPermits
<1> QED
  BY <1>1, Invariance, PTL

\* No Slot ever has two holders, a stale lease never frees one, and while the
\* queue is open a Slot nobody holds is idle: none is lost (release_active,
\* set_active_slot, clear_active_slot).
THEOREM SlotsAreExclusive == Spec => []SlotsHaveOneOwner
<1>1. Inv => SlotsHaveOneOwner
  BY DEF Inv
<1> QED
  BY <1>1, Invariance, PTL

\* A request never waits in the FIFO while a Slot is idle (submit,
\* release_active).
THEOREM NoIdleSlotIsWaitedFor == Spec => []NobodyWaitsForAnIdleSlot
<1>1. Inv => NobodyWaitsForAnIdleSlot
  BY DEF Inv
<1> QED
  BY <1>1, Invariance, PTL

\* The FIFO is strict: a request that was admitted later is never served before
\* one that still waits (first_live_waiter).
THEOREM FifoIsStrict == Spec => []NoOvertaking
<1>1. Inv => NoOvertaking
  BY DEF Inv
<1> QED
  BY <1>1, Invariance, PTL

\* The queue's answers and its books agree: it drops nobody silently.
THEOREM NobodyIsDropped == Spec => []AnswersMatchOwnership
<1>1. Inv => AnswersMatchOwnership
  BY DEF Inv
<1> QED
  BY <1>1, Invariance, PTL

\* No permit or lease of an earlier epoch owns anything in the current one.
THEOREM EpochsAreApart == Spec => []OwnersAreOfThisEpoch
<1>1. Inv => OwnersAreOfThisEpoch
  BY DEF Inv
<1> QED
  BY <1>1, Invariance, PTL

\* The queue's books agree with what it told each request, in every epoch, and
\* with the permits it counts.
THEOREM BooksAlwaysAgree == Spec => []BooksAgree
  BY WaitersAreBounded, NobodyIsDropped, EpochsAreApart, PTL DEF BooksAgree

\* A final answer is never taken back and a lease never becomes a permit again.
THEOREM AnswersAreFinal == Spec => AnsweredOnce
<1>1. Inv /\ [Next]_vars => [\A r \in Requests :
          /\ outcome[r] \in Answered => outcome'[r] = outcome[r]
          /\ outcome[r] = "leased" => outcome'[r] \in {"leased", "released"}]_vars
  BY AnsweredOnceStep DEF Inv
<1> QED
  BY <1>1, Invariance, PTL DEF Spec, AnsweredOnce

\* A Slot is given only to a request whose deadline has not passed, and none at
\* all once close has sealed the queue.
THEOREM LeasesAreForTheLiving == Spec => LeasesGoToTheLiving
<1>1. Inv /\ [Next]_vars => [\A r \in Requests :
          (outcome[r] # "leased" /\ outcome'[r] = "leased")
              => r \notin elapsed /\ Open]_vars
  BY LivingStep DEF Inv
<1> QED
  BY <1>1, Invariance, PTL DEF Spec, LeasesGoToTheLiving

-----------------------------------------------------------------------------
(***************************************************************************)
(* Admission implements SlotPool, for every number of requests, Slots,     *)
(* permits and epochs.  The pool's line is the waiters in the order of     *)
(* their permits: that there is one such sequence and no other is shown by *)
(* induction on their number, and what becomes of it when one joins at the *)
(* tail, some leave, or the first is served follows from that.  The steps  *)
(* rest on the invariant above and on one part more, that nobody stands in *)
(* line once the queue is sealed.                                          *)
(***************************************************************************)
-----------------------------------------------------------------------------
(* Sequences in the order of a key. *)

\* Every request of W has a key of its own.
Keyed(W, key) ==
    /\ \A r \in W : key[r] \in Nat
    /\ \A q, r \in W : key[q] = key[r] => q = r

InOrder(s, W, key) ==
    /\ \A r \in W : \E i \in DOMAIN s : s[i] = r
    /\ \A i, j \in DOMAIN s : i < j => key[s[i]] < key[s[j]]

CanBeArranged(n) ==
    \A W, key : IsFiniteSet(W) /\ Cardinality(W) = n /\ Keyed(W, key) =>
        \E s \in [1 .. n -> W] : InOrder(s, W, key)

\* Among natural numbers one is the least; inductions take it for the first number
\* without a property.  (FoldInduction has the general form; its instance here
\* would burden every module that instantiates this one.)
LEMMA LeastNumber ==
  ASSUME NEW T \in SUBSET Nat, T # {}
  PROVE  \E x \in T : \A y \in T : x <= y
<1>1. PICK R : R = OpToRel(<, Nat)
  OBVIOUS
<1>2. IsWellFoundedOn(R, Nat)
  BY <1>1, NatLessThanWellFounded, Zenon
<1>3. PICK x \in T : \A y \in T : ~(<<y, x>> \in R)
  BY <1>2, WFMin
<1>4. \A i, j \in Nat : i < j => <<i, j>> \in OpToRel(<, Nat)
  BY DEF OpToRel
<1>5. \A i, j \in Nat : i < j => <<i, j>> \in R
  BY <1>1, <1>4, Zenon
<1>6. \A y \in T : ~(y < x)
  BY <1>3, <1>5
<1> QED
  BY <1>6

\* The request with the least key comes first, before the others arranged.
LEMMA ArrangeOneMore == \A n \in Nat : CanBeArranged(n) => CanBeArranged(n + 1)
<1> SUFFICES ASSUME NEW n \in Nat, CanBeArranged(n),
                    NEW W, NEW key, IsFiniteSet(W), Cardinality(W) = n + 1, Keyed(W, key)
             PROVE  \E s \in [1 .. n + 1 -> W] : InOrder(s, W, key)
  BY DEF CanBeArranged
<1> DEFINE T == {k \in Nat : \E r \in W : k = key[r]}
<1>1. W # {}
  BY FS_EmptySet
<1>2. T \in SUBSET Nat /\ T # {}
  BY <1>1 DEF Keyed
<1>3. PICK k \in T : \A j \in T : k <= j
  BY <1>2, LeastNumber
<1>4. PICK m \in W : k = key[m]
  BY <1>3
<1>5. \A r \in W \ {m} : key[m] < key[r]
  <2> TAKE r \in W \ {m}
  <2>1. key[r] \in T /\ key[r] \in Nat /\ key[m] \in Nat /\ key[r] # key[m]
    BY DEF Keyed
  <2> QED
    BY <1>3, <1>4, <2>1
<1>6. PICK V : V = W \ {m}
  OBVIOUS
<1>7. IsFiniteSet(V) /\ Cardinality(V) = n
  BY <1>6, FS_RemoveElement
<1>8. Keyed(V, key)
  BY <1>6 DEF Keyed
<1>9. PICK s \in [1 .. n -> V] : InOrder(s, V, key)
  BY <1>7, <1>8 DEF CanBeArranged
<1> DEFINE t == [i \in 1 .. n + 1 |-> IF i = 1 THEN m ELSE s[i - 1]]
<1>10. \A i \in 2 .. n + 1 : i - 1 \in 1 .. n /\ i # 1 /\ i \in 1 .. n + 1
  OBVIOUS
<1>11. \A i \in 2 .. n + 1 : t[i] = s[i - 1] /\ t[i] \in V
  BY <1>10
<1>12. t[1] = m /\ 1 \in 1 .. n + 1
  OBVIOUS
<1>13. \A i \in 1 .. n + 1 : i = 1 \/ i \in 2 .. n + 1
  OBVIOUS
<1>14. t \in [1 .. n + 1 -> W]
  <2>1. \A i \in 1 .. n + 1 : t[i] \in W
    BY <1>6, <1>11, <1>12, <1>13
  <2> QED
    BY <2>1
<1>15. ASSUME NEW r \in W PROVE \E i \in DOMAIN t : t[i] = r
  <2>1. CASE r = m
    BY <1>12, <2>1
  <2>2. CASE r # m
    <3>1. PICK i \in 1 .. n : s[i] = r
      BY <1>6, <1>9, <2>2 DEF InOrder
    <3>2. i + 1 \in 1 .. n + 1 /\ i + 1 # 1 /\ (i + 1) - 1 = i
      OBVIOUS
    <3>3. t[i + 1] = r
      BY <3>1, <3>2
    <3> QED
      BY <3>2, <3>3
  <2> QED
    BY <2>1, <2>2
<1>16. ASSUME NEW i \in DOMAIN t, NEW j \in DOMAIN t, i < j PROVE key[t[i]] < key[t[j]]
  <2>1. i \in 1 .. n + 1 /\ j \in 2 .. n + 1
    BY <1>16
  <2>2. CASE i = 1
    BY <1>5, <1>6, <1>11, <1>12, <2>1, <2>2
  <2>3. CASE i # 1
    <3>1. i - 1 \in 1 .. n /\ j - 1 \in 1 .. n /\ i - 1 < j - 1 /\ i \in 2 .. n + 1
      BY <1>16, <2>1, <2>3
    <3>2. PICK a \in 1 .. n, b \in 1 .. n : a = i - 1 /\ b = j - 1 /\ a < b
      BY <3>1
    <3>3. key[s[a]] < key[s[b]]
      BY <1>9, <3>2 DEF InOrder
    <3> QED
      BY <1>11, <2>1, <3>1, <3>2, <3>3
  <2> QED
    BY <2>2, <2>3
<1> QED
  BY <1>14, <1>15, <1>16 DEF InOrder

\* A finite set of requests, each with a key of its own, can be arranged.
LEMMA ArrangementExists ==
  ASSUME NEW W, NEW key, IsFiniteSet(W), Keyed(W, key)
  PROVE  /\ Arranged(W, key) \in [1 .. Cardinality(W) -> W]
         /\ InOrder(Arranged(W, key), W, key)
<1>1. CanBeArranged(0)
  <2> SUFFICES ASSUME NEW V, NEW k, IsFiniteSet(V), Cardinality(V) = 0, Keyed(V, k)
               PROVE  \E s \in [1 .. 0 -> V] : InOrder(s, V, k)
    BY DEF CanBeArranged
  <2>1. V = {} /\ 1 .. 0 = {}
    BY FS_EmptySet
  <2>2. [i \in 1 .. 0 |-> 0] \in [1 .. 0 -> V] /\ InOrder([i \in 1 .. 0 |-> 0], V, k)
    BY <2>1 DEF InOrder
  <2> QED
    BY <2>2
<1>2. \A n \in Nat : CanBeArranged(n)
  <2> SUFFICES ASSUME NEW m \in Nat, ~CanBeArranged(m) PROVE FALSE
    OBVIOUS
  <2> DEFINE T == {n \in Nat : ~CanBeArranged(n)}
  <2>1. PICK n \in T : \A j \in T : n <= j
    BY LeastNumber
  <2>2. n # 0 /\ n \in Nat
    BY <1>1, <2>1
  <2>3. n - 1 \in Nat /\ CanBeArranged(n - 1) /\ ~CanBeArranged((n - 1) + 1)
    BY <2>1, <2>2
  <2> QED
    BY <2>3, ArrangeOneMore
<1>3. Cardinality(W) \in Nat
  BY FS_CardinalityType
<1>4. \E s \in [1 .. Cardinality(W) -> W] : InOrder(s, W, key)
  BY <1>2, <1>3 DEF CanBeArranged
<1> QED
  BY <1>4 DEF Arranged, InOrder

\* Two sequences of the same requests in the order of the same keys are the same.
LEMMA ArrangementIsOne ==
  ASSUME NEW W, NEW key, Keyed(W, key), NEW s \in Seq(W), NEW t \in Seq(W),
         InOrder(s, W, key), InOrder(t, W, key)
  PROVE  s = t
<1>1. PICK n \in Nat, m \in Nat : n = Len(s) /\ m = Len(t)
  OBVIOUS
<1>2. DOMAIN s = 1 .. n /\ DOMAIN t = 1 .. m
  BY <1>1
<1>3. /\ \A i \in 1 .. n : s[i] \in W /\ key[s[i]] \in Nat
      /\ \A i \in 1 .. m : t[i] \in W /\ key[t[i]] \in Nat
  BY <1>2 DEF Keyed
<1>4. /\ \A r \in W : (\E i \in 1 .. n : s[i] = r) /\ (\E i \in 1 .. m : t[i] = r)
      /\ \A i, j \in 1 .. n : i < j => key[s[i]] < key[s[j]]
      /\ \A i, j \in 1 .. m : i < j => key[t[i]] < key[t[j]]
  BY <1>2 DEF InOrder
\* The least position of s and t at which they differ, or of one beyond the other.
<1> DEFINE Bad(i) == \/ i \in 1 .. n /\ i \in 1 .. m /\ s[i] # t[i]
                     \/ i \in 1 .. n /\ i \notin 1 .. m
                     \/ i \notin 1 .. n /\ i \in 1 .. m
<1>5. ASSUME NEW b \in Nat, Bad(b) PROVE FALSE
  <2> DEFINE T == {i \in Nat : Bad(i)}
  <2>1. T \in SUBSET Nat /\ T # {}
    BY <1>5
  <2>2. PICK i \in T : \A j \in T : i <= j
    BY <2>1, LeastNumber
  <2>3. i \in Nat /\ Bad(i)
    BY <2>2
  <2>4. ASSUME NEW j \in Nat, j < i, j \in 1 .. n \/ j \in 1 .. m
        PROVE  j \in 1 .. n /\ j \in 1 .. m /\ s[j] = t[j]
    <3>1. j \notin T
      BY <2>2, <2>3, <2>4
    <3> QED
      BY <2>4, <3>1
  <2>5. ASSUME i \in 1 .. n PROVE i \in 1 .. m /\ ~(key[s[i]] < key[t[i]])
    <3>1. PICK k \in 1 .. m : t[k] = s[i]
      BY <1>3, <1>4, <2>5
    <3>2. ~(k < i)
      <4> SUFFICES ASSUME k < i PROVE FALSE
        OBVIOUS
      <4>1. k \in Nat /\ k \in 1 .. n /\ s[k] = t[k]
        BY <2>4
      <4>2. key[s[k]] < key[s[i]] /\ key[s[i]] \in Nat
        BY <1>3, <1>4, <2>5, <4>1
      <4> QED
        BY <3>1, <4>1, <4>2
    <3>3. i \in 1 .. m
      BY <2>3, <2>5, <3>2
    <3>4. k = i \/ key[t[i]] < key[t[k]]
      BY <1>4, <2>3, <3>2, <3>3
    <3> QED
      BY <1>3, <3>1, <3>3, <3>4
  <2>6. ASSUME i \in 1 .. m PROVE i \in 1 .. n /\ ~(key[t[i]] < key[s[i]])
    <3>1. PICK k \in 1 .. n : s[k] = t[i]
      BY <1>3, <1>4, <2>6
    <3>2. ~(k < i)
      <4> SUFFICES ASSUME k < i PROVE FALSE
        OBVIOUS
      <4>1. k \in Nat /\ k \in 1 .. m /\ s[k] = t[k]
        BY <2>4
      <4>2. key[t[k]] < key[t[i]] /\ key[t[i]] \in Nat
        BY <1>3, <1>4, <2>6, <4>1
      <4> QED
        BY <3>1, <4>1, <4>2
    <3>3. i \in 1 .. n
      BY <2>3, <2>6, <3>2
    <3>4. k = i \/ key[s[i]] < key[s[k]]
      BY <1>4, <2>3, <3>2, <3>3
    <3> QED
      BY <1>3, <3>1, <3>3, <3>4
  <2>7. i \in 1 .. n /\ i \in 1 .. m /\ s[i] # t[i]
    BY <2>3, <2>5, <2>6
  <2>8. key[s[i]] = key[t[i]]
    BY <1>3, <2>5, <2>6, <2>7
  <2> QED
    BY <1>3, <2>7, <2>8 DEF Keyed
<1>6. n = m
  <2>1. ~(n < m)
    <3> SUFFICES ASSUME n < m PROVE FALSE
      OBVIOUS
    <3>1. n + 1 \in Nat /\ n + 1 \in 1 .. m /\ n + 1 \notin 1 .. n
      OBVIOUS
    <3> QED
      BY <1>5, <3>1
  <2>2. ~(m < n)
    <3> SUFFICES ASSUME m < n PROVE FALSE
      OBVIOUS
    <3>1. m + 1 \in Nat /\ m + 1 \in 1 .. n /\ m + 1 \notin 1 .. m
      OBVIOUS
    <3> QED
      BY <1>5, <3>1
  <2> QED
    BY <2>1, <2>2
<1>7. \A i \in 1 .. n : s[i] = t[i]
  BY <1>5, <1>6
<1> QED
  BY <1>1, <1>2, <1>6, <1>7

\* Those of them that are left keep their order.
LEMMA OrderIsKept ==
  ASSUME NEW W, NEW key, Keyed(W, key), NEW s \in Seq(W), InOrder(s, W, key),
         NEW V, V \subseteq W, NEW left, NEW t \in Seq(V), InOrder(t, V, left),
         \A r \in V : left[r] = key[r],
         NEW i \in DOMAIN t, NEW j \in DOMAIN t, i < j
  PROVE  \E k, l \in DOMAIN s : k < l /\ s[k] = t[i] /\ s[l] = t[j]
<1>1. t[i] \in V /\ t[j] \in V
  OBVIOUS
<1>2. left[t[i]] < left[t[j]]
  BY DEF InOrder
<1>3. key[t[i]] < key[t[j]] /\ key[t[i]] \in Nat /\ key[t[j]] \in Nat
  BY <1>1, <1>2 DEF Keyed
<1>4. PICK k \in DOMAIN s : s[k] = t[i]
  BY <1>1 DEF InOrder
<1>5. PICK l \in DOMAIN s : s[l] = t[j]
  BY <1>1 DEF InOrder
<1>6. k \in Nat /\ l \in Nat
  OBVIOUS
<1>7. k < l
  <2> SUFFICES ASSUME ~(k < l) PROVE FALSE
    OBVIOUS
  <2>1. CASE k = l
    BY <1>3, <1>4, <1>5, <2>1
  <2>2. CASE l < k
    <3>1. key[s[l]] < key[s[k]]
      BY <2>2 DEF InOrder
    <3> QED
      BY <1>3, <1>4, <1>5, <3>1
  <2> QED
    BY <1>6, <2>1, <2>2
<1> QED
  BY <1>4, <1>5, <1>7

\* The youngest goes to the tail.
LEMMA TailIsJoined ==
  ASSUME NEW W, NEW key, Keyed(W, key), NEW s \in Seq(W), InOrder(s, W, key),
         NEW q, q \notin W, NEW more, Keyed(W \cup {q}, more),
         \A r \in W : more[r] = key[r] /\ more[r] < more[q],
         NEW t \in Seq(W \cup {q}), InOrder(t, W \cup {q}, more)
  PROVE  t = Append(s, q)
<1>1. PICK n \in Nat : n = Len(s) /\ DOMAIN s = 1 .. n
  OBVIOUS
<1>2. PICK u : u = Append(s, q)
  OBVIOUS
<1>3. /\ u \in Seq(W \cup {q}) /\ DOMAIN u = 1 .. n + 1 /\ u[n + 1] = q
      /\ \A i \in 1 .. n : u[i] = s[i]
  <2>1. s \in Seq(W \cup {q})
    OBVIOUS
  <2> QED
    BY <1>1, <1>2, <2>1
<1>4. ASSUME NEW r \in W \cup {q} PROVE \E i \in DOMAIN u : u[i] = r
  <2>1. CASE r = q
    BY <1>3, <2>1
  <2>2. CASE r # q
    <3>1. PICK i \in 1 .. n : s[i] = r
      BY <1>1, <2>2 DEF InOrder
    <3>2. i \in DOMAIN u
      BY <1>3
    <3> QED
      BY <1>3, <3>1, <3>2
  <2> QED
    BY <2>1, <2>2
<1>5. ASSUME NEW i \in DOMAIN u, NEW j \in DOMAIN u, i < j PROVE more[u[i]] < more[u[j]]
  <2>1. i \in 1 .. n /\ (j \in 1 .. n \/ j = n + 1)
    BY <1>3, <1>5
  <2>2. s[i] \in W /\ u[i] = s[i]
    BY <1>1, <1>3, <2>1
  <2>3. CASE j = n + 1
    BY <1>3, <2>2, <2>3
  <2>4. CASE j \in 1 .. n
    <3>1. key[s[i]] < key[s[j]] /\ s[j] \in W /\ u[j] = s[j]
      BY <1>1, <1>3, <1>5, <2>1, <2>4 DEF InOrder
    <3> QED
      BY <2>2, <3>1
  <2> QED
    BY <2>1, <2>3, <2>4
<1>6. InOrder(u, W \cup {q}, more)
  BY <1>4, <1>5 DEF InOrder
<1>7. t = u
  BY <1>3, <1>6, ArrangementIsOne
<1> QED
  BY <1>2, <1>7

\* The oldest stands at the head.
LEMMA HeadIsFirst ==
  ASSUME NEW W, NEW key, Keyed(W, key), NEW m \in W,
         \A r \in W \ {m} : key[m] < key[r],
         NEW left, \A r \in W \ {m} : left[r] = key[r],
         NEW s \in Seq(W \ {m}), InOrder(s, W \ {m}, left)
  PROVE  <<m>> \o s \in Seq(W) /\ InOrder(<<m>> \o s, W, key)
<1>1. PICK n \in Nat : n = Len(s) /\ DOMAIN s = 1 .. n
  OBVIOUS
<1>2. PICK u : u = <<m>> \o s
  OBVIOUS
<1>3. /\ u \in Seq(W) /\ Len(u) = n + 1 /\ DOMAIN u = 1 .. n + 1 /\ u[1] = m
      /\ \A i \in 1 .. n : u[i + 1] = s[i]
  <2>1. s \in Seq(W) /\ <<m>> \in Seq(W) /\ Len(<<m>>) = 1
    OBVIOUS
  <2>2. u \in Seq(W) /\ Len(u) = n + 1
    BY <1>1, <1>2, <2>1
  <2>3. \A i \in 1 .. n + 1 : u[i] = IF i <= 1 THEN <<m>>[i] ELSE s[i - 1]
    BY <1>1, <1>2, <2>1
  <2>4. ASSUME NEW i \in 1 .. n PROVE u[i + 1] = s[i]
    <3>1. i + 1 \in 1 .. n + 1 /\ ~(i + 1 <= 1) /\ (i + 1) - 1 = i
      OBVIOUS
    <3> QED
      BY <2>3, <3>1
  <2> QED
    BY <2>2, <2>3, <2>4
<1>4. \A i \in 1 .. n + 1 : i = 1 \/ \E k \in 1 .. n : i = k + 1
  <2> TAKE i \in 1 .. n + 1
  <2>1. i # 1 => i - 1 \in 1 .. n /\ i = (i - 1) + 1
    OBVIOUS
  <2> QED
    BY <2>1
<1>5. ASSUME NEW r \in W PROVE \E i \in DOMAIN u : u[i] = r
  <2>1. CASE r = m
    <3>1. 1 \in DOMAIN u
      BY <1>3
    <3> QED
      BY <1>3, <2>1, <3>1
  <2>2. CASE r # m
    <3>1. PICK i \in 1 .. n : s[i] = r
      BY <1>1, <2>2 DEF InOrder
    <3>2. i + 1 \in DOMAIN u
      BY <1>3
    <3> QED
      BY <1>3, <3>1, <3>2
  <2> QED
    BY <2>1, <2>2
<1>6. ASSUME NEW i \in DOMAIN u, NEW j \in DOMAIN u, i < j PROVE key[u[i]] < key[u[j]]
  <2>1. i \in 1 .. n + 1 /\ j \in 1 .. n + 1 /\ j # 1
    BY <1>3, <1>6
  <2>2. PICK l \in 1 .. n : j = l + 1
    BY <1>4, <2>1
  <2>3. u[j] = s[l] /\ s[l] \in W \ {m}
    BY <1>1, <1>3, <2>2
  <2>4. CASE i = 1
    BY <1>3, <2>3, <2>4
  <2>5. CASE i # 1
    <3>1. PICK k \in 1 .. n : i = k + 1
      BY <1>4, <2>1, <2>5
    <3>2. u[i] = s[k] /\ s[k] \in W \ {m} /\ k < l
      BY <1>1, <1>3, <1>6, <2>2, <3>1
    <3>3. left[s[k]] < left[s[l]]
      BY <1>1, <3>2 DEF InOrder
    <3> QED
      BY <2>3, <3>2, <3>3
  <2> QED
    BY <2>4, <2>5
<1>7. InOrder(u, W, key)
  BY <1>5, <1>6 DEF InOrder
<1> QED
  BY <1>2, <1>3, <1>7

-----------------------------------------------------------------------------
(* What the pool's variables say of the queue. *)

\* A request waits under the id of its permit.
PermitIds == [r \in waiting |-> ownership[r].id]

LineSays ==
    /\ Keyed(waiting, PermitIds)
    /\ Line \in Seq(waiting) /\ InOrder(Line, waiting, PermitIds)
    /\ Len(Line) = Cardinality(waiting)

HolderSays ==
    /\ DOMAIN Holder = Slots
    /\ \A s \in Slots :
          /\ Holder[s] \in Requests \cup {nobody}
          /\ Holder[s] = nobody <=> activeBySlot[s] = 0
          /\ \A r \in Requests : Holder[s] = r <=>
                ownership[r].kind = "lease" /\ ownership[r].slot = s

\* A closed queue has nobody in line.
SealedLineIsEmpty == ~Open => waiting = {}

PoolInv == Inv /\ SealedLineIsEmpty

LEMMA InvLine == Inv => LineSays
<1> SUFFICES ASSUME Inv PROVE LineSays
  OBVIOUS
<1>1. IsFiniteSet(waiting)
  BY RequestsAssumption, FS_Subset DEF Inv, TypeOK
<1>2. PICK k : k = PermitIds
  OBVIOUS
<1>3. \A r \in waiting : /\ r \in Requests /\ k[r] = ownership[r].id
                         /\ ownership[r].kind = "permit" /\ ownership[r] \in handles
                         /\ ownership[r].request = r /\ ownership[r].id \in Nat
  BY <1>2 DEF PermitIds, Inv, TypeOK, LinesHoldPermits, Waiters, PermitsAreOnce, Permit,
              Lease, NoOwner, Id
<1>4. \A q, r \in waiting : k[q] = k[r] => q = r
  BY <1>3 DEF Inv, PermitsAreOnce
<1>5. Keyed(waiting, k)
  BY <1>3, <1>4 DEF Keyed
<1>6. Line = Arranged(waiting, k)
  BY <1>2 DEF Line, PermitIds
<1>7. Line \in [1 .. Cardinality(waiting) -> waiting] /\ InOrder(Line, waiting, k)
  BY <1>1, <1>5, <1>6, ArrangementExists
<1>8. Cardinality(waiting) \in Nat
  BY <1>1, FS_CardinalityType
<1>9. Line \in Seq(waiting) /\ Len(Line) = Cardinality(waiting)
  BY <1>7, <1>8
<1> QED
  BY <1>2, <1>5, <1>7, <1>9 DEF LineSays

LEMMA InvHolder == Inv => HolderSays
<1> SUFFICES ASSUME Inv PROVE HolderSays
  OBVIOUS
<1>1. DOMAIN Holder = Slots
  BY DEF Holder
<1>2. ASSUME NEW s \in Slots
      PROVE  /\ Holder[s] \in Requests \cup {nobody}
             /\ Holder[s] = nobody <=> activeBySlot[s] = 0
             /\ \A r \in Requests : Holder[s] = r <=>
                   ownership[r].kind = "lease" /\ ownership[r].slot = s
  <2>1. \A r \in Requests : ownership[r].kind = "lease" /\ ownership[r].slot = s =>
            /\ activeBySlot[s] = ownership[r].id /\ ownership[r].id # 0
    BY DEF Inv, TypeOK, SlotsHaveOneOwner, Permit, Lease, NoOwner, Id
  <2>2. \A q, r \in Held(s) : q = r
    BY <2>1 DEF Held, Inv, SlotsHaveOneOwner
  <2>3. Held(s) = {} <=> activeBySlot[s] = 0
    BY <2>1 DEF Held, Inv, SlotsHaveOneOwner
  <2>4. CASE Held(s) = {}
    <3>1. Holder[s] = nobody
      BY <2>4 DEF Holder
    <3> QED
      BY <2>3, <2>4, <3>1, NobodyAssumption DEF Held
  <2>5. CASE Held(s) # {}
    <3>1. Holder[s] = CHOOSE r \in Held(s) : TRUE
      BY <2>5 DEF Holder
    <3>2. Holder[s] \in Held(s)
      BY <2>5, <3>1
    <3> QED
      BY <2>2, <2>3, <2>5, <3>2, NobodyAssumption DEF Held
  <2> QED
    BY <2>4, <2>5
<1> QED
  BY <1>1, <1>2 DEF HolderSays

\* Only submit puts a request in line, and only while the queue is open.
LEMMA SealedStep == Inv /\ SealedLineIsEmpty /\ [Next]_vars => SealedLineIsEmpty'
<1> SUFFICES ASSUME Inv, SealedLineIsEmpty, [Next]_vars PROVE SealedLineIsEmpty'
  OBVIOUS
<1> USE DEF SealedLineIsEmpty, Open
<1>1. CASE UNCHANGED vars
  BY <1>1 DEF vars, admissionVars
<1>2. ASSUME NEW e \in 1 .. MaxEpoch, NextEpoch(e) PROVE SealedLineIsEmpty'
  BY <1>2 DEF NextEpoch, OpenEpoch
<1>3. ASSUME NEW r \in Requests, SubmitWaiting(r) PROVE SealedLineIsEmpty'
  BY <1>3 DEF SubmitWaiting
<1>4. ASSUME NEW r \in Requests, SubmitDirect(r) \/ Refuse(r) \/ ReservePinWaiting(r) \/ Elapse(r)
      PROVE  SealedLineIsEmpty'
  BY <1>4 DEF SubmitDirect, Refuse, ReservePinWaiting, Elapse, admissionVars
<1>5. ASSUME NEW r \in Requests, NEW s \in Slots, ClaimIdleForHeartbeat(r, s) PROVE SealedLineIsEmpty'
  BY <1>5 DEF ClaimIdleForHeartbeat
<1>6. ASSUME NEW h \in handles, ReleasePinWaiting(h) \/ CancelWaiting(h) PROVE SealedLineIsEmpty'
  BY <1>6 DEF ReleasePinWaiting, CancelWaiting
<1>7. ASSUME NEW h \in handles, ReleaseActive(h) PROVE SealedLineIsEmpty'
  BY <1>7 DEF ReleaseActive, ReleaseAndPromote, ReleaseToIdle
<1>8. CASE ExpireWaiting
  BY <1>8 DEF ExpireWaiting, LiveWaiters
<1>9. CASE Seal \/ CloseComplete
  BY <1>9 DEF Seal, CloseComplete
<1> QED
  BY <1>1, <1>2, <1>3, <1>4, <1>5, <1>6, <1>7, <1>8, <1>9 DEF Next

\* The line depends on the waiters and the ids of their permits alone.
LEMMA LineStays ==
  ASSUME waiting' = waiting, \A r \in waiting : ownership'[r].id = ownership[r].id
  PROVE  Line' = Line
<1>1. PermitIds' = PermitIds
  BY DEF PermitIds
<1> QED
  BY <1>1 DEF Line, PermitIds

\* The holders depend on the leases and their Slots alone.
LEMMA HolderStays ==
  ASSUME HolderSays, HolderSays',
         \A r \in Requests : ownership'[r] # ownership[r] =>
             ownership[r].kind # "lease" /\ ownership'[r].kind # "lease"
  PROVE  Holder' = Holder
<1>1. \A s \in Slots : \A r \in Requests : Holder'[s] = r <=> Holder[s] = r
  BY DEF HolderSays
<1>2. \A s \in Slots : Holder'[s] = Holder[s]
  BY <1>1 DEF HolderSays
<1>3. PICK f, g : f = Holder' /\ g = Holder
  OBVIOUS
<1>4. DOMAIN f = Slots /\ DOMAIN g = Slots /\ \A s \in Slots : f[s] = g[s]
  BY <1>2, <1>3 DEF HolderSays
<1>5. f = [s \in Slots |-> f[s]] /\ g = [s \in Slots |-> g[s]]
  BY <1>3, <1>4 DEF Holder
<1> QED
  BY <1>3, <1>4, <1>5

\* One Slot changes hands.
LEMMA HolderChanges ==
  ASSUME HolderSays, HolderSays', NEW s \in Slots, NEW x, Holder'[s] = x,
         \A t \in Slots \ {s} : Holder'[t] = Holder[t]
  PROVE  Holder' = [Holder EXCEPT ![s] = x]
<1>1. PICK f, g : f = Holder' /\ g = [Holder EXCEPT ![s] = x]
  OBVIOUS
<1>2. \A t \in Slots : f[t] = g[t]
  BY <1>1 DEF HolderSays
<1>3. f = [t \in Slots |-> f[t]]
  <2>1. f = [t \in DOMAIN f |-> f[t]]
    BY <1>1 DEF Holder
  <2>2. DOMAIN f = Slots
    BY <1>1 DEF HolderSays
  <2> QED
    BY <2>1, <2>2
<1>4. g = [t \in Slots |-> g[t]]
  <2>1. g = [t \in DOMAIN g |-> g[t]]
    BY <1>1
  <2>2. DOMAIN g = Slots
    BY <1>1 DEF HolderSays
  <2> QED
    BY <2>1, <2>2
<1> QED
  BY <1>1, <1>2, <1>3, <1>4

\* The pool's own words for them.
LEMMA PoolWords ==
  ASSUME PoolInv, LineSays, HolderSays
  PROVE  /\ Pool!InLine = waiting
         /\ Line = <<>> <=> waiting = {}
         /\ Pool!FreeSlots = {s \in Slots : activeBySlot[s] = 0}
         /\ \A r \in Requests : r \in Pool!Holding <=> ownership[r].kind = "lease"
<1>1. Pool!InLine = waiting
  BY DEF Pool!InLine, LineSays, InOrder
<1>2. Line = <<>> <=> waiting = {}
  <2>1. PICK l \in Seq(waiting) : l = Line
    BY DEF LineSays
  <2>2. l # <<>> => 1 \in DOMAIN l
    OBVIOUS
  <2>3. l # <<>> => l[1] \in waiting
    BY <2>2
  <2>4. waiting # {} => l # <<>>
    BY <2>1 DEF LineSays, InOrder
  <2> QED
    BY <2>1, <2>3, <2>4
<1>3. Pool!FreeSlots = {s \in Slots : activeBySlot[s] = 0}
  BY DEF Pool!FreeSlots, HolderSays
<1>4. ASSUME NEW r \in Requests PROVE r \in Pool!Holding <=> ownership[r].kind = "lease"
  <2>1. ownership[r].kind = "lease" => ownership[r].slot \in Slots
    BY DEF PoolInv, Inv, TypeOK, Permit, Lease, NoOwner
  <2> QED
    BY <2>1 DEF Pool!Holding, HolderSays
<1> QED
  BY <1>1, <1>2, <1>3, <1>4

-----------------------------------------------------------------------------
(* Every operation of the queue is a step of the pool, or none. *)

\* open
LEMMA OpenIsOpen ==
  ASSUME PoolInv, LineSays, HolderSays, HolderSays', NEW e \in 1 .. MaxEpoch, NextEpoch(e)
  PROVE  Pool!OpenPool
<1>1. /\ epoch = 0 /\ epoch' = e /\ sealed' = FALSE /\ waiting' = waiting
      /\ ownership' = ownership /\ \A s \in Slots : activeBySlot[s] = 0
  BY DEF NextEpoch, OpenEpoch
<1>2. ~Open /\ Open' /\ Open' = TRUE
  BY <1>1, MaxEpochAssumption DEF Open
<1>3. Pool!Holding = {nobody}
  <2>1. 0 \in Slots /\ \A s \in Slots : Holder[s] = nobody
    BY <1>1, PoolSizeAssumption DEF Slots, HolderSays
  <2> QED
    BY <2>1 DEF Pool!Holding
<1>4. Line' = Line /\ Holder' = Holder
  BY <1>1, LineStays, HolderStays
<1> QED
  BY <1>2, <1>3, <1>4 DEF Pool!OpenPool

\* A request that is new neither waits nor holds a Slot.
LEMMA NewIsOutside ==
  ASSUME PoolInv, LineSays, HolderSays, NEW r \in Requests, Fresh(r)
  PROVE  r \notin Pool!InLine \cup Pool!Holding /\ r \notin waiting
<1>1. ownership[r] = NoOwner
  BY DEF Fresh
<1>2. ownership[r].kind = "none"
  BY <1>1 DEF NoOwner
<1>3. r \notin waiting
  BY <1>2 DEF PoolInv, Inv, LinesHoldPermits, Waiters
<1> QED
  BY <1>2, <1>3, PoolWords

\* submit with an idle Slot, and the heartbeat's claim
LEMMA GrantIsTake ==
  ASSUME PoolInv, LineSays, HolderSays, HolderSays', NEW r \in Requests, NEW s \in Slots,
         Open, Fresh(r), waiting = {}, s \in idle, Grant(r, s),
         UNCHANGED <<epoch, sealed, waiting>>
  PROVE  Pool!Take(r, s)
<1>1. activeBySlot[s] = 0
  BY DEF PoolInv, Inv, SlotsHaveOneOwner
<1>2. Line = <<>> /\ s \in Pool!FreeSlots
  BY <1>1, PoolWords
<1>3. Line' = Line
  BY LineStays
<1>4. /\ ownership' = [ownership EXCEPT ![r] = NewLease(r, s)]
      /\ activeBySlot' = [activeBySlot EXCEPT ![s] = leaseCounter + 1]
      /\ leaseCounter \in Nat /\ r \in DOMAIN ownership /\ s \in DOMAIN activeBySlot
  BY DEF Grant, PoolInv, Inv, TypeOK
<1>5. /\ ownership'[r].kind = "lease" /\ ownership'[r].slot = s
      /\ \A q \in Requests \ {r} : ownership'[q] = ownership[q]
      /\ \A t \in Slots \ {s} : activeBySlot'[t] = activeBySlot[t]
      /\ activeBySlot'[s] # 0
  BY <1>4 DEF NewLease
<1>6. ownership[r].kind = "none"
  BY DEF Fresh, NoOwner
<1>7. Holder'[s] = r
  BY <1>5 DEF HolderSays
<1>8. ASSUME NEW t \in Slots \ {s} PROVE Holder'[t] = Holder[t]
  <2>1. \A q \in Requests : Holder'[t] = q <=> Holder[t] = q
    BY <1>5, <1>6 DEF HolderSays
  <2> QED
    BY <2>1 DEF HolderSays
<1>9. Holder' = [Holder EXCEPT ![s] = r]
  BY <1>7, <1>8, HolderChanges
<1>10. UNCHANGED <<Open, Line>>
  BY <1>3 DEF Open
<1> QED
  BY <1>2, <1>9, <1>10, NewIsOutside DEF Pool!Take

\* submit without one
LEMMA WaitIsJoin ==
  ASSUME PoolInv, LineSays, LineSays', HolderSays, HolderSays',
         NEW r \in Requests, SubmitWaiting(r)
  PROVE  Pool!Join(r)
<1>1. /\ Open /\ Fresh(r) /\ (waiting # {} \/ idle = {})
      /\ Cardinality(Waiters) < MaxPendingRequests
      /\ waiting' = waiting \cup {r}
      /\ ownership' = [ownership EXCEPT ![r] = NewPermit(r)]
      /\ UNCHANGED <<epoch, sealed>>
  BY DEF SubmitWaiting, TakePermit
<1>2. r \notin Pool!InLine \cup Pool!Holding /\ r \notin waiting
  BY <1>1, NewIsOutside
<1>3. Len(Line) < MaxPendingRequests
  <2>1. IsFiniteSet(Waiters) /\ waiting \in SUBSET Waiters
    BY RequestsAssumption, FS_Subset DEF PoolInv, Inv, TypeOK, Waiters
  <2>2. Cardinality(waiting) <= Cardinality(Waiters) /\ IsFiniteSet(waiting)
    BY <2>1, FS_Subset
  <2>3. Cardinality(waiting) \in Nat /\ Cardinality(Waiters) \in Nat
    BY <2>1, <2>2, FS_CardinalityType
  <2> QED
    BY <1>1, <2>2, <2>3, MaxPendingAssumption DEF LineSays
<1>4. Pool!FreeSlots = {} \/ Line # <<>>
  BY <1>1, PoolWords DEF PoolInv, Inv, SlotsHaveOneOwner
<1>5. Line' = Append(Line, r)
  <2>1. PICK k, m, s, t, W : k = PermitIds /\ m = PermitIds' /\ s = Line /\ t = Line' /\ W = waiting
    OBVIOUS
  <2>2. Keyed(W, k) /\ s \in Seq(W) /\ InOrder(s, W, k)
    BY <2>1 DEF LineSays
  <2>3. Keyed(W \cup {r}, m) /\ t \in Seq(W \cup {r}) /\ InOrder(t, W \cup {r}, m)
    <3>1. waiting' = W \cup {r}
      BY <1>1, <2>1
    <3> QED
      BY <2>1, <3>1 DEF LineSays
  <2>4. r \notin W
    BY <1>2, <2>1
  <2>5. \A q \in W : m[q] = k[q] /\ m[q] < m[r]
    <3> TAKE q \in W
    <3>1. /\ q \in waiting /\ q \in waiting' /\ r \in waiting' /\ q # r
          /\ q \in Requests /\ permitCounter \in Nat /\ r \in DOMAIN ownership
      BY <1>1, <1>2, <2>1 DEF PoolInv, Inv, TypeOK
    <3>2. ownership[q].kind = "permit" /\ ownership[q] \in handles
      BY <3>1 DEF PoolInv, Inv, LinesHoldPermits, Waiters, PermitsAreOnce
    <3>3. ownership[q].id <= permitCounter /\ ownership[q].id \in Nat
      BY <3>1, <3>2 DEF PoolInv, Inv, TypeOK, PermitsAreOnce, Permit, Lease, NoOwner, Id
    <3>4. k[q] = ownership[q].id /\ m[q] = ownership'[q].id /\ m[r] = ownership'[r].id
      BY <2>1, <3>1 DEF PermitIds
    <3>5. ownership'[q] = ownership[q] /\ ownership'[r].id = permitCounter + 1
      BY <1>1, <3>1 DEF NewPermit
    <3> QED
      BY <3>1, <3>3, <3>4, <3>5
  <2>6. t = Append(s, r)
    BY <2>2, <2>3, <2>4, <2>5, TailIsJoined
  <2> QED
    BY <2>1, <2>6
<1>6. Holder' = Holder
  <2>1. ASSUME NEW q \in Requests, ownership'[q] # ownership[q]
        PROVE  ownership[q].kind # "lease" /\ ownership'[q].kind # "lease"
    <3>1. q = r /\ r \in DOMAIN ownership
      BY <1>1, <2>1 DEF PoolInv, Inv, TypeOK
    <3> QED
      BY <1>1, <3>1 DEF NewPermit, Fresh, NoOwner
  <2> QED
    BY <2>1, HolderStays
<1>7. UNCHANGED <<Open, Holder>>
  BY <1>1, <1>6 DEF Open
<1> QED
  BY <1>1, <1>2, <1>3, <1>4, <1>5, <1>7 DEF Pool!Join

LEMMA EmptyLine ==
  ASSUME NEW W, NEW key, NEW s \in Seq(W), InOrder(s, W, key), W = {}
  PROVE  s = <<>>
<1>1. s # <<>> => 1 \in DOMAIN s
  OBVIOUS
<1>2. s # <<>> => s[1] \in W
  BY <1>1
<1> QED
  BY <1>2

\* Whoever is left of the line keeps his place before the others.
LEMMA LeaversLeaveTheRest ==
  ASSUME LineSays, LineSays', NEW gone, gone \subseteq waiting, waiting' = waiting \ gone,
         \A r \in waiting \ gone : ownership'[r].id = ownership[r].id
  PROVE  Pool!Remains(Line', gone)
<1>1. PICK k, m, s, t, W, V : /\ k = PermitIds /\ m = PermitIds' /\ s = Line /\ t = Line'
                              /\ W = waiting /\ V = waiting \ gone
  OBVIOUS
<1>2. Keyed(W, k) /\ s \in Seq(W) /\ InOrder(s, W, k)
  BY <1>1 DEF LineSays
<1>3. t \in Seq(V) /\ InOrder(t, V, m) /\ V \subseteq W
  BY <1>1 DEF LineSays
<1>4. \A r \in V : m[r] = k[r]
  BY <1>1 DEF PermitIds
<1>5. \A i, j \in DOMAIN t : i < j => \E a, b \in DOMAIN s : a < b /\ s[a] = t[i] /\ s[b] = t[j]
  BY <1>2, <1>3, <1>4, OrderIsKept
<1>6. \A r \in V : \E i \in DOMAIN t : t[i] = r
  BY <1>3 DEF InOrder
<1>7. Pool!InLine = W
  BY <1>1 DEF Pool!InLine, LineSays, InOrder
<1> QED
  BY <1>1, <1>3, <1>5, <1>6, <1>7 DEF Pool!Remains

\* cancel_waiting
LEMMA CancelIsLeave ==
  ASSUME PoolInv, LineSays, LineSays', HolderSays, HolderSays',
         NEW h \in handles, h.kind = "permit", CancelWaiting(h)
  PROVE  \E gone \in SUBSET Pool!InLine : Pool!Leave(gone)
<1>1. PICK r : r = h.request
  OBVIOUS
<1>2. /\ r \in waiting /\ r \in Requests /\ waiting' = waiting \ {r} /\ UNCHANGED <<epoch, sealed>>
      /\ ownership' = [q \in Requests |-> IF q \in {r} THEN NoOwner ELSE ownership[q]]
  BY <1>1 DEF CancelWaiting, Disown, PoolInv, Inv, TypeOK
<1>3. ownership[r].kind = "permit"
  BY <1>2 DEF PoolInv, Inv, LinesHoldPermits, Waiters
<1>4. \A q \in waiting \ {r} : ownership'[q].id = ownership[q].id
  BY <1>2 DEF PoolInv, Inv, TypeOK
<1>5. Pool!Remains(Line', {r})
  BY <1>2, <1>4, LeaversLeaveTheRest
<1>6. Holder' = Holder
  <2>1. ASSUME NEW q \in Requests, ownership'[q] # ownership[q]
        PROVE  ownership[q].kind # "lease" /\ ownership'[q].kind # "lease"
    BY <1>2, <1>3, <2>1 DEF NoOwner
  <2> QED
    BY <2>1, HolderStays
<1>7. UNCHANGED <<Open, Holder>>
  BY <1>2, <1>6 DEF Open
<1>8. {r} \in SUBSET Pool!InLine
  BY <1>2, PoolWords
<1>9. Pool!Leave({r})
  BY <1>5, <1>7 DEF Pool!Leave
<1> QED
  BY <1>8, <1>9

\* expire_waiting
LEMMA ExpireIsLeave ==
  ASSUME PoolInv, LineSays, LineSays', HolderSays, HolderSays', ExpireWaiting
  PROVE  \E gone \in SUBSET Pool!InLine : Pool!Leave(gone)
<1>1. PICK R : R = waiting \cap elapsed
  OBVIOUS
<1>2. /\ R # {} /\ R \subseteq waiting /\ waiting' = waiting \ R /\ UNCHANGED <<epoch, sealed>>
      /\ ownership' = [q \in Requests |-> IF q \in R THEN NoOwner ELSE ownership[q]]
      /\ waiting \subseteq Requests
  BY <1>1 DEF ExpireWaiting, Disown, LiveWaiters, Live, PoolInv, Inv, TypeOK
<1>3. \A r \in R : ownership[r].kind = "permit"
  BY <1>2 DEF PoolInv, Inv, LinesHoldPermits, Waiters
<1>4. \A q \in waiting \ R : ownership'[q].id = ownership[q].id
  BY <1>2
<1>5. Pool!Remains(Line', R)
  BY <1>2, <1>4, LeaversLeaveTheRest
<1>6. Holder' = Holder
  <2>1. ASSUME NEW q \in Requests, ownership'[q] # ownership[q]
        PROVE  ownership[q].kind # "lease" /\ ownership'[q].kind # "lease"
    BY <1>2, <1>3, <2>1 DEF NoOwner
  <2> QED
    BY <2>1, HolderStays
<1>7. UNCHANGED <<Open, Holder>>
  BY <1>2, <1>6 DEF Open
<1>8. R \in SUBSET Pool!InLine
  BY <1>2, PoolWords
<1>9. Pool!Leave(R)
  BY <1>2, <1>5, <1>7 DEF Pool!Leave
<1> QED
  BY <1>8, <1>9

\* What a lease that owns its Slot says.
LEMMA OwnerHolds ==
  ASSUME PoolInv, HolderSays, NEW h \in handles, h.kind = "lease", OwnsSlot(h)
  PROVE  /\ h.slot \in Slots /\ h.request \in Requests /\ ownership[h.request] = h
         /\ Holder[h.slot] = h.request /\ Holder[h.slot] # nobody /\ epoch # 0
<1>1. h \in Lease
  BY DEF PoolInv, Inv, TypeOK, Permit
<1>2. /\ h.slot \in Slots /\ h.request \in Requests /\ ownership[h.request] = h
      /\ h.epoch = epoch /\ h.epoch # 0
  BY <1>1 DEF Lease, OwnsSlot, Id
<1> QED
  BY <1>2, NobodyAssumption DEF HolderSays

\* release_active, when somebody alive waits: the expired front leaves, and the
\* first of the others takes the Slot over.
LEMMA PromoteIsHandOver ==
  ASSUME PoolInv, LineSays, LineSays', HolderSays, HolderSays',
         NEW h \in handles, h.kind = "lease", ReleaseAndPromote(h)
  PROVE  \E s \in Slots : \E gone \in SUBSET Pool!InLine : Pool!HandOver(s, gone)
<1>1. OwnsSlot(h) /\ ~sealed /\ UNCHANGED <<epoch, sealed>>
  BY DEF ReleaseAndPromote
<1>2. PICK r \in waiting :
         /\ FirstLiveWaiter(r)
         /\ waiting' = waiting \ (ExpiredFront \cup {r})
         /\ ownership' = [q \in Requests |->
               IF q = r THEN NewLease(r, h.slot)
               ELSE IF q \in ExpiredFront \cup {h.request} THEN NoOwner
               ELSE ownership[q]]
  BY DEF ReleaseAndPromote
<1>3. PICK s, o : s = h.slot /\ o = h.request
  OBVIOUS
<1>4. /\ s \in Slots /\ o \in Requests /\ ownership[o].kind = "lease" /\ ownership[o].slot = s
      /\ Holder[s] = o /\ Holder[s] # nobody /\ Open
  BY <1>1, <1>3, OwnerHolds DEF Open
<1>5. PICK E : E = ExpiredFront
  OBVIOUS
<1>6. /\ E \subseteq waiting /\ waiting \subseteq Requests /\ r \notin E
      /\ \A q \in waiting : ownership[q].kind = "permit" /\ ownership[q].id \in Nat
  <2>1. r \in LiveWaiters /\ ~(r \in elapsed)
    BY <1>2 DEF FirstLiveWaiter, LiveWaiters, Live
  <2>2. E \subseteq waiting /\ r \notin E
    BY <1>5, <2>1 DEF ExpiredFront
  <2>3. \A q \in waiting : q \in Requests /\ ownership[q].kind = "permit"
    BY DEF PoolInv, Inv, TypeOK, LinesHoldPermits, Waiters
  <2>4. \A q \in waiting : ownership[q].id \in Nat
    BY <2>3 DEF PoolInv, Inv, TypeOK, Permit, Lease, NoOwner, Id
  <2> QED
    BY <2>2, <2>3, <2>4
<1>7. \A q \in waiting \ (E \cup {r}) : ownership[r].id < ownership[q].id /\ ownership'[q].id = ownership[q].id
  <2> TAKE q \in waiting \ (E \cup {r})
  <2>1. q # o /\ q \in Requests
    BY <1>4, <1>6
  <2>2. ownership'[q] = ownership[q]
    BY <1>2, <1>3, <1>5, <2>1
  <2>3. CASE q \in LiveWaiters
    BY <1>2, <2>2, <2>3 DEF FirstLiveWaiter, Before
  <2>4. CASE q \notin LiveWaiters
    <3>1. q \in waiting \cap elapsed
      BY <2>4 DEF LiveWaiters, Live
    <3>2. PICK p \in LiveWaiters : ~(ownership[q].id < ownership[p].id)
      BY <1>5, <3>1 DEF ExpiredFront, Before
    <3>3. p = r \/ ownership[r].id < ownership[p].id
      BY <1>2, <3>2 DEF FirstLiveWaiter, Before
    <3>4. p \in waiting
      BY <3>2 DEF LiveWaiters
    <3>5. PICK x \in Nat, y \in Nat, z \in Nat :
             x = ownership[q].id /\ y = ownership[p].id /\ z = ownership[r].id
      BY <1>6, <3>4
    <3>6. z <= x
      BY <3>2, <3>3, <3>5
    <3>7. z # x
      <4>1. Keyed(waiting, PermitIds)
        BY DEF LineSays
      <4>2. PermitIds[q] = x /\ PermitIds[r] = z
        BY <3>5 DEF PermitIds
      <4> QED
        BY <4>1, <4>2 DEF Keyed
    <3> QED
      BY <2>2, <3>5, <3>6, <3>7
  <2> QED
    BY <2>3, <2>4
<1>8. \A i, j \in DOMAIN Line : Line[j] \in E /\ i < j => Line[i] \in E
  <2> TAKE i, j \in DOMAIN Line
  <2> HAVE Line[j] \in E /\ i < j
  <2>1. PICK a, b : a = Line[i] /\ b = Line[j]
    OBVIOUS
  <2>2. a \in waiting /\ b \in waiting /\ PermitIds[a] < PermitIds[b]
    BY <2>1 DEF LineSays, InOrder
  <2>3. PICK x \in Nat, y \in Nat : x = ownership[a].id /\ y = ownership[b].id
    BY <1>6, <2>2
  <2>4. x < y
    BY <2>2, <2>3 DEF PermitIds
  <2>5. \A q \in LiveWaiters : y < ownership[q].id /\ q \in waiting
    BY <1>5, <2>1, <2>3 DEF ExpiredFront, Before, LiveWaiters
  <2>6. \A q \in LiveWaiters : x < ownership[q].id
    BY <1>6, <2>3, <2>4, <2>5
  <2>7. a \in elapsed
    <3> SUFFICES ASSUME a \notin elapsed PROVE FALSE
      OBVIOUS
    <3>1. a \in LiveWaiters
      BY <2>2 DEF LiveWaiters, Live
    <3> QED
      BY <2>3, <2>6, <3>1
  <2> QED
    BY <1>5, <2>1, <2>2, <2>3, <2>6, <2>7 DEF ExpiredFront, Before
<1>9. Pool!Remains(<<r>> \o Line', E)
  <2>1. PICK k, m, l, t, W, V : /\ k = PermitIds /\ m = PermitIds' /\ l = Line /\ t = Line'
                                /\ W = waiting /\ V = waiting \ E
    OBVIOUS
  <2>2. Keyed(W, k) /\ l \in Seq(W) /\ InOrder(l, W, k)
    BY <2>1 DEF LineSays
  <2>3. waiting' = V \ {r} /\ r \in V /\ V \subseteq W
    BY <1>2, <1>5, <1>6, <2>1
  <2>4. t \in Seq(V \ {r}) /\ InOrder(t, V \ {r}, m)
    BY <2>1, <2>3 DEF LineSays
  <2>5. \A q \in V \ {r} : k[r] < k[q] /\ m[q] = k[q]
    <3> TAKE q \in V \ {r}
    <3>1. q \in waiting \ (E \cup {r}) /\ q \in waiting'
      BY <2>1, <2>3
    <3>2. k[r] = ownership[r].id /\ k[q] = ownership[q].id /\ m[q] = ownership'[q].id
      BY <2>1, <3>1 DEF PermitIds
    <3> QED
      BY <1>7, <3>1, <3>2
  <2>6. Keyed(V, k)
    BY <2>2, <2>3 DEF Keyed
  <2>7. PICK u : u = <<r>> \o t
    OBVIOUS
  <2>8. u \in Seq(V) /\ InOrder(u, V, k)
    BY <2>3, <2>4, <2>5, <2>6, <2>7, HeadIsFirst
  <2>9. \A i, j \in DOMAIN u : i < j => \E a, b \in DOMAIN l : a < b /\ l[a] = u[i] /\ l[b] = u[j]
    BY <2>2, <2>3, <2>8, OrderIsKept
  <2>10. \A q \in V : \E i \in DOMAIN u : u[i] = q
    BY <2>8 DEF InOrder
  <2>11. Pool!InLine = W
    BY <2>1 DEF Pool!InLine, LineSays, InOrder
  <2>12. Pool!Remains(u, E)
    BY <2>1, <2>8, <2>9, <2>10, <2>11 DEF Pool!Remains
  <2> QED
    BY <2>1, <2>7, <2>12
<1>10. Holder' = [Holder EXCEPT ![s] = r]
  <2>1. r \in Requests /\ r # o
    BY <1>4, <1>6
  <2>2. ownership'[r].kind = "lease" /\ ownership'[r].slot = s
    BY <1>2, <1>3, <2>1 DEF NewLease
  <2>3. Holder'[s] = r
    BY <1>4, <2>1, <2>2 DEF HolderSays
  <2>4. ASSUME NEW t \in Slots \ {s} PROVE Holder'[t] = Holder[t]
    <3>1. ASSUME NEW q \in Requests
          PROVE  ownership'[q].kind = "lease" /\ ownership'[q].slot = t
                    <=> ownership[q].kind = "lease" /\ ownership[q].slot = t
      <4>1. CASE q = r
        BY <1>6, <2>2, <4>1
      <4>2. CASE q # r /\ (q \in E \/ q = o)
        <5>1. ownership'[q] = NoOwner
          BY <1>2, <1>3, <1>5, <4>2
        <5> QED
          BY <1>4, <1>6, <4>2, <5>1 DEF NoOwner
      <4>3. CASE q # r /\ q \notin E /\ q # o
        BY <1>2, <1>3, <1>5, <4>3
      <4> QED
        BY <4>1, <4>2, <4>3
    <3>2. \A q \in Requests : Holder'[t] = q <=> Holder[t] = q
      BY <3>1 DEF HolderSays
    <3> QED
      BY <3>2 DEF HolderSays
  <2> QED
    BY <1>4, <2>3, <2>4, HolderChanges
<1>11. E \in SUBSET Pool!InLine /\ r \in Pool!InLine \ E
  BY <1>6, PoolWords
<1>12. UNCHANGED Open
  BY <1>1 DEF Open
<1>13. Pool!HandOver(s, E)
  BY <1>4, <1>8, <1>9, <1>10, <1>11, <1>12 DEF Pool!HandOver
<1> QED
  BY <1>4, <1>11, <1>13

\* release_active otherwise
LEMMA ReleaseIsFree ==
  ASSUME PoolInv, LineSays, LineSays', HolderSays, HolderSays',
         NEW h \in handles, h.kind = "lease", ReleaseToIdle(h)
  PROVE  \E s \in Slots : Pool!Free(s)
<1>1. /\ OwnsSlot(h) /\ (sealed \/ LiveWaiters = {}) /\ UNCHANGED <<epoch, sealed>>
      /\ waiting' = waiting \ ExpiredFront
      /\ ownership' = [q \in Requests |->
            IF q \in ExpiredFront \cup {h.request} THEN NoOwner ELSE ownership[q]]
      /\ activeBySlot' = [activeBySlot EXCEPT ![h.slot] = 0]
  BY DEF ReleaseToIdle
<1>2. PICK s, o : s = h.slot /\ o = h.request
  OBVIOUS
<1>3. /\ s \in Slots /\ o \in Requests /\ ownership[o].kind = "lease" /\ ownership[o].slot = s
      /\ Holder[s] = o /\ Holder[s] # nobody
  BY <1>1, <1>2, OwnerHolds
<1>4. waiting' = {}
  <2>1. CASE sealed
    BY <1>1, <2>1 DEF PoolInv, SealedLineIsEmpty, Open
  <2>2. CASE LiveWaiters = {}
    BY <1>1, <2>2 DEF ExpiredFront, LiveWaiters, Live
  <2> QED
    BY <1>1, <2>1, <2>2
<1>5. Line' = <<>>
  <2>1. PICK t, m : t = Line' /\ m = PermitIds'
    OBVIOUS
  <2>2. t \in Seq({}) /\ InOrder(t, {}, m)
    BY <1>4, <2>1 DEF LineSays
  <2> QED
    BY <2>1, <2>2, EmptyLine
<1>6. Holder' = [Holder EXCEPT ![s] = nobody]
  <2>1. \A q \in waiting : q \in Requests /\ ownership[q].kind = "permit"
    BY DEF PoolInv, Inv, TypeOK, LinesHoldPermits, Waiters
  <2>2. activeBySlot'[s] = 0
    BY <1>1, <1>2, <1>3 DEF PoolInv, Inv, TypeOK
  <2>3. Holder'[s] = nobody
    BY <1>3, <2>2 DEF HolderSays
  <2>4. ASSUME NEW t \in Slots \ {s} PROVE Holder'[t] = Holder[t]
    <3>1. ASSUME NEW q \in Requests
          PROVE  ownership'[q].kind = "lease" /\ ownership'[q].slot = t
                    <=> ownership[q].kind = "lease" /\ ownership[q].slot = t
      <4>1. CASE q \in ExpiredFront \cup {o}
        <5>1. ownership'[q] = NoOwner
          BY <1>1, <1>2, <4>1
        <5>2. q \in waiting \/ q = o
          BY <4>1 DEF ExpiredFront
        <5> QED
          BY <1>3, <2>1, <5>1, <5>2 DEF NoOwner
      <4>2. CASE q \notin ExpiredFront \cup {o}
        BY <1>1, <1>2, <4>2
      <4> QED
        BY <4>1, <4>2
    <3>2. \A q \in Requests : Holder'[t] = q <=> Holder[t] = q
      BY <3>1 DEF HolderSays
    <3> QED
      BY <3>2 DEF HolderSays
  <2> QED
    BY <1>3, <2>3, <2>4, HolderChanges
<1>7. UNCHANGED Open
  BY <1>1 DEF Open
<1>8. Pool!Free(s)
  BY <1>3, <1>5, <1>6, <1>7 DEF Pool!Free
<1> QED
  BY <1>3, <1>8

\* seal
LEMMA SealIsClose ==
  ASSUME PoolInv, LineSays', HolderSays, HolderSays', Seal
  PROVE  Pool!ClosePool
<1>1. /\ epoch # 0 /\ ~sealed /\ sealed' = TRUE /\ waiting' = {}
      /\ ownership' = [r \in Requests |-> IF r \in Waiters THEN NoOwner ELSE ownership[r]]
  BY DEF Seal, Disown
<1>2. Open /\ Open' = FALSE
  BY <1>1 DEF Open
<1>3. Line' = <<>>
  <2>1. PICK t, m : t = Line' /\ m = PermitIds'
    OBVIOUS
  <2>2. t \in Seq({}) /\ InOrder(t, {}, m)
    BY <1>1, <2>1 DEF LineSays
  <2> QED
    BY <2>1, <2>2, EmptyLine
<1>4. ASSUME NEW q \in Requests, ownership'[q] # ownership[q]
      PROVE  ownership[q].kind # "lease" /\ ownership'[q].kind # "lease"
  BY <1>1, <1>4 DEF NoOwner, PoolInv, Inv, LinesHoldPermits
<1>5. Holder' = Holder
  BY <1>4, HolderStays
<1> QED
  BY <1>2, <1>3, <1>5 DEF Pool!ClosePool

\* The other operations touch neither the line nor a Slot.
LEMMA OthersAreUnseen ==
  ASSUME PoolInv, LineSays, HolderSays, HolderSays',
         \/ UNCHANGED vars
         \/ CloseComplete
         \/ \E r \in Requests : Refuse(r) \/ ReservePinWaiting(r) \/ Elapse(r)
         \/ \E h \in handles : h.kind = "permit" /\ ReleasePinWaiting(h)
  PROVE  UNCHANGED Pool!poolVars
<1>1. SUFFICES /\ UNCHANGED Open /\ waiting' = waiting
               /\ \A r \in waiting : ownership'[r].id = ownership[r].id
               /\ \A r \in Requests : ownership'[r] # ownership[r] =>
                     ownership[r].kind # "lease" /\ ownership'[r].kind # "lease"
  BY LineStays, HolderStays DEF Pool!poolVars
<1>2. /\ waiting \subseteq Requests /\ DOMAIN ownership = Requests
      /\ \A r \in waiting : r \notin pinWaiting /\ ownership[r].kind = "permit"
      /\ \A r \in pinWaiting : ownership[r].kind = "permit"
  BY DEF PoolInv, Inv, TypeOK, LinesHoldPermits, Waiters
<1>3. CASE UNCHANGED vars
  BY <1>3 DEF vars, admissionVars, Open
<1>4. CASE CloseComplete
  <2>1. /\ sealed /\ sealed' = TRUE /\ waiting' = {}
        /\ \A r \in Requests : ownership[r] = NoOwner /\ ownership'[r] = NoOwner
    BY <1>4 DEF CloseComplete
  <2>2. waiting = {} /\ Open = FALSE /\ Open' = FALSE
    BY <2>1 DEF PoolInv, SealedLineIsEmpty, Open
  <2> QED
    BY <2>1, <2>2 DEF NoOwner
<1>5. ASSUME NEW r \in Requests, Refuse(r) \/ Elapse(r) PROVE UNCHANGED <<epoch, sealed, waiting, ownership>>
  BY <1>5 DEF Refuse, Elapse, admissionVars
<1>6. ASSUME NEW r \in Requests, ReservePinWaiting(r)
      PROVE  /\ UNCHANGED <<epoch, sealed, waiting>>
             /\ r \notin waiting /\ ownership[r].kind # "lease" /\ ownership'[r].kind # "lease"
             /\ \A q \in Requests \ {r} : ownership'[q] = ownership[q]
  <2>1. ownership[r] = NoOwner /\ ownership' = [ownership EXCEPT ![r] = NewPermit(r)]
    BY <1>6 DEF ReservePinWaiting, TakePermit, Fresh
  <2>2. ownership[r].kind = "none" /\ ownership'[r].kind = "permit"
    BY <1>2, <2>1 DEF NoOwner, NewPermit
  <2> QED
    BY <1>2, <1>6, <2>1, <2>2 DEF ReservePinWaiting
<1>7. ASSUME NEW h \in handles, h.kind = "permit", ReleasePinWaiting(h)
      PROVE  /\ UNCHANGED <<epoch, sealed, waiting>>
             /\ \A r \in waiting : ownership'[r] = ownership[r]
             /\ \A r \in Requests : ownership'[r] # ownership[r] =>
                     ownership[r].kind # "lease" /\ ownership'[r].kind # "lease"
  <2>1. /\ h.request \in pinWaiting /\ UNCHANGED <<epoch, sealed, waiting>>
        /\ ownership' = [q \in Requests |-> IF q \in {h.request} THEN NoOwner ELSE ownership[q]]
    BY <1>7 DEF ReleasePinWaiting, Disown
  <2> QED
    BY <1>2, <2>1 DEF NoOwner
<1>8. CASE \E r \in Requests : Refuse(r) \/ Elapse(r)
  BY <1>5, <1>8 DEF Open
<1>9. CASE \E r \in Requests : ReservePinWaiting(r)
  BY <1>2, <1>6, <1>9 DEF Open
<1>10. CASE \E h \in handles : h.kind = "permit" /\ ReleasePinWaiting(h)
  BY <1>7, <1>10 DEF Open
<1> QED
  BY <1>3, <1>4, <1>8, <1>9, <1>10

\* Every step of the queue is a step of the pool, or leaves it as it is.
LEMMA StepIsPoolStep ==
  ASSUME PoolInv, LineSays, LineSays', HolderSays, HolderSays', [Next]_vars
  PROVE  [Pool!Next]_(Pool!poolVars)
<1>1. ASSUME NEW e \in 1 .. MaxEpoch, NextEpoch(e) PROVE Pool!Next
  BY <1>1, OpenIsOpen DEF Pool!Next
<1>2. ASSUME NEW r \in Requests, SubmitDirect(r) PROVE Pool!Next
  <2>1. PICK s \in idle : Grant(r, s)
    BY <1>2 DEF SubmitDirect
  <2>2. s \in Slots
    BY DEF PoolInv, Inv, TypeOK
  <2>3. Open /\ Fresh(r) /\ waiting = {} /\ UNCHANGED <<epoch, sealed, waiting>>
    BY <1>2 DEF SubmitDirect
  <2>4. Pool!Take(r, s)
    BY <2>1, <2>2, <2>3, GrantIsTake
  <2> QED
    BY <2>2, <2>4 DEF Pool!Next
<1>3. ASSUME NEW r \in Requests, SubmitWaiting(r) PROVE Pool!Next
  BY <1>3, WaitIsJoin DEF Pool!Next
<1>4. ASSUME NEW r \in Requests, NEW s \in Slots, ClaimIdleForHeartbeat(r, s) PROVE Pool!Next
  <2>1. /\ Open /\ Fresh(r) /\ waiting = {} /\ s \in idle /\ Grant(r, s)
        /\ UNCHANGED <<epoch, sealed, waiting>>
    BY <1>4 DEF ClaimIdleForHeartbeat, Waiters
  <2>2. Pool!Take(r, s)
    BY <2>1, GrantIsTake
  <2> QED
    BY <2>2 DEF Pool!Next
<1>5. ASSUME NEW h \in handles, h.kind = "permit", CancelWaiting(h) PROVE Pool!Next
  BY <1>5, CancelIsLeave DEF Pool!Next
<1>6. ASSUME NEW h \in handles, h.kind = "lease", ReleaseAndPromote(h) PROVE Pool!Next
  BY <1>6, PromoteIsHandOver DEF Pool!Next
<1>7. ASSUME NEW h \in handles, h.kind = "lease", ReleaseToIdle(h) PROVE Pool!Next
  BY <1>7, ReleaseIsFree DEF Pool!Next
<1>8. CASE ExpireWaiting
  BY <1>8, ExpireIsLeave DEF Pool!Next
<1>9. CASE Seal
  BY <1>9, SealIsClose DEF Pool!Next
<1>10. CASE \/ UNCHANGED vars
            \/ CloseComplete
            \/ \E r \in Requests : Refuse(r) \/ ReservePinWaiting(r) \/ Elapse(r)
            \/ \E h \in handles : h.kind = "permit" /\ ReleasePinWaiting(h)
  BY <1>10, OthersAreUnseen
<1> QED
  BY <1>1, <1>2, <1>3, <1>4, <1>5, <1>6, <1>7, <1>8, <1>9, <1>10 DEF Next, ReleaseActive

\* A new queue is a new pool.
LEMMA InitIsPoolInit == Init => Pool!Init
<1> SUFFICES ASSUME Init PROVE Pool!Init
  OBVIOUS
<1>1. Open = FALSE
  BY DEF Init, Open
<1>2. Line = <<>>
  <2>1. PICK k : k = PermitIds
    OBVIOUS
  <2>2. Line = Arranged({}, k)
    BY <2>1 DEF Init, Line, PermitIds
  <2>3. IsFiniteSet({}) /\ Cardinality({}) = 0 /\ Keyed({}, k)
    BY FS_EmptySet DEF Keyed
  <2>4. Arranged({}, k) \in [1 .. 0 -> {}]
    BY <2>3, ArrangementExists
  <2>5. PICK t : t = Line /\ t \in [1 .. 0 -> {}]
    BY <2>2, <2>4
  <2>6. t = <<>>
    BY <2>5
  <2> QED
    BY <2>5, <2>6
<1>3. Holder = [s \in Slots |-> nobody]
  <2>1. \A s \in Slots : Held(s) = {}
    BY DEF Init, Held, NoOwner
  <2> QED
    BY <2>1 DEF Holder
<1> QED
  BY <1>1, <1>2, <1>3 DEF Pool!Init

\* The queue implements the pool: a Slot has one holder at a time, the line is
\* joined at its tail and served at its head, nobody stands in it while a Slot is
\* free, and a closed queue has no line and grants nothing (request.rs
\* AdmissionQueue: submit, release_active, cancel_waiting, expire_waiting, seal).
THEOREM QueueIsAPool == Spec => ImplementsSlotPool
<1>1. Inv /\ SealedLineIsEmpty /\ [Next]_vars => SealedLineIsEmpty'
  BY SealedStep
<1>2. Init => SealedLineIsEmpty
  BY DEF Init, SealedLineIsEmpty
<1>3. Spec => []SealedLineIsEmpty
  BY <1>1, <1>2, Invariance, PTL DEF Spec
<1>4. /\ Inv /\ SealedLineIsEmpty /\ LineSays /\ LineSays' /\ HolderSays /\ HolderSays'
      /\ [Next]_vars
      => [Pool!Next]_(Pool!poolVars)
  BY StepIsPoolStep DEF PoolInv
<1> QED
  BY <1>3, <1>4, InvLine, InvHolder, InitIsPoolInit, Invariance, PTL
     DEF Spec, ImplementsSlotPool, Pool!Spec
=============================================================================
