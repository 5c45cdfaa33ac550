---------------------------- MODULE Subscription ----------------------------
(***************************************************************************)
(* Quote subscriptions (api/subscription.py) over one pool: each run takes *)
(* one pinned connection per group of codes, refreshes the groups, shows   *)
(* the records to its callback, renews and polls until it is stopped, and  *)
(* gives the pins back on every way out.  Other threads stop it and close  *)
(* or reopen the client meanwhile.                                         *)
(*                                                                         *)
(* A subscription that was closed stays stopped, so it runs once.  The     *)
(* pool is the count of its free connections; a wait for one ends by the   *)
(* timeout of the request.  Cursors are left out: a renewal sends the time *)
(* that came last, whatever the time.                                      *)
(***************************************************************************)
EXTENDS Integers, FiniteSets

CONSTANTS
    PoolSize,      \* connections of the pool
    Subscribers    \* subscription objects, each run in a thread of its own

SubscriptionAssumption == PoolSize \in Nat \ {0}

VARIABLES
    calm,          \* nothing fails, nobody else uses the client and only one subscription runs
    groups,        \* groups of codes of each subscription
    sub,           \* each subscription: where run() is, _stopped, pins held, group in hand, on_error
    free,          \* the engine's idle connections
    epoch,         \* whether the pins of each subscription are of the running engine
    precision      \* whether the price metadata is loaded

subVars == <<calm, groups, sub, free, epoch, precision>>

MaxGroups == PoolSize + 1
Running == {"metadata", "pin", "refresh", "dispatch", "loop", "renew", "poll", "close"}

SubscriptionTypeOK ==
    /\ calm \in BOOLEAN
    /\ groups \in [Subscribers -> 1 .. MaxGroups]
    /\ sub \in [Subscribers -> [at : Running \cup {"idle", "ended"}, stopped : BOOLEAN,
                                held : 0 .. PoolSize, group : 0 .. MaxGroups, tolerant : BOOLEAN,
                                raised : BOOLEAN]]
    /\ free \in 0 .. PoolSize
    /\ epoch \in [Subscribers -> BOOLEAN]
    /\ precision \in BOOLEAN

SubscriptionInit ==
    /\ calm \in BOOLEAN
    /\ groups \in [Subscribers -> 1 .. MaxGroups]
    /\ sub \in [Subscribers -> {[at |-> "idle", stopped |-> FALSE, held |-> 0, group |-> 0,
                                 tolerant |-> t, raised |-> FALSE] : t \in BOOLEAN}]
    /\ free = PoolSize
    /\ epoch = [s \in Subscribers |-> TRUE]
    /\ precision = FALSE

At(s, where) == sub[s].at = where
Goto(s, where) == sub' = [sub EXCEPT ![s].at = where]

\* Mutant of RaiseOut: there is no finally clause.
RaiseOutAtOnce(s) == sub' = [sub EXCEPT ![s].at = "ended", ![s].raised = TRUE]

\* An exception that leaves run(): its finally clause closes.
RaiseOut(s) == sub' = [sub EXCEPT ![s].at = "close", ![s].raised = TRUE]

\* An exception in the loop: on_error, or out of run().
Trouble(s, where) == IF sub[s].tolerant THEN Goto(s, where) ELSE RaiseOut(s)

\* _release_connections: PinnedTransportProxy.close gives a pin back only to
\* the engine it was taken from, while that runs.
Returned(s) == IF epoch[s] THEN sub[s].held ELSE 0

-----------------------------------------------------------------------------
(* run() and activate()                                                    *)

Run(s) ==
    /\ At(s, "idle")
    /\ calm => \A other \in Subscribers \ {s} : At(other, "idle")
    /\ sub' = [sub EXCEPT ![s].at = IF groups[s] > PoolSize THEN "close" ELSE "metadata",
                          ![s].raised = groups[s] > PoolSize]
    /\ UNCHANGED <<calm, groups, free, epoch, precision>>

\* The price metadata of the codes' markets comes over the same pool, before
\* any of its connections is pinned.
LoadMetadata(s) ==
    /\ At(s, "metadata")
    /\ precision \/ free > 0
    /\ precision' = TRUE
    /\ Goto(s, "pin")
    /\ UNCHANGED <<calm, groups, free, epoch>>

\* One pin after the other; an ExitStack holds those taken so far.  Pins of two
\* epochs are of no use: the first refresh fails.
Pin(s) ==
    /\ At(s, "pin")
    /\ free > 0
    /\ free' = free - 1
    /\ epoch' = [epoch EXCEPT ![s] = TRUE]
    /\ sub' = [sub EXCEPT ![s].held = @ + 1, ![s].group = 1,
                          ![s].at = IF sub[s].held + 1 = groups[s] THEN "refresh" ELSE "pin"]
    /\ sub[s].held > 0 => epoch[s]
    /\ UNCHANGED <<calm, groups, precision>>

\* The pool stays busy until the timeout, or the request fails, or the pins
\* are of an engine that was closed.
ActivateFails(s) ==
    /\ \/ sub[s].at \in {"metadata", "pin"} /\ free = 0
       \/ sub[s].at \in {"metadata", "pin", "refresh"} /\ ~calm
    /\ RaiseOut(s)
    /\ UNCHANGED <<calm, groups, free, epoch, precision>>

\* Each group is refreshed on its own connection.
Refresh(s) ==
    /\ At(s, "refresh")
    /\ epoch[s]
    /\ sub' = [sub EXCEPT ![s].group = @ + 1,
                          ![s].at = IF sub[s].group = groups[s] THEN "dispatch" ELSE "refresh"]
    /\ UNCHANGED <<calm, groups, free, epoch, precision>>

\* The first page goes to the callback: the records of all groups.
DispatchFirst(s) ==
    /\ At(s, "dispatch")
    /\ \/ Goto(s, "loop")
       \/ sub' = [sub EXCEPT ![s].at = "loop", ![s].stopped = TRUE]  \* the callback calls stop()
       \/ ~calm /\ Trouble(s, "loop")                               \* ... or raises
    /\ UNCHANGED <<calm, groups, free, epoch, precision>>

-----------------------------------------------------------------------------
(* run_once()                                                              *)

\* The head of the loop; without a stop the groups are gone through.
Once(s) ==
    /\ At(s, "loop")
    /\ sub' = [sub EXCEPT ![s].at = IF sub[s].stopped THEN "close" ELSE "renew", ![s].group = 1]
    /\ UNCHANGED <<calm, groups, free, epoch, precision>>

NextGroup(s) ==
    sub' = [sub EXCEPT ![s].at = IF sub[s].stopped \/ sub[s].group = groups[s] THEN "poll" ELSE "renew",
                       ![s].group = IF sub[s].group < groups[s] THEN @ + 1 ELSE @]

\* A group that is not due is left; one that is due is renewed and its records
\* are shown.
Renew(s) ==
    /\ At(s, "renew")
    /\ NextGroup(s)
    /\ UNCHANGED <<calm, groups, free, epoch, precision>>

\* One frame, shown to the callback, or none in time.
Poll(s) ==
    /\ At(s, "poll")
    /\ Goto(s, "loop")
    /\ UNCHANGED <<calm, groups, free, epoch, precision>>

\* A renewal, a poll or the callback fails.
OnceFails(s) ==
    /\ ~calm
    /\ sub[s].at \in {"renew", "poll"}
    /\ ~sub[s].stopped
    /\ IF At(s, "renew") /\ sub[s].tolerant THEN NextGroup(s) ELSE Trouble(s, "loop")
    /\ UNCHANGED <<calm, groups, free, epoch, precision>>

\* The duration of run() has passed.
DurationOver(s) ==
    /\ At(s, "loop")
    /\ ~calm
    /\ Goto(s, "close")
    /\ UNCHANGED <<calm, groups, free, epoch, precision>>

\* close(), from the finally clause: stop and release.
CloseRun(s) ==
    /\ At(s, "close")
    /\ free' = free + Returned(s)
    /\ sub' = [sub EXCEPT ![s].at = "ended", ![s].stopped = TRUE, ![s].held = 0, ![s].group = 0]
    /\ UNCHANGED <<calm, groups, epoch, precision>>

-----------------------------------------------------------------------------
(* Other threads                                                           *)

Stop(s) ==
    /\ ~sub[s].stopped
    /\ sub' = [sub EXCEPT ![s].stopped = TRUE]
    /\ UNCHANGED <<calm, groups, free, epoch, precision>>

\* client.close() and a new connect(): another epoch, every pin of the old one
\* is worthless.
Reopen ==
    /\ ~calm
    /\ \E s \in Subscribers : sub[s].held > 0 /\ epoch[s]
    /\ epoch' = [s \in Subscribers |-> sub[s].held = 0]
    /\ free' = PoolSize
    /\ UNCHANGED <<calm, groups, sub, precision>>

\* Steps of the thread in run().
Thread(s) ==
    \/ LoadMetadata(s) \/ Pin(s) \/ ActivateFails(s)
    \/ Refresh(s) \/ DispatchFirst(s)
    \/ Once(s) \/ Renew(s) \/ Poll(s) \/ OnceFails(s) \/ DurationOver(s) \/ CloseRun(s)

SubscriptionNext ==
    \/ \E s \in Subscribers : Run(s) \/ Thread(s) \/ Stop(s)
    \/ Reopen

SubscriptionSpec == SubscriptionInit /\ [][SubscriptionNext]_subVars

-----------------------------------------------------------------------------

\* No connection is lost and none is given back twice: the idle ones and the
\* pins of the running engine make up the pool, and a run that is over holds
\* none, by whatever way it ended.
Total(f) == LET Add[S \in SUBSET Subscribers] ==
                    IF S = {} THEN 0
                    ELSE LET s == CHOOSE s \in S : TRUE IN f[s] + Add[S \ {s}]
            IN  Add[Subscribers]

PinsAreGivenBack ==
    /\ free + Total([s \in Subscribers |-> Returned(s)]) = PoolSize
    /\ \A s \in Subscribers : sub[s].at \in {"idle", "metadata", "ended"} => sub[s].held = 0

\* A subscription that has the client to itself and no more groups than the
\* pool has connections cannot fail, whatever it has to load first: it never
\* waits for a connection that it holds itself.
AloneItActivates ==
    calm => \A s \in Subscribers : sub[s].raised => groups[s] > PoolSize

\* stop() ends a run.
StopEnds ==
    \A s \in Subscribers : sub[s].stopped /\ sub[s].at \in Running ~> At(s, "ended")

=============================================================================
