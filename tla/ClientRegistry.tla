--------------------------- MODULE ClientRegistry ---------------------------
(***************************************************************************)
(* _ClientRegistry of the MCP server (mcp.py): the market-data clients the *)
(* tool calls share, one per host and timeout.  A tool call leases a       *)
(* client; the first one for a key constructs and connects it outside the  *)
(* lock; a full registry retires the idle client that was used longest     *)
(* ago; the end of the server closes them all.                             *)
(*                                                                         *)
(* What runs under _condition is one step.  A failed connect, cleanup or   *)
(* close may happen to any client.                                         *)
(***************************************************************************)
EXTENDS Integers, Sequences, FiniteSets, SequencesExt

CONSTANTS
    ClientKeys,     \* (host, timeout) pairs
    Callers,        \* threads that call tools
    MaxClients,     \* _MAX_CLIENTS
    MaxCalls        \* bound: tool calls of a thread

RegistryAssumption == MaxClients \in Nat \ {0} /\ MaxCalls \in Nat

VARIABLES
    entries,        \* _clients, the one used last at the end
    pending,        \* _pending_keys
    constructing,   \* _constructing_keys
    closing,        \* _closing, _close_in_progress, _closed
    caller,         \* each thread: where it is, its key, whether it owns the key, its victim, its calls
    closer,         \* the thread in close()
    open            \* ghost: clients of each key that were constructed and not closed

registryVars == <<entries, pending, constructing, closing, caller, closer, open>>

NoKey == "none"
Spots == {"idle", "acquire", "wait", "retire", "construct", "connect", "cleanup", "use"}

Entry(k) == [key |-> k, active |-> 1, connecting |-> TRUE, retiring |-> FALSE, failed |-> FALSE]
Entries == [key : ClientKeys, active : 0 .. Cardinality(Callers), connecting : BOOLEAN,
            retiring : BOOLEAN, failed : BOOLEAN]

RegistryTypeOK ==
    /\ entries \in SeqOf(Entries, Cardinality(ClientKeys))
    /\ pending \subseteq ClientKeys
    /\ constructing \subseteq ClientKeys
    /\ closing \in [begun : BOOLEAN, busy : BOOLEAN, over : BOOLEAN]
    /\ caller \in [Callers -> [at : Spots, key : ClientKeys \cup {NoKey}, owns : BOOLEAN,
                               victim : ClientKeys \cup {NoKey}, calls : 0 .. MaxCalls]]
    /\ closer.at \in {"idle", "acquire", "wait", "closing", "done"}
    /\ open \in [ClientKeys -> 0 .. Cardinality(Callers)]

RegistryInit ==
    /\ entries = <<>>
    /\ pending = {}
    /\ constructing = {}
    /\ closing = [begun |-> FALSE, busy |-> FALSE, over |-> FALSE]
    /\ caller = [t \in Callers |-> [at |-> "idle", key |-> NoKey, owns |-> FALSE,
                                    victim |-> NoKey, calls |-> 0]]
    /\ closer = [at |-> "idle", left |-> {}, failed |-> FALSE]
    /\ open = [k \in ClientKeys |-> 0]

Known(k) == \E i \in DOMAIN entries : entries[i].key = k
At(k) == CHOOSE i \in DOMAIN entries : entries[i].key = k
Of(k) == entries[At(k)]
Without(k) == SelectSeq(entries, LAMBDA e : e.key # k)
Change(k, e) == [entries EXCEPT ![At(k)] = e]
Used(k, e) == Append(Without(k), e)             \* move_to_end

\* notify_all: whoever waits looks again.
Notified(c) == [t \in Callers |-> IF c[t].at = "wait" THEN [c[t] EXCEPT !.at = "acquire"] ELSE c[t]]
NotifyCloser == closer' = IF closer.at = "wait" THEN [closer EXCEPT !.at = "acquire"] ELSE closer

\* The call ends: it returns, or raises.
Over(t) == [caller[t] EXCEPT !.at = "idle", !.key = NoKey, !.owns = FALSE, !.victim = NoKey]
LetGo(t) == pending' = IF caller[t].owns THEN pending \ {caller[t].key} ELSE pending

\* Mutant of Raise: the owner of a key leaves without notify_all.
RaiseQuietly(t) ==
    /\ caller' = [caller EXCEPT ![t] = Over(t)]
    /\ LetGo(t)
    /\ UNCHANGED closer

Raise(t) ==
    /\ caller' = Notified([caller EXCEPT ![t] = Over(t)])
    /\ LetGo(t)
    /\ NotifyCloser

-----------------------------------------------------------------------------
(* _acquire                                                                *)

Call(t, k) ==
    /\ caller[t].at = "idle"
    /\ caller[t].calls < MaxCalls
    /\ caller' = [caller EXCEPT ![t] = [@ EXCEPT !.at = "acquire", !.key = k, !.calls = @ + 1]]
    /\ UNCHANGED <<entries, pending, constructing, closing, closer, open>>

\* Only the owner of a key tells the others.
RefusedByClose(t) ==
    /\ closing.begun
    /\ IF caller[t].owns
       THEN Raise(t)
       ELSE /\ caller' = [caller EXCEPT ![t] = Over(t)]
            /\ UNCHANGED <<pending, closer>>
    /\ UNCHANGED <<entries, constructing>>

\* Someone connects or retires the client of this key, or is about to make it.
WaitForOther(t, k) ==
    /\ IF Known(k) THEN Of(k).connecting \/ Of(k).retiring ELSE k \in pending /\ ~caller[t].owns
    /\ caller' = [caller EXCEPT ![t].at = "wait"]
    /\ UNCHANGED <<entries, pending, constructing, closer>>

\* The client could neither connect nor be cleaned up: it is retired first.
RetireFailed(t, k) ==
    /\ Known(k) /\ ~Of(k).connecting /\ ~Of(k).retiring
    /\ Of(k).failed
    /\ entries' = Change(k, [Of(k) EXCEPT !.retiring = TRUE])
    /\ caller' = [caller EXCEPT ![t].at = "retire", ![t].victim = k]
    /\ UNCHANGED <<pending, constructing, closer>>

\* Mutant of Lease: nobody looks whether the client is being closed.
LeaseWhileRetiring(t, k) ==
    /\ Known(k) /\ ~Of(k).connecting
    /\ ~Of(k).failed
    /\ entries' = Used(k, [Of(k) EXCEPT !.active = @ + 1])
    /\ caller' = [caller EXCEPT ![t].at = "use"]
    /\ UNCHANGED <<pending, constructing, closer>>

Lease(t, k) ==
    /\ Known(k) /\ ~Of(k).connecting /\ ~Of(k).retiring
    /\ ~Of(k).failed
    /\ entries' = Used(k, [Of(k) EXCEPT !.active = @ + 1])
    /\ caller' = [caller EXCEPT ![t].at = "use"]
    /\ UNCHANGED <<pending, constructing, closer>>

Room == Len(entries) + Cardinality(constructing) < MaxClients

StartConstruction(t, k) ==
    /\ ~Known(k)
    /\ k \notin pending \/ caller[t].owns
    /\ Room
    /\ pending' = pending \cup {k}
    /\ constructing' = constructing \cup {k}
    /\ caller' = [caller EXCEPT ![t].at = "construct", ![t].owns = TRUE]
    /\ UNCHANGED <<entries, closer>>

\* The first idle client in the order of use.
Idle(e) == e.active = 0 /\ ~e.connecting /\ ~e.retiring
Victims == { i \in DOMAIN entries : Idle(entries[i]) /\ \A j \in 1 .. i - 1 : ~Idle(entries[j]) }

RetireIdle(t, k) ==
    /\ ~Known(k)
    /\ k \notin pending \/ caller[t].owns
    /\ ~Room
    /\ \E i \in Victims :
          /\ entries' = [entries EXCEPT ![i].retiring = TRUE]
          /\ caller' = [caller EXCEPT ![t].at = "retire", ![t].owns = TRUE,
                                      ![t].victim = entries[i].key]
    /\ pending' = pending \cup {k}
    /\ UNCHANGED <<constructing, closer>>

AllInUse(t, k) ==
    /\ ~Known(k)
    /\ k \notin pending \/ caller[t].owns
    /\ ~Room
    /\ Victims = {}
    /\ caller' = Notified([caller EXCEPT ![t] = Over(t)])
    /\ pending' = pending \ {k}
    /\ NotifyCloser
    /\ UNCHANGED <<entries, constructing>>

Acquire(t) ==
    /\ caller[t].at = "acquire"
    /\ \/ RefusedByClose(t)
       \/ /\ ~closing.begun
          /\ LET k == caller[t].key IN
                \/ WaitForOther(t, k) \/ RetireFailed(t, k) \/ Lease(t, k)
                \/ StartConstruction(t, k) \/ RetireIdle(t, k) \/ AllInUse(t, k)
    /\ UNCHANGED <<closing, open>>

\* The victim is closed without the lock, then the caller begins anew; or the
\* close fails: the victim stays, and the call fails with it.
Retire(t) ==
    /\ caller[t].at = "retire"
    /\ LET v == caller[t].victim IN
       \/ /\ entries' = Without(v)
          /\ open' = [open EXCEPT ![v] = @ - 1]
          /\ caller' = Notified([caller EXCEPT ![t].at = "acquire", ![t].victim = NoKey])
          /\ NotifyCloser
          /\ UNCHANGED pending
       \/ /\ entries' = Change(v, [Of(v) EXCEPT !.retiring = FALSE])
          /\ Raise(t)
          /\ UNCHANGED open
    /\ UNCHANGED <<constructing, closing>>

\* TdxClient(...) probes hosts, and may raise.
Construct(t) ==
    /\ caller[t].at = "construct"
    /\ LET k == caller[t].key IN
       /\ constructing' = constructing \ {k}
       /\ \/ /\ entries' = Append(Without(k), Entry(k))
             /\ open' = [open EXCEPT ![k] = @ + 1]
             /\ caller' = [caller EXCEPT ![t].at = "connect"]
             /\ UNCHANGED <<pending, closer>>
          \/ /\ Raise(t)
             /\ UNCHANGED <<entries, open>>
    /\ UNCHANGED closing

\* connect() succeeds; when the registry is closing meanwhile the client is
\* left for close() to take.
ConnectSucceeds(t) ==
    /\ caller[t].at = "connect"
    /\ LET k == caller[t].key IN
       IF closing.begun
       THEN /\ entries' = Change(k, [Of(k) EXCEPT !.connecting = FALSE, !.active = 0])
            /\ Raise(t)
       ELSE /\ entries' = Change(k, [Of(k) EXCEPT !.connecting = FALSE])
            /\ pending' = pending \ {k}
            /\ caller' = Notified([caller EXCEPT ![t].at = "use", ![t].owns = FALSE])
            /\ NotifyCloser
    /\ UNCHANGED <<constructing, closing, open>>

ConnectFails(t) ==
    /\ caller[t].at = "connect"
    /\ caller' = [caller EXCEPT ![t].at = "cleanup"]
    /\ UNCHANGED <<entries, pending, constructing, closing, closer, open>>

\* close() after a failed connect: the entry goes, or stays as a failed one.
Cleanup(t) ==
    /\ caller[t].at = "cleanup"
    /\ LET k == caller[t].key IN
       \/ /\ entries' = Without(k)
          /\ open' = [open EXCEPT ![k] = @ - 1]
       \/ /\ entries' = Change(k, [Of(k) EXCEPT !.active = 0, !.connecting = FALSE, !.failed = TRUE])
          /\ UNCHANGED open
    /\ Raise(t)
    /\ UNCHANGED <<constructing, closing>>

\* _release, when the tool has its result or its exception.
Release(t) ==
    /\ caller[t].at = "use"
    /\ LET k == caller[t].key IN
       entries' = IF Known(k) THEN Used(k, [Of(k) EXCEPT !.active = @ - 1]) ELSE entries
    /\ caller' = Notified([caller EXCEPT ![t] = Over(t)])
    /\ NotifyCloser
    /\ UNCHANGED <<pending, constructing, closing, open>>

-----------------------------------------------------------------------------
(* close()                                                                 *)

BeginClose ==
    /\ closer.at = "idle"
    /\ closer' = [closer EXCEPT !.at = "acquire"]
    /\ closing' = [closing EXCEPT !.begun = TRUE]
    /\ UNCHANGED <<entries, pending, constructing, caller, open>>

Quiet == constructing = {} /\ \A i \in DOMAIN entries : Idle(entries[i])

LookForQuiet ==
    /\ closer.at = "acquire"
    /\ IF ~Quiet
       THEN /\ closer' = [closer EXCEPT !.at = "wait"]
            /\ UNCHANGED closing
       ELSE /\ closer' = [closer EXCEPT !.at = "closing",
                                        !.left = { entries[i].key : i \in DOMAIN entries }]
            /\ closing' = [closing EXCEPT !.busy = TRUE]
    /\ UNCHANGED <<entries, pending, constructing, caller, open>>

\* One client after the other; those that cannot be closed stay.
CloseOne ==
    /\ closer.at = "closing"
    /\ \E k \in closer.left :
          \/ /\ closer' = [closer EXCEPT !.left = @ \ {k}]
             /\ entries' = Without(k)
             /\ open' = [open EXCEPT ![k] = @ - 1]
          \/ /\ closer' = [closer EXCEPT !.left = @ \ {k}, !.failed = TRUE]
             /\ UNCHANGED <<entries, open>>
    /\ UNCHANGED <<pending, constructing, closing, caller>>

\* close() raises when a client could not be closed, and may be called again.
ClosedAll ==
    /\ closer.at = "closing"
    /\ closer.left = {}
    /\ closing' = [closing EXCEPT !.busy = FALSE, !.over = entries = <<>>]
    /\ closer' = [closer EXCEPT !.at = IF closer.failed THEN "idle" ELSE "done", !.failed = FALSE]
    /\ caller' = Notified(caller)
    /\ UNCHANGED <<entries, pending, constructing, open>>

-----------------------------------------------------------------------------

CallerStep(t) ==
    \/ Acquire(t) \/ Retire(t) \/ Construct(t)
    \/ ConnectSucceeds(t) \/ ConnectFails(t) \/ Cleanup(t) \/ Release(t)

CloserStep == LookForQuiet \/ CloseOne \/ ClosedAll

RegistryNext ==
    \/ \E t \in Callers : CallerStep(t) \/ \E k \in ClientKeys : Call(t, k)
    \/ BeginClose
    \/ CloserStep

RegistrySpec == RegistryInit /\ [][RegistryNext]_registryVars

-----------------------------------------------------------------------------

\* A tool call works on a client that is connected and that nobody closes or
\* counts as idle while the call lasts; the leases are counted exactly.
LeasedClientsAreSafe ==
    /\ \A t \in Callers : caller[t].at = "use" =>
          /\ Known(caller[t].key)
          /\ ~Of(caller[t].key).retiring /\ ~Of(caller[t].key).connecting
    /\ \A i \in DOMAIN entries :
          entries[i].active = Cardinality({ t \in Callers :
              caller[t].key = entries[i].key /\ caller[t].at \in {"connect", "cleanup", "use"} })

\* No client is lost: every client that was constructed and not closed is in
\* the registry, there is one for a key, no more than _MAX_CLIENTS in all, and
\* a registry that is closed has none and makes none.
NoClientIsLost ==
    /\ \A k \in ClientKeys : open[k] = IF Known(k) THEN 1 ELSE 0
    /\ Len(entries) + Cardinality(constructing) <= MaxClients
    /\ closing.over => entries = <<>> /\ constructing = {}

\* Nobody waits for ever: whatever fails, each call comes to its end, and so
\* does the wait of close() for the calls in progress.
RegistryCallsEnd ==
    /\ \A t \in Callers : caller[t].at # "idle" ~> caller[t].at = "idle"
    /\ closer.at = "wait" ~> closer.at # "wait"

=============================================================================
