---------------------------- MODULE ClientFacade ----------------------------
(***************************************************************************)
(* TdxClient and its PooledSocketTransport, shared by threads: the native  *)
(* engine that the first call builds (_native, checked before and under    *)
(* the lock), the second pool of the auction API, the precision of the     *)
(* markets that a quote loads before it is asked, and close().             *)
(***************************************************************************)
EXTENDS Integers, Sequences, FiniteSets

CONSTANTS
    Users,        \* threads
    Markets,      \* markets whose codes have a precision
    MaxClientOps  \* bound: calls of all threads

ClientAssumption == MaxClientOps \in Nat

VARIABLES
    pools,        \* [transport -> its engine and _hosts_probed]
    auction,      \* AuctionApi._dedicated_transport, Main for None
    built,        \* transports built for the auction API so far
    engineLock,   \* [transport -> holder of its _engine_lock]
    decimalLock,  \* holder of the reentrant _decimal_lock
    loaded,       \* _decimal_markets
    registry,     \* external: markets whose precision the native decoder knows
    made,         \* [transport -> engines built for it]
    user,         \* [user -> progress]
    clientOps     \* calls so far

clientVars == <<pools, auction, built, engineLock, decimalLock, loaded, registry, made, user, clientOps>>

\* The client's own transport, and those of AuctionApi, built when it is asked
\* and dropped when it is closed.
Main == 0
Pools == Main .. MaxClientOps
Free == "free"

ClientTypeOK ==
    /\ pools \in [Pools -> [probed : BOOLEAN, engine : {"none", "stopped", "open"}]]
    /\ auction \in Pools /\ built \in Pools
    /\ \A p \in Pools : engineLock[p] \in Users \cup {Free}
    /\ decimalLock \in Users \cup {Free}
    /\ loaded \subseteq Markets /\ registry \subseteq Markets
    /\ clientOps \in 0 .. MaxClientOps

\* __post_init__: _prepare_host_rankings probes, or does not, once for both
\* pools; a transport given by the caller may still have to probe.
ClientInit ==
    /\ \E probed \in BOOLEAN :
           pools = [p \in Pools |-> [probed |-> p # Main \/ probed, engine |-> "none"]]
    /\ auction = Main /\ built = Main
    /\ engineLock = [p \in Pools |-> Free] /\ decimalLock = Free
    /\ loaded = {} /\ registry = {}
    /\ made = [p \in Pools |-> 0]
    /\ user = [u \in Users |-> [at |-> "idle", call |-> "none", pool |-> Main, want |-> {}]]
    /\ clientOps = 0

AtStep(u, at) == user[u].at = at
Step(u, at) == user' = [user EXCEPT ![u].at = at]

-----------------------------------------------------------------------------
(* Calls                                                                   *)

Begin(u, call, pool, want, at) ==
    /\ AtStep(u, "idle") /\ clientOps < MaxClientOps
    /\ clientOps' = clientOps + 1
    /\ user' = [user EXCEPT ![u] = [at |-> at, call |-> call, pool |-> pool, want |-> want]]
    /\ UNCHANGED <<auction, built, pools, engineLock, decimalLock, loaded, registry, made>>

\* connect, execute, pin: they build the engine if there is none.
Execute(u) == Begin(u, "execute", Main, {}, "native")
\* QuoteApi and MinuteApi: _normalize_prices before the request.
Quote(u) == \E want \in SUBSET Markets \ {{}} : Begin(u, "quote", Main, want, "decimals")
\* AuctionApi.series.
Series(u) == Begin(u, "series", Main, {}, "dedicated")
\* poll_push, drain_pushes and diagnostics answer without an engine.
Peek(u) == pools[Main].engine = "none" /\ Begin(u, "peek", Main, {}, "idle")
\* close: the pools one after the other, the client's own first.
CloseClient(u) == Begin(u, "close", Main, {}, "close")
\* clear_cache forgets the markets; the native decoder does not.
ClearCache(u) ==
    /\ AtStep(u, "idle") /\ clientOps < MaxClientOps /\ decimalLock = Free
    /\ clientOps' = clientOps + 1
    /\ loaded' = {}
    /\ UNCHANGED <<auction, built, pools, engineLock, decimalLock, registry, made, user>>

\* AuctionApi._active_transport, under its lock.
TakeTransport(u) ==
    /\ AtStep(u, "dedicated")
    /\ built' = IF auction = Main THEN built + 1 ELSE built
    /\ auction' = IF auction = Main THEN built' ELSE auction
    /\ user' = [user EXCEPT ![u].at = "native", ![u].pool = auction']
    /\ UNCHANGED <<pools, engineLock, decimalLock, loaded, registry, made, clientOps>>

-----------------------------------------------------------------------------
(* PooledSocketTransport._native                                           *)

HasEngine(u) ==
    /\ AtStep(u, "native") /\ pools[user[u].pool].engine # "none"
    /\ Step(u, "use")
    /\ UNCHANGED <<auction, built, pools, engineLock, decimalLock, loaded, registry, made, clientOps>>

LockEngine(u) ==
    /\ AtStep(u, "native") /\ pools[user[u].pool].engine = "none"
    /\ Step(u, "lock")
    /\ UNCHANGED <<auction, built, pools, engineLock, decimalLock, loaded, registry, made, clientOps>>

\* The engine is looked for again: another thread may have built it.
Locked(u) ==
    /\ AtStep(u, "lock") /\ engineLock[user[u].pool] = Free
    /\ IF pools[user[u].pool].engine # "none"
       THEN Step(u, "use") /\ UNCHANGED engineLock
       ELSE /\ engineLock' = [engineLock EXCEPT ![user[u].pool] = u]
            /\ Step(u, IF pools[user[u].pool].probed THEN "build" ELSE "probe")
    /\ UNCHANGED <<auction, built, pools, decimalLock, loaded, registry, made, clientOps>>

ProbeHosts(u) ==
    /\ AtStep(u, "probe")
    /\ pools' = [pools EXCEPT ![user[u].pool].probed = TRUE]
    /\ Step(u, "build")
    /\ UNCHANGED <<auction, built, engineLock, decimalLock, loaded, registry, made, clientOps>>

BuildEngine(u) ==
    /\ AtStep(u, "build")
    /\ pools' = [pools EXCEPT ![user[u].pool].engine = "open"]
    /\ made' = [made EXCEPT ![user[u].pool] = @ + 1]
    /\ engineLock' = [engineLock EXCEPT ![user[u].pool] = Free]
    /\ Step(u, "use")
    /\ UNCHANGED <<auction, built, decimalLock, loaded, registry, clientOps>>

\* The lookup of a host, the probe or the engine's constructor raises: the
\* lock is given back, and the locks below it.
ClientFails(u) ==
    /\ user[u].at \in {"probe", "build", "use", "close"}
    /\ Step(u, "idle")
    /\ engineLock' = [p \in Pools |-> IF engineLock[p] = u THEN Free ELSE engineLock[p]]
    /\ decimalLock' = IF decimalLock = u THEN Free ELSE decimalLock
    /\ UNCHANGED <<auction, built, pools, loaded, registry, made, clientOps>>

-----------------------------------------------------------------------------
(* _ensure_decimals: a market is remembered when its codes were read       *)

LockDecimals(u) ==
    /\ AtStep(u, "decimals") /\ decimalLock = Free
    /\ decimalLock' = u
    /\ Step(u, "markets")
    /\ UNCHANGED <<auction, built, pools, engineLock, loaded, registry, made, clientOps>>

LoadMarket(u) ==
    /\ AtStep(u, "markets") /\ user[u].want \ loaded # {}
    /\ Step(u, "native")
    /\ UNCHANGED <<auction, built, pools, engineLock, decimalLock, loaded, registry, made, clientOps>>

DecimalsReady(u) ==
    /\ AtStep(u, "markets") /\ user[u].want \subseteq loaded
    /\ decimalLock' = Free
    /\ Step(u, "native")
    /\ UNCHANGED <<auction, built, pools, engineLock, loaded, registry, made, clientOps>>

\* What _native gave is asked: for the codes of a market, the lock held, or
\* for what the caller wanted.  An engine closed in the meantime opens again.
Use(u) ==
    /\ AtStep(u, "use")
    /\ pools' = [pools EXCEPT ![user[u].pool].engine = "open"]
    /\ IF decimalLock = u
       THEN \E m \in user[u].want \ loaded :
                /\ loaded' = loaded \cup {m}
                /\ registry' = registry \cup {m}
                /\ Step(u, "markets")
       ELSE Step(u, "idle") /\ UNCHANGED <<loaded, registry>>
    /\ UNCHANGED <<auction, built, engineLock, decimalLock, made, clientOps>>

-----------------------------------------------------------------------------
(* close: the client's pool, then money_flow.close and auctions._close     *)

CloseMain(u) ==
    /\ AtStep(u, "close")
    /\ pools' = IF pools[Main].engine = "none" THEN pools
                ELSE [pools EXCEPT ![Main].engine = "stopped"]
    /\ Step(u, "close auction")
    /\ UNCHANGED <<auction, built, engineLock, decimalLock, loaded, registry, made, clientOps>>

\* A call still on this transport keeps it, and may open it again.
CloseAuction(u) ==
    /\ AtStep(u, "close auction")
    /\ pools' = IF auction = Main \/ pools[auction].engine = "none" THEN pools
                ELSE [pools EXCEPT ![auction].engine = "stopped"]
    /\ auction' = Main
    /\ Step(u, "idle")
    /\ UNCHANGED <<built, engineLock, decimalLock, loaded, registry, made, clientOps>>

UserStep(u) ==
    \/ TakeTransport(u) \/ HasEngine(u) \/ LockEngine(u) \/ Locked(u) \/ ProbeHosts(u)
    \/ BuildEngine(u) \/ ClientFails(u) \/ LockDecimals(u) \/ LoadMarket(u) \/ DecimalsReady(u)
    \/ Use(u) \/ CloseMain(u) \/ CloseAuction(u)

ClientNext ==
    \E u \in Users :
        \/ Execute(u) \/ Quote(u) \/ Series(u) \/ Peek(u) \/ CloseClient(u) \/ ClearCache(u)
        \/ UserStep(u)

ClientSpec == ClientInit /\ [][ClientNext]_clientVars

-----------------------------------------------------------------------------

\* However many threads make the first call, a transport builds one engine,
\* and probes its hosts before it does: an engine nobody closes would keep
\* its connections.
OneEngine ==
    \A p \in Pools : made[p] <= 1 /\ (made[p] = 1 => pools[p].probed)

\* A quote goes out only when the decoder knows the precision of its markets,
\* even if a load before it failed or the cache was cleared in between.
PrecisionFirst ==
    \A u \in Users :
        user[u].call = "quote" /\ user[u].at = "use" /\ decimalLock # u =>
            user[u].want \subseteq registry

\* Every call ends, and no lock stays behind: the precision is loaded with
\* its lock held, over a transport that takes its own.
ClientCallsEnd ==
    \A u \in Users :
        user[u].at # "idle" ~> user[u].at = "idle" /\ decimalLock # u

=============================================================================
