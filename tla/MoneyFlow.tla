----------------------------- MODULE MoneyFlow -----------------------------
(***************************************************************************)
(* api/money_flow.py: the daily money flow of several codes, asked of the  *)
(* pool for money-flow hosts; a code without data is asked again of single *)
(* hosts, as often as the budget of the call allows, and a host that has   *)
(* data is kept.  Several threads may call, and close, the same API.       *)
(*                                                                         *)
(* A call is one daily(): a sequence of codes, each the task of a thread.  *)
(***************************************************************************)
EXTENDS Integers, Sequences, FiniteSets

CONSTANTS
    Calls,        \* the calls, each a sequence of codes
    NCandidates,  \* hosts to fall back on, in their order
    MaxProbes,    \* _MAX_PROBES_PER_CODE
    BudgetCodes,  \* _BUDGET_CODE_CAP
    Workers,      \* _batch_workers: threads of a call
    Layouts,      \* servers and connections for each, of the client
    MaxCloses     \* bound: close() calls

AskedCodes == UNION { { Calls[b][i] : i \in DOMAIN Calls[b] } : b \in DOMAIN Calls }

MoneyFlowAssumption ==
    /\ Calls \in Seq(Seq(AskedCodes))
    /\ {NCandidates, MaxProbes, BudgetCodes, Workers} \subseteq Nat \ {0}
    /\ MaxCloses \in Nat

VARIABLES
    layout,       \* server_count and connections_per_server of the client
    holder,       \* [code -> who has its data]: a candidate, Pool or Nobody
    dedicated,    \* _dedicated_transport: a transport or None
    preferred,    \* _preferred_transport and _preferred_host
    call,         \* [call -> its _EmptyFailover: transport, probes_left, cursor, lock]
    task,         \* [task -> progress]
    open,         \* transports not closed
    closes        \* close() calls so far

flowVars == <<layout, holder, dedicated, preferred, call, task, open, closes>>

Candidates == 1 .. NCandidates
Pool == NCandidates + 1
Nobody == 0
None == [host |-> Nobody, by |-> 0]
Tasks == UNION { {b} \X DOMAIN Calls[b] : b \in DOMAIN Calls }
CodeOf(t) == Calls[t[1]][t[2]]
\* A transport: to one host, by the call that built it, or the pool, by the
\* number of closes it was built after.
Transports == [host : Candidates, by : DOMAIN Calls] \cup [host : {Pool}, by : 0 .. MaxCloses]

Least(a, b) == IF a < b THEN a ELSE b
Budget(b) == Least(Len(Calls[b]), BudgetCodes) * MaxProbes

MoneyFlowTypeOK ==
    /\ holder \in [AskedCodes -> Nobody .. Pool]
    /\ {dedicated, preferred} \subseteq Transports \cup {None}
    /\ \A b \in DOMAIN Calls : call[b].left \in 0 .. Budget(b)
    /\ open \subseteq Transports
    /\ closes \in 0 .. MaxCloses

\* tried: the hosts asked or passed over; spared: those passed over unasked,
\* because another call had found data on them.
Waiting == [at |-> "wait", via |-> None, first |-> 0, step |-> 0, tried |-> {}, spared |-> {},
            excused |-> FALSE]

FlowInit ==
    /\ layout \in Layouts
    /\ holder \in [AskedCodes -> Nobody .. Pool]
    /\ dedicated = None /\ preferred = None
    /\ call = [b \in DOMAIN Calls |-> [transport |-> None, left |-> Budget(b), cursor |-> 0,
                                       lock |-> 0, opened |-> 0]]
    /\ task = [t \in Tasks |-> Waiting]
    /\ open = {}
    /\ closes = 0

Go(t, at) == task' = [task EXCEPT ![t].at = at]
Ended(t) == task[t].at \in {"data", "empty", "error"}
Holds(t) == call[t[1]].lock = t[2]
Failover(t) == call[t[1]]
Release(t) == call' = [call EXCEPT ![t[1]].lock = 0]
\* The answer of a transport: it has the data or not.
HasData(transport, t) == holder[CodeOf(t)] = transport.host

-----------------------------------------------------------------------------
(* _active_transport and the first query                                   *)

\* The codes go in chunks of as many as there are threads; a chunk begins
\* when the results of the one before are in.
Start(t) ==
    /\ task[t].at = "wait"
    /\ \A u \in Tasks :
           u[1] = t[1] /\ (u[2] - 1) \div Workers < (t[2] - 1) \div Workers =>
               task[u].at \in {"data", "empty"}
    /\ Go(t, IF preferred # None THEN "preferred" ELSE "pool")
    /\ UNCHANGED <<layout, holder, dedicated, preferred, call, open, closes>>

\* The preferred transport was there; it is read again, and may be gone.
TakePreferred(t) ==
    /\ task[t].at = "preferred"
    /\ task' = IF preferred = None THEN [task EXCEPT ![t].at = "error", ![t].excused = TRUE]
               ELSE [task EXCEPT ![t].at = "ask", ![t].via = preferred]
    /\ UNCHANGED <<layout, holder, dedicated, preferred, call, open, closes>>

TakeDedicated(t) ==
    /\ task[t].at = "pool"
    /\ dedicated' = IF dedicated = None THEN [host |-> Pool, by |-> closes] ELSE dedicated
    /\ task' = [task EXCEPT ![t].at = "ask", ![t].via = dedicated']
    /\ UNCHANGED <<layout, holder, preferred, call, open, closes>>

\* A query opens the transport if it is not open, even one closed before.
Ask(t) ==
    /\ task[t].at = "ask"
    /\ open' = open \cup {task[t].via}
    /\ Go(t, IF HasData(task[t].via, t) THEN "data" ELSE "recover")
    /\ UNCHANGED <<layout, holder, dedicated, preferred, call, closes>>

AskFails(t) ==
    /\ task[t].at = "ask"
    /\ task' = [task EXCEPT ![t].at = "error", ![t].excused = TRUE]
    /\ UNCHANGED <<layout, holder, dedicated, preferred, call, open, closes>>

-----------------------------------------------------------------------------
(* _recover_empty, under the lock of the call                              *)

Recover(t) ==
    /\ task[t].at = "recover" /\ Failover(t).lock = 0
    /\ call' = [call EXCEPT ![t[1]].lock = t[2]]
    /\ task' = [task EXCEPT ![t].at = IF Failover(t).transport = None THEN "probe" ELSE "again",
                            ![t].first = Failover(t).cursor % NCandidates]
    /\ UNCHANGED <<layout, holder, dedicated, preferred, open, closes>>

\* Mutant of AskAgain: what the host of this call does not have nobody has.
AskAgainOnly(t) ==
    /\ task[t].at = "again"
    /\ open' = open \cup {Failover(t).transport}
    /\ Go(t, IF HasData(Failover(t).transport, t) THEN "data" ELSE "empty")
    /\ Release(t)
    /\ UNCHANGED <<layout, holder, dedicated, preferred, closes>>

\* The host this call found data on, for this code.  An empty answer says
\* nothing of the other hosts.
AskAgain(t) ==
    /\ task[t].at = "again"
    /\ open' = open \cup {Failover(t).transport}
    /\ IF HasData(Failover(t).transport, t)
       THEN Go(t, "data") /\ Release(t)
       ELSE Go(t, "probe") /\ UNCHANGED call
    /\ UNCHANGED <<layout, holder, dedicated, preferred, closes>>

AskAgainFails(t) ==
    /\ task[t].at = "again"
    /\ task' = [task EXCEPT ![t].at = "error", ![t].excused = TRUE]
    /\ Release(t)
    /\ UNCHANGED <<layout, holder, dedicated, preferred, open, closes>>

ProbeHost(t) == 1 + ((task[t].first + task[t].step) % NCandidates)
ProbesLeft(t) == task[t].step < Least(MaxProbes, NCandidates)
NextProbe(t) == [task EXCEPT ![t].at = "probe", ![t].step = @ + 1]

\* Every candidate allowed was tried, and the next code begins one further.
GiveUp(t) ==
    /\ task[t].at = "probe" /\ ~ProbesLeft(t)
    /\ call' = [call EXCEPT ![t[1]].lock = 0, ![t[1]].cursor = (task[t].first + 1) % NCandidates]
    /\ Go(t, "empty")
    /\ UNCHANGED <<layout, holder, dedicated, preferred, open, closes>>

NoBudget(t) ==
    /\ task[t].at = "probe" /\ ProbesLeft(t) /\ Failover(t).left = 0
    /\ task' = [task EXCEPT ![t].at = "empty", ![t].excused = TRUE]
    /\ Release(t)
    /\ UNCHANGED <<layout, holder, dedicated, preferred, open, closes>>

Take(b) == [call EXCEPT ![b].left = @ - 1]

\* The preferred host is taken for one without data, and nobody asked it for
\* this code if it is another call's find.
Unasked(t) == IF ProbeHost(t) = Failover(t).transport.host \/ preferred.by = t[1] THEN {}
              ELSE {ProbeHost(t)}

\* A host known not to have it: the preferred one, or the one of this call.
Skip(t) ==
    /\ task[t].at = "probe" /\ ProbesLeft(t) /\ Failover(t).left > 0
    /\ ProbeHost(t) \in {preferred.host, Failover(t).transport.host}
    /\ call' = Take(t[1])
    /\ task' = [NextProbe(t) EXCEPT
                   ![t].tried = @ \cup {ProbeHost(t)},
                   ![t].spared = @ \cup Unasked(t)]
    /\ UNCHANGED <<layout, holder, dedicated, preferred, open, closes>>

\* resolve_pool_layout for a single host: all connections of the client go to
\* one server, and have to be the connections of one server.
FitsOneHost == layout.servers * layout.per = layout.per

\* _open_host_transport: a TransportError goes on to the next host, a
\* ValueError leaves.
OpenHost(t) ==
    /\ task[t].at = "probe" /\ ProbesLeft(t) /\ Failover(t).left > 0
    /\ ProbeHost(t) \notin {preferred.host, Failover(t).transport.host}
    /\ IF FitsOneHost
       THEN /\ call' = [Take(t[1]) EXCEPT ![t[1]].opened = @ + 1]
            /\ task' = [task EXCEPT ![t].at = "query", ![t].tried = @ \cup {ProbeHost(t)},
                                    ![t].via = [host |-> ProbeHost(t), by |-> t[1]]]
            /\ open' = open \cup {task'[t].via}
       ELSE /\ call' = [Take(t[1]) EXCEPT ![t[1]].lock = 0]
            /\ Go(t, "error")
            /\ UNCHANGED open
    /\ UNCHANGED <<layout, holder, dedicated, preferred, closes>>

\* The host cannot be reached: by the query, which closes it.
ProbeFails(t) ==
    /\ task[t].at = "query"
    /\ open' = open \ {task[t].via}
    /\ task' = [NextProbe(t) EXCEPT ![t].excused = TRUE]
    /\ UNCHANGED <<layout, holder, dedicated, preferred, call, closes>>

ProbeIsEmpty(t) ==
    /\ task[t].at = "query" /\ ~HasData(task[t].via, t)
    /\ open' = open \ {task[t].via}
    /\ task' = NextProbe(t)
    /\ UNCHANGED <<layout, holder, dedicated, preferred, call, closes>>

\* _adopt: another call may have been first, and then this one is closed.
ProbeFinds(t) ==
    /\ task[t].at = "query" /\ HasData(task[t].via, t)
    /\ Go(t, "data")
    /\ IF preferred = None
       THEN /\ preferred' = task[t].via
            /\ call' = [call EXCEPT ![t[1]].lock = 0, ![t[1]].transport = task[t].via]
            /\ UNCHANGED open
       ELSE /\ Release(t)
            /\ open' = open \ {task[t].via}
            /\ UNCHANGED preferred
    /\ UNCHANGED <<layout, holder, dedicated, closes>>

-----------------------------------------------------------------------------

Close ==
    /\ closes < MaxCloses
    /\ closes' = closes + 1
    /\ open' = open \ {dedicated, preferred}
    /\ dedicated' = None /\ preferred' = None
    /\ UNCHANGED <<layout, holder, call, task>>

TaskStep(t) ==
    \/ Start(t) \/ TakePreferred(t) \/ TakeDedicated(t) \/ Ask(t) \/ AskFails(t)
    \/ Recover(t) \/ AskAgain(t) \/ AskAgainFails(t) \/ GiveUp(t) \/ NoBudget(t)
    \/ Skip(t) \/ OpenHost(t) \/ ProbeFails(t) \/ ProbeIsEmpty(t) \/ ProbeFinds(t)

FlowNext == Close \/ \E t \in Tasks : TaskStep(t)

FlowSpec == FlowInit /\ [][FlowNext]_flowVars

-----------------------------------------------------------------------------

\* The comments of _EmptyFailover and _recover_empty: an answer without data
\* says nothing of the other hosts.  A code comes back empty, with budget
\* left and no host failing, only if no candidate of its turn has it - except
\* one passed over because another call had found data on it.
EmptyWasLookedFor ==
    \A t \in Tasks : task[t].at = "empty" /\ ~task[t].excused =>
        \/ holder[CodeOf(t)] \notin Candidates
        \/ /\ holder[CodeOf(t)] \notin task[t].tried
           /\ Cardinality(task[t].tried) = Least(MaxProbes, NCandidates)
        \/ holder[CodeOf(t)] \in task[t].spared

\* A query opens only so many hosts: no more for a call than its budget, no
\* more for a code than MaxProbes, whatever the threads do; and what a probe
\* opened is closed, adopted, or still at work.
ProbesAreBounded ==
    /\ \A b \in DOMAIN Calls : call[b].opened <= Budget(b)
    /\ \A o \in open : o.host \in Candidates =>
           \/ o = preferred
           \/ \E t \in Tasks : task[t].at = "query" /\ task[t].via = o
           \* A close took it from the API while calls still used it.
           \/ closes > 0

\* The doc comment of _recover_empty: a code that no host has is empty, never
\* an error.  Only what fails on the way is an error.
EmptyIsNoError ==
    \A t \in Tasks : task[t].at = "error" => task[t].excused

=============================================================================
