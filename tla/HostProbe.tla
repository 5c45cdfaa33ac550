----------------------------- MODULE HostProbe -----------------------------
(***************************************************************************)
(* probe_ex_hosts: candidate hosts are asked concurrently by a pool of     *)
(* threads; with stop_after_first the caller's thread, on the first        *)
(* answer, closes the connections of all the others and waits for their    *)
(* threads.  ExTdxConnection.close is called by the caller's thread and by *)
(* the thread that owns the connection, without a lock: it looks at _sock, *)
(* and reads _sock again to close it.                                      *)
(***************************************************************************)
EXTENDS Integers, FiniteSets

CONSTANTS
    Probed,       \* the candidates are 1 .. Probed
    Threads       \* max_workers

ProbeAssumption == Probed \in Nat \ {0} /\ Threads \in Nat \ {0}

VARIABLES
    early,        \* stop_after_first
    job,          \* how far probe_ex_host has come for each host
    succeeded,    \* hosts whose exchange ended with an answer
    sock,         \* hosts whose connection has a _sock
    registered,   \* _ProbeRegistry._connections
    caller,       \* the thread in probe_ex_hosts: its phase, the connections abort_all
                  \* still has to close, the one whose _sock it saw, and whether
                  \* an exception is on its way out
    collected     \* hosts whose future as_completed has yielded

probeVars == <<early, job, succeeded, sock, registered, caller, collected>>

Candidates == 1 .. Probed
Unstarted == {"queued", "cancelled"}
Ended == {"done", "crashed", "cancelled"}
Phases == {"collect", "abort", "again", "shutdown", "returned", "raised"}

ProbeTypeOK ==
    /\ early \in BOOLEAN
    /\ job \in [Candidates -> {"queued", "taken", "added", "dialing", "talking",
                               "ended", "closing", "done", "crashed", "cancelled"}]
    /\ succeeded \subseteq Candidates
    /\ sock \subseteq Candidates
    /\ registered \subseteq Candidates
    /\ caller \in [phase : Phases, left : SUBSET Candidates, seen : 0 .. Probed,
                   broken : BOOLEAN]
    /\ collected \subseteq Candidates

ProbeInit ==
    /\ early \in BOOLEAN
    /\ job = [h \in Candidates |-> "queued"]
    /\ succeeded = {}
    /\ sock = {}
    /\ registered = {}
    /\ caller = [phase |-> "collect", left |-> {}, seen |-> 0, broken |-> FALSE]
    /\ collected = {}

Advance(h, from, to) ==
    /\ job[h] = from
    /\ job' = [job EXCEPT ![h] = to]

-----------------------------------------------------------------------------
(* probe_ex_host, in a thread of the pool                                  *)

Busy == { h \in Candidates : job[h] \notin Unstarted \cup Ended }

\* The pool hands out its jobs in the order they were submitted.
Take(h) ==
    /\ Cardinality(Busy) < Threads
    /\ \A g \in 1 .. h - 1 : job[g] # "queued"
    /\ Advance(h, "queued", "taken")
    /\ UNCHANGED <<early, succeeded, sock, registered, caller, collected>>

Register(h) ==
    /\ Advance(h, "taken", "added")
    /\ registered' = registered \cup {h}
    /\ UNCHANGED <<early, succeeded, sock, caller, collected>>

\* connect() puts the new socket in _sock before it dials.
Dial(h) ==
    /\ Advance(h, "added", "dialing")
    /\ sock' = sock \cup {h}
    /\ UNCHANGED <<early, succeeded, registered, caller, collected>>

\* Dialled and greeted; a connection that was closed meanwhile is not.
Greeted(h) ==
    /\ h \in sock
    /\ Advance(h, "dialing", "talking")
    /\ UNCHANGED <<early, succeeded, sock, registered, caller, collected>>

\* Refused, timed out, or closed by the caller: connect() clears _sock.
DialFails(h) ==
    /\ Advance(h, "dialing", "ended")
    /\ sock' = sock \ {h}
    /\ UNCHANGED <<early, succeeded, registered, caller, collected>>

\* The probe command is answered, or it fails.
Talked(h) ==
    /\ Advance(h, "talking", "ended")
    /\ succeeded' \in {succeeded} \cup (IF h \in sock THEN {succeeded \cup {h}} ELSE {})
    /\ UNCHANGED <<early, sock, registered, caller, collected>>

\* Mutant of Discard: the connection leaves the registry and is not closed.
DiscardOpen(h) ==
    /\ Advance(h, "ended", "done")
    /\ registered' = registered \ {h}
    /\ UNCHANGED <<early, succeeded, sock, caller, collected>>

\* The finally clause: leave the registry, then close(), which ends at once
\* when _sock is gone.
Discard(h) ==
    /\ Advance(h, "ended", IF h \in sock THEN "closing" ELSE "done")
    /\ registered' = registered \ {h}
    /\ UNCHANGED <<early, succeeded, sock, caller, collected>>

\* self._sock.close() with a _sock that the caller has cleared meanwhile is an
\* AttributeError, kept by the future.
CloseOwn(h) ==
    /\ Advance(h, "closing", IF h \in sock THEN "done" ELSE "crashed")
    /\ sock' = sock \ {h}
    /\ UNCHANGED <<early, succeeded, registered, caller, collected>>

Thread(h) ==
    \/ Take(h) \/ Register(h) \/ Dial(h) \/ Greeted(h) \/ DialFails(h)
    \/ Talked(h) \/ Discard(h) \/ CloseOwn(h)

-----------------------------------------------------------------------------
(* probe_ex_hosts, in the caller's thread                                  *)

\* abort_all takes every registered connection out under the lock.
AbortAll(phase, broken) ==
    /\ caller' = [phase |-> phase, left |-> registered, seen |-> 0, broken |-> broken]
    /\ registered' = {}

\* as_completed yields a future that has a result.
Collect(h) ==
    /\ caller.phase = "collect"
    /\ job[h] \in {"done", "crashed"}
    /\ h \notin collected
    /\ collected' = collected \cup {h}
    /\ IF early /\ h \in succeeded /\ job[h] = "done"
       THEN AbortAll("abort", FALSE)
       ELSE UNCHANGED <<caller, registered>>
    /\ UNCHANGED <<early, job, succeeded, sock>>

\* The loop is over without an early exit: only the finally clause aborts.
AllCollected ==
    /\ caller.phase = "collect"
    /\ collected = Candidates
    /\ AbortAll("again", FALSE)
    /\ UNCHANGED <<early, job, succeeded, sock, collected>>

\* abort_all closes what it took out, one connection after the other.  close()
\* sees _sock ...
LookAt(h) ==
    /\ caller.phase \in {"abort", "again"}
    /\ caller.seen = 0
    /\ h \in caller.left
    /\ caller' = [caller EXCEPT !.seen = IF h \in sock THEN h ELSE 0,
                                !.left = IF h \in sock THEN @ ELSE @ \ {h}]
    /\ UNCHANGED <<early, job, succeeded, sock, registered, collected>>

\* ... and closes it, if the owner has not cleared it since.  Otherwise the
\* AttributeError ends this abort_all: from the loop it passes through the
\* finally clause, from the finally clause it skips the shutdown.
CloseSeen ==
    /\ caller.seen # 0
    /\ IF caller.seen \in sock
       THEN /\ sock' = sock \ {caller.seen}
            /\ caller' = [caller EXCEPT !.seen = 0, !.left = @ \ {caller.seen}]
            /\ UNCHANGED registered
       ELSE /\ IF caller.phase = "abort"
               THEN AbortAll("again", TRUE)
               ELSE /\ caller' = [caller EXCEPT !.phase = "raised", !.seen = 0, !.left = {}]
                    /\ UNCHANGED registered
            /\ UNCHANGED sock
    /\ UNCHANGED <<early, job, succeeded, collected>>

AbortedAll ==
    /\ caller.phase \in {"abort", "again"}
    /\ caller.left = {}
    /\ IF caller.phase = "abort"
       THEN /\ AbortAll("again", FALSE)
            /\ UNCHANGED job
       ELSE /\ caller' = [caller EXCEPT !.phase = "shutdown"]
            /\ job' = [h \in Candidates |-> IF job[h] = "queued" THEN "cancelled" ELSE job[h]]
            /\ UNCHANGED registered
    /\ UNCHANGED <<early, succeeded, sock, collected>>

\* shutdown(wait=True) waits for every thread.
Joined ==
    /\ caller.phase = "shutdown"
    /\ Busy = {}
    /\ caller' = [caller EXCEPT !.phase = IF caller.broken THEN "raised" ELSE "returned"]
    /\ UNCHANGED <<early, job, succeeded, sock, registered, collected>>

Caller ==
    \/ \E h \in Candidates : Collect(h) \/ LookAt(h)
    \/ AllCollected \/ CloseSeen \/ AbortedAll \/ Joined

ProbeNext == Caller \/ \E h \in Candidates : Thread(h)

ProbeSpec == ProbeInit /\ [][ProbeNext]_probeVars

-----------------------------------------------------------------------------

\* The hosts the result calls ok.
ReportedOk == { h \in collected : h \in succeeded /\ job[h] = "done" }

\* A probe that returns leaves no thread at work, no socket open and nothing
\* registered; it names at most one host after an early exit and every host
\* that answered otherwise, and it never comes back empty-handed when a host
\* answered and was not cut off.
ProbeLeavesNothing ==
    caller.phase = "returned" =>
        /\ \A h \in Candidates : job[h] \in Ended
        /\ sock = {} /\ registered = {}
        /\ IF early THEN Cardinality(ReportedOk) <= 1 ELSE ReportedOk = succeeded
        /\ succeeded # {} => ReportedOk # {}

\* abort_all is "idempotent and may be called from any thread": the caller of
\* probe_ex_hosts gets its list.
ProbeNeverRaises == caller.phase # "raised"

\* The probe comes to an end: no host and no order of the threads keeps the
\* caller waiting for ever.
ProbeEnds == <>(caller.phase \in {"returned", "raised"})

=============================================================================
