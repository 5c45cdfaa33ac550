----------------------------- MODULE EngineHost -----------------------------
(***************************************************************************)
(* The handle of an engine (engine.rs, Engine and HostState): the threads  *)
(* that connect, execute and close on it, and the runtimes it starts one   *)
(* after another, each a thread with its Supervisor.  A step of a caller   *)
(* is what it does under the host lock, or a wait for a Completion that    *)
(* ended; between two steps every other thread may take any number of its  *)
(* own.  A runtime is as much of RuntimeCore as the host can see of it: it *)
(* publishes its startup, takes ConnectAll and commands from its channel,  *)
(* closes, leaves and publishes its exit.                                  *)
(***************************************************************************)
EXTENDS Integers, Sequences, FiniteSets

CONSTANTS
    HostThreads,        \* threads that use the engine
    MaxRuntimes,        \* bound: runtimes started
    MaxHostCalls,       \* bound: calls made
    HostCapacity,       \* total_capacity: commands in a channel, requests in flight
    MaxStartFailures,   \* bound: runtimes that fail to start
    MaxFatals           \* bound: runtimes that fail later

EngineAssumption ==
    /\ {MaxRuntimes, MaxHostCalls, HostCapacity} \subseteq Nat \ {0}
    /\ {MaxStartFailures, MaxFatals} \subseteq Nat

VARIABLES
    engine,     \* HostState: lifecycle, runtime, connect and close attempts,
                \* fully_connected, failed_close_lineage
    runtimes,   \* the runtimes started so far
    connects,   \* explicit-connect attempts: runtime and published result
    closings,   \* close attempts: published result, and whether the deadline is over
    thread,     \* each thread's call: where it is, its attempt and its RuntimeRef
    calls       \* calls made so far

hostVars == <<engine, runtimes, connects, closings, thread, calls>>

None == 0
Open == "open"
Lifecycles == {"Stopped", "Starting", "Running", "Closing", "FailedClosing", "FailedClosed"}
ClosingKinds == {"Closing", "FailedClosing", "FailedClosed"}
EngineStates == {"Starting", "Running", "Closing", "FailedClosing", "Stopped", "FailedClosed"}
Results == {Open, "ok", "error", "closed", "busy", "timeout", "lost", "internal"}

EngineTypeOK ==
    /\ engine \in [lifecycle : Lifecycles, runtime : 0 .. MaxRuntimes, connect : Nat, close : Nat,
                   full : BOOLEAN, lineage : BOOLEAN]
    /\ runtimes \in Seq([state : EngineStates, startup : Results, channel : SUBSET (1 .. MaxHostCalls),
                         batch : 0 .. MaxHostCalls, asked : BOOLEAN, late : BOOLEAN,
                         failed : BOOLEAN, left : BOOLEAN, exited : BOOLEAN])
    /\ Len(runtimes) <= MaxRuntimes
    /\ connects \in Seq([runtime : 1 .. MaxRuntimes, result : Results])
    /\ closings \in Seq([result : Results, late : BOOLEAN])
    /\ thread \in [HostThreads ->
           [op : {"none", "connect", "execute", "close"},
            at : {"idle", "sending", "waiting", "finishing", "cleaning",
                  "starting", "gate", "reserved", "sent", "reaping", "closing"},
            attempt : Nat, runtime : 0 .. MaxRuntimes, result : Results]]
    /\ calls \in 0 .. MaxHostCalls

EngineInit ==
    /\ engine = [lifecycle |-> "Stopped", runtime |-> None, connect |-> None, close |-> None,
                 full |-> FALSE, lineage |-> FALSE]
    /\ runtimes = <<>>
    /\ connects = <<>>
    /\ closings = <<>>
    /\ thread = [t \in HostThreads |-> [op |-> "none", at |-> "idle", attempt |-> None,
                                        runtime |-> None, result |-> Open]]
    /\ calls = 0

-----------------------------------------------------------------------------

Spawned == [state |-> "Starting", startup |-> Open, channel |-> {}, batch |-> None,
            asked |-> FALSE, late |-> FALSE, failed |-> FALSE, left |-> FALSE, exited |-> FALSE]
Exited(r) == runtimes[r].exited
ExitResult(r) == IF runtimes[r].failed THEN "error" ELSE "ok"

\* Threads that hold a place of ingress_owned: reserved, and not yet answered.
\* All runtimes of an engine count the same places.
Ingress == { t \in HostThreads : thread[t].at \in {"reserved", "sent"} }
Queued(r) == Cardinality(runtimes[r].channel)
             + Cardinality({ t \in HostThreads : thread[t].at = "sent" /\ thread[t].runtime = r })

\* Completion::publish: the first result stays.
Published(cell, result) == IF cell.result = Open THEN [cell EXCEPT !.result = result] ELSE cell
PublishConnect(a, result) ==
    connects' = IF a = None THEN connects ELSE [connects EXCEPT ![a] = Published(@, result)]
PublishClose(a, result) ==
    closings' = IF a = None THEN closings ELSE [closings EXCEPT ![a] = Published(@, result)]

Goes(t, at) == thread' = [thread EXCEPT ![t].at = at]
Ends(t, result) == thread' = [thread EXCEPT ![t].at = "idle", ![t].result = result]
Calls(t, op, at, attempt, runtime, result) ==
    /\ calls < MaxHostCalls
    /\ calls' = calls + 1
    /\ thread' = [thread EXCEPT ![t] = [op |-> op, at |-> at, attempt |-> attempt,
                                        runtime |-> runtime, result |-> result]]

-----------------------------------------------------------------------------
(* connect()                                                               *)

\* begin_connect, under the host lock: an attempt under way is joined, a
\* stopped engine starts a runtime, a running one is connected in full.
BeginConnect(t) ==
    LET fresh == engine.lifecycle = "Stopped"
        runtime == IF fresh THEN Len(runtimes) + 1 ELSE engine.runtime
    IN  /\ thread[t].at = "idle"
        /\ UNCHANGED closings
        /\ \/ /\ engine.connect # None
              /\ Calls(t, "connect", "waiting", engine.connect, None, Open)
              /\ UNCHANGED <<engine, runtimes, connects>>
           \/ /\ engine.connect = None
              /\ engine.lifecycle \in ClosingKinds
              /\ Calls(t, "connect", "idle", None, None, "closed")
              /\ UNCHANGED <<engine, runtimes, connects>>
           \/ /\ engine.connect = None
              /\ engine.lifecycle = "Running"
              /\ engine.full
              /\ Calls(t, "connect", "waiting", Len(connects), None, Open)
              /\ UNCHANGED <<engine, runtimes, connects>>
           \/ /\ engine.connect = None
              /\ engine.lifecycle \in {"Stopped", "Starting", "Running"}
              /\ ~(engine.lifecycle = "Running" /\ engine.full)
              /\ runtime <= MaxRuntimes
              /\ runtimes' = IF fresh THEN Append(runtimes, Spawned) ELSE runtimes
              /\ connects' = Append(connects, [runtime |-> runtime, result |-> Open])
              /\ engine' = [engine EXCEPT !.lifecycle = "Starting", !.runtime = runtime,
                                          !.connect = Len(connects) + 1,
                                          !.full = @ /\ ~fresh]
              /\ Calls(t, "connect", "sending", Len(connects) + 1, runtime, Open)

\* ConnectAll goes into the channel, or is refused by it.
SendConnect(t) ==
    LET r == thread[t].runtime
        refused == runtimes[r].left \/ Queued(r) >= HostCapacity
    IN  /\ thread[t].at = "sending"
        /\ Goes(t, "waiting")
        /\ IF refused
           THEN /\ PublishConnect(thread[t].attempt, "error")
                /\ runtimes' = [runtimes EXCEPT ![r].asked = TRUE]
           ELSE /\ runtimes' = [runtimes EXCEPT ![r].channel = @ \cup {thread[t].attempt}]
                /\ UNCHANGED connects
        /\ UNCHANGED <<engine, closings, calls>>

\* PendingConnect::wait_timeout: the attempt's result, or the runtime's exit
\* without one (connect_runtime_exit).
SeeConnect(t) ==
    LET a == thread[t].attempt
        gone == engine.connect = a /\ (engine.runtime = None \/ Exited(engine.runtime))
    IN  /\ thread[t].at = "waiting"
        /\ connects[a].result # Open \/ gone
        /\ PublishConnect(a, "error")
        /\ Goes(t, "finishing")
        /\ UNCHANGED <<engine, runtimes, closings, calls>>

\* finish_connect_attempt of an attempt that is no longer the current one.  An
\* error is given out only while the engine is stopped; else the caller polls on.
FinishOld(t, result) ==
    IF result = "ok"
    THEN Ends(t, IF engine.lifecycle = "Running" /\ engine.full THEN "ok" ELSE "closed")
    ELSE engine.lifecycle \in {"Stopped", "FailedClosed"} /\ Ends(t, "error")

\* finish_connect_attempt of the current attempt: publication of its success, or
\* on to the cleanup once the runtime has left.
FinishConnect(t) ==
    LET a == thread[t].attempt
        result == connects[a].result
    IN  /\ thread[t].at = "finishing"
        /\ UNCHANGED <<runtimes, connects, closings, calls>>
        /\ \/ engine.connect # a /\ FinishOld(t, result) /\ UNCHANGED engine
           \/ /\ engine.connect = a /\ result = "ok"
              /\ engine.lifecycle \in ClosingKinds
              /\ Ends(t, "closed")
              /\ UNCHANGED engine
           \/ /\ engine.connect = a /\ result = "ok"
              /\ engine.lifecycle \in {"Starting", "Running"}
              /\ engine' = [engine EXCEPT !.lifecycle = "Running", !.full = TRUE, !.connect = None]
              /\ Ends(t, "ok")
           \/ /\ engine.connect = a /\ result = "error"
              /\ engine.runtime # None /\ Exited(engine.runtime)
              /\ Goes(t, "cleaning")
              /\ UNCHANGED engine

\* Its second lock: whoever comes first joins the runtime's thread and gives the
\* result to a close that waits for it.
CleanUpConnect(t) ==
    LET r == engine.runtime
        failed == engine.lineage \/ ExitResult(r) = "error"
    IN  /\ thread[t].at = "cleaning"
        /\ IF engine.connect # thread[t].attempt
           THEN Ends(t, "error") /\ UNCHANGED <<engine, closings>>
           ELSE IF r = None
           THEN Ends(t, "internal") /\ UNCHANGED <<engine, closings>>
           ELSE /\ Exited(r)
                /\ engine' = [lifecycle |-> IF failed THEN "FailedClosed" ELSE "Stopped",
                              runtime |-> None, connect |-> None, close |-> None,
                              full |-> FALSE, lineage |-> failed]
                /\ PublishClose(engine.close, ExitResult(r))
                /\ Ends(t, "error")
        /\ UNCHANGED <<runtimes, connects, calls>>

-----------------------------------------------------------------------------
(* execute()                                                               *)

\* ensure_runtime, first lock.
BeginExecute(t) ==
    LET fresh == engine.lifecycle = "Stopped"
        runtime == IF fresh THEN Len(runtimes) + 1 ELSE engine.runtime
    IN  /\ thread[t].at = "idle"
        /\ UNCHANGED <<connects, closings>>
        /\ \/ /\ engine.lifecycle \in ClosingKinds
              /\ Calls(t, "execute", "idle", None, None, "closed")
              /\ UNCHANGED <<engine, runtimes>>
           \/ /\ engine.lifecycle = "Running"
              /\ Calls(t, "execute", "gate", None, runtime, Open)
              /\ UNCHANGED <<engine, runtimes>>
           \/ /\ engine.lifecycle = "Starting"
              /\ Calls(t, "execute", "starting", None, runtime, Open)
              /\ UNCHANGED <<engine, runtimes>>
           \/ /\ fresh
              /\ runtime <= MaxRuntimes
              /\ runtimes' = Append(runtimes, Spawned)
              /\ engine' = [engine EXCEPT !.lifecycle = "Starting", !.runtime = runtime,
                                          !.full = FALSE]
              /\ Calls(t, "execute", "starting", None, runtime, Open)

StartupTimesOut(t) ==
    /\ thread[t].at = "starting"
    /\ runtimes[thread[t].runtime].startup = Open
    /\ Ends(t, "timeout")
    /\ UNCHANGED <<engine, runtimes, connects, closings, calls>>

\* Second lock of ensure_runtime, behind a startup that went well.  The engine
\* may have been closed meanwhile, and opened again.
Started(t) ==
    /\ thread[t].at = "starting"
    /\ runtimes[thread[t].runtime].startup = "ok"
    /\ engine' = IF engine.lifecycle = "Starting" /\ engine.connect = None
                 THEN [engine EXCEPT !.lifecycle = "Running"] ELSE engine
    /\ IF engine.lifecycle \in ClosingKinds THEN Ends(t, "closed")
       ELSE IF engine.lifecycle = "Stopped" THEN Ends(t, "lost")
       ELSE IF engine.runtime = None THEN Ends(t, "internal")
       ELSE thread' = [thread EXCEPT ![t].at = "gate", ![t].runtime = engine.runtime]
    /\ UNCHANGED <<runtimes, connects, closings, calls>>

\* The same behind a startup that failed: whatever the engine is doing now, it
\* is stopped, and the runtime it has now is taken from it.
StartFailed(t) ==
    /\ thread[t].at = "starting"
    /\ runtimes[thread[t].runtime].startup = "error"
    /\ engine' = [engine EXCEPT !.lifecycle = "Stopped", !.runtime = None, !.connect = None,
                                !.full = FALSE]
    /\ PublishConnect(engine.connect, "error")
    /\ IF engine.runtime = None THEN Ends(t, "error")
       ELSE thread' = [thread EXCEPT ![t].at = "reaping", ![t].runtime = engine.runtime]
    /\ UNCHANGED <<runtimes, closings, calls>>

Reap(t) ==
    /\ thread[t].at = "reaping"
    /\ Exited(thread[t].runtime)
    /\ Ends(t, "error")
    /\ UNCHANGED <<engine, runtimes, connects, closings, calls>>

\* reserve_submission.
Gate(t) ==
    /\ thread[t].at = "gate"
    /\ IF engine.lifecycle # "Running" THEN Ends(t, "closed")
       ELSE IF Cardinality(Ingress) >= HostCapacity THEN Ends(t, "busy")
       ELSE Goes(t, "reserved")
    /\ UNCHANGED <<engine, runtimes, connects, closings, calls>>

SendCommand(t) ==
    LET r == thread[t].runtime
    IN  /\ thread[t].at = "reserved"
        /\ IF runtimes[r].left THEN Ends(t, "closed")
           ELSE IF Queued(r) >= HostCapacity THEN Ends(t, "busy")
           ELSE Goes(t, "sent")
        /\ UNCHANGED <<engine, runtimes, connects, closings, calls>>

-----------------------------------------------------------------------------
(* close(), and the interruption of a connect(), which closes as well      *)

\* begin_close_with_timeout.
BeginClose(t) ==
    LET r == engine.runtime
    IN  /\ thread[t].at \in {"idle", "waiting", "finishing"}
        /\ UNCHANGED connects
        /\ \/ /\ r = None
              /\ Calls(t, "close", "idle", None, None,
                       IF engine.lifecycle \in {"Stopped", "FailedClosed"} THEN "ok" ELSE "internal")
              /\ UNCHANGED <<engine, runtimes, closings>>
           \/ /\ r # None /\ engine.close # None
              /\ Calls(t, "close", "closing", engine.close, r, Open)
              /\ UNCHANGED <<engine, runtimes, closings>>
           \/ /\ r # None /\ engine.close = None
              /\ closings' = Append(closings, [result |-> Open, late |-> FALSE])
              /\ engine' = [engine EXCEPT
                     !.lifecycle = IF engine.lineage THEN "FailedClosing" ELSE "Closing",
                     !.close = Len(closings) + 1]
              /\ runtimes' = [runtimes EXCEPT ![r].asked = TRUE]
              /\ Calls(t, "close", "closing", Len(closings) + 1, r, Open)

\* PendingClose::wait_timeout: somebody else finished the attempt.
SeeClosed(t) ==
    /\ thread[t].at = "closing"
    /\ closings[thread[t].attempt].result # Open
    /\ Ends(t, closings[thread[t].attempt].result)
    /\ UNCHANGED <<engine, runtimes, connects, closings, calls>>

Current(t) == engine.runtime = thread[t].runtime /\ engine.close = thread[t].attempt

\* Mutant of FinishClose: the flag of the explicit connect is left.
FinishCloseKeepingFull(t) ==
    LET r == thread[t].runtime
        failed == engine.lineage \/ ExitResult(r) = "error"
    IN  /\ thread[t].at = "closing"
        /\ closings[thread[t].attempt].result = Open
        /\ Exited(r)
        /\ Current(t)
        /\ engine' = [lifecycle |-> IF failed THEN "FailedClosed" ELSE "Stopped",
                      runtime |-> None, connect |-> engine.connect, close |-> None,
                      full |-> engine.full, lineage |-> failed]
        /\ PublishClose(thread[t].attempt, ExitResult(r))
        /\ Ends(t, ExitResult(r))
        /\ UNCHANGED <<runtimes, connects, calls>>

\* finish_host_close: the runtime has published its exit and is joined.
FinishClose(t) ==
    LET r == thread[t].runtime
        failed == engine.lineage \/ ExitResult(r) = "error"
    IN  /\ thread[t].at = "closing"
        /\ closings[thread[t].attempt].result = Open
        /\ Exited(r)
        /\ Ends(t, ExitResult(r))
        /\ IF Current(t)
           THEN /\ engine' = [lifecycle |-> IF failed THEN "FailedClosed" ELSE "Stopped",
                              runtime |-> None, connect |-> None, close |-> None,
                              full |-> FALSE, lineage |-> failed]
                /\ PublishConnect(engine.connect, "error")
                /\ PublishClose(thread[t].attempt, ExitResult(r))
           ELSE UNCHANGED <<engine, connects, closings>>
        /\ UNCHANGED <<runtimes, calls>>

\* Mutant of TimeOutClose: a close that timed out is forgiven.
TimeOutCloseForgiven(t) ==
    LET a == thread[t].attempt
    IN  /\ thread[t].at = "closing"
        /\ closings[a].late
        /\ Current(t)
        /\ runtimes' = [runtimes EXCEPT ![engine.runtime].late = TRUE]
        /\ engine' = [engine EXCEPT !.lifecycle = "FailedClosing", !.close = None]
        /\ PublishClose(a, "timeout")
        /\ Ends(t, "timeout")
        /\ UNCHANGED <<connects, calls>>

\* mark_host_close_timeout, also when the exit comes between look and lock.
TimeOutClose(t) ==
    LET a == thread[t].attempt
    IN  /\ thread[t].at = "closing"
        /\ closings[a].late
        /\ closings[a].result = Open
        /\ IF Current(t)
           THEN /\ runtimes' = [runtimes EXCEPT ![engine.runtime].late = TRUE,
                                                ![engine.runtime].asked = TRUE]
                /\ engine' = [engine EXCEPT !.lifecycle = "FailedClosing", !.lineage = TRUE,
                                            !.close = None]
                /\ PublishClose(a, "timeout")
                /\ Ends(t, "timeout")
           ELSE Ends(t, "internal") /\ UNCHANGED <<engine, runtimes, closings>>
        /\ UNCHANGED <<connects, calls>>

\* One second has passed.
Elapse(a) ==
    /\ ~closings[a].late
    /\ closings' = [closings EXCEPT ![a].late = TRUE]
    /\ UNCHANGED <<engine, runtimes, connects, thread, calls>>

-----------------------------------------------------------------------------
(* A runtime                                                               *)

Failing == {"FailedClosing", "FailedClosed"}
BegunToClose(state) == IF state \in Failing THEN "FailedClosing" ELSE "Closing"
IsClosing(r) == runtimes[r].state \in {"Closing", "FailedClosing"}

\* begin_start and publish_start.
StartUp(r) ==
    /\ runtimes[r].startup = Open
    /\ runtimes' = [runtimes EXCEPT ![r].startup = "ok", ![r].state = "Running"]
    /\ UNCHANGED <<engine, connects, closings, thread, calls>>

\* The runtime cannot be built, or fails before it publishes.  ConnectAll in the
\* channel is answered, or lost with it; so is a command.
StartFails(r) ==
    /\ runtimes[r].startup = Open
    /\ Cardinality({ q \in 1 .. Len(runtimes) : runtimes[q].startup = "error" })
          < MaxStartFailures
    /\ runtimes' = [runtimes EXCEPT ![r].startup = "error", ![r].state = "Stopped",
                                    ![r].failed = TRUE, ![r].left = TRUE, ![r].channel = {}]
    /\ connects' \in { connects,
                       [a \in 1 .. Len(connects) |->
                           IF a \in runtimes[r].channel THEN Published(connects[a], "error")
                           ELSE connects[a]] }
    /\ thread' = [t \in HostThreads |->
           IF thread[t].at = "sent" /\ thread[t].runtime = r
           THEN [thread[t] EXCEPT !.at = "idle", !.result = "closed"] ELSE thread[t]]
    /\ UNCHANGED <<engine, closings, calls>>

Up(r) == runtimes[r].startup = "ok" /\ ~runtimes[r].left

\* connect_all, or its refusal behind a close.
TakeConnect(r) ==
    \E a \in runtimes[r].channel :
        /\ Up(r)
        /\ IF IsClosing(r) \/ runtimes[r].batch # None
           THEN /\ PublishConnect(a, "error")
                /\ runtimes' = [runtimes EXCEPT ![r].channel = @ \ {a}]
           ELSE /\ runtimes' = [runtimes EXCEPT ![r].channel = @ \ {a}, ![r].batch = a]
                /\ UNCHANGED connects
        /\ UNCHANGED <<engine, closings, thread, calls>>

\* handle_connect_finished: the last Slot is connected, or one of them failed
\* and everything is rolled back.
ConnectEnds(r) ==
    /\ Up(r)
    /\ runtimes[r].batch # None
    /\ ~IsClosing(r)
    /\ \/ /\ PublishConnect(runtimes[r].batch, "ok")
          /\ runtimes' = [runtimes EXCEPT ![r].batch = None]
       \/ /\ runtimes' = [runtimes EXCEPT ![r].state = "Closing"]
          /\ UNCHANGED connects
    /\ UNCHANGED <<engine, closings, thread, calls>>

\* A command is handled: with its answer, or refused behind a close.
Answer(r) ==
    \E t \in HostThreads, result \in {"ok", "closed"} :
        /\ Up(r)
        /\ thread[t].at = "sent" /\ thread[t].runtime = r
        /\ Ends(t, result)
        /\ UNCHANGED <<engine, runtimes, connects, closings, calls>>

\* handle_control: the hard gate of a close under way, then a close asked for.
HandleControl(r) ==
    LET c == runtimes[r]
    IN  /\ Up(r)
        /\ c.late \/ (c.asked /\ ~IsClosing(r))
        /\ runtimes' = [runtimes EXCEPT
               ![r].late = FALSE,
               ![r].state = IF ~IsClosing(r) THEN BegunToClose(@)
                            ELSE IF c.late THEN "FailedClosing" ELSE @]
        /\ UNCHANGED <<engine, connects, closings, thread, calls>>

\* begin_runtime_fatal: publish_fatal and, unless it closes already, begin_close.
Fatal(r) ==
    /\ Up(r)
    /\ ~runtimes[r].failed
    /\ Cardinality({ q \in 1 .. Len(runtimes) : runtimes[q].failed }) < MaxFatals
    /\ runtimes' = [runtimes EXCEPT ![r].failed = TRUE, ![r].state = "FailedClosing"]
    /\ UNCHANGED <<engine, connects, closings, thread, calls>>

\* close_ready, finish_close, and the end of the core with its channel.
Leave(r) ==
    LET c == runtimes[r]
    IN  /\ Up(r)
        /\ IsClosing(r)
        /\ Ingress = {}
        /\ PublishConnect(c.batch, "error")
        /\ runtimes' = [runtimes EXCEPT
               ![r].left = TRUE, ![r].batch = None, ![r].channel = {},
               ![r].state = IF c.state \in Failing THEN "FailedClosed" ELSE "Stopped"]
        /\ UNCHANGED <<engine, closings, thread, calls>>

Exit(r) ==
    /\ runtimes[r].left /\ ~Exited(r)
    /\ runtimes' = [runtimes EXCEPT ![r].exited = TRUE]
    /\ UNCHANGED <<engine, connects, closings, thread, calls>>

-----------------------------------------------------------------------------

CallerStep(t) ==
    \/ SendConnect(t) \/ SeeConnect(t) \/ FinishConnect(t) \/ CleanUpConnect(t)
    \/ Started(t) \/ StartFailed(t) \/ Reap(t) \/ Gate(t) \/ SendCommand(t)
    \/ SeeClosed(t) \/ FinishClose(t) \/ TimeOutClose(t)

CoreStep(r) ==
    StartUp(r) \/ TakeConnect(r) \/ ConnectEnds(r) \/ Answer(r) \/ HandleControl(r) \/ Exit(r)

EngineNext ==
    \/ \E t \in HostThreads : BeginConnect(t) \/ BeginExecute(t) \/ BeginClose(t)
                              \/ StartupTimesOut(t) \/ CallerStep(t)
    \/ \E r \in 1 .. Len(runtimes) : CoreStep(r) \/ StartFails(r) \/ Fatal(r) \/ Leave(r)
    \/ \E a \in 1 .. Len(closings) : Elapse(a)

\* Threads run, and so does a runtime's; a second passes.  Who calls owes nothing.
EngineFairness ==
    /\ \A t \in HostThreads : WF_hostVars(CallerStep(t))
    /\ \A r \in 1 .. MaxRuntimes : WF_hostVars(r \in 1 .. Len(runtimes) /\ (CoreStep(r) \/ Leave(r)))
    /\ \A a \in 1 .. MaxHostCalls : WF_hostVars(a \in 1 .. Len(closings) /\ Elapse(a))

EngineSpec == EngineInit /\ [][EngineNext]_hostVars /\ EngineFairness

-----------------------------------------------------------------------------

StartsWell == \A r \in 1 .. Len(runtimes) : runtimes[r].startup # "error"

\* A runtime is started when the one before has ended, and a close() that
\* returned without an error has ended it (docs/API_REFERENCE.md:342).  This and
\* the next one hold of engines whose runtimes could be started.
OneRuntime ==
    StartsWell =>
        /\ Cardinality({ r \in 1 .. Len(runtimes) : ~Exited(r) }) <= 1
        /\ \A t \in HostThreads :
              thread[t].op = "close" /\ thread[t].result = "ok" /\ thread[t].runtime # None
                 => Exited(thread[t].runtime)
        /\ engine.lifecycle \in {"Stopped", "FailedClosed"}
              => \A r \in 1 .. Len(runtimes) : Exited(r)

\* Only an engine that stopped in order is opened again (docs/ARCHITECTURE.md:67-69):
\* one whose close timed out or whose runtime failed stays closed.
FailedStaysFailed ==
    StartsWell =>
        /\ engine.lineage => engine.lifecycle \in Failing
        /\ \A r \in 1 .. Len(runtimes) - 1 : ~runtimes[r].failed /\ runtimes[r].state # "FailedClosed"

\* Attempts and the flag of a full connection are of the runtime the engine has
\* now, and no thread joins a runtime under the host lock that is still running.
AttemptsAreOfThisRuntime ==
    /\ engine.connect # None => connects[engine.connect].runtime = engine.runtime
    /\ engine.full => \E a \in 1 .. Len(connects) :
                          connects[a].runtime = engine.runtime /\ connects[a].result = "ok"
    /\ StartsWell => \A t \in HostThreads :
          thread[t].at = "cleaning" /\ engine.connect = thread[t].attempt => Exited(engine.runtime)

\* None of the errors the code calls internal is ever given to a caller.
NoInternalErrors == StartsWell => \A t \in HostThreads : thread[t].result # "internal"

\* Every execute() and close() returns.
EngineCallsReturn ==
    \A t \in HostThreads :
        /\ thread[t].op = "close" ~> thread[t].at = "idle"
        /\ thread[t].op = "execute" ~> thread[t].at = "idle"

\* Every connect() returns: the waiters of an attempt that is over belong to the
\* runtime it was made for, and do not wait on the next one
\* (ACTOR_REFACTOR_PLAN.md:787).
ConnectReturns ==
    \A t \in HostThreads :
        thread[t].op = "connect" /\ thread[t].at # "idle"
            ~> thread[t].op # "connect" \/ thread[t].at = "idle"
=============================================================================
