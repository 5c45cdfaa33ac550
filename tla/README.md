# eltdx: a TLA+ model of the request runtime and the Python package

eltdx is a client for Chinese market data. The 7709 quote protocol goes through
an engine written in Rust (`crates/eltdx-runtime`) that owns a fixed pool of TCP
connections; the Python package `src/eltdx` is a facade over it, has clients of
its own for the other protocols (extended market, MAC, F10 over HTTP), reads and
writes files of a TDX installation, computes statistics, and is offered as an
MCP server, a command line and an HTTP gateway. This directory models both: how
requests are admitted to a connection and carried by it, what cancellation,
deadlines, broken connections, retries and close do to them, and what the
threads, caches, files, page loops and failovers of the Python side do.

Left to the repository's fixtures are the conversions: encoding a command,
decoding its answer into records, formatting a table.

## Inventory

Paths of the first table are relative to `crates/`. "State" is what the
component keeps between two calls.

| Component | Code | State | Operations | What makes it correct |
|---|---|---|---|---|
| Admission queue | `eltdx-runtime/src/request.rs` 80-690 | idle Slots, the global FIFO, pin-local waiters, what each request owns, the lease at each Slot, permit and lease counters, epoch, sealed flag | open, submit, heartbeat claim, pin reservation, release, cancel, expire, seal, close | one owner per Slot, a shared bound on waiters, strict FIFO, no silent drop, stale handles change nothing |
| Request tracker | same file, 710-1645 | per request: state, wire identity, attempts, bytes-sent flag, retirement intent | admit, promote, transition, begin/finish retry, begin/finish terminal, continue on the next endpoint | one terminal per request, at most the allowed number of sends, agreement with admission |
| Supervisor | `supervisor.rs` | engine state, epoch, start and close attempts, first fatal, lifecycle retirements | start, close, fatal, the terminals, retry, pins, heartbeats, pushes | claims of several threads coalesce; close answers everyone exactly once |
| Event loop (RuntimeCore) | `engine.rs` 2305-4391 | pending requests, retirement plans, remembered cancellations, confirmations, Slot handles | commands, control cell, Slot events, tick, close | no event handled late corrupts the state; close ends |
| Slot worker | `engine.rs` 4479-5775 | its Slot, stream, current request | connect, handshake, write, read, heartbeat, retire, stop | I/O only under the lease of the request; answers interrupts |
| Slot | `slot.rs` | generation, endpoint attempt, the current exchange | start/finish connect, begin exchange, match a frame, retire | an answer completes only the exchange it was sent for; every endpoint gets its turn |
| Pins | `pin.rs`, parts of `supervisor.rs` and `engine.rs` | reservations, each pin's line, its call in flight | open, submit, promote, cancel, close | a pin keeps its Slot, its line keeps its order, close does not disturb the engine |
| Push buffer and delivery | `push.rs`, parts of `engine.rs` | frames waiting in the channel, refused frames, the buffer's frames, bytes, dropped, gap, fatal, closed | publish, offer, poll, drain, close, fatal | both limits hold; frames keep their order; losses are reported once |
| Memory budget | `memory.rs`, parts of `slot.rs`, `engine.rs` | bytes used, wake-up permits | reserve, release, wait | never above the limit, nobody sleeps beside free memory |
| Frame decoder | `eltdx-protocol/src/frame.rs` | buffered bytes, bytes discarded | push, decode a turn, feed, finish | frames are the stream's, however it is split and budgeted |
| Deadlines, endpoints | `deadline.rs`, `endpoint.rs` | rotation index | arithmetic, rotation order | every endpoint is tried |
| Host handle | `engine.rs` 593-2283 | lifecycle, runtime, connect and close attempts, ingress capacity | connect, execute, close, restart | one runtime at a time, a caller always gets an answer |
| Python binding | `eltdx-python/src/transport.rs` | none of its own | execute with signal polling, conversions | an interrupt becomes a cancellation with a confirmation |

The second table is of `src/eltdx/`.

| Component | Code | State | Operations | What makes it correct |
|---|---|---|---|---|
| Transports and client | `transport/`, `client.py` | the lazily built engine of each pool, its lock; which markets' decimals are loaded | first use, close, reopen, auction pool, precision | one engine, nobody waits for a lock that its holder needs, no quote before its precision |
| API loops | `api/bars.py`, `trades.py`, `codes.py`, ... | none | read a listing page by page; ask for many codes | nothing is skipped, joined in order, all codes or an error |
| Subscription | `api/subscription.py` | stop event, pins of its groups | run, poll, renew, stop | pins go back once, stop ends |
| Money flow | `api/money_flow.py` | preferred host, probe budget, dedicated transport | daily of several codes, close | empty only after the hosts were asked; transports closed |
| Host ranking | `hosts.py` | a JSON file shared by threads and processes | probe, merge, write, order candidates | the file is whole, no probe lost |
| Extended market, MAC | `ex/`, `mac/` | one socket, current host, failed hosts | request, reconnect, failover, probe | an answer belongs to its request; failover ends at a living host |
| F10, news | `f10/` | none | one method per report: check, ask, page | whole listings, no socket left, refusal before asking |
| Offline files | `offline/`, `stats.py`, `financial.py` | bar files, archives | append, read, download, unpack | readers see whole records after any crash, archives are refused in time |
| Helpers | `helpers/` | days, statistics, securities, finance remembered; the board directory | join sources; adjust prices; limits; shortline rows; board tables | statistics of the days resolved, adjustments without a jump, a date says that everything was asked for that day |
| HTTP gateway | `http_server.py` | sessions, their queues, subscribers, the pump | request, subscribe, fan out, leave | pump while subscribed, replies in order before events |
| MCP, command line | `mcp.py`, `cli.py` | registry of clients | lease, construct, evict, close; one function per tool | leased clients are not closed, none is lost, calls leave nothing behind |
| Scripts | `scripts/` | none that matters | release, fixtures, smoke tests | not modelled |

How they interact. Callers put commands into a bounded channel and
cancellations and close into a control cell. RuntimeCore polls the control
cell, the Slot events, the pushed frames, the commands and a tick, in that
order of preference, and handles one thing at a time. It hands work to a worker over a channel of
capacity one and directives (run, cancel this request, stop) over a watch cell.
A worker reports each step of a request as an event and waits for the core's
reply before it goes on; it looks at the directive before it starts and while
it performs I/O, not while it waits for a reply. The core calls the Supervisor,
which calls the tracker and the admission queue, synchronously. In Python the
facades share an engine under a lock; the MCP server and the gateway share
clients; subscriptions and refreshes pin connections of the pool; the helpers
call the APIs and remember what they got.

What is hard. An event was sent before, and is handled after, a cancellation, a
close or a failure. A deadline passes between two checks of it. A released
Slot is handed to a waiter, and its worker given new work, while that worker
still waits for a reply. A frame is refused by a full channel, counted in a
second step, and reported by comparing two totals. A generation is acknowledged as retired after the plan
for it has changed. Close must answer everyone once, with the right reason, and
must end. In Python: a listing grows between two pages; a cache is renewed while
a thread has read half of it; a machine stops between two writes; a task of a
pool fails while others run; a late handshake stands before the answer; several
capital changes meet. `PROJECT.json` lists these as hazards with the line where
each bites and the properties that cover it.

## Modules

| Module | What it is |
|---|---|
| `Admission` | the admission queue, every operation |
| `SlotPool` | what admission promises, abstractly: holders and one line |
| `AdmissionProofs` | the inductive invariant of Admission, nine theorems, and a tenth: Admission implements SlotPool |
| `MCAdmission` | instances for TLC and the refinement mapping to SlotPool |
| `RuntimeCore`, `MCRuntimeCore` | the event loop, the workers, the callers; composes Admission |
| `RuntimeCoreProofs` | the inductive invariant of RuntimeCore, the moves of a request, the engine while only connections fail: nine theorems |
| `PushFeed`, `MCPushFeed` | unsolicited frames: workers, channel, push buffer, pollers |
| `PushFeedProofs` | the inductive invariant of PushFeed, what its folds do, six theorems |
| `FoldInduction` | induction over numbers, the equations of `FoldLeft` and what a `FoldSet` keeps, for any predicate and operation |
| `Pins` | one pin: its opening, calls, line, close, beside other requests and a heartbeat |
| `SlotWire` | one Slot's connection: generations, endpoints, exchanges, message identities |
| `SlotWireProofs` | what SlotWire promises of answers, frames, connections and endpoints: four theorems |
| `SlotMemory` | the shared memory budget and the workers that read under it |
| `FrameDecoder` | frames out of a stream of bytes, split anywhere |
| `EngineHost` | the host handle: connect, execute and close of several threads over several runtimes |
| `ClientFacade`, `Subscription`, `Paging`, `CodeBatches`, `MoneyFlow` | the client and its API |
| `HostRanking`, `HostProbe`, `QuoteSessions` | host lists; the extended-market and MAC clients |
| `F10Requests`, `OfflineFiles` | F10 over HTTP; files |
| `HelperPlans`, `BoardCache`, `PriceAdjustment`, `ShortlineRows` | helpers |
| `HttpGateway`, `ClientRegistry`, `Surfaces` | gateway, MCP server and command line |
| `MCParts` | the instances of the modules from `Pins` on, one part at a time |
| `ClientProofs` | what is proved of HelperPlans, MoneyFlow, BoardCache and OfflineFiles: four invariants, five theorems |
| `GatewayProofs` | what is proved of HttpGateway and QuoteSessions: two invariants, three theorems |
| `PartsProofs` | the theorems of the components as theorems of MCParts, for five properties its run checks |

### Admission

One variable per field of `AdmissionQueue`: `epoch`, `sealed`, `idle`,
`waiting`, `pinWaiting`, `ownership`, `activeBySlot` and the two counters. Three
more variables describe its surroundings: `handles` holds every permit and
lease handed out, because the runtime keeps copies and presents them later;
`elapsed` the requests whose deadline has passed; `outcome` what the queue last
told the caller about each request.

One action per operation. `submit` is three actions, after its three results
(a lease, a permit, a refusal); `release_active` is two, with and without a
live waiter. Release, cancel and pin release are offered any handle ever handed
out, stale ones included. The FIFO is a set ordered by permit id: `push_back`
always takes the next id and nothing else inserts, so the order is not lost.
`SlotPool` has the sequence itself, and the refinement check puts the set in
permit order and compares.

Abstracted: the order in which idle Slots are reused, and durations.

### RuntimeCore

The state of `RuntimeCore` (engine.rs 2305), the Supervisor and the workers,
for ordinary requests in one epoch. `req` joins a request's tracker record with
its pending entry, since they live and die in the same handlers; the field
`shown` is the pending entry's wire, which lags behind the tracker's wire after
a retry. `retirements` and `lifecycle` are the two maps of plans, `confirm` a
caller's cancellation from asked to confirmed, `preCancelled` the cancellations
that came before their command. `work`, `directive`, `events` and `reply` are
the channels of each worker, and `worker` its own state: where it is (`pc`),
its request, its generation, whether it is connected and how many endpoints are
left in the attempt. `sentOn` is a history variable: the generations a
request's bytes went out on.

Each handler of the code is one action with all it calls: `HandleCompleted` is
the `Completed` arm of `handle_slot_event` with the terminal, the release of
the lease, the promotion of the next waiter, its dispatch to the worker and the
notification of the callers. Admission's actions are conjoined to the handlers
that call them (`A == INSTANCE Admission`). A rejected event is part of its
handler: it answers the worker with an error and, unless the engine is closing,
fails the engine (`Fail`), as `run` does with a handler's `Err`.

Abstracted: payloads; the handshake is one write-and-read step; an attempt's
share of the deadline is the request's deadline, its earlier end being one of
the I/O failures; the two clock readings inside one handler are one. The core's
preference among its sources is left open, so every order is explored.

### PushFeed

The way of an unsolicited frame: `channel` and `missed` are the bounded channel
into the core and the atomic count beside it, `push` is the `PushBuffer`,
`commands` and `waiters` are the polls in the command channel and those parked
in the core. A worker refuses a frame (`Publish`) and counts it
(`CountRefused`) in two steps, as `publish_push` does. `Fulfilled` is
`fulfill_push_waiters`: a fold of `Served` over the waiters, each of which is
answered from the buffer as the one before left it. `TakeFrame`, `Tick`,
`HandlePoll` and `HandleDrain` are the arms of the core's select with all they
call; which of them flush the count of refused frames, and which do not, is
kept, as the order of reports depends on it. The counts of lost frames are sets
of frame numbers, so that one can ask which frame was lost.

Abstracted: a frame is a number and a size; the command channel is large enough
for every poller; one engine epoch. `KeepsNewest` states the documents' rule for
a full queue (its oldest frames go) and does not hold of the whole feed: the
channel refuses the newest (engine.rs 5659).

### Pins

One Slot, one pin, one worker. `lease` is who has the Slot, `globalLine` and
`localLine` the two lines, `activeCall` the pin's call in flight; `state`,
`plan` and `tries` are the tracker's record of each request, `work`,
`directive` and `reports` the worker's channels. `OpenPin` is a request like any
(`ThePin`): when its connection stands, `HandleConnected` turns the lease into
the pin's. `SubmitPinned`, `NextCall`, `EndCall`, `CloseIdle`, `CloseBusy` and
`JoinClose` are the operations of the registry with what the Supervisor and the
core do around them. A heartbeat (`AskHeartbeat`, `HandleDue`,
`StartHeartbeat`) claims the Slot when nobody has it. An event nobody expects
ends the engine (`Fail`), as in RuntimeCore, and so does the worker's report
that a call of the pin was cancelled before it started (`HandleUnstarted`,
see the findings); the invariants hold of whatever is left. `MayFail` says whether I/O may fail. There is one heartbeat in a
behaviour, and cancellations of heartbeats by a close of the whole engine are
left out.

### SlotWire, SlotMemory, FrameDecoder, EngineHost

`SlotWire`: `slot` is state, generation, exchange and receive sequence;
`inbound` the frames between server and matcher, each with the exchange the
server answered, which the Slot cannot see; `rotation` the `EndpointRotation`.
Exchanges are business commands, the two handshakes, heartbeats and pushes;
message identities are those of `MessageIdGenerator`: a counter, a low byte for
money flow, and a refresh space that ends (5792-5806), after which the worker
ends with an error and the engine with it. The share of the deadline an
endpoint gets is left out: a failure may come at any step.

`SlotMemory`: `raw` and `decoded` are the two atomic counts, `permit` the one
permit a `Notify` keeps. One atomic operation is one step, so that reservations
and releases of several workers interleave as they can. A reservation that fails
after bytes were read ends the connection (engine.rs 5507-5515), as the code
has it, although the reader looked at the same budget before.

`FrameDecoder`: a stream is put together from pieces - whole frames, compressed
ones, frames that contain a prefix, noise, halves of a prefix, and frames whose
header lies. It is pushed in chunks of any size and decoded in turns of small
budgets, or fed, and ended. `Decode` is `decode_available`; `Reading` reads the
stream as a whole and is the reference. The prefix has two bytes instead of
four, the header four instead of sixteen.

`EngineHost`: `engine` is `HostState`, `runtimes` the runtimes started so far,
each as much of a core as the host can see: it publishes its startup, takes
commands, closes, leaves. A thread's step is what it does under the host lock.
`connects` and `closings` are the shared attempts (`Completion`). The
properties are stated for engines whose runtimes start: when a startup fails,
the second lock of `ensure_runtime` (1740-1784) writes the lifecycle without
looking whether it is still the same runtime. A waiter that comes late then
reopens an engine that failed for good, takes the runtime another thread has
just started and joins its thread, or leaves a close attempt behind; a late
success marks a runtime running that has not started, or is reported as
"internal: runtime published startup after host returned to Stopped".

### The Python package

| Module | State and steps | Left out |
|---|---|---|
| `ClientFacade` | `pools`, `engineLock`, `decimalLock`, `loaded`: first use builds the engine under its lock after probing; quotes load the decimals of their markets first; the auction API has a pool of its own; close at any time | arguments and answers of the commands |
| `Subscription` | `sub`: metadata, pins, refresh, dispatch, renew, poll, close; `free`: the pool's idle connections; stop, errors of callbacks, the engine's end | cursors of renewals |
| `Paging` | every page loop is a record of what sets it apart (end by empty or short page, offsets from the newest, page size, limit); the listing grows between pages, the connection may move to another host | the items' contents |
| `CodeBatches` | `recover_batch` with its budget; seven thread pools of codes, each a record of its rules | rows' contents |
| `MoneyFlow` | two codes at a time, lock, cursor, preferred host and budget of `_EmptyFailover`, dedicated transports, close | records |
| `HostRanking` | file, in-process lock, atomic replace, dying processes | latencies beyond their order |
| `HostProbe` | the threads of `probe_ex_hosts`, the registry of their sockets, the early exit | the handshake's bytes |
| `QuoteSessions` | one socket with its unread answers; reconnect, failover, ranking, handshakes that come late, of four clients | codecs |
| `F10Requests` | each of the client's methods as a record: family of gateway, checked arguments, what it asks first, how it pages; sockets by address | field tables |
| `OfflineFiles` | a record is two cells; appenders, readers, crashes; archives as a list of checks in their order | numbers in the records |
| `HelperPlans` | each helper as a sequence of sources, what their faults cost and what is remembered; days go by | arithmetic of the columns |
| `BoardCache` | memory and directory: two board files, table, date, each written in place, emptied first and filled in a second step; refresh, new days, failed fetches, restarts between and inside any two writes | the files' contents but for their day and whether they are cut short; `base.dbf` |
| `PriceAdjustment` | events of a day as maps (kx + n)/d; the factors of `equity.py`, the limits of `core.py`, `mac/adjust.py` | rounding |
| `ShortlineRows` | a row from statistics of this session or the one before it and the live quote | columns that are copied |
| `HttpGateway` | handler, writer, queues of each socket, the hub's pump and polls that cannot be stopped | REST routes are in `Surfaces` |
| `ClientRegistry` | `entries` in order of use, `pending`, `constructing`; leases, eviction, close | |
| `Surfaces` | each function of mcp.py and command of cli.py as a record; check, build, connect, ask, write, close in their order, any of which may fail | formatting |

`MCParts` instantiates these and `Pins` ... `EngineHost`. They share no state,
so a behaviour takes one `part`, chosen at its start, through its steps while the
others stay in their first state: the run explores the sum of the instances,
not their product. Its properties are conjunctions of the parts' own
invariants, grouped by the promise they make. Where a component has proofs,
the instance is that of its proofs' module, which extends the component's:
`Client` stands for helpers, flow, boards and files, `Gateway` and `Sessions`
for the two of `GatewayProofs`, `Wire` for SlotWire.

## Runs

| Run | Instance | Question |
|---|---|---|
| `admission` | 4 requests, 2 Slots, 2 permits, 2 epochs, symmetric requests | Do ownership, order and answers stay consistent whatever is called in whatever order with whatever handle? Does the queue implement SlotPool? |
| `core` | 2 requests (r1 retry-safe and cancellable), 1 Slot, 2 endpoints, 2 attempts, failures, deadlines, close | Is a Slot used by its holder only, is nothing sent too often, is everyone answered once, is nothing left over, do broken connections alone leave the engine alive? |
| `core_live` | 2 requests, 1 Slot, failures, deadlines, close, no cancellation | Is every command answered, does close end? |
| `core_cancel`, `core_late_cancel`, `core_deadline` | 1 request, 1 Slot | Findings 1 to 3 below. |
| `push` | 1 worker, 2 pollers, 1 waiting place, channel and buffer of 2 frames, 2 bytes, sizes 1 to 3, 3 frames | Do order, the accounting of losses and their report hold, does close silence the feed, does every poll return? |
| `python` | `MCParts`, 24 parts | Does each component of the package, and of the runtime beside the core, keep its promise under every fault it handles? |
| `python_live` | `MCParts`, 9 parts, smaller | Do calls, stops, probes and waits end? |
| `host_reconnect`, `pin_close`, `boards_stale` | the one module, least instance | Findings 4 to 6 below. |

Why these bounds are enough. Two Slots and four requests are the least with two
holders and two waiters, so a waiter can be passed over in favour of another
and two Slots can be mixed up; two epochs are the least for a stale handle of
an earlier epoch. In the core, two requests on one Slot give one on the wire and
one waiting to be promoted under it; two attempts are the code's own policy
(`RetryPolicy::ordinary`). Nothing in the core relates two Slots but the queue,
which is checked on its own. In `push` a frame of size two must evict two of
size one, a frame of size three fits nowhere, and with three frames the channel
can be full while one is refused; two pollers can wait together, so that one is
told of a gap and the next gets the frame.

`python`: two or three users of each thing shared, so that one can meet what
another left; a call repeated after a fault; two crashes of a writer of files,
one end of a process in or between any two writes of the board cache; pages of
two items and listings of up to four or five, so that the last page is full,
short or empty; three capital days of two changes. The pins come twice: as
"pin", with three calls, an ordinary request, two closers and a line of two, on
connections that do not fail; and as "weakpin", with two calls, on connections
that do. Streams of `FrameDecoder` have three pieces out of nine, which put a
prefix at every offset of a chunk and noise beyond the limit.

The threads of `python` are symmetric (`ThreadSymmetry`): the callers of the
client, of the helpers, of the boards and of an engine, the writers of the host
ranking, the subscriptions, the sockets of the gateway, the closers of a pin and
two readers of the shared memory have the two names p and q, and no module tells
them apart. A part keeps the others still, so they may share names.
`BoardBound` bounds the board cache further: two calls in all, which may be under
way together where the block definitions are in the directory; the process ends
in the first, and the second finds what it left. That a process which ends in
two calls at once is followed by a third is left to the proof, which has no
bounds.

`CHECK_DEADLOCK FALSE` where requests or calls are finite in number or a closed
engine stops; in `push` a poller can always ask again, so deadlock is checked.

Bounds by name: `MaxEpoch` (epochs Admission runs through), `MaxAttempts`,
`Endpoints`, `MaxSent` (frames the server sends); in the parts every constant
commented "bound" in its module (`MaxClientOps`, `MaxCalls`, `MaxHostCalls`,
`MaxRuntimes`, `MaxExchanges`, `MaxUnasked`, `MaxFileOps`, `MaxCrashes`,
`MaxRestarts`, `MaxPieces`, ...), one heartbeat, and the sizes of the sets of
users. `MayFail`, `MayElapse`, `MayClose`, `Cancellable` and `Interrupted` turn
on the surroundings' faults. Generation numbers and lease ids are not bounded in
the guards: they grow with the finitely many attempts.

## Fairness

Admission: `Elapse` (deadlines are finite) and `ExpireWaiting` (the tick of the
runtime calls it each time). Holders are not assumed to release.

RuntimeCore: weak fairness of each handler of the core, because `run` polls
every source in each turn and its handlers do not block on a worker; of each
worker's next step, because a worker is a task of the same runtime and each of
its I/O operations has a deadline. Nothing is assumed of callers: they need not
submit, cancel or close. The public one-second gate of close may fire at any
time (`HandleCloseTimeout`), or never.

PushFeed: weak fairness of the core's arms and of each poller's deadline. The
select of `run` is `biased`: it looks at pushes before commands and the tick.
That the latter are reached again and again therefore holds only while frames
do not arrive faster than the core takes them, which `MaxSent` stands for; the
fairness of RuntimeCore rests on the same assumption. With a stream of frames
that never pauses the liveness properties are not claimed.

Pins: the core's events and tick, the worker and the deadlines; that a
heartbeat is asked for is not assumed. EngineHost: each thread's next step, each
runtime's next step and the deadline of each close; `host_reconnect` assumes
besides that runtimes told to close leave.

MCParts: a thread, a task of a pool and a coroutine that can go on do, since each
wait inside one step ends by a timeout of its transport. Users, servers, a
`close()` and crashes owe nothing. `WF` is of the part's own variables, and only
of steps of that part.

## Properties

Each module has one type invariant. The others, with what they mean, stand at
the end of each module. The ones a reader should start with:

- `NoOvertaking`, `NobodyWaitsForAnIdleSlot`, `BooksAgree` (Admission): the
  order and completeness of the queue.
- `IOOnlyUnderLease`, `SentAsOftenAsAllowed`, `DispatchFindsRoom`
  (RuntimeCore): a Slot is never handed on under a request, a command that is
  not safe to repeat is never written twice, and a promoted request always
  finds its worker ready.
- `ClosedLeavesNothing`, `NothingAfterTheAnswer`: what a caller may rely on
  after an answer.
- `EveryFrameIsAccounted`, `NoSilentGap`, `ClosedFeedIsSilent` (PushFeed): no
  frame is lost untold, and none outlives close.
- `OnlyTheOwnerIsOnTheWire`, `EverybodyHasAPlace`, `ServedInOrder`,
  `ClosedMeansReleased` (Pins, under `PinsAreGivenBack`).
- `AnswersAreTheirOwn`, `EveryFrameGoesOnce`, `HandedOnClean`,
  `EveryEndpointGetsItsTurn` (SlotWire, under `OwnAnswers`);
  `FramesAreTheStreams` (FrameDecoder, under `AnswersAreWhole`);
  `MemoryIsAccounted`, `SomebodyIsAwake` (SlotMemory, under `CallsLeaveNothing`).
- `OneRuntime`, `FailedStaysFailed`, `AttemptsAreOfThisRuntime`,
  `NoInternalErrors` (EngineHost, under `ClientsLiveWhileUsed`).
- `FailoverReachesALivingHost` (QuoteSessions, under `ProbesAreWhole`).
- `DateSaysWhatWasAsked` (BoardCache): what may be concluded from the date that
  decides whether the files on disk are used.
- `RecoveredExactly`, `EmptyWasLookedFor`, `LeasedClientsAreSafe`,
  `ReadersSeeWholeRecords`, `ReturnsAreKept` for the Python side.
- `EveryCallReturns`, `CloseEnds`, `PollersReturn`, `CallsEnd`, `WaitersLeave`:
  liveness.

`SomebodyIsAwake` is weaker than "nobody sleeps beside free memory": a `Notify`
keeps one permit only, so of several workers that should be woken one may
oversleep until the next release; what holds is that another one is awake then.

Every property of a passing run is paired in `PROJECT.json` with a mutant of
the modelled code that breaks it, one for each component behind it where there
are several; the mutants are operators next to the definition they change.

## Findings

1. *Cancelling a request can fail the engine* (`core_cancel`). The core marks
   the request for retirement when it handles the cancellation; an event the
   worker had already sent for it is then rejected, and a rejected event is
   fatal. The documents ask for the loser of that race to be a no-op.
2. *A late cancellation keeps close from ending* (`core_late_cancel`). A
   cancellation that is handled after its request was answered is taken for one
   that precedes its command and is remembered; close waits until nothing is
   remembered.
3. *A deadline at the wrong moment fails the engine* (`core_deadline`). If it
   passes between dispatch and the worker's own check, or while a retry waits
   for its retirement, the error ends the worker and with it the engine,
   instead of the request.
4. *A connect that outlives its runtime polls for ever* (`host_reconnect`). The
   engine was closed and started again before the waiter looked.
5. *Closing a pin can fail the engine* (`pin_close`). A call that is dispatched
   and not yet on the wire is withdrawn while the worker has its work, and the
   worker's report names a request nobody knows; a call on the wire is cancelled
   without a plan for its retirement, which `handle_retired` takes for an
   internal error; and the next owner's dispatch may find the worker's channel
   still full. The documents say that closing a pin leaves the engine alone.
6. *A refreshed board table keeps its old members* (`boards_stale`):
   `_members` is matched once and `_prepare` never clears it.

Finding 1 has a narrower relative without any cancellation: a close that
arrives while an attempt goes on to its next endpoint or to a retry. The
worker reports `UnstartedCancelled`, the handler finds a pending entry that
still has a wire (engine.rs:3380) and returns an error, and the engine ends
`FAILED_CLOSED`. `BrokenConnectionsAreNotFatal` states what is left: without a
passed deadline, a close or a cancellation nothing fails the engine, however
connections break. The core's liveness is checked without interrupted callers.

Other places where code and documents part, met while modelling. The properties
in brackets are in their modules, do not hold, and are in no run.

In the runtime:

- Interrupting the caller of a pin's call that is dispatched and not yet taken up
  ends the engine. The worker reports `UnstartedCancelled`; the handler
  (engine.rs:3403-3423) ends the call with a wire the call does not have yet
  (pin.rs:336-339), `plan_terminal` rejects that (pin.rs:485), and "unstarted
  pinned cancellation was stale" is fatal. ACTOR_REFACTOR_PLAN.md:704-706 has the
  actor cancel it and the pin keep its lease [`UnstartedCancelEndsAlone`; nine
  states with one call, nobody else and no failure of I/O].
- `begin_pin` interrupted just as the pin opens drops the pin's identity
  (engine.rs:848-853); the Slot stays leased (transport.rs:172-190).
- Frames with message id 0: docs/ROADMAP.md:101 and slot.rs:880-893, which
  retires the generation.
- Refresh identities run out after 65,535 (engine.rs:5792-5806) and end the
  whole engine, not the connection (README.md:371).
- Money-flow identities are told apart by their low byte only.
- Two readers that race for the raw budget lose a connection
  (engine.rs:5507-5515); THREADING_SCALE_PLAN.md:189 has them wait.
- `begin_heartbeat` and `begin_exchange` note a receive boundary, but nothing
  is ever excluded by it: frames before it have been routed by then.
- The push channel drops the newest frame, not the oldest [`KeepsNewest`].
- A `RuntimeRef` taken before a close and reopening makes a command fail with
  "closed".

In the Python package:

- mac/adjust.py:107-111 applies events after the last bar to that bar, with its
  own close; the docstring keeps the latest price [`LatestPriceStays`].
- core.py 977-1032: price limits miss an event inside a suspension, and call the
  close unadjusted when the capital changes cannot be read
  [`EventsAreNeverMissed`].
- shortline.py:670-685 counts today twice when the two files are of different
  days [`NothingIsCountedAcrossDays`]; 702-705 takes any bid beside a price at
  the limit for a seal [`SealedIsBidAtTheLimit`]; ST securities are sealed at 5 %
  here and at 10 % in core.py [`SealsAreSeen`].
- workday.py:159 loads trading days once, so "the session before" is of the day
  the client started (docs/helpers/短线指标.md:119) [`StatsAreOfTheLastSession`].
- boards.py:194-199 writes the board files in place. A refresh that is cut off
  in a write leaves a half file behind today's date; the next process asks for
  the date and whether a file exists (159, 201-202), never for the digest it wrote
  down (185), and takes the half file over for the rest of the day. The docstring
  (83-85) speaks of a successful preparation [`ReusedFilesAreWhole`; one caller,
  three calls, one restart]. What holds is `DateSaysWhatWasAsked`.
- boards.py:311-317 fails a table for one code without a quote; docs/helpers/板块行情.md:88
  keeps the row [`MissingQuoteKeepsItsRow`].
- money_flow.py:400-407 lets a ValueError out where an empty answer is promised
  (README.md:337) [`EmptyIsNoError`].
- trades.py:181 asks for 0x0FC5 as a batch, which the package's transports refuse
  (transport/pool.py:192, 435): `today_batch` fails, where
  docs/methods/7709-当日成交明细.md:68 has it return the current page
  [`TodayBatchAnswers`].
- offline/write_daily.py:86-104: `write` appends; docs/OFFLINE.md:28 says it
  overwrites [`WriteReplaces`].
- http_server.py:191-240: an update that arrives while the last subscriber leaves
  is taken by a poll that nobody reads (docs/HTTP_GATEWAY.md:89)
  [`SubsequentUpdatesArrive`]; a handler waits for room in its queue after its
  writer died (86); and beyond `_MAX_WS_RESPONSES` requests under way an event may
  come before the reply that tells its subscription (144-156, 84-87).
- f10/_http.py raises a connection reset as it is [`LossesAreTransportErrors`];
  ex/transport/sync.py:340-348 may close a socket its thread has just cleared
  [`ProbeNeverRaises`].
- An OSError of the MAC handshake leaves `connect` as it is; a page read by
  `MacClient.download_file` may come from another host than the one before.
- Bars written for minutes and for the extended market are not synced to disk,
  and two writers of one file race.

## Proofs

`AdmissionProofs` proves, for every finite set of requests and every number of
Slots, permits and epochs, that the safety properties of Admission hold of
its specification. Assumptions: the four named ones in `Admission` (positive
sizes, a finite set of requests).

The argument. None of the properties is inductive alone. `Inv` adds to them
that the lines hold permits of their own requests (`LinesHoldPermits`), that
the counters are ahead of every id handed out (`CounterAhead`), that no two
permits share an id (`PermitsAreOnce`) and that the waiters are within the
budget (`Budget`). `CounterAhead` is what makes a new id fresh, and from fresh
ids follow the exclusiveness of leases and the order of permits: a stale
handle, whose id differs from the one at the Slot, is refused. One lemma per
conjunct shows that each action preserves it (`TypeStep`, `LinesStep`,
`BudgetStep`, ...), `Invariance` combines them, and each theorem reads its
property off; `BooksAlwaysAgree` joins three of them, `AnswersMatchOwnership`,
`OwnersAreOfThisEpoch` and `WaitersHoldPermits`, into the property the run
checks. `FewerWait` and `OneMoreWaits` carry the cardinalities.
The two action properties follow from the invariant in the state before the
step (`AnsweredOnceStep`, `LivingStep`); `InvStep` restates the invariance for
modules that conjoin Admission's actions to their own.

Its second part proves that Admission implements SlotPool, for the mapping the
run checks (`ImplementsSlotPool`). One assumption more: the value that stands for
no holder is not a request (`NobodyAssumption`).

The argument. The mapping turns a set into a sequence: `Line` is the waiters in
the order of their permit ids. `ArrangementExists` shows by induction on
their number (the module `FoldInduction`) that there is such a sequence,
`ArrangementIsOne` that there is no other; from these follow what a step does
to it: a joiner, whose id is new, goes to the tail (`TailIsJoined`), those who
are left when others leave keep their order (`OrderIsKept`), and the first live
waiter stands at the head once the expired front is gone (`HeadIsFirst`).
`LineSays` and `HolderSays` are all the steps need to know of the mapping; both
follow from `Inv`. One lemma per operation then names the pool's step
(`OpenIsOpen`, `GrantIsTake`, `WaitIsJoin`, `CancelIsLeave`, `ExpireIsLeave`,
`PromoteIsHandOver`, `ReleaseIsFree`, `SealIsClose`), and `OthersAreUnseen` the
operations that leave it as it is. `SealedLineIsEmpty` is the part of the
invariant that this proof adds: a release after the seal must find no line.

`RuntimeCoreProofs` proves the properties of the event loop that relate the
tracker, the queue and the workers, for every finite set of requests, every
number of Slots, endpoints and attempts, every classification of the requests
and every setting of the flags. Assumptions: the seven named ones in
`RuntimeCore`, which ask for positive sizes, for sets of requests where requests
are meant, and that a request is not called "run" or "stop", so that a directive
that names a request (an interrupt) is told from the two others.

The argument. A handler of the core acts on a report that a worker sent earlier;
a cancellation, a deadline or a close may have been handled in between. What
the theorems say of the tracker is therefore not inductive: one has to know
which reports can still arrive. `IInv` has these parts.

- `QueueInv`: Admission's invariant, instantiated for one epoch, and that every
  lease in use was handed out.
- `Books`: permits and leases are the tracker's, plans and intents belong to
  started requests, and a command in the channel is of a request nobody has
  heard of.
- `Typed` and `Shape`: the types, and what an event in a channel says of the
  worker that sent it.
- `OpenSlot`, before a close: a Slot has one thing under way at most, a piece of
  work, an event, or a worker between the two, and it is of the request that
  holds the Slot's lease. This is the condition that makes dispatch find
  room and every I/O step fall under a lease.
- `ClosingBooks` and `ClosingSlot`, after a close has begun: what is left of
  that when leases are released and workers are told to stop.

The lemmas take the workers' steps first, then the core's, one lemma per
handler; `QueueFacts`, `OwnersKnown` and `EventKnown` are what each of them
starts from, and `ReleaseEffect` what a release does to waiters.

The second part of the module takes the life of one request from there. `StepMoves` says
of every step, whichever handler makes it, which of a few moves a request makes:
none, a refusal, its end, its admission, or one of five changes of its record
(a transition, the mark that bytes were sent, an end decided, a retry decided, a
reconnect). `SentOnlyByWrites` and `WriteEffect` say what a write does. Three
small invariants are then proved from the moves and not from the handlers:

- `Answers`: a request with an answer is absent from the tracker, and one the
  queue has seen is in the tracker or has its answer, so that nobody answers or
  writes for it again.
- `Spent`: a request has been written no more often than the attempts it has
  spent, one less when its worker may still write; a request that is
  not safe to repeat and may still be written has not been written, or the
  report that it was is still to be handled. The bound itself is not
  inductive: a retry is decided from the mark `sent`, which lags behind the
  write by the report in the channel.
- `Ends`: when the core has closed, the command channel and the tracker are empty
  and no worker is alive; a worker that is gone had nothing in hand.

The third part proves that broken connections alone never fail the engine.
The core calls a report that does not fit its record of the request a fatal
inconsistency, so the theorem needs that every report fits while nothing else
happens: no deadline has passed, nobody has cancelled, no close was asked for
(`Quiet`). Worker and core are seldom in the same state, because each learns of
the other's step through a channel. `Calm` says for each Slot how the two
correspond at every place where one is ahead: `Dispatched`, a piece of work on
its way to a worker; `Fits`, a report on its way to the core; `InStep`, an answer
on its way back, or a worker at an I/O step; `Doomed`, a generation that is to be
retired, with the plan the core made for what comes after. `NoiseStays`
says that what is not quiet does not become quiet again, so each step is
judged from a quiet state. One lemma per handler shows that it finds a report
that fits and leaves the next one fitting.

`PushFeedProofs` proves the four invariants and two of the action properties of
PushFeed, for every set of pollers and workers and every limit of the buffer.
Assumption: `LimitsAssumption` (positive limits, sizes above zero).

Two things in this module are loops: the sum of the sizes in the buffer, and the
core's way through its waiters, each of which finds the buffer as the one
before left it. What they do is shown by induction. The library's induction
theorems take the predicate as a parameter, which no installed prover can
instantiate; `FoldInduction` therefore has the predicate and the operation as
CONSTANTS, proves induction from the least element of a set of numbers, and
the equations of `FoldLeft` for an empty and a longer sequence from its
definition. `Summing`, `Serving` and `Closing` instantiate it. `TotalSplits`
says that a sum can be taken in two parts, which is what `offer` relies on when
it subtracts the oldest frames; `AllServed` and `AllDismissed` say what the desk
looks like when all waiters were looked at (`DeskAfter`, `DeskClosed`).

The argument. `IInv` says where each frame is. `Places` is the centre: what was
handed out is older than what is buffered, and that older than what is in the
channel, and these, the refused, the missed and the dropped are disjoint and
make up everything sent. Order alone is not inductive, as `offer` appends what
leaves the channel; accounting alone is not either, as a refused frame must not
be counted for two workers. `Owed` follows the losses a caller is owed: they
are in one of the two counts, and in the buffer's own by the time the caller
waits, which is why the flush that opens a command matters and its absence in
the push arm does not. `Queues` says that whoever is in a call is in one queue,
once, and that nobody waits beside a frame or a closed buffer. After close,
`Places` and `Owed` are given up, as the code gives up what was buffered. One
lemma per action keeps the parts (`PublishKeeps`, ..., `ExitKeeps`); `GapFirst`
and `SilentOnceClosed` are the two action properties, step by step.

`SlotWireProofs` proves what run `python` checks of a Slot under `OwnAnswers`,
for any number of endpoints, exchanges, unasked frames and identities
(`WireAssumption`: at least one of each), and any size of a turn.

The argument. `InHand` is the types and `InStep`: what the worker is at, its Slot
is in, and a Slot without a connection has nothing inbound and nobody asked.
`HandedOnClean` follows from it alone. `AnswersAreTheirOwn` needs to know of every
exchange that the connection knows of, asked, under way or open, that its
identity is the one it was given and nobody else's (`Identified`). That does not
hold of money flow, whose identities come again: there `OneAnswer` says that a
server which answers once has at most one answer to give, that of the exchange
whose reader waits. A retirement forgets all of them at once, which is why a
late answer cannot reach the next generation. `Rotates` says that an attempt
took the endpoints in turn from where it began and that what it did not take
remains; from there `EveryEndpointGetsItsTurn` is arithmetic.

`ClientProofs` has one section for each of four components of the Python
package, which share no variable. Assumptions: those of the components
(`MoneyFlowAssumption`, `OfflineAssumption`), for any users, codes, hosts, days,
dates and numbers of restarts and crashes; for the files one hypothesis more.

- Helpers. A helper is a sequence of sources. `HelpersAreWellOrdered` reads off
  the table of helpers that each names its days before its statistics and that
  nothing it can do without costs the call. `HelpersInv` then says how far a
  call has got: what it has read by now fits the days it resolved
  (`StatsFit`). The property alone, which speaks of finished calls, is not
  inductive, as another user may replace what the client remembers in between.
- Money flow. A task that searches has passed, one after the other, the
  candidates from its first one on (`Passed`), and the code's data is at none of
  them, unless it was spared that host or something failed (`SoughtInVain`).
  `Passed` has as many elements as steps were taken as long as there are no more
  steps than candidates, so a search that ends has asked its full share.
  That the hosts passed over unasked are another call's find needs
  `TransportAdopted`; that a call stays within its budget is `WithinBudget`, the
  opened and the left together; that nothing stays open is `TransportOwned`. The
  proof found the property too strong as it was first stated: it excused a host
  that a call *has* found data on, but `close()` and a later search may put
  another host in its place. The model now records which hosts a task was
  spared (`spared`), and the property speaks of these.
- Boards. `BoardInv` adds to `DateSaysWhatWasAsked` what each caller must have
  asked for by the place it is at (`BoardCallIsSound`): the first file when it is
  at the second, both when it parses them, the table when it saves it, and, if
  it found nothing to ask for, that the date it found says so already. Nothing
  was asked for on a day to come (`NotAhead`), so asking again never makes a
  source older. The invariant says nothing of the files' contents: a write cut
  short changes them and breaks no part of it.
- Files. `WriterSound` says that the file together with what a writer still has
  to write makes whole records, each date once, in order, and covers the bars
  asked for; a crash keeps a prefix of it no shorter than `durable`, and what
  `EnsureAligned` makes of a prefix is whole again. That a list of checks looks
  at the limits before it unpacks is a fact about the seven lists
  (`ArchivesAreRefusedInTime`). Hypothesis: `OneWriter`. Two writers of one file
  do race, since nothing locks it, and the property fails for them; TLC runs
  with one for the same reason.

`GatewayProofs` proves the two properties that `GatewaySessionsAreOrderly` is
made of, and that a quote client returns the answer to its own command.
`Counted` and `Numbered` place each request of a connection once: its reply
read, on the wire, queued, in its handler's hand, or still in the inbox, and the
replies in this order. `Announced` says that whoever is subscribed, or in a
snapshot of the pump, has an id that its client knows or is about to be told by a
reply that comes before. It is where the queue of replies matters: a reply that
does not fit leaves its handler waiting when the subscription is already
registered, and an event may overtake it. `GatewayReplies` therefore has the
hypothesis `Ahead <= MaxResponses`, a client with no more requests under way than
the queue holds (32, `_MAX_WS_RESPONSES`). It is needed: with three under way and
room for one, TLC finds an event that a client reads before the reply that
tells the id. `GatewayPump` needs no such hypothesis. In `SessionInv` the bytes
of an answer that nobody has read are on a line only if a failure was told on
it (`doubt`), whatever late handshakes and retries come.

`PartsProofs` lifts these, and the theorems of SlotWire, to MCParts, so that five
properties of run `python` are theorems of the specification that run checks. Each
step of MCParts is a step of the component or leaves its variables alone, so a
behaviour of MCParts satisfies the component's specification; for the two
instances of MoneyFlow the part, which never changes, tells which one it is.

Some definitions are written the way they are so that they can be reasoned about:
a set minus the ids in use in place of a quantified exclusion (`SubId`), the
records of a file as a function of the cell's number (`Encoded`), recursive
functions in place of recursive operators (`Decode`, `Feeding`). They mean what
they meant.

Only model-checked:

- liveness and fairness, which the proof system does not reach;
- what `FrameDecoder`, `Paging`, `CodeBatches`, `PriceAdjustment` and
  `ShortlineRows` compute, by loops over their input, for which the induction has
  not been done (`FoldInduction` has what it would take);
- the sums of `SlotMemory`; `Pins` and `EngineHost`;
- `ClientFacade`, `ClientRegistry`, `Subscription`, `Surfaces`, `F10Requests`,
  `HostProbe` and `HostRanking`, and that a failover reaches a living host
  (`FailoverReachesALivingHost`, under `ProbesAreWhole`);
- `MCParts.TypeOK`, which has a conjunct for every part. The invariants above
  contain the types of the parts they are about.

## Not modelled, and the plan

Not modelled: the engine's close beside a heartbeat; several pins of one engine,
which differ by their Slot and share permits as Admission has them; the division
of a deadline among endpoints; widths of counters other than the refresh
identities; command codecs (`eltdx-protocol` request, response and unit modules,
`mac/commands.py`, `ex` codecs), field tables, the conversion of records, the
gbbq cipher, diagnostics snapshots, and scripts. They keep no state that two
actors share, and the repository's fixtures cover them.

Not modelled although it keeps state: the event the gateway sends when a poll
fails (http_server.py:204-218), a second `run()` of one subscription, and
`series()` beside a close, which may open the auction transport again
(`OneEngine` speaks of the engines a client uses, not of one opened after its
close). The gateway of run `python` has one request of a client under way; that
replies keep their order when there are more is proved (`GatewayReplies`), not
run.

What would come next, in this order: proofs about Pins (`OnlyTheOwnerIsOnTheWire`, `ServedInOrder`); about
EngineHost (`OneRuntime`); an abstract one-request engine that RuntimeCore
implements.
