------------------------------- MODULE MCParts -------------------------------
(***************************************************************************)
(* The components of the Python package, and those of the runtime that are *)
(* checked by themselves, each on a small instance.  They share no state - *)
(* every one of them owns its files, locks and sockets - so a behaviour    *)
(* takes one of them, chosen at the start as the part, through its steps;  *)
(* the others stay in their first state.                                   *)
(***************************************************************************)
EXTENDS Integers, Sequences, FiniteSets, TLC

CONSTANTS
    Parts,     \* the components this instance takes through their steps
    \* QuoteSessions, HostProbe, HostRanking
    NHosts, Commands, MaxLate, Kinds, Probed, Threads,
    NRanked, Probers, MaxProbes,
    \* ClientFacade, Subscription, Paging, CodeBatches
    Users, Markets, MaxClientOps, PoolSize, Subscribers,
    PageSize, MaxSize, MaxPages, Codes, MaxAsked, RecoveryRequests, Capacity, BatchSizes,
    \* F10Requests, MoneyFlow, HelperPlans, BoardCache, OfflineFiles
    MaxItems, PageItems, PageLimit, Addresses, NCandidates, FlowProbes, BudgetCodes,
    Workers, MaxCloses, HelperUsers, HelperNames, Lacking, LastDay, MaxHelperCalls,
    BoardCallers, Days, MaxBoardCalls, MaxRestarts, Writers, Dates, MaxFileOps, MaxCrashes,
    \* PriceAdjustment, ShortlineRows
    LastSession, MaxChanges, Closes, FirstDays, Target, Listings,
    \* ClientRegistry, HttpGateway
    ClientKeys, Callers, MaxClients, MaxCalls,
    Sockets, MaxRequests, MaxPushes, MaxResponses, MaxEvents, Ahead,
    \* Admission
    Requests, MaxPendingRequests, MaxEpoch,
    \* SlotWire, SlotMemory
    NEndpoints, MaxExchanges, MaxUnasked, FlowIds, RefreshIds, FrameBudget,
    Readers, RawMax, Staging, DecodedMax, Share, FrameRaw, FrameDecoded,
    \* EngineHost
    HostThreads, MaxRuntimes, MaxHostCalls, HostCapacity, MaxStartFailures, MaxFatals,
    \* Pins
    PinCalls, FewerCalls, PinOthers, PinClosers, MaxPinWaiting, Interrupted,
    \* FrameDecoder
    MaxPayload, MaxBuffer, MaxResync, QueueFrames, MaxPieces

VARIABLES
    part,
    kind, current, line, linked, marks, order, probed, preferred, call, answer, steady, streak,
    early, job, succeeded, sock, registered, collector, collected,
    oneProcess, ranking, rankWriter, prober, begun, failedInARow,
    pools, auction, built, engineLock, decimalLock, loaded, registry, made, user, clientOps,
    calm, groups, sub, free, epoch, precision,
    loop, wanted, size, atStart, host, read,
    batch, server, recovery, fan, batchAnswer,
    method, mistaken, listing, todo, sent, pageNo, table, sockets, reply,
    layout, holder, dedicated, flowPreferred, flowCall, task, flowOpen, closes,
    today, remembered, statsLock, helping, helperOps,
    marketDate, disk, memory, tried, board, boardOps,
    format, cells, durable, fileWriter, fileLoaded, fileOps, crashes,
    request, changes, priced,
    limitDays, security, stat, stat2, quote, indicator,
    entries, pending, constructing, closing, caller, closer, open,
    handler, responses, events, ready, closed, writer, client, subscribers, pump,
    orphans, pushed, queue, missed,
    entry, wrong, stages, held, thread, outcome,
    queueEpoch, sealed, idle, waiting, pinWaiting, ownership, activeBySlot, permitCounter,
    leaseCounter, handles, elapsed, queueOutcome,
    repeats, slot, rotation, worker, used, inbound, asked, unasked, taken, routed, dialled,
    raw, decoded, reader, permit,
    engine, runtimes, connects, closings, hostThread, calls,
    health, pin, lease, globalLine, localLine, activeCall, state, plan, tries, late,
    closeWaiters, replied, work, directive, pinWorker, reports, admitted,
    stream, arrived, buffer, discarded, frames, fault, settled

\* Where something is proved of a component for every value of its constants,
\* the instance is that of its proofs, which extend it: the theorems of
\* PartsProofs cite those of the component as Client!HelperWords and the like.

Sessions == INSTANCE GatewayProofs
Probe == INSTANCE HostProbe WITH caller <- collector
Ranks == INSTANCE HostRanking WITH writer <- rankWriter
Facade == INSTANCE ClientFacade
Subs == INSTANCE Subscription
Loops == INSTANCE Paging
Batches == INSTANCE CodeBatches WITH answer <- batchAnswer
F10 == INSTANCE F10Requests

\* MoneyFlowService on a client of one host and two lines: a batch of two
\* codes, and (Flows) two calls at a time.
Client == INSTANCE ClientProofs WITH
    Calls <- << <<"a", "b">> >>, Layouts <- {[servers |-> 1, per |-> 2]},
    MaxProbes <- FlowProbes,
    preferred <- flowPreferred, call <- flowCall, open <- flowOpen,
    writer <- fileWriter, loaded <- fileLoaded
Flows == INSTANCE ClientProofs WITH
    Calls <- << <<"a">>, <<"b">> >>, Layouts <- {[servers |-> 1, per |-> 2]},
    MaxProbes <- FlowProbes,
    preferred <- flowPreferred, call <- flowCall, open <- flowOpen,
    writer <- fileWriter, loaded <- fileLoaded
Prices == INSTANCE PriceAdjustment
Rows == INSTANCE ShortlineRows
Registry == INSTANCE ClientRegistry
Gateway == INSTANCE GatewayProofs
Faces == INSTANCE Surfaces

\* One Slot, and requests that wait for it.
Queue == INSTANCE Admission WITH
    PoolSize <- 1, epoch <- queueEpoch, outcome <- queueOutcome

Wire == INSTANCE SlotWireProofs WITH tried <- dialled
Memory == INSTANCE SlotMemory
Engine == INSTANCE EngineHost WITH thread <- hostThread
Decoder == INSTANCE FrameDecoder WITH at <- arrived

\* A pin with a long line where no I/O fails, and one with a short line where
\* it may.
Pin == INSTANCE Pins WITH
    Calls <- PinCalls, Others <- PinOthers, Closers <- PinClosers,
    MaxWaiting <- MaxPinWaiting, Cancellable <- Interrupted, MayFail <- FALSE
WeakPin == INSTANCE Pins WITH
    Calls <- FewerCalls, Others <- PinOthers, Closers <- PinClosers,
    MaxWaiting <- MaxPinWaiting, Cancellable <- Interrupted \ PinOthers, MayFail <- TRUE

ASSUME SmallAssumption ==
    /\ Sessions!SessionAssumption /\ Probe!ProbeAssumption /\ Ranks!RankingAssumption
    /\ Facade!ClientAssumption /\ Subs!SubscriptionAssumption /\ Loops!PagingAssumption
    /\ Batches!BatchAssumption /\ F10!F10Assumption /\ Client!MoneyFlowAssumption
    /\ Flows!MoneyFlowAssumption
    /\ Client!HelperAssumption /\ Client!BoardAssumption /\ Client!OfflineAssumption
    /\ Registry!RegistryAssumption /\ Gateway!GatewayAssumption
    /\ Prices!AdjustmentAssumption /\ Rows!RowAssumption
    /\ Wire!WireAssumption /\ Memory!MemoryAssumption /\ Engine!EngineAssumption
    /\ Pin!PinAssumption /\ WeakPin!PinAssumption /\ Decoder!DecoderAssumption

\* The first state of a part; the variables with several first values keep one
\* of them in the behaviours of the other parts.
Init ==
    /\ part \in Parts
    /\ Client!HelpersInit /\ Client!BoardInit /\ Registry!RegistryInit
    /\ Gateway!GatewayInit /\ Queue!Init /\ Memory!MemoryInit /\ Engine!EngineInit
    /\ part # "boards" => disk.definitions
    /\ Wire!SlotInit /\ (part # "wire" => repeats)
    /\ part # "sessions" => Sessions!SessionInit /\ kind = "mac"
    /\ part # "probe" => Probe!ProbeInit /\ early
    /\ part # "ranks" => Ranks!RankingInit /\ oneProcess
    /\ part # "facade" => Facade!ClientInit /\ \A p \in Facade!Pools : pools[p].probed
    /\ part # "subs" => Subs!SubscriptionInit /\ calm /\ \A s \in Subscribers : groups[s] = 1 /\ sub[s].tolerant
    /\ part # "loops" => Loops!PagingInit /\ loop = Loops!MacFileLoop /\ size = 0
    /\ part # "batches" => Batches!BatchInit /\ batch.way = "recover" /\ batch.asked = <<"a">> /\ ~batch.skip
                           /\ \A c \in Codes : server[c] = "data"
    /\ part # "f10" => F10!F10Init /\ method = F10!stock_info /\ mistaken = "nothing"
    /\ part \notin {"flow", "flows"} =>
          Client!FlowInit /\ \A c \in DOMAIN holder : holder[c] = Client!Nobody
    /\ part # "offline" => Client!OfflineInit /\ format = "daily"
    /\ part # "faces" => Faces!SurfaceInit /\ entry = (CHOOSE e \in Faces!AllEntries : TRUE)
                         /\ wrong = "nothing"
    /\ part # "prices" => Prices!AdjustmentInit /\ request = [op |-> "kline", provider |-> FALSE]
                          /\ changes = <<>>
    /\ part # "weakpin" => Pin!PinsInit
    /\ part = "weakpin" => WeakPin!PinsInit
    /\ part # "frames" => stream = <<>> /\ Decoder!DecoderInit
    /\ part = "frames" => Decoder!DecoderInit
    /\ part # "rows" => Rows!RowInit /\ limitDays = {} /\ security = "main" /\ stat = 0
                        /\ stat2 = 0 /\ quote = Rows!NoQuote
    /\ part = "sessions" => Sessions!SessionInit
    /\ part = "probe" => Probe!ProbeInit
    /\ part = "ranks" => Ranks!RankingInit
    /\ part = "facade" => Facade!ClientInit
    /\ part = "subs" => Subs!SubscriptionInit
    /\ part = "loops" => Loops!PagingInit
    /\ part = "batches" => Batches!BatchInit
    /\ part = "f10" => F10!F10Init
    /\ part = "flow" => Client!FlowInit
    /\ part = "flows" => Flows!FlowInit
    /\ part = "offline" => Client!OfflineInit
    /\ part = "faces" => Faces!SurfaceInit
    /\ part = "prices" => Prices!AdjustmentInit
    /\ part = "rows" => Rows!RowInit

sessionVars == <<kind, current, line, linked, marks, order, probed, preferred, call, answer,
                 steady, streak>>
probeVars == <<early, job, succeeded, sock, registered, collector, collected>>
rankingVars == <<oneProcess, ranking, rankWriter, prober, begun, failedInARow>>
clientVars == <<pools, auction, built, engineLock, decimalLock, loaded, registry, made, user,
                clientOps>>
subVars == <<calm, groups, sub, free, epoch, precision>>
pagingVars == <<loop, wanted, size, atStart, host, read>>
batchVars == <<batch, server, recovery, fan, batchAnswer>>
f10Vars == <<method, mistaken, listing, todo, sent, pageNo, table, sockets, reply>>
flowVars == <<layout, holder, dedicated, flowPreferred, flowCall, task, flowOpen, closes>>
helperVars == <<today, remembered, statsLock, helping, helperOps>>
boardVars == <<marketDate, disk, memory, tried, board, boardOps>>
offlineVars == <<format, cells, durable, fileWriter, fileLoaded, fileOps, crashes>>
adjustmentVars == <<request, changes, priced>>
rowVars == <<limitDays, security, stat, stat2, quote, indicator>>
registryVars == <<entries, pending, constructing, closing, caller, closer, open>>
gatewayVars == <<handler, responses, events, ready, closed, writer, client, subscribers, pump,
                 orphans, pushed, queue, missed>>
surfaceVars == <<entry, wrong, stages, held, thread, outcome>>
queueVars == <<queueEpoch, sealed, idle, waiting, pinWaiting, ownership, activeBySlot,
               permitCounter, leaseCounter, handles, elapsed, queueOutcome>>
wireVars == <<repeats, slot, rotation, worker, used, inbound, asked, unasked, taken, routed,
              dialled>>
memoryVars == <<raw, decoded, reader, permit>>
hostVars == <<engine, runtimes, connects, closings, hostThread, calls>>
pinVars == <<health, pin, lease, globalLine, localLine, activeCall, state, plan, tries, late,
             closeWaiters, replied, work, directive, pinWorker, reports, admitted>>
decoderVars == <<stream, arrived, buffer, discarded, frames, fault, settled>>

vars == <<part, sessionVars, probeVars, rankingVars, clientVars, subVars, pagingVars, batchVars,
          f10Vars, flowVars, helperVars, boardVars, offlineVars, adjustmentVars, rowVars, registryVars, gatewayVars,
          surfaceVars, queueVars, wireVars, memoryVars, hostVars, pinVars, decoderVars>>

\* Bounds of the board service: after the last call nothing is of interest, so a
\* process ends in a call after which another comes (where none is under way its
\* end does no more than clear_cache); and two calls are under way at a time only
\* where the definitions are.
InSomeCall == \E c \in BoardCallers : board[c].at # "idle"
BoardBound ==
    /\ InSomeCall \/ boardOps.calls < MaxBoardCalls
    /\ boardOps'.restarts > boardOps.restarts => InSomeCall /\ boardOps.calls < MaxBoardCalls
    /\ boardOps'.calls > boardOps.calls => disk.definitions \/ ~InSomeCall

Next ==
    /\ UNCHANGED part
    /\ IF part = "sessions" THEN Sessions!SessionNext ELSE UNCHANGED sessionVars
    /\ IF part = "probe" THEN Probe!ProbeNext ELSE UNCHANGED probeVars
    /\ IF part = "ranks" THEN Ranks!RankingNext ELSE UNCHANGED rankingVars
    /\ IF part = "facade" THEN Facade!ClientNext ELSE UNCHANGED clientVars
    /\ IF part = "subs" THEN Subs!SubscriptionNext ELSE UNCHANGED subVars
    /\ IF part = "loops" THEN Loops!PagingNext ELSE UNCHANGED pagingVars
    /\ IF part = "batches" THEN Batches!BatchNext ELSE UNCHANGED batchVars
    /\ IF part = "f10" THEN F10!F10Next ELSE UNCHANGED f10Vars
    /\ IF part = "flow" THEN Client!FlowNext
       ELSE IF part = "flows" THEN Flows!FlowNext ELSE UNCHANGED flowVars
    /\ IF part = "helpers" THEN Client!HelpersNext ELSE UNCHANGED helperVars
    /\ IF part = "boards" THEN Client!BoardNext /\ BoardBound ELSE UNCHANGED boardVars
    /\ IF part = "offline" THEN Client!OfflineNext ELSE UNCHANGED offlineVars
    /\ IF part = "prices" THEN Prices!AdjustmentNext ELSE UNCHANGED adjustmentVars
    /\ IF part = "rows" THEN Rows!RowNext ELSE UNCHANGED rowVars
    /\ IF part = "registry" THEN Registry!RegistryNext ELSE UNCHANGED registryVars
    /\ IF part = "gateway" THEN Gateway!GatewayNext ELSE UNCHANGED gatewayVars
    /\ IF part = "faces" THEN Faces!SurfaceNext ELSE UNCHANGED surfaceVars
    /\ IF part = "queue" THEN Queue!Next ELSE UNCHANGED queueVars
    /\ IF part = "wire" THEN Wire!SlotNext ELSE UNCHANGED wireVars
    /\ IF part = "memory" THEN Memory!MemoryNext ELSE UNCHANGED memoryVars
    /\ IF part = "host" THEN Engine!EngineNext ELSE UNCHANGED hostVars
    /\ IF part = "pin" THEN Pin!PinsNext
       ELSE IF part = "weakpin" THEN WeakPin!PinsNext ELSE UNCHANGED pinVars
    /\ IF part = "frames" THEN Decoder!DecoderNext ELSE UNCHANGED decoderVars

\* A thread that can go on does: every wait inside one step ends by a timeout of
\* its transport, and a loop or a pool runs each task that can run.  Callers,
\* servers, a close() and crashes owe nothing.
Fairness ==
    /\ \A h \in 1 .. Probed : WF_probeVars(part = "probe" /\ Probe!Thread(h))
    /\ WF_probeVars(part = "probe" /\ Probe!Caller)
    /\ \A u \in Users : WF_clientVars(part = "facade" /\ Facade!UserStep(u))
    /\ \A s \in Subscribers : WF_subVars(part = "subs" /\ Subs!Thread(s))
    /\ \A t \in Client!Tasks : WF_flowVars(part = "flow" /\ Client!TaskStep(t))
    /\ \A t \in Flows!Tasks : WF_flowVars(part = "flows" /\ Flows!TaskStep(t))
    /\ \A t \in Callers : WF_registryVars(part = "registry" /\ Registry!CallerStep(t))
    /\ WF_registryVars(part = "registry" /\ Registry!LookForQuiet)
    /\ \A s \in Sockets : WF_gatewayVars(part = "gateway" /\ Gateway!HandlerStep(s))
                          /\ WF_gatewayVars(part = "gateway" /\ Gateway!WriterStep(s))
    /\ WF_gatewayVars(part = "gateway" /\ Gateway!PumpStep)
    /\ WF_gatewayVars(part = "gateway" /\ Gateway!OrphanPolls)
    /\ \A r \in Requests : WF_queueVars(part = "queue" /\ Queue!Elapse(r))
    /\ WF_queueVars(part = "queue" /\ Queue!ExpireWaiting)
    /\ \A t \in HostThreads : WF_hostVars(part = "host" /\ Engine!CallerStep(t))
    /\ \A r \in 1 .. MaxRuntimes :
          WF_hostVars(part = "host" /\ r \in 1 .. Len(runtimes) /\ Engine!CoreStep(r))
    /\ \A a \in 1 .. MaxHostCalls :
          WF_hostVars(part = "host" /\ a \in 1 .. Len(closings) /\ Engine!Elapse(a))
    /\ WF_pinVars(part = "weakpin" /\ WeakPin!HandleEvent)
    /\ WF_pinVars(part = "weakpin" /\ WeakPin!ExpireWaiting)
    /\ WF_pinVars(part = "weakpin" /\ WeakPin!WorkerSteps)
    /\ \A r \in FewerCalls \cup {"pin"} : WF_pinVars(part = "weakpin" /\ WeakPin!Elapse(r))

\* No service tells its threads apart; an instance may give those of several
\* parts the same names, since a behaviour takes one part through its steps.
ThreadSymmetry == Permutations(Users)

Spec == Init /\ [][Next]_vars
FairSpec == Spec /\ Fairness

-----------------------------------------------------------------------------

\* The variables of every component have their types.
TypeOK ==
    /\ part = "sessions" => Sessions!SessionTypeOK
    /\ part = "probe" => Probe!ProbeTypeOK
    /\ part = "ranks" => Ranks!RankingTypeOK
    /\ part = "facade" => Facade!ClientTypeOK
    /\ part = "subs" => Subs!SubscriptionTypeOK
    /\ part = "loops" => Loops!PagingTypeOK
    /\ part = "batches" => Batches!BatchTypeOK
    /\ part = "f10" => F10!F10TypeOK
    /\ part = "flow" => Client!MoneyFlowTypeOK
    /\ part = "flows" => Flows!MoneyFlowTypeOK
    /\ part = "helpers" => Client!HelpersTypeOK
    /\ part = "boards" => Client!BoardTypeOK
    /\ part = "offline" => Client!OfflineTypeOK
    /\ part = "prices" => Prices!AdjustmentTypeOK
    /\ part = "rows" => Rows!RowTypeOK
    /\ part = "registry" => Registry!RegistryTypeOK
    /\ part = "gateway" => Gateway!GatewayTypeOK
    /\ part = "faces" => Faces!SurfaceTypeOK
    /\ part = "wire" => Wire!SlotTypeOK
    /\ part = "memory" => Memory!MemoryTypeOK
    /\ part = "host" => Engine!EngineTypeOK
    /\ part = "pin" => Pin!PinsTypeOK
    /\ part = "weakpin" => WeakPin!PinsTypeOK
    /\ part = "frames" => Decoder!DecoderTypeOK

\* A client that was told of no failure gets the answer of its own command, on
\* whatever line and after whatever retry (mac/client.py, ex/client.py).  So does
\* an exchange of a Slot of the runtime, generation by generation (slot.rs), and
\* every frame it reads goes to one reader.
OwnAnswers ==
    /\ part = "sessions" => Sessions!OwnAnswers
    /\ part = "wire" => /\ Wire!AnswersAreTheirOwn /\ Wire!EveryFrameGoesOnce
                        /\ Wire!HandedOnClean /\ Wire!EveryEndpointGetsItsTurn

\* A probe leaves no thread, socket or registration behind, and the ranking on
\* disk is whole and has lost no probe that was written to it; whoever asked for
\* hosts in their order gets each of them once; and while one host answers, the
\* failover of a quote client reaches it.
ProbesAreWhole ==
    /\ part = "sessions" => Sessions!FailoverReachesALivingHost
    /\ part = "probe" => Probe!ProbeLeavesNothing
    /\ part = "ranks" =>
          Ranks!RankingIsWhole /\ Ranks!NoProbeIsLost /\ Ranks!CallersGetTheirHosts

\* What is read in pages or halves comes whole and in order, or fails: a listing
\* that grows while it is read, one a gateway cuts, a batch with missing codes; and the
\* frames of a connection, however the network splits them (frame.rs).
AnswersAreWhole ==
    /\ part = "loops" => Loops!NothingIsSkipped /\ Loops!JoinedInOrder
    /\ part = "f10" => F10!MembersAreWhole
    /\ part = "batches" => Batches!RecoveredExactly
    /\ part = "frames" => Decoder!FramesAreTheStreams /\ Decoder!NeverFullOfNothing

\* The connections a subscription pinned go back to the pool once, however its
\* run ends and whatever becomes of the engine meanwhile; and one that has the
\* client to itself never waits for a connection that it holds itself.  In the
\* runtime a pinned Slot carries its owner's bytes only, the pin's calls are
\* served in their order, and a closed pin has given its Slot back (pin.rs).
PinsAreGivenBack ==
    /\ part = "subs" => Subs!PinsAreGivenBack /\ Subs!AloneItActivates
    /\ part = "pin" => /\ Pin!OnlyTheOwnerIsOnTheWire /\ Pin!EverybodyHasAPlace
                       /\ Pin!ServedInOrder /\ Pin!ClosedMeansReleased
    /\ part = "weakpin" => /\ WeakPin!OnlyTheOwnerIsOnTheWire /\ WeakPin!EverybodyHasAPlace
                           /\ WeakPin!ServedInOrder /\ WeakPin!ClosedMeansReleased

\* No call works on a client that is closed under it, no client or engine is
\* left that nobody closes, and no quote goes out before its precision is known.
\* An engine has one runtime at a time, closed for good once it failed (engine.rs).
ClientsLiveWhileUsed ==
    /\ part = "registry" => Registry!LeasedClientsAreSafe /\ Registry!NoClientIsLost
    /\ part = "facade" => Facade!OneEngine /\ Facade!PrecisionFirst
    /\ part = "host" => /\ Engine!OneRuntime /\ Engine!FailedStaysFailed
                        /\ Engine!AttemptsAreOfThisRuntime /\ Engine!NoInternalErrors

\* There is a pump exactly while somebody is subscribed, and a client reads the
\* replies to its requests in their order, before later events.
GatewaySessionsAreOrderly ==
    part = "gateway" => Gateway!PumpWhileSubscribed /\ Gateway!RepliesComeFirst

\* A code is given up as empty only after the hosts it may ask were asked, no
\* more of them than the limits allow, and every transport opened is closed.
EmptyWasLookedFor ==
    /\ part = "flow" => Client!EmptyWasLookedFor /\ Client!ProbesAreBounded
    /\ part = "flows" => Flows!EmptyWasLookedFor /\ Flows!ProbesAreBounded

\* A helper answers from statistics of the days it resolved, and no source it
\* can do without costs the call.
HelpersKeepTheirWord ==
    part = "helpers" => Client!HelpersKeepTheirWord

\* Prices adjusted for capital changes have no jump and keep every return, and
\* limits are taken from the adjusted close, for the three places that compute
\* it; a row of statistics speaks of the session it names, whatever day its file
\* is of.
PricesAgree ==
    /\ part = "prices" => Prices!FactorsLeaveNoJump /\ Prices!LimitIsOfTheAdjustedClose /\ Prices!ReturnsAreKept
    /\ part = "rows" => Rows!YesterdayIsYesterday /\ Rows!LadderCountsToday

\* After any crash what is on disk says what happened: a date of the board cache
\* that every file and the table were asked for on that day (boards.py; not that
\* they are whole), a bar file only records that were written, and all that the
\* daily writer reported (offline/vipdoc.py); an archive is refused before it is
\* unpacked.
FilesSurviveCrashes ==
    /\ part = "boards" => Client!DateSaysWhatWasAsked
    /\ part = "offline" => Client!ReadersSeeWholeRecords /\ Client!WrittenDailyBarsSurvive /\ Client!ArchivesAreRefusedInTime

\* Whatever fails, a call that is over holds no client, socket or thread, and
\* one with a wrong argument asked nobody; a worker that drops its connection
\* keeps none of the shared memory, and does not sleep beside memory that is
\* free (memory.rs).
CallsLeaveNothing ==
    /\ part = "faces" => Faces!SurfacesAreTidy /\ Faces!RefusedBeforeTheNetwork
    /\ part = "f10" => F10!F10IsTidy
    /\ part = "batches" => Batches!FansAreWhole
    /\ part = "memory" => Memory!MemoryIsAccounted /\ Memory!SomebodyIsAwake

\* Every tool call, client call, request, stop, probe and search for data comes
\* to its end, whoever waits for whom and whatever fails.
CallsEnd ==
    /\ Registry!RegistryCallsEnd /\ Facade!ClientCallsEnd /\ Gateway!GatewayAnswers
    /\ Subs!StopEnds /\ Engine!EngineCallsReturn /\ WeakPin!PinCallsEnd
    /\ \A t \in Client!Tasks \cup Flows!Tasks :
          t \in DOMAIN task /\ task[t].at = "recover"
             ~> (t \in DOMAIN task => Client!Ended(t) /\ flowCall[t[1]].lock # t[2])
    /\ part = "probe" => Probe!ProbeEnds

\* No request waits for ever: its deadline passes, and the tick sweeps it.
WaitersLeave == Queue!WaitersLeave
=============================================================================
